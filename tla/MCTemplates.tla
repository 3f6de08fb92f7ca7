---------------------------- MODULE MCTemplates ----------------------------
EXTENDS Templates

\* Two template ids and four layouts: both timestamps (cflowd compatible);
\* both timestamps, an enterprise field (PEN bit set) and then an 8-byte
\* octetDeltaCount the cflowd record truncates to 4, a 1-byte
\* protocolIdentifier and a 2-byte sourceTransportPort; an IPv6 layout (a
\* 16-byte field); and two enterprise fields (both named RESERVED).
\* Options templates give the incompatible case.
MCTIds == {256, 257}
MCLayouts == {<<152, 153, 32920, 1, 4, 7>>, <<27, 152, 153>>,
              <<32920, 152, 153, 32921>>}


\* An exporter that follows RFC 7125, where tcpControlBits (6) is 2 bytes.
MCTcpLayouts == {<<152, 153, 6>>}
MCFieldLen7125(f) == CASE f = 6                 -> 2
                       [] f \in {152, 153}      -> 8
                       [] OTHER                 -> 4

=============================================================================
