---------------------------- MODULE MCV5Convert ----------------------------
(* Model values and link sets for checking V5Convert with TLC.            *)
EXTENDS V5Convert

CONSTANTS ea, eb, p1, p2

\* Two exporters sending to one port, and one of them to a second port.
MCLinksMixed == {<<ea, p1>>, <<eb, p1>>, <<ea, p2>>}

\* One exporter sending to two ports: every byte-mover address it can
\* produce is the right one, so only the threads' interleaving shows.
MCLinksOneExporter == {<<ea, p1>>, <<ea, p2>>}
=============================================================================
