----------------------------- MODULE MCPipeline -----------------------------
(* Bounds and datagram mixes for checking Pipeline with TLC.               *)
EXTENDS Pipeline

\* Well-formed traffic of both versions plus the datagrams that are skipped.
MCKindsGood == {"v5", "v10", "v10_tmpl", "v10_long", "short"}

\* Well-formed traffic of both versions only.
MCKindsWellFormed == {"v5", "v10"}

\* Truncated IPFIX and truncated NetFlow v5 among well-formed IPFIX.
MCKindsMalformed == {"v10", "v10_bad", "v5_short"}

\* IPFIX data only; NetFlow v5 only.
MCKindsV10 == {"v10"}
MCKindsV5  == {"v5"}
=============================================================================
