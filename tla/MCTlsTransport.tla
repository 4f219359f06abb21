---------------------------- MODULE MCTlsTransport ----------------------------
(* Two connections: one may come, go or stall while the other is served.      *)
EXTENDS TlsTransport

CONSTANTS c1, c2

MCConns == {c1, c2}
MCOneConn == {c1}
=============================================================================
