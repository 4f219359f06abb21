--------------------------- MODULE MCSessionManager ---------------------------
(* Two connections announce the same CID, the GUI's default; a third has a   *)
(* larger one.                                                              *)
EXTENDS SessionManager, TLC

CONSTANTS c1, c2, c3

MCConns == {c1, c2}
MCCidOf == (c1 :> 1 @@ c2 :> 1)
MCConns3 == {c1, c2, c3}
MCCidOf3 == (c1 :> 1 @@ c2 :> 1 @@ c3 :> 2)
MCSids == {16, 32, 33}
MCFrameCids == {7}
MCOrigins == {NoConn}
MCSymmetry == Permutations({c1, c2})
=============================================================================
