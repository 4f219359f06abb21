------------------------------- MODULE MCBridge -------------------------------
(* Two clients with different CIDs, one MCU.                                *)
EXTENDS Bridge

CONSTANTS c1, c2

MCConns == {c1, c2}
MCCidOf == (c1 :> 1 @@ c2 :> 2)
MCOneConn == {c1}
MCOneCid == (c1 :> 1)
MCSids == {1, 16, 17, 32, 33}
MCDiag == {32, 33}
MCMenu == {17, 33}
MCPwmDiag == {33}
MCNone == {}
MCFrameCids == {1, 2, 7, 8}
MCOrigins == MCConns \cup {NoConn}
MCOneOrigins == MCOneConn \cup {NoConn}
MCFaults == FaultKind
MCPwmOnly == {"pwm_invalid"}

(* What a buffer in txQueue holds decides nothing: only how many there are.  *)
MCView == <<sessions, transport, rx, requestedSidQueue, toMcuQueue,
            [c \in Conns |-> Len(txQueue[c])], isBlocked, wire, lost>>
=============================================================================
