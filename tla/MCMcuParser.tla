------------------------------ MODULE MCMcuParser ------------------------------
(* Streams of up to three pieces: a false header within the limit or beyond it,  *)
(* or noise; a request with an SOF in its payload, one the MCU ignores or a      *)
(* damaged one; and a request.                                                *)
EXTENDS McuParser, Crc8

MCDiag == build_frame(34, 2, <<>>, 17)
MCRpc == build_frame(19, 1, <<SOF_DATA_VALUE, 5>>, 18)
MCIgnored == build_frame(16, 1, <<1, 2, 3, 4>>, 19)
MCBadCrc == [MCDiag EXCEPT ![8] = (@ + 1) % 256]
MCFalse == <<SOF_DATA_VALUE, 1, 3, 4, 0>>
MCTooLong == <<SOF_DATA_VALUE, 1, 3, 0, 9>>
MCNoise == <<7, 7, 7, 7, 7>>
MCBefore == {<<>>, MCFalse, MCTooLong, MCNoise}
MCMiddle == {MCRpc, MCIgnored, MCBadCrc}
MCAfter == {<<>>, MCDiag, MCRpc}
MCStreams == {a \o b \o c : a \in MCBefore, b \in MCMiddle, c \in MCAfter}

(* A request behind a burst of noise, for the sizes of the firmware. *)
MCAfterNoise == {MCNoise \o MCDiag}
=============================================================================
