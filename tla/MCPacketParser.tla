---------------------------- MODULE MCPacketParser ----------------------------
(* Streams of up to three pieces: whole frames (one with an SOF in its        *)
(* payload), a damaged one, a truncated one, a false header within the limit   *)
(* and one beyond it, a lone SOF and noise.                                  *)
EXTENDS PacketParser, Crc8

MCGood == build_frame(32, 2, <<>>, 17)
MCInner == build_frame(34, 2, <<SOF_DATA_VALUE, 5>>, 18)
MCBadCrc == [MCGood EXCEPT ![8] = (@ + 1) % 256]
MCCut == SubSeq(MCInner, 1, 6)
MCFalse == <<SOF_DATA_VALUE, 1, 3, 2, 0>>
MCTooLong == <<SOF_DATA_VALUE, 1, 3, 0, 1>>
MCPieces == {<<>>, MCGood, MCInner, MCBadCrc, MCCut, MCFalse, MCTooLong,
             <<SOF_DATA_VALUE>>, <<7>>}
MCStreams == {a \o b \o c : a, b, c \in MCPieces}
=============================================================================
