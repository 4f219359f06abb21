-------------------------------- MODULE Framing --------------------------------
(***************************************************************************)
(* The frames of the UART, byte by byte, as the gateway (Packet.hpp,        *)
(* PacketEncoder.cpp) and the MCU (BKEL_APP_protocol.c) lay them out:        *)
(*                                                                         *)
(*     SOF | SID | TYPE | DLC (2, little endian) | PAYLOAD | CID (2) | CRC    *)
(*                                                                         *)
(* The CRC covers everything between SOF and itself.  It is a parameter:     *)
(* what the parsers do is right for any check byte, and module Crc8 gives     *)
(* the one in use.                                                          *)
(***************************************************************************)
EXTENDS Naturals, Sequences

CONSTANTS
    MaxPayload, \* BKEL_MAX_PAYLOAD of the gateway, BKEL_MAX_DLC of the MCU
    Crc(_)      \* calc_crc8

ASSUME PayloadAssumption == MaxPayload \in Nat /\ MaxPayload < 65536

Byte == 0 .. 255
SOF_DATA_VALUE == 170       \* 0xAA
BKEL_SOF_SIZE == 1
BKEL_HDR_SIZE == 4
BKEL_CID_SIZE == 2
BKEL_CRC_SIZE == 1

uint16(lo, hi) == lo + 256 * hi

(* The length a header announces. *)
FrameLen(dlc) == BKEL_SOF_SIZE + BKEL_HDR_SIZE + dlc + BKEL_CID_SIZE + BKEL_CRC_SIZE

(* Nothing is built from a payload beyond the limit. *)
build_frame(sid, type, payload, cid) ==
    LET body == <<sid, type, Len(payload) % 256, Len(payload) \div 256>>
                    \o payload \o <<cid % 256, cid \div 256>>
    IN  IF Len(payload) > MaxPayload THEN <<>>
        ELSE <<SOF_DATA_VALUE>> \o body \o <<Crc(body)>>

-----------------------------------------------------------------------------
(* Reading at byte p of a sequence of bytes; enough of them must be there.   *)

DlcAt(s, p) == uint16(s[p + 3], s[p + 4])

LastAt(s, p) == p + FrameLen(DlcAt(s, p)) - 1

CrcMatches(s, p) == s[LastAt(s, p)] = Crc(SubSeq(s, p + 1, LastAt(s, p) - 1))

FrameAt(s, p) ==
    [sid |-> s[p + 1], type |-> s[p + 2], dlc |-> DlcAt(s, p),
     payload |-> SubSeq(s, p + 5, p + 4 + DlcAt(s, p)),
     cid |-> uint16(s[p + 5 + DlcAt(s, p)], s[p + 6 + DlcAt(s, p)])]

(* The bytes of s from p on begin with a whole frame that is as it was built. *)
Intact(s, p) ==
    /\ p + BKEL_HDR_SIZE <= Len(s)
    /\ s[p] = SOF_DATA_VALUE
    /\ DlcAt(s, p) <= MaxPayload
    /\ LastAt(s, p) <= Len(s)
    /\ CrcMatches(s, p)
=============================================================================
