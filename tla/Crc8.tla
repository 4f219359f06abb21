--------------------------------- MODULE Crc8 ---------------------------------
(* calc_crc8: CRC-8 with polynomial 0x07, start value 0, no reflection; the   *)
(* gateway and the MCU have a copy each.                                     *)
EXTENDS Naturals, Sequences, Bitwise, SequencesExt

CRC8_POLY == 7

(* One turn of the inner loop on an 8-bit crc. *)
shiftBit(crc) == IF crc >= 128 THEN ((2 * crc) % 256) ^^ CRC8_POLY ELSE 2 * crc

(* The inner loop, for every value crc can have before it. *)
shiftByte == [crc \in 0 .. 255 |-> FoldLeft(LAMBDA c, bit : shiftBit(c), crc, [bit \in 1 .. 8 |-> bit])]

calc_crc8(data) == FoldLeft(LAMBDA crc, byte : shiftByte[crc ^^ byte], 0, data)
=============================================================================
