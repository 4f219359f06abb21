------------------------------- MODULE McuParser -------------------------------
(***************************************************************************)
(* The MCU's streaming parser: f_handleCommandTask (BKEL_APP_TaskM.c) with    *)
(* parse_packet, parse_one_frame and handle_frame (BKEL_APP_protocol.c).      *)
(*                                                                         *)
(* It works in a fixed array.  Only the first rx_len bytes of it belong to    *)
(* the stream; behind them is what earlier frames left, and parse_one_frame   *)
(* may look one byte too far.                                              *)
(***************************************************************************)
EXTENDS Framing, Integers

CONSTANTS
    Streams,    \* the byte sequences that may arrive
    BufSize,    \* sizeof(rx_buf)
    TempSize,   \* sizeof(temp), the largest chunk
    PacketSize  \* sizeof(parsed_packet.payload)

ASSUME StreamAssumption == Streams \subseteq Seq(Byte)
(* The array holds the longest frame, and a whole chunk behind four bytes. *)
ASSUME SizeAssumption ==
    /\ BufSize \in Nat /\ TempSize \in Nat \ {0} /\ PacketSize \in Nat
    /\ FrameLen(MaxPayload) <= BufSize
    /\ TempSize + BKEL_HDR_SIZE <= BufSize

VARIABLES
    stream,         \* what arrives, from the first byte to the last
    arrived,        \* how many bytes of it the stream buffer has handed over
    rx_buf, rx_len, \* the array and how much of it is filled
    parsing,        \* parse_packet is in its loop
    offset,         \* its local variable
    parsed_packet,  \* the packet shared with the workers
    base,           \* history: the bytes of the stream before rx_buf[0]
    handled,        \* history: the frames accepted, and the task woken for each
    early,          \* history: where a fifth byte that had not come decided
    overflows       \* history: the spans lost because they did not fit

mcuVars == <<stream, arrived, rx_buf, rx_len, parsing, offset, parsed_packet,
             base, handled, early, overflows>>

(* The sequence t written over the front of s. *)
Overlay(t, s) == [i \in DOMAIN s |-> IF i <= Len(t) THEN t[i] ELSE s[i]]

McuInit ==
    /\ stream \in Streams
    /\ arrived = 0
    /\ rx_buf = [i \in 1 .. BufSize |-> 0]
    /\ rx_len = 0
    /\ parsing = FALSE
    /\ offset = 0
    /\ parsed_packet = [sid |-> 0, type |-> 0, dlc |-> 0, cid |-> 0,
                        payload |-> [i \in 1 .. PacketSize |-> 0]]
    /\ base = 0
    /\ handled = {}
    /\ early = {}
    /\ overflows = {}

-----------------------------------------------------------------------------
(* f_handleCommandTask *)

(* n bytes fit: they are copied behind the others and parse_packet starts. *)
receive(n) ==
    /\ ~parsing
    /\ arrived + n <= Len(stream)
    /\ rx_len + n <= BufSize
    /\ rx_buf' = [i \in 1 .. BufSize |-> IF i \in (rx_len + 1) .. (rx_len + n)
                                         THEN stream[arrived + i - rx_len] ELSE rx_buf[i]]
    /\ rx_len' = rx_len + n
    /\ arrived' = arrived + n
    /\ parsing' = TRUE
    /\ offset' = 0
    /\ UNCHANGED <<stream, parsed_packet, base, handled, early, overflows>>

(* Mutant: the chunk is compared with the size of temp. *)
overflow_TempSize(n) ==
    /\ ~parsing
    /\ arrived + n <= Len(stream)
    /\ rx_len + n > TempSize
    /\ rx_len' = 0
    /\ arrived' = arrived + n
    /\ base' = arrived + n
    /\ overflows' = overflows \cup {[from |-> base + 1, to |-> arrived + n]}
    /\ UNCHANGED <<stream, rx_buf, parsing, offset, parsed_packet, handled, early>>

(* They do not: what was there is dropped, and so are they. *)
overflow(n) ==
    /\ ~parsing
    /\ arrived + n <= Len(stream)
    /\ rx_len + n > BufSize
    /\ rx_len' = 0
    /\ arrived' = arrived + n
    /\ base' = arrived + n
    /\ overflows' = overflows \cup {[from |-> base + 1, to |-> arrived + n]}
    /\ UNCHANGED <<stream, rx_buf, parsing, offset, parsed_packet, handled, early>>

-----------------------------------------------------------------------------
(* parse_packet and parse_one_frame at buf + offset *)

buf_len == rx_len - offset

HasSof == rx_buf[offset + 1] = SOF_DATA_VALUE

(* The bytes asked for are one less than SOF and header together. *)
HasHeader == buf_len >= BKEL_HDR_SIZE

(* hdr.dlc.  Its high byte is whatever the array holds there, or what lies     *)
(* behind the array.                                                        *)
Dlc == {uint16(rx_buf[offset + 4], hi) :
            hi \in IF offset + 5 <= BufSize THEN {rx_buf[offset + 5]} ELSE Byte}

(* SID and DLC are ones the MCU serves. *)
is_valid_dlc(f) ==
    \/ f.sid \in 32 .. 38                   \* DIAG_*
    \/ f.sid \in {16, 17} /\ f.dlc = 1      \* RPC_LD2_CONTROL, RPC_MCU_RESET
    \/ f.sid = 19 /\ f.dlc = 2              \* RPC_PWM_SETOUT
    \/ f.sid = 18 /\ f.dlc = 5              \* RPC_SPI_READ

(* The packet is filled and its worker woken, or the frame is ignored. *)
handle_frame(f) ==
    /\ handled' = handled \cup {[at |-> base + offset + 1, frame |-> f,
                                 task |-> IF ~is_valid_dlc(f) THEN "none"
                                          ELSE IF f.sid < 32 THEN "RPC" ELSE "DIAG"]}
    /\ parsed_packet' =
          IF is_valid_dlc(f)
          THEN [sid |-> f.sid, type |-> f.type, dlc |-> f.dlc, cid |-> f.cid,
                payload |-> Overlay(f.payload, parsed_packet.payload)]
          ELSE parsed_packet

(* Mutant: a damaged frame is skipped as a whole. *)
parseDrops_WholeFrame ==
    /\ parsing
    /\ offset < rx_len
    /\ \/ ~HasSof /\ offset' = offset + 1 /\ early' = early
       \/ /\ HasSof /\ HasHeader
          /\ \E dlc \in Dlc :
                \/ /\ dlc > MaxPayload
                   /\ offset' = offset + 1
                   /\ early' = IF buf_len = BKEL_HDR_SIZE
                               THEN early \cup {base + offset + 1} ELSE early
                \/ /\ dlc <= MaxPayload
                   /\ buf_len >= FrameLen(dlc)
                   /\ ~CrcMatches(rx_buf, offset + 1)
                   /\ offset' = offset + FrameLen(dlc)
                   /\ early' = early
    /\ UNCHANGED <<stream, arrived, rx_buf, rx_len, parsing, parsed_packet, base,
                   handled, overflows>>

(* PARSE_INVALID: no SOF, a DLC beyond the limit, a wrong CRC. *)
parseDrops ==
    /\ parsing
    /\ offset < rx_len
    /\ \/ ~HasSof /\ early' = early
       \/ /\ HasSof /\ HasHeader
          /\ \E dlc \in Dlc :
                \/ /\ dlc > MaxPayload
                   /\ early' = IF buf_len = BKEL_HDR_SIZE
                               THEN early \cup {base + offset + 1} ELSE early
                \/ /\ dlc <= MaxPayload
                   /\ buf_len >= FrameLen(dlc)
                   /\ ~CrcMatches(rx_buf, offset + 1)
                   /\ early' = early
    /\ offset' = offset + 1
    /\ UNCHANGED <<stream, arrived, rx_buf, rx_len, parsing, parsed_packet, base,
                   handled, overflows>>

(* Mutant: the length is compared with the whole array. *)
parseAccepts_BeyondLength ==
    /\ parsing
    /\ offset < rx_len
    /\ HasSof /\ HasHeader
    /\ \E dlc \in Dlc :
          /\ dlc <= MaxPayload
          /\ BufSize - offset >= FrameLen(dlc)
          /\ CrcMatches(rx_buf, offset + 1)
          /\ handle_frame(FrameAt(rx_buf, offset + 1))
          /\ offset' = offset + FrameLen(dlc)
    /\ UNCHANGED <<stream, arrived, rx_buf, rx_len, parsing, base, early, overflows>>

(* PARSE_OK *)
parseAccepts ==
    /\ parsing
    /\ offset < rx_len
    /\ HasSof /\ HasHeader
    /\ \E dlc \in Dlc :
          /\ dlc <= MaxPayload
          /\ buf_len >= FrameLen(dlc)
          /\ CrcMatches(rx_buf, offset + 1)
          /\ handle_frame(FrameAt(rx_buf, offset + 1))
          /\ offset' = offset + FrameLen(dlc)
    /\ UNCHANGED <<stream, arrived, rx_buf, rx_len, parsing, base, early, overflows>>

(* Nothing is left, or PARSE_INCOMPLETE: the rest moves to the front. *)
parseEnds ==
    /\ parsing
    /\ offset < rx_len =>
          /\ HasSof
          /\ HasHeader => \E dlc \in Dlc : dlc <= MaxPayload /\ buf_len < FrameLen(dlc)
    /\ rx_buf' = [i \in 1 .. BufSize |-> IF i <= buf_len THEN rx_buf[i + offset] ELSE rx_buf[i]]
    /\ rx_len' = buf_len
    /\ base' = base + offset
    /\ offset' = 0
    /\ parsing' = FALSE
    /\ UNCHANGED <<stream, arrived, parsed_packet, handled, early, overflows>>

McuNext ==
    \/ \E n \in 1 .. TempSize : receive(n) \/ overflow(n)
    \/ parseDrops
    \/ parseAccepts
    \/ parseEnds

McuSpec == McuInit /\ [][McuNext]_mcuVars

-----------------------------------------------------------------------------
(* Type invariant. *)
McuTypeOK ==
    /\ stream \in Seq(Byte)
    /\ arrived \in 0 .. Len(stream)
    /\ rx_buf \in [1 .. BufSize -> Byte]
    /\ rx_len \in 0 .. BufSize
    /\ parsing \in BOOLEAN
    /\ offset \in 0 .. rx_len
    /\ base \in 0 .. arrived
    /\ early \subseteq 1 .. Len(stream)

(* parse_packet has passed these bytes, or they were dropped. *)
Passed == 1 .. base + offset

(* Every frame handled was on the wire in one piece, whatever the bytes behind   *)
(* rx_len happen to be, and parsed_packet holds the last one a worker was woken  *)
(* for (the length and CRC tests of parse_one_frame, the copy in handle_frame).  *)
OnlyIntactHandled ==
    /\ \A h \in handled : /\ Intact(stream, h.at)
                          /\ h.frame = FrameAt(stream, h.at)
                          /\ LastAt(stream, h.at) <= base + offset
    /\ \A h \in handled :
          h.task # "none" /\ (\A g \in handled : g.at > h.at => g.task = "none") =>
              /\ parsed_packet.sid = h.frame.sid
              /\ parsed_packet.cid = h.frame.cid
              /\ \A i \in 1 .. PacketSize :
                    i <= h.frame.dlc => parsed_packet.payload[i] = h.frame.payload[i]

(* An intact frame that was passed without being handled begins inside one that   *)
(* was, or fell to one of the two defects of this parser: it was judged with only *)
(* four of its bytes there, or lost with a buffer that overflowed.  No damage     *)
(* before it and no other chunking costs a frame.                              *)
LostOnlyEarlyOrOverflowing ==
    \A p \in Passed : Intact(stream, p) =>
        \/ \E h \in handled : h.at <= p /\ p < h.at + FrameLen(h.frame.dlc)
        \/ p \in early
        \/ \E o \in overflows : o.from <= p /\ p <= o.to

(* A buffer is given up only when a header at its front announced more than a     *)
(* chunk less than its size: shorter frames never wait for an overflow (the        *)
(* overflow check of f_handleCommandTask with the waiting in parse_packet).       *)
OverflowOnlyBehindLongFrame ==
    \A o \in overflows :
        /\ stream[o.from] = SOF_DATA_VALUE
        /\ FrameLen(DlcAt(stream, o.from)) > BufSize - TempSize
        /\ DlcAt(stream, o.from) <= MaxPayload

(* What ALL_APP_API_SPEC.md says of a candidate with a bad DLC: it is dropped     *)
(* because the DLC it carries is abnormal.                                      *)
OnlyAbnormalDlcDiscarded ==
    \A p \in early : p + BKEL_HDR_SIZE <= Len(stream) => DlcAt(stream, p) > MaxPayload
=============================================================================
