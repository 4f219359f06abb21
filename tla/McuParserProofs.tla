---------------------------- MODULE McuParserProofs ----------------------------
(* The MCU's parser handles intact frames only, for every byte stream, cut into  *)
(* chunks in any way, and for every size of its buffers, payload limit and check *)
(* byte; what it loses, it loses in one of two ways.                           *)
EXTENDS McuParser, SequenceTheorems, TLAPS

-----------------------------------------------------------------------------
(* The same bytes at two places                                            *)

(* From b[p] and from s[q] on the next n bytes are the same. *)
SameBytes(b, p, s, q, n) ==
    /\ p + n - 1 <= Len(b) /\ q + n - 1 <= Len(s)
    /\ \A i \in 0 .. n - 1 : b[p + i] = s[q + i]

(* The parts from the k-th to the m-th of them are equal. *)
SameSubSeq(b, p, s, q, k, m) == SubSeq(b, p + k, p + m) = SubSeq(s, q + k, q + m)

LEMMA PartReads ==
  ASSUME NEW s \in Seq(Byte), NEW p \in Nat \ {0}, NEW k \in Nat, NEW m \in Nat, p + m <= Len(s),
         NEW l \in Nat, l = IF k <= m THEN m - k + 1 ELSE 0
  PROVE  /\ SubSeq(s, p + k, p + m) \in Seq(Byte) /\ Len(SubSeq(s, p + k, p + m)) = l
         /\ \A i \in 1 .. l : SubSeq(s, p + k, p + m)[i] = s[p + (k + i - 1)]
<1> DEFINE x == SubSeq(s, p + k, p + m)
<1>1. \A i \in (p + k) .. (p + m) : s[i] \in Byte
  OBVIOUS
<1>2. /\ x \in Seq(Byte) /\ Len(x) = IF p + k <= p + m THEN p + m - (p + k) + 1 ELSE 0
      /\ \A i \in 1 .. p + m - (p + k) + 1 : x[i] = s[p + k + i - 1]
  <2>1. p + k \in Int /\ p + m \in Int
    OBVIOUS
  <2> QED
    BY <1>1, <2>1, SubSeqProperties
<1>3. \A i \in 1 .. l : i \in 1 .. p + m - (p + k) + 1 /\ p + k + i - 1 = p + (k + i - 1)
  OBVIOUS
<1>4. l = IF p + k <= p + m THEN p + m - (p + k) + 1 ELSE 0
  OBVIOUS
<1> HIDE DEF x
<1> QED
  BY <1>2, <1>3, <1>4 DEF x

LEMMA SamePart ==
  ASSUME NEW b \in Seq(Byte), NEW s \in Seq(Byte), NEW p \in Nat \ {0}, NEW q \in Nat \ {0},
         NEW n \in Nat, SameBytes(b, p, s, q, n)
  PROVE  \A k, m \in Nat : m < n => SameSubSeq(b, p, s, q, k, m)
<1> SUFFICES ASSUME NEW k \in Nat, NEW m \in Nat, m < n
             PROVE  SubSeq(b, p + k, p + m) = SubSeq(s, q + k, q + m)
  BY DEF SameSubSeq
<1> DEFINE x == SubSeq(b, p + k, p + m)
           y == SubSeq(s, q + k, q + m)
<1>1. PICK l \in Nat : l = IF k <= m THEN m - k + 1 ELSE 0
  <2>1. (IF k <= m THEN m - k + 1 ELSE 0) \in Nat
    OBVIOUS
  <2> QED
    BY <2>1, Zenon
<1>2. p + m <= Len(b) /\ q + m <= Len(s)
  BY DEF SameBytes
<1>3. x \in Seq(Byte) /\ Len(x) = l /\ \A i \in 1 .. l : x[i] = b[p + (k + i - 1)]
  BY <1>1, <1>2, PartReads
<1>4. y \in Seq(Byte) /\ Len(y) = l /\ \A i \in 1 .. l : y[i] = s[q + (k + i - 1)]
  BY <1>1, <1>2, PartReads
<1> HIDE DEF x, y
<1>5. ASSUME NEW i \in 1 .. l PROVE x[i] = y[i]
  <2>1. k + i - 1 \in 0 .. n - 1
    BY <1>1
  <2>2. b[p + (k + i - 1)] = s[q + (k + i - 1)]
    BY <2>1 DEF SameBytes
  <2> QED
    BY <1>3, <1>4, <2>2
<1>6. x = y
  BY <1>3, <1>4, <1>5, SeqEqual
<1> QED
  BY <1>6 DEF x, y

(* What a header says. *)
LEMMA HeaderReads ==
  ASSUME NEW s \in Seq(Byte), NEW p \in Nat \ {0}, p + 4 <= Len(s)
  PROVE  /\ DlcAt(s, p) \in Nat
         /\ FrameLen(DlcAt(s, p)) = 8 + DlcAt(s, p)
         /\ LastAt(s, p) = p + (7 + DlcAt(s, p))
<1>1. s[p + 3] \in Byte /\ s[p + 4] \in Byte
  OBVIOUS
<1>0. \A lo, hi \in Byte : uint16(lo, hi) \in Nat
  BY DEF uint16, Byte
<1>2. DlcAt(s, p) \in Nat
  BY <1>0, <1>1 DEF DlcAt
<1>3. FrameLen(DlcAt(s, p)) = 8 + DlcAt(s, p)
  BY <1>2 DEF FrameLen, BKEL_SOF_SIZE, BKEL_HDR_SIZE, BKEL_CID_SIZE, BKEL_CRC_SIZE
<1>4. LastAt(s, p) = p + (7 + DlcAt(s, p))
  BY <1>2, <1>3 DEF LastAt
<1> QED
  BY <1>2, <1>3, <1>4

(* The tests and reads of a frame with d bytes of payload, by their distance from p. *)
LEMMA ReadsAt ==
  ASSUME NEW s \in Seq(Byte), NEW p \in Nat \ {0}, p + 4 <= Len(s), NEW d \in Nat, DlcAt(s, p) = d
  PROVE  /\ CrcMatches(s, p) <=> s[p + (7 + d)] = Crc(SubSeq(s, p + 1, p + (6 + d)))
         /\ FrameAt(s, p) = [sid |-> s[p + 1], type |-> s[p + 2], dlc |-> d,
                             payload |-> SubSeq(s, p + 5, p + (4 + d)),
                             cid |-> uint16(s[p + (5 + d)], s[p + (6 + d)])]
<1>1. /\ LastAt(s, p) = p + (7 + d) /\ LastAt(s, p) - 1 = p + (6 + d)
      /\ p + 4 + d = p + (4 + d) /\ p + 5 + d = p + (5 + d) /\ p + 6 + d = p + (6 + d)
  BY HeaderReads
<1>2. CrcMatches(s, p) <=> s[p + (7 + d)] = Crc(SubSeq(s, p + 1, p + (6 + d)))
  BY <1>1 DEF CrcMatches
<1>3. FrameAt(s, p) = [sid |-> s[p + 1], type |-> s[p + 2], dlc |-> d,
                       payload |-> SubSeq(s, p + 5, p + (4 + d)),
                       cid |-> uint16(s[p + (5 + d)], s[p + (6 + d)])]
  BY <1>1, Zenon DEF FrameAt
<1> QED
  BY <1>2, <1>3

(* The same bytes are the same frame. *)
LEMMA SameFrame ==
  ASSUME NEW b \in Seq(Byte), NEW s \in Seq(Byte), NEW p \in Nat \ {0}, NEW q \in Nat \ {0},
         NEW n \in Nat, n >= 5, SameBytes(b, p, s, q, n)
  PROVE  /\ DlcAt(b, p) = DlcAt(s, q)
         /\ FrameLen(DlcAt(s, q)) <= n =>
              /\ CrcMatches(b, p) <=> CrcMatches(s, q)
              /\ FrameAt(b, p) = FrameAt(s, q)
<1>1. p + 4 <= Len(b) /\ q + 4 <= Len(s)
  BY DEF SameBytes
<1>2. \A i \in 0 .. n - 1 : b[p + i] = s[q + i]
  BY DEF SameBytes
<1>3. b[p + 1] = s[q + 1] /\ b[p + 2] = s[q + 2] /\ b[p + 3] = s[q + 3] /\ b[p + 4] = s[q + 4]
  BY <1>2
<1>4. DlcAt(b, p) = DlcAt(s, q)
  BY <1>3 DEF DlcAt
<1>5. ASSUME FrameLen(DlcAt(s, q)) <= n
      PROVE  (CrcMatches(b, p) <=> CrcMatches(s, q)) /\ FrameAt(b, p) = FrameAt(s, q)
  <2>1. PICK d \in Nat : d = DlcAt(s, q) /\ 8 + d <= n
    BY <1>1, <1>5, HeaderReads
  <2>2. /\ b[p + (5 + d)] = s[q + (5 + d)] /\ b[p + (6 + d)] = s[q + (6 + d)]
        /\ b[p + (7 + d)] = s[q + (7 + d)]
    <3>1. 5 + d \in 0 .. n - 1 /\ 6 + d \in 0 .. n - 1 /\ 7 + d \in 0 .. n - 1
      BY <2>1
    <3> QED
      BY <1>2, <3>1, Zenon
  <2>3. /\ SubSeq(b, p + 1, p + (6 + d)) = SubSeq(s, q + 1, q + (6 + d))
        /\ SubSeq(b, p + 5, p + (4 + d)) = SubSeq(s, q + 5, q + (4 + d))
    <3>1. \A k, m \in Nat : m < n => SameSubSeq(b, p, s, q, k, m)
      BY SamePart, Zenon
    <3>2. /\ 1 \in Nat /\ 6 + d \in Nat /\ 6 + d < n
          /\ 5 \in Nat /\ 4 + d \in Nat /\ 4 + d < n
      BY <2>1
    <3> QED
      BY <3>1, <3>2, Zenon DEF SameSubSeq
  <2>4. /\ CrcMatches(b, p) <=> b[p + (7 + d)] = Crc(SubSeq(b, p + 1, p + (6 + d)))
        /\ FrameAt(b, p) = [sid |-> b[p + 1], type |-> b[p + 2], dlc |-> d,
                            payload |-> SubSeq(b, p + 5, p + (4 + d)),
                            cid |-> uint16(b[p + (5 + d)], b[p + (6 + d)])]
    BY <1>1, <1>4, <2>1, ReadsAt
  <2>5. /\ CrcMatches(s, q) <=> s[q + (7 + d)] = Crc(SubSeq(s, q + 1, q + (6 + d)))
        /\ FrameAt(s, q) = [sid |-> s[q + 1], type |-> s[q + 2], dlc |-> d,
                            payload |-> SubSeq(s, q + 5, q + (4 + d)),
                            cid |-> uint16(s[q + (5 + d)], s[q + (6 + d)])]
    BY <1>1, <2>1, ReadsAt
  <2>6. CrcMatches(b, p) <=> CrcMatches(s, q)
    BY <2>2, <2>3, <2>4, <2>5
  <2>7. FrameAt(b, p) = FrameAt(s, q)
    BY <1>3, <2>2, <2>3, <2>4, <2>5, Zenon
  <2> QED
    BY <2>6, <2>7
<1> QED
  BY <1>4, <1>5

-----------------------------------------------------------------------------
(* The inductive invariant                                                 *)

(* The filled part of rx_buf is the stream from base on. *)
WindowInv ==
    /\ base + rx_len = arrived
    /\ \A i \in 1 .. rx_len : rx_buf[i] = stream[base + i]

(* Between chunks the parser waits at the front of rx_buf; with a whole header    *)
(* there, it waits for the frame this announces.                                *)
WaitInv ==
    ~parsing =>
        /\ offset = 0
        /\ rx_len > BKEL_HDR_SIZE =>
              /\ stream[base + 1] = SOF_DATA_VALUE
              /\ DlcAt(stream, base + 1) <= MaxPayload
              /\ rx_len < FrameLen(DlcAt(stream, base + 1))

PayloadTypeOK == DOMAIN parsed_packet.payload = 1 .. PacketSize

(* The frames handled lie before the parser; those it has not looked at, behind. *)
HandledInv ==
    \A h \in handled : h.at \in 1 .. base + offset

McuInv ==
    /\ McuTypeOK /\ WindowInv /\ WaitInv /\ PayloadTypeOK /\ HandledInv
    /\ OnlyIntactHandled /\ LostOnlyEarlyOrOverflowing /\ OverflowOnlyBehindLongFrame

LEMMA ArrayIsSeq ==
  ASSUME McuTypeOK
  PROVE  rx_buf \in Seq(Byte) /\ Len(rx_buf) = BufSize
<1>1. BufSize \in Nat /\ rx_buf \in [1 .. BufSize -> Byte]
  BY SizeAssumption DEF McuTypeOK
<1> QED
  BY <1>1

(* What parse_one_frame reads at the offset is what the stream has there; only the    *)
(* header of a frame of which four bytes are there is not the stream's.             *)
LEMMA AtOffset ==
  ASSUME McuTypeOK, WindowInv, offset < rx_len, NEW c, c = base + offset + 1
  PROVE  /\ c \in 1 .. arrived /\ c \in Nat \ {0} /\ rx_buf[offset + 1] = stream[c]
         /\ buf_len \in Nat /\ buf_len = arrived - c + 1
         /\ buf_len >= 5 =>
              /\ c + 4 <= Len(stream) /\ DlcAt(stream, c) \in Nat
              /\ Dlc = {DlcAt(stream, c)}
              /\ FrameLen(DlcAt(stream, c)) = 8 + DlcAt(stream, c)
              /\ LastAt(stream, c) = c + (7 + DlcAt(stream, c))
              /\ FrameLen(DlcAt(stream, c)) <= buf_len =>
                   /\ CrcMatches(rx_buf, offset + 1) <=> CrcMatches(stream, c)
                   /\ FrameAt(rx_buf, offset + 1) = FrameAt(stream, c)
<1>1. /\ stream \in Seq(Byte) /\ arrived \in 0 .. Len(stream) /\ Len(stream) \in Nat
      /\ rx_len \in 0 .. BufSize /\ offset \in 0 .. rx_len /\ base \in 0 .. arrived
      /\ base + rx_len = arrived /\ BufSize \in Nat
  BY SizeAssumption DEF McuTypeOK, WindowInv
<1>2. c \in 1 .. arrived /\ c \in Nat \ {0} /\ offset + 1 \in Nat \ {0} /\ arrived <= Len(stream)
  BY <1>1
<1>3. \A i \in 1 .. rx_len : rx_buf[i] = stream[base + i]
  BY DEF WindowInv
<1>4. rx_buf[offset + 1] = stream[c]
  <2>1. offset + 1 \in 1 .. rx_len /\ base + (offset + 1) = c
    BY <1>1
  <2> QED
    BY <1>3, <2>1
<1>5. buf_len = rx_len - offset /\ buf_len \in Nat /\ buf_len = arrived - c + 1
  BY <1>1 DEF buf_len
<1>6. ASSUME buf_len >= 5
      PROVE  /\ c + 4 <= Len(stream) /\ DlcAt(stream, c) \in Nat
             /\ Dlc = {DlcAt(stream, c)}
             /\ FrameLen(DlcAt(stream, c)) = 8 + DlcAt(stream, c)
             /\ LastAt(stream, c) = c + (7 + DlcAt(stream, c))
             /\ FrameLen(DlcAt(stream, c)) <= buf_len =>
                  /\ CrcMatches(rx_buf, offset + 1) <=> CrcMatches(stream, c)
                  /\ FrameAt(rx_buf, offset + 1) = FrameAt(stream, c)
  <2>1. PICK n \in Nat : n = buf_len
    BY <1>5
  <2>2. c + 4 <= Len(stream)
    BY <1>1, <1>2, <1>5, <1>6
  <2>3. /\ DlcAt(stream, c) \in Nat
        /\ FrameLen(DlcAt(stream, c)) = 8 + DlcAt(stream, c)
        /\ LastAt(stream, c) = c + (7 + DlcAt(stream, c))
    BY <1>1, <1>2, <2>2, HeaderReads
  <2>4. SameBytes(rx_buf, offset + 1, stream, c, n)
    <3>1. offset + 1 + n - 1 <= Len(rx_buf) /\ c + n - 1 <= Len(stream)
      BY <1>1, <1>5, <2>1, ArrayIsSeq
    <3>2. \A i \in 0 .. n - 1 : /\ offset + 1 + i \in 1 .. rx_len
                                /\ base + (offset + 1 + i) = c + i
      BY <1>1, <1>5, <2>1
    <3>3. \A i \in 0 .. n - 1 : rx_buf[offset + 1 + i] = stream[c + i]
      BY <1>3, <3>2
    <3> QED
      BY <3>1, <3>3 DEF SameBytes
  <2>5. /\ DlcAt(rx_buf, offset + 1) = DlcAt(stream, c)
        /\ FrameLen(DlcAt(stream, c)) <= n =>
             /\ CrcMatches(rx_buf, offset + 1) <=> CrcMatches(stream, c)
             /\ FrameAt(rx_buf, offset + 1) = FrameAt(stream, c)
    BY <1>1, <1>2, <1>6, <2>1, <2>4, SameFrame, ArrayIsSeq
  <2>6. Dlc = {DlcAt(rx_buf, offset + 1)}
    <3>1. offset + 5 <= BufSize /\ offset + 1 + 3 = offset + 4 /\ offset + 1 + 4 = offset + 5
      BY <1>1, <1>5, <1>6
    <3> QED
      BY <3>1 DEF Dlc, DlcAt
  <2> QED
    BY <2>1, <2>2, <2>3, <2>5, <2>6
<1> QED
  BY <1>2, <1>4, <1>5, <1>6

(* Any DLC read is a length. *)
LEMMA DlcRead ==
  ASSUME McuTypeOK, offset < rx_len, HasHeader, NEW dlc \in Dlc
  PROVE  dlc \in Nat /\ FrameLen(dlc) = 8 + dlc
<1>1. offset + 4 \in 1 .. BufSize /\ (offset + 5 <= BufSize => offset + 5 \in 1 .. BufSize)
  BY SizeAssumption DEF McuTypeOK, HasHeader, buf_len, BKEL_HDR_SIZE
<1>2. rx_buf[offset + 4] \in Byte /\ (offset + 5 <= BufSize => rx_buf[offset + 5] \in Byte)
  BY <1>1 DEF McuTypeOK
<1>3. \A lo, hi \in Byte : uint16(lo, hi) \in Nat
  BY DEF uint16, Byte
<1>4. dlc \in Nat
  BY <1>2, <1>3 DEF Dlc
<1> QED
  BY <1>4 DEF FrameLen, BKEL_SOF_SIZE, BKEL_HDR_SIZE, BKEL_CID_SIZE, BKEL_CRC_SIZE

-----------------------------------------------------------------------------
(* What each step of parse_packet has found in the stream                  *)

LEMMA AcceptFinds ==
  ASSUME McuTypeOK, WindowInv, parseAccepts, NEW c, c = base + offset + 1
  PROVE  /\ Intact(stream, c)
         /\ handle_frame(FrameAt(stream, c))
         /\ offset' \in offset + 8 .. rx_len
         /\ base + offset' = c + FrameLen(DlcAt(stream, c)) - 1
         /\ base + offset' = LastAt(stream, c)
         /\ DlcAt(stream, c) \in Nat /\ c + 4 <= Len(stream)
<1>1. offset < rx_len /\ HasSof /\ HasHeader
  BY DEF parseAccepts
<1>2. PICK dlc \in Dlc : /\ dlc <= MaxPayload /\ buf_len >= FrameLen(dlc)
                         /\ CrcMatches(rx_buf, offset + 1)
                         /\ handle_frame(FrameAt(rx_buf, offset + 1))
                         /\ offset' = offset + FrameLen(dlc)
  BY DEF parseAccepts
<1>3. dlc \in Nat /\ FrameLen(dlc) = 8 + dlc
  BY <1>1, DlcRead
<1>4. buf_len \in Nat /\ buf_len = arrived - c + 1 /\ rx_buf[offset + 1] = stream[c]
  BY <1>1, AtOffset
<1>5. buf_len >= 5
  BY <1>2, <1>3, <1>4
<1>6. /\ c + 4 <= Len(stream) /\ DlcAt(stream, c) = dlc
      /\ LastAt(stream, c) = c + (7 + dlc)
      /\ CrcMatches(stream, c) /\ FrameAt(rx_buf, offset + 1) = FrameAt(stream, c)
  <2>1. Dlc = {DlcAt(stream, c)}
    BY <1>1, <1>5, AtOffset
  <2>2. DlcAt(stream, c) = dlc
    BY <2>1
  <2> QED
    BY <1>1, <1>2, <1>5, <2>2, AtOffset
<1>7. /\ arrived \in Nat /\ arrived <= Len(stream) /\ Len(stream) \in Nat /\ base \in Nat
      /\ offset \in Nat /\ rx_len \in Nat /\ base + rx_len = arrived
  BY SizeAssumption DEF McuTypeOK, WindowInv
<1>8. LastAt(stream, c) <= Len(stream)
  BY <1>2, <1>3, <1>4, <1>6, <1>7
<1>9. Intact(stream, c)
  BY <1>1, <1>2, <1>4, <1>6, <1>8 DEF Intact, HasSof, BKEL_HDR_SIZE
<1>10. /\ offset' \in offset + 8 .. rx_len
       /\ base + offset' = c + FrameLen(DlcAt(stream, c)) - 1
       /\ base + offset' = LastAt(stream, c)
  BY <1>2, <1>3, <1>4, <1>6, <1>7
<1> QED
  BY <1>2, <1>3, <1>6, <1>9, <1>10

LEMMA DropFinds ==
  ASSUME McuTypeOK, WindowInv, parseDrops, NEW c, c = base + offset + 1
  PROVE  ~Intact(stream, c) \/ c \in early'
<1> SUFFICES ASSUME Intact(stream, c) PROVE c \in early'
  OBVIOUS
<1>0. offset < rx_len
  BY DEF parseDrops
<1>1. HasSof
  BY <1>0, AtOffset DEF Intact, HasSof
<1>2. HasHeader
  BY <1>1 DEF parseDrops
<1>3. PICK dlc \in Dlc :
        \/ /\ dlc > MaxPayload
           /\ early' = IF buf_len = BKEL_HDR_SIZE THEN early \cup {base + offset + 1} ELSE early
        \/ /\ dlc <= MaxPayload /\ buf_len >= FrameLen(dlc) /\ ~CrcMatches(rx_buf, offset + 1)
  BY <1>1 DEF parseDrops
<1>4. dlc \in Nat /\ FrameLen(dlc) = 8 + dlc /\ buf_len \in Nat /\ MaxPayload \in Nat
  BY <1>0, <1>2, DlcRead, AtOffset, PayloadAssumption
<1>5. CASE buf_len = 4
  BY <1>3, <1>4, <1>5 DEF BKEL_HDR_SIZE
<1>6. CASE buf_len # 4
  <2>1. buf_len >= 5
    BY <1>2, <1>4, <1>6 DEF HasHeader, BKEL_HDR_SIZE
  <2>2. Dlc = {DlcAt(stream, c)}
    BY <1>0, <2>1, AtOffset
  <2>3. dlc = DlcAt(stream, c) /\ dlc <= MaxPayload
    BY <2>2 DEF Intact
  <2>4. buf_len >= FrameLen(dlc) /\ ~CrcMatches(rx_buf, offset + 1)
    BY <1>3, <1>4, <2>3
  <2>5. ~CrcMatches(stream, c)
    BY <1>0, <2>1, <2>3, <2>4, AtOffset
  <2> QED
    BY <2>5 DEF Intact
<1> QED
  BY <1>5, <1>6

LEMMA EndFinds ==
  ASSUME McuTypeOK, WindowInv, parseEnds, NEW c, c = base + offset + 1, buf_len >= 5
  PROVE  /\ stream[c] = SOF_DATA_VALUE /\ DlcAt(stream, c) <= MaxPayload
         /\ buf_len < FrameLen(DlcAt(stream, c))
<1>1. offset < rx_len
  BY SizeAssumption DEF McuTypeOK, buf_len
<1>2. HasSof /\ HasHeader
  <2>1. buf_len \in Nat
    BY <1>1, AtOffset
  <2> QED
    BY <1>1, <2>1 DEF parseEnds, HasHeader, BKEL_HDR_SIZE
<1>3. \E dlc \in Dlc : dlc <= MaxPayload /\ buf_len < FrameLen(dlc)
  BY <1>1, <1>2 DEF parseEnds
<1>4. Dlc = {DlcAt(stream, c)} /\ rx_buf[offset + 1] = stream[c]
  BY <1>1, AtOffset
<1> QED
  BY <1>2, <1>3, <1>4 DEF HasSof

-----------------------------------------------------------------------------
(* The invariant is kept                                                   *)

LEMMA SizeFacts ==
  ASSUME McuTypeOK, WindowInv
  PROVE  /\ stream \in Seq(Byte) /\ Len(stream) \in Nat /\ arrived \in Nat /\ arrived <= Len(stream)
         /\ rx_len \in Nat /\ rx_len <= BufSize /\ offset \in Nat /\ offset <= rx_len
         /\ base \in Nat /\ base + rx_len = arrived
         /\ BufSize \in Nat /\ TempSize \in Nat /\ PacketSize \in Nat
  BY SizeAssumption DEF McuTypeOK, WindowInv

LEMMA InitMcuInv == McuInit => McuInv
<1> SUFFICES ASSUME McuInit PROVE McuInv
  OBVIOUS
<1> USE DEF McuInit
<1>1. McuTypeOK
  <2>1. stream \in Seq(Byte) /\ Len(stream) \in Nat /\ 0 \in Byte /\ BufSize \in Nat
    BY StreamAssumption, SizeAssumption, LenProperties DEF Byte
  <2>2. rx_buf \in [1 .. BufSize -> Byte]
    BY <2>1
  <2>3. parsing \in BOOLEAN
    BY Zenon
  <2> QED
    BY <2>1, <2>2, <2>3 DEF McuTypeOK
<1>2. WindowInv /\ WaitInv /\ PayloadTypeOK /\ HandledInv
  BY DEF WindowInv, WaitInv, PayloadTypeOK, HandledInv, BKEL_HDR_SIZE
<1>3. OnlyIntactHandled /\ LostOnlyEarlyOrOverflowing /\ OverflowOnlyBehindLongFrame
  BY DEF OnlyIntactHandled, LostOnlyEarlyOrOverflowing, OverflowOnlyBehindLongFrame, Passed
<1> QED
  BY <1>1, <1>2, <1>3 DEF McuInv

LEMMA ReceiveKeeps ==
  ASSUME McuInv, NEW n \in 1 .. TempSize, receive(n)
  PROVE  McuInv'
<1> USE DEF McuInv
<1>1. /\ arrived' = arrived + n /\ arrived + n <= Len(stream)
      /\ rx_len' = rx_len + n /\ rx_len + n <= BufSize
      /\ offset = 0 /\ offset' = 0
      /\ UNCHANGED <<stream, parsed_packet, base, handled, early, overflows>>
  BY DEF receive, WaitInv
<1>2. \A i \in 1 .. BufSize : rx_buf'[i] = IF i \in (rx_len + 1) .. (rx_len + n)
                                          THEN stream[arrived + i - rx_len] ELSE rx_buf[i]
  BY DEF receive
<1>3. WindowInv'
  <2>1. ASSUME NEW i \in 1 .. rx_len + n PROVE rx_buf'[i] = stream[base + i]
    <3>1. i \in 1 .. BufSize /\ (i \in (rx_len + 1) .. (rx_len + n) \/ i \in 1 .. rx_len)
      BY <1>1, SizeFacts
    <3>2. CASE i \in (rx_len + 1) .. (rx_len + n)
      <4>1. arrived + i - rx_len = base + i
        BY <3>2, SizeFacts
      <4> QED
        BY <1>2, <3>1, <3>2, <4>1
    <3>3. CASE i \in 1 .. rx_len
      <4>1. i \notin (rx_len + 1) .. (rx_len + n)
        BY <3>3, SizeFacts
      <4> QED
        BY <1>2, <3>1, <3>3, <4>1 DEF WindowInv
    <3> QED
      BY <3>1, <3>2, <3>3
  <2>2. base + (rx_len + n) = arrived + n
    BY SizeFacts
  <2> QED
    BY <1>1, <2>1, <2>2 DEF WindowInv
<1>4. McuTypeOK'
  <2>1. rx_buf' \in [1 .. BufSize -> Byte]
    <3>1. \A i \in (rx_len + 1) .. (rx_len + n) : arrived + i - rx_len \in 1 .. Len(stream)
      <4>1. arrived + n <= Len(stream)
        BY DEF receive
      <4>2. arrived \in Nat /\ rx_len \in Nat /\ Len(stream) \in Nat
        BY SizeFacts
      <4> QED
        BY <4>1, <4>2
    <3>2. \A i \in (rx_len + 1) .. (rx_len + n) : stream[arrived + i - rx_len] \in Byte
      BY <3>1, SizeFacts
    <3>3. rx_buf \in [1 .. BufSize -> Byte]
      BY DEF McuTypeOK
    <3> QED
      BY <3>2, <3>3 DEF receive
  <2>2. parsing' \in BOOLEAN
    BY Zenon DEF receive
  <2>3. /\ arrived' \in 0 .. Len(stream) /\ rx_len' \in 0 .. BufSize /\ offset' \in 0 .. rx_len'
        /\ base \in 0 .. arrived'
    BY <1>1, SizeFacts
  <2>4. stream \in Seq(Byte) /\ early \subseteq 1 .. Len(stream)
    BY DEF McuTypeOK
  <2> QED
    BY <1>1, <2>1, <2>2, <2>3, <2>4 DEF McuTypeOK
<1>5. WaitInv'
  BY DEF receive, WaitInv
<1>6. base' + offset' = base + offset
  BY <1>1
<1>7. PayloadTypeOK' /\ HandledInv'
  BY <1>1, <1>6 DEF PayloadTypeOK, HandledInv
<1>8. OnlyIntactHandled' /\ LostOnlyEarlyOrOverflowing' /\ OverflowOnlyBehindLongFrame'
  BY <1>1, <1>6 DEF OnlyIntactHandled, LostOnlyEarlyOrOverflowing, OverflowOnlyBehindLongFrame, Passed
<1> QED
  BY <1>3, <1>4, <1>5, <1>7, <1>8

(* A step that handles nothing and moves the parser on keeps what was handled. *)
LEMMA HandledStays ==
  ASSUME McuInv, UNCHANGED <<stream, handled, parsed_packet>>,
         base + offset \in Nat, base' + offset' \in Nat, base + offset <= base' + offset'
  PROVE  PayloadTypeOK' /\ HandledInv' /\ OnlyIntactHandled'
<1> USE DEF McuInv
<1>1. PayloadTypeOK' /\ HandledInv'
  BY DEF PayloadTypeOK, HandledInv
<1>2. ASSUME NEW h \in handled PROVE LastAt(stream, h.at) <= base' + offset'
  <2>1. PICK p \in Nat \ {0} : p = h.at
    BY DEF HandledInv
  <2>2. LastAt(stream, p) <= base + offset /\ Intact(stream, p)
    BY <2>1 DEF OnlyIntactHandled
  <2>3. p + 4 <= Len(stream) /\ stream \in Seq(Byte)
    BY <2>2, SizeFacts DEF Intact, BKEL_HDR_SIZE
  <2>4. DlcAt(stream, p) \in Nat /\ LastAt(stream, p) = p + (7 + DlcAt(stream, p))
    BY <2>3, HeaderReads
  <2>5. LastAt(stream, p) \in Nat
    BY <2>4
  <2> QED
    BY <2>1, <2>2, <2>5
<1> QED
  BY <1>1, <1>2 DEF OnlyIntactHandled

LEMMA OverflowKeeps ==
  ASSUME McuInv, NEW n \in 1 .. TempSize, overflow(n)
  PROVE  McuInv'
<1> USE DEF McuInv
<1>1. /\ arrived' = arrived + n /\ arrived + n <= Len(stream)
      /\ rx_len' = 0 /\ rx_len + n > BufSize /\ base' = arrived + n
      /\ offset = 0 /\ ~parsing /\ ~parsing'
      /\ overflows' = overflows \cup {[from |-> base + 1, to |-> arrived + n]}
      /\ UNCHANGED <<stream, rx_buf, parsing, offset, parsed_packet, handled, early>>
  BY DEF overflow, WaitInv
<1>2. WindowInv' /\ McuTypeOK'
  <2>1. /\ arrived' \in 0 .. Len(stream) /\ rx_len' \in 0 .. BufSize /\ offset' \in 0 .. rx_len'
        /\ base' \in 0 .. arrived' /\ base' + rx_len' = arrived'
    BY <1>1, SizeFacts
  <2> QED
    BY <1>1, <2>1 DEF McuTypeOK, WindowInv
<1>3. WaitInv'
  BY <1>1 DEF WaitInv, BKEL_HDR_SIZE
<1>4. base + offset \in Nat /\ base' + offset' \in Nat /\ base + offset <= base' + offset'
  BY <1>1, SizeFacts
<1>5. PayloadTypeOK' /\ HandledInv' /\ OnlyIntactHandled'
  BY <1>1, <1>4, HandledStays
<1>7. LostOnlyEarlyOrOverflowing'
  <2>1. ASSUME NEW p \in 1 .. base' + offset', p \notin 1 .. base + offset
        PROVE  \E o \in overflows' : o.from <= p /\ p <= o.to
    <3>1. base + 1 <= p /\ p <= arrived + n
      BY <1>1, <2>1, SizeFacts
    <3>2. PICK o \in overflows' : o = [from |-> base + 1, to |-> arrived + n]
      BY <1>1, Zenon
    <3> QED
      BY <3>1, <3>2
  <2> QED
    BY <1>1, <2>1 DEF LostOnlyEarlyOrOverflowing, Passed
<1>8. OverflowOnlyBehindLongFrame'
  <2>1. /\ rx_len > BufSize - TempSize /\ rx_len > BKEL_HDR_SIZE
    BY <1>1, SizeFacts, SizeAssumption DEF BKEL_HDR_SIZE
  <2>2. /\ stream[base + 1] = SOF_DATA_VALUE /\ DlcAt(stream, base + 1) <= MaxPayload
        /\ rx_len < FrameLen(DlcAt(stream, base + 1))
    BY <1>1, <2>1 DEF WaitInv
  <2>3. FrameLen(DlcAt(stream, base + 1)) \in Nat
    <3>1. base + 1 \in Nat \ {0} /\ base + 1 + 4 <= Len(stream)
      BY <2>1, SizeFacts DEF BKEL_HDR_SIZE
    <3>2. stream \in Seq(Byte)
      BY SizeFacts
    <3>3. DlcAt(stream, base + 1) \in Nat /\ FrameLen(DlcAt(stream, base + 1)) = 8 + DlcAt(stream, base + 1)
      BY <3>1, <3>2, HeaderReads
    <3> QED
      BY <3>3
  <2>4. FrameLen(DlcAt(stream, base + 1)) > BufSize - TempSize
    BY <2>1, <2>2, <2>3, SizeFacts
  <2> QED
    BY <1>1, <2>2, <2>4 DEF OverflowOnlyBehindLongFrame
<1> QED
  BY <1>2, <1>3, <1>5, <1>7, <1>8

LEMMA DropKeeps ==
  ASSUME McuInv, parseDrops
  PROVE  McuInv'
<1> USE DEF McuInv
<1>1. /\ parsing /\ offset < rx_len /\ offset' = offset + 1
      /\ UNCHANGED <<stream, arrived, rx_buf, rx_len, parsing, parsed_packet, base, handled, overflows>>
  BY DEF parseDrops
<1>2. PICK c : c = base + offset + 1
  OBVIOUS
<1>3. c \in 1 .. Len(stream) /\ base' + offset' = c
  BY <1>1, <1>2, SizeFacts
<1>4. early' = early \/ early' = early \cup {c}
  BY <1>2 DEF parseDrops
<1>5. McuTypeOK' /\ WindowInv' /\ WaitInv'
  <2>1. offset' \in 0 .. rx_len
    BY <1>1, SizeFacts
  <2>2. early' \subseteq 1 .. Len(stream)
    BY <1>3, <1>4 DEF McuTypeOK
  <2> QED
    BY <1>1, <2>1, <2>2 DEF McuTypeOK, WindowInv, WaitInv
<1>6. base + offset \in Nat /\ base' + offset' \in Nat /\ base + offset <= base' + offset'
  BY <1>1, SizeFacts
<1>7. PayloadTypeOK' /\ HandledInv' /\ OnlyIntactHandled'
  BY <1>1, <1>6, HandledStays
<1>8. LostOnlyEarlyOrOverflowing'
  <2>1. \A p \in 1 .. base' + offset' : p \in 1 .. base + offset \/ p = c
    BY <1>2, <1>3, <1>6, SizeFacts
  <2>2. ~Intact(stream, c) \/ c \in early'
    BY <1>2, DropFinds
  <2> QED
    BY <1>1, <1>4, <2>1, <2>2 DEF LostOnlyEarlyOrOverflowing, Passed
<1>9. OverflowOnlyBehindLongFrame'
  BY <1>1 DEF OverflowOnlyBehindLongFrame
<1> QED
  BY <1>5, <1>7, <1>8, <1>9

LEMMA EndKeeps ==
  ASSUME McuInv, parseEnds
  PROVE  McuInv'
<1> USE DEF McuInv
<1>1. /\ rx_len' = buf_len /\ base' = base + offset /\ offset' = 0 /\ ~parsing'
      /\ UNCHANGED <<stream, arrived, parsed_packet, handled, early, overflows>>
  BY DEF parseEnds
<1>2. buf_len \in Nat /\ buf_len = rx_len - offset /\ buf_len <= rx_len
  BY SizeFacts DEF buf_len
<1>3. \A i \in 1 .. BufSize : rx_buf'[i] = IF i <= buf_len THEN rx_buf[i + offset] ELSE rx_buf[i]
  BY DEF parseEnds
<1>4. \A i \in 1 .. buf_len : /\ i \in 1 .. BufSize /\ i + offset \in 1 .. rx_len
                              /\ base + (i + offset) = base' + i
  BY <1>1, <1>2, SizeFacts
<1>5. WindowInv'
  <2>1. \A i \in 1 .. buf_len : rx_buf'[i] = stream[base' + i]
    <3> TAKE i \in 1 .. buf_len
    <3>1. rx_buf'[i] = rx_buf[i + offset]
      BY <1>2, <1>3, <1>4
    <3>2. rx_buf[i + offset] = stream[base + (i + offset)]
      BY <1>4 DEF WindowInv
    <3> QED
      BY <1>4, <3>1, <3>2
  <2>2. base' + buf_len = arrived
    BY <1>1, <1>2, SizeFacts
  <2> QED
    BY <1>1, <2>1, <2>2 DEF WindowInv
<1>6. McuTypeOK'
  <2>1. rx_buf' \in [1 .. BufSize -> Byte]
    <3>1. rx_buf \in [1 .. BufSize -> Byte]
      BY DEF McuTypeOK
    <3>2. \A i \in 1 .. BufSize : i <= buf_len => i + offset \in 1 .. BufSize
      BY <1>2, SizeFacts
    <3> QED
      BY <3>1, <3>2 DEF parseEnds
  <2>2. parsing' \in BOOLEAN
    BY Zenon DEF parseEnds
  <2>3. rx_len' \in 0 .. BufSize /\ offset' \in 0 .. rx_len' /\ base' \in 0 .. arrived
    BY <1>1, <1>2, SizeFacts
  <2> QED
    BY <1>1, <2>1, <2>2, <2>3 DEF McuTypeOK
<1>7. WaitInv'
  <2>1. ASSUME buf_len > 4
        PROVE  /\ stream[base + offset + 1] = SOF_DATA_VALUE
               /\ DlcAt(stream, base + offset + 1) <= MaxPayload
               /\ buf_len < FrameLen(DlcAt(stream, base + offset + 1))
    <3>1. buf_len >= 5
      BY <1>2, <2>1
    <3> QED
      BY <3>1, EndFinds
  <2> QED
    BY <1>1, <2>1 DEF WaitInv, BKEL_HDR_SIZE
<1>8. base + offset \in Nat /\ base' + offset' = base + offset
  BY <1>1, SizeFacts
<1>9. PayloadTypeOK' /\ HandledInv' /\ OnlyIntactHandled'
  BY <1>1, <1>8, HandledStays
<1>10. LostOnlyEarlyOrOverflowing' /\ OverflowOnlyBehindLongFrame'
  BY <1>1, <1>8 DEF LostOnlyEarlyOrOverflowing, Passed, OverflowOnlyBehindLongFrame
<1> QED
  BY <1>5, <1>6, <1>7, <1>9, <1>10

(* What is copied into parsed_packet of a frame that is there. *)
LEMMA PayloadReads ==
  ASSUME NEW s \in Seq(Byte), NEW p \in Nat \ {0}, p + 4 <= Len(s), LastAt(s, p) <= Len(s),
         NEW f, f = FrameAt(s, p)
  PROVE  f.dlc = DlcAt(s, p) /\ Len(f.payload) = f.dlc
<1>1. PICK d \in Nat : d = DlcAt(s, p)
  BY HeaderReads
<1>2. f.dlc = d /\ f.payload = SubSeq(s, p + 5, p + (4 + d))
  BY <1>1, ReadsAt
<1>3. Len(SubSeq(s, p + 5, p + (4 + d))) = d
  <2>1. 4 + d \in Nat /\ 5 \in Nat /\ d = IF 5 <= 4 + d THEN 4 + d - 5 + 1 ELSE 0
    BY <1>1
  <2>2. p + (4 + d) <= Len(s)
    BY <1>1, HeaderReads
  <2> QED
    BY <2>1, <2>2, PartReads
<1> QED
  BY <1>1, <1>2, <1>3

LEMMA AcceptKeeps ==
  ASSUME McuInv, parseAccepts
  PROVE  McuInv'
<1> USE DEF McuInv
<1>1. /\ parsing /\ offset < rx_len
      /\ UNCHANGED <<stream, arrived, rx_buf, rx_len, parsing, base, early, overflows>>
  BY DEF parseAccepts
<1>2. PICK c : c = base + offset + 1
  OBVIOUS
<1>3. PICK f : f = FrameAt(stream, c)
  OBVIOUS
<1>4. /\ Intact(stream, c) /\ handle_frame(f) /\ offset' \in offset + 8 .. rx_len
      /\ base + offset' = c + FrameLen(DlcAt(stream, c)) - 1
      /\ base + offset' = LastAt(stream, c)
      /\ DlcAt(stream, c) \in Nat /\ c + 4 <= Len(stream)
  BY <1>2, <1>3, AcceptFinds
<1>5. /\ c \in Nat \ {0} /\ base + offset \in Nat /\ base' + offset' \in Nat
      /\ base' + offset' = base + offset' /\ base + offset < c /\ c <= base' + offset'
  <2>1. base \in Nat /\ offset \in Nat /\ rx_len \in Nat /\ offset' \in offset + 8 .. rx_len
    BY <1>4, SizeFacts
  <2>2. base' = base
    BY <1>1
  <2>3. offset' \in Nat /\ offset < offset'
    BY <2>1
  <2>4. c \in Nat \ {0} /\ base + offset \in Nat /\ base + offset < c
    BY <1>2, <2>1
  <2>5. base + offset' \in Nat /\ c <= base + offset'
    <3>1. \A b, k, m \in Nat : k < m => b + m \in Nat /\ b + k + 1 <= b + m
      OBVIOUS
    <3> QED
      BY <1>2, <2>1, <2>3, <3>1
  <2> QED
    BY <2>2, <2>4, <2>5
<1>6. f.dlc = DlcAt(stream, c) /\ Len(f.payload) = f.dlc
  <2>1. LastAt(stream, c) <= Len(stream) /\ stream \in Seq(Byte)
    BY <1>4, SizeFacts DEF Intact
  <2> QED
    BY <1>3, <1>4, <1>5, <2>1, PayloadReads
<1>7. McuTypeOK' /\ WindowInv' /\ WaitInv'
  <2>1. offset' \in 0 .. rx_len
    BY <1>4, SizeFacts
  <2> QED
    BY <1>1, <2>1 DEF McuTypeOK, WindowInv, WaitInv
<1>8. PICK g : /\ g.at = c /\ g.frame = f /\ handled' = handled \cup {g}
               /\ g.task = IF ~is_valid_dlc(f) THEN "none"
                           ELSE IF f.sid < 32 THEN "RPC" ELSE "DIAG"
  <2>1. PICK t : t = IF ~is_valid_dlc(f) THEN "none" ELSE IF f.sid < 32 THEN "RPC" ELSE "DIAG"
    OBVIOUS
  <2>2. PICK r : r = [at |-> c, frame |-> f, task |-> t]
    OBVIOUS
  <2>3. r.at = c /\ r.frame = f /\ r.task = t
    BY <2>2
  <2>4. handled' = handled \cup {r}
    BY <1>2, <1>4, <2>1, <2>2, Zenon DEF handle_frame
  <2> QED
    BY <2>1, <2>3, <2>4, Zenon
<1>9. HandledInv'
  BY <1>5, <1>8 DEF HandledInv
<1>10. \A h \in handled : h.at \in Nat /\ h.at < c
  BY <1>5 DEF HandledInv
<1>11. ASSUME NEW h \in handled'
       PROVE  /\ Intact(stream, h.at) /\ h.frame = FrameAt(stream, h.at)
              /\ LastAt(stream, h.at) <= base' + offset'
  <2>1. CASE h = g
    BY <1>3, <1>4, <1>5, <1>8, <2>1
  <2>2. CASE h \in handled
    <3>1. PICK p \in Nat \ {0} : p = h.at
      BY <2>2 DEF HandledInv
    <3>2. /\ LastAt(stream, p) <= base + offset /\ Intact(stream, p)
          /\ h.frame = FrameAt(stream, p)
      BY <2>2, <3>1 DEF OnlyIntactHandled
    <3>3. p + 4 <= Len(stream) /\ stream \in Seq(Byte)
      BY <3>2, SizeFacts DEF Intact, BKEL_HDR_SIZE
    <3>4. DlcAt(stream, p) \in Nat /\ LastAt(stream, p) = p + (7 + DlcAt(stream, p))
      BY <3>3, HeaderReads
    <3>5. LastAt(stream, p) <= base' + offset'
      BY <1>5, <3>2, <3>4
    <3> QED
      BY <3>1, <3>2, <3>5
  <2> QED
    BY <1>8, <2>1, <2>2
<1>12. ASSUME is_valid_dlc(f) PROVE PayloadTypeOK' /\ OnlyIntactHandled'
  <2>1. parsed_packet' = [sid |-> f.sid, type |-> f.type, dlc |-> f.dlc, cid |-> f.cid,
                          payload |-> Overlay(f.payload, parsed_packet.payload)]
    BY <1>4, <1>12 DEF handle_frame
  <2>2. /\ DOMAIN parsed_packet'.payload = 1 .. PacketSize
        /\ \A i \in 1 .. PacketSize : i <= f.dlc => parsed_packet'.payload[i] = f.payload[i]
    BY <1>6, <2>1 DEF Overlay, PayloadTypeOK
  <2>3. PayloadTypeOK'
    BY <2>2 DEF PayloadTypeOK
  <2>4. g.task # "none"
    BY <1>8, <1>12
  <2>5. ASSUME NEW h \in handled', \A k \in handled' : k.at > h.at => k.task = "none"
        PROVE  h = g
    BY <1>5, <1>8, <1>10, <2>4, <2>5
  <2>6. OnlyIntactHandled'
    BY <1>1, <1>8, <1>11, <2>1, <2>2, <2>5 DEF OnlyIntactHandled
  <2> QED
    BY <2>3, <2>6
<1>13. ASSUME ~is_valid_dlc(f) PROVE PayloadTypeOK' /\ OnlyIntactHandled'
  <2>1. parsed_packet' = parsed_packet /\ g.task = "none"
    BY <1>4, <1>8, <1>13 DEF handle_frame
  <2>2. PayloadTypeOK'
    BY <2>1 DEF PayloadTypeOK
  <2>3. OnlyIntactHandled'
    BY <1>1, <1>8, <1>11, <2>1 DEF OnlyIntactHandled
  <2> QED
    BY <2>2, <2>3
<1>14. LostOnlyEarlyOrOverflowing'
  <2>1. ASSUME NEW p \in 1 .. base' + offset', p \notin 1 .. base + offset
        PROVE  g.at <= p /\ p < g.at + FrameLen(g.frame.dlc)
    <3>1. FrameLen(DlcAt(stream, c)) = 8 + DlcAt(stream, c)
      <4>1. stream \in Seq(Byte)
        BY SizeFacts
      <4> QED
        BY <1>4, <1>5, <4>1, HeaderReads
    <3>2. g.at = c /\ g.frame.dlc = DlcAt(stream, c)
      BY <1>6, <1>8
    <3>3. /\ base' + offset' = c + FrameLen(DlcAt(stream, c)) - 1
          /\ base + offset \in Nat /\ c = base + offset + 1
      BY <1>2, <1>4, <1>5
    <3> QED
      BY <1>4, <2>1, <3>1, <3>2, <3>3
  <2> QED
    BY <1>1, <1>8, <2>1 DEF LostOnlyEarlyOrOverflowing, Passed
<1>15. OverflowOnlyBehindLongFrame'
  BY <1>1 DEF OverflowOnlyBehindLongFrame
<1> QED
  BY <1>7, <1>9, <1>12, <1>13, <1>14, <1>15

LEMMA NextMcuInv == McuInv /\ [McuNext]_mcuVars => McuInv'
<1> SUFFICES ASSUME McuInv, [McuNext]_mcuVars PROVE McuInv'
  OBVIOUS
<1>1. CASE McuNext
  BY <1>1, ReceiveKeeps, OverflowKeeps, DropKeeps, AcceptKeeps, EndKeeps DEF McuNext
<1>2. CASE UNCHANGED mcuVars
  BY <1>2 DEF mcuVars, McuInv, McuTypeOK, WindowInv, WaitInv, PayloadTypeOK, HandledInv,
              OnlyIntactHandled, LostOnlyEarlyOrOverflowing, OverflowOnlyBehindLongFrame, Passed
<1> QED
  BY <1>1, <1>2

-----------------------------------------------------------------------------
(* The theorems                                                            *)

LEMMA McuParserInvariant == McuSpec => []McuInv
  BY InitMcuInv, NextMcuInv, PTL DEF McuSpec

(* The parser never leaves its array: offset stays within rx_len and rx_len within  *)
(* the size of rx_buf (the copies of f_handleCommandTask and parse_packet).         *)
THEOREM McuParserTypeCorrect == McuSpec => []McuTypeOK
<1>1. McuInv => McuTypeOK
  BY DEF McuInv
<1> QED
  BY <1>1, McuParserInvariant, PTL

(* Only frames that were on the wire in one piece are handled, and parsed_packet     *)
(* holds the last one a worker was woken for (parse_one_frame, handle_frame).       *)
THEOREM HandledIsIntact == McuSpec => []OnlyIntactHandled
<1>1. McuInv => OnlyIntactHandled
  BY DEF McuInv
<1> QED
  BY <1>1, McuParserInvariant, PTL

(* An intact frame is lost only inside one that was handled, when it was judged by  *)
(* four of its bytes, or with an overflowing buffer: no damage and no other         *)
(* chunking costs one (parse_packet's resynchronisation).                           *)
THEOREM LossIsConfined == McuSpec => []LostOnlyEarlyOrOverflowing
<1>1. McuInv => LostOnlyEarlyOrOverflowing
  BY DEF McuInv
<1> QED
  BY <1>1, McuParserInvariant, PTL

(* Nothing overflows unless a header at the front of rx_buf announced a frame that  *)
(* is longer than the array less a chunk (f_handleCommandTask's overflow check).    *)
THEOREM OverflowNeedsLongFrame == McuSpec => []OverflowOnlyBehindLongFrame
<1>1. McuInv => OverflowOnlyBehindLongFrame
  BY DEF McuInv
<1> QED
  BY <1>1, McuParserInvariant, PTL
=============================================================================
