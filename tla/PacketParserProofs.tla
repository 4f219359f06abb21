-------------------------- MODULE PacketParserProofs --------------------------
(* The gateway's parser delivers the intact frames of every byte stream, cut   *)
(* into chunks in any way, for every payload limit and every check byte.       *)
EXTENDS PacketParser, SequenceTheorems, TLAPS

-----------------------------------------------------------------------------
(* Lemmas about frames                                                      *)

(* A header read from bytes announces a length. *)
LEMMA DlcIsNat ==
  ASSUME NEW s \in Seq(Byte), NEW p \in Nat \ {0}, p + 4 <= Len(s)
  PROVE  /\ DlcAt(s, p) \in Nat
         /\ FrameLen(DlcAt(s, p)) = 8 + DlcAt(s, p)
         /\ LastAt(s, p) = p + 7 + DlcAt(s, p)
<1>1. p + 3 \in 1 .. Len(s) /\ p + 4 \in 1 .. Len(s)
  OBVIOUS
<1>2. s[p + 3] \in Byte /\ s[p + 4] \in Byte
  BY <1>1
<1>3. \A lo, hi \in Byte : uint16(lo, hi) \in Nat
  BY DEF uint16, Byte
<1>4. DlcAt(s, p) \in Nat
  BY <1>2, <1>3 DEF DlcAt
<1> QED
  BY <1>4 DEF LastAt, FrameLen, BKEL_SOF_SIZE, BKEL_HDR_SIZE, BKEL_CID_SIZE, BKEL_CRC_SIZE

(* The bytes b are those of s from c on. *)
Window(b, s, c) ==
  /\ c + Len(b) <= Len(s)
  /\ \A i \in 1 .. Len(b) : b[i] = s[c + i]

(* A part of the window is the same part of the stream. *)
LEMMA WindowSubSeq ==
  ASSUME NEW s \in Seq(Byte), NEW b \in Seq(Byte), NEW c \in Nat, Window(b, s, c),
         NEW m \in Nat \ {0}, NEW n \in Nat, n <= Len(b)
  PROVE  SubSeq(b, m, n) = SubSeq(s, c + m, c + n)
<1>1. \A i \in m .. n : b[i] \in Byte /\ s[c + i] \in Byte /\ b[i] = s[c + i]
  BY DEF Window
<1>2. \A i \in (c + m) .. (c + n) : s[i] \in Byte
  BY DEF Window
<1> DEFINE x == SubSeq(b, m, n)
           y == SubSeq(s, c + m, c + n)
<1>3. /\ x \in Seq(Byte)
      /\ Len(x) = IF m <= n THEN n - m + 1 ELSE 0
      /\ \A i \in 1 .. n - m + 1 : x[i] = b[m + i - 1]
  BY <1>1, SubSeqProperties
<1>4. /\ y \in Seq(Byte)
      /\ Len(y) = IF m <= n THEN n - m + 1 ELSE 0
      /\ \A i \in 1 .. n - m + 1 : y[i] = s[c + (m + i - 1)]
  <2>1. /\ y \in Seq(Byte)
        /\ Len(y) = IF c + m <= c + n THEN c + n - (c + m) + 1 ELSE 0
        /\ \A i \in 1 .. c + n - (c + m) + 1 : y[i] = s[c + m + i - 1]
    BY <1>2, SubSeqProperties
  <2>2. \A i \in 1 .. n - m + 1 : c + m + i - 1 = c + (m + i - 1)
    OBVIOUS
  <2>3. c + n - (c + m) + 1 = n - m + 1 /\ (c + m <= c + n <=> m <= n)
    OBVIOUS
  <2> HIDE DEF y
  <2> QED
    BY <2>1, <2>2, <2>3
<1>5. \A i \in 1 .. n - m + 1 : b[m + i - 1] = s[c + (m + i - 1)]
  <2> SUFFICES ASSUME NEW i \in 1 .. n - m + 1
               PROVE  b[m + i - 1] = s[c + (m + i - 1)]
    OBVIOUS
  <2>1. m + i - 1 \in m .. n
    OBVIOUS
  <2> QED
    BY <2>1, <1>1
<1> HIDE DEF x, y
<1>6. Len(x) = Len(y) /\ \A i \in 1 .. Len(x) : x[i] = y[i]
  <2>1. Len(x) = Len(y)
    BY <1>3, <1>4
  <2>2. ASSUME NEW i \in 1 .. Len(x)
        PROVE  x[i] = y[i]
    <3>1. i \in 1 .. n - m + 1
      BY <1>3
    <3>2. x[i] = b[m + i - 1]
      BY <1>3, <3>1
    <3>3. y[i] = s[c + (m + i - 1)]
      BY <1>4, <3>1
    <3> QED
      BY <1>5, <3>1, <3>2, <3>3
  <2> QED
    BY <2>1, <2>2
<1>7. x = y
  BY <1>3, <1>4, <1>6, SeqEqual
<1> QED
  BY <1>7 DEF x, y

(* The tests and the reads of the parser, by their positions. *)
LEMMA FrameReads ==
  ASSUME NEW s \in Seq(Byte), NEW p \in Nat \ {0}, p + 4 <= Len(s),
         NEW d \in Nat, DlcAt(s, p) = d
  PROVE  /\ CrcMatches(s, p) <=> s[p + (7 + d)] = Crc(SubSeq(s, p + 1, p + (6 + d)))
         /\ FrameAt(s, p) =
              [sid |-> s[p + 1], type |-> s[p + 2], dlc |-> d,
               payload |-> SubSeq(s, p + 5, p + (4 + d)),
               cid |-> uint16(s[p + (5 + d)], s[p + (6 + d)])]
<1>1. /\ LastAt(s, p) = p + (7 + d)
      /\ LastAt(s, p) - 1 = p + (6 + d)
  BY DlcIsNat
<1>2. /\ p + 4 + d = p + (4 + d) /\ p + 5 + d = p + (5 + d) /\ p + 6 + d = p + (6 + d)
  OBVIOUS
<1>3. CrcMatches(s, p) <=> s[p + (7 + d)] = Crc(SubSeq(s, p + 1, p + (6 + d)))
  BY <1>1 DEF CrcMatches
<1>4. FrameAt(s, p) =
        [sid |-> s[p + 1], type |-> s[p + 2], dlc |-> d,
         payload |-> SubSeq(s, p + 5, p + (4 + d)),
         cid |-> uint16(s[p + (5 + d)], s[p + (6 + d)])]
  BY <1>2, Zenon DEF FrameAt
<1> QED
  BY <1>3, <1>4

(* What the parser reads from its buffer is what the stream has there. *)
LEMMA WindowFrame ==
  ASSUME NEW s \in Seq(Byte), NEW b \in Seq(Byte), NEW c \in Nat, Window(b, s, c),
         5 <= Len(b)
  PROVE  /\ b[1] = s[c + 1]
         /\ DlcAt(b, 1) \in Nat
         /\ DlcAt(b, 1) = DlcAt(s, c + 1)
         /\ LastAt(b, 1) = 8 + DlcAt(b, 1)
         /\ LastAt(s, c + 1) = c + LastAt(b, 1)
         /\ LastAt(b, 1) <= Len(b) =>
              /\ CrcMatches(b, 1) <=> CrcMatches(s, c + 1)
              /\ FrameAt(b, 1) = FrameAt(s, c + 1)
<1>1. /\ b[1] = s[c + 1] /\ b[1 + 1] = s[c + 1 + 1] /\ b[1 + 2] = s[c + 1 + 2]
      /\ b[1 + 3] = s[c + 1 + 3] /\ b[1 + 4] = s[c + 1 + 4]
  <2>1. \A i \in 1 .. Len(b) : b[i] = s[c + i]
    BY DEF Window
  <2>2. \A i \in 1 .. 5 : b[i] = s[c + i]
    BY <2>1
  <2>3. /\ c + 2 = c + 1 + 1 /\ c + 3 = c + 1 + 2 /\ c + 4 = c + 1 + 3 /\ c + 5 = c + 1 + 4
        /\ 1 + 1 = 2 /\ 1 + 2 = 3 /\ 1 + 3 = 4 /\ 1 + 4 = 5
    OBVIOUS
  <2>4. b[1] = s[c + 1] /\ b[2] = s[c + 2] /\ b[3] = s[c + 3] /\ b[4] = s[c + 4] /\ b[5] = s[c + 5]
    BY <2>2
  <2> QED
    BY <2>3, <2>4, Zenon
<1>2. DlcAt(b, 1) = DlcAt(s, c + 1)
  BY <1>1 DEF DlcAt
<1>3. c + 1 \in Nat \ {0} /\ c + 1 + 4 <= Len(s) /\ 1 + 4 <= Len(b) /\ 1 \in Nat \ {0}
  BY DEF Window
<1>4. DlcAt(b, 1) \in Nat /\ LastAt(b, 1) = 1 + 7 + DlcAt(b, 1)
  BY <1>3, DlcIsNat
<1>5. LastAt(s, c + 1) = c + 1 + 7 + DlcAt(s, c + 1)
  BY <1>3, DlcIsNat
<1>6. LastAt(b, 1) = 8 + DlcAt(b, 1) /\ LastAt(s, c + 1) = c + LastAt(b, 1)
  BY <1>2, <1>4, <1>5
<1>7. ASSUME LastAt(b, 1) <= Len(b)
      PROVE  /\ CrcMatches(b, 1) <=> CrcMatches(s, c + 1)
             /\ FrameAt(b, 1) = FrameAt(s, c + 1)
  <2>1. PICK d \in Nat : d = DlcAt(b, 1)
    BY <1>4
  <2>2. 8 + d <= Len(b) /\ DlcAt(s, c + 1) = d
    BY <1>2, <1>6, <1>7, <2>1
  <2>3. \A k \in 4 .. 7 : b[1 + (k + d)] = s[c + 1 + (k + d)]
    <3> SUFFICES ASSUME NEW k \in 4 .. 7
                 PROVE  b[1 + (k + d)] = s[c + 1 + (k + d)]
      OBVIOUS
    <3>1. 1 + (k + d) \in 1 .. Len(b) /\ c + (1 + (k + d)) = c + 1 + (k + d)
      BY <2>2
    <3> QED
      BY <3>1 DEF Window
  <2>4. SubSeq(b, 1 + 1, 1 + (6 + d)) = SubSeq(s, c + 1 + 1, c + 1 + (6 + d))
    <3>1. SubSeq(b, 1 + 1, 1 + (6 + d)) = SubSeq(s, c + (1 + 1), c + (1 + (6 + d)))
      <4>1. PICK m \in Nat \ {0} : m = 1 + 1
        OBVIOUS
      <4>2. PICK n \in Nat : n = 1 + (6 + d) /\ n <= Len(b)
        BY <2>2
      <4>3. SubSeq(b, m, n) = SubSeq(s, c + m, c + n)
        BY <4>2, WindowSubSeq
      <4> QED
        BY <4>1, <4>2, <4>3, Zenon
    <3>2. c + (1 + 1) = c + 1 + 1 /\ c + (1 + (6 + d)) = c + 1 + (6 + d)
      OBVIOUS
    <3> QED
      BY <3>1, <3>2, Zenon
  <2>5. SubSeq(b, 1 + 5, 1 + (4 + d)) = SubSeq(s, c + 1 + 5, c + 1 + (4 + d))
    <3>1. SubSeq(b, 1 + 5, 1 + (4 + d)) = SubSeq(s, c + (1 + 5), c + (1 + (4 + d)))
      BY <2>2, WindowSubSeq
    <3>2. c + (1 + 5) = c + 1 + 5 /\ c + (1 + (4 + d)) = c + 1 + (4 + d)
      OBVIOUS
    <3> QED
      BY <3>1, <3>2, Zenon
  <2>6. /\ CrcMatches(b, 1) <=> b[1 + (7 + d)] = Crc(SubSeq(b, 1 + 1, 1 + (6 + d)))
        /\ FrameAt(b, 1) =
             [sid |-> b[1 + 1], type |-> b[1 + 2], dlc |-> d,
              payload |-> SubSeq(b, 1 + 5, 1 + (4 + d)),
              cid |-> uint16(b[1 + (5 + d)], b[1 + (6 + d)])]
    BY <1>3, <2>1, FrameReads
  <2>7. /\ CrcMatches(s, c + 1)
             <=> s[c + 1 + (7 + d)] = Crc(SubSeq(s, c + 1 + 1, c + 1 + (6 + d)))
        /\ FrameAt(s, c + 1) =
             [sid |-> s[c + 1 + 1], type |-> s[c + 1 + 2], dlc |-> d,
              payload |-> SubSeq(s, c + 1 + 5, c + 1 + (4 + d)),
              cid |-> uint16(s[c + 1 + (5 + d)], s[c + 1 + (6 + d)])]
    BY <1>3, <2>2, FrameReads
  <2>8. /\ b[1 + (5 + d)] = s[c + 1 + (5 + d)]
        /\ b[1 + (6 + d)] = s[c + 1 + (6 + d)]
        /\ b[1 + (7 + d)] = s[c + 1 + (7 + d)]
    BY <2>3
  <2> QED
    BY <1>1, <2>4, <2>5, <2>6, <2>7, <2>8, Zenon
<1> QED
  BY <1>1, <1>2, <1>4, <1>6, <1>7

(* Erasing n bytes moves the window up by n. *)
LEMMA WindowErase ==
  ASSUME NEW s \in Seq(Byte), NEW b \in Seq(Byte), NEW c \in Nat, Window(b, s, c),
         NEW n \in Nat, n <= Len(b)
  PROVE  /\ SubSeq(b, n + 1, Len(b)) \in Seq(Byte)
         /\ Len(SubSeq(b, n + 1, Len(b))) = Len(b) - n
         /\ Window(SubSeq(b, n + 1, Len(b)), s, c + n)
<1> DEFINE x == SubSeq(b, n + 1, Len(b))
<1>1. \A i \in (n + 1) .. Len(b) : b[i] \in Byte
  OBVIOUS
<1>2. /\ x \in Seq(Byte)
      /\ Len(x) = IF n + 1 <= Len(b) THEN Len(b) - (n + 1) + 1 ELSE 0
      /\ \A i \in 1 .. Len(b) - (n + 1) + 1 : x[i] = b[n + 1 + i - 1]
  BY <1>1, SubSeqProperties
<1> HIDE DEF x
<1>3. Len(x) = Len(b) - n
  BY <1>2
<1>4. ASSUME NEW i \in 1 .. Len(x)
      PROVE  x[i] = s[c + n + i]
  <2>1. /\ i \in 1 .. Len(b) - (n + 1) + 1
        /\ n + 1 + i - 1 = n + i
        /\ n + i \in 1 .. Len(b)
        /\ c + (n + i) = c + n + i
    BY <1>3
  <2>2. x[i] = b[n + i]
    BY <1>2, <2>1
  <2>3. b[n + i] = s[c + (n + i)]
    BY <2>1 DEF Window
  <2> QED
    BY <2>1, <2>2, <2>3
<1>5. Window(x, s, c + n)
  BY <1>3, <1>4 DEF Window
<1> QED
  BY <1>2, <1>3, <1>5 DEF x

(* Appending what follows the window in the stream extends it. *)
LEMMA WindowAppend ==
  ASSUME NEW s \in Seq(Byte), NEW b \in Seq(Byte), NEW c \in Nat, Window(b, s, c),
         NEW n \in Nat, (c + Len(b)) + n <= Len(s)
  PROVE  LET x == b \o SubSeq(s, (c + Len(b)) + 1, (c + Len(b)) + n)
         IN  x \in Seq(Byte) /\ Len(x) = Len(b) + n /\ Window(x, s, c)
<1>a. PICK a \in Nat : a = c + Len(b)
  OBVIOUS
<1> DEFINE x == b \o SubSeq(s, (c + Len(b)) + 1, (c + Len(b)) + n)
<1> DEFINE y == SubSeq(s, a + 1, a + n)
<1>1. \A i \in (a + 1) .. (a + n) : s[i] \in Byte
  BY <1>a
<1>2. /\ y \in Seq(Byte)
      /\ Len(y) = IF a + 1 <= a + n THEN a + n - (a + 1) + 1 ELSE 0
      /\ \A i \in 1 .. a + n - (a + 1) + 1 : y[i] = s[a + 1 + i - 1]
  BY <1>1, SubSeqProperties
<1>x. x = b \o y
  BY <1>a, Zenon
<1> HIDE DEF x, y
<1>3. Len(y) = n
  BY <1>2
<1>4. /\ b \o y \in Seq(Byte)
      /\ Len(b \o y) = Len(b) + Len(y)
      /\ \A i \in 1 .. Len(b) + Len(y) : (b \o y)[i] = IF i <= Len(b) THEN b[i] ELSE y[i - Len(b)]
  BY <1>2, ConcatProperties
<1>5. /\ x \in Seq(Byte)
      /\ Len(x) = Len(b) + n
      /\ \A i \in 1 .. Len(b) + n : x[i] = IF i <= Len(b) THEN b[i] ELSE y[i - Len(b)]
  BY <1>x, <1>3, <1>4, Zenon
<1>6. ASSUME NEW i \in 1 .. Len(x)
      PROVE  x[i] = s[c + i]
  <2>0. i \in 1 .. Len(b) + n
    BY <1>5
  <2>1. CASE i <= Len(b)
    BY <1>5, <2>0, <2>1 DEF Window
  <2>2. CASE ~(i <= Len(b))
    <3>1. /\ i - Len(b) \in 1 .. a + n - (a + 1) + 1
          /\ a + 1 + (i - Len(b)) - 1 = c + i
      BY <1>a, <2>0, <2>2
    <3>2. x[i] = y[i - Len(b)]
      BY <1>5, <2>0, <2>2, Zenon
    <3>3. y[i - Len(b)] = s[a + 1 + (i - Len(b)) - 1]
      BY <1>2, <3>1
    <3> QED
      BY <3>1, <3>2, <3>3
  <2> QED
    BY <2>1, <2>2
<1>7. c + Len(x) <= Len(s)
  BY <1>5
<1>8. Window(x, s, c)
  BY <1>6, <1>7, Zenon DEF Window
<1> QED
  BY <1>5, <1>8 DEF x

-----------------------------------------------------------------------------
(* The buffer is the part of the stream that has arrived and is not consumed. *)
BufferIsWindow ==
  /\ consumed + Len(rxBuffer) = arrived
  /\ Window(rxBuffer, stream, consumed)

ParserInv ==
  /\ ParserTypeOK
  /\ BufferIsWindow
  /\ OnlyIntactDelivered
  /\ NothingIntactSkipped
  /\ BufferHoldsLessThanAFrame

(* start() finds an empty buffer and nothing delivered. *)
LEMMA InitParserInv == ParserInit => ParserInv
<1> SUFFICES ASSUME ParserInit
             PROVE  ParserInv
  OBVIOUS
<1>1. stream \in Seq(Byte) /\ Len(stream) \in Nat
  BY StreamAssumption, LenProperties DEF ParserInit
<1>2. rxBuffer = <<>> /\ rxBuffer \in Seq(Byte) /\ Len(rxBuffer) = 0
  BY EmptySeq DEF ParserInit
<1>3. ParserTypeOK
  <2>1. arrived = 0 /\ consumed = 0 /\ delivered = {} /\ parsing \in BOOLEAN
    BY DEF ParserInit
  <2>2. arrived \in 0 .. Len(stream) /\ consumed \in 0 .. arrived
    BY <1>1, <2>1
  <2> QED
    BY <1>1, <1>2, <2>1, <2>2, Zenon DEF ParserTypeOK
<1>4. BufferIsWindow
  BY <1>1, <1>2 DEF ParserInit, BufferIsWindow, Window
<1>5. OnlyIntactDelivered /\ NothingIntactSkipped
  BY DEF ParserInit, OnlyIntactDelivered, NothingIntactSkipped
<1>6. BufferHoldsLessThanAFrame
  BY <1>2, PayloadAssumption
     DEF BufferHoldsLessThanAFrame, FrameLen, Intact,
         BKEL_SOF_SIZE, BKEL_HDR_SIZE, BKEL_CID_SIZE, BKEL_CRC_SIZE
<1> QED
  BY <1>3, <1>4, <1>5, <1>6 DEF ParserInv

(* push() extends the window by the chunk read. *)
LEMMA PushKeepsParserInv ==
  ASSUME ParserInv, NEW n \in 1 .. MaxRead, push(n)
  PROVE  ParserInv'
<1>1. /\ stream \in Seq(Byte) /\ Len(stream) \in Nat
      /\ rxBuffer \in Seq(Byte) /\ Len(rxBuffer) \in Nat
      /\ arrived \in Nat /\ consumed \in Nat /\ consumed <= arrived
      /\ arrived = consumed + Len(rxBuffer)
      /\ Window(rxBuffer, stream, consumed)
      /\ n \in Nat
  BY LenProperties, ReadAssumption DEF ParserInv, ParserTypeOK, BufferIsWindow
<1>2. /\ rxBuffer' = rxBuffer \o SubSeq(stream, arrived + 1, arrived + n)
      /\ arrived' = arrived + n /\ arrived + n <= Len(stream)
      /\ parsing' = TRUE
      /\ stream' = stream /\ consumed' = consumed /\ delivered' = delivered
  BY DEF push
<1>3. /\ rxBuffer' \in Seq(Byte)
      /\ Len(rxBuffer') = Len(rxBuffer) + n
      /\ Window(rxBuffer', stream, consumed)
  <2> DEFINE x == rxBuffer \o SubSeq(stream, (consumed + Len(rxBuffer)) + 1,
                                              (consumed + Len(rxBuffer)) + n)
  <2>1. (consumed + Len(rxBuffer)) + n <= Len(stream)
    BY <1>1, <1>2
  <2>2. x \in Seq(Byte) /\ Len(x) = Len(rxBuffer) + n /\ Window(x, stream, consumed)
    BY <1>1, <2>1, WindowAppend, Zenon
  <2>3. rxBuffer' = x
    BY <1>1, <1>2, Zenon
  <2> HIDE DEF x
  <2> QED
    BY <2>2, <2>3
<1>4. ParserTypeOK'
  <2>1. arrived' \in 0 .. Len(stream') /\ consumed' \in 0 .. arrived'
    <3>1. /\ arrived' = arrived + n /\ arrived + n <= Len(stream)
          /\ stream' = stream /\ consumed' = consumed
      BY <1>2
    <3> QED
      BY <1>1, <3>1
  <2>2. stream' \in Seq(Byte) /\ parsing' \in BOOLEAN
    BY <1>1, <1>2
  <2>3. \A d \in delivered' : d.at \in 1 .. Len(stream')
    BY <1>2 DEF ParserInv, ParserTypeOK
  <2> QED
    BY <1>3, <2>1, <2>2, <2>3, Zenon DEF ParserTypeOK
<1>5. BufferIsWindow'
  <2>1. arrived' = arrived + n /\ stream' = stream /\ consumed' = consumed
    BY <1>2
  <2>2. consumed' + Len(rxBuffer') = arrived'
    BY <1>1, <1>3, <2>1
  <2>3. Window(rxBuffer', stream', consumed')
    BY <1>3, <2>1
  <2> QED
    BY <2>2, <2>3 DEF BufferIsWindow, Window
<1>6. OnlyIntactDelivered'
  BY <1>2 DEF ParserInv, OnlyIntactDelivered
<1>7. NothingIntactSkipped'
  BY <1>2 DEF ParserInv, NothingIntactSkipped, Covered
<1>8. BufferHoldsLessThanAFrame'
  BY <1>2 DEF BufferHoldsLessThanAFrame
<1> QED
  BY <1>4, <1>5, <1>6, <1>7, <1>8 DEF ParserInv

(* Where a header is, it decides the same at the front of the buffer and at its   *)
(* place in the stream.                                                         *)
LEMMA HeaderFacts ==
  ASSUME ParserInv, HasHeader
  PROVE  /\ 5 <= Len(rxBuffer)
         /\ rxBuffer[1] = stream[consumed + 1]
         /\ DlcAt(rxBuffer, 1) \in Nat
         /\ DlcAt(rxBuffer, 1) = DlcAt(stream, consumed + 1)
         /\ LastAt(rxBuffer, 1) = 8 + DlcAt(rxBuffer, 1)
         /\ LastAt(stream, consumed + 1) = consumed + LastAt(rxBuffer, 1)
         /\ Complete <=> LastAt(rxBuffer, 1) <= Len(rxBuffer)
         /\ Complete => /\ CrcMatches(rxBuffer, 1) <=> CrcMatches(stream, consumed + 1)
                        /\ FrameAt(rxBuffer, 1) = FrameAt(stream, consumed + 1)
<1>1. /\ stream \in Seq(Byte) /\ rxBuffer \in Seq(Byte) /\ consumed \in Nat
      /\ Len(rxBuffer) \in Nat
      /\ Window(rxBuffer, stream, consumed)
  BY LenProperties DEF ParserInv, ParserTypeOK, BufferIsWindow
<1>2. 5 <= Len(rxBuffer)
  BY DEF HasHeader, BKEL_SOF_SIZE, BKEL_HDR_SIZE
<1>3. /\ rxBuffer[1] = stream[consumed + 1]
      /\ DlcAt(rxBuffer, 1) \in Nat
      /\ DlcAt(rxBuffer, 1) = DlcAt(stream, consumed + 1)
      /\ LastAt(rxBuffer, 1) = 8 + DlcAt(rxBuffer, 1)
      /\ LastAt(stream, consumed + 1) = consumed + LastAt(rxBuffer, 1)
      /\ LastAt(rxBuffer, 1) <= Len(rxBuffer) =>
           /\ CrcMatches(rxBuffer, 1) <=> CrcMatches(stream, consumed + 1)
           /\ FrameAt(rxBuffer, 1) = FrameAt(stream, consumed + 1)
  BY <1>1, <1>2, WindowFrame
<1>4. FrameLen(DlcAt(rxBuffer, 1)) = 8 + DlcAt(rxBuffer, 1)
  BY <1>3 DEF FrameLen, BKEL_SOF_SIZE, BKEL_HDR_SIZE, BKEL_CID_SIZE, BKEL_CRC_SIZE
<1>5. Complete <=> LastAt(rxBuffer, 1) <= Len(rxBuffer)
  BY <1>1, <1>3, <1>4 DEF Complete
<1> QED
  BY <1>2, <1>3, <1>5

(* A dropped byte does not begin an intact frame. *)
LEMMA DropKeepsParserInv ==
  ASSUME ParserInv, parseDrops
  PROVE  ParserInv'
<1>1. /\ stream \in Seq(Byte) /\ Len(stream) \in Nat
      /\ rxBuffer \in Seq(Byte) /\ Len(rxBuffer) \in Nat
      /\ arrived \in Nat /\ consumed \in Nat
      /\ arrived = consumed + Len(rxBuffer)
      /\ Window(rxBuffer, stream, consumed)
  BY LenProperties DEF ParserInv, ParserTypeOK, BufferIsWindow
<1>2. /\ HasHeader /\ parsing
      /\ ~Candidate \/ (Complete /\ ~CrcMatches(rxBuffer, 1))
      /\ rxBuffer' = Tail(rxBuffer)
      /\ consumed' = consumed + 1
      /\ stream' = stream /\ arrived' = arrived /\ parsing' = parsing
      /\ delivered' = delivered
  BY DEF parseDrops
<1>3. 5 <= Len(rxBuffer)
  BY <1>2, HeaderFacts
<1>4. Tail(rxBuffer) = SubSeq(rxBuffer, 1 + 1, Len(rxBuffer))
  BY <1>1, <1>3, TailIsSubSeq, EmptySeq
<1>5. /\ rxBuffer' \in Seq(Byte)
      /\ Len(rxBuffer') = Len(rxBuffer) - 1
      /\ Window(rxBuffer', stream, consumed + 1)
  <2> DEFINE x == SubSeq(rxBuffer, 1 + 1, Len(rxBuffer))
  <2>1. x \in Seq(Byte) /\ Len(x) = Len(rxBuffer) - 1 /\ Window(x, stream, consumed + 1)
    BY <1>1, <1>3, WindowErase
  <2>2. rxBuffer' = x
    BY <1>2, <1>4
  <2> HIDE DEF x
  <2> QED
    BY <2>1, <2>2
<1>6. ParserTypeOK'
  BY <1>1, <1>2, <1>3, <1>5 DEF ParserInv, ParserTypeOK
<1>7. BufferIsWindow'
  BY <1>1, <1>2, <1>5 DEF BufferIsWindow, Window
<1>8. OnlyIntactDelivered'
  <2>1. ASSUME NEW d \in delivered
        PROVE  LastAt(stream, d.at) <= consumed + 1
    <3>1. d.at \in Nat \ {0} /\ d.at + 4 <= Len(stream) /\ LastAt(stream, d.at) <= consumed
      BY <1>1 DEF ParserInv, ParserTypeOK, OnlyIntactDelivered, Intact, BKEL_HDR_SIZE
    <3>2. LastAt(stream, d.at) \in Nat
      BY <1>1, <3>1, DlcIsNat
    <3> QED
      BY <1>1, <3>1, <3>2
  <2> QED
    BY <1>2, <2>1 DEF ParserInv, OnlyIntactDelivered
<1>9. ~Intact(stream, consumed + 1)
  BY <1>2, HeaderFacts DEF Candidate, Intact
<1>10. NothingIntactSkipped'
  <2>1. \A p \in 1 .. consumed + 1 : p \in 1 .. consumed \/ p = consumed + 1
    BY <1>1
  <2> QED
    BY <1>2, <1>9, <2>1 DEF ParserInv, NothingIntactSkipped, Covered
<1>11. BufferHoldsLessThanAFrame'
  BY <1>2 DEF BufferHoldsLessThanAFrame
<1> QED
  BY <1>6, <1>7, <1>8, <1>10, <1>11 DEF ParserInv

(* A delivered frame covers all the bytes erased with it. *)
LEMMA AcceptKeepsParserInv ==
  ASSUME ParserInv, parseAccepts
  PROVE  ParserInv'
<1> DEFINE L == LastAt(rxBuffer, 1)
           new == [at |-> consumed + 1, frame |-> FrameAt(rxBuffer, 1)]
<1>1. /\ stream \in Seq(Byte) /\ Len(stream) \in Nat
      /\ rxBuffer \in Seq(Byte) /\ Len(rxBuffer) \in Nat
      /\ arrived \in Nat /\ consumed \in Nat /\ arrived <= Len(stream)
      /\ arrived = consumed + Len(rxBuffer)
      /\ Window(rxBuffer, stream, consumed)
  BY LenProperties DEF ParserInv, ParserTypeOK, BufferIsWindow
<1>2. /\ HasHeader /\ Candidate /\ Complete /\ CrcMatches(rxBuffer, 1) /\ parsing
      /\ delivered' = delivered \cup {new}
      /\ rxBuffer' = SubSeq(rxBuffer, L + 1, Len(rxBuffer))
      /\ consumed' = consumed + L
      /\ stream' = stream /\ arrived' = arrived /\ parsing' = parsing
  BY DEF parseAccepts
<1>3. /\ 5 <= Len(rxBuffer)
      /\ stream[consumed + 1] = SOF_DATA_VALUE
      /\ DlcAt(stream, consumed + 1) \in Nat
      /\ DlcAt(stream, consumed + 1) <= MaxPayload
      /\ L = 8 + DlcAt(stream, consumed + 1)
      /\ LastAt(stream, consumed + 1) = consumed + L
      /\ L <= Len(rxBuffer)
      /\ CrcMatches(stream, consumed + 1)
      /\ FrameAt(rxBuffer, 1) = FrameAt(stream, consumed + 1)
  BY <1>2, HeaderFacts DEF Candidate
<1>4. L \in Nat
  BY <1>3
<1>5. new.at = consumed + 1 /\ new.frame = FrameAt(stream, consumed + 1)
  BY <1>3
<1>6. /\ rxBuffer' \in Seq(Byte)
      /\ Len(rxBuffer') = Len(rxBuffer) - L
      /\ Window(rxBuffer', stream, consumed + L)
  <2>1. /\ L \in Nat /\ L <= Len(rxBuffer) /\ rxBuffer' = SubSeq(rxBuffer, L + 1, Len(rxBuffer))
    BY <1>2, <1>3, <1>4
  <2> HIDE DEF L
  <2> QED
    BY <1>1, <2>1, WindowErase
<1>7. Intact(stream, consumed + 1)
  BY <1>1, <1>3, <1>4 DEF Intact, BKEL_HDR_SIZE
<1> HIDE DEF L, new
<1>8. ParserTypeOK'
  <2>1. \A d \in delivered' : d.at \in 1 .. Len(stream)
    <3>1. \A d \in delivered : d.at \in 1 .. Len(stream)
      BY DEF ParserInv, ParserTypeOK
    <3>2. new.at \in 1 .. Len(stream)
      BY <1>1, <1>3, <1>5
    <3> QED
      BY <1>2, <3>1, <3>2
  <2>2. /\ stream' = stream /\ arrived' = arrived /\ parsing' = parsing
        /\ consumed' = consumed + L
    BY <1>2
  <2>3. arrived' \in 0 .. Len(stream') /\ consumed' \in 0 .. arrived'
    BY <1>1, <1>3, <1>4, <2>2
  <2>4. stream' \in Seq(Byte) /\ parsing' \in BOOLEAN
    BY <1>1, <2>2 DEF ParserInv, ParserTypeOK
  <2> QED
    BY <1>6, <2>1, <2>2, <2>3, <2>4, Zenon DEF ParserTypeOK
<1>9. BufferIsWindow'
  <2>1. stream' = stream /\ arrived' = arrived /\ consumed' = consumed + L
    BY <1>2
  <2>2. consumed' + Len(rxBuffer') = arrived'
    BY <1>1, <1>4, <1>6, <2>1
  <2>3. Window(rxBuffer', stream', consumed')
    BY <1>6, <2>1
  <2> QED
    BY <2>2, <2>3 DEF BufferIsWindow, Window
<1>10. ASSUME NEW d \in delivered
       PROVE  /\ Intact(stream, d.at)
              /\ d.frame = FrameAt(stream, d.at)
              /\ d.at \in Nat
              /\ LastAt(stream, d.at) \in Nat
              /\ d.at < LastAt(stream, d.at)
              /\ LastAt(stream, d.at) <= consumed
  <2>1. /\ Intact(stream, d.at)
        /\ d.frame = FrameAt(stream, d.at)
        /\ LastAt(stream, d.at) <= consumed
    BY DEF ParserInv, OnlyIntactDelivered
  <2>2. d.at \in Nat \ {0} /\ d.at + 4 <= Len(stream)
    BY <1>1, <2>1 DEF ParserInv, ParserTypeOK, Intact, BKEL_HDR_SIZE
  <2>3. /\ DlcAt(stream, d.at) \in Nat
        /\ LastAt(stream, d.at) = d.at + 7 + DlcAt(stream, d.at)
    BY <1>1, <2>2, DlcIsNat
  <2> QED
    BY <2>1, <2>2, <2>3
<1>11. OnlyIntactDelivered'
  <2>1. ASSUME NEW d \in delivered'
        PROVE  /\ Intact(stream, d.at)
               /\ d.frame = FrameAt(stream, d.at)
               /\ LastAt(stream, d.at) <= consumed + L
    <3>1. CASE d \in delivered
      BY <1>1, <1>4, <1>10, <3>1
    <3>2. CASE d = new
      BY <1>1, <1>3, <1>4, <1>5, <1>7, <3>2
    <3> QED
      BY <1>2, <3>1, <3>2
  <2>2. ASSUME NEW d \in delivered', NEW e \in delivered', d.at < e.at
        PROVE  LastAt(stream, d.at) < e.at
    <3>1. CASE d \in delivered /\ e \in delivered
      BY <2>2, <3>1 DEF ParserInv, OnlyIntactDelivered
    <3>2. CASE d \in delivered /\ e = new
      BY <1>1, <1>5, <1>10, <3>2
    <3>3. CASE d = new /\ e \in delivered
      BY <1>1, <1>5, <1>10, <2>2, <3>3
    <3>4. CASE d = new /\ e = new
      BY <1>1, <1>5, <2>2, <3>4
    <3> QED
      BY <1>2, <3>1, <3>2, <3>3, <3>4
  <2> QED
    BY <1>2, <2>1, <2>2 DEF OnlyIntactDelivered
<1>12. NothingIntactSkipped'
  <2>1. new.frame.dlc = DlcAt(stream, consumed + 1)
    BY <1>5 DEF FrameAt
  <2>2. FrameLen(new.frame.dlc) = L
    BY <1>3, <2>1 DEF FrameLen, BKEL_SOF_SIZE, BKEL_HDR_SIZE, BKEL_CID_SIZE, BKEL_CRC_SIZE
  <2>3. ASSUME NEW p \in 1 .. consumed + L, Intact(stream, p)
        PROVE  \E d \in delivered' : d.at <= p /\ p < d.at + FrameLen(d.frame.dlc)
    <3>1. CASE p \in 1 .. consumed
      BY <1>2, <2>3, <3>1 DEF ParserInv, NothingIntactSkipped, Covered
    <3>2. CASE p \notin 1 .. consumed
      <4>1. new.at <= p /\ p < new.at + L
        BY <1>1, <1>4, <1>5, <3>2
      <4> QED
        BY <1>2, <2>2, <4>1
    <3> QED
      BY <3>1, <3>2
  <2> QED
    BY <1>2, <2>3 DEF NothingIntactSkipped, Covered
<1>13. BufferHoldsLessThanAFrame'
  BY <1>2 DEF BufferHoldsLessThanAFrame
<1> QED
  BY <1>8, <1>9, <1>11, <1>12, <1>13 DEF ParserInv

(* parse() stops only where the front of the buffer is not a whole frame. *)
LEMMA WaitKeepsParserInv ==
  ASSUME ParserInv, parseWaits
  PROVE  ParserInv'
<1>1. /\ HasHeader => Candidate /\ ~Complete
      /\ stream' = stream /\ arrived' = arrived /\ rxBuffer' = rxBuffer
      /\ consumed' = consumed /\ delivered' = delivered /\ parsing' = FALSE
  BY DEF parseWaits
<1>2. Len(rxBuffer) \in Nat
  BY LenProperties DEF ParserInv, ParserTypeOK
<1>3. FrameLen(MaxPayload) = 8 + MaxPayload /\ MaxPayload \in Nat
  BY PayloadAssumption
     DEF FrameLen, BKEL_SOF_SIZE, BKEL_HDR_SIZE, BKEL_CID_SIZE, BKEL_CRC_SIZE
<1>4. Len(rxBuffer) < FrameLen(MaxPayload) /\ ~Intact(rxBuffer, 1)
  <2>1. CASE ~HasHeader
    BY <1>2, <1>3, <2>1 DEF HasHeader, Intact, BKEL_SOF_SIZE, BKEL_HDR_SIZE
  <2>2. CASE HasHeader
    <3>1. /\ DlcAt(rxBuffer, 1) \in Nat
          /\ DlcAt(rxBuffer, 1) <= MaxPayload
          /\ LastAt(rxBuffer, 1) = 8 + DlcAt(rxBuffer, 1)
          /\ ~(LastAt(rxBuffer, 1) <= Len(rxBuffer))
      BY <1>1, <2>2, HeaderFacts DEF Candidate
    <3> QED
      BY <1>2, <1>3, <3>1 DEF Intact
  <2> QED
    BY <2>1, <2>2
<1>5. BufferHoldsLessThanAFrame'
  BY <1>1, <1>4 DEF BufferHoldsLessThanAFrame
<1>6. ParserTypeOK' /\ BufferIsWindow'
  BY <1>1 DEF ParserInv, ParserTypeOK, BufferIsWindow, Window
<1>7. OnlyIntactDelivered' /\ NothingIntactSkipped'
  BY <1>1 DEF ParserInv, OnlyIntactDelivered, NothingIntactSkipped, Covered
<1> QED
  BY <1>5, <1>6, <1>7 DEF ParserInv

-----------------------------------------------------------------------------
(* The invariant holds for every stream, chunking, payload limit and check byte. *)
THEOREM ParserInvariant == ParserSpec => []ParserInv
<1>1. ASSUME ParserInv, [ParserNext]_parserVars
      PROVE  ParserInv'
  <2>1. CASE \E n \in 1 .. MaxRead : push(n)
    BY <1>1, <2>1, PushKeepsParserInv
  <2>2. CASE parseDrops
    BY <1>1, <2>2, DropKeepsParserInv
  <2>3. CASE parseAccepts
    BY <1>1, <2>3, AcceptKeepsParserInv
  <2>4. CASE parseWaits
    BY <1>1, <2>4, WaitKeepsParserInv
  <2>5. CASE UNCHANGED parserVars
    BY <1>1, <2>5
       DEF parserVars, ParserInv, ParserTypeOK, BufferIsWindow, Window,
           OnlyIntactDelivered, NothingIntactSkipped, Covered, BufferHoldsLessThanAFrame
  <2> QED
    BY <1>1, <2>1, <2>2, <2>3, <2>4, <2>5 DEF ParserNext
<1> QED
  BY <1>1, InitParserInv, PTL DEF ParserSpec

(* Every value keeps its type; the buffer is a part of the stream. *)
THEOREM ParserTypeCorrect == ParserSpec => []ParserTypeOK
BY ParserInvariant, PTL DEF ParserInv

(* onFrame only ever gets frames that were on the wire, whole and disjoint. *)
THEOREM DeliveryIsFaithful == ParserSpec => []OnlyIntactDelivered
BY ParserInvariant, PTL DEF ParserInv

(* parse() resynchronises without losing an intact frame. *)
THEOREM ResyncLosesNothing == ParserSpec => []NothingIntactSkipped
BY ParserInvariant, PTL DEF ParserInv

(* rxBuffer never keeps a frame that could be delivered, nor more than a frame. *)
THEOREM BufferIsBounded == ParserSpec => []BufferHoldsLessThanAFrame
BY ParserInvariant, PTL DEF ParserInv
=============================================================================
