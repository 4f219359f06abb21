----------------------------- MODULE PacketParser -----------------------------
(***************************************************************************)
(* The gateway's streaming parser: app/src/protocol/PacketParser.cpp with     *)
(* UART::rxWorker, which feeds it.                                          *)
(*                                                                         *)
(* stream is everything the UART carries, frames and damage alike; read()    *)
(* hands it over in chunks of any size.  push() holds the parser's mutex      *)
(* through the whole parse() loop, whose turns are the steps of this module.  *)
(***************************************************************************)
EXTENDS Framing

CONSTANTS
    Streams,    \* the byte sequences that may arrive
    MaxRead     \* the size of rxWorker's buffer

ASSUME StreamAssumption == Streams \subseteq Seq(Byte)
ASSUME ReadAssumption == MaxRead \in Nat \ {0}

VARIABLES
    stream,     \* what arrives, from the first byte to the last
    arrived,    \* how many bytes of it read() has returned
    rxBuffer,   \* PacketParser::rxBuffer
    parsing,    \* push() is in its parse() loop
    consumed,   \* history: how many bytes parse() has erased
    delivered   \* history: what onFrame was given, and where it began

parserVars == <<stream, arrived, rxBuffer, parsing, consumed, delivered>>

ParserTypeOK ==
    /\ stream \in Seq(Byte)
    /\ arrived \in 0 .. Len(stream)
    /\ rxBuffer \in Seq(Byte)
    /\ parsing \in BOOLEAN
    /\ consumed \in 0 .. arrived
    /\ \A d \in delivered : d.at \in 1 .. Len(stream)

ParserInit ==
    /\ stream \in Streams
    /\ arrived = 0
    /\ rxBuffer = <<>>
    /\ parsing = FALSE
    /\ consumed = 0
    /\ delivered = {}

-----------------------------------------------------------------------------
(* read() returned n bytes; push() appends them and starts to parse. *)
push(n) ==
    /\ ~parsing
    /\ arrived + n <= Len(stream)
    /\ rxBuffer' = rxBuffer \o SubSeq(stream, arrived + 1, arrived + n)
    /\ arrived' = arrived + n
    /\ parsing' = TRUE
    /\ UNCHANGED <<stream, consumed, delivered>>

(* The while condition: SOF and header are there. *)
HasHeader == Len(rxBuffer) >= BKEL_SOF_SIZE + BKEL_HDR_SIZE

(* The first byte may begin a frame. *)
Candidate ==
    /\ rxBuffer[1] = SOF_DATA_VALUE
    /\ DlcAt(rxBuffer, 1) <= MaxPayload

Complete == Len(rxBuffer) >= FrameLen(DlcAt(rxBuffer, 1))

(* Mutant: a frame with a bad CRC is thrown away as a whole. *)
parseDrops_WholeFrame ==
    /\ parsing
    /\ HasHeader
    /\ \/ /\ ~Candidate
          /\ rxBuffer' = Tail(rxBuffer)
          /\ consumed' = consumed + 1
       \/ /\ Candidate /\ Complete /\ ~CrcMatches(rxBuffer, 1)
          /\ rxBuffer' = SubSeq(rxBuffer, LastAt(rxBuffer, 1) + 1, Len(rxBuffer))
          /\ consumed' = consumed + LastAt(rxBuffer, 1)
    /\ UNCHANGED <<stream, arrived, parsing, delivered>>

(* No SOF, a DLC beyond the limit or a wrong CRC: one byte is dropped and      *)
(* the search goes on behind it.                                            *)
parseDrops ==
    /\ parsing
    /\ HasHeader
    /\ \/ ~Candidate
       \/ Candidate /\ Complete /\ ~CrcMatches(rxBuffer, 1)
    /\ rxBuffer' = Tail(rxBuffer)
    /\ consumed' = consumed + 1
    /\ UNCHANGED <<stream, arrived, parsing, delivered>>

(* Mutant: the erase takes the first byte of the next frame along. *)
parseAccepts_ErasesOneMore ==
    /\ parsing
    /\ HasHeader /\ Candidate /\ Complete /\ CrcMatches(rxBuffer, 1)
    /\ delivered' = delivered \cup {[at |-> consumed + 1, frame |-> FrameAt(rxBuffer, 1)]}
    /\ rxBuffer' = SubSeq(rxBuffer, LastAt(rxBuffer, 1) + 2, Len(rxBuffer))
    /\ consumed' = consumed + LastAt(rxBuffer, 1) + 1
    /\ UNCHANGED <<stream, arrived, parsing>>

(* Mutant: the CRC is not compared, as in the client's decoder. *)
parseAccepts_AnyCrc ==
    /\ parsing
    /\ HasHeader /\ Candidate /\ Complete
    /\ delivered' = delivered \cup {[at |-> consumed + 1, frame |-> FrameAt(rxBuffer, 1)]}
    /\ rxBuffer' = SubSeq(rxBuffer, LastAt(rxBuffer, 1) + 1, Len(rxBuffer))
    /\ consumed' = consumed + LastAt(rxBuffer, 1)
    /\ UNCHANGED <<stream, arrived, parsing>>

(* onFrame gets the frame, then its bytes are erased. *)
parseAccepts ==
    /\ parsing
    /\ HasHeader /\ Candidate /\ Complete /\ CrcMatches(rxBuffer, 1)
    /\ delivered' = delivered \cup {[at |-> consumed + 1, frame |-> FrameAt(rxBuffer, 1)]}
    /\ rxBuffer' = SubSeq(rxBuffer, LastAt(rxBuffer, 1) + 1, Len(rxBuffer))
    /\ consumed' = consumed + LastAt(rxBuffer, 1)
    /\ UNCHANGED <<stream, arrived, parsing>>

(* Mutant: parse() returns after one turn instead of looping. *)
parseWaits_AfterOneTurn ==
    /\ parsing
    /\ parsing' = FALSE
    /\ UNCHANGED <<stream, arrived, rxBuffer, consumed, delivered>>

(* Too little is there: push() returns and rxWorker reads again. *)
parseWaits ==
    /\ parsing
    /\ HasHeader => Candidate /\ ~Complete
    /\ parsing' = FALSE
    /\ UNCHANGED <<stream, arrived, rxBuffer, consumed, delivered>>

ParserNext ==
    \/ \E n \in 1 .. MaxRead : push(n)
    \/ parseDrops
    \/ parseAccepts
    \/ parseWaits

ParserSpec == ParserInit /\ [][ParserNext]_parserVars

-----------------------------------------------------------------------------
(* Byte p belongs to a frame that was delivered. *)
Covered(p) ==
    \E d \in delivered : d.at <= p /\ p < d.at + FrameLen(d.frame.dlc)

(* However the stream is cut into chunks, what is delivered was on the wire    *)
(* in one piece and undamaged, field by field, and no byte belongs to two      *)
(* frames (the CRC test and the erase in parse()).                            *)
OnlyIntactDelivered ==
    /\ \A d \in delivered :
          /\ Intact(stream, d.at)
          /\ d.frame = FrameAt(stream, d.at)
          /\ LastAt(stream, d.at) <= consumed
    /\ \A d, e \in delivered :
          d.at < e.at => LastAt(stream, d.at) < e.at

(* Resynchronisation loses nothing: behind the point the parser has reached,    *)
(* every intact frame was delivered, unless it begins inside another that was.  *)
(* Noise, a false SOF, a damaged frame or a truncated one cost only themselves  *)
(* (parse() drops a single byte after each failure).                           *)
NothingIntactSkipped ==
    \A p \in 1 .. consumed : Intact(stream, p) => Covered(p)

(* Between two reads less than one frame of the largest size is kept: garbage    *)
(* cannot pile up in rxBuffer, nor can the parser stop short of a frame it       *)
(* could deliver.                                                              *)
BufferHoldsLessThanAFrame ==
    ~parsing => /\ Len(rxBuffer) < FrameLen(MaxPayload)
                /\ ~Intact(rxBuffer, 1)
=============================================================================
