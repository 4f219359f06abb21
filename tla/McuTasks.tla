------------------------------- MODULE McuTasks -------------------------------
(***************************************************************************)
(* The tasks of the MCU and what they share: BKEL_APP_TaskM.c,               *)
(* handle_frame (BKEL_APP_protocol.c), AppService_SendAdvertise, the diag     *)
(* and RPC functions, BKEL_UART_Tx and the receive interrupts (BKEL_isr.c),   *)
(* from power-up or reset on.                                               *)
(*                                                                         *)
(* One processor: a task takes a step only when no task of a higher priority  *)
(* is ready; interrupts come between any two steps.  Frames consist of bytes  *)
(* without contents; what the parser does with damaged ones is the subject of *)
(* McuParser.                                                               *)
(***************************************************************************)
EXTENDS Integers, Sequences, SequencesExt

CONSTANTS
    Requests,   \* the requests that may be sent
    Scripts,    \* what each USART may receive: bytes of requests, in any order
    Kind,       \* what a request asks for: a member of Kinds
    ReqLen,     \* its length in bytes
    TxLen,      \* the length of an answer, an advertisement or a text
    AdvFrames,  \* frames of one advertisement
    MaxPeriods, \* bound on advertisements: the code has none
    DmaSize,    \* UART_RX_BUF_SIZE
    StreamSize, \* what rxStream holds: RX_STREAM_SIZE - 1
    TempSize    \* sizeof(temp)

Uart == {1, 2}
Diag == {"diag", "pwm_in"}     \* pwm_in: DIAG_PWM_INPUT_VALUE
Rpc == {"rpc", "reset"}
Kinds == Diag \cup Rpc \cup {"invalid", "undefined"}

(* A byte of a request: which one, and which of its bytes. *)
RequestByte == Requests \X (Nat \ {0})

ASSUME ScriptAssumption == Scripts \subseteq [Uart -> Seq(RequestByte)]
ASSUME RequestAssumption == /\ Kind \in [Requests -> Kinds]
                            /\ ReqLen \in [Requests -> Nat \ {0}]
(* A third byte is written to USART2 a character time after the first. *)
ASSUME LengthAssumption == TxLen \in Nat /\ TxLen >= 3
ASSUME SizeAssumption == {AdvFrames, DmaSize, StreamSize, TempSize} \subseteq Nat \ {0}

VARIABLES
    boot,           \* how far main, system_init and rtos_taskinit are
    hung,           \* configASSERT failed: interrupts off, for ever
    toArrive,       \* bytes each USART has yet to receive
    rxStream,       \* the stream buffer of both USARTs
    rx_buf,         \* what the command task has and parse_packet has not used
    parsing,        \* the command task is in parse_packet
    parsed_packet,  \* the packet shared with the workers
    notified,       \* workers with a notification pending
    executing,      \* the kind of request f_RPCTask is in the function of
    tx,             \* where each task is in BKEL_UART_Tx
    advLeft,        \* frames AppService_SendAdvertise has yet to send
    dr,             \* data register of each USART; NoByte: TXE is set
    wire,           \* history: what each USART has sent
    advSent,        \* history: number of advertisement frames so far
    notices,        \* history: the packets workers were notified of
    served,         \* history: the packets they acted on
    accepted,       \* history: requests that came whole into the stream buffer
    split,          \* history: advertisement frames another task cut into
    aborted         \* history: frames a reset cut off

rxVars == <<toArrive, rxStream, accepted>>
cmdVars == <<rx_buf, parsing, parsed_packet, notices>>
txVars == <<tx, dr, wire, split>>
advVars == <<advLeft, advSent>>
taskVars == <<boot, hung, rxVars, cmdVars, notified, executing, txVars, advVars,
              served, aborted>>

NoByte == <<>>
Idle == <<>>
Bytes(r) == [i \in 1 .. ReqLen[r] |-> <<r, i>>]
Packets == Requests \cup {NoByte}

-----------------------------------------------------------------------------
(* Tasks and their priorities (rtos_taskinit)                              *)

(* Mutant: command and worker tasks have each other's priority. *)
Priority_Swapped == [advertise |-> 5, command |-> 12, diag |-> 11, rpc |-> 11]

Priority == [advertise |-> 5, command |-> 11, diag |-> 12, rpc |-> 12]
Task == DOMAIN Priority

(* boot counts: reset, interrupts on, rxStream, advertise and command task,   *)
(* diag task, RPC task.                                                     *)
Off == 0
InterruptsOn == 1
StreamExists == 2
CommandExists == 3
DiagExists == 4
Running == 5

Exists(t) ==
    boot >= [advertise |-> CommandExists, command |-> CommandExists,
             diag |-> DiagExists, rpc |-> Running][t]

(* Neither delayed nor waiting for a notification (xTaskNotifyWait) or for bytes *)
(* (xStreamBufferReceive, which only waits at a stream buffer that exists).       *)
Ready(t) ==
    /\ Exists(t)
    /\ \/ tx[t] # Idle
       \/ t = "advertise" /\ advLeft > 0
       \/ t = "command" /\ (parsing \/ boot < StreamExists \/ rxStream # <<>>)
       \/ t \in notified
       \/ t = "rpc" /\ executing # "none"

(* The scheduler lets t run. *)
Runs(t) ==
    /\ ~hung
    /\ Ready(t)
    /\ \A s \in Task : Ready(s) => Priority[s] <= Priority[t]

Init ==
    /\ boot = Off
    /\ hung = FALSE
    /\ toArrive \in Scripts
    /\ rxStream = <<>>
    /\ rx_buf = <<>>
    /\ parsing = FALSE
    /\ parsed_packet = NoByte
    /\ notified = {}
    /\ executing = "none"
    /\ tx = [t \in Task |-> Idle]
    /\ advLeft = 0
    /\ dr = [u \in Uart |-> NoByte]
    /\ wire = [u \in Uart |-> <<>>]
    /\ advSent = 0
    /\ notices = <<>>
    /\ served = <<>>
    /\ accepted = {}
    /\ split = {}
    /\ aborted = {}

-----------------------------------------------------------------------------
(* Start-up: main and f_inittask, which has the lowest priority.            *)

startUp ==
    /\ ~hung
    /\ boot < Running
    /\ \A t \in Task : Ready(t) => Priority[t] <= Priority["advertise"]
    /\ boot' = boot + 1
    /\ UNCHANGED <<hung, rxVars, cmdVars, notified, executing, txVars, advVars, served, aborted>>

-----------------------------------------------------------------------------
(* Reception: a burst of n bytes ends and the idle interrupt comes.          *)

(* The DMA goes round in DmaSize bytes; CNDTR only tells the bytes since the   *)
(* last round, which are at the front of the buffer.                         *)
Received(burst) == SubSeq(burst, Len(burst) - (Len(burst) % DmaSize) + 1, Len(burst))

(* Mutant: the stream buffer's limit is ignored. *)
Taken_All(bytes) == bytes

Taken(bytes) == SubSeq(bytes, 1, Min({Len(bytes), StreamSize - Len(rxStream)}))

(* Requests that are in these bytes from their first to their last. *)
WholeIn(bytes) ==
    {r \in Requests : \E p \in 0 .. Len(bytes) - ReqLen[r] :
        SubSeq(bytes, p + 1, p + ReqLen[r]) = Bytes(r)}

(* USART1_IRQHandler, USART2_IRQHandler: xStreamBufferSendFromISR asserts that   *)
(* the stream buffer exists; it takes what fits.                                *)
USART_IRQHandler(u, n) ==
    LET bytes == Received(SubSeq(toArrive[u], 1, n))
    IN  /\ ~hung
        /\ boot >= InterruptsOn
        /\ n <= Len(toArrive[u])
        /\ toArrive' = [toArrive EXCEPT ![u] = SubSeq(@, n + 1, Len(@))]
        /\ hung' = (bytes # <<>> /\ boot < StreamExists)
        /\ \/ /\ boot >= StreamExists
              /\ rxStream' = rxStream \o Taken(bytes)
              /\ accepted' = IF boot = Running THEN accepted \cup WholeIn(Taken(bytes))
                                               ELSE accepted
           \/ /\ boot < StreamExists
              /\ UNCHANGED <<rxStream, accepted>>
        /\ UNCHANGED <<boot, cmdVars, notified, executing, txVars, advVars, served, aborted>>

(* The USARTs are not enabled yet. *)
lineIgnored(u, n) ==
    /\ boot = Off
    /\ n <= Len(toArrive[u])
    /\ toArrive' = [toArrive EXCEPT ![u] = SubSeq(@, n + 1, Len(@))]
    /\ UNCHANGED <<boot, hung, rxStream, accepted, cmdVars, notified, executing,
                   txVars, advVars, served, aborted>>

-----------------------------------------------------------------------------
(* BKEL_UART_Tx: byte by byte, all to USART1 and then all to USART2.         *)

(* Task t enters it with frame f. *)
Transmit(t, f) ==
    /\ tx' = [tx EXCEPT ![t] = [frame |-> f, uart |-> 1, byte |-> 1, txe |-> FALSE]]
    /\ split' = IF t # "advertise" /\ tx["advertise"] # Idle
                THEN split \cup {tx["advertise"].frame} ELSE split
    /\ UNCHANGED <<dr, wire>>

(* Mutant: TXE is tested before the first byte of a frame only. *)
txTests_FirstByteOnly(t) ==
    /\ Runs(t)
    /\ tx[t] # Idle
    /\ ~tx[t].txe
    /\ tx[t].byte = 1 => dr[tx[t].uart] = NoByte
    /\ tx' = [tx EXCEPT ![t].txe = TRUE]
    /\ UNCHANGED <<boot, hung, rxVars, cmdVars, notified, executing, dr, wire, split,
                   advVars, served, aborted>>

(* The loop on SR ends: the data register is empty.  Both USARTs run at       *)
(* 115200 baud, so while a frame went out on USART2, USART1 became empty.     *)
txTests(t) ==
    /\ Runs(t)
    /\ tx[t] # Idle
    /\ ~tx[t].txe
    /\ dr[tx[t].uart] = NoByte
    /\ tx[t].uart = 2 /\ tx[t].byte = TxLen => dr[1] = NoByte
    /\ tx' = [tx EXCEPT ![t].txe = TRUE]
    /\ UNCHANGED <<boot, hung, rxVars, cmdVars, notified, executing, dr, wire, split,
                   advVars, served, aborted>>

(* Mutant: the second loop, a copy of the first, writes to USART1 too. *)
txWrites_SameUart(t) ==
    /\ Runs(t)
    /\ tx[t] # Idle
    /\ tx[t].txe
    /\ dr' = [dr EXCEPT ![1] = <<tx[t].frame, tx[t].byte>>]
    /\ tx' = [tx EXCEPT ![t] =
                 IF tx[t].byte < TxLen THEN [tx[t] EXCEPT !.byte = @ + 1, !.txe = FALSE]
                 ELSE IF tx[t].uart = 1 THEN [tx[t] EXCEPT !.uart = 2, !.byte = 1, !.txe = FALSE]
                 ELSE Idle]
    /\ UNCHANGED <<boot, hung, rxVars, cmdVars, notified, executing, wire, split,
                   advVars, served, aborted>>

(* The byte is written, whatever the register holds by now. *)
txWrites(t) ==
    /\ Runs(t)
    /\ tx[t] # Idle
    /\ tx[t].txe
    /\ dr' = [dr EXCEPT ![tx[t].uart] = <<tx[t].frame, tx[t].byte>>]
    /\ tx' = [tx EXCEPT ![t] =
                 IF tx[t].byte < TxLen THEN [tx[t] EXCEPT !.byte = @ + 1, !.txe = FALSE]
                 ELSE IF tx[t].uart = 1 THEN [tx[t] EXCEPT !.uart = 2, !.byte = 1, !.txe = FALSE]
                 ELSE Idle]
    /\ UNCHANGED <<boot, hung, rxVars, cmdVars, notified, executing, wire, split,
                   advVars, served, aborted>>

(* The USART moves the byte to its shift register. *)
shift(u) ==
    /\ dr[u] # NoByte
    /\ wire' = [wire EXCEPT ![u] = Append(@, dr[u])]
    /\ dr' = [dr EXCEPT ![u] = NoByte]
    /\ UNCHANGED <<boot, hung, rxVars, cmdVars, notified, executing, tx, split, advVars,
                   served, aborted>>

-----------------------------------------------------------------------------
(* f_sendPeriodAdvertiseTask: the delay ends, then frame after frame.        *)

delayEnds ==
    /\ ~hung
    /\ Exists("advertise")
    /\ advLeft = 0 /\ tx["advertise"] = Idle
    /\ advSent < MaxPeriods * AdvFrames
    /\ advLeft' = AdvFrames
    /\ UNCHANGED <<boot, hung, rxVars, cmdVars, notified, executing, txVars, advSent,
                   served, aborted>>

AppService_SendAdvertise ==
    /\ Runs("advertise")
    /\ tx["advertise"] = Idle
    /\ advLeft' = advLeft - 1
    /\ advSent' = advSent + 1
    /\ Transmit("advertise", <<"adv", advSent + 1>>)
    /\ UNCHANGED <<boot, hung, rxVars, cmdVars, notified, executing, served, aborted>>

-----------------------------------------------------------------------------
(* f_handleCommandTask *)

(* It asserts that rxStream exists. *)
xStreamBufferReceive ==
    /\ Runs("command")
    /\ ~parsing /\ tx["command"] = Idle
    /\ LET n == Min({Len(rxStream), TempSize})
       IN  /\ rx_buf' = rx_buf \o SubSeq(rxStream, 1, n)
           /\ rxStream' = SubSeq(rxStream, n + 1, Len(rxStream))
    /\ parsing' = TRUE
    /\ hung' = (boot < StreamExists)
    /\ UNCHANGED <<boot, toArrive, accepted, parsed_packet, notices, notified, executing,
                   txVars, advVars, served, aborted>>

(* parse_one_frame at the front of rx_buf. *)
Candidate == rx_buf # <<>> /\ Head(rx_buf)[2] = 1
Complete == Candidate /\ Len(rx_buf) >= ReqLen[Head(rx_buf)[1]]
Intact == Complete /\ IsPrefix(Bytes(Head(rx_buf)[1]), rx_buf)

parseDrops ==
    /\ Runs("command")
    /\ parsing /\ tx["command"] = Idle
    /\ rx_buf # <<>>
    /\ ~Candidate \/ (Complete /\ ~Intact)
    /\ rx_buf' = Tail(rx_buf)
    /\ UNCHANGED <<boot, hung, rxVars, parsing, parsed_packet, notices, notified,
                   executing, txVars, advVars, served, aborted>>

(* Mutant: parse_packet returns after a frame. *)
parseEnds_AfterOneFrame ==
    /\ Runs("command")
    /\ parsing /\ tx["command"] = Idle
    /\ rx_buf = <<>> \/ (Candidate /\ ~Complete) \/ notices # <<>>
    /\ parsing' = FALSE
    /\ UNCHANGED <<boot, hung, rxVars, rx_buf, parsed_packet, notices, notified,
                   executing, txVars, advVars, served, aborted>>

parseEnds ==
    /\ Runs("command")
    /\ parsing /\ tx["command"] = Idle
    /\ rx_buf = <<>> \/ (Candidate /\ ~Complete)
    /\ parsing' = FALSE
    /\ UNCHANGED <<boot, hung, rxVars, rx_buf, parsed_packet, notices, notified,
                   executing, txVars, advVars, served, aborted>>

WorkerOf(r) == IF Kind[r] \in Diag THEN "diag" ELSE "rpc"

(* Mutant: hSendDataTask and hRPCTask are not tested. *)
HandleSet_Untested(t) == TRUE

(* hSendDataTask != NULL, hRPCTask != NULL: rtos_taskinit assigns them.         *)
HandleSet(t) == Exists(t)

(* It asserts that the task's handle is not NULL.  The notification carries the *)
(* packet's address and overwrites one that is pending.                        *)
xTaskNotify(t, packet) ==
    /\ hung' = ~Exists(t)
    /\ notified' = notified \cup {t}
    /\ notices' = Append(notices, packet)

(* PARSE_OK: handle_frame prints that the SID is undefined, ignores an RPC with  *)
(* an invalid DLC, or fills the packet and notifies the worker, if there is one. *)
handle_frame ==
    /\ Runs("command")
    /\ parsing /\ tx["command"] = Idle
    /\ Intact
    /\ LET r == Head(rx_buf)[1]
       IN  /\ rx_buf' = SubSeq(rx_buf, ReqLen[r] + 1, Len(rx_buf))
           /\ \/ /\ Kind[r] = "undefined"
                 /\ Transmit("command", <<"text", r>>)
                 /\ UNCHANGED <<hung, parsed_packet, notices, notified>>
              \/ /\ Kind[r] = "invalid"
                 /\ UNCHANGED <<hung, parsed_packet, notices, notified, txVars>>
              \/ /\ Kind[r] \in Diag \cup Rpc
                 /\ parsed_packet' = r
                 /\ \/ HandleSet(WorkerOf(r)) /\ xTaskNotify(WorkerOf(r), r)
                    \/ ~HandleSet(WorkerOf(r)) /\ UNCHANGED <<hung, notices, notified>>
                 /\ UNCHANGED txVars
    /\ UNCHANGED <<boot, rxVars, parsing, executing, advVars, served, aborted>>

-----------------------------------------------------------------------------
(* The workers *)

(* f_sendDataTask: the SID is read from the packet, the answer is sent.       *)
(* AppSendDiagPWMIn has none when no edge was captured.                      *)
f_sendDataTask ==
    /\ Runs("diag")
    /\ tx["diag"] = Idle
    /\ notified' = notified \ {"diag"}
    /\ \/ /\ Kind[parsed_packet] \in Diag
          /\ served' = Append(served, parsed_packet)
          /\ \/ Transmit("diag", <<"answer", parsed_packet>>)
             \/ Kind[parsed_packet] = "pwm_in" /\ UNCHANGED txVars
       \/ /\ Kind[parsed_packet] \notin Diag
          /\ UNCHANGED <<served, txVars>>
    /\ UNCHANGED <<boot, hung, rxVars, cmdVars, executing, advVars, aborted>>

(* f_RPCTask: every function prints before it acts. *)
f_RPCTask ==
    /\ Runs("rpc")
    /\ tx["rpc"] = Idle /\ executing = "none"
    /\ notified' = notified \ {"rpc"}
    /\ \/ /\ Kind[parsed_packet] \in Rpc
          /\ executing' = Kind[parsed_packet]
          /\ Transmit("rpc", <<"text", parsed_packet>>)
       \/ /\ Kind[parsed_packet] \notin Rpc
          /\ UNCHANGED <<executing, txVars>>
    /\ UNCHANGED <<boot, hung, rxVars, cmdVars, advVars, served, aborted>>

(* It acts on the payload the packet has now. *)
rpcActs ==
    /\ Runs("rpc")
    /\ tx["rpc"] = Idle /\ executing = "rpc"
    /\ executing' = "none"
    /\ served' = Append(served, parsed_packet)
    /\ UNCHANGED <<boot, hung, rxVars, cmdVars, notified, txVars, advVars, aborted>>

(* NVIC_SystemReset: what was received, parsed or being sent is gone. *)
BKEL_RPC_MCU_Reset ==
    /\ Runs("rpc")
    /\ tx["rpc"] = Idle /\ executing = "reset"
    /\ served' = Append(served, parsed_packet)
    /\ aborted' = aborted \cup {tx[t].frame : t \in {s \in Task : tx[s] # Idle}}
                          \cup {dr[u][1] : u \in {v \in Uart : dr[v] # NoByte}}
    /\ boot' = Off
    /\ rxStream' = <<>> /\ rx_buf' = <<>> /\ parsing' = FALSE /\ parsed_packet' = NoByte
    /\ notified' = {} /\ executing' = "none" /\ advLeft' = 0
    /\ tx' = [t \in Task |-> Idle]
    /\ dr' = [u \in Uart |-> NoByte]
    /\ accepted' = {}
    /\ UNCHANGED <<hung, toArrive, notices, wire, split, advSent>>

-----------------------------------------------------------------------------
TaskStep ==
    \/ startUp
    \/ \E t \in Task : txTests(t) \/ txWrites(t)
    \/ AppService_SendAdvertise
    \/ xStreamBufferReceive \/ parseDrops \/ parseEnds \/ handle_frame
    \/ f_sendDataTask \/ f_RPCTask \/ rpcActs \/ BKEL_RPC_MCU_Reset

Next ==
    \/ TaskStep
    \/ delayEnds
    \/ \E u \in Uart : \/ shift(u)
                       \/ \E n \in 1 .. Len(toArrive[u]) : USART_IRQHandler(u, n) \/ lineIgnored(u, n)

Fairness == WF_taskVars(TaskStep) /\ \A u \in Uart : WF_taskVars(shift(u))

Spec == Init /\ [][Next]_taskVars /\ Fairness
-----------------------------------------------------------------------------
FrameIds == {<<k, r>> : k \in {"answer", "text"}, r \in Requests}
                \cup {<<"adv", i>> : i \in 1 .. advSent}

(* Type invariant. *)
TaskTypeOK ==
    /\ boot \in Off .. Running
    /\ hung \in BOOLEAN /\ parsing \in BOOLEAN
    /\ toArrive \in [Uart -> Seq(RequestByte)]
    /\ rxStream \in Seq(RequestByte) /\ Len(rxStream) <= StreamSize
    /\ rx_buf \in Seq(RequestByte)
    /\ parsed_packet \in Packets
    /\ notified \subseteq {"diag", "rpc"}
    /\ executing \in {"none", "rpc", "reset"}
    /\ tx \in [Task -> {Idle} \cup [frame : FrameIds, uart : Uart, byte : 1 .. TxLen, txe : BOOLEAN]]
    /\ dr \in [Uart -> {NoByte} \cup (FrameIds \X (1 .. TxLen))]
    /\ wire \in [Uart -> Seq(FrameIds \X (1 .. TxLen))]
    /\ advLeft \in 0 .. AdvFrames /\ advSent \in Nat
    /\ notices \in Seq(Requests) /\ served \in Seq(Packets)
    /\ accepted \subseteq Requests
    /\ split \subseteq FrameIds /\ aborted \subseteq FrameIds

(* Workers are handed the address of the one parsed_packet: each packet a      *)
(* worker is notified of is acted on as it was then, once and in order, and     *)
(* the next one is not parsed before (the priorities in rtos_taskinit).        *)
PacketServedAsNotified ==
    /\ IsPrefix(served, notices)
    /\ Len(notices) <= Len(served) + 1
    /\ Len(notices) > Len(served) => parsed_packet = Last(notices)

(* The byte at place p of what u sent directly follows its predecessor. *)
Follows(u, p) ==
    LET b == wire[u][p]
    IN  b[2] > 1 => p > 1 /\ wire[u][p - 1] = <<b[1], b[2] - 1>>

(* Byte i of frame f has left through u or is about to. *)
Out(u, f, i) == <<f, i>> \in Range(wire[u]) \cup {dr[u]}

(* BKEL_UART_Tx has returned for f. *)
Finished(f) == /\ \E u \in Uart : Out(u, f, 1)
               /\ \A t \in Task : tx[t] = Idle \/ tx[t].frame # f

(* BKEL_UART_Tx has no lock, and still an answer is in one piece on both USARTs *)
(* and complete on USART1, the gateway's; on USART2 an advertisement that was    *)
(* interrupted between its test of TXE and its write may overwrite the last      *)
(* byte, and only that.                                                        *)
AnswersInOnePiece ==
    /\ \A u \in Uart : \A p \in DOMAIN wire[u] : wire[u][p][1][1] # "adv" => Follows(u, p)
    /\ \A f \in FrameIds \ aborted : f[1] # "adv" /\ Finished(f) =>
          Out(1, f, TxLen) /\ Out(2, f, TxLen - 1)

(* Where an answer begins in what u sent. *)
AnswerStarts(u) == {p \in DOMAIN wire[u] : wire[u][p][1][1] = "answer" /\ wire[u][p][2] = 1}

(* Answers carry no request: on each USART they leave in the order in which the    *)
(* requests were served, none for a request that was not and at most one for each, *)
(* whatever interrupts, advertisements, texts and resets come between.            *)
AnswersInServedOrder ==
    \A u \in Uart : \E m \in [AnswerStarts(u) -> DOMAIN served] :
        /\ \A p \in AnswerStarts(u) : served[m[p]] = wire[u][p][1][2]
        /\ \A p, q \in AnswerStarts(u) : p < q => m[p] < m[q]

(* An advertisement is only damaged when another task sent while it was in       *)
(* BKEL_UART_Tx, and then only by being cut: none of its bytes is lost, and none  *)
(* is out of order.                                                            *)
AdvertisementOnlyCut ==
    \A u \in Uart :
        /\ \A p \in DOMAIN wire[u] : wire[u][p][1] \notin split => Follows(u, p)
        /\ \A f \in FrameIds \ aborted : f[1] = "adv" /\ Finished(f) =>
              \A i \in 1 .. TxLen : Out(u, f, i)
        /\ \A p, q \in DOMAIN wire[u] :
              wire[u][p][1][1] = "adv" /\ wire[u][p][1] = wire[u][q][1] /\ p < q =>
                  wire[u][p][2] < wire[u][q][2]

(* The command task preempts rtos_taskinit as soon as it is created, and after a   *)
(* reset everything is created again; still FreeRTOS's assertions hold: nothing    *)
(* uses rxStream or notifies a worker before it exists.  One assertion is exempt,   *)
(* and stops the MCU for good: that of an interrupt between system_init, which      *)
(* enables it, and rtos_taskinit, which creates rxStream.                          *)
AssertionsHold == hung => boot = InterruptsOn

Unserved == {r \in accepted : Kind[r] \in Diag \cup Rpc} \ Range(served)

(* Requests that came in one burst shorter than the DMA buffer, into a stream     *)
(* buffer with room for them, are served unless a reset comes first: at the        *)
(* latest when the bytes that a cut request before them announced have come        *)
(* (interrupts, stream buffer, command task and workers together).             *)
AcceptedIsServed ==
    Unserved # {} ~> \/ Unserved = {}
                     \/ boot # Running
                     \/ ~parsing /\ Candidate /\ ~Complete
=============================================================================
