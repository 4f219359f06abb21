-------------------------------- MODULE Bridge --------------------------------
(***************************************************************************)
(* The gateway between its clients and the MCU: the session table, the two  *)
(* UART threads (UartTransport.cpp, PacketParser.cpp), the local test menu  *)
(* (CommandService.cpp, built with COMMAND_TEST) and the MCU's tasks as seen *)
(* from the wire (BKEL_APP_protocol.c, BKEL_APP_TaskM.c).  Frames are whole  *)
(* here: framing and resynchronisation belong to the parsers.               *)
(*                                                                         *)
(* The MCU answers a diag request with the SID it was asked for and its own  *)
(* CID: nothing in an answer names the client, and the gateway matches       *)
(* answers to sessions by SID alone.                                        *)
(***************************************************************************)
EXTENDS SessionManager, SequencesExt

CONSTANTS
    McuCid,     \* the MCU's node id; the GUI addresses its requests to it
    MenuCid,    \* stands for CommandService::currentCid
    ClientSids, \* SIDs clients ask for
    MenuSids,   \* SIDs the menu asks for
    Faults,     \* which losses may happen: subset of FaultKind
    MaxWire     \* bound on the frames under way in each direction

SERVICE_ADVERTISE == 1
RPC_MCU_RESET == 17         \* 0x11
DIAG_PWM_INPUT_VALUE == 33  \* 0x21

FaultKind == {"pwm_invalid", "reset", "uart_rx", "uart_tx"}

ASSUME FrameAssumption == /\ {McuCid, MenuCid} \subseteq FrameCids
                          /\ Origins = Conns \cup {NoConn}
ASSUME RequestAssumption == ClientSids \cup MenuSids \cup {SERVICE_ADVERTISE} \subseteq Sids
ASSUME FaultAssumption == Faults \subseteq FaultKind
ASSUME MaxWireAssumption == MaxWire \in Nat \ {0}

VARIABLES
    uartTxFrame,    \* the frame txWorker holds between pop and write
    toMcu,          \* written by the gateway, not yet parsed by the MCU
    fromMcu,        \* written by the MCU, not yet parsed by the gateway
    lost            \* history: clients of live sessions with a request that no
                    \* answer will follow

wire == <<uartTxFrame, toMcu, fromMcu>>
bridgeVars == <<smVars, wire, lost>>

BridgeTypeOK ==
    /\ TypeOK
    /\ uartTxFrame \in Seq(Frame) /\ Len(uartTxFrame) <= 1
    /\ toMcu \in Seq(Frame)
    /\ fromMcu \in Seq(Frame)
    /\ lost \in SUBSET Conns

BridgeInit ==
    /\ Init
    /\ uartTxFrame = <<>>
    /\ toMcu = <<>>
    /\ fromMcu = <<>>
    /\ lost = {}

-----------------------------------------------------------------------------
(* Clients come, ask and go.                                               *)

Connect(c) ==
    /\ acceptLoop(c) \/ registrationFails(c) \/ addSession(c) \/ rxLoopBreaks(c)
    /\ UNCHANGED <<wire, lost>>

(* One turn of TlsTransport::rxLoop: the GUI puts the MCU's CID into it. *)
rxLoop(c, sid) ==
    /\ McuRoom(c)
    /\ forwardToMcu(c, [sid |-> sid, cid |-> McuCid, from |-> c])
    /\ UNCHANGED <<wire, lost>>

Disconnect(c) ==
    /\ removeSession(c)
    /\ lost' = lost \ {c}
    /\ UNCHANGED wire

txLoop(c) ==
    /\ txLoopSends(c)
    /\ UNCHANGED <<wire, lost>>

-----------------------------------------------------------------------------
(* The UART tx thread: pop under mtx_, then encode and write without it.    *)

(* Mutant: one thread per frame, so a second pop overtakes the first write. *)
txWorkerPop_Concurrent(c) ==
    /\ Len(uartTxFrame) < 2
    /\ popNextMcuFrame(c)
    /\ uartTxFrame' = <<Head(toMcuQueue[c])>> \o uartTxFrame
    /\ UNCHANGED <<toMcu, fromMcu, lost>>

txWorkerPop(c) ==
    /\ uartTxFrame = <<>>
    /\ popNextMcuFrame(c)
    /\ uartTxFrame' = <<Head(toMcuQueue[c])>>
    /\ UNCHANGED <<toMcu, fromMcu, lost>>

(* Who waits for an answer to one of these frames. *)
DiagOrigins(frames) ==
    {f.from : f \in {g \in Range(frames) : isDiagSid(g.sid)}} \ {NoConn}

txWorkerWrite ==
    /\ uartTxFrame # <<>>
    /\ Len(toMcu) < MaxWire
    /\ toMcu' = toMcu \o uartTxFrame
    /\ uartTxFrame' = <<>>
    /\ UNCHANGED <<smVars, fromMcu, lost>>

(* write fails or is cut short; its result is not looked at. *)
txWorkerWriteFails ==
    /\ "uart_tx" \in Faults
    /\ uartTxFrame # <<>>
    /\ uartTxFrame' = <<>>
    /\ lost' = lost \cup DiagOrigins(uartTxFrame)
    /\ UNCHANGED <<smVars, toMcu, fromMcu>>

(* Bound: the menu has at most one frame on the wire. *)
MenuRoom == /\ Len(toMcu) < MaxWire
            /\ \A f \in Range(toMcu) : f.from # NoConn

(* The menu writes to the UART directly; the kernel keeps one write whole.  *)
(* No session waits for the answers.                                        *)
CommandService(sid) ==
    /\ MenuRoom
    /\ toMcu' = Append(toMcu, [sid |-> sid, cid |-> MenuCid, from |-> NoConn])
    /\ UNCHANGED <<smVars, uartTxFrame, fromMcu, lost>>

-----------------------------------------------------------------------------
(* The MCU: the command task parses one frame at a time and the worker it    *)
(* notifies, which has a higher priority, is done with it before the next.   *)

Answer(f) == [sid |-> f.sid, cid |-> McuCid, from |-> f.from]

(* A diag request is answered; an RPC, a reset with another command byte or  *)
(* an undefined SID is not.                                                  *)
McuServes ==
    /\ toMcu # <<>>
    /\ Len(fromMcu) < MaxWire
    /\ toMcu' = Tail(toMcu)
    /\ fromMcu' = IF isDiagSid(Head(toMcu).sid)
                  THEN Append(fromMcu, Answer(Head(toMcu)))
                  ELSE fromMcu
    /\ UNCHANGED <<smVars, uartTxFrame, lost>>

(* AppSendDiagPWMIn returns without a frame when no edge was captured. *)
McuDeclines ==
    /\ "pwm_invalid" \in Faults
    /\ toMcu # <<>>
    /\ Head(toMcu).sid = DIAG_PWM_INPUT_VALUE
    /\ toMcu' = Tail(toMcu)
    /\ lost' = lost \cup DiagOrigins(<<Head(toMcu)>>)
    /\ UNCHANGED <<smVars, uartTxFrame, fromMcu>>

(* NVIC_SystemReset: what the MCU had received, and what arrives while it    *)
(* boots, is gone.                                                          *)
McuResets ==
    /\ "reset" \in Faults
    /\ toMcu # <<>>
    /\ Head(toMcu).sid = RPC_MCU_RESET
    /\ \E n \in 1 .. Len(toMcu) :
          /\ toMcu' = SubSeq(toMcu, n + 1, Len(toMcu))
          /\ lost' = lost \cup DiagOrigins(SubSeq(toMcu, 1, n))
    /\ UNCHANGED <<smVars, uartTxFrame, fromMcu>>

(* CRC mismatch or an overrun receive buffer on the MCU. *)
McuDrops ==
    /\ "uart_tx" \in Faults
    /\ toMcu # <<>>
    /\ toMcu' = Tail(toMcu)
    /\ lost' = lost \cup DiagOrigins(<<Head(toMcu)>>)
    /\ UNCHANGED <<smVars, uartTxFrame, fromMcu>>

(* Bound: an advertisement is delivered long before the next is due. *)
AdvertiseRoom == /\ Len(fromMcu) < MaxWire
                 /\ \A f \in Range(fromMcu) : f.sid # SERVICE_ADVERTISE

(* Every 5 s, whatever else goes on; one frame stands for the list. *)
AppService_SendAdvertise ==
    /\ AdvertiseRoom
    /\ fromMcu' = Append(fromMcu,
                         [sid |-> SERVICE_ADVERTISE, cid |-> McuCid, from |-> NoConn])
    /\ UNCHANGED <<smVars, uartTxFrame, toMcu, lost>>

-----------------------------------------------------------------------------
(* The UART rx thread: rxWorker, PacketParser::push and onFrame.            *)

onFrame(f) ==
    \/ f.sid = SERVICE_ADVERTISE /\ broadcast(f)
    \/ f.sid # SERVICE_ADVERTISE /\ routeUartRxBySid(f)

rxWorker ==
    /\ fromMcu # <<>>
    /\ TxRoom
    /\ onFrame(Head(fromMcu))
    /\ fromMcu' = Tail(fromMcu)
    /\ UNCHANGED <<uartTxFrame, toMcu, lost>>

(* PacketParser::parse rejects a frame by its CRC and resynchronises. *)
parseRejects ==
    /\ "uart_rx" \in Faults
    /\ fromMcu # <<>>
    /\ fromMcu' = Tail(fromMcu)
    /\ lost' = lost \cup DiagOrigins(<<Head(fromMcu)>>)
    /\ UNCHANGED <<smVars, uartTxFrame, toMcu>>

-----------------------------------------------------------------------------
txWorker == \/ \E c \in Conns : txWorkerPop(c)
            \/ txWorkerWrite
            \/ txWorkerWriteFails

Mcu == McuServes \/ McuDeclines \/ McuResets \/ McuDrops

BridgeNext ==
    \/ \E c \in Conns :
          \/ Connect(c)
          \/ \E sid \in ClientSids : rxLoop(c, sid)
          \/ Disconnect(c)
          \/ txLoop(c)
    \/ txWorker
    \/ \E sid \in MenuSids : CommandService(sid)
    \/ Mcu
    \/ AppService_SendAdvertise
    \/ rxWorker
    \/ parseRejects

(* The UART threads spin, the MCU's tasks run whenever they have work and a   *)
(* tx thread is woken for every buffer; clients owe nobody anything.         *)
Fairness ==
    /\ WF_bridgeVars(txWorker)
    /\ WF_bridgeVars(Mcu)
    /\ WF_bridgeVars(rxWorker \/ parseRejects)
    /\ \A c \in Conns : WF_bridgeVars(txLoop(c))

BridgeSpec == BridgeInit /\ [][BridgeNext]_bridgeVars /\ Fairness

-----------------------------------------------------------------------------
(* What lies between c and the next answer, the first to arrive in front. *)
Path(c) == fromMcu \o toMcu \o uartTxFrame \o toMcuQueue[c]

OwnRequest(c, f) == f.from = c /\ isDiagSid(f.sid)

(* The SIDs in sids are those of the last requests of c among the frames: m      *)
(* finds each of them, in this order, and leaves none out from the first on.     *)
AreLastRequests(c, sids, frames) ==
    \E m \in [1 .. Len(sids) -> 1 .. Len(frames)] :
        /\ \A i \in 1 .. Len(sids) : /\ OwnRequest(c, frames[m[i]])
                                     /\ frames[m[i]].sid = sids[i]
        /\ \A i, j \in 1 .. Len(sids) : i < j => m[i] < m[j]
        /\ \A i \in 1 .. Len(sids), p \in 1 .. Len(frames) :
              m[i] <= p /\ OwnRequest(c, frames[p]) => \E j \in 1 .. Len(sids) : m[j] = p

(* As long as no frame of its own is lost, every SID a session still waits    *)
(* for belongs to a request of its own that is still on the way, in the same  *)
(* order: nobody else's traffic, answers, losses, reconnects or MCU resets    *)
(* that spare its frames can leave a session waiting for an answer that will  *)
(* not come, or waiting for the wrong one.                                    *)
NoOrphanedWait ==
    \A c \in Registered \ lost : AreLastRequests(c, requestedSidQueue[c], Path(c))

(* Nothing of c is lost any more and no session with a smaller CID has        *)
(* frames for the MCU.                                                      *)
Undisturbed(c) ==
    /\ c \in Registered \ lost
    /\ \A d \in Registered : CidOf[d] < CidOf[c] => toMcuQueue[d] = <<>>

(* A session whose frames get through and whom no smaller CID keeps from the  *)
(* UART (popNextMcuFrame starts from the smallest CID every time) never       *)
(* waits forever: again and again it has nothing to wait for or gets an       *)
(* answer.                                                                  *)
WaitEnds ==
    \A c \in Conns :
        <>[]Undisturbed(c) =>
            \/ []<>(requestedSidQueue[c] = <<>>)
            \/ []<><<Answered(c)>>_bridgeVars

(* README.md: "DIAG: show response value".  When the MCU's answer to a        *)
(* request of c arrives and c still waits for that SID, c gets it.           *)
DiagShowsResponse ==
    [][\A c \in Registered :
          /\ rxWorker
          /\ Head(fromMcu).from = c
          /\ Head(fromMcu).sid \in Range(requestedSidQueue[c])
          => txQueue'[c] = Append(txQueue[c], Head(fromMcu))]_bridgeVars
=============================================================================
