---------------------------- MODULE SessionManager ----------------------------
(***************************************************************************)
(* The session table of the gateway: app/src/core/SessionManager.cpp and   *)
(* Session.cpp, with the parts of TcpServer.cpp and TlsTransport.cpp that   *)
(* create and destroy sessions.                                            *)
(*                                                                         *)
(* Every public operation of SessionManager runs from beginning to end     *)
(* under its mutex mtx_, so each is one step.  Everything else (the rx      *)
(* thread of a connection leaving its loop, the tx thread draining its      *)
(* queue, the accept thread) interleaves with them freely.                 *)
(*                                                                         *)
(* A member of Conns stands for one TLS connection: the TlsTransport made   *)
(* for it, its rx thread and the Session that owns the transport.  A        *)
(* closed connection may be opened again; the client then announces the     *)
(* same CID.                                                               *)
(***************************************************************************)
EXTENDS Naturals, Sequences

CONSTANTS
    Conns,      \* connections
    NoConn,     \* no connection: an absent map entry, an unattributed frame
    CidOf,      \* the 12-bit CID a connection announces with SID 0x30
    Sids,       \* service identifiers that occur in frames
    FrameCids,  \* CID values that occur in frames
    Origins,    \* whose request a frame is, or answers (history only)
    MaxPending, \* bound on requestedSidQueue_: the code has none
    MaxQueue,   \* bound on toMcuQueue_: the code has none
    MaxTx       \* bound on txQueue_: the code has none

ASSUME ConnAssumption == NoConn \notin Conns
ASSUME CidAssumption == CidOf \in [Conns -> Nat]
ASSUME SidAssumption == Sids \subseteq Nat
ASSUME BoundAssumption == {MaxPending, MaxQueue, MaxTx} \subseteq Nat \ {0}

VARIABLES
    sessions,           \* sessions_: CID -> the connection whose Session is stored
    transport,          \* life of the TlsTransport object of a connection
    rx,                 \* its rx thread: not started, in rxLoop, past the loop
    requestedSidQueue,  \* Session::requestedSidQueue_
    toMcuQueue,         \* Session::toMcuQueue_
    txQueue,            \* TlsTransport::txQueue_
    isBlocked           \* Session::isBlocked_

smVars == <<sessions, transport, rx, requestedSidQueue, toMcuQueue, txQueue,
            isBlocked>>

Cids == {CidOf[c] : c \in Conns}

(* BKEL_Frame without type, dlc and payload, which no decision here reads.  *)
(* "from" is a history field: no code reads it and the wire does not carry  *)
(* it.                                                                      *)
Frame == [sid : Sids, cid : FrameCids, from : Origins]

TransportState == {"none", "accepted", "running", "leaked"}
RxState == {"none", "loop", "exit"}

TypeOK ==
    /\ sessions \in [Cids -> Conns \cup {NoConn}]
    /\ transport \in [Conns -> TransportState]
    /\ rx \in [Conns -> RxState]
    /\ requestedSidQueue \in [Conns -> Seq(Sids)]
    /\ toMcuQueue \in [Conns -> Seq(Frame)]
    /\ txQueue \in [Conns -> Seq(Frame)]
    /\ isBlocked \in [Conns -> BOOLEAN]

Init ==
    /\ sessions = [k \in Cids |-> NoConn]
    /\ transport = [c \in Conns |-> "none"]
    /\ rx = [c \in Conns |-> "none"]
    /\ requestedSidQueue = [c \in Conns |-> <<>>]
    /\ toMcuQueue = [c \in Conns |-> <<>>]
    /\ txQueue = [c \in Conns |-> <<>>]
    /\ isBlocked = [c \in Conns |-> FALSE]

-----------------------------------------------------------------------------
(* Session.hpp, Types.hpp                                                  *)

DIAG_SID_MIN == 32  \* 0x20
DIAG_SID_MAX == 38  \* 0x26
isDiagSid(sid) == DIAG_SID_MIN <= sid /\ sid <= DIAG_SID_MAX

(* findSessionNoLock_(cid) *)
findSession(cid) == sessions[cid]

(* The entries an iteration over sessions_ visits. *)
Registered == {sessions[k] : k \in Cids} \ {NoConn}

(* The SID at the front of the queue is the one a response must carry; an  *)
(* empty queue (0xFF in the code) matches nothing.                         *)
Expects(c, sid) ==
    /\ requestedSidQueue[c] # <<>>
    /\ Head(requestedSidQueue[c]) = sid

-----------------------------------------------------------------------------
(* The accept thread                                                       *)

(* accept() returns and the connection passes the ban check.  One thread    *)
(* does this, so one connection at a time is between here and addSession.   *)
acceptLoop(c) ==
    /\ transport[c] = "none"
    /\ rx[c] = "none"
    /\ \A d \in Conns : transport[d] # "accepted"
    /\ transport' = [transport EXCEPT ![c] = "accepted"]
    /\ UNCHANGED <<sessions, rx, requestedSidQueue, toMcuQueue, txQueue, isBlocked>>

(* SSL_accept or receivedCidTls fails: everything is freed and closed. *)
registrationFails(c) ==
    /\ transport[c] = "accepted"
    /\ transport' = [transport EXCEPT ![c] = "none"]
    /\ UNCHANGED <<sessions, rx, requestedSidQueue, toMcuQueue, txQueue, isBlocked>>

(* Mutant: the newest connection replaces the session of its CID. *)
addSession_Replaces(c) ==
    /\ transport[c] = "accepted"
    /\ sessions' = [sessions EXCEPT ![CidOf[c]] = c]
    /\ transport' = [transport EXCEPT ![c] = "running"]
    /\ rx' = [rx EXCEPT ![c] = "loop"]
    /\ UNCHANGED <<requestedSidQueue, toMcuQueue, txQueue, isBlocked>>

(* A free CID gets a fresh Session and both transport threads.  A taken one *)
(* gets nothing: the unique_ptr parameter destroys a transport that never    *)
(* ran, whose destructor therefore skips stop(), and the socket stays open   *)
(* with nobody reading it.                                                  *)
addSession(c) ==
    /\ transport[c] = "accepted"
    /\ \/ /\ findSession(CidOf[c]) = NoConn
          /\ sessions' = [sessions EXCEPT ![CidOf[c]] = c]
          /\ transport' = [transport EXCEPT ![c] = "running"]
          /\ rx' = [rx EXCEPT ![c] = "loop"]
       \/ /\ findSession(CidOf[c]) # NoConn
          /\ transport' = [transport EXCEPT ![c] = "leaked"]
          /\ UNCHANGED <<sessions, rx>>
    /\ UNCHANGED <<requestedSidQueue, toMcuQueue, txQueue, isBlocked>>

-----------------------------------------------------------------------------
(* The rx thread of a connection                                           *)

(* Mutant: the empty-queue mark 0xFF is recorded for an RPC request. *)
forwardToMcu_RecordsMark(c, f) ==
    /\ rx[c] = "loop"
    /\ requestedSidQueue' =
          [requestedSidQueue EXCEPT ![c] = Append(@, IF isDiagSid(f.sid) THEN f.sid ELSE 255)]
    /\ toMcuQueue' = [toMcuQueue EXCEPT ![c] = Append(@, f)]
    /\ UNCHANGED <<sessions, transport, rx, txQueue, isBlocked>>

(* A complete frame was read; the session is looked up again by CID. *)
forwardToMcu(c, f) ==
    /\ rx[c] = "loop"
    /\ LET s == findSession(CidOf[c])
       IN  \/ /\ s = NoConn
              /\ UNCHANGED <<requestedSidQueue, toMcuQueue>>
           \/ /\ s # NoConn
              /\ requestedSidQueue' =
                    IF isDiagSid(f.sid)
                    THEN [requestedSidQueue EXCEPT ![s] = Append(@, f.sid)]
                    ELSE requestedSidQueue
              /\ toMcuQueue' = [toMcuQueue EXCEPT ![s] = Append(@, f)]
    /\ UNCHANGED <<sessions, transport, rx, txQueue, isBlocked>>

(* A read fails, or the header announces more than BKEL_MAX_PAYLOAD bytes. *)
rxLoopBreaks(c) ==
    /\ rx[c] = "loop"
    /\ rx' = [rx EXCEPT ![c] = "exit"]
    /\ UNCHANGED <<sessions, transport, requestedSidQueue, toMcuQueue, txQueue,
                   isBlocked>>

(* Mutant: the transport is stopped, its map entry stays. *)
removeSession_KeepsEntry(c) ==
    /\ rx[c] = "exit"
    /\ rx' = [rx EXCEPT ![c] = "none"]
    /\ transport' = [transport EXCEPT ![c] = "none"]
    /\ requestedSidQueue' = [requestedSidQueue EXCEPT ![c] = <<>>]
    /\ toMcuQueue' = [toMcuQueue EXCEPT ![c] = <<>>]
    /\ txQueue' = [txQueue EXCEPT ![c] = <<>>]
    /\ isBlocked' = [isBlocked EXCEPT ![c] = FALSE]
    /\ UNCHANGED sessions

(* Mutant: the Session object outlives the erase and is reused, requests    *)
(* included.                                                                *)
removeSession_KeepsRequests(c) ==
    /\ rx[c] = "exit"
    /\ sessions' = [sessions EXCEPT ![CidOf[c]] = NoConn]
    /\ rx' = [rx EXCEPT ![c] = "none"]
    /\ transport' = [transport EXCEPT ![c] = "none"]
    /\ txQueue' = [txQueue EXCEPT ![c] = <<>>]
    /\ UNCHANGED <<requestedSidQueue, toMcuQueue, isBlocked>>

(* sessions_.erase(cid): whichever Session is stored there goes, with its   *)
(* queues and its transport (TlsTransport::stop, see module TlsTransport).   *)
removeSession(c) ==
    LET s == findSession(CidOf[c])
    IN  /\ rx[c] = "exit"
        /\ sessions' = [sessions EXCEPT ![CidOf[c]] = NoConn]
        /\ rx' = [rx EXCEPT ![c] = "none"]
        /\ transport' = [d \in Conns |-> IF d = s THEN "none" ELSE transport[d]]
        /\ requestedSidQueue' =
              [d \in Conns |-> IF d = s THEN <<>> ELSE requestedSidQueue[d]]
        /\ toMcuQueue' = [d \in Conns |-> IF d = s THEN <<>> ELSE toMcuQueue[d]]
        /\ txQueue' = [d \in Conns |-> IF d = s THEN <<>> ELSE txQueue[d]]
        /\ isBlocked' = [d \in Conns |-> IF d = s THEN FALSE ELSE isBlocked[d]]

-----------------------------------------------------------------------------
(* Traffic from and to the MCU                                             *)

broadcast(f) ==
    /\ txQueue' = [c \in Conns |-> IF c \in Registered THEN Append(txQueue[c], f)
                                                      ELSE txQueue[c]]
    /\ UNCHANGED <<sessions, transport, rx, requestedSidQueue, toMcuQueue, isBlocked>>

(* Mutant: the test that the comment in routeUartRxBySid describes. *)
Receivers_ByCid(f) ==
    {c \in Registered : ~isBlocked[c] /\ Expects(c, f.sid) /\ f.cid = CidOf[c]}

(* Every session that waits for this SID gets the frame and stops waiting. *)
Receivers(f) ==
    {c \in Registered : ~isBlocked[c] /\ Expects(c, f.sid)}

(* Mutant: popRequestedSid runs for every session, matching or not. *)
routeUartRxBySid_PopsAll(f) ==
    /\ txQueue' = [c \in Conns |-> IF c \in Receivers(f) THEN Append(txQueue[c], f)
                                                        ELSE txQueue[c]]
    /\ requestedSidQueue' =
          [c \in Conns |-> IF requestedSidQueue[c] # <<>> THEN Tail(requestedSidQueue[c])
                                                          ELSE <<>>]
    /\ UNCHANGED <<sessions, transport, rx, toMcuQueue, isBlocked>>

routeUartRxBySid(f) ==
    /\ txQueue' = [c \in Conns |-> IF c \in Receivers(f) THEN Append(txQueue[c], f)
                                                        ELSE txQueue[c]]
    /\ requestedSidQueue' =
          [c \in Conns |-> IF c \in Receivers(f) THEN Tail(requestedSidQueue[c])
                                                 ELSE requestedSidQueue[c]]
    /\ UNCHANGED <<sessions, transport, rx, toMcuQueue, isBlocked>>

sendToSession(cid, f) ==
    /\ findSession(cid) # NoConn
    /\ txQueue' = [txQueue EXCEPT ![findSession(cid)] = Append(@, f)]
    /\ UNCHANGED <<sessions, transport, rx, requestedSidQueue, toMcuQueue, isBlocked>>

(* Mutant: the largest CID wins. *)
FirstWithFrame_Largest(c) ==
    /\ c \in Registered
    /\ toMcuQueue[c] # <<>>
    /\ \A d \in Registered : toMcuQueue[d] # <<>> => CidOf[c] >= CidOf[d]

(* std::map iterates by ascending CID: the first session with a frame wins, *)
(* whoever was served last.  The frame handed out is Head(toMcuQueue[c]).    *)
FirstWithFrame(c) ==
    /\ c \in Registered
    /\ toMcuQueue[c] # <<>>
    /\ \A d \in Registered : toMcuQueue[d] # <<>> => CidOf[c] <= CidOf[d]

popNextMcuFrame(c) ==
    /\ FirstWithFrame(c)
    /\ toMcuQueue' = [toMcuQueue EXCEPT ![c] = Tail(@)]
    /\ UNCHANGED <<sessions, transport, rx, requestedSidQueue, txQueue, isBlocked>>

(* The tx thread takes one buffer off its queue and writes it. *)
txLoopSends(c) ==
    /\ transport[c] = "running"
    /\ txQueue[c] # <<>>
    /\ txQueue' = [txQueue EXCEPT ![c] = Tail(@)]
    /\ UNCHANGED <<sessions, transport, rx, requestedSidQueue, toMcuQueue, isBlocked>>

(* Session::setBlocked: no caller in the gateway, only in session_test.cpp. *)
setBlocked(c, blocked) ==
    /\ c \in Registered
    /\ isBlocked' = [isBlocked EXCEPT ![c] = blocked]
    /\ UNCHANGED <<sessions, transport, rx, requestedSidQueue, toMcuQueue, txQueue>>

-----------------------------------------------------------------------------
McuRoom(c) ==
    Len(toMcuQueue[c]) < MaxQueue /\ Len(requestedSidQueue[c]) < MaxPending
TxRoom == \A c \in Conns : Len(txQueue[c]) < MaxTx

Next ==
    \/ \E c \in Conns :
          \/ acceptLoop(c)
          \/ registrationFails(c)
          \/ addSession(c)
          \/ \E f \in Frame : McuRoom(c) /\ forwardToMcu(c, f)
          \/ rxLoopBreaks(c)
          \/ removeSession(c)
          \/ popNextMcuFrame(c)
          \/ txLoopSends(c)
          \/ \E b \in BOOLEAN : setBlocked(c, b)
    \/ \E f \in Frame :
          /\ TxRoom
          /\ \/ broadcast(f)
             \/ routeUartRxBySid(f)
             \/ \E k \in Cids : sendToSession(k, f)

Spec == Init /\ [][Next]_smVars

-----------------------------------------------------------------------------
(* A connection's rx thread finds its own session under its CID from the    *)
(* moment addSession starts it until its removeSession: no second           *)
(* connection announcing the same CID, and no late removeSession of an       *)
(* older connection, can take the entry away.  forwardToMcu and              *)
(* removeSession look the session up by CID alone and rely on it.            *)
RxThreadOwnsSession ==
    \A c \in Conns : rx[c] \in {"loop", "exit"} => findSession(CidOf[c]) = c

(* sessions_ holds exactly the transports whose threads are running, each   *)
(* under the CID it announced: broadcast, routeUartRxBySid and               *)
(* popNextMcuFrame, which walk the map, never reach a transport that was     *)
(* destroyed or never started, and miss none that runs.                      *)
SessionIsLive ==
    /\ \A k \in Cids : findSession(k) # NoConn =>
          /\ CidOf[findSession(k)] = k
          /\ transport[findSession(k)] = "running"
          /\ rx[findSession(k)] # "none"
    /\ \A c \in Conns : transport[c] = "running" => findSession(CidOf[c]) = c

(* What a session was waiting for, what it had queued in either direction    *)
(* and its block flag die with it: a client that reconnects under its old    *)
(* CID starts with empty queues (Session is built anew by addSession).       *)
ReconnectStartsFresh ==
    \A c \in Conns : transport[c] # "running" =>
        /\ requestedSidQueue[c] = <<>>
        /\ toMcuQueue[c] = <<>>
        /\ txQueue[c] = <<>>
        /\ ~isBlocked[c]

(* The step forgets the request at the front of c's queue, and only that,   *)
(* because an answer with its SID was queued for the client of c.            *)
Answered(c) ==
    /\ ~isBlocked[c]
    /\ requestedSidQueue[c] # <<>>
    /\ requestedSidQueue'[c] = Tail(requestedSidQueue[c])
    /\ \E f \in Frame :
          /\ f.sid = Head(requestedSidQueue[c])
          /\ txQueue'[c] = Append(txQueue[c], f)

(* The step records a diag request of c that it also queues for the MCU. *)
Requested(c) ==
    \E f \in Frame :
        /\ isDiagSid(f.sid)
        /\ requestedSidQueue'[c] = Append(requestedSidQueue[c], f.sid)
        /\ toMcuQueue'[c] = Append(toMcuQueue[c], f)

(* A pending diag request of a live session is never forgotten without its   *)
(* client getting a frame of that SID, never overtaken by a later one, and   *)
(* never recorded without being queued for the MCU; a session that ends      *)
(* takes its requests along.  Pairs updateLastRequestedSid with              *)
(* enqueueToMcu and popRequestedSid with sendFrame across all operations.    *)
PendingOnlyAnswered ==
    [][\A c \in Conns :
          requestedSidQueue'[c] # requestedSidQueue[c] =>
              Answered(c) \/ Requested(c) \/ transport'[c] = "none"]_smVars

Running == {c \in Conns : transport[c] = "running"}

Service == INSTANCE SessionService WITH
    Diag <- isDiagSid, live <- Running, waiting <- requestedSidQueue,
    outbound <- toMcuQueue, inbound <- txQueue

(* The table of sessions, which is searched by CID in every operation, gives   *)
(* each client what a session of its own would: its rx thread's forwardToMcu    *)
(* and removeSession touch its own queues only, and every delivery goes to       *)
(* running transports only, an answer to clients that wait for it.              *)
ImplementsSessionService == Service!ServiceSpec

(* addSession starts the transport of every connection that registered a    *)
(* CID (ALL_APP_API_SPEC.md 5.2.2).                                         *)
RegisteredIsStarted == \A c \in Conns : transport[c] # "leaked"
=============================================================================
