----------------------------- MODULE TlsTransport -----------------------------
(***************************************************************************)
(* The threads of the TLS connections at the grain of their mutexes and     *)
(* condition variables: app/src/transport/TlsTransport.cpp with the parts of *)
(* SessionManager.cpp that run it.                                          *)
(*                                                                         *)
(* Threads: the accept thread (addSession, which starts the transport while  *)
(* it holds mtx_), per connection an rx thread (which ends by destroying its  *)
(* own session, transport included, under mtx_) and a tx thread, and the UART *)
(* rx thread, which hands frames to the transports under mtx_.               *)
(* Every connection announces a CID of its own here; what happens when two    *)
(* share one is the subject of module SessionManager.                        *)
(***************************************************************************)
EXTENDS Naturals, Sequences

CONSTANTS
    Conns,      \* connections; each may be opened again after it was closed
    MaxQueue    \* bound on txQueue_: the code has none

(* mtx_ is free, or held by the accept thread, the UART thread or an rx      *)
(* thread, which is named by its connection.                                *)
Free == "free"
AcceptThread == "accept"
UartThread == "uart"

ASSUME MaxQueueAssumption == MaxQueue \in Nat \ {0}
ASSUME ThreadAssumption == {Free, AcceptThread, UartThread} \cap Conns = {}

VARIABLES
    mtx,        \* SessionManager::mtx_
    sessions,   \* the connections in sessions_
    acceptPc,   \* the accept thread: "idle", or where it is in start() for
    acceptConn, \* this connection
    uartPc,     \* the UART rx thread: "idle", "next", or "notify"
    uartTodo,   \* connections it still has to hand the frame to
    uartConn,   \* the connection it is about to notify
    alive,      \* the TlsTransport object exists
    running,    \* running_
    ssl,        \* ssl_ is set (and the SSL object exists)
    txMutex,    \* txMutex_ is held by the tx thread
    txQueue,    \* number of buffers in txQueue_
    rxPc,       \* control state of the rx thread
    txPc,       \* control state of the tx thread
    crashed     \* the process died of a write to a freed SSL object

acceptVars == <<acceptPc, acceptConn>>
uartVars == <<uartPc, uartTodo, uartConn>>
txVars == <<txMutex, txQueue, txPc>>
tlsVars == <<mtx, sessions, acceptVars, uartVars, alive, running, ssl, txVars, rxPc,
             crashed>>

RxPc == {"none", "loop", "remove", "free", "notify", "join", "done"}
TxPc == {"none", "while", "lock", "pred", "block", "waiting", "woken", "drain",
         "check", "write", "relock", "done"}

TlsTypeOK ==
    /\ mtx \in {Free, AcceptThread, UartThread} \cup Conns
    /\ sessions \in SUBSET Conns
    /\ acceptPc \in {"idle", "spawnRx", "spawnTx", "unlock"}
    /\ acceptConn \in Conns
    /\ uartPc \in {"idle", "next", "notify"}
    /\ uartTodo \in SUBSET Conns
    /\ uartConn \in Conns
    /\ alive \in [Conns -> BOOLEAN]
    /\ running \in [Conns -> BOOLEAN]
    /\ ssl \in [Conns -> BOOLEAN]
    /\ txMutex \in [Conns -> BOOLEAN]
    /\ txQueue \in [Conns -> 0 .. MaxQueue]
    /\ rxPc \in [Conns -> RxPc]
    /\ txPc \in [Conns -> TxPc]
    /\ crashed \in BOOLEAN

TlsInit ==
    /\ mtx = Free
    /\ sessions = {}
    /\ acceptPc = "idle" /\ acceptConn \in Conns
    /\ uartPc = "idle" /\ uartTodo = {} /\ uartConn \in Conns
    /\ alive = [c \in Conns |-> FALSE]
    /\ running = [c \in Conns |-> FALSE]
    /\ ssl = [c \in Conns |-> FALSE]
    /\ txMutex = [c \in Conns |-> FALSE]
    /\ txQueue = [c \in Conns |-> 0]
    /\ rxPc = [c \in Conns |-> "none"]
    /\ txPc = [c \in Conns |-> "none"]
    /\ crashed = FALSE

-----------------------------------------------------------------------------
(* addSession and start(), both under mtx_                                  *)

(* Mutant: the transport is started after mtx_ was released. *)
addSession_StartsUnlocked(c) ==
    /\ acceptPc = "idle"
    /\ mtx = Free
    /\ c \notin sessions
    /\ rxPc[c] \in {"none", "done"}
    /\ sessions' = sessions \cup {c}
    /\ alive' = [alive EXCEPT ![c] = TRUE]
    /\ running' = [running EXCEPT ![c] = TRUE]
    /\ ssl' = [ssl EXCEPT ![c] = TRUE]
    /\ rxPc' = [rxPc EXCEPT ![c] = "none"]
    /\ txPc' = [txPc EXCEPT ![c] = "none"]
    /\ txQueue' = [txQueue EXCEPT ![c] = 0]
    /\ acceptPc' = "spawnRx"
    /\ acceptConn' = c
    /\ UNCHANGED <<mtx, uartVars, txMutex>>

addSession(c) ==
    /\ acceptPc = "idle"
    /\ mtx = Free
    /\ c \notin sessions
    /\ rxPc[c] \in {"none", "done"}
    /\ mtx' = AcceptThread
    /\ sessions' = sessions \cup {c}
    /\ alive' = [alive EXCEPT ![c] = TRUE]
    /\ running' = [running EXCEPT ![c] = TRUE]
    /\ ssl' = [ssl EXCEPT ![c] = TRUE]
    /\ rxPc' = [rxPc EXCEPT ![c] = "none"]
    /\ txPc' = [txPc EXCEPT ![c] = "none"]
    /\ txQueue' = [txQueue EXCEPT ![c] = 0]
    /\ acceptPc' = "spawnRx"
    /\ acceptConn' = c
    /\ UNCHANGED <<uartVars, txMutex>>

(* The rx thread runs, and may fail its first read, before the tx thread     *)
(* exists.                                                                  *)
startRx ==
    /\ acceptPc = "spawnRx"
    /\ rxPc' = [rxPc EXCEPT ![acceptConn] = "loop"]
    /\ acceptPc' = "spawnTx"
    /\ UNCHANGED <<mtx, sessions, acceptConn, uartVars, alive, running, ssl, txVars>>

startTx ==
    /\ acceptPc = "spawnTx"
    /\ txPc' = [txPc EXCEPT ![acceptConn] = "while"]
    /\ acceptPc' = "unlock"
    /\ UNCHANGED <<mtx, sessions, acceptConn, uartVars, alive, running, ssl, txMutex,
                   txQueue, rxPc>>

addSessionReturns ==
    /\ acceptPc = "unlock"
    /\ mtx' = Free
    /\ acceptPc' = "idle"
    /\ UNCHANGED <<sessions, acceptConn, uartVars, alive, running, ssl, txVars, rxPc>>

-----------------------------------------------------------------------------
(* The rx thread: rxLoop, removeSession, ~TlsTransport, stop()              *)

(* A read fails or a header is invalid; until then the thread reads. *)
rxLoopBreaks(c) ==
    /\ rxPc[c] = "loop"
    /\ rxPc' = [rxPc EXCEPT ![c] = "remove"]
    /\ UNCHANGED <<mtx, sessions, acceptVars, uartVars, alive, running, ssl, txVars>>

(* removeSession erases the entry, the destructor calls stop(). *)
removeSession(c) ==
    /\ rxPc[c] = "remove"
    /\ mtx = Free
    /\ mtx' = c
    /\ sessions' = sessions \ {c}
    /\ running' = [running EXCEPT ![c] = FALSE]
    /\ rxPc' = [rxPc EXCEPT ![c] = "free"]
    /\ UNCHANGED <<acceptVars, uartVars, alive, ssl, txVars>>

(* SSL_shutdown, SSL_free, shutdown, close. *)
stopFreesSsl(c) ==
    /\ rxPc[c] = "free"
    /\ ssl' = [ssl EXCEPT ![c] = FALSE]
    /\ rxPc' = [rxPc EXCEPT ![c] = "notify"]
    /\ UNCHANGED <<mtx, sessions, acceptVars, uartVars, alive, running, txVars>>

(* A notification reaches a thread that waits and is lost on any other. *)
NotifyTx(c) ==
    txPc' = [txPc EXCEPT ![c] = IF @ = "waiting" THEN "woken" ELSE @]

(* txCv_.notify_all(), without txMutex_. *)
stopNotifies(c) ==
    /\ rxPc[c] = "notify"
    /\ NotifyTx(c)
    /\ rxPc' = [rxPc EXCEPT ![c] = "join"]
    /\ UNCHANGED <<mtx, sessions, acceptVars, uartVars, alive, running, ssl, txMutex,
                   txQueue>>

(* Mutant: the tx thread is detached as the rx thread is. *)
stopJoins_Detaches(c) ==
    /\ rxPc[c] = "join"
    /\ alive' = [alive EXCEPT ![c] = FALSE]
    /\ mtx' = Free
    /\ rxPc' = [rxPc EXCEPT ![c] = "done"]
    /\ UNCHANGED <<sessions, acceptVars, uartVars, running, ssl, txVars>>

(* The rx thread detaches itself and joins the tx thread; then the object is  *)
(* gone and removeSession releases mtx_.                                     *)
stopJoins(c) ==
    /\ rxPc[c] = "join"
    /\ txPc[c] \in {"none", "done"}
    /\ alive' = [alive EXCEPT ![c] = FALSE]
    /\ mtx' = Free
    /\ rxPc' = [rxPc EXCEPT ![c] = "done"]
    /\ UNCHANGED <<sessions, acceptVars, uartVars, running, ssl, txVars>>

-----------------------------------------------------------------------------
(* The tx thread: txLoop                                                   *)

txUnchanged == UNCHANGED <<mtx, sessions, acceptVars, uartVars, alive, running, ssl, rxPc>>

txWhile(c) ==
    /\ txPc[c] = "while"
    /\ txPc' = [txPc EXCEPT ![c] = IF running[c] THEN "lock" ELSE "done"]
    /\ UNCHANGED <<txMutex, txQueue>> /\ txUnchanged

(* Taking txMutex_: on entry, after a wake-up and after a write. *)
txLock(c) ==
    /\ txPc[c] \in {"lock", "woken", "relock"}
    /\ ~txMutex[c]
    /\ txMutex' = [txMutex EXCEPT ![c] = TRUE]
    /\ txPc' = [txPc EXCEPT ![c] = IF @ = "relock" THEN "drain" ELSE "pred"]
    /\ UNCHANGED txQueue /\ txUnchanged

(* The predicate of txCv_.wait, evaluated with txMutex_ held ... *)
txPredicate(c) ==
    /\ txPc[c] = "pred"
    /\ txPc' = [txPc EXCEPT ![c] = IF txQueue[c] > 0 \/ ~running[c] THEN "drain" ELSE "block"]
    /\ UNCHANGED <<txMutex, txQueue>> /\ txUnchanged

(* ... and the step after it: txMutex_ is released and the thread waits. *)
txWait(c) ==
    /\ txPc[c] = "block"
    /\ txMutex' = [txMutex EXCEPT ![c] = FALSE]
    /\ txPc' = [txPc EXCEPT ![c] = "waiting"]
    /\ UNCHANGED txQueue /\ txUnchanged

(* wait may return by itself; nothing promises that it will. *)
spuriousWakeup(c) ==
    /\ txPc[c] = "waiting"
    /\ txPc' = [txPc EXCEPT ![c] = "woken"]
    /\ UNCHANGED <<txMutex, txQueue>> /\ txUnchanged

(* Mutant: do ... while instead of while. *)
txDrain_Unchecked(c) ==
    /\ txPc[c] = "drain"
    /\ txQueue' = [txQueue EXCEPT ![c] = @ - 1]
    /\ txPc' = [txPc EXCEPT ![c] = "check"]
    /\ txMutex' = [txMutex EXCEPT ![c] = FALSE]
    /\ txUnchanged

(* while (!txQueue_.empty()): a buffer is popped and txMutex_ released, or    *)
(* the scope of the lock ends.                                              *)
txDrain(c) ==
    /\ txPc[c] = "drain"
    /\ \/ /\ txQueue[c] > 0
          /\ txQueue' = [txQueue EXCEPT ![c] = @ - 1]
          /\ txPc' = [txPc EXCEPT ![c] = "check"]
       \/ /\ txQueue[c] = 0
          /\ txPc' = [txPc EXCEPT ![c] = "while"]
          /\ UNCHANGED txQueue
    /\ txMutex' = [txMutex EXCEPT ![c] = FALSE]
    /\ txUnchanged

(* if (ssl_), read without a lock. *)
txChecksSsl(c) ==
    /\ txPc[c] = "check"
    /\ txPc' = [txPc EXCEPT ![c] = IF ssl[c] THEN "write" ELSE "relock"]
    /\ UNCHANGED <<txMutex, txQueue>> /\ txUnchanged

(* SSL_write until all is sent or it fails. *)
txWrite(c) ==
    /\ txPc[c] = "write"
    /\ txPc' = [txPc EXCEPT ![c] = "relock"]
    /\ UNCHANGED <<txMutex, txQueue>> /\ txUnchanged

(* stop() freed the SSL object since the check: undefined behaviour, which    *)
(* may look like a failed write (txWrite) or end the process.                *)
txWriteCrashes(c) ==
    /\ txPc[c] = "write"
    /\ ~ssl[c]
    /\ crashed' = TRUE
    /\ UNCHANGED <<txVars>> /\ txUnchanged

-----------------------------------------------------------------------------
(* The UART rx thread: broadcast or routeUartRxBySid, then sendData each     *)

(* Mutant: the sessions are collected under mtx_, the frame sent without it. *)
deliver_Unlocked(targets) ==
    /\ uartPc = "idle"
    /\ mtx = Free
    /\ targets \subseteq {c \in sessions : txQueue[c] < MaxQueue}
    /\ uartTodo' = targets
    /\ uartPc' = "next"
    /\ UNCHANGED <<mtx, sessions, acceptVars, uartConn, alive, running, ssl, txVars, rxPc>>

(* Takes mtx_ and picks the sessions that get the frame: all, or those that   *)
(* wait for it.                                                             *)
deliver(targets) ==
    /\ uartPc = "idle"
    /\ mtx = Free
    /\ targets \subseteq {c \in sessions : txQueue[c] < MaxQueue}
    /\ mtx' = UartThread
    /\ uartTodo' = targets
    /\ uartPc' = "next"
    /\ UNCHANGED <<sessions, acceptVars, uartConn, alive, running, ssl, txVars, rxPc>>

(* Mutant: txQueue_ is filled without txMutex_. *)
sendData_Unlocked(c) ==
    /\ uartPc = "next"
    /\ c \in uartTodo
    /\ txQueue' = [txQueue EXCEPT ![c] = @ + 1]
    /\ uartTodo' = uartTodo \ {c}
    /\ uartConn' = c
    /\ uartPc' = "notify"
    /\ UNCHANGED <<mtx, sessions, acceptVars, alive, running, ssl, txMutex, txPc, rxPc>>

(* sendData: push under txMutex_ ... *)
sendData(c) ==
    /\ uartPc = "next"
    /\ c \in uartTodo
    /\ ~txMutex[c]
    /\ txQueue' = [txQueue EXCEPT ![c] = @ + 1]
    /\ uartTodo' = uartTodo \ {c}
    /\ uartConn' = c
    /\ uartPc' = "notify"
    /\ UNCHANGED <<mtx, sessions, acceptVars, alive, running, ssl, txMutex, txPc, rxPc>>

(* ... and notify_one after it. *)
sendDataNotifies ==
    /\ uartPc = "notify"
    /\ NotifyTx(uartConn)
    /\ uartPc' = "next"
    /\ UNCHANGED <<mtx, sessions, acceptVars, uartTodo, uartConn, alive, running, ssl,
                   txMutex, txQueue, rxPc>>

deliverReturns ==
    /\ uartPc = "next"
    /\ uartTodo = {}
    /\ mtx' = Free
    /\ uartPc' = "idle"
    /\ UNCHANGED <<sessions, acceptVars, uartTodo, uartConn, alive, running, ssl, txVars,
                   rxPc>>

-----------------------------------------------------------------------------
acceptThread == startRx \/ startTx \/ addSessionReturns

rxThread(c) == stopFreesSsl(c) \/ stopNotifies(c) \/ stopJoins(c)

txThread(c) == \/ txWhile(c) \/ txLock(c) \/ txPredicate(c) \/ txWait(c)
               \/ txDrain(c) \/ txChecksSsl(c) \/ txWrite(c)

uartThread == (\E c \in Conns : sendData(c)) \/ sendDataNotifies \/ deliverReturns

ThreadStep ==
    \/ \E c \in Conns :
          \/ addSession(c)
          \/ rxLoopBreaks(c)
          \/ removeSession(c)
          \/ rxThread(c)
          \/ txThread(c)
          \/ spuriousWakeup(c)
    \/ acceptThread
    \/ uartThread
    \/ \E targets \in SUBSET Conns : deliver(targets)

TlsNext ==
    /\ ~crashed
    /\ \/ ThreadStep /\ UNCHANGED crashed
       \/ \E c \in Conns : txWriteCrashes(c)

(* A thread that can go on does; one that keeps asking for a mutex gets it    *)
(* some time (strong fairness: the mutex is taken and released by others     *)
(* meanwhile); clients read what is sent to them.  Connecting, disconnecting  *)
(* and frames from the MCU are nobody's duty, no spurious wake-up is owed.    *)
TlsFairness ==
    /\ WF_tlsVars(~crashed /\ acceptThread /\ UNCHANGED crashed)
    /\ SF_tlsVars(~crashed /\ uartThread /\ UNCHANGED crashed)
    /\ \A c \in Conns :
          /\ SF_tlsVars(~crashed /\ removeSession(c) /\ UNCHANGED crashed)
          /\ WF_tlsVars(~crashed /\ rxThread(c) /\ UNCHANGED crashed)
          /\ WF_tlsVars(~crashed /\ txThread(c) /\ UNCHANGED crashed)

TlsSpec == TlsInit /\ [][TlsNext]_tlsVars /\ TlsFairness

-----------------------------------------------------------------------------
(* The tx thread of a destroyed transport has ended: stop() joins it before    *)
(* the members it uses (txMutex_, txCv_, txQueue_, running_) are gone.         *)
TxJoinedBeforeDestroy ==
    \A c \in Conns : ~alive[c] => txPc[c] \in {"none", "done"}

(* A connection that breaks at once cannot be stopped before start() is done   *)
(* with it: start() runs under the mtx_ that removeSession needs.  Otherwise   *)
(* stop() would find no tx thread to join and start() would make one for an    *)
(* object that is gone.                                                       *)
StartedBeforeStopped ==
    \A c \in Conns : rxPc[c] \in {"free", "notify", "join", "done"} => txPc[c] # "none"

(* The UART thread only hands frames to transports that exist and still run:   *)
(* a session that disconnects meanwhile has to wait for mtx_.                 *)
DeliveryHitsLiveTransport ==
    \A c \in Conns :
        \/ c \in uartTodo
        \/ uartPc = "notify" /\ c = uartConn
        => alive[c] /\ running[c]

(* txLoop's test of ssl_ and its SSL_write are not one step, so a write may       *)
(* reach an SSL object that stop() has freed.  It does so only while stop() waits  *)
(* for this tx thread, with mtx_: never in a transport that runs or is gone, and   *)
(* never in two connections at once.                                           *)
FreedWriteOnlyInStop ==
    \A c \in Conns : txPc[c] = "write" /\ ~ssl[c] => rxPc[c] \in {"notify", "join"} /\ mtx = c

(* A buffer: what it holds decides nothing here. *)
Buffer == [sid |-> 0]

Buffers(n) == [i \in 1 .. n |-> Buffer]

(* What clients have yet to get.  A frame is handed to all its receivers at once    *)
(* when the UART thread has picked them under mtx_; a session that is not in        *)
(* sessions_ any more has nothing, whatever its tx thread still drains.            *)
Undelivered ==
    [c \in Conns |->
        IF c \notin sessions THEN <<>>
        ELSE IF c \in uartTodo THEN Buffers(txQueue[c] + 1) ELSE Buffers(txQueue[c])]

NothingQueued == [c \in Conns |-> <<>>]
NoDiag(sid) == FALSE

Service == INSTANCE SessionService WITH
    CidOf <- [c \in Conns |-> c], Frame <- {Buffer}, Diag <- NoDiag,
    live <- sessions, waiting <- NothingQueued, outbound <- NothingQueued,
    inbound <- Undelivered

(* With all their threads, mutexes and wake-ups, the transports give a client what  *)
(* SessionService promises: a session begins and ends in one step although start()  *)
(* and stop() take many, a frame for several clients reaches all of them as if in    *)
(* one step, whoever connects, disconnects or sends meanwhile, and every buffer     *)
(* handed to a client that stays is taken by its tx thread once.                   *)
ThreadsImplementService == Service!ServiceSpec

(* What is queued for a client that stays connected is sent: no interleaving   *)
(* of sendData with the tx thread going to sleep loses the wake-up.           *)
QueuedDataIsSent ==
    \A c \in Conns :
        <>[](running[c] /\ ~crashed) => \/ []<>(txQueue[c] = 0)
                                          \/ []<><<txDrain(c)>>_tlsVars

(* A connection that ended is cleaned up: its rx thread gets through           *)
(* removeSession (ALL_APP_API_SPEC.md section 6: the session is cleaned up     *)
(* when the connection ends or the socket fails), unless the process died.     *)
ClosedSessionIsRemoved ==
    \A c \in Conns : rxPc[c] = "remove" ~> rxPc[c] = "done" \/ crashed
=============================================================================
