-------------------------- MODULE TlsTransportProofs --------------------------
(* Proofs about the life of the TLS transports for every set of connections.  *)
EXTENDS TlsTransport, TLAPS

-----------------------------------------------------------------------------
(* Who holds mtx_ is decided by where the threads are. *)
LockInv ==
    /\ mtx = AcceptThread <=> acceptPc # "idle"
    /\ mtx = UartThread <=> uartPc # "idle"
    /\ \A c \in Conns : mtx = c <=> rxPc[c] \in {"free", "notify", "join"}

(* A transport exists from addSession to the end of stop(), runs while its    *)
(* session is in the table, and its session leaves the table first.           *)
LifeInv ==
    /\ \A c \in Conns : alive[c] <=> c \in sessions \/ mtx = c
    /\ \A c \in sessions : running[c] /\ rxPc[c] \in {"none", "loop", "remove"}
    /\ \A c \in Conns : rxPc[c] \in {"loop", "remove"} => c \in sessions

(* A thread that is missing is one the accept thread is about to start. *)
StartInv ==
    /\ acceptPc # "idle" => acceptConn \in sessions
    /\ acceptPc = "spawnRx" => rxPc[acceptConn] = "none" /\ txPc[acceptConn] = "none"
    /\ acceptPc = "spawnTx" => txPc[acceptConn] = "none"
    /\ \A c \in sessions : txPc[c] = "none" =>
          acceptPc \in {"spawnRx", "spawnTx"} /\ acceptConn = c

(* The UART thread's targets are in the table and have room. *)
TargetInv ==
    /\ \A c \in uartTodo : c \in sessions /\ txQueue[c] < MaxQueue
    /\ uartPc = "idle" => uartTodo = {}
    /\ uartPc = "notify" => uartConn \in sessions

TlsInv ==
    /\ TlsTypeOK
    /\ LockInv
    /\ LifeInv
    /\ StartInv
    /\ TargetInv
    /\ TxJoinedBeforeDestroy
    /\ StartedBeforeStopped

LEMMA InitTlsInv == TlsInit => TlsInv
<1> SUFFICES ASSUME TlsInit PROVE TlsInv
  OBVIOUS
<1>1. TlsTypeOK
  <2>1. 0 \in 0 .. MaxQueue
    BY MaxQueueAssumption
  <2>2. txQueue \in [Conns -> 0 .. MaxQueue]
    BY <2>1 DEF TlsInit
  <2>3. rxPc \in [Conns -> RxPc] /\ txPc \in [Conns -> TxPc]
    BY DEF TlsInit, RxPc, TxPc
  <2> QED
    BY <2>2, <2>3 DEF TlsInit, TlsTypeOK
<1>2. LockInv /\ LifeInv
  BY ThreadAssumption DEF TlsInit, LockInv, LifeInv, Free, AcceptThread, UartThread
<1>3. StartInv /\ TargetInv
  BY DEF TlsInit, StartInv, TargetInv
<1>4. TxJoinedBeforeDestroy /\ StartedBeforeStopped
  BY DEF TlsInit, TxJoinedBeforeDestroy, StartedBeforeStopped
<1> QED
  BY <1>1, <1>2, <1>3, <1>4 DEF TlsInv

LEMMA AddSessionKeepsInv ==
  ASSUME TlsInv, NEW c \in Conns, addSession(c), UNCHANGED crashed
  PROVE  TlsInv'
<1> USE ThreadAssumption, MaxQueueAssumption
    DEF addSession, acceptVars, uartVars, txVars
<1>1. TlsTypeOK'
  BY DEF TlsInv, TlsTypeOK, RxPc, TxPc
<1>2. LockInv'
  BY DEF TlsInv, LockInv, Free, AcceptThread, UartThread
<1>3. LifeInv'
  BY DEF TlsInv, TlsTypeOK, LifeInv
<1>4. StartInv'
  BY DEF TlsInv, TlsTypeOK, StartInv
<1>5. TargetInv'
  BY DEF TlsInv, TargetInv
<1>6. TxJoinedBeforeDestroy'
  BY DEF TlsInv, TxJoinedBeforeDestroy
<1>7. StartedBeforeStopped'
  BY DEF TlsInv, TlsTypeOK, StartedBeforeStopped
<1> QED
  BY <1>1, <1>2, <1>3, <1>4, <1>5, <1>6, <1>7 DEF TlsInv

LEMMA StartRxKeepsInv ==
  ASSUME TlsInv, startRx, UNCHANGED crashed
  PROVE  TlsInv'
<1> USE ThreadAssumption, MaxQueueAssumption
    DEF startRx, acceptVars, uartVars, txVars
<1>1. TlsTypeOK'
  BY DEF TlsInv, TlsTypeOK, RxPc
<1>2. LockInv'
  BY DEF TlsInv, LockInv
<1>3. LifeInv'
  BY DEF TlsInv, LifeInv, StartInv
<1>4. StartInv'
  BY DEF TlsInv, StartInv
<1>5. TargetInv'
  BY DEF TlsInv, TargetInv
<1>6. TxJoinedBeforeDestroy'
  BY DEF TlsInv, TxJoinedBeforeDestroy
<1>7. StartedBeforeStopped'
  BY DEF TlsInv, StartedBeforeStopped
<1> QED
  BY <1>1, <1>2, <1>3, <1>4, <1>5, <1>6, <1>7 DEF TlsInv

LEMMA StartTxKeepsInv ==
  ASSUME TlsInv, startTx, UNCHANGED crashed
  PROVE  TlsInv'
<1> USE ThreadAssumption, MaxQueueAssumption
    DEF startTx, acceptVars, uartVars, txVars
<1>1. TlsTypeOK'
  BY DEF TlsInv, TlsTypeOK, TxPc
<1>2. LockInv'
  BY DEF TlsInv, LockInv
<1>3. LifeInv'
  BY DEF TlsInv, LifeInv
<1>4. StartInv'
  BY DEF TlsInv, TlsTypeOK, StartInv
<1>5. TargetInv'
  BY DEF TlsInv, TargetInv
<1>6. TxJoinedBeforeDestroy'
  BY DEF TlsInv, LifeInv, StartInv, TxJoinedBeforeDestroy
<1>7. StartedBeforeStopped'
  BY DEF TlsInv, StartedBeforeStopped
<1> QED
  BY <1>1, <1>2, <1>3, <1>4, <1>5, <1>6, <1>7 DEF TlsInv

LEMMA AddSessionReturnsKeepsInv ==
  ASSUME TlsInv, addSessionReturns, UNCHANGED crashed
  PROVE  TlsInv'
<1> USE ThreadAssumption, MaxQueueAssumption
    DEF addSessionReturns, acceptVars, uartVars, txVars
<1>1. TlsTypeOK'
  BY DEF TlsInv, TlsTypeOK
<1>2. LockInv'
  BY DEF TlsInv, LockInv, Free, AcceptThread, UartThread
<1>3. LifeInv'
  BY DEF TlsInv, LockInv, LifeInv
<1>4. StartInv'
  BY DEF TlsInv, StartInv
<1>5. TargetInv'
  BY DEF TlsInv, TargetInv
<1>6. TxJoinedBeforeDestroy'
  BY DEF TlsInv, TxJoinedBeforeDestroy
<1>7. StartedBeforeStopped'
  BY DEF TlsInv, StartedBeforeStopped
<1> QED
  BY <1>1, <1>2, <1>3, <1>4, <1>5, <1>6, <1>7 DEF TlsInv

LEMMA RxLoopBreaksKeepsInv ==
  ASSUME TlsInv, NEW c \in Conns, rxLoopBreaks(c), UNCHANGED crashed
  PROVE  TlsInv'
<1> USE ThreadAssumption, MaxQueueAssumption
    DEF rxLoopBreaks, acceptVars, uartVars, txVars
<1>1. TlsTypeOK'
  BY DEF TlsInv, TlsTypeOK, RxPc
<1>2. LockInv'
  BY DEF TlsInv, LockInv
<1>3. LifeInv'
  BY DEF TlsInv, LifeInv
<1>4. StartInv'
  BY DEF TlsInv, StartInv
<1>5. TargetInv'
  BY DEF TlsInv, TargetInv
<1>6. TxJoinedBeforeDestroy'
  BY DEF TlsInv, TxJoinedBeforeDestroy
<1>7. StartedBeforeStopped'
  BY DEF TlsInv, StartedBeforeStopped
<1> QED
  BY <1>1, <1>2, <1>3, <1>4, <1>5, <1>6, <1>7 DEF TlsInv

LEMMA RemoveSessionKeepsInv ==
  ASSUME TlsInv, NEW c \in Conns, removeSession(c), UNCHANGED crashed
  PROVE  TlsInv'
<1> USE ThreadAssumption, MaxQueueAssumption
    DEF removeSession, acceptVars, uartVars, txVars
<1>1. TlsTypeOK'
  BY DEF TlsInv, TlsTypeOK, RxPc
<1>2. LockInv'
  BY DEF TlsInv, TlsTypeOK, LockInv, Free, AcceptThread, UartThread
<1>3. LifeInv'
  BY DEF TlsInv, TlsTypeOK, LifeInv
<1>4. StartInv'
  BY DEF TlsInv, LockInv, StartInv, Free, AcceptThread
<1>5. TargetInv'
  BY DEF TlsInv, LockInv, TargetInv, Free, UartThread
<1>6. TxJoinedBeforeDestroy'
  BY DEF TlsInv, TxJoinedBeforeDestroy
<1>7. StartedBeforeStopped'
  BY DEF TlsInv, LockInv, LifeInv, StartInv, StartedBeforeStopped, Free,
         AcceptThread
<1> QED
  BY <1>1, <1>2, <1>3, <1>4, <1>5, <1>6, <1>7 DEF TlsInv

LEMMA StopFreesSslKeepsInv ==
  ASSUME TlsInv, NEW c \in Conns, stopFreesSsl(c), UNCHANGED crashed
  PROVE  TlsInv'
<1> USE ThreadAssumption, MaxQueueAssumption
    DEF stopFreesSsl, acceptVars, uartVars, txVars
<1>1. TlsTypeOK'
  BY DEF TlsInv, TlsTypeOK, RxPc
<1>2. LockInv'
  BY DEF TlsInv, LockInv
<1>3. LifeInv'
  BY DEF TlsInv, LifeInv
<1>4. StartInv'
  BY DEF TlsInv, StartInv
<1>5. TargetInv'
  BY DEF TlsInv, TargetInv
<1>6. TxJoinedBeforeDestroy'
  BY DEF TlsInv, TxJoinedBeforeDestroy
<1>7. StartedBeforeStopped'
  BY DEF TlsInv, StartedBeforeStopped
<1> QED
  BY <1>1, <1>2, <1>3, <1>4, <1>5, <1>6, <1>7 DEF TlsInv

LEMMA StopNotifiesKeepsInv ==
  ASSUME TlsInv, NEW c \in Conns, stopNotifies(c), UNCHANGED crashed
  PROVE  TlsInv'
<1> USE ThreadAssumption, MaxQueueAssumption
    DEF stopNotifies, NotifyTx, acceptVars, uartVars, txVars
<1>1. TlsTypeOK'
  BY DEF TlsInv, TlsTypeOK, RxPc, TxPc
<1>2. LockInv'
  BY DEF TlsInv, LockInv
<1>3. LifeInv'
  BY DEF TlsInv, LifeInv
<1>4. StartInv'
  BY DEF TlsInv, StartInv
<1>5. TargetInv'
  BY DEF TlsInv, TargetInv
<1>6. TxJoinedBeforeDestroy'
  BY DEF TlsInv, TxJoinedBeforeDestroy
<1>7. StartedBeforeStopped'
  BY DEF TlsInv, StartedBeforeStopped
<1> QED
  BY <1>1, <1>2, <1>3, <1>4, <1>5, <1>6, <1>7 DEF TlsInv

LEMMA StopJoinsKeepsInv ==
  ASSUME TlsInv, NEW c \in Conns, stopJoins(c), UNCHANGED crashed
  PROVE  TlsInv'
<1> USE ThreadAssumption, MaxQueueAssumption
    DEF stopJoins, acceptVars, uartVars, txVars
<1>1. TlsTypeOK'
  BY DEF TlsInv, TlsTypeOK, RxPc
<1>2. LockInv'
  BY DEF TlsInv, TlsTypeOK, LockInv, Free, AcceptThread, UartThread
<1>3. LifeInv'
  BY DEF TlsInv, TlsTypeOK, LockInv, LifeInv
<1>4. StartInv'
  BY DEF TlsInv, StartInv
<1>5. TargetInv'
  BY DEF TlsInv, TargetInv
<1>6. TxJoinedBeforeDestroy'
  BY DEF TlsInv, TxJoinedBeforeDestroy
<1>7. StartedBeforeStopped'
  BY DEF TlsInv, StartedBeforeStopped
<1> QED
  BY <1>1, <1>2, <1>3, <1>4, <1>5, <1>6, <1>7 DEF TlsInv

LEMMA TxThreadKeepsInv ==
  ASSUME TlsInv, NEW c \in Conns, txThread(c) \/ spuriousWakeup(c), UNCHANGED crashed
  PROVE  TlsInv'
<1> USE ThreadAssumption, MaxQueueAssumption
    DEF txThread, spuriousWakeup, txWhile, txLock, txPredicate, txWait, txDrain,
        txChecksSsl, txWrite, txUnchanged, acceptVars, uartVars, txVars
<1>1. TlsTypeOK'
  <2>1. txQueue[c] > 0 => txQueue[c] - 1 \in 0 .. MaxQueue
    BY DEF TlsInv, TlsTypeOK
  <2>2. txQueue' \in [Conns -> 0 .. MaxQueue]
    BY <2>1 DEF TlsInv, TlsTypeOK
  <2>3. txPc' \in [Conns -> TxPc]
    BY DEF TlsInv, TlsTypeOK, TxPc
  <2>4. txMutex' \in [Conns -> BOOLEAN]
    BY DEF TlsInv, TlsTypeOK
  <2> QED
    BY <2>2, <2>3, <2>4 DEF TlsInv, TlsTypeOK
<1>2. LockInv'
  BY DEF TlsInv, LockInv
<1>3. LifeInv'
  BY DEF TlsInv, LifeInv
<1>4. StartInv'
  BY DEF TlsInv, TlsTypeOK, StartInv
<1>5. TargetInv'
  BY DEF TlsInv, TlsTypeOK, TargetInv
<1>6. TxJoinedBeforeDestroy'
  BY DEF TlsInv, TlsTypeOK, TxJoinedBeforeDestroy
<1>7. StartedBeforeStopped'
  BY DEF TlsInv, TlsTypeOK, StartedBeforeStopped
<1> QED
  BY <1>1, <1>2, <1>3, <1>4, <1>5, <1>6, <1>7 DEF TlsInv

LEMMA DeliverKeepsInv ==
  ASSUME TlsInv, NEW targets \in SUBSET Conns, deliver(targets), UNCHANGED crashed
  PROVE  TlsInv'
<1> USE ThreadAssumption, MaxQueueAssumption
    DEF deliver, acceptVars, uartVars, txVars
<1>1. TlsTypeOK'
  BY DEF TlsInv, TlsTypeOK
<1>2. LockInv'
  BY DEF TlsInv, LockInv, Free, AcceptThread, UartThread
<1>3. LifeInv'
  BY DEF TlsInv, LifeInv
<1>4. StartInv'
  BY DEF TlsInv, StartInv
<1>5. TargetInv'
  BY DEF TlsInv, TargetInv
<1>6. TxJoinedBeforeDestroy'
  BY DEF TlsInv, TxJoinedBeforeDestroy
<1>7. StartedBeforeStopped'
  BY DEF TlsInv, StartedBeforeStopped
<1> QED
  BY <1>1, <1>2, <1>3, <1>4, <1>5, <1>6, <1>7 DEF TlsInv

LEMMA SendDataKeepsInv ==
  ASSUME TlsInv, NEW c \in Conns, sendData(c), UNCHANGED crashed
  PROVE  TlsInv'
<1> USE ThreadAssumption, MaxQueueAssumption
    DEF sendData, acceptVars, uartVars, txVars
<1>1. TlsTypeOK'
  BY DEF TlsInv, TlsTypeOK, TargetInv
<1>2. LockInv'
  BY DEF TlsInv, LockInv
<1>3. LifeInv'
  BY DEF TlsInv, LifeInv
<1>4. StartInv'
  BY DEF TlsInv, StartInv
<1>5. TargetInv'
  BY DEF TlsInv, TargetInv
<1>6. TxJoinedBeforeDestroy'
  BY DEF TlsInv, TxJoinedBeforeDestroy
<1>7. StartedBeforeStopped'
  BY DEF TlsInv, StartedBeforeStopped
<1> QED
  BY <1>1, <1>2, <1>3, <1>4, <1>5, <1>6, <1>7 DEF TlsInv

LEMMA SendDataNotifiesKeepsInv ==
  ASSUME TlsInv, sendDataNotifies, UNCHANGED crashed
  PROVE  TlsInv'
<1> USE ThreadAssumption, MaxQueueAssumption
    DEF sendDataNotifies, NotifyTx, acceptVars, uartVars, txVars
<1>1. TlsTypeOK'
  BY DEF TlsInv, TlsTypeOK, TxPc
<1>2. LockInv'
  BY DEF TlsInv, LockInv
<1>3. LifeInv'
  BY DEF TlsInv, LifeInv
<1>4. StartInv'
  BY DEF TlsInv, StartInv
<1>5. TargetInv'
  BY DEF TlsInv, TargetInv
<1>6. TxJoinedBeforeDestroy'
  BY DEF TlsInv, TxJoinedBeforeDestroy
<1>7. StartedBeforeStopped'
  BY DEF TlsInv, StartedBeforeStopped
<1> QED
  BY <1>1, <1>2, <1>3, <1>4, <1>5, <1>6, <1>7 DEF TlsInv

LEMMA DeliverReturnsKeepsInv ==
  ASSUME TlsInv, deliverReturns, UNCHANGED crashed
  PROVE  TlsInv'
<1> USE ThreadAssumption, MaxQueueAssumption
    DEF deliverReturns, acceptVars, uartVars, txVars
<1>1. TlsTypeOK'
  BY DEF TlsInv, TlsTypeOK
<1>2. LockInv'
  BY DEF TlsInv, LockInv, Free, AcceptThread, UartThread
<1>3. LifeInv'
  BY DEF TlsInv, LockInv, LifeInv
<1>4. StartInv'
  BY DEF TlsInv, StartInv
<1>5. TargetInv'
  BY DEF TlsInv, TargetInv
<1>6. TxJoinedBeforeDestroy'
  BY DEF TlsInv, TxJoinedBeforeDestroy
<1>7. StartedBeforeStopped'
  BY DEF TlsInv, StartedBeforeStopped
<1> QED
  BY <1>1, <1>2, <1>3, <1>4, <1>5, <1>6, <1>7 DEF TlsInv

LEMMA NextTlsInv == TlsInv /\ [TlsNext]_tlsVars => TlsInv'
<1> SUFFICES ASSUME TlsInv, [TlsNext]_tlsVars PROVE TlsInv'
  OBVIOUS
<1>1. CASE ThreadStep /\ UNCHANGED crashed
  BY <1>1, AddSessionKeepsInv, StartRxKeepsInv, StartTxKeepsInv,
     AddSessionReturnsKeepsInv, RxLoopBreaksKeepsInv, RemoveSessionKeepsInv,
     StopFreesSslKeepsInv, StopNotifiesKeepsInv, StopJoinsKeepsInv,
     TxThreadKeepsInv, DeliverKeepsInv, SendDataKeepsInv,
     SendDataNotifiesKeepsInv, DeliverReturnsKeepsInv
     DEF ThreadStep, acceptThread, rxThread, uartThread
<1>2. ASSUME NEW c \in Conns, txWriteCrashes(c) PROVE TlsInv'
  BY <1>2 DEF txWriteCrashes, txUnchanged, txVars, acceptVars, uartVars, TlsInv,
              TlsTypeOK, LockInv, LifeInv, StartInv, TargetInv,
              TxJoinedBeforeDestroy, StartedBeforeStopped
<1>3. CASE UNCHANGED tlsVars
  BY <1>3 DEF tlsVars, txVars, acceptVars, uartVars, TlsInv, TlsTypeOK, LockInv,
              LifeInv, StartInv, TargetInv, TxJoinedBeforeDestroy,
              StartedBeforeStopped
<1> QED
  BY <1>1, <1>2, <1>3 DEF TlsNext

LEMMA TlsInvariance == TlsSpec => []TlsInv
  BY InitTlsInv, NextTlsInv, PTL DEF TlsSpec

(* The members a tx thread uses outlive it, however the connection's end       *)
(* races with its start, with deliveries and with other connections.          *)
THEOREM TxThreadOutlived == TlsSpec => []TxJoinedBeforeDestroy
<1>1. TlsInv => TxJoinedBeforeDestroy
  BY DEF TlsInv
<1> QED
  BY <1>1, TlsInvariance, PTL

(* stop() always finds both threads of its transport: mtx_ keeps it from       *)
(* running inside start().                                                    *)
THEOREM StopFindsThreads == TlsSpec => []StartedBeforeStopped
<1>1. TlsInv => StartedBeforeStopped
  BY DEF TlsInv
<1> QED
  BY <1>1, TlsInvariance, PTL

(* The UART thread never hands a frame to a transport that is stopped or gone. *)
THEOREM DeliveryIsSafe == TlsSpec => []DeliveryHitsLiveTransport
<1>1. TlsInv => DeliveryHitsLiveTransport
  BY DEF TlsInv, TlsTypeOK, LifeInv, TargetInv, DeliveryHitsLiveTransport
<1> QED
  BY <1>1, TlsInvariance, PTL

(* Every reachable state of the transports is well-typed. *)
THEOREM TlsTypeCorrect == TlsSpec => []TlsTypeOK
<1>1. TlsInv => TlsTypeOK
  BY DEF TlsInv
<1> QED
  BY <1>1, TlsInvariance, PTL

-----------------------------------------------------------------------------
(* The SSL object lives as long as the session is in the table, and then until  *)
(* stop() has freed it.                                                      *)
SslInv == \A c \in Conns : ssl[c] <=> c \in sessions \/ rxPc[c] = "free"

LEMMA NextSslInv == TlsInv /\ SslInv /\ [TlsNext]_tlsVars => SslInv'
<1> SUFFICES ASSUME TlsInv, SslInv, [TlsNext]_tlsVars PROVE SslInv'
  OBVIOUS
<1> USE DEF SslInv
<1>1. ASSUME NEW c \in Conns, addSession(c) PROVE SslInv'
  BY <1>1 DEF addSession, TlsInv, TlsTypeOK
<1>2. CASE startRx
  BY <1>2 DEF startRx, TlsInv, TlsTypeOK, StartInv
<1>3. CASE startTx \/ addSessionReturns
  BY <1>3 DEF startTx, addSessionReturns
<1>4. ASSUME NEW c \in Conns, rxLoopBreaks(c) PROVE SslInv'
  BY <1>4 DEF rxLoopBreaks, TlsInv, TlsTypeOK
<1>5. ASSUME NEW c \in Conns, removeSession(c) PROVE SslInv'
  BY <1>5 DEF removeSession, TlsInv, TlsTypeOK, LifeInv
<1>6. ASSUME NEW c \in Conns, stopFreesSsl(c) PROVE SslInv'
  BY <1>6 DEF stopFreesSsl, TlsInv, TlsTypeOK, LifeInv
<1>7. ASSUME NEW c \in Conns, stopNotifies(c) PROVE SslInv'
  BY <1>7 DEF stopNotifies, TlsInv, TlsTypeOK
<1>8. ASSUME NEW c \in Conns, stopJoins(c) PROVE SslInv'
  BY <1>8 DEF stopJoins, TlsInv, TlsTypeOK
<1>9. ASSUME NEW c \in Conns, txThread(c) \/ spuriousWakeup(c) PROVE SslInv'
  BY <1>9 DEF txThread, txWhile, txLock, txPredicate, txWait, spuriousWakeup, txDrain,
              txChecksSsl, txWrite, txUnchanged
<1>10. CASE uartThread \/ \E targets \in SUBSET Conns : deliver(targets)
  BY <1>10 DEF uartThread, deliver, sendData, sendDataNotifies, deliverReturns
<1>11. ASSUME NEW c \in Conns, txWriteCrashes(c) PROVE SslInv'
  BY <1>11 DEF txWriteCrashes, txUnchanged
<1>12. CASE UNCHANGED tlsVars
  BY <1>12 DEF tlsVars
<1> QED
  BY <1>1, <1>2, <1>3, <1>4, <1>5, <1>6, <1>7, <1>8, <1>9, <1>10, <1>11, <1>12
     DEF TlsNext, ThreadStep, acceptThread, rxThread

(* A tx thread meets a freed SSL object only between stop()'s SSL_free and its     *)
(* join, whatever other connections do.                                         *)
THEOREM FreedWriteConfined == TlsSpec => []FreedWriteOnlyInStop
<1>1. TlsInit => SslInv
  BY DEF TlsInit, SslInv
<1>2. TlsInv /\ SslInv => FreedWriteOnlyInStop
  BY DEF TlsInv, SslInv, LifeInv, LockInv, TxJoinedBeforeDestroy, FreedWriteOnlyInStop
<1> QED
  BY <1>1, <1>2, NextSslInv, TlsInvariance, PTL DEF TlsSpec

-----------------------------------------------------------------------------
(* txMutex_ is held in these control states; the tx thread goes to sleep on an     *)
(* empty queue, and when data came since it is about to be notified.              *)
MutexInv == \A c \in Conns : txMutex[c] <=> txPc[c] \in {"pred", "block", "drain"}
SleepsEmpty == \A c \in Conns : txPc[c] = "block" => txQueue[c] = 0
WakeupOwed ==
    \A c \in Conns : txPc[c] = "waiting" /\ txQueue[c] # 0 => uartPc = "notify" /\ uartConn = c
WakeupInv == MutexInv /\ SleepsEmpty /\ WakeupOwed

LEMMA TxThreadKeepsWakeup ==
  ASSUME TlsInv, WakeupInv, NEW c \in Conns, txThread(c) \/ spuriousWakeup(c)
  PROVE  WakeupInv'
<1>1. /\ txPc \in [Conns -> TxPc] /\ txQueue \in [Conns -> 0 .. MaxQueue]
      /\ txMutex \in [Conns -> BOOLEAN] /\ MaxQueue \in Nat
  BY MaxQueueAssumption DEF TlsInv, TlsTypeOK
<1>2. UNCHANGED <<uartPc, uartConn>>
  BY DEF txThread, spuriousWakeup, txWhile, txLock, txPredicate, txWait, txDrain, txChecksSsl,
         txWrite, txUnchanged, uartVars
<1>3. CASE txWhile(c) \/ txChecksSsl(c) \/ txWrite(c) \/ spuriousWakeup(c)
  BY <1>1, <1>2, <1>3 DEF txWhile, txChecksSsl, txWrite, spuriousWakeup, WakeupInv, MutexInv,
                          SleepsEmpty, WakeupOwed
<1>4. CASE txLock(c)
  BY <1>1, <1>2, <1>4 DEF txLock, WakeupInv, MutexInv, SleepsEmpty, WakeupOwed
<1>5. CASE txPredicate(c)
  BY <1>1, <1>2, <1>5 DEF txPredicate, WakeupInv, MutexInv, SleepsEmpty, WakeupOwed
<1>6. CASE txWait(c)
  BY <1>1, <1>2, <1>6 DEF txWait, WakeupInv, MutexInv, SleepsEmpty, WakeupOwed
<1>7. CASE txDrain(c)
  BY <1>1, <1>2, <1>7 DEF txDrain, WakeupInv, MutexInv, SleepsEmpty, WakeupOwed
<1> QED
  BY <1>3, <1>4, <1>5, <1>6, <1>7 DEF txThread

LEMMA UartThreadKeepsWakeup ==
  ASSUME TlsInv, WakeupInv, uartThread \/ \E targets \in SUBSET Conns : deliver(targets)
  PROVE  WakeupInv'
<1>1. /\ txPc \in [Conns -> TxPc] /\ txQueue \in [Conns -> 0 .. MaxQueue]
      /\ txMutex \in [Conns -> BOOLEAN] /\ MaxQueue \in Nat /\ uartConn \in Conns
  BY MaxQueueAssumption DEF TlsInv, TlsTypeOK
<1>2. ASSUME NEW c \in Conns, sendData(c) PROVE WakeupInv'
  <2>1. ~txMutex[c] /\ uartPc = "next" /\ uartPc' = "notify" /\ uartConn' = c
    BY <1>2 DEF sendData
  <2>2. UNCHANGED <<txPc, txMutex>> /\ \A d \in Conns : d # c => txQueue'[d] = txQueue[d]
    BY <1>1, <1>2 DEF sendData
  <2> QED
    BY <2>1, <2>2 DEF WakeupInv, MutexInv, SleepsEmpty, WakeupOwed
<1>3. CASE sendDataNotifies
  <2>1. UNCHANGED <<txQueue, txMutex, uartConn>>
    BY <1>3 DEF sendDataNotifies
  <2>2. /\ txPc'[uartConn] # "waiting"
        /\ \A d \in Conns : txPc'[d] = txPc[d] \/ (txPc[d] = "waiting" /\ txPc'[d] = "woken")
        /\ \A d \in Conns : d # uartConn => txPc'[d] = txPc[d]
    BY <1>1, <1>3 DEF sendDataNotifies, NotifyTx
  <2> QED
    BY <2>1, <2>2 DEF WakeupInv, MutexInv, SleepsEmpty, WakeupOwed
<1>4. CASE deliverReturns
  BY <1>4 DEF deliverReturns, txVars, WakeupInv, MutexInv, SleepsEmpty, WakeupOwed
<1>5. CASE \E targets \in SUBSET Conns : deliver(targets)
  BY <1>5 DEF deliver, txVars, WakeupInv, MutexInv, SleepsEmpty, WakeupOwed
<1> QED
  BY <1>2, <1>3, <1>4, <1>5 DEF uartThread

LEMMA NextWakeup == TlsInv /\ WakeupInv /\ [TlsNext]_tlsVars => WakeupInv'
<1> SUFFICES ASSUME TlsInv, WakeupInv, [TlsNext]_tlsVars PROVE WakeupInv'
  OBVIOUS
<1>0. /\ txPc \in [Conns -> TxPc] /\ txQueue \in [Conns -> 0 .. MaxQueue]
      /\ txMutex \in [Conns -> BOOLEAN] /\ acceptConn \in Conns
  BY DEF TlsInv, TlsTypeOK
<1>1. ASSUME NEW c \in Conns, addSession(c) PROVE WakeupInv'
  <2>1. txPc[c] \in {"none", "done"}
    BY <1>1, ThreadAssumption DEF addSession, TlsInv, LifeInv, TxJoinedBeforeDestroy, Free
  <2>2. /\ txPc' = [txPc EXCEPT ![c] = "none"] /\ txQueue' = [txQueue EXCEPT ![c] = 0]
        /\ UNCHANGED <<txMutex, uartPc, uartConn>>
    BY <1>1 DEF addSession, uartVars
  <2> QED
    BY <1>0, <2>1, <2>2 DEF WakeupInv, MutexInv, SleepsEmpty, WakeupOwed
<1>2. CASE startTx
  <2>1. txPc[acceptConn] = "none"
    BY <1>2 DEF startTx, TlsInv, StartInv
  <2>2. /\ txPc' = [txPc EXCEPT ![acceptConn] = "while"]
        /\ UNCHANGED <<txMutex, txQueue, uartPc, uartConn>>
    BY <1>2 DEF startTx, uartVars
  <2> QED
    BY <1>0, <2>1, <2>2 DEF WakeupInv, MutexInv, SleepsEmpty, WakeupOwed
<1>3. ASSUME NEW c \in Conns, stopNotifies(c) PROVE WakeupInv'
  <2>1. UNCHANGED <<txMutex, txQueue, uartPc, uartConn>>
    BY <1>3 DEF stopNotifies, uartVars
  <2>2. \A d \in Conns : txPc'[d] = txPc[d] \/ (txPc[d] = "waiting" /\ txPc'[d] = "woken")
    BY <1>0, <1>3 DEF stopNotifies, NotifyTx
  <2> QED
    BY <2>1, <2>2 DEF WakeupInv, MutexInv, SleepsEmpty, WakeupOwed
<1>4. CASE UNCHANGED <<txPc, txMutex, txQueue, uartPc, uartConn>>
  BY <1>4 DEF WakeupInv, MutexInv, SleepsEmpty, WakeupOwed
<1>5. \/ startRx \/ addSessionReturns \/ UNCHANGED tlsVars
      \/ (\E c \in Conns : \/ rxLoopBreaks(c) \/ removeSession(c) \/ stopFreesSsl(c)
                           \/ stopJoins(c) \/ txWriteCrashes(c))
      => UNCHANGED <<txPc, txMutex, txQueue, uartPc, uartConn>>
  BY DEF startRx, addSessionReturns, rxLoopBreaks, removeSession, stopFreesSsl, stopJoins,
         txWriteCrashes, txUnchanged, tlsVars, txVars, uartVars
<1> QED
  BY <1>1, <1>2, <1>3, <1>4, <1>5, TxThreadKeepsWakeup, UartThreadKeepsWakeup
     DEF TlsNext, ThreadStep, acceptThread, rxThread

(* No tx thread of any number of connections sleeps on data: whenever one waits       *)
(* although its queue is not empty, the UART thread has yet to notify it.  sendData      *)
(* notifies after it has released txMutex_, and this is why that is enough.          *)
THEOREM DataWakesTxThread == TlsSpec => []WakeupOwed
<1>1. TlsInit => WakeupInv
  BY DEF TlsInit, WakeupInv, MutexInv, SleepsEmpty, WakeupOwed
<1> QED
  BY <1>1, NextWakeup, TlsInvariance, PTL DEF TlsSpec, WakeupInv

-----------------------------------------------------------------------------
(* The threads implement SessionService                                    *)

LEMMA BuffersAdd ==
  ASSUME NEW n \in Nat
  PROVE  Append(Buffers(n), Buffer) = Buffers(n + 1)
  BY DEF Buffers

LEMMA BuffersTake ==
  ASSUME NEW n \in Nat \ {0}
  PROVE  Buffers(n) # <<>> /\ Tail(Buffers(n)) = Buffers(n - 1)
  BY DEF Buffers

LEMMA NoBuffers == Buffers(0) = <<>>
  BY DEF Buffers

(* While nobody else holds mtx_, no frame is being handed out. *)
LEMMA NothingHandedOut ==
  ASSUME TlsInv, mtx = Free
  PROVE  uartTodo = {}
  BY ThreadAssumption DEF TlsInv, LockInv, TargetInv, Free, UartThread

LEMMA JoinStep ==
  ASSUME TlsInv, NEW c \in Conns, addSession(c)
  PROVE  Service!Join(c)
<1>1. uartTodo = {} /\ uartTodo' = {} /\ c \notin sessions /\ sessions' = sessions \cup {c}
  BY NothingHandedOut DEF addSession, uartVars
<1>2. txQueue'[c] = 0 /\ \A d \in Conns \ {c} : txQueue'[d] = txQueue[d]
  BY DEF addSession, TlsInv, TlsTypeOK
<1>3. Undelivered[c] = <<>>
  BY <1>1 DEF Undelivered
<1>4. Undelivered' = Undelivered
  BY <1>1, <1>2, NoBuffers DEF Undelivered
<1>5. \A d \in sessions : [e \in Conns |-> e][d] # [e \in Conns |-> e][c]
  BY <1>1 DEF TlsInv, TlsTypeOK
<1>6. NothingQueued[c] = <<>> /\ NothingQueued' = NothingQueued
  BY DEF NothingQueued
<1> QED
  BY <1>1, <1>3, <1>4, <1>5, <1>6 DEF Service!Join

LEMMA LeaveStep ==
  ASSUME TlsInv, NEW c \in Conns, removeSession(c)
  PROVE  Service!Leave(c)
<1>1. c \in sessions /\ sessions' = sessions \ {c} /\ UNCHANGED <<uartTodo, txQueue>>
  BY DEF removeSession, uartVars, txVars, TlsInv, LifeInv
<1>2. Undelivered' = [Undelivered EXCEPT ![c] = <<>>]
  BY <1>1 DEF Undelivered
<1>3. NothingQueued' = [NothingQueued EXCEPT ![c] = <<>>]
  BY DEF NothingQueued
<1> QED
  BY <1>1, <1>2, <1>3 DEF Service!Leave

(* A tx thread that drains a queue after its session is gone delivers nothing. *)
LEMMA ReceiveStep ==
  ASSUME TlsInv, NEW c \in Conns, txDrain(c)
  PROVE  Service!Receive(c) \/ UNCHANGED Service!vars
<1>1. UNCHANGED <<sessions, uartTodo>>
  BY DEF txDrain, txUnchanged, uartVars
<1>2. txQueue \in [Conns -> 0 .. MaxQueue] /\ MaxQueue \in Nat /\ NothingQueued' = NothingQueued
  BY MaxQueueAssumption DEF TlsInv, TlsTypeOK, NothingQueued
<1>3. CASE txQueue' = txQueue
  BY <1>1, <1>2, <1>3 DEF Undelivered, Service!vars
<1>4. CASE txQueue[c] > 0 /\ txQueue' = [txQueue EXCEPT ![c] = @ - 1]
  <2>1. \A d \in Conns \ {c} : Undelivered'[d] = Undelivered[d]
    BY <1>1, <1>2, <1>4 DEF Undelivered
  <2>2. CASE c \notin sessions
    <3>1. Undelivered' = Undelivered
      BY <1>1, <2>1, <2>2 DEF Undelivered
    <3> QED
      BY <1>1, <1>2, <3>1 DEF Service!vars
  <2>3. CASE c \in sessions
    <3>1. PICK n \in Nat \ {0} : n = IF c \in uartTodo THEN txQueue[c] + 1 ELSE txQueue[c]
      BY <1>2, <1>4
    <3>2. n - 1 = IF c \in uartTodo THEN txQueue'[c] + 1 ELSE txQueue'[c]
      BY <1>2, <1>4, <3>1
    <3>3. Undelivered[c] = Buffers(n) /\ Undelivered'[c] = Buffers(n - 1)
      BY <1>1, <2>3, <3>1, <3>2 DEF Undelivered
    <3>4. Undelivered[c] # <<>> /\ Undelivered'[c] = Tail(Undelivered[c])
      BY <3>3, BuffersTake
    <3>5. Undelivered' = [Undelivered EXCEPT ![c] = Tail(@)]
      BY <2>1, <3>4 DEF Undelivered
    <3> QED
      BY <1>1, <1>2, <2>3, <3>4, <3>5 DEF Service!Receive
  <2> QED
    BY <2>2, <2>3
<1> QED
  BY <1>3, <1>4 DEF txDrain

LEMMA InformStep ==
  ASSUME TlsInv, NEW targets \in SUBSET Conns, deliver(targets)
  PROVE  Service!Inform(targets, Buffer)
<1>1. /\ uartTodo = {} /\ uartTodo' = targets /\ targets \subseteq sessions
      /\ UNCHANGED <<sessions, txQueue>>
  BY NothingHandedOut DEF deliver, txVars
<1>2. \A c \in Conns : txQueue[c] \in Nat
  BY MaxQueueAssumption DEF TlsInv, TlsTypeOK
<1>3. \A c \in targets : Undelivered'[c] = Append(Undelivered[c], Buffer)
  BY <1>1, <1>2, BuffersAdd DEF Undelivered
<1>4. \A c \in Conns \ targets : Undelivered'[c] = Undelivered[c]
  BY <1>1 DEF Undelivered
<1>5. Undelivered' = [c \in Conns |-> IF c \in targets THEN Append(Undelivered[c], Buffer)
                                                       ELSE Undelivered[c]]
  BY <1>3, <1>4 DEF Undelivered
<1>6. NothingQueued' = NothingQueued
  BY DEF NothingQueued
<1> QED
  BY <1>1, <1>5, <1>6 DEF Service!Inform

(* A buffer that goes from the UART thread into txQueue_ was handed out before. *)
LEMMA SendStep ==
  ASSUME TlsInv, NEW c \in Conns, sendData(c)
  PROVE  UNCHANGED Service!vars
<1>1. /\ c \in uartTodo /\ uartTodo' = uartTodo \ {c} /\ sessions' = sessions
      /\ txQueue' = [txQueue EXCEPT ![c] = @ + 1]
  BY DEF sendData
<1>2. txQueue'[c] = txQueue[c] + 1 /\ \A d \in Conns \ {c} : txQueue'[d] = txQueue[d]
  BY <1>1 DEF TlsInv, TlsTypeOK
<1>3. Undelivered' = Undelivered
  BY <1>1, <1>2 DEF Undelivered
<1>4. NothingQueued' = NothingQueued
  BY DEF NothingQueued
<1> QED
  BY <1>1, <1>3, <1>4 DEF Service!vars

LEMMA StutterStep ==
  ASSUME UNCHANGED <<sessions, uartTodo, txQueue>>
  PROVE  UNCHANGED Service!vars
  BY DEF Undelivered, NothingQueued, Service!vars

LEMMA ThreadStepImplements ==
  ASSUME TlsInv, [TlsNext]_tlsVars
  PROVE  [Service!ServiceNext]_Service!vars
<1>1. ASSUME NEW c \in Conns, addSession(c) \/ removeSession(c) PROVE Service!ServiceNext
  BY <1>1, JoinStep, LeaveStep DEF Service!ServiceNext
<1>2. ASSUME NEW c \in Conns, txDrain(c) PROVE Service!ServiceNext \/ UNCHANGED Service!vars
  BY <1>2, ReceiveStep DEF Service!ServiceNext
<1>3. ASSUME NEW targets \in SUBSET Conns, deliver(targets) PROVE Service!ServiceNext
  BY <1>3, InformStep DEF Service!ServiceNext
<1>4. ASSUME NEW c \in Conns, sendData(c) PROVE UNCHANGED Service!vars
  BY <1>4, SendStep
<1>5. CASE acceptThread \/ sendDataNotifies \/ deliverReturns \/ UNCHANGED tlsVars
  <2>1. UNCHANGED <<sessions, uartTodo, txQueue>>
    BY <1>5 DEF acceptThread, startRx, startTx, addSessionReturns, sendDataNotifies,
                deliverReturns, tlsVars, uartVars, txVars
  <2> QED
    BY <2>1, StutterStep
<1>6. ASSUME NEW c \in Conns, rxLoopBreaks(c) \/ rxThread(c) PROVE UNCHANGED Service!vars
  <2>1. UNCHANGED <<sessions, uartTodo, txQueue>>
    BY <1>6 DEF rxLoopBreaks, rxThread, stopFreesSsl, stopNotifies, stopJoins, uartVars, txVars
  <2> QED
    BY <2>1, StutterStep
<1>7. ASSUME NEW c \in Conns,
             \/ txWhile(c) \/ txLock(c) \/ txPredicate(c) \/ txWait(c) \/ txChecksSsl(c)
             \/ txWrite(c) \/ spuriousWakeup(c) \/ txWriteCrashes(c)
      PROVE  UNCHANGED Service!vars
  <2>1. UNCHANGED <<sessions, uartTodo, txQueue>>
    BY <1>7 DEF txWhile, txLock, txPredicate, txWait, txChecksSsl, txWrite, spuriousWakeup,
                txWriteCrashes, txUnchanged, uartVars, txVars
  <2> QED
    BY <2>1, StutterStep
<1> QED
  BY <1>1, <1>2, <1>3, <1>4, <1>5, <1>6, <1>7 DEF TlsNext, ThreadStep, txThread, uartThread

(* The transports implement SessionService, whatever connects, disconnects and is   *)
(* handed out at the same time: start(), stop() and the delivery of a frame to       *)
(* several clients, all of many steps, look like one step each.                   *)
THEOREM ThreadsServe == TlsSpec => ThreadsImplementService
<1>1. TlsInit => Service!ServiceInit
  BY DEF TlsInit, Service!ServiceInit, Undelivered, NothingQueued
<1>2. TlsInv /\ [TlsNext]_tlsVars => [Service!ServiceNext]_Service!vars
  BY ThreadStepImplements
<1> QED
  BY <1>1, <1>2, TlsInvariance, PTL DEF TlsSpec, ThreadsImplementService, Service!ServiceSpec
=============================================================================
