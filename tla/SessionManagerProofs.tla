------------------------- MODULE SessionManagerProofs -------------------------
(* Proofs about the session table for every set of connections, every         *)
(* assignment of CIDs (shared ones included) and every bound on the queues.    *)
EXTENDS SessionManager, TLAPS

-----------------------------------------------------------------------------
(* Facts about the constants and about the queue operations.                *)

(* The CID a connection announces is one of the table's keys. *)
LEMMA CidInCids == \A c \in Conns : CidOf[c] \in Cids
  BY DEF Cids

(* Reading the table yields a connection or nothing. *)
LEMMA FindType ==
  ASSUME TypeOK, NEW k \in Cids
  PROVE  findSession(k) \in Conns \cup {NoConn}
  BY DEF TypeOK, findSession

(* What an iteration over the table visits are connections found under some key. *)
LEMMA RegisteredFound ==
  ASSUME TypeOK, NEW c \in Registered
  PROVE  /\ c \in Conns
         /\ c # NoConn
         /\ \E k \in Cids : findSession(k) = c
  BY DEF TypeOK, Registered, findSession

(* A session is live when it is in the table. *)
LEMMA RegisteredRuns ==
  ASSUME TypeOK, SessionIsLive, NEW c \in Registered
  PROVE  c \in Conns /\ transport[c] = "running"
  BY RegisteredFound DEF SessionIsLive

(* Pushing to and popping from a queue keeps its element type. *)
LEMMA QueueType ==
  ASSUME NEW S, NEW q \in Seq(S), NEW e \in S
  PROVE  /\ Append(q, e) \in Seq(S)
         /\ q # <<>> => Tail(q) \in Seq(S)
  OBVIOUS

-----------------------------------------------------------------------------
(* TypeOK is inductive by itself. *)

LEMMA InitTypeOK == Init => TypeOK
  BY DEF Init, TypeOK, TransportState, RxState

LEMMA NextTypeOK == TypeOK /\ [Next]_smVars => TypeOK'
<1> SUFFICES ASSUME TypeOK, [Next]_smVars PROVE TypeOK'
  OBVIOUS
<1> USE CidInCids
<1>1. ASSUME NEW c \in Conns, acceptLoop(c) PROVE TypeOK'
  BY <1>1 DEF TypeOK, acceptLoop, TransportState
<1>2. ASSUME NEW c \in Conns, registrationFails(c) PROVE TypeOK'
  BY <1>2 DEF TypeOK, registrationFails, TransportState
<1>3. ASSUME NEW c \in Conns, addSession(c) PROVE TypeOK'
  <2>1. CidOf[c] \in Cids
    OBVIOUS
  <2>2. sessions' \in [Cids -> Conns \cup {NoConn}]
    BY <1>3, <2>1 DEF TypeOK, addSession
  <2>3. transport' \in [Conns -> TransportState]
    BY <1>3 DEF TypeOK, addSession, TransportState
  <2>4. rx' \in [Conns -> RxState]
    BY <1>3 DEF TypeOK, addSession, RxState
  <2> QED
    BY <1>3, <2>2, <2>3, <2>4 DEF TypeOK, addSession
<1>4. ASSUME NEW c \in Conns, NEW f \in Frame, forwardToMcu(c, f) PROVE TypeOK'
  <2> DEFINE s == findSession(CidOf[c])
  <2>1. CASE s = NoConn
    BY <1>4, <2>1 DEF TypeOK, forwardToMcu
  <2>2. CASE s # NoConn
    <3>1. s \in Conns
      BY <2>2, FindType
    <3>2. f.sid \in Sids
      BY DEF Frame
    <3>3. requestedSidQueue' \in [Conns -> Seq(Sids)]
      <4>1. \/ requestedSidQueue' = requestedSidQueue
            \/ requestedSidQueue' = [requestedSidQueue EXCEPT ![s] = Append(@, f.sid)]
        BY <1>4, <2>2 DEF forwardToMcu
      <4>2. requestedSidQueue[s] \in Seq(Sids)
        BY <3>1 DEF TypeOK
      <4>3. Append(requestedSidQueue[s], f.sid) \in Seq(Sids)
        BY <3>2, <4>2, QueueType
      <4> HIDE DEF s
      <4> QED
        BY <3>1, <4>1, <4>3 DEF TypeOK
    <3>4. toMcuQueue' \in [Conns -> Seq(Frame)]
      <4>1. toMcuQueue' = [toMcuQueue EXCEPT ![s] = Append(@, f)]
        BY <1>4, <2>2 DEF forwardToMcu
      <4>2. toMcuQueue[s] \in Seq(Frame)
        BY <3>1 DEF TypeOK
      <4>3. Append(toMcuQueue[s], f) \in Seq(Frame)
        BY <4>2, QueueType
      <4> HIDE DEF s
      <4> QED
        BY <3>1, <4>1, <4>3 DEF TypeOK
    <3> QED
      BY <1>4, <3>3, <3>4 DEF TypeOK, forwardToMcu
  <2> QED
    BY <2>1, <2>2
<1>5. ASSUME NEW c \in Conns, rxLoopBreaks(c) PROVE TypeOK'
  BY <1>5 DEF TypeOK, rxLoopBreaks, RxState
<1>6. ASSUME NEW c \in Conns, removeSession(c) PROVE TypeOK'
  <2>1. sessions' \in [Cids -> Conns \cup {NoConn}]
    BY <1>6 DEF TypeOK, removeSession
  <2>2. transport' \in [Conns -> TransportState] /\ rx' \in [Conns -> RxState]
    BY <1>6 DEF TypeOK, removeSession, TransportState, RxState
  <2>3. requestedSidQueue' \in [Conns -> Seq(Sids)]
    BY <1>6 DEF TypeOK, removeSession
  <2>4. toMcuQueue' \in [Conns -> Seq(Frame)] /\ txQueue' \in [Conns -> Seq(Frame)]
    BY <1>6 DEF TypeOK, removeSession
  <2>5. isBlocked' \in [Conns -> BOOLEAN]
    BY <1>6 DEF TypeOK, removeSession
  <2> QED
    BY <2>1, <2>2, <2>3, <2>4, <2>5 DEF TypeOK
<1>7. ASSUME NEW c \in Conns, popNextMcuFrame(c) PROVE TypeOK'
  BY <1>7 DEF TypeOK, popNextMcuFrame, FirstWithFrame
<1>8. ASSUME NEW c \in Conns, txLoopSends(c) PROVE TypeOK'
  BY <1>8 DEF TypeOK, txLoopSends
<1>9. ASSUME NEW c \in Conns, NEW b \in BOOLEAN, setBlocked(c, b) PROVE TypeOK'
  BY <1>9 DEF TypeOK, setBlocked
<1>10. ASSUME NEW f \in Frame, broadcast(f) PROVE TypeOK'
  BY <1>10 DEF TypeOK, broadcast
<1>11. ASSUME NEW f \in Frame, routeUartRxBySid(f) PROVE TypeOK'
  <2>1. txQueue' \in [Conns -> Seq(Frame)]
    BY <1>11 DEF TypeOK, routeUartRxBySid
  <2>2. \A c \in Conns : c \in Receivers(f) => requestedSidQueue[c] # <<>>
    BY DEF Receivers, Expects
  <2>3. requestedSidQueue' \in [Conns -> Seq(Sids)]
    BY <1>11, <2>2 DEF TypeOK, routeUartRxBySid
  <2> QED
    BY <1>11, <2>1, <2>3 DEF TypeOK, routeUartRxBySid
<1>12. ASSUME NEW k \in Cids, NEW f \in Frame, sendToSession(k, f) PROVE TypeOK'
  BY <1>12 DEF TypeOK, sendToSession, findSession
<1>13. CASE UNCHANGED smVars
  BY <1>13 DEF TypeOK, smVars
<1> QED
  BY <1>1, <1>2, <1>3, <1>4, <1>5, <1>6, <1>7, <1>8, <1>9, <1>10, <1>11, <1>12,
     <1>13 DEF Next

(* Every reachable state of the session table is well-typed: no operation of  *)
(* SessionManager, Session or the transport stores anything but what the      *)
(* members' declarations allow.                                              *)
THEOREM TypeCorrect == Spec => []TypeOK
  BY InitTypeOK, NextTypeOK, PTL DEF Spec

-----------------------------------------------------------------------------
(* The three ownership invariants only hold together: that removeSession      *)
(* erases the caller's own session needs RxThreadOwnsSession, that addSession  *)
(* finds the key free of a running transport needs SessionIsLive, and that    *)
(* nothing is queued for a stopped transport needs both.                      *)
SessionInv ==
    /\ RxThreadOwnsSession
    /\ SessionIsLive
    /\ ReconnectStartsFresh

(* Being in the table, having running threads and having an rx thread are     *)
(* the same thing.                                                            *)
LEMMA RunningIffFound ==
  ASSUME TypeOK, SessionInv, NEW c \in Conns
  PROVE  /\ rx[c] # "none" <=> transport[c] = "running"
         /\ findSession(CidOf[c]) = c <=> transport[c] = "running"
<1>1. CidOf[c] \in Cids /\ c # NoConn
  BY CidInCids, ConnAssumption
<1>2. rx[c] # "none" => findSession(CidOf[c]) = c
  BY DEF SessionInv, RxThreadOwnsSession, TypeOK, RxState
<1>3. findSession(CidOf[c]) = c => transport[c] = "running" /\ rx[c] # "none"
  BY <1>1 DEF SessionInv, SessionIsLive
<1>4. transport[c] = "running" => findSession(CidOf[c]) = c
  BY DEF SessionInv, SessionIsLive
<1> QED
  BY <1>2, <1>3, <1>4

LEMMA InitSessionInv == Init => SessionInv
<1> SUFFICES ASSUME Init PROVE SessionInv
  OBVIOUS
<1>1. RxThreadOwnsSession
  BY DEF Init, RxThreadOwnsSession
<1>2. SessionIsLive
  BY DEF Init, SessionIsLive, findSession
<1>3. ReconnectStartsFresh
  BY DEF Init, ReconnectStartsFresh
<1> QED
  BY <1>1, <1>2, <1>3 DEF SessionInv

(* A step that leaves table, transports and rx threads alone keeps ownership. *)
LEMMA OwnershipUnchanged ==
  ASSUME SessionInv, UNCHANGED <<sessions, transport, rx>>
  PROVE  RxThreadOwnsSession' /\ SessionIsLive'
  BY DEF SessionInv, RxThreadOwnsSession, SessionIsLive, findSession

LEMMA AddSessionInv ==
  ASSUME TypeOK, SessionInv, NEW c \in Conns, addSession(c)
  PROVE  SessionInv'
<1>1. CidOf[c] \in Cids /\ c # NoConn
  BY CidInCids, ConnAssumption
<1>2. transport[c] = "accepted" /\ rx[c] = "none" /\ findSession(CidOf[c]) # c
  BY RunningIffFound DEF addSession
<1>3. ReconnectStartsFresh'
  BY <1>2 DEF addSession, SessionInv, ReconnectStartsFresh, TypeOK
<1>4. CASE findSession(CidOf[c]) = NoConn
  <2>1. /\ sessions' = [sessions EXCEPT ![CidOf[c]] = c]
        /\ transport' = [transport EXCEPT ![c] = "running"]
        /\ rx' = [rx EXCEPT ![c] = "loop"]
    BY <1>4 DEF addSession
  <2>2. \A k \in Cids : findSession(k)' = IF k = CidOf[c] THEN c ELSE findSession(k)
    BY <1>1, <2>1 DEF findSession, TypeOK
  <2>3. \A d \in Conns : d # c => transport'[d] = transport[d] /\ rx'[d] = rx[d]
    BY <2>1 DEF TypeOK
  <2>4. transport'[c] = "running" /\ rx'[c] = "loop"
    BY <2>1 DEF TypeOK
  <2>5. \A d \in Conns : transport[d] = "running" => CidOf[d] # CidOf[c]
    BY <1>1, <1>4, RunningIffFound, ConnAssumption
  <2>6. RxThreadOwnsSession'
    <3> SUFFICES ASSUME NEW d \in Conns, rx'[d] \in {"loop", "exit"}
                 PROVE  findSession(CidOf[d])' = d
      BY DEF RxThreadOwnsSession
    <3>1. CASE d = c
      BY <1>1, <2>2, <3>1
    <3>2. CASE d # c
      BY <2>2, <2>3, <2>5, <3>2, RunningIffFound, CidInCids
    <3> QED
      BY <3>1, <3>2
  <2>7. SessionIsLive'
    <3>1. ASSUME NEW k \in Cids, findSession(k)' # NoConn
          PROVE  /\ CidOf[findSession(k)'] = k
                 /\ transport'[findSession(k)'] = "running"
                 /\ rx'[findSession(k)'] # "none"
      <4>1. CASE k = CidOf[c]
        BY <2>2, <2>4, <4>1
      <4>2. CASE k # CidOf[c]
        <5>1. findSession(k)' = findSession(k) /\ findSession(k) \in Conns
          BY <2>2, <3>1, <4>2, FindType
        <5>2. /\ CidOf[findSession(k)] = k
              /\ transport[findSession(k)] = "running"
              /\ rx[findSession(k)] # "none"
          BY <3>1, <5>1 DEF SessionInv, SessionIsLive
        <5> QED
          BY <1>2, <2>3, <5>1, <5>2
      <4> QED
        BY <4>1, <4>2
    <3>2. ASSUME NEW d \in Conns, transport'[d] = "running"
          PROVE  findSession(CidOf[d])' = d
      <4>1. CASE d = c
        BY <1>1, <2>2, <4>1
      <4>2. CASE d # c
        BY <2>2, <2>3, <2>5, <3>2, <4>2, RunningIffFound, CidInCids
      <4> QED
        BY <4>1, <4>2
    <3> QED
      BY <3>1, <3>2 DEF SessionIsLive
  <2> QED
    BY <1>3, <2>6, <2>7 DEF SessionInv
<1>5. CASE findSession(CidOf[c]) # NoConn
  <2>1. transport' = [transport EXCEPT ![c] = "leaked"] /\ UNCHANGED <<sessions, rx>>
    BY <1>5 DEF addSession
  <2>2. RxThreadOwnsSession'
    BY <2>1 DEF SessionInv, RxThreadOwnsSession, findSession
  <2>3. SessionIsLive'
    BY <1>2, <2>1 DEF SessionInv, SessionIsLive, findSession, TypeOK
  <2> QED
    BY <1>3, <2>2, <2>3 DEF SessionInv
<1> QED
  BY <1>4, <1>5

LEMMA RemoveSessionInv ==
  ASSUME TypeOK, SessionInv, NEW c \in Conns, removeSession(c)
  PROVE  SessionInv'
<1>1. CidOf[c] \in Cids /\ c # NoConn
  BY CidInCids, ConnAssumption
<1>2. findSession(CidOf[c]) = c
  BY DEF removeSession, SessionInv, RxThreadOwnsSession
<1>3. \A k \in Cids : findSession(k)' = IF k = CidOf[c] THEN NoConn ELSE findSession(k)
  BY <1>1 DEF removeSession, findSession, TypeOK
<1>4. \A d \in Conns : d # c => /\ transport'[d] = transport[d]
                               /\ rx'[d] = rx[d]
                               /\ requestedSidQueue'[d] = requestedSidQueue[d]
                               /\ toMcuQueue'[d] = toMcuQueue[d]
                               /\ txQueue'[d] = txQueue[d]
                               /\ isBlocked'[d] = isBlocked[d]
  BY <1>2 DEF removeSession, TypeOK
<1>5. /\ transport'[c] = "none"
      /\ rx'[c] = "none"
      /\ requestedSidQueue'[c] = <<>>
      /\ toMcuQueue'[c] = <<>>
      /\ txQueue'[c] = <<>>
      /\ ~isBlocked'[c]
  BY <1>2 DEF removeSession, TypeOK
<1>6. \A d \in Conns : d # c /\ transport[d] = "running" => CidOf[d] # CidOf[c]
  BY <1>2, RunningIffFound
<1>7. RxThreadOwnsSession'
  <2> SUFFICES ASSUME NEW d \in Conns, rx'[d] \in {"loop", "exit"}
               PROVE  findSession(CidOf[d])' = d
    BY DEF RxThreadOwnsSession
  <2>1. d # c /\ transport[d] = "running"
    BY <1>4, <1>5, RunningIffFound
  <2> QED
    BY <1>3, <1>6, <2>1, RunningIffFound, CidInCids
<1>8. SessionIsLive'
  <2>1. ASSUME NEW k \in Cids, findSession(k)' # NoConn
        PROVE  /\ CidOf[findSession(k)'] = k
               /\ transport'[findSession(k)'] = "running"
               /\ rx'[findSession(k)'] # "none"
    <3>1. findSession(k)' = findSession(k) /\ findSession(k) \in Conns /\ k # CidOf[c]
      BY <1>3, <2>1, FindType
    <3>2. /\ CidOf[findSession(k)] = k
          /\ transport[findSession(k)] = "running"
          /\ rx[findSession(k)] # "none"
      BY <2>1, <3>1 DEF SessionInv, SessionIsLive
    <3> QED
      BY <1>4, <3>1, <3>2
  <2>2. ASSUME NEW d \in Conns, transport'[d] = "running"
        PROVE  findSession(CidOf[d])' = d
    <3>1. d # c /\ transport[d] = "running"
      BY <1>4, <1>5, <2>2
    <3> QED
      BY <1>3, <1>6, <3>1, RunningIffFound, CidInCids
  <2> QED
    BY <2>1, <2>2 DEF SessionIsLive
<1>9. ReconnectStartsFresh'
  BY <1>4, <1>5 DEF SessionInv, ReconnectStartsFresh
<1> QED
  BY <1>7, <1>8, <1>9 DEF SessionInv

LEMMA NextSessionInv == TypeOK /\ SessionInv /\ [Next]_smVars => SessionInv'
<1> SUFFICES ASSUME TypeOK, SessionInv, [Next]_smVars PROVE SessionInv'
  OBVIOUS
<1> USE CidInCids
<1>1. ASSUME NEW c \in Conns, acceptLoop(c) PROVE SessionInv'
  <2>1. transport[c] = "none" /\ transport' = [transport EXCEPT ![c] = "accepted"]
    BY <1>1 DEF acceptLoop
  <2>2. RxThreadOwnsSession'
    BY <1>1 DEF acceptLoop, SessionInv, RxThreadOwnsSession, findSession
  <2>3. SessionIsLive'
    BY <1>1, <2>1 DEF acceptLoop, SessionInv, SessionIsLive, findSession, TypeOK
  <2>4. ReconnectStartsFresh'
    BY <1>1, <2>1 DEF acceptLoop, SessionInv, ReconnectStartsFresh, TypeOK
  <2> QED
    BY <2>2, <2>3, <2>4 DEF SessionInv
<1>2. ASSUME NEW c \in Conns, registrationFails(c) PROVE SessionInv'
  <2>1. transport[c] = "accepted" /\ transport' = [transport EXCEPT ![c] = "none"]
    BY <1>2 DEF registrationFails
  <2>2. RxThreadOwnsSession'
    BY <1>2 DEF registrationFails, SessionInv, RxThreadOwnsSession, findSession
  <2>3. SessionIsLive'
    BY <1>2, <2>1 DEF registrationFails, SessionInv, SessionIsLive, findSession, TypeOK
  <2>4. ReconnectStartsFresh'
    BY <1>2, <2>1 DEF registrationFails, SessionInv, ReconnectStartsFresh, TypeOK
  <2> QED
    BY <2>2, <2>3, <2>4 DEF SessionInv
<1>3. ASSUME NEW c \in Conns, addSession(c) PROVE SessionInv'
  BY <1>3, AddSessionInv
<1>4. ASSUME NEW c \in Conns, NEW f \in Frame, forwardToMcu(c, f) PROVE SessionInv'
  <2>1. findSession(CidOf[c]) = c
    BY <1>4 DEF forwardToMcu, SessionInv, RxThreadOwnsSession
  <2>2. transport[c] = "running"
    BY <2>1, RunningIffFound
  <2>3. \A d \in Conns : d # c => /\ requestedSidQueue'[d] = requestedSidQueue[d]
                                 /\ toMcuQueue'[d] = toMcuQueue[d]
    BY <1>4, <2>1 DEF forwardToMcu, TypeOK
  <2>4. ReconnectStartsFresh'
    BY <1>4, <2>2, <2>3 DEF forwardToMcu, SessionInv, ReconnectStartsFresh
  <2> QED
    BY <1>4, <2>4, OwnershipUnchanged DEF forwardToMcu, SessionInv
<1>5. ASSUME NEW c \in Conns, rxLoopBreaks(c) PROVE SessionInv'
  <2>1. rx[c] = "loop" /\ rx' = [rx EXCEPT ![c] = "exit"]
    BY <1>5 DEF rxLoopBreaks
  <2>2. RxThreadOwnsSession'
    BY <1>5, <2>1 DEF rxLoopBreaks, SessionInv, RxThreadOwnsSession, findSession, TypeOK
  <2>3. SessionIsLive'
    BY <1>5, <2>1 DEF rxLoopBreaks, SessionInv, SessionIsLive, findSession, TypeOK
  <2>4. ReconnectStartsFresh'
    BY <1>5 DEF rxLoopBreaks, SessionInv, ReconnectStartsFresh
  <2> QED
    BY <2>2, <2>3, <2>4 DEF SessionInv
<1>6. ASSUME NEW c \in Conns, removeSession(c) PROVE SessionInv'
  BY <1>6, RemoveSessionInv
<1>7. ASSUME NEW c \in Conns, popNextMcuFrame(c) PROVE SessionInv'
  <2>1. transport[c] = "running"
    BY <1>7, RegisteredRuns DEF popNextMcuFrame, FirstWithFrame, SessionInv
  <2>2. ReconnectStartsFresh'
    BY <1>7, <2>1 DEF popNextMcuFrame, SessionInv, ReconnectStartsFresh, TypeOK
  <2> QED
    BY <1>7, <2>2, OwnershipUnchanged DEF popNextMcuFrame, SessionInv
<1>8. ASSUME NEW c \in Conns, txLoopSends(c) PROVE SessionInv'
  <2>1. ReconnectStartsFresh'
    BY <1>8 DEF txLoopSends, SessionInv, ReconnectStartsFresh, TypeOK
  <2> QED
    BY <1>8, <2>1, OwnershipUnchanged DEF txLoopSends, SessionInv
<1>9. ASSUME NEW c \in Conns, NEW b \in BOOLEAN, setBlocked(c, b) PROVE SessionInv'
  <2>1. transport[c] = "running"
    BY <1>9, RegisteredRuns DEF setBlocked, SessionInv
  <2>2. ReconnectStartsFresh'
    BY <1>9, <2>1 DEF setBlocked, SessionInv, ReconnectStartsFresh, TypeOK
  <2> QED
    BY <1>9, <2>2, OwnershipUnchanged DEF setBlocked, SessionInv
<1>10. ASSUME NEW f \in Frame, broadcast(f) PROVE SessionInv'
  <2>1. \A c \in Conns : transport[c] # "running" => c \notin Registered
    BY RegisteredRuns DEF SessionInv
  <2>2. ReconnectStartsFresh'
    BY <1>10, <2>1 DEF broadcast, SessionInv, ReconnectStartsFresh
  <2> QED
    BY <1>10, <2>2, OwnershipUnchanged DEF broadcast, SessionInv
<1>11. ASSUME NEW f \in Frame, routeUartRxBySid(f) PROVE SessionInv'
  <2>1. \A c \in Conns : transport[c] # "running" => c \notin Receivers(f)
    BY RegisteredRuns DEF SessionInv, Receivers
  <2>2. ReconnectStartsFresh'
    BY <1>11, <2>1 DEF routeUartRxBySid, SessionInv, ReconnectStartsFresh
  <2> QED
    BY <1>11, <2>2, OwnershipUnchanged DEF routeUartRxBySid, SessionInv
<1>12. ASSUME NEW k \in Cids, NEW f \in Frame, sendToSession(k, f) PROVE SessionInv'
  <2>1. findSession(k) \in Conns /\ transport[findSession(k)] = "running"
    BY <1>12, FindType DEF sendToSession, SessionInv, SessionIsLive
  <2>2. \A d \in Conns : d # findSession(k) => txQueue'[d] = txQueue[d]
    BY <1>12 DEF sendToSession, TypeOK
  <2>3. ReconnectStartsFresh'
    BY <1>12, <2>1, <2>2 DEF sendToSession, SessionInv, ReconnectStartsFresh
  <2> QED
    BY <1>12, <2>3, OwnershipUnchanged DEF sendToSession, SessionInv
<1>13. CASE UNCHANGED smVars
  <2>1. ReconnectStartsFresh'
    BY <1>13 DEF smVars, SessionInv, ReconnectStartsFresh
  <2> QED
    BY <1>13, <2>1, OwnershipUnchanged DEF smVars, SessionInv
<1> QED
  BY <1>1, <1>2, <1>3, <1>4, <1>5, <1>6, <1>7, <1>8, <1>9, <1>10, <1>11, <1>12,
     <1>13 DEF Next

LEMMA SessionInvariance == Spec => [](TypeOK /\ SessionInv)
<1>1. Init => TypeOK /\ SessionInv
  BY InitTypeOK, InitSessionInv
<1>2. (TypeOK /\ SessionInv) /\ [Next]_smVars => (TypeOK /\ SessionInv)'
  BY NextTypeOK, NextSessionInv
<1> QED
  BY <1>1, <1>2, PTL DEF Spec

(* However many connections announce one CID and however accept, rx and      *)
(* UART threads interleave, the rx thread that calls forwardToMcu or          *)
(* removeSession with its CID always reaches its own session.                 *)
THEOREM OwnSessionOnly == Spec => []RxThreadOwnsSession
<1>1. SessionInv => RxThreadOwnsSession
  BY DEF SessionInv
<1> QED
  BY <1>1, SessionInvariance, PTL

(* The session map and the running transports always agree. *)
THEOREM LiveSessionsOnly == Spec => []SessionIsLive
<1>1. SessionInv => SessionIsLive
  BY DEF SessionInv
<1> QED
  BY <1>1, SessionInvariance, PTL

(* No request, frame or block flag survives its connection. *)
THEOREM FreshAfterReconnect == Spec => []ReconnectStartsFresh
<1>1. SessionInv => ReconnectStartsFresh
  BY DEF SessionInv
<1> QED
  BY <1>1, SessionInvariance, PTL

-----------------------------------------------------------------------------
(* One step changes a queue of pending requests in one of three ways. *)
LEMMA PendingStep ==
  ASSUME TypeOK, SessionInv, [Next]_smVars, NEW c \in Conns,
         requestedSidQueue'[c] # requestedSidQueue[c]
  PROVE  Answered(c) \/ Requested(c) \/ transport'[c] = "none"
<1> USE CidInCids
<1>1. ASSUME NEW d \in Conns, NEW f \in Frame, forwardToMcu(d, f) PROVE Requested(c)
  <2>1. findSession(CidOf[d]) = d /\ d # NoConn
    BY <1>1, ConnAssumption DEF forwardToMcu, SessionInv, RxThreadOwnsSession
  <2>2. /\ d = c
        /\ isDiagSid(f.sid)
        /\ requestedSidQueue'[c] = Append(requestedSidQueue[c], f.sid)
        /\ toMcuQueue'[c] = Append(toMcuQueue[c], f)
    BY <1>1, <2>1 DEF forwardToMcu, TypeOK
  <2> QED
    BY <2>2 DEF Requested
<1>2. ASSUME NEW d \in Conns, removeSession(d) PROVE transport'[c] = "none"
  BY <1>2 DEF removeSession
<1>3. ASSUME NEW f \in Frame, routeUartRxBySid(f) PROVE Answered(c)
  <2>1. c \in Receivers(f)
    BY <1>3 DEF routeUartRxBySid
  <2>2. ~isBlocked[c] /\ requestedSidQueue[c] # <<>> /\ Head(requestedSidQueue[c]) = f.sid
    BY <2>1 DEF Receivers, Expects
  <2>3. /\ requestedSidQueue'[c] = Tail(requestedSidQueue[c])
        /\ txQueue'[c] = Append(txQueue[c], f)
    BY <1>3, <2>1 DEF routeUartRxBySid
  <2> QED
    BY <2>2, <2>3 DEF Answered
<1>4. \/ \E d \in Conns, f \in Frame : forwardToMcu(d, f)
      \/ \E d \in Conns : removeSession(d)
      \/ \E f \in Frame : routeUartRxBySid(f)
  BY DEF Next, smVars, acceptLoop, registrationFails, addSession, rxLoopBreaks,
         popNextMcuFrame, txLoopSends, setBlocked, broadcast, sendToSession
<1> QED
  BY <1>1, <1>2, <1>3, <1>4

(* Every pending request of a session that lives on ends with an answer of    *)
(* its SID queued for its client, in the order the requests were made.        *)
THEOREM PendingAnsweredInOrder == Spec => PendingOnlyAnswered
<1>1. TypeOK /\ SessionInv /\ [Next]_smVars =>
        [\A c \in Conns :
            requestedSidQueue'[c] # requestedSidQueue[c] =>
                Answered(c) \/ Requested(c) \/ transport'[c] = "none"]_smVars
  BY PendingStep
<1> QED
  BY <1>1, SessionInvariance, PTL DEF Spec, PendingOnlyAnswered
-----------------------------------------------------------------------------
(* The table, searched by CID, as sessions that clients own.                *)

LEMMA InitImplementsService == Init => Service!ServiceInit
  BY DEF Init, Service!ServiceInit, Running

(* A step of the table is a step of the service or none at all. *)
LEMMA StepImplementsService ==
  ASSUME TypeOK, SessionInv, [Next]_smVars
  PROVE  [Service!ServiceNext]_Service!vars
<1> USE CidInCids
<1>1. ASSUME NEW c \in Conns, acceptLoop(c) PROVE UNCHANGED Service!vars
  <2>1. Running' = Running
    BY <1>1 DEF acceptLoop, Running, TypeOK
  <2> QED
    BY <1>1, <2>1 DEF acceptLoop, Service!vars
<1>2. ASSUME NEW c \in Conns, registrationFails(c) PROVE UNCHANGED Service!vars
  <2>1. Running' = Running
    BY <1>2 DEF registrationFails, Running, TypeOK
  <2> QED
    BY <1>2, <2>1 DEF registrationFails, Service!vars
<1>3. ASSUME NEW c \in Conns, addSession(c)
      PROVE  Service!Join(c) \/ UNCHANGED Service!vars
  <2>1. CASE findSession(CidOf[c]) = NoConn
    <3>1. \A d \in Running : CidOf[d] # CidOf[c]
      BY <2>1, RunningIffFound, ConnAssumption DEF Running
    <3>2. requestedSidQueue[c] = <<>> /\ toMcuQueue[c] = <<>> /\ txQueue[c] = <<>>
      BY <1>3 DEF addSession, SessionInv, ReconnectStartsFresh
    <3>3. transport' = [transport EXCEPT ![c] = "running"]
      BY <1>3, <2>1 DEF addSession
    <3>4. Running' = Running \cup {c}
      BY <3>3 DEF Running, TypeOK
    <3> QED
      BY <1>3, <3>1, <3>2, <3>4 DEF addSession, Service!Join
  <2>2. CASE findSession(CidOf[c]) # NoConn
    <3>1. transport[c] = "accepted" /\ transport' = [transport EXCEPT ![c] = "leaked"]
      BY <1>3, <2>2 DEF addSession
    <3>2. Running' = Running
      BY <3>1 DEF Running, TypeOK
    <3> QED
      BY <1>3, <3>2 DEF addSession, Service!vars
  <2> QED
    BY <2>1, <2>2
<1>4. ASSUME NEW c \in Conns, NEW f \in Frame, forwardToMcu(c, f)
      PROVE  Service!Request(c, f)
  <2>1. findSession(CidOf[c]) = c /\ c # NoConn
    BY <1>4, ConnAssumption DEF forwardToMcu, SessionInv, RxThreadOwnsSession
  <2>2. c \in Running
    BY <2>1, RunningIffFound DEF Running
  <2>3. Running' = Running
    BY <1>4 DEF forwardToMcu, Running
  <2> QED
    BY <1>4, <2>1, <2>2, <2>3 DEF forwardToMcu, Service!Request
<1>5. ASSUME NEW c \in Conns, rxLoopBreaks(c) PROVE UNCHANGED Service!vars
  BY <1>5 DEF rxLoopBreaks, Running, Service!vars
<1>6. ASSUME NEW c \in Conns, removeSession(c) PROVE Service!Leave(c)
  <2>1. findSession(CidOf[c]) = c
    BY <1>6 DEF removeSession, SessionInv, RxThreadOwnsSession
  <2>2. c \in Running
    BY <2>1, RunningIffFound DEF Running
  <2>3. Running' = Running \ {c}
    BY <1>6, <2>1 DEF removeSession, Running
  <2>4. requestedSidQueue' = [requestedSidQueue EXCEPT ![c] = <<>>]
    BY <1>6, <2>1 DEF removeSession, TypeOK
  <2>5. toMcuQueue' = [toMcuQueue EXCEPT ![c] = <<>>]
    BY <1>6, <2>1 DEF removeSession, TypeOK
  <2>6. txQueue' = [txQueue EXCEPT ![c] = <<>>]
    BY <1>6, <2>1 DEF removeSession, TypeOK
  <2> QED
    BY <2>2, <2>3, <2>4, <2>5, <2>6 DEF Service!Leave
<1>7. Registered = Running
  <2>1. ASSUME NEW c \in Registered PROVE c \in Running
    BY RegisteredRuns DEF SessionInv, Running
  <2>2. ASSUME NEW c \in Running PROVE c \in Registered
    BY RunningIffFound, ConnAssumption DEF Running, Registered, findSession
  <2> QED
    BY <2>1, <2>2
<1>8. ASSUME NEW c \in Conns, popNextMcuFrame(c) PROVE Service!Forward(c)
  <2>1. Running' = Running
    BY <1>8 DEF popNextMcuFrame, Running
  <2> QED
    BY <1>7, <1>8, <2>1 DEF popNextMcuFrame, FirstWithFrame, Service!Forward
<1>9. ASSUME NEW c \in Conns, txLoopSends(c) PROVE Service!Receive(c)
  <2>1. Running' = Running /\ c \in Running
    BY <1>9 DEF txLoopSends, Running
  <2> QED
    BY <1>9, <2>1 DEF txLoopSends, Service!Receive
<1>10. ASSUME NEW c \in Conns, NEW b \in BOOLEAN, setBlocked(c, b)
       PROVE  UNCHANGED Service!vars
  BY <1>10 DEF setBlocked, Running, Service!vars
<1>11. ASSUME NEW f \in Frame, broadcast(f) PROVE Service!Inform(Registered, f)
  <2>1. Running' = Running
    BY <1>11 DEF broadcast, Running
  <2> QED
    BY <1>7, <1>11, <2>1 DEF broadcast, Service!Inform
<1>12. ASSUME NEW f \in Frame, routeUartRxBySid(f) PROVE Service!Reply(Receivers(f), f)
  <2>1. Running' = Running
    BY <1>12 DEF routeUartRxBySid, Running
  <2>2. \A c \in Receivers(f) : /\ c \in Running
                                /\ requestedSidQueue[c] # <<>>
                                /\ Head(requestedSidQueue[c]) = f.sid
    BY <1>7 DEF Receivers, Expects
  <2> QED
    BY <1>12, <2>1, <2>2 DEF routeUartRxBySid, Service!Reply
<1>13. ASSUME NEW k \in Cids, NEW f \in Frame, sendToSession(k, f)
       PROVE  Service!Inform({findSession(k)}, f)
  <2>1. Running' = Running
    BY <1>13 DEF sendToSession, Running
  <2>2. findSession(k) \in Running
    BY <1>7, <1>13 DEF sendToSession, Registered, findSession
  <2>3. txQueue' = [c \in Conns |-> IF c \in {findSession(k)} THEN Append(txQueue[c], f)
                                                            ELSE txQueue[c]]
    BY <1>13, <2>2 DEF sendToSession, TypeOK, Running
  <2> QED
    BY <1>13, <2>1, <2>2, <2>3 DEF sendToSession, Service!Inform
<1>14. CASE UNCHANGED smVars
  BY <1>14 DEF smVars, Running, Service!vars
<1>15. Registered \in SUBSET Conns /\ \A f \in Frame : Receivers(f) \in SUBSET Conns
  BY <1>7 DEF Running, Receivers
<1>16. \A k \in Cids : findSession(k) # NoConn => {findSession(k)} \in SUBSET Conns
  BY FindType
<1>17. ASSUME NEW f \in Frame, broadcast(f) \/ routeUartRxBySid(f) PROVE Service!ServiceNext
  BY <1>11, <1>12, <1>15, <1>17 DEF Service!ServiceNext
<1>18. ASSUME NEW k \in Cids, NEW f \in Frame, sendToSession(k, f) PROVE Service!ServiceNext
  BY <1>13, <1>16, <1>18 DEF Service!ServiceNext, sendToSession
<1>19. ASSUME NEW c \in Conns,
              \/ addSession(c) \/ removeSession(c) \/ popNextMcuFrame(c) \/ txLoopSends(c)
              \/ \E f \in Frame : forwardToMcu(c, f)
       PROVE  Service!ServiceNext \/ UNCHANGED Service!vars
  BY <1>3, <1>4, <1>6, <1>8, <1>9, <1>19 DEF Service!ServiceNext
<1> QED
  BY <1>1, <1>2, <1>5, <1>10, <1>14, <1>17, <1>18, <1>19 DEF Next

(* SessionManager implements SessionService: whatever connections share CIDs and  *)
(* however threads interleave, looking sessions up by CID is as good as giving     *)
(* each client its own.                                                         *)
THEOREM ServiceImplemented == Spec => ImplementsSessionService
<1>1. Init => Service!ServiceInit
  BY InitImplementsService
<1>2. TypeOK /\ SessionInv /\ [Next]_smVars => [Service!ServiceNext]_Service!vars
  BY StepImplementsService
<1> QED
  BY <1>1, <1>2, SessionInvariance, PTL DEF Spec, ImplementsSessionService, Service!ServiceSpec
=============================================================================
