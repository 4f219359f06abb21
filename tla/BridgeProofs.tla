----------------------------- MODULE BridgeProofs -----------------------------
(* The gateway as a whole implements the session table, so the theorems of    *)
(* SessionManagerProofs hold of it; and a session whose frames get through     *)
(* waits only for what is coming.                                             *)
EXTENDS Bridge, SessionManagerProofs, SequenceTheorems

-----------------------------------------------------------------------------
(* The frames that are made are frames. *)
LEMMA MadeFrames ==
  /\ \A c \in Conns, sid \in ClientSids :
        [sid |-> sid, cid |-> McuCid, from |-> c] \in Frame
  /\ \A sid \in MenuSids : [sid |-> sid, cid |-> MenuCid, from |-> NoConn] \in Frame
  /\ [sid |-> SERVICE_ADVERTISE, cid |-> McuCid, from |-> NoConn] \in Frame
  /\ \A f \in Frame : Answer(f) \in Frame
  BY FrameAssumption, RequestAssumption DEF Frame, Answer

LEMMA HeadTailFrame ==
  ASSUME NEW q \in Seq(Frame), q # <<>>
  PROVE  Head(q) \in Frame /\ Tail(q) \in Seq(Frame)
  OBVIOUS

(* Only clients can lose a request. *)
LEMMA DiagOriginsType ==
  ASSUME NEW q \in Seq(Frame)
  PROVE  DiagOrigins(q) \subseteq Conns
<1>1. \A i \in DOMAIN q : q[i] \in Frame
  OBVIOUS
<1>2. \A f \in Frame : f.from \in Conns \cup {NoConn}
  BY FrameAssumption DEF Frame
<1> QED
  BY <1>1, <1>2 DEF DiagOrigins, Range

-----------------------------------------------------------------------------
(* What a step does to the session table is a step of SessionManager. *)
LEMMA BridgeStepIsSessionStep ==
  ASSUME BridgeTypeOK, [BridgeNext]_bridgeVars
  PROVE  [Next]_smVars
<1>1. ASSUME NEW c \in Conns, Connect(c) PROVE Next
  BY <1>1 DEF Connect, Next
<1>2. ASSUME NEW c \in Conns, NEW sid \in ClientSids, rxLoop(c, sid) PROVE Next
  BY <1>2, MadeFrames DEF rxLoop, Next
<1>3. ASSUME NEW c \in Conns, Disconnect(c) PROVE Next
  BY <1>3 DEF Disconnect, Next
<1>4. ASSUME NEW c \in Conns, txLoop(c) PROVE Next
  BY <1>4 DEF txLoop, Next
<1>5. ASSUME txWorker PROVE [Next]_smVars
  BY <1>5 DEF txWorker, txWorkerPop, txWorkerWrite, txWorkerWriteFails, Next
<1>6. ASSUME NEW sid \in MenuSids, CommandService(sid) PROVE UNCHANGED smVars
  BY <1>6 DEF CommandService
<1>7. ASSUME Mcu \/ AppService_SendAdvertise \/ parseRejects PROVE UNCHANGED smVars
  BY <1>7 DEF Mcu, McuServes, McuDeclines, McuResets, McuDrops,
              AppService_SendAdvertise, parseRejects
<1>8. ASSUME rxWorker PROVE Next
  <2>1. Head(fromMcu) \in Frame
    BY <1>8, HeadTailFrame DEF rxWorker, BridgeTypeOK
  <2>2. TxRoom /\ (broadcast(Head(fromMcu)) \/ routeUartRxBySid(Head(fromMcu)))
    BY <1>8 DEF rxWorker, onFrame
  <2> QED
    BY <2>1, <2>2 DEF Next
<1>9. CASE UNCHANGED bridgeVars
  BY <1>9 DEF bridgeVars
<1> QED
  BY <1>1, <1>2, <1>3, <1>4, <1>5, <1>6, <1>7, <1>8, <1>9 DEF BridgeNext

-----------------------------------------------------------------------------
LEMMA InitBridgeTypeOK == BridgeInit => BridgeTypeOK
  BY InitTypeOK DEF BridgeInit, BridgeTypeOK

LEMMA NextBridgeTypeOK == BridgeTypeOK /\ [BridgeNext]_bridgeVars => BridgeTypeOK'
<1> SUFFICES ASSUME BridgeTypeOK, [BridgeNext]_bridgeVars PROVE BridgeTypeOK'
  OBVIOUS
<1> DEFINE WireOK == /\ uartTxFrame \in Seq(Frame) /\ Len(uartTxFrame) <= 1
                     /\ toMcu \in Seq(Frame)
                     /\ fromMcu \in Seq(Frame)
                     /\ lost \in SUBSET Conns
<1>1. TypeOK'
  BY BridgeStepIsSessionStep, NextTypeOK DEF BridgeTypeOK
<1>2. WireOK
  BY DEF BridgeTypeOK
<1>3. ASSUME NEW c \in Conns,
             Connect(c) \/ (\E sid \in ClientSids : rxLoop(c, sid)) \/ Disconnect(c) \/ txLoop(c)
      PROVE  WireOK'
  BY <1>2, <1>3 DEF Connect, rxLoop, Disconnect, txLoop, wire
<1>4. ASSUME NEW c \in Conns, txWorkerPop(c) PROVE WireOK'
  <2>1. toMcuQueue[c] \in Seq(Frame) /\ toMcuQueue[c] # <<>>
    BY <1>4 DEF txWorkerPop, popNextMcuFrame, FirstWithFrame, BridgeTypeOK, TypeOK
  <2>2. Head(toMcuQueue[c]) \in Frame
    BY <2>1, HeadTailFrame
  <2> QED
    BY <1>2, <1>4, <2>2 DEF txWorkerPop
<1>5. ASSUME txWorkerWrite PROVE WireOK'
  <2>1. toMcu \o uartTxFrame \in Seq(Frame)
    BY <1>2
  <2> QED
    BY <1>2, <1>5, <2>1 DEF txWorkerWrite
<1>6. ASSUME txWorkerWriteFails PROVE WireOK'
  BY <1>2, <1>6, DiagOriginsType DEF txWorkerWriteFails
<1>7. ASSUME NEW sid \in MenuSids, CommandService(sid) PROVE WireOK'
  <2>1. Append(toMcu, [sid |-> sid, cid |-> MenuCid, from |-> NoConn]) \in Seq(Frame)
    BY <1>2, MadeFrames
  <2> QED
    BY <1>2, <1>7, <2>1 DEF CommandService
<1>8. ASSUME McuServes PROVE WireOK'
  <2>1. Head(toMcu) \in Frame /\ Tail(toMcu) \in Seq(Frame)
    BY <1>2, <1>8, HeadTailFrame DEF McuServes
  <2>2. Append(fromMcu, Answer(Head(toMcu))) \in Seq(Frame)
    BY <1>2, <2>1, MadeFrames
  <2> QED
    BY <1>2, <1>8, <2>1, <2>2 DEF McuServes
<1>9. ASSUME McuDeclines \/ McuDrops PROVE WireOK'
  <2>1. toMcu # <<>> /\ toMcu' = Tail(toMcu) /\ UNCHANGED <<uartTxFrame, fromMcu>>
    BY <1>9 DEF McuDeclines, McuDrops
  <2>2. lost' = lost \cup DiagOrigins(<<Head(toMcu)>>)
    BY <1>9 DEF McuDeclines, McuDrops
  <2>3. <<Head(toMcu)>> \in Seq(Frame) /\ Tail(toMcu) \in Seq(Frame)
    BY <1>2, <2>1, HeadTailFrame
  <2> QED
    BY <1>2, <2>1, <2>2, <2>3, DiagOriginsType
<1>10. ASSUME McuResets PROVE WireOK'
  <2>1. PICK n \in 1 .. Len(toMcu) :
          /\ toMcu' = SubSeq(toMcu, n + 1, Len(toMcu))
          /\ lost' = lost \cup DiagOrigins(SubSeq(toMcu, 1, n))
    BY <1>10 DEF McuResets
  <2>2. SubSeq(toMcu, n + 1, Len(toMcu)) \in Seq(Frame) /\ SubSeq(toMcu, 1, n) \in Seq(Frame)
    BY <1>2
  <2> QED
    BY <1>2, <1>10, <2>1, <2>2, DiagOriginsType DEF McuResets
<1>11. ASSUME AppService_SendAdvertise PROVE WireOK'
  <2>1. Append(fromMcu, [sid |-> SERVICE_ADVERTISE, cid |-> McuCid, from |-> NoConn])
          \in Seq(Frame)
    BY <1>2, MadeFrames
  <2> QED
    BY <1>2, <1>11, <2>1 DEF AppService_SendAdvertise
<1>12. ASSUME rxWorker PROVE WireOK'
  BY <1>2, <1>12, HeadTailFrame DEF rxWorker
<1>13. ASSUME parseRejects PROVE WireOK'
  <2>1. <<Head(fromMcu)>> \in Seq(Frame) /\ Tail(fromMcu) \in Seq(Frame)
    BY <1>2, <1>13, HeadTailFrame DEF parseRejects
  <2> QED
    BY <1>2, <1>13, <2>1, DiagOriginsType DEF parseRejects
<1>14. ASSUME UNCHANGED bridgeVars PROVE WireOK'
  BY <1>2, <1>14 DEF bridgeVars, wire
<1>15. WireOK'
  BY <1>3, <1>4, <1>5, <1>6, <1>7, <1>8, <1>9, <1>10, <1>11, <1>12, <1>13, <1>14
     DEF BridgeNext, txWorker, Mcu
<1> QED
  BY <1>1, <1>15 DEF BridgeTypeOK

(* Every reachable state of the gateway is well-typed; in particular the UART  *)
(* tx thread never holds more than one frame and only clients are owed an      *)
(* answer.                                                                    *)
THEOREM BridgeTypeCorrect == BridgeSpec => []BridgeTypeOK
  BY InitBridgeTypeOK, NextBridgeTypeOK, PTL DEF BridgeSpec

(* The gateway, with its UART threads, the menu and the MCU around it,        *)
(* implements the session table.                                             *)
THEOREM BridgeImplementsSessionManager == BridgeSpec => Spec
<1>1. BridgeInit => Init
  BY DEF BridgeInit
<1>2. BridgeTypeOK /\ [BridgeNext]_bridgeVars => [Next]_smVars
  BY BridgeStepIsSessionStep
<1> QED
  BY <1>1, <1>2, BridgeTypeCorrect, PTL DEF BridgeSpec, Spec

(* In the whole gateway too, an rx thread only ever reaches its own session,  *)
(* a pending request only ends with its answer or its session, and a client   *)
(* sees the service that SessionService describes.                            *)
THEOREM BridgeKeepsSessions ==
  BridgeSpec => []RxThreadOwnsSession /\ PendingOnlyAnswered /\ ImplementsSessionService
  BY BridgeImplementsSessionManager, OwnSessionOnly, PendingAnsweredInOrder,
     ServiceImplemented, PTL

-----------------------------------------------------------------------------
(* Which requests are the last ones on the way                             *)

(* g takes the requests of c among the frames P to those among Q, in order. *)
Carries(c, P, Q, g) ==
    /\ g \in [1 .. Len(P) -> Int]
    /\ \A i \in 1 .. Len(P) : OwnRequest(c, P[i]) =>
          g[i] \in 1 .. Len(Q) /\ OwnRequest(c, Q[g[i]]) /\ Q[g[i]].sid = P[i].sid
    /\ \A i, j \in 1 .. Len(P) :
          OwnRequest(c, P[i]) /\ OwnRequest(c, P[j]) /\ i < j => g[i] < g[j]
    /\ \A q \in 1 .. Len(Q) : OwnRequest(c, Q[q]) =>
          \E i \in 1 .. Len(P) : OwnRequest(c, P[i]) /\ g[i] = q

(* The finder m of AreLastRequests. *)
Finds(c, w, P, m) ==
    /\ m \in [1 .. Len(w) -> 1 .. Len(P)]
    /\ \A i \in 1 .. Len(w) : OwnRequest(c, P[m[i]]) /\ P[m[i]].sid = w[i]
    /\ \A i, j \in 1 .. Len(w) : i < j => m[i] < m[j]
    /\ \A i \in 1 .. Len(w), p \in 1 .. Len(P) :
          m[i] <= p /\ OwnRequest(c, P[p]) => \E j \in 1 .. Len(w) : m[j] = p

LEMMA FindsIs ==
  ASSUME NEW c, NEW w, NEW P
  PROVE  AreLastRequests(c, w, P) <=> \E m : Finds(c, w, P, m)
  BY Zenon DEF AreLastRequests, Finds

LEMMA Carried ==
  ASSUME NEW c, NEW w \in Seq(Sids), NEW P \in Seq(Frame), NEW Q \in Seq(Frame),
         AreLastRequests(c, w, P), NEW g, Carries(c, P, Q, g)
  PROVE  AreLastRequests(c, w, Q)
<1>1. PICK m : Finds(c, w, P, m)
  BY FindsIs
<1>0. PICK k \in Nat : k = Len(w)
  OBVIOUS
<1> DEFINE n == [i \in 1 .. k |-> g[m[i]]]
<1>2. \A i \in 1 .. k : m[i] \in 1 .. Len(P) /\ OwnRequest(c, P[m[i]]) /\ P[m[i]].sid = w[i]
  BY <1>0, <1>1 DEF Finds
<1>3. \A i \in 1 .. k : /\ n[i] \in 1 .. Len(Q) /\ n[i] = g[m[i]]
                        /\ OwnRequest(c, Q[n[i]]) /\ Q[n[i]].sid = w[i]
  BY <1>2 DEF Carries
<1>4. n \in [1 .. k -> 1 .. Len(Q)]
  BY <1>3
<1>5. \A i, j \in 1 .. k : i < j => n[i] < n[j]
  <2> TAKE i, j \in 1 .. k
  <2> HAVE i < j
  <2>1. m[i] < m[j]
    BY <1>0, <1>1 DEF Finds
  <2> QED
    BY <1>2, <1>3, <2>1 DEF Carries
<1>6. ASSUME NEW i \in 1 .. k, NEW p \in 1 .. Len(Q), n[i] <= p, OwnRequest(c, Q[p])
      PROVE  \E j \in 1 .. k : n[j] = p
  <2>1. PICK l \in 1 .. Len(P) : OwnRequest(c, P[l]) /\ g[l] = p
    BY <1>6 DEF Carries
  <2>2. m[i] <= l
    <3>1. ASSUME l < m[i] PROVE FALSE
      <4>1. g[l] < g[m[i]]
        BY <1>2, <2>1, <3>1 DEF Carries
      <4> QED
        BY <1>3, <1>6, <2>1, <4>1
    <3> QED
      BY <1>2, <3>1
  <2>3. PICK j \in 1 .. k : m[j] = l
    BY <1>0, <1>1, <2>1, <2>2 DEF Finds
  <2> QED
    BY <1>3, <2>1, <2>3
<1> HIDE DEF n
<1>7. Finds(c, w, Q, n)
  BY <1>0, <1>3, <1>4, <1>5, <1>6 DEF Finds
<1> QED
  BY <1>7, FindsIs

(* Nobody waits: nothing has to be there. *)
LEMMA NothingAwaited ==
  ASSUME NEW c, NEW P
  PROVE  AreLastRequests(c, <<>>, P)
<1> DEFINE m == [i \in 1 .. 0 |-> 0]
<1>1. Len(<<>>) = 0 /\ \A i \in 1 .. 0 : FALSE
  OBVIOUS
<1>2. m \in [1 .. 0 -> 1 .. Len(P)]
  BY <1>1
<1>3. Finds(c, <<>>, P, m)
  BY <1>1, <1>2 DEF Finds
<1> QED
  BY <1>3, FindsIs

(* The first frame goes, and it was none that c waits for. *)
LEMMA FirstGone ==
  ASSUME NEW c, NEW w \in Seq(Sids), NEW P \in Seq(Frame), P # <<>>, AreLastRequests(c, w, P),
         w # <<>> /\ OwnRequest(c, P[1]) => w[1] # P[1].sid
  PROVE  AreLastRequests(c, w, Tail(P))
<1>1. PICK m : Finds(c, w, P, m)
  BY FindsIs
<1>2. PICK k \in Nat : k = Len(w)
  OBVIOUS
<1>3. PICK l \in Nat : l + 1 = Len(P)
  OBVIOUS
<1>4. Len(Tail(P)) = l /\ \A i \in 1 .. l : Tail(P)[i] = P[i + 1]
  BY <1>3
<1>5. \A i \in 1 .. k : m[i] \in 1 .. l + 1 /\ OwnRequest(c, P[m[i]]) /\ P[m[i]].sid = w[i]
  BY <1>1, <1>2, <1>3 DEF Finds
<1>6. \A i \in 1 .. k : m[i] \in 2 .. l + 1
  <2> TAKE i \in 1 .. k
  <2>1. ASSUME m[i] = 1 PROVE FALSE
    <3>1. 1 \in 1 .. k /\ (1 < i => m[1] < m[i])
      BY <1>1, <1>2 DEF Finds
    <3>2. m[1] = 1
      BY <1>5, <2>1, <3>1
    <3>3. w # <<>> /\ OwnRequest(c, P[1]) /\ P[1].sid = w[1]
      BY <1>2, <1>5, <3>1, <3>2
    <3> QED
      BY <3>3
  <2> QED
    BY <1>5, <2>1
<1> DEFINE n == [i \in 1 .. k |-> m[i] - 1]
<1>7. \A i \in 1 .. k : /\ n[i] = m[i] - 1 /\ n[i] \in 1 .. l
                        /\ Tail(P)[n[i]] = P[m[i]]
  BY <1>4, <1>6
<1>8. n \in [1 .. k -> 1 .. l]
  BY <1>7
<1>9. \A i, j \in 1 .. k : i < j => n[i] < n[j]
  BY <1>1, <1>2, <1>5, <1>7 DEF Finds
<1>10. ASSUME NEW i \in 1 .. k, NEW p \in 1 .. l, n[i] <= p, OwnRequest(c, Tail(P)[p])
       PROVE  \E j \in 1 .. k : n[j] = p
  <2>1. p + 1 \in 1 .. Len(P) /\ m[i] <= p + 1 /\ OwnRequest(c, P[p + 1])
    BY <1>3, <1>4, <1>5, <1>7, <1>10
  <2>2. PICK j \in 1 .. k : m[j] = p + 1
    BY <1>1, <1>2, <2>1 DEF Finds
  <2> QED
    BY <1>7, <2>2
<1> HIDE DEF n
<1>11. Finds(c, w, Tail(P), n)
  BY <1>2, <1>4, <1>5, <1>7, <1>8, <1>9, <1>10 DEF Finds
<1> QED
  BY <1>11, FindsIs

(* The first frame goes, and c stops waiting for what it waited for first. *)
LEMMA FirstAnswered ==
  ASSUME NEW c, NEW w \in Seq(Sids), NEW P \in Seq(Frame), P # <<>>, w # <<>>,
         AreLastRequests(c, w, P)
  PROVE  AreLastRequests(c, Tail(w), Tail(P))
<1>1. PICK m : Finds(c, w, P, m)
  BY FindsIs
<1>2. PICK k \in Nat : k + 1 = Len(w)
  OBVIOUS
<1>3. PICK l \in Nat : l + 1 = Len(P)
  OBVIOUS
<1>4. /\ Len(Tail(P)) = l /\ \A i \in 1 .. l : Tail(P)[i] = P[i + 1]
      /\ Len(Tail(w)) = k /\ \A i \in 1 .. k : Tail(w)[i] = w[i + 1]
  BY <1>2, <1>3
<1>5. \A i \in 1 .. k + 1 : m[i] \in 1 .. l + 1 /\ OwnRequest(c, P[m[i]]) /\ P[m[i]].sid = w[i]
  BY <1>1, <1>2, <1>3 DEF Finds
<1>6. \A i, j \in 1 .. k + 1 : i < j => m[i] < m[j]
  BY <1>1, <1>2 DEF Finds
<1>7. \A i \in 1 .. k : i + 1 \in 1 .. k + 1 /\ m[i + 1] \in 2 .. l + 1
  <2> TAKE i \in 1 .. k
  <2>1. i + 1 \in 1 .. k + 1 /\ 1 \in 1 .. k + 1 /\ 1 < i + 1
    OBVIOUS
  <2>2. m[1] < m[i + 1] /\ m[1] \in 1 .. l + 1 /\ m[i + 1] \in 1 .. l + 1
    BY <1>5, <1>6, <2>1
  <2> QED
    BY <2>1, <2>2
<1> DEFINE n == [i \in 1 .. k |-> m[i + 1] - 1]
<1>8. \A i \in 1 .. k : /\ n[i] = m[i + 1] - 1 /\ n[i] \in 1 .. l
                        /\ Tail(P)[n[i]] = P[m[i + 1]]
  BY <1>4, <1>7
<1>9. n \in [1 .. k -> 1 .. l]
  BY <1>8
<1> HIDE DEF n
<1>10. \A i, j \in 1 .. k : i < j => n[i] < n[j]
  <2> TAKE i, j \in 1 .. k
  <2> HAVE i < j
  <2>1. i + 1 \in 1 .. k + 1 /\ j + 1 \in 1 .. k + 1 /\ i + 1 < j + 1
    OBVIOUS
  <2>2. m[i + 1] < m[j + 1]
    BY <1>6, <2>1
  <2> QED
    BY <1>7, <1>8, <2>2
<1>11. ASSUME NEW i \in 1 .. k, NEW p \in 1 .. l, n[i] <= p, OwnRequest(c, Tail(P)[p])
       PROVE  \E j \in 1 .. k : n[j] = p
  <2>1. p + 1 \in 1 .. Len(P) /\ m[i + 1] <= p + 1 /\ OwnRequest(c, P[p + 1])
    BY <1>3, <1>4, <1>7, <1>8, <1>11
  <2>2. PICK j \in 1 .. k + 1 : m[j] = p + 1
    BY <1>1, <1>2, <1>7, <2>1 DEF Finds
  <2>3. j # 1
    <3>1. 1 < i + 1 /\ 1 \in 1 .. k + 1 /\ m[1] < m[i + 1]
      BY <1>6, <1>7
    <3> QED
      BY <1>5, <1>7, <2>1, <2>2, <3>1
  <2>4. PICK h \in 1 .. k : h + 1 = j
    <3>1. j - 1 \in 1 .. k /\ j - 1 + 1 = j
      BY <2>3
    <3> QED
      BY <3>1
  <2>5. n[h] = m[h + 1] - 1
    BY <1>8
  <2> QED
    BY <2>2, <2>4, <2>5
<1>12. \A i \in 1 .. k : OwnRequest(c, Tail(P)[n[i]]) /\ Tail(P)[n[i]].sid = Tail(w)[i]
  <2> TAKE i \in 1 .. k
  <2>1. i + 1 \in 1 .. k + 1 /\ Tail(P)[n[i]] = P[m[i + 1]] /\ Tail(w)[i] = w[i + 1]
    BY <1>4, <1>7, <1>8
  <2> QED
    BY <1>5, <2>1
<1>13. Finds(c, Tail(w), Tail(P), n)
  BY <1>4, <1>9, <1>10, <1>11, <1>12 DEF Finds
<1> QED
  BY <1>13, FindsIs

(* c asks for one more. *)
LEMMA OneMoreRequest ==
  ASSUME NEW c, NEW w \in Seq(Sids), NEW P \in Seq(Frame), AreLastRequests(c, w, P),
         NEW f \in Frame, OwnRequest(c, f), f.sid \in Sids
  PROVE  AreLastRequests(c, Append(w, f.sid), Append(P, f))
<1>1. PICK m : Finds(c, w, P, m)
  BY FindsIs
<1>2. PICK k \in Nat : k = Len(w)
  OBVIOUS
<1>3. PICK l \in Nat : l = Len(P)
  OBVIOUS
<1> DEFINE v == Append(w, f.sid)
           Q == Append(P, f)
           n == [i \in 1 .. k + 1 |-> IF i = k + 1 THEN l + 1 ELSE m[i]]
<1>4. /\ Len(v) = k + 1 /\ v[k + 1] = f.sid /\ \A i \in 1 .. k : v[i] = w[i]
      /\ Len(Q) = l + 1 /\ Q[l + 1] = f /\ \A i \in 1 .. l : Q[i] = P[i]
  BY <1>2, <1>3
<1>5. /\ \A i \in 1 .. k : m[i] \in 1 .. l /\ OwnRequest(c, P[m[i]]) /\ P[m[i]].sid = w[i]
      /\ \A i, j \in 1 .. k : i < j => m[i] < m[j]
  BY <1>1, <1>2, <1>3 DEF Finds
<1> HIDE DEF v, Q
<1>6. /\ n[k + 1] = l + 1 /\ \A i \in 1 .. k : n[i] = m[i]
      /\ k + 1 \in 1 .. k + 1 /\ \A i \in 1 .. k : i \in 1 .. k + 1
      /\ \A i \in 1 .. k + 1 : i \in 1 .. k \/ i = k + 1
  OBVIOUS
<1>7. n \in [1 .. k + 1 -> 1 .. l + 1]
  BY <1>5
<1> HIDE DEF n
<1>8. \A i \in 1 .. k + 1 : OwnRequest(c, Q[n[i]]) /\ Q[n[i]].sid = v[i]
  <2>1. \A i \in 1 .. k : OwnRequest(c, Q[n[i]]) /\ Q[n[i]].sid = v[i]
    BY <1>4, <1>5, <1>6
  <2>2. OwnRequest(c, Q[n[k + 1]]) /\ Q[n[k + 1]].sid = v[k + 1]
    BY <1>4, <1>6
  <2> QED
    BY <1>6, <2>1, <2>2
<1>9. \A i, j \in 1 .. k + 1 : i < j => n[i] < n[j]
  <2> TAKE i, j \in 1 .. k + 1
  <2> HAVE i < j
  <2>1. i \in 1 .. k /\ n[i] = m[i] /\ m[i] \in 1 .. l
    <3>1. i \in 1 .. k
      OBVIOUS
    <3> QED
      BY <1>5, <1>6, <3>1
  <2>2. CASE j = k + 1
    BY <1>6, <2>1, <2>2
  <2>3. CASE j \in 1 .. k
    <3>1. m[i] < m[j] /\ n[j] = m[j]
      BY <1>5, <1>6, <2>1, <2>3
    <3> QED
      BY <2>1, <3>1
  <2> QED
    BY <1>6, <2>2, <2>3
<1>10. ASSUME NEW i \in 1 .. k + 1, NEW p \in 1 .. l + 1, n[i] <= p, OwnRequest(c, Q[p])
       PROVE  \E j \in 1 .. k + 1 : n[j] = p
  <2>1. CASE p = l + 1
    BY <1>6, <2>1
  <2>2. CASE p # l + 1
    <3>1. p \in 1 .. l /\ OwnRequest(c, P[p])
      BY <1>4, <1>10, <2>2
    <3>2. i \in 1 .. k
      BY <1>6, <1>10, <3>1
    <3>3. m[i] <= p
      BY <1>6, <1>10, <3>2
    <3>4. PICK j \in 1 .. k : m[j] = p
      BY <1>1, <1>2, <1>3, <3>1, <3>2, <3>3 DEF Finds
    <3> QED
      BY <1>6, <3>4
  <2> QED
    BY <2>1, <2>2
<1>11. Finds(c, v, Q, n)
  BY <1>4, <1>7, <1>8, <1>9, <1>10 DEF Finds
<1> QED
  BY <1>11, FindsIs DEF v, Q

-----------------------------------------------------------------------------
(* Frames put in and taken out                                             *)

LEMMA ThreeParts ==
  ASSUME NEW A \in Seq(Frame), NEW B \in Seq(Frame), NEW C \in Seq(Frame),
         NEW P, P = A \o B \o C
  PROVE  /\ P \in Seq(Frame) /\ Len(P) = Len(A) + Len(B) + Len(C)
         /\ \A i \in 1 .. Len(A) : P[i] = A[i]
         /\ \A i \in 1 .. Len(B) : P[Len(A) + i] = B[i]
         /\ \A i \in 1 .. Len(C) : P[Len(A) + Len(B) + i] = C[i]
<1>1. PICK R \in Seq(Frame) : R = A \o B
  <2>1. A \o B \in Seq(Frame)
    OBVIOUS
  <2> QED
    BY <2>1, Zenon
<1>2. /\ Len(R) = Len(A) + Len(B)
      /\ \A i \in 1 .. Len(A) : R[i] = A[i] /\ i \in 1 .. Len(R)
      /\ \A i \in 1 .. Len(B) : R[Len(A) + i] = B[i] /\ Len(A) + i \in 1 .. Len(R)
  BY <1>1
<1>3. /\ P = R \o C /\ P \in Seq(Frame) /\ Len(P) = Len(R) + Len(C)
      /\ \A i \in 1 .. Len(R) : P[i] = R[i]
      /\ \A i \in 1 .. Len(C) : P[Len(R) + i] = C[i]
  BY <1>1
<1> QED
  BY <1>2, <1>3

(* Position i of three parts of lengths a, b and e is in the first, the second or the third. *)
Inside(i, a, b, e) ==
    \/ i \in 1 .. a
    \/ \E j \in 1 .. b : i = a + j
    \/ \E j \in 1 .. e : i = a + b + j

LEMMA InOnePart ==
  ASSUME NEW a \in Nat, NEW b \in Nat, NEW e \in Nat, NEW i \in 1 .. a + b + e
  PROVE  Inside(i, a, b, e)
<1>1. CASE i <= a
  BY <1>1 DEF Inside
<1>2. CASE i > a /\ i <= a + b
  <2>1. i - a \in 1 .. b /\ i = a + (i - a)
    BY <1>2
  <2> QED
    BY <2>1 DEF Inside
<1>3. CASE i > a + b
  <2>1. i - (a + b) \in 1 .. e /\ i = a + b + (i - (a + b))
    BY <1>3
  <2> QED
    BY <2>1 DEF Inside
<1> QED
  BY <1>1, <1>2, <1>3

NoneOf(c, frames) == \A i \in 1 .. Len(frames) : ~OwnRequest(c, frames[i])

(* A request of c is in front of frames that are not, or behind them. *)
Outside(i, a, b, e) == i \in 1 .. a \/ \E j \in 1 .. e : i = a + b + j

LEMMA OwnPart ==
  ASSUME NEW c, NEW B, NEW P, NoneOf(c, B), NEW a \in Nat, NEW b \in Nat, NEW e \in Nat,
         b = Len(B), Len(P) = a + b + e, \A i \in 1 .. b : P[a + i] = B[i]
  PROVE  \A i \in 1 .. Len(P) : OwnRequest(c, P[i]) => Outside(i, a, b, e)
<1> SUFFICES ASSUME NEW i \in 1 .. Len(P), OwnRequest(c, P[i]) PROVE Outside(i, a, b, e)
  OBVIOUS
<1>1. ASSUME NEW j \in 1 .. b, i = a + j PROVE FALSE
  <2>1. P[i] = B[j]
    BY <1>1
  <2> QED
    BY <2>1, <1>1, Zenon DEF NoneOf
<1>2. Inside(i, a, b, e)
  BY InOnePart
<1> QED
  BY <1>1, <1>2 DEF Inside, Outside

(* What lies between A and C changes, and none of it is a request of c. *)
LEMMA OthersChange ==
  ASSUME NEW c, NEW w \in Seq(Sids), NEW A \in Seq(Frame), NEW B \in Seq(Frame),
         NEW C \in Seq(Frame), NEW D \in Seq(Frame), NEW P, NEW Q,
         P = A \o B \o C, Q = A \o D \o C, NoneOf(c, B), NoneOf(c, D),
         AreLastRequests(c, w, P)
  PROVE  AreLastRequests(c, w, Q)
<1>1. PICK a \in Nat : a = Len(A)
  OBVIOUS
<1>2. PICK b \in Nat : b = Len(B)
  OBVIOUS
<1>3. PICK d \in Nat : d = Len(D)
  OBVIOUS
<1>4. PICK e \in Nat : e = Len(C)
  OBVIOUS
<1>5. /\ P \in Seq(Frame) /\ Len(P) = a + b + e
      /\ \A i \in 1 .. a : P[i] = A[i]
      /\ \A i \in 1 .. b : P[a + i] = B[i]
      /\ \A i \in 1 .. e : P[a + b + i] = C[i]
  BY <1>1, <1>2, <1>4, ThreeParts
<1>6. /\ Q \in Seq(Frame) /\ Len(Q) = a + d + e
      /\ \A i \in 1 .. a : Q[i] = A[i]
      /\ \A i \in 1 .. d : Q[a + i] = D[i]
      /\ \A i \in 1 .. e : Q[a + d + i] = C[i]
  BY <1>1, <1>3, <1>4, ThreeParts
<1>7. \A i \in 1 .. Len(P) : OwnRequest(c, P[i]) => Outside(i, a, b, e)
  BY <1>2, <1>5, OwnPart
<1>8. \A i \in 1 .. Len(Q) : OwnRequest(c, Q[i]) => Outside(i, a, d, e)
  BY <1>3, <1>6, OwnPart
<1> DEFINE g == [i \in 1 .. Len(P) |-> IF i <= a THEN i ELSE i - b + d]
<1>9. /\ \A i \in 1 .. a : i \in 1 .. Len(P) /\ i \in 1 .. Len(Q) /\ g[i] = i
      /\ \A j \in 1 .. e : /\ a + b + j \in 1 .. Len(P) /\ a + d + j \in 1 .. Len(Q)
                           /\ g[a + b + j] = a + d + j
  BY <1>5, <1>6
<1>10. g \in [1 .. Len(P) -> Int]
  OBVIOUS
<1> HIDE DEF g
<1>11. \A i \in 1 .. Len(P) : OwnRequest(c, P[i]) =>
          g[i] \in 1 .. Len(Q) /\ Q[g[i]] = P[i]
  <2> TAKE i \in 1 .. Len(P)
  <2> HAVE OwnRequest(c, P[i])
  <2>1. CASE i \in 1 .. a
    BY <1>5, <1>6, <1>9, <2>1
  <2>2. ASSUME NEW j \in 1 .. e, i = a + b + j
        PROVE  g[i] \in 1 .. Len(Q) /\ Q[g[i]] = P[i]
    <3>1. g[i] = a + d + j /\ a + d + j \in 1 .. Len(Q) /\ P[i] = C[j]
      BY <1>5, <1>9, <2>2
    <3>2. Q[a + d + j] = C[j]
      BY <1>6
    <3> QED
      BY <3>1, <3>2
  <2> QED
    BY <1>7, <2>1, <2>2 DEF Outside
<1>12. \A i, j \in 1 .. Len(P) :
          OwnRequest(c, P[i]) /\ OwnRequest(c, P[j]) /\ i < j => g[i] < g[j]
  <2> TAKE i, j \in 1 .. Len(P)
  <2> HAVE OwnRequest(c, P[i]) /\ OwnRequest(c, P[j]) /\ i < j
  <2>1. CASE j \in 1 .. a
    <3>1. i \in 1 .. a
      BY <2>1
    <3> QED
      BY <1>9, <2>1, <3>1
  <2>2. ASSUME NEW l \in 1 .. e, j = a + b + l PROVE g[i] < g[j]
    <3>1. g[j] = a + d + l
      BY <1>9, <2>2
    <3>2. CASE i \in 1 .. a
      BY <1>9, <3>1, <3>2
    <3>3. ASSUME NEW h \in 1 .. e, i = a + b + h PROVE g[i] < g[j]
      <4>1. g[i] = a + d + h
        BY <1>9, <3>3
      <4> QED
        BY <2>2, <3>1, <3>3, <4>1
    <3> QED
      BY <1>7, <3>2, <3>3 DEF Outside
  <2> QED
    BY <1>7, <2>1, <2>2 DEF Outside
<1>13. \A q \in 1 .. Len(Q) : OwnRequest(c, Q[q]) =>
          \E i \in 1 .. Len(P) : OwnRequest(c, P[i]) /\ g[i] = q
  <2> TAKE q \in 1 .. Len(Q)
  <2> HAVE OwnRequest(c, Q[q])
  <2>1. CASE q \in 1 .. a
    BY <1>5, <1>6, <1>9, <2>1
  <2>2. ASSUME NEW j \in 1 .. e, q = a + d + j
        PROVE  \E i \in 1 .. Len(P) : OwnRequest(c, P[i]) /\ g[i] = q
    <3>1. a + b + j \in 1 .. Len(P) /\ g[a + b + j] = q
      BY <1>9, <2>2
    <3>2. P[a + b + j] = C[j] /\ Q[q] = C[j]
      BY <1>5, <1>6, <2>2
    <3> QED
      BY <3>1, <3>2
  <2> QED
    BY <1>8, <2>1, <2>2 DEF Outside
<1>14. Carries(c, P, Q, g)
  BY <1>10, <1>11, <1>12, <1>13 DEF Carries
<1> QED
  BY <1>5, <1>6, <1>14, Carried

(* A request becomes its answer. *)
LEMMA RequestBecomesAnswer ==
  ASSUME NEW c, NEW w \in Seq(Sids), NEW A \in Seq(Frame), NEW C \in Seq(Frame),
         NEW f \in Frame, NEW P, NEW Q, P = A \o <<f>> \o C, Q = A \o <<Answer(f)>> \o C,
         AreLastRequests(c, w, P)
  PROVE  AreLastRequests(c, w, Q)
<1>1. <<f>> \in Seq(Frame) /\ <<Answer(f)>> \in Seq(Frame) /\ Len(<<f>>) = 1 /\ Len(<<Answer(f)>>) = 1
  BY MadeFrames
<1>2. PICK a \in Nat : a = Len(A)
  OBVIOUS
<1>3. PICK e \in Nat : e = Len(C)
  OBVIOUS
<1>4. /\ P \in Seq(Frame) /\ Len(P) = a + 1 + e
      /\ \A i \in 1 .. a : P[i] = A[i]
      /\ \A i \in 1 .. 1 : P[a + i] = <<f>>[i]
      /\ \A i \in 1 .. e : P[a + 1 + i] = C[i]
  BY <1>1, <1>2, <1>3, ThreeParts
<1>5. /\ Q \in Seq(Frame) /\ Len(Q) = a + 1 + e
      /\ \A i \in 1 .. a : Q[i] = A[i]
      /\ \A i \in 1 .. 1 : Q[a + i] = <<Answer(f)>>[i]
      /\ \A i \in 1 .. e : Q[a + 1 + i] = C[i]
  BY <1>1, <1>2, <1>3, ThreeParts
<1>6. Answer(f).sid = f.sid /\ Answer(f).from = f.from
  BY DEF Answer
<1>7. \A i \in 1 .. Len(P) : (Q[i] = P[i]) \/ (P[i] = f /\ Q[i] = Answer(f))
  <2> TAKE i \in 1 .. Len(P)
  <2>1. Inside(i, a, 1, e)
    BY <1>4, InOnePart
  <2> QED
    BY <1>4, <1>5, <2>1 DEF Inside
<1>8. \A i \in 1 .. Len(P) : Q[i].sid = P[i].sid /\ (OwnRequest(c, Q[i]) <=> OwnRequest(c, P[i]))
  BY <1>6, <1>7 DEF OwnRequest
<1> DEFINE g == [i \in 1 .. Len(P) |-> i]
<1>9. g \in [1 .. Len(P) -> Int] /\ \A i \in 1 .. Len(P) : g[i] = i
  OBVIOUS
<1> HIDE DEF g
<1>10. Len(Q) = Len(P)
  BY <1>4, <1>5
<1>11. \A i \in 1 .. Len(P) : OwnRequest(c, P[i]) =>
          g[i] \in 1 .. Len(Q) /\ OwnRequest(c, Q[g[i]]) /\ Q[g[i]].sid = P[i].sid
  BY <1>8, <1>9, <1>10
<1>12. \A i, j \in 1 .. Len(P) :
          OwnRequest(c, P[i]) /\ OwnRequest(c, P[j]) /\ i < j => g[i] < g[j]
  BY <1>9
<1>13. \A q \in 1 .. Len(Q) : OwnRequest(c, Q[q]) =>
          \E i \in 1 .. Len(P) : OwnRequest(c, P[i]) /\ g[i] = q
  BY <1>8, <1>9, <1>10
<1>14. Carries(c, P, Q, g)
  BY <1>9, <1>11, <1>12, <1>13, Zenon DEF Carries
<1> QED
  BY <1>4, <1>5, <1>14, Carried

-----------------------------------------------------------------------------
(* The four parts of a path, split elsewhere                               *)

LEMMA Glued == \A s, t \in Seq(Frame) : s \o t \in Seq(Frame)
  BY ConcatProperties

LEMMA GluedNothing == \A s \in Seq(Frame) : s \o <<>> = s
  BY ConcatEmptySeq

Associates(s, t, u) == (s \o t) \o u = s \o (t \o u)

LEMMA GluedThree == \A s, t, u \in Seq(Frame) : Associates(s, t, u)
  BY ConcatAssociative DEF Associates

(* The first part, or the second, is split in two. *)
Splits(X, Y, Z, U, V) ==
    /\ (X \o Y) \o Z \o U \o V = X \o Y \o (Z \o U \o V)
    /\ X \o (Y \o Z) \o U \o V = X \o Y \o (Z \o U \o V)

LEMMA SplitParts ==
  ASSUME NEW X \in Seq(Frame), NEW Y \in Seq(Frame), NEW Z \in Seq(Frame),
         NEW U \in Seq(Frame), NEW V \in Seq(Frame)
  PROVE  Splits(X, Y, Z, U, V)
<1>1. PICK XY \in Seq(Frame) : XY = X \o Y
  BY Glued
<1>2. PICK ZU \in Seq(Frame) : ZU = Z \o U
  BY Glued
<1>3. Associates(XY, Z, U) /\ Associates(XY, ZU, V) /\ Associates(X, Y, Z)
  BY GluedThree, Zenon
<1> QED
  BY <1>1, <1>2, <1>3 DEF Associates, Splits

(* What the third part held has moved to the end of the second. *)
LEMMA MoveParts ==
  ASSUME NEW X \in Seq(Frame), NEW Y \in Seq(Frame), NEW Z \in Seq(Frame), NEW U \in Seq(Frame)
  PROVE  X \o (Y \o Z) \o <<>> \o U = X \o Y \o Z \o U
<1>1. Associates(X, Y, Z)
  BY GluedThree, Zenon
<1>2. PICK R \in Seq(Frame) : R = X \o (Y \o Z)
  BY Glued
<1>3. R \o <<>> = R
  BY GluedNothing, Zenon
<1> QED
  BY <1>1, <1>2, <1>3 DEF Associates

LEMMA HeadAndTail ==
  ASSUME NEW S, NEW s \in Seq(S), s # <<>>
  PROVE  /\ s = <<Head(s)>> \o Tail(s) /\ s[1] = Head(s) /\ Head(s) \in S
         /\ <<Head(s)>> \in Seq(S) /\ Tail(s) \in Seq(S)
<1>1. Head(s) \in S /\ Tail(s) \in Seq(S) /\ <<Head(s)>> \in Seq(S) /\ s[1] = Head(s)
  OBVIOUS
<1>2. s = <<Head(s)>> \o Tail(s)
  <2>1. 1 \in 1 .. Len(s) /\ Len(s) \in 1 .. Len(s)
    OBVIOUS
  <2>2. SubSeq(s, 1, Len(s)) = <<s[1]>> \o SubSeq(s, 1 + 1, Len(s))
    BY <2>1, SubSeqRecursiveFirst
  <2>3. SubSeq(s, 1, Len(s)) = s /\ Tail(s) = SubSeq(s, 2, Len(s))
    BY SubSeqFull, TailIsSubSeq
  <2> QED
    BY <1>1, <2>2, <2>3
<1> QED
  BY <1>1, <1>2

(* The first frame of a path leaves it. *)
LEMMA TailOfPath ==
  ASSUME NEW X \in Seq(Frame), NEW Y \in Seq(Frame), NEW U \in Seq(Frame), NEW V \in Seq(Frame),
         X # <<>>, NEW P, P = X \o Y \o U \o V
  PROVE  P \in Seq(Frame) /\ P # <<>> /\ P[1] = Head(X) /\ Tail(P) = Tail(X) \o Y \o U \o V
<1>1. PICK h \in Frame : h = Head(X)
  BY HeadAndTail
<1>2. PICK T \in Seq(Frame) : T = Tail(X)
  BY HeadAndTail
<1>3. PICK H \in Seq(Frame) : H = <<h>>
  <2>1. <<h>> \in Seq(Frame)
    OBVIOUS
  <2> QED
    BY <2>1, Zenon
<1>4. X = H \o T
  BY <1>1, <1>2, <1>3, HeadAndTail
<1>5. PICK R \in Seq(Frame) : R = T \o Y \o U \o V
  BY Glued
<1>6. P = H \o R
  <2>1. PICK TY \in Seq(Frame) : TY = T \o Y
    BY Glued
  <2>2. PICK TYU \in Seq(Frame) : TYU = TY \o U
    BY Glued
  <2>3. Associates(H, T, Y) /\ Associates(H, TY, U) /\ Associates(H, TYU, V)
    BY GluedThree, Zenon
  <2> QED
    BY <1>4, <1>5, <2>1, <2>2, <2>3 DEF Associates
<1>7. P \in Seq(Frame) /\ P # <<>> /\ P[1] = h /\ Tail(P) = R
  <2>1. P \in Seq(Frame) /\ Len(P) = 1 + Len(R) /\ P[1] = h /\ \A i \in 1 .. Len(R) : P[1 + i] = R[i]
    <3>1. Len(H) = 1 /\ H[1] = h
      BY <1>3
    <3>2. /\ P \in Seq(Frame) /\ Len(P) = Len(H) + Len(R)
          /\ \A i \in 1 .. Len(H) + Len(R) : P[i] = IF i <= Len(H) THEN H[i] ELSE R[i - Len(H)]
      BY <1>6, ConcatProperties
    <3>3. \A i \in 1 .. Len(R) : P[1 + i] = R[i]
      BY <3>1, <3>2
    <3>4. P[1] = h
      <4>1. 1 \in 1 .. Len(H) + Len(R) /\ 1 <= Len(H)
        BY <3>1
      <4> QED
        BY <3>1, <3>2, <4>1
    <3>5. Len(P) = 1 + Len(R)
      BY <3>1, <3>2
    <3> QED
      BY <3>2, <3>3, <3>4, <3>5, Zenon
  <2>2. P # <<>>
    BY <2>1
  <2>3. Tail(P) \in Seq(Frame) /\ Len(Tail(P)) = Len(R) /\ \A i \in 1 .. Len(R) : Tail(P)[i] = R[i]
    BY <2>1, <2>2
  <2>4. Tail(P) = R
    BY <2>3, SeqEqual
  <2> QED
    BY <2>1, <2>2, <2>4
<1> QED
  BY <1>1, <1>2, <1>5, <1>7

-----------------------------------------------------------------------------
(* The inductive invariant                                                 *)

Awaits(c) == AreLastRequests(c, requestedSidQueue[c], Path(c))

(* Sessions that have ended wait for nothing, so theirs need no exception. *)
AwaitInv == \A c \in Conns \ lost : Awaits(c)

(* Nothing in the gateway blocks a session. *)
OpenInv == \A c \in Conns : ~isBlocked[c]

(* A session's queue for the MCU holds what its own client sent. *)
OwnQueueInv == \A c \in Conns : \A i \in 1 .. Len(toMcuQueue[c]) : toMcuQueue[c][i].from = c

BridgeInv == BridgeTypeOK /\ SessionInv /\ OpenInv /\ OwnQueueInv /\ AwaitInv

LEMMA PathType ==
  ASSUME BridgeTypeOK, NEW c \in Conns
  PROVE  /\ requestedSidQueue[c] \in Seq(Sids) /\ toMcuQueue[c] \in Seq(Frame)
         /\ fromMcu \in Seq(Frame) /\ toMcu \in Seq(Frame) /\ uartTxFrame \in Seq(Frame)
         /\ Path(c) \in Seq(Frame) /\ c # NoConn
<1>1. /\ requestedSidQueue[c] \in Seq(Sids) /\ toMcuQueue[c] \in Seq(Frame)
      /\ fromMcu \in Seq(Frame) /\ toMcu \in Seq(Frame) /\ uartTxFrame \in Seq(Frame)
  BY DEF BridgeTypeOK, TypeOK
<1>2. PICK R \in Seq(Frame) : R = fromMcu \o toMcu
  BY <1>1, Glued
<1>3. PICK T \in Seq(Frame) : T = R \o uartTxFrame
  BY <1>1, Glued
<1>4. T \o toMcuQueue[c] \in Seq(Frame)
  BY <1>1, Glued
<1>5. c # NoConn
  BY ConnAssumption
<1> QED
  BY <1>1, <1>2, <1>3, <1>4, <1>5 DEF Path

(* Frames whose loss does not cost c an answer are not its requests. *)
LEMMA OthersLost ==
  ASSUME NEW c, c # NoConn, NEW q \in Seq(Frame), c \notin DiagOrigins(q)
  PROVE  NoneOf(c, q)
<1>1. \A i \in 1 .. Len(q) : q[i] \in Range(q)
  BY DEF Range
<1> QED
  BY <1>1 DEF DiagOrigins, NoneOf, OwnRequest

LEMMA NoneOfNothing == \A c : NoneOf(c, <<>>)
  BY DEF NoneOf

LEMMA NoneOfOne ==
  ASSUME NEW c, NEW f, ~OwnRequest(c, f)
  PROVE  NoneOf(c, <<f>>)
  BY DEF NoneOf

LEMMA SamePath ==
  ASSUME NEW c, Awaits(c), requestedSidQueue'[c] = requestedSidQueue[c], Path(c)' = Path(c)
  PROVE  Awaits(c)'
  BY DEF Awaits

(* What lies between A and C on the path of c has changed, and none of it is a request of c. *)
LEMMA OthersPath ==
  ASSUME NEW c \in Conns, BridgeTypeOK, Awaits(c), requestedSidQueue'[c] = requestedSidQueue[c],
         NEW A \in Seq(Frame), NEW B \in Seq(Frame), NEW C \in Seq(Frame), NEW D \in Seq(Frame),
         Path(c) = A \o B \o C, Path(c)' = A \o D \o C, NoneOf(c, B), NoneOf(c, D)
  PROVE  Awaits(c)'
<1>1. PICK w \in Seq(Sids) : w = requestedSidQueue[c]
  BY PathType
<1>2. PICK P : P = Path(c)
  OBVIOUS
<1>3. PICK Q : Q = Path(c)'
  OBVIOUS
<1>4. AreLastRequests(c, w, P) /\ P = A \o B \o C /\ Q = A \o D \o C
  BY <1>1, <1>2, <1>3 DEF Awaits
<1>5. AreLastRequests(c, w, Q)
  BY <1>4, OthersChange
<1> QED
  BY <1>1, <1>3, <1>5 DEF Awaits

-----------------------------------------------------------------------------
(* The clients' steps                                                      *)

LEMMA ConnectAwaits ==
  ASSUME NEW c \in Conns, Awaits(c), NEW d \in Conns, Connect(d) \/ txLoop(d)
  PROVE  Awaits(c)'
<1>1. UNCHANGED <<requestedSidQueue, toMcuQueue, fromMcu, toMcu, uartTxFrame>>
  BY DEF Connect, txLoop, wire, acceptLoop, registrationFails, addSession, rxLoopBreaks, txLoopSends
<1> QED
  BY <1>1 DEF Awaits, Path

LEMMA DisconnectAwaits ==
  ASSUME BridgeTypeOK, SessionInv, NEW c \in Conns, c \in lost \/ Awaits(c), NEW d \in Conns,
         Disconnect(d), c \notin lost'
  PROVE  Awaits(c)'
<1>1. findSession(CidOf[d]) = d
  BY DEF Disconnect, removeSession, SessionInv, RxThreadOwnsSession
<1>2. CASE c = d
  <2>1. requestedSidQueue'[c] = <<>>
    BY <1>1, <1>2 DEF Disconnect, removeSession
  <2> QED
    BY <2>1, NothingAwaited DEF Awaits
<1>3. CASE c # d
  <2>1. requestedSidQueue'[c] = requestedSidQueue[c] /\ toMcuQueue'[c] = toMcuQueue[c]
    BY <1>1, <1>3 DEF Disconnect, removeSession
  <2>2. c \notin lost /\ UNCHANGED <<fromMcu, toMcu, uartTxFrame>>
    BY <1>3 DEF Disconnect, wire
  <2> QED
    BY <2>1, <2>2 DEF Awaits, Path
<1> QED
  BY <1>2, <1>3

LEMMA RequestAwaits ==
  ASSUME BridgeTypeOK, SessionInv, NEW c \in Conns, Awaits(c), NEW d \in Conns,
         NEW sid \in ClientSids, rxLoop(d, sid)
  PROVE  Awaits(c)'
<1>1. findSession(CidOf[d]) = d /\ d # NoConn
  BY ConnAssumption DEF rxLoop, forwardToMcu, SessionInv, RxThreadOwnsSession
<1>2. PICK f \in Frame : f = [sid |-> sid, cid |-> McuCid, from |-> d]
  BY MadeFrames
<1>3. /\ requestedSidQueue' = IF isDiagSid(f.sid)
                              THEN [requestedSidQueue EXCEPT ![d] = Append(@, f.sid)]
                              ELSE requestedSidQueue
      /\ toMcuQueue' = [toMcuQueue EXCEPT ![d] = Append(@, f)]
      /\ UNCHANGED <<fromMcu, toMcu, uartTxFrame>>
  BY <1>1, <1>2 DEF rxLoop, forwardToMcu, wire
<1>4. requestedSidQueue \in [Conns -> Seq(Sids)] /\ toMcuQueue \in [Conns -> Seq(Frame)]
  BY DEF BridgeTypeOK, TypeOK
<1>5. CASE c # d
  <2>1. requestedSidQueue'[c] = requestedSidQueue[c] /\ toMcuQueue'[c] = toMcuQueue[c]
    BY <1>3, <1>4, <1>5
  <2> QED
    BY <1>3, <2>1 DEF Awaits, Path
<1>6. CASE c = d
  <2>1. PICK w \in Seq(Sids) : w = requestedSidQueue[c]
    BY PathType
  <2>2. PICK P \in Seq(Frame) : P = Path(c)
    BY PathType
  <2>3. PICK R \in Seq(Frame) : R = fromMcu \o toMcu \o uartTxFrame
    BY PathType, Glued
  <2>4. Path(c)' = Append(P, f)
    <3>1. PICK q \in Seq(Frame) : q = toMcuQueue[c]
      BY PathType
    <3>2. Path(c)' = R \o Append(q, f) /\ P = R \o q
      BY <1>3, <1>4, <1>6, <2>2, <2>3, <3>1 DEF Path
    <3>3. PICK F \in Seq(Frame) : F = <<f>>
      <4>1. <<f>> \in Seq(Frame)
        OBVIOUS
      <4> QED
        BY <4>1, Zenon
    <3>4. Append(q, f) = q \o F /\ Append(P, f) = P \o F
      BY <3>3, AppendIsConcat
    <3>5. Associates(R, q, F)
      BY GluedThree, Zenon
    <3> QED
      BY <3>2, <3>4, <3>5 DEF Associates
  <2>5. AreLastRequests(c, w, P)
    BY <2>1, <2>2 DEF Awaits
  <2>6. CASE isDiagSid(f.sid)
    <3>1. requestedSidQueue'[c] = Append(w, f.sid)
      BY <1>3, <1>4, <1>6, <2>1, <2>6
    <3>2. OwnRequest(c, f) /\ f.sid \in Sids
      BY <1>2, <1>6, <2>6, RequestAssumption DEF OwnRequest
    <3>3. AreLastRequests(c, Append(w, f.sid), Append(P, f))
      BY <2>5, <3>2, OneMoreRequest
    <3> QED
      BY <2>4, <3>1, <3>3 DEF Awaits
  <2>7. CASE ~isDiagSid(f.sid)
    <3>1. requestedSidQueue'[c] = requestedSidQueue[c]
      BY <1>3, <2>7
    <3>2. NoneOf(c, <<f>>) /\ NoneOf(c, <<>>)
      BY <2>7, NoneOfOne, NoneOfNothing DEF OwnRequest
    <3>3. <<f>> \in Seq(Frame) /\ <<>> \in Seq(Frame)
      OBVIOUS
    <3>4. Path(c) = P \o <<>> \o <<>> /\ Path(c)' = P \o <<f>> \o <<>>
      <4>1. P \o <<>> = P
        BY GluedNothing
      <4>2. Append(P, f) = P \o <<f>> /\ Append(P, f) \in Seq(Frame)
        BY AppendIsConcat, AppendProperties
      <4>3. Append(P, f) \o <<>> = Append(P, f)
        BY <4>2, GluedNothing
      <4> QED
        BY <2>2, <2>4, <4>1, <4>2, <4>3
    <3> QED
      BY <3>1, <3>2, <3>3, <3>4, OthersPath
  <2> QED
    BY <2>6, <2>7
<1> QED
  BY <1>5, <1>6

-----------------------------------------------------------------------------
(* The steps of the UART threads, the menu and the MCU                     *)

LEMMA PopAwaits ==
  ASSUME BridgeTypeOK, OwnQueueInv, NEW c \in Conns, Awaits(c), NEW d \in Conns, txWorkerPop(d)
  PROVE  Awaits(c)'
<1>1. PICK q \in Seq(Frame) : q = toMcuQueue[d]
  BY PathType
<1>2. /\ uartTxFrame = <<>> /\ uartTxFrame' = <<Head(q)>> /\ q # <<>>
      /\ toMcuQueue' = [toMcuQueue EXCEPT ![d] = Tail(q)]
      /\ UNCHANGED <<requestedSidQueue, fromMcu, toMcu>>
  BY <1>1 DEF txWorkerPop, popNextMcuFrame, FirstWithFrame
<1>3. /\ q = <<Head(q)>> \o Tail(q) /\ q[1] = Head(q) /\ <<Head(q)>> \in Seq(Frame)
      /\ Tail(q) \in Seq(Frame) /\ Head(q) \in Frame
  BY <1>2, HeadAndTail
<1>4. toMcuQueue \in [Conns -> Seq(Frame)]
  BY DEF BridgeTypeOK, TypeOK
<1>5. PICK R \in Seq(Frame) : R = fromMcu \o toMcu
  BY PathType, Glued
<1>6. CASE c = d
  <2>1. Path(c)' = R \o <<Head(q)>> \o Tail(q) /\ Path(c) = R \o <<>> \o q
    BY <1>1, <1>2, <1>4, <1>5, <1>6 DEF Path
  <2>2. R \o <<>> = R
    BY GluedNothing
  <2>3. Associates(R, <<Head(q)>>, Tail(q))
    BY <1>3, GluedThree, Zenon
  <2>4. Path(c)' = Path(c)
    BY <1>3, <2>1, <2>2, <2>3 DEF Associates
  <2> QED
    BY <1>2, <2>4, SamePath
<1>7. CASE c # d
  <2>1. PICK C \in Seq(Frame) : C = toMcuQueue[c]
    BY PathType
  <2>2. Path(c) = R \o <<>> \o C /\ Path(c)' = R \o <<Head(q)>> \o C
    BY <1>2, <1>4, <1>5, <1>7, <2>1 DEF Path
  <2>3. Head(q).from = d
    BY <1>1, <1>2, <1>3 DEF OwnQueueInv
  <2>4. NoneOf(c, <<Head(q)>>) /\ NoneOf(c, <<>>) /\ <<>> \in Seq(Frame)
    BY <1>7, <2>3, NoneOfOne, NoneOfNothing DEF OwnRequest
  <2> QED
    BY <1>2, <1>3, <2>2, <2>4, OthersPath
<1> QED
  BY <1>6, <1>7

LEMMA WriteAwaits ==
  ASSUME BridgeTypeOK, NEW c \in Conns, Awaits(c), txWorkerWrite
  PROVE  Awaits(c)'
<1>1. /\ toMcu' = toMcu \o uartTxFrame /\ uartTxFrame' = <<>>
      /\ UNCHANGED <<requestedSidQueue, toMcuQueue, fromMcu>>
  BY DEF txWorkerWrite, smVars
<1>2. Path(c)' = Path(c)
  <2>1. PICK V \in Seq(Frame) : V = toMcuQueue[c]
    BY PathType
  <2>2. fromMcu \o (toMcu \o uartTxFrame) \o <<>> \o V = fromMcu \o toMcu \o uartTxFrame \o V
    <3>1. fromMcu \in Seq(Frame) /\ toMcu \in Seq(Frame) /\ uartTxFrame \in Seq(Frame)
      BY PathType
    <3>2. \A X, Y, Z, U \in Seq(Frame) : X \o (Y \o Z) \o <<>> \o U = X \o Y \o Z \o U
      BY MoveParts, Zenon
    <3> QED
      BY <3>1, <3>2
  <2> QED
    BY <1>1, <2>1, <2>2 DEF Path
<1> QED
  BY <1>1, <1>2, SamePath

LEMMA WriteFailsAwaits ==
  ASSUME BridgeTypeOK, NEW c \in Conns, Awaits(c), txWorkerWriteFails, c \notin lost'
  PROVE  Awaits(c)'
<1>1. /\ uartTxFrame' = <<>> /\ lost' = lost \cup DiagOrigins(uartTxFrame)
      /\ UNCHANGED <<requestedSidQueue, toMcuQueue, fromMcu, toMcu>>
  BY DEF txWorkerWriteFails, smVars
<1>2. NoneOf(c, uartTxFrame) /\ NoneOf(c, <<>>) /\ <<>> \in Seq(Frame)
  BY <1>1, OthersLost, NoneOfNothing, PathType
<1>3. PICK R \in Seq(Frame) : R = fromMcu \o toMcu
  BY PathType, Glued
<1>4. Path(c) = R \o uartTxFrame \o toMcuQueue[c] /\ Path(c)' = R \o <<>> \o toMcuQueue[c]
  BY <1>1, <1>3 DEF Path
<1> QED
  BY <1>1, <1>2, <1>4, OthersPath, PathType

(* A frame is put in at the end of the first or of the second part. *)
LEMMA PutIn ==
  ASSUME BridgeTypeOK, NEW c \in Conns, Awaits(c), NEW f \in Frame, ~OwnRequest(c, f),
         UNCHANGED <<requestedSidQueue, toMcuQueue, uartTxFrame>>,
         \/ toMcu' = Append(toMcu, f) /\ fromMcu' = fromMcu
         \/ fromMcu' = Append(fromMcu, f) /\ toMcu' = toMcu
  PROVE  Awaits(c)'
<1>1. PICK F \in Seq(Frame) : F = <<f>>
  <2>1. <<f>> \in Seq(Frame)
    OBVIOUS
  <2> QED
    BY <2>1, Zenon
<1>2. PICK N \in Seq(Frame) : N = <<>>
  <2>1. <<>> \in Seq(Frame)
    OBVIOUS
  <2> QED
    BY <2>1, Zenon
<1>3. NoneOf(c, F) /\ NoneOf(c, N)
  BY <1>1, <1>2, NoneOfOne, NoneOfNothing
<1>4. PICK X \in Seq(Frame) : X = fromMcu
  BY PathType
<1>5. PICK Y \in Seq(Frame) : Y = toMcu
  BY PathType
<1>6. PICK U \in Seq(Frame) : U = uartTxFrame
  BY PathType
<1>7. PICK V \in Seq(Frame) : V = toMcuQueue[c]
  BY PathType
<1>8. Path(c) = X \o Y \o U \o V
  BY <1>4, <1>5, <1>6, <1>7 DEF Path
<1>9. Append(X, f) = X \o F /\ Append(Y, f) = Y \o F /\ X \o N = X /\ Y \o N = Y
  BY <1>1, <1>2, AppendIsConcat, GluedNothing
<1>10. CASE toMcu' = Append(toMcu, f) /\ fromMcu' = fromMcu
  <2>1. Path(c)' = X \o (Y \o F) \o U \o V /\ Path(c) = X \o (Y \o N) \o U \o V
    BY <1>4, <1>5, <1>6, <1>7, <1>8, <1>9, <1>10 DEF Path
  <2>2. PICK A \in Seq(Frame) : A = X \o Y
    BY Glued
  <2>3. PICK C \in Seq(Frame) : C = U \o V
    BY Glued
  <2>4. A \o F \in Seq(Frame) /\ A \o N \in Seq(Frame)
    BY Glued
  <2>5. /\ Associates(X, Y, F) /\ Associates(X, Y, N)
        /\ Associates(A \o F, U, V) /\ Associates(A \o N, U, V)
    BY <2>4, GluedThree, Zenon
  <2>6. Path(c)' = A \o F \o C /\ Path(c) = A \o N \o C
    BY <2>1, <2>2, <2>3, <2>5 DEF Associates
  <2> QED
    BY <1>3, <2>6, OthersPath
<1>11. CASE fromMcu' = Append(fromMcu, f) /\ toMcu' = toMcu
  <2>1. Path(c)' = (X \o F) \o Y \o U \o V /\ Path(c) = (X \o N) \o Y \o U \o V
    BY <1>4, <1>5, <1>6, <1>7, <1>8, <1>9, <1>11 DEF Path
  <2>2. PICK C \in Seq(Frame) : C = Y \o U \o V
    BY Glued
  <2>3. Path(c)' = X \o F \o C /\ Path(c) = X \o N \o C
    <3>1. Splits(X, F, Y, U, V) /\ Splits(X, N, Y, U, V)
      BY SplitParts, Zenon
    <3> QED
      BY <2>1, <2>2, <3>1 DEF Splits
  <2> QED
    BY <1>3, <2>3, OthersPath
<1> QED
  BY <1>10, <1>11

(* Frames at the front of what is on its way to the MCU go. *)
LEMMA TakenOut ==
  ASSUME BridgeTypeOK, NEW c \in Conns, Awaits(c),
         UNCHANGED <<requestedSidQueue, toMcuQueue, uartTxFrame, fromMcu>>,
         NEW B \in Seq(Frame), NEW T \in Seq(Frame), toMcu = B \o T, toMcu' = T, NoneOf(c, B)
  PROVE  Awaits(c)'
<1>1. PICK N \in Seq(Frame) : N = <<>>
  <2>1. <<>> \in Seq(Frame)
    OBVIOUS
  <2> QED
    BY <2>1, Zenon
<1>2. PICK X \in Seq(Frame) : X = fromMcu
  BY PathType
<1>3. PICK U \in Seq(Frame) : U = uartTxFrame
  BY PathType
<1>4. PICK V \in Seq(Frame) : V = toMcuQueue[c]
  BY PathType
<1>5. PICK C \in Seq(Frame) : C = T \o U \o V
  BY Glued
<1>6. Path(c) = X \o B \o C
  <2>1. Path(c) = X \o (B \o T) \o U \o V
    BY <1>2, <1>3, <1>4 DEF Path
  <2>2. Splits(X, B, T, U, V)
    BY SplitParts, Zenon
  <2> QED
    BY <1>5, <2>1, <2>2 DEF Splits
<1>7. Path(c)' = X \o N \o C
  <2>1. Path(c)' = (X \o N) \o T \o U \o V
    <3>1. X \o N = X
      BY <1>1, GluedNothing
    <3> QED
      BY <1>2, <1>3, <1>4, <3>1 DEF Path
  <2>2. Splits(X, N, T, U, V)
    BY SplitParts, Zenon
  <2> QED
    BY <1>5, <2>1, <2>2 DEF Splits
<1>8. NoneOf(c, N)
  BY <1>1, NoneOfNothing
<1> QED
  BY <1>6, <1>7, <1>8, OthersPath

LEMMA MenuAwaits ==
  ASSUME BridgeTypeOK, NEW c \in Conns, Awaits(c), NEW sid \in MenuSids, CommandService(sid)
  PROVE  Awaits(c)'
<1>1. PICK f \in Frame : f = [sid |-> sid, cid |-> MenuCid, from |-> NoConn]
  BY MadeFrames
<1>2. ~OwnRequest(c, f)
  BY <1>1, PathType DEF OwnRequest
<1>3. toMcu' = Append(toMcu, f) /\ UNCHANGED <<requestedSidQueue, toMcuQueue, uartTxFrame, fromMcu>>
  BY <1>1 DEF CommandService, smVars
<1> QED
  BY <1>2, <1>3, PutIn

LEMMA AdvertiseAwaits ==
  ASSUME BridgeTypeOK, NEW c \in Conns, Awaits(c), AppService_SendAdvertise
  PROVE  Awaits(c)'
<1>1. PICK f \in Frame : f = [sid |-> SERVICE_ADVERTISE, cid |-> McuCid, from |-> NoConn]
  BY MadeFrames
<1>2. ~OwnRequest(c, f)
  BY <1>1, PathType DEF OwnRequest
<1>3. /\ fromMcu' = Append(fromMcu, f)
      /\ UNCHANGED <<requestedSidQueue, toMcuQueue, uartTxFrame, toMcu>>
  BY <1>1 DEF AppService_SendAdvertise, smVars
<1> QED
  BY <1>2, <1>3, PutIn

LEMMA ServesAwaits ==
  ASSUME BridgeTypeOK, NEW c \in Conns, Awaits(c), McuServes
  PROVE  Awaits(c)'
<1>1. /\ toMcu # <<>> /\ toMcu' = Tail(toMcu)
      /\ fromMcu' = IF isDiagSid(Head(toMcu).sid) THEN Append(fromMcu, Answer(Head(toMcu)))
                                                  ELSE fromMcu
      /\ UNCHANGED <<requestedSidQueue, toMcuQueue, uartTxFrame>>
  BY DEF McuServes, smVars
<1>2. PICK h \in Frame : h = Head(toMcu)
  BY <1>1, PathType, HeadAndTail
<1>3. PICK T \in Seq(Frame) : T = Tail(toMcu)
  BY <1>1, PathType, HeadAndTail
<1>4. toMcu = <<h>> \o T /\ <<h>> \in Seq(Frame)
  BY <1>1, <1>2, <1>3, PathType, HeadAndTail
<1>5. CASE ~isDiagSid(h.sid)
  <2>1. fromMcu' = fromMcu /\ toMcu' = T
    BY <1>1, <1>2, <1>3, <1>5
  <2>2. NoneOf(c, <<h>>)
    BY <1>5, NoneOfOne DEF OwnRequest
  <2> QED
    BY <1>1, <1>4, <2>1, <2>2, TakenOut
<1>6. CASE isDiagSid(h.sid)
  <2>1. PICK w \in Seq(Sids) : w = requestedSidQueue[c]
    BY PathType
  <2>2. PICK X \in Seq(Frame) : X = fromMcu
    BY PathType
  <2>3. PICK U \in Seq(Frame) : U = uartTxFrame
    BY PathType
  <2>4. PICK V \in Seq(Frame) : V = toMcuQueue[c]
    BY PathType
  <2>5. PICK C \in Seq(Frame) : C = T \o U \o V
    BY Glued
  <2>6. PICK G \in Seq(Frame) : G = <<Answer(h)>>
    <3>1. Answer(h) \in Frame
      BY MadeFrames
    <3>2. <<Answer(h)>> \in Seq(Frame)
      BY <3>1
    <3> QED
      BY <3>2, Zenon
  <2>7. Splits(X, <<h>>, T, U, V) /\ Splits(X, G, T, U, V)
    BY <1>4, SplitParts, Zenon
  <2>8. PICK P : P = Path(c)
    OBVIOUS
  <2>9. PICK Q : Q = Path(c)'
    OBVIOUS
  <2>10. P = X \o <<h>> \o C
    BY <1>4, <2>2, <2>3, <2>4, <2>5, <2>7, <2>8 DEF Path, Splits
  <2>11. Q = X \o <<Answer(h)>> \o C
    <3>1. Append(X, Answer(h)) = X \o G
      BY <2>6, AppendIsConcat, MadeFrames
    <3>2. fromMcu' = X \o G
      BY <1>1, <1>2, <1>6, <2>2, <3>1
    <3>3. Q = (X \o G) \o T \o U \o V
      BY <1>1, <1>3, <2>3, <2>4, <2>9, <3>2 DEF Path
    <3> QED
      BY <2>5, <2>6, <2>7, <3>3 DEF Splits
  <2>12. AreLastRequests(c, w, P)
    BY <2>1, <2>8 DEF Awaits
  <2>13. AreLastRequests(c, w, Q)
    BY <2>10, <2>11, <2>12, RequestBecomesAnswer
  <2> QED
    BY <1>1, <2>1, <2>9, <2>13 DEF Awaits
<1> QED
  BY <1>5, <1>6

LEMMA DropsAwaits ==
  ASSUME BridgeTypeOK, NEW c \in Conns, Awaits(c), McuDeclines \/ McuDrops, c \notin lost'
  PROVE  Awaits(c)'
<1>1. /\ toMcu # <<>> /\ toMcu' = Tail(toMcu) /\ lost' = lost \cup DiagOrigins(<<Head(toMcu)>>)
      /\ UNCHANGED <<requestedSidQueue, toMcuQueue, uartTxFrame, fromMcu>>
  BY DEF McuDeclines, McuDrops, smVars
<1>2. PICK B \in Seq(Frame) : B = <<Head(toMcu)>>
  BY <1>1, PathType, HeadAndTail
<1>3. PICK T \in Seq(Frame) : T = Tail(toMcu)
  BY <1>1, PathType, HeadAndTail
<1>4. toMcu = B \o T
  BY <1>1, <1>2, <1>3, PathType, HeadAndTail
<1>5. NoneOf(c, B)
  BY <1>1, <1>2, OthersLost, PathType
<1> QED
  BY <1>1, <1>3, <1>4, <1>5, TakenOut

LEMMA ResetAwaits ==
  ASSUME BridgeTypeOK, NEW c \in Conns, Awaits(c), McuResets, c \notin lost'
  PROVE  Awaits(c)'
<1>1. PICK n \in 1 .. Len(toMcu) : /\ toMcu' = SubSeq(toMcu, n + 1, Len(toMcu))
                                   /\ lost' = lost \cup DiagOrigins(SubSeq(toMcu, 1, n))
  BY DEF McuResets
<1>2. UNCHANGED <<requestedSidQueue, toMcuQueue, uartTxFrame, fromMcu>>
  BY DEF McuResets, smVars
<1>3. toMcu \in Seq(Frame)
  BY PathType
<1>4. SubSeq(toMcu, n + 1, Len(toMcu)) \in Seq(Frame) /\ SubSeq(toMcu, 1, n) \in Seq(Frame)
  BY <1>3
<1>5. PICK B \in Seq(Frame) : B = SubSeq(toMcu, 1, n)
  BY <1>4, Zenon
<1>6. PICK T \in Seq(Frame) : T = SubSeq(toMcu, n + 1, Len(toMcu))
  BY <1>4, Zenon
<1>7. toMcu = B \o T
  <2>1. /\ Len(toMcu) \in Nat /\ 1 \in 1 .. Len(toMcu) + 1 /\ n \in 1 - 1 .. Len(toMcu)
        /\ Len(toMcu) \in n .. Len(toMcu)
    BY <1>3
  <2>2. SubSeq(toMcu, 1, n) \o SubSeq(toMcu, n + 1, Len(toMcu)) = SubSeq(toMcu, 1, Len(toMcu))
    BY <1>3, <2>1, ConcatAdjacentSubSeq
  <2>3. SubSeq(toMcu, 1, Len(toMcu)) = toMcu
    BY <1>3, SubSeqFull
  <2> QED
    BY <1>5, <1>6, <2>2, <2>3
<1>8. NoneOf(c, B)
  BY <1>1, <1>5, OthersLost, PathType
<1> QED
  BY <1>1, <1>2, <1>6, <1>7, <1>8, TakenOut

(* A session that waits for an answer is in the table. *)
LEMMA WaitingIsRegistered ==
  ASSUME BridgeTypeOK, SessionInv, NEW c \in Conns, requestedSidQueue[c] # <<>>
  PROVE  c \in Registered
<1>1. TypeOK /\ transport[c] = "running"
  BY DEF BridgeTypeOK, SessionInv, ReconnectStartsFresh
<1>2. findSession(CidOf[c]) = c
  BY <1>1, RunningIffFound
<1> QED
  BY <1>2, CidInCids, ConnAssumption DEF Registered, findSession

LEMMA ArrivesAwaits ==
  ASSUME BridgeTypeOK, SessionInv, OpenInv, NEW c \in Conns, Awaits(c), rxWorker
  PROVE  Awaits(c)'
<1>1. /\ fromMcu # <<>> /\ fromMcu' = Tail(fromMcu) /\ onFrame(Head(fromMcu))
      /\ UNCHANGED <<uartTxFrame, toMcu>>
  BY DEF rxWorker
<1>2. PICK h \in Frame : h = Head(fromMcu)
  BY <1>1, PathType, HeadAndTail
<1>3. toMcuQueue' = toMcuQueue
  BY <1>1 DEF onFrame, broadcast, routeUartRxBySid
<1>4. PICK w \in Seq(Sids) : w = requestedSidQueue[c]
  BY PathType
<1>5. PICK P \in Seq(Frame) : P = Path(c)
  BY PathType
<1>6. AreLastRequests(c, w, P)
  BY <1>4, <1>5 DEF Awaits
<1>7. P # <<>> /\ P[1] = h /\ Path(c)' = Tail(P)
  <2>1. PICK V \in Seq(Frame) : V = toMcuQueue[c]
    BY PathType
  <2>2. fromMcu \in Seq(Frame) /\ toMcu \in Seq(Frame) /\ uartTxFrame \in Seq(Frame)
    BY PathType
  <2>3. P = fromMcu \o toMcu \o uartTxFrame \o V
    BY <1>5, <2>1 DEF Path
  <2>4. P # <<>> /\ P[1] = Head(fromMcu) /\ Tail(P) = Tail(fromMcu) \o toMcu \o uartTxFrame \o V
    <3>1. PICK X \in Seq(Frame) : X = fromMcu
      BY <2>2
    <3>2. PICK Y \in Seq(Frame) : Y = toMcu
      BY <2>2
    <3>3. PICK U \in Seq(Frame) : U = uartTxFrame
      BY <2>2
    <3>4. X # <<>> /\ P = X \o Y \o U \o V
      BY <1>1, <2>3, <3>1, <3>2, <3>3
    <3>5. P # <<>> /\ P[1] = Head(X) /\ Tail(P) = Tail(X) \o Y \o U \o V
      BY <3>4, TailOfPath
    <3> QED
      BY <3>1, <3>2, <3>3, <3>5
  <2> QED
    BY <1>1, <1>2, <1>3, <2>1, <2>4 DEF Path
<1>8. CASE requestedSidQueue'[c] = w /\ (w # <<>> /\ OwnRequest(c, h) => w[1] # h.sid)
  <2>1. AreLastRequests(c, w, Tail(P))
    BY <1>6, <1>7, <1>8, FirstGone
  <2> QED
    BY <1>7, <1>8, <2>1 DEF Awaits
<1>9. CASE w # <<>> /\ requestedSidQueue'[c] = Tail(w)
  <2>1. AreLastRequests(c, Tail(w), Tail(P))
    BY <1>6, <1>7, <1>9, FirstAnswered
  <2> QED
    BY <1>7, <1>9, <2>1 DEF Awaits
<1>10. CASE h.sid = SERVICE_ADVERTISE /\ broadcast(h)
  <2>1. ~OwnRequest(c, h) /\ requestedSidQueue'[c] = w
    BY <1>4, <1>10 DEF OwnRequest, isDiagSid, SERVICE_ADVERTISE, DIAG_SID_MIN, DIAG_SID_MAX, broadcast
  <2> QED
    BY <1>8, <2>1
<1>11. CASE routeUartRxBySid(h)
  <2>1. requestedSidQueue'[c] = IF c \in Receivers(h) THEN Tail(w) ELSE w
    BY <1>4, <1>11 DEF routeUartRxBySid
  <2>2. CASE c \in Receivers(h)
    BY <1>4, <1>9, <2>1, <2>2 DEF Receivers, Expects
  <2>3. CASE c \notin Receivers(h)
    <3>1. w # <<>> => w[1] # h.sid
      <4>1. ASSUME w # <<>> PROVE Head(w) # h.sid /\ w[1] = Head(w)
        <5>1. c \in Registered /\ ~isBlocked[c]
          BY <1>4, <4>1, WaitingIsRegistered DEF OpenInv
        <5> QED
          BY <1>4, <2>3, <4>1, <5>1 DEF Receivers, Expects
      <4> QED
        BY <4>1
    <3> QED
      BY <1>8, <2>1, <2>3, <3>1
  <2> QED
    BY <2>2, <2>3
<1> QED
  BY <1>1, <1>2, <1>10, <1>11 DEF onFrame

LEMMA RejectsAwaits ==
  ASSUME BridgeTypeOK, NEW c \in Conns, Awaits(c), parseRejects, c \notin lost'
  PROVE  Awaits(c)'
<1>1. /\ fromMcu # <<>> /\ fromMcu' = Tail(fromMcu)
      /\ lost' = lost \cup DiagOrigins(<<Head(fromMcu)>>)
      /\ UNCHANGED <<requestedSidQueue, toMcuQueue, uartTxFrame, toMcu>>
  BY DEF parseRejects, smVars
<1>2. PICK P \in Seq(Frame) : P = Path(c)
  BY PathType
<1>3. PICK V \in Seq(Frame) : V = toMcuQueue[c]
  BY PathType
<1>4. fromMcu \in Seq(Frame) /\ toMcu \in Seq(Frame) /\ uartTxFrame \in Seq(Frame)
  BY PathType
<1>5. P = fromMcu \o toMcu \o uartTxFrame \o V
  BY <1>2, <1>3 DEF Path
<1>6. P # <<>> /\ P[1] = Head(fromMcu) /\ Tail(P) = Tail(fromMcu) \o toMcu \o uartTxFrame \o V
  BY <1>1, <1>4, <1>5, TailOfPath
<1>7. Path(c)' = Tail(P)
  BY <1>1, <1>3, <1>6 DEF Path
<1>8. ~OwnRequest(c, P[1])
  <2>1. PICK B \in Seq(Frame) : B = <<Head(fromMcu)>>
    BY <1>1, <1>4, HeadAndTail
  <2>2. NoneOf(c, B)
    BY <1>1, <2>1, OthersLost, PathType
  <2>3. Len(B) = 1 /\ B[1] = Head(fromMcu)
    BY <2>1
  <2> QED
    BY <1>6, <2>2, <2>3 DEF NoneOf
<1>9. PICK w \in Seq(Sids) : w = requestedSidQueue[c]
  BY PathType
<1>10. AreLastRequests(c, w, Tail(P))
  BY <1>2, <1>6, <1>8, <1>9, FirstGone DEF Awaits
<1> QED
  BY <1>1, <1>7, <1>9, <1>10 DEF Awaits

-----------------------------------------------------------------------------
(* Every step keeps the invariant                                          *)

LEMMA NextOpenInv ==
  ASSUME BridgeTypeOK, OpenInv, [BridgeNext]_bridgeVars
  PROVE  OpenInv'
<1>1. CASE \E d \in Conns : Disconnect(d)
  BY <1>1 DEF OpenInv, Disconnect, removeSession
<1>2. CASE UNCHANGED isBlocked
  BY <1>2 DEF OpenInv
<1>3. ASSUME NEW d \in Conns, Connect(d) \/ txLoop(d) \/ txWorkerPop(d) PROVE UNCHANGED isBlocked
  BY <1>3 DEF Connect, acceptLoop, registrationFails, addSession, rxLoopBreaks, txLoop, txLoopSends,
              txWorkerPop, popNextMcuFrame
<1>4. ASSUME NEW d \in Conns, NEW sid \in ClientSids, rxLoop(d, sid) PROVE UNCHANGED isBlocked
  BY <1>4 DEF rxLoop, forwardToMcu
<1>5. ASSUME rxWorker PROVE UNCHANGED isBlocked
  BY <1>5 DEF rxWorker, onFrame, broadcast, routeUartRxBySid
<1>6. ASSUME \/ txWorkerWrite \/ txWorkerWriteFails \/ Mcu \/ AppService_SendAdvertise \/ parseRejects
             \/ \E sid \in MenuSids : CommandService(sid)
             \/ UNCHANGED bridgeVars
      PROVE  UNCHANGED isBlocked
  BY <1>6 DEF txWorkerWrite, txWorkerWriteFails, Mcu, McuServes, McuDeclines, McuResets, McuDrops,
              AppService_SendAdvertise, parseRejects, CommandService, bridgeVars, smVars
<1> QED
  BY <1>1, <1>2, <1>3, <1>4, <1>5, <1>6 DEF BridgeNext, txWorker

LEMMA NextOwnQueueInv ==
  ASSUME BridgeTypeOK, SessionInv, OwnQueueInv, [BridgeNext]_bridgeVars
  PROVE  OwnQueueInv'
<1>1. toMcuQueue \in [Conns -> Seq(Frame)]
  BY DEF BridgeTypeOK, TypeOK
<1>2. CASE UNCHANGED toMcuQueue
  BY <1>2 DEF OwnQueueInv
<1>3. ASSUME NEW d \in Conns, Disconnect(d) PROVE OwnQueueInv'
  BY <1>3 DEF OwnQueueInv, Disconnect, removeSession
<1>4. ASSUME NEW d \in Conns, NEW sid \in ClientSids, rxLoop(d, sid) PROVE OwnQueueInv'
  <2>1. findSession(CidOf[d]) = d /\ d # NoConn
    BY <1>4, ConnAssumption DEF rxLoop, forwardToMcu, SessionInv, RxThreadOwnsSession
  <2>2. PICK f \in Frame : f = [sid |-> sid, cid |-> McuCid, from |-> d]
    BY MadeFrames
  <2>3. toMcuQueue' = [toMcuQueue EXCEPT ![d] = Append(toMcuQueue[d], f)] /\ f.from = d
    BY <1>4, <2>1, <2>2 DEF rxLoop, forwardToMcu
  <2>4. PICK q \in Seq(Frame) : q = toMcuQueue[d]
    BY PathType
  <2>5. \A i \in 1 .. Len(Append(q, f)) : Append(q, f)[i].from = d
    BY <2>3, <2>4 DEF OwnQueueInv
  <2> QED
    BY <1>1, <2>3, <2>4, <2>5 DEF OwnQueueInv
<1>5. ASSUME NEW d \in Conns, txWorkerPop(d) PROVE OwnQueueInv'
  <2>1. PICK q \in Seq(Frame) : q = toMcuQueue[d]
    BY PathType
  <2>2. toMcuQueue' = [toMcuQueue EXCEPT ![d] = Tail(q)] /\ q # <<>>
    BY <1>5, <2>1 DEF txWorkerPop, popNextMcuFrame, FirstWithFrame
  <2>3. \A i \in 1 .. Len(Tail(q)) : Tail(q)[i].from = d
    <3>1. \A i \in 1 .. Len(Tail(q)) : Tail(q)[i] = q[i + 1] /\ i + 1 \in 1 .. Len(q)
      BY <2>2
    <3> QED
      BY <2>1, <3>1 DEF OwnQueueInv
  <2> QED
    BY <1>1, <2>2, <2>3 DEF OwnQueueInv
<1>6. ASSUME NEW d \in Conns, Connect(d) \/ txLoop(d) PROVE UNCHANGED toMcuQueue
  BY <1>6 DEF Connect, acceptLoop, registrationFails, addSession, rxLoopBreaks, txLoop, txLoopSends
<1>7. ASSUME rxWorker PROVE UNCHANGED toMcuQueue
  BY <1>7 DEF rxWorker, onFrame, broadcast, routeUartRxBySid
<1>8. ASSUME \/ txWorkerWrite \/ txWorkerWriteFails \/ Mcu \/ AppService_SendAdvertise \/ parseRejects
             \/ \E sid \in MenuSids : CommandService(sid)
             \/ UNCHANGED bridgeVars
      PROVE  UNCHANGED toMcuQueue
  BY <1>8 DEF txWorkerWrite, txWorkerWriteFails, Mcu, McuServes, McuDeclines, McuResets, McuDrops,
              AppService_SendAdvertise, parseRejects, CommandService, bridgeVars, smVars
<1> QED
  BY <1>2, <1>3, <1>4, <1>5, <1>6, <1>7, <1>8 DEF BridgeNext, txWorker

(* Only a client that leaves is forgotten to have lost something. *)
LEMMA LostStays ==
  ASSUME BridgeNext \/ UNCHANGED bridgeVars, NEW c \in lost, c \notin lost'
  PROVE  Disconnect(c)
  BY DEF BridgeNext, bridgeVars, txWorker, Mcu, Connect, rxLoop, Disconnect, txLoop, txWorkerPop,
         txWorkerWrite, txWorkerWriteFails, CommandService, McuServes, McuDeclines, McuResets,
         McuDrops, AppService_SendAdvertise, rxWorker, parseRejects

LEMMA NextAwaitInv ==
  ASSUME BridgeInv, [BridgeNext]_bridgeVars
  PROVE  AwaitInv'
<1> SUFFICES ASSUME NEW c \in Conns, c \notin lost' PROVE Awaits(c)'
  BY DEF AwaitInv
<1> USE DEF BridgeInv
<1>1. CASE \E d \in Conns : Disconnect(d)
  BY <1>1, DisconnectAwaits DEF AwaitInv
<1>2. CASE ~\E d \in Conns : Disconnect(d)
  <2>1. c \notin lost
    BY <1>2, LostStays
  <2>2. Awaits(c)
    BY <2>1 DEF AwaitInv
  <2>3. ASSUME NEW d \in Conns, Connect(d) \/ txLoop(d) PROVE Awaits(c)'
    BY <2>2, <2>3, ConnectAwaits
  <2>4. ASSUME NEW d \in Conns, NEW sid \in ClientSids, rxLoop(d, sid) PROVE Awaits(c)'
    BY <2>2, <2>4, RequestAwaits
  <2>5. ASSUME txWorker PROVE Awaits(c)'
    BY <2>2, <2>5, PopAwaits, WriteAwaits, WriteFailsAwaits DEF txWorker
  <2>6. ASSUME NEW sid \in MenuSids, CommandService(sid) PROVE Awaits(c)'
    BY <2>2, <2>6, MenuAwaits
  <2>7. ASSUME Mcu PROVE Awaits(c)'
    BY <2>2, <2>7, ServesAwaits, DropsAwaits, ResetAwaits DEF Mcu
  <2>8. ASSUME AppService_SendAdvertise PROVE Awaits(c)'
    BY <2>2, <2>8, AdvertiseAwaits
  <2>9. ASSUME rxWorker PROVE Awaits(c)'
    BY <2>2, <2>9, ArrivesAwaits
  <2>10. ASSUME parseRejects PROVE Awaits(c)'
    BY <2>2, <2>10, RejectsAwaits
  <2>11. ASSUME UNCHANGED bridgeVars PROVE Awaits(c)'
    BY <2>2, <2>11 DEF bridgeVars, smVars, wire, Awaits, Path
  <2> QED
    BY <1>2, <2>3, <2>4, <2>5, <2>6, <2>7, <2>8, <2>9, <2>10, <2>11 DEF BridgeNext
<1> QED
  BY <1>1, <1>2

LEMMA InitBridgeInv == BridgeInit => BridgeInv
<1> SUFFICES ASSUME BridgeInit PROVE BridgeInv
  OBVIOUS
<1>1. BridgeTypeOK /\ SessionInv
  BY InitBridgeTypeOK, InitSessionInv DEF BridgeInit
<1>2. OpenInv /\ OwnQueueInv
  BY DEF BridgeInit, Init, OpenInv, OwnQueueInv
<1>3. AwaitInv
  <2> SUFFICES ASSUME NEW c \in Conns PROVE Awaits(c)
    BY DEF AwaitInv
  <2>1. requestedSidQueue[c] = <<>>
    BY DEF BridgeInit, Init
  <2> QED
    BY <2>1, NothingAwaited DEF Awaits
<1> QED
  BY <1>1, <1>2, <1>3 DEF BridgeInv

LEMMA NextBridgeInv == BridgeInv /\ [BridgeNext]_bridgeVars => BridgeInv'
<1> SUFFICES ASSUME BridgeInv, [BridgeNext]_bridgeVars PROVE BridgeInv'
  OBVIOUS
<1>1. BridgeTypeOK /\ SessionInv /\ OpenInv /\ OwnQueueInv /\ TypeOK
  BY DEF BridgeInv, BridgeTypeOK
<1>2. BridgeTypeOK'
  BY <1>1, NextBridgeTypeOK
<1>3. SessionInv'
  BY <1>1, BridgeStepIsSessionStep, NextSessionInv
<1>4. OpenInv'
  BY <1>1, NextOpenInv
<1>5. OwnQueueInv'
  BY <1>1, NextOwnQueueInv
<1>6. AwaitInv'
  BY NextAwaitInv
<1> QED
  BY <1>2, <1>3, <1>4, <1>5, <1>6 DEF BridgeInv

(* As long as no frame of its own is lost, a session waits only for answers to    *)
(* requests of its own that are still on the way, in their order: whatever the     *)
(* other clients, the menu, the MCU and the faults do to other frames              *)
(* (routeUartRxBySid, which matches answers by SID alone, with the UART threads).   *)
THEOREM NobodyWaitsInVain == BridgeSpec => []NoOrphanedWait
<1>1. BridgeInv => NoOrphanedWait
  <2> SUFFICES ASSUME BridgeInv, NEW c \in Registered \ lost
               PROVE  AreLastRequests(c, requestedSidQueue[c], Path(c))
    BY DEF NoOrphanedWait
  <2>1. c \in Conns
    BY RegisteredFound DEF BridgeInv, BridgeTypeOK
  <2> QED
    BY <2>1 DEF BridgeInv, AwaitInv, Awaits
<1> QED
  BY <1>1, InitBridgeInv, NextBridgeInv, PTL DEF BridgeSpec
=============================================================================
