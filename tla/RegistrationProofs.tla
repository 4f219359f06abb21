-------------------------- MODULE RegistrationProofs --------------------------
(***************************************************************************)
(* For any number of programs and connections and any length of the listen    *)
(* queue: clients and the accept thread use the session table as            *)
(* SessionManager says, and only Connect without Disconnect can leave a       *)
(* session behind that nobody uses.                                         *)
(***************************************************************************)
EXTENDS Registration, SessionManagerProofs

(* A program in connect() is there with the connection in self.client. *)
ConnectingInv ==
    \A c \in Conns : peer[c] \in {"connecting", "connected"} =>
        client[GuiOf[c]] = c /\ GuiOf[c] \in connecting

(* An open connection that has announced itself is in use, or was replaced. *)
AnnouncedInv ==
    \A c \in Conns : peer[c] = "announced" => client[GuiOf[c]] = c \/ c \in abandoned

(* Only what was announced has a running transport. *)
RunningInv ==
    \A c \in Conns : transport[c] = "running" => peer[c] \in {"announced", "left"}

ClientInv == ConnectingInv /\ AnnouncedInv /\ RunningInv

ClientTypeOK ==
    /\ client \in [Guis -> Conns \cup {NoConn}]
    /\ connecting \in SUBSET Guis
    /\ peer \in [Conns -> PeerState]
    /\ backlog \in Seq(Conns) /\ Len(backlog) <= MaxBacklog
    /\ secured \in SUBSET Conns
    /\ abandoned \in SUBSET Conns

-----------------------------------------------------------------------------
(* A step of clients and accept thread is one of the session table or leaves  *)
(* it alone.                                                                *)
LEMMA RegistrationStepIsSessionStep ==
  ASSUME ClientTypeOK, [RegistrationNext]_regVars
  PROVE  [Next]_smVars
<1>1. ASSUME accept PROVE Next
  <2>1. Head(backlog) \in Conns
    BY <1>1 DEF accept, ClientTypeOK
  <2> QED
    BY <1>1, <2>1 DEF accept, Next
<1>2. ASSUME NEW c \in Conns,
             closedEarly(c) \/ receivedCidTls(c) \/ receivedCidTlsFails(c) \/ rxLoop(c)
      PROVE  Next
  BY <1>2 DEF closedEarly, receivedCidTls, receivedCidTlsFails, rxLoop, Next
<1>3. ASSUME NEW c \in Conns,
             \/ SSL_accept(c) \/ connect(c) \/ wrap_socket(c) \/ wrap_socketFails(c)
             \/ _send_client_cid_announce(c)
      PROVE  UNCHANGED smVars
  BY <1>3 DEF SSL_accept, connect, wrap_socket, wrap_socketFails, _send_client_cid_announce
<1>4. ASSUME NEW g \in Guis, create_connectionFails(g) \/ disconnect(g) \/ destroy(g)
      PROVE  UNCHANGED smVars
  BY <1>4 DEF create_connectionFails, disconnect, destroy
<1>5. ASSUME UNCHANGED regVars PROVE UNCHANGED smVars
  BY <1>5 DEF regVars
<1> QED
  BY <1>1, <1>2, <1>3, <1>4, <1>5 DEF RegistrationNext, Gateway

-----------------------------------------------------------------------------
(* Types *)

LEMMA ClosedType == \A s \in PeerState : Closed(s) \in PeerState
  BY DEF Closed, PeerState

LEMMA InitClientTypeOK == RegistrationInit => ClientTypeOK
<1> SUFFICES ASSUME RegistrationInit PROVE ClientTypeOK
  OBVIOUS
<1>1. backlog = <<>> /\ Len(backlog) <= MaxBacklog
  BY BacklogAssumption DEF RegistrationInit
<1> QED
  BY <1>1 DEF RegistrationInit, ClientTypeOK, PeerState

LEMMA NextClientTypeOK == ClientTypeOK /\ [RegistrationNext]_regVars => ClientTypeOK'
<1> SUFFICES ASSUME ClientTypeOK, [RegistrationNext]_regVars PROVE ClientTypeOK'
  OBVIOUS
<1> USE GuiAssumption DEF ClientTypeOK
<1>1. ASSUME NEW c \in Conns, connect(c) PROVE ClientTypeOK'
  <2>1. Append(backlog, c) \in Seq(Conns) /\ Len(Append(backlog, c)) = Len(backlog) + 1
    BY <1>1
  <2>2. backlog' \in Seq(Conns) /\ Len(backlog') <= MaxBacklog
    BY <1>1, <2>1, BacklogAssumption DEF connect
  <2>3. Replaced(GuiOf[c]) \subseteq Conns
    BY <1>1 DEF Replaced
  <2>4. "connecting" \in PeerState /\ GuiOf[c] \in Guis
    BY <1>1 DEF PeerState
  <2> QED
    BY <1>1, <2>2, <2>3, <2>4 DEF connect
<1>2. ASSUME NEW c \in Conns,
             wrap_socket(c) \/ wrap_socketFails(c) \/ _send_client_cid_announce(c)
      PROVE  ClientTypeOK'
  <2>1. {"connected", "gone", "announced", "silent"} \subseteq PeerState /\ GuiOf[c] \in Guis
    BY <1>2 DEF PeerState
  <2> QED
    BY <1>2, <2>1 DEF wrap_socket, wrap_socketFails, _send_client_cid_announce
<1>3. ASSUME NEW g \in Guis, create_connectionFails(g) PROVE ClientTypeOK'
  <2>1. Replaced(g) \subseteq Conns
    BY <1>3 DEF Replaced
  <2> QED
    BY <1>3, <2>1 DEF create_connectionFails
<1>4. ASSUME NEW g \in Guis, disconnect(g) PROVE ClientTypeOK'
  <2>1. client[g] \in Conns
    BY <1>4 DEF disconnect
  <2> QED
    BY <1>4, <2>1, ClosedType DEF disconnect
<1>5. ASSUME NEW g \in Guis, destroy(g) PROVE ClientTypeOK'
  BY <1>5, ClosedType DEF destroy
<1>6. ASSUME accept PROVE ClientTypeOK'
  <2>1. Tail(backlog) \in Seq(Conns) /\ Len(Tail(backlog)) <= MaxBacklog
    BY <1>6, BacklogAssumption DEF accept
  <2> QED
    BY <1>6, <2>1 DEF accept, clientVars
<1>7. ASSUME NEW c \in Conns,
             \/ SSL_accept(c) \/ closedEarly(c) \/ receivedCidTls(c)
             \/ receivedCidTlsFails(c) \/ rxLoop(c)
      PROVE  ClientTypeOK'
  BY <1>7 DEF SSL_accept, closedEarly, receivedCidTls, receivedCidTlsFails, rxLoop, clientVars
<1>8. ASSUME UNCHANGED regVars PROVE ClientTypeOK'
  BY <1>8 DEF regVars, clientVars
<1> QED
  BY <1>1, <1>2, <1>3, <1>4, <1>5, <1>6, <1>7, <1>8 DEF RegistrationNext, Gateway

LEMMA ClientTypeCorrect == RegistrationSpec => []ClientTypeOK
  BY InitClientTypeOK, NextClientTypeOK, PTL DEF RegistrationSpec

(* Clients and accept thread together implement the session table, so all that   *)
(* is proved of it holds for them.                                             *)
THEOREM RegistrationImplementsSessionManager == RegistrationSpec => Spec
<1>1. RegistrationInit => Init
  BY DEF RegistrationInit
<1>2. ClientTypeOK /\ [RegistrationNext]_regVars => [Next]_smVars
  BY RegistrationStepIsSessionStep
<1> QED
  BY <1>1, <1>2, ClientTypeCorrect, PTL DEF RegistrationSpec, Spec

(* Every reachable state is well-typed; the listen queue never exceeds the limit  *)
(* given to listen().                                                          *)
THEOREM RegistrationTypeCorrect == RegistrationSpec => []RegistrationTypeOK
<1>1. TypeOK /\ ClientTypeOK => RegistrationTypeOK
  BY DEF ClientTypeOK, RegistrationTypeOK
<1> QED
  BY <1>1, RegistrationImplementsSessionManager, TypeCorrect, ClientTypeCorrect, PTL

-----------------------------------------------------------------------------
(* The client invariant *)

LEMMA InitClientInv == RegistrationInit => ClientInv
  BY DEF RegistrationInit, Init, ClientInv, ConnectingInv, AnnouncedInv, RunningInv

LEMMA ConnectKeepsInv ==
  ASSUME ClientTypeOK, ClientInv, NEW c \in Conns, connect(c)
  PROVE  ClientInv'
<1> DEFINE g == GuiOf[c]
<1> USE GuiAssumption DEF ClientTypeOK
<1>1. /\ g \in Guis /\ g \notin connecting
      /\ transport[c] = "none"
      /\ client' = [client EXCEPT ![g] = c]
      /\ connecting' = connecting \cup {g}
      /\ peer' = [peer EXCEPT ![c] = "connecting"]
      /\ abandoned' = (abandoned \ {c}) \cup Replaced(g)
      /\ transport' = transport
  BY DEF connect, Unused, smVars
<1>2. ConnectingInv'
  BY <1>1 DEF ConnectingInv, ClientInv
<1>3. AnnouncedInv'
  <2> SUFFICES ASSUME NEW d \in Conns, peer'[d] = "announced"
               PROVE  client'[GuiOf[d]] = d \/ d \in abandoned'
    BY DEF AnnouncedInv
  <2>1. d # c /\ peer[d] = "announced"
    BY <1>1
  <2>2. CASE client[GuiOf[d]] = d /\ GuiOf[d] = g
    BY <1>1, <2>2, ConnAssumption DEF Replaced
  <2>3. CASE client[GuiOf[d]] = d /\ GuiOf[d] # g
    BY <1>1, <2>3
  <2>4. CASE d \in abandoned
    BY <1>1, <2>1, <2>4
  <2> QED
    BY <2>1, <2>2, <2>3, <2>4 DEF AnnouncedInv, ClientInv
<1>4. RunningInv'
  BY <1>1 DEF RunningInv, ClientInv
<1> QED
  BY <1>2, <1>3, <1>4 DEF ClientInv

(* A connect() that ends, one way or the other. *)
LEMMA ConnectEndsKeepsInv ==
  ASSUME ClientTypeOK, ClientInv, NEW c \in Conns,
         wrap_socket(c) \/ wrap_socketFails(c) \/ _send_client_cid_announce(c)
  PROVE  ClientInv'
<1> USE GuiAssumption DEF ClientTypeOK
<1>1. /\ peer[c] \in {"connecting", "connected"}
      /\ client[GuiOf[c]] = c /\ GuiOf[c] \in connecting /\ GuiOf[c] \in Guis
      /\ transport' = transport /\ abandoned' = abandoned
  BY DEF wrap_socket, wrap_socketFails, _send_client_cid_announce, smVars, ClientInv, ConnectingInv
<1>2. \A d \in Conns \ {c} : peer'[d] = peer[d]
  BY DEF wrap_socket, wrap_socketFails, _send_client_cid_announce
<1>3. \A d \in Conns \ {c} : GuiOf[d] = GuiOf[c] =>
          peer[d] \notin {"connecting", "connected"} /\ client[GuiOf[d]] # d
  BY <1>1 DEF ClientInv, ConnectingInv
<1>4. \A d \in Conns : GuiOf[d] # GuiOf[c] =>
          /\ client'[GuiOf[d]] = client[GuiOf[d]]
          /\ GuiOf[d] \in connecting => GuiOf[d] \in connecting'
  BY <1>1 DEF wrap_socket, wrap_socketFails, _send_client_cid_announce
<1>5. peer'[c] \in {"connecting", "connected"} => client'[GuiOf[c]] = c /\ GuiOf[c] \in connecting'
  BY <1>1 DEF wrap_socket, wrap_socketFails, _send_client_cid_announce
<1>6. peer'[c] = "announced" => client'[GuiOf[c]] = c
  BY <1>1 DEF wrap_socket, wrap_socketFails, _send_client_cid_announce
<1>7. ConnectingInv'
  BY <1>2, <1>3, <1>4, <1>5 DEF ConnectingInv, ClientInv
<1>8. AnnouncedInv'
  BY <1>1, <1>2, <1>3, <1>4, <1>6 DEF AnnouncedInv, ClientInv
<1>9. RunningInv'
  BY <1>1, <1>2 DEF RunningInv, ClientInv
<1> QED
  BY <1>7, <1>8, <1>9 DEF ClientInv

LEMMA CreateFailsKeepsInv ==
  ASSUME ClientTypeOK, ClientInv, NEW g \in Guis, create_connectionFails(g)
  PROVE  ClientInv'
<1> USE GuiAssumption DEF ClientTypeOK
<1>1. /\ g \notin connecting
      /\ client' = [client EXCEPT ![g] = NoConn]
      /\ abandoned' = abandoned \cup Replaced(g)
      /\ transport' = transport /\ connecting' = connecting /\ peer' = peer
  BY DEF create_connectionFails, smVars
<1>2. ConnectingInv'
  BY <1>1 DEF ConnectingInv, ClientInv
<1>3. AnnouncedInv'
  BY <1>1, ConnAssumption DEF AnnouncedInv, ClientInv, Replaced
<1>4. RunningInv'
  BY <1>1 DEF RunningInv, ClientInv
<1> QED
  BY <1>2, <1>3, <1>4 DEF ClientInv

(* Closing: what had announced itself has left, the rest is gone. *)
LEMMA ClosedStates ==
  \A s \in PeerState : /\ Closed(s) \notin {"connecting", "connected", "announced"}
                       /\ s \in {"announced", "left"} => Closed(s) = "left"
  BY DEF Closed, PeerState

LEMMA DisconnectKeepsInv ==
  ASSUME ClientTypeOK, ClientInv, NEW g \in Guis, disconnect(g)
  PROVE  ClientInv'
<1> USE GuiAssumption DEF ClientTypeOK
<1>1. /\ g \notin connecting
      /\ client[g] \in Conns
      /\ peer' = [peer EXCEPT ![client[g]] = Closed(peer[client[g]])]
      /\ client' = [client EXCEPT ![g] = NoConn]
      /\ transport' = transport /\ connecting' = connecting /\ abandoned' = abandoned
  BY DEF disconnect, smVars
<1>2. \A d \in Conns : \/ d # client[g] /\ peer'[d] = peer[d]
                       \/ d = client[g] /\ peer'[d] = Closed(peer[d]) /\ peer[d] \in PeerState
  BY <1>1
<1>3. \A d \in Conns : GuiOf[d] # g => client'[GuiOf[d]] = client[GuiOf[d]]
  BY <1>1
<1>4. ConnectingInv'
  BY <1>1, <1>2, <1>3, ClosedStates DEF ConnectingInv, ClientInv
<1>5. AnnouncedInv'
  BY <1>1, <1>2, <1>3, ClosedStates DEF AnnouncedInv, ClientInv
<1>6. RunningInv'
  BY <1>1, <1>2, ClosedStates DEF RunningInv, ClientInv
<1> QED
  BY <1>4, <1>5, <1>6 DEF ClientInv

LEMMA DestroyKeepsInv ==
  ASSUME ClientTypeOK, ClientInv, NEW g \in Guis, destroy(g)
  PROVE  ClientInv'
<1> USE GuiAssumption DEF ClientTypeOK
<1>1. /\ client' = [client EXCEPT ![g] = NoConn]
      /\ connecting' = connecting \ {g}
      /\ abandoned' = {c \in abandoned : GuiOf[c] # g}
      /\ transport' = transport
  BY DEF destroy, smVars
<1>2. \A d \in Conns : /\ GuiOf[d] = g => peer'[d] = Closed(peer[d]) /\ peer[d] \in PeerState
                       /\ GuiOf[d] # g => peer'[d] = peer[d]
  BY DEF destroy
<1>3. \A d \in Conns : GuiOf[d] # g => client'[GuiOf[d]] = client[GuiOf[d]]
  BY <1>1
<1>4. ConnectingInv'
  BY <1>1, <1>2, <1>3, ClosedStates DEF ConnectingInv, ClientInv
<1>5. AnnouncedInv'
  BY <1>1, <1>2, <1>3, ClosedStates DEF AnnouncedInv, ClientInv
<1>6. RunningInv'
  BY <1>1, <1>2, ClosedStates DEF RunningInv, ClientInv
<1> QED
  BY <1>4, <1>5, <1>6 DEF ClientInv

(* The gateway only starts a transport for what was announced. *)
LEMMA GatewayKeepsInv ==
  ASSUME TypeOK, ClientTypeOK, ClientInv,
         Gateway \/ \E c \in Conns : receivedCidTlsFails(c) \/ rxLoop(c)
  PROVE  ClientInv'
<1>1. UNCHANGED <<client, connecting, peer, abandoned>>
  BY DEF Gateway, accept, SSL_accept, closedEarly, receivedCidTls, receivedCidTlsFails, rxLoop,
         clientVars
<1>2. ConnectingInv' /\ AnnouncedInv'
  BY <1>1 DEF ClientInv, ConnectingInv, AnnouncedInv
<1>3. ASSUME NEW d \in Conns, transport'[d] = "running"
      PROVE  transport[d] = "running" \/ peer[d] \in {"announced", "left"}
  <2>1. CASE accept
    BY <1>3, <2>1 DEF accept, acceptLoop, TypeOK
  <2>2. ASSUME NEW c \in Conns, SSL_accept(c) PROVE transport[d] = "running"
    BY <1>3, <2>2 DEF SSL_accept, smVars
  <2>3. ASSUME NEW c \in Conns, closedEarly(c) \/ receivedCidTlsFails(c)
        PROVE  transport[d] = "running"
    BY <1>3, <2>3 DEF closedEarly, receivedCidTlsFails, registrationFails, TypeOK
  <2>4. ASSUME NEW c \in Conns, receivedCidTls(c)
        PROVE  transport[d] = "running" \/ peer[d] \in {"announced", "left"}
    BY <1>3, <2>4 DEF receivedCidTls, addSession, TypeOK
  <2>5. ASSUME NEW c \in Conns, rxLoop(c) PROVE transport[d] = "running"
    <3>1. CASE rxLoopBreaks(c)
      BY <1>3, <3>1 DEF rxLoopBreaks
    <3>2. CASE removeSession(c)
      BY <1>3, <3>2 DEF removeSession
    <3> QED
      BY <2>5, <3>1, <3>2 DEF rxLoop
  <2> QED
    BY <2>1, <2>2, <2>3, <2>4, <2>5 DEF Gateway
<1>4. RunningInv'
  BY <1>1, <1>3 DEF RunningInv, ClientInv
<1> QED
  BY <1>2, <1>4 DEF ClientInv

LEMMA NextClientInv ==
  TypeOK /\ ClientTypeOK /\ ClientInv /\ [RegistrationNext]_regVars => ClientInv'
<1> SUFFICES ASSUME TypeOK, ClientTypeOK, ClientInv, [RegistrationNext]_regVars
             PROVE  ClientInv'
  OBVIOUS
<1>1. CASE UNCHANGED regVars
  BY <1>1 DEF regVars, clientVars, smVars, ClientInv, ConnectingInv, AnnouncedInv, RunningInv
<1>2. CASE RegistrationNext
  BY <1>2, ConnectKeepsInv, ConnectEndsKeepsInv, CreateFailsKeepsInv, DisconnectKeepsInv,
     DestroyKeepsInv, GatewayKeepsInv DEF RegistrationNext
<1> QED
  BY <1>1, <1>2

(* A connect() that failed, timed out or was undone never leaves a session       *)
(* behind, however late the accept thread comes to its connection: only           *)
(* pressing Connect on top of a connection does (gui.py connect, disconnect).    *)
THEOREM NoSessionLeftBehind == RegistrationSpec => []SessionHasItsClient
<1>1. TypeOK /\ SessionIsLive /\ ClientInv => SessionHasItsClient
  <2> SUFFICES ASSUME TypeOK, SessionIsLive, ClientInv, NEW c \in Registered
               PROVE  \/ peer[c] = "left"
                      \/ peer[c] = "announced" /\ (client[GuiOf[c]] = c \/ c \in abandoned)
    BY DEF SessionHasItsClient
  <2>1. c \in Conns /\ transport[c] = "running"
    BY RegisteredRuns
  <2> QED
    BY <2>1 DEF ClientInv, RunningInv, AnnouncedInv
<1> QED
  BY <1>1, InitClientInv, NextClientInv, ClientTypeCorrect, RegistrationImplementsSessionManager,
     TypeCorrect, LiveSessionsOnly, PTL DEF RegistrationSpec
=============================================================================
