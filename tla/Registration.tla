----------------------------- MODULE Registration -----------------------------
(***************************************************************************)
(* How a client gets a session: the test PC program's Connect, Disconnect    *)
(* and window closing (gui.py, network.py) against the gateway's one accept  *)
(* thread (TcpServer.cpp), which does the TLS handshake and reads the         *)
(* registration frame of one connection at a time and without a timeout.     *)
(*                                                                         *)
(* connect() runs in the program's only GUI thread and gives up after three   *)
(* seconds; the connection then still stands in the listen queue, and the    *)
(* accept thread comes to it later.  Connect replaces self.client without    *)
(* closing the connection it held.                                          *)
(***************************************************************************)
EXTENDS SessionManager, SequencesExt

CONSTANTS
    Guis,       \* running test PC programs
    GuiOf,      \* the program that makes a connection
    MaxBacklog  \* the argument of listen()

ASSUME GuiAssumption == GuiOf \in [Conns -> Guis]
ASSUME BacklogAssumption == MaxBacklog \in Nat \ {0}

VARIABLES
    client,     \* program -> self.client
    connecting, \* programs in TcpClient.connect
    peer,       \* the client's end of a connection
    backlog,    \* connections accept() has yet to return
    secured,    \* connections for which SSL_accept has returned
    abandoned   \* history: connections self.client was replaced on

clientVars == <<client, connecting, peer, abandoned>>
regVars == <<smVars, clientVars, backlog, secured>>

(* connected: handshake over; silent: open, nothing announced; left and gone:  *)
(* closed with or without having announced.                                  *)
PeerState == {"none", "connecting", "connected", "announced", "silent", "left", "gone"}
Closed(state) == IF state = "announced" THEN "left"
                 ELSE IF state \in {"connecting", "connected", "silent"} THEN "gone" ELSE state

RegistrationInit ==
    /\ Init
    /\ client = [g \in Guis |-> NoConn]
    /\ connecting = {}
    /\ peer = [c \in Conns |-> "none"]
    /\ backlog = <<>>
    /\ secured = {}
    /\ abandoned = {}

-----------------------------------------------------------------------------
(* The test PC program                                                     *)

(* A connection that both ends are done with stands for a new one. *)
Unused(c) ==
    /\ Closed(peer[c]) = peer[c]
    /\ transport[c] = "none" /\ rx[c] = "none"
    /\ c \notin Range(backlog)

Replaced(g) == {client[g]} \ {NoConn}

(* Mutant: the listen queue is taken for endless. *)
connect_NoLimit(c) ==
    LET g == GuiOf[c]
    IN  /\ g \notin connecting
        /\ Unused(c)
        /\ client' = [client EXCEPT ![g] = c]
        /\ connecting' = connecting \cup {g}
        /\ abandoned' = (abandoned \ {c}) \cup Replaced(g)
        /\ peer' = [peer EXCEPT ![c] = "connecting"]
        /\ backlog' = Append(backlog, c)
        /\ UNCHANGED <<smVars, secured>>

(* Connect: the kernel completes the TCP connection for the gateway. *)
connect(c) ==
    LET g == GuiOf[c]
    IN  /\ g \notin connecting
        /\ Unused(c)
        /\ Len(backlog) < MaxBacklog
        /\ client' = [client EXCEPT ![g] = c]
        /\ connecting' = connecting \cup {g}
        /\ abandoned' = (abandoned \ {c}) \cup Replaced(g)
        /\ peer' = [peer EXCEPT ![c] = "connecting"]
        /\ backlog' = Append(backlog, c)
        /\ UNCHANGED <<smVars, secured>>

(* It does not while the listen queue is full: Connect Error. *)
create_connectionFails(g) ==
    /\ g \notin connecting
    /\ Len(backlog) >= MaxBacklog
    /\ client' = [client EXCEPT ![g] = NoConn]
    /\ abandoned' = abandoned \cup Replaced(g)
    /\ UNCHANGED <<smVars, connecting, peer, backlog, secured>>

(* The handshake needs the gateway's side of it. *)
wrap_socket(c) ==
    /\ peer[c] = "connecting"
    /\ transport[c] = "accepted"
    /\ peer' = [peer EXCEPT ![c] = "connected"]
    /\ UNCHANGED <<smVars, client, connecting, abandoned, backlog, secured>>

(* Mutant: the time limit ends with create_connection. *)
wrap_socketFails_AcceptedOnly(c) ==
    /\ peer[c] = "connecting"
    /\ transport[c] = "accepted"
    /\ client' = [client EXCEPT ![GuiOf[c]] = NoConn]
    /\ connecting' = connecting \ {GuiOf[c]}
    /\ peer' = [peer EXCEPT ![c] = "gone"]
    /\ UNCHANGED <<smVars, abandoned, backlog, secured>>

(* Three seconds are over: the socket is closed, Connect Error. *)
wrap_socketFails(c) ==
    /\ peer[c] = "connecting"
    /\ client' = [client EXCEPT ![GuiOf[c]] = NoConn]
    /\ connecting' = connecting \ {GuiOf[c]}
    /\ peer' = [peer EXCEPT ![c] = "gone"]
    /\ UNCHANGED <<smVars, abandoned, backlog, secured>>

(* A Client CID that is no 12-bit number ends in an error box, with the         *)
(* connection open.                                                         *)
_send_client_cid_announce(c) ==
    /\ peer[c] = "connected"
    /\ \E result \in {"announced", "silent"} : peer' = [peer EXCEPT ![c] = result]
    /\ connecting' = connecting \ {GuiOf[c]}
    /\ UNCHANGED <<smVars, client, abandoned, backlog, secured>>

(* Mutant: the connection is forgotten, not closed. *)
disconnect_KeepsSocket(g) ==
    /\ g \notin connecting
    /\ client[g] # NoConn
    /\ client' = [client EXCEPT ![g] = NoConn]
    /\ UNCHANGED <<smVars, connecting, peer, abandoned, backlog, secured>>

disconnect(g) ==
    /\ g \notin connecting
    /\ client[g] # NoConn
    /\ peer' = [peer EXCEPT ![client[g]] = Closed(@)]
    /\ client' = [client EXCEPT ![g] = NoConn]
    /\ UNCHANGED <<smVars, connecting, abandoned, backlog, secured>>

(* The process ends, by WM_DELETE_WINDOW or killed at any point of connect(),   *)
(* and with it all its connections.                                          *)
destroy(g) ==
    /\ peer' = [c \in Conns |-> IF GuiOf[c] = g THEN Closed(peer[c]) ELSE peer[c]]
    /\ client' = [client EXCEPT ![g] = NoConn]
    /\ connecting' = connecting \ {g}
    /\ abandoned' = {c \in abandoned : GuiOf[c] # g}
    /\ UNCHANGED <<smVars, backlog, secured>>

-----------------------------------------------------------------------------
(* The gateway                                                             *)

accept ==
    /\ backlog # <<>>
    /\ acceptLoop(Head(backlog))
    /\ backlog' = Tail(backlog)
    /\ UNCHANGED <<clientVars, secured>>

SSL_accept(c) ==
    /\ transport[c] = "accepted" /\ c \notin secured
    /\ peer[c] \in {"connected", "announced", "silent", "left"}
    /\ secured' = secured \cup {c}
    /\ UNCHANGED <<smVars, clientVars, backlog>>

(* Mutant: a client that leaves during the handshake is not noticed. *)
closedEarly_SecuredOnly(c) ==
    /\ peer[c] \in {"left", "gone"}
    /\ c \in secured
    /\ registrationFails(c)
    /\ secured' = secured \ {c}
    /\ UNCHANGED <<clientVars, backlog>>

(* SSL_accept or receivedCidTls finds the connection closed.  What a client      *)
(* announced may be lost when it closes at once.                              *)
closedEarly(c) ==
    /\ peer[c] \in {"left", "gone"}
    /\ registrationFails(c)
    /\ secured' = secured \ {c}
    /\ UNCHANGED <<clientVars, backlog>>

(* The announcement has come.  It waits for it as long as it takes. *)
receivedCidTls(c) ==
    /\ c \in secured
    /\ peer[c] \in {"announced", "left"}
    /\ addSession(c)
    /\ secured' = secured \ {c}
    /\ UNCHANGED <<clientVars, backlog>>

(* What a client that announced nothing sends first is a request. *)
receivedCidTlsFails(c) ==
    /\ c \in secured
    /\ peer[c] = "silent"
    /\ registrationFails(c)
    /\ secured' = secured \ {c}
    /\ UNCHANGED <<clientVars, backlog>>

(* The loop ends with the connection or at a request with too long a payload. *)
rxLoop(c) ==
    /\ \/ peer[c] \in {"announced", "left"} /\ rxLoopBreaks(c)
       \/ removeSession(c)
    /\ UNCHANGED <<clientVars, backlog, secured>>

-----------------------------------------------------------------------------
Gateway == accept \/ \E c \in Conns : SSL_accept(c) \/ closedEarly(c) \/ receivedCidTls(c)

RegistrationNext ==
    \/ Gateway
    \/ \E c \in Conns : \/ connect(c) \/ wrap_socket(c) \/ wrap_socketFails(c)
                        \/ _send_client_cid_announce(c) \/ receivedCidTlsFails(c)
                        \/ rxLoop(c)
    \/ \E g \in Guis : create_connectionFails(g) \/ disconnect(g) \/ destroy(g)

(* The threads run, and the time limit of connect() passes.  Nobody has to        *)
(* press a button.                                                             *)
RegistrationFairness ==
    /\ WF_regVars(Gateway)
    /\ \A c \in Conns : /\ WF_regVars(wrap_socketFails(c))
                        /\ WF_regVars(_send_client_cid_announce(c))

RegistrationSpec == RegistrationInit /\ [][RegistrationNext]_regVars /\ RegistrationFairness

-----------------------------------------------------------------------------
(* Type invariant. *)
RegistrationTypeOK ==
    /\ TypeOK
    /\ client \in [Guis -> Conns \cup {NoConn}]
    /\ connecting \in SUBSET Guis
    /\ peer \in [Conns -> PeerState]
    /\ backlog \in Seq(Conns) /\ Len(backlog) <= MaxBacklog
    /\ secured \in SUBSET Conns
    /\ abandoned \in SUBSET Conns

(* A session in the table, whose client's end is open, is the one its program      *)
(* uses, or one the program lost by Connect without Disconnect: a connect() that     *)
(* failed, timed out or was undone never leaves a session behind that blocks the      *)
(* CID, however late the accept thread comes to it.                               *)
SessionHasItsClient ==
    \A c \in Registered :
        \/ peer[c] = "left"
        \/ peer[c] = "announced" /\ (client[GuiOf[c]] = c \/ c \in abandoned)

(* The window never freezes for good: connect() returns even while the accept       *)
(* thread waits for another, silent client.                                       *)
ConnectReturns == \A g \in Guis : g \in connecting ~> g \notin connecting

(* The accept thread waits for a client that announces nothing. *)
Held == \E c \in Conns : transport[c] = "accepted" /\ peer[c] = "silent"

(* The accept thread comes to every connection in the listen queue, those that        *)
(* were given up included, unless a client that announces nothing holds it: a           *)
(* handshake that is never finished, a late or a closed connection never does.          *)
AcceptComesToAll ==
    \A c \in Conns : c \in Range(backlog) ~> c \notin Range(backlog) \/ Held
=============================================================================
