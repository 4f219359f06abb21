---------------------------- MODULE SessionService ----------------------------
(***************************************************************************)
(* What the session table promises, without the table: every client has a    *)
(* session of its own from registration to departure, and the gateway        *)
(* reaches sessions directly.  There is no map, no look-up by CID, no         *)
(* transport, thread or block flag.  SessionManager implements it.           *)
(***************************************************************************)
EXTENDS Naturals, Sequences

CONSTANTS Conns, CidOf, Frame, Diag(_)

VARIABLES
    live,       \* clients that have a session
    waiting,    \* client -> SIDs it waits for an answer to, oldest first
    outbound,   \* client -> frames for the MCU
    inbound     \* client -> frames for the client

vars == <<live, waiting, outbound, inbound>>

ServiceInit ==
    /\ live = {}
    /\ waiting = [c \in Conns |-> <<>>]
    /\ outbound = [c \in Conns |-> <<>>]
    /\ inbound = [c \in Conns |-> <<>>]

(* At most one client per CID has a session, and begins with nothing. *)
Join(c) ==
    /\ \A d \in live : CidOf[d] # CidOf[c]
    /\ waiting[c] = <<>> /\ outbound[c] = <<>> /\ inbound[c] = <<>>
    /\ live' = live \cup {c}
    /\ UNCHANGED <<waiting, outbound, inbound>>

(* A client takes what belongs to it along, and nothing else. *)
Leave(c) ==
    /\ c \in live
    /\ live' = live \ {c}
    /\ waiting' = [waiting EXCEPT ![c] = <<>>]
    /\ outbound' = [outbound EXCEPT ![c] = <<>>]
    /\ inbound' = [inbound EXCEPT ![c] = <<>>]

(* A request is on its way to the MCU and, if an answer is due, awaited. *)
Request(c, f) ==
    /\ c \in live
    /\ outbound' = [outbound EXCEPT ![c] = Append(@, f)]
    /\ waiting' = IF Diag(f.sid) THEN [waiting EXCEPT ![c] = Append(@, f.sid)] ELSE waiting
    /\ UNCHANGED <<live, inbound>>

(* The MCU gets the oldest frame of the client with the smallest CID. *)
Forward(c) ==
    /\ c \in live
    /\ outbound[c] # <<>>
    /\ \A d \in live : outbound[d] # <<>> => CidOf[c] <= CidOf[d]
    /\ outbound' = [outbound EXCEPT ![c] = Tail(@)]
    /\ UNCHANGED <<live, waiting, inbound>>

(* A frame that answers nothing goes to some clients. *)
Inform(S, f) ==
    /\ S \subseteq live
    /\ inbound' = [c \in Conns |-> IF c \in S THEN Append(inbound[c], f) ELSE inbound[c]]
    /\ UNCHANGED <<live, waiting, outbound>>

(* An answer goes to clients that wait for its SID before any other, and ends  *)
(* that wait.                                                               *)
Reply(S, f) ==
    /\ \A c \in S : c \in live /\ waiting[c] # <<>> /\ Head(waiting[c]) = f.sid
    /\ inbound' = [c \in Conns |-> IF c \in S THEN Append(inbound[c], f) ELSE inbound[c]]
    /\ waiting' = [c \in Conns |-> IF c \in S THEN Tail(waiting[c]) ELSE waiting[c]]
    /\ UNCHANGED <<live, outbound>>

(* A client gets its oldest frame. *)
Receive(c) ==
    /\ c \in live
    /\ inbound[c] # <<>>
    /\ inbound' = [inbound EXCEPT ![c] = Tail(@)]
    /\ UNCHANGED <<live, waiting, outbound>>

ServiceNext ==
    \/ \E c \in Conns : \/ Join(c) \/ Leave(c) \/ Forward(c) \/ Receive(c)
                        \/ \E f \in Frame : Request(c, f)
    \/ \E S \in SUBSET Conns, f \in Frame : Inform(S, f) \/ Reply(S, f)

ServiceSpec == ServiceInit /\ [][ServiceNext]_vars
=============================================================================
