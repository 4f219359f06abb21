------------------------------- MODULE MCClient -------------------------------
(* A program may announce another CID the next time it connects.  Connections   *)
(* and lists have no variable in common and no property is about both, so each  *)
(* is explored with the other at rest.                                       *)
EXTENDS Registration, ClientGui, TLC

CONSTANTS c1, c2, c3, c4, g1, g2

MCConns == {c1, c2, c3, c4}
MCCidOf == (c1 :> 1 @@ c2 :> 1 @@ c3 :> 1 @@ c4 :> 2)
MCGuiOf == (c1 :> g1 @@ c2 :> g1 @@ c3 :> g2 @@ c4 :> g2)

VARIABLE part           \* which of the two this behaviour is about

mcVars == <<regVars, guiVars, part>>
Connections == part = "connections" /\ UNCHANGED <<guiVars, part>>
Lists == part = "lists" /\ UNCHANGED <<regVars, part>>

MCInit == RegistrationInit /\ GuiInit /\ part \in {"connections", "lists"}

MCNext == (RegistrationNext /\ Connections) \/ (GuiNext /\ Lists)

MCFairness ==
    /\ WF_mcVars(Gateway /\ Connections)
    /\ \A c \in Conns : /\ WF_mcVars(wrap_socketFails(c) /\ Connections)
                        /\ WF_mcVars(_send_client_cid_announce(c) /\ Connections)

MCSpec == MCInit /\ [][MCNext]_mcVars /\ MCFairness
=============================================================================
