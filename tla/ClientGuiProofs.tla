---------------------------- MODULE ClientGuiProofs ----------------------------
(***************************************************************************)
(* For any number of MCUs and services, what the service list shows and what  *)
(* is requested from it is what the selected MCU offers.                      *)
(***************************************************************************)
EXTENDS ClientGui, TLAPS

Request == [cid : Mcus, sid : Services, stale : BOOLEAN]

GuiTypeOK ==
    /\ services \in [Mcus -> SUBSET Services]
    /\ selected_cid \in Mcus \cup {None}
    /\ selected_sid \in Services \cup {None}
    /\ rows \in SUBSET Services
    /\ enabled \in BOOLEAN
    /\ stale \in BOOLEAN
    /\ sent \in Request \cup {None}

(* The two properties need each other: a request is made from the selection, and *)
(* the selection is made in the list.                                          *)
GuiInv == GuiTypeOK /\ ListShowsSelectedMcu /\ RequestIsOffered

-----------------------------------------------------------------------------
(* What a refresh of the list leaves behind. *)
LEMMA RefreshedList ==
  ASSUME GuiTypeOK, NEW offered \in SUBSET Services, refresh_service_list(offered)
  PROVE  /\ rows' \in SUBSET Services
         /\ selected_sid' \in offered \cup {None}
         /\ stale' = ~enabled
         /\ enabled => rows' = offered
  BY DEF refresh_service_list, GuiTypeOK

LEMMA InitGuiInv == GuiInit => GuiInv
  BY DEF GuiInit, GuiInv, GuiTypeOK, ListShowsSelectedMcu, RequestIsOffered

(* An advertisement only adds services. *)
LEMMA HandleFrameKeepsInv ==
  ASSUME GuiInv, NEW m \in Mcus, NEW found \in SUBSET Services, _handle_frame(m, found)
  PROVE  GuiInv'
<1> USE DEF GuiInv, GuiTypeOK
<1>1. /\ services' \in [Mcus -> SUBSET Services]
      /\ services'[m] \in SUBSET Services
      /\ \A n \in Mcus : services[n] \subseteq services'[n]
      /\ \A n \in Mcus \ {m} : services'[n] = services[n]
      /\ UNCHANGED <<selected_cid, enabled, sent>>
  BY DEF _handle_frame
<1>2. RequestIsOffered'
  <2>1. CASE sent = None
    BY <1>1, <2>1 DEF RequestIsOffered
  <2>2. CASE sent # None
    <3>1. sent \in Request /\ (sent.sid \in services[sent.cid] \/ sent.stale)
      BY <2>2 DEF RequestIsOffered
    <3>2. sent.cid \in Mcus
      BY <3>1 DEF Request
    <3> QED
      BY <1>1, <3>1, <3>2 DEF RequestIsOffered
  <2> QED
    BY <2>1, <2>2
<1>3. CASE selected_cid = m
  <2>1. refresh_service_list(services'[m])
    BY <1>3 DEF _handle_frame
  <2>2. /\ rows' \in SUBSET Services
        /\ selected_sid' \in services'[m] \cup {None}
        /\ stale' = ~enabled
        /\ enabled => rows' = services'[m]
    BY <1>1, <2>1, RefreshedList
  <2>3. ListShowsSelectedMcu'
    BY <1>1, <1>3, <2>2 DEF ListShowsSelectedMcu
  <2> QED
    BY <1>1, <1>2, <2>2, <2>3
<1>4. CASE selected_cid # m
  <2>1. UNCHANGED <<selected_sid, rows, stale>>
    BY <1>4 DEF _handle_frame
  <2>2. ListShowsSelectedMcu'
    BY <1>1, <1>4, <2>1 DEF ListShowsSelectedMcu
  <2> QED
    BY <1>1, <1>2, <2>1, <2>2
<1> QED
  BY <1>3, <1>4

LEMMA SelectKeepsInv ==
  ASSUME GuiInv, NEW m \in Mcus, on_mcu_select(m)
  PROVE  GuiInv'
<1> USE DEF GuiInv, GuiTypeOK
<1>1. UNCHANGED <<services, sent>>
  BY DEF on_mcu_select
<1>2. RequestIsOffered'
  BY <1>1 DEF RequestIsOffered
<1>3. CASE m \notin online
  <2>1. selected_cid' = None /\ enabled' = FALSE /\ UNCHANGED <<selected_sid, rows, stale>>
    BY <1>3 DEF on_mcu_select
  <2>2. ListShowsSelectedMcu'
    BY <2>1 DEF ListShowsSelectedMcu
  <2> QED
    BY <1>1, <1>2, <2>1, <2>2
<1>4. CASE m \in online
  <2>1. selected_cid' = m /\ enabled' = TRUE /\ refresh_service_list(services[m])
    BY <1>4 DEF on_mcu_select
  <2>2. /\ rows' \in SUBSET Services
        /\ selected_sid' \in services[m] \cup {None}
        /\ stale' = ~enabled
        /\ enabled => rows' = services[m]
    BY <2>1, RefreshedList
  <2>3. ListShowsSelectedMcu'
    BY <1>1, <2>1, <2>2 DEF ListShowsSelectedMcu
  <2> QED
    BY <1>1, <1>2, <2>1, <2>2, <2>3
<1> QED
  BY <1>3, <1>4

LEMMA SendKeepsInv ==
  ASSUME GuiInv, send_selected_service
  PROVE  GuiInv'
<1> USE DEF GuiInv, GuiTypeOK
<1>1. /\ selected_cid \in Mcus /\ selected_sid \in Services
      /\ sent' = [cid |-> selected_cid, sid |-> selected_sid, stale |-> stale]
      /\ UNCHANGED <<services, selected_cid, selected_sid, rows, enabled, stale>>
  BY DEF send_selected_service
<1>2. ListShowsSelectedMcu'
  BY <1>1 DEF ListShowsSelectedMcu
<1>3. selected_sid \in services[selected_cid] \/ stale
  BY <1>1, NoneAssumption DEF ListShowsSelectedMcu
<1>4. RequestIsOffered'
  BY <1>1, <1>3 DEF RequestIsOffered
<1>5. sent' \in Request
  BY <1>1 DEF Request
<1> QED
  BY <1>1, <1>2, <1>4, <1>5

LEMMA NextGuiInv == GuiInv /\ [GuiNext]_guiVars => GuiInv'
<1> SUFFICES ASSUME GuiInv, [GuiNext]_guiVars PROVE GuiInv'
  OBVIOUS
<1>1. ASSUME NEW m \in Mcus, NEW found \in SUBSET Services, _handle_frame(m, found)
      PROVE  GuiInv'
  BY <1>1, HandleFrameKeepsInv
<1>2. ASSUME NEW m \in Mcus, _is_offline(m) PROVE GuiInv'
  BY <1>2 DEF _is_offline, GuiInv, GuiTypeOK, ListShowsSelectedMcu, RequestIsOffered
<1>3. ASSUME NEW m \in Mcus, on_mcu_select(m) PROVE GuiInv'
  BY <1>3, SelectKeepsInv
<1>4. ASSUME _tick PROVE GuiInv'
  BY <1>4 DEF _tick, GuiInv, GuiTypeOK, ListShowsSelectedMcu, RequestIsOffered
<1>5. ASSUME NEW s \in Services, on_service_select(s) PROVE GuiInv'
  BY <1>5 DEF on_service_select, GuiInv, GuiTypeOK, ListShowsSelectedMcu, RequestIsOffered
<1>6. ASSUME send_selected_service PROVE GuiInv'
  BY <1>6, SendKeepsInv
<1>7. ASSUME UNCHANGED guiVars PROVE GuiInv'
  BY <1>7 DEF guiVars, GuiInv, GuiTypeOK, ListShowsSelectedMcu, RequestIsOffered
<1> QED
  BY <1>1, <1>2, <1>3, <1>4, <1>5, <1>6, <1>7 DEF GuiNext

(* The service list of the test PC program shows what the selected MCU has        *)
(* advertised, except after a selection made while the list was disabled.        *)
THEOREM ListIsOfSelectedMcu == GuiSpec => []ListShowsSelectedMcu
  BY InitGuiInv, NextGuiInv, PTL DEF GuiSpec, GuiInv

(* A request only names a service that its MCU has advertised, with the same       *)
(* exception (on_mcu_select, on_service_select, send_selected_service).          *)
THEOREM OfferedRequestsOnly == GuiSpec => []RequestIsOffered
  BY InitGuiInv, NextGuiInv, PTL DEF GuiSpec, GuiInv
=============================================================================
