------------------------------- MODULE ClientGui -------------------------------
(***************************************************************************)
(* The lists of the test PC program (gui.py): which MCUs have advertised       *)
(* themselves and what services they offer, which MCU and which service are    *)
(* selected, and what the service list shows.  Everything runs in the GUI      *)
(* thread, one event at a time.                                             *)
(*                                                                         *)
(* The rows of the service list are a Tk Listbox, which ignores insertions,    *)
(* deletions and selections while its state is "disabled".                    *)
(***************************************************************************)
CONSTANTS
    Mcus,       \* CIDs of MCUs
    Services,   \* SIDs an advertisement may list
    None        \* nothing selected, nothing sent

ASSUME NoneAssumption == None \notin Mcus \cup Services

VARIABLES
    mcus,           \* MCUs heard of
    services,       \* MCU -> SIDs it has advertised
    online,         \* MCUs heard of within OFFLINE_TIMEOUT_SEC
    selected_cid, selected_sid,
    rows,           \* SIDs shown in the service list
    curselection,   \* the one marked in it
    enabled,        \* its state is "normal"
    stale,          \* history: the MCU was selected while the list was disabled,
                    \* and nothing has been put into the list since
    sent            \* the last request: MCU, SID and stale at that time

guiVars == <<mcus, services, online, selected_cid, selected_sid, rows, curselection,
             enabled, stale, sent>>

(* __init__, _build_ui *)
GuiInit ==
    /\ mcus = {}
    /\ services = [m \in Mcus |-> {}]
    /\ online = {}
    /\ selected_cid = None /\ selected_sid = None
    /\ rows = {} /\ curselection = None
    /\ enabled = FALSE
    /\ stale = FALSE
    /\ sent = None

(* Mutant: the service stays selected whatever the MCU offers. *)
refresh_service_list_KeepsService(offered) ==
    /\ rows' = IF enabled THEN offered ELSE rows
    /\ curselection' = IF enabled THEN selected_sid ELSE curselection
    /\ stale' = ~enabled
    /\ UNCHANGED selected_sid

(* A service stays selected when the MCU offers it too. *)
refresh_service_list(offered) ==
    /\ rows' = IF enabled THEN offered ELSE rows
    /\ selected_sid' = IF selected_sid \in offered THEN selected_sid ELSE None
    /\ curselection' = IF enabled THEN selected_sid' ELSE curselection
    /\ stale' = ~enabled

(* Mutant: the service list waits for the next click. *)
_handle_frame_NoRefresh(m, found) ==
    /\ mcus' = mcus \cup {m}
    /\ services' = [services EXCEPT ![m] = @ \cup found]
    /\ online' = online \cup {m}
    /\ UNCHANGED <<selected_cid, selected_sid, rows, curselection, enabled, stale, sent>>

(* SERVICE_ADVERTISE: services are added, never taken back. *)
_handle_frame(m, found) ==
    /\ mcus' = mcus \cup {m}
    /\ services' = [services EXCEPT ![m] = @ \cup found]
    /\ online' = online \cup {m}
    /\ IF selected_cid = m THEN refresh_service_list(services'[m])
                           ELSE UNCHANGED <<selected_sid, rows, curselection, stale>>
    /\ UNCHANGED <<selected_cid, enabled, sent>>

(* Ten seconds without an advertisement. *)
_is_offline(m) ==
    /\ m \in online
    /\ online' = online \ {m}
    /\ UNCHANGED <<mcus, services, selected_cid, selected_sid, rows, curselection, enabled,
                   stale, sent>>

(* The selected MCU is found to be offline. *)
_tick ==
    /\ selected_cid # None
    /\ selected_cid \notin online
    /\ selected_cid' = None
    /\ enabled' = FALSE
    /\ UNCHANGED <<mcus, services, online, selected_sid, rows, curselection, stale, sent>>

(* The list is refreshed before it is enabled. *)
on_mcu_select(m) ==
    /\ m \in mcus
    /\ \/ /\ m \notin online
          /\ selected_cid' = None
          /\ enabled' = FALSE
          /\ UNCHANGED <<selected_sid, rows, curselection, stale>>
       \/ /\ m \in online
          /\ selected_cid' = m
          /\ refresh_service_list(services[m])
          /\ enabled' = TRUE
    /\ UNCHANGED <<mcus, services, online, sent>>

on_service_select(s) ==
    /\ s \in rows
    /\ enabled \/ s = curselection
    /\ curselection' = s
    /\ selected_sid' = s
    /\ UNCHANGED <<mcus, services, online, selected_cid, rows, enabled, stale, sent>>

send_selected_service ==
    /\ selected_cid # None
    /\ selected_sid # None
    /\ sent' = [cid |-> selected_cid, sid |-> selected_sid, stale |-> stale]
    /\ UNCHANGED <<mcus, services, online, selected_cid, selected_sid, rows, curselection,
                   enabled, stale>>

GuiNext ==
    \/ \E m \in Mcus : \/ \E found \in SUBSET Services : _handle_frame(m, found)
                       \/ _is_offline(m) \/ on_mcu_select(m)
    \/ _tick
    \/ \E s \in Services : on_service_select(s)
    \/ send_selected_service

GuiSpec == GuiInit /\ [][GuiNext]_guiVars

-----------------------------------------------------------------------------
(* A request goes to an MCU that has advertised the service, although MCU and     *)
(* service are selected apart from each other, lists change with every               *)
(* advertisement and MCUs go offline in between.  The exception: an MCU selected      *)
(* while the list was disabled shows the rows of the one before, until its next        *)
(* advertisement or the next event of the selecting click.                          *)
RequestIsOffered == sent # None => sent.sid \in services[sent.cid] \/ sent.stale

(* What the service list shows is what the selected MCU offers, with the same         *)
(* exception; and nothing can be selected in it that the MCU does not offer.          *)
ListShowsSelectedMcu ==
    selected_cid # None /\ ~stale =>
        /\ enabled
        /\ rows = services[selected_cid]
        /\ selected_sid \in rows \cup {None}
=============================================================================
