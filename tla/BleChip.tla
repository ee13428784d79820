------------------------------ MODULE BleChip ------------------------------
(***************************************************************************)
(* The hierarchical state machine of the BLE chip's driver                 *)
(* (Libraries/BLE/FSM): which leaf state an event leads to, and which      *)
(* orders the handlers, the exit actions and the entry actions give to     *)
(* NrfCommunication, in that order.  ETL's hfsm (external) offers an event *)
(* to the leaf first and then to its parents, and runs no exit and no      *)
(* entry action when the target is the current leaf.                       *)
(***************************************************************************)
EXTENDS Sequences

Advertisable == {"StartingAdvertising", "Advertising", "Connected"} \* children of ENABLED
Ready == Advertisable \cup {"Configured"}                           \* children of READY
States == Ready \cup {"Off", "On", "Started", "Dfu"}

(***************************************************************************)
(* One row per on_event of BleChip.cpp that returns a state.               *)
(***************************************************************************)
LeafTransitions == {
  [on |-> "init",               from |-> {"Off"},            to |-> "On"],
  [on |-> "powerOff",           from |-> States \ {"Off"},   to |-> "Off"],
  [on |-> "started",            from |-> {"On"},             to |-> "Started"],
  [on |-> "started",            from |-> Advertisable,       to |-> "StartingAdvertising"],
  [on |-> "enteredDfu",         from |-> States \ {"Off", "Dfu"}, to |-> "Dfu"],
  [on |-> "configure",          from |-> {"Started"},        to |-> "Configured"],
  [on |-> "enableBle",          from |-> {"Configured"},     to |-> "StartingAdvertising"],
  [on |-> "advertisingStarted", from |-> {"StartingAdvertising"}, to |-> "Advertising"],
  [on |-> "connected",          from |-> {"Advertising"},    to |-> "Connected"],
  [on |-> "advertisingStopped", from |-> {"Advertising"},    to |-> "StartingAdvertising"],
  [on |-> "disconnected",       from |-> {"Connected"},      to |-> "StartingAdvertising"]}

\* Enabled::on_event(DisableBleEvent) leaves the composite state for its sibling
Transitions ==
  LeafTransitions \cup {[on |-> "disableBle", from |-> Advertisable, to |-> "Configured"]}

Target(state, event) ==
  IF \E t \in Transitions : t.on = event /\ state \in t.from
  THEN (CHOOSE t \in Transitions : t.on = event /\ state \in t.from).to
  ELSE state

(***************************************************************************)
(* What the handler itself orders.  A command of a client is passed on in  *)
(* the states that accept it, and dropped in the others; the parameter is  *)
(* the list of commands that configure the chip.                           *)
(***************************************************************************)
\* fault: the first configuration is left to the next start of the chip
Configures_OnRestart(state, event) == event = "started" /\ state \in Ready

Configures(state, event) ==
  \/ event = "configure" /\ state = "Started"
  \/ event = "started" /\ state \in Ready

HandlerOrders(state, event, Configuration) ==
  CASE event = "init" /\ state = "Off" -> <<"INIT">>
    [] event = "powerOff" /\ state # "Off" -> <<"POWEROFF">>
    [] Configures(state, event) -> Configuration
    [] event = "sendApplicationCommand" /\ state \in Ready \cup {"Started"} -> <<"data">>
    [] event = "sendBleCommand" /\ state \in Ready -> <<"data">>
    [] event = "sendDfuCommand" /\ state = "Dfu" -> <<"data">>
    [] OTHER -> <<>>

\* fault: leaving ENABLED leaves the chip advertising
ExitOrders_KeepsAdvertising(state, target) == <<>>

\* Enabled::on_exit_state
ExitOrders(state, target) ==
  IF state \in Advertisable /\ target \notin Advertisable THEN <<"advertisingOff">> ELSE <<>>

\* fault: advertising is ordered when BLE is enabled, and not again after a connection
EntryOrders_Once(state, target) ==
  IF target = "StartingAdvertising" /\ state = "Configured" THEN <<"advertisingOn">> ELSE <<>>

\* StartingAdvertising::on_enter_state, also as the default child of ENABLED
EntryOrders(state, target) ==
  IF target = "StartingAdvertising" /\ state # target THEN <<"advertisingOn">> ELSE <<>>

Orders(state, event, Configuration) ==
  LET target == Target(state, event)
  IN HandlerOrders(state, event, Configuration)
       \o ExitOrders(state, target) \o EntryOrders(state, target)
=============================================================================
