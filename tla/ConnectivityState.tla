-------------------------- MODULE ConnectivityState --------------------------
(***************************************************************************)
(* Which link the keyboard talks over (Libraries/Connectivity): USB, BLE   *)
(* or none. The power manager task reports every change of the USB supply, *)
(* the activity task that the keyboard wakes up or falls asleep. Both run  *)
(* through the same mState without a mutex and tell the listeners          *)
(* themselves, one after the other; a listener may make its caller wait.   *)
(*                                                                         *)
(* The pc of a call:                                                       *)
(*   idle -> check (switch on mState) -> compare -> write (setState)       *)
(*        -> select (notifyState) -> notify, once per listener -> idle     *)
(***************************************************************************)
EXTENDS Sequences, Naturals

Caller == {"powerManagerTask", "activityTask"}

ConnectivityStateValue == {"NONE", "BLE", "USB"}

(* The listeners, in the order they are told. *)
Listeners ==
    <<"AppCommProxy", "BleActivationStrategy", "KeyLockStatesDispatcher">>

Listener == {Listeners[i] : i \in 1..Len(Listeners)}

SupplyOperation ==
    {"usbPluggedInComputer", "usbPluggedInComputerSuspended",
     "usbPluggedInPowerSupplyOnly", "usbPluggedOut"}

PowerOperation == {"active", "sleep"}

Operation == SupplyOperation \cup PowerOperation

(* No caller is inside an operation. A call is: where it stands, the       *)
(* operation, the change it tells the listeners of, how many it has told,  *)
(* and whether the operation met one of the other caller.                  *)
NoCall ==
    [pc |-> "idle", operation |-> "active", change |-> "NONE", told |-> 0,
     crossed |-> FALSE]

VARIABLES
    mState,       \* the link in force
    call,         \* where each caller stands
    told,         \* what each listener was last told
    overlapped    \* two operations met, and no supply told alone since

connectivityVars == <<mState, call, told, overlapped>>

-----------------------------------------------------------------------------

LeadsTo_SuspendKeepsUsb(operation) ==    \* fault: a suspended host keeps USB
    CASE operation \in {"usbPluggedInComputer",
                        "usbPluggedInComputerSuspended"} -> "USB"
      [] operation = "sleep" -> "NONE"
      [] OTHER -> "BLE"

(* The state an operation sets. *)
LeadsTo(operation) ==
    CASE operation = "usbPluggedInComputer" -> "USB"
      [] operation = "sleep" -> "NONE"
      [] OTHER -> "BLE"

LeavesFrom_BleOnly(operation) ==    \* fault: only BLE gives way to USB
    CASE operation \in {"sleep", "usbPluggedInComputer"} -> {"BLE"}
      [] operation = "active" -> {"NONE"}
      [] OTHER -> ConnectivityStateValue \ {LeadsTo(operation)}

(* The states in which an operation does something. *)
LeavesFrom(operation) ==
    CASE operation = "sleep" -> {"BLE"}
      [] operation = "active" -> {"NONE"}
      [] OTHER -> ConnectivityStateValue \ {LeadsTo(operation)}

Idle(c) == call[c].pc = "idle"

GoTo(c, pc) == call' = [call EXCEPT ![c].pc = pc]

Return(c) == call' = [call EXCEPT ![c] = NoCall]

(* A caller enters an operation. That two callers are at it together is    *)
(* only recorded.                                                          *)
Call(c, operation) ==
    LET busy == {other \in Caller \ {c} : ~Idle(other)}
    IN  /\ Idle(c)
        /\ call' = [d \in Caller |->
               IF d = c
               THEN [NoCall EXCEPT !.pc = "check", !.operation = operation,
                                   !.crossed = busy # {}]
               ELSE [call[d] EXCEPT !.crossed = d \in busy]]
        /\ overlapped' = (overlapped \/ busy # {})
        /\ UNCHANGED <<mState, told>>

(* The switch on mState with which every operation begins. *)
Check(c) ==
    /\ call[c].pc = "check"
    /\ \/ mState \in LeavesFrom(call[c].operation) /\ GoTo(c, "compare")
       \/ mState \notin LeavesFrom(call[c].operation) /\ Return(c)
    /\ UNCHANGED <<mState, told, overlapped>>

(* setState compares, then writes. *)
Compare(c) ==
    /\ call[c].pc = "compare"
    /\ \/ mState # LeadsTo(call[c].operation) /\ GoTo(c, "write")
       \/ mState = LeadsTo(call[c].operation) /\ Return(c)
    /\ UNCHANGED <<mState, told, overlapped>>

Write(c) ==
    /\ call[c].pc = "write"
    /\ mState' = LeadsTo(call[c].operation)
    /\ GoTo(c, "select")
    /\ UNCHANGED <<told, overlapped>>

(* notifyState looks at mState again, not at the state it is given. *)
Select(c) ==
    /\ call[c].pc = "select"
    /\ call' = [call EXCEPT ![c].pc = "notify", ![c].change = mState]
    /\ UNCHANGED <<mState, told, overlapped>>

(* A change of supply that nobody crossed sets everything right again. *)
Repairs(c) == c = "powerManagerTask" /\ ~call[c].crossed

Notify_FirstOnly(c) ==    \* fault: only the first listener is told
    /\ call[c].pc = "notify"
    /\ told' = [told EXCEPT ![Listeners[1]] = call[c].change]
    /\ Return(c)
    /\ overlapped' = (overlapped /\ ~Repairs(c))
    /\ UNCHANGED mState

(* The next listener is told. *)
Notify(c) ==
    LET position == call[c].told + 1
    IN  /\ call[c].pc = "notify"
        /\ told' = [told EXCEPT ![Listeners[position]] = call[c].change]
        /\ \/ /\ position < Len(Listeners)
              /\ call' = [call EXCEPT ![c].told = position]
              /\ UNCHANGED overlapped
           \/ /\ position = Len(Listeners)
              /\ Return(c)
              /\ overlapped' = (overlapped /\ ~Repairs(c))
        /\ UNCHANGED mState

CallStep(c) == Check(c) \/ Compare(c) \/ Write(c) \/ Select(c) \/ Notify(c)

ConnectivityInit ==
    /\ mState = "NONE"
    /\ call = [c \in Caller |-> NoCall]
    /\ told = [l \in Listener |-> "NONE"]
    /\ overlapped = FALSE

-----------------------------------------------------------------------------

(* When nobody is inside an operation, every listener is on the link in    *)
(* force, unless two operations met since the last supply told alone       *)
(* (AbstractConnectivityState.cpp:18-34, 98-105).                          *)
ListenersOnLink ==
    (\A c \in Caller : Idle(c)) /\ ~overlapped =>
        \A l \in Listener : told[l] = mState

=============================================================================
