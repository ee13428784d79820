-------------------------- MODULE PowerStateMachine --------------------------
(***************************************************************************)
(* The power state machine of the keyboard                                 *)
(* (Middlewares/Nemeio/PowerManager/PowerStateMachine): it decides, from   *)
(* user and system activity, from the USB supply and from the time spent   *)
(* without activity, whether the keyboard is active, asleep or off, tells  *)
(* the IPowerManageable listeners, and fixes the delay after which the     *)
(* next timeout event is due.                                              *)
(*                                                                         *)
(* Delays are abstract values; only INFINITE_DELAY is told apart, because  *)
(* a task that waits for ever gets no timeout event.                       *)
(***************************************************************************)
EXTENDS UsbPowerState

CONSTANTS
    Delay,            \* the delays a Timeouts structure may hold
    INFINITE_DELAY,   \* the delay that never elapses
    TimeoutSets,      \* the Timeouts structures updateTimeouts may be given
    DefaultTimeouts   \* the Timeouts structure of a new state machine

TimeoutFields ==
    {"activeTimeout", "inactiveTimeout", "longInactiveTimeout",
     "activeUSBDisconnectedTimeout", "inactiveUSBDisconnectedTimeout",
     "longInactiveUSBDisconnectedTimeout", "sleepUSBDisconnectedTimeout"}

ASSUME DelayAssumption == INFINITE_DELAY \in Delay

ASSUME TimeoutsAssumption ==
    /\ TimeoutSets \subseteq [TimeoutFields -> Delay]
    /\ DefaultTimeouts \in [TimeoutFields -> Delay]
    /\ DefaultTimeouts["activeUSBDisconnectedTimeout"] = INFINITE_DELAY

VARIABLES
    psmState,                \* the state of the etl::fsm
    mPowerConnectionState,   \* the last USB supply the machine was told
    mTimeouts,               \* the delays in force
    mCurrentTimeout,         \* the delay the activity task waits
    m_previousNotifiedState, \* the state the listeners were last notified of
    listenerState            \* the IPowerManageable callback they got last

psmVars == <<psmState, mPowerConnectionState, mTimeouts, mCurrentTimeout,
             m_previousNotifiedState, listenerState>>

StateId == {"ACTIVE", "INACTIVE", "LONG_INACTIVE", "SLEEP",
            "SLEEP_USB_DISCONNECTED", "OFF", "DEMO", "SUSPENDED"}

Callback == {"active", "inactive", "longInactive", "sleep", "powerOff",
             "suspend"}

-----------------------------------------------------------------------------

(* The doSetCurrentTimeout... action that entering state s runs. *)
TimeoutOf(s, connection, timeouts) ==
    LET pick(powered, onBattery) ==
            timeouts[IF isUsbConnected(connection) THEN powered ELSE onBattery]
    IN  CASE s = "ACTIVE" ->
                pick("activeTimeout", "activeUSBDisconnectedTimeout")
          [] s = "INACTIVE" ->
                pick("inactiveTimeout", "inactiveUSBDisconnectedTimeout")
          [] s = "LONG_INACTIVE" ->
                pick("longInactiveTimeout",
                     "longInactiveUSBDisconnectedTimeout")
          [] s = "SLEEP_USB_DISCONNECTED" /\ ~isUsbConnected(connection) ->
                timeouts["sleepUSBDisconnectedTimeout"]
          [] OTHER -> INFINITE_DELAY

(* The callback doNotifyStateChange makes for a state; DEMO has none. *)
CallbackOf(s) ==
    CASE s = "ACTIVE"        -> "active"
      [] s = "INACTIVE"      -> "inactive"
      [] s = "LONG_INACTIVE" -> "longInactive"
      [] s = "OFF"           -> "powerOff"
      [] s = "SUSPENDED"     -> "suspend"
      [] OTHER               -> "sleep"

doNotifyStateChange_SkipsDemo(s) ==    \* fault: only a callback is recorded
    IF s # m_previousNotifiedState /\ s # "DEMO"
    THEN listenerState' = CallbackOf(s) /\ m_previousNotifiedState' = s
    ELSE UNCHANGED <<listenerState, m_previousNotifiedState>>

doNotifyStateChange(s) ==
    /\ listenerState' = IF s # m_previousNotifiedState /\ s # "DEMO"
                        THEN CallbackOf(s) ELSE listenerState
    /\ m_previousNotifiedState' = s

Enter_KeepsDelay(s) ==    \* fault: no on_enter_state on a self-transition
    /\ psmState' = s
    /\ doNotifyStateChange(s)
    /\ mCurrentTimeout' = IF s = psmState THEN mCurrentTimeout
                          ELSE TimeoutOf(s, mPowerConnectionState', mTimeouts')

(* on_enter_state of state s, a self-transition included. *)
Enter(s) ==
    /\ psmState' = s
    /\ doNotifyStateChange(s)
    /\ mCurrentTimeout' = TimeoutOf(s, mPowerConnectionState', mTimeouts')

(* on_event_unknown: the event changes nothing. *)
Ignore ==
    UNCHANGED <<psmState, mCurrentTimeout, m_previousNotifiedState,
                listenerState>>

-----------------------------------------------------------------------------
(* One operator per event: what receive(event) does in each state. *)

TimeoutEvent ==
    \/ psmState = "ACTIVE" /\ Enter("INACTIVE")
    \/ psmState = "INACTIVE" /\ Enter("LONG_INACTIVE")
    \/ /\ psmState = "LONG_INACTIVE"
       /\ Enter(IF isUsbConnected(mPowerConnectionState)
                THEN "SLEEP" ELSE "SLEEP_USB_DISCONNECTED")
    \/ psmState = "SLEEP_USB_DISCONNECTED" /\ Enter("OFF")
    \/ psmState \in {"SLEEP", "OFF", "DEMO", "SUSPENDED"} /\ Ignore

UserActivityEvent ==
    \/ psmState \notin {"OFF", "DEMO"} /\ Enter("ACTIVE")
    \/ psmState \in {"OFF", "DEMO"} /\ Ignore

SystemActivityEvent ==
    \/ psmState = "LONG_INACTIVE" /\ Enter("LONG_INACTIVE")
    \/ psmState # "LONG_INACTIVE" /\ Ignore

DemoStartEvent ==
    \/ psmState \notin {"OFF", "DEMO", "SUSPENDED"} /\ Enter("DEMO")
    \/ psmState \in {"OFF", "DEMO", "SUSPENDED"} /\ Ignore

DemoStopEvent ==
    \/ psmState = "DEMO" /\ Enter("ACTIVE")
    \/ psmState # "DEMO" /\ Ignore

SuspendEvent ==
    \/ psmState \notin {"OFF", "SUSPENDED"} /\ Enter("SUSPENDED")
    \/ psmState \in {"OFF", "SUSPENDED"} /\ Ignore

PowerOffEvent ==
    \/ psmState # "OFF" /\ Enter("OFF")
    \/ psmState = "OFF" /\ Ignore

-----------------------------------------------------------------------------
(* The public operations. *)

SameInputs == UNCHANGED <<mPowerConnectionState, mTimeouts>>

timeout == SameInputs /\ TimeoutEvent
userActivityDetected == SameInputs /\ UserActivityEvent
systemActivityDetected == SameInputs /\ SystemActivityEvent
startDemo == SameInputs /\ DemoStartEvent
stopDemo == SameInputs /\ DemoStopEvent
powerOff == SameInputs /\ PowerOffEvent

updateTimeouts(timeouts) ==
    /\ mTimeouts' = timeouts
    /\ UNCHANGED mPowerConnectionState
    /\ UserActivityEvent

updatePowerConnectionState_QuietUnplug(connection) ==    \* fault: PLUG_OUT is
    /\ mPowerConnectionState' = connection              \* no activity
    /\ UNCHANGED mTimeouts
    /\ \/ connection \in {"NONE", "PLUG_OUT"} /\ Ignore
       \/ connection = "PLUG_IN_PC_SUSPENDED" /\ SuspendEvent
       \/ connection \in {"PLUG_IN_PC", "PLUG_IN_POWER_SUPPLY_ONLY"}
          /\ UserActivityEvent

updatePowerConnectionState(connection) ==
    /\ mPowerConnectionState' = connection
    /\ UNCHANGED mTimeouts
    /\ \/ connection = "NONE" /\ Ignore
       \/ connection = "PLUG_IN_PC_SUSPENDED" /\ SuspendEvent
       \/ /\ connection \in {"PLUG_IN_PC", "PLUG_IN_POWER_SUPPLY_ONLY",
                             "PLUG_OUT"}
          /\ UserActivityEvent

Init ==
    /\ psmState = "ACTIVE"
    /\ mPowerConnectionState = "NONE"
    /\ mTimeouts = DefaultTimeouts
    /\ mCurrentTimeout = INFINITE_DELAY
    /\ m_previousNotifiedState = "ACTIVE"
    /\ listenerState = "active"

(* The callers never report NONE: it is only the value before the first    *)
(* report. A timeout event comes only once a finite delay has elapsed.     *)
Next ==
    \/ mCurrentTimeout # INFINITE_DELAY /\ timeout
    \/ userActivityDetected
    \/ systemActivityDetected
    \/ startDemo
    \/ stopDemo
    \/ powerOff
    \/ \E t \in TimeoutSets : updateTimeouts(t)
    \/ \E c \in ReportedSupply : updatePowerConnectionState(c)

Spec == Init /\ [][Next]_psmVars

-----------------------------------------------------------------------------

(* Every variable holds a value of its kind. *)
TypeOK ==
    /\ psmState \in StateId
    /\ mPowerConnectionState \in USB_POWER_CONNECTION_STATE
    /\ mTimeouts \in [TimeoutFields -> Delay]
    /\ mCurrentTimeout \in Delay
    /\ m_previousNotifiedState \in StateId
    /\ listenerState \in Callback

(* The delay the activity task waits is always the one the state, the USB  *)
(* supply and the delays in force ask for: no change of one of them leaves *)
(* a stale delay behind, although the delay is only computed on entry to a *)
(* state (PowerStateMachine.cpp:236-262).                                  *)
CurrentTimeoutFresh ==
    mCurrentTimeout = TimeoutOf(psmState, mPowerConnectionState, mTimeouts)

(* The sleep the keyboard is in is the one of its supply: only the sleep   *)
(* on battery leads to OFF by itself, so a plugged keyboard never does     *)
(* (PowerStateMachine.cpp:74-77, 142-145).                                 *)
SleepMatchesSupply ==
    /\ psmState = "SLEEP" => isUsbConnected(mPowerConnectionState)
    /\ psmState = "SLEEP_USB_DISCONNECTED" =>
           ~isUsbConnected(mPowerConnectionState)

(* Outside the demo the listeners' last callback is the one of the state,  *)
(* although a callback is skipped when the state equals the one last       *)
(* notified and the demo makes none (PowerStateMachine.cpp:362-404).       *)
ListenersInformed ==
    /\ m_previousNotifiedState = psmState
    /\ psmState # "DEMO" => listenerState = CallbackOf(psmState)

(* The suspended state means a suspended host: a supply reported since     *)
(* then has woken the keyboard up (PowerStateMachine.cpp:270-293).         *)
SuspendedOnlyWithHost ==
    psmState = "SUSPENDED" => mPowerConnectionState = "PLUG_IN_PC_SUSPENDED"

=============================================================================
