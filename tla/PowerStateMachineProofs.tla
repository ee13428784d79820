----------------------- MODULE PowerStateMachineProofs -----------------------
(* The invariants of the power state machine, for every set of delays.     *)
EXTENDS PowerStateMachine, TLAPS

(* The conjunction is inductive: freshness of the delay rests on the       *)
(* machine leaving its sleep and suspended states whenever the supply      *)
(* changes, which the last two conjuncts record.                           *)
PsmInv ==
    /\ TypeOK
    /\ CurrentTimeoutFresh
    /\ SleepMatchesSupply
    /\ ListenersInformed
    /\ SuspendedOnlyWithHost

(* The delay computed on entry is a delay of the machine. *)
LEMMA TimeoutOfType ==
    ASSUME NEW s \in StateId, NEW c \in USB_POWER_CONNECTION_STATE,
           NEW t \in [TimeoutFields -> Delay]
    PROVE  TimeoutOf(s, c, t) \in Delay
  BY DelayAssumption DEF TimeoutOf, StateId, TimeoutFields

(* A state without a delay of its own waits for ever; the delay of SLEEP,  *)
(* OFF, DEMO and SUSPENDED depends on neither the supply nor the delays.   *)
LEMMA TimeoutOfUntimed ==
    ASSUME NEW s \in {"SLEEP", "OFF", "DEMO", "SUSPENDED"}, NEW c, NEW t
    PROVE  TimeoutOf(s, c, t) = INFINITE_DELAY
  BY DEF TimeoutOf

(* The callback of every state is one of the interface's. *)
LEMMA CallbackOfType ==
    ASSUME NEW s \in StateId
    PROVE  CallbackOf(s) \in Callback
  BY DEF CallbackOf, Callback, StateId

(* Entering a state sets the delay and informs the listeners. *)
LEMMA EnterKeeps ==
    ASSUME TypeOK, ListenersInformed, NEW s \in StateId, Enter(s),
           mPowerConnectionState' \in USB_POWER_CONNECTION_STATE,
           mTimeouts' \in [TimeoutFields -> Delay]
    PROVE  TypeOK' /\ CurrentTimeoutFresh' /\ ListenersInformed'
  <1>1. TypeOK'
    BY TimeoutOfType, CallbackOfType
    DEF TypeOK, Enter, doNotifyStateChange
  <1>2. CurrentTimeoutFresh'
    BY DEF Enter, CurrentTimeoutFresh
  <1>3. ListenersInformed'
    BY DEF Enter, ListenersInformed, doNotifyStateChange
  <1> QED  BY <1>1, <1>2, <1>3

(* An event that is ignored keeps everything, provided the supply and the  *)
(* delays stay, or the state waits for ever whatever they are.             *)
LEMMA IgnoreKeeps ==
    ASSUME PsmInv, Ignore,
           mPowerConnectionState' \in USB_POWER_CONNECTION_STATE,
           mTimeouts' \in [TimeoutFields -> Delay],
           SameInputs \/ psmState \in {"OFF", "DEMO"}
    PROVE  PsmInv'
  <1>1. TypeOK' /\ ListenersInformed'
    BY DEF PsmInv, TypeOK, ListenersInformed, Ignore
  <1>2. CurrentTimeoutFresh'
    <2>1. CASE SameInputs
      BY <2>1 DEF PsmInv, CurrentTimeoutFresh, Ignore, SameInputs
    <2>2. CASE psmState \in {"OFF", "DEMO"}
      BY <2>2, TimeoutOfUntimed DEF PsmInv, CurrentTimeoutFresh, Ignore
    <2> QED  BY <2>1, <2>2
  <1>3. SleepMatchesSupply' /\ SuspendedOnlyWithHost'
    BY DEF PsmInv, SleepMatchesSupply, SuspendedOnlyWithHost, Ignore,
           SameInputs
  <1> QED  BY <1>1, <1>2, <1>3 DEF PsmInv

(* Every event that wakes the keyboard up keeps the invariant. *)
LEMMA UserActivityKeeps ==
    ASSUME PsmInv, UserActivityEvent,
           mPowerConnectionState' \in USB_POWER_CONNECTION_STATE,
           mTimeouts' \in [TimeoutFields -> Delay]
    PROVE  PsmInv'
  <1>1. CASE psmState \notin {"OFF", "DEMO"} /\ Enter("ACTIVE")
    <2>1. TypeOK' /\ CurrentTimeoutFresh' /\ ListenersInformed'
      BY <1>1, EnterKeeps DEF PsmInv, StateId
    <2>2. SleepMatchesSupply' /\ SuspendedOnlyWithHost'
      BY <1>1 DEF Enter, SleepMatchesSupply, SuspendedOnlyWithHost
    <2> QED  BY <2>1, <2>2 DEF PsmInv
  <1>2. CASE psmState \in {"OFF", "DEMO"} /\ Ignore
    BY <1>2, IgnoreKeeps
  <1> QED  BY <1>1, <1>2 DEF UserActivityEvent

-----------------------------------------------------------------------------

(* A new state machine satisfies the invariant. *)
LEMMA PsmInvInit == Init => PsmInv
  BY DelayAssumption, TimeoutsAssumption
  DEF Init, PsmInv, TypeOK, CurrentTimeoutFresh, SleepMatchesSupply,
      ListenersInformed, SuspendedOnlyWithHost, TimeoutOf, isUsbConnected,
      CallbackOf, Callback, StateId, USB_POWER_CONNECTION_STATE, TimeoutFields

(* Every operation keeps it, whatever finite delay has elapsed. *)
LEMMA PsmInvStep == PsmInv /\ [Next]_psmVars => PsmInv'
  <1> SUFFICES ASSUME PsmInv, [Next]_psmVars
               PROVE  PsmInv'
    OBVIOUS
  <1> USE DEF PsmInv
  <1>same. SameInputs =>
              /\ mPowerConnectionState' \in USB_POWER_CONNECTION_STATE
              /\ mTimeouts' \in [TimeoutFields -> Delay]
    BY DEF SameInputs, TypeOK
  <1>enter. ASSUME NEW s \in StateId, SameInputs, Enter(s)
            PROVE  TypeOK' /\ CurrentTimeoutFresh' /\ ListenersInformed'
    BY <1>same, <1>enter, EnterKeeps
  <1>1. CASE timeout
    <2> USE <1>1 DEF timeout
    <2>1. CASE psmState \in {"ACTIVE", "INACTIVE", "SLEEP_USB_DISCONNECTED"}
      <3>1. PICK s \in {"INACTIVE", "LONG_INACTIVE", "OFF"} : Enter(s)
        BY <2>1 DEF TimeoutEvent
      <3>2. SleepMatchesSupply' /\ SuspendedOnlyWithHost'
        BY <3>1 DEF Enter, SleepMatchesSupply, SuspendedOnlyWithHost
      <3> QED  BY <3>1, <3>2, <1>enter DEF StateId
    <2>2. CASE psmState = "LONG_INACTIVE"
      <3> DEFINE s == IF isUsbConnected(mPowerConnectionState)
                      THEN "SLEEP" ELSE "SLEEP_USB_DISCONNECTED"
      <3>1. Enter(s)
        BY <2>2 DEF TimeoutEvent
      <3>2. SleepMatchesSupply' /\ SuspendedOnlyWithHost'
        BY <3>1 DEF Enter, SleepMatchesSupply, SuspendedOnlyWithHost,
                    SameInputs
      <3>3. s \in StateId
        BY DEF StateId
      <3> QED  BY <3>1, <3>2, <3>3, <1>enter
    <2>3. CASE psmState \in {"SLEEP", "OFF", "DEMO", "SUSPENDED"}
      <3>1. Ignore
        BY <2>3 DEF TimeoutEvent
      <3> QED  BY <3>1, <1>same, IgnoreKeeps
    <2> QED  BY <2>1, <2>2, <2>3 DEF TypeOK, StateId
  <1>2. CASE userActivityDetected
    BY <1>2, <1>same, UserActivityKeeps DEF userActivityDetected
  <1>3. CASE systemActivityDetected
    <2>1. CASE psmState = "LONG_INACTIVE" /\ Enter("LONG_INACTIVE")
      <3>1. SleepMatchesSupply' /\ SuspendedOnlyWithHost'
        BY <2>1 DEF Enter, SleepMatchesSupply, SuspendedOnlyWithHost
      <3> QED  BY <1>3, <2>1, <3>1, <1>enter
               DEF systemActivityDetected, StateId
    <2>2. CASE Ignore
      BY <1>3, <2>2, <1>same, IgnoreKeeps DEF systemActivityDetected
    <2> QED  BY <1>3, <2>1, <2>2
             DEF systemActivityDetected, SystemActivityEvent
  <1>4. CASE startDemo
    <2>1. CASE Enter("DEMO")
      <3>1. SleepMatchesSupply' /\ SuspendedOnlyWithHost'
        BY <2>1 DEF Enter, SleepMatchesSupply, SuspendedOnlyWithHost
      <3> QED  BY <1>4, <2>1, <3>1, <1>enter DEF startDemo, StateId
    <2>2. CASE Ignore
      BY <1>4, <2>2, <1>same, IgnoreKeeps DEF startDemo
    <2> QED  BY <1>4, <2>1, <2>2 DEF startDemo, DemoStartEvent
  <1>5. CASE stopDemo
    <2>1. CASE Enter("ACTIVE")
      <3>1. SleepMatchesSupply' /\ SuspendedOnlyWithHost'
        BY <2>1 DEF Enter, SleepMatchesSupply, SuspendedOnlyWithHost
      <3> QED  BY <1>5, <2>1, <3>1, <1>enter DEF stopDemo, StateId
    <2>2. CASE Ignore
      BY <1>5, <2>2, <1>same, IgnoreKeeps DEF stopDemo
    <2> QED  BY <1>5, <2>1, <2>2 DEF stopDemo, DemoStopEvent
  <1>6. CASE powerOff
    <2>1. CASE Enter("OFF")
      <3>1. SleepMatchesSupply' /\ SuspendedOnlyWithHost'
        BY <2>1 DEF Enter, SleepMatchesSupply, SuspendedOnlyWithHost
      <3> QED  BY <1>6, <2>1, <3>1, <1>enter DEF powerOff, StateId
    <2>2. CASE Ignore
      BY <1>6, <2>2, <1>same, IgnoreKeeps DEF powerOff
    <2> QED  BY <1>6, <2>1, <2>2 DEF powerOff, PowerOffEvent
  <1>7. ASSUME NEW t \in TimeoutSets, updateTimeouts(t)
        PROVE  PsmInv'
    BY <1>7, TimeoutsAssumption, UserActivityKeeps
    DEF updateTimeouts, TypeOK
  <1>8. ASSUME NEW c \in ReportedSupply, updatePowerConnectionState(c)
        PROVE  PsmInv'
    <2>1. /\ mPowerConnectionState' \in USB_POWER_CONNECTION_STATE
          /\ mTimeouts' \in [TimeoutFields -> Delay]
      BY <1>8 DEF updatePowerConnectionState, TypeOK, ReportedSupply
    <2>2. CASE UserActivityEvent
      BY <2>1, <2>2, UserActivityKeeps
    <2>3. CASE c = "PLUG_IN_PC_SUSPENDED" /\ SuspendEvent
      <3>1. CASE Enter("SUSPENDED")
        <4>1. SleepMatchesSupply' /\ SuspendedOnlyWithHost'
          BY <1>8, <2>3, <3>1
          DEF updatePowerConnectionState, Enter, SleepMatchesSupply,
              SuspendedOnlyWithHost
        <4>2. TypeOK' /\ CurrentTimeoutFresh' /\ ListenersInformed'
          BY <2>1, <3>1, EnterKeeps DEF StateId
        <4> QED  BY <4>1, <4>2
      <3>2. CASE psmState = "SUSPENDED" /\ Ignore
        <4>1. SameInputs
          BY <1>8, <2>3, <3>2
          DEF updatePowerConnectionState, SuspendedOnlyWithHost, SameInputs
        <4> QED  BY <2>1, <3>2, <4>1, IgnoreKeeps
      <3>3. CASE psmState = "OFF" /\ Ignore
        BY <2>1, <3>3, IgnoreKeeps
      <3> QED  BY <2>3, <3>1, <3>2, <3>3 DEF SuspendEvent
    <2> QED
      BY <1>8, <2>2, <2>3
      DEF updatePowerConnectionState, ReportedSupply,
          USB_POWER_CONNECTION_STATE
  <1>9. CASE UNCHANGED psmVars
    <2>1. Ignore /\ SameInputs
      BY <1>9 DEF psmVars, Ignore, SameInputs
    <2> QED  BY <2>1, <1>same, IgnoreKeeps
  <1> QED
    BY <1>1, <1>2, <1>3, <1>4, <1>5, <1>6, <1>7, <1>8, <1>9 DEF Next

(* Throughout every run of the state machine its waiting delay is the one  *)
(* its state, supply and settings ask for, only a keyboard on battery is   *)
(* in the sleep that ends in OFF, and the listeners know the state.        *)
THEOREM PsmCorrect ==
    Spec => [](/\ TypeOK
               /\ CurrentTimeoutFresh
               /\ SleepMatchesSupply
               /\ ListenersInformed
               /\ SuspendedOnlyWithHost)
  <1>1. Init => PsmInv
    BY PsmInvInit
  <1>2. PsmInv /\ [Next]_psmVars => PsmInv'
    BY PsmInvStep
  <1> QED  BY <1>1, <1>2, PTL DEF Spec, PsmInv

=============================================================================
