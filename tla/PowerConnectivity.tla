-------------------------- MODULE PowerConnectivity --------------------------
(***************************************************************************)
(* The link the keyboard talks over, driven by the two tasks of the power  *)
(* manager: the power manager task changes the supply, passes it on to the *)
(* activity task and then calls usbPlugged...; the activity task drives    *)
(* the power state machine, whose callbacks active and sleep call the      *)
(* connectivity state in the middle of the transition.                     *)
(*                                                                         *)
(* The supply side is abstract here (any supply may follow any other: its  *)
(* detail is in UsbSupply), and so are the requests to the activity task,  *)
(* which may be made at any time.                                          *)
(***************************************************************************)
EXTENDS PowerStateMachine, ConnectivityState

CONSTANT SupplyQueueLen   \* supplies mActivityQueue has room for

ASSUME SupplyQueueAssumption == SupplyQueueLen \in Nat \ {0}

VARIABLES
    supply,        \* the supply the power manager task believes in
    pmStep,        \* where the power manager task stands
    supplyQueue,   \* supplies on their way to the activity task
    supplyLost,    \* the last supply was lost on its way
    activityPc,    \* what the activity task does next
    sleepCrossed   \* the keyboard fell asleep across a change of supply

pmTaskVars == <<supply, pmStep>>
queueVars == <<supplyQueue, supplyLost>>
activityVars == <<psmVars, activityPc>>
vars == <<activityVars, connectivityVars, pmTaskVars, queueVars, sleepCrossed>>

-----------------------------------------------------------------------------
(* The power manager task: it goes on when connectivity has returned. *)

updateUSBPowerState ==
    /\ pmStep = "receive"
    /\ Idle("powerManagerTask")
    /\ \E c \in ReportedSupply \ {supply} : supply' = c
    /\ pmStep' = "forward"
    /\ sleepCrossed' = FALSE
    /\ UNCHANGED <<activityVars, connectivityVars, queueVars>>

(* After 10 ticks without room the supply is dropped. *)
ForwardSupply ==
    /\ pmStep = "forward"
    /\ pmStep' = "notify"
    /\ supplyLost' = (Len(supplyQueue) >= SupplyQueueLen)
    /\ supplyQueue' = IF Len(supplyQueue) >= SupplyQueueLen
                      THEN supplyQueue ELSE Append(supplyQueue, supply)
    /\ UNCHANGED <<activityVars, connectivityVars, supply, sleepCrossed>>

OperationOf(connection) ==
    CASE connection = "PLUG_IN_PC" -> "usbPluggedInComputer"
      [] connection = "PLUG_IN_PC_SUSPENDED" -> "usbPluggedInComputerSuspended"
      [] connection = "PLUG_IN_POWER_SUPPLY_ONLY" ->
             "usbPluggedInPowerSupplyOnly"
      [] OTHER -> "usbPluggedOut"

notifyUsbObserver ==
    /\ pmStep = "notify"
    /\ pmStep' = "receive"
    /\ Call("powerManagerTask", OperationOf(supply))
    /\ UNCHANGED <<activityVars, supply, queueVars, sleepCrossed>>

-----------------------------------------------------------------------------
(* The activity task. *)

(* A step of the state machine calls the connectivity state when it makes  *)
(* the callback active or sleep; the other callbacks do nothing there.     *)
Callbacks ==
    IF /\ m_previousNotifiedState' # m_previousNotifiedState
       /\ psmState' # "DEMO"
       /\ listenerState' \in PowerOperation
    THEN Call("activityTask", listenerState')
    ELSE UNCHANGED connectivityVars

ActivityReceivesSupply ==
    /\ activityPc = "receive"
    /\ supplyQueue # << >>
    /\ supplyQueue' = Tail(supplyQueue)
    /\ updatePowerConnectionState(Head(supplyQueue))
    /\ UNCHANGED <<activityPc, supplyLost>>

ActivityReceivesRequest ==
    /\ activityPc = "receive"
    /\ \/ userActivityDetected
       \/ systemActivityDetected
       \/ startDemo
       \/ stopDemo
       \/ powerOff
       \/ \E t \in TimeoutSets : updateTimeouts(t)
    /\ UNCHANGED <<activityPc, queueVars>>

(* The receive ends empty-handed, at whatever statement the power manager  *)
(* task stands. That task may go on before the activity task does.         *)
ActivityDelayElapses ==
    /\ activityPc = "receive"
    /\ supplyQueue = << >>
    /\ mCurrentTimeout # INFINITE_DELAY
    /\ activityPc' = "timeout"
    /\ UNCHANGED <<psmVars, queueVars>>

ActivityTimeout ==
    /\ activityPc = "timeout"
    /\ activityPc' = "receive"
    /\ timeout
    /\ UNCHANGED queueVars

(* One of the two tasks has taken the change of supply in: the activity    *)
(* task, before the link is told of it, or the link, before the activity   *)
(* task has read of it.                                                    *)
HalfTold ==
    \/ pmStep = "notify" /\ supplyQueue = << >>
    \/ pmStep = "receive" /\ supplyQueue # << >>

FallsAsleep ==
    /\ psmState' # psmState
    /\ psmState' \in {"SLEEP", "SLEEP_USB_DISCONNECTED"}

(* That the keyboard fell asleep there is only recorded, until it is       *)
(* active again or the supply changes.                                     *)
ActivityTask ==
    /\ psmState # "OFF"
    /\ Idle("activityTask")
    /\ \/ ActivityReceivesSupply \/ ActivityReceivesRequest
       \/ ActivityDelayElapses \/ ActivityTimeout
    /\ Callbacks
    /\ sleepCrossed' = \/ FallsAsleep /\ HalfTold
                       \/ sleepCrossed /\ psmState' # "ACTIVE"
    /\ UNCHANGED pmTaskVars

-----------------------------------------------------------------------------

ConnectivityStep(c) ==
    /\ CallStep(c)
    /\ UNCHANGED <<activityVars, pmTaskVars, queueVars, sleepCrossed>>

PowerManagerTask ==
    ForwardSupply \/ notifyUsbObserver \/ ConnectivityStep("powerManagerTask")

LinkInit ==
    /\ Init
    /\ ConnectivityInit
    /\ supply = "NONE"
    /\ pmStep = "receive"
    /\ supplyQueue = << >>
    /\ supplyLost = FALSE
    /\ activityPc = "receive"
    /\ sleepCrossed = FALSE

LinkNext ==
    \/ updateUSBPowerState
    \/ PowerManagerTask
    \/ ActivityTask
    \/ ConnectivityStep("activityTask")

LinkSpec == LinkInit /\ [][LinkNext]_vars

(* Both tasks have priority 3 and share the processor. A listener lets its *)
(* caller go on in the end; new supplies and requests need never come.     *)
LinkFairness ==
    /\ WF_vars(PowerManagerTask)
    /\ WF_vars(ConnectivityStep("activityTask"))

LinkFairSpec == LinkSpec /\ LinkFairness

-----------------------------------------------------------------------------

Settled ==
    /\ pmStep = "receive"
    /\ supplyQueue = << >>
    /\ \A c \in Caller : Idle(c)

(* Once both tasks have done their work and no two operations met, the     *)
(* keyboard talks over USB exactly when a computer is plugged in and       *)
(* awake; otherwise over BLE while it is awake and not at all while it     *)
(* sleeps, unless the activity task missed the supply or ran a timeout     *)
(* into sleep with the change of supply half told: a host that suspends    *)
(* then leaves the keyboard without a link                                 *)
(* (AbstractConnectivityState.cpp:36-155, PowerManager.cpp:218-298).       *)
LinkFits ==
    Settled /\ ~overlapped =>
        /\ mState = "USB" <=> supply = "PLUG_IN_PC"
        /\ /\ supply \notin {"NONE", "PLUG_IN_PC"}
           /\ ~supplyLost /\ ~sleepCrossed
           => /\ psmState \in {"ACTIVE", "INACTIVE", "LONG_INACTIVE",
                               "SUSPENDED"} => mState = "BLE"
              /\ psmState \in {"SLEEP", "SLEEP_USB_DISCONNECTED"} =>
                     mState = "NONE"

(* A computer that stays plugged in is talked to over USB in the end,      *)
(* unless the activity task crossed the report                             *)
(* (AbstractConnectivityState.cpp:36-50).                                  *)
ComputerFound ==
    supply = "PLUG_IN_PC" ~>
        mState = "USB" \/ supply # "PLUG_IN_PC" \/ overlapped

=============================================================================
