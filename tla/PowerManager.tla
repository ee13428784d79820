---------------------------- MODULE PowerManager ----------------------------
(***************************************************************************)
(* The whole power manager (Libraries/PowerManager/PowerManager): the      *)
(* supply side of UsbSupply joined, through the bounded mActivityQueue, to *)
(* the activity task that drives the PowerStateMachine.                    *)
(*                                                                         *)
(*   power manager task (UsbSupply) --+                                    *)
(*   keypad, BLE, demo, settings, ----+--> mActivityQueue --> activity     *)
(*   power button                                             task         *)
(***************************************************************************)
EXTENDS PowerStateMachine, UsbSupply

CONSTANTS
    ActivityQueueLen,   \* items mActivityQueue holds (10 in the code)
    Requests            \* activity messages the rest of the system posts

(* The activity messages without data. *)
PlainRequest == [msgId : {"POWER_OFF_DETECTED", "USER_ACTIVITY_DETECTED",
                          "SYSTEM_ACTIVITY_DETECTED", "DEMO_START",
                          "DEMO_STOP"}]

UpdateTimeoutsRequest == [msgId : {"UPDATE_TIMEOUTS"}, timeouts : TimeoutSets]

UsbStateMsg(connection) ==
    [msgId |-> "USB_STATE", usbPowerConnectionState |-> connection]

CheckActivityMsg ==
    PlainRequest \cup UpdateTimeoutsRequest
        \cup {UsbStateMsg(c) : c \in ReportedSupply}

ASSUME ActivityQueueAssumption == ActivityQueueLen \in Nat \ {0}

ASSUME RequestsAssumption ==
    Requests \subseteq PlainRequest \cup UpdateTimeoutsRequest

VARIABLES
    mActivityQueue,   \* messages for the activity task
    activityPc,       \* what the activity task does next
    forwardLost       \* the last supply for the activity task was lost

activityVars == <<psmVars, mActivityQueue, activityPc, forwardLost>>
pmVars == <<activityVars, supplyVars>>

-----------------------------------------------------------------------------
(* The power manager task. *)

ForwardedSupply_OldSupply ==    \* fault: the supply before the change is sent
    mPowerConnectionState

(* The supply updateUSBPowerState passes on. *)
ForwardedSupply == mUsbPowerCurrentState

(* The task waits 10 ticks for room, then gives up: waiting is the action  *)
(* not being taken yet.                                                    *)
updateUSBPowerStateToCheckActivityTask ==
    /\ ForwardSupply
    /\ mActivityQueue' = SendToBack(mActivityQueue,
           UsbStateMsg(ForwardedSupply), ActivityQueueLen)
    /\ forwardLost' = (Len(mActivityQueue) >= ActivityQueueLen)
    /\ UNCHANGED <<psmVars, activityPc>>

(* The steps of the supply side that leave the activity side alone. *)
SupplyStep ==
    /\ PowerManagerReceive \/ NotifyUsbObserver
    /\ UNCHANGED activityVars

-----------------------------------------------------------------------------
(* The activity task. The delay it waits is always mCurrentTimeout. Once   *)
(* OFF it is inside shutdown(), which does not return.                     *)

(* updatePowerManagerStateMachineTimeouts may first report a system        *)
(* activity, which only re-enters LONG_INACTIVE; updateTimeouts overrides  *)
(* all it sets.                                                            *)
HandleActivity(message) ==
    \/ message.msgId = "POWER_OFF_DETECTED" /\ powerOff
    \/ message.msgId = "USER_ACTIVITY_DETECTED" /\ userActivityDetected
    \/ message.msgId = "SYSTEM_ACTIVITY_DETECTED" /\ systemActivityDetected
    \/ message.msgId = "DEMO_START" /\ startDemo
    \/ message.msgId = "DEMO_STOP" /\ stopDemo
    \/ message.msgId = "UPDATE_TIMEOUTS" /\ updateTimeouts(message.timeouts)
    \/ /\ message.msgId = "USB_STATE"
       /\ updatePowerConnectionState(message.usbPowerConnectionState)

ActivityReceive ==
    /\ psmState # "OFF"
    /\ activityPc = "receive"
    /\ mActivityQueue # << >>
    /\ mActivityQueue' = Tail(mActivityQueue)
    /\ HandleActivity(Head(mActivityQueue))
    /\ UNCHANGED <<supplyVars, activityPc, forwardLost>>

EmptyHanded ==
    /\ activityPc = "receive"
    /\ activityPc' = "timeout"
    /\ UNCHANGED <<psmVars, supplyVars, mActivityQueue, forwardLost>>

DelayElapses_EvenForever ==    \* fault: the queue is polled
    /\ psmState # "OFF"
    /\ mActivityQueue = << >>
    /\ EmptyHanded

DelayElapses_Hasty ==    \* fault: the delay runs on while messages wait
    /\ psmState # "OFF"
    /\ mCurrentTimeout # INFINITE_DELAY
    /\ EmptyHanded

(* xQueueReceive comes back empty-handed after a finite delay. *)
DelayElapses ==
    /\ psmState # "OFF"
    /\ mActivityQueue = << >>
    /\ mCurrentTimeout # INFINITE_DELAY
    /\ EmptyHanded

(* The task goes on to the timeout, whatever has come to the queue since:  *)
(* the power manager task has the same priority and may run in between.    *)
ActivityTimeout ==
    /\ activityPc = "timeout"
    /\ activityPc' = "receive"
    /\ timeout
    /\ UNCHANGED <<supplyVars, mActivityQueue, forwardLost>>

-----------------------------------------------------------------------------

(* userActivityHappened, systemActivityHappened, powerOff, demoStart,      *)
(* demoStop and updateTimers: a request is dropped when there is no room.  *)
PostRequest ==
    /\ \E request \in Requests :
           mActivityQueue' =
               SendToBack(mActivityQueue, request, ActivityQueueLen)
    /\ UNCHANGED <<psmVars, supplyVars, activityPc, forwardLost>>

Environment ==
    \/ /\ UsbInterrupt \/ ReportBatteryLevel \/ ApplyKeyboardParam
       /\ UNCHANGED activityVars
    \/ PostRequest

PMTask == updateUSBPowerStateToCheckActivityTask \/ SupplyStep
CheckActivityTask == ActivityReceive \/ DelayElapses \/ ActivityTimeout
PMTimer == TimerDaemon /\ UNCHANGED activityVars

PMInit ==
    /\ Init
    /\ SupplyInit
    /\ mActivityQueue = << >>
    /\ activityPc = "receive"
    /\ forwardLost = FALSE

PMNext == PMTask \/ CheckActivityTask \/ PMTimer \/ Environment

PMSpec == PMInit /\ [][PMNext]_pmVars

(* A task that stays ready runs: both tasks have priority 3 and share the  *)
(* processor, the timer daemon has priority 2 and runs once both wait. A   *)
(* finite delay elapses and an armed timer expires. Interrupts and         *)
(* requests need never come.                                               *)
PMFairness ==
    /\ WF_pmVars(PMTask)
    /\ WF_pmVars(CheckActivityTask)
    /\ WF_pmVars(PMTimer)

PMFairSpec == PMSpec /\ PMFairness

-----------------------------------------------------------------------------

(* Every variable holds a value of its kind, and no queue is overfilled. *)
PMTypeOK ==
    /\ TypeOK
    /\ SupplyTypeOK
    /\ mActivityQueue \in Seq(CheckActivityMsg)
    /\ Len(mActivityQueue) <= ActivityQueueLen
    /\ activityPc \in {"receive", "timeout"}
    /\ forwardLost \in BOOLEAN

(* connection is the supply the state machine will have been told once the *)
(* activity task has emptied its queue.                                    *)
SupplyWillBe(connection) ==
    \/ /\ \A i \in 1..Len(mActivityQueue) :
              mActivityQueue[i].msgId # "USB_STATE"
       /\ mPowerConnectionState = connection
    \/ \E i \in 1..Len(mActivityQueue) :
           /\ mActivityQueue[i] = UsbStateMsg(connection)
           /\ \A j \in (i + 1)..Len(mActivityQueue) :
                  mActivityQueue[j].msgId # "USB_STATE"

(* Unless the last supply was dropped for want of room, the activity task  *)
(* will know the supply the power manager task believes in: the two copies *)
(* of the supply never part for good (PowerManager.cpp:356-384).           *)
SupplyForwarded ==
    pmPc # "forward" /\ ~forwardLost => SupplyWillBe(mUsbPowerCurrentState)

(* The power manager task knows of USB power, and that news is neither     *)
(* dropped nor still being forwarded.                                      *)
UsbPowerReported ==
    isUsbConnected(mUsbPowerCurrentState) /\ ~forwardLost /\ pmPc # "forward"

(* An idle keyboard shuts down on USB power only when the plug was         *)
(* reported after its last delay had ended: no delay ends in the sleep     *)
(* that leads to OFF while USB power is reported, and a shutdown decided   *)
(* then leaves the report that came in between, the current one, unread in *)
(* the queue. The task runs on between the two: this is as much as the     *)
(* code promises                                                           *)
(* (PowerManager.cpp:267, 298, PowerStateMachine.cpp:74-77, 142-145).      *)
NoShutdownOnUsbPower ==
    [][/\ DelayElapses /\ psmState = "SLEEP_USB_DISCONNECTED" =>
              ~UsbPowerReported
       /\ ActivityTimeout /\ psmState' = "OFF" /\ UsbPowerReported =>
              \E i \in 1..Len(mActivityQueue) :
                  mActivityQueue[i] = UsbStateMsg(mUsbPowerCurrentState)
      ]_pmVars

(* A change of supply reaches the state machine, unless it was dropped,    *)
(* has been superseded or finds the keyboard off                           *)
(* (PowerManager.cpp:356-364, 438-445).                                    *)
SupplyReachesStateMachine ==
    \A c \in ReportedSupply :
        mUsbPowerCurrentState = c ~>
            \/ mPowerConnectionState = c
            \/ mUsbPowerCurrentState # c
            \/ forwardLost
            \/ psmState = "OFF"

(* A keyboard left alone on battery, with finite delays, switches itself   *)
(* off: only the demo keeps it on (PowerManager.cpp:258-303).              *)
IdleOnBatteryShutsDown ==
    \/ []<><<Environment>>_pmVars
    \/ <>[](/\ mPowerConnectionState = "PLUG_OUT"
            /\ \A f \in TimeoutFields : mTimeouts[f] # INFINITE_DELAY
            => psmState \in {"OFF", "DEMO"})

=============================================================================
