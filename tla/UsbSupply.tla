------------------------------ MODULE UsbSupply ------------------------------
(***************************************************************************)
(* The half of the power manager that finds out where the keyboard gets    *)
(* its power from (Libraries/PowerManager/PowerManager): the USB           *)
(* interrupts and the timer that confirms a suspended host push messages   *)
(* into a bounded queue, the power manager task keeps the current supply   *)
(* from them, passes every change on to the activity task and tells the    *)
(* battery state machine.                                                  *)
(*                                                                         *)
(*   USB interrupts, init(), battery --> mPowerManagerQueue --+            *)
(*   timer daemon: suspendDetectTimerCallback ------^         v            *)
(*         ^------------- timerCommands <---- power manager task           *)
(*                                             |           |               *)
(*                     (PowerManager module) <-+           +-> battery     *)
(***************************************************************************)
EXTENDS UsbPowerState, BatteryStateMachine, Sequences

CONSTANTS
    PowerManagerQueueLen,   \* items mPowerManagerQueue holds (10 in the code)
    TimerQueueLen,          \* commands the timer daemon's queue holds (10)
    Interrupts              \* the USB interrupts that may occur

ASSUME SupplyQueuesAssumption ==
    /\ PowerManagerQueueLen \in Nat \ {0}
    /\ TimerQueueLen \in Nat \ {0}

UsbPowerStateMsg(connection) ==
    [msgId |-> "USB_POWER_STATE", usbPowerConnectionState |-> connection]

PowerManagerMessage ==
    [msgId : {"USB_SUSPEND_EVT", "USB_RESUME_EVT"}]
        \cup [msgId : {"BATTERY_LEVEL"}, batteryLevel : BatteryLevels]
        \cup {UsbPowerStateMsg(c) : c \in ReportedSupply}

VARIABLES
    mPowerManagerQueue,      \* messages for the power manager task
    mUsbPowerCurrentState,   \* the supply the power manager task believes in
    mUSBActivityState,       \* USB_ACTIVE or USB_SUSPENDED
    pmPc,                    \* where the power manager task stands
    timerArmed,              \* mSuspendDetectTimer is running
    timerCommands,           \* start and stop commands for the timer daemon
    timerPc,                 \* where suspendDetectTimerCallback stands
    initDone,                \* init() has reported the initial PLUG_OUT
    bus,                     \* the USB cable: OUT, SUPPLY or ENUMERATED
    hostSuspended,           \* the host has suspended the bus
    disturbed                \* a message was lost or came too late

pmTaskVars == <<mUsbPowerCurrentState, mUSBActivityState, pmPc>>
timerVars == <<timerArmed, timerCommands, timerPc>>
busVars == <<initDone, bus, hostSuspended>>
supplyVars == <<mPowerManagerQueue, pmTaskVars, timerVars, busVars,
                batteryVars, disturbed>>

-----------------------------------------------------------------------------
(* The supply that the cable and the host call for. *)
SupplyOfBus ==
    CASE bus = "OUT" -> "PLUG_OUT"
      [] bus = "SUPPLY" -> "PLUG_IN_POWER_SUPPLY_ONLY"
      [] bus = "ENUMERATED" /\ hostSuspended -> "PLUG_IN_PC_SUSPENDED"
      [] bus = "ENUMERATED" /\ ~hostSuspended -> "PLUG_IN_PC"

SendToBack_Unbounded(queue, item, length) ==    \* fault: the room is not
    Append(queue, item)                         \* checked

(* A queue that takes an item only when it has room.                       *)
SendToBack(queue, item, length) ==
    IF Len(queue) < length THEN Append(queue, item) ELSE queue

(* A message for the power manager task, lost when the queue is full. The  *)
(* second conjunct only records that it was lost or comes too late.        *)
PushToPowerManager(message, tooLate) ==
    /\ mPowerManagerQueue' =
           SendToBack(mPowerManagerQueue, message, PowerManagerQueueLen)
    /\ disturbed' = (disturbed \/ tooLate
                        \/ Len(mPowerManagerQueue) >= PowerManagerQueueLen)

-----------------------------------------------------------------------------
(* The power manager task. *)

(* xTimerStart and xTimerStop only send a command to the timer daemon,     *)
(* without waiting for room.                                               *)
SendTimerCommand(command) ==
    /\ timerCommands' = SendToBack(timerCommands, command, TimerQueueLen)
    /\ disturbed' = (disturbed \/ Len(timerCommands) >= TimerQueueLen)

updateUSBPowerState(connection) ==
    \/ /\ connection # mUsbPowerCurrentState
       /\ mUsbPowerCurrentState' = connection
       /\ SendTimerCommand("STOP")
       /\ pmPc' = "forward"
    \/ /\ connection = mUsbPowerCurrentState
       /\ UNCHANGED <<mUsbPowerCurrentState, timerCommands, pmPc, disturbed>>

usbSuspend_OnlyIfActive ==    \* fault: a host believed suspended already
    /\ mUSBActivityState' = "USB_SUSPENDED"    \* starts no timer
    /\ \/ /\ mUsbPowerCurrentState = "PLUG_IN_PC"
          /\ mUSBActivityState = "USB_ACTIVE"
          /\ SendTimerCommand("START")
       \/ /\ mUsbPowerCurrentState # "PLUG_IN_PC"
             \/ mUSBActivityState # "USB_ACTIVE"
          /\ UNCHANGED <<timerCommands, disturbed>>
    /\ UNCHANGED <<mUsbPowerCurrentState, pmPc>>

usbSuspend ==
    /\ mUSBActivityState' = "USB_SUSPENDED"
    /\ \/ mUsbPowerCurrentState = "PLUG_IN_PC" /\ SendTimerCommand("START")
       \/ /\ mUsbPowerCurrentState # "PLUG_IN_PC"
          /\ UNCHANGED <<timerCommands, disturbed>>
    /\ UNCHANGED <<mUsbPowerCurrentState, pmPc>>

usbResume_StaysSuspended ==    \* fault: the supply is not restored
    /\ mUSBActivityState' = "USB_ACTIVE"
    /\ SendTimerCommand("STOP")
    /\ UNCHANGED <<mUsbPowerCurrentState, pmPc>>

(* xTimerStop, then updateUSBPowerState(PLUG_IN_PC) for a suspended host:  *)
(* its own xTimerStop only repeats the first, and is left out.             *)
usbResume ==
    /\ mUSBActivityState' = "USB_ACTIVE"
    /\ SendTimerCommand("STOP")
    /\ \/ /\ mUsbPowerCurrentState = "PLUG_IN_PC_SUSPENDED"
          /\ mUsbPowerCurrentState' = "PLUG_IN_PC"
          /\ pmPc' = "forward"
       \/ /\ mUsbPowerCurrentState # "PLUG_IN_PC_SUSPENDED"
          /\ UNCHANGED <<mUsbPowerCurrentState, pmPc>>

(* One turn of vPowerManagerTask, up to the point where a changed supply   *)
(* has to be passed on.                                                    *)
PowerManagerReceive ==
    /\ pmPc = "receive"
    /\ mPowerManagerQueue # << >>
    /\ mPowerManagerQueue' = Tail(mPowerManagerQueue)
    /\ LET message == Head(mPowerManagerQueue)
       IN  \/ /\ message.msgId = "BATTERY_LEVEL"
              /\ batteryLevel(message.batteryLevel)
              /\ UNCHANGED <<mUsbPowerCurrentState, mUSBActivityState, pmPc,
                             timerCommands, disturbed>>
           \/ /\ message.msgId = "USB_POWER_STATE"
              /\ updateUSBPowerState(message.usbPowerConnectionState)
              /\ UNCHANGED <<batteryVars, mUSBActivityState>>
           \/ /\ message.msgId = "USB_SUSPEND_EVT"
              /\ usbSuspend
              /\ UNCHANGED batteryVars
           \/ /\ message.msgId = "USB_RESUME_EVT"
              /\ usbResume
              /\ UNCHANGED batteryVars
    /\ UNCHANGED <<timerArmed, timerPc, busVars>>

(* updateUSBPowerState goes on: the supply is passed on to the activity    *)
(* task, whose side of it is in the PowerManager module.                   *)
ForwardSupply ==
    /\ pmPc = "forward"
    /\ pmPc' = "notify"
    /\ UNCHANGED <<mPowerManagerQueue, mUsbPowerCurrentState,
                   mUSBActivityState, timerVars, busVars, batteryVars,
                   disturbed>>

(* notifyUsbObserver, for the battery state machine. *)
NotifyUsbObserver ==
    /\ pmPc = "notify"
    /\ pmPc' = "receive"
    /\ \/ isUsbConnected(mUsbPowerCurrentState) /\ pluggedIn
       \/ mUsbPowerCurrentState = "PLUG_OUT" /\ pluggedOut
    /\ UNCHANGED <<mPowerManagerQueue, mUsbPowerCurrentState,
                   mUSBActivityState, timerVars, busVars, disturbed>>

-----------------------------------------------------------------------------
(* The timer daemon. *)

TimerCommand ==
    /\ timerPc = "idle"
    /\ timerCommands # << >>
    /\ timerArmed' = (Head(timerCommands) = "START")
    /\ timerCommands' = Tail(timerCommands)
    /\ UNCHANGED <<mPowerManagerQueue, pmTaskVars, timerPc, busVars,
                   batteryVars, disturbed>>

(* The one-shot timer expires: suspendDetectTimerCallback reads the two    *)
(* variables of the power manager task, one after the other and without a  *)
(* lock, then sends.                                                       *)
TimerExpires ==
    /\ timerPc = "idle"
    /\ timerArmed
    /\ timerArmed' = FALSE
    /\ timerPc' = IF mUSBActivityState = "USB_SUSPENDED"
                  THEN "readPower" ELSE "idle"
    /\ UNCHANGED <<mPowerManagerQueue, pmTaskVars, timerCommands, busVars,
                   batteryVars, disturbed>>

TimerReadPower ==
    /\ timerPc = "readPower"
    /\ timerPc' = IF mUsbPowerCurrentState = "PLUG_IN_PC"
                  THEN "send" ELSE "idle"
    /\ UNCHANGED <<mPowerManagerQueue, pmTaskVars, timerArmed, timerCommands,
                   busVars, batteryVars, disturbed>>

TimerSend ==
    /\ timerPc = "send"
    /\ timerPc' = "idle"
    /\ PushToPowerManager(UsbPowerStateMsg("PLUG_IN_PC_SUSPENDED"),
                          SupplyOfBus # "PLUG_IN_PC_SUSPENDED")
    /\ UNCHANGED <<pmTaskVars, timerArmed, timerCommands, busVars,
                   batteryVars>>

-----------------------------------------------------------------------------
(* The rest of the system and the USB interrupts. *)

(* init(): the USB device runs already, so an interrupt may have come      *)
(* before the initial PLUG_OUT.                                            *)
initUsbPowerState ==
    /\ ~initDone
    /\ initDone' = TRUE
    /\ PushToPowerManager(UsbPowerStateMsg("PLUG_OUT"), bus # "OUT")

(* HAL_PCD_ConnectCallback. *)
notifyUsbConnect ==
    /\ "CONNECT" \in Interrupts
    /\ bus = "OUT"
    /\ bus' = "SUPPLY"
    /\ PushToPowerManager(UsbPowerStateMsg("PLUG_IN_POWER_SUPPLY_ONLY"), FALSE)
    /\ UNCHANGED <<initDone, hostSuspended>>

(* USBD_Custom_Composite_GetCfgDesc: the host enumerates the keyboard. *)
Enumerate ==
    /\ "ENUMERATE" \in Interrupts
    /\ bus # "OUT" /\ ~hostSuspended
    /\ bus' = "ENUMERATED"
    /\ PushToPowerManager(UsbPowerStateMsg("PLUG_IN_PC"), FALSE)
    /\ UNCHANGED <<initDone, hostSuspended>>

(* HAL_PCD_SuspendCallback: the bus is idle. *)
notifyUsbSuspend ==
    /\ "SUSPEND" \in Interrupts
    /\ bus # "OUT" /\ ~hostSuspended
    /\ hostSuspended' = TRUE
    /\ PushToPowerManager([msgId |-> "USB_SUSPEND_EVT"], FALSE)
    /\ UNCHANGED <<initDone, bus>>

(* HAL_PCD_ResumeCallback. *)
notifyUsbResume ==
    /\ "RESUME" \in Interrupts
    /\ hostSuspended
    /\ hostSuspended' = FALSE
    /\ PushToPowerManager([msgId |-> "USB_RESUME_EVT"], FALSE)
    /\ UNCHANGED <<initDone, bus>>

(* HAL_PCD_DisconnectCallback. *)
notifyUsbDisconnect ==
    /\ "DISCONNECT" \in Interrupts
    /\ bus # "OUT"
    /\ bus' = "OUT"
    /\ hostSuspended' = FALSE
    /\ PushToPowerManager(UsbPowerStateMsg("PLUG_OUT"), FALSE)
    /\ UNCHANGED initDone

UsbInterrupt ==
    /\ \/ initUsbPowerState /\ UNCHANGED <<bus, hostSuspended>>
       \/ notifyUsbConnect
       \/ Enumerate
       \/ notifyUsbSuspend
       \/ notifyUsbResume
       \/ notifyUsbDisconnect
    /\ UNCHANGED <<pmTaskVars, timerVars, batteryVars>>

(* The battery task: a level report. *)
ReportBatteryLevel ==
    /\ \E percent \in BatteryLevels :
           mPowerManagerQueue' = SendToBack(mPowerManagerQueue,
               [msgId |-> "BATTERY_LEVEL", batteryLevel |-> percent],
               PowerManagerQueueLen)
    /\ UNCHANGED <<pmTaskVars, timerVars, busVars, batteryVars, disturbed>>

(* Application::applyKeyboardParam, from whichever task sets the           *)
(* parameters.                                                             *)
ApplyKeyboardParam ==
    /\ \E percent \in BatteryThresholds :
           setLowBatteryLevelThresholdPercent(percent)
    /\ UNCHANGED <<mPowerManagerQueue, pmTaskVars, timerVars, busVars,
                   disturbed>>

-----------------------------------------------------------------------------

PowerManagerTask == PowerManagerReceive \/ ForwardSupply \/ NotifyUsbObserver
TimerDaemon == TimerCommand \/ TimerExpires \/ TimerReadPower \/ TimerSend

SupplyInit ==
    /\ BatteryInit
    /\ mPowerManagerQueue = << >>
    /\ mUsbPowerCurrentState = "NONE"
    /\ mUSBActivityState = "USB_SUSPENDED"
    /\ pmPc = "receive"
    /\ timerArmed = FALSE
    /\ timerCommands = << >>
    /\ timerPc = "idle"
    /\ initDone = FALSE
    /\ bus = "OUT"
    /\ hostSuspended = FALSE
    /\ disturbed = FALSE

SupplyNext ==
    \/ PowerManagerTask \/ TimerDaemon
    \/ UsbInterrupt \/ ReportBatteryLevel \/ ApplyKeyboardParam

SupplySpec == SupplyInit /\ [][SupplyNext]_supplyVars

(* A task that stays ready runs: the power manager task has priority 3,    *)
(* the timer daemon priority 2 and runs once the others wait. An armed     *)
(* timer expires. Interrupts need never come.                              *)
SupplyFairness == WF_supplyVars(PowerManagerTask) /\ WF_supplyVars(TimerDaemon)

SupplyFairSpec == SupplySpec /\ SupplyFairness

-----------------------------------------------------------------------------

(* Every variable holds a value of its kind, and no queue is overfilled. *)
SupplyTypeOK ==
    /\ BatteryTypeOK
    /\ mPowerManagerQueue \in Seq(PowerManagerMessage)
    /\ Len(mPowerManagerQueue) <= PowerManagerQueueLen
    /\ mUsbPowerCurrentState \in USB_POWER_CONNECTION_STATE
    /\ mUSBActivityState \in {"USB_ACTIVE", "USB_SUSPENDED"}
    /\ pmPc \in {"receive", "forward", "notify"}
    /\ timerArmed \in BOOLEAN
    /\ timerCommands \in Seq({"START", "STOP"})
    /\ Len(timerCommands) <= TimerQueueLen
    /\ timerPc \in {"idle", "readPower", "send"}
    /\ initDone \in BOOLEAN
    /\ bus \in {"OUT", "SUPPLY", "ENUMERATED"}
    /\ hostSuspended \in BOOLEAN
    /\ disturbed \in BOOLEAN

(* The battery is shown as charging exactly while the power manager task   *)
(* believes in a powered cable (PowerManager.cpp:218-256).                 *)
BatteryFollowsSupply ==
    pmPc = "receive" =>
        /\ batteryState = "CHARGING" <=> isUsbConnected(mUsbPowerCurrentState)
        /\ batteryState = "INIT" <=> mUsbPowerCurrentState = "NONE"

Quiescent ==
    /\ initDone
    /\ mPowerManagerQueue = << >> /\ pmPc = "receive"
    /\ ~timerArmed /\ timerCommands = << >> /\ timerPc = "idle"

(* Once everything reported has been handled, the power manager task       *)
(* believes what the cable and the host say, unless a message was lost,    *)
(* the initial PLUG_OUT came after an interrupt, or a suspend report was   *)
(* overtaken (PowerManager.cpp:356-419, 433-436).                          *)
QuiescentSupplyRight ==
    Quiescent /\ ~disturbed => mUsbPowerCurrentState = SupplyOfBus

(* The host is found suspended only while the keyboard is still plugged    *)
(* into it: "Wait some time to check that the USB is really still plugged  *)
(* in" (PowerManager.cpp:392-393).                                         *)
SuspendedOnlyFromPc ==
    [][mUsbPowerCurrentState' = "PLUG_IN_PC_SUSPENDED" =>
           mUsbPowerCurrentState \in {"PLUG_IN_PC", "PLUG_IN_PC_SUSPENDED"}
      ]_supplyVars

(* A host that stays suspended is found out, and a plug that stays out: a  *)
(* stable cable and host are what the power manager task ends up           *)
(* believing, unless one of the hazards strikes.                           *)
SupplyFoundOut ==
    \A c \in ReportedSupply :
        initDone /\ SupplyOfBus = c ~>
            \/ mUsbPowerCurrentState = c
            \/ SupplyOfBus # c
            \/ disturbed

=============================================================================
