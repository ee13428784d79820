------------------------- MODULE PowerManagerProofs -------------------------
(* The power manager, for queues of any length, all interrupts, battery    *)
(* levels, delays and requests. First its supply side alone: the bounds of *)
(* its queues, that the battery follows the supply, and that the supply    *)
(* believed is the right one once all reports are handled. Then the whole: *)
(* the supply is passed on, an idle keyboard on USB power does not shut    *)
(* down, and the state machine is driven as its own specification allows.  *)
EXTENDS PowerManager, PowerStateMachineProofs, SequenceTheorems, TLAPS

(* A queue stays a queue of its messages, and within its length. *)
LEMMA SendToBackType ==
    ASSUME NEW S, NEW queue \in Seq(S), NEW item \in S,
           NEW length \in Nat, Len(queue) <= length
    PROVE  /\ SendToBack(queue, item, length) \in Seq(S)
           /\ Len(SendToBack(queue, item, length)) <= length
  BY DEF SendToBack

LEMMA TailType ==
    ASSUME NEW S, NEW queue \in Seq(S), queue # << >>, NEW length \in Nat,
           Len(queue) <= length
    PROVE  /\ Head(queue) \in S
           /\ Tail(queue) \in Seq(S)
           /\ Len(Tail(queue)) <= length
  OBVIOUS

(* Each message is one of the three kinds, with data of its type. *)
LEMMA MessageKinds ==
    ASSUME NEW message \in PowerManagerMessage
    PROVE  /\ message.msgId = "BATTERY_LEVEL" =>
                  message.batteryLevel \in BatteryLevels
           /\ message.msgId = "USB_POWER_STATE" =>
                  message.usbPowerConnectionState \in ReportedSupply
  BY DEF PowerManagerMessage, UsbPowerStateMsg

LEMMA MessagesOfTheSystem ==
    /\ \A c \in ReportedSupply : UsbPowerStateMsg(c) \in PowerManagerMessage
    /\ \A id \in {"USB_SUSPEND_EVT", "USB_RESUME_EVT"} :
           [msgId |-> id] \in PowerManagerMessage
    /\ \A percent \in BatteryLevels :
           [msgId |-> "BATTERY_LEVEL", batteryLevel |-> percent]
               \in PowerManagerMessage
  BY DEF PowerManagerMessage

LEMMA PushType ==
    ASSUME SupplyTypeOK, NEW message \in PowerManagerMessage,
           NEW tooLate \in BOOLEAN, PushToPowerManager(message, tooLate)
    PROVE  /\ mPowerManagerQueue' \in Seq(PowerManagerMessage)
           /\ Len(mPowerManagerQueue') <= PowerManagerQueueLen
           /\ disturbed' \in BOOLEAN
  <1>1. PowerManagerQueueLen \in Nat
    BY SupplyQueuesAssumption
  <1>2. disturbed' \in BOOLEAN
    BY DEF PushToPowerManager, SupplyTypeOK
  <1> QED  BY <1>1, <1>2, SendToBackType DEF PushToPowerManager, SupplyTypeOK

LEMMA TimerCommandType ==
    ASSUME SupplyTypeOK, NEW command \in {"START", "STOP"},
           SendTimerCommand(command)
    PROVE  /\ timerCommands' \in Seq({"START", "STOP"})
           /\ Len(timerCommands') <= TimerQueueLen
           /\ disturbed' \in BOOLEAN
  <1>1. TimerQueueLen \in Nat
    BY SupplyQueuesAssumption
  <1>2. disturbed' \in BOOLEAN
    BY DEF SendTimerCommand, SupplyTypeOK
  <1> QED  BY <1>1, <1>2, SendToBackType DEF SendTimerCommand, SupplyTypeOK

-----------------------------------------------------------------------------
(* The battery state machine on its own. *)

LEMMA BatterySteps ==
    ASSUME BatteryTypeOK
    PROVE  /\ pluggedIn => BatteryTypeOK' /\ batteryState' = "CHARGING"
           /\ pluggedOut => /\ BatteryTypeOK'
                            /\ batteryState' \in {"LOW", "NORMAL"}
           /\ \A percent \in BatteryLevels : batteryLevel(percent) =>
                  /\ BatteryTypeOK'
                  /\ batteryState \in {"INIT", "CHARGING"} =>
                         batteryState' = batteryState
                  /\ batteryState \in {"LOW", "NORMAL"} =>
                         batteryState' \in {"LOW", "NORMAL"}
           /\ \A percent \in BatteryThresholds :
                  setLowBatteryLevelThresholdPercent(percent) =>
                      BatteryTypeOK' /\ batteryState' = batteryState
           /\ UNCHANGED batteryVars =>
                  BatteryTypeOK' /\ batteryState' = batteryState
  <1>1. pluggedIn => BatteryTypeOK' /\ batteryState' = "CHARGING"
    BY DEF pluggedIn, BatteryTypeOK, BatteryState
  <1>2. pluggedOut => BatteryTypeOK' /\ batteryState' \in {"LOW", "NORMAL"}
    BY DEF pluggedOut, BatteryTypeOK, BatteryState, OnBattery
  <1>3. ASSUME NEW percent \in BatteryLevels, batteryLevel(percent)
        PROVE  /\ BatteryTypeOK'
               /\ batteryState \in {"INIT", "CHARGING"} =>
                      batteryState' = batteryState
               /\ batteryState \in {"LOW", "NORMAL"} =>
                      batteryState' \in {"LOW", "NORMAL"}
    BY <1>3, BatteryLevelsAssumption
    DEF batteryLevel, BatteryTypeOK, BatteryState, OnBattery
  <1>4. UNCHANGED batteryVars => BatteryTypeOK' /\ batteryState' = batteryState
    BY DEF batteryVars, BatteryTypeOK
  <1>5. ASSUME NEW percent \in BatteryThresholds,
               setLowBatteryLevelThresholdPercent(percent)
        PROVE  BatteryTypeOK' /\ batteryState' = batteryState
    BY <1>5, BatteryLevelsAssumption
    DEF setLowBatteryLevelThresholdPercent, BatteryTypeOK
  <1> QED  BY <1>1, <1>2, <1>3, <1>4, <1>5

(* On battery the state is the one of the last level, whatever happens. *)
LEMMA BatteryFreshSteps ==
    ASSUME BatteryTypeOK, BatteryStateFresh,
           \/ pluggedIn
           \/ pluggedOut
           \/ \E percent \in BatteryLevels : batteryLevel(percent)
           \/ \E percent \in BatteryThresholds :
                  setLowBatteryLevelThresholdPercent(percent)
           \/ UNCHANGED batteryVars
    PROVE  BatteryStateFresh'
  BY DEF BatteryTypeOK, BatteryState, BatteryStateFresh, OnBattery, pluggedIn,
         pluggedOut, batteryLevel, setLowBatteryLevelThresholdPercent,
         batteryVars

-----------------------------------------------------------------------------

(* While the supply is passed on, the battery is not told yet; what        *)
(* matters then is that the supply has been reported.                      *)
SupplyInv ==
    /\ SupplyTypeOK
    /\ BatteryStateFresh
    /\ BatteryFollowsSupply
    /\ pmPc # "receive" => mUsbPowerCurrentState # "NONE"

LEMMA SupplyInvInit == SupplyInit => SupplyInv
  <1> SUFFICES ASSUME SupplyInit PROVE SupplyInv
    OBVIOUS
  <1>1. PowerManagerQueueLen \in Nat /\ TimerQueueLen \in Nat
    BY SupplyQueuesAssumption
  <1>2. SupplyTypeOK
    <2>1. BatteryTypeOK
      <3>1. thresholdMoved \in BOOLEAN
        BY DEF SupplyInit, BatteryInit
      <3> QED
        BY <3>1
        DEF SupplyInit, BatteryInit, BatteryTypeOK, BatteryState,
            DEFAULT_LOW_BATTERY_THRESHOLD_PERCENT
    <2>2. /\ << >> \in Seq(PowerManagerMessage)
          /\ << >> \in Seq({"START", "STOP"})
          /\ Len(<< >>) = 0
      OBVIOUS
    <2>3. /\ Len(mPowerManagerQueue) <= PowerManagerQueueLen
          /\ Len(timerCommands) <= TimerQueueLen
      BY <1>1, <2>2 DEF SupplyInit
    <2>4. /\ timerArmed \in BOOLEAN /\ initDone \in BOOLEAN
          /\ hostSuspended \in BOOLEAN /\ disturbed \in BOOLEAN
      BY DEF SupplyInit
    <2> QED
      BY <2>1, <2>2, <2>3, <2>4
      DEF SupplyInit, SupplyTypeOK, USB_POWER_CONNECTION_STATE
  <1>3. BatteryStateFresh /\ BatteryFollowsSupply
    BY DEF SupplyInit, BatteryInit, BatteryStateFresh, BatteryFollowsSupply,
           isUsbConnected
  <1> QED  BY <1>2, <1>3 DEF SupplyInv, SupplyInit

(* The power manager task handles a message. *)
LEMMA ReceiveKeeps ==
    ASSUME SupplyInv, PowerManagerReceive
    PROVE  SupplyInv'
  <1> DEFINE message == Head(mPowerManagerQueue)
  <1>type. SupplyTypeOK /\ BatteryTypeOK
    BY DEF SupplyInv, SupplyTypeOK
  <1>msg. /\ message \in PowerManagerMessage
          /\ mPowerManagerQueue' \in Seq(PowerManagerMessage)
          /\ Len(mPowerManagerQueue') <= PowerManagerQueueLen
    BY <1>type, TailType, SupplyQueuesAssumption
    DEF PowerManagerReceive, SupplyTypeOK
  <1>bus. UNCHANGED <<timerArmed, timerPc, initDone, bus, hostSuspended>>
    BY DEF PowerManagerReceive, busVars
  <1>1. ASSUME message.msgId = "BATTERY_LEVEL",
               batteryLevel(message.batteryLevel),
               UNCHANGED <<mUsbPowerCurrentState, mUSBActivityState, pmPc,
                           timerCommands, disturbed>>
        PROVE  SupplyInv'
    <2>1. message.batteryLevel \in BatteryLevels
      BY <1>1, <1>msg, MessageKinds
    <2>2. /\ BatteryTypeOK' /\ BatteryStateFresh'
          /\ batteryState \in {"INIT", "CHARGING"} =>
                 batteryState' = batteryState
          /\ batteryState \in {"LOW", "NORMAL"} =>
                 batteryState' \in {"LOW", "NORMAL"}
      BY <1>1, <1>type, <2>1, BatterySteps, BatteryFreshSteps DEF SupplyInv
    <2>3. SupplyTypeOK'
      BY <1>1, <1>msg, <1>bus, <2>2 DEF SupplyInv, SupplyTypeOK
    <2>4. BatteryFollowsSupply'
      BY <1>1, <1>type, <2>2
      DEF SupplyInv, BatteryFollowsSupply, isUsbConnected, BatteryTypeOK,
          BatteryState
    <2> QED  BY <1>1, <2>2, <2>3, <2>4 DEF SupplyInv
  <1>2. ASSUME message.msgId = "USB_POWER_STATE",
               updateUSBPowerState(message.usbPowerConnectionState),
               UNCHANGED <<batteryVars, mUSBActivityState>>
        PROVE  SupplyInv'
    <2>1. message.usbPowerConnectionState \in ReportedSupply
      BY <1>2, <1>msg, MessageKinds
    <2>2. BatteryTypeOK' /\ BatteryStateFresh' /\ batteryState' = batteryState
      BY <1>2, <1>type, BatterySteps, BatteryFreshSteps DEF SupplyInv
    <2>3. CASE SendTimerCommand("STOP")
      <3>1. /\ timerCommands' \in Seq({"START", "STOP"})
            /\ Len(timerCommands') <= TimerQueueLen
            /\ disturbed' \in BOOLEAN
        BY <1>type, <2>3, TimerCommandType
      <3>2. SupplyTypeOK'
        BY <1>2, <1>msg, <1>bus, <2>1, <2>2, <3>1
        DEF SupplyInv, SupplyTypeOK, updateUSBPowerState, ReportedSupply
      <3> QED
        BY <1>2, <2>1, <2>2, <3>2
        DEF SupplyInv, updateUSBPowerState, ReportedSupply,
            BatteryFollowsSupply
    <2>4. CASE UNCHANGED <<mUsbPowerCurrentState, timerCommands, pmPc,
                           disturbed>>
      <3>1. SupplyTypeOK'
        BY <1>2, <1>msg, <1>bus, <2>2, <2>4 DEF SupplyInv, SupplyTypeOK
      <3> QED
        BY <2>2, <2>4, <3>1
        DEF SupplyInv, BatteryFollowsSupply, isUsbConnected
    <2> QED  BY <1>2, <2>3, <2>4 DEF updateUSBPowerState
  <1>3. ASSUME usbSuspend \/ usbResume, UNCHANGED batteryVars
        PROVE  SupplyInv'
    <2>1. BatteryTypeOK' /\ BatteryStateFresh' /\ batteryState' = batteryState
      BY <1>3, <1>type, BatterySteps, BatteryFreshSteps DEF SupplyInv
    <2>2. /\ timerCommands' \in Seq({"START", "STOP"})
          /\ Len(timerCommands') <= TimerQueueLen
          /\ disturbed' \in BOOLEAN
      BY <1>3, <1>type, TimerCommandType
      DEF usbSuspend, usbResume, SupplyTypeOK
    <2>3. SupplyTypeOK'
      BY <1>3, <1>msg, <1>bus, <2>1, <2>2
      DEF SupplyInv, SupplyTypeOK, usbSuspend, usbResume,
          USB_POWER_CONNECTION_STATE
    <2> QED
      BY <1>3, <2>1, <2>3
      DEF SupplyInv, BatteryFollowsSupply, isUsbConnected, usbSuspend,
          usbResume
  <1> QED  BY <1>1, <1>2, <1>3 DEF PowerManagerReceive

(* Passing the supply on, and telling the battery. *)
LEMMA NotifyKeeps ==
    ASSUME SupplyInv, ForwardSupply \/ NotifyUsbObserver
    PROVE  SupplyInv'
  <1>type. SupplyTypeOK /\ BatteryTypeOK
    BY DEF SupplyInv, SupplyTypeOK
  <1>1. CASE ForwardSupply
    <2>1. BatteryTypeOK' /\ BatteryStateFresh' /\ batteryState' = batteryState
      BY <1>1, <1>type, BatterySteps, BatteryFreshSteps
      DEF SupplyInv, ForwardSupply
    <2> QED
      BY <1>1, <2>1
      DEF SupplyInv, SupplyTypeOK, ForwardSupply, BatteryFollowsSupply,
          timerVars, busVars
  <1>2. CASE NotifyUsbObserver
    <2>1. mUsbPowerCurrentState # "NONE"
      BY <1>2 DEF SupplyInv, NotifyUsbObserver
    <2>2. /\ BatteryTypeOK' /\ BatteryStateFresh'
          /\ \/ /\ isUsbConnected(mUsbPowerCurrentState)
                /\ batteryState' = "CHARGING"
             \/ /\ mUsbPowerCurrentState = "PLUG_OUT"
                /\ batteryState' \in {"LOW", "NORMAL"}
      BY <1>2, <1>type, BatterySteps, BatteryFreshSteps
      DEF SupplyInv, NotifyUsbObserver
    <2>3. SupplyTypeOK'
      BY <1>2, <2>2
      DEF SupplyInv, SupplyTypeOK, NotifyUsbObserver, timerVars, busVars
    <2>4. BatteryFollowsSupply'
      BY <1>2, <2>1, <2>2
      DEF NotifyUsbObserver, BatteryFollowsSupply, isUsbConnected
    <2> QED  BY <1>2, <2>2, <2>3, <2>4 DEF SupplyInv, NotifyUsbObserver
  <1> QED  BY <1>1, <1>2

(* The timer daemon, the interrupts and the battery gauge only queue       *)
(* messages and commands; the keyboard parameters only move the threshold. *)
LEMMA EnvironmentKeeps ==
    ASSUME SupplyInv,
           \/ TimerDaemon \/ UsbInterrupt \/ ReportBatteryLevel
           \/ ApplyKeyboardParam \/ UNCHANGED supplyVars
    PROVE  SupplyInv'
  <1>type. SupplyTypeOK /\ BatteryTypeOK
    BY DEF SupplyInv, SupplyTypeOK
  <1>same. /\ UNCHANGED <<mUsbPowerCurrentState, mUSBActivityState, pmPc>>
           /\ \/ UNCHANGED batteryVars
              \/ \E percent \in BatteryThresholds :
                     setLowBatteryLevelThresholdPercent(percent)
    BY DEF TimerDaemon, TimerCommand, TimerExpires, TimerReadPower, TimerSend,
           UsbInterrupt, ReportBatteryLevel, ApplyKeyboardParam, supplyVars,
           pmTaskVars
  <1>battery. /\ BatteryTypeOK' /\ BatteryStateFresh'
              /\ batteryState' = batteryState
    BY <1>type, <1>same, BatterySteps, BatteryFreshSteps DEF SupplyInv
  <1>follows. /\ BatteryFollowsSupply'
              /\ pmPc' # "receive" => mUsbPowerCurrentState' # "NONE"
    BY <1>same, <1>battery DEF SupplyInv, BatteryFollowsSupply, isUsbConnected
  <1>1. ASSUME /\ mPowerManagerQueue' \in Seq(PowerManagerMessage)
               /\ Len(mPowerManagerQueue') <= PowerManagerQueueLen
               /\ disturbed' \in BOOLEAN,
               /\ timerArmed' \in BOOLEAN
               /\ timerCommands' \in Seq({"START", "STOP"})
               /\ Len(timerCommands') <= TimerQueueLen
               /\ timerPc' \in {"idle", "readPower", "send"},
               /\ initDone' \in BOOLEAN
               /\ bus' \in {"OUT", "SUPPLY", "ENUMERATED"}
               /\ hostSuspended' \in BOOLEAN
        PROVE  SupplyInv'
    <2>1. SupplyTypeOK'
      BY <1>1, <1>same, <1>battery DEF SupplyInv, SupplyTypeOK
    <2> QED  BY <2>1, <1>battery, <1>follows DEF SupplyInv
  <1>2. CASE TimerCommand
    <2>1. /\ Head(timerCommands) \in {"START", "STOP"}
          /\ timerCommands' \in Seq({"START", "STOP"})
          /\ Len(timerCommands') <= TimerQueueLen
      BY <1>2, <1>type, TailType, SupplyQueuesAssumption
      DEF TimerCommand, SupplyTypeOK
    <2> QED
      BY <1>1, <1>2, <1>type, <2>1 DEF TimerCommand, SupplyTypeOK, busVars
  <1>3. CASE TimerExpires \/ TimerReadPower \/ UNCHANGED supplyVars
    BY <1>1, <1>3, <1>type
    DEF TimerExpires, TimerReadPower, supplyVars, SupplyTypeOK, timerVars,
        busVars
  <1>4. CASE TimerSend
    <2>1. UsbPowerStateMsg("PLUG_IN_PC_SUSPENDED") \in PowerManagerMessage
      BY MessagesOfTheSystem DEF ReportedSupply, USB_POWER_CONNECTION_STATE
    <2>2. /\ mPowerManagerQueue' \in Seq(PowerManagerMessage)
          /\ Len(mPowerManagerQueue') <= PowerManagerQueueLen
          /\ disturbed' \in BOOLEAN
      BY <1>4, <1>type, <2>1, PushType DEF TimerSend
    <2> QED
      BY <1>1, <1>4, <1>type, <2>2 DEF TimerSend, SupplyTypeOK, busVars
  <1>5. CASE UsbInterrupt
    <2>1. /\ \A c \in {"PLUG_OUT", "PLUG_IN_PC", "PLUG_IN_POWER_SUPPLY_ONLY"} :
                 UsbPowerStateMsg(c) \in PowerManagerMessage
          /\ \A id \in {"USB_SUSPEND_EVT", "USB_RESUME_EVT"} :
                 [msgId |-> id] \in PowerManagerMessage
      BY MessagesOfTheSystem DEF ReportedSupply, USB_POWER_CONNECTION_STATE
    <2>2. \E message \in PowerManagerMessage, tooLate \in BOOLEAN :
              PushToPowerManager(message, tooLate)
      BY <1>5, <2>1
      DEF UsbInterrupt, initUsbPowerState, notifyUsbConnect, Enumerate,
          notifyUsbSuspend, notifyUsbResume, notifyUsbDisconnect
    <2>3. /\ mPowerManagerQueue' \in Seq(PowerManagerMessage)
          /\ Len(mPowerManagerQueue') <= PowerManagerQueueLen
          /\ disturbed' \in BOOLEAN
      BY <1>type, <2>2, PushType
    <2>4. /\ initDone' \in BOOLEAN
          /\ bus' \in {"OUT", "SUPPLY", "ENUMERATED"}
          /\ hostSuspended' \in BOOLEAN
      BY <1>5, <1>type
      DEF UsbInterrupt, initUsbPowerState, notifyUsbConnect, Enumerate,
          notifyUsbSuspend, notifyUsbResume, notifyUsbDisconnect, SupplyTypeOK
    <2> QED
      BY <1>1, <1>5, <1>type, <2>3, <2>4
      DEF UsbInterrupt, timerVars, SupplyTypeOK
  <1>6. CASE ReportBatteryLevel
    <2>1. /\ mPowerManagerQueue' \in Seq(PowerManagerMessage)
          /\ Len(mPowerManagerQueue') <= PowerManagerQueueLen
      BY <1>6, <1>type, MessagesOfTheSystem, SendToBackType,
         SupplyQueuesAssumption
      DEF ReportBatteryLevel, SupplyTypeOK
    <2> QED
      BY <1>1, <1>6, <1>type, <2>1
      DEF ReportBatteryLevel, SupplyTypeOK, timerVars, busVars
  <1>7. CASE ApplyKeyboardParam
    BY <1>1, <1>7, <1>type
    DEF ApplyKeyboardParam, SupplyTypeOK, timerVars, busVars
  <1> QED  BY <1>2, <1>3, <1>4, <1>5, <1>6, <1>7 DEF TimerDaemon

LEMMA SupplyInvStep == SupplyInv /\ [SupplyNext]_supplyVars => SupplyInv'
  BY ReceiveKeeps, NotifyKeeps, EnvironmentKeeps
  DEF SupplyNext, PowerManagerTask

(* In every run no queue is overfilled, and the battery is shown as        *)
(* charging exactly while the supply is believed to be a powered cable,    *)
(* and otherwise in the state of the last level reported.                  *)
THEOREM SupplyCorrect ==
    SupplySpec => [](/\ SupplyTypeOK
                     /\ BatteryStateFresh
                     /\ BatteryFollowsSupply)
  <1>1. SupplyInit => SupplyInv
    BY SupplyInvInit
  <1>2. SupplyInv /\ [SupplyNext]_supplyVars => SupplyInv'
    BY SupplyInvStep
  <1> QED  BY <1>1, <1>2, PTL DEF SupplySpec, SupplyInv

-----------------------------------------------------------------------------
(* What the power manager task will believe of the supply once it has      *)
(* handled its queue.                                                      *)

(* What the messages up to the n-th leave behind: the last one that        *)
(* touches the matter is a good one, or none does and the current value    *)
(* fits already.                                                           *)
Settles(queue, n, touching, good, current, fitting) ==
    \/ \E j \in 1..n : /\ queue[j] \in good
                       /\ \A k \in (j + 1)..n : queue[k] \notin touching
    \/ /\ \A k \in 1..n : queue[k] \notin touching
       /\ current \in fitting

Suspended == "PLUG_IN_PC_SUSPENDED"

(* A supply without regard to whether the host sleeps. *)
Plug(connection) ==
    IF connection = Suspended THEN "PLUG_IN_PC" ELSE connection

SuppliesOfPlug(plug) == {c \in ReportedSupply : Plug(c) = plug}

Reports(connections) == {UsbPowerStateMsg(c) : c \in connections}

ResumeMsg == [msgId |-> "USB_RESUME_EVT"]
SuspendMsg == [msgId |-> "USB_SUSPEND_EVT"]

PlugOfBus ==
    CASE bus = "OUT" -> "PLUG_OUT"
      [] bus = "SUPPLY" -> "PLUG_IN_POWER_SUPPLY_ONLY"
      [] bus = "ENUMERATED" -> "PLUG_IN_PC"

(* The cable will be known: before init() the missing cable need not be.   *)
PlugSettles ==
    Settles(mPowerManagerQueue, Len(mPowerManagerQueue),
            Reports(ReportedSupply), Reports(SuppliesOfPlug(PlugOfBus)),
            mUsbPowerCurrentState,
            SuppliesOfPlug(PlugOfBus) \cup
                IF bus = "OUT" /\ ~initDone THEN {"NONE"} ELSE {})

(* A host that is awake will not be taken for suspended. *)
ResumeSettles ==
    ~hostSuspended =>
        Settles(mPowerManagerQueue, Len(mPowerManagerQueue),
                Reports(ReportedSupply) \cup {ResumeMsg},
                Reports(ReportedSupply \ {Suspended}) \cup {ResumeMsg},
                mUsbPowerCurrentState,
                USB_POWER_CONNECTION_STATE \ {Suspended})

(* Messages that do not interfere with finding out that the host sleeps. *)
Harmless ==
    {message \in PowerManagerMessage :
        message.msgId = "BATTERY_LEVEL"} \cup Reports({Suspended})

(* The suspend event is on its way, and will find a computer. *)
SuspendComes ==
    \E i \in 1..Len(mPowerManagerQueue) :
        /\ mPowerManagerQueue[i] = SuspendMsg
        /\ \A k \in (i + 1)..Len(mPowerManagerQueue) :
               mPowerManagerQueue[k] \in Harmless
        /\ Settles(mPowerManagerQueue, i,
                   Reports(ReportedSupply),
                   Reports(SuppliesOfPlug("PLUG_IN_PC")),
                   mUsbPowerCurrentState, SuppliesOfPlug("PLUG_IN_PC"))

(* The suspend timer will report, or is reporting. *)
TimerWillReport ==
    \/ timerPc \in {"readPower", "send"}
    \/ timerCommands # << >> /\ timerCommands[Len(timerCommands)] = "START"
    \/ timerCommands = << >> /\ timerArmed

(* The suspend event has been handled, and nothing undoes it. *)
SuspendHandled ==
    /\ mUSBActivityState = "USB_SUSPENDED"
    /\ mUsbPowerCurrentState \in SuppliesOfPlug("PLUG_IN_PC")
    /\ \A k \in 1..Len(mPowerManagerQueue) : mPowerManagerQueue[k] \in Harmless
    /\ \/ mUsbPowerCurrentState = Suspended
       \/ \E k \in 1..Len(mPowerManagerQueue) :
              mPowerManagerQueue[k] = UsbPowerStateMsg(Suspended)
       \/ TimerWillReport

SuspendSettles ==
    hostSuspended /\ bus = "ENUMERATED" => SuspendComes \/ SuspendHandled

QuietInv ==
    ~disturbed => PlugSettles /\ ResumeSettles /\ SuspendSettles

LEMMA MessageFields ==
    /\ \A c : /\ UsbPowerStateMsg(c).msgId = "USB_POWER_STATE"
              /\ UsbPowerStateMsg(c).usbPowerConnectionState = c
    /\ ResumeMsg.msgId = "USB_RESUME_EVT"
    /\ SuspendMsg.msgId = "USB_SUSPEND_EVT"
  BY DEF UsbPowerStateMsg, ResumeMsg, SuspendMsg

(* Every message is a level, a suspend, a resume or the report of a supply. *)
LEMMA MessageSorts ==
    ASSUME NEW message \in PowerManagerMessage
    PROVE  \/ message.msgId = "BATTERY_LEVEL"
           \/ message = SuspendMsg
           \/ message = ResumeMsg
           \/ \E c \in ReportedSupply : message = UsbPowerStateMsg(c)
  BY DEF PowerManagerMessage, SuspendMsg, ResumeMsg

LEMMA SettlesAppend ==
    ASSUME NEW S, NEW queue \in Seq(S), NEW message \in S,
           NEW n \in 0..Len(queue), NEW touching, NEW good,
           NEW current, NEW fitting
    PROVE  /\ Settles(queue, n, touching, good, current, fitting) =>
                  Settles(Append(queue, message), n, touching, good,
                          current, fitting)
           /\ /\ n = Len(queue) /\ message \notin touching
              /\ Settles(queue, n, touching, good, current, fitting)
              => Settles(Append(queue, message), n + 1, touching, good,
                         current, fitting)
           /\ n = Len(queue) /\ message \in good =>
                  Settles(Append(queue, message), n + 1, touching, good,
                          current, fitting)
  <1> DEFINE longer == Append(queue, message)
  <1>1. /\ Len(queue) \in Nat /\ n \in Nat /\ n <= Len(queue)
        /\ \A i \in 1..Len(queue) : longer[i] = queue[i]
        /\ longer[Len(queue) + 1] = message
    OBVIOUS
  <1> HIDE DEF longer
  <1>2. \A i \in 1..n : longer[i] = queue[i]
    BY <1>1
  <1>3. ASSUME Settles(queue, n, touching, good, current, fitting)
        PROVE  Settles(longer, n, touching, good, current, fitting)
    BY <1>1, <1>2, <1>3 DEF Settles
  <1>4. ASSUME n = Len(queue), message \notin touching,
               Settles(queue, n, touching, good, current, fitting)
        PROVE  Settles(longer, n + 1, touching, good, current, fitting)
    <2>1. \A k \in 1..(n + 1) : k \in 1..n \/ longer[k] \notin touching
      BY <1>1, <1>4
    <2>2. ASSUME NEW j \in 1..n, queue[j] \in good,
                 \A k \in (j + 1)..n : queue[k] \notin touching
          PROVE  Settles(longer, n + 1, touching, good, current, fitting)
      <3>1. j \in 1..(n + 1) /\ longer[j] \in good
        BY <1>1, <1>2, <2>2
      <3>2. \A k \in (j + 1)..(n + 1) : longer[k] \notin touching
        BY <1>1, <1>2, <2>1, <2>2
      <3> QED  BY <3>1, <3>2 DEF Settles
    <2>3. CASE /\ \A k \in 1..n : queue[k] \notin touching
               /\ current \in fitting
      BY <1>2, <2>1, <2>3 DEF Settles
    <2> QED  BY <1>4, <2>2, <2>3 DEF Settles
  <1>5. ASSUME n = Len(queue), message \in good
        PROVE  Settles(longer, n + 1, touching, good, current, fitting)
    <2>1. n + 1 \in 1..(n + 1) /\ longer[n + 1] \in good
      BY <1>1, <1>5
    <2>2. \A k \in ((n + 1) + 1)..(n + 1) : longer[k] \notin touching
      BY <1>1
    <2> QED  BY <2>1, <2>2 DEF Settles
  <1> QED  BY <1>3, <1>4, <1>5 DEF longer

LEMMA SettlesTail ==
    ASSUME NEW S, NEW queue \in Seq(S), NEW n \in 1..Len(queue),
           NEW touching, NEW good, NEW current, NEW next, NEW fitting,
           Settles(queue, n, touching, good, current, fitting),
           Head(queue) \in good => next \in fitting,
           Head(queue) \notin touching /\ current \in fitting =>
               next \in fitting
    PROVE  Settles(Tail(queue), n - 1, touching, good, next, fitting)
  <1> DEFINE rest == Tail(queue)
  <1>1. /\ Len(queue) \in Nat /\ n \in Nat /\ n >= 1
        /\ Head(queue) = queue[1]
        /\ \A i \in 1..(n - 1) : rest[i] = queue[i + 1]
    OBVIOUS
  <1> HIDE DEF rest
  <1>2. ASSUME NEW j \in 1..n, queue[j] \in good,
               \A k \in (j + 1)..n : queue[k] \notin touching
        PROVE  Settles(rest, n - 1, touching, good, next, fitting)
    <2>1. CASE j = 1
      <3>1. \A k \in 1..(n - 1) : rest[k] \notin touching
        BY <1>1, <1>2, <2>1
      <3> QED  BY <1>1, <1>2, <2>1, <3>1 DEF Settles
    <2>2. CASE j # 1
      <3>1. j - 1 \in 1..(n - 1) /\ rest[j - 1] \in good
        BY <1>1, <1>2, <2>2
      <3>2. \A k \in ((j - 1) + 1)..(n - 1) : rest[k] \notin touching
        BY <1>1, <1>2, <2>2
      <3> QED  BY <3>1, <3>2 DEF Settles
    <2> QED  BY <2>1, <2>2
  <1>3. CASE /\ \A k \in 1..n : queue[k] \notin touching
             /\ current \in fitting
    <2>1. \A k \in 1..(n - 1) : rest[k] \notin touching
      BY <1>1, <1>3
    <2> QED  BY <1>1, <1>3, <2>1 DEF Settles
  <1> QED  BY <1>2, <1>3 DEF Settles, rest

(* A message that was not lost stands at the end of the queue. *)
LEMMA PushAppends ==
    ASSUME SupplyTypeOK, NEW message \in PowerManagerMessage, NEW tooLate,
           PushToPowerManager(message, tooLate), ~disturbed'
    PROVE  /\ mPowerManagerQueue' = Append(mPowerManagerQueue, message)
           /\ Len(mPowerManagerQueue') = Len(mPowerManagerQueue) + 1
           /\ ~disturbed /\ ~tooLate
  <1>1. /\ ~disturbed /\ ~tooLate
        /\ ~(Len(mPowerManagerQueue) >= PowerManagerQueueLen)
    BY Zenon DEF PushToPowerManager
  <1>2. /\ Len(mPowerManagerQueue) \in Nat /\ PowerManagerQueueLen \in Nat
        /\ mPowerManagerQueue \in Seq(PowerManagerMessage)
    BY SupplyQueuesAssumption DEF SupplyTypeOK
  <1>3. mPowerManagerQueue' = Append(mPowerManagerQueue, message)
    BY <1>1, <1>2 DEF PushToPowerManager, SendToBack
  <1> QED  BY <1>1, <1>2, <1>3

LEMMA CommandAppends ==
    ASSUME SupplyTypeOK, NEW command \in {"START", "STOP"},
           SendTimerCommand(command), ~disturbed'
    PROVE  /\ timerCommands' = Append(timerCommands, command)
           /\ ~disturbed
  <1>1. ~disturbed /\ ~(Len(timerCommands) >= TimerQueueLen)
    BY Zenon DEF SendTimerCommand
  <1>2. Len(timerCommands) \in Nat /\ TimerQueueLen \in Nat
    BY SupplyQueuesAssumption DEF SupplyTypeOK
  <1> QED  BY <1>1, <1>2 DEF SendTimerCommand, SendToBack

(* A harmless message behind the others disturbs nothing. *)
LEMMA HarmlessKeepsSuspend ==
    ASSUME SupplyTypeOK, SuspendComes \/ SuspendHandled,
           NEW message \in Harmless, message \in PowerManagerMessage,
           mPowerManagerQueue' = Append(mPowerManagerQueue, message),
           UNCHANGED <<mUsbPowerCurrentState, mUSBActivityState>>,
           \/ TimerWillReport'
           \/ ~TimerWillReport
           \/ message = UsbPowerStateMsg(Suspended)
    PROVE  SuspendComes' \/ SuspendHandled'
  <1> DEFINE n == Len(mPowerManagerQueue)
  <1>1. /\ mPowerManagerQueue \in Seq(PowerManagerMessage) /\ n \in Nat
        /\ Len(mPowerManagerQueue') = n + 1
        /\ \A i \in 1..n : mPowerManagerQueue'[i] = mPowerManagerQueue[i]
        /\ mPowerManagerQueue'[n + 1] = message
    BY DEF SupplyTypeOK
  <1> HIDE DEF n
  <1>2. CASE SuspendComes
    <2>1. PICK i \in 1..n :
              /\ mPowerManagerQueue[i] = SuspendMsg
              /\ \A k \in (i + 1)..n : mPowerManagerQueue[k] \in Harmless
              /\ Settles(mPowerManagerQueue, i, Reports(ReportedSupply),
                         Reports(SuppliesOfPlug("PLUG_IN_PC")),
                         mUsbPowerCurrentState, SuppliesOfPlug("PLUG_IN_PC"))
      BY <1>2 DEF SuspendComes, n
    <2>2. i \in 1..(n + 1) /\ mPowerManagerQueue'[i] = SuspendMsg
      BY <1>1, <2>1
    <2>3. \A k \in (i + 1)..(n + 1) : mPowerManagerQueue'[k] \in Harmless
      BY <1>1, <2>1
    <2>4. Settles(mPowerManagerQueue', i, Reports(ReportedSupply),
                  Reports(SuppliesOfPlug("PLUG_IN_PC")),
                  mUsbPowerCurrentState', SuppliesOfPlug("PLUG_IN_PC"))
      <3>1. i \in 0..Len(mPowerManagerQueue)
        BY <1>1, <2>1 DEF n
      <3> QED  BY <1>1, <2>1, <3>1, SettlesAppend
    <2>5. SuspendComes'
      BY <1>1, <2>2, <2>3, <2>4
      DEF SuspendComes, Harmless, Reports, SuppliesOfPlug
    <2> QED  BY <2>5
  <1>3. CASE SuspendHandled
    <2>1. \A k \in 1..(n + 1) : mPowerManagerQueue'[k] \in Harmless
      BY <1>1, <1>3 DEF SuspendHandled, n
    <2>2. CASE mUsbPowerCurrentState = Suspended
      BY <1>1, <1>3, <2>1, <2>2 DEF SuspendHandled, Harmless
    <2>3. CASE \/ message = UsbPowerStateMsg(Suspended)
               \/ \E k \in 1..n :
                      mPowerManagerQueue[k] = UsbPowerStateMsg(Suspended)
      <3>1. \E k \in 1..(n + 1) :
                mPowerManagerQueue'[k] = UsbPowerStateMsg(Suspended)
        BY <1>1, <2>3
      <3> QED  BY <1>1, <1>3, <2>1, <3>1 DEF SuspendHandled, Harmless
    <2>4. CASE TimerWillReport'
      BY <1>1, <1>3, <2>1, <2>4 DEF SuspendHandled, Harmless
    <2> QED  BY <1>3, <2>2, <2>3, <2>4 DEF SuspendHandled, n
  <1> QED  BY <1>2, <1>3

(* The power manager task handles a message. *)
LEMMA ReceiveKeepsQuiet ==
    ASSUME SupplyTypeOK, QuietInv, PowerManagerReceive, ~disturbed'
    PROVE  PlugSettles' /\ ResumeSettles' /\ SuspendSettles'
  <1> DEFINE queue == mPowerManagerQueue
             message == Head(mPowerManagerQueue)
  <1>queue. /\ queue \in Seq(PowerManagerMessage) /\ queue # << >>
            /\ queue' = Tail(queue) /\ message \in PowerManagerMessage
            /\ Len(queue) \in 1..Len(queue) /\ Len(queue) \in Nat
            /\ Len(queue') = Len(queue) - 1 /\ message = queue[1]
            /\ \A i \in 1..Len(queue') : queue'[i] = queue[i + 1]
    BY DEF SupplyTypeOK, PowerManagerReceive
  <1>same. UNCHANGED <<timerArmed, timerPc, initDone, bus, hostSuspended>>
    BY DEF PowerManagerReceive, busVars
  <1>level. message.msgId = "BATTERY_LEVEL" =>
                UNCHANGED <<mUsbPowerCurrentState, mUSBActivityState,
                            timerCommands, disturbed>>
    BY DEF PowerManagerReceive
  <1>suspend. message = SuspendMsg =>
                  usbSuspend
    BY MessageFields DEF PowerManagerReceive
  <1>resume. message = ResumeMsg => usbResume
    BY MessageFields DEF PowerManagerReceive
  <1>report. ASSUME NEW c \in ReportedSupply, message = UsbPowerStateMsg(c)
             PROVE  /\ mUsbPowerCurrentState' = c
                    /\ UNCHANGED mUSBActivityState
    BY <1>report, MessageFields DEF PowerManagerReceive, updateUSBPowerState
  <1>calm. ~disturbed
    BY DEF PowerManagerReceive, updateUSBPowerState, usbSuspend, usbResume,
           SendTimerCommand
  <1>before. PlugSettles /\ ResumeSettles /\ SuspendSettles
    BY <1>calm DEF QuietInv
  <1>kept. ASSUME message.msgId = "BATTERY_LEVEL" \/ message = SuspendMsg
           PROVE  mUsbPowerCurrentState' = mUsbPowerCurrentState
    BY <1>kept, <1>level, <1>suspend DEF usbSuspend
  <1>resumed. ASSUME message = ResumeMsg
              PROVE  mUsbPowerCurrentState' =
                         IF mUsbPowerCurrentState = Suspended
                         THEN "PLUG_IN_PC" ELSE mUsbPowerCurrentState
    BY <1>resumed, <1>resume DEF usbResume, Suspended
  <1>plug. ASSUME NEW plug, NEW extra,
                  Suspended \notin extra, NEW n \in 1..Len(queue),
                  Settles(queue, n, Reports(ReportedSupply),
                          Reports(SuppliesOfPlug(plug)),
                          mUsbPowerCurrentState, SuppliesOfPlug(plug) \cup extra)
           PROVE  Settles(queue', n - 1, Reports(ReportedSupply),
                          Reports(SuppliesOfPlug(plug)),
                          mUsbPowerCurrentState',
                          SuppliesOfPlug(plug) \cup extra)
    <2>1. message \in Reports(SuppliesOfPlug(plug)) =>
              mUsbPowerCurrentState' \in SuppliesOfPlug(plug) \cup extra
      BY <1>report DEF Reports, SuppliesOfPlug
    <2>2. ASSUME message \notin Reports(ReportedSupply),
                 mUsbPowerCurrentState \in SuppliesOfPlug(plug) \cup extra
          PROVE  mUsbPowerCurrentState' \in SuppliesOfPlug(plug) \cup extra
      <3>1. \/ message.msgId = "BATTERY_LEVEL"
            \/ message = SuspendMsg \/ message = ResumeMsg
        BY <1>queue, <2>2, MessageSorts DEF Reports
      <3>2. CASE message = ResumeMsg
        BY <1>resumed, <1>plug, <2>2, <3>2
        DEF SuppliesOfPlug, Plug, Suspended, ReportedSupply,
            USB_POWER_CONNECTION_STATE
      <3> QED  BY <1>kept, <2>2, <3>1, <3>2
    <2> QED  BY <1>queue, <1>plug, <2>1, <2>2, SettlesTail
  <1>1. PlugSettles'
    <2> DEFINE extra == IF bus = "OUT" /\ ~initDone THEN {"NONE"} ELSE {}
    <2>1. Suspended \notin extra
      BY DEF Suspended
    <2>2. /\ PlugOfBus' = PlugOfBus
          /\ extra' = extra
      BY <1>same DEF PlugOfBus
    <2>3. Settles(queue', Len(queue) - 1, Reports(ReportedSupply),
                  Reports(SuppliesOfPlug(PlugOfBus)),
                  mUsbPowerCurrentState',
                  SuppliesOfPlug(PlugOfBus) \cup extra)
      <3> HIDE DEF extra
      <3> QED
        BY <1>queue, <1>plug, <1>before, <2>1 DEF PlugSettles, extra
    <2> QED
      BY <1>queue, <1>same, <2>2, <2>3 DEF PlugSettles, Reports, SuppliesOfPlug
  <1>2. ResumeSettles'
    <2> SUFFICES ASSUME ~hostSuspended' PROVE ResumeSettles'
      BY DEF ResumeSettles
    <2> DEFINE touching == Reports(ReportedSupply) \cup {ResumeMsg}
               good == Reports(ReportedSupply \ {Suspended}) \cup {ResumeMsg}
               fitting == USB_POWER_CONNECTION_STATE \ {Suspended}
    <2>1. Settles(queue, Len(queue), touching, good, mUsbPowerCurrentState,
                  fitting)
      BY <1>before, <1>same DEF ResumeSettles
    <2>2. message \in good => mUsbPowerCurrentState' \in fitting
      <3>1. ASSUME NEW c \in ReportedSupply \ {Suspended},
                   message = UsbPowerStateMsg(c)
            PROVE  mUsbPowerCurrentState' \in fitting
        BY <1>report, <3>1 DEF ReportedSupply
      <3>2. CASE message = ResumeMsg
        BY <1>resumed, <3>2
        DEF SupplyTypeOK, Suspended, USB_POWER_CONNECTION_STATE
      <3> QED  BY <3>1, <3>2 DEF Reports
    <2>3. message \notin touching /\ mUsbPowerCurrentState \in fitting =>
              mUsbPowerCurrentState' \in fitting
      BY <1>queue, <1>kept, MessageSorts DEF Reports
    <2>4. Settles(queue', Len(queue) - 1, touching, good,
                  mUsbPowerCurrentState', fitting)
      <3> HIDE DEF touching, good, fitting
      <3> QED  BY <1>queue, <2>1, <2>2, <2>3, SettlesTail
    <2> QED  BY <1>queue, <2>4 DEF ResumeSettles, Reports
  <1>3. SuspendSettles'
    <2> SUFFICES ASSUME hostSuspended', bus' = "ENUMERATED"
                 PROVE  SuspendComes' \/ SuspendHandled'
      BY DEF SuspendSettles
    <2> DEFINE pc == SuppliesOfPlug("PLUG_IN_PC")
    <2>1. SuspendComes \/ SuspendHandled
      BY <1>before, <1>same DEF SuspendSettles
    <2>2. ASSUME NEW i \in 1..Len(queue), queue[i] = SuspendMsg,
                 \A k \in (i + 1)..Len(queue) : queue[k] \in Harmless,
                 Settles(queue, i, Reports(ReportedSupply), Reports(pc),
                         mUsbPowerCurrentState, pc)
          PROVE  SuspendComes' \/ SuspendHandled'
      <3>1. CASE i = 1
        <4>1. usbSuspend /\ mUSBActivityState' = "USB_SUSPENDED"
          BY <1>queue, <1>suspend, <2>2, <3>1 DEF usbSuspend
        <4>2. mUsbPowerCurrentState \in pc
          <5>1. SuspendMsg \notin Reports(pc)
            BY MessageFields DEF Reports
          <5> QED  BY <2>2, <3>1, <5>1 DEF Settles
        <4>3. mUsbPowerCurrentState' = mUsbPowerCurrentState
          BY <4>1 DEF usbSuspend
        <4>4. \A k \in 1..Len(queue') : queue'[k] \in Harmless
          BY <1>queue, <2>2, <3>1
        <4>5. mUsbPowerCurrentState \in {"PLUG_IN_PC", Suspended}
          BY <4>2 DEF SuppliesOfPlug, Plug
        <4>6. ASSUME mUsbPowerCurrentState = "PLUG_IN_PC"
              PROVE  TimerWillReport'
          <5>1. timerCommands' = Append(timerCommands, "START")
            BY <4>1, <4>6, CommandAppends DEF usbSuspend
          <5> QED  BY <5>1 DEF TimerWillReport, SupplyTypeOK
        <4>7. SuspendHandled'
          BY <4>1, <4>2, <4>3, <4>4, <4>5, <4>6
          DEF SuspendHandled, Harmless, SuppliesOfPlug
        <4> QED  BY <4>7
      <3>2. CASE i # 1
        <4>1. i - 1 \in 1..Len(queue') /\ queue'[i - 1] = SuspendMsg
          BY <1>queue, <2>2, <3>2
        <4>2. \A k \in ((i - 1) + 1)..Len(queue') : queue'[k] \in Harmless
          BY <1>queue, <2>2, <3>2
        <4>3. Settles(queue', i - 1, Reports(ReportedSupply), Reports(pc),
                      mUsbPowerCurrentState', pc)
          <5>1. pc = pc \cup {} /\ Suspended \notin {}
            OBVIOUS
          <5> HIDE DEF pc
          <5> QED  BY <1>plug, <2>2, <5>1 DEF pc
        <4> QED
          BY <4>1, <4>2, <4>3
          DEF SuspendComes, Harmless, Reports, SuppliesOfPlug
      <3> QED  BY <3>1, <3>2
    <2>3. CASE SuspendHandled
      <3>1. /\ message \in Harmless
            /\ \A k \in 1..Len(queue') : queue'[k] \in Harmless
        BY <1>queue, <2>3 DEF SuspendHandled
      <3>2. CASE message.msgId = "BATTERY_LEVEL"
        <4>1. UNCHANGED <<mUsbPowerCurrentState, mUSBActivityState,
                          timerCommands, timerArmed, timerPc>>
          BY <1>level, <1>same, <3>2
        <4>2. ASSUME NEW k \in 1..Len(queue),
                     queue[k] = UsbPowerStateMsg(Suspended)
              PROVE  \E l \in 1..Len(queue') :
                         queue'[l] = UsbPowerStateMsg(Suspended)
          <5>1. k # 1
            BY <1>queue, <3>2, <4>2, MessageFields
          <5>2. k - 1 \in 1..Len(queue') /\ queue'[k - 1] = queue[k]
            BY <1>queue, <5>1
          <5> QED  BY <4>2, <5>2
        <4>3. TimerWillReport => TimerWillReport'
          BY <4>1 DEF TimerWillReport
        <4> QED
          BY <2>3, <3>1, <4>1, <4>2, <4>3
          DEF SuspendHandled, Harmless, SuppliesOfPlug
      <3>3. CASE message = UsbPowerStateMsg(Suspended)
        <4>1. /\ mUsbPowerCurrentState' = Suspended
              /\ UNCHANGED mUSBActivityState /\ Suspended \in pc
          BY <1>report, <3>3
          DEF Suspended, SuppliesOfPlug, Plug, ReportedSupply,
              USB_POWER_CONNECTION_STATE
        <4> QED
          BY <2>3, <3>1, <4>1 DEF SuspendHandled, Harmless, SuppliesOfPlug
      <3> QED  BY <3>1, <3>2, <3>3 DEF Harmless, Reports
    <2> QED  BY <2>1, <2>2, <2>3 DEF SuspendComes
  <1> QED  BY <1>1, <1>2, <1>3

(* The report of the supply in the plug settles which plug it is, and one  *)
(* that says nothing of a suspended host, or a resume, that it is awake.   *)
LEMMA PlugReported ==
    ASSUME mPowerManagerQueue \in Seq(PowerManagerMessage),
           NEW c \in ReportedSupply, Plug(c) = PlugOfBus',
           UsbPowerStateMsg(c) \in PowerManagerMessage,
           mPowerManagerQueue' =
               Append(mPowerManagerQueue, UsbPowerStateMsg(c))
    PROVE  PlugSettles'
  <1> DEFINE message == UsbPowerStateMsg(c)
             plug == PlugOfBus'
             n == Len(mPowerManagerQueue)
  <1>1. message \in Reports(SuppliesOfPlug(plug))
    BY DEF Reports, SuppliesOfPlug
  <1>2. n \in 0..n /\ Len(mPowerManagerQueue') = n + 1
    OBVIOUS
  <1>3. \A touching, good, current, fitting :
            message \in good =>
                Settles(mPowerManagerQueue', n + 1, touching, good, current,
                        fitting)
    <2> HIDE DEF message
    <2> QED  BY <1>2, SettlesAppend DEF message
  <1> HIDE DEF message, n
  <1>4. Settles(mPowerManagerQueue', n + 1, Reports(ReportedSupply),
                Reports(SuppliesOfPlug(plug)), mUsbPowerCurrentState',
                SuppliesOfPlug(plug) \cup
                    IF bus' = "OUT" /\ ~initDone' THEN {"NONE"} ELSE {})
    BY <1>1, <1>3
  <1> QED  BY <1>2, <1>4 DEF PlugSettles, Reports, SuppliesOfPlug

LEMMA WakingReported ==
    ASSUME mPowerManagerQueue \in Seq(PowerManagerMessage),
           NEW message \in PowerManagerMessage,
           message \in Reports(ReportedSupply \ {Suspended}) \cup {ResumeMsg},
           mPowerManagerQueue' = Append(mPowerManagerQueue, message)
    PROVE  ResumeSettles'
  <1> DEFINE n == Len(mPowerManagerQueue)
  <1>1. n \in 0..n /\ Len(mPowerManagerQueue') = n + 1
    OBVIOUS
  <1>2. Settles(mPowerManagerQueue', n + 1,
                Reports(ReportedSupply) \cup {ResumeMsg},
                Reports(ReportedSupply \ {Suspended}) \cup {ResumeMsg},
                mUsbPowerCurrentState',
                USB_POWER_CONNECTION_STATE \ {Suspended})
    BY <1>1, SettlesAppend
  <1> QED  BY <1>1, <1>2 DEF ResumeSettles, Reports

(* The steps that leave the queue and the bus alone: only the timer's own  *)
(* progress matters.                                                       *)
LEMMA QueueKeptKeepsQuiet ==
    ASSUME QuietInv, UNCHANGED <<mPowerManagerQueue, mUsbPowerCurrentState,
                                 mUSBActivityState, disturbed>>,
           UNCHANGED <<initDone, bus, hostSuspended>>,
           SuspendHandled /\ mUsbPowerCurrentState # Suspended =>
               \/ ~TimerWillReport
               \/ TimerWillReport'
    PROVE  QuietInv'
  <1> SUFFICES ASSUME ~disturbed
               PROVE  PlugSettles' /\ ResumeSettles' /\ SuspendSettles'
    BY DEF QuietInv
  <1>1. PlugSettles' /\ ResumeSettles'
    BY DEF QuietInv, PlugSettles, ResumeSettles, PlugOfBus, Settles, Reports,
           SuppliesOfPlug
  <1>2. SuspendComes => SuspendComes'
    BY DEF SuspendComes, Settles, Reports, SuppliesOfPlug, Harmless
  <1>3. SuspendHandled => SuspendHandled'
    BY DEF SuspendHandled, Harmless, SuppliesOfPlug
  <1> QED  BY <1>1, <1>2, <1>3 DEF QuietInv, SuspendSettles

LEMMA TimerKeepsQuiet ==
    ASSUME SupplyTypeOK, QuietInv, TimerDaemon
    PROVE  QuietInv'
  <1>1. CASE TimerCommand
    <2>1. TimerWillReport => TimerWillReport'
      <3> SUFFICES ASSUME TimerWillReport PROVE TimerWillReport'
        OBVIOUS
      <3>1. /\ timerCommands \in Seq({"START", "STOP"})
            /\ timerCommands # << >>
            /\ timerCommands[Len(timerCommands)] = "START"
            /\ timerCommands' = Tail(timerCommands)
            /\ timerArmed' = (Head(timerCommands) = "START")
        BY <1>1 DEF SupplyTypeOK, TimerCommand, TimerWillReport
      <3>2. CASE Len(timerCommands) = 1
        <4>1. timerCommands' = << >> /\ Head(timerCommands) = "START"
          BY <3>1, <3>2
        <4> QED  BY <3>1, <4>1 DEF TimerWillReport
      <3>3. CASE Len(timerCommands) # 1
        <4>1. /\ timerCommands' # << >>
              /\ timerCommands'[Len(timerCommands')] = "START"
          <5> DEFINE n == Len(timerCommands)
          <5>1. /\ n \in Nat /\ n > 1 /\ timerCommands[n] = "START"
                /\ Len(timerCommands') = n - 1
                /\ \A i \in 1..(n - 1) :
                       timerCommands'[i] = timerCommands[i + 1]
            <6>1. n \in Nat /\ n # 0
              BY <3>1
            <6>2. Len(Tail(timerCommands)) = n - 1
              BY <3>1, <6>1
            <6>3. \A i \in 1..(n - 1) :
                      Tail(timerCommands)[i] = timerCommands[i + 1]
              BY <3>1, <6>1
            <6> QED  BY <3>1, <3>3, <6>1, <6>2, <6>3
          <5>2. timerCommands'[n - 1] = timerCommands[(n - 1) + 1]
            BY <5>1
          <5> QED  BY <5>1, <5>2
        <4> QED  BY <4>1 DEF TimerWillReport
      <3> QED  BY <3>2, <3>3
    <2> QED
      BY <1>1, <2>1, QueueKeptKeepsQuiet
      DEF TimerCommand, pmTaskVars, busVars
  <1>2. CASE TimerExpires
    <2>1. SuspendHandled => TimerWillReport'
      BY <1>2 DEF TimerExpires, SuspendHandled, TimerWillReport
    <2> QED
      BY <1>2, <2>1, QueueKeptKeepsQuiet
      DEF TimerExpires, pmTaskVars, busVars
  <1>3. CASE TimerReadPower
    <2>1. SuspendHandled /\ mUsbPowerCurrentState # Suspended =>
              TimerWillReport'
      BY <1>3
      DEF TimerReadPower, SuspendHandled, SuppliesOfPlug, Plug,
          TimerWillReport
    <2> QED
      BY <1>3, <2>1, QueueKeptKeepsQuiet
      DEF TimerReadPower, pmTaskVars, busVars
  <1>4. CASE TimerSend
    <2> SUFFICES ASSUME ~disturbed'
                 PROVE  PlugSettles' /\ ResumeSettles' /\ SuspendSettles'
      BY DEF QuietInv
    <2> DEFINE message == UsbPowerStateMsg(Suspended)
    <2>1. message \in PowerManagerMessage /\ message \in Harmless
      BY MessagesOfTheSystem
      DEF ReportedSupply, USB_POWER_CONNECTION_STATE, Suspended, Harmless,
          Reports
    <2>2. /\ PushToPowerManager(message,
                                SupplyOfBus # "PLUG_IN_PC_SUSPENDED")
          /\ UNCHANGED <<mUsbPowerCurrentState, mUSBActivityState>>
          /\ UNCHANGED <<initDone, bus, hostSuspended>>
      BY <1>4 DEF TimerSend, pmTaskVars, busVars, Suspended
    <2>3. /\ mPowerManagerQueue' = Append(mPowerManagerQueue, message)
          /\ Len(mPowerManagerQueue') = Len(mPowerManagerQueue) + 1
          /\ ~disturbed /\ SupplyOfBus = "PLUG_IN_PC_SUSPENDED"
          /\ mPowerManagerQueue \in Seq(PowerManagerMessage)
      BY <2>1, <2>2, PushAppends DEF SupplyTypeOK
    <2>4. bus = "ENUMERATED" /\ hostSuspended
      BY <2>3 DEF SupplyOfBus, SupplyTypeOK
    <2>5. PlugSettles'
      BY <2>1, <2>2, <2>3, <2>4, PlugReported
      DEF Plug, PlugOfBus, Suspended, ReportedSupply,
          USB_POWER_CONNECTION_STATE
    <2>6. ResumeSettles'
      BY <2>2, <2>4 DEF ResumeSettles
    <2>7. SuspendSettles'
      <3>1. SuspendComes \/ SuspendHandled
        BY <2>3, <2>4 DEF QuietInv, SuspendSettles
      <3>2. SuspendComes' \/ SuspendHandled'
        BY <2>1, <2>2, <2>3, <3>1, HarmlessKeepsSuspend
      <3> QED  BY <3>2 DEF SuspendSettles
    <2> QED  BY <2>5, <2>6, <2>7
  <1> QED  BY <1>1, <1>2, <1>3, <1>4 DEF TimerDaemon

LEMMA LevelKeepsQuiet ==
    ASSUME SupplyTypeOK, QuietInv, ReportBatteryLevel
    PROVE  QuietInv'
  <1> SUFFICES ASSUME ~disturbed'
               PROVE  QuietInv'
    BY DEF QuietInv
  <1>same. /\ UNCHANGED <<mUsbPowerCurrentState, mUSBActivityState, disturbed>>
           /\ UNCHANGED <<initDone, bus, hostSuspended>>
           /\ UNCHANGED <<timerArmed, timerCommands, timerPc>>
    BY DEF ReportBatteryLevel, pmTaskVars, timerVars, busVars
  <1>timer. TimerWillReport' <=> TimerWillReport
    BY <1>same DEF TimerWillReport
  <1>1. CASE UNCHANGED mPowerManagerQueue
    BY <1>1, <1>same, <1>timer, QueueKeptKeepsQuiet
  <1>2. ASSUME NEW message \in PowerManagerMessage,
               message.msgId = "BATTERY_LEVEL",
               mPowerManagerQueue' = Append(mPowerManagerQueue, message)
        PROVE  QuietInv'
    <2>1. /\ mPowerManagerQueue \in Seq(PowerManagerMessage)
          /\ Len(mPowerManagerQueue) \in 0..Len(mPowerManagerQueue)
          /\ Len(mPowerManagerQueue') = Len(mPowerManagerQueue) + 1
      BY <1>2 DEF SupplyTypeOK
    <2>2. /\ message \in Harmless
          /\ message \notin Reports(ReportedSupply)
          /\ message \notin Reports(ReportedSupply) \cup {ResumeMsg}
      BY <1>2, MessageFields DEF Harmless, Reports
    <2>3. PlugSettles' /\ ResumeSettles'
      <3>1. PlugSettles /\ ResumeSettles
        BY <1>same DEF QuietInv
      <3>2. PlugOfBus' = PlugOfBus
        BY <1>same DEF PlugOfBus
      <3>3. PlugSettles'
        BY <1>same, <1>2, <2>1, <2>2, <3>1, <3>2, SettlesAppend
        DEF PlugSettles, Reports, SuppliesOfPlug
      <3>4. ResumeSettles'
        BY <1>same, <1>2, <2>1, <2>2, <3>1, SettlesAppend
        DEF ResumeSettles, Reports
      <3> QED  BY <3>3, <3>4
    <2>4. SuspendComes \/ SuspendHandled => SuspendComes' \/ SuspendHandled'
      BY <1>same, <1>timer, <1>2, <2>2, HarmlessKeepsSuspend
    <2>5. SuspendSettles'
      BY <1>same, <2>4 DEF QuietInv, SuspendSettles
    <2> QED  BY <2>3, <2>5 DEF QuietInv
  <1>3. ASSUME NEW percent \in BatteryLevels,
               mPowerManagerQueue' = SendToBack(mPowerManagerQueue,
                   [msgId |-> "BATTERY_LEVEL", batteryLevel |-> percent],
                   PowerManagerQueueLen)
        PROVE  QuietInv'
    <2> DEFINE message ==
                   [msgId |-> "BATTERY_LEVEL", batteryLevel |-> percent]
    <2>1. /\ message \in PowerManagerMessage
          /\ message.msgId = "BATTERY_LEVEL"
      BY MessagesOfTheSystem
    <2>2. \/ UNCHANGED mPowerManagerQueue
          \/ mPowerManagerQueue' = Append(mPowerManagerQueue, message)
      BY <1>3 DEF SendToBack
    <2> HIDE DEF message
    <2> QED  BY <1>1, <1>2, <2>1, <2>2
  <1> QED  BY <1>3 DEF ReportBatteryLevel

LEMMA InterruptKeepsQuiet ==
    ASSUME SupplyTypeOK, QuietInv, UsbInterrupt
    PROVE  QuietInv'
  <1> SUFFICES ASSUME ~disturbed'
               PROVE  PlugSettles' /\ ResumeSettles' /\ SuspendSettles'
    BY DEF QuietInv
  <1>type. /\ mPowerManagerQueue \in Seq(PowerManagerMessage)
           /\ Len(mPowerManagerQueue) \in Nat
           /\ bus \in {"OUT", "SUPPLY", "ENUMERATED"}
    BY DEF SupplyTypeOK
  <1>same. UNCHANGED <<mUsbPowerCurrentState, mUSBActivityState>>
    BY DEF UsbInterrupt, pmTaskVars
  <1>report. ASSUME NEW c \in ReportedSupply \ {Suspended}, NEW tooLate,
                    PushToPowerManager(UsbPowerStateMsg(c), tooLate),
                    c = PlugOfBus',
                    hostSuspended' => bus' # "ENUMERATED"
             PROVE  PlugSettles' /\ ResumeSettles' /\ SuspendSettles'
    <2>1. UsbPowerStateMsg(c) \in PowerManagerMessage
      BY MessagesOfTheSystem
    <2>2. mPowerManagerQueue' =
              Append(mPowerManagerQueue, UsbPowerStateMsg(c))
      BY <1>report, <2>1, PushAppends
    <2>3. Plug(c) = PlugOfBus'
      BY <1>report DEF Plug
    <2>4. PlugSettles'
      BY <1>type, <2>1, <2>2, <2>3, PlugReported
    <2>5. UsbPowerStateMsg(c) \in
              Reports(ReportedSupply \ {Suspended}) \cup {ResumeMsg}
      BY DEF Reports
    <2>6. ResumeSettles'
      BY <1>type, <2>1, <2>2, <2>5, WakingReported
    <2> QED  BY <1>report, <2>4, <2>6 DEF SuspendSettles
  <1>supplies. {"PLUG_OUT", "PLUG_IN_POWER_SUPPLY_ONLY", "PLUG_IN_PC"}
                   \subseteq ReportedSupply \ {Suspended}
    BY DEF ReportedSupply, USB_POWER_CONNECTION_STATE, Suspended
  <1>event. ASSUME NEW message \in {SuspendMsg, ResumeMsg},
                   PushToPowerManager(message, FALSE),
                   UNCHANGED <<initDone, bus>>
            PROVE  /\ PlugSettles' /\ ~disturbed
                   /\ message \in PowerManagerMessage
                   /\ mPowerManagerQueue' = Append(mPowerManagerQueue, message)
    <2>1. message \in PowerManagerMessage
      BY MessagesOfTheSystem DEF SuspendMsg, ResumeMsg
    <2>2. /\ mPowerManagerQueue' = Append(mPowerManagerQueue, message)
          /\ Len(mPowerManagerQueue') = Len(mPowerManagerQueue) + 1
          /\ ~disturbed
      BY <1>event, <2>1, PushAppends
    <2>3. message \notin Reports(ReportedSupply)
      BY MessageFields DEF Reports
    <2>4. PlugSettles /\ PlugOfBus' = PlugOfBus
      BY <1>event, <2>2 DEF QuietInv, PlugOfBus
    <2>5. Len(mPowerManagerQueue) \in 0..Len(mPowerManagerQueue)
      BY <1>type
    <2>6. PlugSettles'
      BY <1>event, <1>same, <1>type, <2>1, <2>2, <2>3, <2>4, <2>5,
         SettlesAppend
      DEF PlugSettles, Reports, SuppliesOfPlug
    <2> QED  BY <2>1, <2>2, <2>6
  <1>1. CASE initUsbPowerState /\ UNCHANGED <<bus, hostSuspended>>
    <2>1. PushToPowerManager(UsbPowerStateMsg("PLUG_OUT"), bus # "OUT")
      BY <1>1 DEF initUsbPowerState
    <2>2. UsbPowerStateMsg("PLUG_OUT") \in PowerManagerMessage
      BY <1>supplies, MessagesOfTheSystem
    <2>3. ~(bus # "OUT")
      <3>1. disturbed' = (disturbed \/ bus # "OUT"
                \/ Len(mPowerManagerQueue) >= PowerManagerQueueLen)
        BY <2>1 DEF PushToPowerManager
      <3> QED  BY <3>1, Zenon
    <2>4. bus' = "OUT" /\ PlugOfBus' = "PLUG_OUT"
      BY <1>1, <2>3 DEF PlugOfBus
    <2>5. "PLUG_OUT" \in ReportedSupply \ {Suspended}
      BY <1>supplies
    <2> DEFINE late == bus # "OUT"
    <2>6. PushToPowerManager(UsbPowerStateMsg("PLUG_OUT"), late)
      BY <2>1
    <2> HIDE DEF late
    <2> QED  BY <1>report, <2>4, <2>5, <2>6
  <1>2. CASE notifyUsbConnect
    <2>1. PlugOfBus' = "PLUG_IN_POWER_SUPPLY_ONLY" /\ bus' # "ENUMERATED"
      BY <1>2 DEF notifyUsbConnect, PlugOfBus
    <2> QED  BY <1>2, <1>report, <1>supplies, <2>1 DEF notifyUsbConnect
  <1>3. CASE Enumerate
    <2>1. PlugOfBus' = "PLUG_IN_PC" /\ ~hostSuspended'
      BY <1>3 DEF Enumerate, PlugOfBus
    <2> QED  BY <1>3, <1>report, <1>supplies, <2>1 DEF Enumerate
  <1>4. CASE notifyUsbDisconnect
    <2>1. PlugOfBus' = "PLUG_OUT" /\ bus' # "ENUMERATED"
      BY <1>4 DEF notifyUsbDisconnect, PlugOfBus
    <2> QED  BY <1>4, <1>report, <1>supplies, <2>1 DEF notifyUsbDisconnect
  <1>5. CASE notifyUsbResume
    <2>1. PushToPowerManager(ResumeMsg, FALSE) /\ UNCHANGED <<initDone, bus>>
      BY <1>5 DEF notifyUsbResume, ResumeMsg
    <2>2. /\ PlugSettles' /\ ResumeMsg \in PowerManagerMessage
          /\ mPowerManagerQueue' = Append(mPowerManagerQueue, ResumeMsg)
      BY <1>event, <2>1
    <2>3. ResumeMsg \in Reports(ReportedSupply \ {Suspended}) \cup {ResumeMsg}
      OBVIOUS
    <2>4. ResumeSettles'
      BY <1>type, <2>2, <2>3, WakingReported
    <2> QED  BY <1>5, <2>2, <2>4 DEF notifyUsbResume, SuspendSettles
  <1>6. CASE notifyUsbSuspend
    <2> DEFINE n == Len(mPowerManagerQueue)
               pc == SuppliesOfPlug("PLUG_IN_PC")
    <2>1. PushToPowerManager(SuspendMsg, FALSE) /\ UNCHANGED <<initDone, bus>>
      BY <1>6 DEF notifyUsbSuspend, SuspendMsg
    <2>2. /\ PlugSettles' /\ ~disturbed /\ SuspendMsg \in PowerManagerMessage
          /\ mPowerManagerQueue' = Append(mPowerManagerQueue, SuspendMsg)
      BY <1>event, <2>1
    <2>3. ResumeSettles'
      BY <1>6 DEF notifyUsbSuspend, ResumeSettles
    <2>4. ASSUME bus = "ENUMERATED" PROVE SuspendComes'
      <3>1. /\ Len(mPowerManagerQueue') = n + 1
            /\ n + 1 \in 1..Len(mPowerManagerQueue')
            /\ mPowerManagerQueue'[n + 1] = SuspendMsg
            /\ \A k \in ((n + 1) + 1)..Len(mPowerManagerQueue') :
                   mPowerManagerQueue'[k] \in Harmless
        BY <1>type, <2>2
      <3>2. Settles(mPowerManagerQueue', n + 1, Reports(ReportedSupply),
                    Reports(pc), mUsbPowerCurrentState', pc)
        <4>1. /\ PlugSettles' /\ PlugOfBus' = "PLUG_IN_PC"
              /\ bus' = "ENUMERATED"
          BY <2>1, <2>2, <2>4 DEF PlugOfBus
        <4>2. pc \cup {} = pc
          OBVIOUS
        <4> QED
          BY <3>1, <4>1, <4>2 DEF PlugSettles, Reports, SuppliesOfPlug
      <3> QED
        BY <3>1, <3>2 DEF SuspendComes, Harmless, Reports, SuppliesOfPlug
    <2>5. SuspendSettles'
      BY <2>1, <2>4 DEF SuspendSettles
    <2> QED  BY <2>2, <2>3, <2>5
  <1> QED  BY <1>1, <1>2, <1>3, <1>4, <1>5, <1>6 DEF UsbInterrupt

LEMMA QuietInvInit == SupplyInit => QuietInv
  <1> SUFFICES ASSUME SupplyInit
               PROVE  PlugSettles /\ ResumeSettles /\ SuspendSettles
    BY DEF QuietInv
  <1>1. \A k \in 1..Len(mPowerManagerQueue) : FALSE
    BY DEF SupplyInit
  <1> QED
    BY <1>1
    DEF SupplyInit, PlugSettles, ResumeSettles, SuspendSettles, Settles,
        Suspended, USB_POWER_CONNECTION_STATE

LEMMA QuietInvStep ==
    ASSUME SupplyTypeOK, QuietInv, [SupplyNext]_supplyVars
    PROVE  QuietInv'
  <1>1. CASE PowerManagerReceive
    BY <1>1, ReceiveKeepsQuiet DEF QuietInv
  <1>2. CASE \/ ForwardSupply \/ NotifyUsbObserver \/ ApplyKeyboardParam
             \/ UNCHANGED supplyVars
    <2>1. /\ UNCHANGED <<mPowerManagerQueue, mUsbPowerCurrentState,
                         mUSBActivityState, disturbed>>
          /\ UNCHANGED <<initDone, bus, hostSuspended>>
          /\ UNCHANGED <<timerArmed, timerCommands, timerPc>>
      BY <1>2
      DEF ForwardSupply, NotifyUsbObserver, ApplyKeyboardParam, supplyVars,
          pmTaskVars, timerVars, busVars
    <2>2. TimerWillReport' <=> TimerWillReport
      BY <2>1 DEF TimerWillReport
    <2> QED  BY <2>1, <2>2, QueueKeptKeepsQuiet
  <1>3. CASE TimerDaemon
    BY <1>3, TimerKeepsQuiet
  <1>4. CASE UsbInterrupt
    BY <1>4, InterruptKeepsQuiet
  <1>5. CASE ReportBatteryLevel
    BY <1>5, LevelKeepsQuiet
  <1> QED
    BY <1>1, <1>2, <1>3, <1>4, <1>5 DEF SupplyNext, PowerManagerTask

(* Once every report has been handled the power manager task believes what *)
(* the cable and the host say, for queues of any length and every          *)
(* interleaving of the interrupts, the suspend timer and the task, unless  *)
(* a message was lost or overtaken.                                        *)
THEOREM QuiescentSupplyCorrect == SupplySpec => []QuiescentSupplyRight
  <1>1. SupplyInit => SupplyInv /\ QuietInv
    BY SupplyInvInit, QuietInvInit
  <1>2. SupplyInv /\ QuietInv /\ [SupplyNext]_supplyVars =>
            SupplyInv' /\ QuietInv'
    BY SupplyInvStep, QuietInvStep DEF SupplyInv
  <1>3. SupplyInv /\ QuietInv => QuiescentSupplyRight
    <2> SUFFICES ASSUME SupplyInv, QuietInv, Quiescent, ~disturbed
                 PROVE  mUsbPowerCurrentState = SupplyOfBus
      BY DEF QuiescentSupplyRight
    <2>1. \A k \in 1..Len(mPowerManagerQueue) : FALSE
      BY DEF Quiescent
    <2>2. /\ mUsbPowerCurrentState \in SuppliesOfPlug(PlugOfBus)
          /\ ~hostSuspended => mUsbPowerCurrentState # Suspended
      BY <2>1
      DEF QuietInv, Quiescent, PlugSettles, ResumeSettles, Settles
    <2>3. hostSuspended /\ bus = "ENUMERATED" =>
              mUsbPowerCurrentState = Suspended
      BY <2>1
      DEF QuietInv, Quiescent, SuspendSettles, SuspendComes, SuspendHandled,
          TimerWillReport
    <2>4. bus \in {"OUT", "SUPPLY", "ENUMERATED"}
      BY DEF SupplyInv, SupplyTypeOK
    <2> QED
      BY <2>2, <2>3, <2>4
      DEF SuppliesOfPlug, Plug, PlugOfBus, SupplyOfBus, Suspended
  <1> QED  BY <1>1, <1>2, <1>3, PTL DEF SupplySpec

-----------------------------------------------------------------------------
(* The power manager as a whole. *)

(* Only a finite delay of a running machine ends, and the machine waits    *)
(* for the timeout.                                                        *)
TimeoutDue ==
    activityPc = "timeout" =>
        psmState # "OFF" /\ mCurrentTimeout # INFINITE_DELAY

PMInv ==
    /\ PsmInv
    /\ SupplyInv
    /\ PMTypeOK
    /\ TimeoutDue
    /\ SupplyForwarded

LEMMA PMInvInit == PMInit => PMInv
  <1> SUFFICES ASSUME PMInit PROVE PMInv
    OBVIOUS
  <1>1. PsmInv /\ SupplyInv
    BY PsmInvInit, SupplyInvInit DEF PMInit
  <1>2. /\ mActivityQueue = << >> /\ forwardLost \in BOOLEAN
        /\ mUsbPowerCurrentState = mPowerConnectionState
        /\ activityPc = "receive"
    BY DEF PMInit, Init, SupplyInit
  <1>3. << >> \in Seq(CheckActivityMsg) /\ Len(<< >>) <= ActivityQueueLen
    BY ActivityQueueAssumption
  <1>4. PMTypeOK
    BY <1>1, <1>2, <1>3 DEF PMTypeOK, PsmInv, SupplyInv
  <1>5. SupplyForwarded
    BY <1>2 DEF SupplyForwarded, SupplyWillBe
  <1> QED  BY <1>1, <1>2, <1>4, <1>5 DEF PMInv, TimeoutDue

-----------------------------------------------------------------------------
(* What the activity queue says of the supply. *)

LEMMA ActivityMessageKinds ==
    ASSUME NEW message \in CheckActivityMsg
    PROVE  /\ message.msgId = "UPDATE_TIMEOUTS" =>
                  message.timeouts \in TimeoutSets
           /\ message.msgId = "USB_STATE" =>
                  \E c \in ReportedSupply : message = UsbStateMsg(c)
  BY DEF CheckActivityMsg, PlainRequest, UpdateTimeoutsRequest, UsbStateMsg

LEMMA RequestsAreMessages ==
    \A request \in Requests :
        request \in CheckActivityMsg /\ request.msgId # "USB_STATE"
  BY RequestsAssumption
  DEF CheckActivityMsg, PlainRequest, UpdateTimeoutsRequest

(* A request queued behind the supply does not change it. *)
LEMMA RequestKeepsSupply ==
    ASSUME NEW connection, SupplyWillBe(connection),
           mActivityQueue \in Seq(CheckActivityMsg),
           NEW request \in CheckActivityMsg, request.msgId # "USB_STATE",
           mActivityQueue' =
               SendToBack(mActivityQueue, request, ActivityQueueLen),
           mPowerConnectionState' = mPowerConnectionState
    PROVE  SupplyWillBe(connection)'
  <1>1. CASE mActivityQueue' = mActivityQueue
    BY <1>1 DEF SupplyWillBe
  <1>2. CASE mActivityQueue' = Append(mActivityQueue, request)
    <2>1. /\ Len(mActivityQueue') = Len(mActivityQueue) + 1
          /\ \A i \in 1..Len(mActivityQueue) :
                 mActivityQueue'[i] = mActivityQueue[i]
          /\ mActivityQueue'[Len(mActivityQueue) + 1] = request
          /\ Len(mActivityQueue) \in Nat
      BY <1>2
    <2>2. CASE /\ \A i \in 1..Len(mActivityQueue) :
                      mActivityQueue[i].msgId # "USB_STATE"
               /\ mPowerConnectionState = connection
      BY <2>1, <2>2 DEF SupplyWillBe
    <2>3. ASSUME NEW i \in 1..Len(mActivityQueue),
                 mActivityQueue[i] = UsbStateMsg(connection),
                 \A j \in (i + 1)..Len(mActivityQueue) :
                     mActivityQueue[j].msgId # "USB_STATE"
          PROVE  SupplyWillBe(connection)'
      <3>1. /\ i \in 1..Len(mActivityQueue')
            /\ mActivityQueue'[i] = UsbStateMsg(connection)
        BY <2>1, <2>3
      <3>2. \A j \in (i + 1)..Len(mActivityQueue') :
                mActivityQueue'[j].msgId # "USB_STATE"
        BY <2>1, <2>3
      <3> QED  BY <3>1, <3>2 DEF SupplyWillBe
    <2> QED  BY <2>2, <2>3 DEF SupplyWillBe
  <1> QED  BY <1>1, <1>2 DEF SendToBack

(* A supply queued last is the one the state machine will know. *)
LEMMA ForwardSetsSupply ==
    ASSUME NEW connection, mActivityQueue \in Seq(CheckActivityMsg),
           mActivityQueue' = Append(mActivityQueue, UsbStateMsg(connection))
    PROVE  SupplyWillBe(connection)'
  <1> DEFINE n == Len(mActivityQueue) + 1
  <1>1. /\ n \in 1..Len(mActivityQueue') /\ Len(mActivityQueue') = n
        /\ mActivityQueue'[n] = UsbStateMsg(connection)
    OBVIOUS
  <1>2. \A j \in (n + 1)..Len(mActivityQueue') :
            mActivityQueue'[j].msgId # "USB_STATE"
    BY <1>1
  <1> QED  BY <1>1, <1>2 DEF SupplyWillBe

(* Handling the first message moves its supply into the state machine. *)
LEMMA HandleKeepsSupply ==
    ASSUME NEW connection, SupplyWillBe(connection),
           mActivityQueue \in Seq(CheckActivityMsg), mActivityQueue # << >>,
           mActivityQueue' = Tail(mActivityQueue),
           HandleActivity(Head(mActivityQueue))
    PROVE  SupplyWillBe(connection)'
  <1> DEFINE message == Head(mActivityQueue)
  <1>1. /\ message = mActivityQueue[1] /\ message \in CheckActivityMsg
        /\ Len(mActivityQueue') = Len(mActivityQueue) - 1
        /\ \A i \in 1..Len(mActivityQueue') :
               mActivityQueue'[i] = mActivityQueue[i + 1]
        /\ Len(mActivityQueue) \in Nat \ {0}
    OBVIOUS
  <1>2. ASSUME message.msgId # "USB_STATE"
        PROVE  mPowerConnectionState' = mPowerConnectionState
    BY <1>2
    DEF HandleActivity, powerOff, userActivityDetected, stopDemo, startDemo,
        systemActivityDetected, updateTimeouts, SameInputs
  <1>3. ASSUME NEW c, message = UsbStateMsg(c)
        PROVE  mPowerConnectionState' = c
    BY <1>3 DEF HandleActivity, UsbStateMsg, updatePowerConnectionState
  <1>4. CASE /\ \A i \in 1..Len(mActivityQueue) :
                    mActivityQueue[i].msgId # "USB_STATE"
             /\ mPowerConnectionState = connection
    BY <1>1, <1>2, <1>4 DEF SupplyWillBe
  <1>5. ASSUME NEW i \in 1..Len(mActivityQueue),
               mActivityQueue[i] = UsbStateMsg(connection),
               \A j \in (i + 1)..Len(mActivityQueue) :
                   mActivityQueue[j].msgId # "USB_STATE"
        PROVE  SupplyWillBe(connection)'
    <2>1. CASE i = 1
      <3>1. mPowerConnectionState' = connection
        BY <1>1, <1>3, <1>5, <2>1
      <3>2. \A j \in 1..Len(mActivityQueue') :
                mActivityQueue'[j].msgId # "USB_STATE"
        BY <1>1, <1>5, <2>1
      <3> QED  BY <3>1, <3>2 DEF SupplyWillBe
    <2>2. CASE i # 1
      <3>1. /\ i - 1 \in 1..Len(mActivityQueue')
            /\ mActivityQueue'[i - 1] = UsbStateMsg(connection)
        BY <1>1, <1>5, <2>2
      <3>2. \A j \in ((i - 1) + 1)..Len(mActivityQueue') :
                mActivityQueue'[j].msgId # "USB_STATE"
        BY <1>1, <1>5, <2>2
      <3> QED  BY <3>1, <3>2 DEF SupplyWillBe
    <2> QED  BY <2>1, <2>2
  <1> QED  BY <1>4, <1>5 DEF SupplyWillBe

-----------------------------------------------------------------------------
(* The state machine is driven within its specification. *)

LEMMA HandleActivityIsNext ==
    ASSUME NEW message \in CheckActivityMsg, HandleActivity(message)
    PROVE  Next
  <1>1. CASE message.msgId = "UPDATE_TIMEOUTS" /\ updateTimeouts(message.timeouts)
    BY <1>1, ActivityMessageKinds DEF Next
  <1>2. CASE /\ message.msgId = "USB_STATE"
             /\ updatePowerConnectionState(message.usbPowerConnectionState)
    BY <1>2, ActivityMessageKinds DEF Next, UsbStateMsg
  <1> QED  BY <1>1, <1>2 DEF HandleActivity, Next

LEMMA PMStepIsPsmStep ==
    ASSUME PMInv, [PMNext]_pmVars
    PROVE  [Next]_psmVars
  <1>1. CASE ActivityReceive
    <2>1. Head(mActivityQueue) \in CheckActivityMsg
      BY <1>1 DEF PMInv, PMTypeOK, ActivityReceive
    <2> QED  BY <1>1, <2>1, HandleActivityIsNext DEF ActivityReceive
  <1>2. CASE ActivityTimeout
    BY <1>2 DEF PMInv, TimeoutDue, ActivityTimeout, Next
  <1>3. ASSUME \/ updateUSBPowerStateToCheckActivityTask \/ SupplyStep
               \/ DelayElapses \/ PMTimer \/ Environment \/ UNCHANGED pmVars
        PROVE  UNCHANGED psmVars
    BY <1>3
    DEF updateUSBPowerStateToCheckActivityTask, SupplyStep, PMTimer,
        Environment, PostRequest, pmVars, activityVars, DelayElapses,
        EmptyHanded
  <1> QED  BY <1>1, <1>2, <1>3 DEF PMNext, PMTask, CheckActivityTask

LEMMA PMStepIsSupplyStep ==
    ASSUME [PMNext]_pmVars
    PROVE  [SupplyNext]_supplyVars
  BY DEF PMNext, PMTask, CheckActivityTask, PMTimer, Environment, PostRequest,
         updateUSBPowerStateToCheckActivityTask, SupplyStep, ActivityReceive,
         DelayElapses, EmptyHanded, ActivityTimeout, pmVars, SupplyNext,
         PowerManagerTask

(* The activity queue keeps its type and its length, the task its place. *)
LEMMA ActivityQueueType ==
    ASSUME PMInv, [PMNext]_pmVars
    PROVE  /\ mActivityQueue' \in Seq(CheckActivityMsg)
           /\ Len(mActivityQueue') <= ActivityQueueLen
           /\ activityPc' \in {"receive", "timeout"}
           /\ forwardLost' \in BOOLEAN
  <1>type. /\ mActivityQueue \in Seq(CheckActivityMsg)
           /\ Len(mActivityQueue) <= ActivityQueueLen
           /\ activityPc \in {"receive", "timeout"}
           /\ forwardLost \in BOOLEAN /\ ActivityQueueLen \in Nat
    BY ActivityQueueAssumption DEF PMInv, PMTypeOK
  <1>1. CASE updateUSBPowerStateToCheckActivityTask
    <2>1. UsbStateMsg(ForwardedSupply) \in CheckActivityMsg
      BY <1>1
      DEF PMInv, SupplyInv, SupplyTypeOK, ForwardSupply, ForwardedSupply,
          CheckActivityMsg, ReportedSupply,
          updateUSBPowerStateToCheckActivityTask
    <2>2. forwardLost' \in BOOLEAN
      BY <1>1 DEF updateUSBPowerStateToCheckActivityTask
    <2> QED
      BY <1>1, <1>type, <2>1, <2>2, SendToBackType
      DEF updateUSBPowerStateToCheckActivityTask
  <1>2. CASE PostRequest
    BY <1>2, <1>type, RequestsAreMessages, SendToBackType DEF PostRequest
  <1>3. CASE ActivityReceive
    BY <1>3, <1>type, TailType DEF ActivityReceive
  <1>4. ASSUME \/ DelayElapses \/ ActivityTimeout \/ SupplyStep \/ PMTimer
               \/ /\ UsbInterrupt \/ ReportBatteryLevel \/ ApplyKeyboardParam
                  /\ UNCHANGED activityVars
               \/ UNCHANGED pmVars
        PROVE  UNCHANGED <<mActivityQueue, forwardLost>>
    BY <1>4
    DEF DelayElapses, EmptyHanded, ActivityTimeout, SupplyStep, PMTimer,
        activityVars, pmVars
  <1>5. activityPc' \in {"receive", "timeout"}
    BY <1>type
    DEF PMNext, PMTask, CheckActivityTask, PMTimer, Environment, SupplyStep,
        updateUSBPowerStateToCheckActivityTask, PostRequest, ActivityReceive,
        DelayElapses, EmptyHanded, ActivityTimeout, activityVars, pmVars
  <1> QED
    BY <1>1, <1>2, <1>3, <1>4, <1>5, <1>type
    DEF PMNext, PMTask, CheckActivityTask, Environment

(* Passing on, posting and handling each keep the supply on its way; the   *)
(* power manager task changes it only by going to "forward".               *)
LEMMA SupplyForwardedStep ==
    ASSUME PMInv, [PMNext]_pmVars
    PROVE  SupplyForwarded'
  <1>type. mActivityQueue \in Seq(CheckActivityMsg)
    BY DEF PMInv, PMTypeOK
  <1>inv. SupplyForwarded
    BY DEF PMInv
  <1>1. CASE updateUSBPowerStateToCheckActivityTask
    <2> SUFFICES ASSUME ~forwardLost' PROVE SupplyForwarded'
      BY DEF SupplyForwarded
    <2>1. Len(mActivityQueue) < ActivityQueueLen
      <3>1. ~(Len(mActivityQueue) >= ActivityQueueLen)
        BY <1>1, Zenon DEF updateUSBPowerStateToCheckActivityTask
      <3> QED  BY <1>type, <3>1, ActivityQueueAssumption
    <2>2. /\ mActivityQueue' =
                 Append(mActivityQueue, UsbStateMsg(mUsbPowerCurrentState))
          /\ mUsbPowerCurrentState' = mUsbPowerCurrentState
      <3>1. /\ mActivityQueue' = SendToBack(mActivityQueue,
                   UsbStateMsg(mUsbPowerCurrentState), ActivityQueueLen)
            /\ mUsbPowerCurrentState' = mUsbPowerCurrentState
        BY <1>1
        DEF updateUSBPowerStateToCheckActivityTask, ForwardSupply,
            ForwardedSupply
      <3> QED  BY <2>1, <3>1 DEF SendToBack
    <2>3. SupplyWillBe(mUsbPowerCurrentState)'
      BY <1>type, <2>2, ForwardSetsSupply
    <2> QED  BY <2>2, <2>3 DEF SupplyForwarded
  <1>2. CASE SupplyStep
    <2>1. UNCHANGED <<mActivityQueue, mPowerConnectionState, forwardLost>>
      BY <1>2 DEF SupplyStep, activityVars, psmVars
    <2>2. pmPc # "forward"
      BY <1>2 DEF SupplyStep, PowerManagerReceive, NotifyUsbObserver
    <2>3. pmPc' = "forward" \/ mUsbPowerCurrentState' = mUsbPowerCurrentState
      BY <1>2
      DEF SupplyStep, PowerManagerReceive, NotifyUsbObserver,
          updateUSBPowerState, usbSuspend, usbResume
    <2> QED
      BY <1>inv, <2>1, <2>2, <2>3 DEF SupplyForwarded, SupplyWillBe
  <1>same. ASSUME \/ ActivityReceive \/ DelayElapses \/ ActivityTimeout
                  \/ PMTimer \/ Environment \/ UNCHANGED pmVars
           PROVE  UNCHANGED <<pmPc, mUsbPowerCurrentState, forwardLost>>
    BY <1>same
    DEF ActivityReceive, DelayElapses, EmptyHanded, ActivityTimeout, PMTimer,
        TimerDaemon, TimerCommand, TimerExpires, TimerReadPower, TimerSend, Environment, UsbInterrupt,
        ReportBatteryLevel, ApplyKeyboardParam, PostRequest, pmVars,
        supplyVars, pmTaskVars, activityVars
  <1>3. CASE ActivityReceive
    BY <1>3, <1>inv, <1>same, <1>type, HandleKeepsSupply
    DEF ActivityReceive, SupplyForwarded
  <1>4. CASE PostRequest
    <2>1. /\ mPowerConnectionState' = mPowerConnectionState
          /\ \E request \in Requests : mActivityQueue' =
                 SendToBack(mActivityQueue, request, ActivityQueueLen)
      BY <1>4 DEF PostRequest, psmVars
    <2>2. UNCHANGED <<pmPc, mUsbPowerCurrentState, forwardLost>>
      BY <1>4, <1>same DEF Environment
    <2> QED
      BY <1>inv, <1>type, <2>1, <2>2, RequestsAreMessages, RequestKeepsSupply
      DEF SupplyForwarded
  <1>5. CASE DelayElapses \/ ActivityTimeout
    <2>1. UNCHANGED <<mActivityQueue, mPowerConnectionState>>
      BY <1>5
      DEF DelayElapses, EmptyHanded, ActivityTimeout, timeout, SameInputs,
          psmVars
    <2> QED
      BY <1>5, <1>inv, <1>same, <2>1 DEF SupplyForwarded, SupplyWillBe
  <1>6. CASE \/ PMTimer
             \/ /\ UsbInterrupt \/ ReportBatteryLevel \/ ApplyKeyboardParam
                /\ UNCHANGED activityVars
             \/ UNCHANGED pmVars
    <2>1. UNCHANGED <<mActivityQueue, mPowerConnectionState>>
      BY <1>6 DEF PMTimer, pmVars, activityVars, psmVars
    <2>2. UNCHANGED <<pmPc, mUsbPowerCurrentState, forwardLost>>
      BY <1>6, <1>same DEF Environment
    <2> QED  BY <1>inv, <2>1, <2>2 DEF SupplyForwarded, SupplyWillBe
  <1> QED
    BY <1>1, <1>2, <1>3, <1>4, <1>5, <1>6
    DEF PMNext, PMTask, CheckActivityTask, Environment

LEMMA TimeoutDueStep ==
    ASSUME PMInv, [PMNext]_pmVars
    PROVE  TimeoutDue'
  <1>1. CASE ActivityReceive
    BY <1>1 DEF ActivityReceive, TimeoutDue
  <1>2. CASE DelayElapses
    BY <1>2 DEF DelayElapses, EmptyHanded, psmVars, TimeoutDue
  <1>3. CASE ActivityTimeout
    BY <1>3 DEF ActivityTimeout, TimeoutDue
  <1>4. ASSUME \/ updateUSBPowerStateToCheckActivityTask \/ SupplyStep
               \/ PMTimer \/ Environment \/ UNCHANGED pmVars
        PROVE  UNCHANGED <<psmVars, activityPc>>
    BY <1>4
    DEF updateUSBPowerStateToCheckActivityTask, SupplyStep, PMTimer,
        Environment, PostRequest, pmVars, activityVars
  <1> QED
    BY <1>1, <1>2, <1>3, <1>4
    DEF PMInv, TimeoutDue, psmVars, PMNext, PMTask, CheckActivityTask

LEMMA PMInvStep == PMInv /\ [PMNext]_pmVars => PMInv'
  <1> SUFFICES ASSUME PMInv, [PMNext]_pmVars PROVE PMInv'
    OBVIOUS
  <1>1. PsmInv'
    BY PMStepIsPsmStep, PsmInvStep DEF PMInv
  <1>2. SupplyInv'
    BY PMStepIsSupplyStep, SupplyInvStep DEF PMInv
  <1>3. PMTypeOK'
    BY <1>1, <1>2, ActivityQueueType DEF PMTypeOK, PsmInv, SupplyInv
  <1>4. TimeoutDue'
    BY TimeoutDueStep
  <1> QED  BY <1>1, <1>2, <1>3, <1>4, SupplyForwardedStep DEF PMInv

-----------------------------------------------------------------------------

(* In every run, whatever the requests and the length of the queues: no    *)
(* queue is overfilled, and a supply that was not dropped is on its way to *)
(* the state machine or already there.                                     *)
THEOREM SupplyForwardedCorrect == PMSpec => [](PMTypeOK /\ SupplyForwarded)
  <1>1. PMInit => PMInv
    BY PMInvInit
  <1>2. PMInv /\ [PMNext]_pmVars => PMInv'
    BY PMInvStep
  <1>3. PMInv => PMTypeOK /\ SupplyForwarded
    BY DEF PMInv
  <1> QED  BY <1>1, <1>2, <1>3, PTL DEF PMSpec

(* A delay ends only with an empty queue: in the sleep on battery the      *)
(* machine, and so the power manager task, then knows of no USB power, or  *)
(* the news was dropped or is being forwarded. At the timeout itself the   *)
(* machine is still in that sleep, and news of USB power is in the queue.  *)
THEOREM NoShutdownOnUsbPowerCorrect == PMSpec => NoShutdownOnUsbPower
  <1> DEFINE News == \E i \in 1..Len(mActivityQueue) :
                         mActivityQueue[i] = UsbStateMsg(mUsbPowerCurrentState)
  <1>1. ASSUME PMInv, psmState = "SLEEP_USB_DISCONNECTED", UsbPowerReported
        PROVE  News
    <2>1. SupplyWillBe(mUsbPowerCurrentState)
      BY <1>1 DEF PMInv, SupplyForwarded, UsbPowerReported
    <2>2. ~isUsbConnected(mPowerConnectionState)
      BY <1>1 DEF PMInv, PsmInv, SleepMatchesSupply
    <2>3. mPowerConnectionState # mUsbPowerCurrentState
      BY <1>1, <2>2 DEF UsbPowerReported
    <2> QED  BY <2>1, <2>3 DEF SupplyWillBe
  <1>2. ASSUME PMInv, DelayElapses, psmState = "SLEEP_USB_DISCONNECTED",
               UsbPowerReported
        PROVE  FALSE
    <2>1. Len(mActivityQueue) = 0
      BY <1>2 DEF DelayElapses
    <2>2. News
      BY <1>1, <1>2
    <2> QED  BY <2>1, <2>2
  <1>3. ASSUME PMInv, ActivityTimeout, psmState' = "OFF"
        PROVE  psmState = "SLEEP_USB_DISCONNECTED"
    <2>1. psmState # "OFF" /\ TimeoutEvent
      BY <1>3 DEF ActivityTimeout, timeout, PMInv, TimeoutDue
    <2> QED  BY <1>3, <2>1 DEF TimeoutEvent, Enter, Ignore
  <1>4. PMInit => PMInv
    BY PMInvInit
  <1>5. PMInv /\ [PMNext]_pmVars => PMInv'
    BY PMInvStep
  <1>6. PMInv =>
            [/\ DelayElapses /\ psmState = "SLEEP_USB_DISCONNECTED" =>
                    ~UsbPowerReported
             /\ ActivityTimeout /\ psmState' = "OFF" /\ UsbPowerReported =>
                    News]_pmVars
    BY <1>1, <1>2, <1>3
  <1> QED  BY <1>4, <1>5, <1>6, PTL DEF PMSpec, NoShutdownOnUsbPower

(* The power manager drives its state machine only in ways the state       *)
(* machine's specification allows: what is proved of the latter holds in   *)
(* the whole.                                                              *)
THEOREM PMImplementsPowerStateMachine == PMSpec => Spec
  <1>1. PMInit => PMInv /\ Init
    BY PMInvInit DEF PMInit
  <1>2. PMInv /\ [PMNext]_pmVars => PMInv'
    BY PMInvStep
  <1>3. PMInv /\ [PMNext]_pmVars => [Next]_psmVars
    BY PMStepIsPsmStep
  <1> QED  BY <1>1, <1>2, <1>3, PTL DEF PMSpec, Spec

=============================================================================
