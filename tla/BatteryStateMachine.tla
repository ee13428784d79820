------------------------- MODULE BatteryStateMachine -------------------------
(***************************************************************************)
(* The battery state machine                                               *)
(* (Middlewares/Nemeio/PowerManager/BatteryStateMachine): it turns the USB *)
(* supply and the measured level into the state the LEDs show. It runs in  *)
(* the power manager task, which calls it as an IUsbActivable and as an    *)
(* IBatteryLevelListener.                                                  *)
(***************************************************************************)
EXTENDS Naturals

CONSTANTS
    BatteryLevels,      \* the levels, in percent, the gauge may report
    BatteryThresholds   \* the thresholds the keyboard parameters may set

ASSUME BatteryLevelsAssumption ==
    BatteryLevels \subseteq 0..100 /\ BatteryThresholds \subseteq 0..100

VARIABLES
    batteryState,                      \* mState
    mBatteryLevelPercent,              \* the last level reported
    mLowBatteryLevelThresholdPercent,  \* a level up to this one is low
    thresholdMoved                     \* history: the threshold was set since
                                       \* the state was last compared with it

batteryVars == <<batteryState, mBatteryLevelPercent,
                 mLowBatteryLevelThresholdPercent, thresholdMoved>>

DEFAULT_LOW_BATTERY_THRESHOLD_PERCENT == 20

BatteryState == {"INIT", "NORMAL", "LOW", "CHARGING"}

-----------------------------------------------------------------------------

(* The state of a keyboard on battery, from the level in force. *)
OnBattery(percent) ==
    IF percent <= mLowBatteryLevelThresholdPercent THEN "LOW" ELSE "NORMAL"

batteryLevel(percent) ==
    /\ mBatteryLevelPercent' = percent
    /\ batteryState' = IF batteryState \in {"LOW", "NORMAL"}
                       THEN OnBattery(percent) ELSE batteryState
    /\ thresholdMoved' = FALSE
    /\ UNCHANGED mLowBatteryLevelThresholdPercent

pluggedIn ==
    /\ batteryState' = "CHARGING"
    /\ thresholdMoved' = FALSE
    /\ UNCHANGED <<mBatteryLevelPercent, mLowBatteryLevelThresholdPercent>>

pluggedOut_AssumesNormal ==    \* fault: the level reported meanwhile is ignored
    /\ batteryState' = IF batteryState \in {"INIT", "CHARGING"}
                       THEN "NORMAL" ELSE batteryState
    /\ thresholdMoved' =
           (thresholdMoved /\ batteryState \notin {"INIT", "CHARGING"})
    /\ UNCHANGED <<mBatteryLevelPercent, mLowBatteryLevelThresholdPercent>>

pluggedOut_InitOnly ==    \* fault: the CHARGING case is missing
    /\ batteryState' = IF batteryState = "INIT"
                       THEN OnBattery(mBatteryLevelPercent) ELSE batteryState
    /\ thresholdMoved' =
           (thresholdMoved /\ batteryState \notin {"INIT", "CHARGING"})
    /\ UNCHANGED <<mBatteryLevelPercent, mLowBatteryLevelThresholdPercent>>

pluggedOut ==
    /\ batteryState' = IF batteryState \in {"INIT", "CHARGING"}
                       THEN OnBattery(mBatteryLevelPercent) ELSE batteryState
    /\ thresholdMoved' =
           (thresholdMoved /\ batteryState \notin {"INIT", "CHARGING"})
    /\ UNCHANGED <<mBatteryLevelPercent, mLowBatteryLevelThresholdPercent>>

(* The threshold of the keyboard parameters, at start-up and whenever they *)
(* are set: the state waits for the next level to be compared with it.     *)
setLowBatteryLevelThresholdPercent(percent) ==
    /\ mLowBatteryLevelThresholdPercent' = percent
    /\ thresholdMoved' =
           (thresholdMoved \/ batteryState \in {"LOW", "NORMAL"})
    /\ UNCHANGED <<batteryState, mBatteryLevelPercent>>

BatteryInit ==
    /\ thresholdMoved = FALSE
    /\ batteryState = "INIT"
    /\ mBatteryLevelPercent = 100
    /\ mLowBatteryLevelThresholdPercent = DEFAULT_LOW_BATTERY_THRESHOLD_PERCENT

BatteryTypeOK ==
    /\ batteryState \in BatteryState
    /\ mBatteryLevelPercent \in 0..100
    /\ mLowBatteryLevelThresholdPercent \in 0..100
    /\ thresholdMoved \in BOOLEAN

(* On battery the state shown is the one of the last level reported, also  *)
(* when the level changed while the keyboard was charging, and the one of  *)
(* the threshold in force, unless that was set since the last level: it is *)
(* not compared with the level in hand (BatteryStateMachine.cpp:18-41,     *)
(* 78-98, 117-120).                                                        *)
BatteryStateFresh ==
    batteryState \in {"LOW", "NORMAL"} =>
        batteryState = OnBattery(mBatteryLevelPercent) \/ thresholdMoved

=============================================================================
