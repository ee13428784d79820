--------------------------- MODULE FirmwareUpdate ---------------------------
(***************************************************************************)
(* An update of the keyboard's three firmwares (display controller, BLE    *)
(* chip, STM32) from one package, across the resets and the power cuts     *)
(* that may come at any step: the download into the bank of the next       *)
(* update, UpdateEngine::run, the STM32 boot loader, and what              *)
(* SystemRuntime::start does about a pending update: validate it on the    *)
(* BLE chip and in the boot loader and switch banks, or roll back from the *)
(* package in the other bank.                                              *)
(*                                                                         *)
(* A package is the version it holds of all three firmwares; a package     *)
(* that is torn, or not signed, is none.  The settings of the environment  *)
(* are written all at once (FirmwareEnvironmentStore).  The test bench     *)
(* branches of start are left out: they neither update nor roll back.      *)
(***************************************************************************)
EXTENDS Naturals

CONSTANTS
    Version,        \* the versions there are packages of
    NoPackage,      \* content of a bank that cannot be mounted
    NoFirmware,     \* no image that can run
    Faults          \* whether the BLE chip and the secure engine may fail to answer

ASSUME UpdateAssumption ==
    /\ Version \subseteq Nat
    /\ NoPackage \notin Version
    /\ NoFirmware \notin Version
    /\ Faults \in BOOLEAN

VARIABLES
    nextBank,       \* the environment: bank of the next update
    pending,        \* the environment: update in progress
    bank,           \* the packages in the two update partitions
    ite,            \* firmware of the display controller
    nrf,            \* firmware of the BLE chip
    floor,          \* oldest version the BLE chip accepts since the last commit
    active,         \* STM32 image that runs
    trial,          \* ... and whether it still has to be validated
    slot,           \* STM32 image to install, or to go back to during a trial
    fromLoader,     \* backup register: installed by the boot loader's recovery mode
    pc,             \* the next step, "off" until the boot loader runs
    answering       \* the other chips answer every call, and no header of their
                    \* packages is handed on in two chunks; never changes

updateVars == <<nextBank, pending, bank, ite, nrf, floor, active, trial, slot, fromLoader, pc, answering>>
chips == <<ite, nrf, floor, active, trial, slot, fromLoader>>

FirmwareUpdateBank == {"BANK_A", "BANK_B"}

getRollbackBank(b) ==
    CASE b = "BANK_A" -> "BANK_B"
      [] b = "BANK_B" -> "BANK_A"
      [] OTHER -> "UNKNOWN"

BootSteps == {"boot", "initEnv", "initA", "initB", "initFlag", "commit", "validate", "switch", "clean"}
RollbackSteps == {"wipe", "rollbackIte", "rollbackNrf", "rollbackEnd"}
UpdateSteps == {"start", "ite", "nrf", "stm"}
AppSteps == {"app", "download"}
Steps == {"off"} \cup BootSteps \cup RollbackSteps \cup UpdateSteps \cup AppSteps

\* How a call to another chip may turn out.
Outcome == IF answering THEN {TRUE} ELSE BOOLEAN

\* The package UpdateEngine::run installs from.
Package == bank[IF pc \in RollbackSteps THEN getRollbackBank(nextBank) ELSE nextBank]

\* The STM32 image that survives a reset.
Confirmed == IF trial THEN slot ELSE active

UpdateInit ==
    /\ \E v \in Version :
        /\ ite = v /\ nrf = v /\ active = v
        /\ floor \in {w \in Version : w <= v}
        /\ \/ nextBank = "BANK_B" /\ bank = [b \in FirmwareUpdateBank |-> IF b = "BANK_A" THEN v ELSE NoPackage]
           \/ nextBank = "UNKNOWN" /\ bank = [b \in FirmwareUpdateBank |-> NoPackage]
    /\ pending = FALSE
    /\ trial = FALSE
    /\ slot = NoFirmware
    /\ fromLoader = FALSE
    /\ pc = "off"
    /\ answering \in IF Faults THEN BOOLEAN ELSE {TRUE}
-----------------------------------------------------------------------------
(* The STM32 boot loader (external). *)

\* An image still on trial is swapped back; a downloaded one is swapped in, on
\* trial, unless the boot loader refuses it.
Bootloader ==
    /\ pc = "off"
    /\ pc' = "boot"
    /\ \/ /\ trial
          /\ active' = slot
          /\ trial' = FALSE
          /\ slot' = NoFirmware
          /\ fromLoader' \in {fromLoader, FALSE}
       \/ /\ ~trial
          /\ slot # NoFirmware
          /\ active' = slot
          /\ trial' = TRUE
          /\ slot' = active
          /\ UNCHANGED fromLoader
       \/ /\ ~trial
          /\ slot' = NoFirmware
          /\ UNCHANGED <<active, trial, fromLoader>>
    /\ UNCHANGED <<nextBank, pending, bank, ite, nrf, floor>>

\* The user installs an STM32 image with the boot loader's recovery mode.  A second
\* recovery before the boot has dealt with the first is left out.
LoaderInstall ==
    /\ pc = "off"
    /\ ~trial
    /\ ~fromLoader
    /\ active' \in Version
    /\ trial' = TRUE
    /\ slot' = active
    /\ fromLoader' = TRUE
    /\ pc' = "boot"
    /\ UNCHANGED <<nextBank, pending, bank, ite, nrf, floor>>
-----------------------------------------------------------------------------
(* The boot: SystemRuntime::start. *)

\* SFU::validateFirmware: an image on trial stays, if the secure engine agrees.
validateFirmware(ok) ==
    /\ trial \/ ok
    /\ trial' = (trial /\ ~ok)
    /\ slot' = IF ok THEN NoFirmware ELSE slot

checkRecoveryUpdate ==
    /\ pc = "boot"
    /\ fromLoader
    /\ \E ok \in Outcome :
        /\ validateFirmware(ok)
        /\ pc' = IF ok THEN "initEnv" ELSE "off"
    /\ UNCHANGED <<nextBank, pending, bank, ite, nrf, floor, active, fromLoader>>

\* Both after a recovery and with an environment that names no bank yet.
InitEnvironment ==
    /\ pc = "initEnv"
    /\ nextBank' = "BANK_A"
    /\ pending' = FALSE
    /\ pc' = "initA"
    /\ UNCHANGED <<bank, chips>>

resetUpdateBank(b) == bank' = [bank EXCEPT ![b] = NoPackage]

InitBanks ==
    /\ \/ /\ pc = "initA"
          /\ resetUpdateBank("BANK_A")
          /\ pc' = "initB"
       \/ /\ pc = "initB"
          /\ resetUpdateBank("BANK_B")
          /\ pc' = IF fromLoader THEN "initFlag" ELSE "app"
    /\ UNCHANGED <<nextBank, pending, chips>>

resetBackupInfo ==
    /\ pc = "initFlag"
    /\ fromLoader' = FALSE
    /\ pc' = "app"
    /\ UNCHANGED <<nextBank, pending, bank, ite, nrf, floor, active, trial, slot>>

\* fault: the version of the BLE chip is not compared
isUpdateValid_SkipsNrf(answered) ==
    /\ answered
    /\ Package # NoPackage
    /\ active = Package
    /\ ite = Package

\* Every chip runs the version of the package: a chip that does not answer
\* counts as one that does not.
isUpdateValid(answered) ==
    /\ answered
    /\ Package # NoPackage
    /\ active = Package
    /\ nrf = Package
    /\ ite = Package

validateUpdate ==
    /\ pc = "boot"
    /\ ~fromLoader
    /\ \/ /\ nextBank = "UNKNOWN"
          /\ pc' = "initEnv"
       \/ /\ nextBank # "UNKNOWN"
          /\ ~pending
          /\ pc' = "app"
       \/ /\ nextBank # "UNKNOWN"
          /\ pending
          /\ \E answered \in Outcome :
                pc' = IF isUpdateValid(answered) THEN "commit" ELSE "wipe"
    /\ UNCHANGED <<nextBank, pending, bank, chips>>

\* The answer is a restart of the BLE chip: it may be lost, or be another one.
CommitNrf ==
    /\ pc = "commit"
    /\ \E committed, started \in Outcome :
        /\ floor' = IF committed THEN Package ELSE floor
        /\ pc' = IF started THEN "validate" ELSE "wipe"
    /\ UNCHANGED <<nextBank, pending, bank, ite, nrf, active, trial, slot, fromLoader>>

ValidateStm32 ==
    /\ pc = "validate"
    /\ \E ok \in Outcome :
        /\ validateFirmware(ok)
        /\ pc' = IF ok THEN "switch" ELSE "wipe"
    /\ UNCHANGED <<nextBank, pending, bank, ite, nrf, floor, active, fromLoader>>

\* fault: the next update goes to the bank of the update just validated
SwitchBank_SameBank ==
    /\ pc = "switch"
    /\ pending' = FALSE
    /\ pc' = "clean"
    /\ UNCHANGED <<nextBank, bank, chips>>

\* The environment is stored before the old package is given up.
SwitchBank ==
    /\ pc = "switch"
    /\ nextBank' = getRollbackBank(nextBank)
    /\ pending' = FALSE
    /\ pc' = "clean"
    /\ UNCHANGED <<bank, chips>>

ResetOldBank ==
    /\ pc = "clean"
    /\ resetUpdateBank(nextBank)
    /\ pc' = "app"
    /\ UNCHANGED <<nextBank, pending, chips>>
-----------------------------------------------------------------------------
(* UpdateEngine::run, for an update and for a rollback. *)

NrfAccepts(v) == v >= floor

\* An image older than the last commit is refused, and taken for installed.
NrfInstalled == IF NrfAccepts(Package) THEN Package ELSE nrf

NrfInterrupted == IF NrfAccepts(Package) THEN {nrf, NoFirmware} ELSE {nrf}

\* The failure of the display controller's update is not one of the update.
IteInstalled == {Package, ite, NoFirmware}

\* fault: the package to go back to is reset instead of the failed one
ResetFailedUpdate_OtherBank ==
    /\ pc = "wipe"
    /\ resetUpdateBank(getRollbackBank(nextBank))
    /\ pc' = "rollbackIte"
    /\ UNCHANGED <<nextBank, pending, chips>>

ResetFailedUpdate ==
    /\ pc = "wipe"
    /\ resetUpdateBank(nextBank)
    /\ pc' = "rollbackIte"
    /\ UNCHANGED <<nextBank, pending, chips>>

RollbackIte ==
    /\ pc = "rollbackIte"
    /\ IF Package = NoPackage
         THEN pc' = "rollbackEnd" /\ UNCHANGED ite
         ELSE pc' = "rollbackNrf" /\ ite' \in IteInstalled
    /\ UNCHANGED <<nextBank, pending, bank, nrf, floor, active, trial, slot, fromLoader>>

\* The result of the rollback is not looked at; the STM32 is left to the boot loader.
RollbackNrf ==
    /\ pc = "rollbackNrf"
    /\ \E ok \in Outcome :
        nrf' \in IF ok THEN {NrfInstalled} ELSE NrfInterrupted
    /\ pc' = "rollbackEnd"
    /\ UNCHANGED <<nextBank, pending, bank, ite, floor, active, trial, slot, fromLoader>>

\* fault: the update is still pending after the rollback
EndRollback_StaysPending ==
    /\ pc = "rollbackEnd"
    /\ pc' = "off"
    /\ UNCHANGED <<nextBank, pending, bank, chips>>

EndRollback ==
    /\ pc = "rollbackEnd"
    /\ pending' = FALSE
    /\ pc' = "off"
    /\ UNCHANGED <<nextBank, bank, chips>>

\* SystemUpdateFile::open gives up what the bank held.
initUpdate ==
    /\ pc = "app"
    /\ resetUpdateBank(nextBank)
    /\ pc' = "download"
    /\ UNCHANGED <<nextBank, pending, chips>>

\* The host has sent a package, or something else, and asks to apply it, or gives up.
EndDownload ==
    /\ pc = "download"
    /\ \/ /\ \E p \in Version \cup {NoPackage} : bank' = [bank EXCEPT ![nextBank] = p]
          /\ pc' = "start"
       \/ /\ pc' = "app"
          /\ UNCHANGED bank
    /\ UNCHANGED <<nextBank, pending, chips>>

\* fault: the update is not recorded in the environment
StartUpdate_NotPending ==
    /\ pc = "start"
    /\ pc' = "ite"
    /\ UNCHANGED <<nextBank, pending, bank, chips>>

\* The START event, before anything is known of the package.
StartUpdate ==
    /\ pc = "start"
    /\ pending' = TRUE
    /\ pc' = "ite"
    /\ UNCHANGED <<nextBank, bank, chips>>

InstallIte ==
    /\ pc = "ite"
    /\ IF Package = NoPackage
         THEN pc' = "off" /\ UNCHANGED ite
         ELSE pc' = "nrf" /\ ite' \in IteInstalled
    /\ UNCHANGED <<nextBank, pending, bank, nrf, floor, active, trial, slot, fromLoader>>

\* A failure in the last bytes of an image is lost, and so is an image behind a
\* header in two chunks (NrfFirmwareUpdate).
InstallNrf ==
    /\ pc = "nrf"
    /\ \/ nrf' = NrfInstalled /\ pc' = "stm"
       \/ nrf' \in NrfInterrupted /\ pc' = "off"
       \/ ~answering /\ nrf' \in NrfInterrupted /\ pc' = "stm"
    /\ UNCHANGED <<nextBank, pending, bank, ite, floor, active, trial, slot, fromLoader>>

\* Success or not, the END or ERROR event resets the keyboard.
InstallStm32 ==
    /\ pc = "stm"
    /\ slot' \in {Package, NoFirmware}
    /\ pc' = "off"
    /\ UNCHANGED <<nextBank, pending, bank, ite, nrf, floor, active, trial, fromLoader>>

\* A power cut, the watchdog, the reset button: what is being written is torn.
PowerCut ==
    /\ pc # "off"
    /\ pc' = "off"
    /\ nrf' \in IF pc \in {"nrf", "rollbackNrf"} THEN NrfInterrupted ELSE {nrf}
    /\ ite' \in IF pc \in {"ite", "rollbackIte"} /\ Package # NoPackage THEN {ite, NoFirmware} ELSE {ite}
    /\ slot' \in IF pc = "stm" THEN {slot, NoFirmware} ELSE {slot}
    /\ UNCHANGED <<nextBank, pending, bank, floor, active, trial, fromLoader>>
-----------------------------------------------------------------------------
BootStep ==
    \/ Bootloader
    \/ checkRecoveryUpdate \/ InitEnvironment \/ InitBanks \/ resetBackupInfo
    \/ validateUpdate \/ CommitNrf \/ ValidateStm32 \/ SwitchBank \/ ResetOldBank
    \/ ResetFailedUpdate \/ RollbackIte \/ RollbackNrf \/ EndRollback

UpdateStep == StartUpdate \/ InstallIte \/ InstallNrf \/ InstallStm32

\* What the user and the world do.
Disturbance == LoaderInstall \/ PowerCut

UpdateNext ==
    /\ BootStep \/ UpdateStep \/ initUpdate \/ EndDownload \/ Disturbance
    /\ UNCHANGED answering

UpdateSpec == UpdateInit /\ [][UpdateNext]_updateVars
-----------------------------------------------------------------------------
(* Properties. *)

UpdateTypeOK ==
    /\ nextBank \in FirmwareUpdateBank \cup {"UNKNOWN"}
    /\ pending \in BOOLEAN
    /\ bank \in [FirmwareUpdateBank -> Version \cup {NoPackage}]
    /\ ite \in Version \cup {NoFirmware}
    /\ nrf \in Version \cup {NoFirmware}
    /\ floor \in Version
    /\ active \in Version
    /\ trial \in BOOLEAN
    /\ slot \in Version \cup {NoFirmware}
    /\ fromLoader \in BOOLEAN
    /\ pc \in Steps
    /\ answering \in BOOLEAN

\* The application never runs on an STM32 image the boot loader would still
\* take back, whatever fails: the user's next reset does not change the firmware.
ApplicationConfirmed == pc \in AppSteps \cup UpdateSteps => ~trial

\* Validating goes from the BLE chip to the STM32 in two steps.  Unless the power was
\* cut in between, which leaves the BLE chip committed to a version the STM32
\* does not run, the application finds both on one version whenever a package
\* to go back to exists, however the update went; as long as the chips answer and
\* the transfers are reported as they went (answering).
ChipsAgree ==
    answering /\ pc \in AppSteps /\ bank[getRollbackBank(nextBank)] # NoPackage /\ floor <= active
        => nrf = active

\* The application can only be rolled back to what it is: the other bank holds a
\* package of the running version, or none (after a recovery, before the first
\* update).  Banks, environment and boot loader are switched in different steps.
RollbackPackageFits ==
    answering /\ pc \in AppSteps \cup UpdateSteps
        => bank[getRollbackBank(nextBank)] \in {NoPackage, active}

\* Once the other bank holds a package of the image the boot loader will start,
\* no download, failed update or rollback gives it up while that image stays,
\* a recovery aside.
KeepsPackage ==
    [][nextBank # "UNKNOWN" /\ ~fromLoader /\ Confirmed' = Confirmed
            /\ bank[getRollbackBank(nextBank)] = Confirmed
        => bank'[getRollbackBank(nextBank')] = Confirmed]_updateVars
=============================================================================
