------------------------ MODULE FirmwareUpdateProofs ------------------------
(***************************************************************************)
(* For every set of versions.  Whatever the chips fail to do, the          *)
(* application never runs on an STM32 image on trial, and no package to    *)
(* go back to is given up.  As long as they answer, the BLE chip and the   *)
(* STM32 run one version, and the other bank holds its package, wherever   *)
(* the power was cut (but for the commit of the BLE chip, see ChipsAgree). *)
(***************************************************************************)
EXTENDS FirmwareUpdate, TLAPS

PendingSteps ==
    {"ite", "nrf", "stm", "commit", "validate", "switch"} \cup RollbackSteps

InitSteps == {"initEnv", "initA", "initB", "initFlag"}

\* An image on trial, or to install, is known to the environment or to the
\* backup register until the boot has decided about it.
TrialInv ==
    /\ trial => slot \in Version
    /\ trial /\ pc # "off" => fromLoader \/ (pending /\ nextBank # "UNKNOWN")
    /\ ~trial /\ slot # NoFirmware => pc = "off" /\ pending /\ nextBank # "UNKNOWN"
    /\ pc \in AppSteps \cup UpdateSteps \cup InitSteps \cup {"switch", "clean"} => ~trial
    /\ nextBank = "UNKNOWN" => pc \in {"off", "boot", "initEnv"}
    /\ pc \in PendingSteps => pending
    /\ pc \in {"commit", "nrf", "stm", "rollbackNrf"} => Package # NoPackage

TypeAndTrial == UpdateTypeOK /\ TrialInv

LEMMA VersionFacts ==
    /\ NoPackage \notin Version
    /\ NoFirmware \notin Version
    /\ Outcome \subseteq BOOLEAN
    /\ TRUE \in Outcome
    /\ answering => Outcome = {TRUE}
BY UpdateAssumption DEF Outcome

LEMMA RollbackBankFacts ==
    /\ getRollbackBank("BANK_A") = "BANK_B"
    /\ getRollbackBank("BANK_B") = "BANK_A"
BY DEF getRollbackBank

LEMMA PackageBank ==
    /\ pc \notin RollbackSteps => Package = bank[nextBank]
    /\ pc \in RollbackSteps => Package = bank[getRollbackBank(nextBank)]
BY DEF Package

LEMMA TypeAndTrialInit == UpdateInit => TypeAndTrial
BY UpdateAssumption
   DEF UpdateInit, TypeAndTrial, UpdateTypeOK, TrialInv, FirmwareUpdateBank, Steps, AppSteps,
       UpdateSteps, InitSteps, PendingSteps, RollbackSteps

\* What an installation leaves, complete or interrupted.
LEMMA InstallTypes ==
    ASSUME UpdateTypeOK, nextBank # "UNKNOWN"
    PROVE  /\ Package \in Version \cup {NoPackage}
           /\ Package # NoPackage => IteInstalled \subseteq Version \cup {NoFirmware}
           /\ Package # NoPackage => NrfInstalled \in Version \cup {NoFirmware}
           /\ NrfInterrupted \subseteq Version \cup {NoFirmware}
<1> USE RollbackBankFacts, VersionFacts DEF UpdateTypeOK, FirmwareUpdateBank
<1>1. Package \in Version \cup {NoPackage}
  BY DEF Package
<1>2. Package # NoPackage => IteInstalled \subseteq Version \cup {NoFirmware}
  BY <1>1 DEF IteInstalled
<1>3. Package # NoPackage => NrfInstalled \in Version \cup {NoFirmware}
  BY <1>1 DEF NrfInstalled
<1>4. NrfInterrupted \subseteq Version \cup {NoFirmware}
  BY DEF NrfInterrupted
<1> QED
  BY <1>1, <1>2, <1>3, <1>4

LEMMA AnsweringRigid == [UpdateNext]_updateVars => answering' = answering
BY DEF UpdateNext, updateVars

LEMMA TypeAndTrialNext == TypeAndTrial /\ [UpdateNext]_updateVars => TypeAndTrial'
<1> SUFFICES ASSUME TypeAndTrial, [UpdateNext]_updateVars PROVE TypeAndTrial'
  OBVIOUS
<1> USE VersionFacts, AnsweringRigid DEF TypeAndTrial, UpdateTypeOK, TrialInv, FirmwareUpdateBank, Steps, BootSteps,
        AppSteps, UpdateSteps, InitSteps, PendingSteps, RollbackSteps, chips
<1>1. CASE Bootloader
  <2> USE DEF Package
  <2>1. CASE trial
    <3>1. fromLoader' \in BOOLEAN /\ active' = slot /\ ~trial' /\ slot' = NoFirmware
      BY <1>1, <2>1 DEF Bootloader
    <3> QED BY <1>1, <2>1, <3>1 DEF Bootloader
  <2>2. CASE ~trial /\ slot # NoFirmware /\ active' = slot /\ slot' = active /\ trial' = TRUE
    BY <1>1, <2>2 DEF Bootloader
  <2>3. CASE ~trial /\ slot' = NoFirmware /\ UNCHANGED <<active, trial, fromLoader>>
    BY <1>1, <2>3 DEF Bootloader
  <2> QED BY <1>1, <2>1, <2>2, <2>3, Zenon DEF Bootloader
<1>2. CASE LoaderInstall
  BY <1>2 DEF LoaderInstall
<1>3. CASE checkRecoveryUpdate
  BY <1>3 DEF checkRecoveryUpdate, validateFirmware
<1>4. CASE InitEnvironment
  BY <1>4 DEF InitEnvironment
<1>5. CASE InitBanks
  BY <1>5 DEF InitBanks, resetUpdateBank
<1>6. CASE resetBackupInfo
  BY <1>6 DEF resetBackupInfo
<1>7. CASE validateUpdate
  BY <1>7 DEF validateUpdate, isUpdateValid, Package
<1>8. CASE CommitNrf
  BY <1>8, InstallTypes DEF CommitNrf, Package
<1>9. CASE ValidateStm32
  BY <1>9 DEF ValidateStm32, validateFirmware
<1>10. CASE SwitchBank
  BY <1>10, RollbackBankFacts DEF SwitchBank
<1>11. CASE ResetOldBank
  BY <1>11 DEF ResetOldBank, resetUpdateBank
<1>12. CASE ResetFailedUpdate
  BY <1>12 DEF ResetFailedUpdate, resetUpdateBank
<1>13. CASE RollbackIte
  BY <1>13, InstallTypes DEF RollbackIte, Package
<1>14. CASE RollbackNrf
  BY <1>14, InstallTypes DEF RollbackNrf, Package
<1>15. CASE EndRollback
  BY <1>15 DEF EndRollback
<1>16. CASE initUpdate
  BY <1>16 DEF initUpdate, resetUpdateBank
<1>17. CASE EndDownload
  BY <1>17 DEF EndDownload
<1>18. CASE StartUpdate
  BY <1>18 DEF StartUpdate
<1>19. CASE InstallIte
  BY <1>19, InstallTypes DEF InstallIte, Package
<1>20. CASE InstallNrf
  BY <1>20, InstallTypes DEF InstallNrf, Package
<1>21. CASE InstallStm32
  BY <1>21, InstallTypes DEF InstallStm32, Package
<1>22. CASE PowerCut
  BY <1>22, InstallTypes DEF PowerCut, Package
<1>23. CASE UNCHANGED updateVars
  BY <1>23 DEF updateVars, Package
<1> QED
  BY <1>1, <1>2, <1>3, <1>4, <1>5, <1>6, <1>7, <1>8, <1>9, <1>10, <1>11, <1>12, <1>13, <1>14, <1>15,
     <1>16, <1>17, <1>18, <1>19, <1>20, <1>21, <1>22, <1>23
     DEF UpdateNext, BootStep, UpdateStep, Disturbance

\* Whatever fails, and wherever the power is cut: types are right, and the
\* application never runs on an STM32 image on trial.
THEOREM UpdateCorrect == UpdateSpec => [](UpdateTypeOK /\ ApplicationConfirmed)
<1>1. TypeAndTrial => UpdateTypeOK /\ ApplicationConfirmed
  BY DEF TypeAndTrial, TrialInv, ApplicationConfirmed
<1> QED
  BY <1>1, TypeAndTrialInit, TypeAndTrialNext, PTL DEF UpdateSpec
-----------------------------------------------------------------------------
(* The packages. *)

NoPackages == bank = [b \in FirmwareUpdateBank |-> NoPackage]

\* What the steps of a boot have found and done.
BootInv ==
    /\ nextBank = "UNKNOWN" => NoPackages
    /\ pc \in InitSteps => fromLoader \/ NoPackages
    /\ pc = "initB" => bank["BANK_A"] = NoPackage
    /\ pc = "initFlag" => NoPackages
    /\ fromLoader => pc \in {"off", "boot"} \cup InitSteps
    /\ fromLoader /\ ~trial => slot = NoFirmware
    /\ pc \in AppSteps \cup {"start", "clean", "initA", "initB", "initFlag"} => ~pending
    /\ pc \in {"commit", "validate", "switch"}
         => active = bank[nextBank] /\ nrf = active /\ ite = active

LEMMA BootInvInit == UpdateInit => BootInv
BY DEF UpdateInit, BootInv, NoPackages, FirmwareUpdateBank, AppSteps, InitSteps

LEMMA BootInvNext ==
    ASSUME TypeAndTrial, BootInv, [UpdateNext]_updateVars
    PROVE  BootInv'
<1>0. UpdateTypeOK /\ TrialInv
  BY DEF TypeAndTrial
<1> USE <1>0, RollbackBankFacts, VersionFacts
    DEF UpdateTypeOK, TrialInv, BootInv, FirmwareUpdateBank, Steps, BootSteps, AppSteps, UpdateSteps,
        InitSteps, PendingSteps, RollbackSteps, NoPackages, chips
<1>1. CASE Bootloader
  BY <1>1 DEF Bootloader
<1>2. CASE LoaderInstall
  BY <1>2 DEF LoaderInstall
<1>3. CASE checkRecoveryUpdate
  BY <1>3 DEF checkRecoveryUpdate, validateFirmware
<1>4. CASE InitEnvironment
  BY <1>4 DEF InitEnvironment
<1>5. CASE InitBanks
  <2>1. pc = "initB" => NoPackages'
    BY <1>5 DEF InitBanks, resetUpdateBank
  <2>2. NoPackages => NoPackages'
    BY <1>5 DEF InitBanks, resetUpdateBank
  <2> QED
    BY <1>5, <2>1, <2>2 DEF InitBanks, resetUpdateBank
<1>6. CASE resetBackupInfo
  BY <1>6 DEF resetBackupInfo
<1>7. CASE validateUpdate
  BY <1>7 DEF validateUpdate, isUpdateValid, Package
<1>8. CASE CommitNrf
  BY <1>8 DEF CommitNrf, Package
<1>9. CASE ValidateStm32
  BY <1>9 DEF ValidateStm32, validateFirmware
<1>10. CASE SwitchBank
  BY <1>10 DEF SwitchBank
<1>11. CASE ResetOldBank
  BY <1>11 DEF ResetOldBank, resetUpdateBank
<1>12. CASE ResetFailedUpdate
  BY <1>12 DEF ResetFailedUpdate, resetUpdateBank
<1>13. CASE RollbackIte
  BY <1>13 DEF RollbackIte, Package
<1>14. CASE RollbackNrf
  BY <1>14 DEF RollbackNrf, NrfInstalled, NrfAccepts, Package
<1>15. CASE EndRollback
  BY <1>15 DEF EndRollback
<1>16. CASE initUpdate
  BY <1>16 DEF initUpdate, resetUpdateBank
<1>17. CASE EndDownload
  BY <1>17 DEF EndDownload
<1>18. CASE StartUpdate
  BY <1>18 DEF StartUpdate
<1>19. CASE InstallIte
  BY <1>19 DEF InstallIte
<1>20. CASE InstallNrf
  BY <1>20 DEF InstallNrf
<1>21. CASE InstallStm32
  BY <1>21 DEF InstallStm32
<1>22. CASE PowerCut
  BY <1>22 DEF PowerCut
<1>23. CASE UNCHANGED updateVars
  BY <1>23 DEF updateVars
<1> QED
  BY <1>1, <1>2, <1>3, <1>4, <1>5, <1>6, <1>7, <1>8, <1>9, <1>10, <1>11, <1>12, <1>13, <1>14, <1>15,
     <1>16, <1>17, <1>18, <1>19, <1>20, <1>21, <1>22, <1>23
     DEF UpdateNext, BootStep, UpdateStep, Disturbance

\* Under the invariant, a step gives up no package the keyboard could go back to.
LEMMA KeepsPackageStep ==
    ASSUME TypeAndTrial, BootInv, [UpdateNext]_updateVars,
           nextBank # "UNKNOWN", ~fromLoader, Confirmed' = Confirmed,
           bank[getRollbackBank(nextBank)] = Confirmed
    PROVE  bank'[getRollbackBank(nextBank')] = Confirmed
<1>1. UpdateTypeOK /\ TrialInv
  BY DEF TypeAndTrial
<1>2. Confirmed \in Version /\ (~trial => Confirmed = active)
  BY <1>1 DEF UpdateTypeOK, TrialInv, Confirmed
<1>3. ~NoPackages
  BY <1>1, <1>2, VersionFacts, RollbackBankFacts DEF UpdateTypeOK, FirmwareUpdateBank, NoPackages
<1> USE <1>1, <1>2, <1>3, RollbackBankFacts DEF UpdateTypeOK, FirmwareUpdateBank
<1>4. CASE UNCHANGED <<nextBank, bank>>
  BY <1>4
<1>5. CASE ResetOldBank \/ ResetFailedUpdate \/ initUpdate \/ EndDownload
  BY <1>5 DEF ResetOldBank, ResetFailedUpdate, initUpdate, EndDownload, resetUpdateBank
<1>6. CASE SwitchBank
  BY <1>6 DEF SwitchBank, BootInv, TrialInv, AppSteps, UpdateSteps, InitSteps
<1>7. CASE InitEnvironment \/ InitBanks
  BY <1>7 DEF InitEnvironment, InitBanks, BootInv, InitSteps
<1> QED
  BY <1>4, <1>5, <1>6, <1>7
     DEF UpdateNext, BootStep, UpdateStep, Disturbance, Bootloader, LoaderInstall,
         checkRecoveryUpdate, resetBackupInfo, validateUpdate, CommitNrf, ValidateStm32, RollbackIte,
         RollbackNrf, EndRollback, StartUpdate, InstallIte, InstallNrf, InstallStm32, PowerCut,
         updateVars

\* Whatever fails, and wherever the power is cut: a package of the running image in
\* the other bank is never given up while that image stays.
THEOREM PackageKept == UpdateSpec => KeepsPackage
<1>1. TypeAndTrial /\ BootInv /\ [UpdateNext]_updateVars =>
        (nextBank # "UNKNOWN" /\ ~fromLoader /\ Confirmed' = Confirmed
            /\ bank[getRollbackBank(nextBank)] = Confirmed
         => bank'[getRollbackBank(nextBank')] = Confirmed)
  BY KeepsPackageStep
<1>2. UpdateSpec => [](TypeAndTrial /\ BootInv)
  BY TypeAndTrialInit, TypeAndTrialNext, BootInvInit, BootInvNext, PTL DEF UpdateSpec
<1> QED
  BY <1>1, <1>2, PTL DEF UpdateSpec, KeepsPackage
-----------------------------------------------------------------------------
(* As long as the chips answer. *)

RollbackPackage == bank[getRollbackBank(nextBank)]

\* No recovery has been accepted, whose banks are still to be reset.
Steady == (~fromLoader \/ trial) /\ nextBank # "UNKNOWN"

\* The update is validated on every chip, the environment does not say so yet.
Validated ==
    /\ pending
    /\ bank[nextBank] = Confirmed
    /\ nrf = Confirmed /\ ite = Confirmed /\ floor = Confirmed
    /\ pc \in {"off", "boot", "commit", "validate", "switch"}
    /\ trial => fromLoader
    /\ ~trial => slot = NoFirmware

\* The package to roll back to is the one of the image that survives a reset, but
\* for the time between the validation and the write of the environment.
PackageFits ==
    Steady /\ RollbackPackage # NoPackage => RollbackPackage = Confirmed \/ Validated

\* Between updates, so does the firmware of the BLE chip.
NrfFits ==
    Steady /\ RollbackPackage # NoPackage /\ floor <= Confirmed
           /\ (~pending \/ pc = "rollbackEnd")
        => nrf = Confirmed

ChipInv ==
    /\ pc \in {"validate", "switch"} => floor = active
    /\ PackageFits
    /\ NrfFits

LEMMA ChipInvInit == UpdateInit => ChipInv
<1> SUFFICES ASSUME UpdateInit PROVE ChipInv
  OBVIOUS
<1> USE RollbackBankFacts
    DEF UpdateInit, FirmwareUpdateBank, AppSteps, InitSteps, Steady, RollbackPackage, Confirmed
<1>1. PackageFits
  BY DEF PackageFits
<1>2. NrfFits
  BY DEF NrfFits
<1> QED
  BY <1>1, <1>2 DEF ChipInv

LEMMA ChipInvNext ==
    ASSUME answering, TypeAndTrial, BootInv, ChipInv, [UpdateNext]_updateVars
    PROVE  ChipInv'
<1>0. /\ Outcome = {TRUE} /\ UpdateTypeOK /\ TrialInv /\ PackageFits /\ NrfFits
      /\ pc \in {"validate", "switch"} => floor = active
  BY VersionFacts DEF TypeAndTrial, ChipInv
<1> USE <1>0, RollbackBankFacts, VersionFacts
    DEF UpdateTypeOK, TrialInv, BootInv, FirmwareUpdateBank, Steps, BootSteps, AppSteps, UpdateSteps,
        InitSteps, PendingSteps, RollbackSteps, NoPackages, chips
<1>1. CASE Bootloader
  <2> USE <1>1 DEF Bootloader
  <2>1. (pc \in {"validate", "switch"} => floor = active)'
    OBVIOUS
  <2>2. PackageFits'
    <3> USE DEF PackageFits, Validated, Steady, RollbackPackage, Confirmed
    <3>1. CASE trial
      BY <3>1
    <3>2. CASE ~trial
      BY <3>2
    <3> QED BY <3>1, <3>2
  <2>3. NrfFits'
    BY DEF NrfFits, PackageFits, Validated, Steady, RollbackPackage, Confirmed
  <2> QED
    BY <2>1, <2>2, <2>3 DEF ChipInv
<1>2. CASE LoaderInstall
  <2> USE <1>2 DEF LoaderInstall
  <2>1. (pc \in {"validate", "switch"} => floor = active)'
    OBVIOUS
  <2>2. PackageFits'
    BY DEF PackageFits, Validated, Steady, RollbackPackage, Confirmed
  <2>3. NrfFits'
    BY DEF NrfFits, PackageFits, Validated, Steady, RollbackPackage, Confirmed
  <2> QED
    BY <2>1, <2>2, <2>3 DEF ChipInv
<1>3. CASE checkRecoveryUpdate
  <2> USE <1>3 DEF checkRecoveryUpdate, validateFirmware
  <2>1. (pc \in {"validate", "switch"} => floor = active)'
    OBVIOUS
  <2>2. PackageFits'
    BY DEF PackageFits, Validated, Steady, RollbackPackage, Confirmed
  <2>3. NrfFits'
    BY DEF NrfFits, PackageFits, Validated, Steady, RollbackPackage, Confirmed
  <2> QED
    BY <2>1, <2>2, <2>3 DEF ChipInv
<1>4. CASE InitEnvironment
  <2> USE <1>4 DEF InitEnvironment
  <2>1. (pc \in {"validate", "switch"} => floor = active)'
    OBVIOUS
  <2>2. PackageFits'
    BY DEF PackageFits, Validated, Steady, RollbackPackage, Confirmed
  <2>3. NrfFits'
    BY DEF NrfFits, PackageFits, Validated, Steady, RollbackPackage, Confirmed
  <2> QED
    BY <2>1, <2>2, <2>3 DEF ChipInv
<1>5. CASE InitBanks
  <2> USE <1>5 DEF InitBanks, resetUpdateBank
  <2>1. (pc \in {"validate", "switch"} => floor = active)'
    OBVIOUS
  <2>2. PackageFits'
    BY DEF PackageFits, Validated, Steady, RollbackPackage, Confirmed
  <2>3. NrfFits'
    BY DEF NrfFits, PackageFits, Validated, Steady, RollbackPackage, Confirmed
  <2> QED
    BY <2>1, <2>2, <2>3 DEF ChipInv
<1>6. CASE resetBackupInfo
  <2> USE <1>6 DEF resetBackupInfo
  <2>1. (pc \in {"validate", "switch"} => floor = active)'
    OBVIOUS
  <2>2. PackageFits'
    BY DEF PackageFits, Validated, Steady, RollbackPackage, Confirmed
  <2>3. NrfFits'
    BY DEF NrfFits, PackageFits, Validated, Steady, RollbackPackage, Confirmed
  <2> QED
    BY <2>1, <2>2, <2>3 DEF ChipInv
<1>7. CASE validateUpdate
  <2> USE <1>7 DEF validateUpdate, isUpdateValid, Package
  <2>1. (pc \in {"validate", "switch"} => floor = active)'
    OBVIOUS
  <2>2. PackageFits'
    BY DEF PackageFits, Validated, Steady, RollbackPackage, Confirmed
  <2>3. NrfFits'
    BY DEF NrfFits, PackageFits, Validated, Steady, RollbackPackage, Confirmed
  <2> QED
    BY <2>1, <2>2, <2>3 DEF ChipInv
<1>8. CASE CommitNrf
  <2> USE <1>8 DEF CommitNrf, Package
  <2>1. (pc \in {"validate", "switch"} => floor = active)'
    OBVIOUS
  <2>2. PackageFits'
    BY DEF PackageFits, Validated, Steady, RollbackPackage, Confirmed
  <2>3. NrfFits'
    BY DEF NrfFits, PackageFits, Validated, Steady, RollbackPackage, Confirmed
  <2> QED
    BY <2>1, <2>2, <2>3 DEF ChipInv
<1>9. CASE ValidateStm32
  <2> USE <1>9 DEF ValidateStm32, validateFirmware
  <2>1. (pc \in {"validate", "switch"} => floor = active)'
    OBVIOUS
  <2>2. PackageFits'
    BY DEF PackageFits, Validated, Steady, RollbackPackage, Confirmed
  <2>3. NrfFits'
    BY DEF NrfFits, PackageFits, Validated, Steady, RollbackPackage, Confirmed
  <2> QED
    BY <2>1, <2>2, <2>3 DEF ChipInv
<1>10. CASE SwitchBank
  <2> USE <1>10 DEF SwitchBank
  <2>1. (pc \in {"validate", "switch"} => floor = active)'
    OBVIOUS
  <2>2. PackageFits'
    BY DEF PackageFits, Validated, Steady, RollbackPackage, Confirmed
  <2>3. NrfFits'
    BY DEF NrfFits, PackageFits, Validated, Steady, RollbackPackage, Confirmed
  <2> QED
    BY <2>1, <2>2, <2>3 DEF ChipInv
<1>11. CASE ResetOldBank
  <2> USE <1>11 DEF ResetOldBank, resetUpdateBank
  <2>1. (pc \in {"validate", "switch"} => floor = active)'
    OBVIOUS
  <2>2. PackageFits'
    BY DEF PackageFits, Validated, Steady, RollbackPackage, Confirmed
  <2>3. NrfFits'
    BY DEF NrfFits, PackageFits, Validated, Steady, RollbackPackage, Confirmed
  <2> QED
    BY <2>1, <2>2, <2>3 DEF ChipInv
<1>12. CASE ResetFailedUpdate
  <2> USE <1>12 DEF ResetFailedUpdate, resetUpdateBank
  <2>1. (pc \in {"validate", "switch"} => floor = active)'
    OBVIOUS
  <2>2. PackageFits'
    BY DEF PackageFits, Validated, Steady, RollbackPackage, Confirmed
  <2>3. NrfFits'
    BY DEF NrfFits, PackageFits, Validated, Steady, RollbackPackage, Confirmed
  <2> QED
    BY <2>1, <2>2, <2>3 DEF ChipInv
<1>13. CASE RollbackIte
  <2> USE <1>13 DEF RollbackIte, Package
  <2>1. (pc \in {"validate", "switch"} => floor = active)'
    OBVIOUS
  <2>2. PackageFits'
    BY DEF PackageFits, Validated, Steady, RollbackPackage, Confirmed
  <2>3. NrfFits'
    BY DEF NrfFits, PackageFits, Validated, Steady, RollbackPackage, Confirmed
  <2> QED
    BY <2>1, <2>2, <2>3 DEF ChipInv
<1>14. CASE RollbackNrf
  <2> USE <1>14 DEF RollbackNrf, NrfInstalled, NrfAccepts, Package
  <2>1. (pc \in {"validate", "switch"} => floor = active)'
    OBVIOUS
  <2>2. PackageFits'
    BY DEF PackageFits, Validated, Steady, RollbackPackage, Confirmed
  <2>3. NrfFits'
    BY DEF NrfFits, PackageFits, Validated, Steady, RollbackPackage, Confirmed
  <2> QED
    BY <2>1, <2>2, <2>3 DEF ChipInv
<1>15. CASE EndRollback
  <2> USE <1>15 DEF EndRollback
  <2>1. (pc \in {"validate", "switch"} => floor = active)'
    OBVIOUS
  <2>2. PackageFits'
    BY DEF PackageFits, Validated, Steady, RollbackPackage, Confirmed
  <2>3. NrfFits'
    BY DEF NrfFits, PackageFits, Validated, Steady, RollbackPackage, Confirmed
  <2> QED
    BY <2>1, <2>2, <2>3 DEF ChipInv
<1>16. CASE initUpdate
  <2> USE <1>16 DEF initUpdate, resetUpdateBank
  <2>1. (pc \in {"validate", "switch"} => floor = active)'
    OBVIOUS
  <2>2. PackageFits'
    BY DEF PackageFits, Validated, Steady, RollbackPackage, Confirmed
  <2>3. NrfFits'
    BY DEF NrfFits, PackageFits, Validated, Steady, RollbackPackage, Confirmed
  <2> QED
    BY <2>1, <2>2, <2>3 DEF ChipInv
<1>17. CASE EndDownload
  <2> USE <1>17 DEF EndDownload
  <2>1. (pc \in {"validate", "switch"} => floor = active)'
    OBVIOUS
  <2>2. PackageFits'
    BY DEF PackageFits, Validated, Steady, RollbackPackage, Confirmed
  <2>3. NrfFits'
    BY DEF NrfFits, PackageFits, Validated, Steady, RollbackPackage, Confirmed
  <2> QED
    BY <2>1, <2>2, <2>3 DEF ChipInv
<1>18. CASE StartUpdate
  <2> USE <1>18 DEF StartUpdate
  <2>1. (pc \in {"validate", "switch"} => floor = active)'
    OBVIOUS
  <2>2. PackageFits'
    BY DEF PackageFits, Validated, Steady, RollbackPackage, Confirmed
  <2>3. NrfFits'
    BY DEF NrfFits, PackageFits, Validated, Steady, RollbackPackage, Confirmed
  <2> QED
    BY <2>1, <2>2, <2>3 DEF ChipInv
<1>19. CASE InstallIte
  <2> USE <1>19 DEF InstallIte
  <2>1. (pc \in {"validate", "switch"} => floor = active)'
    OBVIOUS
  <2>2. PackageFits'
    BY DEF PackageFits, Validated, Steady, RollbackPackage, Confirmed
  <2>3. NrfFits'
    BY DEF NrfFits, PackageFits, Validated, Steady, RollbackPackage, Confirmed
  <2> QED
    BY <2>1, <2>2, <2>3 DEF ChipInv
<1>20. CASE InstallNrf
  <2> USE <1>20 DEF InstallNrf
  <2>1. (pc \in {"validate", "switch"} => floor = active)'
    OBVIOUS
  <2>2. PackageFits'
    BY DEF PackageFits, Validated, Steady, RollbackPackage, Confirmed
  <2>3. NrfFits'
    BY DEF NrfFits, PackageFits, Validated, Steady, RollbackPackage, Confirmed
  <2> QED
    BY <2>1, <2>2, <2>3 DEF ChipInv
<1>21. CASE InstallStm32
  <2> USE <1>21 DEF InstallStm32
  <2>1. (pc \in {"validate", "switch"} => floor = active)'
    OBVIOUS
  <2>2. PackageFits'
    BY DEF PackageFits, Validated, Steady, RollbackPackage, Confirmed
  <2>3. NrfFits'
    BY DEF NrfFits, PackageFits, Validated, Steady, RollbackPackage, Confirmed
  <2> QED
    BY <2>1, <2>2, <2>3 DEF ChipInv
<1>22. CASE PowerCut
  <2> USE <1>22 DEF PowerCut
  <2>1. (pc \in {"validate", "switch"} => floor = active)'
    OBVIOUS
  <2>2. PackageFits'
    BY DEF PackageFits, Validated, Steady, RollbackPackage, Confirmed
  <2>3. NrfFits'
    BY DEF NrfFits, PackageFits, Validated, Steady, RollbackPackage, Confirmed
  <2> QED
    BY <2>1, <2>2, <2>3 DEF ChipInv
<1>23. CASE UNCHANGED updateVars
  <2> USE <1>23 DEF updateVars
  <2>1. (pc \in {"validate", "switch"} => floor = active)'
    OBVIOUS
  <2>2. PackageFits'
    BY DEF PackageFits, Validated, Steady, RollbackPackage, Confirmed
  <2>3. NrfFits'
    BY DEF NrfFits, PackageFits, Validated, Steady, RollbackPackage, Confirmed
  <2> QED
    BY <2>1, <2>2, <2>3 DEF ChipInv
<1> QED
  BY <1>1, <1>2, <1>3, <1>4, <1>5, <1>6, <1>7, <1>8, <1>9, <1>10, <1>11, <1>12, <1>13, <1>14, <1>15,
     <1>16, <1>17, <1>18, <1>19, <1>20, <1>21, <1>22, <1>23
     DEF UpdateNext, BootStep, UpdateStep, Disturbance

\* As long as the chips answer: after every boot the BLE chip and the STM32 agree,
\* and the other bank holds their package.
THEOREM ChipsCorrect == UpdateSpec => [](ChipsAgree /\ RollbackPackageFits)
<1> DEFINE Inv == TypeAndTrial /\ BootInv /\ (answering => ChipInv)
<1>1. UpdateInit => Inv
  BY TypeAndTrialInit, BootInvInit, ChipInvInit
<1>2. Inv /\ [UpdateNext]_updateVars => Inv'
  BY TypeAndTrialNext, BootInvNext, ChipInvNext, AnsweringRigid
<1>3. Inv => ChipsAgree /\ RollbackPackageFits
  <2> SUFFICES ASSUME Inv, answering PROVE ChipsAgree /\ RollbackPackageFits
    BY DEF ChipsAgree, RollbackPackageFits
  <2>1. UpdateTypeOK /\ TrialInv /\ BootInv /\ PackageFits /\ NrfFits
    BY DEF TypeAndTrial, ChipInv
  <2>2. ASSUME pc \in AppSteps \cup UpdateSteps
        PROVE  Steady /\ Confirmed = active /\ ~Validated
    BY <2>1, <2>2
       DEF TrialInv, BootInv, Steady, Confirmed, Validated, AppSteps, UpdateSteps, InitSteps
  <2>3. RollbackPackageFits
    BY <2>1, <2>2 DEF RollbackPackageFits, PackageFits, RollbackPackage
  <2>4. ChipsAgree
    BY <2>1, <2>2 DEF ChipsAgree, NrfFits, RollbackPackage, BootInv
  <2> QED
    BY <2>3, <2>4
<1> QED
  BY <1>1, <1>2, <1>3, PTL DEF UpdateSpec
=============================================================================
