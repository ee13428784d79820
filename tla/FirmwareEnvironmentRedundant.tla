-------------------- MODULE FirmwareEnvironmentRedundant --------------------
(***************************************************************************)
(* The firmware environment: the settings that decide what a boot does     *)
(* (update pending, bank of the next update, production tests passed),     *)
(* kept twice, in two flash partitions.  A write erases the bank that is   *)
(* not active and programs the new content there with the next id; a boot  *)
(* takes the bank with the greater id, or the other one when its CRC is    *)
(* wrong.                                                                  *)
(*                                                                         *)
(* The banks are raw file systems (RawFileSystem): open and seek always    *)
(* succeed, an erased flash is read like any content, and a write shorter  *)
(* than a flash page (144 bytes here, of 256) stays in the handle's buffer *)
(* until the file is closed.  A power cut may come between any two steps,  *)
(* and in the middle of an erase or of a program.                          *)
(***************************************************************************)
EXTENDS Naturals

CONSTANTS
    Env,            \* the settings a bank can hold
    DefaultEnv,     \* FirmwareEnvironment()
    NoEnv,          \* no content with a right CRC
    MaxId,          \* bound on the writes considered, and so on the ids
    DeviceFaults    \* whether the flash may fail to erase or to program

ASSUME EnvAssumption ==
    /\ DefaultEnv \in Env
    /\ NoEnv \notin Env
    /\ MaxId \in Nat \ {0}
    /\ DeviceFaults \in BOOLEAN

VARIABLES
    flash,          \* the two banks
    mActiveEnv,
    mId,
    pc,             \* the next step of the call in progress
    writing         \* the environment of the write in progress

envVars == <<flash, mActiveEnv, mId, pc, writing>>

envBank == {"ENV_A", "ENV_B"}

\* The id field of an erased flash: 16#FFFFFFFF, greater than any id written.
ErasedId == MaxId + 1

Content == [id : 0 .. ErasedId, env : Env \cup {NoEnv}]
Erased == [id |-> ErasedId, env |-> NoEnv]

\* What an interrupted erase or program leaves: any id, and a wrong CRC.
Garbage == [id : 0 .. ErasedId, env : {NoEnv}]

getNextBank(bank) == IF bank = "ENV_A" THEN "ENV_B" ELSE "ENV_A"

loadEnv(bank) == flash[bank].env

validateEnv(bank) == loadEnv(bank) \in Env

getActiveEnvironment == loadEnv(mActiveEnv)

\* The bank with the greater id, or the other one when its content is invalid.
ChosenBank ==
    LET first == IF flash["ENV_A"].id < flash["ENV_B"].id THEN "ENV_B" ELSE "ENV_A"
    IN  IF validateEnv(first) THEN first ELSE getNextBank(first)

(***************************************************************************)
(* The flash.  Without device faults an erase leaves the erased content    *)
(* and a program what it was given; a program over a bank that was not     *)
(* erased, or a fault, leaves garbage.                                     *)
(***************************************************************************)
EraseOutcomes(bank) ==
    {Erased} \cup IF DeviceFaults THEN {flash[bank]} \cup Garbage ELSE {}

ProgramOutcomes(bank, content) ==
    (IF flash[bank] = Erased THEN {content} ELSE Garbage)
        \cup IF DeviceFaults THEN {flash[bank]} \cup Garbage ELSE {}

Erase(at, bank, next) ==
    /\ pc = at
    /\ \E content \in EraseOutcomes(bank) : flash' = [flash EXCEPT ![bank] = content]
    /\ pc' = next

EnvInit ==
    /\ flash \in [envBank -> Garbage \cup {[id |-> 0, env |-> e] : e \in Env}]
    /\ \E bank \in envBank : flash[bank].env = NoEnv
    /\ mActiveEnv = "UNKNOWN"
    /\ mId = 0
    /\ pc = "off"
    /\ writing = NoEnv

\* The firmware starts: the environment is loaded, or the flash is formatted.
init ==
    /\ pc = "off"
    /\ mActiveEnv' = ChosenBank
    /\ IF validateEnv(ChosenBank)
         THEN mId' = flash[ChosenBank].id /\ pc' = "ready"
         ELSE mId' = 0 /\ pc' = "format A"
    /\ UNCHANGED <<flash, writing>>

\* SystemRuntime::format() formats the partitions of both banks.
format ==
    /\ \/ Erase("format A", "ENV_A", "format B")
       \/ Erase("format B", "ENV_B", "erase A")
    /\ UNCHANGED <<mActiveEnv, mId, writing>>

eraseAll ==
    /\ \/ Erase("erase A", "ENV_A", "erase B")
       \/ Erase("erase B", "ENV_B", "reset")
    /\ UNCHANGED <<mActiveEnv, mId, writing>>

\* reset() goes on with the write of the default environment to bank A.
reset ==
    /\ pc = "reset"
    /\ mActiveEnv' = "ENV_B"
    /\ mId' = 0
    /\ writing' = DefaultEnv
    /\ pc' = "remove"
    /\ UNCHANGED flash

\* writeEnvironment, step by step: it is called,
\* fault: the environment is written before a bank was chosen.
BeginWriteEnvironment_BeforeInit(env) ==
    /\ pc \in {"off", "ready"}
    /\ mId < MaxId
    /\ writing' = env
    /\ pc' = "remove"
    /\ UNCHANGED <<flash, mActiveEnv, mId>>

BeginWriteEnvironment(env) ==
    /\ pc = "ready"
    /\ mId < MaxId
    /\ writing' = env
    /\ pc' = "remove"
    /\ UNCHANGED <<flash, mActiveEnv, mId>>

\* fault: the active bank is the one that is erased and written.
NextActiveEnv_Same == mActiveEnv

NextActiveEnv == getNextBank(mActiveEnv)

\* removes the file of the other bank, whatever comes of it,
\* fault: the file is opened and written without being removed.
RemoveNext_Skipped ==
    /\ pc = "remove"
    /\ pc' = "write"
    /\ UNCHANGED <<flash, mActiveEnv, mId, writing>>

RemoveNext ==
    /\ Erase("remove", NextActiveEnv, "write")
    /\ UNCHANGED <<mActiveEnv, mId, writing>>

\* writes the page buffer, which cannot fail, and so switches the banks,
WriteCache ==
    /\ pc = "write"
    /\ mId' = mId + 1
    /\ mActiveEnv' = NextActiveEnv
    /\ pc' = "close"
    /\ UNCHANGED <<flash, writing>>

\* and closes the file, which programs the page and drops the result.
\* fault: the id of the write is not stored.
CloseFile_KeepsId ==
    /\ pc = "close"
    /\ \E content \in ProgramOutcomes(mActiveEnv, [id |-> 0, env |-> writing]) :
         flash' = [flash EXCEPT ![mActiveEnv] = content]
    /\ pc' = "ready"
    /\ writing' = NoEnv
    /\ UNCHANGED <<mActiveEnv, mId>>

CloseFile ==
    /\ pc = "close"
    /\ \E content \in ProgramOutcomes(mActiveEnv, [id |-> mId, env |-> writing]) :
         flash' = [flash EXCEPT ![mActiveEnv] = content]
    /\ pc' = "ready"
    /\ writing' = NoEnv
    /\ UNCHANGED <<mActiveEnv, mId>>

\* The bank that the next step erases or programs.
BankInDanger ==
    CASE pc \in {"format A", "erase A"} -> {"ENV_A"}
      [] pc \in {"format B", "erase B"} -> {"ENV_B"}
      [] pc = "remove" -> {NextActiveEnv}
      [] pc = "close" -> {mActiveEnv}
      [] OTHER -> {}

\* The power is cut, between two steps or in the middle of the next one.
PowerCut ==
    /\ pc # "off"
    /\ pc' = "off"
    /\ mActiveEnv' = "UNKNOWN"
    /\ mId' = 0
    /\ writing' = NoEnv
    /\ \/ UNCHANGED flash
       \/ \E bank \in BankInDanger, content \in Garbage :
            flash' = [flash EXCEPT ![bank] = content]

EnvNext ==
    \/ init
    \/ format
    \/ eraseAll
    \/ reset
    \/ \E env \in Env : BeginWriteEnvironment(env)
    \/ RemoveNext
    \/ WriteCache
    \/ CloseFile
    \/ PowerCut

EnvSpec == EnvInit /\ [][EnvNext]_envVars

-----------------------------------------------------------------------------
(***************************************************************************)
(* Properties                                                              *)
(***************************************************************************)
EnvStep == {"off", "ready", "format A", "format B", "erase A", "erase B",
            "reset", "remove", "write", "close"}

\* Types of the state, and a bank is active once the firmware has started.
EnvTypeOK ==
    /\ flash \in [envBank -> Content]
    /\ mActiveEnv \in envBank \cup {"UNKNOWN"}
    /\ mId \in 0 .. MaxId
    /\ pc \in EnvStep
    /\ writing \in Env \cup {NoEnv}
    /\ pc # "off" => mActiveEnv \in envBank

\* Whenever the environment is asked for, the active bank holds one: the
\* ASSERT(false) of getActiveEnvironment, "Should never happen", never fires.
ActiveBankReadable == pc = "ready" => getActiveEnvironment \in Env

\* What a boot would read from the flash as it is now.
Survivor == loadEnv(ChosenBank)

\* What the running firmware reads is what a boot after a power cut would
\* read: a restart never brings back an older environment.
ReadsWhatSurvives == pc = "ready" => getActiveEnvironment = Survivor

\* The redundant banks implement one crash-atomic register.
Status == IF pc \in {"off", "ready"} THEN pc ELSE "busy"
InWriting ==
    IF pc \in {"format A", "format B", "erase A", "erase B", "reset"}
      THEN DefaultEnv ELSE writing

Store == INSTANCE FirmwareEnvironmentStore
    WITH stored <- Survivor, writing <- InWriting, status <- Status

StoreSpec == Store!StoreSpec
=============================================================================
