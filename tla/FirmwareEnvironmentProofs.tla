---------------------- MODULE FirmwareEnvironmentProofs ----------------------
(***************************************************************************)
(* For every set of environments and any number of writes, as long as the  *)
(* flash erases and programs what it is told to: the active bank can       *)
(* always be read, a restart reads what the running firmware reads, and    *)
(* the two banks implement a register that is written all at once or not   *)
(* at all, whenever the power is cut.                                      *)
(***************************************************************************)
EXTENDS FirmwareEnvironmentRedundant, TLAPS

\* The active bank holds the greatest id of the valid banks.
ActiveIsNewest ==
    /\ mActiveEnv \in envBank
    /\ flash[mActiveEnv].env \in Env
    /\ flash[mActiveEnv].id = mId
    /\ flash[getNextBank(mActiveEnv)].env \in Env
         => flash[getNextBank(mActiveEnv)].id < mId

\* Nothing was ever stored: the state in which the flash is formatted.
NothingStored == \A bank \in envBank : flash[bank].env = NoEnv

\* While the new bank is erased, the other one is what survives.
WriteSafe ==
    /\ mActiveEnv \in envBank
    /\ \/ ActiveIsNewest
       \/ NothingStored

CloseSafe ==
    /\ mActiveEnv \in envBank
    /\ flash[mActiveEnv] = Erased
    /\ \/ /\ flash[getNextBank(mActiveEnv)].env \in Env
          /\ flash[getNextBank(mActiveEnv)].id < mId
       \/ flash[getNextBank(mActiveEnv)].env = NoEnv

\* The ids of the valid banks were written, and are not the same.
IdsDiffer ==
    /\ \A bank \in envBank : flash[bank].env \in Env => flash[bank].id \in 0 .. MaxId
    /\ (flash["ENV_A"].env \in Env /\ flash["ENV_B"].env \in Env)
         => flash["ENV_A"].id # flash["ENV_B"].id

\* The inductive invariant: what each step of a call may rely on.
EnvInv ==
    /\ EnvTypeOK
    /\ IdsDiffer
    /\ pc = "ready" => ActiveIsNewest
    /\ pc \in {"remove", "write"} => WriteSafe /\ mId < MaxId
    /\ pc = "write" => flash[NextActiveEnv] = Erased
    /\ pc = "close" => CloseSafe
    /\ pc \in {"format A", "format B", "erase A", "erase B", "reset"} => NothingStored
    /\ pc \in {"remove", "write", "close"} <=> writing # NoEnv

Reliable == DeviceFaults = FALSE

LEMMA ZeroIsId == 0 \in 0 .. MaxId /\ MaxId \in Nat /\ NoEnv \notin Env
BY EnvAssumption

LEMMA ErasedIsContent == Erased \in Content /\ Erased.env = NoEnv
BY EnvAssumption DEF Erased, Content, ErasedId

LEMMA GarbageIsContent == \A content \in Garbage : content \in Content /\ content.env = NoEnv
BY DEF Garbage, Content

\* What an erase or a program may leave when the flash is reliable.
LEMMA ReliableErase ==
    ASSUME Reliable, NEW bank
    PROVE  EraseOutcomes(bank) = {Erased}
BY DEF Reliable, EraseOutcomes

LEMMA ReliableProgram ==
    ASSUME Reliable, NEW bank, NEW content, flash[bank] = Erased
    PROVE  ProgramOutcomes(bank, content) = {content}
BY DEF Reliable, ProgramOutcomes

\* The other bank of a bank is a bank, and not the same one.
LEMMA OtherBank ==
    ASSUME NEW bank \in envBank
    PROVE  /\ getNextBank(bank) \in envBank \ {bank}
           /\ getNextBank(getNextBank(bank)) = bank
           /\ envBank = {bank, getNextBank(bank)}
BY DEF getNextBank, envBank

\* The bank a boot chooses in the flash f.
ChosenIn(f) ==
    LET first == IF f["ENV_A"].id < f["ENV_B"].id THEN "ENV_B" ELSE "ENV_A"
    IN  IF f[first].env \in Env THEN first ELSE getNextBank(first)

ReadFrom(f) == f[ChosenIn(f)].env

LEMMA SurvivorNow == Survivor = ReadFrom(flash)
BY DEF ReadFrom, Survivor, ChosenBank, ChosenIn, validateEnv, loadEnv

LEMMA SurvivorNext == Survivor' = ReadFrom(flash')
BY DEF ReadFrom, Survivor, ChosenBank, ChosenIn, validateEnv, loadEnv

\* What a boot reads: the content of the newest valid bank,
LEMMA NewestSurvives ==
    ASSUME NEW f \in [envBank -> Content], NEW bank \in envBank,
           f[bank].env \in Env,
           f[getNextBank(bank)].env \in Env => f[getNextBank(bank)].id < f[bank].id
    PROVE  ReadFrom(f) = f[bank].env
BY EnvAssumption DEF ReadFrom, ChosenIn, Content, ErasedId, envBank, getNextBank

\* or nothing when no bank is valid.
LEMMA NothingSurvives ==
    ASSUME NEW f, \A bank \in envBank : f[bank].env = NoEnv
    PROVE  ReadFrom(f) = NoEnv
<1>1. ChosenIn(f) \in envBank
  BY DEF ChosenIn, envBank, getNextBank
<1> QED BY <1>1 DEF ReadFrom

\* A boot that finds a valid bank has chosen the newest one.
LEMMA ChosenIsNewest ==
    ASSUME EnvTypeOK, IdsDiffer, validateEnv(ChosenBank)
    PROVE  /\ ChosenBank \in envBank
           /\ flash[ChosenBank].env \in Env
           /\ flash[getNextBank(ChosenBank)].env \in Env
                => flash[getNextBank(ChosenBank)].id < flash[ChosenBank].id
BY DEF EnvTypeOK, IdsDiffer, Content, ChosenBank, validateEnv, loadEnv, envBank, getNextBank

LEMMA ChosenNothing ==
    ASSUME EnvTypeOK, ~ validateEnv(ChosenBank)
    PROVE  ChosenBank \in envBank /\ NothingStored
BY DEF EnvTypeOK, Content, ChosenBank, validateEnv, loadEnv, envBank, getNextBank, NothingStored

LEMMA EnvInvInit == ASSUME EnvInit PROVE EnvInv
<1> USE EnvAssumption DEF EnvInit
<1>1. flash \in [envBank -> Content]
  BY DEF Content, Garbage, ErasedId, EnvAssumption
<1>2. EnvTypeOK
  BY <1>1 DEF EnvTypeOK, EnvStep, EnvAssumption
<1>3. \A bank \in envBank : flash[bank].env \in Env => flash[bank].id = 0
  BY ZeroIsId DEF Garbage
<1>4. flash["ENV_A"].env = NoEnv \/ flash["ENV_B"].env = NoEnv
  BY DEF envBank
<1>5. IdsDiffer
  BY <1>3, <1>4, ZeroIsId DEF IdsDiffer, envBank
<1> QED BY <1>2, <1>5 DEF EnvInv

\* The boot and the formatting of the flash.
LEMMA EnvInvBoot ==
    ASSUME Reliable, EnvInv, init \/ format \/ eraseAll \/ reset
    PROVE  EnvInv'
<1> USE EnvAssumption DEF EnvInv, EnvTypeOK
<1>1. CASE init
  <2>1. CASE validateEnv(ChosenBank)
    <3>1. ActiveIsNewest'
      BY <1>1, <2>1, ChosenIsNewest DEF init, ActiveIsNewest, IdsDiffer, EnvStep
    <3>2. mId' \in 0 .. MaxId
      BY <1>1, <2>1, ChosenIsNewest DEF init, IdsDiffer
    <3> QED
      BY <1>1, <2>1, <3>1, <3>2, ChosenIsNewest
      DEF init, IdsDiffer, EnvStep, EnvAssumption
  <2>2. CASE ~ validateEnv(ChosenBank)
    <3>1. /\ mId' = 0 /\ pc' = "format A" /\ mActiveEnv' \in envBank
          /\ UNCHANGED <<flash, writing>>
      BY <1>1, <2>2, ChosenNothing DEF init
    <3>2. NothingStored'
      BY <2>2, <3>1, ChosenNothing DEF NothingStored
    <3>3. mId' \in 0 .. MaxId
      BY <3>1, ZeroIsId
    <3> QED
      BY <1>1, <3>1, <3>2, <3>3 DEF init, IdsDiffer, EnvStep
  <2> QED BY <2>1, <2>2
<1>2. CASE format \/ eraseAll
  <2>1. /\ NothingStored
        /\ UNCHANGED <<mActiveEnv, mId, writing>>
        /\ pc \in {"format A", "format B", "erase A", "erase B"}
        /\ pc' \in {"format B", "erase A", "erase B", "reset"}
    BY <1>2 DEF format, eraseAll, Erase
  <2>2. PICK bank \in envBank : flash' = [flash EXCEPT ![bank] = Erased]
    <3>1. \E bank \in envBank : \E content \in EraseOutcomes(bank) :
             flash' = [flash EXCEPT ![bank] = content]
      BY <1>2 DEF format, eraseAll, Erase, envBank
    <3> QED BY <3>1, ReliableErase
  <2>3. NothingStored' /\ flash' \in [envBank -> Content]
    BY <2>1, <2>2, ErasedIsContent DEF NothingStored
  <2>4. IdsDiffer'
    BY <2>3, ZeroIsId DEF NothingStored, IdsDiffer, envBank
  <2> QED
    BY <2>1, <2>3, <2>4 DEF EnvStep
<1>3. CASE reset
  BY <1>3
  DEF reset, NothingStored, IdsDiffer, WriteSafe, EnvStep, envBank, EnvAssumption
<1> QED BY <1>1, <1>2, <1>3

\* The steps of a write.
LEMMA EnvInvWrite ==
    ASSUME Reliable, EnvInv,
           (\E env \in Env : BeginWriteEnvironment(env)) \/ RemoveNext
             \/ WriteCache \/ CloseFile
    PROVE  EnvInv'
<1> USE DEF EnvInv, EnvTypeOK
<1>1. CASE \E env \in Env : BeginWriteEnvironment(env)
  BY <1>1, ZeroIsId
  DEF BeginWriteEnvironment, WriteSafe, ActiveIsNewest, NothingStored, IdsDiffer, EnvStep
<1>2. CASE RemoveNext
  <2>1. /\ mActiveEnv \in envBank
        /\ pc = "remove" /\ pc' = "write"
        /\ UNCHANGED <<mActiveEnv, mId, writing>>
        /\ flash' = [flash EXCEPT ![NextActiveEnv] = Erased]
    BY <1>2, ReliableErase DEF RemoveNext, Erase
  <2>2. /\ NextActiveEnv \in envBank \ {mActiveEnv}
        /\ UNCHANGED NextActiveEnv
    BY <2>1, OtherBank DEF NextActiveEnv
  <2>3. flash' \in [envBank -> Content]
    BY <2>1, <2>2, ErasedIsContent
  <2>4. WriteSafe'
    BY <2>1, <2>2, ErasedIsContent, ZeroIsId
    DEF WriteSafe, ActiveIsNewest, NothingStored, NextActiveEnv
  <2>5. IdsDiffer'
    BY <2>1, <2>2, ErasedIsContent, ZeroIsId DEF IdsDiffer, envBank
  <2> QED
    BY <2>1, <2>2, <2>3, <2>4, <2>5 DEF EnvStep
<1>3. CASE WriteCache
  <2>1. /\ mActiveEnv \in envBank
        /\ pc = "write" /\ pc' = "close" /\ mId' = mId + 1
        /\ UNCHANGED <<flash, writing>>
        /\ mActiveEnv' \in envBank
        /\ getNextBank(mActiveEnv') = mActiveEnv
        /\ flash[mActiveEnv'] = Erased
    BY <1>3, OtherBank DEF WriteCache, NextActiveEnv
  <2>2. mId' \in 0 .. MaxId
    BY <2>1, ZeroIsId
  <2>3. CloseSafe'
    BY <2>1, <2>2, ZeroIsId DEF CloseSafe, WriteSafe, ActiveIsNewest, NothingStored
  <2> QED
    BY <2>1, <2>2, <2>3 DEF IdsDiffer, EnvStep
<1>4. CASE CloseFile
  <2> DEFINE new == [id |-> mId, env |-> writing]
  <2>1. /\ mActiveEnv \in envBank
        /\ pc = "close" /\ pc' = "ready" /\ writing' = NoEnv
        /\ UNCHANGED <<mActiveEnv, mId>>
        /\ flash' = [flash EXCEPT ![mActiveEnv] = new]
    <3>1. /\ mActiveEnv \in envBank /\ flash[mActiveEnv] = Erased
          /\ pc = "close" /\ pc' = "ready" /\ writing' = NoEnv
          /\ UNCHANGED <<mActiveEnv, mId>>
      BY <1>4 DEF CloseFile, CloseSafe
    <3>2. ProgramOutcomes(mActiveEnv, new) = {new}
      BY <3>1, ReliableProgram
    <3> QED
      BY <1>4, <3>1, <3>2 DEF CloseFile
  <2>2. new \in Content /\ new.env \in Env /\ new.id = mId
    BY <2>1, EnvAssumption DEF Content, ErasedId
  <2>3. getNextBank(mActiveEnv) \in envBank \ {mActiveEnv}
    BY <2>1, OtherBank
  <2>4. flash' \in [envBank -> Content]
    BY <2>1, <2>2
  <2>5. /\ flash'[mActiveEnv] = new
        /\ flash'[getNextBank(mActiveEnv)] = flash[getNextBank(mActiveEnv)]
    BY <2>1, <2>3
  <2>6. ActiveIsNewest'
    BY <2>1, <2>2, <2>5, ZeroIsId DEF ActiveIsNewest, CloseSafe
  <2>7. IdsDiffer'
    BY <2>1, <2>2, <2>4, <2>5, <2>6, ZeroIsId
    DEF IdsDiffer, ActiveIsNewest, envBank, getNextBank, Content
  <2> QED
    BY <2>1, <2>4, <2>6, <2>7 DEF EnvStep
<1> QED BY <1>1, <1>2, <1>3, <1>4

\* The bank in danger is never the only one that holds the environment.
LEMMA EnvInvPowerCut ==
    ASSUME EnvInv, PowerCut
    PROVE  EnvInv'
<1> USE DEF EnvInv, EnvTypeOK
<1>1. /\ pc' = "off" /\ mActiveEnv' = "UNKNOWN" /\ mId' = 0 /\ writing' = NoEnv
  BY DEF PowerCut
<1>2. CASE UNCHANGED flash
  BY <1>1, <1>2, ZeroIsId DEF IdsDiffer, EnvStep
<1>3. CASE \E bank \in BankInDanger, content \in Garbage :
             flash' = [flash EXCEPT ![bank] = content]
  <2>1. BankInDanger \subseteq envBank
    BY OtherBank DEF BankInDanger, NextActiveEnv, envBank, getNextBank
  <2>2. PICK bank \in envBank, content \in Garbage :
          flash' = [flash EXCEPT ![bank] = content]
    BY <1>3, <2>1
  <2>3. flash' \in [envBank -> Content]
    BY <2>2, GarbageIsContent
  <2>4. IdsDiffer'
    BY <2>2, GarbageIsContent, ZeroIsId DEF IdsDiffer, envBank
  <2> QED
    BY <1>1, <2>3, <2>4, ZeroIsId DEF EnvStep
<1> QED BY <1>2, <1>3 DEF PowerCut

LEMMA EnvInvStep == ASSUME Reliable, EnvInv, [EnvNext]_envVars PROVE EnvInv'
<1>1. CASE UNCHANGED envVars
  BY <1>1
  DEF envVars, EnvInv, EnvTypeOK, ActiveIsNewest, WriteSafe, CloseSafe, NothingStored,
      IdsDiffer, NextActiveEnv
<1> QED BY <1>1, EnvInvBoot, EnvInvWrite, EnvInvPowerCut DEF EnvNext

THEOREM EnvInvariant ==
    ASSUME Reliable
    PROVE  EnvSpec => []EnvInv
<1>1. EnvInit => EnvInv
  BY EnvInvInit
<1>2. EnvInv /\ [EnvNext]_envVars => EnvInv'
  BY EnvInvStep
<1> QED BY <1>1, <1>2, PTL DEF EnvSpec

\* The ASSERT of getActiveEnvironment never fires, and a restart reads what
\* the firmware was reading, whenever the power is cut.
LEMMA EnvInvImplies ==
    ASSUME EnvInv
    PROVE  EnvTypeOK /\ ActiveBankReadable /\ ReadsWhatSurvives
<1>1. CASE pc = "ready"
  <2>1. ActiveIsNewest /\ flash \in [envBank -> Content]
    BY <1>1 DEF EnvInv, EnvTypeOK
  <2>2. ReadFrom(flash) = flash[mActiveEnv].env
    BY <2>1, NewestSurvives DEF ActiveIsNewest
  <2> QED
    BY <2>1, <2>2, SurvivorNow
    DEF EnvInv, ActiveIsNewest, ActiveBankReadable, ReadsWhatSurvives,
        getActiveEnvironment, loadEnv
<1>2. CASE pc # "ready"
  BY <1>2 DEF EnvInv, ActiveBankReadable, ReadsWhatSurvives
<1> QED BY <1>1, <1>2

\* In every run of a reliable flash, the environment the firmware asks for is
\* there, and a restart reads it too (FirmwareEnvironmentRedundant::init and
\* getActiveEnvironment).
THEOREM EnvCorrect ==
    ASSUME Reliable
    PROVE  EnvSpec => [](EnvTypeOK /\ ActiveBankReadable /\ ReadsWhatSurvives)
<1>1. EnvInv => EnvTypeOK /\ ActiveBankReadable /\ ReadsWhatSurvives
  BY EnvInvImplies
<1> QED BY <1>1, EnvInvariant, PTL

-----------------------------------------------------------------------------
(***************************************************************************)
(* The refinement.  The bank a boot would choose holds the stored value    *)
(* from one program of a page to the next: erasing and switching banks     *)
(* leave it alone, and the program makes the new bank the newest one.      *)
(***************************************************************************)
\* What survives in f is in `bank`, or nothing was ever stored.
Keeps(f, bank) ==
    \/ /\ f[bank].env \in Env
       /\ f[getNextBank(bank)].env \in Env => f[getNextBank(bank)].id < f[bank].id
    \/ \A b \in envBank : f[b].env = NoEnv

\* Then the other bank may be erased, or left with garbage.
LEMMA OtherBankMayChange ==
    ASSUME NEW f \in [envBank -> Content], NEW bank \in envBank, Keeps(f, bank),
           NEW content \in Content, content.env = NoEnv
    PROVE  ReadFrom([f EXCEPT ![getNextBank(bank)] = content]) = ReadFrom(f)
<1> DEFINE g == [f EXCEPT ![getNextBank(bank)] = content]
<1>1. /\ g \in [envBank -> Content]
      /\ g[bank] = f[bank]
      /\ g[getNextBank(bank)] = content
  BY OtherBank
<1> HIDE DEF g
<1>2. CASE /\ f[bank].env \in Env
           /\ f[getNextBank(bank)].env \in Env => f[getNextBank(bank)].id < f[bank].id
  <2>1. ReadFrom(f) = f[bank].env
    BY <1>2, NewestSurvives
  <2>2. g[bank].env \in Env /\ g[getNextBank(bank)].env \notin Env
    BY <1>1, <1>2, ZeroIsId
  <2>3. ReadFrom(g) = g[bank].env
    BY <1>1, <2>2, NewestSurvives
  <2> QED BY <1>1, <2>1, <2>3 DEF g
<1>3. CASE \A b \in envBank : f[b].env = NoEnv
  <2>1. \A b \in envBank : g[b].env = NoEnv
    BY <1>1, <1>3, OtherBank
  <2> QED BY <1>3, <2>1, NothingSurvives DEF g
<1> QED BY <1>2, <1>3 DEF Keeps

\* In every state, a bank in danger is the other one of the bank that keeps.
LEMMA DangerIsElsewhere ==
    ASSUME EnvInv, NEW danger \in BankInDanger
    PROVE  \E bank \in envBank : danger = getNextBank(bank) /\ Keeps(flash, bank)
<1> USE DEF EnvInv, EnvTypeOK
<1>1. CASE pc \in {"format A", "erase A", "format B", "erase B"}
  <2>1. danger \in envBank /\ NothingStored
    BY <1>1 DEF BankInDanger, envBank
  <2> QED BY <2>1, OtherBank DEF NothingStored, Keeps
<1>2. CASE pc = "remove"
  <2>1. danger = getNextBank(mActiveEnv) /\ WriteSafe
    BY <1>2 DEF BankInDanger, NextActiveEnv
  <2> QED BY <2>1 DEF WriteSafe, ActiveIsNewest, NothingStored, Keeps
<1>3. CASE pc = "close"
  <2>1. danger = mActiveEnv /\ CloseSafe
    BY <1>3 DEF BankInDanger
  <2> DEFINE kept == getNextBank(mActiveEnv)
  <2>2. /\ kept \in envBank
        /\ getNextBank(kept) = mActiveEnv
        /\ envBank = {mActiveEnv, kept}
    BY <2>1, OtherBank DEF CloseSafe
  <2>3. Keeps(flash, kept)
    BY <2>1, <2>2, ErasedIsContent, ZeroIsId DEF CloseSafe, Keeps
  <2> QED BY <2>1, <2>2, <2>3
<1> QED BY <1>1, <1>2, <1>3 DEF BankInDanger

LEMMA DangerIsHarmless ==
    ASSUME EnvInv, NEW danger \in BankInDanger,
           NEW content \in Content, content.env = NoEnv,
           flash' = [flash EXCEPT ![danger] = content]
    PROVE  UNCHANGED Survivor
<1>1. PICK bank \in envBank : danger = getNextBank(bank) /\ Keeps(flash, bank)
  BY DangerIsElsewhere
<1>2. flash \in [envBank -> Content]
  BY DEF EnvInv, EnvTypeOK
<1> DEFINE g == [flash EXCEPT ![getNextBank(bank)] = content]
<1>3. ReadFrom(g) = ReadFrom(flash)
  BY <1>1, <1>2, OtherBankMayChange
<1>4. flash' = g
  BY <1>1
<1> QED BY <1>3, <1>4, SurvivorNow, SurvivorNext

LEMMA StoreInitially == EnvInit => Store!StoreInit
<1> SUFFICES ASSUME EnvInit PROVE Store!StoreInit
  OBVIOUS
<1>1. EnvInv
  BY EnvInvInit
<1>2. Survivor \in Env \cup {NoEnv}
  <2>1. ChosenIn(flash) \in envBank
    BY DEF ChosenIn, envBank, getNextBank
  <2> QED BY <1>1, <2>1, SurvivorNow DEF ReadFrom, EnvInv, EnvTypeOK, Content
<1> QED BY <1>2 DEF EnvInit, Store!StoreInit, InWriting, Status

\* Every step is a step of the register, or leaves it alone.
LEMMA StoreStep ==
    ASSUME Reliable, EnvInv, EnvNext
    PROVE  Store!StoreNext \/ UNCHANGED Store!storeVars
<1> USE DEF EnvInv, EnvTypeOK, Store!StoreNext, Store!storeVars
<1>1. CASE init
  <2>1. UNCHANGED Survivor
    BY <1>1, SurvivorNow, SurvivorNext DEF init
  <2>2. CASE validateEnv(ChosenBank)
    BY <1>1, <2>1, <2>2
    DEF init, Store!Boot, Status, InWriting, Survivor, validateEnv
  <2>3. CASE ~ validateEnv(ChosenBank)
    BY <1>1, <2>1, <2>3
    DEF init, Store!Boot, Status, InWriting, Survivor, validateEnv
  <2> QED BY <2>2, <2>3
<1>2. CASE format \/ eraseAll
  <2>1. PICK danger \in BankInDanger : flash' = [flash EXCEPT ![danger] = Erased]
    BY <1>2, ReliableErase DEF format, eraseAll, Erase, BankInDanger
  <2>2. UNCHANGED Survivor
    BY <2>1, DangerIsHarmless, ErasedIsContent
  <2> QED
    BY <1>2, <2>2 DEF format, eraseAll, Erase, Status, InWriting
<1>3. CASE reset \/ WriteCache
  <2>1. UNCHANGED Survivor
    BY <1>3, SurvivorNow, SurvivorNext DEF reset, WriteCache
  <2> QED
    BY <1>3, <2>1 DEF reset, WriteCache, Status, InWriting
<1>4. CASE \E env \in Env : BeginWriteEnvironment(env)
  <2>1. UNCHANGED Survivor
    BY <1>4, SurvivorNow, SurvivorNext DEF BeginWriteEnvironment
  <2> QED
    BY <1>4, <2>1 DEF BeginWriteEnvironment, Store!BeginWrite, Status, InWriting
<1>5. CASE RemoveNext
  <2>1. PICK danger \in BankInDanger : flash' = [flash EXCEPT ![danger] = Erased]
    BY <1>5, ReliableErase DEF RemoveNext, Erase, BankInDanger
  <2>2. UNCHANGED Survivor
    BY <2>1, DangerIsHarmless, ErasedIsContent
  <2> QED
    BY <1>5, <2>2 DEF RemoveNext, Erase, Status, InWriting
<1>6. CASE CloseFile
  <2>1. EnvInv' /\ pc' = "ready" /\ pc = "close"
    BY <1>6, EnvInvWrite DEF CloseFile
  <2>2. Survivor' = flash'[mActiveEnv'].env
    BY <2>1, NewestSurvives, SurvivorNext DEF ActiveIsNewest
  <2>3. flash'[mActiveEnv'].env = writing
    <3>1. CloseSafe
      BY <2>1
    <3>2. ProgramOutcomes(mActiveEnv, [id |-> mId, env |-> writing])
            = {[id |-> mId, env |-> writing]}
      BY <3>1, ReliableProgram DEF CloseSafe
    <3> QED BY <1>6, <3>1, <3>2 DEF CloseFile, CloseSafe
  <2> QED
    BY <1>6, <2>1, <2>2, <2>3 DEF CloseFile, Store!EndWrite, Status, InWriting
<1>7. CASE PowerCut
  <2>1. UNCHANGED Survivor
    <3>1. CASE UNCHANGED flash
      BY <3>1, SurvivorNow, SurvivorNext
    <3>2. CASE \E danger \in BankInDanger, content \in Garbage :
                 flash' = [flash EXCEPT ![danger] = content]
      BY <3>2, DangerIsHarmless, GarbageIsContent
    <3> QED BY <1>7, <3>1, <3>2 DEF PowerCut
  <2> QED
    BY <1>7, <2>1 DEF PowerCut, Store!PowerCut, Status, InWriting, EnvStep
<1> QED BY <1>1, <1>2, <1>3, <1>4, <1>5, <1>6, <1>7 DEF EnvNext

\* The two banks are one register that is written all at once or not at all:
\* whenever the power is cut, a boot reads the last environment whose write
\* returned, or the one that was being written
\* (FirmwareEnvironmentRedundant::writeEnvironment, init, reset).
THEOREM EnvImplementsStore ==
    ASSUME Reliable
    PROVE  EnvSpec => StoreSpec
<1>1. EnvInit => Store!StoreInit
  BY StoreInitially
<1>2. EnvInv /\ [EnvNext]_envVars => [Store!StoreNext]_(Store!storeVars)
  <2>1. UNCHANGED envVars => UNCHANGED Store!storeVars
    BY DEF envVars, Store!storeVars, Survivor, loadEnv, ChosenBank, validateEnv,
           Status, InWriting
  <2> QED BY <2>1, StoreStep
<1> QED BY <1>1, <1>2, EnvInvariant, PTL DEF EnvSpec, StoreSpec, Store!StoreSpec

=============================================================================
