----------------------- MODULE PowerConnectivityProofs -----------------------
(* The link the keyboard talks over, for queues of any length, all delays  *)
(* and all interleavings of the two tasks: an operation that no other one  *)
(* crossed leaves every listener on the link it set, and that link is the  *)
(* one the supply and the state of the keyboard call for.                  *)
EXTENDS PowerConnectivity, PowerStateMachineProofs, SequenceTheorems

Pc == {"idle", "check", "compare", "write", "select", "notify"}

Asleep == {"SLEEP", "SLEEP_USB_DISCONNECTED"}

(* The states in which the keyboard is awake, but for the demo. *)
Awake == {"ACTIVE", "INACTIVE", "LONG_INACTIVE", "SUSPENDED"}

CallType ==
    [pc : Pc, operation : Operation, change : ConnectivityStateValue,
     told : {0, 1, 2}, crossed : BOOLEAN]

ConnectivityTypeOK ==
    /\ mState \in ConnectivityStateValue
    /\ call \in [Caller -> CallType]
    /\ told \in [Listener -> ConnectivityStateValue]
    /\ overlapped \in BOOLEAN

-----------------------------------------------------------------------------
(* The invariant of the connectivity state alone. *)

(* Two callers inside an operation both know that they crossed, and so     *)
(* does the record kept of it.                                             *)
CrossingsKnown ==
    /\ \A c, d \in Caller : c # d /\ ~Idle(c) /\ ~Idle(d) => call[c].crossed
    /\ \A c \in Caller : call[c].crossed => overlapped
    /\ \A c \in Caller : Idle(c) => ~call[c].crossed

(* An operation nobody crossed still finds the state it looked at, and     *)
(* once it has written, the one it wrote.                                  *)
UncrossedCall(c) ==
    ~call[c].crossed =>
        /\ call[c].pc \in {"compare", "write"} =>
               mState \in LeavesFrom(call[c].operation)
        /\ call[c].pc \in {"select", "notify"} =>
               mState = LeadsTo(call[c].operation)

(* It has told the first listeners that state. *)
UncrossedNotice(c) ==
    call[c].pc = "notify" /\ ~call[c].crossed =>
        /\ call[c].change = mState
        /\ \A i \in 1..call[c].told : told[Listeners[i]] = mState

(* No listener is told before the state to tell has been read. *)
NoneToldEarly ==
    \A c \in Caller : call[c].pc # "notify" => call[c].told = 0

(* Listeners are only behind while an operation is telling them. *)
ListenersFollow ==
    ~overlapped =>
        \/ \A l \in Listener : told[l] = mState
        \/ \E c \in Caller : call[c].pc \in {"select", "notify"}

ConnectivityInv ==
    /\ ConnectivityTypeOK
    /\ CrossingsKnown
    /\ NoneToldEarly
    /\ \A c \in Caller : UncrossedCall(c) /\ UncrossedNotice(c)
    /\ ListenersFollow

-----------------------------------------------------------------------------
(* The invariant of the tasks around it. *)

LinkTypeOK ==
    /\ supply \in USB_POWER_CONNECTION_STATE
    /\ pmStep \in {"receive", "forward", "notify"}
    /\ pmStep # "receive" => supply # "NONE"
    /\ supplyQueue \in Seq(ReportedSupply)
    /\ supplyLost \in BOOLEAN
    /\ activityPc \in {"receive", "timeout"}
    /\ sleepCrossed \in BOOLEAN

(* Only a finite delay of a running machine ends, and the machine waits    *)
(* for the timeout.                                                        *)
TimeoutDue ==
    activityPc = "timeout" =>
        psmState # "OFF" /\ mCurrentTimeout # INFINITE_DELAY

(* The keyboard has not been active since it fell asleep half told. *)
NotActiveSince == sleepCrossed => psmState # "ACTIVE"

(* The power manager task is in the operation of its supply; the activity  *)
(* task in the one of the state it has just entered.                       *)
OperationsKnown ==
    /\ ~Idle("powerManagerTask") =>
           /\ pmStep = "receive" /\ supply # "NONE"
           /\ call["powerManagerTask"].operation = OperationOf(supply)
    /\ ~Idle("activityTask") =>
           \/ call["activityTask"].operation = "active" /\ psmState = "ACTIVE"
           \/ call["activityTask"].operation = "sleep" /\ psmState \in Asleep

(* The power manager task has told everybody of its supply, and nobody has *)
(* crossed it.                                                             *)
SupplyTold ==
    pmStep = "receive" /\ Idle("powerManagerTask") /\ ~overlapped

UsbFits == SupplyTold => (mState = "USB" <=> supply = "PLUG_IN_PC")

(* From the report of a supply until its operation ends nothing puts the   *)
(* keyboard to sleep without crossing the operation, once the activity     *)
(* task has the report, or falling asleep half told.                       *)
AwakeForSupply ==
    /\ supplyQueue = << >> /\ ~supplyLost
    /\ \/ pmStep = "notify"
       \/ ~Idle("powerManagerTask") /\ ~call["powerManagerTask"].crossed
    => psmState \notin Asleep \/ sleepCrossed

(* While the report is on its way the link stays the one the supply set,   *)
(* or goes back to it; then it follows the keyboard, once the activity     *)
(* task has said so.                                                       *)
LinkFollows ==
    /\ SupplyTold /\ supply \notin {"NONE", "PLUG_IN_PC"}
    /\ ~supplyLost /\ ~sleepCrossed
    => IF supplyQueue = << >>
       THEN Idle("activityTask") =>
                /\ psmState \in Awake => mState = "BLE"
                /\ psmState \in Asleep => mState = "NONE"
       ELSE /\ Idle("activityTask") => mState = "BLE"
            /\ ~Idle("activityTask") =>
                   call["activityTask"].operation = "active"

LinkInv ==
    /\ PsmInv
    /\ ConnectivityInv
    /\ LinkTypeOK
    /\ TimeoutDue
    /\ NotActiveSince
    /\ OperationsKnown
    /\ UsbFits
    /\ AwakeForSupply
    /\ LinkFollows

-----------------------------------------------------------------------------
(* What the moves of a caller do to the calls. *)

LEMMA GoToIs ==
    ASSUME ConnectivityTypeOK, NEW c \in Caller, NEW pc \in Pc, GoTo(c, pc)
    PROVE  /\ call' \in [Caller -> CallType]
           /\ call'[c] = [call[c] EXCEPT !.pc = pc]
           /\ call'[c].pc = pc /\ call'[c].operation = call[c].operation
           /\ call'[c].change = call[c].change /\ call'[c].told = call[c].told
           /\ call'[c].crossed = call[c].crossed
           /\ \A d \in Caller \ {c} : call'[d] = call[d]
  <1>1. /\ call \in [Caller -> CallType] /\ call[c] \in CallType
        /\ call' = [call EXCEPT ![c] = [call[c] EXCEPT !.pc = pc]]
    BY DEF ConnectivityTypeOK, GoTo
  <1>2. [call[c] EXCEPT !.pc = pc] \in CallType
    BY <1>1 DEF CallType, Pc
  <1>3. call'[c] = [call[c] EXCEPT !.pc = pc]
    BY <1>1
  <1>4. call[c] = [pc |-> call[c].pc, operation |-> call[c].operation,
                   change |-> call[c].change, told |-> call[c].told,
                   crossed |-> call[c].crossed]
    BY <1>1 DEF CallType
  <1> QED  BY <1>1, <1>2, <1>3, <1>4

LEMMA ReturnIs ==
    ASSUME ConnectivityTypeOK, NEW c \in Caller, Return(c)
    PROVE  /\ call' \in [Caller -> CallType]
           /\ call'[c].pc = "idle" /\ call'[c].told = 0
           /\ ~call'[c].crossed
           /\ \A d \in Caller \ {c} : call'[d] = call[d]
  <1>1. NoCall \in CallType
    BY DEF NoCall, CallType, Pc, Operation, PowerOperation,
           ConnectivityStateValue
  <1>2. call' = [call EXCEPT ![c] = NoCall] /\ call \in [Caller -> CallType]
    BY DEF ConnectivityTypeOK, Return
  <1>3. call'[c] = NoCall
    BY <1>2
  <1> QED  BY <1>1, <1>2, <1>3 DEF NoCall

(* A caller inside an operation that nobody crossed is alone. *)
LEMMA UncrossedIsAlone ==
    ASSUME CrossingsKnown, NEW c \in Caller, ~Idle(c), ~call[c].crossed,
           NEW d \in Caller \ {c}
    PROVE  Idle(d)
  BY DEF CrossingsKnown

(* Every operation leads to a state, which it does not leave from. *)
LEMMA LeadsToType ==
    ASSUME NEW operation \in Operation
    PROVE  /\ LeadsTo(operation) \in ConnectivityStateValue
           /\ LeadsTo(operation) \notin LeavesFrom(operation)
  BY DEF LeadsTo, LeavesFrom, Operation, SupplyOperation, PowerOperation,
         ConnectivityStateValue

(* An operation is called: it and the one it meets know of each other. *)
LEMMA CallKeeps ==
    ASSUME ConnectivityInv, NEW c \in Caller, NEW operation \in Operation,
           Call(c, operation)
    PROVE  /\ ConnectivityInv'
           /\ call'[c].pc = "check" /\ call'[c].operation = operation
           /\ \A d \in Caller \ {c} :
                  /\ call'[d].pc = call[d].pc
                  /\ call'[d].operation = call[d].operation
                  /\ ~Idle(d) => call'[d].crossed /\ overlapped'
  <1> DEFINE busy == {other \in Caller \ {c} : ~Idle(other)}
             entered == [NoCall EXCEPT !.pc = "check", !.operation = operation,
                                       !.crossed = busy # {}]
  <1>type. /\ ConnectivityTypeOK /\ CrossingsKnown
           /\ call \in [Caller -> CallType]
    BY DEF ConnectivityInv, ConnectivityTypeOK
  <1>1. /\ Idle(c)
        /\ call' = [d \in Caller |-> IF d = c THEN entered
                        ELSE [call[d] EXCEPT !.crossed = d \in busy]]
        /\ overlapped' = (overlapped \/ busy # {})
        /\ UNCHANGED <<mState, told>>
    BY DEF Call
  <1>4. ASSUME NEW d \in Caller \ {c}
        PROVE  /\ call'[d] \in CallType
               /\ call'[d].pc = call[d].pc
               /\ call'[d].operation = call[d].operation
               /\ call'[d].change = call[d].change
               /\ call'[d].told = call[d].told
               /\ call'[d].crossed <=> d \in busy
    <2>1. call'[d] = [call[d] EXCEPT !.crossed = d \in busy]
      BY <1>1
    <2>2. call[d] \in CallType /\ (d \in busy) \in BOOLEAN
      BY <1>type
    <2> QED  BY <2>1, <2>2 DEF CallType
  <1>5. /\ call'[c] \in CallType
        /\ call'[c].pc = "check" /\ call'[c].operation = operation
        /\ call'[c].told = 0
        /\ call'[c].crossed <=> busy # {}
    <2>1. call'[c] = entered
      BY <1>1
    <2>2. NoCall \in CallType /\ (busy # {}) \in BOOLEAN
      BY DEF NoCall, CallType, Pc, Operation, PowerOperation,
             ConnectivityStateValue
    <2>3. "check" \in Pc
      BY DEF Pc
    <2>4. entered.told = 0
      BY DEF NoCall
    <2> QED  BY <2>1, <2>2, <2>3, <2>4 DEF CallType
  <1>6. ConnectivityTypeOK'
    <2>1. call' \in [Caller -> CallType]
      BY <1>1, <1>4, <1>5
    <2>2. overlapped' \in BOOLEAN
      BY <1>1, <1>type DEF ConnectivityTypeOK
    <2> QED  BY <1>1, <1>type, <2>1, <2>2 DEF ConnectivityTypeOK
  <1>7. CrossingsKnown'
    <2>1. \A d \in Caller \ {c} : Idle(d)' <=> Idle(d)
      BY <1>4 DEF Idle
    <2>2. ~Idle(c)'
      BY <1>5 DEF Idle
    <2>3. \A d \in Caller \ {c} : call'[d].crossed <=> ~Idle(d)
      BY <1>4
    <2>4. \A d, e \in Caller : d # e /\ ~Idle(d)' /\ ~Idle(e)' =>
              call'[d].crossed
      <3> SUFFICES ASSUME NEW d \in Caller, NEW e \in Caller, d # e,
                          ~Idle(d)', ~Idle(e)'
                   PROVE  call'[d].crossed
        OBVIOUS
      <3>1. CASE d = c
        BY <3>1, <1>5, <2>1
      <3>2. CASE d # c
        BY <3>2, <2>1, <2>3
      <3> QED  BY <3>1, <3>2
    <2>5. \A d \in Caller : call'[d].crossed => overlapped'
      BY <1>1, <1>5, <2>3
    <2>6. \A d \in Caller : Idle(d)' => ~call'[d].crossed
      BY <2>1, <2>2, <2>3
    <2> QED  BY <2>4, <2>5, <2>6 DEF CrossingsKnown
  <1>8. ASSUME NEW d \in Caller PROVE UncrossedCall(d)' /\ UncrossedNotice(d)'
    <2>1. CASE d = c
      BY <2>1, <1>5 DEF UncrossedCall, UncrossedNotice
    <2>2. CASE d # c /\ Idle(d)
      BY <2>2, <1>4 DEF UncrossedCall, UncrossedNotice, Idle
    <2>3. CASE d # c /\ ~Idle(d)
      BY <2>3, <1>4 DEF UncrossedCall, UncrossedNotice
    <2> QED  BY <2>1, <2>2, <2>3
  <1>9. ListenersFollow'
    BY <1>1, <1>4, <1>5 DEF ConnectivityInv, ListenersFollow, Idle
  <1>10. \A d \in Caller \ {c} : ~Idle(d) => call'[d].crossed /\ overlapped'
    BY <1>1, <1>4
  <1>11. NoneToldEarly'
    BY <1>4, <1>5 DEF ConnectivityInv, NoneToldEarly
  <1> QED
    BY <1>4, <1>5, <1>6, <1>7, <1>8, <1>9, <1>10, <1>11 DEF ConnectivityInv

(* A caller moves on or returns: what is known of crossings stays true,    *)
(* and the other caller, which is idle or crossed, is not concerned.       *)
LEMMA MoveKeepsCrossings ==
    ASSUME CrossingsKnown, NEW c \in Caller, ~Idle(c),
           \A d \in Caller \ {c} : call'[d] = call[d],
           \/ ~Idle(c)' /\ (call'[c].crossed <=> call[c].crossed)
           \/ Idle(c)' /\ ~call'[c].crossed,
           \/ overlapped' = overlapped
           \/ ~call[c].crossed
    PROVE  /\ CrossingsKnown'
           /\ \A d \in Caller \ {c} : UncrossedCall(d)' /\ UncrossedNotice(d)'
  <1>1. ASSUME NEW d \in Caller \ {c}
        PROVE  /\ Idle(d)' <=> Idle(d)
               /\ call'[d].crossed <=> call[d].crossed
               /\ ~Idle(d) => call[d].crossed /\ call[c].crossed
    BY <1>1 DEF Idle, CrossingsKnown
  <1>2. \A d, e \in Caller :
            d # e /\ ~Idle(d)' /\ ~Idle(e)' => call'[d].crossed
    <2> SUFFICES ASSUME NEW d \in Caller, NEW e \in Caller, d # e,
                        ~Idle(d)', ~Idle(e)'
                 PROVE  call'[d].crossed
      OBVIOUS
    <2>1. CASE d # c
      BY <1>1, <2>1
    <2>2. CASE d = c
      BY <1>1, <2>2
    <2> QED  BY <2>1, <2>2
  <1>3. ASSUME NEW d \in Caller, call'[d].crossed PROVE overlapped'
    BY <1>1, <1>3 DEF CrossingsKnown
  <1>4. ASSUME NEW d \in Caller, Idle(d)' PROVE ~call'[d].crossed
    BY <1>1, <1>4 DEF CrossingsKnown
  <1>5. CrossingsKnown'
    BY <1>2, <1>3, <1>4 DEF CrossingsKnown
  <1>6. ASSUME NEW d \in Caller \ {c}
        PROVE  UncrossedCall(d)' /\ UncrossedNotice(d)'
    BY <1>1 DEF UncrossedCall, UncrossedNotice, Idle
  <1> QED  BY <1>5, <1>6

(* What every step of an operation keeps. *)
LEMMA CallStepKeeps ==
    ASSUME ConnectivityInv, NEW c \in Caller, CallStep(c)
    PROVE  ConnectivityInv'
  <1>type. /\ ConnectivityTypeOK /\ CrossingsKnown /\ ListenersFollow
           /\ NoneToldEarly /\ UncrossedCall(c) /\ UncrossedNotice(c)
           /\ call \in [Caller -> CallType] /\ call[c] \in CallType
    BY DEF ConnectivityInv, ConnectivityTypeOK
  <1>op. /\ call[c].operation \in Operation
         /\ LeadsTo(call[c].operation) \in ConnectivityStateValue
    BY <1>type, LeadsToType DEF CallType
  <1>busy. ~Idle(c)
    BY DEF CallStep, Check, Compare, Write, Select, Notify, Idle
  <1>alone. ~overlapped => \A d \in Caller \ {c} : Idle(d) /\ ~call[c].crossed
    BY <1>type, <1>busy DEF CrossingsKnown
  <1>quiet. ASSUME call[c].pc \in {"check", "compare"},
                   UNCHANGED <<mState, told, overlapped>>,
                   Return(c) \/ \E pc \in {"compare", "write"} : GoTo(c, pc),
                   UncrossedCall(c)'
            PROVE  ConnectivityInv'
    <2>1. /\ call' \in [Caller -> CallType]
          /\ \A d \in Caller \ {c} : call'[d] = call[d]
          /\ call'[c].pc \in {"idle", "compare", "write"}
          /\ call'[c].told = 0
          /\ \/ ~Idle(c)' /\ (call'[c].crossed <=> call[c].crossed)
             \/ Idle(c)' /\ ~call'[c].crossed
      <3>1. CASE Return(c)
        BY <1>type, <3>1, ReturnIs DEF Idle
      <3>2. ASSUME NEW pc \in {"compare", "write"}, GoTo(c, pc)
            PROVE  /\ call' \in [Caller -> CallType]
                   /\ \A d \in Caller \ {c} : call'[d] = call[d]
                   /\ call'[c].pc = pc /\ call'[c].told = 0
                   /\ call'[c].crossed = call[c].crossed
        <4>1. pc \in Pc
          BY DEF Pc
        <4> QED  BY <1>type, <1>quiet, <3>2, <4>1, GoToIs DEF NoneToldEarly
      <3> QED  BY <1>quiet, <3>1, <3>2 DEF Idle
    <2>2. /\ CrossingsKnown'
          /\ \A d \in Caller \ {c} : UncrossedCall(d)' /\ UncrossedNotice(d)'
      BY <1>type, <1>busy, <1>quiet, <2>1, MoveKeepsCrossings
    <2>3. ListenersFollow'
      <3> SUFFICES ASSUME ~overlapped' PROVE ListenersFollow'
        BY DEF ListenersFollow
      <3>1. ~ \E d \in Caller : call[d].pc \in {"select", "notify"}
        BY <1>alone, <1>quiet DEF Idle
      <3> QED  BY <1>quiet, <1>type, <3>1 DEF ListenersFollow
    <2>4. ConnectivityTypeOK' /\ UncrossedNotice(c)' /\ NoneToldEarly'
      BY <1>quiet, <1>type, <2>1
      DEF ConnectivityTypeOK, UncrossedNotice, NoneToldEarly
    <2> QED  BY <1>quiet, <2>2, <2>3, <2>4 DEF ConnectivityInv
  <1>1. CASE Check(c)
    <2>1. CASE Return(c)
      <3>1. UncrossedCall(c)'
        BY <1>type, <2>1, ReturnIs DEF UncrossedCall
      <3> QED  BY <1>1, <1>quiet, <2>1, <3>1 DEF Check
    <2>2. CASE mState \in LeavesFrom(call[c].operation) /\ GoTo(c, "compare")
      <3>1. UncrossedCall(c)'
        BY <1>1, <1>type, <2>2, GoToIs DEF UncrossedCall, Check, Pc
      <3> QED  BY <1>1, <1>quiet, <2>2, <3>1 DEF Check
    <2> QED  BY <1>1, <2>1, <2>2 DEF Check
  <1>2. CASE Compare(c)
    <2>1. CASE Return(c)
      <3>1. UncrossedCall(c)'
        BY <1>type, <2>1, ReturnIs DEF UncrossedCall
      <3> QED  BY <1>2, <1>quiet, <2>1, <3>1 DEF Compare
    <2>2. CASE GoTo(c, "write")
      <3>1. UncrossedCall(c)'
        BY <1>2, <1>type, <2>2, GoToIs DEF UncrossedCall, Compare, Pc
      <3> QED  BY <1>2, <1>quiet, <2>2, <3>1 DEF Compare
    <2> QED  BY <1>2, <2>1, <2>2 DEF Compare
  <1>go. ASSUME NEW pc \in {"select", "notify"},
                call' \in [Caller -> CallType],
                call'[c].pc = pc, call'[c].operation = call[c].operation,
                call'[c].crossed = call[c].crossed,
                pc = "select" => call'[c].told = 0,
                \A d \in Caller \ {c} : call'[d] = call[d],
                UNCHANGED <<told, overlapped>>,
                mState' = LeadsTo(call[c].operation) \/ UNCHANGED mState,
                UncrossedCall(c)', UncrossedNotice(c)'
         PROVE  ConnectivityInv'
    <2>1. /\ CrossingsKnown'
          /\ \A d \in Caller \ {c} : UncrossedCall(d)' /\ UncrossedNotice(d)'
      <3>1. ~Idle(c)' /\ (call'[c].crossed <=> call[c].crossed)
        BY <1>go DEF Idle
      <3>2. overlapped' = overlapped
        BY <1>go
      <3> QED  BY <1>type, <1>busy, <1>go, <3>1, <3>2, MoveKeepsCrossings
    <2>2. ListenersFollow' /\ ConnectivityTypeOK' /\ NoneToldEarly'
      BY <1>go, <1>op, <1>type
      DEF ListenersFollow, ConnectivityTypeOK, NoneToldEarly
    <2> QED  BY <1>go, <2>1, <2>2 DEF ConnectivityInv
  <1>3. CASE Write(c)
    <2>1. "select" \in Pc
      BY DEF Pc
    <2>2. /\ call' \in [Caller -> CallType] /\ call'[c].pc = "select"
          /\ call'[c].operation = call[c].operation
          /\ call'[c].crossed = call[c].crossed /\ call'[c].told = 0
          /\ \A d \in Caller \ {c} : call'[d] = call[d]
      BY <1>3, <1>type, <2>1, GoToIs DEF Write, NoneToldEarly
    <2>3. UncrossedCall(c)' /\ UncrossedNotice(c)'
      BY <1>3, <2>2 DEF UncrossedCall, UncrossedNotice, Write
    <2> QED  BY <1>3, <1>go, <2>2, <2>3 DEF Write
  <1>4. CASE Select(c)
    <2> DEFINE r == [call[c] EXCEPT !.pc = "notify", !.change = mState]
    <2>1. /\ r \in CallType /\ r.pc = "notify" /\ r.change = mState
          /\ r.operation = call[c].operation /\ r.crossed = call[c].crossed
          /\ r.told = call[c].told
      BY <1>type DEF CallType, Pc, ConnectivityTypeOK
    <2>2. call' = [call EXCEPT ![c] = r]
      BY <1>4, <1>type DEF Select
    <2>3. /\ call' \in [Caller -> CallType] /\ call'[c] = r
          /\ \A d \in Caller \ {c} : call'[d] = call[d]
      BY <1>type, <2>1, <2>2
    <2>4. call[c].told = 0
      BY <1>4, <1>type DEF Select, NoneToldEarly
    <2>5. UNCHANGED <<mState, told, overlapped>>
      BY <1>4 DEF Select
    <2>6. UncrossedCall(c)' /\ UncrossedNotice(c)'
      BY <1>4, <1>type, <2>1, <2>3, <2>4, <2>5
      DEF UncrossedCall, UncrossedNotice, Select
    <2> HIDE DEF r
    <2> QED  BY <1>go, <2>1, <2>3, <2>5, <2>6
  <1>5. CASE Notify(c)
    <2> DEFINE position == call[c].told + 1
               link == call[c].change
    <2>1. /\ call[c].pc = "notify" /\ UNCHANGED mState
          /\ told' = [told EXCEPT ![Listeners[position]] = link]
          /\ position \in {1, 2, 3} /\ Len(Listeners) = 3
      BY <1>5, <1>type DEF Notify, Listeners, CallType
    <2>2. /\ Listeners[position] \in Listener
          /\ told' \in [Listener -> ConnectivityStateValue]
          /\ told'[Listeners[position]] = link
          /\ \A i \in {1, 2, 3} :
                 i # position => told'[Listeners[i]] = told[Listeners[i]]
          /\ \A l \in Listener : \E i \in {1, 2, 3} : l = Listeners[i]
      <3>1. /\ link \in ConnectivityStateValue
            /\ told \in [Listener -> ConnectivityStateValue]
        BY <1>type DEF CallType, ConnectivityTypeOK
      <3>2. Listener = {Listeners[i] : i \in {1, 2, 3}}
        BY <2>1 DEF Listener
      <3>3. /\ \A i \in {1, 2, 3} : Listeners[i] \in Listener
            /\ \A i, j \in {1, 2, 3} : i # j => Listeners[i] # Listeners[j]
        BY <3>2 DEF Listeners
      <3> QED  BY <2>1, <3>1, <3>2, <3>3
    <2>3. ~call[c].crossed =>
              /\ link = mState
              /\ \A i \in 1..position : told'[Listeners[i]] = mState
      <3> SUFFICES ASSUME ~call[c].crossed
                   PROVE  /\ link = mState
                          /\ \A i \in 1..position :
                                 told'[Listeners[i]] = mState
        OBVIOUS
      <3>1. /\ link = mState /\ call[c].told \in {0, 1, 2}
            /\ \A i \in 1..call[c].told : told[Listeners[i]] = mState
        BY <1>type, <2>1 DEF UncrossedNotice, CallType
      <3>2. ASSUME NEW i \in 1..position PROVE told'[Listeners[i]] = mState
        <4>1. CASE i = position
          BY <2>2, <3>1, <4>1
        <4>2. CASE i # position
          <5>1. i \in 1..call[c].told /\ i \in {1, 2, 3}
            BY <3>1, <4>2
          <5> QED  BY <2>2, <3>1, <4>2, <5>1
        <4> QED  BY <4>1, <4>2
      <3> QED  BY <3>1, <3>2
    <2>4. CASE /\ position < Len(Listeners)
               /\ call' = [call EXCEPT ![c].told = position]
               /\ UNCHANGED overlapped
      <3> DEFINE r == [call[c] EXCEPT !.told = position]
      <3>1. /\ r \in CallType /\ r.pc = "notify" /\ r.change = link
            /\ r.operation = call[c].operation /\ r.crossed = call[c].crossed
            /\ r.told = position
        BY <1>type, <2>1, <2>4 DEF CallType
      <3>2. /\ call' \in [Caller -> CallType] /\ call'[c] = r
            /\ \A d \in Caller \ {c} : call'[d] = call[d]
        BY <1>type, <2>4, <3>1
      <3> HIDE DEF r
      <3>3. UncrossedCall(c)' /\ UncrossedNotice(c)'
        BY <1>type, <2>1, <2>3, <3>1, <3>2 DEF UncrossedCall, UncrossedNotice
      <3>4. /\ CrossingsKnown'
            /\ \A d \in Caller \ {c} : UncrossedCall(d)' /\ UncrossedNotice(d)'
        <4>1. ~Idle(c)' /\ (call'[c].crossed <=> call[c].crossed)
          BY <3>1, <3>2 DEF Idle
        <4> QED  BY <1>type, <1>busy, <2>4, <3>2, <4>1, MoveKeepsCrossings
      <3>5. ListenersFollow' /\ ConnectivityTypeOK' /\ NoneToldEarly'
        BY <1>type, <2>1, <2>2, <2>4, <3>1, <3>2
        DEF ListenersFollow, ConnectivityTypeOK, NoneToldEarly
      <3> QED  BY <3>3, <3>4, <3>5 DEF ConnectivityInv
    <2>5. CASE /\ position = Len(Listeners)
               /\ Return(c)
               /\ overlapped' = (overlapped /\ ~Repairs(c))
      <3>1. /\ call' \in [Caller -> CallType]
            /\ call'[c].pc = "idle" /\ call'[c].told = 0 /\ ~call'[c].crossed
            /\ \A d \in Caller \ {c} : call'[d] = call[d]
        BY <1>type, <2>5, ReturnIs
      <3>2. \/ overlapped' = overlapped
            \/ ~call[c].crossed
        BY <1>type, <2>5 DEF Repairs, ConnectivityTypeOK
      <3>3. /\ CrossingsKnown'
            /\ \A d \in Caller \ {c} : UncrossedCall(d)' /\ UncrossedNotice(d)'
        <4>1. Idle(c)' /\ ~call'[c].crossed
          BY <3>1 DEF Idle
        <4> QED  BY <1>type, <1>busy, <3>1, <3>2, <4>1, MoveKeepsCrossings
      <3>4. UncrossedCall(c)' /\ UncrossedNotice(c)'
        BY <3>1 DEF UncrossedCall, UncrossedNotice
      <3>5. ConnectivityTypeOK' /\ NoneToldEarly'
        <4>1. overlapped' \in BOOLEAN
          BY <2>5
        <4> QED
          BY <1>type, <2>1, <2>2, <3>1, <4>1
          DEF ConnectivityTypeOK, NoneToldEarly
      <3>6. ListenersFollow'
        <4> SUFFICES ASSUME ~overlapped' PROVE ListenersFollow'
          BY DEF ListenersFollow
        <4>1. ~call[c].crossed
          BY <1>type, <2>5 DEF Repairs, CrossingsKnown
        <4>2. \A l \in Listener : told'[l] = mState'
          BY <2>1, <2>2, <2>3, <2>5, <4>1
        <4> QED  BY <4>2 DEF ListenersFollow
      <3> QED  BY <3>3, <3>4, <3>5, <3>6 DEF ConnectivityInv
    <2> QED  BY <1>5, <2>1, <2>4, <2>5 DEF Notify
  <1> QED  BY <1>1, <1>2, <1>3, <1>4, <1>5 DEF CallStep

(* How a step of an operation moves the caller and the link: an operation  *)
(* ends unnoticed, or on a state it does not leave from.                   *)
LEMMA CallStepMoves ==
    ASSUME ConnectivityInv, NEW c \in Caller, CallStep(c)
    PROVE  /\ ~Idle(c)
           /\ \A d \in Caller \ {c} : call'[d] = call[d]
           /\ ~Idle(c)' => /\ call'[c].operation = call[c].operation
                           /\ call'[c].crossed = call[c].crossed
                           /\ overlapped' = overlapped
           /\ mState' # mState => /\ mState' = LeadsTo(call[c].operation)
                                  /\ call[c].pc = "write" /\ ~Idle(c)'
           /\ c # "powerManagerTask" /\ ~overlapped' => ~overlapped
           /\ Idle(c)' /\ ~overlapped' =>
                  /\ ~call[c].crossed
                  /\ mState \notin LeavesFrom(call[c].operation)
  <1>type. /\ ConnectivityTypeOK /\ CrossingsKnown /\ UncrossedCall(c)
           /\ call \in [Caller -> CallType] /\ call[c] \in CallType
    BY DEF ConnectivityInv, ConnectivityTypeOK
  <1>op. LeadsTo(call[c].operation) \notin LeavesFrom(call[c].operation)
    BY <1>type, LeadsToType DEF CallType
  <1>busy. ~Idle(c)
    BY DEF CallStep, Check, Compare, Write, Select, Notify, Idle
  <1>uncrossed. ~overlapped => ~call[c].crossed
    BY <1>type DEF CrossingsKnown
  <1>1. CASE Return(c) /\ UNCHANGED <<mState, overlapped>>
             /\ mState \notin LeavesFrom(call[c].operation)
    <2>1. Idle(c)' /\ \A d \in Caller \ {c} : call'[d] = call[d]
      BY <1>type, <1>1, ReturnIs DEF Idle
    <2> QED  BY <1>1, <1>busy, <1>uncrossed, <2>1
  <1>2. ASSUME NEW pc \in Pc \ {"idle"}, GoTo(c, pc), UNCHANGED overlapped,
               \/ UNCHANGED mState
               \/ /\ mState' = LeadsTo(call[c].operation)
                  /\ call[c].pc = "write"
        PROVE  /\ ~Idle(c)'
               /\ \A d \in Caller \ {c} : call'[d] = call[d]
               /\ call'[c].operation = call[c].operation
               /\ call'[c].crossed = call[c].crossed
    <2>1. /\ call'[c].pc = pc
          /\ \A d \in Caller \ {c} : call'[d] = call[d]
          /\ call'[c].operation = call[c].operation
      BY <1>type, <1>2, GoToIs
    <2>2. call'[c].crossed = call[c].crossed
      BY <1>type, <1>2, GoToIs
    <2> QED  BY <2>1, <2>2 DEF Idle
  <1>3. CASE Check(c) \/ Compare(c)
    <2>1. CASE Return(c) /\ mState \notin LeavesFrom(call[c].operation)
      BY <1>1, <1>3, <2>1 DEF Check, Compare
    <2>2. CASE \E pc \in {"compare", "write"} : GoTo(c, pc)
      BY <1>2, <1>3, <1>busy, <2>2 DEF Check, Compare, Pc
    <2> QED  BY <1>3, <1>op, <2>1, <2>2 DEF Check, Compare
  <1>4. CASE Write(c)
    <2>1. "select" \in Pc \ {"idle"}
      BY DEF Pc
    <2> QED  BY <1>2, <1>4, <1>busy, <2>1 DEF Write
  <1>5. CASE Select(c)
    <2> DEFINE r == [call[c] EXCEPT !.pc = "notify", !.change = mState]
    <2>1. /\ r.pc = "notify" /\ r.operation = call[c].operation
          /\ r.crossed = call[c].crossed
      BY <1>type DEF CallType
    <2>2. call'[c] = r /\ \A d \in Caller \ {c} : call'[d] = call[d]
      BY <1>5, <1>type DEF Select
    <2>3. UNCHANGED <<mState, overlapped>> /\ ~Idle(c)'
      BY <1>5, <2>1, <2>2 DEF Select, Idle
    <2> HIDE DEF r
    <2> QED  BY <1>busy, <2>1, <2>2, <2>3
  <1>6. CASE Notify(c)
    <2> DEFINE position == call[c].told + 1
    <2>1. UNCHANGED mState /\ call[c].pc = "notify"
      BY <1>6 DEF Notify
    <2>2. CASE /\ call' = [call EXCEPT ![c].told = position]
               /\ UNCHANGED overlapped
      <3> DEFINE r == [call[c] EXCEPT !.told = position]
      <3>1. /\ r.pc = "notify" /\ r.operation = call[c].operation
            /\ r.crossed = call[c].crossed
        BY <1>type, <2>1 DEF CallType
      <3>2. call'[c] = r /\ \A d \in Caller \ {c} : call'[d] = call[d]
        BY <1>type, <2>2
      <3>3. ~Idle(c)'
        BY <3>1, <3>2 DEF Idle
      <3> HIDE DEF r
      <3> QED  BY <1>busy, <2>1, <2>2, <3>1, <3>2, <3>3
    <2>3. CASE Return(c) /\ overlapped' = (overlapped /\ ~Repairs(c))
      <3>1. Idle(c)' /\ \A d \in Caller \ {c} : call'[d] = call[d]
        BY <1>type, <2>3, ReturnIs DEF Idle
      <3>2. ~overlapped' => ~call[c].crossed
        BY <1>uncrossed, <2>3 DEF Repairs
      <3>3. c # "powerManagerTask" /\ ~overlapped' => ~overlapped
        BY <2>3 DEF Repairs
      <3>4. ~call[c].crossed => mState = LeadsTo(call[c].operation)
        BY <1>type, <2>1 DEF UncrossedCall
      <3> QED  BY <1>busy, <1>op, <2>1, <3>1, <3>2, <3>3, <3>4
    <2> QED  BY <1>6, <2>2, <2>3 DEF Notify
  <1> QED  BY <1>3, <1>4, <1>5, <1>6 DEF CallStep

-----------------------------------------------------------------------------
(* The activity task. *)

(* Each of its turns is a step of the state machine's specification or     *)
(* leaves it alone; only a timeout puts the keyboard to sleep, and a       *)
(* supply that arrives leaves it awake, in the demo or off.                *)
LEMMA ActivityTurn ==
    ASSUME PsmInv, LinkTypeOK, TimeoutDue,
           \/ ActivityReceivesSupply
           \/ ActivityReceivesRequest
           \/ ActivityDelayElapses
           \/ ActivityTimeout
    PROVE  /\ [Next]_psmVars
           /\ FallsAsleep => ActivityTimeout
           /\ psmState' \in Awake \ {"ACTIVE"} /\ psmState' # psmState =>
                  psmState \in Awake \/ ActivityReceivesSupply
           /\ ActivityReceivesSupply => psmState' \notin Asleep
  <1>1. CASE ActivityReceivesSupply
    <2>1. /\ Head(supplyQueue) \in ReportedSupply
          /\ updatePowerConnectionState(Head(supplyQueue))
      BY <1>1 DEF LinkTypeOK, ActivityReceivesSupply
    <2>2. psmState' \notin Asleep
      BY <2>1
      DEF updatePowerConnectionState, SuspendEvent, UserActivityEvent, Enter,
          Ignore, ReportedSupply, Asleep
    <2> QED  BY <1>1, <2>1, <2>2 DEF Next, FallsAsleep, Asleep
  <1>2. CASE ActivityReceivesRequest
    <2>1. Next
      BY <1>2 DEF ActivityReceivesRequest, Next
    <2>2. psmState' = psmState \/ psmState' \in {"ACTIVE", "DEMO", "OFF"}
      BY <1>2
      DEF ActivityReceivesRequest, userActivityDetected, startDemo, stopDemo,
          systemActivityDetected, powerOff, updateTimeouts, UserActivityEvent,
          SystemActivityEvent, DemoStartEvent, DemoStopEvent, PowerOffEvent,
          Enter, Ignore
    <2>3. ~ActivityReceivesSupply \/ psmState' \notin Asleep
      BY <1>1
    <2> QED  BY <2>1, <2>2, <2>3 DEF Asleep, Awake, FallsAsleep
  <1>3. CASE ActivityDelayElapses
    <2>1. UNCHANGED psmVars /\ psmState' = psmState
      BY <1>3 DEF ActivityDelayElapses, psmVars
    <2>2. ~ActivityReceivesSupply \/ psmState' \notin Asleep
      BY <1>1
    <2> QED  BY <2>1, <2>2 DEF FallsAsleep
  <1>4. CASE ActivityTimeout
    <2>1. Next
      BY <1>4 DEF TimeoutDue, ActivityTimeout, Next
    <2>2. psmState' \in Awake /\ psmState' # psmState => psmState \in Awake
      BY <1>4
      DEF ActivityTimeout, timeout, TimeoutEvent, Enter, Ignore, Awake
    <2>3. ~ActivityReceivesSupply \/ psmState' \notin Asleep
      BY <1>1
    <2> QED  BY <1>4, <2>1, <2>2, <2>3
  <1> QED  BY <1>1, <1>2, <1>3, <1>4

(* A callback is made when, and only when, the state changes; the           *)
(* connectivity state hears of those for ACTIVE and for the sleeps.         *)
LEMMA CallbackMade ==
    ASSUME PsmInv, PsmInv', Callbacks
    PROVE  \/ /\ UNCHANGED connectivityVars
              /\ psmState' = psmState \/ psmState' \notin Asleep \cup {"ACTIVE"}
           \/ /\ Call("activityTask", "active")
              /\ psmState' = "ACTIVE" /\ psmState' # psmState
           \/ /\ Call("activityTask", "sleep")
              /\ psmState' \in Asleep /\ psmState' # psmState
  <1>1. /\ m_previousNotifiedState = psmState
        /\ m_previousNotifiedState' = psmState'
        /\ psmState' # "DEMO" => listenerState' = CallbackOf(psmState')
        /\ psmState' \in StateId
    BY DEF PsmInv, ListenersInformed, TypeOK
  <1>2. CASE psmState' = psmState
    BY <1>1, <1>2 DEF Callbacks
  <1>3. CASE psmState' # psmState /\ psmState' \in Asleep \cup {"ACTIVE"}
    <2>1. /\ psmState' = "ACTIVE" => listenerState' = "active"
          /\ psmState' \in Asleep => listenerState' = "sleep"
      BY <1>1, <1>3 DEF CallbackOf, Asleep
    <2> QED
      BY <1>1, <1>3, <2>1 DEF Callbacks, PowerOperation, Asleep
  <1>4. CASE psmState' # psmState /\ psmState' \notin Asleep \cup {"ACTIVE"}
    <2>1. psmState' = "DEMO" \/ listenerState' \notin PowerOperation
      BY <1>1, <1>4 DEF CallbackOf, Asleep, PowerOperation, StateId
    <2> QED  BY <1>4, <2>1 DEF Callbacks
  <1> QED  BY <1>2, <1>3, <1>4

LEMMA ActivityTaskKeeps ==
    ASSUME LinkInv, ActivityTask
    PROVE  LinkInv' /\ [Next]_psmVars
  <1>turn. \/ ActivityReceivesSupply
           \/ ActivityReceivesRequest
           \/ ActivityDelayElapses
           \/ ActivityTimeout
    BY DEF ActivityTask
  <1>task. /\ Idle("activityTask") /\ Callbacks /\ psmState # "OFF"
           /\ UNCHANGED <<supply, pmStep, supplyLost>>
           /\ activityPc' \in {"receive", "timeout"}
    BY DEF ActivityTask, pmTaskVars, queueVars, ActivityReceivesSupply,
           ActivityReceivesRequest, ActivityDelayElapses, ActivityTimeout,
           LinkInv, LinkTypeOK
  <1>crossed. /\ FallsAsleep /\ HalfTold => sleepCrossed'
              /\ ~(FallsAsleep /\ HalfTold) =>
                     (sleepCrossed' <=> sleepCrossed /\ psmState' # "ACTIVE")
              /\ sleepCrossed' \in BOOLEAN
              /\ sleepCrossed' => psmState' # "ACTIVE"
    BY DEF ActivityTask, FallsAsleep
  <1>callers. /\ "powerManagerTask" \in Caller \ {"activityTask"}
              /\ "activityTask" \in Caller
              /\ {"active", "sleep"} \subseteq Operation
    BY DEF Caller, Operation, PowerOperation
  <1>psm. /\ [Next]_psmVars /\ PsmInv'
          /\ FallsAsleep => ActivityTimeout
          /\ psmState' \in Awake \ {"ACTIVE"} /\ psmState' # psmState =>
                 psmState \in Awake \/ ActivityReceivesSupply
          /\ ActivityReceivesSupply => psmState' \notin Asleep
    BY <1>turn, ActivityTurn, PsmInvStep DEF LinkInv
  <1>queue. /\ ActivityReceivesSupply => supplyQueue # << >>
            /\ ~ActivityReceivesSupply => supplyQueue' = supplyQueue
            /\ ActivityTimeout => supplyQueue' = supplyQueue
    BY <1>turn
    DEF ActivityReceivesSupply, ActivityReceivesRequest, ActivityDelayElapses,
        ActivityTimeout, queueVars
  <1>type. LinkTypeOK'
    <2>1. supplyQueue' \in Seq(ReportedSupply)
      BY <1>queue DEF LinkInv, LinkTypeOK, ActivityReceivesSupply
    <2> QED  BY <1>task, <1>crossed, <2>1 DEF LinkInv, LinkTypeOK
  <1>due. TimeoutDue' /\ NotActiveSince'
    <2>1. TimeoutDue'
      <3>1. CASE ActivityDelayElapses
        BY <1>task, <3>1 DEF ActivityDelayElapses, psmVars, TimeoutDue
      <3>2. CASE ~ActivityDelayElapses
        <4>1. activityPc' = "receive"
          BY <1>turn, <3>2
          DEF ActivityReceivesSupply, ActivityReceivesRequest, ActivityTimeout
        <4> QED  BY <4>1 DEF TimeoutDue
      <3> QED  BY <3>1, <3>2
    <2> QED  BY <1>crossed, <2>1 DEF NotActiveSince
  <1>called. \/ /\ UNCHANGED connectivityVars
                /\ \/ psmState' = psmState
                   \/ psmState' \notin Asleep \cup {"ACTIVE"}
             \/ /\ Call("activityTask", "active")
                /\ psmState' = "ACTIVE"
             \/ /\ Call("activityTask", "sleep")
                /\ psmState' \in Asleep /\ FallsAsleep
    BY <1>psm, <1>task, CallbackMade DEF LinkInv, FallsAsleep, Asleep
  <1>1. CASE UNCHANGED connectivityVars
    <2>1. UNCHANGED <<mState, call, told, overlapped>>
      BY <1>1 DEF connectivityVars
    <2>2. ConnectivityInv'
      BY <2>1
      DEF LinkInv, ConnectivityInv, ConnectivityTypeOK, CrossingsKnown, Idle,
          NoneToldEarly, UncrossedCall, UncrossedNotice, ListenersFollow
    <2>3. \/ psmState' = psmState
          \/ psmState' \notin Asleep \cup {"ACTIVE"}
      BY <1>called, <1>callers, <1>task, <2>1, CallKeeps DEF LinkInv, Idle
    <2>4. OperationsKnown' /\ UsbFits'
      BY <1>task, <2>1
      DEF LinkInv, OperationsKnown, UsbFits, SupplyTold, Idle
    <2>5. AwakeForSupply'
      <3> SUFFICES ASSUME supplyQueue' = << >>, ~supplyLost',
                          \/ pmStep' = "notify"
                          \/ /\ ~Idle("powerManagerTask")'
                             /\ ~call'["powerManagerTask"].crossed,
                          psmState' \in Asleep
                   PROVE  sleepCrossed'
        BY DEF AwakeForSupply
      <3>1. /\ ~ActivityReceivesSupply /\ supplyQueue = << >>
            /\ psmState \in Asleep /\ psmState' = psmState
        BY <1>psm, <1>queue, <2>3
      <3>2. sleepCrossed
        BY <1>task, <2>1, <3>1 DEF LinkInv, AwakeForSupply, Idle
      <3> QED  BY <1>crossed, <3>1, <3>2 DEF Asleep
    <2>6. LinkFollows'
      <3> SUFFICES ASSUME SupplyTold', supply' \notin {"NONE", "PLUG_IN_PC"},
                          ~supplyLost', ~sleepCrossed'
                   PROVE  LinkFollows'
        BY DEF LinkFollows
      <3>0. ~sleepCrossed
        BY <1>crossed, <2>3 DEF LinkInv, NotActiveSince
      <3>1. SupplyTold /\ Idle("activityTask") /\ Idle("activityTask")'
        BY <1>task, <2>1 DEF SupplyTold, Idle
      <3>2. CASE supplyQueue = << >>
        <4>1. /\ psmState \in Awake => mState = "BLE"
              /\ psmState \in Asleep => mState = "NONE"
          BY <1>task, <3>0, <3>1, <3>2 DEF LinkInv, LinkFollows
        <4>2. supplyQueue' = << >> /\ ~ActivityReceivesSupply
          BY <1>queue, <3>2
        <4> QED
          BY <1>psm, <2>1, <2>3, <3>1, <4>1, <4>2 DEF LinkFollows
      <3>3. CASE supplyQueue # << >>
        <4>1. mState' = "BLE"
          BY <1>task, <2>1, <3>0, <3>1, <3>3 DEF LinkInv, LinkFollows
        <4>2. supplyQueue' = << >> => psmState' \notin Asleep
          BY <1>psm, <1>queue, <3>3
        <4> QED  BY <3>1, <4>1, <4>2 DEF LinkFollows
      <3> QED  BY <3>2, <3>3
    <2> QED
      BY <1>psm, <1>type, <1>due, <2>2, <2>4, <2>5, <2>6 DEF LinkInv
  <1>2. ASSUME NEW operation \in {"active", "sleep"},
               Call("activityTask", operation),
               operation = "active" => psmState' = "ACTIVE",
               operation = "sleep" => psmState' \in Asleep /\ FallsAsleep
        PROVE  LinkInv'
    <2>1. /\ ConnectivityInv'
          /\ ~Idle("activityTask")'
          /\ call'["activityTask"].operation = operation
          /\ Idle("powerManagerTask")' <=> Idle("powerManagerTask")
          /\ call'["powerManagerTask"].operation =
                 call["powerManagerTask"].operation
          /\ ~Idle("powerManagerTask") => call'["powerManagerTask"].crossed
      BY <1>2, <1>callers, CallKeeps DEF LinkInv, Idle
    <2>2. UNCHANGED mState /\ (overlapped => overlapped')
      BY <1>2 DEF Call
    <2>3. OperationsKnown'
      BY <1>2, <1>task, <2>1 DEF LinkInv, OperationsKnown
    <2>4. SupplyTold' => SupplyTold
      BY <1>task, <2>1, <2>2 DEF SupplyTold
    <2>5. UsbFits'
      BY <1>task, <2>2, <2>4 DEF LinkInv, UsbFits
    <2>half. FallsAsleep => supplyQueue' = supplyQueue
      BY <1>psm, <1>queue
    <2>6. AwakeForSupply'
      <3> SUFFICES ASSUME supplyQueue' = << >>, pmStep' = "notify",
                          psmState' \in Asleep
                   PROVE  sleepCrossed'
        BY <1>task, <2>1 DEF AwakeForSupply
      <3>1. FallsAsleep
        BY <1>2 DEF Asleep
      <3> QED  BY <1>task, <1>crossed, <2>half, <3>1 DEF HalfTold
    <2>7. LinkFollows'
      <3> SUFFICES ASSUME SupplyTold', ~sleepCrossed', supplyQueue' # << >>
                   PROVE  operation = "active"
        BY <2>1 DEF LinkFollows
      <3>1. pmStep = "receive"
        BY <1>task DEF SupplyTold
      <3> QED  BY <1>2, <1>crossed, <2>half, <3>1 DEF HalfTold
    <2> QED
      BY <1>psm, <1>type, <1>due, <2>1, <2>3, <2>5, <2>6, <2>7 DEF LinkInv
  <1> QED  BY <1>psm, <1>called, <1>1, <1>2

-----------------------------------------------------------------------------
(* The power manager task, and the operations of both. *)

LEMMA PowerManagerKeeps ==
    ASSUME LinkInv, updateUSBPowerState \/ ForwardSupply \/ notifyUsbObserver
    PROVE  LinkInv' /\ UNCHANGED psmVars
  <1>same. UNCHANGED <<psmVars, activityPc>>
    BY DEF updateUSBPowerState, ForwardSupply, notifyUsbObserver, activityVars
  <1>crossed. /\ sleepCrossed' => sleepCrossed
              /\ sleepCrossed' \in BOOLEAN
              /\ updateUSBPowerState \/ sleepCrossed' = sleepCrossed
    <2>1. CASE updateUSBPowerState
      BY <2>1 DEF updateUSBPowerState
    <2>2. CASE ForwardSupply \/ notifyUsbObserver
      <3>1. sleepCrossed' = sleepCrossed
        BY <2>2 DEF ForwardSupply, notifyUsbObserver
      <3> QED  BY <3>1 DEF LinkInv, LinkTypeOK
    <2> QED  BY <2>1, <2>2
  <1>due. TimeoutDue' /\ NotActiveSince'
    BY <1>same, <1>crossed
    DEF LinkInv, TimeoutDue, NotActiveSince, psmVars
  <1>psm. PsmInv'
    BY <1>same, PsmInvStep DEF LinkInv
  <1>1. CASE updateUSBPowerState \/ ForwardSupply
    <2>1. UNCHANGED <<mState, call, told, overlapped>>
      BY <1>1 DEF connectivityVars, updateUSBPowerState, ForwardSupply
    <2>2. ConnectivityInv'
      BY <2>1
      DEF LinkInv, ConnectivityInv, ConnectivityTypeOK, CrossingsKnown, Idle,
          NoneToldEarly, UncrossedCall, UncrossedNotice, ListenersFollow
    <2>3. /\ Idle("powerManagerTask") /\ Idle("powerManagerTask")'
          /\ pmStep' \in {"forward", "notify"}
      BY <1>1, <2>1
      DEF LinkInv, OperationsKnown, updateUSBPowerState, ForwardSupply, Idle
    <2>4. LinkTypeOK'
      <3>1. CASE updateUSBPowerState
        BY <3>1
        DEF updateUSBPowerState, LinkInv, LinkTypeOK, ReportedSupply, queueVars,
            activityVars
      <3>2. CASE ForwardSupply
        <4>1. supply \in ReportedSupply /\ supplyLost' \in BOOLEAN
          BY <3>2 DEF ForwardSupply, LinkInv, LinkTypeOK, ReportedSupply
        <4>2. supplyQueue' \in Seq(ReportedSupply)
          BY <3>2, <4>1 DEF ForwardSupply, LinkInv, LinkTypeOK
        <4> QED
          BY <3>2, <4>1, <4>2
          DEF ForwardSupply, LinkInv, LinkTypeOK, ReportedSupply, activityVars
      <3> QED  BY <1>1, <3>1, <3>2
    <2>5. OperationsKnown' /\ UsbFits' /\ LinkFollows'
      BY <1>same, <2>1, <2>3
      DEF LinkInv, OperationsKnown, UsbFits, LinkFollows, SupplyTold, Idle,
          psmVars
    <2>6. AwakeForSupply'
      <3>1. CASE updateUSBPowerState
        BY <2>3, <3>1 DEF updateUSBPowerState, AwakeForSupply
      <3>2. CASE ForwardSupply
        <4>1. ~supplyLost' => supplyQueue' # << >>
          <5> SUFFICES ASSUME ~supplyLost' PROVE supplyQueue' # << >>
            OBVIOUS
          <5>1. ~(Len(supplyQueue) >= SupplyQueueLen)
            BY <3>2, Zenon DEF ForwardSupply
          <5>2. supplyQueue' = Append(supplyQueue, supply)
            BY <3>2, <5>1 DEF ForwardSupply
          <5> QED  BY <5>2 DEF LinkInv, LinkTypeOK
        <4> QED  BY <4>1 DEF AwakeForSupply
      <3> QED  BY <1>1, <3>1, <3>2
    <2> QED  BY <1>same, <1>psm, <1>due, <2>2, <2>4, <2>5, <2>6 DEF LinkInv
  <1>2. CASE notifyUsbObserver
    <2>1. /\ pmStep = "notify" /\ pmStep' = "receive"
          /\ Call("powerManagerTask", OperationOf(supply))
          /\ UNCHANGED <<supply, supplyQueue, supplyLost>>
      BY <1>2 DEF notifyUsbObserver, queueVars
    <2>2. /\ OperationOf(supply) \in Operation
          /\ "powerManagerTask" \in Caller
          /\ "activityTask" \in Caller \ {"powerManagerTask"}
      BY DEF OperationOf, Operation, SupplyOperation, Caller
    <2>3. /\ ConnectivityInv'
          /\ ~Idle("powerManagerTask")'
          /\ call'["powerManagerTask"].operation = OperationOf(supply)
          /\ Idle("activityTask")' <=> Idle("activityTask")
          /\ call'["activityTask"].operation = call["activityTask"].operation
      BY <2>1, <2>2, CallKeeps DEF LinkInv, Idle
    <2>4. LinkTypeOK'
      BY <1>same, <1>crossed, <2>1 DEF LinkInv, LinkTypeOK
    <2>5. OperationsKnown' /\ UsbFits' /\ LinkFollows'
      BY <1>same, <2>1, <2>3
      DEF LinkInv, LinkTypeOK, OperationsKnown, UsbFits, LinkFollows,
          SupplyTold, psmVars
    <2>6. AwakeForSupply'
      <3>1. sleepCrossed' = sleepCrossed
        BY <1>2 DEF notifyUsbObserver
      <3> QED  BY <1>same, <2>1, <3>1 DEF LinkInv, AwakeForSupply, psmVars
    <2> QED  BY <1>same, <1>psm, <1>due, <2>3, <2>4, <2>5, <2>6 DEF LinkInv
  <1> QED  BY <1>1, <1>2

(* Where the operations lead, and which state they do nothing in. *)
LEMMA Operations ==
    /\ LeavesFrom("active") = {"NONE"} /\ LeadsTo("active") = "BLE"
    /\ LeavesFrom("sleep") = {"BLE"} /\ LeadsTo("sleep") = "NONE"
    /\ \A c \in ReportedSupply :
           /\ LeadsTo(OperationOf(c)) =
                  IF c = "PLUG_IN_PC" THEN "USB" ELSE "BLE"
           /\ \A link \in ConnectivityStateValue :
                  link \notin LeavesFrom(OperationOf(c)) =>
                      link = LeadsTo(OperationOf(c))
  BY DEF LeavesFrom, LeadsTo, OperationOf, ReportedSupply,
         USB_POWER_CONNECTION_STATE, ConnectivityStateValue

LEMMA ConnectivityStepKeeps ==
    ASSUME LinkInv, NEW c \in Caller, ConnectivityStep(c)
    PROVE  LinkInv' /\ UNCHANGED psmVars
  <1>same. /\ UNCHANGED psmVars /\ UNCHANGED psmState
           /\ UNCHANGED <<supply, pmStep, supplyQueue, supplyLost>>
           /\ UNCHANGED <<activityPc, sleepCrossed>>
    BY DEF ConnectivityStep, psmVars, pmTaskVars, queueVars, activityVars
  <1>keeps. PsmInv' /\ LinkTypeOK' /\ ConnectivityInv'
    BY <1>same, PsmInvStep, CallStepKeeps
    DEF ConnectivityStep, LinkInv, LinkTypeOK
  <1>due. TimeoutDue' /\ NotActiveSince'
    BY <1>same DEF LinkInv, TimeoutDue, NotActiveSince, psmVars
  <1>moves. /\ ~Idle(c)
            /\ \A d \in Caller \ {c} : call'[d] = call[d]
            /\ ~Idle(c)' => /\ call'[c].operation = call[c].operation
                            /\ call'[c].crossed = call[c].crossed
                            /\ overlapped' = overlapped
            /\ mState' # mState => /\ mState' = LeadsTo(call[c].operation)
                                   /\ call[c].pc = "write" /\ ~Idle(c)'
            /\ c # "powerManagerTask" /\ ~overlapped' => ~overlapped
            /\ Idle(c)' /\ ~overlapped' =>
                   /\ ~call[c].crossed
                   /\ mState \notin LeavesFrom(call[c].operation)
    BY CallStepMoves DEF ConnectivityStep, LinkInv
  <1>link. mState \in ConnectivityStateValue
    BY DEF LinkInv, ConnectivityInv, ConnectivityTypeOK
  <1>known. OperationsKnown'
    BY <1>same, <1>moves DEF LinkInv, OperationsKnown, Idle, Caller
  <1>1. CASE c = "powerManagerTask"
    <2>1. /\ "activityTask" \in Caller \ {c}
          /\ call'["activityTask"] = call["activityTask"]
      BY <1>1, <1>moves DEF Caller
    <2>2. /\ supply \in ReportedSupply /\ pmStep = "receive"
          /\ call[c].operation = OperationOf(supply)
      BY <1>1, <1>moves DEF LinkInv, OperationsKnown, LinkTypeOK, ReportedSupply
    <2>3. AwakeForSupply'
      BY <1>1, <1>same, <1>moves, <2>2 DEF LinkInv, AwakeForSupply
    <2>4. SupplyTold' =>
              /\ mState' = LeadsTo(OperationOf(supply))
              /\ Idle("activityTask") /\ Idle("activityTask")'
              /\ ~call[c].crossed
      <3> SUFFICES ASSUME SupplyTold'
                   PROVE  /\ mState' = LeadsTo(OperationOf(supply))
                          /\ Idle("activityTask") /\ Idle("activityTask")'
                          /\ ~call[c].crossed
        OBVIOUS
      <3>1. Idle(c)' /\ ~overlapped'
        BY <1>1 DEF SupplyTold
      <3>2. /\ ~call[c].crossed /\ mState' = mState
            /\ mState \notin LeavesFrom(OperationOf(supply))
        BY <1>moves, <2>2, <3>1
      <3>3. Idle("activityTask") /\ Idle("activityTask")'
        BY <1>moves, <2>1, <3>2, UncrossedIsAlone
        DEF LinkInv, ConnectivityInv, Idle
      <3> QED  BY <1>link, <2>2, <3>2, <3>3, Operations
    <2>5. UsbFits'
      BY <1>same, <2>2, <2>4, Operations DEF UsbFits
    <2>6. LinkFollows'
      <3> SUFFICES ASSUME SupplyTold', supply \notin {"NONE", "PLUG_IN_PC"},
                          ~supplyLost, ~sleepCrossed
                   PROVE  LinkFollows'
        BY <1>same DEF LinkFollows
      <3>1. mState' = "BLE"
        BY <2>2, <2>4, Operations
      <3>2. supplyQueue = << >> => psmState \notin Asleep
        BY <1>1, <1>moves, <2>4 DEF LinkInv, AwakeForSupply
      <3> QED  BY <1>same, <2>4, <3>1, <3>2 DEF LinkFollows
    <2> QED
      BY <1>same, <1>keeps, <1>due, <1>known, <2>3, <2>5, <2>6 DEF LinkInv
  <1>2. CASE c = "activityTask"
    <2>1. call'["powerManagerTask"] = call["powerManagerTask"]
      BY <1>2, <1>moves DEF Caller
    <2>2. SupplyTold' => SupplyTold /\ ~call[c].crossed
      BY <1>2, <1>same, <1>moves, <2>1
      DEF SupplyTold, Idle, LinkInv, ConnectivityInv, CrossingsKnown
    <2>3. AwakeForSupply'
      BY <1>same, <2>1 DEF LinkInv, AwakeForSupply, Idle
    <2>4. \/ call[c].operation = "active" /\ psmState = "ACTIVE"
          \/ call[c].operation = "sleep" /\ psmState \in Asleep
      BY <1>2, <1>moves DEF LinkInv, OperationsKnown
    <2>5. ~call[c].crossed /\ mState' # mState =>
              /\ mState \in LeavesFrom(call[c].operation)
              /\ mState' = LeadsTo(call[c].operation)
      BY <1>moves DEF LinkInv, ConnectivityInv, UncrossedCall
    <2>6. UsbFits'
      BY <1>same, <2>2, <2>4, <2>5, Operations DEF LinkInv, UsbFits
    <2>7. LinkFollows'
      <3> SUFFICES ASSUME SupplyTold', supply \notin {"NONE", "PLUG_IN_PC"},
                          ~supplyLost, ~sleepCrossed
                   PROVE  LinkFollows'
        BY <1>same DEF LinkFollows
      <3>1. mState # "USB" /\ SupplyTold
        BY <2>2 DEF LinkInv, UsbFits
      <3>2. CASE supplyQueue = << >>
        <4> SUFFICES ASSUME Idle("activityTask")'
                     PROVE  /\ psmState' \in Awake => mState' = "BLE"
                            /\ psmState' \in Asleep => mState' = "NONE"
          BY <1>same, <3>2 DEF LinkFollows
        <4>1. /\ mState' = mState
              /\ mState \notin LeavesFrom(call[c].operation)
          BY <1>2, <1>moves DEF SupplyTold
        <4> QED
          BY <1>same, <1>link, <2>4, <3>1, <4>1, Operations
          DEF ConnectivityStateValue, Awake, Asleep
      <3>3. CASE supplyQueue # << >>
        <4>1. call[c].operation = "active"
          BY <1>2, <1>moves, <3>1, <3>3 DEF LinkInv, LinkFollows
        <4>2. Idle(c)' => mState' = "BLE"
          <5> SUFFICES ASSUME Idle(c)' PROVE mState' = "BLE"
            OBVIOUS
          <5>1. mState' = mState /\ mState \notin LeavesFrom("active")
            BY <1>2, <1>moves, <4>1 DEF SupplyTold
          <5> QED
            BY <1>link, <3>1, <5>1, Operations DEF ConnectivityStateValue
        <4> QED
          BY <1>2, <1>same, <1>moves, <3>3, <4>1, <4>2 DEF LinkFollows
      <3> QED  BY <3>2, <3>3
    <2> QED
      BY <1>same, <1>keeps, <1>due, <1>known, <2>3, <2>6, <2>7 DEF LinkInv
  <1> QED  BY <1>1, <1>2 DEF Caller

-----------------------------------------------------------------------------

LEMMA LinkInvInit == LinkInit => LinkInv
  <1> SUFFICES ASSUME LinkInit PROVE LinkInv
    OBVIOUS
  <1>1. PsmInv
    BY PsmInvInit DEF LinkInit
  <1>2. \A c \in Caller : call[c] = NoCall /\ Idle(c)
    BY DEF LinkInit, ConnectivityInit, NoCall, Idle
  <1>3. ConnectivityTypeOK
    <2>1. NoCall \in CallType
      BY DEF NoCall, CallType, Pc, Operation, PowerOperation,
             ConnectivityStateValue
    <2>2. overlapped \in BOOLEAN
      BY DEF LinkInit, ConnectivityInit
    <2> QED
      BY <2>1, <2>2
      DEF LinkInit, ConnectivityInit, ConnectivityTypeOK,
          ConnectivityStateValue
  <1>4. ConnectivityInv
    BY <1>2, <1>3
    DEF LinkInit, ConnectivityInit, ConnectivityInv, CrossingsKnown, NoCall,
        NoneToldEarly, UncrossedCall, UncrossedNotice, ListenersFollow
  <1>5. LinkTypeOK
    <2>1. /\ supplyLost \in BOOLEAN /\ sleepCrossed \in BOOLEAN
          /\ activityPc = "receive"
      BY DEF LinkInit
    <2>2. << >> \in Seq(ReportedSupply)
      OBVIOUS
    <2> QED
      BY <2>1, <2>2 DEF LinkInit, LinkTypeOK, USB_POWER_CONNECTION_STATE
  <1>6. TimeoutDue /\ NotActiveSince
    BY DEF LinkInit, TimeoutDue, NotActiveSince
  <1>7. OperationsKnown /\ UsbFits /\ AwakeForSupply /\ LinkFollows
    BY <1>2
    DEF LinkInit, ConnectivityInit, Init, OperationsKnown, UsbFits,
        AwakeForSupply, LinkFollows, Asleep, Caller
  <1> QED  BY <1>1, <1>4, <1>5, <1>6, <1>7 DEF LinkInv

(* Every step keeps the invariant, and is one of the state machine's.      *)
LEMMA LinkStep ==
    ASSUME LinkInv, [LinkNext]_vars
    PROVE  LinkInv' /\ [Next]_psmVars
  <1>1. ASSUME NEW c \in Caller, ConnectivityStep(c)
        PROVE  LinkInv' /\ [Next]_psmVars
    BY <1>1, ConnectivityStepKeeps
  <1>2. CASE updateUSBPowerState \/ ForwardSupply \/ notifyUsbObserver
    BY <1>2, PowerManagerKeeps
  <1>3. CASE ActivityTask
    BY <1>3, ActivityTaskKeeps
  <1>4. CASE UNCHANGED vars
    <2>1. /\ UNCHANGED psmVars /\ UNCHANGED psmState
          /\ UNCHANGED <<mState, call, told, overlapped>>
          /\ UNCHANGED mCurrentTimeout
          /\ UNCHANGED <<supply, pmStep, supplyQueue, supplyLost>>
          /\ UNCHANGED <<activityPc, sleepCrossed>>
      BY <1>4
      DEF vars, psmVars, connectivityVars, pmTaskVars, queueVars, activityVars
    <2>2. PsmInv'
      BY <2>1, PsmInvStep DEF LinkInv
    <2>3. ConnectivityInv'
      BY <2>1
      DEF LinkInv, ConnectivityInv, ConnectivityTypeOK, CrossingsKnown, Idle,
          NoneToldEarly, UncrossedCall, UncrossedNotice, ListenersFollow
    <2> QED
      BY <2>1, <2>2, <2>3
      DEF LinkInv, LinkTypeOK, OperationsKnown, UsbFits, AwakeForSupply,
          LinkFollows, SupplyTold, Idle, TimeoutDue, NotActiveSince
  <1> QED
    BY <1>1, <1>2, <1>3, <1>4 DEF LinkNext, PowerManagerTask, Caller

-----------------------------------------------------------------------------

(* Once nobody is inside an operation, every listener is on the link in    *)
(* force, however the two tasks interleaved, unless two operations met     *)
(* since the last supply told alone.                                       *)
THEOREM ListenersOnLinkCorrect == LinkSpec => []ListenersOnLink
  <1>1. LinkInit => LinkInv
    BY LinkInvInit
  <1>2. LinkInv /\ [LinkNext]_vars => LinkInv'
    BY LinkStep
  <1>3. LinkInv => ListenersOnLink
    BY DEF LinkInv, ConnectivityInv, ListenersFollow, ListenersOnLink, Idle
  <1> QED  BY <1>1, <1>2, <1>3, PTL DEF LinkSpec

(* Once both tasks have done their work the link is the one the supply and *)
(* the state of the keyboard call for, with a queue of any length, unless  *)
(* two operations met, the activity task missed the supply or a timeout    *)
(* put the keyboard to sleep with the change of supply half told.          *)
THEOREM LinkFitsCorrect == LinkSpec => []LinkFits
  <1>1. LinkInit => LinkInv
    BY LinkInvInit
  <1>2. LinkInv /\ [LinkNext]_vars => LinkInv'
    BY LinkStep
  <1>3. LinkInv => LinkFits
    <2> SUFFICES ASSUME LinkInv, Settled, ~overlapped PROVE LinkFits
      BY DEF LinkFits
    <2>1. SupplyTold /\ supplyQueue = << >> /\ Idle("activityTask")
      BY DEF Settled, SupplyTold, Caller
    <2> QED
      BY <2>1 DEF LinkInv, UsbFits, LinkFollows, LinkFits, Awake, Asleep
  <1> QED  BY <1>1, <1>2, <1>3, PTL DEF LinkSpec

(* The two tasks drive the power state machine only in ways its            *)
(* specification allows: what is proved of it holds here too.              *)
THEOREM LinkImplementsPowerStateMachine == LinkSpec => Spec
  <1>1. LinkInit => LinkInv /\ Init
    BY LinkInvInit DEF LinkInit
  <1>2. LinkInv /\ [LinkNext]_vars => LinkInv' /\ [Next]_psmVars
    BY LinkStep
  <1> QED  BY <1>1, <1>2, PTL DEF LinkSpec, Spec

=============================================================================
