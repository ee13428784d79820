-------------------------- MODULE NrfCommunication --------------------------
(***************************************************************************)
(* The way to the BLE chip (Libraries/BLE): tasks give events to the state *)
(* machine of BleChip under its mutex, which orders commands; a command    *)
(* takes a packet from a pool and waits in the queue of the communication  *)
(* task; that task exchanges frames with the chip over SPI and hands the   *)
(* chip's events to the same state machine, under the same mutex.          *)
(*                                                                         *)
(*   power task, client --receive()--> BleChip --orders--> mQueue          *)
(*                                        ^                  |             *)
(*                                        | events           v             *)
(*                        nRF chip <----- communication task (SPI)         *)
(***************************************************************************)
EXTENDS BleChip, Naturals, FiniteSets, SequencesExt

CONSTANTS
    Packets,        \* the slots of mCmdPacketPool (5 in the code)
    QueueLen,       \* messages mQueue holds (15)
    Configuration,  \* the commands of doConfigure, in their order
    MaxFrames,      \* bound: frames the chip may have to send
    Faults,         \* what may go wrong, see below
    NoPacket

(***************************************************************************)
(*   "restart"  the chip restarts by itself                                *)
(*   "loss"     an SPI transfer fails: its command or its frame is lost    *)
(*   "hurry"    tasks order more than the pool of packets can hold         *)
(*   "late"     the chip starts later than the keyboard's start waits      *)
(*                                                                         *)
(* The commands of doConfigure are none of the other orders.               *)
(***************************************************************************)
ASSUME NrfAssumption ==
    /\ QueueLen \in Nat \ {0}
    /\ MaxFrames \in Nat \ {0}
    /\ Faults \subseteq {"restart", "loss", "hurry", "late"}
    /\ Configuration \in
         Seq(STRING \ {"INIT", "POWEROFF", "FORCEDFU", "none", "data",
                       "advertisingOn", "advertisingOff", "startDfu"})
    /\ NoPacket \notin Packets

VARIABLES
    fsm,        \* the leaf state of the state machine
    mutex,      \* the task that holds Hfsm's mutex, or NoTask
    todo,       \* the orders its handler still has to give
    waiting,    \* it waits for mPowerOffDoneSignal
    power,      \* the main task, then the power manager: how far BLE is driven
    mQueue,     \* messages for the communication task
    free,       \* the packets in the pool
    sending,    \* the packet the communication task is sending, or NoPacket
    frame,      \* the event it has parsed and must hand on, or NoEvent
    chip,       \* the nRF chip: its mode and the commands that configured it
    frames      \* events the chip has for the keyboard

fsmVars == <<fsm, mutex, todo>>
chipVars == <<chip, frames>>
vars == <<fsmVars, waiting, power, mQueue, free, sending, frame, chipVars>>

NoTask == "none"
NoEvent == "none"
ChipEvents == {"started", "enteredDfu", "advertisingStarted", "advertisingStopped",
               "connected", "disconnected"}
Signals == {"INIT", "POWEROFF", "FORCEDFU"}
Commands == {"data", "advertisingOn", "advertisingOff", "startDfu"} \cup Range(Configuration)

(* A message of the queue; only SEND_COMMAND carries a packet. *)
Signal(id) == [msgId |-> id, packet |-> NoPacket, command |-> "none"]
SendCommand(packet, command) ==
    [msgId |-> "SEND_COMMAND", packet |-> packet, command |-> command]

-----------------------------------------------------------------------------
(* Giving an order: a message for the communication task.  A full queue is  *)
(* given up after 10 ticks, an exhausted pool at once; both only log it.    *)

HasRoom == Len(mQueue) < QueueLen

postSignal(id) ==
    /\ mQueue' = IF HasRoom THEN Append(mQueue, Signal(id)) ELSE mQueue
    /\ UNCHANGED free

\* fault: the packet of a command that the queue refuses is not given back
sendCommand_KeepsPacket(command) ==
    \/ /\ free = {}
       /\ UNCHANGED <<mQueue, free>>
    \/ /\ HasRoom
       /\ \E packet \in free :
            /\ mQueue' = Append(mQueue, SendCommand(packet, command))
            /\ free' = free \ {packet}
    \/ /\ ~HasRoom
       /\ \E packet \in free : free' = free \ {packet}
       /\ UNCHANGED mQueue

sendCommand(command) ==
    \/ /\ free = {}
       /\ UNCHANGED <<mQueue, free>>
    \/ /\ HasRoom
       /\ free # {}
       /\ LET packet == CHOOSE p \in free : TRUE
          IN /\ mQueue' = Append(mQueue, SendCommand(packet, command))
             /\ free' = free \ {packet}
    \/ /\ ~HasRoom
       /\ free # {}
       /\ UNCHANGED <<mQueue, free>>

-----------------------------------------------------------------------------
(* Hfsm::receive: the handler runs under the mutex, and so do its orders.  *)

receive(task, event) ==
    LET orders == Orders(fsm, event, Configuration)
    IN /\ mutex = NoTask
       /\ fsm' = Target(fsm, event)
       /\ todo' = orders
       /\ mutex' = IF orders = <<>> THEN NoTask ELSE task

GiveOrder ==
    /\ todo # <<>>
    /\ ~waiting
    /\ LET order == Head(todo)
       IN /\ IF order \in Signals THEN postSignal(order) ELSE sendCommand(order)
          /\ waiting' = (order = "POWEROFF" /\ HasRoom)
    /\ todo' = Tail(todo)
    /\ mutex' = IF Tail(todo) = <<>> /\ ~waiting' THEN NoTask ELSE mutex
    /\ UNCHANGED <<fsm, power, sending, frame, chipVars>>

(* Assumption without the fault "hurry": a task starts only when the pool   *)
(* holds its orders and the one the communication task may have to add.     *)
Unhurried(event) ==
    \/ "hurry" \in Faults
    \/ Cardinality(free) > Len(Orders(fsm, event, Configuration))

-----------------------------------------------------------------------------
(* The tasks that drive the state machine. *)

Task(task, event) ==
    /\ Unhurried(event)
    /\ receive(task, event)
    /\ UNCHANGED <<waiting, mQueue, free, sending, frame, chipVars>>

init ==
    /\ power = "init"
    /\ Task("power", "init")
    /\ power' = "configure"

\* SystemRuntime::start goes on when waitBleStarted gave up, too
configure ==
    /\ power = "configure"
    /\ fsm # "On" \/ "late" \in Faults
    /\ Task("power", "configure")
    /\ power' = "run"

\* BleActivationStrategy, from the connectivity state
activate ==
    /\ power = "run"
    /\ \E event \in {"enableBle", "disableBle"} : Task("power", event)
    /\ UNCHANGED power

powerOff ==
    /\ power = "run"
    /\ Task("power", "powerOff")
    /\ power' = "off"

\* HID reports, BLE serial, pairing, version commit, DFU data
clientCommand ==
    /\ \E event \in {"sendApplicationCommand", "sendBleCommand", "sendDfuCommand"} :
          /\ Orders(fsm, event, Configuration) # <<>>
          /\ Task("client", event)
    /\ UNCHANGED power

(* NRFFirmwareUpdate::initUpdate does not go through the state machine. *)
enterDfu ==
    /\ power = "run"
    /\ fsm \in Ready
    /\ "hurry" \in Faults \/ Cardinality(free) > 1
    /\ sendCommand("startDfu")
    /\ UNCHANGED <<fsmVars, waiting, power, sending, frame, chipVars>>

forceDfu ==
    /\ power = "run"
    /\ fsm \in Ready
    /\ \A i \in 1..Len(mQueue) : mQueue[i].msgId # "FORCEDFU"
    /\ postSignal("FORCEDFU")
    /\ UNCHANGED <<fsmVars, waiting, power, sending, frame, chipVars>>

-----------------------------------------------------------------------------
(* The nRF chip.  DATATOSSEND is posted by the interrupt of the line it     *)
(* raises when it gets something to send; the interrupt drops what does not *)
(* fit into the queue.                                                      *)

DataToSendIsr(queue, pending, answers) ==
    IF pending = <<>> /\ answers # <<>> /\ Len(queue) < QueueLen
    THEN Append(queue, Signal("DATATOSSEND"))
    ELSE queue

Chip(mode, configured) == [mode |-> mode, configured |-> configured]

Answers(mode, command) ==
    CASE command = "advertisingOn" /\ mode = "idle" -> <<"advertisingStarted">>
      [] command = "advertisingOff" /\ mode = "advertising" -> <<"advertisingStopped">>
      [] command = "advertisingOff" /\ mode = "connected" -> <<"disconnected">>
      [] command = "startDfu" /\ mode # "dfu" -> <<"enteredDfu">>
      [] OTHER -> <<>>

ModeAfter(mode, command) ==
    LET answers == Answers(mode, command)
    IN CASE answers = <<"advertisingStarted">> -> "advertising"
         [] answers = <<"enteredDfu">> -> "dfu"
         [] answers = <<>> -> mode
         [] OTHER -> "idle"

Executed(command) ==
    [mode |-> ModeAfter(chip.mode, command),
     configured |-> chip.configured \cup ({command} \cap Range(Configuration))]

ChipDoes(from, to, events) ==
    /\ chip.mode \in from
    /\ Len(frames) < MaxFrames
    /\ chip' = Chip(to, chip.configured)
    /\ frames' = frames \o events
    /\ mQueue' = DataToSendIsr(mQueue, frames, events)
    /\ UNCHANGED <<fsmVars, waiting, power, free, sending, frame>>

ChipStarts == ChipDoes({"booting"}, "idle", <<"started">>)
ChipConnects == ChipDoes({"advertising"}, "connected", <<"connected">>)
ChipDisconnects == ChipDoes({"connected"}, "idle", <<"disconnected">>)
ChipStopsAdvertising == ChipDoes({"advertising"}, "idle", <<"advertisingStopped">>)

\* by itself, and at the end of its update, whose data came through the queue
ChipRestarts ==
    /\ \/ chip.mode \in {"idle", "advertising", "connected"} /\ "restart" \in Faults
       \/ chip.mode = "dfu" /\ fsm = "Dfu" /\ mQueue = <<>>
    /\ chip' = Chip("booting", {})
    /\ frames' = <<>>
    /\ UNCHANGED <<fsmVars, waiting, power, mQueue, free, sending, frame>>

-----------------------------------------------------------------------------
(* The communication task. *)

Idle == sending = NoPacket /\ frame = NoEvent /\ mutex # "ble"

Receives(id) == Idle /\ mQueue # <<>> /\ Head(mQueue).msgId = id

\* execInit: a pulse on the reset line
execInit ==
    /\ Receives("INIT")
    /\ mQueue' = Tail(mQueue)
    /\ chip' = Chip("booting", {})
    /\ frames' = <<>>
    /\ UNCHANGED <<fsmVars, waiting, power, free, sending, frame>>

\* fault: the state machine is unlocked before its last orders are given
execPowerOff_Unlocks ==
    /\ Receives("POWEROFF")
    /\ mQueue' = Tail(mQueue)
    /\ chip' = Chip("reset", {})
    /\ frames' = <<>>
    /\ waiting' = FALSE
    /\ mutex' = NoTask
    /\ UNCHANGED <<fsm, todo, power, free, sending, frame>>

\* execPowerOff: the reset line stays low, and the order that waited returns
execPowerOff ==
    /\ Receives("POWEROFF")
    /\ mQueue' = Tail(mQueue)
    /\ chip' = Chip("reset", {})
    /\ frames' = <<>>
    /\ waiting' = FALSE
    /\ mutex' = IF todo = <<>> THEN NoTask ELSE mutex
    /\ UNCHANGED <<fsm, todo, power, free, sending, frame>>

\* execForceDfu: a chip that does not acknowledge starts as usual
execForceDfu ==
    /\ Receives("FORCEDFU")
    /\ \/ /\ chip' = Chip("dfu", {})
          /\ frames' = <<"enteredDfu">>
          /\ mQueue' = DataToSendIsr(Tail(mQueue), <<>>, <<"enteredDfu">>)
       \/ /\ "loss" \in Faults
          /\ chip' = Chip("booting", {})
          /\ frames' = <<>>
          /\ mQueue' = Tail(mQueue)
    /\ UNCHANGED <<fsmVars, waiting, power, free, sending, frame>>

\* spiTransmitReceive: while the command goes out a frame may come in
Exchange(command, pending) ==
    /\ chip.mode \notin {"reset", "booting"}
    /\ chip' = Executed(command)
    /\ frames' = pending \o Answers(chip.mode, command)
    /\ mQueue' = DataToSendIsr(Tail(mQueue), pending, Answers(chip.mode, command))

execSendCommand ==
    /\ Receives("SEND_COMMAND")
    /\ sending' = Head(mQueue).packet
    /\ \/ /\ Len(frames) < MaxFrames
          /\ Exchange(Head(mQueue).command, frames)
          /\ UNCHANGED frame
       \/ /\ frames # <<>>
          /\ Exchange(Head(mQueue).command, Tail(frames))
          /\ frame' = Head(frames)
       \/ /\ chip.mode \in {"reset", "booting"} \/ "loss" \in Faults
          /\ mQueue' = Tail(mQueue)
          /\ UNCHANGED <<frame, chipVars>>
    /\ UNCHANGED <<fsmVars, waiting, power, free>>

\* on DATATOSSEND, and on a timeout of the queue while the line is raised
spiReceive ==
    /\ \/ Receives("DATATOSSEND") /\ mQueue' = Tail(mQueue)
       \/ Idle /\ mQueue = <<>> /\ frames # <<>> /\ UNCHANGED mQueue
    /\ IF frames = <<>>
       THEN UNCHANGED <<frame, frames>>
       ELSE /\ frames' = Tail(frames)
            /\ frame' = Head(frames)
    /\ UNCHANGED <<fsmVars, waiting, power, free, sending, chip>>

\* the frame is torn, or the chip's protocol discards what it could not send
FrameLost ==
    /\ "loss" \in Faults
    /\ frames # <<>>
    /\ frames' = Tail(frames)
    /\ UNCHANGED <<fsmVars, waiting, power, mQueue, free, sending, frame, chip>>

\* notifyListener, BleChip::notification
notifyListener ==
    /\ frame # NoEvent
    /\ receive("ble", frame)
    /\ frame' = NoEvent
    /\ UNCHANGED <<waiting, power, mQueue, free, sending, chipVars>>

\* the end of execSendCommand
releasePacket ==
    /\ sending # NoPacket
    /\ frame = NoEvent
    /\ mutex # "ble"
    /\ free' = free \cup {sending}
    /\ sending' = NoPacket
    /\ UNCHANGED <<fsmVars, waiting, power, mQueue, frame, chipVars>>

-----------------------------------------------------------------------------
Init ==
    /\ fsm = "Off"
    /\ mutex = NoTask
    /\ todo = <<>>
    /\ waiting = FALSE
    /\ power = "init"
    /\ mQueue = <<>>
    /\ free = Packets
    /\ sending = NoPacket
    /\ frame = NoEvent
    /\ chip = Chip("reset", {})
    /\ frames = <<>>

(* The keyboard resets at the end of an update, wakes up after a shutdown,  *)
(* and is reset by the assertion of AutoLock: after 5 s, which only a task  *)
(* that waits for the one it keeps waiting can use up.  Until execInit has  *)
(* reset the chip nothing is read from it: Init has it in reset already.    *)
AutoLockTimeout == frame # NoEvent /\ waiting

Reset ==
    /\ \/ fsm = "Dfu" /\ mutex = NoTask
       \/ power = "off" /\ mutex = NoTask
       \/ AutoLockTimeout
    /\ fsm' = "Off"
    /\ mutex' = NoTask
    /\ todo' = <<>>
    /\ waiting' = FALSE
    /\ power' = "init"
    /\ mQueue' = <<>>
    /\ free' = Packets
    /\ sending' = NoPacket
    /\ frame' = NoEvent
    /\ chip' = Chip("reset", {})
    /\ frames' = <<>>

CommunicationTask ==
    \/ execInit \/ execPowerOff \/ execForceDfu \/ execSendCommand
    \/ spiReceive \/ notifyListener \/ releasePacket

ChipTakesPart ==
    ChipStarts \/ ChipConnects \/ ChipDisconnects \/ ChipStopsAdvertising
    \/ ChipRestarts \/ FrameLost

Next ==
    \/ init \/ configure \/ activate \/ powerOff
    \/ clientCommand \/ enterDfu \/ forceDfu
    \/ GiveOrder
    \/ CommunicationTask
    \/ ChipTakesPart
    \/ Reset

Spec == Init /\ [][Next]_vars

(* The scheduler runs every task that can run, a chip that was reset        *)
(* starts, and one that has a frame to send puts it into some transfer,     *)
(* even if commands keep the task busy.  What tasks ask for, and what the   *)
(* hosts do, may never happen.                                              *)
FairSpec ==
    /\ Spec
    /\ WF_vars(GiveOrder)
    /\ WF_vars(CommunicationTask)
    /\ SF_vars(CommunicationTask /\ frame' \notin {frame, NoEvent})
    /\ WF_vars(ChipStarts)

-----------------------------------------------------------------------------
Modes == {"reset", "booting", "idle", "advertising", "connected", "dfu"}

Message ==
    [msgId : Signals \cup {"DATATOSSEND"}, packet : {NoPacket}, command : {"none"}]
      \cup [msgId : {"SEND_COMMAND"}, packet : Packets, command : Commands]

TypeOK ==
    /\ fsm \in States
    /\ mutex \in {NoTask, "power", "client", "ble"}
    /\ todo \in Seq(Signals \cup Commands)
    /\ waiting \in BOOLEAN
    /\ power \in {"init", "configure", "run", "off"}
    /\ mQueue \in Seq(Message) /\ Len(mQueue) <= QueueLen
    /\ free \subseteq Packets
    /\ sending \in Packets \cup {NoPacket}
    /\ frame \in ChipEvents \cup {NoEvent}
    /\ chip \in [mode : Modes, configured : SUBSET Commands]
    /\ frames \in Seq(ChipEvents)

Carried(queue) == {i \in 1..Len(queue) : queue[i].packet # NoPacket}

Owned(queue, pool, sent) ==
    /\ \A i, j \in Carried(queue) : queue[i].packet = queue[j].packet => i = j
    /\ \A i \in Carried(queue) : queue[i].packet \notin pool \cup {sent}
    /\ sent \notin pool
    /\ Packets \subseteq pool \cup {sent} \cup {queue[i].packet : i \in Carried(queue)}

(* A packet has one owner: the pool, one message of the queue, or the task  *)
(* that is sending it.  None is released while it still waits to be sent,   *)
(* sent twice, or lost, whatever fails (allocatePacketFromPool,             *)
(* releasePacketToPool, execSendCommand).                                   *)
PacketsOwned == Owned(mQueue, free, sending)

(* The state machine moves on only when the orders of its last event are    *)
(* given: orders of two handlers never mix, and a task that waits for the   *)
(* chip to be powered off holds the mutex (Hfsm::receive).                  *)
OrdersUnderMutex ==
    /\ todo # <<>> \/ waiting => mutex # NoTask
    /\ waiting => mutex = "power" /\ power = "off"

(* Without faults: when everything sent in both directions has arrived, the *)
(* state machine tells what the chip does.  Events that were on their way   *)
(* when the host toggled BLE leave no trace (BleChip.cpp, the handlers of   *)
(* CONFIGURED and of ENABLED's children).  In DFU the chip updates itself.  *)
Quiet ==
    /\ power = "run"
    /\ mutex = NoTask
    /\ mQueue = <<>>
    /\ frames = <<>>
    /\ sending = NoPacket
    /\ frame = NoEvent
    /\ chip.mode # "booting"

ModeOf(state) ==
    CASE state \in {"Started", "Configured"} -> "idle"
      [] state = "Advertising" -> "advertising"
      [] state = "Connected" -> "connected"
      [] OTHER -> "none"

ChipFollows == Quiet /\ fsm # "Dfu" => chip.mode = ModeOf(fsm)

(* Without faults the chip never advertises, and no host ever connects,     *)
(* before it has got its name, its address, its properties and its report   *)
(* map (BleChip::doConfigure before ENABLED).                               *)
AdvertisesConfigured ==
    chip.mode \in {"advertising", "connected"} => Range(Configuration) \subseteq chip.configured

(* The mutex is granted in time, as AutoLock.cpp:14 asserts.                *)
AutoLockGranted == ~AutoLockTimeout

(* Under FairSpec and without faults, an enabled keyboard that is left      *)
(* alone ends up advertising.                                               *)
AdvertisingStarts == (fsm = "StartingAdvertising") ~> (fsm # "StartingAdvertising")
=============================================================================
