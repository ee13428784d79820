----------------------- MODULE NrfCommunicationProofs -----------------------
(***************************************************************************)
(* For every pool of packets, length of the queue and list of commands     *)
(* that configure the chip, and whatever fails: a packet has exactly one   *)
(* owner, and the orders of two events never mix.                          *)
(*                                                                         *)
(* For a chip that does not restart by itself and transfers that do not    *)
(* fail, as long as the orders that matter find room: the chip does not    *)
(* advertise before it is configured (StartInv, ConfInv), and the state    *)
(* machine tells what the chip does when nothing is on its way between     *)
(* them (StartInv, FollowInv).                                             *)
(***************************************************************************)
EXTENDS NrfCommunication, TLAPS

\* Only the power manager orders POWEROFF, and it holds the mutex until then.
PowerOffOrdered ==
    (\E i \in 1..Len(todo) : todo[i] = "POWEROFF") => mutex = "power" /\ power = "off"

NrfInv ==
    /\ TypeOK
    /\ PacketsOwned
    /\ OrdersUnderMutex
    /\ PowerOffOrdered

(* The same, sorted by the variables that an action of one side changes.   *)
TaskVars == <<fsmVars, waiting, power>>
QueueVars == <<mQueue, free, sending>>
FrameVars == <<frame, chipVars>>

QueueOK(queue) == queue \in Seq(Message) /\ Len(queue) <= QueueLen

TaskType ==
    /\ fsm \in States
    /\ mutex \in {NoTask, "power", "client", "ble"}
    /\ todo \in Seq(Signals \cup Commands)
    /\ waiting \in BOOLEAN
    /\ power \in {"init", "configure", "run", "off"}

TaskInv == TaskType /\ OrdersUnderMutex /\ PowerOffOrdered

QueueInv ==
    /\ QueueOK(mQueue)
    /\ free \in SUBSET Packets
    /\ sending \in Packets \cup {NoPacket}
    /\ PacketsOwned

FrameInv ==
    /\ frame \in ChipEvents \cup {NoEvent}
    /\ chip \in [mode : Modes, configured : SUBSET Commands]
    /\ frames \in Seq(ChipEvents)

LEMMA NrfInvParts ==
    /\ NrfInv <=> TaskInv /\ QueueInv /\ FrameInv
    /\ NrfInv' <=> TaskInv' /\ QueueInv' /\ FrameInv'
<1>1. NrfInv <=> TaskInv /\ QueueInv /\ FrameInv
  BY DEF NrfInv, TaskInv, TaskType, QueueInv, FrameInv, TypeOK, QueueOK
<1>2. NrfInv' <=> TaskInv' /\ QueueInv' /\ FrameInv'
  BY DEF NrfInv, TaskInv, TaskType, QueueInv, FrameInv, TypeOK, QueueOK
<1> QED
  BY <1>1, <1>2

LEMMA Kept ==
    /\ TaskInv /\ UNCHANGED TaskVars => TaskInv'
    /\ QueueInv /\ UNCHANGED QueueVars => QueueInv'
    /\ FrameInv /\ UNCHANGED FrameVars => FrameInv'
<1>1. TaskInv /\ UNCHANGED TaskVars => TaskInv'
  BY DEF TaskInv, TaskType, TaskVars, fsmVars, OrdersUnderMutex, PowerOffOrdered
<1>2. QueueInv /\ UNCHANGED QueueVars => QueueInv'
  BY DEF QueueInv, QueueVars, QueueOK, PacketsOwned
<1>3. FrameInv /\ UNCHANGED FrameVars => FrameInv'
  BY DEF FrameInv, FrameVars, chipVars
<1> QED
  BY <1>1, <1>2, <1>3

Order == Signals \cup Commands
Ids == Signals \cup {"DATATOSSEND"}

LEMMA Constants ==
    /\ Configuration \in Seq(Order)
    /\ {"INIT", "POWEROFF", "data", "advertisingOn", "advertisingOff"} \subseteq Order
    /\ \A i \in 1..Len(Configuration) : Configuration[i] # "POWEROFF"
    /\ NoPacket \notin Packets
    /\ QueueLen \in Nat \ {0}
<1>1. Configuration \in Seq(Range(Configuration))
  BY NrfAssumption DEF Range
<1> QED
  BY <1>1, NrfAssumption DEF Order, Signals, Commands

-----------------------------------------------------------------------------
(* The state machine: what an event leads to and orders is well-formed.    *)

LEMMA TransitionsLead == \A t \in Transitions : t.to \in States
BY DEF Transitions, LeafTransitions, States, Ready, Advertisable

LEMMA TargetIsState ==
    ASSUME NEW state \in States, NEW event
    PROVE  Target(state, event) \in States
<1>1. CASE \E t \in Transitions : t.on = event /\ state \in t.from
  <2>1. (CHOOSE t \in Transitions : t.on = event /\ state \in t.from) \in Transitions
    BY <1>1
  <2> QED
    BY <1>1, <2>1, TransitionsLead DEF Target
<1>2. CASE ~ \E t \in Transitions : t.on = event /\ state \in t.from
  BY <1>2 DEF Target
<1> QED
  BY <1>1, <1>2

LEMMA HandlerOrdersOK ==
    ASSUME NEW state, NEW event
    PROVE  LET orders == HandlerOrders(state, event, Configuration)
           IN /\ orders \in Seq(Order)
              /\ event # "powerOff" => \A i \in 1..Len(orders) : orders[i] # "POWEROFF"
<1> DEFINE orders == HandlerOrders(state, event, Configuration)
<1>1. \/ orders = <<"INIT">>
      \/ orders = <<"POWEROFF">> /\ event = "powerOff"
      \/ orders = Configuration
      \/ orders = <<"data">>
      \/ orders = <<>>
  <2>1. CASE event = "init" /\ state = "Off"
    BY <2>1 DEF HandlerOrders, Configures
  <2>2. CASE event = "powerOff" /\ state # "Off"
    BY <2>2 DEF HandlerOrders, Configures
  <2>3. CASE Configures(state, event)
    BY <2>3 DEF HandlerOrders, Configures
  <2>4. CASE /\ ~(event = "init" /\ state = "Off")
             /\ ~(event = "powerOff" /\ state # "Off")
             /\ ~Configures(state, event)
    BY <2>4 DEF HandlerOrders
  <2> QED
    BY <2>1, <2>2, <2>3, <2>4
<1> HIDE DEF orders
<1>2. orders \in Seq(Order)
  <2>1. \A order \in Order : <<order>> \in Seq(Order)
    OBVIOUS
  <2>2. CASE orders = Configuration
    BY <2>2, Constants
  <2>3. CASE orders = <<>>
    BY <2>3
  <2> QED
    BY <1>1, <2>1, <2>2, <2>3, Constants
<1>3. ASSUME event # "powerOff", NEW i \in 1..Len(orders)
      PROVE  orders[i] # "POWEROFF"
  <2>1. CASE orders = <<"INIT">> \/ orders = <<"data">>
    BY <1>3, <2>1
  <2>2. CASE orders = Configuration
    BY <1>3, <2>2, Constants
  <2> QED
    BY <1>1, <1>3, <2>1, <2>2
<1> QED
  BY <1>2, <1>3 DEF orders

LEMMA OrdersOK ==
    ASSUME NEW state, NEW event
    PROVE  LET orders == Orders(state, event, Configuration)
           IN /\ orders \in Seq(Order)
              /\ event # "powerOff" => \A i \in 1..Len(orders) : orders[i] # "POWEROFF"
<1> DEFINE handler == HandlerOrders(state, event, Configuration)
           exit == ExitOrders(state, Target(state, event))
           entry == EntryOrders(state, Target(state, event))
<1>1. exit = <<>> \/ exit = <<"advertisingOff">>
  BY DEF ExitOrders
<1>2. entry = <<>> \/ entry = <<"advertisingOn">>
  BY DEF EntryOrders
<1>3. /\ handler \in Seq(Order)
      /\ event # "powerOff" => \A i \in 1..Len(handler) : handler[i] # "POWEROFF"
  BY HandlerOrdersOK
<1>4. Orders(state, event, Configuration) = handler \o exit \o entry
  BY DEF Orders
<1> HIDE DEF handler, exit, entry
<1>5. exit \in Seq(Order) /\ \A i \in 1..Len(exit) : exit[i] # "POWEROFF"
  <2>1. CASE exit = <<>>
    BY <2>1
  <2>2. CASE exit = <<"advertisingOff">>
    BY <2>2, Constants
  <2> QED
    BY <1>1, <2>1, <2>2
<1>6. entry \in Seq(Order) /\ \A i \in 1..Len(entry) : entry[i] # "POWEROFF"
  <2>1. CASE entry = <<>>
    BY <2>1
  <2>2. CASE entry = <<"advertisingOn">>
    BY <2>2, Constants
  <2> QED
    BY <1>2, <2>1, <2>2
<1>7. ASSUME NEW s \in Seq(Order), NEW t \in Seq(Order)
      PROVE  /\ s \o t \in Seq(Order)
             /\ \A i \in 1..Len(s \o t) :
                  \/ i \in 1..Len(s) /\ (s \o t)[i] = s[i]
                  \/ (i - Len(s)) \in 1..Len(t) /\ (s \o t)[i] = t[i - Len(s)]
  OBVIOUS
<1>8. /\ handler \o exit \in Seq(Order)
      /\ event # "powerOff"
           => \A i \in 1..Len(handler \o exit) : (handler \o exit)[i] # "POWEROFF"
  BY <1>3, <1>5, <1>7
<1>9. /\ handler \o exit \o entry \in Seq(Order)
      /\ event # "powerOff"
           => \A i \in 1..Len(handler \o exit \o entry) :
                (handler \o exit \o entry)[i] # "POWEROFF"
  BY <1>6, <1>7, <1>8
<1> QED
  BY <1>4, <1>9

-----------------------------------------------------------------------------
(* The queue: what each end does to the owners of the packets.             *)

LEMMA MessageOK ==
    /\ \A id \in Ids : Signal(id) \in Message /\ Signal(id).packet = NoPacket
    /\ \A packet \in Packets, command \in Commands :
         /\ SendCommand(packet, command) \in Message
         /\ SendCommand(packet, command).packet = packet
BY DEF Ids, Signals, Signal, SendCommand, Message, Commands

LEMMA AppendSignal ==
    ASSUME NEW queue \in Seq(Message), NEW pool, NEW sent, NEW message \in Message,
           message.packet = NoPacket, Owned(queue, pool, sent)
    PROVE  Owned(Append(queue, message), pool, sent)
<1> DEFINE longer == Append(queue, message)
<1>1. /\ Len(longer) = Len(queue) + 1
      /\ \A i \in 1..Len(queue) : longer[i] = queue[i]
      /\ longer[Len(queue) + 1] = message
  OBVIOUS
<1> HIDE DEF longer
<1>2. Carried(longer) = Carried(queue)
  BY <1>1 DEF Carried
<1>3. \A i \in Carried(queue) : longer[i] = queue[i]
  BY <1>1 DEF Carried
<1>4. Owned(longer, pool, sent)
  BY <1>2, <1>3 DEF Owned
<1> QED
  BY <1>4 DEF longer

LEMMA AppendCommand ==
    ASSUME NEW queue \in Seq(Message), NEW pool \in SUBSET Packets, NEW sent,
           NEW packet \in pool, NEW message \in Message,
           message.packet = packet, Owned(queue, pool, sent)
    PROVE  Owned(Append(queue, message), pool \ {packet}, sent)
<1> DEFINE longer == Append(queue, message)
           last == Len(queue) + 1
<1>1. /\ Len(longer) = last
      /\ \A i \in 1..Len(queue) : longer[i] = queue[i]
      /\ longer[last] = message
      /\ last \notin 1..Len(queue)
      /\ 1..last = 1..Len(queue) \cup {last}
  OBVIOUS
<1> HIDE DEF longer, last
<1>2. Carried(longer) = Carried(queue) \cup {last} /\ last \notin Carried(queue)
  BY <1>1, Constants DEF Carried
<1>3. \A i \in Carried(queue) : longer[i] = queue[i] /\ queue[i].packet # packet
  BY <1>1 DEF Carried, Owned
<1>4. packet # sent /\ longer[last].packet = packet
  BY <1>1 DEF Owned
<1>5. Owned(longer, pool \ {packet}, sent)
  <2>1. \A i, j \in Carried(longer) : longer[i].packet = longer[j].packet => i = j
    BY <1>2, <1>3, <1>4 DEF Owned
  <2>2. \A i \in Carried(longer) : longer[i].packet \notin (pool \ {packet}) \cup {sent}
    BY <1>2, <1>3, <1>4 DEF Owned
  <2>3. Packets \subseteq (pool \ {packet}) \cup {sent}
                            \cup {longer[i].packet : i \in Carried(longer)}
    BY <1>2, <1>3, <1>4 DEF Owned
  <2> QED
    BY <2>1, <2>2, <2>3 DEF Owned
<1> QED
  BY <1>5 DEF longer

LEMMA TailOfQueue ==
    ASSUME NEW queue \in Seq(Message), queue # <<>>
    PROVE  /\ Tail(queue) \in Seq(Message)
           /\ Head(queue) \in Message
           /\ Head(queue) = queue[1]
           /\ Len(Tail(queue)) = Len(queue) - 1
           /\ \A i \in 1..Len(queue) : i = 1 \/ (i - 1) \in 1..Len(Tail(queue))
           /\ \A i \in 1..Len(Tail(queue)) :
                /\ (i + 1) \in 1..Len(queue)
                /\ i + 1 # 1
                /\ Tail(queue)[i] = queue[i + 1]
OBVIOUS

LEMMA TailOfSignal ==
    ASSUME NEW queue \in Seq(Message), queue # <<>>, NEW pool, NEW sent,
           Head(queue).packet = NoPacket, Owned(queue, pool, sent)
    PROVE  Owned(Tail(queue), pool, sent)
<1> DEFINE rest == Tail(queue)
<1>1. /\ \A i \in Carried(rest) : (i + 1) \in Carried(queue) /\ rest[i] = queue[i + 1]
      /\ \A i \in Carried(queue) : (i - 1) \in Carried(rest) /\ rest[i - 1] = queue[i]
  BY TailOfQueue DEF Carried
<1>2. \A i \in Carried(rest) : i \in Int
  BY TailOfQueue DEF Carried
<1> HIDE DEF rest
<1>3. \A i, j \in Carried(rest) : rest[i].packet = rest[j].packet => i = j
  BY <1>1, <1>2 DEF Owned
<1>4. \A i \in Carried(rest) : rest[i].packet \notin pool \cup {sent}
  BY <1>1 DEF Owned
<1>5. Packets \subseteq pool \cup {sent} \cup {rest[i].packet : i \in Carried(rest)}
  BY <1>1 DEF Owned
<1>6. Owned(rest, pool, sent)
  BY <1>3, <1>4, <1>5 DEF Owned
<1> QED
  BY <1>6 DEF rest

LEMMA TailOfCommand ==
    ASSUME NEW queue \in Seq(Message), queue # <<>>, NEW pool \in SUBSET Packets,
           Head(queue).packet # NoPacket, Owned(queue, pool, NoPacket)
    PROVE  Owned(Tail(queue), pool, Head(queue).packet)
<1> DEFINE rest == Tail(queue)
           packet == Head(queue).packet
<1>1. 1 \in Carried(queue) /\ packet = queue[1].packet
  <2>1. 1 \in 1..Len(queue)
    OBVIOUS
  <2> QED
    BY <2>1, TailOfQueue DEF Carried
<1>2. \A i \in Carried(rest) :
         (i + 1) \in Carried(queue) /\ i + 1 # 1 /\ rest[i] = queue[i + 1]
  BY TailOfQueue DEF Carried
<1>3. \A i \in Carried(queue) : i = 1 \/ ((i - 1) \in Carried(rest) /\ rest[i - 1] = queue[i])
  BY TailOfQueue DEF Carried
<1>4. \A i \in Carried(rest) : i \in Int
  BY TailOfQueue DEF Carried
<1> HIDE DEF rest, packet
<1>5. \A i, j \in Carried(rest) : rest[i].packet = rest[j].packet => i = j
  BY <1>2, <1>4 DEF Owned
<1>6. \A i \in Carried(rest) : rest[i].packet \notin pool \cup {packet}
  BY <1>1, <1>2 DEF Owned
<1>7. packet \notin pool
  BY <1>1 DEF Owned
<1>8. Packets \subseteq pool \cup {packet} \cup {rest[i].packet : i \in Carried(rest)}
  BY <1>1, <1>3, Constants DEF Owned
<1>9. Owned(rest, pool, packet)
  BY <1>5, <1>6, <1>7, <1>8 DEF Owned
<1> QED
  BY <1>9 DEF rest, packet

LEMMA Released ==
    ASSUME NEW queue \in Seq(Message), NEW pool \in SUBSET Packets,
           NEW sent \in Packets, Owned(queue, pool, sent)
    PROVE  Owned(queue, pool \cup {sent}, NoPacket)
<1>1. \A i \in Carried(queue) : queue[i].packet # NoPacket
  BY DEF Carried
<1> QED
  BY <1>1, Constants DEF Owned

-----------------------------------------------------------------------------
(* What the operations on the queue leave behind.                          *)

LEMMA QueueLenInt == QueueLen \in Nat
BY NrfAssumption

LEMMA PostSignalOK ==
    ASSUME QueueInv, NEW id \in Ids, postSignal(id), sending' = sending
    PROVE  QueueInv'
<1>1. CASE HasRoom
  <2>1. mQueue' = Append(mQueue, Signal(id)) /\ free' = free
    BY <1>1 DEF postSignal
  <2>2. QueueOK(mQueue')
    BY <1>1, <2>1, MessageOK, QueueLenInt DEF QueueOK, HasRoom, QueueInv
  <2>3. Owned(Append(mQueue, Signal(id)), free, sending)
    BY MessageOK, AppendSignal DEF QueueInv, QueueOK, PacketsOwned
  <2> QED
    BY <2>1, <2>2, <2>3 DEF QueueInv, PacketsOwned
<1>2. CASE ~HasRoom
  BY <1>2 DEF postSignal, QueueOK, QueueInv, PacketsOwned
<1> QED
  BY <1>1, <1>2

LEMMA SendCommandOK ==
    ASSUME QueueInv, NEW command \in Commands, sendCommand(command),
           sending' = sending
    PROVE  QueueInv'
<1>1. CASE UNCHANGED <<mQueue, free>>
  BY <1>1 DEF QueueInv, QueueOK, PacketsOwned
<1>2. ASSUME HasRoom, NEW packet \in free,
             mQueue' = Append(mQueue, SendCommand(packet, command)),
             free' = free \ {packet}
      PROVE  QueueInv'
  <2>1. packet \in Packets /\ free \in SUBSET Packets
    BY DEF QueueInv
  <2>2. /\ SendCommand(packet, command) \in Message
        /\ SendCommand(packet, command).packet = packet
    BY <2>1, MessageOK
  <2>3. QueueOK(mQueue')
    BY <1>2, <2>2, QueueLenInt DEF QueueOK, HasRoom, QueueInv
  <2>4. Owned(Append(mQueue, SendCommand(packet, command)), free \ {packet}, sending)
    BY <2>1, <2>2, AppendCommand DEF QueueInv, QueueOK, PacketsOwned
  <2> QED
    BY <1>2, <2>1, <2>3, <2>4 DEF QueueInv, PacketsOwned
<1>3. ASSUME free # {}
      PROVE  (CHOOSE packet \in free : TRUE) \in free
  BY <1>3
<1> QED
  BY <1>1, <1>2, <1>3 DEF sendCommand

LEMMA DataToSendIsrOK ==
    ASSUME NEW queue, QueueOK(queue), NEW pool, NEW sent, Owned(queue, pool, sent),
           NEW pending, NEW answers
    PROVE  /\ QueueOK(DataToSendIsr(queue, pending, answers))
           /\ Owned(DataToSendIsr(queue, pending, answers), pool, sent)
<1>1. CASE DataToSendIsr(queue, pending, answers) = queue
  BY <1>1
<1>2. CASE /\ Len(queue) < QueueLen
           /\ DataToSendIsr(queue, pending, answers) = Append(queue, Signal("DATATOSSEND"))
  <2>1. /\ Signal("DATATOSSEND") \in Message
        /\ Signal("DATATOSSEND").packet = NoPacket
    BY MessageOK DEF Ids
  <2>2. QueueOK(Append(queue, Signal("DATATOSSEND")))
    BY <1>2, <2>1, QueueLenInt DEF QueueOK
  <2>3. Owned(Append(queue, Signal("DATATOSSEND")), pool, sent)
    BY <2>1, AppendSignal DEF QueueOK
  <2> QED
    BY <1>2, <2>2, <2>3
<1> QED
  BY <1>1, <1>2 DEF DataToSendIsr

(* The task takes a message: a signal, or a command with its packet.       *)
LEMMA TakeOK ==
    ASSUME QueueInv, NEW id, Receives(id)
    PROVE  /\ sending = NoPacket /\ mQueue # <<>>
           /\ QueueOK(Tail(mQueue))
           /\ Head(mQueue) \in Message
           /\ Owned(Tail(mQueue), free, Head(mQueue).packet)
           /\ id \in Ids => Owned(Tail(mQueue), free, NoPacket)
           /\ id = "SEND_COMMAND" => Head(mQueue).packet \in Packets
<1>1. /\ sending = NoPacket /\ mQueue # <<>>
      /\ mQueue \in Seq(Message) /\ Len(mQueue) <= QueueLen
      /\ free \in SUBSET Packets
      /\ Owned(mQueue, free, NoPacket)
  BY DEF Receives, Idle, QueueInv, QueueOK, PacketsOwned
<1>2. QueueOK(Tail(mQueue)) /\ Head(mQueue) \in Message
  BY <1>1, TailOfQueue, QueueLenInt DEF QueueOK
<1>3. Owned(Tail(mQueue), free, Head(mQueue).packet)
  BY <1>1, TailOfSignal, TailOfCommand
<1>4. Head(mQueue).msgId = id
  BY DEF Receives
<1>5. id \in Ids => Head(mQueue).packet = NoPacket
  BY <1>2, <1>4 DEF Message, Ids, Signals
<1>6. id = "SEND_COMMAND" => Head(mQueue).packet \in Packets
  BY <1>2, <1>4 DEF Message, Signals
<1> QED
  BY <1>1, <1>2, <1>3, <1>5, <1>6

-----------------------------------------------------------------------------
(* An event handed to the state machine, by whichever task.                *)

LEMMA ReceiveOK ==
    ASSUME TaskInv, NEW task \in {"power", "client", "ble"}, NEW event,
           receive(task, event), UNCHANGED waiting,
           power' \in {"init", "configure", "run", "off"},
           event = "powerOff" => task = "power" /\ power' = "off"
    PROVE  TaskInv'
<1> DEFINE orders == Orders(fsm, event, Configuration)
<1>1. /\ mutex = NoTask /\ ~waiting /\ ~waiting'
      /\ fsm' = Target(fsm, event)
      /\ todo' = orders
      /\ mutex' = IF orders = <<>> THEN NoTask ELSE task
  BY DEF receive, TaskInv, TaskType, OrdersUnderMutex
<1>2. /\ orders \in Seq(Order)
      /\ event # "powerOff" => \A i \in 1..Len(orders) : orders[i] # "POWEROFF"
  BY OrdersOK
<1> HIDE DEF orders
<1>3. TaskType'
  BY <1>1, <1>2, TargetIsState DEF TaskInv, TaskType, Order
<1>4. OrdersUnderMutex'
  BY <1>1 DEF OrdersUnderMutex, NoTask
<1>5. PowerOffOrdered'
  BY <1>1, <1>2 DEF PowerOffOrdered
<1> QED
  BY <1>3, <1>4, <1>5 DEF TaskInv

LEMMA TaskOK ==
    ASSUME NrfInv, NEW task \in {"power", "client"}, NEW event, Task(task, event),
           power' \in {"init", "configure", "run", "off"},
           event = "powerOff" => task = "power" /\ power' = "off"
    PROVE  NrfInv'
<1>1. TaskInv'
  BY ReceiveOK, NrfInvParts DEF Task
<1>2. QueueInv' /\ FrameInv'
  BY Kept, NrfInvParts DEF Task, QueueVars, FrameVars
<1> QED
  BY <1>1, <1>2, NrfInvParts

LEMMA GiveOrderOK ==
    ASSUME NrfInv, GiveOrder
    PROVE  NrfInv'
<1> DEFINE order == Head(todo)
           rest == Tail(todo)
<1>1. /\ TaskInv /\ QueueInv /\ FrameInv
      /\ todo # <<>> /\ ~waiting
      /\ order \in Signals \cup Commands
      /\ rest \in Seq(Signals \cup Commands)
      /\ order = todo[1] /\ 1 \in 1..Len(todo)
      /\ \A i \in 1..Len(rest) : (i + 1) \in 1..Len(todo) /\ rest[i] = todo[i + 1]
  BY NrfInvParts DEF GiveOrder, TaskInv, TaskType
<1>2. /\ IF order \in Signals THEN postSignal(order) ELSE sendCommand(order)
      /\ waiting' = (order = "POWEROFF" /\ HasRoom)
      /\ todo' = rest
      /\ mutex' = IF rest = <<>> /\ ~waiting' THEN NoTask ELSE mutex
      /\ UNCHANGED <<fsm, power, sending, frame, chipVars>>
  BY DEF GiveOrder
<1> HIDE DEF order, rest
<1>3. QueueInv'
  <2>1. CASE order \in Signals
    BY <1>1, <1>2, <2>1, PostSignalOK DEF Ids
  <2>2. CASE order \notin Signals
    BY <1>1, <1>2, <2>2, SendCommandOK
  <2> QED
    BY <2>1, <2>2
<1>4. FrameInv'
  BY <1>1, <1>2, Kept DEF FrameVars
<1>5. mutex # NoTask /\ (order = "POWEROFF" => mutex = "power" /\ power = "off")
  BY <1>1 DEF TaskInv, OrdersUnderMutex, PowerOffOrdered
<1>6. TaskInv'
  <2>1. TaskType'
    BY <1>1, <1>2 DEF TaskInv, TaskType
  <2>2. OrdersUnderMutex'
    BY <1>2, <1>5 DEF OrdersUnderMutex
  <2>3. PowerOffOrdered'
    <3>1. ASSUME NEW i \in 1..Len(rest), rest[i] = "POWEROFF"
          PROVE  mutex = "power" /\ power = "off" /\ rest # <<>>
      BY <1>1, <3>1 DEF TaskInv, PowerOffOrdered
    <3> QED
      BY <1>2, <3>1 DEF PowerOffOrdered
  <2> QED
    BY <2>1, <2>2, <2>3 DEF TaskInv
<1> QED
  BY <1>3, <1>4, <1>6, NrfInvParts

-----------------------------------------------------------------------------
(* The chip. *)

LEMMA AnswersOK ==
    ASSUME NEW mode \in Modes, NEW command
    PROVE  Answers(mode, command) \in Seq(ChipEvents) /\ ModeAfter(mode, command) \in Modes
<1>1. \A event \in ChipEvents : <<event>> \in Seq(ChipEvents)
  OBVIOUS
<1>2. Answers(mode, command) \in
        {<<"advertisingStarted">>, <<"advertisingStopped">>, <<"disconnected">>,
         <<"enteredDfu">>, <<>>}
  BY DEF Answers
<1>3. Answers(mode, command) \in Seq(ChipEvents)
  <2>1. \A event \in {"advertisingStarted", "advertisingStopped", "disconnected",
                       "enteredDfu"} : event \in ChipEvents
    BY DEF ChipEvents
  <2>2. CASE Answers(mode, command) = <<>>
    BY <2>2
  <2>3. CASE Answers(mode, command) # <<>>
    BY <1>1, <1>2, <2>1, <2>3
  <2> QED
    BY <2>2, <2>3
<1>4. ModeAfter(mode, command) \in {"advertising", "dfu", "idle", mode}
  BY DEF ModeAfter
<1> QED
  BY <1>3, <1>4 DEF Modes

LEMMA ChipOK ==
    ASSUME NEW mode \in Modes
    PROVE  /\ Chip(mode, {}) \in [mode : Modes, configured : SUBSET Commands]
           /\ chip \in [mode : Modes, configured : SUBSET Commands]
                => Chip(mode, chip.configured) \in [mode : Modes, configured : SUBSET Commands]
BY DEF Chip

LEMMA ChipDoesOK ==
    ASSUME NrfInv, NEW from, NEW to \in Modes, NEW event \in ChipEvents,
           ChipDoes(from, to, <<event>>)
    PROVE  NrfInv'
<1>1. TaskInv /\ QueueInv /\ FrameInv
  BY NrfInvParts
<1>2. QueueInv'
  <2>1. mQueue' = DataToSendIsr(mQueue, frames, <<event>>) /\ UNCHANGED <<free, sending>>
    BY DEF ChipDoes
  <2>2. QueueOK(mQueue') /\ Owned(mQueue', free, sending)
    BY <1>1, <2>1, DataToSendIsrOK DEF QueueInv, PacketsOwned
  <2> QED
    BY <1>1, <2>1, <2>2 DEF QueueInv, PacketsOwned
<1>3. FrameInv'
  <2>1. chip' \in [mode : Modes, configured : SUBSET Commands]
    BY <1>1, ChipOK DEF ChipDoes, FrameInv
  <2>2. frames' \in Seq(ChipEvents)
    BY <1>1 DEF ChipDoes, FrameInv
  <2> QED
    BY <1>1, <2>1, <2>2 DEF ChipDoes, FrameInv
<1>4. TaskInv'
  BY <1>1, Kept DEF ChipDoes, TaskVars
<1> QED
  BY <1>2, <1>3, <1>4, NrfInvParts

LEMMA ChipTakesPartOK ==
    ASSUME NrfInv, ChipTakesPart
    PROVE  NrfInv'
<1>1. CASE ChipStarts \/ ChipConnects \/ ChipDisconnects \/ ChipStopsAdvertising
  BY <1>1, ChipDoesOK
     DEF ChipStarts, ChipConnects, ChipDisconnects, ChipStopsAdvertising, Modes, ChipEvents
<1>2. CASE ChipRestarts
  <2>1. FrameInv'
    BY <1>2, ChipOK, NrfInvParts DEF ChipRestarts, FrameInv, Modes
  <2>2. TaskInv' /\ QueueInv'
    BY <1>2, Kept, NrfInvParts DEF ChipRestarts, TaskVars, QueueVars
  <2> QED
    BY <2>1, <2>2, NrfInvParts
<1>3. CASE FrameLost
  <2>1. FrameInv'
    BY <1>3, NrfInvParts DEF FrameLost, FrameInv
  <2>2. TaskInv' /\ QueueInv'
    BY <1>3, Kept, NrfInvParts DEF FrameLost, TaskVars, QueueVars
  <2> QED
    BY <2>1, <2>2, NrfInvParts
<1> QED
  BY <1>1, <1>2, <1>3 DEF ChipTakesPart

-----------------------------------------------------------------------------
(* The communication task. *)

LEMMA CommunicationTaskOK ==
    ASSUME NrfInv, CommunicationTask
    PROVE  NrfInv'
<1>0. TaskInv /\ QueueInv /\ FrameInv
  BY NrfInvParts
<1>1. CASE execInit
  <2>1. QueueInv'
    BY <1>0, <1>1, TakeOK DEF execInit, QueueInv, PacketsOwned, Ids, Signals
  <2>2. FrameInv'
    BY <1>0, <1>1, ChipOK DEF execInit, FrameInv, Modes
  <2>3. TaskInv'
    BY <1>0, <1>1, Kept DEF execInit, TaskVars
  <2> QED
    BY <2>1, <2>2, <2>3, NrfInvParts
<1>2. CASE execPowerOff
  <2>1. QueueInv'
    BY <1>0, <1>2, TakeOK DEF execPowerOff, QueueInv, PacketsOwned, Ids, Signals
  <2>2. FrameInv'
    BY <1>0, <1>2, ChipOK DEF execPowerOff, FrameInv, Modes
  <2>3. /\ UNCHANGED <<fsm, todo, power>>
        /\ ~waiting' /\ waiting' \in BOOLEAN
        /\ mutex' = IF todo = <<>> THEN NoTask ELSE mutex
    BY <1>2 DEF execPowerOff
  <2>4. TaskType'
    BY <1>0, <2>3 DEF TaskInv, TaskType
  <2>5. OrdersUnderMutex' /\ PowerOffOrdered'
    BY <1>0, <2>3 DEF TaskInv, TaskType, OrdersUnderMutex, PowerOffOrdered
  <2> QED
    BY <2>1, <2>2, <2>4, <2>5, NrfInvParts DEF TaskInv
<1>3. CASE execForceDfu
  <2>1. /\ sending' = sending /\ free' = free
        /\ \/ mQueue' = Tail(mQueue)
           \/ mQueue' = DataToSendIsr(Tail(mQueue), <<>>, <<"enteredDfu">>)
    BY <1>3 DEF execForceDfu
  <2>2. sending = NoPacket /\ QueueOK(Tail(mQueue)) /\ Owned(Tail(mQueue), free, NoPacket)
    BY <1>0, <1>3, TakeOK DEF execForceDfu, Ids, Signals
  <2>3. QueueOK(mQueue') /\ Owned(mQueue', free, NoPacket)
    BY <2>1, <2>2, DataToSendIsrOK
  <2>4. QueueInv'
    BY <1>0, <2>1, <2>2, <2>3 DEF QueueInv, PacketsOwned
  <2>5. /\ \/ chip' = Chip("dfu", {}) \/ chip' = Chip("booting", {})
        /\ frames' = <<"enteredDfu">> \/ frames' = <<>>
        /\ frame' = frame
    BY <1>3 DEF execForceDfu
  <2>6. frames' \in Seq(ChipEvents)
    <3>1. <<"enteredDfu">> \in Seq(ChipEvents) /\ <<>> \in Seq(ChipEvents)
      BY DEF ChipEvents
    <3> QED
      BY <2>5, <3>1
  <2>7. FrameInv'
    BY <1>0, <2>5, <2>6, ChipOK DEF FrameInv, Modes
  <2>8. TaskInv'
    BY <1>0, <1>3, Kept DEF execForceDfu, TaskVars
  <2> QED
    BY <2>4, <2>7, <2>8, NrfInvParts
<1>4. CASE execSendCommand
  <2> DEFINE packet == Head(mQueue).packet
             command == Head(mQueue).command
  <2>1. /\ Receives("SEND_COMMAND")
        /\ sending' = packet
        /\ \/ Exchange(command, frames) /\ UNCHANGED frame
           \/ frames # <<>> /\ Exchange(command, Tail(frames)) /\ frame' = Head(frames)
           \/ mQueue' = Tail(mQueue) /\ UNCHANGED <<frame, chipVars>>
        /\ UNCHANGED <<fsmVars, waiting, power, free>>
    BY <1>4 DEF execSendCommand
  <2>2. /\ packet \in Packets
        /\ QueueOK(Tail(mQueue)) /\ Owned(Tail(mQueue), free, packet)
    BY <1>0, <2>1, TakeOK
  <2> HIDE DEF packet, command
  <2>3. TaskInv'
    BY <1>0, <2>1, Kept DEF TaskVars
  <2>4. ASSUME NEW pending \in Seq(ChipEvents), Exchange(command, pending)
        PROVE  /\ QueueOK(mQueue') /\ Owned(mQueue', free, packet)
               /\ chip' \in [mode : Modes, configured : SUBSET Commands]
               /\ frames' \in Seq(ChipEvents)
    <3>1. Answers(chip.mode, command) \in Seq(ChipEvents) /\ ModeAfter(chip.mode, command) \in Modes
      BY <1>0, AnswersOK DEF FrameInv
    <3>2. QueueOK(mQueue') /\ Owned(mQueue', free, packet)
      BY <2>2, <2>4, DataToSendIsrOK DEF Exchange
    <3>3. frames' \in Seq(ChipEvents)
      BY <2>4, <3>1 DEF Exchange
    <3>4. {command} \cap Range(Configuration) \subseteq Commands
      BY DEF Commands
    <3>5. Executed(command) \in [mode : Modes, configured : SUBSET Commands]
      BY <1>0, <3>1, <3>4 DEF Executed, FrameInv
    <3> QED
      BY <2>4, <3>2, <3>3, <3>5 DEF Exchange
  <2>5. CASE Exchange(command, frames) /\ UNCHANGED frame
    <3>1. QueueOK(mQueue') /\ Owned(mQueue', free, packet) /\ FrameInv'
      BY <1>0, <2>4, <2>5 DEF FrameInv
    <3> QED
      BY <1>0, <2>1, <2>2, <2>3, <3>1, NrfInvParts DEF QueueInv, PacketsOwned
  <2>6. CASE frames # <<>> /\ Exchange(command, Tail(frames)) /\ frame' = Head(frames)
    <3>1. Tail(frames) \in Seq(ChipEvents) /\ Head(frames) \in ChipEvents
      BY <1>0, <2>6 DEF FrameInv
    <3>2. QueueOK(mQueue') /\ Owned(mQueue', free, packet) /\ FrameInv'
      BY <2>4, <2>6, <3>1 DEF FrameInv
    <3> QED
      BY <1>0, <2>1, <2>2, <2>3, <3>2, NrfInvParts DEF QueueInv, PacketsOwned
  <2>7. CASE mQueue' = Tail(mQueue) /\ UNCHANGED <<frame, chipVars>>
    <3>1. FrameInv'
      BY <1>0, <2>7, Kept DEF FrameVars
    <3> QED
      BY <1>0, <2>1, <2>2, <2>3, <2>7, <3>1, NrfInvParts DEF QueueInv, PacketsOwned
  <2> QED
    BY <2>1, <2>5, <2>6, <2>7
<1>5. CASE spiReceive
  <2>1. QueueInv'
    <3>1. CASE Receives("DATATOSSEND") /\ mQueue' = Tail(mQueue)
      BY <1>0, <1>5, <3>1, TakeOK DEF spiReceive, QueueInv, PacketsOwned, Ids
    <3>2. CASE UNCHANGED mQueue
      BY <1>0, <1>5, <3>2, Kept DEF spiReceive, QueueVars
    <3> QED
      BY <1>5, <3>1, <3>2 DEF spiReceive
  <2>2. FrameInv'
    <3>1. CASE frames = <<>>
      BY <1>0, <1>5, <3>1 DEF spiReceive, FrameInv
    <3>2. CASE frames # <<>>
      <4>1. Tail(frames) \in Seq(ChipEvents) /\ Head(frames) \in ChipEvents
        BY <1>0, <3>2 DEF FrameInv
      <4> QED
        BY <1>0, <1>5, <3>2, <4>1 DEF spiReceive, FrameInv
    <3> QED
      BY <3>1, <3>2
  <2>3. TaskInv'
    BY <1>0, <1>5, Kept DEF spiReceive, TaskVars
  <2> QED
    BY <2>1, <2>2, <2>3, NrfInvParts
<1>6. CASE notifyListener
  <2>1. frame # "powerOff" /\ power \in {"init", "configure", "run", "off"}
    BY <1>0, <1>6 DEF notifyListener, FrameInv, ChipEvents, TaskInv, TaskType, NoEvent
  <2>2. TaskInv'
    BY <1>0, <1>6, <2>1, ReceiveOK DEF notifyListener
  <2>3. QueueInv'
    BY <1>0, <1>6, Kept DEF notifyListener, QueueVars
  <2>4. FrameInv'
    BY <1>0, <1>6 DEF notifyListener, FrameInv, chipVars
  <2> QED
    BY <2>2, <2>3, <2>4, NrfInvParts
<1>7. CASE releasePacket
  <2>1. sending \in Packets /\ Owned(mQueue, free, sending)
    BY <1>0, <1>7 DEF releasePacket, QueueInv, PacketsOwned
  <2>2. Owned(mQueue, free \cup {sending}, NoPacket)
    BY <1>0, <2>1, Released DEF QueueInv, QueueOK
  <2>3. QueueInv'
    BY <1>0, <1>7, <2>1, <2>2 DEF releasePacket, QueueInv, QueueOK, PacketsOwned
  <2>4. TaskInv' /\ FrameInv'
    BY <1>0, <1>7, Kept DEF releasePacket, TaskVars, FrameVars
  <2> QED
    BY <2>3, <2>4, NrfInvParts
<1> QED
  BY <1>1, <1>2, <1>3, <1>4, <1>5, <1>6, <1>7 DEF CommunicationTask

-----------------------------------------------------------------------------
(* The tasks, and the specification. *)

LEMMA InitOK == Init => NrfInv
<1> SUFFICES ASSUME Init PROVE NrfInv
  OBVIOUS
<1>1. TaskInv
  <2>1. TaskType
    <3>1. (todo \in Seq(Signals \cup Commands))
      BY DEF Init
    <3>2. /\ (fsm \in States)
          /\ (mutex \in {NoTask, "power", "client", "ble"})
          /\ (power \in {"init", "configure", "run", "off"})
      BY DEF Init, States
    <3>3. (waiting \in BOOLEAN)
      BY DEF Init
    <3> QED
      BY <3>1, <3>2, <3>3 DEF TaskType
  <2>2. OrdersUnderMutex
    BY DEF Init, OrdersUnderMutex
  <2>3. PowerOffOrdered
    BY DEF Init, PowerOffOrdered
  <2> QED
    BY <2>1, <2>2, <2>3 DEF TaskInv
<1>2. QueueInv
  <2>1. Carried(mQueue) = {}
    BY DEF Init, Carried
  <2>2. Owned(mQueue, free, sending)
    BY <2>1, NrfAssumption DEF Init, Owned
  <2> QED
    BY <2>2, QueueLenInt DEF Init, QueueInv, QueueOK, PacketsOwned
<1>3. FrameInv
  BY ChipOK DEF Init, FrameInv, Modes
<1> QED
  BY <1>1, <1>2, <1>3, NrfInvParts

LEMMA ResetOK ==
    ASSUME Reset
    PROVE  NrfInv'
<1>1. TaskInv'
  <2>1. TaskType'
    <3>1. (todo \in Seq(Signals \cup Commands))'
      BY DEF Reset
    <3>2. /\ (fsm \in States)'
          /\ (mutex \in {NoTask, "power", "client", "ble"})'
          /\ (power \in {"init", "configure", "run", "off"})'
      BY DEF Reset, States
    <3>3. (waiting \in BOOLEAN)'
      BY DEF Reset
    <3> QED
      BY <3>1, <3>2, <3>3 DEF TaskType
  <2>2. OrdersUnderMutex'
    BY DEF Reset, OrdersUnderMutex
  <2>3. PowerOffOrdered'
    BY DEF Reset, PowerOffOrdered
  <2> QED
    BY <2>1, <2>2, <2>3 DEF TaskInv
<1>2. QueueInv'
  <2>1. Carried(mQueue)' = {}
    BY DEF Reset, Carried
  <2>2. Owned(mQueue, free, sending)'
    BY <2>1, NrfAssumption DEF Reset, Owned
  <2> QED
    BY <2>2, QueueLenInt DEF Reset, QueueInv, QueueOK, PacketsOwned
<1>3. FrameInv'
  BY ChipOK DEF Reset, FrameInv, Modes
<1> QED
  BY <1>1, <1>2, <1>3, NrfInvParts

LEMMA DriveOK ==
    ASSUME NrfInv, init \/ configure \/ activate \/ powerOff \/ clientCommand
    PROVE  NrfInv'
<1>0. power \in {"init", "configure", "run", "off"}
  BY DEF NrfInv, TypeOK
<1>1. CASE init
  BY <1>1, TaskOK DEF init
<1>2. CASE configure
  BY <1>2, TaskOK DEF configure
<1>3. CASE activate
  BY <1>0, <1>3, TaskOK DEF activate
<1>4. CASE powerOff
  BY <1>4, TaskOK DEF powerOff
<1>5. CASE clientCommand
  BY <1>0, <1>5, TaskOK DEF clientCommand
<1> QED
  BY <1>1, <1>2, <1>3, <1>4, <1>5

LEMMA UpdateOK ==
    ASSUME NrfInv, enterDfu \/ forceDfu
    PROVE  NrfInv'
<1>1. CASE enterDfu
  <2>1. QueueInv'
    BY <1>1, SendCommandOK, NrfInvParts DEF enterDfu, Commands
  <2>2. TaskInv' /\ FrameInv'
    BY <1>1, Kept, NrfInvParts DEF enterDfu, TaskVars, FrameVars
  <2> QED
    BY <2>1, <2>2, NrfInvParts
<1>2. CASE forceDfu
  <2>1. QueueInv'
    BY <1>2, PostSignalOK, NrfInvParts DEF forceDfu, Ids, Signals
  <2>2. TaskInv' /\ FrameInv'
    BY <1>2, Kept, NrfInvParts DEF forceDfu, TaskVars, FrameVars
  <2> QED
    BY <2>1, <2>2, NrfInvParts
<1> QED
  BY <1>1, <1>2

LEMMA StepOK == NrfInv /\ [Next]_vars => NrfInv'
<1> SUFFICES ASSUME NrfInv, [Next]_vars PROVE NrfInv'
  OBVIOUS
<1>1. CASE init \/ configure \/ activate \/ powerOff \/ clientCommand
  BY <1>1, DriveOK
<1>2. CASE enterDfu \/ forceDfu
  BY <1>2, UpdateOK
<1>3. CASE GiveOrder
  BY <1>3, GiveOrderOK
<1>4. CASE CommunicationTask
  BY <1>4, CommunicationTaskOK
<1>5. CASE ChipTakesPart
  BY <1>5, ChipTakesPartOK
<1>6. CASE Reset
  BY <1>6, ResetOK
<1>7. CASE UNCHANGED vars
  BY <1>7, Kept, NrfInvParts DEF vars, TaskVars, QueueVars, FrameVars, fsmVars, chipVars
<1> QED
  BY <1>1, <1>2, <1>3, <1>4, <1>5, <1>6, <1>7 DEF Next

(* In every reachable state, whatever fails: all variables have their       *)
(* types, a packet has exactly one owner (allocatePacketFromPool,           *)
(* releasePacketToPool), and the orders of two events never mix, also while *)
(* a task waits for the chip to be powered off (Hfsm::receive).             *)
THEOREM NrfCorrect == Spec => [](TypeOK /\ PacketsOwned /\ OrdersUnderMutex)
<1>1. NrfInv => TypeOK /\ PacketsOwned /\ OrdersUnderMutex
  BY DEF NrfInv
<1> QED
  BY InitOK, StepOK, <1>1, PTL DEF Spec
-----------------------------------------------------------------------------
(* What the chip is told.  When it does not restart by itself and no       *)
(* transfer fails, the chip misses an order only if the queue or the pool  *)
(* of packets has no room for it: an order dropped so is only logged.      *)

Reliable == "restart" \notin Faults /\ "loss" \notin Faults

Configurations == Range(Configuration)
Toggles == {"advertisingOn", "advertisingOff"}
Executes == {"idle", "advertising", "connected"}

Carries(queue, command) == \E i \in 1..Len(queue) : queue[i].command = command
Holds(queue, id) == \E i \in 1..Len(queue) : queue[i].msgId = id
Among(order, orders) == \E i \in 1..Len(orders) : orders[i] = order

\* the last that the queue says about advertising
LastToggle(queue, command) ==
    \E i \in 1..Len(queue) :
        /\ queue[i].command = command
        /\ \A j \in 1..Len(queue) : j > i => queue[j].command \notin Toggles

\* what the chip does from then on is not the state machine's any more
DfuAhead == chip.mode = "dfu" \/ Carries(mQueue, "startDfu")

Fits == HasRoom /\ free # {}

(* The hypotheses: an order that configures the chip finds room, unless    *)
(* the chip is on its way to its bootloader; and so does one that toggles  *)
(* advertising, unless the queue already ends with the same.  TLC finds    *)
(* both in every state of the run without faults.                          *)
ConfigurationFits ==
    todo # <<>> /\ Head(todo) \in Configurations => Fits \/ DfuAhead

OrdersFit ==
    /\ ConfigurationFits
    /\ todo # <<>> /\ Head(todo) \in Toggles =>
         Fits \/ DfuAhead \/ LastToggle(mQueue, Head(todo))

\* the events of the chip, from the one that its driver has to handle next
Events == IF frame = NoEvent THEN frames ELSE <<frame>> \o frames
Comes(event) == \E i \in 1..Len(Events) : Events[i] = event

(* From the reset of the chip to its configuration there is nothing else   *)
(* on its way, in either direction.                                        *)
Unstarted ==
    power = "init" =>
        /\ fsm = "Off" /\ todo = <<>> /\ mQueue = <<>>
        /\ chip.mode = "reset" /\ frame = NoEvent /\ frames = <<>>

InitAhead == Among("INIT", todo) \/ Holds(mQueue, "INIT")

\* what resets the chip is the first message of the queue
InitFirst(queue) == \A i \in 1..Len(queue) : queue[i].msgId = "INIT" => i = 1

ResetAhead ==
    /\ InitFirst(mQueue)
    /\ Among("INIT", todo) => todo = <<"INIT">> /\ mQueue = <<>>
    /\ InitAhead =>
        /\ fsm \in {"On", "Off"}
        /\ ~Carries(mQueue, "advertisingOn") /\ ~Holds(mQueue, "FORCEDFU")
        /\ chip.mode = "reset" /\ frame = NoEvent /\ frames = <<>>

SwitchedOff ==
    /\ power = "off" => fsm = "Off"
    /\ fsm = "Off" => power \in {"init", "off"}
    /\ Among("POWEROFF", todo) \/ Holds(mQueue, "POWEROFF") => power = "off"

Starting ==
    /\ fsm = "On" => \/ chip.mode = "reset" /\ InitAhead /\ Events = <<>>
                     \/ chip.mode = "booting" /\ Events = <<>>
                     \/ chip.mode = "idle" /\ Events = <<"started">>
    /\ fsm = "Started" => chip.mode = "idle" /\ Events = <<>>
    /\ fsm \in Ready => chip.mode \notin {"reset", "booting"} /\ ~Comes("started")
    /\ fsm \in {"On", "Started"} =>
        /\ ~Carries(mQueue, "advertisingOn") /\ ~Carries(mQueue, "startDfu")
        /\ ~Holds(mQueue, "FORCEDFU")
    /\ chip.mode = "booting" => ~Carries(mQueue, "advertisingOn")

Chosen ==
    /\ Among("advertisingOn", todo) => fsm = "StartingAdvertising"
    /\ Among("advertisingOff", todo) => fsm # "StartingAdvertising"
    /\ ~Among("startDfu", todo) /\ ~Among("FORCEDFU", todo)

StartInv == Unstarted /\ ResetAhead /\ SwitchedOff /\ Starting /\ Chosen

(* Every command that configures the chip is ahead of advertisingOn: in    *)
(* the chip, in the queue or among the orders.                             *)
Arrives(queue, configured, command) ==
    command \in configured \/ Carries(queue, command) \/ Carries(queue, "startDfu")

QueueConfigures(queue, configured) ==
    \A k \in 1..Len(queue) : queue[k].command = "advertisingOn" =>
        \A c \in Configurations :
            \/ c \in configured
            \/ \E j \in 1..Len(queue) : j < k /\ queue[j].command \in {c, "startDfu"}

OrdersConfigure(orders, queue, configured) ==
    \A k \in 1..Len(orders) : orders[k] = "advertisingOn" =>
        \A c \in Configurations :
            \/ Arrives(queue, configured, c)
            \/ \E j \in 1..Len(orders) : j < k /\ orders[j] = c

ConfInv ==
    /\ chip.mode \in Executes =>
        /\ QueueConfigures(mQueue, chip.configured)
        /\ OrdersConfigure(todo, mQueue, chip.configured)
        /\ fsm \in Ready => \A c \in Configurations :
             Arrives(mQueue, chip.configured, c) \/ Among(c, todo)
    /\ AdvertisesConfigured

(* The events of the chip lead, in their order, from mode to mode.         *)
Before(event) ==
    CASE event = "started" -> {"booting"}
      [] event = "advertisingStarted" -> {"idle"}
      [] event \in {"connected", "advertisingStopped"} -> {"advertising"}
      [] event = "disconnected" -> {"connected"}
      [] OTHER -> Modes \ {"dfu"}

After(event) ==
    CASE event = "advertisingStarted" -> "advertising"
      [] event = "connected" -> "connected"
      [] event = "enteredDfu" -> "dfu"
      [] OTHER -> "idle"

Linked(events, mode) ==
    /\ \A i, j \in 1..Len(events) : j = i + 1 => After(events[i]) \in Before(events[j])
    /\ events # <<>> => After(events[Len(events)]) = mode

From(first, events, mode) ==
    IF events = <<>> THEN mode = first ELSE first \in Before(events[1])

Follows ==
    /\ fsm \in Ready => Linked(Events, chip.mode) /\ (chip.mode = "dfu" => Events # <<>>)
    /\ fsm = "Advertising" => From("advertising", Events, chip.mode)
    /\ fsm = "Connected" => From("connected", Events, chip.mode)

(* The chip will find advertisingOn when it is idle, and nothing behind it *)
(* takes it back; or advertisingOff, and nothing behind it.                *)
WillStart(queue, mode) ==
    \E k \in 1..Len(queue) :
        /\ queue[k].command = "advertisingOn"
        /\ \A l \in 1..Len(queue) : l > k => queue[l].command # "advertisingOff"
        /\ \/ mode = "idle"
           \/ \E j \in 1..Len(queue) : j < k /\ queue[j].command = "advertisingOff"

WillStop(queue) ==
    \E k \in 1..Len(queue) :
        /\ queue[k].command = "advertisingOff"
        /\ \A l \in 1..Len(queue) : l > k => queue[l].command # "advertisingOn"

Starts ==
    \/ DfuAhead
    \/ Comes("advertisingStarted")
    \/ Among("advertisingOn", todo) /\ (chip.mode = "idle" \/ Carries(mQueue, "advertisingOff"))
    \/ WillStart(mQueue, chip.mode)

Stops ==
    \/ DfuAhead
    \/ Among("advertisingOff", todo)
    \/ WillStop(mQueue)
    \/ chip.mode = "idle" /\ ~Carries(mQueue, "advertisingOn")

Agrees ==
    /\ fsm = "StartingAdvertising" => Starts
    /\ fsm = "Configured" => Stops

FollowInv == Follows /\ Agrees

-----------------------------------------------------------------------------
(* Lemmas about the queue. *)

LEMMA AppendPlaces ==
    ASSUME NEW S, NEW queue \in Seq(S), NEW message \in S
    PROVE  LET longer == Append(queue, message)
           IN /\ longer \in Seq(S)
              /\ Len(longer) = Len(queue) + 1
              /\ \A i \in 1..Len(queue) : i \in 1..Len(longer) /\ longer[i] = queue[i]
              /\ longer[Len(queue) + 1] = message
              /\ (Len(queue) + 1) \in 1..Len(longer)
              /\ \A i \in 1..Len(longer) : i \in 1..Len(queue) \/ i = Len(queue) + 1
              /\ \A i \in 1..Len(queue) : i < Len(queue) + 1
OBVIOUS

LEMMA TailPlaces ==
    ASSUME NEW S, NEW queue \in Seq(S), queue # <<>>
    PROVE  LET rest == Tail(queue)
           IN /\ rest \in Seq(S)
              /\ Head(queue) \in S
              /\ Head(queue) = queue[1]
              /\ 1 \in 1..Len(queue)
              /\ Len(rest) = Len(queue) - 1
              /\ \A i \in 1..Len(rest) : (i + 1) \in 1..Len(queue) /\ rest[i] = queue[i + 1]
              /\ \A i \in 1..Len(queue) :
                   i = 1 \/ ((i - 1) \in 1..Len(rest) /\ rest[i - 1] = queue[i] /\ i > 1)
OBVIOUS

LEMMA AppendCarries ==
    ASSUME NEW queue \in Seq(Message), NEW message \in Message, NEW c
    PROVE  LET longer == Append(queue, message)
           IN /\ Carries(longer, c) <=> Carries(queue, c) \/ message.command = c
              /\ Holds(longer, c) <=> Holds(queue, c) \/ message.msgId = c
<1> DEFINE longer == Append(queue, message)
<1>1. /\ \A i \in 1..Len(queue) : i \in 1..Len(longer) /\ longer[i] = queue[i]
      /\ longer[Len(queue) + 1] = message
      /\ (Len(queue) + 1) \in 1..Len(longer)
      /\ \A i \in 1..Len(longer) : i \in 1..Len(queue) \/ i = Len(queue) + 1
  BY AppendPlaces
<1> HIDE DEF longer
<1>2. Carries(longer, c) <=> Carries(queue, c) \/ message.command = c
  BY <1>1 DEF Carries
<1>3. Holds(longer, c) <=> Holds(queue, c) \/ message.msgId = c
  BY <1>1 DEF Holds
<1> QED
  BY <1>2, <1>3 DEF longer

LEMMA TailCarries ==
    ASSUME NEW queue \in Seq(Message), queue # <<>>, NEW c
    PROVE  /\ Carries(queue, c) <=> Head(queue).command = c \/ Carries(Tail(queue), c)
           /\ Holds(queue, c) <=> Head(queue).msgId = c \/ Holds(Tail(queue), c)
<1> DEFINE rest == Tail(queue)
<1>1. /\ Head(queue) = queue[1]
      /\ 1 \in 1..Len(queue)
      /\ \A i \in 1..Len(rest) : (i + 1) \in 1..Len(queue) /\ rest[i] = queue[i + 1]
      /\ \A i \in 1..Len(queue) :
           i = 1 \/ ((i - 1) \in 1..Len(rest) /\ rest[i - 1] = queue[i])
  BY TailPlaces
<1> HIDE DEF rest
<1>2. Carries(queue, c) <=> Head(queue).command = c \/ Carries(rest, c)
  <2>1. ASSUME NEW i \in 1..Len(queue), queue[i].command = c
        PROVE  Head(queue).command = c \/ Carries(rest, c)
    BY <1>1, <2>1 DEF Carries
  <2>2. ASSUME NEW i \in 1..Len(rest), rest[i].command = c
        PROVE  Carries(queue, c)
    BY <1>1, <2>2 DEF Carries
  <2>3. Head(queue).command = c => Carries(queue, c)
    BY <1>1 DEF Carries
  <2> QED
    BY <2>1, <2>2, <2>3 DEF Carries
<1>3. Holds(queue, c) <=> Head(queue).msgId = c \/ Holds(rest, c)
  <2>1. ASSUME NEW i \in 1..Len(queue), queue[i].msgId = c
        PROVE  Head(queue).msgId = c \/ Holds(rest, c)
    BY <1>1, <2>1 DEF Holds
  <2>2. ASSUME NEW i \in 1..Len(rest), rest[i].msgId = c
        PROVE  Holds(queue, c)
    BY <1>1, <2>2 DEF Holds
  <2>3. Head(queue).msgId = c => Holds(queue, c)
    BY <1>1 DEF Holds
  <2> QED
    BY <2>1, <2>2, <2>3 DEF Holds
<1> QED
  BY <1>2, <1>3 DEF rest

LEMMA AppendConfigures ==
    ASSUME NEW queue \in Seq(Message), NEW message \in Message, NEW configured,
           QueueConfigures(queue, configured),
           message.command = "advertisingOn" =>
               \A c \in Configurations : Arrives(queue, configured, c)
    PROVE  QueueConfigures(Append(queue, message), configured)
<1> DEFINE longer == Append(queue, message)
<1>1. /\ \A i \in 1..Len(queue) : i \in 1..Len(longer) /\ longer[i] = queue[i]
      /\ longer[Len(queue) + 1] = message
      /\ (Len(queue) + 1) \in 1..Len(longer)
      /\ \A i \in 1..Len(longer) : i \in 1..Len(queue) \/ i = Len(queue) + 1
      /\ \A i \in 1..Len(queue) : i < Len(queue) + 1
  BY AppendPlaces
<1> HIDE DEF longer
<1>2. SUFFICES ASSUME NEW k \in 1..Len(longer), longer[k].command = "advertisingOn",
                      NEW c \in Configurations, c \notin configured
               PROVE  \E j \in 1..Len(longer) :
                          j < k /\ longer[j].command \in {c, "startDfu"}
  BY DEF QueueConfigures, longer
<1>3. CASE k \in 1..Len(queue)
  BY <1>1, <1>2, <1>3 DEF QueueConfigures
<1>4. CASE k = Len(queue) + 1
  BY <1>1, <1>2, <1>4 DEF Arrives, Carries
<1> QED
  BY <1>1, <1>3, <1>4

LEMMA TailConfigures ==
    ASSUME NEW queue \in Seq(Message), queue # <<>>, NEW configured,
           QueueConfigures(queue, configured),
           Head(queue).command # "startDfu"
    PROVE  LET after == configured \cup ({Head(queue).command} \cap Configurations)
           IN /\ QueueConfigures(Tail(queue), after)
              /\ \A c \in Configurations :
                   Arrives(queue, configured, c) => Arrives(Tail(queue), after, c)
              /\ Head(queue).command = "advertisingOn" => Configurations \subseteq configured
<1> DEFINE rest == Tail(queue)
           after == configured \cup ({Head(queue).command} \cap Configurations)
<1>1. /\ Head(queue) = queue[1]
      /\ 1 \in 1..Len(queue)
      /\ \A i \in 1..Len(rest) : (i + 1) \in 1..Len(queue) /\ rest[i] = queue[i + 1]
      /\ \A i \in 1..Len(queue) :
           i = 1 \/ ((i - 1) \in 1..Len(rest) /\ rest[i - 1] = queue[i] /\ i > 1)
      /\ Len(queue) \in Nat /\ Len(rest) \in Nat
  BY TailPlaces
<1>2. \A c \in Configurations : c \notin after => c \notin configured /\ queue[1].command # c
  BY <1>1
<1>3. Head(queue).command = "advertisingOn" => Configurations \subseteq configured
  BY <1>1 DEF QueueConfigures
<1> HIDE DEF rest, after
<1>4. QueueConfigures(rest, after)
  <2> SUFFICES ASSUME NEW k \in 1..Len(rest), rest[k].command = "advertisingOn",
                      NEW c \in Configurations, c \notin after
               PROVE  \E j \in 1..Len(rest) :
                          j < k /\ rest[j].command \in {c, "startDfu"}
    BY DEF QueueConfigures
  <2>1. PICK j \in 1..Len(queue) : j < k + 1 /\ queue[j].command \in {c, "startDfu"}
    BY <1>1, <1>2 DEF QueueConfigures
  <2>2. j # 1
    BY <1>1, <1>2, <2>1
  <2> QED
    BY <1>1, <2>1, <2>2
<1>5. \A c \in Configurations : Arrives(queue, configured, c) => Arrives(rest, after, c)
  BY <1>2, TailCarries, <1>1 DEF Arrives, rest, after
<1> QED
  BY <1>3, <1>4, <1>5 DEF rest, after

LEMMA NothingToConfigure ==
    ASSUME NEW queue, NEW configured, ~Carries(queue, "advertisingOn")
    PROVE  QueueConfigures(queue, configured)
BY DEF Carries, QueueConfigures

LEMMA AppendToggles ==
    ASSUME NEW queue \in Seq(Message), NEW message \in Message, NEW mode
    PROVE  LET longer == Append(queue, message)
           IN /\ message.command # "advertisingOff" /\ WillStart(queue, mode)
                    => WillStart(longer, mode)
              /\ message.command # "advertisingOn" /\ WillStop(queue) => WillStop(longer)
              /\ message.command = "advertisingOff" => WillStop(longer)
              /\ /\ message.command = "advertisingOn"
                 /\ mode = "idle" \/ Carries(queue, "advertisingOff")
                 => WillStart(longer, mode)
<1> DEFINE longer == Append(queue, message)
<1>1. /\ \A i \in 1..Len(queue) : i \in 1..Len(longer) /\ longer[i] = queue[i]
      /\ longer[Len(queue) + 1] = message
      /\ (Len(queue) + 1) \in 1..Len(longer)
      /\ \A i \in 1..Len(longer) : i \in 1..Len(queue) \/ i = Len(queue) + 1
      /\ \A i \in 1..Len(queue) : i < Len(queue) + 1
      /\ Len(queue) \in Nat
  BY AppendPlaces
<1> HIDE DEF longer
<1>2. ASSUME message.command # "advertisingOff", WillStart(queue, mode)
      PROVE  WillStart(longer, mode)
  BY <1>1, <1>2 DEF WillStart
<1>3. ASSUME message.command # "advertisingOn", WillStop(queue)
      PROVE  WillStop(longer)
  BY <1>1, <1>3 DEF WillStop
<1>4. ASSUME message.command = "advertisingOff"
      PROVE  WillStop(longer)
  BY <1>1, <1>4 DEF WillStop
<1>5. ASSUME message.command = "advertisingOn",
             mode = "idle" \/ Carries(queue, "advertisingOff")
      PROVE  WillStart(longer, mode)
  BY <1>1, <1>5 DEF WillStart, Carries
<1> QED
  BY <1>2, <1>3, <1>4, <1>5 DEF longer

(* The last toggle of the queue takes effect. *)
LEMMA LastTakesEffect ==
    ASSUME NEW queue \in Seq(Message), NEW mode
    PROVE  /\ /\ LastToggle(queue, "advertisingOn")
              /\ mode = "idle" \/ Carries(queue, "advertisingOff")
              => WillStart(queue, mode)
           /\ LastToggle(queue, "advertisingOff") => WillStop(queue)
<1>1. ASSUME LastToggle(queue, "advertisingOn"),
             mode = "idle" \/ Carries(queue, "advertisingOff")
      PROVE  WillStart(queue, mode)
  <2>1. PICK k \in 1..Len(queue) :
          /\ queue[k].command = "advertisingOn"
          /\ \A j \in 1..Len(queue) : j > k => queue[j].command \notin Toggles
    BY <1>1 DEF LastToggle
  <2>2. \A j \in 1..Len(queue) : queue[j].command = "advertisingOff" => j < k
    BY <2>1 DEF Toggles
  <2>3. \A l \in 1..Len(queue) : l > k => queue[l].command # "advertisingOff"
    BY <2>1 DEF Toggles
  <2> QED
    BY <1>1, <2>1, <2>2, <2>3 DEF WillStart, Carries
<1>2. ASSUME LastToggle(queue, "advertisingOff")
      PROVE  WillStop(queue)
  BY <1>2 DEF LastToggle, WillStop, Toggles
<1> QED
  BY <1>1, <1>2

(* What the head of the queue does to an idle, advertising or connected    *)
(* chip, and what is left to be done.                                      *)
LEMMA TailToggles ==
    ASSUME NEW queue \in Seq(Message), queue # <<>>, NEW mode \in Executes
    PROVE  LET command == Head(queue).command
               after == ModeAfter(mode, command)
           IN /\ WillStart(queue, mode)
                   => \/ WillStart(Tail(queue), after)
                      \/ Answers(mode, command) = <<"advertisingStarted">>
                      \/ command = "startDfu"
              /\ WillStop(queue)
                   => \/ WillStop(Tail(queue))
                      \/ after = "idle" /\ ~Carries(Tail(queue), "advertisingOn")
<1> DEFINE rest == Tail(queue)
           command == Head(queue).command
           after == ModeAfter(mode, command)
<1>1. /\ Head(queue) = queue[1]
      /\ 1 \in 1..Len(queue)
      /\ \A i \in 1..Len(rest) : (i + 1) \in 1..Len(queue) /\ rest[i] = queue[i + 1]
      /\ \A i \in 1..Len(queue) :
           i = 1 \/ ((i - 1) \in 1..Len(rest) /\ rest[i - 1] = queue[i] /\ i > 1)
      /\ Len(queue) \in Nat /\ Len(rest) \in Nat
  BY TailPlaces
<1>2. /\ command = "advertisingOff" => after = "idle"
      /\ mode = "idle" => \/ after = "idle"
                          \/ Answers(mode, command) = <<"advertisingStarted">>
                          \/ command = "startDfu"
      /\ command = "advertisingOn" =>
            mode # "idle" \/ Answers(mode, command) = <<"advertisingStarted">>
  BY DEF ModeAfter, Answers, Executes
<1> HIDE DEF rest, after
<1>3. ASSUME WillStart(queue, mode),
             Answers(mode, command) # <<"advertisingStarted">>, command # "startDfu"
      PROVE  WillStart(rest, after)
  <2>1. PICK k \in 1..Len(queue) :
          /\ queue[k].command = "advertisingOn"
          /\ \A l \in 1..Len(queue) : l > k => queue[l].command # "advertisingOff"
          /\ \/ mode = "idle"
             \/ \E j \in 1..Len(queue) : j < k /\ queue[j].command = "advertisingOff"
    BY <1>3 DEF WillStart
  <2>2. k # 1
    BY <1>1, <1>2, <1>3, <2>1
  <2>3. /\ (k - 1) \in 1..Len(rest) /\ rest[k - 1].command = "advertisingOn"
        /\ \A l \in 1..Len(rest) : l > k - 1 => rest[l].command # "advertisingOff"
     <3>1. (k - 1) \in 1..Len(rest) /\ rest[k - 1].command = "advertisingOn"
       BY <1>1, <2>1, <2>2
     <3>2. ASSUME NEW l \in 1..Len(rest), l > k - 1
           PROVE  rest[l].command # "advertisingOff"
       <4>1. (l + 1) \in 1..Len(queue) /\ l + 1 > k
         BY <1>1, <3>2
       <4> QED
         BY <1>1, <2>1, <4>1
     <3> QED
       BY <3>1, <3>2
  <2>4. after = "idle" \/ \E j \in 1..Len(rest) :
                              j < k - 1 /\ rest[j].command = "advertisingOff"
    <3>1. CASE mode = "idle"
      BY <1>2, <1>3, <3>1
    <3>2. ASSUME NEW j \in 1..Len(queue), j < k, queue[j].command = "advertisingOff"
          PROVE  after = "idle" \/ \E i \in 1..Len(rest) :
                              i < k - 1 /\ rest[i].command = "advertisingOff"
      <4>1. CASE j = 1
        BY <1>1, <1>2, <3>2, <4>1
      <4>2. CASE j # 1
        <5>1. (j - 1) \in 1..Len(rest) /\ rest[j - 1].command = "advertisingOff"
          BY <1>1, <3>2, <4>2
        <5>2. j - 1 < k - 1
          BY <3>2
        <5> QED
          BY <5>1, <5>2
      <4> QED
        BY <4>1, <4>2
    <3> QED
      BY <2>1, <3>1, <3>2
  <2> QED
    BY <2>3, <2>4 DEF WillStart
<1>4. ASSUME WillStop(queue)
      PROVE  WillStop(rest) \/ (after = "idle" /\ ~Carries(rest, "advertisingOn"))
  <2>1. PICK k \in 1..Len(queue) :
          /\ queue[k].command = "advertisingOff"
          /\ \A l \in 1..Len(queue) : l > k => queue[l].command # "advertisingOn"
    BY <1>4 DEF WillStop
  <2>2. CASE k = 1
    <3>1. ~Carries(rest, "advertisingOn")
      BY <1>1, <2>1, <2>2 DEF Carries
    <3> QED
      BY <1>1, <1>2, <2>1, <2>2, <3>1
  <2>3. CASE k # 1
    <3>1. /\ (k - 1) \in 1..Len(rest) /\ rest[k - 1].command = "advertisingOff"
          /\ \A l \in 1..Len(rest) : l > k - 1 => rest[l].command # "advertisingOn"
       <4>1. (k - 1) \in 1..Len(rest) /\ rest[k - 1].command = "advertisingOff"
         BY <1>1, <2>1, <2>3
       <4>2. ASSUME NEW l \in 1..Len(rest), l > k - 1
             PROVE  rest[l].command # "advertisingOn"
         <5>1. (l + 1) \in 1..Len(queue) /\ l + 1 > k
           BY <1>1, <4>2
         <5> QED
           BY <1>1, <2>1, <5>1
       <4> QED
         BY <4>1, <4>2
    <3> QED
      BY <3>1 DEF WillStop
  <2> QED
    BY <2>2, <2>3
<1> QED
  BY <1>3, <1>4 DEF rest, after

-----------------------------------------------------------------------------
(* Lemmas about the events of the chip. *)

LEMMA EventsType == FrameInv => Events \in Seq(ChipEvents) /\ NoEvent \notin ChipEvents
<1> SUFFICES ASSUME FrameInv PROVE Events \in Seq(ChipEvents) /\ NoEvent \notin ChipEvents
  OBVIOUS
<1>1. NoEvent \notin ChipEvents
  BY DEF NoEvent, ChipEvents
<1>2. CASE frame = NoEvent
  BY <1>1, <1>2 DEF Events, FrameInv
<1>3. CASE frame # NoEvent
  <2>1. frame \in ChipEvents /\ frames \in Seq(ChipEvents)
    BY <1>3 DEF FrameInv
  <2>2. <<frame>> \o frames \in Seq(ChipEvents)
    BY <2>1
  <2> QED
    BY <1>1, <1>3, <2>2 DEF Events
<1> QED
  BY <1>2, <1>3

LEMMA EventsAdded ==
    ASSUME FrameInv, NEW answers \in Seq(ChipEvents),
           \/ frame' = frame /\ frames' = frames \o answers
           \/ /\ frame = NoEvent /\ frames # <<>>
              /\ frame' = Head(frames) /\ frames' = Tail(frames) \o answers
    PROVE  Events' = Events \o answers
<1>1. frames \in Seq(ChipEvents) /\ NoEvent \notin ChipEvents
  BY EventsType DEF FrameInv
<1>2. CASE frame' = frame /\ frames' = frames \o answers
  <2>1. CASE frame = NoEvent
    BY <1>2, <2>1 DEF Events
  <2>2. CASE frame # NoEvent
    <3>1. frame \in ChipEvents
      BY <2>2 DEF FrameInv
    <3>2. Events' = <<frame>> \o (frames \o answers)
      BY <1>2, <2>2 DEF Events
    <3>3. Events = <<frame>> \o frames
      BY <2>2 DEF Events
    <3>4. <<frame>> \o (frames \o answers) = (<<frame>> \o frames) \o answers
      BY <1>1, <3>1
    <3> QED
      BY <3>2, <3>3, <3>4
  <2> QED
    BY <2>1, <2>2
<1>3. CASE /\ frame = NoEvent /\ frames # <<>>
           /\ frame' = Head(frames) /\ frames' = Tail(frames) \o answers
  <2>1. Head(frames) \in ChipEvents /\ Tail(frames) \in Seq(ChipEvents)
    BY <1>1, <1>3
  <2>2. Events' = <<Head(frames)>> \o (Tail(frames) \o answers)
    BY <1>1, <1>3, <2>1 DEF Events
  <2>3. Events = frames
    BY <1>3 DEF Events
  <2>4. <<Head(frames)>> \o (Tail(frames) \o answers) = (<<Head(frames)>> \o Tail(frames)) \o answers
    BY <2>1
  <2>5. <<Head(frames)>> \o Tail(frames) = frames
    BY <1>1, <1>3
  <2> QED
    BY <2>2, <2>3, <2>4, <2>5
<1> QED
  BY <1>2, <1>3

LEMMA EventHandled ==
    ASSUME FrameInv, frame # NoEvent, frame' = NoEvent, frames' = frames
    PROVE  Events # <<>> /\ Events[1] = frame /\ Events' = Tail(Events)
<1>1. frame \in ChipEvents /\ frames \in Seq(ChipEvents)
  BY DEF FrameInv
<1>2. Events = <<frame>> \o frames /\ Events' = frames
  BY DEF Events
<1> QED
  BY <1>1, <1>2

LEMMA EventsKept ==
    ASSUME UNCHANGED <<frame, frames>>
    PROVE  Events' = Events
BY DEF Events

LEMMA AddedPlaces ==
    ASSUME NEW events \in Seq(ChipEvents), NEW event \in ChipEvents
    PROVE  LET longer == events \o <<event>>
           IN /\ longer # <<>>
              /\ Len(longer) = Len(events) + 1
              /\ Len(events) \in Nat
              /\ \A i \in 1..Len(events) : i \in 1..Len(longer) /\ longer[i] = events[i]
              /\ longer[Len(events) + 1] = event
              /\ (Len(events) + 1) \in 1..Len(longer)
              /\ \A i \in 1..Len(longer) : i \in 1..Len(events) \/ i = Len(events) + 1
              /\ events = <<>> <=> Len(events) = 0
OBVIOUS

LEMMA AddedLinked ==
    ASSUME NEW events \in Seq(ChipEvents), NEW event \in ChipEvents, NEW mode,
           mode \in Before(event)
    PROVE  LET longer == events \o <<event>>
           IN /\ Linked(events, mode) => Linked(longer, After(event))
              /\ \A first : From(first, events, mode) => From(first, longer, After(event))
<1> DEFINE longer == events \o <<event>>
<1>1. /\ longer # <<>>
      /\ Len(longer) = Len(events) + 1
      /\ Len(events) \in Nat
      /\ \A i \in 1..Len(events) : i \in 1..Len(longer) /\ longer[i] = events[i]
      /\ longer[Len(events) + 1] = event
      /\ (Len(events) + 1) \in 1..Len(longer)
      /\ \A i \in 1..Len(longer) : i \in 1..Len(events) \/ i = Len(events) + 1
      /\ events = <<>> <=> Len(events) = 0
  BY AddedPlaces
<1> HIDE DEF longer
<1>2. ASSUME Linked(events, mode)
      PROVE  Linked(longer, After(event))
  <2>1. ASSUME NEW i \in 1..Len(longer), NEW j \in 1..Len(longer), j = i + 1
        PROVE  After(longer[i]) \in Before(longer[j])
    <3>1. i \in 1..Len(events)
      BY <1>1, <2>1
    <3>2. CASE j \in 1..Len(events)
      BY <1>1, <1>2, <2>1, <3>1, <3>2 DEF Linked
    <3>3. CASE j = Len(events) + 1
      <4>1. i = Len(events) /\ events # <<>>
        BY <1>1, <2>1, <3>1, <3>3
      <4>2. After(longer[i]) = mode
        BY <1>1, <1>2, <3>1, <4>1 DEF Linked
      <4> QED
        BY <1>1, <3>3, <4>2
    <3> QED
      BY <1>1, <3>2, <3>3
  <2>2. longer[Len(longer)] = event
    BY <1>1
  <2> QED
    BY <2>1, <2>2 DEF Linked
<1>3. ASSUME NEW first, From(first, events, mode)
      PROVE  From(first, longer, After(event))
  <2>1. CASE events = <<>>
    BY <1>1, <1>3, <2>1 DEF From
  <2>2. CASE events # <<>>
    <3>1. 1 \in 1..Len(events)
      BY <1>1, <2>2
    <3> QED
      BY <1>1, <1>3, <2>2, <3>1 DEF From
  <2> QED
    BY <2>1, <2>2
<1> QED
  BY <1>2, <1>3 DEF longer

LEMMA LengthOfSeq ==
    ASSUME NEW S, NEW seq \in Seq(S)
    PROVE  Len(seq) \in Nat /\ (seq = <<>> <=> Len(seq) = 0)
OBVIOUS

LEMMA RestLinked ==
    ASSUME NEW events \in Seq(ChipEvents), events # <<>>, NEW mode, Linked(events, mode)
    PROVE  /\ Linked(Tail(events), mode)
           /\ From(After(events[1]), Tail(events), mode)
<1> DEFINE rest == Tail(events)
<1>1. /\ 1 \in 1..Len(events)
      /\ Len(rest) = Len(events) - 1
      /\ \A i \in 1..Len(rest) : (i + 1) \in 1..Len(events) /\ rest[i] = events[i + 1]
      /\ Len(rest) \in Nat
      /\ rest = <<>> <=> Len(rest) = 0
  <2>1. rest \in Seq(ChipEvents)
    BY TailPlaces
  <2>2. Len(rest) \in Nat /\ (rest = <<>> <=> Len(rest) = 0)
    BY <2>1, LengthOfSeq
  <2> QED
    BY <2>2, TailPlaces
<1> HIDE DEF rest
<1>2. \A i, j \in 1..Len(rest) : j = i + 1 => After(rest[i]) \in Before(rest[j])
  BY <1>1 DEF Linked
<1>3. rest # <<>> => After(rest[Len(rest)]) = mode
  <2> SUFFICES ASSUME rest # <<>> PROVE After(rest[Len(rest)]) = mode
    OBVIOUS
  <2>1. Len(rest) \in 1..Len(rest) /\ Len(rest) + 1 = Len(events)
    BY <1>1
  <2> QED
    BY <1>1, <2>1 DEF Linked
<1>4. From(After(events[1]), rest, mode)
  <2>1. CASE rest = <<>>
    <3>1. Len(events) = 1
      BY <1>1, <2>1
    <3> QED
      BY <2>1, <3>1 DEF From, Linked
  <2>2. CASE rest # <<>>
    <3>1. 1 \in 1..Len(rest) /\ 2 \in 1..Len(events) /\ 2 = 1 + 1 /\ rest[1] = events[2]
      BY <1>1, <2>2
    <3>2. After(events[1]) \in Before(events[2])
      BY <1>1, <3>1 DEF Linked
    <3> QED
      BY <2>2, <3>1, <3>2 DEF From
  <2> QED
    BY <2>1, <2>2
<1> QED
  BY <1>2, <1>3, <1>4 DEF Linked, rest

(* After enteredDfu the chip has nothing to tell any more.                 *)
LEMMA DfuIsLast ==
    ASSUME NEW events \in Seq(ChipEvents), NEW mode, Linked(events, mode),
           NEW i \in 1..Len(events), events[i] = "enteredDfu"
    PROVE  mode = "dfu"
<1>1. CASE i = Len(events)
  BY <1>1 DEF Linked, After
<1>2. CASE i # Len(events)
  <2>1. (i + 1) \in 1..Len(events)
    BY <1>2
  <2>2. "dfu" \in Before(events[i + 1])
    BY <2>1 DEF Linked, After
  <2> QED
    BY <2>2 DEF Before
<1> QED
  BY <1>1, <1>2

(* What an idle chip tells next, when it did not restart. *)
LEMMA IdleTellsNext ==
    ASSUME NEW events \in Seq(ChipEvents), NEW mode, Linked(events, mode),
           From("idle", events, mode)
    PROVE  \/ mode \in {"idle", "dfu"}
           \/ \E i \in 1..Len(events) : events[i] = "advertisingStarted"
<1>1. CASE events = <<>>
  BY <1>1 DEF From
<1>2. CASE events # <<>>
  <2>1. 1 \in 1..Len(events) /\ events[1] \in ChipEvents
    BY <1>2
  <2>2. "idle" \in Before(events[1])
    BY <1>2 DEF From
  <2>3. events[1] \in {"advertisingStarted", "enteredDfu"}
    BY <2>1, <2>2 DEF Before, ChipEvents
  <2> QED
    BY <2>1, <2>3, DfuIsLast
<1> QED
  BY <1>1, <1>2

LEMMA AnswersLinked ==
    ASSUME NEW mode \in Modes \ {"reset", "booting"}, NEW command
    PROVE  \/ Answers(mode, command) = <<>> /\ ModeAfter(mode, command) = mode
           \/ \E event \in ChipEvents \ {"started"} :
                /\ Answers(mode, command) = <<event>>
                /\ mode \in Before(event)
                /\ ModeAfter(mode, command) = After(event)
<1>1. CASE Answers(mode, command) = <<>>
  BY <1>1 DEF ModeAfter
<1>2. CASE command = "advertisingOn" /\ mode = "idle"
  <2>1. Answers(mode, command) = <<"advertisingStarted">>
    BY <1>2 DEF Answers
  <2>2. ModeAfter(mode, command) = "advertising"
    BY <2>1 DEF ModeAfter
  <2> QED
    BY <1>2, <2>1, <2>2 DEF Before, After, ChipEvents
<1>3. CASE command = "advertisingOff" /\ mode = "advertising"
  <2>1. Answers(mode, command) = <<"advertisingStopped">>
    BY <1>3 DEF Answers
  <2>2. ModeAfter(mode, command) = "idle"
    BY <2>1 DEF ModeAfter
  <2> QED
    BY <1>3, <2>1, <2>2 DEF Before, After, ChipEvents
<1>4. CASE command = "advertisingOff" /\ mode = "connected"
  <2>1. Answers(mode, command) = <<"disconnected">>
    BY <1>4 DEF Answers
  <2>2. ModeAfter(mode, command) = "idle"
    BY <2>1 DEF ModeAfter
  <2> QED
    BY <1>4, <2>1, <2>2 DEF Before, After, ChipEvents
<1>5. CASE command = "startDfu" /\ mode # "dfu"
  <2>1. Answers(mode, command) = <<"enteredDfu">>
    BY <1>5 DEF Answers
  <2>2. ModeAfter(mode, command) = "dfu"
    BY <2>1 DEF ModeAfter
  <2> QED
    BY <1>5, <2>1, <2>2 DEF Before, After, ChipEvents
<1> QED
  BY <1>1, <1>2, <1>3, <1>4, <1>5 DEF Answers

-----------------------------------------------------------------------------
(* What the state machine does with an event. *)

LEMMA TargetIs ==
    ASSUME NEW t \in Transitions, NEW state \in t.from
    PROVE  Target(state, t.on) = t.to
<1>1. \A u \in Transitions : u.on = t.on /\ state \in u.from => u.to = t.to
  BY DEF Transitions, LeafTransitions, States, Ready, Advertisable
<1>2. \E u \in Transitions : u.on = t.on /\ state \in u.from
  OBVIOUS
<1>3. LET u == CHOOSE u \in Transitions : u.on = t.on /\ state \in u.from
      IN u \in Transitions /\ u.on = t.on /\ state \in u.from
  BY <1>2
<1> QED
  BY <1>1, <1>2, <1>3 DEF Target

LEMMA TargetStays ==
    ASSUME NEW state, NEW event,
           \A t \in Transitions : t.on = event => state \notin t.from
    PROVE  Target(state, event) = state
BY DEF Target

LEMMA Joined ==
    /\ <<>> \o <<>> \o <<>> = <<>>
    /\ Configuration \o <<>> \o <<>> = Configuration
    /\ \A a \in STRING :
         /\ <<a>> \o <<>> \o <<>> = <<a>>
         /\ <<>> \o <<a>> \o <<>> = <<a>>
         /\ <<>> \o <<>> \o <<a>> = <<a>>
    /\ \A i \in 1..Len(<<"POWEROFF">> \o <<"advertisingOff">> \o <<>>) :
         (<<"POWEROFF">> \o <<"advertisingOff">> \o <<>>)[i] \in {"POWEROFF", "advertisingOff"}
<1>1. Configuration \o <<>> \o <<>> = Configuration
  BY Constants
<1>2. ASSUME NEW a \in STRING
      PROVE  /\ <<a>> \o <<>> \o <<>> = <<a>>
             /\ <<>> \o <<a>> \o <<>> = <<a>>
             /\ <<>> \o <<>> \o <<a>> = <<a>>
  OBVIOUS
<1>3. \A i \in 1..Len(<<"POWEROFF">> \o <<"advertisingOff">> \o <<>>) :
         (<<"POWEROFF">> \o <<"advertisingOff">> \o <<>>)[i] \in {"POWEROFF", "advertisingOff"}
  OBVIOUS
<1>4. <<>> \o <<>> \o <<>> = <<>>
  OBVIOUS
<1> QED
  BY <1>1, <1>2, <1>3, <1>4

Moves(event, orders) ==
    \/ /\ fsm = "Off" /\ event = "init" /\ fsm' = "On" /\ orders = <<"INIT">>
    \/ /\ event = "powerOff" /\ fsm' = "Off"
       /\ \A order : Among(order, orders) => order \in {"POWEROFF", "advertisingOff"}
    \/ /\ fsm = "On" /\ event = "started" /\ fsm' = "Started" /\ orders = <<>>
    \/ /\ fsm \notin {"Off", "Dfu"} /\ event = "enteredDfu" /\ fsm' = "Dfu"
       /\ orders \in {<<>>, <<"advertisingOff">>}
    \/ /\ fsm = "Started" /\ event = "configure" /\ fsm' = "Configured"
       /\ orders = Configuration
    \/ /\ fsm = "Configured" /\ event = "enableBle" /\ fsm' = "StartingAdvertising"
       /\ orders = <<"advertisingOn">>
    \/ /\ fsm \in Advertisable /\ event = "disableBle" /\ fsm' = "Configured"
       /\ orders = <<"advertisingOff">>
    \/ /\ fsm = "StartingAdvertising" /\ event = "advertisingStarted"
       /\ fsm' = "Advertising" /\ orders = <<>>
    \/ /\ fsm = "Advertising" /\ event = "connected" /\ fsm' = "Connected"
       /\ orders = <<>>
    \/ /\ \/ fsm = "Advertising" /\ event = "advertisingStopped"
          \/ fsm = "Connected" /\ event = "disconnected"
       /\ fsm' = "StartingAdvertising" /\ orders = <<"advertisingOn">>

Stays(event, orders) ==
    /\ fsm' = fsm
    /\ orders \in {<<>>, <<"data">>}
    /\ orders # <<>> => fsm \notin {"Off", "On"}
    /\ fsm = "Off" => event # "init"
    /\ event = "powerOff" => fsm = "Off"
    /\ fsm = "On" => event # "started"
    /\ event = "enteredDfu" => fsm \in {"Off", "Dfu"}
    /\ fsm = "StartingAdvertising" => event # "advertisingStarted"
    /\ fsm = "Advertising" => event \notin {"connected", "advertisingStopped"}
    /\ fsm = "Connected" => event # "disconnected"

LEMMA ReceiveCases ==
    ASSUME NrfInv, NEW task, NEW event, receive(task, event),
           fsm \in Ready => event # "started"
    PROVE  todo = <<>> /\ (Moves(event, todo') \/ Stays(event, todo'))
<1> DEFINE target == Target(fsm, event)
           handler == HandlerOrders(fsm, event, Configuration)
           exit == ExitOrders(fsm, target)
           entry == EntryOrders(fsm, target)
<1>1. /\ fsm \in States
      /\ todo = <<>>
      /\ fsm' = target
      /\ todo' = handler \o exit \o entry
  BY DEF receive, NrfInv, TypeOK, OrdersUnderMutex, Orders
<1>2. CASE \A t \in Transitions : t.on = event => fsm \notin t.from
  <2>1. target = fsm
    BY <1>2, TargetStays
  <2>2. exit = <<>> /\ entry = <<>>
    BY <2>1 DEF ExitOrders, EntryOrders
  <2>3. /\ ~(fsm = "Off" /\ event = "init")
        /\ ~(fsm # "Off" /\ event = "powerOff")
        /\ ~(fsm = "Started" /\ event = "configure")
        /\ ~(fsm = "On" /\ event = "started")
        /\ event = "enteredDfu" => fsm \in {"Off", "Dfu"}
        /\ ~(fsm = "StartingAdvertising" /\ event = "advertisingStarted")
        /\ ~(fsm = "Advertising" /\ event = "connected")
        /\ ~(fsm = "Advertising" /\ event = "advertisingStopped")
        /\ ~(fsm = "Connected" /\ event = "disconnected")
    BY <1>1, <1>2 DEF Transitions, LeafTransitions
  <2>4. ~Configures(fsm, event)
    BY <2>3 DEF Configures
  <2>5. /\ handler \in {<<>>, <<"data">>}
        /\ handler # <<>> => fsm \notin {"Off", "On"}
    BY <2>3, <2>4 DEF HandlerOrders, Ready, Advertisable
  <2> HIDE DEF handler, exit, entry
  <2>6. todo' = handler
    BY <1>1, <2>2, <2>5, Joined
  <2>7. Stays(event, todo')
    BY <1>1, <2>1, <2>3, <2>5, <2>6 DEF Stays
  <2> QED
    BY <1>1, <2>7
<1>3. ASSUME NEW t \in Transitions, t.on = event, fsm \in t.from
      PROVE  Moves(event, todo') \/ Stays(event, todo')
  <2>1. target = t.to
    BY <1>3, TargetIs
  <2> HIDE DEF target
  <2>2. CASE event = "init"
    <3>1. fsm = "Off" /\ target = "On"
      BY <1>3, <2>1, <2>2 DEF Transitions, LeafTransitions
    <3>2. handler = <<"INIT">> /\ exit = <<>> /\ entry = <<>>
      BY <2>2, <3>1 DEF HandlerOrders, ExitOrders, EntryOrders, Configures, Advertisable
    <3> HIDE DEF handler, exit, entry
    <3> QED
      BY <1>1, <2>2, <3>1, <3>2, Joined DEF Moves
  <2>3. CASE event = "powerOff"
    <3>1. fsm # "Off" /\ target = "Off"
      BY <1>3, <2>1, <2>3 DEF Transitions, LeafTransitions
    <3>2. handler = <<"POWEROFF">> /\ exit \in {<<>>, <<"advertisingOff">>} /\ entry = <<>>
      BY <2>3, <3>1 DEF HandlerOrders, ExitOrders, EntryOrders, Configures
    <3> HIDE DEF handler, exit, entry
    <3>3. ASSUME exit = <<>>, NEW order, Among(order, todo')
          PROVE  order \in {"POWEROFF", "advertisingOff"}
      <4>1. todo' = <<"POWEROFF">>
        BY <1>1, <3>2, <3>3, Joined
      <4> QED
        BY <3>3, <4>1 DEF Among
    <3>4. ASSUME exit = <<"advertisingOff">>, NEW order, Among(order, todo')
          PROVE  order \in {"POWEROFF", "advertisingOff"}
      <4>1. todo' = <<"POWEROFF">> \o <<"advertisingOff">> \o <<>>
        BY <1>1, <3>2, <3>4
      <4> QED
        BY <3>4, <4>1, Joined DEF Among
    <3>5. \A order : Among(order, todo') => order \in {"POWEROFF", "advertisingOff"}
      BY <3>2, <3>3, <3>4
    <3> QED
      BY <1>1, <2>3, <3>1, <3>5 DEF Moves
  <2>4. CASE event = "started"
    <3>1. fsm = "On" /\ target = "Started"
      BY <1>3, <2>1, <2>4 DEF Transitions, LeafTransitions, Ready
    <3>2. handler = <<>> /\ exit = <<>> /\ entry = <<>>
      BY <2>4, <3>1
         DEF HandlerOrders, ExitOrders, EntryOrders, Configures, Ready, Advertisable
    <3> HIDE DEF handler, exit, entry
    <3> QED
      BY <1>1, <2>4, <3>1, <3>2, Joined DEF Moves
  <2>5. CASE event = "enteredDfu"
    <3>1. fsm \notin {"Off", "Dfu"} /\ target = "Dfu"
      BY <1>3, <2>1, <2>5 DEF Transitions, LeafTransitions
    <3>2. handler = <<>> /\ exit \in {<<>>, <<"advertisingOff">>} /\ entry = <<>>
      BY <2>5, <3>1 DEF HandlerOrders, ExitOrders, EntryOrders, Configures
    <3> HIDE DEF handler, exit, entry
    <3>3. todo' \in {<<>>, <<"advertisingOff">>}
      BY <1>1, <3>2, Joined
    <3> QED
      BY <1>1, <2>5, <3>1, <3>3 DEF Moves
  <2>6. CASE event = "configure"
    <3>1. fsm = "Started" /\ target = "Configured"
      BY <1>3, <2>1, <2>6 DEF Transitions, LeafTransitions
    <3>2. handler = Configuration /\ exit = <<>> /\ entry = <<>>
      BY <2>6, <3>1 DEF HandlerOrders, ExitOrders, EntryOrders, Configures, Advertisable
    <3> HIDE DEF handler, exit, entry
    <3> QED
      BY <1>1, <2>6, <3>1, <3>2, Joined DEF Moves
  <2>7. CASE event = "enableBle"
    <3>1. fsm = "Configured" /\ target = "StartingAdvertising"
      BY <1>3, <2>1, <2>7 DEF Transitions, LeafTransitions
    <3>2. handler = <<>> /\ exit = <<>> /\ entry = <<"advertisingOn">>
      BY <2>7, <3>1 DEF HandlerOrders, ExitOrders, EntryOrders, Configures, Advertisable
    <3> HIDE DEF handler, exit, entry
    <3> QED
      BY <1>1, <2>7, <3>1, <3>2, Joined DEF Moves
  <2>8. CASE event = "disableBle"
    <3>1. fsm \in Advertisable /\ target = "Configured"
      BY <1>3, <2>1, <2>8 DEF Transitions, LeafTransitions
    <3>2. handler = <<>> /\ exit = <<"advertisingOff">> /\ entry = <<>>
      BY <2>8, <3>1 DEF HandlerOrders, ExitOrders, EntryOrders, Configures, Advertisable
    <3> HIDE DEF handler, exit, entry
    <3> QED
      BY <1>1, <2>8, <3>1, <3>2, Joined DEF Moves
  <2>9. CASE event = "advertisingStarted"
    <3>1. fsm = "StartingAdvertising" /\ target = "Advertising"
      BY <1>3, <2>1, <2>9 DEF Transitions, LeafTransitions
    <3>2. handler = <<>> /\ exit = <<>> /\ entry = <<>>
      BY <2>9, <3>1 DEF HandlerOrders, ExitOrders, EntryOrders, Configures, Advertisable
    <3> HIDE DEF handler, exit, entry
    <3> QED
      BY <1>1, <2>9, <3>1, <3>2, Joined DEF Moves
  <2>10. CASE event = "connected"
    <3>1. fsm = "Advertising" /\ target = "Connected"
      BY <1>3, <2>1, <2>10 DEF Transitions, LeafTransitions
    <3>2. handler = <<>> /\ exit = <<>> /\ entry = <<>>
      BY <2>10, <3>1 DEF HandlerOrders, ExitOrders, EntryOrders, Configures, Advertisable
    <3> HIDE DEF handler, exit, entry
    <3> QED
      BY <1>1, <2>10, <3>1, <3>2, Joined DEF Moves
  <2>11. CASE event \in {"advertisingStopped", "disconnected"}
    <3>1. /\ \/ fsm = "Advertising" /\ event = "advertisingStopped"
             \/ fsm = "Connected" /\ event = "disconnected"
          /\ target = "StartingAdvertising"
      BY <1>3, <2>1, <2>11 DEF Transitions, LeafTransitions
    <3>2. handler = <<>> /\ exit = <<>> /\ entry = <<"advertisingOn">>
      BY <2>11, <3>1 DEF HandlerOrders, ExitOrders, EntryOrders, Configures, Advertisable
    <3> HIDE DEF handler, exit, entry
    <3> QED
      BY <1>1, <3>1, <3>2, Joined DEF Moves
  <2>12. event \in {"init", "powerOff", "started", "enteredDfu", "configure", "enableBle",
                    "disableBle", "advertisingStarted", "connected",
                    "advertisingStopped", "disconnected"}
    BY <1>3 DEF Transitions, LeafTransitions
  <2> QED
    BY <2>2, <2>3, <2>4, <2>5, <2>6, <2>7, <2>8, <2>9, <2>10, <2>11, <2>12
<1> QED
  BY <1>1, <1>2, <1>3

(* The orders of an event, told by what they are about. *)
LEMMA OrdersAre ==
    /\ \A order : ~Among(order, <<>>)
    /\ \A order : Among(order, <<"INIT">>) <=> order = "INIT"
    /\ \A order : Among(order, <<"data">>) <=> order = "data"
    /\ \A order : Among(order, <<"advertisingOn">>) <=> order = "advertisingOn"
    /\ \A order : Among(order, <<"advertisingOff">>) <=> order = "advertisingOff"
    /\ \A order : Among(order, Configuration) <=> order \in Configurations
    /\ \A order \in Configurations :
         order \notin {"INIT", "POWEROFF", "FORCEDFU", "none", "data",
                      "advertisingOn", "advertisingOff", "startDfu"}
<1>1. \A order : Among(order, Configuration) <=> order \in Configurations
  BY NrfAssumption DEF Among, Configurations, Range
<1>2. \A order \in Configurations :
         order \notin {"INIT", "POWEROFF", "FORCEDFU", "none", "data",
                      "advertisingOn", "advertisingOff", "startDfu"}
  BY NrfAssumption DEF Configurations, Range
<1>3. /\ \A order : ~Among(order, <<>>)
      /\ \A order : Among(order, <<"INIT">>) <=> order = "INIT"
      /\ \A order : Among(order, <<"data">>) <=> order = "data"
      /\ \A order : Among(order, <<"advertisingOn">>) <=> order = "advertisingOn"
      /\ \A order : Among(order, <<"advertisingOff">>) <=> order = "advertisingOff"
  BY DEF Among
<1> QED
  BY <1>1, <1>2, <1>3

-----------------------------------------------------------------------------
(* The start, kept by every step of a reliable chip. *)

LEMMA ComesPlaces ==
    ASSUME NEW events \in Seq(ChipEvents), events # <<>>
    PROVE  /\ events[1] \in ChipEvents
           /\ \E i \in 1..Len(events) : events[i] = events[1]
           /\ \A i \in 1..Len(Tail(events)) :
                \E j \in 1..Len(events) : events[j] = Tail(events)[i]
           /\ Tail(<<"started">>) = <<>>
OBVIOUS

(* An event is received: from a task, or the first one of the chip. *)
Heard(event) ==
    \/ UNCHANGED <<frame, frames>> /\ event \notin ChipEvents
    \/ frame # NoEvent /\ event = frame /\ frame' = NoEvent /\ frames' = frames

LEMMA HeardOK ==
    ASSUME NrfInv, NEW event, Heard(event)
    PROVE  /\ Events \in Seq(ChipEvents)
           /\ \/ Events' = Events /\ event \notin ChipEvents
              \/ /\ Events # <<>> /\ event = Events[1] /\ Events' = Tail(Events)
                 /\ event \in ChipEvents /\ frame # NoEvent
           /\ \A e : Comes(e)' => Comes(e)
<1>1. FrameInv /\ Events \in Seq(ChipEvents)
  BY NrfInvParts, EventsType
<1>2. CASE UNCHANGED <<frame, frames>> /\ event \notin ChipEvents
  BY <1>1, <1>2, EventsKept DEF Comes
<1>3. CASE frame # NoEvent /\ event = frame /\ frame' = NoEvent /\ frames' = frames
  <2>1. Events # <<>> /\ event = Events[1] /\ Events' = Tail(Events)
    BY <1>1, <1>3, EventHandled
  <2> QED
    BY <1>1, <1>3, <2>1, ComesPlaces DEF Comes
<1> QED
  BY <1>1, <1>2, <1>3 DEF Heard

LEMMA NotStartedAgain ==
    ASSUME NrfInv, Starting, NEW event, Heard(event), fsm \in Ready
    PROVE  event # "started"
<1>1. "started" \in ChipEvents
  BY DEF ChipEvents
<1> QED
  BY <1>1, HeardOK, ComesPlaces DEF Starting, Comes

(* What the tasks' own state says about the event. *)
Driven(event) ==
    /\ power' \in {"configure", "run", "off"}
    /\ power = "init" <=> event = "init"
    /\ power' = "off" <=> power = "off" \/ event = "powerOff"

LEMMA ReceiveKeepsStart ==
    ASSUME NrfInv, StartInv, NEW task, NEW event, receive(task, event),
           UNCHANGED <<mQueue, chip>>, Heard(event), Driven(event)
    PROVE  StartInv'
<1>1. /\ Unstarted /\ ResetAhead /\ SwitchedOff /\ Starting /\ Chosen
      /\ fsm \in States /\ power \in {"init", "configure", "run", "off"}
  BY DEF StartInv, NrfInv, TypeOK
<1>2. fsm \in Ready => event # "started"
  BY <1>1, NotStartedAgain
<1>3. todo = <<>> /\ (Moves(event, todo') \/ Stays(event, todo'))
  BY <1>2, ReceiveCases
<1>4. /\ Events \in Seq(ChipEvents)
      /\ \/ Events' = Events /\ event \notin ChipEvents
         \/ /\ Events # <<>> /\ event = Events[1] /\ Events' = Tail(Events)
            /\ event \in ChipEvents /\ frame # NoEvent
      /\ \A e : Comes(e)' => Comes(e)
  BY HeardOK
<1>5. /\ InitAhead <=> Holds(mQueue, "INIT")
      /\ InitAhead' <=> Among("INIT", todo') \/ Holds(mQueue, "INIT")
  BY <1>3, OrdersAre DEF InitAhead
<1>6. /\ Among("INIT", todo') => fsm = "Off" /\ event = "init" /\ todo' = <<"INIT">> /\ fsm' = "On"
      /\ event = "init" /\ fsm = "Off" => Among("INIT", todo') /\ fsm' = "On"
      /\ Among("POWEROFF", todo') => event = "powerOff"
      /\ event = "powerOff" => fsm' = "Off"
      /\ Among("advertisingOn", todo') => fsm' = "StartingAdvertising"
      /\ Among("advertisingOff", todo') => fsm' # "StartingAdvertising"
      /\ ~Among("startDfu", todo') /\ ~Among("FORCEDFU", todo')
  <2>1. CASE Moves(event, todo')
    BY <2>1, OrdersAre DEF Moves
  <2>2. CASE Stays(event, todo')
    BY <2>2, OrdersAre DEF Stays
  <2> QED
    BY <1>3, <2>1, <2>2
<1>7. Unstarted'
  BY DEF Driven, Unstarted
<1>8. ResetAhead'
  <2>1. Among("INIT", todo') => todo' = <<"INIT">> /\ mQueue = <<>>
    BY <1>1, <1>6 DEF Driven, Unstarted
  <2>2. CASE Among("INIT", todo')
    <3>1. /\ mQueue = <<>> /\ chip.mode = "reset" /\ frame = NoEvent /\ frames = <<>>
      BY <1>1, <1>6, <2>2 DEF Driven, Unstarted
    <3>2. frame' = NoEvent /\ frames' = <<>>
      BY <3>1 DEF Heard
    <3>3. ~Carries(mQueue', "advertisingOn") /\ ~Holds(mQueue', "FORCEDFU")
      BY <3>1 DEF Carries, Holds
    <3> QED
      BY <1>1, <1>6, <2>1, <2>2, <3>1, <3>2, <3>3 DEF ResetAhead
  <2>3. CASE Holds(mQueue, "INIT")
    <3>1. /\ fsm \in {"On", "Off"}
          /\ ~Carries(mQueue, "advertisingOn") /\ ~Holds(mQueue, "FORCEDFU")
          /\ chip.mode = "reset" /\ frame = NoEvent /\ frames = <<>>
      BY <1>1, <1>5, <2>3 DEF ResetAhead
    <3>2. event \notin ChipEvents /\ frame' = NoEvent /\ frames' = <<>>
      BY <1>4, <3>1 DEF Heard
    <3>3. fsm' \in {"On", "Off"}
      BY <1>3, <3>1, <3>2 DEF Moves, Stays, ChipEvents, Advertisable
    <3> QED
      BY <1>1, <2>1, <3>1, <3>2, <3>3 DEF ResetAhead
  <2> QED
    BY <1>1, <1>5, <2>1, <2>2, <2>3 DEF ResetAhead
<1>9. SwitchedOff'
  <2>1. power' = "off" => fsm' = "Off"
    <3>1. CASE event = "powerOff"
      BY <1>6, <3>1
    <3>2. CASE power = "off"
      <4>1. fsm = "Off" /\ event # "init"
        BY <1>1, <3>2 DEF SwitchedOff, Driven
      <4> QED
        BY <1>3, <4>1 DEF Moves, Stays, Advertisable
    <3> QED
      BY <3>1, <3>2 DEF Driven
  <2>2. fsm' = "Off" => power' \in {"init", "off"}
    <3>1. fsm' = "Off" => event = "powerOff" \/ (fsm = "Off" /\ event # "init")
      BY <1>3 DEF Moves, Stays
    <3> QED
      BY <1>1, <3>1 DEF SwitchedOff, Driven
  <2>3. Holds(mQueue, "POWEROFF") => power' = "off"
    BY <1>1 DEF SwitchedOff, Driven
  <2>4. Among("POWEROFF", todo') => power' = "off"
    BY <1>6 DEF Driven
  <2> QED
    BY <2>1, <2>2, <2>3, <2>4 DEF SwitchedOff
<1>10. Starting'
  <2>1. fsm' = "On" => \/ chip.mode = "reset" /\ InitAhead' /\ Events' = <<>>
                       \/ chip.mode = "booting" /\ Events' = <<>>
                       \/ chip.mode = "idle" /\ Events' = <<"started">>
    <3>1. CASE event = "init" /\ fsm = "Off"
      <4>1. chip.mode = "reset" /\ frame = NoEvent /\ frames = <<>>
        BY <1>1, <3>1 DEF Driven, Unstarted
      <4>2. Events = <<>>
        BY <4>1 DEF Events
      <4>3. Events' = <<>>
        BY <1>4, <4>2
      <4> QED
        BY <1>5, <1>6, <3>1, <4>1, <4>3
    <3>2. CASE fsm = "On" /\ event # "started"
      <4>1. Events' = Events
        BY <1>1, <1>4, <3>2 DEF Starting
      <4> QED
        BY <1>1, <1>5, <3>2, <4>1 DEF Starting
    <3>3. fsm' = "On" => (event = "init" /\ fsm = "Off") \/ (fsm = "On" /\ event # "started")
      BY <1>3 DEF Moves, Stays
    <3> QED
      BY <3>1, <3>2, <3>3
  <2>2. fsm' = "Started" => chip.mode = "idle" /\ Events' = <<>>
    <3>1. CASE fsm = "On" /\ event = "started"
      <4>1. event \in ChipEvents
        BY <3>1 DEF ChipEvents
      <4>2. Events = <<"started">> /\ chip.mode = "idle" /\ Events' = Tail(Events)
        BY <1>1, <1>4, <3>1, <4>1 DEF Starting
      <4>3. Events' = <<>>
        BY <1>4, <4>2, ComesPlaces
      <4> QED
        BY <4>2, <4>3
    <3>2. CASE fsm = "Started"
      BY <1>1, <1>4, <3>2 DEF Starting
    <3>3. fsm' = "Started" => (fsm = "On" /\ event = "started") \/ fsm = "Started"
      BY <1>3 DEF Moves, Stays
    <3> QED
      BY <3>1, <3>2, <3>3
  <2>3. fsm' \in Ready => chip.mode \notin {"reset", "booting"} /\ ~Comes("started")'
    <3>1. CASE fsm = "Started"
      <4>1. chip.mode = "idle" /\ Events = <<>>
        BY <1>1, <3>1 DEF Starting
      <4>2. ~Comes("started")
        BY <4>1 DEF Comes
      <4> QED
        BY <1>4, <4>1, <4>2
    <3>2. CASE fsm \in Ready
      BY <1>1, <1>4, <3>2 DEF Starting
    <3>3. fsm' \in Ready => fsm = "Started" \/ fsm \in Ready
      BY <1>3 DEF Moves, Stays, Ready, Advertisable
    <3> QED
      BY <3>1, <3>2, <3>3
  <2>4. fsm' \in {"On", "Started"} =>
          /\ ~Carries(mQueue, "advertisingOn") /\ ~Carries(mQueue, "startDfu")
          /\ ~Holds(mQueue, "FORCEDFU")
    <3>1. fsm' \in {"On", "Started"} =>
             fsm \in {"On", "Started"} \/ (fsm = "Off" /\ event = "init")
      BY <1>3 DEF Moves, Stays
    <3>2. event = "init" => mQueue = <<>>
      BY <1>1 DEF Driven, Unstarted
    <3> QED
      BY <1>1, <3>1, <3>2 DEF Starting, Carries, Holds
  <2> QED
    BY <1>1, <2>1, <2>2, <2>3, <2>4 DEF Starting
<1>11. Chosen'
  BY <1>6 DEF Chosen
<1> QED
  BY <1>7, <1>8, <1>9, <1>10, <1>11 DEF StartInv

LEMMA AppendInitFirst ==
    ASSUME NEW queue \in Seq(Message), NEW message \in Message, InitFirst(queue),
           message.msgId # "INIT" \/ queue = <<>>
    PROVE  InitFirst(Append(queue, message))
<1> DEFINE longer == Append(queue, message)
<1>1. /\ \A i \in 1..Len(queue) : longer[i] = queue[i]
      /\ longer[Len(queue) + 1] = message
      /\ \A i \in 1..Len(longer) : i \in 1..Len(queue) \/ i = Len(queue) + 1
      /\ queue = <<>> => Len(queue) + 1 = 1
  BY AppendPlaces
<1> HIDE DEF longer
<1>2. InitFirst(longer)
  BY <1>1 DEF InitFirst
<1> QED
  BY <1>2 DEF longer

LEMMA TailInitFirst ==
    ASSUME NEW queue \in Seq(Message), queue # <<>>, InitFirst(queue)
    PROVE  InitFirst(Tail(queue)) /\ ~Holds(Tail(queue), "INIT")
<1>1. \A i \in 1..Len(Tail(queue)) : Tail(queue)[i].msgId # "INIT"
  <2> SUFFICES ASSUME NEW i \in 1..Len(Tail(queue)), Tail(queue)[i].msgId = "INIT"
               PROVE  FALSE
    OBVIOUS
  <2>1. (i + 1) \in 1..Len(queue) /\ Tail(queue)[i] = queue[i + 1]
    BY TailPlaces
  <2>2. i + 1 = 1
    BY <2>1 DEF InitFirst
  <2> QED
    BY <2>2
<1> QED
  BY <1>1 DEF InitFirst, Holds

(* The interrupt's message says nothing about the chip's commands. *)
LEMMA IsrAddsNothing ==
    ASSUME NEW queue \in Seq(Message), NEW pending, NEW answers
    PROVE  LET next == DataToSendIsr(queue, pending, answers)
           IN /\ next \in Seq(Message)
              /\ \A c : c # "none" => (Carries(next, c) <=> Carries(queue, c))
              /\ \A id : id # "DATATOSSEND" => (Holds(next, id) <=> Holds(queue, id))
              /\ InitFirst(queue) => InitFirst(next)
              /\ \A configured :
                   QueueConfigures(queue, configured) => QueueConfigures(next, configured)
              /\ \A mode : WillStart(queue, mode) => WillStart(next, mode)
              /\ WillStop(queue) => WillStop(next)
<1> DEFINE next == DataToSendIsr(queue, pending, answers)
           message == Signal("DATATOSSEND")
<1>1. next = queue \/ next = Append(queue, message)
  BY DEF DataToSendIsr
<1>2. message \in Message /\ message.command = "none" /\ message.msgId = "DATATOSSEND"
  BY MessageOK DEF Ids, Signal
<1> HIDE DEF next, message
<1>3. CASE next = Append(queue, message)
  <2>1. next \in Seq(Message)
    BY <1>2, <1>3, AppendPlaces
  <2>2. \A c : /\ Carries(next, c) <=> Carries(queue, c) \/ message.command = c
               /\ Holds(next, c) <=> Holds(queue, c) \/ message.msgId = c
    BY <1>2, <1>3, AppendCarries
  <2>3. InitFirst(queue) => InitFirst(next)
    BY <1>2, <1>3, AppendInitFirst
  <2>4. \A configured :
          QueueConfigures(queue, configured) => QueueConfigures(next, configured)
    BY <1>2, <1>3, AppendConfigures
  <2>5. /\ \A mode : WillStart(queue, mode) => WillStart(next, mode)
        /\ WillStop(queue) => WillStop(next)
    BY <1>2, <1>3, AppendToggles
  <2> QED
    BY <1>2, <2>1, <2>2, <2>3, <2>4, <2>5 DEF next
<1>4. CASE next = queue
  BY <1>4 DEF next
<1> QED
  BY <1>1, <1>3, <1>4

(* What GiveOrder makes of an order. *)
Given(message, order) ==
    /\ message \in Message
    /\ order \in Signals => message.msgId = order /\ message.command = "none"
    /\ order \notin Signals => message.msgId = "SEND_COMMAND" /\ message.command = order

LEMMA OrderGiven ==
    ASSUME NrfInv, GiveOrder
    PROVE  /\ todo # <<>> /\ todo' = Tail(todo)
           /\ Head(todo) = todo[1] /\ 1 \in 1..Len(todo)
           /\ \A order : Among(order, todo) <=> order = Head(todo) \/ Among(order, todo')
           /\ UNCHANGED <<fsm, power, frame, chip, frames>>
           /\ mQueue \in Seq(Message)
           /\ \/ mQueue' = mQueue
              \/ \E message : Given(message, Head(todo)) /\ mQueue' = Append(mQueue, message)
           /\ HasRoom /\ (free # {} \/ Head(todo) \in Signals)
                => \E message : Given(message, Head(todo)) /\ mQueue' = Append(mQueue, message)
<1> DEFINE order == Head(todo)
<1>1. /\ todo # <<>> /\ todo \in Seq(Signals \cup Commands)
      /\ todo' = Tail(todo)
      /\ UNCHANGED <<fsm, power, frame, chip, frames>>
      /\ mQueue \in Seq(Message) /\ free \subseteq Packets
      /\ IF order \in Signals THEN postSignal(order) ELSE sendCommand(order)
  BY DEF GiveOrder, NrfInv, TypeOK, chipVars
<1>2. /\ order = todo[1] /\ 1 \in 1..Len(todo) /\ order \in Signals \cup Commands
      /\ \A i \in 1..Len(Tail(todo)) : (i + 1) \in 1..Len(todo) /\ Tail(todo)[i] = todo[i + 1]
      /\ \A i \in 1..Len(todo) :
           i = 1 \/ ((i - 1) \in 1..Len(Tail(todo)) /\ Tail(todo)[i - 1] = todo[i])
  BY <1>1, TailPlaces
<1>3. \A o : Among(o, todo) <=> o = order \/ Among(o, todo')
  <2>1. \A o : Among(o, todo) => o = order \/ Among(o, todo')
    BY <1>1, <1>2 DEF Among
  <2>2. \A o : o = order => Among(o, todo)
    BY <1>2 DEF Among
  <2>3. \A o : Among(o, todo') => Among(o, todo)
    BY <1>1, <1>2 DEF Among
  <2> QED
    BY <2>1, <2>2, <2>3
<1>4. CASE order \in Signals
  <2>1. Given(Signal(order), order)
    BY <1>4, MessageOK DEF Given, Signal, Ids
  <2> QED
    BY <1>1, <1>2, <1>3, <1>4, <2>1 DEF postSignal
<1>5. CASE order \notin Signals
  <2>1. order \in Commands
    BY <1>2, <1>5
  <2>2. \A packet \in free : Given(SendCommand(packet, order), order)
    BY <1>1, <1>5, <2>1, MessageOK DEF Given, SendCommand
  <2>3. \/ UNCHANGED <<mQueue, free>> /\ ~(HasRoom /\ free # {})
        \/ \E packet \in free : mQueue' = Append(mQueue, SendCommand(packet, order))
    BY <1>1, <1>5 DEF sendCommand
  <2> QED
    BY <1>1, <1>2, <1>3, <1>5, <2>2, <2>3
<1> QED
  BY <1>4, <1>5

LEMMA GiveOrderKeepsStart ==
    ASSUME NrfInv, StartInv, GiveOrder
    PROVE  StartInv'
<1> DEFINE order == Head(todo)
<1>1. /\ Unstarted /\ ResetAhead /\ SwitchedOff /\ Starting /\ Chosen
  BY DEF StartInv
<1>2. /\ todo # <<>> /\ todo' = Tail(todo)
      /\ \A o : Among(o, todo) <=> o = order \/ Among(o, todo')
      /\ UNCHANGED <<fsm, power, frame, chip, frames>>
      /\ mQueue \in Seq(Message)
      /\ \/ mQueue' = mQueue
         \/ \E message : Given(message, order) /\ mQueue' = Append(mQueue, message)
      /\ HasRoom /\ order \in Signals
           => \E message : Given(message, order) /\ mQueue' = Append(mQueue, message)
  BY OrderGiven
<1>3. Events' = Events /\ \A e : Comes(e)' <=> Comes(e)
  BY <1>2, EventsKept DEF Comes
<1> HIDE DEF order
<1>4. /\ \A c : c # "none" => (Carries(mQueue', c) => Carries(mQueue, c) \/ order = c)
      /\ \A id : id # "SEND_COMMAND" => (Holds(mQueue', id) => Holds(mQueue, id) \/ order = id)
      /\ \A id : Holds(mQueue, id) => Holds(mQueue', id)
  <2>1. ASSUME NEW message, Given(message, order), mQueue' = Append(mQueue, message)
        PROVE  /\ \A c : Carries(mQueue', c) <=> Carries(mQueue, c) \/ message.command = c
               /\ \A c : Holds(mQueue', c) <=> Holds(mQueue, c) \/ message.msgId = c
    BY <1>2, <2>1, AppendCarries DEF Given
  <2> QED
    BY <1>2, <2>1 DEF Given
<1>5. Among("INIT", todo) => todo = <<"INIT">> /\ mQueue = <<>> /\ Holds(mQueue', "INIT")
  <2>1. SUFFICES ASSUME Among("INIT", todo)
                 PROVE  todo = <<"INIT">> /\ mQueue = <<>> /\ Holds(mQueue', "INIT")
    OBVIOUS
  <2>2. todo = <<"INIT">> /\ mQueue = <<>>
    BY <1>1, <2>1 DEF ResetAhead
  <2>3. order = "INIT" /\ HasRoom
    BY <2>2, QueueLenInt, NrfAssumption DEF order, HasRoom
  <2>4. PICK message : Given(message, order) /\ mQueue' = Append(mQueue, message)
    BY <1>2, <2>3 DEF Signals
  <2>5. Holds(mQueue', "INIT")
    BY <1>2, <2>3, <2>4, AppendCarries DEF Given, Signals
  <2> QED
    BY <2>2, <2>5
<1>6. ~Among("INIT", todo')
  <2>1. Among("INIT", todo) => todo' = <<>>
    BY <1>2, <1>5
  <2> QED
    BY <1>2, <2>1, OrdersAre
<1>7. InitFirst(mQueue')
  <2>1. ASSUME NEW message, Given(message, order), mQueue' = Append(mQueue, message)
        PROVE  InitFirst(mQueue')
    <3>1. message.msgId = "INIT" => order = "INIT"
      BY <2>1 DEF Given
    <3>2. order = "INIT" => mQueue = <<>>
      BY <1>2, <1>5
    <3> QED
      BY <1>1, <1>2, <2>1, <3>1, <3>2, AppendInitFirst DEF Given, ResetAhead
  <2> QED
    BY <1>1, <1>2, <2>1 DEF ResetAhead
<1>8. InitAhead' <=> InitAhead
  BY <1>2, <1>4, <1>5, <1>6 DEF InitAhead
<1>9. order = "advertisingOn" => fsm = "StartingAdvertising"
  BY <1>1, <1>2 DEF Chosen
<1>10. order \notin {"startDfu", "FORCEDFU"}
  BY <1>1, <1>2 DEF Chosen
<1>11. Unstarted'
  BY <1>1, <1>2 DEF Unstarted
<1>12. ResetAhead'
  BY <1>1, <1>2, <1>4, <1>6, <1>7, <1>8, <1>9, <1>10 DEF ResetAhead
<1>13. SwitchedOff'
  BY <1>1, <1>2, <1>4 DEF SwitchedOff
<1>14. Starting'
  <2>1. /\ fsm = "On" => \/ chip.mode = "reset" /\ InitAhead' /\ Events' = <<>>
                         \/ chip.mode = "booting" /\ Events' = <<>>
                         \/ chip.mode = "idle" /\ Events' = <<"started">>
        /\ fsm = "Started" => chip.mode = "idle" /\ Events' = <<>>
        /\ fsm \in Ready => chip.mode \notin {"reset", "booting"} /\ ~Comes("started")'
    BY <1>1, <1>3, <1>8 DEF Starting
  <2>2. fsm \in {"On", "Started"} =>
          /\ ~Carries(mQueue', "advertisingOn") /\ ~Carries(mQueue', "startDfu")
          /\ ~Holds(mQueue', "FORCEDFU")
    BY <1>1, <1>4, <1>9, <1>10 DEF Starting
  <2>3. chip.mode = "booting" => ~Carries(mQueue', "advertisingOn")
    BY <1>1, <1>4, <1>9 DEF Starting, Ready, Advertisable
  <2> QED
    BY <1>2, <2>1, <2>2, <2>3 DEF Starting
<1>15. Chosen'
  BY <1>1, <1>2 DEF Chosen
<1> QED
  BY <1>11, <1>12, <1>13, <1>14, <1>15 DEF StartInv

LEMMA UpdateKeepsStart ==
    ASSUME NrfInv, StartInv, enterDfu \/ forceDfu
    PROVE  StartInv'
<1>1. /\ Unstarted /\ ResetAhead /\ SwitchedOff /\ Starting /\ Chosen
      /\ mQueue \in Seq(Message) /\ free \subseteq Packets
  BY DEF StartInv, NrfInv, TypeOK
<1>2. /\ power = "run" /\ fsm \in Ready
      /\ UNCHANGED <<fsm, todo, power, frame, chip, frames>>
      /\ \/ mQueue' = mQueue
         \/ \E message \in Message :
              /\ mQueue' = Append(mQueue, message)
              /\ message.command \in {"none", "startDfu"}
              /\ message.msgId \in {"FORCEDFU", "SEND_COMMAND"}
  <2>1. CASE enterDfu
    <3>1. \A packet \in free :
            /\ SendCommand(packet, "startDfu") \in Message
            /\ SendCommand(packet, "startDfu").command = "startDfu"
            /\ SendCommand(packet, "startDfu").msgId = "SEND_COMMAND"
      BY <1>1, MessageOK DEF Commands, SendCommand
    <3>2. \/ mQueue' = mQueue
          \/ \E packet \in free : mQueue' = Append(mQueue, SendCommand(packet, "startDfu"))
      BY <2>1 DEF enterDfu, sendCommand
    <3> QED
      BY <2>1, <3>1, <3>2 DEF enterDfu, fsmVars, chipVars
  <2>2. CASE forceDfu
    <3>1. /\ Signal("FORCEDFU") \in Message
          /\ Signal("FORCEDFU").command = "none"
          /\ Signal("FORCEDFU").msgId = "FORCEDFU"
      BY MessageOK DEF Ids, Signals, Signal
    <3>2. mQueue' = mQueue \/ mQueue' = Append(mQueue, Signal("FORCEDFU"))
      BY <2>2 DEF forceDfu, postSignal
    <3> QED
      BY <2>2, <3>1, <3>2 DEF forceDfu, fsmVars, chipVars
  <2> QED
    BY <2>1, <2>2
<1>3. /\ fsm \notin {"Off", "On", "Started", "Dfu"}
      /\ chip.mode \notin {"reset", "booting"}
  BY <1>1, <1>2 DEF Ready, Advertisable, Starting
<1>4. ~InitAhead
  BY <1>1, <1>3 DEF ResetAhead
<1>5. /\ Holds(mQueue', "INIT") => Holds(mQueue, "INIT")
      /\ Holds(mQueue', "POWEROFF") => Holds(mQueue, "POWEROFF")
      /\ InitFirst(mQueue')
  <2>1. ASSUME NEW message \in Message, mQueue' = Append(mQueue, message),
               message.msgId \in {"FORCEDFU", "SEND_COMMAND"}
        PROVE  /\ \A c : Holds(mQueue', c) <=> Holds(mQueue, c) \/ message.msgId = c
               /\ InitFirst(mQueue')
    BY <1>1, <2>1, AppendCarries, AppendInitFirst DEF ResetAhead
  <2> QED
    BY <1>1, <1>2, <2>1 DEF ResetAhead
<1>6. Events' = Events /\ (Comes("started")' <=> Comes("started"))
  BY <1>2, EventsKept DEF Comes
<1>7. ~InitAhead' /\ ~Among("INIT", todo')
  BY <1>2, <1>4, <1>5 DEF InitAhead
<1>8. Unstarted' /\ ResetAhead'
  BY <1>2, <1>5, <1>7 DEF Unstarted, ResetAhead
<1>9. SwitchedOff'
  BY <1>1, <1>2, <1>5 DEF SwitchedOff
<1>10. Starting'
  BY <1>1, <1>2, <1>3, <1>6 DEF Starting
<1>11. Chosen'
  BY <1>1, <1>2 DEF Chosen
<1> QED
  BY <1>8, <1>9, <1>10, <1>11 DEF StartInv

LEMMA OneEvent ==
    ASSUME NEW events \in Seq(ChipEvents), NEW event \in ChipEvents
    PROVE  /\ <<event>> \in Seq(ChipEvents)
           /\ <<>> \o <<event>> = <<event>>
           /\ events \o <<>> = events
           /\ \A i \in 1..Len(events \o <<event>>) :
                \/ (events \o <<event>>)[i] = event
                \/ \E j \in 1..Len(events) : events[j] = (events \o <<event>>)[i]
           /\ \A j \in 1..Len(events) :
                \E i \in 1..Len(events \o <<event>>) : (events \o <<event>>)[i] = events[j]
           /\ \E i \in 1..Len(events \o <<event>>) : (events \o <<event>>)[i] = event
<1>1. /\ <<event>> \in Seq(ChipEvents)
      /\ <<>> \o <<event>> = <<event>>
      /\ events \o <<>> = events
  OBVIOUS
<1> QED
  BY <1>1, AddedPlaces

(* The chip does something by itself. *)
Moved(from, to, event) ==
    \/ from = {"booting"} /\ to = "idle" /\ event = "started"
    \/ from = {"advertising"} /\ to = "connected" /\ event = "connected"
    \/ from = {"connected"} /\ to = "idle" /\ event = "disconnected"
    \/ from = {"advertising"} /\ to = "idle" /\ event = "advertisingStopped"

LEMMA ChipDoesThis ==
    ASSUME NrfInv, NEW from, NEW to, NEW event, ChipDoes(from, to, <<event>>),
           Moved(from, to, event)
    PROVE  /\ chip.mode \in from /\ chip'.mode = to /\ chip'.configured = chip.configured
           /\ event \in ChipEvents
           /\ Events \in Seq(ChipEvents)
           /\ Events' = Events \o <<event>>
           /\ UNCHANGED <<fsm, todo, power>>
           /\ frame' = frame
           /\ mQueue \in Seq(Message)
           /\ mQueue' = DataToSendIsr(mQueue, frames, <<event>>)
<1>1. FrameInv /\ mQueue \in Seq(Message)
  BY NrfInvParts DEF QueueInv, QueueOK
<1>2. event \in ChipEvents
  BY DEF Moved, ChipEvents
<1>3. Events \in Seq(ChipEvents) /\ <<event>> \in Seq(ChipEvents)
  BY <1>1, <1>2, EventsType, OneEvent
<1>4. Events' = Events \o <<event>>
  BY <1>1, <1>3, EventsAdded DEF ChipDoes
<1> QED
  BY <1>1, <1>2, <1>3, <1>4 DEF ChipDoes, Chip, fsmVars

LEMMA ChipMoves ==
    ASSUME NEW from, NEW to, NEW event, Moved(from, to, event)
    PROVE  /\ \A mode \in from : mode \in {"booting", "advertising", "connected"}
           /\ \A mode \in from : mode = "booting" => event = "started" /\ to = "idle"
           /\ \A mode \in from : event = "started" => mode = "booting"
           /\ to \in {"idle", "connected"}
           /\ \A mode \in from : mode \in Before(event) /\ After(event) = to
           /\ \A mode \in from : to = "connected" => mode = "advertising"
BY DEF Moved, Before, After

LEMMA ChipDoesKeepsStart ==
    ASSUME NrfInv, StartInv, NEW from, NEW to, NEW event, ChipDoes(from, to, <<event>>),
           Moved(from, to, event)
    PROVE  StartInv'
<1>1. /\ Unstarted /\ ResetAhead /\ SwitchedOff /\ Starting /\ Chosen
  BY DEF StartInv
<1>2. /\ chip.mode \in from /\ chip'.mode = to
      /\ event \in ChipEvents
      /\ Events \in Seq(ChipEvents)
      /\ Events' = Events \o <<event>>
      /\ UNCHANGED <<fsm, todo, power>>
      /\ mQueue \in Seq(Message)
      /\ mQueue' = DataToSendIsr(mQueue, frames, <<event>>)
  BY ChipDoesThis
<1>3. /\ chip.mode \in {"booting", "advertising", "connected"}
      /\ chip.mode = "booting" => event = "started" /\ to = "idle"
      /\ event = "started" => chip.mode = "booting"
      /\ to \in {"idle", "connected"}
  BY <1>2, ChipMoves
<1>4. /\ \A c : c # "none" => (Carries(mQueue', c) <=> Carries(mQueue, c))
      /\ \A id : id # "DATATOSSEND" => (Holds(mQueue', id) <=> Holds(mQueue, id))
      /\ InitFirst(mQueue')
  BY <1>1, <1>2, IsrAddsNothing DEF ResetAhead
<1>5. ~InitAhead /\ ~InitAhead' /\ power # "init"
  BY <1>1, <1>2, <1>3, <1>4 DEF ResetAhead, InitAhead, Unstarted
<1>6. \A e : Comes(e)' => Comes(e) \/ e = event
  BY <1>2, OneEvent DEF Comes
<1>7. Unstarted' /\ ResetAhead'
  BY <1>2, <1>4, <1>5 DEF Unstarted, ResetAhead, InitAhead
<1>8. SwitchedOff' /\ Chosen'
  BY <1>1, <1>2, <1>4 DEF SwitchedOff, Chosen
<1>9. Starting'
  <2>1. fsm = "On" => chip'.mode = "idle" /\ Events' = <<"started">>
    BY <1>1, <1>2, <1>3, OneEvent DEF Starting
  <2>2. fsm # "Started"
    BY <1>1, <1>3 DEF Starting
  <2>3. fsm \in Ready => ~Comes("started")'
    BY <1>1, <1>3, <1>6 DEF Starting
  <2> QED
    BY <1>1, <1>2, <1>3, <1>4, <2>1, <2>2, <2>3 DEF Starting
<1> QED
  BY <1>7, <1>8, <1>9 DEF StartInv

LEMMA ChipKeepsStart ==
    ASSUME Reliable, NrfInv, StartInv, ChipTakesPart
    PROVE  StartInv'
<1>1. CASE ChipStarts
  BY <1>1, ChipDoesKeepsStart DEF ChipStarts, Moved
<1>2. CASE ChipConnects
  BY <1>2, ChipDoesKeepsStart DEF ChipConnects, Moved
<1>3. CASE ChipDisconnects
  BY <1>3, ChipDoesKeepsStart DEF ChipDisconnects, Moved
<1>4. CASE ChipStopsAdvertising
  BY <1>4, ChipDoesKeepsStart DEF ChipStopsAdvertising, Moved
<1>5. CASE ChipRestarts
  <2>1. /\ Unstarted /\ ResetAhead /\ SwitchedOff /\ Starting /\ Chosen
    BY DEF StartInv
  <2>2. /\ fsm = "Dfu" /\ mQueue = <<>> /\ chip'.mode = "booting"
        /\ UNCHANGED <<fsm, todo, power, mQueue, frame>>
    BY <1>5 DEF ChipRestarts, Reliable, Chip, fsmVars
  <2>3. ~InitAhead /\ ~InitAhead' /\ power # "init" /\ ~Among("INIT", todo')
    BY <2>1, <2>2 DEF ResetAhead, InitAhead, Unstarted
  <2>4. ~Carries(mQueue', "advertisingOn") /\ InitFirst(mQueue')
    BY <2>2 DEF Carries, InitFirst
  <2>5. Starting'
    BY <2>2, <2>4 DEF Starting, Ready, Advertisable
  <2> QED
    BY <2>1, <2>2, <2>3, <2>4, <2>5
       DEF StartInv, Unstarted, ResetAhead, SwitchedOff, Chosen
<1>6. ~FrameLost
  BY DEF FrameLost, Reliable
<1> QED
  BY <1>1, <1>2, <1>3, <1>4, <1>5, <1>6 DEF ChipTakesPart

(* What the task takes was in the queue, and the rest is left. *)
LEMMA Taken ==
    ASSUME NrfInv, ResetAhead, NEW id, Receives(id)
    PROVE  /\ mQueue \in Seq(Message) /\ mQueue # <<>> /\ Tail(mQueue) \in Seq(Message)
           /\ frame = NoEvent /\ sending = NoPacket
           /\ Head(mQueue).msgId = id /\ Holds(mQueue, id)
           /\ Carries(mQueue, Head(mQueue).command)
           /\ \A c : Carries(Tail(mQueue), c) => Carries(mQueue, c)
           /\ \A i : Holds(Tail(mQueue), i) => Holds(mQueue, i)
           /\ InitFirst(Tail(mQueue)) /\ ~Holds(Tail(mQueue), "INIT")
           /\ Holds(mQueue, "INIT") => id = "INIT"
           /\ ~Among("INIT", todo)
<1>1. mQueue \in Seq(Message) /\ mQueue # <<>> /\ frame = NoEvent /\ sending = NoPacket
      /\ Head(mQueue).msgId = id
  BY DEF Receives, Idle, NrfInv, TypeOK
<1>2. Tail(mQueue) \in Seq(Message)
  BY <1>1, TailPlaces
<1>3. \A c : /\ Carries(mQueue, c) <=> Head(mQueue).command = c \/ Carries(Tail(mQueue), c)
             /\ Holds(mQueue, c) <=> Head(mQueue).msgId = c \/ Holds(Tail(mQueue), c)
  BY <1>1, TailCarries
<1>4. InitFirst(Tail(mQueue)) /\ ~Holds(Tail(mQueue), "INIT")
  BY <1>1, TailInitFirst DEF ResetAhead
<1> QED
  BY <1>1, <1>2, <1>3, <1>4 DEF ResetAhead

LEMMA ResetsKeepStart ==
    ASSUME Reliable, NrfInv, StartInv, execInit \/ execPowerOff \/ execForceDfu
    PROVE  StartInv'
<1>1. /\ Unstarted /\ ResetAhead /\ SwitchedOff /\ Starting /\ Chosen
  BY DEF StartInv
<1>2. CASE execInit
  <2>1. /\ Receives("INIT") /\ mQueue' = Tail(mQueue)
        /\ chip'.mode = "booting" /\ frames' = <<>>
        /\ UNCHANGED <<fsm, todo, power, frame>>
    BY <1>2 DEF execInit, Chip, fsmVars
  <2>2. /\ mQueue # <<>> /\ frame = NoEvent /\ Holds(mQueue, "INIT")
        /\ \A c : Carries(Tail(mQueue), c) => Carries(mQueue, c)
        /\ \A i : Holds(Tail(mQueue), i) => Holds(mQueue, i)
        /\ InitFirst(Tail(mQueue)) /\ ~Holds(Tail(mQueue), "INIT")
        /\ ~Among("INIT", todo)
    BY <1>1, <2>1, Taken
  <2>3. fsm \in {"On", "Off"} /\ ~Carries(mQueue, "advertisingOn")
    BY <1>1, <2>2 DEF ResetAhead, InitAhead
  <2>4. Events' = <<>>
    BY <2>1, <2>2 DEF Events
  <2>5. ~InitAhead' /\ ~Among("INIT", todo') /\ power # "init"
    BY <1>1, <2>1, <2>2 DEF InitAhead, Unstarted
  <2>6. Starting'
    BY <1>1, <2>1, <2>2, <2>3, <2>4 DEF Starting, Ready, Advertisable
  <2> QED
    BY <1>1, <2>1, <2>2, <2>5, <2>6
       DEF StartInv, Unstarted, ResetAhead, SwitchedOff, Chosen
<1>3. CASE execPowerOff
  <2>1. /\ Receives("POWEROFF") /\ mQueue' = Tail(mQueue)
        /\ chip'.mode = "reset" /\ frames' = <<>>
        /\ UNCHANGED <<fsm, todo, power, frame>>
    BY <1>3 DEF execPowerOff, Chip
  <2>2. /\ mQueue # <<>> /\ Holds(mQueue, "POWEROFF")
        /\ \A i : Holds(Tail(mQueue), i) => Holds(mQueue, i)
        /\ InitFirst(Tail(mQueue)) /\ ~Holds(Tail(mQueue), "INIT")
        /\ ~Among("INIT", todo)
    BY <1>1, <2>1, Taken
  <2>3. fsm = "Off"
    BY <1>1, <2>2 DEF SwitchedOff
  <2>4. ~InitAhead' /\ ~Among("INIT", todo') /\ power # "init"
    BY <1>1, <2>1, <2>2 DEF InitAhead, Unstarted
  <2>5. Starting'
    BY <2>1, <2>3 DEF Starting, Ready, Advertisable
  <2> QED
    BY <1>1, <2>1, <2>2, <2>4, <2>5
       DEF StartInv, Unstarted, ResetAhead, SwitchedOff, Chosen
<1>4. CASE execForceDfu
  <2>1. /\ Receives("FORCEDFU")
        /\ mQueue' = DataToSendIsr(Tail(mQueue), <<>>, <<"enteredDfu">>)
        /\ chip'.mode = "dfu" /\ frames' = <<"enteredDfu">>
        /\ UNCHANGED <<fsm, todo, power, frame>>
    BY <1>4 DEF execForceDfu, Reliable, Chip, fsmVars
  <2>2. /\ mQueue # <<>> /\ Tail(mQueue) \in Seq(Message) /\ frame = NoEvent
        /\ Holds(mQueue, "FORCEDFU")
        /\ \A i : Holds(Tail(mQueue), i) => Holds(mQueue, i)
        /\ InitFirst(Tail(mQueue)) /\ ~Holds(Tail(mQueue), "INIT")
        /\ ~Among("INIT", todo)
    BY <1>1, <2>1, Taken
  <2>3. /\ \A id : id # "DATATOSSEND" => (Holds(mQueue', id) => Holds(mQueue, id))
        /\ InitFirst(mQueue') /\ ~Holds(mQueue', "INIT")
    BY <2>1, <2>2, IsrAddsNothing
  <2>4. fsm \notin {"On", "Started"}
    BY <1>1, <2>2 DEF Starting
  <2>5. ~InitAhead' /\ ~Among("INIT", todo') /\ power # "init"
    BY <1>1, <2>1, <2>2, <2>3 DEF InitAhead, Unstarted
  <2>6. ~Comes("started")'
    <3>1. Events' = <<"enteredDfu">>
      BY <2>1, <2>2 DEF Events
    <3> QED
      BY <3>1 DEF Comes
  <2>7. Starting'
    BY <2>1, <2>4, <2>6 DEF Starting
  <2>8. SwitchedOff'
    BY <1>1, <2>1, <2>3 DEF SwitchedOff
  <2> QED
    BY <1>1, <2>1, <2>3, <2>5, <2>7, <2>8
       DEF StartInv, Unstarted, ResetAhead, Chosen
<1> QED
  BY <1>2, <1>3, <1>4

(* A command is executed, or meets a chip that is not running.              *)
ChipExecutes(command) ==
    /\ chip.mode \notin {"reset", "booting"}
    /\ chip'.mode = ModeAfter(chip.mode, command)
    /\ chip'.configured = chip.configured \cup ({command} \cap Configurations)
    /\ Events' = Events \o Answers(chip.mode, command)
    /\ \E pending :
         mQueue' = DataToSendIsr(Tail(mQueue), pending, Answers(chip.mode, command))

Unheard ==
    /\ chip.mode \in {"reset", "booting"}
    /\ UNCHANGED <<chip, frame, frames>>
    /\ mQueue' = Tail(mQueue)

LEMMA CommandSent ==
    ASSUME Reliable, NrfInv, execSendCommand
    PROVE  /\ Receives("SEND_COMMAND")
           /\ UNCHANGED <<fsm, todo, power>>
           /\ ChipExecutes(Head(mQueue).command) \/ Unheard
<1> DEFINE command == Head(mQueue).command
           answers == Answers(chip.mode, command)
<1>1. /\ Receives("SEND_COMMAND") /\ frame = NoEvent
      /\ UNCHANGED <<fsm, todo, power>>
      /\ \/ Exchange(command, frames) /\ frame' = frame
         \/ frames # <<>> /\ Exchange(command, Tail(frames)) /\ frame' = Head(frames)
         \/ /\ chip.mode \in {"reset", "booting"}
            /\ mQueue' = Tail(mQueue)
            /\ UNCHANGED <<chip, frame, frames>>
  BY DEF execSendCommand, Receives, Idle, Reliable, fsmVars, chipVars
<1>2. FrameInv
  BY NrfInvParts
<1>3. answers \in Seq(ChipEvents)
  BY <1>2, AnswersOK DEF FrameInv
<1>4. ASSUME NEW pending, Exchange(command, pending)
      PROVE  /\ chip.mode \notin {"reset", "booting"}
             /\ chip'.mode = ModeAfter(chip.mode, command)
             /\ chip'.configured = chip.configured \cup ({command} \cap Configurations)
             /\ frames' = pending \o answers
             /\ mQueue' = DataToSendIsr(Tail(mQueue), pending, answers)
  BY <1>4 DEF Exchange, Executed, Configurations
<1> HIDE DEF command, answers
<1>5. CASE Exchange(command, frames) /\ frame' = frame
  <2>1. Events' = Events \o answers
    BY <1>2, <1>3, <1>4, <1>5, EventsAdded
  <2> QED
    BY <1>1, <1>4, <1>5, <2>1 DEF ChipExecutes, answers, command
<1>6. CASE frames # <<>> /\ Exchange(command, Tail(frames)) /\ frame' = Head(frames)
  <2>1. Events' = Events \o answers
    BY <1>1, <1>2, <1>3, <1>4, <1>6, EventsAdded
  <2> QED
    BY <1>1, <1>4, <1>6, <2>1 DEF ChipExecutes, answers, command
<1>7. CASE /\ chip.mode \in {"reset", "booting"}
           /\ mQueue' = Tail(mQueue)
           /\ UNCHANGED <<chip, frame, frames>>
  BY <1>1, <1>7 DEF Unheard
<1> QED
  BY <1>1, <1>5, <1>6, <1>7

LEMMA SendKeepsStart ==
    ASSUME Reliable, NrfInv, StartInv, execSendCommand
    PROVE  StartInv'
<1> DEFINE command == Head(mQueue).command
           answers == Answers(chip.mode, command)
<1>1. /\ Unstarted /\ ResetAhead /\ SwitchedOff /\ Starting /\ Chosen
  BY DEF StartInv
<1>2. /\ Receives("SEND_COMMAND")
      /\ UNCHANGED <<fsm, todo, power>>
      /\ ChipExecutes(command) \/ Unheard
  BY CommandSent
<1>3. /\ mQueue # <<>> /\ Tail(mQueue) \in Seq(Message)
      /\ Carries(mQueue, command)
      /\ \A c : Carries(Tail(mQueue), c) => Carries(mQueue, c)
      /\ \A i : Holds(Tail(mQueue), i) => Holds(mQueue, i)
      /\ InitFirst(Tail(mQueue)) /\ ~Holds(Tail(mQueue), "INIT")
      /\ Holds(mQueue, "INIT") => FALSE
      /\ ~Among("INIT", todo)
  BY <1>1, <1>2, Taken
<1>4. chip.mode \in Modes /\ Events \in Seq(ChipEvents)
  BY NrfInvParts, EventsType DEF FrameInv
<1> HIDE DEF command
<1>5. CASE ChipExecutes(command)
  <2>1. PICK pending : mQueue' = DataToSendIsr(Tail(mQueue), pending, answers)
    BY <1>5 DEF ChipExecutes
  <2>2. /\ \A c : c # "none" => (Carries(mQueue', c) => Carries(mQueue, c))
        /\ \A id : id # "DATATOSSEND" => (Holds(mQueue', id) => Holds(mQueue, id))
        /\ InitFirst(mQueue') /\ ~Holds(mQueue', "INIT")
    BY <1>3, <2>1, IsrAddsNothing
  <2>3. /\ chip.mode \notin {"reset", "booting"}
        /\ chip'.mode = ModeAfter(chip.mode, command)
        /\ Events' = Events \o answers
    BY <1>5 DEF ChipExecutes
  <2>4. \/ answers = <<>> /\ chip'.mode = chip.mode
        \/ \E event \in ChipEvents \ {"started"} :
             answers = <<event>> /\ chip'.mode = After(event)
    BY <1>4, <2>3, AnswersLinked
  <2>5. chip'.mode \notin {"reset", "booting"}
    BY <2>3, <2>4 DEF After
  <2>6. \A e : Comes(e)' => Comes(e) \/ e # "started"
    <3>1. CASE answers = <<>>
      BY <1>4, <2>3, <3>1 DEF Comes
    <3>2. ASSUME NEW event \in ChipEvents \ {"started"}, answers = <<event>>
          PROVE  \A e : Comes(e)' => Comes(e) \/ e = event
      BY <1>4, <2>3, <3>2, OneEvent DEF Comes
    <3> QED
      BY <2>4, <3>1, <3>2
  <2>7. fsm \in {"On", "Started"} => chip'.mode = chip.mode /\ Events' = Events
    <3> SUFFICES ASSUME fsm \in {"On", "Started"}
                 PROVE  chip'.mode = chip.mode /\ Events' = Events
      OBVIOUS
    <3>1. chip.mode = "idle" /\ command \notin {"advertisingOn", "startDfu"}
      BY <1>1, <1>3, <2>3 DEF Starting
    <3>2. answers = <<>>
      BY <3>1 DEF Answers
    <3>3. ModeAfter(chip.mode, command) = chip.mode
      BY <3>2 DEF ModeAfter
    <3>4. Events \o <<>> = Events
      BY <1>4
    <3> QED
      BY <2>3, <3>2, <3>3, <3>4
  <2> HIDE DEF answers
  <2>8. ~InitAhead /\ ~InitAhead' /\ ~Among("INIT", todo') /\ power # "init"
    BY <1>1, <1>2, <1>3, <2>2 DEF InitAhead, Unstarted
  <2>9. Starting'
    BY <1>1, <1>2, <2>2, <2>3, <2>5, <2>6, <2>7 DEF Starting
  <2>10. SwitchedOff'
    BY <1>1, <1>2, <2>2 DEF SwitchedOff
  <2> QED
    BY <1>1, <1>2, <2>2, <2>8, <2>9, <2>10 DEF StartInv, Unstarted, ResetAhead, Chosen
<1>6. CASE Unheard
  <2>1. /\ mQueue' = Tail(mQueue) /\ UNCHANGED <<fsm, todo, power, chip, frame, frames>>
        /\ Events' = Events /\ (Comes("started")' <=> Comes("started"))
    BY <1>2, <1>6, EventsKept DEF Unheard, Comes
  <2>2. ~InitAhead /\ ~InitAhead' /\ ~Among("INIT", todo') /\ power # "init"
    BY <1>1, <1>3, <2>1 DEF InitAhead, Unstarted
  <2>3. Starting'
    BY <1>1, <1>3, <2>1, <2>2 DEF Starting
  <2> QED
    BY <1>1, <1>3, <2>1, <2>2, <2>3
       DEF StartInv, Unstarted, ResetAhead, SwitchedOff, Chosen
<1> QED
  BY <1>2, <1>5, <1>6

(* A frame is read, or there is none.                                       *)
LEMMA FrameRead ==
    ASSUME NrfInv, spiReceive
    PROVE  /\ UNCHANGED <<fsm, todo, power, chip>>
           /\ Events' = Events
           /\ frames = <<>> => UNCHANGED <<frame, frames>>
           /\ \/ Receives("DATATOSSEND") /\ mQueue' = Tail(mQueue)
              \/ mQueue' = mQueue
<1>1. /\ frame = NoEvent
      /\ UNCHANGED <<fsm, todo, power, chip>>
      /\ frames = <<>> => UNCHANGED <<frame, frames>>
      /\ frames # <<>> => frames' = Tail(frames) /\ frame' = Head(frames)
      /\ \/ Receives("DATATOSSEND") /\ mQueue' = Tail(mQueue)
         \/ mQueue' = mQueue
  BY DEF spiReceive, Receives, Idle, fsmVars
<1>2. FrameInv
  BY NrfInvParts
<1>3. frames \in Seq(ChipEvents) /\ <<>> \in Seq(ChipEvents)
  BY <1>2 DEF FrameInv
<1>4. /\ Tail(frames) = Tail(frames) \o <<>> \/ frames = <<>>
      /\ frames = frames \o <<>>
  BY <1>3
<1>5. Events' = Events \o <<>>
  BY <1>1, <1>2, <1>3, <1>4, EventsAdded
<1>6. Events \o <<>> = Events
  BY <1>2, EventsType
<1> QED
  BY <1>1, <1>5, <1>6

LEMMA ReadKeepsStart ==
    ASSUME NrfInv, StartInv, spiReceive
    PROVE  StartInv'
<1>1. /\ Unstarted /\ ResetAhead /\ SwitchedOff /\ Starting /\ Chosen
  BY DEF StartInv
<1>2. /\ UNCHANGED <<fsm, todo, power, chip>>
      /\ Events' = Events
      /\ frames = <<>> => UNCHANGED <<frame, frames>>
      /\ \/ Receives("DATATOSSEND") /\ mQueue' = Tail(mQueue)
         \/ mQueue' = mQueue
  BY FrameRead
<1>3. /\ \A c : Carries(mQueue', c) => Carries(mQueue, c)
      /\ \A i : Holds(mQueue', i) => Holds(mQueue, i)
      /\ InitFirst(mQueue')
      /\ Holds(mQueue, "INIT") => mQueue' = mQueue
      /\ mQueue = <<>> => mQueue' = <<>>
  <2>1. CASE Receives("DATATOSSEND") /\ mQueue' = Tail(mQueue)
    <3>1. /\ mQueue # <<>>
          /\ \A c : Carries(Tail(mQueue), c) => Carries(mQueue, c)
          /\ \A i : Holds(Tail(mQueue), i) => Holds(mQueue, i)
          /\ InitFirst(Tail(mQueue))
          /\ ~Holds(mQueue, "INIT")
      BY <1>1, <2>1, Taken
    <3> QED
      BY <2>1, <3>1
  <2>2. CASE mQueue' = mQueue
    BY <1>1, <2>2 DEF ResetAhead
  <2> QED
    BY <1>2, <2>1, <2>2
<1>4. InitAhead' <=> InitAhead
  BY <1>2, <1>3 DEF InitAhead
<1>5. Comes("started")' <=> Comes("started")
  BY <1>2 DEF Comes
<1>6. Unstarted'
  BY <1>1, <1>2, <1>3 DEF Unstarted
<1>7. ResetAhead'
  BY <1>1, <1>2, <1>3, <1>4 DEF ResetAhead
<1>8. SwitchedOff' /\ Chosen'
  BY <1>1, <1>2, <1>3 DEF SwitchedOff, Chosen
<1>9. Starting'
  BY <1>1, <1>2, <1>3, <1>4, <1>5 DEF Starting
<1> QED
  BY <1>6, <1>7, <1>8, <1>9 DEF StartInv

LEMMA FromReset ==
    ASSUME fsm = "Off", power = "init", todo = <<>>, mQueue = <<>>, frame = NoEvent,
           frames = <<>>, chip = Chip("reset", {})
    PROVE  StartInv
<1>1. /\ ~InitAhead /\ InitFirst(mQueue)
      /\ \A o : ~Among(o, todo) /\ ~Holds(mQueue, o) /\ ~Carries(mQueue, o)
  BY DEF InitAhead, Among, Holds, Carries, InitFirst
<1>2. chip.mode = "reset"
  BY DEF Chip
<1> QED
  BY <1>1, <1>2
     DEF StartInv, Unstarted, ResetAhead, SwitchedOff, Starting, Chosen, Ready, Advertisable

LEMMA StartStays ==
    ASSUME StartInv, UNCHANGED <<fsm, power, todo, mQueue, frame, frames, chip>>
    PROVE  StartInv'
BY DEF StartInv, Unstarted, ResetAhead, SwitchedOff, Starting, Chosen, InitAhead, Events, Comes

-----------------------------------------------------------------------------
(* The configuration is ahead of advertisingOn. *)

(* What arrives at the chip arrives after the step, too; and the orders    *)
(* are only given, or none.                                                *)
LEMMA ConfKept ==
    ASSUME ConfInv, AdvertisesConfigured',
           chip'.mode \in Executes =>
               /\ chip.mode \in Executes
               /\ UNCHANGED <<fsm, todo>>
               /\ QueueConfigures(mQueue', chip'.configured)
               /\ \A c \in Configurations :
                    Arrives(mQueue, chip.configured, c) => Arrives(mQueue', chip'.configured, c)
    PROVE  ConfInv'
<1>1. ASSUME chip'.mode \in Executes
      PROVE  /\ QueueConfigures(mQueue', chip'.configured)
             /\ OrdersConfigure(todo', mQueue', chip'.configured)
             /\ fsm' \in Ready => \A c \in Configurations :
                  Arrives(mQueue', chip'.configured, c) \/ Among(c, todo')
  BY <1>1 DEF ConfInv, OrdersConfigure
<1> QED
  BY <1>1 DEF ConfInv

LEMMA ReceiveKeepsConf ==
    ASSUME NrfInv, StartInv, ConfInv, NEW task, NEW event, receive(task, event),
           UNCHANGED <<mQueue, chip>>, Heard(event)
    PROVE  ConfInv'
<1>1. fsm \in Ready => event # "started"
  BY NotStartedAgain DEF StartInv
<1>2. todo = <<>> /\ (Moves(event, todo') \/ Stays(event, todo'))
  BY <1>1, ReceiveCases
<1>3. /\ Among("advertisingOn", todo') => fsm \in Ready
      /\ fsm' \in Ready => fsm \in Ready \/ todo' = Configuration
  <2>1. CASE Moves(event, todo')
    BY <2>1, OrdersAre DEF Moves, Ready, Advertisable
  <2>2. CASE Stays(event, todo')
    BY <2>2, OrdersAre DEF Stays
  <2> QED
    BY <1>2, <2>1, <2>2
<1>4. AdvertisesConfigured'
  BY DEF ConfInv, AdvertisesConfigured
<1>5. ASSUME chip.mode \in Executes
      PROVE  /\ QueueConfigures(mQueue, chip.configured)
             /\ OrdersConfigure(todo', mQueue, chip.configured)
             /\ fsm' \in Ready => \A c \in Configurations :
                  Arrives(mQueue, chip.configured, c) \/ Among(c, todo')
  <2>1. fsm \in Ready => \A c \in Configurations : Arrives(mQueue, chip.configured, c)
    BY <1>2, <1>5, OrdersAre DEF ConfInv
  <2>2. OrdersConfigure(todo', mQueue, chip.configured)
    BY <1>3, <2>1 DEF OrdersConfigure, Among
  <2>3. fsm' \in Ready => \A c \in Configurations :
                  Arrives(mQueue, chip.configured, c) \/ Among(c, todo')
    BY <1>3, <2>1, OrdersAre
  <2> QED
    BY <1>5, <2>2, <2>3 DEF ConfInv
<1> QED
  BY <1>4, <1>5 DEF ConfInv

LEMMA GiveOrderKeepsConf ==
    ASSUME NrfInv, StartInv, ConfInv, ConfigurationFits, GiveOrder
    PROVE  ConfInv'
<1> DEFINE order == Head(todo)
           conf == chip.configured
<1>1. /\ todo # <<>> /\ todo' = Tail(todo)
      /\ order = todo[1] /\ 1 \in 1..Len(todo)
      /\ \A o : Among(o, todo) <=> o = order \/ Among(o, todo')
      /\ UNCHANGED <<fsm, chip>>
      /\ mQueue \in Seq(Message)
      /\ \/ mQueue' = mQueue
         \/ \E message : Given(message, order) /\ mQueue' = Append(mQueue, message)
      /\ HasRoom /\ free # {}
           => \E message : Given(message, order) /\ mQueue' = Append(mQueue, message)
  BY OrderGiven
<1>2. /\ \A i \in 1..Len(todo') : (i + 1) \in 1..Len(todo) /\ todo'[i] = todo[i + 1]
      /\ \A i \in 1..Len(todo) :
           i = 1 \/ ((i - 1) \in 1..Len(todo') /\ todo'[i - 1] = todo[i] /\ i > 1)
  BY <1>1, TailPlaces DEF NrfInv, TypeOK
<1>3. AdvertisesConfigured'
  BY <1>1 DEF ConfInv, AdvertisesConfigured
<1> HIDE DEF order
<1>4. ASSUME chip.mode \in Executes
      PROVE  /\ QueueConfigures(mQueue', conf)
             /\ OrdersConfigure(todo', mQueue', conf)
             /\ fsm \in Ready => \A c \in Configurations :
                  Arrives(mQueue', conf, c) \/ Among(c, todo')
  <2>1. /\ QueueConfigures(mQueue, conf)
        /\ OrdersConfigure(todo, mQueue, conf)
        /\ fsm \in Ready => \A c \in Configurations :
             Arrives(mQueue, conf, c) \/ Among(c, todo)
    BY <1>4 DEF ConfInv
  <2> HIDE DEF conf
  <2>2. order = "advertisingOn" => \A c \in Configurations : Arrives(mQueue, conf, c)
    <3>1. \A j \in 1..Len(todo) : ~(j < 1)
      OBVIOUS
    <3> QED
      BY <1>1, <2>1, <3>1 DEF OrdersConfigure
  <2>3. /\ QueueConfigures(mQueue', conf)
        /\ \A c : Carries(mQueue, c) => Carries(mQueue', c)
    <3>1. ASSUME NEW message, Given(message, order), mQueue' = Append(mQueue, message)
          PROVE  /\ QueueConfigures(mQueue', conf)
                 /\ \A c : Carries(mQueue, c) => Carries(mQueue', c)
      <4>1. message \in Message /\ (message.command = "advertisingOn" => order = "advertisingOn")
        BY <3>1 DEF Given
      <4>2. QueueConfigures(Append(mQueue, message), conf)
        BY <1>1, <2>1, <2>2, <4>1, AppendConfigures
      <4> QED
        BY <1>1, <3>1, <4>1, <4>2, AppendCarries
    <3> QED
      BY <1>1, <2>1, <3>1
  <2>4. \A c \in Configurations :
          Arrives(mQueue, conf, c) \/ order = c => Arrives(mQueue', conf, c)
    <3>1. ASSUME NEW c \in Configurations, order = c
          PROVE  Arrives(mQueue', conf, c)
      <4>1. CASE HasRoom /\ free # {}
        <5>1. PICK message : Given(message, order) /\ mQueue' = Append(mQueue, message)
          BY <1>1, <4>1
        <5>2. order \notin Signals
          BY <3>1, OrdersAre DEF Signals
        <5>3. message \in Message /\ message.command = c
          BY <3>1, <5>1, <5>2 DEF Given
        <5>4. Carries(mQueue', c)
          BY <1>1, <5>1, <5>3, AppendCarries
        <5> QED
          BY <5>4 DEF Arrives
      <4>2. CASE DfuAhead
        <5>1. Carries(mQueue, "startDfu")
          BY <1>4, <4>2 DEF DfuAhead, Executes
        <5> QED
          BY <2>3, <5>1 DEF Arrives
      <4>3. (HasRoom /\ free # {}) \/ DfuAhead
        BY <1>1, <3>1 DEF ConfigurationFits, Fits, order
      <4> QED
        BY <4>1, <4>2, <4>3
    <3> QED
      BY <2>3, <3>1 DEF Arrives
  <2>5. OrdersConfigure(todo', mQueue', conf)
    <3> SUFFICES ASSUME NEW k \in 1..Len(todo'), todo'[k] = "advertisingOn",
                        NEW c \in Configurations, ~Arrives(mQueue', conf, c)
                 PROVE  \E j \in 1..Len(todo') : j < k /\ todo'[j] = c
      BY DEF OrdersConfigure
    <3>1. (k + 1) \in 1..Len(todo) /\ todo[k + 1] = "advertisingOn"
      BY <1>2
    <3>2. PICK j \in 1..Len(todo) : j < k + 1 /\ todo[j] = c
      BY <2>1, <2>4, <3>1 DEF OrdersConfigure
    <3>3. j # 1
      BY <1>1, <2>4, <3>2
    <3>4. (j - 1) \in 1..Len(todo') /\ todo'[j - 1] = c /\ j - 1 < k
      BY <1>2, <3>2, <3>3
    <3> QED
      BY <3>4
  <2>6. fsm \in Ready => \A c \in Configurations : Arrives(mQueue', conf, c) \/ Among(c, todo')
    BY <1>1, <2>1, <2>4
  <2> QED
    BY <2>3, <2>5, <2>6
<1> QED
  BY <1>1, <1>3, <1>4 DEF ConfInv

LEMMA UpdateAppends ==
    ASSUME NrfInv, enterDfu \/ forceDfu
    PROVE  /\ power = "run" /\ fsm \in Ready
           /\ mQueue \in Seq(Message)
           /\ UNCHANGED <<fsm, todo, power, frame, chip, frames>>
           /\ \/ mQueue' = mQueue
              \/ \E message \in Message :
                   /\ mQueue' = Append(mQueue, message)
                   /\ message.command \in {"none", "startDfu"}
                   /\ message.msgId \in {"FORCEDFU", "SEND_COMMAND"}
<1>1. mQueue \in Seq(Message) /\ free \subseteq Packets
  BY DEF NrfInv, TypeOK
<1>2. CASE enterDfu
  <2>1. \A packet \in free :
          /\ SendCommand(packet, "startDfu") \in Message
          /\ SendCommand(packet, "startDfu").command = "startDfu"
          /\ SendCommand(packet, "startDfu").msgId = "SEND_COMMAND"
    BY <1>1, MessageOK DEF Commands, SendCommand
  <2>2. \/ mQueue' = mQueue
        \/ \E packet \in free : mQueue' = Append(mQueue, SendCommand(packet, "startDfu"))
    BY <1>2 DEF enterDfu, sendCommand
  <2> QED
    BY <1>1, <1>2, <2>1, <2>2 DEF enterDfu, fsmVars, chipVars
<1>3. CASE forceDfu
  <2>1. /\ Signal("FORCEDFU") \in Message
        /\ Signal("FORCEDFU").command = "none"
        /\ Signal("FORCEDFU").msgId = "FORCEDFU"
    BY MessageOK DEF Ids, Signals, Signal
  <2>2. mQueue' = mQueue \/ mQueue' = Append(mQueue, Signal("FORCEDFU"))
    BY <1>3 DEF forceDfu, postSignal
  <2> QED
    BY <1>1, <1>3, <2>1, <2>2 DEF forceDfu, fsmVars, chipVars
<1> QED
  BY <1>2, <1>3

LEMMA UpdateKeepsConf ==
    ASSUME NrfInv, ConfInv, enterDfu \/ forceDfu
    PROVE  ConfInv'
<1>1. /\ mQueue \in Seq(Message)
      /\ UNCHANGED <<fsm, todo, chip>>
      /\ \/ mQueue' = mQueue
         \/ \E message \in Message :
              /\ mQueue' = Append(mQueue, message)
              /\ message.command \in {"none", "startDfu"}
  BY UpdateAppends
<1>2. AdvertisesConfigured'
  BY <1>1 DEF ConfInv, AdvertisesConfigured
<1>3. ASSUME chip.mode \in Executes
      PROVE  /\ QueueConfigures(mQueue', chip.configured)
             /\ \A c : Carries(mQueue, c) => Carries(mQueue', c)
  <2>1. QueueConfigures(mQueue, chip.configured)
    BY <1>3 DEF ConfInv
  <2>2. ASSUME NEW message \in Message, mQueue' = Append(mQueue, message),
               message.command \in {"none", "startDfu"}
        PROVE  /\ QueueConfigures(mQueue', chip.configured)
               /\ \A c : Carries(mQueue, c) => Carries(mQueue', c)
    <3>1. QueueConfigures(Append(mQueue, message), chip.configured)
      BY <1>1, <2>1, <2>2, AppendConfigures
    <3> QED
      BY <1>1, <2>2, <3>1, AppendCarries
  <2> QED
    BY <1>1, <2>1, <2>2
<1> QED
  BY <1>1, <1>2, <1>3, ConfKept DEF Arrives

LEMMA ChipDoesKeepsConf ==
    ASSUME NrfInv, StartInv, ConfInv, NEW from, NEW to, NEW event,
           ChipDoes(from, to, <<event>>), Moved(from, to, event)
    PROVE  ConfInv'
<1>1. /\ chip.mode \in from /\ chip'.mode = to /\ chip'.configured = chip.configured
      /\ UNCHANGED <<fsm, todo>>
      /\ mQueue \in Seq(Message)
      /\ mQueue' = DataToSendIsr(mQueue, frames, <<event>>)
  BY ChipDoesThis
<1>2. /\ chip.mode \in {"booting", "advertising", "connected"}
      /\ to \in {"idle", "connected"}
      /\ to = "connected" => chip.mode = "advertising"
  BY <1>1, ChipMoves
<1>3. /\ \A c : c # "none" => (Carries(mQueue', c) <=> Carries(mQueue, c))
      /\ QueueConfigures(mQueue, chip.configured) => QueueConfigures(mQueue', chip.configured)
  BY <1>1, IsrAddsNothing
<1>4. AdvertisesConfigured'
  BY <1>1, <1>2 DEF ConfInv, AdvertisesConfigured
<1>5. CASE chip.mode = "booting"
  <2>1. ~Carries(mQueue, "advertisingOn") /\ fsm \notin Ready /\ ~Among("advertisingOn", todo)
    BY <1>5 DEF StartInv, Starting, Chosen, Ready, Advertisable
  <2>2. QueueConfigures(mQueue', chip'.configured)
    BY <1>1, <1>3, <2>1, NothingToConfigure
  <2>3. OrdersConfigure(todo', mQueue', chip'.configured)
    BY <1>1, <2>1 DEF OrdersConfigure, Among
  <2> QED
    BY <1>1, <1>4, <2>1, <2>2, <2>3 DEF ConfInv
<1>6. CASE chip.mode # "booting"
  <2>1. chip.mode \in Executes
    BY <1>2, <1>6 DEF Executes
  <2>2. QueueConfigures(mQueue, chip.configured)
    BY <2>1 DEF ConfInv
  <2>3. \A c \in Configurations :
          Arrives(mQueue, chip.configured, c) => Arrives(mQueue', chip'.configured, c)
    BY <1>1, <1>3, OrdersAre DEF Arrives
  <2> QED
    BY <1>1, <1>3, <1>4, <2>1, <2>2, <2>3, ConfKept
<1> QED
  BY <1>5, <1>6

LEMMA ModeAfterIs ==
    ASSUME NEW mode \in Modes \ {"reset", "booting"}, NEW command
    PROVE  /\ mode \in Executes \cup {"dfu"}
           /\ mode = "dfu" => ModeAfter(mode, command) = "dfu"
           /\ command = "startDfu" => ModeAfter(mode, command) = "dfu"
           /\ ModeAfter(mode, command) = "advertising" =>
                mode = "advertising" \/ command = "advertisingOn"
           /\ ModeAfter(mode, command) = "connected" => mode = "connected"
<1>1. mode \in Executes \cup {"dfu"}
  BY DEF Modes, Executes
<1>2. CASE mode = "dfu"
  <2>1. Answers(mode, command) = <<>>
    BY <1>2 DEF Answers
  <2> QED
    BY <1>1, <1>2, <2>1 DEF ModeAfter
<1>3. CASE command = "startDfu" /\ mode # "dfu"
  <2>1. Answers(mode, command) = <<"enteredDfu">>
    BY <1>3 DEF Answers
  <2> QED
    BY <1>1, <1>3, <2>1 DEF ModeAfter
<1>4. CASE command # "startDfu"
  <2>1. ModeAfter(mode, command) \in {mode, "idle", "advertising"} \/ mode = "dfu"
    BY <1>4 DEF ModeAfter, Answers
  <2>2. command # "advertisingOn" => Answers(mode, command) # <<"advertisingStarted">>
    BY DEF Answers
  <2>3. ModeAfter(mode, command) = "advertising" =>
          mode = "advertising" \/ command = "advertisingOn"
    BY <2>2 DEF ModeAfter
  <2> QED
    BY <1>1, <1>2, <1>4, <2>1, <2>3
<1> QED
  BY <1>2, <1>3, <1>4

LEMMA SendKeepsConf ==
    ASSUME Reliable, NrfInv, StartInv, ConfInv, execSendCommand
    PROVE  ConfInv'
<1> DEFINE command == Head(mQueue).command
           answers == Answers(chip.mode, command)
<1>1. /\ Receives("SEND_COMMAND")
      /\ UNCHANGED <<fsm, todo>>
      /\ ChipExecutes(command) \/ Unheard
  BY CommandSent
<1>2. /\ mQueue \in Seq(Message) /\ mQueue # <<>> /\ Tail(mQueue) \in Seq(Message)
      /\ chip.mode \in Modes
  BY <1>1, Taken, NrfInvParts DEF StartInv, FrameInv
<1>3. CASE Unheard
  BY <1>3, ConfKept DEF Unheard, Executes, ConfInv, AdvertisesConfigured
<1>4. CASE ChipExecutes(command) /\ chip'.mode \notin Executes
  BY <1>4, ConfKept DEF AdvertisesConfigured, Executes
<1>5. CASE ChipExecutes(command) /\ chip'.mode \in Executes
  <2>1. /\ chip.mode \notin {"reset", "booting"}
        /\ chip'.mode = ModeAfter(chip.mode, command)
        /\ chip'.configured = chip.configured \cup ({command} \cap Configurations)
        /\ \E pending : mQueue' = DataToSendIsr(Tail(mQueue), pending, answers)
    BY <1>5 DEF ChipExecutes
  <2>2. /\ chip.mode \in Executes /\ command # "startDfu"
        /\ chip'.mode = "advertising" => chip.mode = "advertising" \/ command = "advertisingOn"
        /\ chip'.mode = "connected" => chip.mode = "connected"
    BY <1>2, <1>5, <2>1, ModeAfterIs DEF Executes
  <2>3. QueueConfigures(mQueue, chip.configured)
    BY <2>2 DEF ConfInv
  <2>4. /\ QueueConfigures(Tail(mQueue), chip'.configured)
        /\ \A c \in Configurations :
             Arrives(mQueue, chip.configured, c) => Arrives(Tail(mQueue), chip'.configured, c)
        /\ command = "advertisingOn" => Configurations \subseteq chip.configured
    <3> DEFINE got == chip.configured \cup ({command} \cap Configurations)
    <3>1. /\ QueueConfigures(Tail(mQueue), got)
          /\ \A c \in Configurations :
               Arrives(mQueue, chip.configured, c) => Arrives(Tail(mQueue), got, c)
          /\ command = "advertisingOn" => Configurations \subseteq chip.configured
      BY <1>2, <2>2, <2>3, TailConfigures
    <3>2. chip'.configured = got
      BY <2>1
    <3> HIDE DEF got, command
    <3> QED
      BY <3>1, <3>2
  <2>5. /\ QueueConfigures(mQueue', chip'.configured)
        /\ \A c : c # "none" => (Carries(mQueue', c) <=> Carries(Tail(mQueue), c))
    <3> HIDE DEF command, answers
    <3>1. PICK pending : mQueue' = DataToSendIsr(Tail(mQueue), pending, answers)
      BY <2>1
    <3>2. /\ \A c : c # "none" =>
               (Carries(DataToSendIsr(Tail(mQueue), pending, answers), c) <=> Carries(Tail(mQueue), c))
          /\ QueueConfigures(Tail(mQueue), chip'.configured) =>
               QueueConfigures(DataToSendIsr(Tail(mQueue), pending, answers), chip'.configured)
      BY <1>2, IsrAddsNothing
    <3> QED
      BY <2>4, <3>1, <3>2
  <2>6. \A c \in Configurations :
          Arrives(Tail(mQueue), chip'.configured, c) => Arrives(mQueue', chip'.configured, c)
    BY <2>5, OrdersAre DEF Arrives
  <2>7. AdvertisesConfigured'
    BY <2>1, <2>2, <2>4 DEF ConfInv, AdvertisesConfigured, Configurations
  <2> QED
    BY <1>1, <2>2, <2>4, <2>5, <2>6, <2>7, ConfKept
<1> QED
  BY <1>1, <1>3, <1>4, <1>5

LEMMA ReadKeepsConf ==
    ASSUME NrfInv, StartInv, ConfInv, spiReceive
    PROVE  ConfInv'
<1>1. /\ UNCHANGED <<fsm, todo, chip>>
      /\ \/ Receives("DATATOSSEND") /\ mQueue' = Tail(mQueue)
         \/ mQueue' = mQueue
  BY FrameRead
<1>2. AdvertisesConfigured'
  BY <1>1 DEF ConfInv, AdvertisesConfigured
<1>3. CASE Receives("DATATOSSEND") /\ mQueue' = Tail(mQueue)
  <2>1. mQueue \in Seq(Message) /\ mQueue # <<>> /\ Head(mQueue).msgId = "DATATOSSEND"
    BY <1>3, Taken DEF StartInv
  <2>2. Head(mQueue).command = "none"
    BY <2>1, TailPlaces DEF Message, Signals
  <2>3. chip.configured \cup ({Head(mQueue).command} \cap Configurations) = chip.configured
    BY <2>2, OrdersAre
  <2>4. ASSUME chip.mode \in Executes
        PROVE  /\ QueueConfigures(mQueue', chip.configured)
               /\ \A c \in Configurations :
                    Arrives(mQueue, chip.configured, c) => Arrives(mQueue', chip.configured, c)
    <3>1. QueueConfigures(mQueue, chip.configured)
      BY <2>4 DEF ConfInv
    <3> QED
      BY <1>3, <2>1, <2>2, <2>3, <3>1, TailConfigures
  <2> QED
    BY <1>1, <1>2, <2>4, ConfKept
<1>4. CASE mQueue' = mQueue
  BY <1>1, <1>2, <1>4, ConfKept DEF ConfInv
<1> QED
  BY <1>1, <1>3, <1>4

LEMMA ResetsKeepConf ==
    ASSUME Reliable, ConfInv, execInit \/ execPowerOff \/ execForceDfu \/ ChipRestarts
    PROVE  ConfInv'
<1>1. chip'.mode \in {"booting", "reset", "dfu"}
  BY DEF execInit, execPowerOff, execForceDfu, ChipRestarts, Chip
<1>2. chip'.mode \notin Executes /\ AdvertisesConfigured'
  BY <1>1 DEF Executes, AdvertisesConfigured
<1> QED
  BY <1>2, ConfKept

LEMMA ChipKeepsConf ==
    ASSUME Reliable, NrfInv, StartInv, ConfInv, ChipTakesPart
    PROVE  ConfInv'
<1>1. CASE ChipStarts
  BY <1>1, ChipDoesKeepsConf DEF ChipStarts, Moved
<1>2. CASE ChipConnects
  BY <1>2, ChipDoesKeepsConf DEF ChipConnects, Moved
<1>3. CASE ChipDisconnects
  BY <1>3, ChipDoesKeepsConf DEF ChipDisconnects, Moved
<1>4. CASE ChipStopsAdvertising
  BY <1>4, ChipDoesKeepsConf DEF ChipStopsAdvertising, Moved
<1>5. CASE ChipRestarts
  BY <1>5, ResetsKeepConf
<1>6. ~FrameLost
  BY DEF FrameLost, Reliable
<1> QED
  BY <1>1, <1>2, <1>3, <1>4, <1>5, <1>6 DEF ChipTakesPart

LEMMA ConfStays ==
    ASSUME ConfInv, UNCHANGED <<fsm, todo, mQueue, chip>>
    PROVE  ConfInv'
BY DEF ConfInv, AdvertisesConfigured

LEMMA ConfFromReset ==
    ASSUME chip = Chip("reset", {})
    PROVE  ConfInv
BY DEF Chip, ConfInv, Executes, AdvertisesConfigured

-----------------------------------------------------------------------------
(* The steps together. *)

(* What makes the state machine move: a task, or the chip's event that is  *)
(* handed on.                                                              *)
Drive == init \/ configure \/ activate \/ powerOff \/ clientCommand \/ notifyListener

LEMMA DriveReceives ==
    ASSUME NrfInv, StartInv, Drive
    PROVE  \E task, event :
             /\ receive(task, event) /\ UNCHANGED <<mQueue, chip>>
             /\ Heard(event) /\ Driven(event)
<1>1. \A event \in {"init", "configure", "enableBle", "disableBle", "powerOff",
                    "sendApplicationCommand", "sendBleCommand", "sendDfuCommand"} :
        event \notin ChipEvents
  BY DEF ChipEvents
<1>2. power \in {"init", "configure", "run", "off"}
  BY DEF NrfInv, TypeOK
<1>3. CASE init
  <2>1. receive("power", "init") /\ UNCHANGED <<mQueue, chip, frame, frames>>
        /\ power = "init" /\ power' = "configure"
    BY <1>3 DEF init, Task, chipVars
  <2>2. Heard("init") /\ Driven("init")
    BY <1>1, <2>1 DEF Heard, Driven
  <2> QED
    BY <2>1, <2>2
<1>4. CASE configure
  <2>1. receive("power", "configure") /\ UNCHANGED <<mQueue, chip, frame, frames>>
        /\ power = "configure" /\ power' = "run"
    BY <1>4 DEF configure, Task, chipVars
  <2>2. Heard("configure") /\ Driven("configure")
    BY <1>1, <2>1 DEF Heard, Driven
  <2> QED
    BY <2>1, <2>2
<1>5. CASE activate
  <2>1. PICK event \in {"enableBle", "disableBle"} :
          receive("power", event) /\ UNCHANGED <<mQueue, chip, frame, frames>>
          /\ power = "run" /\ power' = "run"
    BY <1>5 DEF activate, Task, chipVars
  <2>2. Heard(event) /\ Driven(event)
    BY <1>1, <2>1 DEF Heard, Driven
  <2> QED
    BY <2>1, <2>2
<1>6. CASE powerOff
  <2>1. receive("power", "powerOff") /\ UNCHANGED <<mQueue, chip, frame, frames>>
        /\ power = "run" /\ power' = "off"
    BY <1>6 DEF powerOff, Task, chipVars
  <2>2. Heard("powerOff") /\ Driven("powerOff")
    BY <1>1, <2>1 DEF Heard, Driven
  <2> QED
    BY <2>1, <2>2
<1>7. CASE clientCommand
  <2>1. PICK event \in {"sendApplicationCommand", "sendBleCommand", "sendDfuCommand"} :
          receive("client", event) /\ UNCHANGED <<mQueue, chip, frame, frames>>
          /\ Orders(fsm, event, Configuration) # <<>> /\ power' = power
    BY <1>7 DEF clientCommand, Task, chipVars
  <2>2. todo' # <<>> /\ event # "started"
    BY <2>1 DEF receive
  <2>3. Moves(event, todo') \/ Stays(event, todo')
    BY <2>1, <2>2, ReceiveCases
  <2>4. fsm # "Off"
    BY <2>2, <2>3 DEF Moves, Stays
  <2>5. power # "init"
    BY <2>4 DEF StartInv, Unstarted
  <2>6. Heard(event) /\ Driven(event)
    BY <1>1, <1>2, <2>1, <2>5 DEF Heard, Driven
  <2> QED
    BY <2>1, <2>6
<1>8. CASE notifyListener
  <2>1. receive("ble", frame) /\ UNCHANGED <<mQueue, chip, frames, power>>
        /\ frame # NoEvent /\ frame' = NoEvent
    BY <1>8 DEF notifyListener, chipVars, receive
  <2>2. power # "init"
    BY <2>1 DEF StartInv, Unstarted
  <2>3. frame \notin {"init", "powerOff"}
    BY <2>1 DEF NrfInv, TypeOK, ChipEvents
  <2>4. Heard(frame) /\ Driven(frame)
    BY <1>2, <2>1, <2>2, <2>3 DEF Heard, Driven
  <2> QED
    BY <2>1, <2>4
<1> QED
  BY <1>3, <1>4, <1>5, <1>6, <1>7, <1>8 DEF Drive

LEMMA Steps ==
    ASSUME [Next]_vars
    PROVE  \/ Drive
           \/ GiveOrder
           \/ enterDfu \/ forceDfu
           \/ execInit \/ execPowerOff \/ execForceDfu
           \/ execSendCommand
           \/ spiReceive
           \/ UNCHANGED <<fsm, power, mutex, todo, mQueue, frame, frames, chip>>
           \/ releasePacket
           \/ ChipTakesPart
           \/ Reset
BY DEF Next, Drive, CommunicationTask, vars, fsmVars, chipVars

LEMMA ResetDoes ==
    ASSUME Reset
    PROVE  /\ fsm' = "Off" /\ power' = "init" /\ todo' = <<>> /\ mQueue' = <<>>
           /\ frame' = NoEvent /\ frames' = <<>> /\ chip' = Chip("reset", {})
BY DEF Reset

LEMMA StartsFromReset ==
    ASSUME fsm' = "Off", power' = "init", todo' = <<>>, mQueue' = <<>>, frame' = NoEvent,
           frames' = <<>>, chip' = Chip("reset", {})
    PROVE  StartInv'
<1>1. /\ ~InitAhead' /\ InitFirst(mQueue')
      /\ \A o : ~Among(o, todo') /\ ~Holds(mQueue', o) /\ ~Carries(mQueue', o)
  BY DEF InitAhead, Among, Holds, Carries, InitFirst
<1>2. chip'.mode = "reset"
  BY DEF Chip
<1> QED
  BY <1>1, <1>2
     DEF StartInv, Unstarted, ResetAhead, SwitchedOff, Starting, Chosen, Ready, Advertisable

LEMMA StartStep ==
    ASSUME Reliable, NrfInv, StartInv, [Next]_vars
    PROVE  StartInv'
<1>1. CASE Drive
  BY <1>1, DriveReceives, ReceiveKeepsStart
<1>2. CASE GiveOrder
  BY <1>2, GiveOrderKeepsStart
<1>3. CASE enterDfu \/ forceDfu
  BY <1>3, UpdateKeepsStart
<1>4. CASE execInit \/ execPowerOff \/ execForceDfu
  BY <1>4, ResetsKeepStart
<1>5. CASE execSendCommand
  BY <1>5, SendKeepsStart
<1>6. CASE spiReceive
  BY <1>6, ReadKeepsStart
<1>7. CASE UNCHANGED <<fsm, power, mutex, todo, mQueue, frame, frames, chip>>
  BY <1>7, StartStays
<1>8. CASE releasePacket
  <2>1. UNCHANGED <<fsm, power, todo, mQueue, frame, frames, chip>>
    BY <1>8 DEF releasePacket, fsmVars, chipVars
  <2> QED
    BY <2>1, StartStays
<1>9. CASE ChipTakesPart
  BY <1>9, ChipKeepsStart
<1>10. CASE Reset
  BY <1>10, ResetDoes, StartsFromReset
<1> QED
  BY <1>1, <1>2, <1>3, <1>4, <1>5, <1>6, <1>7, <1>8, <1>9, <1>10, Steps

LEMMA ConfStep ==
    ASSUME Reliable, ConfigurationFits, NrfInv, StartInv, ConfInv, [Next]_vars
    PROVE  ConfInv'
<1>1. CASE Drive
  BY <1>1, DriveReceives, ReceiveKeepsConf
<1>2. CASE GiveOrder
  BY <1>2, GiveOrderKeepsConf
<1>3. CASE enterDfu \/ forceDfu
  BY <1>3, UpdateKeepsConf
<1>4. CASE execInit \/ execPowerOff \/ execForceDfu
  BY <1>4, ResetsKeepConf
<1>5. CASE execSendCommand
  BY <1>5, SendKeepsConf
<1>6. CASE spiReceive
  BY <1>6, ReadKeepsConf
<1>7. CASE UNCHANGED <<fsm, power, mutex, todo, mQueue, frame, frames, chip>>
  BY <1>7, ConfStays
<1>8. CASE releasePacket
  BY <1>8, ConfStays DEF releasePacket, fsmVars, chipVars
<1>9. CASE ChipTakesPart
  BY <1>9, ChipKeepsConf
<1>10. CASE Reset
  BY <1>10, ResetDoes DEF Chip, ConfInv, Executes, AdvertisesConfigured
<1> QED
  BY <1>1, <1>2, <1>3, <1>4, <1>5, <1>6, <1>7, <1>8, <1>9, <1>10, Steps

(* Without restarts and lost frames, and as long as the orders that        *)
(* configure the chip find room, the chip never advertises, and no host    *)
(* connects, before doConfigure's commands have reached it.                *)
THEOREM AdvertisesConfiguredCorrect ==
    ASSUME Reliable
    PROVE  Spec /\ []ConfigurationFits => []AdvertisesConfigured
<1> DEFINE Inv == NrfInv /\ StartInv /\ ConfInv
<1>1. Init => Inv
  BY InitOK, FromReset, ConfFromReset DEF Init
<1>2. Inv /\ ConfigurationFits /\ [Next]_vars => Inv'
  BY StepOK, StartStep, ConfStep
<1>3. Inv => AdvertisesConfigured
  BY DEF ConfInv
<1> QED
  BY <1>1, <1>2, <1>3, PTL DEF Spec

-----------------------------------------------------------------------------
(* The state machine follows the chip.  The chip's events are linked from  *)
(* what the state machine takes it for to what it does; and a state that   *)
(* it still has to reach is on its way: ordered, queued or told.           *)

LEMMA SameFollows ==
    ASSUME Follows, UNCHANGED <<fsm, chip>>, Events' = Events
    PROVE  Follows'
BY DEF Follows

(* The first event of a chip that the state machine takes for advertising  *)
(* or connected makes the state machine move.                              *)
LEMMA FirstEvent ==
    ASSUME NEW events \in Seq(ChipEvents), events # <<>>, NEW mode
    PROVE  /\ From("advertising", events, mode)
                => events[1] \in {"connected", "advertisingStopped", "enteredDfu"}
           /\ From("connected", events, mode) => events[1] \in {"disconnected", "enteredDfu"}
<1>1. events[1] \in ChipEvents
  BY ComesPlaces
<1> QED
  BY <1>1 DEF From, Before, ChipEvents, Modes

LEMMA ReceiveFollows ==
    ASSUME NrfInv, StartInv, FollowInv, NEW task, NEW event, receive(task, event),
           UNCHANGED <<mQueue, chip>>, Heard(event)
    PROVE  Follows'
<1>1. fsm \in Ready => event # "started"
  BY NotStartedAgain DEF StartInv
<1>2. todo = <<>> /\ (Moves(event, todo') \/ Stays(event, todo'))
  BY <1>1, ReceiveCases
<1>3. /\ Events \in Seq(ChipEvents)
      /\ \/ Events' = Events /\ event \notin ChipEvents
         \/ Events # <<>> /\ event = Events[1] /\ Events' = Tail(Events) /\ event \in ChipEvents
  BY HeardOK
<1>4. Follows /\ Starting
  BY DEF FollowInv, StartInv
<1>5. fsm' \in Ready => \/ fsm \in Ready /\ event # "enteredDfu"
                        \/ fsm = "Started" /\ event = "configure" /\ fsm' = "Configured"
  BY <1>2 DEF Moves, Stays, Ready, Advertisable
<1>6. fsm' \in Ready => Linked(Events', chip.mode) /\ (chip.mode = "dfu" => Events' # <<>>)
  <2>1. CASE fsm = "Started" /\ event = "configure"
    <3>1. Events' = Events
      BY <1>3, <2>1 DEF ChipEvents
    <3>2. Events = <<>> /\ chip.mode = "idle"
      BY <1>4, <2>1 DEF Starting
    <3> QED
      BY <3>1, <3>2 DEF Linked
  <2>2. CASE fsm \in Ready /\ event # "enteredDfu"
    <3>1. Linked(Events, chip.mode) /\ (chip.mode = "dfu" => Events # <<>>)
      BY <1>4, <2>2 DEF Follows
    <3>2. CASE Events' = Events
      BY <3>1, <3>2
    <3>3. CASE Events # <<>> /\ event = Events[1] /\ Events' = Tail(Events)
      <4>1. Linked(Events', chip.mode) /\ From(After(event), Events', chip.mode)
        BY <1>3, <3>1, <3>3, RestLinked
      <4>2. After(event) # "dfu"
        BY <2>2 DEF After
      <4> QED
        BY <4>1, <4>2 DEF From
    <3> QED
      BY <1>3, <3>2, <3>3
  <2> QED
    BY <1>5, <2>1, <2>2
<1>7. ASSUME NEW first, first # "dfu", Events # <<>>, event = Events[1], Events' = Tail(Events),
             fsm \in Ready, After(event) = first
      PROVE  From(first, Events', chip.mode)
  <2>1. Linked(Events, chip.mode)
    BY <1>4, <1>7 DEF Follows
  <2> QED
    BY <1>3, <1>7, <2>1, RestLinked
<1>8. fsm' = "Advertising" => From("advertising", Events', chip.mode)
  <2> SUFFICES ASSUME fsm' = "Advertising" PROVE From("advertising", Events', chip.mode)
    OBVIOUS
  <2>1. \/ fsm = "StartingAdvertising" /\ event = "advertisingStarted"
        \/ /\ fsm = "Advertising"
           /\ event \notin {"connected", "advertisingStopped", "enteredDfu"}
    BY <1>2 DEF Moves, Stays
  <2>2. CASE fsm = "StartingAdvertising" /\ event = "advertisingStarted"
    <3>1. Events # <<>> /\ event = Events[1] /\ Events' = Tail(Events)
      BY <1>3, <2>2 DEF ChipEvents
    <3>2. After(event) = "advertising" /\ fsm \in Ready
      BY <2>2 DEF After, Ready, Advertisable
    <3> QED
      BY <1>7, <3>1, <3>2
  <2>3. CASE fsm = "Advertising" /\ event \notin {"connected", "advertisingStopped", "enteredDfu"}
    <3>1. From("advertising", Events, chip.mode)
      BY <1>4, <2>3 DEF Follows
    <3> QED
      BY <1>3, <2>3, <3>1, FirstEvent
  <2> QED
    BY <2>1, <2>2, <2>3
<1>9. fsm' = "Connected" => From("connected", Events', chip.mode)
  <2> SUFFICES ASSUME fsm' = "Connected" PROVE From("connected", Events', chip.mode)
    OBVIOUS
  <2>1. \/ fsm = "Advertising" /\ event = "connected"
        \/ fsm = "Connected" /\ event \notin {"disconnected", "enteredDfu"}
    BY <1>2 DEF Moves, Stays
  <2>2. CASE fsm = "Advertising" /\ event = "connected"
    <3>1. Events # <<>> /\ event = Events[1] /\ Events' = Tail(Events)
      BY <1>3, <2>2 DEF ChipEvents
    <3>2. After(event) = "connected" /\ fsm \in Ready
      BY <2>2 DEF After, Ready, Advertisable
    <3> QED
      BY <1>7, <3>1, <3>2
  <2>3. CASE fsm = "Connected" /\ event \notin {"disconnected", "enteredDfu"}
    <3>1. From("connected", Events, chip.mode)
      BY <1>4, <2>3 DEF Follows
    <3> QED
      BY <1>3, <2>3, <3>1, FirstEvent
  <2> QED
    BY <2>1, <2>2, <2>3
<1> QED
  BY <1>6, <1>8, <1>9 DEF Follows

(* Nothing is ordered, so what leads to the state is queued or told. *)
LEMMA NothingOrdered ==
    ASSUME todo = <<>>
    PROVE  /\ Starts => \/ DfuAhead
                        \/ Comes("advertisingStarted")
                        \/ WillStart(mQueue, chip.mode)
           /\ Stops => \/ DfuAhead
                       \/ WillStop(mQueue)
                       \/ chip.mode = "idle" /\ ~Carries(mQueue, "advertisingOn")
BY OrdersAre DEF Starts, Stops

LEMMA ReceiveAgrees ==
    ASSUME NrfInv, StartInv, FollowInv, NEW task, NEW event, receive(task, event),
           UNCHANGED <<mQueue, chip>>, Heard(event)
    PROVE  Agrees'
<1>1. fsm \in Ready => event # "started"
  BY NotStartedAgain DEF StartInv
<1>2. todo = <<>> /\ (Moves(event, todo') \/ Stays(event, todo'))
  BY <1>1, ReceiveCases
<1>3. /\ Events \in Seq(ChipEvents)
      /\ \/ Events' = Events /\ event \notin ChipEvents
         \/ Events # <<>> /\ event = Events[1] /\ Events' = Tail(Events) /\ event \in ChipEvents
  BY HeardOK
<1>4. Follows /\ Agrees /\ Starting
  BY DEF FollowInv, StartInv
<1>5. DfuAhead' <=> DfuAhead
  BY DEF DfuAhead
<1>6. ASSUME fsm' = "StartingAdvertising"
      PROVE  Starts'
  <2>1. \/ fsm = "Configured" /\ todo' = <<"advertisingOn">>
        \/ /\ \/ fsm = "Advertising" /\ event = "advertisingStopped"
              \/ fsm = "Connected" /\ event = "disconnected"
           /\ todo' = <<"advertisingOn">>
        \/ fsm = "StartingAdvertising" /\ event # "advertisingStarted"
    BY <1>2, <1>6 DEF Moves, Stays
  <2>2. CASE fsm = "Configured" /\ todo' = <<"advertisingOn">>
    <3>1. \/ DfuAhead
          \/ WillStop(mQueue)
          \/ chip.mode = "idle"
      BY <1>2, <1>4, <2>2, NothingOrdered DEF Agrees
    <3>2. DfuAhead \/ chip.mode = "idle" \/ Carries(mQueue, "advertisingOff")
      BY <3>1 DEF WillStop, Carries
    <3>3. Among("advertisingOn", todo')
      BY <2>2, OrdersAre
    <3> QED
      BY <1>5, <3>2, <3>3 DEF Starts
  <2>3. CASE /\ \/ fsm = "Advertising" /\ event = "advertisingStopped"
                \/ fsm = "Connected" /\ event = "disconnected"
             /\ todo' = <<"advertisingOn">>
    <3>1. Events # <<>> /\ event = Events[1] /\ Events' = Tail(Events)
      BY <1>3, <2>3 DEF ChipEvents
    <3>2. Linked(Events, chip.mode) /\ After(event) = "idle"
      BY <1>4, <2>3 DEF Follows, After, Ready, Advertisable
    <3>3. Linked(Events', chip.mode) /\ From("idle", Events', chip.mode)
      BY <1>3, <3>1, <3>2, RestLinked
    <3>4. Events' \in Seq(ChipEvents)
      BY <1>3, <3>1, TailPlaces
    <3>5. \/ chip.mode \in {"idle", "dfu"}
          \/ \E i \in 1..Len(Events') : Events'[i] = "advertisingStarted"
      BY <3>3, <3>4, IdleTellsNext
    <3>6. Among("advertisingOn", todo')
      BY <2>3, OrdersAre
    <3> QED
      BY <3>5, <3>6 DEF Starts, Comes, DfuAhead
  <2>4. CASE fsm = "StartingAdvertising" /\ event # "advertisingStarted"
    <3>1. \/ DfuAhead
          \/ Comes("advertisingStarted")
          \/ WillStart(mQueue, chip.mode)
      BY <1>2, <1>4, <2>4, NothingOrdered DEF Agrees
    <3>2. Comes("advertisingStarted") => Comes("advertisingStarted")'
      <4>1. CASE Events' = Events
        BY <4>1 DEF Comes
      <4>2. CASE Events # <<>> /\ event = Events[1] /\ Events' = Tail(Events)
        <5>1. \A i \in 1..Len(Events) :
                i = 1 \/ ((i - 1) \in 1..Len(Events') /\ Events'[i - 1] = Events[i])
          BY <1>3, <4>2, TailPlaces
        <5> QED
          BY <2>4, <4>2, <5>1 DEF Comes
      <4> QED
        BY <1>3, <4>1, <4>2
    <3> QED
      BY <1>5, <3>1, <3>2 DEF Starts
  <2> QED
    BY <2>1, <2>2, <2>3, <2>4
<1>7. ASSUME fsm' = "Configured"
      PROVE  Stops'
  <2>1. \/ fsm = "Started"
        \/ todo' = <<"advertisingOff">>
        \/ fsm = "Configured"
    BY <1>2, <1>7 DEF Moves, Stays
  <2>2. CASE fsm = "Started"
    BY <1>4, <2>2 DEF Starting, Stops
  <2>3. CASE todo' = <<"advertisingOff">>
    BY <2>3, OrdersAre DEF Stops
  <2>4. CASE fsm = "Configured"
    <3>1. \/ DfuAhead
          \/ WillStop(mQueue)
          \/ chip.mode = "idle" /\ ~Carries(mQueue, "advertisingOn")
      BY <1>2, <1>4, <2>4, NothingOrdered DEF Agrees
    <3> QED
      BY <1>5, <3>1 DEF Stops
  <2> QED
    BY <2>1, <2>2, <2>3, <2>4
<1> QED
  BY <1>6, <1>7 DEF Agrees

LEMMA GiveOrderKeepsFollow ==
    ASSUME NrfInv, StartInv, FollowInv, OrdersFit, GiveOrder
    PROVE  FollowInv'
<1> DEFINE order == Head(todo)
           mode == chip.mode
<1>1. /\ todo # <<>>
      /\ \A o : Among(o, todo) <=> o = order \/ Among(o, todo')
      /\ UNCHANGED <<fsm, frame, chip, frames>>
      /\ mQueue \in Seq(Message)
      /\ \/ mQueue' = mQueue
         \/ \E message : Given(message, order) /\ mQueue' = Append(mQueue, message)
      /\ HasRoom /\ free # {}
           => \E message : Given(message, order) /\ mQueue' = Append(mQueue, message)
  BY OrderGiven
<1>2. Events' = Events /\ (Comes("advertisingStarted")' <=> Comes("advertisingStarted"))
  BY <1>1, EventsKept DEF Comes
<1>3. Chosen /\ Follows /\ Agrees
  BY DEF StartInv, FollowInv
<1>4. Follows'
  BY <1>1, <1>2, <1>3, SameFollows
<1>5. order \in Toggles => Fits \/ DfuAhead \/ LastToggle(mQueue, order)
  BY <1>1 DEF OrdersFit
<1> HIDE DEF order
<1>6. ASSUME NEW message, Given(message, order)
      PROVE  /\ message \in Message
             /\ \A c \in Toggles : message.command = c <=> order = c
  BY <1>6 DEF Given, Toggles, Signals
<1>7. /\ \A c : Carries(mQueue, c) => Carries(mQueue', c)
      /\ order # "advertisingOn" /\ ~Carries(mQueue, "advertisingOn")
           => ~Carries(mQueue', "advertisingOn")
      /\ order # "advertisingOff" /\ WillStart(mQueue, mode) => WillStart(mQueue', mode)
      /\ order # "advertisingOn" /\ WillStop(mQueue) => WillStop(mQueue')
  <2>1. ASSUME NEW message, Given(message, order), mQueue' = Append(mQueue, message)
        PROVE  /\ \A c : Carries(mQueue, c) => Carries(mQueue', c)
               /\ order # "advertisingOn" /\ ~Carries(mQueue, "advertisingOn")
                    => ~Carries(mQueue', "advertisingOn")
               /\ order # "advertisingOff" /\ WillStart(mQueue, mode) => WillStart(mQueue', mode)
               /\ order # "advertisingOn" /\ WillStop(mQueue) => WillStop(mQueue')
    <3>1. /\ message \in Message
          /\ message.command = "advertisingOn" <=> order = "advertisingOn"
          /\ message.command = "advertisingOff" <=> order = "advertisingOff"
      BY <1>6, <2>1 DEF Toggles
    <3>2. \A c : Carries(mQueue', c) <=> Carries(mQueue, c) \/ message.command = c
      BY <1>1, <2>1, <3>1, AppendCarries
    <3> QED
      BY <1>1, <2>1, <3>1, <3>2, AppendToggles
  <2> QED
    BY <1>1, <2>1
<1>8. DfuAhead => DfuAhead'
  BY <1>1, <1>7 DEF DfuAhead
<1>9. ASSUME fsm = "StartingAdvertising"
      PROVE  Starts'
  <2>1. Starts /\ order # "advertisingOff"
    BY <1>1, <1>3, <1>9 DEF Agrees, Chosen
  <2>2. ASSUME order = "advertisingOn", mode = "idle" \/ Carries(mQueue, "advertisingOff")
        PROVE  DfuAhead \/ WillStart(mQueue', mode)
    <3>1. CASE HasRoom /\ free # {}
      <4>1. PICK message : Given(message, order) /\ mQueue' = Append(mQueue, message)
        BY <1>1, <3>1
      <4>2. message \in Message /\ message.command = "advertisingOn"
        BY <1>6, <2>2, <4>1 DEF Toggles
      <4> QED
        BY <1>1, <2>2, <4>1, <4>2, AppendToggles
    <3>2. CASE LastToggle(mQueue, "advertisingOn")
      <4>1. WillStart(mQueue, mode)
        BY <1>1, <2>2, <3>2, LastTakesEffect
      <4> QED
        BY <1>7, <2>1, <4>1
    <3> QED
      BY <1>5, <2>2, <3>1, <3>2 DEF Fits, Toggles
  <2>3. \/ DfuAhead
        \/ Comes("advertisingStarted")
        \/ Among("advertisingOn", todo') /\ (mode = "idle" \/ Carries(mQueue, "advertisingOff"))
        \/ WillStart(mQueue', mode)
    BY <1>1, <1>7, <2>1, <2>2 DEF Starts
  <2> QED
    BY <1>1, <1>2, <1>7, <1>8, <2>3 DEF Starts
<1>10. ASSUME fsm = "Configured"
       PROVE  Stops'
  <2>1. Stops /\ order # "advertisingOn"
    BY <1>1, <1>3, <1>10 DEF Agrees, Chosen
  <2>2. ASSUME order = "advertisingOff"
        PROVE  DfuAhead \/ WillStop(mQueue')
    <3>1. CASE HasRoom /\ free # {}
      <4>1. PICK message : Given(message, order) /\ mQueue' = Append(mQueue, message)
        BY <1>1, <3>1
      <4>2. message \in Message /\ message.command = "advertisingOff"
        BY <1>6, <2>2, <4>1 DEF Toggles
      <4> QED
        BY <1>1, <4>1, <4>2, AppendToggles
    <3>2. CASE LastToggle(mQueue, "advertisingOff")
      <4>1. WillStop(mQueue)
        BY <1>1, <3>2, LastTakesEffect
      <4> QED
        BY <1>7, <2>1, <4>1
    <3> QED
      BY <1>5, <2>2, <3>1, <3>2 DEF Fits, Toggles
  <2>3. \/ DfuAhead
        \/ Among("advertisingOff", todo')
        \/ WillStop(mQueue')
        \/ mode = "idle" /\ ~Carries(mQueue', "advertisingOn")
    BY <1>1, <1>7, <2>1, <2>2 DEF Stops
  <2> QED
    BY <1>1, <1>8, <2>3 DEF Stops
<1> QED
  BY <1>1, <1>4, <1>9, <1>10 DEF FollowInv, Agrees

(* Messages that do not toggle advertising leave what is ahead. *)
LEMMA FollowKept ==
    ASSUME FollowInv, UNCHANGED <<fsm, todo, chip>>, Events' = Events,
           Carries(mQueue, "startDfu") => Carries(mQueue', "startDfu"),
           \A c \in Toggles : Carries(mQueue', c) <=> Carries(mQueue, c),
           WillStart(mQueue, chip.mode) => WillStart(mQueue', chip.mode) \/ chip.mode = "dfu",
           WillStop(mQueue) =>
               \/ WillStop(mQueue')
               \/ chip.mode = "dfu"
               \/ chip.mode = "idle" /\ ~Carries(mQueue', "advertisingOn")
    PROVE  FollowInv'
<1>1. Follows /\ Agrees
  BY DEF FollowInv
<1>2. DfuAhead => DfuAhead'
  BY DEF DfuAhead
<1>3. chip.mode = "dfu" => DfuAhead'
  BY DEF DfuAhead
<1>4. Starts => Starts'
  BY <1>2, <1>3 DEF Starts, Comes, Toggles
<1>5. Stops => Stops'
  BY <1>2, <1>3 DEF Stops, Toggles
<1>6. Follows'
  BY <1>1, SameFollows
<1> QED
  BY <1>1, <1>4, <1>5, <1>6 DEF FollowInv, Agrees

LEMMA UpdateKeepsFollow ==
    ASSUME NrfInv, FollowInv, enterDfu \/ forceDfu
    PROVE  FollowInv'
<1>1. /\ mQueue \in Seq(Message)
      /\ UNCHANGED <<fsm, todo, frame, chip, frames>>
      /\ \/ mQueue' = mQueue
         \/ \E message \in Message :
              /\ mQueue' = Append(mQueue, message)
              /\ message.command \in {"none", "startDfu"}
  BY UpdateAppends
<1>2. Events' = Events
  BY <1>1, EventsKept
<1>3. CASE mQueue' = mQueue
  BY <1>1, <1>2, <1>3, FollowKept
<1>4. ASSUME NEW message \in Message, mQueue' = Append(mQueue, message),
             message.command \in {"none", "startDfu"}
      PROVE  FollowInv'
  <2>1. \A c : Carries(mQueue', c) <=> Carries(mQueue, c) \/ message.command = c
    BY <1>1, <1>4, AppendCarries
  <2>2. /\ WillStart(mQueue, chip.mode) => WillStart(mQueue', chip.mode)
        /\ WillStop(mQueue) => WillStop(mQueue')
    BY <1>1, <1>4, AppendToggles
  <2>3. \A c \in Toggles : Carries(mQueue', c) <=> Carries(mQueue, c)
    BY <1>4, <2>1 DEF Toggles
  <2> QED
    BY <1>1, <1>2, <2>1, <2>2, <2>3, FollowKept
<1> QED
  BY <1>1, <1>3, <1>4

LEMMA ReadKeepsFollow ==
    ASSUME NrfInv, StartInv, FollowInv, spiReceive
    PROVE  FollowInv'
<1>1. /\ UNCHANGED <<fsm, todo, chip>>
      /\ Events' = Events
      /\ \/ Receives("DATATOSSEND") /\ mQueue' = Tail(mQueue)
         \/ mQueue' = mQueue
  BY FrameRead
<1>2. CASE mQueue' = mQueue
  BY <1>1, <1>2, FollowKept
<1>3. CASE Receives("DATATOSSEND") /\ mQueue' = Tail(mQueue)
  <2>1. mQueue \in Seq(Message) /\ mQueue # <<>> /\ Head(mQueue).msgId = "DATATOSSEND"
    BY <1>3, Taken DEF StartInv
  <2>2. Head(mQueue).command = "none"
    BY <2>1, TailPlaces DEF Message, Signals
  <2>3. \A c : Carries(mQueue, c) <=> "none" = c \/ Carries(mQueue', c)
    BY <1>3, <2>1, <2>2, TailCarries
  <2>4. Answers(chip.mode, "none") = <<>>
    BY DEF Answers
  <2>5. ModeAfter(chip.mode, "none") = chip.mode
    BY <2>4 DEF ModeAfter
  <2>6. <<>> # <<"advertisingStarted">>
    OBVIOUS
  <2>7. chip.mode \in Executes =>
          /\ WillStart(mQueue, chip.mode) => WillStart(mQueue', chip.mode)
          /\ WillStop(mQueue) =>
               \/ WillStop(mQueue')
               \/ chip.mode = "idle" /\ ~Carries(mQueue', "advertisingOn")
    BY <1>3, <2>1, <2>2, <2>4, <2>5, <2>6, TailToggles
  <2>8. CASE fsm \in Ready
    <3>1. chip.mode \in Executes \/ chip.mode = "dfu"
      BY <2>8 DEF StartInv, Starting, NrfInv, TypeOK, Modes, Executes
    <3> QED
      BY <1>1, <2>3, <2>7, <3>1, FollowKept DEF Toggles
  <2>9. CASE fsm \notin Ready
    BY <1>1, <2>9 DEF FollowInv, Follows, Agrees, Ready, Advertisable
  <2> QED
    BY <2>8, <2>9
<1> QED
  BY <1>1, <1>2, <1>3

(* A state machine that is not READY says nothing of the chip. *)
LEMMA NothingToFollow ==
    ASSUME fsm' \notin Ready
    PROVE  FollowInv'
BY DEF FollowInv, Follows, Agrees, Ready, Advertisable

LEMMA AddedFollows ==
    ASSUME Follows, Events \in Seq(ChipEvents), UNCHANGED fsm,
           NEW event \in ChipEvents, Events' = Events \o <<event>>,
           chip.mode \in Before(event), chip'.mode = After(event)
    PROVE  Follows'
<1>1. /\ Linked(Events, chip.mode) => Linked(Events', chip'.mode)
      /\ \A first : From(first, Events, chip.mode) => From(first, Events', chip'.mode)
  BY AddedLinked
<1>2. Events' # <<>>
  BY AddedPlaces
<1> QED
  BY <1>1, <1>2 DEF Follows

LEMMA ChipDoesKeepsFollow ==
    ASSUME NrfInv, StartInv, FollowInv, NEW from, NEW to, NEW event,
           ChipDoes(from, to, <<event>>), Moved(from, to, event)
    PROVE  FollowInv'
<1>1. /\ chip.mode \in from /\ chip'.mode = to
      /\ event \in ChipEvents
      /\ Events \in Seq(ChipEvents)
      /\ Events' = Events \o <<event>>
      /\ UNCHANGED <<fsm, todo>>
      /\ mQueue \in Seq(Message)
      /\ mQueue' = DataToSendIsr(mQueue, frames, <<event>>)
  BY ChipDoesThis
<1>2. /\ chip.mode \in {"booting", "advertising", "connected"}
      /\ chip.mode \in Before(event) /\ After(event) = to
  BY <1>1, ChipMoves
<1>3. Follows /\ Agrees
  BY DEF FollowInv
<1>4. Follows'
  BY <1>1, <1>2, <1>3, AddedFollows
<1>5. /\ \A c : c # "none" => (Carries(mQueue', c) <=> Carries(mQueue, c))
      /\ WillStart(mQueue, chip'.mode) => WillStart(mQueue', chip'.mode)
      /\ WillStop(mQueue) => WillStop(mQueue')
  BY <1>1, IsrAddsNothing
<1>6. DfuAhead => DfuAhead'
  BY <1>2, <1>5 DEF DfuAhead
<1>7. Comes("advertisingStarted") => Comes("advertisingStarted")'
  BY <1>1, OneEvent DEF Comes
<1>8. WillStart(mQueue, chip.mode) => WillStart(mQueue', chip'.mode)
  BY <1>2, <1>5 DEF WillStart
<1>9. Starts => Starts'
  BY <1>1, <1>2, <1>5, <1>6, <1>7, <1>8 DEF Starts
<1>10. Stops => Stops'
  BY <1>1, <1>2, <1>5, <1>6 DEF Stops
<1> QED
  BY <1>1, <1>3, <1>4, <1>9, <1>10 DEF FollowInv, Agrees

LEMMA ChipKeepsFollow ==
    ASSUME Reliable, NrfInv, StartInv, FollowInv, ChipTakesPart
    PROVE  FollowInv'
<1>1. CASE ChipStarts
  BY <1>1, ChipDoesKeepsFollow DEF ChipStarts, Moved
<1>2. CASE ChipConnects
  BY <1>2, ChipDoesKeepsFollow DEF ChipConnects, Moved
<1>3. CASE ChipDisconnects
  BY <1>3, ChipDoesKeepsFollow DEF ChipDisconnects, Moved
<1>4. CASE ChipStopsAdvertising
  BY <1>4, ChipDoesKeepsFollow DEF ChipStopsAdvertising, Moved
<1>5. CASE ChipRestarts
  <2>1. fsm' = "Dfu"
    BY <1>5 DEF ChipRestarts, Reliable, fsmVars
  <2> QED
    BY <2>1, NothingToFollow DEF Ready, Advertisable
<1>6. ~FrameLost
  BY DEF FrameLost, Reliable
<1> QED
  BY <1>1, <1>2, <1>3, <1>4, <1>5, <1>6 DEF ChipTakesPart

LEMMA ResetsKeepFollow ==
    ASSUME Reliable, NrfInv, StartInv, FollowInv, execInit \/ execPowerOff \/ execForceDfu
    PROVE  FollowInv'
<1>1. ResetAhead /\ SwitchedOff
  BY DEF StartInv
<1>2. CASE execInit
  <2>1. Receives("INIT") /\ fsm' = fsm
    BY <1>2 DEF execInit, fsmVars
  <2>2. fsm \in {"On", "Off"}
    BY <1>1, <2>1, Taken DEF ResetAhead, InitAhead
  <2> QED
    BY <2>1, <2>2, NothingToFollow DEF Ready, Advertisable
<1>3. CASE execPowerOff
  <2>1. Receives("POWEROFF") /\ fsm' = fsm
    BY <1>3 DEF execPowerOff
  <2>2. fsm = "Off"
    BY <1>1, <2>1, Taken DEF SwitchedOff
  <2> QED
    BY <2>1, <2>2, NothingToFollow DEF Ready, Advertisable
<1>4. CASE execForceDfu
  <2>1. /\ Receives("FORCEDFU")
        /\ chip'.mode = "dfu" /\ frames' = <<"enteredDfu">> /\ frame' = frame
    BY <1>4 DEF execForceDfu, Reliable, Chip
  <2>2. Events' = <<"enteredDfu">>
    BY <2>1 DEF Events, Receives, Idle
  <2>3. Linked(Events', "dfu") /\ Events' # <<>>
    BY <2>2 DEF Linked, After
  <2>4. From("advertising", Events', "dfu") /\ From("connected", Events', "dfu")
    BY <2>2, <2>3 DEF From, Before, Modes
  <2>5. Follows'
    BY <2>1, <2>3, <2>4 DEF Follows
  <2>6. DfuAhead'
    BY <2>1 DEF DfuAhead
  <2> QED
    BY <2>5, <2>6 DEF FollowInv, Agrees, Starts, Stops
<1> QED
  BY <1>2, <1>3, <1>4

LEMMA SendKeepsFollow ==
    ASSUME Reliable, NrfInv, StartInv, FollowInv, execSendCommand
    PROVE  FollowInv'
<1> DEFINE command == Head(mQueue).command
           mode == chip.mode
           answers == Answers(mode, command)
           after == ModeAfter(mode, command)
<1>1. /\ Receives("SEND_COMMAND")
      /\ UNCHANGED <<fsm, todo>>
      /\ ChipExecutes(command) \/ Unheard
  BY CommandSent
<1>2. /\ mQueue \in Seq(Message) /\ mQueue # <<>> /\ Tail(mQueue) \in Seq(Message)
      /\ mode \in Modes
      /\ Events \in Seq(ChipEvents)
  BY <1>1, Taken, NrfInvParts, EventsType DEF StartInv, FrameInv
<1>3. Follows /\ Agrees /\ Starting
  BY DEF FollowInv, StartInv
<1>4. CASE Unheard
  <2>1. fsm' \notin Ready
    BY <1>1, <1>3, <1>4 DEF Unheard, Starting
  <2> QED
    BY <2>1, NothingToFollow
<1>5. CASE ChipExecutes(command)
  <2>1. /\ mode \notin {"reset", "booting"}
        /\ chip'.mode = after
        /\ Events' = Events \o answers
        /\ \E pending : mQueue' = DataToSendIsr(Tail(mQueue), pending, answers)
    BY <1>5 DEF ChipExecutes
  <2>2. \/ answers = <<>> /\ after = mode
        \/ \E event \in ChipEvents \ {"started"} :
             answers = <<event>> /\ mode \in Before(event) /\ after = After(event)
    BY <1>2, <2>1, AnswersLinked
  <2>3. /\ mode = "dfu" => after = "dfu"
        /\ command = "startDfu" => after = "dfu"
        /\ mode \in Executes \cup {"dfu"}
    BY <1>2, <2>1, ModeAfterIs
  <2>4. /\ command = "advertisingOff" /\ mode # "dfu" => after = "idle"
        /\ mode = "idle" => \/ after \in {"idle", "dfu"}
                            \/ command = "advertisingOn" /\ answers = <<"advertisingStarted">>
    BY <2>1, <2>3 DEF ModeAfter, Answers, Executes
  <2>5. \A c : Carries(mQueue, c) <=> command = c \/ Carries(Tail(mQueue), c)
    BY <1>2, TailCarries
  <2>6. mode \in Executes =>
          /\ WillStart(mQueue, mode)
               => \/ WillStart(Tail(mQueue), after)
                  \/ answers = <<"advertisingStarted">>
                  \/ command = "startDfu"
          /\ WillStop(mQueue)
               => \/ WillStop(Tail(mQueue))
                  \/ after = "idle" /\ ~Carries(Tail(mQueue), "advertisingOn")
    BY <1>2, TailToggles
  <2> HIDE DEF command, answers, after, mode
  <2>7. /\ \A c : c # "none" => (Carries(mQueue', c) <=> Carries(Tail(mQueue), c))
        /\ WillStart(Tail(mQueue), after) => WillStart(mQueue', after)
        /\ WillStop(Tail(mQueue)) => WillStop(mQueue')
    <3>1. PICK pending : mQueue' = DataToSendIsr(Tail(mQueue), pending, answers)
      BY <2>1
    <3>2. LET next == DataToSendIsr(Tail(mQueue), pending, answers)
          IN /\ \A c : c # "none" => (Carries(next, c) <=> Carries(Tail(mQueue), c))
             /\ WillStart(Tail(mQueue), after) => WillStart(next, after)
             /\ WillStop(Tail(mQueue)) => WillStop(next)
      BY <1>2, IsrAddsNothing
    <3> QED
      BY <3>1, <3>2
  <2>8. Follows'
    <3>1. CASE answers = <<>> /\ after = mode
      <4>1. Events' = Events
        BY <1>2, <2>1, <3>1
      <4> QED
        BY <1>1, <1>3, <2>1, <3>1, <4>1 DEF Follows, mode
    <3>2. ASSUME NEW event \in ChipEvents, answers = <<event>>, mode \in Before(event),
                 after = After(event)
          PROVE  Follows'
      BY <1>1, <1>2, <1>3, <2>1, <3>2, AddedFollows DEF mode
    <3> QED
      BY <2>2, <3>1, <3>2
  <2>9. /\ Comes("advertisingStarted") => Comes("advertisingStarted")'
        /\ answers = <<"advertisingStarted">> => Comes("advertisingStarted")'
    <3>1. CASE answers = <<>>
      <4>1. Events' = Events /\ answers # <<"advertisingStarted">>
        BY <1>2, <2>1, <3>1
      <4> QED
        BY <4>1 DEF Comes
    <3>2. ASSUME NEW event \in ChipEvents, answers = <<event>>
          PROVE  /\ Comes("advertisingStarted") => Comes("advertisingStarted")'
                 /\ answers = <<"advertisingStarted">> => Comes("advertisingStarted")'
      <4>1. answers = <<"advertisingStarted">> => event = "advertisingStarted"
        BY <3>2
      <4>2. LET longer == Events \o <<event>>
            IN /\ \A j \in 1..Len(Events) : \E i \in 1..Len(longer) : longer[i] = Events[j]
               /\ \E i \in 1..Len(longer) : longer[i] = event
        BY <1>2, OneEvent
      <4>3. Events' = Events \o <<event>>
        BY <2>1, <3>2
      <4>4. /\ \A j \in 1..Len(Events) : \E i \in 1..Len(Events') : Events'[i] = Events[j]
            /\ \E i \in 1..Len(Events') : Events'[i] = event
        BY <4>2, <4>3
      <4>5. Comes("advertisingStarted") => Comes("advertisingStarted")'
        BY <4>4 DEF Comes
      <4>6. event = "advertisingStarted" => Comes("advertisingStarted")'
        BY <4>4 DEF Comes
      <4> QED
        BY <4>1, <4>5, <4>6
    <3> QED
      BY <2>2, <3>1, <3>2
  <2>10. after = "dfu" => DfuAhead'
    BY <2>1 DEF DfuAhead
  <2>11. DfuAhead => DfuAhead'
    BY <2>1, <2>3, <2>5, <2>7 DEF DfuAhead, mode
  <2>12. ASSUME fsm = "StartingAdvertising"
         PROVE  Starts'
    <3>1. CASE Among("advertisingOn", todo) /\ (mode = "idle" \/ Carries(mQueue, "advertisingOff"))
      <4>1. \/ Carries(mQueue', "advertisingOff")
            \/ after \in {"idle", "dfu"}
            \/ answers = <<"advertisingStarted">>
        BY <2>3, <2>4, <2>5, <2>7, <3>1
      <4> QED
        BY <1>1, <2>1, <2>9, <2>10, <3>1, <4>1 DEF Starts
    <3>2. CASE WillStart(mQueue, mode)
      <4>1. \/ WillStart(mQueue', after)
            \/ answers = <<"advertisingStarted">>
            \/ after = "dfu"
        BY <2>3, <2>6, <2>7, <3>2
      <4> QED
        BY <2>1, <2>9, <2>10, <4>1 DEF Starts
    <3> QED
      BY <1>3, <2>9, <2>11, <2>12, <3>1, <3>2 DEF Agrees, Starts, mode
  <2>13. ASSUME fsm = "Configured"
         PROVE  Stops'
    <3>1. CASE WillStop(mQueue)
      <4>1. \/ WillStop(mQueue')
            \/ after = "idle" /\ ~Carries(mQueue', "advertisingOn")
            \/ after = "dfu"
        BY <2>3, <2>6, <2>7, <3>1
      <4> QED
        BY <2>1, <2>10, <4>1 DEF Stops
    <3>2. CASE mode = "idle" /\ ~Carries(mQueue, "advertisingOn")
      <4>1. after \in {"idle", "dfu"} /\ ~Carries(mQueue', "advertisingOn")
        BY <2>4, <2>5, <2>7, <3>2
      <4> QED
        BY <2>1, <2>10, <4>1 DEF Stops
    <3> QED
      BY <1>1, <1>3, <2>11, <2>13, <3>1, <3>2 DEF Agrees, Stops, mode
  <2> QED
    BY <1>1, <2>8, <2>12, <2>13 DEF FollowInv, Agrees
<1> QED
  BY <1>1, <1>4, <1>5

LEMMA FollowStays ==
    ASSUME FollowInv, UNCHANGED <<fsm, todo, mQueue, frame, frames, chip>>
    PROVE  FollowInv'
BY DEF FollowInv, Follows, Agrees, Starts, Stops, DfuAhead, Comes, Events

LEMMA FollowStep ==
    ASSUME Reliable, OrdersFit, NrfInv, StartInv, FollowInv, [Next]_vars
    PROVE  FollowInv'
<1>1. CASE Drive
  BY <1>1, DriveReceives, ReceiveFollows, ReceiveAgrees DEF FollowInv
<1>2. CASE GiveOrder
  BY <1>2, GiveOrderKeepsFollow
<1>3. CASE enterDfu \/ forceDfu
  BY <1>3, UpdateKeepsFollow
<1>4. CASE execInit \/ execPowerOff \/ execForceDfu
  BY <1>4, ResetsKeepFollow
<1>5. CASE execSendCommand
  BY <1>5, SendKeepsFollow
<1>6. CASE spiReceive
  BY <1>6, ReadKeepsFollow
<1>7. CASE UNCHANGED <<fsm, power, mutex, todo, mQueue, frame, frames, chip>>
  BY <1>7, FollowStays
<1>8. CASE releasePacket
  BY <1>8, FollowStays DEF releasePacket, fsmVars, chipVars
<1>9. CASE ChipTakesPart
  BY <1>9, ChipKeepsFollow
<1>10. CASE Reset
  BY <1>10, ResetDoes, NothingToFollow DEF Ready, Advertisable
<1> QED
  BY <1>1, <1>2, <1>3, <1>4, <1>5, <1>6, <1>7, <1>8, <1>9, <1>10, Steps

(* When nothing is on its way any more, nothing is ahead. *)
LEMMA QuietFollows ==
    ASSUME NrfInv, StartInv, FollowInv
    PROVE  ChipFollows
<1> SUFFICES ASSUME Quiet, fsm # "Dfu" PROVE chip.mode = ModeOf(fsm)
  BY DEF ChipFollows
<1>1. todo = <<>> /\ mQueue = <<>> /\ Events = <<>> /\ chip.mode # "booting" /\ fsm \in States
  BY DEF Quiet, NrfInv, TypeOK, OrdersUnderMutex, Events
<1>2. /\ \A o : ~Among(o, todo) /\ ~Holds(mQueue, o) /\ ~Carries(mQueue, o)
      /\ \A e : ~Comes(e)
      /\ ~WillStart(mQueue, chip.mode) /\ ~WillStop(mQueue) /\ ~InitAhead
  BY <1>1 DEF Among, Holds, Carries, Comes, WillStart, WillStop, InitAhead
<1>3. SwitchedOff /\ Starting /\ Follows /\ Agrees
  BY DEF StartInv, FollowInv
<1>4. fsm \notin {"Off", "On"}
  BY <1>1, <1>2, <1>3 DEF SwitchedOff, Starting, Quiet
<1>5. fsm \in Ready => ~DfuAhead
  BY <1>1, <1>2, <1>3 DEF Follows, DfuAhead
<1>6. fsm # "StartingAdvertising"
  BY <1>2, <1>3, <1>5 DEF Agrees, Starts, Ready, Advertisable
<1>7. fsm = "Configured" => chip.mode = "idle"
  BY <1>2, <1>3, <1>5 DEF Agrees, Stops, Ready
<1>8. /\ fsm = "Started" => chip.mode = "idle"
      /\ fsm = "Advertising" => chip.mode = "advertising"
      /\ fsm = "Connected" => chip.mode = "connected"
  BY <1>1, <1>3 DEF Starting, Follows, From
<1> QED
  BY <1>1, <1>4, <1>6, <1>7, <1>8 DEF ModeOf, States, Ready, Advertisable

LEMMA FollowFromReset ==
    ASSUME fsm = "Off"
    PROVE  FollowInv
BY DEF FollowInv, Follows, Agrees, Ready, Advertisable

(* Without restarts and lost frames, and as long as the orders about the   *)
(* configuration and about advertising find room, the state machine tells  *)
(* what the chip does whenever nothing is on its way between them.         *)
THEOREM ChipFollowsCorrect ==
    ASSUME Reliable
    PROVE  Spec /\ []OrdersFit => []ChipFollows
<1> DEFINE Inv == NrfInv /\ StartInv /\ FollowInv
<1>1. Init => Inv
  BY InitOK, FromReset, FollowFromReset DEF Init
<1>2. Inv /\ OrdersFit /\ [Next]_vars => Inv'
  BY StepOK, StartStep, FollowStep
<1>3. Inv => ChipFollows
  BY QuietFollows
<1> QED
  BY <1>1, <1>2, <1>3, PTL DEF Spec
=============================================================================
