---------------------------- MODULE AppCommProofs ----------------------------
(* The transfer of data and the proxy's mutex, for every length, every     *)
(* stream and every window.                                                *)
EXTENDS AppComm, TLAPS

(* A command without a transfer, and with one. *)
Nothing ==
    /\ mCurrentState = "INIT"
    /\ ~listening /\ m_writer = "none"
    /\ mCurrentOffset = 0 /\ mCurrentStreamDataTotalLength = 0

UnderWay ==
    /\ mCurrentState = "GET_DATA"
    /\ listening /\ m_writer = "open"
    /\ mCurrentOffset <= mCurrentStreamDataTotalLength
    /\ mDataLength = mCurrentStreamDataTotalLength
    /\ stored = mCurrentOffset

(* What the command looks like at each place of the one task in it. *)
Where(t) ==
    /\ at[t].from = mCurrentState
    /\ pc[t] = "prepare" =>
           /\ at[t].cmdID = "START"
           /\ listening /\ m_writer = "none"
           /\ mCurrentOffset = 0 /\ mCurrentStreamDataTotalLength = 0
    /\ pc[t] = "store" =>
           at[t].cmdID = "SEND" /\ UnderWay /\ at[t].offset = mCurrentOffset
    /\ pc[t] = "finish" =>
           /\ at[t].cmdID = "STOP" /\ UnderWay
           /\ mCurrentOffset = mCurrentStreamDataTotalLength
    /\ pc[t] = "check" =>
           /\ at[t].cmdID = "STOP" /\ mCurrentState = "GET_DATA"
           /\ listening /\ m_writer = "closed"
           /\ stored = mDataLength
           /\ onDisk = stored \/ t \in unflushed
    /\ pc[t] \in {"respond", "conclude"} =>
           /\ Stays(t) => Nothing \/ UnderWay
           /\ Begins(t) =>
                  /\ listening /\ m_writer = "open"
                  /\ mCurrentOffset = 0 /\ stored = 0
                  /\ mDataLength = mCurrentStreamDataTotalLength
           /\ ~Stays(t) /\ ~Begins(t) => listening \/ m_writer = "none"

(* Who is in the command, and who has met another there. *)
Who ==
    /\ \A t \in Task : Inside(t) <=> pc[t] # "receive"
    /\ \A t \in met : Inside(t)
    /\ \A t, u \in Task : Inside(t) /\ t \notin met /\ Inside(u) => u = t
    /\ ~crossed => met = {}

(* The invariant of the command is inductive: what is between two frames   *)
(* rests on where the task that handles one stands.                        *)
StreamInv ==
    /\ StreamTypeOK
    /\ Who
    /\ TransferConsistent
    /\ ~crossed => \A t \in Task : Inside(t) => Where(t)
    /\ ListenerFree

(* A receiver that keeps the mutex still has its frame in its hand. *)
LockInv ==
    /\ received \subseteq Task
    /\ frames \in [Task -> Nat]
    /\ holder \in Task \cup {NoLink}
    /\ holder # NoLink => holder \in received
    /\ LockLostOnlyWhenCrowded

-----------------------------------------------------------------------------

Place ==
    {"receive", "prepare", "store", "finish", "check", "respond", "conclude"}

(* The disk holds some bytes of the data, however the file was closed. *)
LEMMA CloseTyped ==
    ASSUME StreamTypeOK, Close
    PROVE  onDisk' \in Nat \cup {Garbled}
  BY DEF StreamTypeOK, Close

(* A task that enters is alone, or the tasks have met. *)
LEMMA EnterKeeps ==
    ASSUME StreamTypeOK, Who, NEW t \in Task, pc[t] = "receive",
           NEW cmdID \in {"START", "SEND", "STOP", "UNKNOWN"},
           NEW offset \in 0..MaxLength, NEW length \in 0..MaxLength,
           NEW place \in {"prepare", "store", "finish", "respond"},
           Enter(t, cmdID, offset, length, place)
    PROVE  /\ pc' \in [Task -> Place]
           /\ at' \in [Task -> Handled \cup {NoFrame}]
           /\ met' \subseteq Task
           /\ crossed' \in BOOLEAN
           /\ unflushed' = unflushed
           /\ Who'
           /\ pc'[t] = place
           /\ at'[t].cmdID = cmdID
           /\ at'[t].from = mCurrentState
           /\ at'[t].ret = "ERROR"
           /\ place # "respond" => at'[t].offset = offset
           /\ Inside(t)'
           /\ ~crossed' => /\ ~crossed
                           /\ \A u \in Task : ~Inside(u)
                           /\ \A u \in Task : Inside(u)' => u = t
  <1> DEFINE others == {u \in Task \ {t} : Inside(u)}
             frame == [cmdID |-> cmdID, from |-> mCurrentState,
                       offset |-> IF place = "respond" THEN 0 ELSE offset,
                       length |-> IF place = "respond" THEN 0 ELSE length,
                       ret |-> "ERROR"]
  <1>1. /\ pc \in [Task -> Place]
        /\ at \in [Task -> Handled \cup {NoFrame}]
        /\ met \subseteq Task
        /\ crossed \in BOOLEAN
        /\ mCurrentState \in {"INIT", "GET_DATA"}
        /\ MaxLength \in Nat
    BY StreamAssumption DEF StreamTypeOK, Place
  <1>2. frame \in Handled
    BY <1>1 DEF Handled, RetCode
  <1>3. /\ pc' = [pc EXCEPT ![t] = place]
        /\ at' = [at EXCEPT ![t] = frame]
        /\ met' = IF others = {} THEN met ELSE met \cup others \cup {t}
        /\ crossed' = (crossed \/ others # {})
        /\ unflushed' = unflushed
    BY DEF Enter, GoTo
  <1>4. pc' \in [Task -> Place] /\ pc'[t] = place
    BY <1>1, <1>3 DEF Place
  <1>5. at' \in [Task -> Handled \cup {NoFrame}] /\ at'[t] = frame
    BY <1>1, <1>2, <1>3
  <1>6. Inside(t)' /\ \A u \in Task \ {t} : Inside(u)' <=> Inside(u)
    BY <1>1, <1>3, <1>5 DEF Inside
  <1>7. ~Inside(t) /\ t \notin met
    BY DEF Who
  <1>8. met' \subseteq Task /\ crossed' \in BOOLEAN
    BY <1>1, <1>3
  <1>9. Who'
    <2>1. \A u \in Task : Inside(u)' <=> pc'[u] # "receive"
      BY <1>1, <1>3, <1>6 DEF Who
    <2>2. \A u \in met' : Inside(u)'
      BY <1>1, <1>3, <1>6 DEF Who
    <2>3. \A u, w \in Task : Inside(u)' /\ u \notin met' /\ Inside(w)' => w = u
      <3>1. CASE others = {}
        <4>1. \A u \in Task : Inside(u)' => u = t
          BY <3>1, <1>6
        <4> QED  BY <4>1
      <3>2. CASE others # {}
        BY <3>2, <1>3, <1>6
      <3> QED  BY <3>1, <3>2
    <2>4. ~crossed' => met' = {}
      BY <1>3, <1>1 DEF Who
    <2> QED  BY <2>1, <2>2, <2>3, <2>4 DEF Who
  <1>10. ~crossed' => /\ ~crossed
                      /\ \A u \in Task : ~Inside(u)
                      /\ \A u \in Task : Inside(u)' => u = t
    BY <1>1, <1>3, <1>6, <1>7
  <1> QED
    BY <1>3, <1>4, <1>5, <1>6, <1>8, <1>9, <1>10

(* An answer changes nobody's place but the one of the task that gives it. *)
LEMMA AnswerKeeps ==
    ASSUME StreamTypeOK, Who, NEW t \in Task, pc[t] # "receive",
           NEW ret \in RetCode, Answer(t, ret)
    PROVE  /\ pc' \in [Task -> Place]
           /\ at' \in [Task -> Handled \cup {NoFrame}]
           /\ met' = met /\ crossed' = crossed
           /\ unflushed' = unflushed \ {t}
           /\ Who'
           /\ pc'[t] = "respond"
           /\ at'[t].cmdID = at[t].cmdID
           /\ at'[t].from = at[t].from
           /\ at'[t].ret = ret
           /\ \A u \in Task : Inside(u)' <=> Inside(u)
  <1>1. /\ pc \in [Task -> Place]
        /\ at \in [Task -> Handled \cup {NoFrame}]
        /\ MaxLength \in Nat
    BY StreamAssumption DEF StreamTypeOK, Place
  <1>2. at[t] \in Handled
    BY <1>1 DEF Who, Inside, NoFrame
  <1> DEFINE frame == [cmdID |-> at[t].cmdID, from |-> at[t].from,
                       offset |-> 0, length |-> 0, ret |-> ret]
  <1>3. /\ frame \in Handled /\ frame.cmdID = at[t].cmdID
        /\ frame.from = at[t].from /\ frame.ret = ret
    BY <1>1, <1>2 DEF Handled
  <1>4. at' = [at EXCEPT ![t] = frame]
    BY DEF Answer
  <1>5. /\ pc' = [pc EXCEPT ![t] = "respond"]
        /\ met' = met /\ crossed' = crossed /\ unflushed' = unflushed \ {t}
    BY DEF Answer, GoTo
  <1>6. at' \in [Task -> Handled \cup {NoFrame}] /\ at'[t] = frame
    BY <1>1, <1>3, <1>4
  <1>7. \A u \in Task : Inside(u)' <=> Inside(u)
    BY <1>1, <1>3, <1>4, <1>6 DEF Inside
  <1>8. Who'
    <2>1. \A u \in Task : Inside(u)' <=> pc'[u] # "receive"
      BY <1>1, <1>5, <1>7 DEF Who
    <2>2. \A u \in met' : Inside(u)'
      BY <1>1, <1>5, <1>7 DEF Who, StreamTypeOK
    <2>3. \A u, w \in Task : Inside(u)' /\ u \notin met' /\ Inside(w)' => w = u
      BY <1>5, <1>7 DEF Who
    <2> QED  BY <2>1, <2>2, <2>3, <1>5 DEF Who
  <1> QED
    BY <1>1, <1>3, <1>5, <1>6, <1>7, <1>8 DEF Place

(* With one task in the command, that nobody met, it is where it must be.  *)
LEMMA OneInside ==
    ASSUME StreamInv, ~crossed, NEW t \in Task, Inside(t)
    PROVE  Where(t) /\ \A u \in Task : Inside(u) => u = t
  <1>1. t \notin met
    BY DEF StreamInv, Who
  <1> QED  BY <1>1 DEF StreamInv, Who

(* With nobody in it nothing is under way, or a transfer is. *)
LEMMA NobodyInside ==
    ASSUME StreamInv, ~crossed, \A u \in Task : ~Inside(u)
    PROVE  Nothing \/ UnderWay
  BY DEF StreamInv, TransferConsistent, Nothing, UnderWay

(* To keep the invariant a step of a task must leave that task, if nobody  *)
(* met it, where it must be.                                               *)
LEMMA InsideKeeps ==
    ASSUME StreamTypeOK', Who', ListenerFree', NEW t \in Task, Inside(t)',
           ~crossed' => Where(t)' /\ \A u \in Task : Inside(u)' => u = t
    PROVE  StreamInv'
  <1>1. TransferConsistent'
    BY DEF TransferConsistent
  <1>2. ~crossed' => \A u \in Task : Inside(u)' => Where(u)'
    <2> SUFFICES ASSUME ~crossed', NEW u \in Task, Inside(u)'
                 PROVE  Where(u)'
      OBVIOUS
    <2>1. u = t
      OBVIOUS
    <2> QED  BY <2>1
  <1> QED  BY <1>1, <1>2 DEF StreamInv

LEMMA evtStartKeeps ==
    ASSUME StreamInv, NEW t \in Task, pc[t] = "receive",
           NEW f \in StartFrame, evtStart(t, f)
    PROVE  StreamInv'
  <1> DEFINE found == f.dataId = "listener"
             place == IF found THEN "prepare" ELSE "respond"
  <1>1. f.length \in 0..MaxLength /\ MaxLength \in Nat
    BY StreamAssumption DEF StartFrame
  <1>2. StreamTypeOK /\ Who
    BY DEF StreamInv
  <1>3. Enter(t, "START", 0, f.length, place)
    BY DEF evtStart
  <1>4. place \in {"prepare", "respond"} /\ found \in BOOLEAN
    OBVIOUS
  <1> HIDE DEF place
  <1>5. /\ pc' \in [Task -> Place]
        /\ at' \in [Task -> Handled \cup {NoFrame}]
        /\ met' \subseteq Task
        /\ crossed' \in BOOLEAN
        /\ unflushed' = unflushed
        /\ Who'
        /\ pc'[t] = place
        /\ at'[t].cmdID = "START"
        /\ at'[t].from = mCurrentState
        /\ at'[t].ret = "ERROR"
        /\ Inside(t)'
        /\ ~crossed' => /\ ~crossed
                        /\ \A u \in Task : ~Inside(u)
                        /\ \A u \in Task : Inside(u)' => u = t
    BY <1>1, <1>2, <1>3, <1>4, EnterKeeps
  <1>6. ~crossed' => Nothing \/ UnderWay
    BY <1>5, NobodyInside
  <1>7. CASE mCurrentState = "GET_DATA"
    <2>1. /\ m_writer' = IF listening THEN "none" ELSE m_writer
          /\ listening' = found
          /\ mCurrentOffset' = 0
          /\ mCurrentStreamDataTotalLength' = 0
          /\ stored' \in {stored, 0}
          /\ UNCHANGED <<mCurrentState, mDataLength, failed>>
          /\ Close \/ UNCHANGED onDisk
      BY <1>7, <1>2 DEF evtStart, resetProtocol, StreamTypeOK
    <2>4. onDisk' \in Nat \cup {Garbled}
      BY <1>2, <2>1, CloseTyped DEF StreamTypeOK
    <2>2. StreamTypeOK' /\ ListenerFree'
      BY <1>1, <1>2, <1>5, <2>1, <2>4
      DEF StreamTypeOK, StreamInv, ListenerFree, Place
    <2>3. ~crossed' => Where(t)'
      BY <1>4, <1>5, <1>6, <1>7, <2>1
      DEF Where, Nothing, UnderWay, Stays, Begins, place
    <2> QED  BY <1>5, <2>2, <2>3, InsideKeeps
  <1>8. CASE mCurrentState = "INIT" /\ ~listening
    <2>1. /\ listening' = found
          /\ UNCHANGED <<mCurrentState, mCurrentOffset,
                         mCurrentStreamDataTotalLength, listenerVars, failed>>
      BY <1>8 DEF evtStart
    <2>2. StreamTypeOK' /\ ListenerFree'
      BY <1>1, <1>2, <1>5, <2>1
      DEF StreamTypeOK, StreamInv, ListenerFree, Place, listenerVars
    <2>3. ~crossed' => Where(t)'
      BY <1>4, <1>5, <1>6, <1>8, <2>1
      DEF Where, Nothing, UnderWay, Stays, Begins, place, listenerVars
    <2> QED  BY <1>5, <2>2, <2>3, InsideKeeps
  <1>9. CASE mCurrentState = "INIT" /\ listening
    <2>1. failed' = "listener" /\ UNCHANGED <<protocolVars, listenerVars>>
      BY <1>9 DEF evtStart
    <2>2. crossed'
      BY <1>6, <1>5, <1>9 DEF Nothing, UnderWay
    <2>3. StreamTypeOK' /\ ListenerFree'
      BY <1>1, <1>2, <1>5, <2>1, <2>2
      DEF StreamTypeOK, ListenerFree, Place, listenerVars, protocolVars
    <2> QED  BY <1>5, <2>2, <2>3, InsideKeeps
  <1> QED  BY <1>2, <1>7, <1>8, <1>9 DEF StreamTypeOK

(* A frame that is only looked at. *)
LEMMA LookKeeps ==
    ASSUME StreamInv, NEW t \in Task, pc[t] = "receive",
           NEW cmdID \in {"SEND", "STOP", "UNKNOWN"},
           NEW offset \in 0..MaxLength, NEW length \in 0..MaxLength,
           NEW place \in {"store", "finish", "respond"},
           Enter(t, cmdID, offset, length, place),
           place = "store" => /\ cmdID = "SEND" /\ offset = mCurrentOffset
                              /\ mCurrentState = "GET_DATA",
           place = "finish" =>
               /\ cmdID = "STOP" /\ mCurrentState = "GET_DATA"
               /\ mCurrentOffset = mCurrentStreamDataTotalLength,
           UNCHANGED <<protocolVars, listenerVars, failed>>
    PROVE  StreamInv'
  <1>1. StreamTypeOK /\ Who
    BY DEF StreamInv
  <1>2. /\ pc' \in [Task -> Place]
        /\ at' \in [Task -> Handled \cup {NoFrame}]
        /\ met' \subseteq Task
        /\ crossed' \in BOOLEAN
        /\ unflushed' = unflushed
        /\ Who'
        /\ pc'[t] = place
        /\ at'[t].cmdID = cmdID
        /\ at'[t].from = mCurrentState
        /\ at'[t].ret = "ERROR"
        /\ place # "respond" => at'[t].offset = offset
        /\ Inside(t)'
        /\ ~crossed' => /\ ~crossed
                        /\ \A u \in Task : ~Inside(u)
                        /\ \A u \in Task : Inside(u)' => u = t
    BY <1>1, EnterKeeps
  <1>3. ~crossed' => Nothing \/ UnderWay
    BY <1>2, NobodyInside
  <1>4. StreamTypeOK' /\ ListenerFree'
    BY <1>1, <1>2
    DEF StreamTypeOK, StreamInv, ListenerFree, Place, protocolVars, listenerVars
  <1>5. ~crossed' => Where(t)'
    BY <1>2, <1>3
    DEF Where, Nothing, UnderWay, Stays, Begins, protocolVars, listenerVars
  <1> QED  BY <1>2, <1>4, <1>5, InsideKeeps

LEMMA FrameKeeps ==
    ASSUME StreamInv, NEW t \in Task, pc[t] = "receive",
           \/ \E f \in StartFrame : evtStart(t, f)
           \/ \E f \in SendFrame : evtSend(t, f)
           \/ \E f \in StopFrame : evtStop(t, f)
           \/ nack(t)
    PROVE  StreamInv'
  <1>0. MaxLength \in Nat \ {0}
    BY StreamAssumption
  <1>1. ASSUME NEW f \in SendFrame, evtSend(t, f) PROVE StreamInv'
    <2>1. f.offset \in 0..MaxLength /\ f.length \in 0..MaxLength
      BY <1>0 DEF SendFrame
    <2>2. CASE mCurrentState = "GET_DATA" /\ Expected(f)
      BY <1>1, <2>1, <2>2, LookKeeps DEF evtSend, Expected
    <2>3. CASE ~(mCurrentState = "GET_DATA" /\ Expected(f))
      BY <1>1, <2>1, <2>3, LookKeeps DEF evtSend
    <2> QED  BY <2>2, <2>3
  <1>2. ASSUME NEW f \in StopFrame, evtStop(t, f) PROVE StreamInv'
    <2> DEFINE complete == /\ mCurrentOffset = mCurrentStreamDataTotalLength
                           /\ listening /\ f.dataId = "listener"
    <2>1. CASE mCurrentState = "GET_DATA" /\ complete
      BY <1>0, <1>2, <2>1, LookKeeps DEF evtStop
    <2>2. CASE ~(mCurrentState = "GET_DATA" /\ complete)
      BY <1>0, <1>2, <2>2, LookKeeps DEF evtStop
    <2> QED  BY <2>1, <2>2
  <1>3. CASE nack(t)
    BY <1>0, <1>3, LookKeeps DEF nack
  <1> QED  BY <1>1, <1>2, <1>3, evtStartKeeps

LEMMA doPrepareKeeps ==
    ASSUME StreamInv, NEW t \in Task, doPrepare(t)
    PROVE  StreamInv'
  <1>1. StreamTypeOK /\ Who /\ Inside(t) /\ MaxLength \in Nat
    BY StreamAssumption DEF StreamInv, Who, doPrepare
  <1>2. at[t] \in Handled
    BY <1>1 DEF StreamTypeOK, Inside, NoFrame
  <1>3. PICK ret \in RetCode : Answer(t, ret)
    BY DEF doPrepare, RetCode
  <1>4. /\ pc' \in [Task -> Place]
        /\ at' \in [Task -> Handled \cup {NoFrame}]
        /\ met' = met /\ crossed' = crossed
        /\ unflushed' = unflushed \ {t}
        /\ Who'
        /\ pc'[t] = "respond"
        /\ at'[t].cmdID = at[t].cmdID
        /\ at'[t].from = at[t].from
        /\ at'[t].ret = ret
        /\ \A u \in Task : Inside(u)' <=> Inside(u)
    BY <1>1, <1>3, AnswerKeeps DEF doPrepare
  <1>7. onDisk' \in Nat \cup {Garbled}
    BY <1>1, CloseTyped DEF doPrepare, listenerVars, StreamTypeOK
  <1>5. StreamTypeOK' /\ ListenerFree'
    BY <1>1, <1>2, <1>4, <1>7
    DEF StreamTypeOK, StreamInv, ListenerFree, doPrepare, Handled, Place,
        listenerVars
  <1>6. ~crossed => Where(t)' /\ \A u \in Task : Inside(u)' => u = t
    <2> HAVE ~crossed
    <2>1. Where(t) /\ \A u \in Task : Inside(u) => u = t
      BY <1>1, OneInside
    <2>2. CASE ret = "SUCCESS"
      <3>1. /\ mCurrentStreamDataTotalLength' = mDataLength'
            /\ m_writer' = "open" /\ stored' = 0
        BY <1>4, <2>2, <1>1 DEF doPrepare, Answer, StreamTypeOK, Inside
      <3>2. /\ at[t].cmdID = "START" /\ at[t].from = mCurrentState
            /\ listening' /\ mCurrentOffset' = 0
            /\ mCurrentState' = mCurrentState
        BY <2>1 DEF doPrepare, Where
      <3>3. mCurrentStreamDataTotalLength' >= 0
        BY <1>5, <1>1 DEF StreamTypeOK
      <3>4. CASE mCurrentState = "INIT"
        <4>1. Where(t)'
          BY <1>4, <2>2, <3>1, <3>2, <3>4 DEF Where, Stays, Begins
        <4> QED  BY <2>1, <4>1, <1>4
      <3>5. CASE mCurrentState = "GET_DATA"
        <4>1. UnderWay'
          BY <3>1, <3>2, <3>3, <3>5 DEF UnderWay
        <4>2. Where(t)'
          BY <1>4, <2>2, <3>2, <3>5, <4>1 DEF Where, Stays, Begins
        <4> QED  BY <2>1, <4>2, <1>4
      <3> QED  BY <3>4, <3>5, <1>1 DEF StreamTypeOK
    <2>3. CASE ret = "ERROR"
      <3>1. Where(t)'
        BY <1>2, <1>4, <2>1, <2>3, <1>1
        DEF doPrepare, Where, Stays, Begins, StreamTypeOK
      <3> QED  BY <2>1, <3>1, <1>4
    <2> QED  BY <2>2, <2>3 DEF RetCode
  <1> QED  BY <1>1, <1>4, <1>5, <1>6, InsideKeeps

LEMMA doStreamDataKeeps ==
    ASSUME StreamInv, NEW t \in Task, doStreamData(t)
    PROVE  StreamInv'
  <1>1. StreamTypeOK /\ Who /\ Inside(t) /\ MaxLength \in Nat
    BY StreamAssumption DEF StreamInv, Who, doStreamData
  <1>2. at[t] \in Handled
    BY <1>1 DEF StreamTypeOK, Inside, NoFrame
  <1>3. PICK ret \in RetCode : Answer(t, ret)
    BY DEF doStreamData, Write, RetCode
  <1>4. /\ pc' \in [Task -> Place]
        /\ at' \in [Task -> Handled \cup {NoFrame}]
        /\ met' = met /\ crossed' = crossed
        /\ unflushed' = unflushed \ {t}
        /\ Who'
        /\ pc'[t] = "respond"
        /\ at'[t].cmdID = at[t].cmdID
        /\ at'[t].from = at[t].from
        /\ at'[t].ret = ret
        /\ \A u \in Task : Inside(u)' <=> Inside(u)
    BY <1>1, <1>3, AnswerKeeps DEF doStreamData
  <1>5. stored' \in Nat \cup {Garbled} /\ mCurrentOffset' \in Nat
    BY <1>1, <1>2 DEF StreamTypeOK, doStreamData, Write, Handled
  <1>6. StreamTypeOK' /\ ListenerFree'
    BY <1>1, <1>4, <1>5
    DEF StreamTypeOK, StreamInv, ListenerFree, doStreamData, Place
  <1>7. ~crossed => Where(t)' /\ \A u \in Task : Inside(u)' => u = t
    <2> HAVE ~crossed
    <2>1. Where(t) /\ \A u \in Task : Inside(u) => u = t
      BY <1>1, OneInside
    <2>2. /\ UnderWay /\ at[t].cmdID = "SEND" /\ at[t].from = "GET_DATA"
          /\ at[t].offset = mCurrentOffset
      BY <2>1 DEF Where, doStreamData, UnderWay
    <2>3. CASE ret = "SUCCESS"
      <3>1. /\ Fits(at[t].length) /\ Write(t, "SUCCESS")
            /\ mCurrentOffset' = mCurrentOffset + at[t].length
        BY <1>4, <2>3, <1>1 DEF doStreamData, Write, Answer, StreamTypeOK, Inside
      <3>2. stored' = mCurrentOffset + at[t].length
        BY <1>2, <2>2, <3>1, <1>1
        DEF Write, UnderWay, Handled, StreamTypeOK
      <3>3. mCurrentOffset' <= mCurrentStreamDataTotalLength
        BY <1>1, <1>2, <2>2, <3>1 DEF Fits, UnderWay, Handled, StreamTypeOK
      <3>4. UnderWay'
        BY <2>2, <3>1, <3>2, <3>3 DEF UnderWay, doStreamData
      <3> QED
        BY <1>4, <2>1, <2>2, <2>3, <3>4
        DEF Where, Stays, Begins, doStreamData
    <2>4. CASE ret = "ERROR"
      BY <1>4, <2>1, <2>2, <2>4
      DEF Where, Stays, Begins, doStreamData, UnderWay
    <2> QED  BY <2>3, <2>4 DEF RetCode
  <1> QED  BY <1>1, <1>4, <1>6, <1>7, InsideKeeps

LEMMA endWriteKeeps ==
    ASSUME StreamInv, NEW t \in Task, endWrite(t)
    PROVE  StreamInv'
  <1>1. StreamTypeOK /\ Who /\ Inside(t)
    BY DEF StreamInv, Who, endWrite
  <1>2. CASE m_writer = "none"
    <2>1. Answer(t, "ERROR") /\ "ERROR" \in RetCode
      BY <1>2 DEF endWrite, RetCode
    <2>2. crossed
      BY <1>1, <1>2, OneInside DEF endWrite, Where, UnderWay
    <2>3. /\ pc' \in [Task -> Place]
          /\ at' \in [Task -> Handled \cup {NoFrame}]
          /\ met' = met /\ crossed' = crossed
          /\ unflushed' = unflushed \ {t}
          /\ Who'
          /\ \A u \in Task : Inside(u)' <=> Inside(u)
      BY <1>1, <2>1, AnswerKeeps DEF endWrite
    <2>4. UNCHANGED <<protocolVars, listenerVars, failed>>
      BY <1>2 DEF endWrite
    <2>5. StreamTypeOK' /\ ListenerFree'
      BY <1>1, <2>3, <2>4
      DEF StreamTypeOK, StreamInv, ListenerFree, Place, protocolVars,
          listenerVars
    <2> QED  BY <1>1, <2>2, <2>3, <2>5, InsideKeeps
  <1>3. CASE m_writer # "none"
    <2>1. /\ pc' = [pc EXCEPT ![t] = "check"]
          /\ at' = at /\ met' = met /\ crossed' = crossed
          /\ m_writer' = "closed" /\ stored' = stored
          /\ mDataLength' = mDataLength /\ failed' = failed
          /\ Close /\ UNCHANGED protocolVars
          /\ unflushed' = IF onDisk' = stored THEN unflushed
                          ELSE unflushed \cup {t}
      BY <1>3 DEF endWrite, GoTo
    <2>2. onDisk' \in Nat \cup {Garbled}
      BY <1>1, <2>1, CloseTyped
    <2>3. StreamTypeOK' /\ ListenerFree'
      BY <1>1, <2>1, <2>2
      DEF StreamTypeOK, StreamInv, ListenerFree, protocolVars
    <2>4. Who' /\ \A u \in Task : Inside(u)' <=> Inside(u)
      BY <1>1, <2>1 DEF Who, Inside, StreamTypeOK, endWrite
    <2>5. ~crossed => Where(t)' /\ \A u \in Task : Inside(u)' => u = t
      <3> HAVE ~crossed
      <3>1. Where(t) /\ \A u \in Task : Inside(u) => u = t
        BY <1>1, OneInside
      <3>2. pc[t] = "finish" /\ pc'[t] = "check"
        BY <1>1, <2>1 DEF endWrite, StreamTypeOK
      <3>3. Where(t)'
        BY <1>1, <2>1, <2>2, <3>1, <3>2
        DEF Where, UnderWay, protocolVars, StreamTypeOK
      <3> QED  BY <3>1, <3>3, <2>4
    <2> QED  BY <1>1, <2>1, <2>3, <2>4, <2>5, InsideKeeps
  <1> QED  BY <1>2, <1>3

LEMMA doApplySendKeeps ==
    ASSUME StreamInv, NEW t \in Task, doApplySend(t)
    PROVE  StreamInv'
  <1>1. StreamTypeOK /\ Who /\ Inside(t)
    BY DEF StreamInv, Who, doApplySend
  <1>2. PICK ret \in RetCode : Answer(t, ret)
    BY DEF doApplySend, RetCode
  <1>3. /\ pc' \in [Task -> Place]
        /\ at' \in [Task -> Handled \cup {NoFrame}]
        /\ met' = met /\ crossed' = crossed
        /\ unflushed' = unflushed \ {t}
        /\ Who'
        /\ pc'[t] = "respond"
        /\ at'[t].cmdID = at[t].cmdID
        /\ at'[t].from = at[t].from
        /\ \A u \in Task : Inside(u)' <=> Inside(u)
    BY <1>1, <1>2, AnswerKeeps DEF doApplySend
  <1>4. StreamTypeOK' /\ ListenerFree'
    BY <1>1, <1>3
    DEF StreamTypeOK, StreamInv, ListenerFree, doApplySend, Place, protocolVars
  <1>5. ~crossed => Where(t)' /\ \A u \in Task : Inside(u)' => u = t
    <2> HAVE ~crossed
    <2>1. Where(t) /\ \A u \in Task : Inside(u) => u = t
      BY <1>1, OneInside
    <2> QED
      BY <1>3, <2>1
      DEF Where, Stays, Begins, doApplySend, protocolVars
  <1> QED  BY <1>1, <1>3, <1>4, <1>5, InsideKeeps

(* At the end the task is outside, and nothing is under way, or a transfer *)
(* is; a task that met nobody takes away what others left behind.          *)
LEMMA ConcludeKeeps ==
    ASSUME StreamInv, NEW t \in Task, Conclude(t), failed = "none"
    PROVE  StreamInv'
  <1>1. StreamTypeOK /\ Who /\ Inside(t) /\ MaxLength \in Nat
    BY StreamAssumption DEF StreamInv, Who, Conclude
  <1>2. /\ pc' = [pc EXCEPT ![t] = "receive"]
        /\ at' = [at EXCEPT ![t] = NoFrame]
        /\ met' = met \ {t}
        /\ failed' = failed /\ unflushed' = unflushed
    BY DEF Conclude, Leave, GoTo
  <1>3. /\ pc' \in [Task -> Place]
        /\ at' \in [Task -> Handled \cup {NoFrame}]
        /\ met' \subseteq Task
    BY <1>1, <1>2 DEF StreamTypeOK, Place
  <1>4. ~Inside(t)' /\ \A u \in Task \ {t} : Inside(u)' <=> Inside(u)
    BY <1>1, <1>2 DEF StreamTypeOK, Inside, NoFrame
  <1>5. StreamTypeOK'
    <2>1. crossed' \in BOOLEAN
      BY <1>1 DEF StreamTypeOK, Conclude
    <2>2. /\ mCurrentState' \in {"INIT", "GET_DATA"}
          /\ listening' \in BOOLEAN
          /\ mCurrentOffset' \in Nat
          /\ mCurrentStreamDataTotalLength' \in 0..MaxLength
      <3>1. CASE Stays(t) /\ UNCHANGED protocolVars
        BY <1>1, <3>1 DEF StreamTypeOK, protocolVars
      <3>2. CASE Begins(t) /\ mCurrentState' = "GET_DATA"
                 /\ UNCHANGED <<listening, mCurrentOffset,
                                mCurrentStreamDataTotalLength>>
        BY <1>1, <3>2 DEF StreamTypeOK
      <3>3. CASE mCurrentState' = "INIT" /\ resetProtocol(FALSE)
        <4>1. /\ mCurrentOffset' = 0 /\ mCurrentStreamDataTotalLength' = 0
              /\ mCurrentState' = "INIT"
          BY <3>3 DEF resetProtocol
        <4>2. listening' \in BOOLEAN
          BY <3>3, Zenon DEF resetProtocol
        <4> QED  BY <1>1, <4>1, <4>2
      <3> QED  BY <3>1, <3>2, <3>3 DEF Conclude
    <2>3. /\ m_writer' \in {"none", "closed", "open"}
          /\ stored' \in Nat \cup {Garbled}
          /\ mDataLength' \in 0..MaxLength
      BY <1>1 DEF StreamTypeOK, Conclude, resetProtocol, listenerVars
    <2>4. onDisk' \in Nat \cup {Garbled}
      BY <1>1, CloseTyped
      DEF StreamTypeOK, Conclude, resetProtocol, listenerVars
    <2> QED  BY <1>1, <1>2, <1>3, <2>1, <2>2, <2>3, <2>4 DEF StreamTypeOK, Place
  <1>6. ~crossed' => t \notin met /\ \A u \in Task : ~Inside(u)'
    <2> HAVE ~crossed'
    <2>1. CASE ~crossed
      BY <2>1, <1>1, <1>4 DEF Who
    <2>2. CASE crossed
      <3>1. t \notin met
        BY <1>1, <2>2 DEF Conclude, StreamTypeOK
      <3> QED  BY <3>1, <1>1, <1>4 DEF Who
    <2> QED  BY <2>1, <2>2
  <1>7. Who'
    <2>1. \A u \in Task : Inside(u)' <=> pc'[u] # "receive"
      BY <1>1, <1>2, <1>4 DEF Who, StreamTypeOK
    <2>2. \A u \in met' : Inside(u)'
      BY <1>1, <1>2, <1>4 DEF Who, StreamTypeOK
    <2>3. \A u, w \in Task : Inside(u)' /\ u \notin met' /\ Inside(w)' => w = u
      BY <1>1, <1>2, <1>4 DEF Who
    <2>4. ~crossed' => met' = {}
      BY <1>3, <1>6, <2>2
    <2> QED  BY <2>1, <2>2, <2>3, <2>4 DEF Who
  <1>8. ~crossed' => Nothing' \/ UnderWay'
    <2>1. CASE ~crossed
      <3>1. Where(t)
        BY <1>1, <2>1, OneInside
      <3>2. CASE Stays(t)
        BY <3>1, <3>2
        DEF Conclude, Where, Nothing, UnderWay, protocolVars, listenerVars,
            Begins, Stays
      <3>3. CASE Begins(t)
        BY <1>1, <3>1, <3>3
        DEF Conclude, Where, UnderWay, listenerVars, Begins, Stays, StreamTypeOK
      <3>4. CASE ~Stays(t) /\ ~Begins(t)
        BY <3>1, <3>4 DEF Conclude, Where, Nothing, resetProtocol
      <3> QED  BY <3>2, <3>3, <3>4
    <2>2. CASE crossed
      BY <1>1, <2>2 DEF Conclude, Nothing, resetProtocol, StreamTypeOK
    <2> QED  BY <2>1, <2>2
  <1>9. TransferConsistent'
    BY <1>8 DEF TransferConsistent, Nothing, UnderWay
  <1>10. ListenerFree'
    BY <1>2 DEF ListenerFree
  <1> QED  BY <1>5, <1>6, <1>7, <1>9, <1>10 DEF StreamInv

LEMMA sendResponseKeeps ==
    ASSUME StreamInv, NEW t \in Task, sendResponse(t)
    PROVE  StreamInv'
  <1>1. StreamTypeOK /\ Who /\ Inside(t)
    BY DEF StreamInv, Who, sendResponse
  <1>2. /\ pc' = [pc EXCEPT ![t] = "conclude"]
        /\ at' = at /\ met' = met /\ crossed' = crossed /\ failed' = failed
        /\ unflushed' = unflushed
        /\ UNCHANGED <<protocolVars, listenerVars>>
    BY DEF sendResponse, GoTo
  <1>3. StreamTypeOK' /\ ListenerFree'
    BY <1>1, <1>2
    DEF StreamTypeOK, StreamInv, ListenerFree, protocolVars, listenerVars
  <1>4. Who'
    BY <1>1, <1>2 DEF Who, Inside, StreamTypeOK
  <1>5. ~crossed => Where(t)' /\ \A u \in Task : Inside(u)' => u = t
    <2> HAVE ~crossed
    <2>1. Where(t) /\ \A u \in Task : Inside(u) => u = t
      BY <1>1, OneInside
    <2>2. pc[t] = "respond" /\ pc'[t] = "conclude"
      BY <1>1, <1>2 DEF sendResponse, StreamTypeOK
    <2>3. Where(t)'
      BY <1>2, <2>1, <2>2
      DEF Where, Nothing, UnderWay, Stays, Begins, protocolVars, listenerVars
    <2> QED  BY <2>1, <2>3, <1>2 DEF Inside
  <1> QED  BY <1>1, <1>2, <1>3, <1>4, <1>5, InsideKeeps DEF Inside

(* The links do not touch the command. *)
LEMMA StutterKeeps ==
    ASSUME StreamInv, UNCHANGED <<protocolVars, listenerVars, taskVars>>,
           failed' \in {failed, "lock"}
    PROVE  StreamInv'
  <1>1. StreamTypeOK'
    BY DEF StreamInv, StreamTypeOK, protocolVars, listenerVars, taskVars
  <1>2. Who' /\ TransferConsistent' /\ ListenerFree'
    BY DEF StreamInv, Who, TransferConsistent, ListenerFree, Inside,
           protocolVars, listenerVars, taskVars
  <1>3. ~crossed' => \A t \in Task : Inside(t)' => Where(t)'
    BY DEF StreamInv, Inside, Where, Nothing, UnderWay, Stays, Begins,
           protocolVars, listenerVars, taskVars
  <1> QED  BY <1>1, <1>2, <1>3 DEF StreamInv

LEMMA StreamStep ==
    ASSUME StreamInv, [Next]_vars
    PROVE  StreamInv'
  <1>1. CASE UNCHANGED vars
    BY <1>1, StutterKeeps DEF vars, streamVars
  <1>2. ASSUME NEW t \in Task, Receive(t) \/ Receiver(t) PROVE StreamInv'
    BY <1>2, StutterKeeps
    DEF Receive, Receiver, dataReceived, FinishSend, streamVars
  <1>3. ASSUME NEW t \in Task, receiveFrame(t) PROVE StreamInv'
    <2>1. CASE UNCHANGED streamVars
      BY <2>1, StutterKeeps DEF streamVars
    <2> QED  BY <1>3, <2>1, FrameKeeps DEF receiveFrame
  <1>4. ASSUME NEW t \in Task, HandleFrame(t), failed = "none" PROVE StreamInv'
    BY <1>4, doPrepareKeeps, doStreamDataKeeps, endWriteKeeps,
       doApplySendKeeps, ConcludeKeeps
    DEF HandleFrame, Handle
  <1>5. CASE onConnectivityChange
    BY <1>5, StutterKeeps DEF onConnectivityChange, streamVars
  <1>6. CASE LockTimesOut
    BY <1>6, StutterKeeps DEF LockTimesOut
  <1> QED
    BY <1>1, <1>2, <1>3, <1>4, <1>5, <1>6, sendResponseKeeps
    DEF Next, AppCommTask

(* Only LockTimesOut reports the mutex lost. *)
LEMMA LockNotLost ==
    ASSUME failed = "none", NEW t \in Task,
           receiveFrame(t) \/ HandleFrame(t)
    PROVE  failed' # "lock"
  <1>1. CASE receiveFrame(t)
    BY <1>1
    DEF receiveFrame, evtStart, evtSend, evtStop, nack, streamVars
  <1>2. CASE HandleFrame(t)
    BY <1>2
    DEF HandleFrame, Handle, doPrepare, doStreamData, endWrite, doApplySend,
        Conclude
  <1> QED  BY <1>1, <1>2

LEMMA LockStep ==
    ASSUME LockInv, [Next]_vars
    PROVE  LockInv'
  <1>0. StreamLen \in Nat /\ NoLink \notin Task
    BY AppCommAssumption, LinkAssumption DEF NoLink
  <1>1. CASE UNCHANGED vars
    BY <1>1
    DEF LockInv, LockLostOnlyWhenCrowded, Unanswered, vars, linkVars, streamVars,
        taskVars
  <1>2. ASSUME NEW t \in Task, Receive(t), failed = "none" PROVE LockInv'
    BY <1>2
    DEF LockInv, LockLostOnlyWhenCrowded, Receive, streamVars
  <1>3. ASSUME NEW t \in Task, dataReceived(t), failed = "none" PROVE LockInv'
    <2>1. frames' \in [Task -> Nat]
      BY <1>3 DEF dataReceived, LockInv
    <2> QED
      BY <1>0, <1>3, <2>1
      DEF LockInv, LockLostOnlyWhenCrowded, dataReceived, streamVars
  <1>4. ASSUME NEW t \in Task, FinishSend(t), failed = "none" PROVE LockInv'
    <2>1. frames' \in [Task -> Nat]
      BY <1>4 DEF FinishSend, LockInv
    <2> QED
      BY <1>0, <1>4, <2>1
      DEF LockInv, LockLostOnlyWhenCrowded, FinishSend, streamVars
  <1>5. ASSUME NEW t \in Task, receiveFrame(t), failed = "none" PROVE LockInv'
    <2>1. frames' \in [Task -> Nat]
      BY <1>5 DEF receiveFrame, LockInv
    <2>2. failed' # "lock"
      BY <1>5, LockNotLost
    <2> QED
      BY <1>5, <2>1, <2>2 DEF LockInv, LockLostOnlyWhenCrowded, receiveFrame
  <1>6. ASSUME NEW t \in Task, HandleFrame(t), failed = "none" PROVE LockInv'
    <2>1. failed' # "lock"
      BY <1>6, LockNotLost
    <2> QED
      BY <1>6, <2>1
      DEF LockInv, LockLostOnlyWhenCrowded, HandleFrame, linkVars
  <1>7. ASSUME NEW t \in Task, sendResponse(t), failed = "none" PROVE LockInv'
    BY <1>7
    DEF LockInv, LockLostOnlyWhenCrowded, sendResponse, linkVars
  <1>8. CASE onConnectivityChange /\ failed = "none"
    BY <1>8
    DEF LockInv, LockLostOnlyWhenCrowded, onConnectivityChange, streamVars
  <1>9. CASE LockTimesOut
    <2>1. /\ holder \in received /\ holder \in Task
          /\ frames[holder] = StreamLen /\ pc[holder] # "receive"
      BY <1>9 DEF LockTimesOut, LockInv
    <2>2. Unanswered(holder) >= StreamLen + 2
      BY <1>0, <2>1 DEF Unanswered
    <2>3. UNCHANGED <<holder, received, frames, pc>>
      BY <1>9 DEF LockTimesOut, linkVars, taskVars
    <2>4. LockLostOnlyWhenCrowded'
      BY <2>1, <2>2, <2>3 DEF LockLostOnlyWhenCrowded, Unanswered
    <2> QED  BY <2>3, <2>4 DEF LockInv
  <1> QED
    BY <1>1, <1>2, <1>3, <1>4, <1>5, <1>6, <1>7, <1>8, <1>9
    DEF Next, AppCommTask, Receiver

-----------------------------------------------------------------------------

LEMMA AppCommInit == Init => StreamInv /\ LockInv
  <1> SUFFICES ASSUME Init PROVE StreamInv /\ LockInv
    OBVIOUS
  <1>1. StreamTypeOK
    <2>1. MaxLength \in Nat
      BY StreamAssumption
    <2>2. listening \in BOOLEAN /\ crossed \in BOOLEAN
      BY DEF Init, StreamInit
    <2> QED  BY <2>1, <2>2 DEF Init, StreamInit, StreamTypeOK
  <1>2. \A t \in Task : ~Inside(t)
    BY DEF Init, StreamInit, Inside, NoFrame
  <1>3. Who /\ TransferConsistent /\ ListenerFree
    BY <1>2 DEF Init, StreamInit, Who, TransferConsistent, ListenerFree
  <1>4. LockInv
    BY DEF Init, StreamInit, LockInv, LockLostOnlyWhenCrowded
  <1> QED  BY <1>1, <1>2, <1>3, <1>4 DEF StreamInv

(* Whatever the computers send on the two links, and whenever the link     *)
(* changes: unless two tasks met in the command a transfer is consistent   *)
(* between two frames, and a START finds no listener; and the proxy's      *)
(* mutex is kept too long only for a computer that does not wait for its   *)
(* answers (StreamDataCmd.tpp, SendLayoutCmd.cpp, AppCommProxy.cpp).       *)
THEOREM AppCommCorrect ==
    Spec => [](TransferConsistent /\ ListenerFree /\ LockLostOnlyWhenCrowded)
  <1>1. StreamInv /\ LockInv /\ [Next]_vars => StreamInv' /\ LockInv'
    BY StreamStep, LockStep
  <1>2. StreamInv /\ LockInv =>
            TransferConsistent /\ ListenerFree /\ LockLostOnlyWhenCrowded
    BY DEF StreamInv, LockInv
  <1> QED  BY AppCommInit, <1>1, <1>2, PTL DEF Spec

(* A layout is put in place only when all its data was written, from the   *)
(* first byte to the last, and it is all of that that is put in place,     *)
(* unless two tasks met in the command or the close of the file failed     *)
(* (StreamDataCmd::terminate, SendLayoutCmd::doApplySend,                  *)
(* LayoutWriter::endWrite).                                                *)
THEOREM LayoutsWhole == Spec => AppliesTheWhole
  <1> DEFINE Whole == \A t \in Task :
                 pc[t] = "check" /\ pc'[t] = "respond" /\ ~crossed
                     /\ at'[t].ret = "SUCCESS" =>
                         /\ stored = mDataLength
                         /\ onDisk = mDataLength \/ t \in unflushed
  <1>1. ASSUME StreamInv PROVE Whole
    <2> SUFFICES ASSUME NEW t \in Task, pc[t] = "check", ~crossed
                 PROVE  /\ stored = mDataLength
                        /\ onDisk = mDataLength \/ t \in unflushed
      OBVIOUS
    <2>1. Inside(t)
      BY <1>1 DEF StreamInv, Who
    <2>2. Where(t)
      BY <1>1, <2>1, OneInside
    <2> QED  BY <2>2 DEF Where
  <1>2. StreamInv /\ [Next]_vars => StreamInv'
    BY StreamStep
  <1>3. StreamInv => [Whole]_streamVars
    BY <1>1
  <1>4. Spec => [][Whole]_streamVars
    BY AppCommInit, <1>2, <1>3, PTL DEF Spec
  <1> QED  BY <1>4 DEF AppliesTheWhole

=============================================================================
