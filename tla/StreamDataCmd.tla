---------------------------- MODULE StreamDataCmd ----------------------------
(***************************************************************************)
(* The transfer of data to the keyboard                                    *)
(* (Middlewares/Nemeio/AppComm/StreamDataCmd and SendDataCmd) with the     *)
(* listener of a layout at its end (SendLayoutCmd, LayoutWriter): START    *)
(* gives the length, every SEND its offset, STOP puts the layout in place. *)
(* The one command object is run by the AppComm tasks of both transports,  *)
(* without a mutex.                                                        *)
(*                                                                         *)
(* Where a task stands in it:                                              *)
(*   receive --evtStart--> prepare ---------+                              *)
(*           --evtSend---> store -----------+--> respond --> conclude      *)
(*           --evtStop---> finish, check ---+                              *)
(* Of the file it matters only whether it holds the first bytes of the     *)
(* data, in order, and how many. All transfers are of one layout, hence of *)
(* one file: with another the file would be another. The file system keeps *)
(* what is written, and that the file was emptied, to itself until the     *)
(* file is closed.                                                         *)
(***************************************************************************)
EXTENDS Integers

CONSTANTS
    Task,        \* the AppComm tasks, one per transport
    MaxLength,   \* bound: the longest transfer, in bytes
    Lengths      \* the lengths a transfer may announce

ASSUME StreamAssumption ==
    MaxLength \in Nat \ {0} /\ Lengths \subseteq 0..MaxLength

(* The listener modelled, and any other id.                                *)
DataId == {"listener", "other"}

StartFrame == [cmdID : {"START"}, dataId : DataId, length : Lengths]
SendFrame ==
    [cmdID : {"SEND"}, dataId : DataId, offset : 0..MaxLength,
     length : 1..MaxLength]
StopFrame == [cmdID : {"STOP"}, dataId : DataId]
Frame == StartFrame \cup SendFrame \cup StopFrame

RetCode == {"SUCCESS", "ERROR"}

(* What a task knows of the frame it handles: its command, the state it    *)
(* came in, its offset and length, and what became of it.                  *)
Handled ==
    [cmdID : {"START", "SEND", "STOP", "UNKNOWN"}, from : {"INIT", "GET_DATA"},
     offset : 0..MaxLength, length : 0..MaxLength, ret : RetCode]

NoFrame == [cmdID |-> "NONE"]

(* The file holds something else than the first bytes of the data. *)
Garbled == -1

VARIABLES
    mCurrentState,                  \* INIT or GET_DATA
    listening,                      \* mpCurrentStreamDataListener is not null
    mCurrentOffset,
    mCurrentStreamDataTotalLength,
    m_writer,                       \* of the listener: "none", or its file is
                                    \* "closed" or "open"
    stored,                         \* the bytes of the data written to it
    onDisk,                         \* the bytes of data the file on the disk
                                    \* holds, 0 when it is empty or none
    mDataLength,                    \* the length the listener was given
    pc,                             \* where each task stands
    at,                             \* the frame it handles
    met,                            \* history: the tasks in the command that
                                    \* met another one there
    crossed,                        \* history: two tasks met, and none has
                                    \* cleaned up since without meeting one
    unflushed,                      \* history: the tasks whose close of the
                                    \* file left the disk as it was
    failed                          \* the assertion that fired, or "none"

protocolVars == <<mCurrentState, listening, mCurrentOffset,
                  mCurrentStreamDataTotalLength>>
listenerVars == <<m_writer, stored, onDisk, mDataLength>>
taskVars == <<pc, at, met, crossed, unflushed>>
streamVars == <<protocolVars, listenerVars, taskVars, failed>>

-----------------------------------------------------------------------------

Inside(t) == at[t].cmdID # "NONE"

GoTo(t, place) == pc' = [pc EXCEPT ![t] = place]

(* A task enters the command, and goes on at place.                        *)
Enter(t, cmdID, offset, length, place) ==
    LET others == {u \in Task \ {t} : Inside(u)}
    IN  /\ GoTo(t, place)
        /\ at' = [at EXCEPT ![t] =
               [cmdID |-> cmdID, from |-> mCurrentState,
                offset |-> IF place = "respond" THEN 0 ELSE offset,
                length |-> IF place = "respond" THEN 0 ELSE length,
                ret |-> "ERROR"]]
        /\ met' = IF others = {} THEN met ELSE met \cup others \cup {t}
        /\ crossed' = (crossed \/ others # {})
        /\ UNCHANGED unflushed

(* What became of the frame is known; where it belonged no longer matters. *)
Answer(t, ret) ==
    /\ GoTo(t, "respond")
    /\ at' = [at EXCEPT ![t] =
           [cmdID |-> at[t].cmdID, from |-> at[t].from,
            offset |-> 0, length |-> 0, ret |-> ret]]
    /\ unflushed' = unflushed \ {t}
    /\ UNCHANGED <<met, crossed>>

(* A task leaves the command. *)
Leave(t) ==
    /\ GoTo(t, "receive")
    /\ at' = [at EXCEPT ![t] = NoFrame]
    /\ met' = met \ {t}
    /\ UNCHANGED unflushed

(* The file is closed, and only then brought to the disk; when that fails, *)
(* or a write to it has, what was there before stays.                      *)
Close == onDisk' \in IF m_writer = "open" THEN {onDisk, stored} ELSE {onDisk}

resetProtocol_KeepsWriter(found) ==    \* fault: the listener is not reset
    /\ UNCHANGED <<m_writer, stored, onDisk>>
    /\ listening' = found
    /\ mCurrentOffset' = 0
    /\ mCurrentStreamDataTotalLength' = 0

(* The listener, if there is one, gives up its writer, which closes the    *)
(* file; found tells whether a listener is looked up again at once.        *)
resetProtocol(found) ==
    /\ \/ listening /\ m_writer' = "none" /\ stored' = 0 /\ Close
       \/ ~listening /\ UNCHANGED <<m_writer, stored, onDisk>>
    /\ listening' = found
    /\ mCurrentOffset' = 0
    /\ mCurrentStreamDataTotalLength' = 0

(* evtStart up to the call of doPrepare: a transfer under way is given up, *)
(* prepare asserts that no listener is current, then looks one up.         *)
evtStart(t, f) ==
    LET found == f.dataId = "listener"
    IN  /\ Enter(t, "START", 0, f.length,
                 IF found THEN "prepare" ELSE "respond")
        /\ \/ /\ mCurrentState = "GET_DATA"
              /\ resetProtocol(found)
              /\ UNCHANGED <<mCurrentState, mDataLength, failed>>
           \/ /\ mCurrentState = "INIT" /\ ~listening
              /\ listening' = found
              /\ UNCHANGED <<mCurrentState, mCurrentOffset,
                             mCurrentStreamDataTotalLength, listenerVars,
                             failed>>
           \/ /\ mCurrentState = "INIT" /\ listening
              /\ failed' = "listener"
              /\ UNCHANGED <<protocolVars, listenerVars>>

(* doPrepare: a START that is too short has no length. The listener makes  *)
(* a new writer in the place of the old one, unless the header is no hash; *)
(* a writer, even an old one, opens its file and empties it, if it can.    *)
doPrepare(t) ==
    /\ pc[t] = "prepare"
    /\ \/ /\ Answer(t, "ERROR")
          /\ mCurrentStreamDataTotalLength' = 0
          /\ UNCHANGED listenerVars
       \/ /\ mCurrentStreamDataTotalLength' = at[t].length
          /\ mDataLength' = at[t].length
          /\ \/ /\ Answer(t, "SUCCESS")
                /\ m_writer' = "open"
                /\ stored' = 0
                /\ Close
             \/ /\ Answer(t, "ERROR")
                /\ m_writer' = "closed"
                /\ UNCHANGED stored
                /\ Close
             \/ /\ Answer(t, "ERROR")
                /\ UNCHANGED <<m_writer, stored, onDisk>>
    /\ UNCHANGED <<mCurrentState, listening, mCurrentOffset, failed>>

(* A SEND that continues the transfer. *)
Expected(f) ==
    listening /\ f.dataId = "listener" /\ f.offset = mCurrentOffset

(* evtSend up to the call of doStreamData. *)
evtSend(t, f) ==
    /\ Enter(t, "SEND", f.offset, f.length,
             IF mCurrentState = "GET_DATA" /\ Expected(f)
             THEN "store" ELSE "respond")
    /\ UNCHANGED <<protocolVars, listenerVars, failed>>

(* What remains is a difference of unsigned numbers. *)
Fits(length) ==
    \/ mCurrentStreamDataTotalLength - mCurrentOffset >= length
    \/ mCurrentStreamDataTotalLength < mCurrentOffset

(* A write to the file: all of it, or the first bytes and an error. *)
Write(t, ret) ==
    LET length == at[t].length
    IN  /\ Answer(t, ret)
        /\ \E n \in 0..length :
               /\ (n = length) <=> (ret = "SUCCESS")
               /\ n > 0 => m_writer = "open"
               /\ stored' = IF n = 0 THEN stored
                            ELSE IF stored = at[t].offset THEN stored + n
                            ELSE Garbled

doStreamData(t) ==
    /\ pc[t] = "store"
    /\ \/ /\ Fits(at[t].length)
          /\ Write(t, "SUCCESS")
          /\ mCurrentOffset' = mCurrentOffset + at[t].length
       \/ /\ Fits(at[t].length)
          /\ Write(t, "ERROR")
          /\ UNCHANGED mCurrentOffset
       \/ /\ ~Fits(at[t].length)
          /\ Answer(t, "ERROR")
          /\ UNCHANGED <<stored, mCurrentOffset>>
    /\ UNCHANGED <<mCurrentState, listening, m_writer, onDisk, mDataLength,
                   mCurrentStreamDataTotalLength, failed>>

(* evtStop up to the call of doTerminate. *)
evtStop(t, f) ==
    LET complete == /\ mCurrentOffset = mCurrentStreamDataTotalLength
                    /\ listening /\ f.dataId = "listener"
    IN  /\ Enter(t, "STOP", 0, 0,
                 IF mCurrentState = "GET_DATA" /\ complete
                 THEN "finish" ELSE "respond")
        /\ UNCHANGED <<protocolVars, listenerVars, failed>>

endWrite_Unclosed(t) ==    \* fault: the file is checked while it is open
    /\ pc[t] = "finish"
    /\ m_writer # "none"
    /\ GoTo(t, "check")
    /\ UNCHANGED <<at, met, crossed, unflushed, listenerVars>>
    /\ UNCHANGED <<protocolVars, failed>>

(* doTerminate, and the writer's endWrite: nobody looks at the result of   *)
(* the close.                                                              *)
endWrite(t) ==
    /\ pc[t] = "finish"
    /\ \/ /\ m_writer = "none"
          /\ Answer(t, "ERROR")
          /\ UNCHANGED listenerVars
       \/ /\ m_writer # "none"
          /\ GoTo(t, "check")
          /\ m_writer' = "closed"
          /\ Close
          /\ unflushed' = IF onDisk' = stored THEN unflushed
                          ELSE unflushed \cup {t}
          /\ UNCHANGED <<at, met, crossed, stored, mDataLength>>
    /\ UNCHANGED <<protocolVars, failed>>

(* The file on the disk is checked, which an empty one does not pass, and  *)
(* moved to the layouts; or it is no layout and removed; or one of the two *)
(* fails. Nothing in it says how long it must be.                          *)
doApplySend(t) ==
    /\ pc[t] = "check"
    /\ \/ Answer(t, "SUCCESS") /\ onDisk # 0 /\ onDisk' = 0
       \/ Answer(t, "ERROR") /\ onDisk' = 0
       \/ Answer(t, "ERROR") /\ UNCHANGED onDisk
    /\ UNCHANGED <<protocolVars, m_writer, stored, mDataLength, failed>>

(* A command that is none of these is refused in any state. *)
nack(t) ==
    /\ Enter(t, "UNKNOWN", 0, 0, "respond")
    /\ UNCHANGED <<protocolVars, listenerVars, failed>>

(* A frame refused in INIT changes nothing; a START that came in GET_DATA  *)
(* and went well, and a SEND that went well, leave the state as it is.     *)
Stays(t) ==
    \/ at[t].cmdID = "UNKNOWN"
    \/ at[t].from = "INIT" /\ at[t].cmdID # "START"
    \/ at[t].from = "GET_DATA" /\ at[t].cmdID # "STOP" /\ at[t].ret = "SUCCESS"

Begins(t) ==
    at[t].from = "INIT" /\ at[t].cmdID = "START" /\ at[t].ret = "SUCCESS"

Conclude_ForgetsReset(t) ==    \* fault: a failed START does not reset
    /\ pc[t] = "conclude"
    /\ mCurrentState' = CASE Stays(t) -> mCurrentState
                          [] Begins(t) -> "GET_DATA"
                          [] OTHER -> "INIT"
    /\ IF Stays(t) \/ at[t].cmdID = "START"
       THEN UNCHANGED <<listening, mCurrentOffset, m_writer, stored, onDisk,
                        mCurrentStreamDataTotalLength>>
       ELSE resetProtocol(FALSE)
    /\ Leave(t)
    /\ UNCHANGED <<crossed, mDataLength, failed>>

(* The end of evtStart, evtSend and evtStop, once the answer is sent.      *)
Conclude(t) ==
    /\ pc[t] = "conclude"
    /\ \/ /\ Stays(t)
          /\ UNCHANGED <<protocolVars, listenerVars, crossed>>
       \/ /\ Begins(t)
          /\ mCurrentState' = "GET_DATA"
          /\ UNCHANGED <<listening, mCurrentOffset, listenerVars,
                         mCurrentStreamDataTotalLength, crossed>>
       \/ /\ ~Stays(t) /\ ~Begins(t)
          /\ mCurrentState' = "INIT"
          /\ resetProtocol(FALSE)
          /\ crossed' = (crossed /\ ~(t \notin met /\ m_writer' = "none"))
          /\ UNCHANGED mDataLength
    /\ Leave(t)
    /\ UNCHANGED failed

Handle(t) ==
    \/ doPrepare(t)
    \/ doStreamData(t)
    \/ endWrite(t) \/ doApplySend(t)
    \/ Conclude(t)

StreamInit ==
    /\ mCurrentState = "INIT"
    /\ listening = FALSE
    /\ mCurrentOffset = 0
    /\ mCurrentStreamDataTotalLength = 0
    /\ m_writer = "none"
    /\ stored = 0
    /\ onDisk = 0
    /\ mDataLength = 0
    /\ pc = [t \in Task |-> "receive"]
    /\ at = [t \in Task |-> NoFrame]
    /\ met = {}
    /\ crossed = FALSE
    /\ unflushed = {}
    /\ failed = "none"

-----------------------------------------------------------------------------

StreamTypeOK ==
    /\ mCurrentState \in {"INIT", "GET_DATA"}
    /\ listening \in BOOLEAN
    /\ mCurrentOffset \in Nat
    /\ mCurrentStreamDataTotalLength \in 0..MaxLength
    /\ m_writer \in {"none", "closed", "open"}
    /\ stored \in Nat \cup {Garbled}
    /\ onDisk \in Nat \cup {Garbled}
    /\ mDataLength \in 0..MaxLength
    /\ pc \in [Task -> {"receive", "prepare", "store", "finish", "check",
                        "respond", "conclude"}]
    /\ at \in [Task -> Handled \cup {NoFrame}]
    /\ met \subseteq Task
    /\ crossed \in BOOLEAN
    /\ unflushed \subseteq Task
    /\ failed \in {"none", "listener", "lock"}

(* Between two frames a transfer under way has its listener, with the      *)
(* file open, which holds the first bytes of the data, as many as the      *)
(* offset says and never more than the length announced; and without a     *)
(* transfer nothing is left of the last one, however it ended. Unless the  *)
(* tasks of two transports met in the command (StreamDataCmd.tpp:58-157,   *)
(* 200-219, SendLayoutCmd.cpp:16-81).                                      *)
TransferConsistent ==
    ~crossed /\ (\A t \in Task : ~Inside(t)) =>
        \/ /\ mCurrentState = "INIT"
           /\ ~listening /\ m_writer = "none"
           /\ mCurrentOffset = 0 /\ mCurrentStreamDataTotalLength = 0
        \/ /\ mCurrentState = "GET_DATA"
           /\ listening /\ m_writer = "open"
           /\ mCurrentOffset <= mCurrentStreamDataTotalLength
           /\ mDataLength = mCurrentStreamDataTotalLength
           /\ stored = mCurrentOffset

(* A layout is put in place only when all of its data was written, from    *)
(* the first byte to the last, and what is put in place is all of that,    *)
(* though no one but the command knows its length. Unless the tasks of two *)
(* transports met in the command; and unless the file could not be closed, *)
(* which nobody notices: then what an earlier transfer left on the disk    *)
(* may be put in place (StreamDataCmd.tpp:302-321, SendLayoutCmd.cpp:56-71,*)
(* LayoutWriter.cpp:15-31).                                                *)
AppliesTheWhole ==
    [][\A t \in Task :
           pc[t] = "check" /\ pc'[t] = "respond" /\ ~crossed
               /\ at'[t].ret = "SUCCESS" =>
                   /\ stored = mDataLength
                   /\ onDisk = mDataLength \/ t \in unflushed]_streamVars

(* The assertion of prepare: no listener is current when a transfer        *)
(* begins, unless the tasks of two transports met (StreamDataCmd.tpp:228). *)
ListenerFree == failed = "listener" => crossed

=============================================================================
