------------------------------- MODULE AppComm -------------------------------
(***************************************************************************)
(* The conversation with the computer (Libraries/AppComm, with the proxy   *)
(* AppCommProxy): two transports, USB and BLE, each with a task that       *)
(* receives, a stream buffer and an AppComm task that runs the commands.   *)
(* The proxy lets only the transport of the current link through, in both  *)
(* directions, under one mutex; it keeps that mutex while it waits for     *)
(* room in the stream.                                                     *)
(*                                                                         *)
(*   receiver --dataReceived--> mRxStreamBuff --> AppComm task             *)
(*                    |                          StreamDataCmd             *)
(*               mAppCommLock <----- sendResponse ----+                    *)
(*                    ^                                                    *)
(*                    +--- onConnectivityChange (power manager)            *)
(*                                                                         *)
(* A frame fits into one packet, and its bytes are read when it is taken   *)
(* from the stream: a frame cut short or garbled is one that is dropped    *)
(* then. A lost packet is one that is not received.                        *)
(***************************************************************************)
EXTENDS StreamDataCmd

CONSTANTS
    StreamLen,   \* frames mRxStreamBuff holds
    Window       \* bound: frames a computer sends without having an answer

ASSUME AppCommAssumption == StreamLen \in Nat \ {0} /\ Window \in Nat \ {0}

VARIABLES
    current,      \* mCurrentAppCommRef
    holder,       \* the receiver that keeps mAppCommLock, or NoLink
    received,     \* the receivers that have a frame for the stream
    frames        \* frames in each mRxStreamBuff

linkVars == <<current, holder, received, frames>>
vars == <<linkVars, streamVars>>

NoLink == "none"

ASSUME LinkAssumption == Task = {"USB", "BLE"}

(* What the computer waits for an answer to, or will be dropped.           *)
Unanswered(t) ==
    (IF t \in received THEN 1 ELSE 0) + frames[t]
        + (IF pc[t] # "receive" THEN 1 ELSE 0)

-----------------------------------------------------------------------------
(* The receivers: CDCReceiveDataTask, and the task of the BLE chip. *)

(* A frame arrives from the computer. *)
Receive(t) ==
    /\ t \notin received
    /\ Unanswered(t) < Window
    /\ received' = received \cup {t}
    /\ UNCHANGED <<current, holder, frames, streamVars>>

dataReceived_KeepsLock(t) ==    \* fault: the mutex is kept for the wrong link
    /\ t \in received
    /\ holder = NoLink
    /\ received' = IF current = t /\ frames[t] = StreamLen
                   THEN received ELSE received \ {t}
    /\ frames' = IF current = t /\ frames[t] < StreamLen
                 THEN [frames EXCEPT ![t] = @ + 1] ELSE frames
    /\ holder' = IF current # t \/ frames[t] = StreamLen THEN t ELSE NoLink
    /\ UNCHANGED <<current, streamVars>>

(* dataReceived: a frame of the other transport is dropped; for one of     *)
(* this the receiver waits until there is room, the mutex in its hand.     *)
dataReceived(t) ==
    /\ t \in received
    /\ holder = NoLink
    /\ \/ /\ current # t
          /\ received' = received \ {t}
          /\ UNCHANGED <<frames, holder>>
       \/ /\ current = t /\ frames[t] < StreamLen
          /\ received' = received \ {t}
          /\ frames' = [frames EXCEPT ![t] = @ + 1]
          /\ UNCHANGED holder
       \/ /\ current = t /\ frames[t] = StreamLen
          /\ holder' = t
          /\ UNCHANGED <<received, frames>>
    /\ UNCHANGED <<current, streamVars>>

(* The stream has room again for the receiver that waits. *)
FinishSend(t) ==
    /\ holder = t
    /\ frames[t] < StreamLen
    /\ frames' = [frames EXCEPT ![t] = @ + 1]
    /\ received' = received \ {t}
    /\ holder' = NoLink
    /\ UNCHANGED <<current, streamVars>>

-----------------------------------------------------------------------------
(* onConnectivityChangeUsb, Ble and None: the caller waits for the mutex.  *)
onConnectivityChange ==
    /\ holder = NoLink
    /\ current' \in Task
    /\ UNCHANGED <<holder, received, frames, streamVars>>

-----------------------------------------------------------------------------
(* The AppComm tasks. *)

(* receiveFrame and transmitToRxListener: a frame that is incomplete or    *)
(* garbled, or for no command, is dropped without an answer.               *)
receiveFrame(t) ==
    /\ pc[t] = "receive"
    /\ frames[t] > 0
    /\ frames' = [frames EXCEPT ![t] = @ - 1]
    /\ \/ UNCHANGED streamVars
       \/ \E f \in StartFrame : evtStart(t, f)
       \/ \E f \in SendFrame : evtSend(t, f)
       \/ \E f \in StopFrame : evtStop(t, f)
       \/ nack(t)
    /\ UNCHANGED <<current, holder, received>>

(* The answer goes out on the current link, whatever link asked. *)
sendResponse(t) ==
    /\ pc[t] = "respond"
    /\ holder = NoLink
    /\ GoTo(t, "conclude")
    /\ UNCHANGED <<linkVars, protocolVars, listenerVars, at, met, crossed,
                   unflushed, failed>>

HandleFrame(t) == Handle(t) /\ UNCHANGED linkVars

(* While the receiver waits for a busy task, others want the mutex: that   *)
(* task for its answer, the other receiver, a change of link, a message of *)
(* the keyboard's own. The AutoLock of each gives up after 5 s.            *)
LockTimesOut ==
    /\ holder # NoLink
    /\ frames[holder] = StreamLen
    /\ pc[holder] # "receive"
    /\ failed' = "lock"
    /\ UNCHANGED <<linkVars, protocolVars, listenerVars, taskVars>>

-----------------------------------------------------------------------------

AppCommTask(t) == receiveFrame(t) \/ HandleFrame(t) \/ sendResponse(t)

Receiver(t) == dataReceived(t) \/ FinishSend(t)

Init ==
    /\ StreamInit
    /\ current = "USB"
    /\ holder = NoLink
    /\ received = {}
    /\ frames = [t \in Task |-> 0]

(* A failed assertion is the end. *)
Next ==
    /\ failed = "none"
    /\ \/ \E t \in Task : Receive(t) \/ Receiver(t) \/ AppCommTask(t)
       \/ onConnectivityChange
       \/ LockTimesOut

Spec == Init /\ [][Next]_vars

-----------------------------------------------------------------------------

(* The mutex of the proxy is kept too long only when the computer sends on *)
(* without waiting: one frame at work, the stream full and one more        *)
(* (AppCommProxy.cpp:19-41, AutoLock.cpp).                                 *)
LockLostOnlyWhenCrowded ==
    failed = "lock" => \E t \in Task : Unanswered(t) >= StreamLen + 2

=============================================================================
