------------------------- MODULE NrfFirmwareUpdate -------------------------
(***************************************************************************)
(* The transfer of a firmware package to the BLE chip                      *)
(* (Libraries/FirmwareUpdate/NRFFirmwareUpdate, NRFFirmwarePackage): the   *)
(* update task reads the package in chunks, cuts the images out of it, and *)
(* sends each in packets, so many of which make an object the chip         *)
(* executes.  Every command is sent again when its reply does not come in  *)
(* time, or is the reply to another command, and a reply is told from      *)
(* another by its command only.                                            *)
(*                                                                         *)
(*   chunk --receiveData--> image --pushBack--> packet --_bufferFull-->    *)
(*       create, write, execute --sendAndWaitForReply--> chip --replies--> *)
(*                                                                         *)
(* Both ways keep the order.  A command that waits on its way cannot be    *)
(* told from a reply that does: the chip answers at once, the reply waits. *)
(* A byte is its place in its image.  A header may lie in two chunks: then *)
(* bytes of the image behind it are taken for its own.                     *)
(***************************************************************************)
EXTENDS Integers, Sequences

CONSTANTS
    Packages,       \* packages: sequences of images
    PacketLen,      \* DFU_PACKET_MAX_SIZE (64 bytes)
    ChunkLen,       \* COPY_ARRAY_SIZE (256 bytes)
    HeaderLen,      \* sizeof(nrf_firmware_header) (12 bytes)
    NextField,      \* where nextFirmwareOffset begins in it (8)
    ObjectLen,      \* the largest object the chip takes
    NbTries,        \* NRF_NB_DFU_PACKET_MAX_TIMEOUT (3)
    MaxLate,        \* bound: replies that come after the timeout
    MaxLost         \* bound: commands and replies that are lost

ImageType == {"FIRMWARE_INIT", "FIRMWARE_DATA"}

(* An image, and where it ends in its package: the next one follows there. *)
Images == [type : ImageType, size : Nat \ {0}, end : Nat]

ASSUME NrfUpdateAssumption ==
    /\ {PacketLen, ChunkLen, ObjectLen, NbTries, HeaderLen, NextField}
           \subseteq Nat \ {0}
    /\ NextField < HeaderLen /\ HeaderLen <= ChunkLen
    /\ \E n \in 1..ObjectLen : ObjectLen = n * PacketLen
    /\ PacketLen <= ChunkLen
    /\ Packages \subseteq Seq(Images) \ {<< >>}
    /\ \A p \in Packages : \A i \in DOMAIN p :
        /\ p[i].end = HeaderLen + p[i].size + (IF i = 1 THEN 0 ELSE p[i - 1].end)
        /\ p[i].end <= p[Len(p)].end

(* A DATA image comes behind its INIT image, which fits an object: what the  *)
(* boot loader of the chip takes, and what mIgnoreNextFirmware builds on.    *)
ASSUME PairsAssumption ==
    \A p \in Packages : \A i \in DOMAIN p :
        /\ p[i].type = "FIRMWARE_INIT" <=> (i = 1 \/ p[i - 1].type = "FIRMWARE_DATA")
        /\ p[i].type = "FIRMWARE_INIT" => p[i].size <= ObjectLen

VARIABLES
    package,                \* the package, which never changes
    streamed,               \* bytes of it that were read in chunks
    unread,                 \* bytes of the chunk receiveData has not come to
    image,                  \* the image the last header is of
    mCurrentState,          \* of NRFFirmwarePackage
    mHeaderOffset,
    mFirmwareOffset,
    swallowed,              \* bytes of the image that went to its header
    buffered,               \* bytes in mDfuDataBuffer
    toPush,                 \* remainingDataLen of pushBack
    via,                    \* why a packet is sent: flush, direct, partial
    mCurrentObjectOffset,
    mRemainingFirmwareSize,
    mIgnoreNextFirmware,
    pc,                     \* where the update task stands
    asked, nbRetry,         \* the command it waits for an answer to
    answer,
    mDfuPacketQueue,
    result,                 \* of the update of the chip, or "assert"
    unreported,             \* history: images with a packet that failed
    chip, older,            \* the chip, and the images it will not take
    replies,                \* replies on their way
    late, lost

parseVars == <<package, streamed, unread, image, mCurrentState, mHeaderOffset,
               mFirmwareOffset, swallowed>>
bufferVars == <<buffered, toPush, via>>
objectVars == <<mCurrentObjectOffset, mRemainingFirmwareSize, mIgnoreNextFirmware>>
callVars == <<asked, nbRetry, answer>>
channelVars == <<mDfuPacketQueue, chip, older, replies, late, lost>>
updateVars == <<parseVars, bufferVars, objectVars, pc, callVars, result,
                unreported>>
vars == <<updateVars, channelVars>>

MAX_NUMBER_OF_RECEIVED_SLIP_PACKET == 2

Type == package[image].type
Size == package[image].size
TotalLen == package[Len(package)].end
Least(a, b) == IF a < b THEN a ELSE b

-----------------------------------------------------------------------------
(* The chip's boot loader (external).  It takes bytes up to the size of    *)
(* the object created, wherever they belong, and executes an object that   *)
(* is complete; it checks an INIT image, and a DATA image once it is whole.*)

Code == {"SUCCESS", "ERROR", "FW_VERSION_FAILURE"}

Reply(command, code, offset) ==
    [command |-> command, code |-> code, offset |-> offset]

Fits(cmd) ==
    CASE cmd.command = "CREATE" ->
            cmd.type = "FIRMWARE_INIT" \/ chip.expects # 0
      [] cmd.command = "WRITE" ->
            chip.offset + cmd.size <= chip.executed + chip.object
      [] cmd.command = "EXECUTE" ->
            /\ chip.offset = chip.executed + chip.object
            /\ chip.image # 0
      [] OTHER -> TRUE

Whole == chip.type = "FIRMWARE_INIT" \/ chip.offset = package[chip.image].size

CodeOf(cmd) ==
    IF ~Fits(cmd) \/ (cmd.command = "EXECUTE" /\ Whole /\ ~chip.inOrder)
    THEN "ERROR"
    ELSE IF cmd.command = "EXECUTE" /\ chip.image \in older
    THEN "FW_VERSION_FAILURE"
    ELSE "SUCCESS"

\* A packet that is written is acknowledged with the bytes the chip has.
ReplyTo(cmd) ==
    IF cmd.command = "WRITE" /\ Fits(cmd)
    THEN Reply("CALCULATE_CHECKSUM", "SUCCESS", chip.offset + cmd.size)
    ELSE Reply(cmd.command, CodeOf(cmd), 0)

Created(cmd) ==
    LET begins == cmd.type = "FIRMWARE_INIT"
    IN  [chip EXCEPT
            !.type = cmd.type, !.object = cmd.size,
            !.image = IF begins THEN cmd.image ELSE chip.expects,
            !.executed = IF begins THEN 0 ELSE @,
            !.sound = begins \/ @,
            !.offset = IF begins THEN 0 ELSE chip.executed,
            !.inOrder = begins \/ chip.sound,
            !.expects = IF begins THEN 0 ELSE @]

Written(cmd) ==
    [chip EXCEPT
        !.offset = @ + cmd.size,
        !.inOrder = @ /\ cmd.from = chip.offset /\ cmd.image = chip.image]

\* An INIT image announces the DATA image behind it.  The chip restarts with
\* a whole DATA image, and stays in DFU mode when there are more.
Executed ==
    IF chip.type = "FIRMWARE_INIT"
    THEN [chip EXCEPT !.expects = chip.image + 1]
    ELSE [chip EXCEPT
            !.executed = chip.offset, !.object = 0, !.sound = chip.inOrder,
            !.installed = IF Whole THEN @ \cup {chip.image} ELSE @,
            !.mode = IF ~Whole THEN @
                     ELSE IF chip.image < Len(package) THEN "restarting"
                     ELSE "application"]

After(cmd) ==
    IF CodeOf(cmd) # "SUCCESS" THEN chip
    ELSE CASE cmd.command = "CREATE" -> Created(cmd)
           [] cmd.command = "WRITE" -> Written(cmd)
           [] cmd.command = "EXECUTE" -> Executed
           [] OTHER -> chip

ChipEntersDfu ==
    /\ chip.mode = "restarting"
    /\ chip' = [chip EXCEPT !.mode = "dfu"]
    /\ UNCHANGED <<updateVars, mDfuPacketQueue, older, replies, late, lost>>

ChipFallsSilent ==
    /\ chip.mode # "silent"
    /\ chip' = [chip EXCEPT !.mode = "silent"]
    /\ UNCHANGED <<updateVars, mDfuPacketQueue, older, replies, late, lost>>

-----------------------------------------------------------------------------
(* sendAndWaitForReply.                                                    *)

Pending == Reply("NONE", "PENDING", 0)
Unanswered == Reply("NONE", "UNANSWERED", 0)

\* What was received before is forgotten; the command or its reply may be lost.
send(cmd) ==
    /\ mDfuPacketQueue' = << >>
    /\ \/ /\ chip.mode = "dfu"
          /\ chip' = After(cmd)
          /\ \/ replies' = Append(replies, ReplyTo(cmd)) /\ UNCHANGED lost
             \/ lost < MaxLost /\ lost' = lost + 1 /\ UNCHANGED replies
       \/ /\ chip.mode # "dfu" \/ lost < MaxLost
          /\ lost' = IF chip.mode = "dfu" THEN lost + 1 ELSE lost
          /\ UNCHANGED <<chip, replies>>

Ask(cmd) ==
    /\ asked' = cmd
    /\ nbRetry' = NbTries
    /\ answer' = Pending
    /\ send(cmd)
    /\ UNCHANGED <<older, late>>

Plain(command) == [command |-> command]

tryAgain_ForEver ==    \* fault: the attempts are not counted
    /\ send(asked)
    /\ UNCHANGED <<nbRetry, answer>>

tryAgain ==
    \/ /\ nbRetry > 1
       /\ nbRetry' = nbRetry - 1
       /\ send(asked)
       /\ UNCHANGED answer
    \/ /\ nbRetry = 1
       /\ nbRetry' = 0
       /\ answer' = Unanswered
       /\ mDfuPacketQueue' = << >>
       /\ UNCHANGED <<chip, replies, lost>>

responseCommand ==
    IF asked.command = "WRITE" THEN "CALCULATE_CHECKSUM" ELSE asked.command

receive ==
    /\ answer = Pending
    /\ mDfuPacketQueue # << >>
    /\ \/ /\ Head(mDfuPacketQueue).command = responseCommand
          /\ answer' = Head(mDfuPacketQueue)
          /\ mDfuPacketQueue' = << >>
          /\ nbRetry' = 0
          /\ UNCHANGED <<chip, replies, lost>>
       \/ /\ Head(mDfuPacketQueue).command # responseCommand
          /\ tryAgain
    /\ UNCHANGED <<parseVars, bufferVars, objectVars, pc, asked, result,
                   unreported, older, late>>

\* Nothing has come in NRF_DFU_PACKET_TIMEOUT_MS: nothing was sent, or it is late.
receiveTimesOut ==
    /\ answer = Pending
    /\ mDfuPacketQueue = << >>
    /\ replies = << >> \/ late < MaxLate
    /\ late' = IF replies = << >> THEN late ELSE late + 1
    /\ tryAgain
    /\ UNCHANGED <<parseVars, bufferVars, objectVars, pc, asked, result,
                   unreported, older>>

\* In the task of the BLE chip: between two commands nobody listens, and what
\* the queue has no room for is dropped.
notification ==
    /\ replies # << >>
    /\ replies' = Tail(replies)
    /\ mDfuPacketQueue' =
           IF /\ answer = Pending
              /\ Len(mDfuPacketQueue) < MAX_NUMBER_OF_RECEIVED_SLIP_PACKET
           THEN Append(mDfuPacketQueue, Head(replies)) ELSE mDfuPacketQueue
    /\ UNCHANGED <<updateVars, chip, older, late, lost>>

\* The update task goes on at place with the answer it has got.
GoesOn(place) == pc = place /\ answer # Pending
Succeeded == answer.code = "SUCCESS"

Stop(outcome) ==
    /\ pc' = "end"
    /\ result' = outcome
    /\ answer' = Unanswered
    /\ UNCHANGED <<asked, nbRetry, channelVars>>

-----------------------------------------------------------------------------
(* initUpdate: the application of the chip is asked for DFU mode, then its *)
(* reset line forces it.  A ping tells whether it is there: with           *)
(* NRF_NB_PING_TO_CHECK_DFU_MODE = 1 all pings have one id.                *)

chipMayRestart ==
    chip' \in {chip, [chip EXCEPT !.mode =
                          IF @ = "application" THEN "restarting" ELSE @]}

OrderDfu(from, to) ==
    /\ pc = from
    /\ pc' = to
    /\ chipMayRestart
    /\ UNCHANGED <<parseVars, bufferVars, objectVars, callVars, result,
                   unreported, mDfuPacketQueue, older, replies, late, lost>>

enterDfu == OrderDfu("init", "entering")
forceDfu == OrderDfu("force", "forcing")

\* The wait for ENTERED_DFU ends with it or after 5 s.
waitEnteredDfu ==
    /\ \/ pc = "entering" /\ pc' = "ping"
       \/ pc = "forcing" /\ pc' = "pingForced"
       \/ pc = "reentering" /\ pc' = "pingAgain"
    /\ Ask(Plain("PING"))
    /\ UNCHANGED <<parseVars, bufferVars, objectVars, result, unreported>>

initUpdate ==
    /\ GoesOn("ping") \/ GoesOn("pingForced")
    /\ \/ Succeeded /\ pc' = "read" /\ UNCHANGED <<result, callVars, channelVars>>
       \/ /\ ~Succeeded /\ pc = "ping" /\ pc' = "force"
          /\ UNCHANGED <<result, callVars, channelVars>>
       \/ ~Succeeded /\ pc = "pingForced" /\ Stop("UNEXPECTED")
    /\ UNCHANGED <<parseVars, bufferVars, objectVars, unreported>>

-----------------------------------------------------------------------------
(* UpdateEngine reads the package chunk by chunk, to its end.              *)

writeFirmware ==
    /\ pc = "read"
    /\ \/ /\ streamed < TotalLen
          /\ unread' = Least(ChunkLen, TotalLen - streamed)
          /\ streamed' = streamed + unread'
          /\ pc' = "parse"
          /\ UNCHANGED <<result, callVars, channelVars>>
       \/ /\ streamed = TotalLen
          /\ Stop("SUCCESS")
          /\ UNCHANGED <<unread, streamed>>
    /\ UNCHANGED <<package, image, mCurrentState, mHeaderOffset, mFirmwareOffset,
                   swallowed, bufferVars, objectVars, unreported>>

\* receiveData comes to the end of the chunk.
EndChunk ==
    /\ pc = "parse"
    /\ unread = 0
    /\ pc' = "read"
    /\ UNCHANGED <<parseVars, bufferVars, objectVars, callVars, channelVars,
                   result, unreported>>

\* After the last image nothing may follow: the package ends there.
NextHeader ==
    /\ pc = "parse"
    /\ unread # 0
    /\ mCurrentState = "END"
    /\ mCurrentState' = "HEADER"
    /\ UNCHANGED <<package, streamed, unread, image, mHeaderOffset,
                   mFirmwareOffset, swallowed, pc, bufferVars, objectVars,
                   callVars, channelVars, result, unreported>>

onManifest_KeepsOffset(next) ==    \* fault: the object is not begun anew
    /\ buffered' = 0
    /\ UNCHANGED <<mCurrentObjectOffset, toPush, via>>
    /\ mRemainingFirmwareSize' = 0
    /\ \/ /\ next.type = "FIRMWARE_DATA" /\ mIgnoreNextFirmware
          /\ pc' = "parse"
          /\ UNCHANGED <<mIgnoreNextFirmware, callVars, channelVars>>
       \/ /\ next.type = "FIRMWARE_DATA" /\ ~mIgnoreNextFirmware
          /\ pc' = "select"
          /\ Ask(Plain("SELECT"))
          /\ UNCHANGED mIgnoreNextFirmware
       \/ /\ next.type = "FIRMWARE_INIT"
          /\ mIgnoreNextFirmware' = FALSE
          /\ pc' = "pingDfu"
          /\ Ask(Plain("PING"))

onManifest(next) ==
    /\ buffered' = 0
    /\ UNCHANGED <<toPush, via>>
    /\ mCurrentObjectOffset' = 0
    /\ mRemainingFirmwareSize' = 0
    /\ \/ /\ next.type = "FIRMWARE_DATA" /\ mIgnoreNextFirmware
          /\ pc' = "parse"
          /\ UNCHANGED <<mIgnoreNextFirmware, callVars, channelVars>>
       \/ /\ next.type = "FIRMWARE_DATA" /\ ~mIgnoreNextFirmware
          /\ pc' = "select"
          /\ Ask(Plain("SELECT"))
          /\ UNCHANGED mIgnoreNextFirmware
       \/ /\ next.type = "FIRMWARE_INIT"
          /\ mIgnoreNextFirmware' = FALSE
          /\ pc' = "pingDfu"
          /\ Ask(Plain("PING"))

(* The length of what is copied is that of a header, less a field of it    *)
(* that is 0 until it comes; so a header that began in another chunk takes *)
(* bytes of its image, as many as it had, and is complete all the same:    *)
(* they go to the two members behind it, the offsets in the package, which *)
(* is not read, and in the header, which stays beyond its end unless the   *)
(* bytes 4 to 7 of the image are 2^32 - 12 or more, which they never are.  *)
InHeader == pc = "parse" /\ unread # 0 /\ mCurrentState = "HEADER"
copySize == Least(HeaderLen, unread)

ReadHeader ==
    /\ InHeader
    /\ mHeaderOffset <= NextField /\ swallowed = 0
    /\ mHeaderOffset + copySize >= HeaderLen
    /\ unread' = unread - copySize
    /\ swallowed' = mHeaderOffset + copySize - HeaderLen
    /\ mHeaderOffset' = 0
    /\ image' = image + 1
    /\ mCurrentState' = "FIRMWARE"
    /\ onManifest(package[image'])
    /\ UNCHANGED <<package, streamed, mFirmwareOffset, result, unreported>>

\* The chunk ends within the header.
SplitHeader ==
    /\ InHeader
    /\ mHeaderOffset <= NextField
    /\ mHeaderOffset + copySize < HeaderLen
    /\ unread' = unread - copySize
    /\ mHeaderOffset' = mHeaderOffset + copySize
    /\ UNCHANGED <<package, streamed, image, mCurrentState, mFirmwareOffset,
                   swallowed, pc, bufferVars, objectVars, callVars, channelVars,
                   result, unreported>>

\* A header cut in its last field: a length made of the bytes of it that came
\* is written over the object.  A header behind swallowed bytes has no magic
\* number: the chip refuses an object of no kind, or an answer that is late is
\* taken for its own, and then the bytes of an image are a length.
SpoiltHeader ==
    /\ InHeader
    /\ \/ mHeaderOffset > NextField /\ Stop("undefined")
       \/ /\ mHeaderOffset <= NextField /\ swallowed # 0
          /\ mHeaderOffset + copySize >= HeaderLen
          /\ \E outcome \in {"WRITE", "undefined"} : Stop(outcome)
    /\ UNCHANGED <<parseVars, bufferVars, objectVars, unreported>>

\* The rest of onManifest: is the chip in DFU mode, and does it take packets of
\* this length, acknowledge each, and take an object of this type?
ManifestAnswered ==
    /\ \/ GoesOn("pingDfu") \/ GoesOn("pingAgain") \/ GoesOn("mtu")
       \/ GoesOn("prn") \/ GoesOn("select")
    /\ \/ /\ Succeeded
          /\ \/ /\ pc \in {"pingDfu", "pingAgain"}
                /\ pc' = "mtu" /\ Ask(Plain("MTU"))
             \/ pc = "mtu" /\ pc' = "prn" /\ Ask(Plain("PRN"))
             \/ pc = "prn" /\ pc' = "select" /\ Ask(Plain("SELECT"))
             \/ pc = "select" /\ pc' = "parse" /\ UNCHANGED <<callVars, channelVars>>
          /\ UNCHANGED result
       \/ /\ ~Succeeded /\ pc = "pingDfu" /\ pc' = "reentering"
          /\ UNCHANGED <<callVars, channelVars, result>>
       \/ ~Succeeded /\ pc # "pingDfu" /\ Stop("WRITE")
    /\ mRemainingFirmwareSize' = IF pc' = "parse" THEN Size ELSE 0
    /\ UNCHANGED <<parseVars, bufferVars, mCurrentObjectOffset,
                   mIgnoreNextFirmware, unreported>>

-----------------------------------------------------------------------------
(* The bytes of an image, through FlashWriteBuffer.                        *)

onFirmware_Overfills ==    \* fault: the room in the buffer is not looked at
    /\ pc = "parse"
    /\ unread # 0
    /\ mCurrentState = "FIRMWARE"
    /\ LET piece == Least(Size - mFirmwareOffset, unread)
           copied == IF buffered = 0 THEN 0
                     ELSE piece
       IN  /\ mFirmwareOffset' = mFirmwareOffset + piece
           /\ unread' = unread - piece
           /\ IF mIgnoreNextFirmware
              THEN pc' = "pushed" /\ toPush' = 0 /\ UNCHANGED buffered
              ELSE /\ pc' = "push"
                   /\ toPush' = piece - copied
                   /\ buffered' = buffered + copied
    /\ UNCHANGED <<package, streamed, image, mCurrentState, mHeaderOffset,
                   swallowed, via, objectVars, callVars, channelVars, result,
                   unreported>>

\* onFirmware, to the first lines of pushBack, which fill the buffer.
onFirmware ==
    /\ pc = "parse"
    /\ unread # 0
    /\ mCurrentState = "FIRMWARE"
    /\ LET piece == Least(Size - mFirmwareOffset, unread)
           copied == IF buffered = 0 THEN 0
                     ELSE Least(piece, PacketLen - buffered)
       IN  /\ mFirmwareOffset' = mFirmwareOffset + piece
           /\ unread' = unread - piece
           /\ IF mIgnoreNextFirmware
              THEN pc' = "pushed" /\ toPush' = 0 /\ UNCHANGED buffered
              ELSE /\ pc' = "push"
                   /\ toPush' = piece - copied
                   /\ buffered' = buffered + copied
    /\ UNCHANGED <<package, streamed, image, mCurrentState, mHeaderOffset,
                   swallowed, via, objectVars, callVars, channelVars, result,
                   unreported>>

Write(from, size) ==
    [command |-> "WRITE", image |-> image, from |-> from, size |-> size]

\* The packet that is sent: the one in the buffer, or cut from the chunk; and
\* where its bytes belong.
PacketSize == IF via = "partial" THEN buffered ELSE PacketLen
PacketFrom ==
    swallowed + CASE via = "partial" -> Size - buffered
                  [] via = "flush" -> mFirmwareOffset - toPush - PacketLen
                  [] via = "direct" -> mFirmwareOffset - toPush

pushBack ==
    /\ pc = "push"
    /\ \/ buffered = PacketLen /\ pc' = "packet" /\ via' = "flush" /\ UNCHANGED <<buffered, toPush>>
       \/ /\ buffered < PacketLen /\ toPush >= PacketLen
          /\ pc' = "packet" /\ via' = "direct"
          /\ UNCHANGED <<buffered, toPush>>
       \/ /\ buffered < PacketLen /\ toPush < PacketLen
          /\ pc' = "pushed"
          /\ buffered' = buffered + toPush
          /\ toPush' = 0
          /\ UNCHANGED via
    /\ UNCHANGED <<parseVars, objectVars, callVars, channelVars, result, unreported>>

\* The image goes on, or it ends: then onFirmwareEnd decides alone.
FirmwareTaken ==
    /\ pc = "pushed"
    /\ toPush' = 0
    /\ \/ /\ mFirmwareOffset < Size /\ toPush = 0
          /\ pc' = "parse"
          /\ UNCHANGED <<mCurrentState, mFirmwareOffset, via, result, callVars, channelVars>>
       \/ /\ mFirmwareOffset < Size /\ toPush # 0
          /\ Stop("WRITE")
          /\ UNCHANGED <<mCurrentState, mFirmwareOffset, via>>
       \/ /\ mFirmwareOffset = Size
          /\ mCurrentState' = "END"
          /\ mFirmwareOffset' = 0
          /\ IF buffered = 0 THEN pc' = "parse" /\ UNCHANGED via
                             ELSE pc' = "packet" /\ via' = "partial"
          /\ UNCHANGED <<result, callVars, channelVars>>
    /\ UNCHANGED <<package, streamed, unread, image, mHeaderOffset, swallowed,
                   buffered, objectVars, unreported>>

-----------------------------------------------------------------------------
(* _bufferFull: one packet.                                                *)

WritePacket ==
    /\ mRemainingFirmwareSize' = mRemainingFirmwareSize - PacketSize
    /\ mCurrentObjectOffset' = mCurrentObjectOffset + PacketSize
    /\ pc' = "write"
    /\ Ask(Write(PacketFrom, PacketSize))

_bufferFull ==
    /\ pc = "packet"
    /\ \/ /\ mCurrentObjectOffset + PacketSize > ObjectLen
          /\ Stop("assert")
          /\ UNCHANGED objectVars
       \/ /\ mCurrentObjectOffset + PacketSize <= ObjectLen
          /\ mCurrentObjectOffset = 0
          /\ pc' = "create"
          /\ Ask([command |-> "CREATE", type |-> Type, image |-> image,
                  size |-> Least(mRemainingFirmwareSize, ObjectLen)])
          /\ UNCHANGED <<objectVars, result>>
       \/ /\ mCurrentObjectOffset + PacketSize <= ObjectLen
          /\ mCurrentObjectOffset # 0
          /\ WritePacket
          /\ UNCHANGED <<mIgnoreNextFirmware, result>>
    /\ UNCHANGED <<parseVars, bufferVars, unreported>>

PacketDone_KeepsBuffer(taken) ==    \* fault: the buffer is not emptied
    /\ buffered' = IF via = "partial" THEN 0 ELSE buffered
    /\ toPush' = IF taken /\ via = "direct" THEN toPush - PacketLen ELSE toPush
    /\ \/ /\ taken \/ via # "partial"
          /\ pc' = CASE ~taken -> "pushed"
                     [] taken /\ via = "partial" -> "parse"
                     [] taken /\ via # "partial" -> "push"
          /\ UNCHANGED <<callVars, channelVars, result>>
       \/ ~taken /\ via = "partial" /\ Stop("WRITE")
    /\ unreported' = IF ~taken /\ via # "partial"
                     THEN unreported \cup {image} ELSE unreported
    /\ UNCHANGED <<parseVars, via>>

PacketDone_DropsLast(taken) ==    \* fault: the result of partialFlush is dropped
    /\ buffered' = IF via = "direct" THEN buffered ELSE 0
    /\ toPush' = IF taken /\ via = "direct" THEN toPush - PacketLen ELSE toPush
    /\ pc' = CASE via = "partial" -> "parse"
              [] taken /\ via # "partial" -> "push"
              [] ~taken /\ via # "partial" -> "pushed"
    /\ unreported' = IF ~taken /\ via # "partial"
                     THEN unreported \cup {image} ELSE unreported
    /\ UNCHANGED <<parseVars, via, callVars, channelVars, result>>

\* pushBack or partialFlush goes on with what the packet came to.
PacketDone(taken) ==
    /\ buffered' = IF via = "direct" THEN buffered ELSE 0
    /\ toPush' = IF taken /\ via = "direct" THEN toPush - PacketLen ELSE toPush
    /\ \/ /\ taken \/ via # "partial"
          /\ pc' = CASE ~taken -> "pushed"
                     [] taken /\ via = "partial" -> "parse"
                     [] taken /\ via # "partial" -> "push"
          /\ UNCHANGED <<callVars, channelVars, result>>
       \/ ~taken /\ via = "partial" /\ Stop("WRITE")
    /\ unreported' = IF ~taken /\ via # "partial"
                     THEN unreported \cup {image} ELSE unreported
    /\ UNCHANGED <<parseVars, via>>

CreateAnswered ==
    /\ GoesOn("create")
    /\ \/ /\ Succeeded
          /\ WritePacket
          /\ UNCHANGED <<parseVars, bufferVars, mIgnoreNextFirmware, result, unreported>>
       \/ ~Succeeded /\ PacketDone(FALSE) /\ UNCHANGED objectVars

WriteAnswered ==
    LET acknowledged == Succeeded /\ answer.offset = Size - mRemainingFirmwareSize
        complete == mCurrentObjectOffset = ObjectLen \/ mRemainingFirmwareSize = 0
    IN  /\ GoesOn("write")
        /\ \/ /\ acknowledged /\ complete
              /\ mCurrentObjectOffset' = 0
              /\ pc' = "execute"
              /\ Ask(Plain("EXECUTE"))
              /\ UNCHANGED <<parseVars, bufferVars, mRemainingFirmwareSize,
                             mIgnoreNextFirmware, result, unreported>>
           \/ /\ ~(acknowledged /\ complete)
              /\ PacketDone(acknowledged)
              /\ UNCHANGED objectVars

execute_IgnoresErrors ==    \* fault: any error is taken for an old version
    /\ GoesOn("execute")
    /\ mIgnoreNextFirmware' = (mIgnoreNextFirmware \/ answer.code \in Code \ {"SUCCESS"})
    /\ PacketDone(answer.code \in Code)
    /\ UNCHANGED <<mCurrentObjectOffset, mRemainingFirmwareSize>>

\* A version that is too old is no failure: the image behind it is left out.
execute ==
    /\ GoesOn("execute")
    /\ mIgnoreNextFirmware' =
           (mIgnoreNextFirmware \/ answer.code = "FW_VERSION_FAILURE")
    /\ PacketDone(answer.code \in {"SUCCESS", "FW_VERSION_FAILURE"})
    /\ UNCHANGED <<mCurrentObjectOffset, mRemainingFirmwareSize>>

-----------------------------------------------------------------------------

Init ==
    /\ package \in Packages
    /\ streamed = 0 /\ unread = 0 /\ image = 0
    /\ mCurrentState = "HEADER"
    /\ mHeaderOffset = 0 /\ mFirmwareOffset = 0 /\ swallowed = 0
    /\ buffered = 0 /\ toPush = 0 /\ via = "flush"
    /\ mCurrentObjectOffset = 0 /\ mRemainingFirmwareSize = 0
    /\ mIgnoreNextFirmware = FALSE
    /\ pc = "init"
    /\ asked = Plain("NONE") /\ nbRetry = 0 /\ answer = Unanswered
    /\ mDfuPacketQueue = << >>
    /\ result = "none"
    /\ unreported = {}
    /\ older \in SUBSET {i \in DOMAIN package : package[i].type = "FIRMWARE_INIT"}
    /\ chip = [mode |-> "application", type |-> "FIRMWARE_INIT", image |-> 0,
               object |-> 0, offset |-> 0, inOrder |-> TRUE, executed |-> 0,
               sound |-> TRUE, expects |-> 0, installed |-> {}]
    /\ replies = << >>
    /\ late = 0 /\ lost = 0

UpdateTask ==
    \/ enterDfu \/ forceDfu \/ waitEnteredDfu \/ initUpdate
    \/ receive \/ receiveTimesOut
    \/ writeFirmware \/ EndChunk \/ NextHeader
    \/ ReadHeader \/ SplitHeader \/ SpoiltHeader \/ ManifestAnswered
    \/ onFirmware \/ pushBack \/ FirmwareTaken
    \/ _bufferFull \/ CreateAnswered \/ WriteAnswered \/ execute

Next == UpdateTask \/ notification \/ ChipEntersDfu \/ ChipFallsSilent

Spec == Init /\ [][Next]_vars

\* The update task and the task of the BLE chip run whenever they can; a timeout
\* is one of the steps of the first.  The chip may never answer.
FairSpec == Spec /\ WF_vars(UpdateTask) /\ WF_vars(notification)

-----------------------------------------------------------------------------

NrfUpdateTypeOK ==
    /\ streamed \in 0..TotalLen /\ unread \in 0..ChunkLen
    /\ image \in 0..Len(package)
    /\ mCurrentState \in {"HEADER", "FIRMWARE", "END"}
    /\ mHeaderOffset \in 0..HeaderLen - 1 /\ mFirmwareOffset \in Nat
    /\ swallowed \in 0..NextField
    /\ buffered \in 0..PacketLen /\ toPush \in 0..ChunkLen
    /\ mCurrentObjectOffset \in 0..ObjectLen
    /\ mRemainingFirmwareSize \in Nat
    /\ nbRetry \in 0..NbTries
    /\ result \in {"none", "SUCCESS", "WRITE", "UNEXPECTED", "assert", "undefined"}

DataImages == {i \in DOMAIN package : package[i].type = "FIRMWARE_DATA"}

\* An update of the chip that is reported as done has put every DATA image of
\* the package in place, or left it out because the chip would not take its
\* INIT image, whatever was lost or late and whichever reply was taken for
\* another's.  Except that the failure of a packet in the last chunk of an image
\* is overwritten by the end of that image (NRFFirmwarePackage.cpp:64-73); the
\* chip shows up such a failure in an INIT image, unless it still expects the
\* DATA image before, whose failure was overwritten, too.  And except for the
\* images from the one on whose header lay in two chunks: nothing tells that the
\* end of the last one never came (NRFFirmwarePackage.cpp:41-49).
InstalledUnlessUnreported ==
    result = "SUCCESS" =>
        \A i \in DataImages :
            \/ i \in chip.installed \/ (i - 1) \in older
            \/ i \in unreported \/ {i - 1, i - 2} \subseteq unreported
            \/ swallowed # 0 /\ i >= image

\* Only images the chip refused for their version are left out: the refusal of
\* one that comes late is never taken for that of another
\* (NRFFirmwareUpdate.cpp:226-231, 268-271, 395-399, 455-458).
IgnoresOnlyOlder == mIgnoreNextFirmware =>
    \E i \in older : i \in {image, image - 1}

\* "ASSERT((mCurrentObjectOffset + size) <= mCurrentObjectSize)": also after a
\* packet that failed and behind a header in two chunks
\* (NRFFirmwareUpdate.cpp:413).
PacketFitsObject == result # "assert"

\* As long as nothing is lost or late, and no header took bytes of its image,
\* every byte of an image is sent once and in its order, across chunks, packets
\* and objects (FlashWriteBuffer.hpp:46-128, NRFFirmwarePackage.cpp:38-75).
TakenOnceInOrder == late = 0 /\ lost = 0 /\ swallowed = 0 => chip.inOrder

\* However the chip behaves, the transfer comes to an end, or to where the code
\* no longer says what it does.
TransferEnds == <>(pc = "end")

=============================================================================
