----------------------- MODULE NrfFirmwareUpdateProofs -----------------------
(* For every package and every length of packets, chunks and objects: the   *)
(* packets of a transfer fit their objects, whatever the chip does; only an *)
(* image the chip refused is left out, whatever is lost or late; what is    *)
(* neither is taken once and in its order; and what is reported as done is  *)
(* in place.                                                                *)
EXTENDS NrfFirmwareUpdate, SequenceTheorems, TLAPS

Places ==
    {"init", "entering", "ping", "force", "forcing", "pingForced", "read",
     "parse", "pingDfu", "reentering", "pingAgain", "mtu", "prn", "select",
     "push", "packet", "create", "write", "execute", "pushed", "end"}

BeforePackage == {"init", "entering", "ping", "force", "forcing", "pingForced"}

BeforeImage == {"pingDfu", "reentering", "pingAgain", "mtu", "prn", "select"}

Sending == {"packet", "create", "write", "execute"}

Kinds ==
    /\ package \in Packages
    /\ streamed \in Nat /\ unread \in 0..ChunkLen
    /\ unread <= streamed /\ streamed <= TotalLen
    /\ image \in 0..Len(package)
    /\ mCurrentState \in {"HEADER", "FIRMWARE", "END"}
    /\ mHeaderOffset \in 0..HeaderLen - 1 /\ mFirmwareOffset \in Nat
    /\ swallowed \in 0..NextField
    /\ buffered \in 0..PacketLen /\ toPush \in 0..ChunkLen
    /\ via \in {"flush", "direct", "partial"}
    /\ mCurrentObjectOffset \in 0..ObjectLen
    /\ mRemainingFirmwareSize \in Nat
    /\ mIgnoreNextFirmware \in BOOLEAN
    /\ pc \in Places
    /\ result \in {"none", "SUCCESS", "WRITE", "UNEXPECTED", "undefined"}

(* What was parsed of the package is all up to here, and what a header took *)
(* of its image besides.                                                    *)
Position ==
    /\ mCurrentState = "FIRMWARE" =>
           /\ image # 0 /\ mHeaderOffset = 0
           /\ mFirmwareOffset <= Size
           /\ streamed - unread =
                  package[image].end - Size + mFirmwareOffset + swallowed
    /\ mCurrentState # "FIRMWARE" =>
           /\ mFirmwareOffset = 0
           /\ streamed - unread =
                  (IF image = 0 THEN 0 ELSE package[image].end)
                      + mHeaderOffset + swallowed
    /\ mCurrentState = "END" => image # 0 /\ mHeaderOffset = 0

Multiple(n) == \E k \in Nat : n = k * PacketLen

(* The object has room for a whole packet. *)
Room == Multiple(mCurrentObjectOffset) /\ mCurrentObjectOffset < ObjectLen

(* As much of the image is outstanding as is buffered, to be pushed, and not *)
(* received yet; but an image that is left out on the way is not received.  *)
Outstanding(n) ==
    /\ n >= buffered + toPush
    /\ ~mIgnoreNextFirmware => n >= buffered + toPush + Size - mFirmwareOffset

(* Between two pieces of an image. *)
Between ==
    /\ Room
    /\ buffered < PacketLen
    /\ toPush = 0
    /\ Outstanding(mRemainingFirmwareSize) \/ (mIgnoreNextFirmware /\ buffered = 0)

(* A chunk that has not been looked at is a whole one, or the last. *)
WholeChunk == unread = ChunkLen \/ streamed = TotalLen

(* The piece of the image is all of the chunk or the end of the image. *)
PieceTaken == mFirmwareOffset = Size \/ unread = 0

(* The package is at its end, though an image whose header took some of it   *)
(* is not.                                                                  *)
Exhausted == streamed = TotalLen /\ unread = 0

AtRest ==
    /\ pc \in {"read", "parse"} \cup BeforePackage \cup BeforeImage => toPush = 0
    /\ pc \in {"read"} \cup BeforePackage => unread = 0
    /\ pc \in BeforePackage => mCurrentState = "HEADER"
    /\ pc \in {"read", "parse"} /\ mCurrentState = "FIRMWARE" =>
           /\ Between \/ Exhausted
           /\ mFirmwareOffset < Size
           /\ buffered # 0 /\ unread # 0 => WholeChunk
    /\ pc \in BeforeImage =>
           /\ mCurrentState = "FIRMWARE" /\ mFirmwareOffset = 0
           /\ buffered = 0 /\ mCurrentObjectOffset = 0

(* A buffer that gets full as the piece ends does so at the image's end, or *)
(* at that of the package.                                                  *)
Pushing ==
    /\ pc = "push" =>
           /\ mCurrentState = "FIRMWARE" /\ PieceTaken /\ Room
           /\ Outstanding(mRemainingFirmwareSize)
           /\ buffered \in {0, PacketLen} \/ toPush = 0
           /\ buffered = PacketLen /\ toPush = 0 => mFirmwareOffset = Size \/ Exhausted
    /\ pc = "pushed" =>
           /\ mCurrentState = "FIRMWARE" /\ PieceTaken
           /\ \/ Between
              \/ /\ buffered = 0
                 /\ toPush # 0 \/ mFirmwareOffset = Size \/ Exhausted

InPacket ==
    pc \in Sending =>
        /\ via = "partial" =>
               mCurrentState = "END" /\ toPush = 0 /\ buffered # 0
        /\ via # "partial" => mCurrentState = "FIRMWARE" /\ PieceTaken
        /\ via = "flush" =>
               /\ buffered = PacketLen
               /\ toPush = 0 => mFirmwareOffset = Size \/ Exhausted
        /\ via = "direct" => buffered = 0 /\ toPush >= PacketLen
        /\ pc \in {"packet", "create"} => mRemainingFirmwareSize >= PacketSize
        /\ via # "partial" =>
               Outstanding(IF pc \in {"packet", "create"}
                           THEN mRemainingFirmwareSize
                           ELSE mRemainingFirmwareSize + PacketSize)
        /\ pc = "packet" => Room
        /\ pc \in {"create", "execute"} => mCurrentObjectOffset = 0
        /\ pc = "write" /\ via # "partial" => Multiple(mCurrentObjectOffset)

FitInv == Kinds /\ Position /\ AtRest /\ Pushing /\ InPacket

-----------------------------------------------------------------------------

LEMMA Lengths ==
    /\ PacketLen \in Nat /\ PacketLen > 0 /\ PacketLen <= ChunkLen
    /\ ChunkLen \in Nat /\ ObjectLen \in Nat /\ ObjectLen > 0
    /\ NbTries \in Nat /\ NbTries > 0
    /\ HeaderLen \in Nat /\ HeaderLen > 0 /\ HeaderLen <= ChunkLen
    /\ NextField \in Nat /\ NextField > 0 /\ NextField < HeaderLen
  BY NrfUpdateAssumption

(* An image in a package, and its place there. *)
LEMMA ImageFacts ==
    ASSUME package \in Packages
    PROVE  /\ Len(package) \in Nat /\ Len(package) > 0
           /\ TotalLen \in Nat
           /\ \A i \in 1..Len(package) :
                  /\ package[i].type \in ImageType
                  /\ package[i].size \in Nat /\ package[i].size > 0
                  /\ package[i].end \in Nat /\ package[i].end <= TotalLen
                  /\ package[i].end = HeaderLen + package[i].size
                                      + (IF i = 1 THEN 0 ELSE package[i - 1].end)
  <1>1. package \in Seq(Images) /\ package # << >>
    BY NrfUpdateAssumption
  <1>2. Len(package) \in Nat /\ Len(package) > 0 /\ DOMAIN package = 1..Len(package)
    BY <1>1
  <1>3. \A i \in 1..Len(package) : package[i] \in Images
    BY <1>1, <1>2
  <1>4. \A i \in 1..Len(package) :
            /\ package[i].end = HeaderLen + package[i].size
                                  + (IF i = 1 THEN 0 ELSE package[i - 1].end)
            /\ package[i].end <= package[Len(package)].end
    BY <1>2, NrfUpdateAssumption
  <1> QED
    BY <1>2, <1>3, <1>4 DEF Images, TotalLen

LEMMA NoneIsMultiple == Multiple(0)
  BY Lengths DEF Multiple

LEMMA PacketIsMultiple == Multiple(PacketLen)
  BY Lengths DEF Multiple

(* The object is a number of packets, so that there is room for a whole one. *)
LEMMA RoomForPacket ==
    ASSUME NEW n \in Nat, Multiple(n), n < ObjectLen
    PROVE  n + PacketLen <= ObjectLen /\ Multiple(n + PacketLen)
  <1>1. PICK k \in Nat : n = k * PacketLen
    BY DEF Multiple
  <1>2. PICK m \in 1..ObjectLen : ObjectLen = m * PacketLen
    BY NrfUpdateAssumption
  <1>3. m \in Nat /\ PacketLen \in Nat /\ PacketLen > 0
    BY Lengths
  <1>4. k < m
    <2>1. SUFFICES ASSUME k >= m PROVE FALSE
      BY <1>3
    <2>2. PICK d \in Nat : k = m + d
      BY <1>3, <2>1
    <2>3. k * PacketLen = m * PacketLen + d * PacketLen
      BY <1>3, <2>2
    <2>4. d * PacketLen \in Nat
      BY <1>3
    <2> QED
      BY <1>1, <1>2, <2>3, <2>4, Lengths
  <1>5. PICK d \in Nat : m = k + 1 + d
    BY <1>3, <1>4
  <1>6. /\ m * PacketLen = k * PacketLen + PacketLen + d * PacketLen
        /\ (k + 1) * PacketLen = k * PacketLen + PacketLen
    BY <1>3, <1>5
  <1>7. d * PacketLen \in Nat
    BY <1>3
  <1>8. n + PacketLen <= ObjectLen
    BY <1>1, <1>2, <1>3, <1>6, <1>7, Lengths
  <1>9. n + PacketLen = (k + 1) * PacketLen /\ k + 1 \in Nat
    BY <1>1, <1>6
  <1> QED
    BY <1>8, <1>9 DEF Multiple

-----------------------------------------------------------------------------
(* The steps, one lemma per action. *)

fitVars == <<parseVars, bufferVars, objectVars, pc, result>>

LEMMA FitStart == Init => FitInv
  <1> SUFFICES ASSUME Init PROVE FitInv
    OBVIOUS
  <1>1. package \in Packages /\ TotalLen \in Nat /\ Len(package) \in Nat
    BY ImageFacts DEF Init
  <1> DEFINE Start ==
             /\ streamed = 0 /\ unread = 0 /\ image = 0
             /\ mCurrentState = "HEADER" /\ mFirmwareOffset = 0
             /\ mHeaderOffset = 0 /\ swallowed = 0
             /\ buffered = 0 /\ toPush = 0 /\ via = "flush"
             /\ mCurrentObjectOffset = 0 /\ mRemainingFirmwareSize = 0
             /\ pc = "init" /\ result = "none"
  <1>s. Start
    BY DEF Init
  <1>2. Kinds
    <2>1. mIgnoreNextFirmware \in BOOLEAN
      BY DEF Init
    <2> HIDE DEF Init
    <2> QED
      BY <1>1, <1>s, <2>1, Lengths DEF Kinds, Places
  <1>3. Position
    BY <1>s DEF Position
  <1>4. AtRest /\ Pushing /\ InPacket
    BY <1>s DEF AtRest, Pushing, InPacket, Sending, BeforeImage, BeforePackage
  <1> QED
    BY <1>2, <1>3, <1>4 DEF FitInv

LEMMA FitStutters ==
    ASSUME FitInv, UNCHANGED fitVars
    PROVE  FitInv'
  <1> USE DEF fitVars, parseVars, bufferVars, objectVars
  <1>1. Kinds'
    BY DEF FitInv, Kinds, TotalLen
  <1>2. Position'
    BY DEF FitInv, Position, Size
  <1>3. AtRest'
    BY DEF FitInv, AtRest, Between, Exhausted, Room, Outstanding, WholeChunk,
           TotalLen, Size
  <1>4. Pushing'
    BY DEF FitInv, Pushing, PieceTaken, Between, Exhausted, Room, Outstanding,
           TotalLen, Size
  <1>5. InPacket'
    BY DEF FitInv, InPacket, PieceTaken, Exhausted, Room, Outstanding, TotalLen,
           Size, PacketSize
  <1> QED
    BY <1>1, <1>2, <1>3, <1>4, <1>5 DEF FitInv

(* Nothing is asked of an update that has stopped. *)
LEMMA StopKeeps ==
    ASSUME Kinds, Position, Kinds', Position', pc' = "end"
    PROVE  FitInv'
  BY DEF FitInv, AtRest, Pushing, InPacket, BeforePackage, BeforeImage, Sending

LEMMA InitUpdateKeeps ==
    ASSUME FitInv, enterDfu \/ forceDfu \/ waitEnteredDfu \/ initUpdate
    PROVE  FitInv'
  <1> USE DEF enterDfu, forceDfu, OrderDfu, waitEnteredDfu, initUpdate, GoesOn,
              Stop, parseVars, bufferVars, objectVars
  <1>1. /\ UNCHANGED <<parseVars, bufferVars, objectVars>>
        /\ pc \in BeforePackage \cup {"reentering"}
        /\ pc' \in BeforePackage \cup {"read", "pingAgain", "end"}
        /\ pc = "reentering" <=> pc' = "pingAgain"
        /\ result' \in {result, "UNEXPECTED"}
    BY DEF BeforePackage
  <1> HIDE DEF enterDfu, forceDfu, OrderDfu, waitEnteredDfu, initUpdate
  <1>2. Kinds'
    BY <1>1 DEF FitInv, Kinds, TotalLen, Places, BeforePackage
  <1>3. Position'
    BY <1>1 DEF FitInv, Position, Size
  <1>4. AtRest'
    BY <1>1 DEF FitInv, AtRest, BeforePackage, BeforeImage
  <1>5. Pushing' /\ InPacket'
    BY <1>1 DEF Pushing, InPacket, BeforePackage, Sending
  <1> QED
    BY <1>2, <1>3, <1>4, <1>5 DEF FitInv

LEMMA WriteFirmwareKeeps ==
    ASSUME FitInv, writeFirmware
    PROVE  FitInv'
  <1> USE DEF bufferVars, objectVars
  <1>1. CASE streamed < TotalLen
    <2>1. /\ UNCHANGED <<package, image, mCurrentState, mHeaderOffset,
                          mFirmwareOffset, swallowed, bufferVars, objectVars,
                          result>>
          /\ pc = "read" /\ pc' = "parse"
          /\ unread' = Least(ChunkLen, TotalLen - streamed)
          /\ streamed' = streamed + unread'
      BY <1>1, Lengths, ImageFacts DEF writeFirmware, FitInv, Kinds, Stop
    <2>2. /\ unread' \in 1..ChunkLen /\ streamed' \in Nat
          /\ unread' <= streamed' /\ streamed' <= TotalLen
          /\ unread' = ChunkLen \/ streamed' = TotalLen
          /\ streamed' - unread' = streamed - unread
          /\ UNCHANGED TotalLen
      <3>1. package \in Packages /\ streamed \in Nat /\ unread = 0
        BY <2>1 DEF FitInv, Kinds, AtRest
      <3>2. TotalLen \in Nat /\ UNCHANGED TotalLen
        BY <2>1, <3>1, ImageFacts DEF TotalLen
      <3> QED
        BY <1>1, <2>1, <3>1, <3>2, Lengths DEF Least
    <2>3. Kinds'
      BY <2>1, <2>2 DEF FitInv, Kinds, Places
    <2>4. Position'
      BY <2>1, <2>2 DEF FitInv, Position, Size
    <2>5. AtRest'
      <3>1. ~Exhausted /\ Size' = Size /\ toPush' = 0
        BY <1>1, <2>1, Lengths DEF FitInv, Kinds, AtRest, Exhausted, Size
      <3>2. mCurrentState' = "FIRMWARE" => Between' /\ mFirmwareOffset' < Size'
        BY <2>1, <3>1 DEF FitInv, AtRest, Between, Room, Outstanding
      <3>3. WholeChunk'
        BY <2>2 DEF WholeChunk
      <3> QED
        BY <2>1, <3>1, <3>2, <3>3 DEF AtRest, BeforePackage, BeforeImage
    <2>6. Pushing' /\ InPacket'
      BY <2>1 DEF Pushing, InPacket, Sending
    <2> QED
      BY <2>3, <2>4, <2>5, <2>6 DEF FitInv
  <1>2. CASE streamed = TotalLen
    <2>1. /\ UNCHANGED <<package, streamed, unread, image, mCurrentState,
                          mHeaderOffset, mFirmwareOffset, swallowed, bufferVars,
                          objectVars>>
          /\ pc' = "end" /\ result' = "SUCCESS"
      BY <1>2, ImageFacts DEF writeFirmware, FitInv, Kinds, Stop
    <2>2. Kinds' /\ Position'
      BY <2>1 DEF FitInv, Kinds, Position, Places, TotalLen, Size
    <2> QED
      BY <2>1, <2>2, StopKeeps DEF FitInv
  <1> QED
    BY <1>1, <1>2 DEF writeFirmware

LEMMA ChunkKeeps ==
    ASSUME FitInv, EndChunk \/ NextHeader
    PROVE  FitInv'
  <1> USE DEF EndChunk, NextHeader, parseVars, bufferVars, objectVars
  <1>1. /\ UNCHANGED <<package, streamed, unread, image, mHeaderOffset,
                        mFirmwareOffset, swallowed, bufferVars, objectVars,
                        result>>
        /\ pc = "parse"
        /\ \/ pc' = "read" /\ unread = 0 /\ UNCHANGED mCurrentState
           \/ /\ pc' = "parse" /\ mCurrentState = "END"
              /\ mCurrentState' = "HEADER"
    OBVIOUS
  <1>2. Kinds'
    BY <1>1 DEF FitInv, Kinds, TotalLen, Places
  <1>3. Position'
    BY <1>1 DEF FitInv, Position, Size
  <1>4. AtRest'
    BY <1>1 DEF FitInv, AtRest, Between, Exhausted, Room, Outstanding, Size,
                WholeChunk, TotalLen, BeforePackage, BeforeImage
  <1>5. Pushing' /\ InPacket'
    BY <1>1 DEF Pushing, InPacket, Sending
  <1> QED
    BY <1>2, <1>3, <1>4, <1>5 DEF FitInv

LEMMA ReadHeaderKeeps ==
    ASSUME FitInv, ReadHeader
    PROVE  FitInv'
  <1>1. /\ pc = "parse" /\ unread # 0 /\ mCurrentState = "HEADER"
        /\ mHeaderOffset <= NextField /\ swallowed = 0
        /\ mHeaderOffset + copySize >= HeaderLen
        /\ unread' = unread - copySize /\ image' = image + 1
        /\ swallowed' = mHeaderOffset + copySize - HeaderLen
        /\ mHeaderOffset' = 0 /\ mCurrentState' = "FIRMWARE"
        /\ buffered' = 0 /\ mCurrentObjectOffset' = 0
        /\ mRemainingFirmwareSize' = 0
        /\ UNCHANGED <<package, streamed, mFirmwareOffset, toPush, via, result>>
        /\ \/ pc' = "parse" /\ mIgnoreNextFirmware /\ UNCHANGED mIgnoreNextFirmware
           \/ pc' \in BeforeImage /\ mIgnoreNextFirmware' \in {FALSE, mIgnoreNextFirmware}
    BY DEF ReadHeader, InHeader, onManifest, BeforeImage
  <1>2. /\ package \in Packages /\ image \in 0..Len(package)
        /\ streamed \in Nat /\ unread \in 0..ChunkLen /\ streamed <= TotalLen
        /\ unread <= streamed /\ mHeaderOffset \in Nat
    BY Lengths DEF FitInv, Kinds
  <1>c. /\ copySize \in Nat /\ copySize <= unread /\ copySize <= HeaderLen
        /\ swallowed' \in 0..NextField
    <2>1. copySize \in Nat /\ copySize <= unread /\ copySize <= HeaderLen
      BY <1>2, Lengths DEF copySize, Least
    <2> QED
      BY <1>1, <1>2, <2>1, Lengths
  <1>3. /\ mFirmwareOffset = 0 /\ toPush = 0
        /\ streamed - unread =
               (IF image = 0 THEN 0 ELSE package[image].end) + mHeaderOffset
    BY <1>1, <1>2, ImageFacts DEF FitInv, Position, AtRest
  <1>4. image < Len(package)
    BY <1>1, <1>2, <1>3, ImageFacts, Lengths DEF TotalLen
  <1>5. /\ image' \in 1..Len(package) /\ unread' \in 0..ChunkLen
        /\ unread' <= streamed'
    BY <1>1, <1>2, <1>c, <1>4, ImageFacts, Lengths
  <1>6. /\ package[image'].size \in Nat /\ package[image'].size > 0
        /\ package[image'].end = HeaderLen + package[image'].size
                                  + (IF image = 0 THEN 0 ELSE package[image].end)
    BY <1>1, <1>2, <1>5, ImageFacts
  <1>7. Size' = package[image'].size /\ UNCHANGED TotalLen
    BY <1>1 DEF Size, TotalLen
  <1>8. Kinds'
    <2>1. mIgnoreNextFirmware' \in BOOLEAN
      BY <1>1 DEF FitInv, Kinds
    <2>2. pc' \in Places
      BY <1>1 DEF Places, BeforeImage
    <2> QED
      BY <1>1, <1>2, <1>c, <1>5, <1>7, <2>1, <2>2, Lengths DEF FitInv, Kinds
  <1>9. Position'
    <2>1. /\ image' # 0 /\ mFirmwareOffset' <= Size'
          /\ streamed' - unread' = streamed - unread + copySize
      <3>1. streamed' = streamed /\ unread' = unread - copySize
        BY <1>1
      <3>2. /\ streamed \in Nat /\ unread \in Nat /\ copySize \in Nat
            /\ ChunkLen \in Nat
        BY <1>2, <1>c, Lengths
      <3>3. streamed' - unread' = streamed - unread + copySize
        BY <3>1, <3>2
      <3>4. mFirmwareOffset' = 0 /\ Size' \in Nat
        BY <1>1, <1>3, <1>6, <1>7
      <3>5. image' # 0
        BY <1>5
      <3> QED
        BY <3>3, <3>4, <3>5
    <2>2. package'[image'].end - Size' =
              HeaderLen + (IF image = 0 THEN 0 ELSE package[image].end)
      <3>1. image # 0 => package[image].end \in Nat
        BY <1>2, ImageFacts
      <3> QED
        BY <1>1, <1>6, <1>7, <3>1, Lengths
    <2>3. image # 0 => package[image].end \in Nat
      BY <1>2, ImageFacts
    <2>4. streamed' - unread' =
              package'[image'].end - Size' + mFirmwareOffset' + swallowed'
      <3> DEFINE end == IF image = 0 THEN 0 ELSE package[image].end
      <3>1. end \in Nat
        BY <2>3
      <3>2. streamed' - unread' = end + mHeaderOffset + copySize
        BY <1>2, <1>c, <1>3, <2>1, <3>1
      <3>3. swallowed' = mHeaderOffset + copySize - HeaderLen /\ mFirmwareOffset' = 0
        BY <1>1, <1>3
      <3>4. package'[image'].end - Size' = HeaderLen + end
        BY <2>2
      <3> HIDE DEF end
      <3> QED
        BY <1>2, <1>c, <3>1, <3>2, <3>3, <3>4, Lengths
    <2> QED
      BY <1>1, <2>1, <2>4 DEF Position
  <1>10. AtRest'
    <2>1. Multiple(0) /\ ObjectLen > 0 /\ PacketLen > 0 /\ PacketLen \in Nat
      BY NoneIsMultiple, Lengths
    <2>2. pc' = "parse" => mIgnoreNextFirmware'
      BY <1>1 DEF BeforeImage
    <2>3. Room'
      BY <1>1, <2>1 DEF Room, Multiple
    <2>4. pc' = "parse" => Between'
      BY <1>1, <1>3, <2>1, <2>2, <2>3 DEF Between
    <2>5. pc' \in {"parse"} \cup BeforeImage
      BY <1>1
    <2>6. buffered' = 0 /\ mFirmwareOffset' = 0 /\ toPush' = 0 /\ Size' > 0
      BY <1>1, <1>3, <1>6, <1>7
    <2> QED
      BY <1>1, <2>4, <2>5, <2>6 DEF AtRest, BeforeImage, BeforePackage
  <1>11. Pushing' /\ InPacket'
    BY <1>1 DEF Pushing, InPacket, Sending, BeforeImage
  <1> QED
    BY <1>8, <1>9, <1>10, <1>11 DEF FitInv

(* A header that is cut keeps its bytes; what ends for a header that is     *)
(* spoilt ends as it is.                                                    *)
LEMMA OddHeaderKeeps ==
    ASSUME FitInv, SplitHeader \/ SpoiltHeader
    PROVE  FitInv'
  <1>1. CASE SplitHeader
    <2>1. /\ pc = "parse" /\ mCurrentState = "HEADER"
          /\ mHeaderOffset + copySize < HeaderLen
          /\ unread' = unread - copySize
          /\ mHeaderOffset' = mHeaderOffset + copySize
          /\ UNCHANGED <<package, streamed, image, mCurrentState,
                          mFirmwareOffset, swallowed, pc, bufferVars,
                          objectVars, result>>
      BY <1>1 DEF SplitHeader, InHeader
    <2> USE DEF bufferVars, objectVars
    <2>2. /\ streamed \in Nat /\ unread \in 0..ChunkLen
          /\ mHeaderOffset \in Nat /\ unread <= streamed
      BY Lengths DEF FitInv, Kinds
    <2>3. copySize \in Nat /\ copySize <= unread
      BY <2>2, Lengths DEF copySize, Least
    <2>4. /\ unread' \in 0..ChunkLen /\ unread' <= streamed
          /\ mHeaderOffset' \in 0..HeaderLen - 1
      BY <2>1, <2>2, <2>3, Lengths
    <2>5. Kinds'
      BY <2>1, <2>4 DEF FitInv, Kinds, TotalLen
    <2>6. Position'
      <3>1. /\ image \in Nat /\ swallowed \in Nat
            /\ image # 0 => package[image].end \in Nat
        BY ImageFacts, Lengths DEF FitInv, Kinds
      <3> QED
        BY <2>1, <2>2, <2>3, <3>1 DEF FitInv, Position
    <2>7. AtRest' /\ Pushing' /\ InPacket'
      BY <2>1 DEF FitInv, AtRest, Pushing, InPacket, Sending, BeforePackage,
                  BeforeImage
    <2> QED
      BY <2>5, <2>6, <2>7 DEF FitInv
  <1>2. CASE SpoiltHeader
    <2>1. /\ UNCHANGED <<parseVars, bufferVars, objectVars>>
          /\ pc' = "end" /\ result' \in {"WRITE", "undefined"}
      BY <1>2 DEF SpoiltHeader, Stop
    <2>2. Kinds' /\ Position'
      BY <2>1 DEF FitInv, Kinds, Position, Places, TotalLen, Size, parseVars,
                  bufferVars, objectVars
    <2> QED
      BY <2>1, <2>2, StopKeeps DEF FitInv
  <1> QED
    BY <1>1, <1>2

LEMMA ManifestAnsweredKeeps ==
    ASSUME FitInv, ManifestAnswered
    PROVE  FitInv'
  <1>1. /\ UNCHANGED <<parseVars, bufferVars, mCurrentObjectOffset,
                        mIgnoreNextFirmware>>
        /\ pc \in BeforeImage
        /\ pc' \in BeforeImage \cup {"parse", "end"}
        /\ mRemainingFirmwareSize' = IF pc' = "parse" THEN Size ELSE 0
        /\ result' \in {result, "WRITE"}
    BY DEF ManifestAnswered, GoesOn, Stop, BeforeImage
  <1> USE DEF parseVars, bufferVars
  <1>2. /\ mCurrentState = "FIRMWARE" /\ mFirmwareOffset = 0 /\ toPush = 0
        /\ buffered = 0 /\ mCurrentObjectOffset = 0 /\ image # 0
    BY <1>1 DEF FitInv, AtRest, Position
  <1>3. Size \in Nat /\ Size > 0 /\ UNCHANGED Size /\ UNCHANGED TotalLen
    BY <1>1, <1>2, ImageFacts DEF FitInv, Kinds, Size, TotalLen
  <1>4. Kinds'
    <2>1. pc' \in Places
      BY <1>1 DEF Places, BeforeImage
    <2> QED
      BY <1>1, <1>3, <2>1 DEF FitInv, Kinds
  <1>5. Position'
    BY <1>1, <1>3 DEF FitInv, Position
  <1>6. AtRest'
    <2>1. Multiple(0) /\ ObjectLen > 0 /\ PacketLen > 0 /\ PacketLen \in Nat
      BY NoneIsMultiple, Lengths
    <2> QED
      BY <1>1, <1>2, <1>3, <2>1
         DEF AtRest, Between, Room, Outstanding, BeforeImage, BeforePackage
  <1>7. Pushing' /\ InPacket'
    BY <1>1 DEF Pushing, InPacket, Sending, BeforeImage
  <1> QED
    BY <1>4, <1>5, <1>6, <1>7 DEF FitInv

(* A full buffer with nothing behind it is the end of the image, or of the  *)
(* package: a chunk is longer than what was missing in the buffer.          *)
LEMMA OnFirmwareKeeps ==
    ASSUME FitInv, onFirmware
    PROVE  FitInv'
  <1> DEFINE piece == Least(Size - mFirmwareOffset, unread)
             copied == IF buffered = 0 THEN 0
                       ELSE Least(piece, PacketLen - buffered)
  <1>1. /\ pc = "parse" /\ unread # 0 /\ mCurrentState = "FIRMWARE"
        /\ mFirmwareOffset' = mFirmwareOffset + piece
        /\ unread' = unread - piece
        /\ UNCHANGED <<package, streamed, image, mCurrentState,
                        mHeaderOffset, swallowed, via, objectVars, result>>
        /\ \/ /\ mIgnoreNextFirmware
              /\ pc' = "pushed" /\ toPush' = 0 /\ UNCHANGED buffered
           \/ /\ ~mIgnoreNextFirmware
              /\ pc' = "push" /\ toPush' = piece - copied
              /\ buffered' = buffered + copied
    BY DEF onFirmware
  <1> USE DEF objectVars
  <1>2. /\ package \in Packages /\ image \in 1..Len(package)
        /\ streamed \in Nat /\ unread \in 1..ChunkLen /\ streamed <= TotalLen
        /\ unread <= streamed /\ mFirmwareOffset \in Nat
        /\ mFirmwareOffset < Size /\ buffered \in 0..PacketLen
        /\ buffered < PacketLen /\ toPush = 0
        /\ mRemainingFirmwareSize \in Nat
        /\ streamed - unread =
               package[image].end - Size + mFirmwareOffset + swallowed
        /\ swallowed \in Nat /\ mHeaderOffset = 0
        /\ buffered # 0 => unread = ChunkLen \/ streamed = TotalLen
        /\ Room
    <2>1. Len(package) \in Nat
      BY ImageFacts DEF FitInv, Kinds
    <2> QED
      BY <1>1, <2>1, Lengths DEF FitInv, Kinds, Position, AtRest, Between,
                                 Exhausted, WholeChunk
  <1>3. /\ Size \in Nat /\ UNCHANGED Size /\ UNCHANGED TotalLen
        /\ TotalLen \in Nat /\ package[image].end \in Nat
        /\ package[image].end <= TotalLen
    BY <1>1, <1>2, ImageFacts DEF Size, TotalLen
  <1>4. /\ piece \in Nat /\ piece > 0 /\ piece <= unread
        /\ piece <= Size - mFirmwareOffset
        /\ piece = unread \/ piece = Size - mFirmwareOffset
    BY <1>2, <1>3, Lengths DEF Least
  <1>5. /\ copied \in Nat /\ copied <= piece /\ buffered + copied <= PacketLen
        /\ copied = piece \/ buffered + copied \in {0, PacketLen}
        /\ buffered = 0 => copied = 0
    BY <1>2, <1>4, Lengths DEF Least
  <1> HIDE DEF piece, copied
  <1>6. buffered # 0 /\ piece = PacketLen - buffered =>
            piece = Size - mFirmwareOffset \/ (streamed = TotalLen /\ unread' = 0)
    <2> SUFFICES ASSUME buffered # 0, piece = PacketLen - buffered, piece = unread
                 PROVE  streamed = TotalLen /\ unread' = 0
      BY <1>4
    <2>1. unread' = 0
      BY <1>1, <1>2
    <2>2. unread < ChunkLen
      BY <1>2, Lengths
    <2> QED
      BY <1>2, <2>1, <2>2, Lengths
  <1>7. PieceTaken'
    BY <1>1, <1>2, <1>3, <1>4 DEF PieceTaken
  <1>8. Kinds'
    <2>1. pc' \in Places
      BY <1>1 DEF Places
    <2>2. /\ unread' \in 0..ChunkLen /\ unread' <= streamed'
          /\ mFirmwareOffset' \in Nat
      <3>1. unread \in 0..ChunkLen /\ piece \in 0..unread
        BY <1>2, <1>4, Lengths
      <3>2. /\ unread' = unread - piece /\ streamed' = streamed
            /\ mFirmwareOffset' = mFirmwareOffset + piece
        BY <1>1
      <3>3. ChunkLen \in Nat /\ streamed \in Nat /\ mFirmwareOffset \in Nat
            /\ unread <= streamed
        BY <1>2, Lengths
      <3> QED
        BY <3>1, <3>2, <3>3
    <2>3. toPush' \in 0..ChunkLen /\ buffered' \in 0..PacketLen
      BY <1>1, <1>2, <1>4, <1>5, Lengths
    <2> QED
      BY <1>1, <1>3, <2>1, <2>2, <2>3 DEF FitInv, Kinds
  <1>9. Position'
    <2>1. /\ mFirmwareOffset' <= Size' /\ image' # 0 /\ mHeaderOffset' = 0
          /\ mCurrentState' = "FIRMWARE"
      BY <1>1, <1>2, <1>3, <1>4
    <2>2. streamed' - unread' = streamed - unread + piece
      BY <1>1, <1>2, <1>4, Lengths
    <2>3. /\ mFirmwareOffset' = mFirmwareOffset + piece
          /\ package'[image'].end = package[image].end /\ Size' = Size
          /\ swallowed' = swallowed
      BY <1>1, <1>3
    <2>4. streamed' - unread' =
              package'[image'].end - Size' + mFirmwareOffset' + swallowed'
      <3> DEFINE end == package[image].end
      <3>1. end \in Nat /\ streamed - unread = end - Size + mFirmwareOffset + swallowed
        BY <1>2, <1>3
      <3>2. package'[image'].end = end
        BY <2>3
      <3> HIDE DEF end
      <3>3. streamed' - unread' = end - Size + (mFirmwareOffset + piece) + swallowed
        BY <1>2, <1>3, <1>4, <2>2, <3>1
      <3> QED
        BY <2>3, <3>2, <3>3
    <2> QED
      BY <2>1, <2>4 DEF Position
  <1>10. AtRest' /\ InPacket'
    BY <1>1 DEF AtRest, InPacket, Sending, BeforeImage, BeforePackage
  <1>11. Pushing'
    <2>1. CASE mIgnoreNextFirmware
      <3>1. Between'
        BY <1>1, <1>2, <2>1, Lengths
           DEF FitInv, AtRest, Between, Exhausted, Room, Outstanding
      <3> QED
        BY <1>1, <1>7, <2>1, <3>1 DEF Pushing
    <2>2. CASE ~mIgnoreNextFirmware
      <3>1. /\ pc' = "push" /\ toPush' = piece - copied
            /\ buffered' = buffered + copied
        BY <1>1, <2>2
      <3>2. mRemainingFirmwareSize >= buffered + Size - mFirmwareOffset
        BY <1>1, <1>2, <2>2 DEF FitInv, AtRest, Between, Exhausted, Outstanding
      <3>3. Outstanding(mRemainingFirmwareSize)'
        BY <1>1, <1>2, <1>3, <1>4, <1>5, <3>1, <3>2, Lengths DEF Outstanding
      <3>4. buffered' \in {0, PacketLen} \/ toPush' = 0
        BY <1>4, <1>5, <3>1
      <3>5. buffered' = PacketLen /\ toPush' = 0 =>
                mFirmwareOffset' = Size' \/ Exhausted'
        <4>1. buffered' = PacketLen /\ toPush' = 0 =>
                  piece = Size - mFirmwareOffset
                    \/ (streamed = TotalLen /\ unread' = 0)
          BY <1>2, <1>4, <1>5, <1>6, <3>1, Lengths
        <4> QED
          BY <1>1, <1>2, <1>3, <1>4, <4>1 DEF Exhausted
      <3> QED
        BY <1>1, <1>2, <1>7, <3>1, <3>3, <3>4, <3>5 DEF Pushing, Room
    <2> QED
      BY <2>1, <2>2
  <1> QED
    BY <1>8, <1>9, <1>10, <1>11 DEF FitInv

LEMMA PushBackKeeps ==
    ASSUME FitInv, pushBack
    PROVE  FitInv'
  <1>1. /\ pc = "push"
        /\ UNCHANGED <<parseVars, objectVars, result>>
        /\ \/ /\ buffered = PacketLen /\ pc' = "packet" /\ via' = "flush"
              /\ UNCHANGED <<buffered, toPush>>
           \/ /\ buffered < PacketLen /\ toPush >= PacketLen
              /\ pc' = "packet" /\ via' = "direct"
              /\ UNCHANGED <<buffered, toPush>>
           \/ /\ buffered < PacketLen /\ toPush < PacketLen
              /\ pc' = "pushed" /\ UNCHANGED via
              /\ buffered' = buffered + toPush /\ toPush' = 0
    BY DEF pushBack
  <1> USE DEF parseVars, objectVars
  <1>2. /\ mCurrentState = "FIRMWARE" /\ PieceTaken /\ Room
        /\ Outstanding(mRemainingFirmwareSize)
        /\ buffered \in {0, PacketLen} \/ toPush = 0
        /\ buffered = PacketLen /\ toPush = 0 => mFirmwareOffset = Size \/ Exhausted
        /\ buffered \in 0..PacketLen /\ toPush \in 0..ChunkLen
        /\ mRemainingFirmwareSize \in Nat /\ mFirmwareOffset \in Nat
    BY <1>1 DEF FitInv, Kinds, Pushing
  <1>3. UNCHANGED <<Size, TotalLen>> /\ Size \in Nat
    <2>1. image # 0 /\ package \in Packages /\ image \in 0..Len(package)
      BY <1>2 DEF FitInv, Kinds, Position
    <2> QED
      BY <1>1, <2>1, ImageFacts DEF Size, TotalLen
  <1>4. PieceTaken' /\ Room' /\ (Exhausted => Exhausted')
    BY <1>1, <1>2, <1>3 DEF PieceTaken, Room, Exhausted
  <1>5. Kinds'
    <2>1. pc' \in Places
      BY <1>1 DEF Places
    <2>2. /\ buffered' \in 0..PacketLen /\ toPush' \in 0..ChunkLen
          /\ via' \in {"flush", "direct", "partial"}
      BY <1>1, <1>2, Lengths DEF FitInv, Kinds
    <2> QED
      BY <1>1, <1>3, <2>1, <2>2 DEF FitInv, Kinds
  <1>6. Position'
    BY <1>1, <1>3 DEF FitInv, Position
  <1>7. AtRest'
    BY <1>1 DEF AtRest, BeforeImage, BeforePackage
  <1>8. Outstanding(mRemainingFirmwareSize)'
    BY <1>1, <1>2, <1>3, Lengths DEF Outstanding
  <1>9. Pushing'
    <2>1. pc' = "pushed" => Between'
      BY <1>1, <1>2, <1>4, <1>8, Lengths DEF Between
    <2> QED
      BY <1>1, <1>2, <1>4, <2>1 DEF Pushing
  <1>10. InPacket'
    <2>1. CASE pc' = "pushed"
      BY <2>1 DEF InPacket, Sending
    <2>2. CASE pc' = "packet"
      <3>1. /\ mCurrentState' = "FIRMWARE" /\ via' # "partial"
            /\ via' = "flush" =>
                   /\ buffered' = PacketLen
                   /\ toPush' = 0 => mFirmwareOffset' = Size' \/ Exhausted'
            /\ via' = "direct" => buffered' = 0 /\ toPush' >= PacketLen
        BY <1>1, <1>2, <1>3, <1>4, <2>2, Lengths
      <3>2. PacketSize' = PacketLen
        BY <3>1 DEF PacketSize
      <3>3. mRemainingFirmwareSize' >= PacketSize'
        BY <1>1, <1>2, <1>8, <2>2, <3>1, <3>2, Lengths DEF Outstanding
      <3> QED
        BY <1>4, <1>8, <2>2, <3>1, <3>3 DEF InPacket
    <2> QED
      BY <1>1, <2>1, <2>2
  <1> QED
    BY <1>5, <1>6, <1>7, <1>9, <1>10 DEF FitInv

LEMMA FirmwareTakenKeeps ==
    ASSUME FitInv, FirmwareTaken
    PROVE  FitInv'
  <1>1. /\ pc = "pushed" /\ toPush' = 0
        /\ UNCHANGED <<package, streamed, unread, image, mHeaderOffset,
                        swallowed, buffered, objectVars>>
        /\ \/ /\ mFirmwareOffset < Size /\ toPush = 0 /\ pc' = "parse"
              /\ UNCHANGED <<mCurrentState, mFirmwareOffset, via, result>>
           \/ /\ mFirmwareOffset < Size /\ toPush # 0 /\ pc' = "end"
              /\ UNCHANGED <<mCurrentState, mFirmwareOffset, via>>
              /\ result' = "WRITE"
           \/ /\ mFirmwareOffset = Size
              /\ mCurrentState' = "END" /\ mFirmwareOffset' = 0
              /\ \/ buffered = 0 /\ pc' = "parse" /\ UNCHANGED via
                 \/ buffered # 0 /\ pc' = "packet" /\ via' = "partial"
              /\ UNCHANGED result
    BY DEF FirmwareTaken, Stop
  <1> USE DEF objectVars
  <1>2. /\ mCurrentState = "FIRMWARE" /\ PieceTaken
        /\ \/ Between
           \/ /\ buffered = 0
              /\ toPush # 0 \/ mFirmwareOffset = Size \/ Exhausted
        /\ buffered \in 0..PacketLen
        /\ streamed - unread =
               package[image].end - Size + mFirmwareOffset + swallowed
        /\ swallowed \in Nat /\ mHeaderOffset = 0
        /\ image # 0
    BY <1>1 DEF FitInv, Kinds, Pushing, Position
  <1>3. UNCHANGED <<Size, TotalLen>> /\ Size \in Nat /\ package[image].end \in Nat
    BY <1>1, <1>2, ImageFacts DEF FitInv, Kinds, Size, TotalLen
  <1>4. Kinds'
    <2>1. pc' \in Places
      BY <1>1 DEF Places
    <2>2. /\ mCurrentState' \in {"HEADER", "FIRMWARE", "END"}
          /\ mFirmwareOffset' \in Nat /\ toPush' \in 0..ChunkLen
          /\ via' \in {"flush", "direct", "partial"}
          /\ result' \in {"none", "SUCCESS", "WRITE", "UNEXPECTED", "undefined"}
      BY <1>1, Lengths DEF FitInv, Kinds
    <2> QED
      BY <1>1, <1>3, <2>1, <2>2 DEF FitInv, Kinds
  <1>5. Position'
    BY <1>1, <1>2, <1>3 DEF FitInv, Kinds, Position
  <1>6. pc' = "parse" /\ mCurrentState' = "FIRMWARE" =>
            (Between' \/ Exhausted')
            /\ mFirmwareOffset' < Size' /\ unread' = 0
    BY <1>1, <1>2, <1>3 DEF Between, Exhausted, Room, Outstanding, PieceTaken
  <1>7. AtRest'
    <2>1. toPush' = 0 /\ pc' \in {"parse", "end", "packet"}
      BY <1>1
    <2> QED
      BY <1>6, <2>1 DEF AtRest, BeforeImage, BeforePackage
  <1>8. Pushing'
    BY <1>1 DEF Pushing
  <1>9. InPacket'
    <2>1. CASE pc' # "packet"
      BY <1>1, <2>1 DEF InPacket, Sending
    <2>2. CASE pc' = "packet"
      <3>1. /\ via' = "partial" /\ mCurrentState' = "END" /\ toPush' = 0
            /\ buffered' # 0 /\ Between
        BY <1>1, <1>2, <2>2
      <3>2. PacketSize' = buffered
        BY <1>1, <3>1 DEF PacketSize
      <3>3. mRemainingFirmwareSize' >= PacketSize'
        BY <1>1, <1>2, <3>1, <3>2 DEF FitInv, Kinds, Between, Outstanding
      <3>4. Room'
        BY <1>1, <3>1 DEF Between, Room
      <3> QED
        BY <2>2, <3>1, <3>3, <3>4 DEF InPacket
    <2> QED
      BY <2>1, <2>2
  <1> QED
    BY <1>4, <1>5, <1>7, <1>8, <1>9 DEF FitInv

-----------------------------------------------------------------------------
(* A packet, from _bufferFull to its answer.                               *)

(* The packet fits the object, and leaves room for whole ones.             *)
LEMMA PacketFits ==
    ASSUME FitInv, pc \in {"packet", "create"}
    PROVE  /\ PacketSize \in Nat /\ PacketSize > 0
           /\ mCurrentObjectOffset + PacketSize \in 0..ObjectLen
           /\ via # "partial" => Multiple(mCurrentObjectOffset + PacketSize)
           /\ mRemainingFirmwareSize - PacketSize \in Nat
  <1>1. Room
    BY NoneIsMultiple, Lengths DEF FitInv, InPacket, Sending, Room
  <1>2. mCurrentObjectOffset \in Nat /\ mRemainingFirmwareSize \in Nat
    BY Lengths DEF FitInv, Kinds
  <1>3. /\ mCurrentObjectOffset + PacketLen <= ObjectLen
        /\ Multiple(mCurrentObjectOffset + PacketLen)
    BY <1>1, <1>2, RoomForPacket DEF Room
  <1>4. /\ PacketSize \in 1..PacketLen
        /\ via # "partial" => PacketSize = PacketLen
    BY Lengths DEF FitInv, Kinds, InPacket, Sending, PacketSize
  <1>5. mRemainingFirmwareSize >= PacketSize
    BY DEF FitInv, InPacket, Sending
  <1> QED
    BY <1>2, <1>3, <1>4, <1>5, Lengths

LEMMA WritePacketKeeps ==
    ASSUME FitInv, pc \in {"packet", "create"}, WritePacket,
           UNCHANGED <<parseVars, bufferVars, mIgnoreNextFirmware, result>>
    PROVE  FitInv'
  <1>1. /\ mRemainingFirmwareSize' = mRemainingFirmwareSize - PacketSize
        /\ mCurrentObjectOffset' = mCurrentObjectOffset + PacketSize
        /\ pc' = "write"
        /\ UNCHANGED <<parseVars, bufferVars, mIgnoreNextFirmware, result>>
    BY DEF WritePacket
  <1> USE DEF parseVars, bufferVars
  <1>2. UNCHANGED <<Size, TotalLen, PacketSize>>
    BY <1>1 DEF Size, TotalLen, PacketSize
  <1>3. Kinds'
    <2>1. pc' \in Places
      BY <1>1 DEF Places
    <2> QED
      BY <1>1, <1>2, <2>1, PacketFits DEF FitInv, Kinds
  <1>4. Position'
    BY <1>1, <1>2 DEF FitInv, Position
  <1>5. AtRest' /\ Pushing'
    BY <1>1 DEF AtRest, Pushing, BeforeImage, BeforePackage
  <1>6. InPacket'
    <2>1. mRemainingFirmwareSize' + PacketSize' = mRemainingFirmwareSize
      BY <1>1, <1>2, PacketFits DEF FitInv, Kinds
    <2>2. via' # "partial" => Multiple(mCurrentObjectOffset')
      BY <1>1, PacketFits
    <2>3. via' # "partial" => Outstanding(mRemainingFirmwareSize + PacketSize)'
      BY <1>1, <1>2, <2>1 DEF FitInv, InPacket, Sending, Outstanding
    <2> QED
      BY <1>1, <1>2, <2>2, <2>3 DEF FitInv, InPacket, Sending, PieceTaken,
                                    Exhausted, Multiple, Outstanding
  <1> QED
    BY <1>3, <1>4, <1>5, <1>6 DEF FitInv

LEMMA BufferFullKeeps ==
    ASSUME FitInv, _bufferFull
    PROVE  FitInv'
  <1>1. pc = "packet" /\ UNCHANGED <<parseVars, bufferVars>>
    BY DEF _bufferFull
  <1>2. mCurrentObjectOffset + PacketSize <= ObjectLen
    BY <1>1, PacketFits, Lengths
  <1>3. CASE mCurrentObjectOffset = 0
    <2>1. /\ UNCHANGED <<parseVars, bufferVars, objectVars, result>>
          /\ pc' = "create"
      <3>1. PacketSize \in Nat /\ mCurrentObjectOffset \in Nat
        BY <1>1, PacketFits, Lengths DEF FitInv, Kinds
      <3>2. ~(mCurrentObjectOffset + PacketSize > ObjectLen)
        BY <1>2, <3>1, Lengths
      <3> QED
        BY <1>1, <1>3, <3>2 DEF _bufferFull
    <2> USE DEF parseVars, bufferVars, objectVars
    <2>2. UNCHANGED <<Size, TotalLen, PacketSize>>
      BY <2>1 DEF Size, TotalLen, PacketSize
    <2>3. Kinds' /\ Position'
      <3>1. pc' \in Places
        BY <2>1 DEF Places
      <3> QED
        BY <2>1, <2>2, <3>1 DEF FitInv, Kinds, Position
    <2>4. AtRest' /\ Pushing'
      BY <2>1 DEF AtRest, Pushing, BeforeImage, BeforePackage
    <2>5. InPacket'
      BY <1>1, <1>3, <2>1, <2>2 DEF FitInv, InPacket, Sending, PieceTaken,
                                         Exhausted, Outstanding
    <2> QED
      BY <2>3, <2>4, <2>5 DEF FitInv
  <1>4. CASE mCurrentObjectOffset # 0
    <2>1. PacketSize \in Nat /\ mCurrentObjectOffset \in Nat
      BY <1>1, PacketFits, Lengths DEF FitInv, Kinds
    <2>2. ~(mCurrentObjectOffset + PacketSize > ObjectLen)
      BY <1>2, <2>1, Lengths
    <2>3. WritePacket /\ UNCHANGED <<mIgnoreNextFirmware, result>>
      BY <1>4, <2>2 DEF _bufferFull
    <2> QED
      BY <1>1, <2>3, WritePacketKeeps
  <1> QED
    BY <1>3, <1>4

(* What a packet needs of the state to be done. *)
Answered ==
    /\ UNCHANGED <<mCurrentObjectOffset, mRemainingFirmwareSize>>
    /\ mIgnoreNextFirmware' \in BOOLEAN
    /\ mIgnoreNextFirmware => mIgnoreNextFirmware'

LEMMA PacketTaken ==
    ASSUME FitInv, pc \in {"write", "execute"}, PacketDone(TRUE), Answered,
           via # "partial" => Room
    PROVE  FitInv'
  <1>1. /\ buffered' = IF via = "direct" THEN buffered ELSE 0
        /\ toPush' = IF via = "direct" THEN toPush - PacketLen ELSE toPush
        /\ pc' = IF via = "partial" THEN "parse" ELSE "push"
        /\ UNCHANGED <<parseVars, via, result>>
    BY DEF PacketDone
  <1>2. /\ UNCHANGED <<mCurrentObjectOffset, mRemainingFirmwareSize>>
        /\ mIgnoreNextFirmware' \in BOOLEAN
        /\ mIgnoreNextFirmware => mIgnoreNextFirmware'
    BY DEF Answered
  <1> USE DEF parseVars
  <1>3. /\ via = "partial" =>
               mCurrentState = "END" /\ toPush = 0 /\ buffered # 0
        /\ via # "partial" => mCurrentState = "FIRMWARE" /\ PieceTaken
        /\ via = "flush" => buffered = PacketLen
        /\ via = "direct" => buffered = 0 /\ toPush >= PacketLen
        /\ via # "partial" => Outstanding(mRemainingFirmwareSize + PacketLen)
        /\ buffered \in 0..PacketLen /\ toPush \in 0..ChunkLen
        /\ via \in {"flush", "direct", "partial"}
        /\ mRemainingFirmwareSize \in Nat
    BY DEF FitInv, Kinds, InPacket, Sending, PacketSize
  <1>4. UNCHANGED <<Size, TotalLen>> /\ Size \in Nat /\ mFirmwareOffset \in Nat
    <2>1. image # 0 /\ package \in Packages /\ image \in 0..Len(package)
      BY <1>3 DEF FitInv, Kinds, Position
    <2>2. mFirmwareOffset \in Nat
      BY DEF FitInv, Kinds
    <2> QED
      BY <1>1, <2>1, <2>2, ImageFacts DEF Size, TotalLen
  <1>5. Kinds'
    <2>1. pc' \in Places
      BY <1>1 DEF Places
    <2>2. buffered' \in 0..PacketLen /\ toPush' \in 0..ChunkLen
      BY <1>1, <1>3, Lengths
    <2> QED
      BY <1>1, <1>2, <1>4, <2>1, <2>2 DEF FitInv, Kinds
  <1>6. Position'
    BY <1>1, <1>4 DEF FitInv, Position
  <1>7. AtRest'
    <2>1. pc' \in {"parse", "push"}
      BY <1>1
    <2>2. pc' = "parse" => toPush' = 0 /\ mCurrentState' = "END"
      BY <1>1, <1>3
    <2> QED
      BY <2>1, <2>2 DEF AtRest, BeforeImage, BeforePackage
  <1>8. Pushing'
    <2>1. CASE via = "partial"
      BY <1>1, <2>1 DEF Pushing
    <2>2. CASE via # "partial"
      <3>1. pc' = "push" /\ mCurrentState' = "FIRMWARE" /\ buffered' = 0
        BY <1>1, <1>3, <2>2
      <3>2. PieceTaken' /\ Room'
        BY <1>1, <1>2, <1>3, <1>4, <2>2 DEF PieceTaken, Room, Multiple
      <3>3. toPush' = buffered + toPush - PacketLen
        BY <1>1, <1>3, <2>2, Lengths
      <3>4. toPush' \in Nat
        BY <1>1, <1>3, <2>2, Lengths
      <3>0. /\ PacketLen \in Nat /\ buffered' \in Nat
            /\ buffered \in Nat /\ toPush \in Nat
            /\ mRemainingFirmwareSize \in Nat
        BY <1>3, <3>1, Lengths
      <3>5. mRemainingFirmwareSize >= buffered' + toPush'
        <4>1. mRemainingFirmwareSize + PacketLen >= buffered + toPush
          BY <1>3, <2>2 DEF Outstanding
        <4> QED
          BY <3>0, <3>1, <3>3, <4>1
      <3>6. ~mIgnoreNextFirmware' =>
                mRemainingFirmwareSize >= buffered' + toPush' + Size - mFirmwareOffset
        <4> SUFFICES ASSUME ~mIgnoreNextFirmware'
                     PROVE  mRemainingFirmwareSize
                                >= buffered' + toPush' + Size - mFirmwareOffset
          OBVIOUS
        <4>1. ~mIgnoreNextFirmware
          BY <1>2
        <4>2. mRemainingFirmwareSize + PacketLen
                  >= buffered + toPush + Size - mFirmwareOffset
          BY <1>3, <2>2, <4>1 DEF Outstanding
        <4> QED
          BY <1>4, <3>0, <3>1, <3>3, <4>2
      <3>7. Outstanding(mRemainingFirmwareSize)'
        BY <1>1, <1>2, <1>4, <3>5, <3>6 DEF Outstanding
      <3>8. buffered' # PacketLen
        BY <3>1, Lengths
      <3> QED
        BY <3>1, <3>2, <3>7, <3>8 DEF Pushing
    <2> QED
      BY <2>1, <2>2
  <1>9. InPacket'
    BY <1>1 DEF InPacket, Sending
  <1> QED
    BY <1>5, <1>6, <1>7, <1>8, <1>9 DEF FitInv

(* A packet that failed leaves bytes to push, or ends its image.           *)
LEMMA PacketFailed ==
    ASSUME FitInv, pc \in Sending \ {"packet"}, PacketDone(FALSE), Answered
    PROVE  FitInv'
  <1>1. /\ buffered' = IF via = "direct" THEN buffered ELSE 0
        /\ UNCHANGED <<parseVars, via, toPush>>
        /\ \/ via # "partial" /\ pc' = "pushed" /\ UNCHANGED result
           \/ via = "partial" /\ pc' = "end" /\ result' = "WRITE"
    BY DEF PacketDone, Stop
  <1>2. /\ UNCHANGED <<mCurrentObjectOffset, mRemainingFirmwareSize>>
        /\ mIgnoreNextFirmware' \in BOOLEAN
    BY DEF Answered
  <1> USE DEF parseVars
  <1>3. /\ via # "partial" => mCurrentState = "FIRMWARE" /\ PieceTaken
        /\ via = "flush" => (toPush = 0 => mFirmwareOffset = Size \/ Exhausted)
        /\ via = "direct" => buffered = 0 /\ toPush >= PacketLen
        /\ via \in {"flush", "direct", "partial"}
        /\ toPush \in 0..ChunkLen
    BY DEF FitInv, Kinds, InPacket, Sending
  <1>4. UNCHANGED <<Size, TotalLen, Exhausted>>
    BY <1>1 DEF Size, TotalLen, Exhausted
  <1>5. Kinds'
    <2>1. pc' \in Places /\ result' \in {"none", "SUCCESS", "WRITE", "UNEXPECTED", "undefined"}
      BY <1>1 DEF FitInv, Kinds, Places
    <2>2. buffered' \in 0..PacketLen
      BY <1>1, Lengths DEF FitInv, Kinds
    <2> QED
      BY <1>1, <1>2, <1>4, <2>1, <2>2 DEF FitInv, Kinds
  <1>6. Position'
    BY <1>1, <1>4 DEF FitInv, Position
  <1>7. CASE via = "partial"
    <2>1. pc' = "end"
      BY <1>1, <1>7
    <2> QED
      BY <1>5, <1>6, <2>1, StopKeeps DEF FitInv
  <1>8. CASE via # "partial"
    <2>1. /\ pc' = "pushed" /\ mCurrentState' = "FIRMWARE" /\ buffered' = 0
          /\ toPush' # 0 \/ mFirmwareOffset' = Size' \/ Exhausted'
      BY <1>1, <1>3, <1>4, <1>8, Lengths
    <2>2. PieceTaken'
      BY <1>1, <1>3, <1>4, <1>8 DEF PieceTaken
    <2>3. Pushing'
      BY <2>1, <2>2 DEF Pushing
    <2>4. AtRest' /\ InPacket'
      BY <2>1 DEF AtRest, InPacket, Sending, BeforeImage, BeforePackage
    <2> QED
      BY <1>5, <1>6, <2>3, <2>4 DEF FitInv
  <1> QED
    BY <1>7, <1>8

LEMMA CreateAnsweredKeeps ==
    ASSUME FitInv, CreateAnswered
    PROVE  FitInv'
  <1>1. pc = "create"
    BY DEF CreateAnswered, GoesOn
  <1>2. CASE WritePacket /\ UNCHANGED <<parseVars, bufferVars, mIgnoreNextFirmware, result>>
    BY <1>1, <1>2, WritePacketKeeps
  <1>3. CASE PacketDone(FALSE) /\ UNCHANGED objectVars
    <2>1. mIgnoreNextFirmware \in BOOLEAN
      BY DEF FitInv, Kinds
    <2>2. Answered
      BY <1>3, <2>1 DEF Answered, objectVars
    <2> QED
      BY <1>1, <1>3, <2>2, PacketFailed DEF Sending
  <1> QED
    BY <1>2, <1>3 DEF CreateAnswered

LEMMA WriteAnsweredKeeps ==
    ASSUME FitInv, WriteAnswered
    PROVE  FitInv'
  <1> DEFINE acknowledged ==
                 Succeeded /\ answer.offset = Size - mRemainingFirmwareSize
             complete ==
                 mCurrentObjectOffset = ObjectLen \/ mRemainingFirmwareSize = 0
  <1>1. pc = "write"
    BY DEF WriteAnswered, GoesOn
  <1>2. \/ /\ mCurrentObjectOffset' = 0 /\ pc' = "execute"
           /\ UNCHANGED <<parseVars, bufferVars, mRemainingFirmwareSize,
                          mIgnoreNextFirmware, result>>
        \/ /\ ~(acknowledged /\ complete)
           /\ PacketDone(acknowledged) /\ UNCHANGED objectVars
    BY DEF WriteAnswered
  <1>3. CASE /\ mCurrentObjectOffset' = 0 /\ pc' = "execute"
             /\ UNCHANGED <<parseVars, bufferVars, mRemainingFirmwareSize,
                            mIgnoreNextFirmware, result>>
    <2> USE DEF parseVars, bufferVars
    <2>1. UNCHANGED <<Size, TotalLen, PacketSize>>
      BY <1>3 DEF Size, TotalLen, PacketSize
    <2>2. Kinds' /\ Position'
      <3>1. pc' \in Places
        BY <1>3 DEF Places
      <3> QED
        BY <1>3, <2>1, <3>1, Lengths DEF FitInv, Kinds, Position
    <2>3. AtRest' /\ Pushing'
      BY <1>3 DEF AtRest, Pushing, BeforeImage, BeforePackage
    <2>4. InPacket'
      BY <1>1, <1>3, <2>1 DEF FitInv, InPacket, Sending, PieceTaken,
                                         Exhausted, Outstanding
    <2> QED
      BY <2>2, <2>3, <2>4 DEF FitInv
  <1>4. CASE /\ ~(acknowledged /\ complete)
             /\ PacketDone(acknowledged) /\ UNCHANGED objectVars
    <2>1. mIgnoreNextFirmware \in BOOLEAN
      BY DEF FitInv, Kinds
    <2>2. Answered
      BY <1>4, <2>1 DEF Answered, objectVars
    <2>3. CASE acknowledged
      <3>1. PacketDone(TRUE)
        BY <1>4, <2>3 DEF PacketDone
      <3>2. mCurrentObjectOffset # ObjectLen
        BY <1>4, <2>3
      <3>3. via # "partial" => Room
        BY <1>1, <3>2, Lengths DEF FitInv, Kinds, InPacket, Sending, Room
      <3> QED
        BY <1>1, <2>2, <3>1, <3>3, PacketTaken
    <2>4. CASE ~acknowledged
      <3>1. PacketDone(FALSE)
        BY <1>4, <2>4 DEF PacketDone
      <3> QED
        BY <1>1, <2>2, <3>1, PacketFailed DEF Sending
    <2> QED
      BY <2>3, <2>4
  <1> QED
    BY <1>2, <1>3, <1>4

LEMMA ExecuteKeeps ==
    ASSUME FitInv, execute
    PROVE  FitInv'
  <1> DEFINE taken == answer.code \in {"SUCCESS", "FW_VERSION_FAILURE"}
  <1>1. /\ pc = "execute"
        /\ PacketDone(taken)
        /\ UNCHANGED <<mCurrentObjectOffset, mRemainingFirmwareSize>>
    BY DEF execute, GoesOn
  <1>2. Answered
    <2>1. mIgnoreNextFirmware \in BOOLEAN
      BY DEF FitInv, Kinds
    <2>2. mIgnoreNextFirmware' =
              (mIgnoreNextFirmware \/ answer.code = "FW_VERSION_FAILURE")
      BY DEF execute
    <2>3. mIgnoreNextFirmware' \in BOOLEAN
      BY <2>2
    <2>4. mIgnoreNextFirmware => mIgnoreNextFirmware'
      BY <2>2
    <2> QED
      BY <1>1, <2>3, <2>4 DEF Answered
  <1>3. Room
    BY <1>1, NoneIsMultiple, Lengths DEF FitInv, InPacket, Sending, Room
  <1>4. CASE taken
    <2>1. PacketDone(TRUE)
      BY <1>1, <1>4 DEF PacketDone
    <2> QED
      BY <1>1, <1>2, <1>3, <2>1, PacketTaken
  <1>5. CASE ~taken
    <2>1. PacketDone(FALSE)
      BY <1>1, <1>5 DEF PacketDone
    <2> QED
      BY <1>1, <1>2, <2>1, PacketFailed DEF Sending
  <1> QED
    BY <1>4, <1>5

-----------------------------------------------------------------------------

LEMMA FitStep ==
    ASSUME FitInv, [Next]_vars
    PROVE  FitInv'
  <1> USE DEF fitVars
  <1>1. CASE \/ receive \/ receiveTimesOut \/ notification
             \/ ChipEntersDfu \/ ChipFallsSilent
    <2>1. UNCHANGED fitVars
      BY <1>1 DEF receive, receiveTimesOut, notification, ChipEntersDfu,
                  ChipFallsSilent, updateVars
    <2> QED
      BY <2>1, FitStutters
  <1>2. CASE UNCHANGED vars
    BY <1>2, FitStutters DEF vars, updateVars
  <1>3. CASE enterDfu \/ forceDfu \/ waitEnteredDfu \/ initUpdate
    BY <1>3, InitUpdateKeeps
  <1>4. CASE writeFirmware \/ EndChunk \/ NextHeader
    BY <1>4, WriteFirmwareKeeps, ChunkKeeps
  <1>5. CASE ReadHeader \/ SplitHeader \/ SpoiltHeader \/ ManifestAnswered
    BY <1>5, ReadHeaderKeeps, OddHeaderKeeps, ManifestAnsweredKeeps
  <1>6. CASE onFirmware \/ pushBack \/ FirmwareTaken
    BY <1>6, OnFirmwareKeeps, PushBackKeeps, FirmwareTakenKeeps
  <1>7. CASE _bufferFull \/ CreateAnswered \/ WriteAnswered \/ execute
    BY <1>7, BufferFullKeeps, CreateAnsweredKeeps, WriteAnsweredKeeps, ExecuteKeeps
  <1> QED
    BY <1>1, <1>2, <1>3, <1>4, <1>5, <1>6, <1>7 DEF Next, UpdateTask

(* A command is sent at most NbTries times.                                *)
LEMMA TriesCounted ==
    ASSUME nbRetry \in 0..NbTries, [Next]_vars
    PROVE  nbRetry' \in 0..NbTries
  <1>1. \/ nbRetry' \in {nbRetry, NbTries, 0}
        \/ nbRetry > 1 /\ nbRetry' = nbRetry - 1
    <2> USE DEF callVars, Ask, Stop
    <2>1. CASE enterDfu \/ forceDfu \/ waitEnteredDfu \/ initUpdate
      BY <2>1 DEF enterDfu, forceDfu, OrderDfu, waitEnteredDfu, initUpdate
    <2>2. CASE receive \/ receiveTimesOut
      BY <2>2 DEF receive, receiveTimesOut, tryAgain
    <2>3. CASE writeFirmware \/ EndChunk \/ NextHeader
      BY <2>3 DEF writeFirmware, EndChunk, NextHeader
    <2>4. CASE ReadHeader \/ SplitHeader \/ SpoiltHeader \/ ManifestAnswered
      BY <2>4 DEF ReadHeader, SplitHeader, SpoiltHeader, onManifest,
                  ManifestAnswered
    <2>5. CASE onFirmware \/ pushBack \/ FirmwareTaken
      BY <2>5 DEF onFirmware, pushBack, FirmwareTaken
    <2>6. CASE _bufferFull \/ CreateAnswered \/ WriteAnswered \/ execute
      BY <2>6 DEF _bufferFull, CreateAnswered, WriteAnswered, execute,
                  WritePacket, PacketDone
    <2>7. CASE notification \/ ChipEntersDfu \/ ChipFallsSilent \/ UNCHANGED vars
      BY <2>7 DEF notification, ChipEntersDfu, ChipFallsSilent, updateVars, vars
    <2> QED
      BY <2>1, <2>2, <2>3, <2>4, <2>5, <2>6, <2>7 DEF Next, UpdateTask
  <1> QED
    BY <1>1, Lengths

(* The state stays within its types, and a packet always fits the object it *)
(* is sent in, for every package and every length of packet, chunk and     *)
(* object, also after packets that failed (NRFFirmwareUpdate.cpp:413).     *)
THEOREM PacketsFit == Spec => []NrfUpdateTypeOK /\ []PacketFitsObject
  <1>1. Init => FitInv /\ nbRetry \in 0..NbTries
    <2>1. Init => nbRetry \in 0..NbTries
      BY Lengths DEF Init
    <2> QED
      BY <2>1, FitStart
  <1>2. FitInv /\ nbRetry \in 0..NbTries /\ [Next]_vars
            => FitInv' /\ (nbRetry \in 0..NbTries)'
    BY FitStep, TriesCounted
  <1>3. FitInv /\ nbRetry \in 0..NbTries => NrfUpdateTypeOK /\ PacketFitsObject
    <2> SUFFICES ASSUME FitInv, nbRetry \in 0..NbTries
                 PROVE  NrfUpdateTypeOK /\ PacketFitsObject
      OBVIOUS
    <2>1. package \in Packages /\ streamed \in Nat /\ streamed <= TotalLen
      BY DEF FitInv, Kinds
    <2>2. TotalLen \in Nat
      BY <2>1, ImageFacts
    <2>3. streamed \in 0..TotalLen
      BY <2>1, <2>2
    <2> QED
      BY <2>3 DEF FitInv, Kinds, NrfUpdateTypeOK, PacketFitsObject
  <1> QED
    BY <1>1, <1>2, <1>3, PTL DEF Spec

-----------------------------------------------------------------------------
(* The replies on their way.  A command is answered before the next one is *)
(* sent, or is given up; what comes late is then in front of the answers   *)
(* to the next, so that a reply that is accepted is never another's, but   *)
(* for the two first commands of a DATA image after an INIT image that was *)
(* not even created.                                                       *)

PlainCommand == {"PING", "MTU", "PRN", "SELECT", "EXECUTE"}

AskedType ==
    [command : {"NONE"} \cup PlainCommand]
    \cup [command : {"CREATE"}, type : ImageType, image : Nat, size : Nat]
    \cup [command : {"WRITE"}, image : Nat, from : Int, size : Nat]

ReplyType ==
    [command : {"CREATE", "WRITE", "CALCULATE_CHECKSUM"} \cup PlainCommand,
     code : Code, offset : Nat]

ChipType ==
    [mode : {"application", "restarting", "dfu", "silent"},
     type : ImageType, image : Nat, object : Nat, offset : Nat,
     inOrder : BOOLEAN, executed : Nat, sound : BOOLEAN, expects : Nat,
     installed : SUBSET Nat]

ChannelTypeOK ==
    /\ asked \in AskedType
    /\ chip \in ChipType
    /\ mDfuPacketQueue \in Seq(ReplyType)
    /\ replies \in Seq(ReplyType)
    /\ late \in Nat /\ lost \in Nat
    /\ older \subseteq {i \in 1..Len(package) : package[i].type = "FIRMWARE_INIT"}

Arrived == {mDfuPacketQueue[k] : k \in 1..Len(mDfuPacketQueue)}

OnTheWay == {replies[k] : k \in 1..Len(replies)}

InChannel == Arrived \cup OnTheWay

Only(C) == \A r \in InChannel : r.command \in C

Without(C) == \A r \in InChannel : r.command \notin C

Ordered(s, C) ==
    \A k, l \in 1..Len(s) : k <= l /\ s[k].command \in C => s[l].command \in C

(* Behind a reply to one of the commands C there are only replies to them. *)
Behind(C) ==
    /\ Ordered(mDfuPacketQueue, C) /\ Ordered(replies, C)
    /\ (\E r \in Arrived : r.command \in C) =>
           \A r \in OnTheWay : r.command \in C

(* The chip answers a packet with a checksum, or with an error.            *)
Answers ==
    IF asked.command = "WRITE" THEN {"CALCULATE_CHECKSUM", "WRITE"}
    ELSE {asked.command}

LEMMA BehindFromOnly ==
    ASSUME NEW C, Only(C)
    PROVE  Behind(C)
  BY DEF Only, Behind, Ordered, InChannel, Arrived, OnTheWay

LEMMA BehindFromWithout ==
    ASSUME NEW C, Without(C)
    PROVE  Behind(C)
  BY DEF Without, Behind, Ordered, InChannel, Arrived, OnTheWay

(* What is sent: a reply more, or none.                                    *)
LEMMA SendAppends ==
    ASSUME replies \in Seq(ReplyType), NEW cmd, ReplyTo(cmd) \in ReplyType,
           send(cmd)
    PROVE  /\ mDfuPacketQueue' = << >>
           /\ replies' \in Seq(ReplyType)
           /\ InChannel' \subseteq InChannel \cup {ReplyTo(cmd)}
           /\ \A C : ReplyTo(cmd).command \in C /\ Behind(C) => Behind(C)'
  <1>1. mDfuPacketQueue' = << >>
    BY DEF send
  <1>2. replies' = replies \/ replies' = Append(replies, ReplyTo(cmd))
    BY DEF send
  <1>3. /\ replies' \in Seq(ReplyType)
        /\ Len(replies) \in Nat
        /\ Len(replies') \in {Len(replies), Len(replies) + 1}
        /\ \A k \in 1..Len(replies) : replies'[k] = replies[k]
        /\ Len(replies') = Len(replies) + 1 =>
               replies'[Len(replies) + 1] = ReplyTo(cmd)
    BY <1>2, AppendProperties
  <1>4. Arrived' = {}
    BY <1>1 DEF Arrived
  <1>5. OnTheWay' \subseteq OnTheWay \cup {ReplyTo(cmd)}
    BY <1>3 DEF OnTheWay
  <1>6. ASSUME NEW C, ReplyTo(cmd).command \in C, Behind(C)
        PROVE  Behind(C)'
    <2>1. Ordered(replies', C)
      <3> SUFFICES ASSUME NEW k \in 1..Len(replies'), NEW l \in 1..Len(replies'),
                          k <= l, replies'[k].command \in C
                   PROVE  replies'[l].command \in C
        BY DEF Ordered
      <3>1. CASE l = Len(replies) + 1
        BY <1>3, <1>6, <3>1
      <3>2. CASE l # Len(replies) + 1
        <4>1. k \in 1..Len(replies) /\ l \in 1..Len(replies)
          BY <1>3, <3>2
        <4> QED
          BY <1>3, <1>6, <4>1 DEF Behind, Ordered
      <3> QED
        BY <3>1, <3>2
    <2> QED
      BY <1>1, <1>4, <2>1 DEF Behind, Ordered
  <1> QED
    BY <1>1, <1>3, <1>4, <1>5, <1>6 DEF InChannel

(* What is forgotten, and what comes in, keeps the order of the replies.   *)
LEMMA ForgetKeeps ==
    ASSUME replies \in Seq(ReplyType), mDfuPacketQueue' = << >>,
           UNCHANGED replies
    PROVE  /\ InChannel' \subseteq InChannel
           /\ \A C : Behind(C) => Behind(C)'
  BY DEF InChannel, Arrived, OnTheWay, Behind, Ordered

LEMMA NotificationKeeps ==
    ASSUME ChannelTypeOK, notification
    PROVE  /\ mDfuPacketQueue' \in Seq(ReplyType)
           /\ replies' \in Seq(ReplyType)
           /\ InChannel' \subseteq InChannel
           /\ \A C : Behind(C) => Behind(C)'
  <1> DEFINE first == Head(replies)
  <1>1. /\ replies \in Seq(ReplyType) /\ replies # << >>
        /\ mDfuPacketQueue \in Seq(ReplyType)
        /\ replies' = Tail(replies)
        /\ \/ mDfuPacketQueue' = mDfuPacketQueue
           \/ mDfuPacketQueue' = Append(mDfuPacketQueue, first)
    BY DEF ChannelTypeOK, notification
  <1>2. /\ first \in ReplyType /\ first = replies[1]
        /\ replies' \in Seq(ReplyType)
        /\ Len(replies) \in Nat /\ Len(replies) >= 1
        /\ Len(replies') = Len(replies) - 1
        /\ \A k \in 1..Len(replies') : replies'[k] = replies[k + 1]
    BY <1>1, HeadTailProperties
  <1>3. /\ mDfuPacketQueue' \in Seq(ReplyType)
        /\ Len(mDfuPacketQueue) \in Nat
        /\ Len(mDfuPacketQueue') \in {Len(mDfuPacketQueue), Len(mDfuPacketQueue) + 1}
        /\ \A k \in 1..Len(mDfuPacketQueue) : mDfuPacketQueue'[k] = mDfuPacketQueue[k]
        /\ Len(mDfuPacketQueue') = Len(mDfuPacketQueue) + 1 =>
               mDfuPacketQueue'[Len(mDfuPacketQueue) + 1] = first
    <2>0. mDfuPacketQueue \in Seq(ReplyType) /\ Len(mDfuPacketQueue) \in Nat
      BY <1>1
    <2> HIDE DEF first
    <2>1. CASE mDfuPacketQueue' = mDfuPacketQueue
      BY <2>0, <2>1
    <2>2. CASE mDfuPacketQueue' = Append(mDfuPacketQueue, first)
      BY <1>2, <2>0, <2>2, AppendProperties
    <2> QED
      BY <1>1, <2>1, <2>2 DEF first
  <1> HIDE DEF first
  <1>4. first \in OnTheWay /\ OnTheWay' \subseteq OnTheWay
    <2>1. first = replies[1] /\ 1 \in 1..Len(replies)
      BY <1>2
    <2>2. \A k \in 1..Len(replies') : k + 1 \in 1..Len(replies)
      BY <1>2
    <2> QED
      BY <1>2, <2>1, <2>2 DEF OnTheWay
  <1>5. Arrived' \subseteq Arrived \cup {first}
    BY <1>3 DEF Arrived
  <1>6. ASSUME NEW C, Behind(C)
        PROVE  Behind(C)'
    <2>1. Ordered(replies', C)
      <3> SUFFICES ASSUME NEW k \in 1..Len(replies'), NEW l \in 1..Len(replies'),
                          k <= l, replies'[k].command \in C
                   PROVE  replies'[l].command \in C
        BY DEF Ordered
      <3>1. /\ k + 1 \in 1..Len(replies) /\ l + 1 \in 1..Len(replies)
            /\ k + 1 <= l + 1
        BY <1>2
      <3> QED
        BY <1>2, <1>6, <3>1 DEF Behind, Ordered
    <2>2. Ordered(mDfuPacketQueue', C)
      <3> SUFFICES ASSUME NEW k \in 1..Len(mDfuPacketQueue'),
                          NEW l \in 1..Len(mDfuPacketQueue'),
                          k <= l, mDfuPacketQueue'[k].command \in C
                   PROVE  mDfuPacketQueue'[l].command \in C
        BY DEF Ordered
      <3>1. CASE l \in 1..Len(mDfuPacketQueue)
        <4>1. k \in 1..Len(mDfuPacketQueue)
          BY <1>3, <3>1
        <4> QED
          BY <1>3, <1>6, <3>1, <4>1 DEF Behind, Ordered
      <3>2. CASE l \notin 1..Len(mDfuPacketQueue)
        <4>1. l = Len(mDfuPacketQueue) + 1 /\ mDfuPacketQueue'[l] = first
          BY <1>3, <3>2
        <4>2. CASE k = l
          BY <4>2
        <4>3. CASE k # l
          <5>1. k \in 1..Len(mDfuPacketQueue)
            BY <1>3, <4>1, <4>3
          <5>2. mDfuPacketQueue[k] \in Arrived /\ mDfuPacketQueue[k].command \in C
            BY <1>3, <5>1 DEF Arrived
          <5> QED
            BY <1>4, <1>6, <4>1, <5>2 DEF Behind
        <4> QED
          BY <4>2, <4>3
      <3> QED
        BY <3>1, <3>2
    <2>3. ASSUME NEW r \in Arrived', r.command \in C, NEW q \in OnTheWay'
          PROVE  q.command \in C
      <3>1. CASE r \in Arrived
        BY <1>4, <1>6, <2>3, <3>1 DEF Behind
      <3>2. CASE r = first
        <4>1. PICK k \in 1..Len(replies') : q = replies'[k]
          BY <2>3 DEF OnTheWay
        <4>2. 1 \in 1..Len(replies) /\ k + 1 \in 1..Len(replies) /\ 1 <= k + 1
          BY <1>2
        <4> QED
          BY <1>2, <1>6, <2>3, <3>2, <4>1, <4>2 DEF Behind, Ordered
      <3> QED
        BY <1>5, <2>3, <3>1, <3>2
    <2> QED
      BY <2>1, <2>2, <2>3 DEF Behind
  <1> QED
    BY <1>2, <1>3, <1>4, <1>5, <1>6 DEF InChannel

-----------------------------------------------------------------------------
(* What a command does to the chip.                                        *)

ChipKeeps ==
    /\ UNCHANGED <<chip.type, chip.image, chip.object, chip.offset>>
    /\ UNCHANGED <<chip.executed, chip.expects, chip.installed>>
    /\ chip.inOrder <=> chip'.inOrder
    /\ chip.sound <=> chip'.sound

ChipCreates(cmd) ==
    /\ cmd.command = "CREATE"
    /\ chip'.type = cmd.type /\ chip'.object = cmd.size
    /\ UNCHANGED <<chip.mode, chip.installed>>
    /\ cmd.type = "FIRMWARE_INIT" =>
           /\ chip'.image = cmd.image /\ chip'.executed = 0
           /\ chip'.offset = 0 /\ chip'.expects = 0
           /\ chip'.inOrder /\ chip'.sound
    /\ cmd.type = "FIRMWARE_DATA" =>
           /\ chip.expects # 0 /\ chip'.image = chip.expects
           /\ UNCHANGED <<chip.executed, chip.expects>>
           /\ chip'.offset = chip.executed
           /\ chip'.inOrder <=> chip.sound
           /\ chip'.sound <=> chip.sound

ChipWrites(cmd) ==
    /\ cmd.command = "WRITE"
    /\ UNCHANGED <<chip.mode, chip.type, chip.image, chip.object>>
    /\ UNCHANGED <<chip.executed, chip.expects, chip.installed>>
    /\ chip.sound <=> chip'.sound
    /\ chip'.offset = chip.offset + cmd.size
    /\ chip.offset + cmd.size <= chip.executed + chip.object
    /\ chip'.inOrder <=> /\ chip.inOrder
                         /\ cmd.from = chip.offset
                         /\ cmd.image = chip.image

ChipExecutes(cmd) ==
    /\ cmd.command = "EXECUTE"
    /\ chip.image # 0 /\ chip.image \notin older
    /\ chip.offset = chip.executed + chip.object
    /\ Whole => chip.inOrder
    /\ UNCHANGED <<chip.type, chip.image, chip.offset>>
    /\ chip'.inOrder <=> chip.inOrder
    /\ chip.type = "FIRMWARE_INIT" =>
           /\ chip'.expects = chip.image + 1
           /\ UNCHANGED <<chip.mode, chip.object, chip.executed, chip.installed>>
           /\ chip'.sound <=> chip.sound
    /\ chip.type = "FIRMWARE_DATA" =>
           /\ UNCHANGED chip.expects
           /\ chip'.executed = chip.offset /\ chip'.object = 0
           /\ chip'.sound <=> chip.inOrder
           /\ chip'.installed = IF Whole THEN chip.installed \cup {chip.image}
                                         ELSE chip.installed
           /\ ~Whole => UNCHANGED chip.mode

(* A field of the chip that is changed within its type.                    *)
LEMMA FieldChanged ==
    ASSUME NEW c \in ChipType
    PROVE  /\ \A x \in {"application", "restarting", "dfu", "silent"} :
                  [c EXCEPT !.mode = x] \in ChipType
           /\ \A x \in ImageType : [c EXCEPT !.type = x] \in ChipType
           /\ \A x \in Nat :
                  /\ [c EXCEPT !.image = x] \in ChipType
                  /\ [c EXCEPT !.object = x] \in ChipType
                  /\ [c EXCEPT !.offset = x] \in ChipType
                  /\ [c EXCEPT !.executed = x] \in ChipType
                  /\ [c EXCEPT !.expects = x] \in ChipType
           /\ \A x \in BOOLEAN :
                  /\ [c EXCEPT !.inOrder = x] \in ChipType
                  /\ [c EXCEPT !.sound = x] \in ChipType
           /\ \A x \in SUBSET Nat : [c EXCEPT !.installed = x] \in ChipType
  <1>1. \A x \in {"application", "restarting", "dfu", "silent"} :
            [c EXCEPT !.mode = x] \in ChipType
    BY DEF ChipType
  <1>2. \A x \in ImageType : [c EXCEPT !.type = x] \in ChipType
    BY DEF ChipType
  <1>3. \A x \in Nat :
            /\ [c EXCEPT !.image = x] \in ChipType
            /\ [c EXCEPT !.object = x] \in ChipType
            /\ [c EXCEPT !.offset = x] \in ChipType
    BY DEF ChipType
  <1>4. \A x \in Nat :
            /\ [c EXCEPT !.executed = x] \in ChipType
            /\ [c EXCEPT !.expects = x] \in ChipType
    BY DEF ChipType
  <1>5. \A x \in BOOLEAN :
            /\ [c EXCEPT !.inOrder = x] \in ChipType
            /\ [c EXCEPT !.sound = x] \in ChipType
    BY DEF ChipType
  <1>6. \A x \in SUBSET Nat : [c EXCEPT !.installed = x] \in ChipType
    BY DEF ChipType
  <1> QED
    BY <1>1, <1>2, <1>3, <1>4, <1>5, <1>6

LEMMA CreateTaken ==
    ASSUME chip \in ChipType, NEW cmd \in AskedType, cmd.command = "CREATE",
           CodeOf(cmd) = "SUCCESS", chip' = After(cmd)
    PROVE  chip' \in ChipType /\ ChipCreates(cmd)
  <1>1. chip' = Created(cmd) /\ Fits(cmd)
    BY DEF After, CodeOf
  <1>2. /\ cmd.type \in ImageType /\ cmd.image \in Nat /\ cmd.size \in Nat
        /\ cmd.type = "FIRMWARE_INIT" \/ chip.expects # 0
    BY <1>1 DEF AskedType, Fits, PlainCommand
  <1> DEFINE begins == cmd.type = "FIRMWARE_INIT"
  <1>3. begins \in BOOLEAN /\ chip.sound \in BOOLEAN
    BY DEF ChipType
  <1>4. begins \/ chip.sound \in BOOLEAN
    BY <1>3
  <1>5. chip' \in ChipType
    <2> DEFINE i == IF begins THEN cmd.image ELSE chip.expects
               n == IF begins THEN 0 ELSE chip.executed
               s == begins \/ chip.sound
               e == IF begins THEN 0 ELSE chip.expects
               c1 == [chip EXCEPT !.type = cmd.type]
               c2 == [c1 EXCEPT !.object = cmd.size]
               c3 == [c2 EXCEPT !.image = i]
               c4 == [c3 EXCEPT !.executed = n]
               c5 == [c4 EXCEPT !.sound = s]
               c6 == [c5 EXCEPT !.offset = n]
               c7 == [c6 EXCEPT !.inOrder = s]
               c8 == [c7 EXCEPT !.expects = e]
    <2>1. chip' = c8
      BY <1>1 DEF Created
    <2>2. i \in Nat /\ n \in Nat /\ s \in BOOLEAN /\ e \in Nat
      BY <1>2, <1>4 DEF ChipType
    <2> HIDE DEF i, n, s, e
    <2>3. c1 \in ChipType /\ c2 \in ChipType
      BY <1>2, FieldChanged
    <2> HIDE DEF c1, c2
    <2>4. c3 \in ChipType
      BY <2>2, <2>3, FieldChanged
    <2> HIDE DEF c3
    <2>5. c4 \in ChipType
      BY <2>2, <2>4, FieldChanged
    <2> HIDE DEF c4
    <2>6. c5 \in ChipType
      BY <2>2, <2>5, FieldChanged
    <2> HIDE DEF c5
    <2>7. c6 \in ChipType
      BY <2>2, <2>6, FieldChanged
    <2> HIDE DEF c6
    <2>8. c7 \in ChipType
      BY <2>2, <2>7, FieldChanged
    <2> HIDE DEF c7
    <2>9. c8 \in ChipType
      BY <2>2, <2>8, FieldChanged
    <2> QED
      BY <2>1, <2>9
  <1>6. /\ chip'.type = cmd.type /\ chip'.object = cmd.size
        /\ chip'.mode = chip.mode /\ chip'.installed = chip.installed
        /\ chip'.image = IF begins THEN cmd.image ELSE chip.expects
        /\ chip'.executed = IF begins THEN 0 ELSE chip.executed
        /\ chip'.offset = IF begins THEN 0 ELSE chip.executed
        /\ chip'.expects = IF begins THEN 0 ELSE chip.expects
    BY <1>1 DEF Created, ChipType
  <1>7. /\ chip'.inOrder = (begins \/ chip.sound)
        /\ chip'.sound = (begins \/ chip.sound)
    BY <1>1 DEF Created, ChipType
  <1>8. /\ chip'.inOrder <=> begins \/ chip.sound
        /\ chip'.sound <=> begins \/ chip.sound
    BY <1>7
  <1>9. cmd.type = "FIRMWARE_DATA" => ~begins
    OBVIOUS
  <1> HIDE DEF begins
  <1>10. cmd.type = "FIRMWARE_INIT" => begins
    BY DEF begins
  <1> QED
    BY <1>2, <1>5, <1>6, <1>8, <1>9, <1>10 DEF ChipCreates

LEMMA WriteTaken ==
    ASSUME chip \in ChipType, NEW cmd \in AskedType, cmd.command = "WRITE",
           CodeOf(cmd) = "SUCCESS", chip' = After(cmd)
    PROVE  chip' \in ChipType /\ ChipWrites(cmd)
  <1>1. chip' = Written(cmd) /\ Fits(cmd)
    BY DEF After, CodeOf
  <1>2. /\ cmd.image \in Nat /\ cmd.size \in Nat
        /\ chip.offset + cmd.size <= chip.executed + chip.object
    BY <1>1 DEF AskedType, Fits, PlainCommand
  <1> DEFINE good == chip.inOrder /\ cmd.from = chip.offset /\ cmd.image = chip.image
  <1>3. good \in BOOLEAN /\ chip.offset + cmd.size \in Nat
    BY <1>2 DEF ChipType
  <1>4. chip' \in ChipType
    BY <1>1, <1>3 DEF Written, ChipType
  <1>5. /\ UNCHANGED <<chip.mode, chip.type, chip.image, chip.object>>
        /\ UNCHANGED <<chip.executed, chip.expects, chip.installed>>
        /\ chip'.offset = chip.offset + cmd.size
    BY <1>1 DEF Written, ChipType
  <1>6. chip'.inOrder = good /\ chip'.sound = chip.sound
    BY <1>1 DEF Written, ChipType
  <1>7. (chip'.inOrder <=> good) /\ (chip.sound <=> chip'.sound)
    BY <1>6
  <1> QED
    BY <1>2, <1>4, <1>5, <1>7 DEF ChipWrites

LEMMA ExecuteTaken ==
    ASSUME chip \in ChipType, NEW cmd \in AskedType, cmd.command = "EXECUTE",
           CodeOf(cmd) = "SUCCESS", chip' = After(cmd)
    PROVE  chip' \in ChipType /\ ChipExecutes(cmd)
  <1>1. chip' = Executed /\ Fits(cmd)
    BY DEF After, CodeOf
  <1>2. /\ chip.offset = chip.executed + chip.object /\ chip.image # 0
        /\ Whole => chip.inOrder
        /\ chip.image \notin older
    BY <1>1 DEF CodeOf, Fits
  <1>3. /\ chip.inOrder \in BOOLEAN /\ chip.sound \in BOOLEAN
        /\ chip.image + 1 \in Nat /\ chip.image \in Nat
        /\ chip.installed \cup {chip.image} \in SUBSET Nat
        /\ chip.type \in ImageType
    BY DEF ChipType
  <1>4. CASE chip.type = "FIRMWARE_INIT"
    <2>1. chip' = [chip EXCEPT !.expects = chip.image + 1]
      BY <1>1, <1>4 DEF Executed
    <2>2. chip' \in ChipType
      BY <1>3, <2>1 DEF ChipType
    <2>3. /\ chip'.expects = chip.image + 1
          /\ UNCHANGED <<chip.type, chip.image, chip.offset>>
          /\ UNCHANGED <<chip.mode, chip.object, chip.executed, chip.installed>>
      BY <2>1 DEF ChipType
    <2>4. chip'.inOrder = chip.inOrder /\ chip'.sound = chip.sound
      BY <2>1 DEF ChipType
    <2> QED
      BY <1>2, <1>4, <2>2, <2>3, <2>4 DEF ChipExecutes
  <1>5. CASE chip.type = "FIRMWARE_DATA"
    <2> DEFINE installed == IF Whole THEN chip.installed \cup {chip.image}
                            ELSE chip.installed
               mode == IF ~Whole THEN chip.mode
                       ELSE IF chip.image < Len(package) THEN "restarting"
                       ELSE "application"
    <2>1. chip' = [chip EXCEPT
                      !.executed = chip.offset, !.object = 0,
                      !.sound = chip.inOrder, !.installed = installed,
                      !.mode = mode]
      BY <1>1, <1>5 DEF Executed
    <2>2. installed \in SUBSET Nat
      BY <1>3 DEF ChipType
    <2>3. mode \in {"application", "restarting", "dfu", "silent"}
      BY DEF ChipType
    <2>4. ~Whole => mode = chip.mode
      OBVIOUS
    <2>0. installed = IF Whole THEN chip.installed \cup {chip.image}
                      ELSE chip.installed
      OBVIOUS
    <2> HIDE DEF installed, mode
    <2>5. chip' \in ChipType
      <3> DEFINE sound == chip.inOrder
                 c1 == [chip EXCEPT !.executed = chip.offset]
                 c2 == [c1 EXCEPT !.object = 0]
                 c3 == [c2 EXCEPT !.sound = sound]
                 c4 == [c3 EXCEPT !.installed = installed]
                 c5 == [c4 EXCEPT !.mode = mode]
      <3>1. chip' = c5
        BY <2>1
      <3>2. chip.offset \in Nat /\ sound \in BOOLEAN
        BY <1>3 DEF ChipType
      <3> HIDE DEF sound
      <3>3. c1 \in ChipType
        BY <3>2, FieldChanged
      <3> HIDE DEF c1
      <3>4. c2 \in ChipType
        BY <3>3, FieldChanged
      <3> HIDE DEF c2
      <3>5. c3 \in ChipType
        BY <3>2, <3>4, FieldChanged
      <3> HIDE DEF c3
      <3>6. c4 \in ChipType
        BY <2>2, <3>5, FieldChanged
      <3> HIDE DEF c4
      <3>7. c5 \in ChipType
        BY <2>3, <3>6, FieldChanged
      <3> QED
        BY <3>1, <3>7
    <2>6. /\ chip'.executed = chip.offset /\ chip'.object = 0
          /\ chip'.installed = installed /\ chip'.mode = mode
          /\ UNCHANGED <<chip.type, chip.image, chip.offset, chip.expects>>
      BY <2>1 DEF ChipType
    <2>7. chip'.inOrder = chip.inOrder /\ chip'.sound = chip.inOrder
      BY <2>1 DEF ChipType
    <2>8. /\ chip'.inOrder <=> chip.inOrder
          /\ chip'.sound <=> chip.inOrder
      BY <2>7
    <2> QED
      BY <1>2, <1>5, <2>0, <2>4, <2>5, <2>6, <2>8 DEF ChipExecutes
  <1> QED
    BY <1>3, <1>4, <1>5 DEF ImageType

LEMMA ModeOnly ==
    ASSUME chip \in ChipType, NEW mode \in {"application", "restarting", "dfu", "silent"},
           chip' = [chip EXCEPT !.mode = mode]
    PROVE  chip' \in ChipType /\ ChipKeeps
  <1>1. chip' \in ChipType
    BY DEF ChipType
  <1>2. /\ UNCHANGED <<chip.type, chip.image, chip.object, chip.offset>>
        /\ UNCHANGED <<chip.executed, chip.expects, chip.installed>>
    BY DEF ChipType
  <1>3. chip'.inOrder = chip.inOrder /\ chip'.sound = chip.sound
    BY DEF ChipType
  <1> QED
    BY <1>1, <1>2, <1>3 DEF ChipKeeps

LEMMA ReplyKinds ==
    ASSUME chip \in ChipType, NEW cmd \in AskedType, cmd.command # "NONE"
    PROVE  /\ ReplyTo(cmd) \in ReplyType
           /\ cmd.command = "WRITE" =>
                  /\ ReplyTo(cmd).command \in {"CALCULATE_CHECKSUM", "WRITE"}
                  /\ ReplyTo(cmd).command = "CALCULATE_CHECKSUM" =>
                         /\ ReplyTo(cmd).code = "SUCCESS"
                         /\ ReplyTo(cmd).offset = chip.offset + cmd.size
                         /\ CodeOf(cmd) = "SUCCESS"
           /\ cmd.command # "WRITE" =>
                  /\ ReplyTo(cmd).command = cmd.command
                  /\ ReplyTo(cmd).code = CodeOf(cmd)
  <1>1. CodeOf(cmd) \in Code
    BY DEF CodeOf, Code
  <1>2. CASE cmd.command = "WRITE"
    <2>1. cmd.size \in Nat /\ chip.offset \in Nat
      BY <1>2 DEF AskedType, PlainCommand, ChipType
    <2>2. Fits(cmd) => CodeOf(cmd) \in {"SUCCESS"}
      BY <1>2 DEF CodeOf
    <2> QED
      BY <1>1, <1>2, <2>1, <2>2 DEF ReplyTo, Reply, ReplyType, Code
  <1>3. CASE cmd.command # "WRITE"
    <2>1. cmd.command \in {"CREATE"} \cup PlainCommand
      BY <1>3 DEF AskedType
    <2> QED
      BY <1>1, <1>3, <2>1 DEF ReplyTo, Reply, ReplyType
  <1> QED
    BY <1>2, <1>3

(* A command that is sent is taken by the chip, or changes nothing.        *)
LEMMA SendTaken ==
    ASSUME chip \in ChipType, NEW cmd \in AskedType, cmd.command # "NONE",
           send(cmd)
    PROVE  /\ chip' \in ChipType
           /\ chip' = chip \/ ChipCreates(cmd) \/ ChipWrites(cmd) \/ ChipExecutes(cmd)
  <1>1. chip' = chip \/ (CodeOf(cmd) = "SUCCESS" /\ chip' = After(cmd))
    BY DEF send, After
  <1>2. \/ cmd.command \in {"CREATE", "WRITE", "EXECUTE"}
        \/ cmd.command \in {"PING", "MTU", "PRN", "SELECT"}
    BY DEF AskedType, PlainCommand
  <1>3. cmd.command \in {"PING", "MTU", "PRN", "SELECT"} => After(cmd) = chip
    BY DEF After
  <1> QED
    BY <1>1, <1>2, <1>3, CreateTaken, WriteTaken, ExecuteTaken

(* What is new of the replies tells what the chip did.                     *)
LEMMA SendOutcome ==
    ASSUME ChannelTypeOK, NEW cmd \in AskedType, cmd.command # "NONE",
           send(cmd)
    PROVE  \/ chip' = After(cmd) /\ CodeOf(cmd) = "SUCCESS"
           \/ /\ chip' = chip
              /\ \A r \in InChannel' :
                     \/ r \in InChannel
                     \/ r = ReplyTo(cmd) /\ CodeOf(cmd) # "SUCCESS"
  <1>1. /\ ReplyTo(cmd) \in ReplyType /\ replies \in Seq(ReplyType)
        /\ chip \in ChipType
    BY ReplyKinds DEF ChannelTypeOK
  <1>2. InChannel' \subseteq InChannel \cup {ReplyTo(cmd)} /\ mDfuPacketQueue' = << >>
    BY <1>1, SendAppends
  <1>3. UNCHANGED replies => InChannel' \subseteq InChannel
    BY <1>2 DEF InChannel, Arrived, OnTheWay
  <1>4. CASE chip.mode = "dfu" /\ chip' = After(cmd)
    <2>1. CodeOf(cmd) # "SUCCESS" => chip' = chip
      BY <1>4 DEF After
    <2> QED
      BY <1>2, <1>4, <2>1
  <1>5. CASE UNCHANGED chip /\ UNCHANGED replies
    BY <1>3, <1>5
  <1> QED
    BY <1>4, <1>5 DEF send

-----------------------------------------------------------------------------
(* Only an image that is too old is left out.                              *)

Idle == {"init", "entering", "force", "forcing", "reentering", "read", "parse",
         "push", "pushed", "packet", "end"}

Pings == {"ping", "pingForced", "pingDfu", "pingAgain"}

InImage == {"SELECT", "CREATE", "WRITE", "EXECUTE"}

(* The answer is one to the command that was asked.                        *)
Accepted ==
    /\ asked.command # "NONE"
    /\ answer \in ReplyType
    /\ answer.command = responseCommand

IsInit(i) == i \in 1..Len(package) /\ package[i].type = "FIRMWARE_INIT"

IsData(i) == i \in 1..Len(package) /\ package[i].type = "FIRMWARE_DATA"

(* Where the update task stands tells what it asked.                       *)
AskedHere ==
    /\ pc \in {"init", "entering"} => asked.command = "NONE"
    /\ pc \in {"force", "forcing", "reentering"} \cup Pings => asked.command = "PING"
    /\ pc = "mtu" => asked.command = "MTU"
    /\ pc = "prn" => asked.command = "PRN"
    /\ pc = "select" => asked.command = "SELECT"
    /\ pc = "create" => asked.command = "CREATE" /\ asked.image = image
    /\ pc = "write" => asked.command = "WRITE" /\ asked.image = image
    /\ pc = "execute" => asked.command = "EXECUTE"
    /\ asked.command = "CREATE" =>
           asked.image \in 1..image /\ asked.type = package[asked.image].type
    /\ asked.command = "WRITE" => asked.image \in 1..image
    /\ pc \in Idle => answer # Pending
    /\ answer \in {Pending, Unanswered} \/ Accepted
    /\ pc \in BeforePackage => image = 0
    /\ pc = "write" => mCurrentObjectOffset # 0

(* All packets of the image were taken so far.                             *)
Going ==
    /\ asked.command \in {"SELECT", "WRITE", "EXECUTE"}
    /\ Accepted
    /\ mCurrentObjectOffset = 0 <=> asked.command # "WRITE"
    /\ asked.command = "WRITE" => asked.image = image

(* An image goes on, it is left out, or one of its packets failed; or the  *)
(* package is at its end.                                                  *)
GoingOn ==
    /\ pc \in {"push", "packet"} => Going
    /\ pc \in {"read", "parse"} /\ mCurrentState = "FIRMWARE" =>
           Going \/ (mIgnoreNextFirmware /\ buffered = 0) \/ Exhausted
    /\ pc = "pushed" =>
           \/ Going
           \/ /\ buffered = 0
              /\ \/ toPush # 0 \/ mFirmwareOffset = Size
                 \/ mIgnoreNextFirmware \/ Exhausted
    /\ pc \in {"read", "parse"} /\ image = 0 => asked.command = "PING" /\ Accepted
    /\ pc \in {"read", "parse", "pushed"} /\ image # 0 =>
           /\ asked.command \in InImage
           /\ asked.command = "SELECT" => Accepted

(* The INIT image before was not even created.                             *)
Mixed ==
    /\ IsData(image)
    /\ asked.command \in {"SELECT", "CREATE"}
    /\ Only({"SELECT", "CREATE"})

Channel == pc # "end" =>
    /\ answer # Pending => mDfuPacketQueue = << >>
    /\ asked.command = "NONE" => Only({})
    /\ Behind(Answers) \/ Mixed
    /\ Accepted => Only(Answers) \/ Mixed
    /\ asked.command \in InImage => Without({"PING"})
    /\ IsInit(image) /\ asked.command = "CREATE" =>
           Only({"SELECT", "CREATE"}) \/ Without({"SELECT"})
    /\ IsInit(image) /\ asked.command \in {"WRITE", "EXECUTE"} =>
           Without({"SELECT"})

(* Bytes in order are those of the image, once the chip was given some.    *)
ChipHasImage == chip.inOrder => chip.image = image

BytesTaken ==
    /\ /\ pc # "end" /\ asked.command = "WRITE" /\ asked.image = image
       /\ Accepted \/ \E r \in InChannel : r.command = "CALCULATE_CHECKSUM"
       => ChipHasImage
    /\ pc = "execute" => ChipHasImage

ChipKinds ==
    /\ chip.type = "FIRMWARE_DATA" => chip.image \notin older
    /\ chip.expects \notin older
    /\ chip.type = "FIRMWARE_INIT" => chip.image = 0 \/ IsInit(chip.image)

Refusals ==
    pc = "execute" =>
        \A r \in InChannel \cup {answer} :
            r.command = "EXECUTE" /\ r.code = "FW_VERSION_FAILURE" =>
                image \in older

Ignored ==
    mIgnoreNextFirmware =>
        image # 0 /\ (image \in older \/ (IsData(image) /\ image - 1 \in older))

Dialog == AskedHere /\ GoingOn /\ Channel /\ BytesTaken /\ Refusals /\ Ignored

RefusalInv == FitInv /\ ChannelTypeOK /\ ChipKinds /\ Dialog

(* INIT and DATA images take turns.                                        *)
LEMMA ImagesTakeTurns ==
    ASSUME package \in Packages
    PROVE  /\ DOMAIN package = 1..Len(package)
           /\ \A i \in Nat : IsInit(i) => i > 0 /\ ~IsInit(i + 1) /\ ~IsData(i)
           /\ \A i \in Nat : IsData(i) => i > 1 /\ IsInit(i - 1) /\ ~IsData(i + 1)
           /\ \A i \in 1..Len(package) : IsInit(i) \/ IsData(i)
           /\ 1 \in 1..Len(package) => IsInit(1)
  <1>1. /\ package \in Seq(Images) /\ DOMAIN package = 1..Len(package)
        /\ Len(package) \in Nat
    BY NrfUpdateAssumption
  <1>2. \A i \in 1..Len(package) : package[i].type \in ImageType
    BY ImageFacts
  <1>3. \A i \in 1..Len(package) :
            package[i].type = "FIRMWARE_INIT"
                <=> (i = 1 \/ package[i - 1].type = "FIRMWARE_DATA")
    BY <1>1, PairsAssumption
  <1>4. ASSUME NEW i \in Nat, IsInit(i)
        PROVE  i > 0 /\ ~IsInit(i + 1) /\ ~IsData(i)
    <2>1. i \in 1..Len(package) /\ package[i].type = "FIRMWARE_INIT"
      BY <1>4 DEF IsInit
    <2>2. ~IsInit(i + 1)
      <3> SUFFICES ASSUME IsInit(i + 1) PROVE FALSE
        OBVIOUS
      <3>1. i + 1 \in 1..Len(package) /\ i + 1 # 1 /\ (i + 1) - 1 = i
        BY <2>1 DEF IsInit
      <3>2. package[i].type = "FIRMWARE_DATA"
        BY <1>3, <3>1 DEF IsInit
      <3> QED
        BY <2>1, <3>2
    <2> QED
      BY <2>1, <2>2 DEF IsData
  <1>5. ASSUME NEW i \in Nat, IsData(i)
        PROVE  i > 1 /\ IsInit(i - 1) /\ ~IsData(i + 1)
    <2>1. i \in 1..Len(package) /\ package[i].type = "FIRMWARE_DATA"
      BY <1>5 DEF IsData
    <2>2. i # 1
      BY <1>3, <2>1
    <2>3. i - 1 \in 1..Len(package) /\ i > 1
      BY <1>1, <2>1, <2>2
    <2>4. package[i - 1].type = "FIRMWARE_INIT"
      BY <1>2, <1>3, <2>1, <2>3 DEF ImageType
    <2>5. ~IsData(i + 1)
      <3> SUFFICES ASSUME IsData(i + 1) PROVE FALSE
        OBVIOUS
      <3>1. i + 1 \in 1..Len(package) /\ i + 1 # 1 /\ (i + 1) - 1 = i
        BY <2>1 DEF IsData
      <3>2. package[i + 1].type = "FIRMWARE_INIT"
        BY <1>3, <2>1, <3>1
      <3> QED
        BY <3>2 DEF IsData
    <2> QED
      BY <2>3, <2>4, <2>5 DEF IsInit
  <1>6. \A i \in 1..Len(package) : IsInit(i) \/ IsData(i)
    BY <1>2 DEF IsInit, IsData, ImageType
  <1>7. 1 \in 1..Len(package) => IsInit(1)
    BY <1>3 DEF IsInit
  <1> QED
    BY <1>1, <1>4, <1>5, <1>6, <1>7

(* A command that is sent, for the first time or again.                    *)
LEMMA SentKeeps ==
    ASSUME package \in Packages, ChannelTypeOK, ChipKinds,
           UNCHANGED <<package, older>>, late' \in Nat,
           NEW cmd \in AskedType, cmd.command # "NONE",
           asked' = cmd, send(cmd),
           cmd.command = "CREATE" =>
               cmd.image \in 1..Len(package) /\ cmd.type = package[cmd.image].type
    PROVE  /\ ChannelTypeOK' /\ ChipKinds'
           /\ mDfuPacketQueue' = << >>
           /\ Answers' = IF cmd.command = "WRITE"
                         THEN {"CALCULATE_CHECKSUM", "WRITE"} ELSE {cmd.command}
           /\ \A r \in InChannel' : r \in InChannel \/ r.command \in Answers'
           /\ \A C : Answers' \subseteq C /\ Behind(C) => Behind(C)'
  <1>1. /\ chip \in ChipType /\ replies \in Seq(ReplyType)
        /\ ReplyTo(cmd) \in ReplyType
    BY ReplyKinds DEF ChannelTypeOK
  <1>2. Answers' = IF cmd.command = "WRITE"
                   THEN {"CALCULATE_CHECKSUM", "WRITE"} ELSE {cmd.command}
    BY DEF Answers
  <1>3. ReplyTo(cmd).command \in Answers'
    BY <1>1, <1>2, ReplyKinds
  <1>4. /\ mDfuPacketQueue' = << >>
        /\ replies' \in Seq(ReplyType)
        /\ InChannel' \subseteq InChannel \cup {ReplyTo(cmd)}
        /\ \A C : ReplyTo(cmd).command \in C /\ Behind(C) => Behind(C)'
    BY <1>1, SendAppends
  <1>5. /\ chip' \in ChipType
        /\ chip' = chip \/ ChipCreates(cmd) \/ ChipWrites(cmd) \/ ChipExecutes(cmd)
    BY <1>1, SendTaken
  <1>6. ChannelTypeOK'
    <2>1. lost' \in Nat
      BY DEF send, ChannelTypeOK
    <2>2. mDfuPacketQueue' \in Seq(ReplyType)
      BY <1>4
    <2> QED
      BY <1>4, <1>5, <2>1, <2>2 DEF ChannelTypeOK
  <1>7. ChipKinds'
    <2>0. /\ 0 \notin older /\ chip.image \in Nat /\ chip.type \in ImageType
          /\ \A i \in older : IsInit(i)
      BY <1>1 DEF ChannelTypeOK, ChipType, IsInit
    <2>00. \A i : IsInit(i)' <=> IsInit(i)
      BY DEF IsInit
    <2>1. CASE chip' = chip
      BY <2>1, <2>00 DEF ChipKinds
    <2>2. CASE ChipCreates(cmd)
      <3>1. /\ cmd.type \in ImageType /\ cmd.command = "CREATE"
            /\ cmd.type = "FIRMWARE_INIT" => IsInit(cmd.image)
        BY <2>2 DEF ChipCreates, AskedType, PlainCommand, IsInit
      <3> QED
        BY <2>0, <2>00, <2>2, <3>1 DEF ChipCreates, ChipKinds, ImageType
    <2>3. CASE ChipWrites(cmd)
      BY <2>3, <2>00 DEF ChipWrites, ChipKinds
    <2>4. CASE ChipExecutes(cmd)
      <3>1. CASE chip.type = "FIRMWARE_DATA"
        BY <2>4, <2>00, <3>1 DEF ChipExecutes, ChipKinds
      <3>2. CASE chip.type = "FIRMWARE_INIT"
        <4>1. IsInit(chip.image)
          BY <2>4, <3>2 DEF ChipExecutes, ChipKinds
        <4>2. chip.image + 1 \notin older
          BY <2>0, <4>1, ImagesTakeTurns
        <4> QED
          BY <2>4, <2>00, <3>2, <4>2 DEF ChipExecutes, ChipKinds
      <3> QED
        BY <2>0, <3>1, <3>2 DEF ImageType
    <2> QED
      BY <1>5, <2>1, <2>2, <2>3, <2>4
  <1> QED
    BY <1>2, <1>3, <1>4, <1>6, <1>7

(* An update that has stopped asks nothing.                                *)
LEMMA StopKeepsDialog ==
    ASSUME FitInv', ChannelTypeOK, ChipKinds, Dialog, pc # "end",
           UNCHANGED <<asked, mDfuPacketQueue, replies, chip, older, late, lost>>,
           UNCHANGED <<package, image, mCurrentObjectOffset>>,
           pc' = "end", answer' = Unanswered, Ignored'
    PROVE  RefusalInv'
  <1>1. ChannelTypeOK' /\ ChipKinds'
    BY DEF ChannelTypeOK, ChipKinds, IsInit
  <1>2. AskedHere'
    BY DEF Dialog, AskedHere, Idle, Pings, BeforePackage, Unanswered, Pending, Reply
  <1>3. GoingOn' /\ Channel' /\ BytesTaken' /\ Refusals'
    BY DEF GoingOn, Channel, BytesTaken, Refusals
  <1> QED
    BY <1>1, <1>2, <1>3 DEF RefusalInv, Dialog

(* What the tasks of the chip do keeps the dialog.                         *)
LEMMA ChipTaskKeepsDialog ==
    ASSUME RefusalInv, FitInv',
           notification \/ ChipEntersDfu \/ ChipFallsSilent
    PROVE  RefusalInv'
  <1>1. /\ UNCHANGED <<parseVars, bufferVars, objectVars, pc, callVars, older>>
        /\ UNCHANGED late /\ UNCHANGED lost
    BY DEF notification, ChipEntersDfu, ChipFallsSilent, updateVars
  <1>2. ChannelTypeOK
    BY DEF RefusalInv
  <1>3. /\ mDfuPacketQueue' \in Seq(ReplyType) /\ replies' \in Seq(ReplyType)
        /\ InChannel' \subseteq InChannel
        /\ \A C : Behind(C) => Behind(C)'
        /\ answer # Pending /\ mDfuPacketQueue = << >> => mDfuPacketQueue' = << >>
    <2>1. CASE notification
      <3>1. answer # Pending => UNCHANGED mDfuPacketQueue
        BY <2>1 DEF notification
      <3> QED
        BY <1>2, <2>1, <3>1, NotificationKeeps
    <2>2. CASE UNCHANGED <<mDfuPacketQueue, replies>>
      BY <1>2, <2>2 DEF ChannelTypeOK, InChannel, Arrived, OnTheWay, Behind, Ordered
    <2> QED
      BY <2>1, <2>2 DEF ChipEntersDfu, ChipFallsSilent
  <1>4. chip' \in ChipType /\ ChipKeeps
    <2>1. chip \in ChipType
      BY <1>2 DEF ChannelTypeOK
    <2>2. CASE UNCHANGED chip
      BY <2>1, <2>2 DEF ChipKeeps
    <2> QED
      BY <2>1, <2>2, ModeOnly DEF notification, ChipEntersDfu, ChipFallsSilent
  <1> USE DEF parseVars, bufferVars, objectVars, callVars
  <1>5. ChannelTypeOK'
    BY <1>1, <1>2, <1>3, <1>4 DEF ChannelTypeOK
  <1>6. /\ \A i : IsInit(i)' <=> IsInit(i)
        /\ \A i : IsData(i)' <=> IsData(i)
        /\ IsData(image)' <=> IsData(image)
        /\ IsInit(image)' <=> IsInit(image)
        /\ IsInit(chip.image)' <=> IsInit(chip.image)
    BY <1>1, <1>4 DEF IsInit, IsData, ChipKeeps
  <1>7. ChipKinds'
    BY <1>1, <1>4, <1>6 DEF RefusalInv, ChipKinds, ChipKeeps
  <1>8. (Accepted' <=> Accepted) /\ Answers' = Answers
    BY <1>1 DEF Accepted, responseCommand, Answers
  <1>9. AskedHere' /\ GoingOn' /\ Ignored'
    <2>1. AskedHere'
      BY <1>1, <1>8 DEF RefusalInv, Dialog, AskedHere
    <2>2. (Going' <=> Going) /\ Size' = Size /\ (Exhausted' <=> Exhausted)
      BY <1>1, <1>8 DEF Going, Size, Exhausted, TotalLen
    <2>3. GoingOn'
      BY <1>1, <1>8, <2>2 DEF RefusalInv, Dialog, GoingOn
    <2>4. Ignored'
      BY <1>1, <1>6 DEF RefusalInv, Dialog, Ignored
    <2> QED
      BY <2>1, <2>3, <2>4
  <1>10. /\ \A C : Only(C) => Only(C)'
         /\ \A C : Without(C) => Without(C)'
    BY <1>3 DEF Only, Without
  <1>11. Channel'
    <2>1. Mixed => Mixed'
      BY <1>1, <1>6, <1>10 DEF Mixed
    <2> QED
      BY <1>1, <1>3, <1>6, <1>8, <1>10, <2>1 DEF RefusalInv, Dialog, Channel
  <1>12. BytesTaken'
    BY <1>1, <1>3, <1>4, <1>8
       DEF RefusalInv, Dialog, BytesTaken, ChipHasImage, ChipKeeps
  <1>13. Refusals'
    BY <1>1, <1>3 DEF RefusalInv, Dialog, Refusals
  <1> QED
    BY <1>5, <1>7, <1>9, <1>11, <1>12, <1>13 DEF RefusalInv, Dialog

(* A packet that is written leaves the chip with bytes of the image.       *)
LEMMA WriteKeepsBytes ==
    ASSUME ChannelTypeOK, NEW cmd \in AskedType, cmd.command = "WRITE",
           cmd.image = image, send(cmd),
           \/ ChipHasImage
           \/ \A r \in InChannel : r.command # "CALCULATE_CHECKSUM",
           \E r \in InChannel' : r.command = "CALCULATE_CHECKSUM",
           UNCHANGED image
    PROVE  ChipHasImage'
  <1>1. chip \in ChipType
    BY DEF ChannelTypeOK
  <1>2. CASE chip' = After(cmd) /\ CodeOf(cmd) = "SUCCESS"
    <2>1. ChipWrites(cmd)
      BY <1>1, <1>2, WriteTaken
    <2> QED
      BY <2>1 DEF ChipWrites, ChipHasImage
  <1>3. CASE /\ chip' = chip
             /\ \A r \in InChannel' :
                    \/ r \in InChannel
                    \/ r = ReplyTo(cmd) /\ CodeOf(cmd) # "SUCCESS"
    <2>1. CodeOf(cmd) # "SUCCESS" => ReplyTo(cmd).command # "CALCULATE_CHECKSUM"
      BY <1>1, ReplyKinds
    <2> QED
      BY <1>3, <2>1 DEF ChipHasImage
  <1> QED
    BY <1>2, <1>3, SendOutcome

(* A refusal is that of the image that is executed.                        *)
LEMMA ExecuteRefused ==
    ASSUME ChannelTypeOK, ChipKinds, NEW cmd \in AskedType,
           cmd.command = "EXECUTE", send(cmd), ChipHasImage, UNCHANGED image
    PROVE  /\ ChipHasImage'
           /\ \A r \in InChannel' :
                  r.code = "FW_VERSION_FAILURE" =>
                      r \in InChannel \/ image \in older
  <1>1. chip \in ChipType
    BY DEF ChannelTypeOK
  <1>2. ChipHasImage'
    <2>1. chip' = chip \/ ChipExecutes(cmd)
      BY <1>1, SendTaken DEF ChipCreates, ChipWrites
    <2> QED
      BY <2>1 DEF ChipExecutes, ChipHasImage
  <1>3. CodeOf(cmd) = "FW_VERSION_FAILURE" => image \in older
    <2> SUFFICES ASSUME CodeOf(cmd) = "FW_VERSION_FAILURE" PROVE image \in older
      OBVIOUS
    <2>1. chip.image \in older /\ (Whole => chip.inOrder)
      BY DEF CodeOf
    <2>2. chip.type = "FIRMWARE_INIT"
      BY <1>1, <2>1 DEF ChipKinds, ChipType, ImageType
    <2> QED
      BY <2>1, <2>2 DEF Whole, ChipHasImage
  <1>4. ReplyTo(cmd).code = CodeOf(cmd)
    BY <1>1, ReplyKinds
  <1>5. \A r \in InChannel' : r \in InChannel \/ r = ReplyTo(cmd)
    BY <1>1, ReplyKinds, SendAppends DEF ChannelTypeOK
  <1> QED
    BY <1>2, <1>3, <1>4, <1>5

(* The wait for an answer: another try, none any more, or an answer.       *)
Retries ==
    /\ send(asked) /\ UNCHANGED <<answer, older>> /\ late' \in Nat

GivesUp ==
    /\ answer' = Unanswered /\ mDfuPacketQueue' = << >>
    /\ UNCHANGED <<chip, replies, lost, older>> /\ late' \in Nat

Accepts ==
    /\ mDfuPacketQueue # << >>
    /\ answer' = Head(mDfuPacketQueue)
    /\ answer'.command = responseCommand
    /\ mDfuPacketQueue' = << >>
    /\ UNCHANGED <<chip, replies, lost, older, late>>

LEMMA WaitEnds ==
    ASSUME ChannelTypeOK, receive \/ receiveTimesOut
    PROVE  /\ answer = Pending
           /\ UNCHANGED <<fitVars, asked, unreported>>
           /\ Retries \/ GivesUp \/ Accepts
  <1>1. late' \in Nat
    <2>1. late \in Nat /\ late + 1 \in Nat
      BY DEF ChannelTypeOK
    <2> QED
      BY <2>1 DEF receive, receiveTimesOut
  <1>2. tryAgain /\ UNCHANGED older => Retries \/ GivesUp
    BY <1>1 DEF tryAgain, Retries, GivesUp
  <1>3. CASE receive
    BY <1>2, <1>3 DEF receive, Accepts, fitVars
  <1>4. CASE receiveTimesOut
    BY <1>2, <1>4 DEF receiveTimesOut, fitVars
  <1> QED
    BY <1>3, <1>4

(* The update task stands where it stood.                                  *)
LEMMA WaitKeepsPlace ==
    ASSUME RefusalInv, UNCHANGED <<fitVars, asked, older>>, answer = Pending
    PROVE  /\ pc \notin Idle
           /\ answer' \in {Pending, Unanswered} \/ Accepted' => AskedHere'
           /\ GoingOn' /\ Ignored'
           /\ Answers' = Answers /\ ~Accepted
           /\ \A i : (IsInit(i)' <=> IsInit(i)) /\ (IsData(i)' <=> IsData(i))
           /\ (IsInit(image)' <=> IsInit(image)) /\ (IsData(image)' <=> IsData(image))
  <1> USE DEF fitVars, parseVars, bufferVars, objectVars
  <1>1. pc \notin Idle
    BY DEF RefusalInv, Dialog, AskedHere
  <1>2. answer' \in {Pending, Unanswered} \/ Accepted' => AskedHere'
    BY <1>1 DEF RefusalInv, Dialog, AskedHere
  <1>3. GoingOn'
    BY <1>1 DEF GoingOn, Idle
  <1>4. /\ \A i : (IsInit(i)' <=> IsInit(i)) /\ (IsData(i)' <=> IsData(i))
        /\ (IsInit(image)' <=> IsInit(image)) /\ (IsData(image)' <=> IsData(image))
    BY DEF IsInit, IsData
  <1>5. Ignored'
    BY <1>4 DEF RefusalInv, Dialog, Ignored
  <1>6. Answers' = Answers
    BY DEF Answers
  <1>7. ~Accepted
    BY DEF Accepted, Pending, Reply, ReplyType, PlainCommand
  <1> QED
    BY <1>1, <1>2, <1>3, <1>4, <1>5, <1>6, <1>7

LEMMA RetryKeepsDialog ==
    ASSUME RefusalInv, FitInv', answer = Pending,
           UNCHANGED <<fitVars, asked, unreported>>, Retries
    PROVE  RefusalInv'
  <1>1. /\ pc \notin Idle /\ AskedHere' /\ GoingOn' /\ Ignored'
        /\ Answers' = Answers /\ ~Accepted
        /\ \A i : (IsInit(i)' <=> IsInit(i)) /\ (IsData(i)' <=> IsData(i))
        /\ (IsInit(image)' <=> IsInit(image)) /\ (IsData(image)' <=> IsData(image))
    BY WaitKeepsPlace DEF Retries
  <1>2. /\ asked \in AskedType /\ asked.command # "NONE" /\ asked' = asked
        /\ send(asked) /\ package \in Packages /\ ChannelTypeOK /\ ChipKinds
        /\ UNCHANGED <<package, older, pc, image>> /\ late' \in Nat
        /\ answer' = Pending
    <2>1. asked.command # "NONE"
      BY <1>1 DEF RefusalInv, Dialog, AskedHere, FitInv, Kinds, Places, Idle, Pings
    <2> QED
      BY <2>1 DEF RefusalInv, Dialog, FitInv, Kinds, Retries, ChannelTypeOK,
                  fitVars, parseVars
  <1>3. asked.command = "CREATE" =>
            /\ asked.image \in 1..Len(package)
            /\ asked.type = package[asked.image].type
    <2>1. image \in 0..Len(package) /\ Len(package) \in Nat
      BY <1>2, ImageFacts DEF RefusalInv, FitInv, Kinds
    <2> QED
      BY <2>1 DEF RefusalInv, Dialog, AskedHere
  <1>4. /\ ChannelTypeOK' /\ ChipKinds'
        /\ mDfuPacketQueue' = << >>
        /\ \A r \in InChannel' : r \in InChannel \/ r.command \in Answers'
        /\ \A C : Answers' \subseteq C /\ Behind(C) => Behind(C)'
    BY <1>2, <1>3, SentKeeps
  <1>5. /\ \A C : Answers \subseteq C /\ Only(C) => Only(C)'
        /\ \A C : Without(C) /\ Answers \cap C = {} => Without(C)'
    BY <1>1, <1>4 DEF Only, Without
  <1>6. Answers \in SUBSET {"CALCULATE_CHECKSUM", "WRITE"} \/ Answers = {asked.command}
    BY DEF Answers
  <1>7. Accepted' = FALSE
    BY <1>1, <1>2 DEF Accepted, Pending, Reply, ReplyType, PlainCommand
  <1>8. Channel'
    <2>1. Mixed => Mixed'
      BY <1>1, <1>2, <1>5, <1>6 DEF Mixed, Answers
    <2>2. Behind(Answers) => Behind(Answers)'
      <3>1. Behind(Answers) => Behind(Answers')
        BY <1>1
      <3> DEFINE A == Answers
      <3>2. A' = A
        BY <1>1
      <3> HIDE DEF A
      <3>3. Behind(A) => Behind(A)'
        BY <1>1, <1>4, <3>2 DEF A, Behind, Ordered, Arrived, OnTheWay
      <3> QED
        BY <3>3 DEF A
    <2>3. asked.command \in InImage => (Without({"PING"}) => Without({"PING"})')
      BY <1>5 DEF Answers, InImage
    <2>4. /\ asked.command = "CREATE" =>
                 /\ (Only({"SELECT", "CREATE"}) => Only({"SELECT", "CREATE"})')
                 /\ Without({"SELECT"}) => Without({"SELECT"})'
          /\ asked.command \in {"WRITE", "EXECUTE"} =>
                 (Without({"SELECT"}) => Without({"SELECT"})')
      BY <1>5 DEF Answers
    <2> QED
      BY <1>1, <1>2, <1>4, <1>7, <2>1, <2>2, <2>3, <2>4
         DEF RefusalInv, Dialog, Channel
  <1>9. BytesTaken'
    <2>1. ASSUME pc # "end", asked.command = "WRITE", asked.image = image,
                 \E r \in InChannel' : r.command = "CALCULATE_CHECKSUM"
          PROVE  ChipHasImage'
      <3>1. ChipHasImage \/ \A r \in InChannel : r.command # "CALCULATE_CHECKSUM"
        BY <2>1 DEF RefusalInv, Dialog, BytesTaken
      <3> QED
        BY <1>2, <2>1, <3>1, WriteKeepsBytes
    <2>2. pc = "execute" => ChipHasImage'
      <3>1. pc = "execute" => ChipHasImage /\ asked.command = "EXECUTE"
        BY DEF RefusalInv, Dialog, BytesTaken, AskedHere
      <3> QED
        BY <1>2, <3>1, ExecuteRefused
    <2> QED
      BY <1>2, <1>7, <2>1, <2>2 DEF BytesTaken
  <1>10. Refusals'
    <2> SUFFICES ASSUME pc = "execute" PROVE Refusals'
      BY <1>2 DEF Refusals
    <2>1. ChipHasImage /\ asked.command = "EXECUTE"
      BY DEF RefusalInv, Dialog, BytesTaken, AskedHere
    <2>2. \A r \in InChannel' : r.code = "FW_VERSION_FAILURE" =>
              r \in InChannel \/ image \in older
      BY <1>2, <2>1, ExecuteRefused
    <2>3. answer'.command # "EXECUTE"
      BY <1>2 DEF Pending, Reply
    <2> QED
      BY <1>2, <2>2, <2>3 DEF RefusalInv, Dialog, Refusals
  <1> QED
    BY <1>1, <1>4, <1>8, <1>9, <1>10 DEF RefusalInv, Dialog

LEMMA AnswerKeepsDialog ==
    ASSUME RefusalInv, FitInv', answer = Pending,
           UNCHANGED <<fitVars, asked, unreported>>, GivesUp \/ Accepts
    PROVE  RefusalInv'
  <1>1. /\ answer' \in {Pending, Unanswered} \/ Accepted' => AskedHere'
        /\ pc \notin Idle /\ GoingOn' /\ Ignored'
        /\ Answers' = Answers /\ ~Accepted
        /\ \A i : (IsInit(i)' <=> IsInit(i)) /\ (IsData(i)' <=> IsData(i))
        /\ (IsInit(image)' <=> IsInit(image)) /\ (IsData(image)' <=> IsData(image))
    BY WaitKeepsPlace DEF GivesUp, Accepts
  <1>2. /\ UNCHANGED <<package, pc, image, asked, older, chip, replies, lost>>
        /\ late' \in Nat /\ mDfuPacketQueue' = << >>
        /\ ChannelTypeOK /\ ChipKinds
        /\ mDfuPacketQueue \in Seq(ReplyType) /\ replies \in Seq(ReplyType)
    BY DEF GivesUp, Accepts, fitVars, parseVars, RefusalInv, ChannelTypeOK
  <1>3. ChannelTypeOK' /\ ChipKinds'
    <2>1. mDfuPacketQueue' \in Seq(ReplyType)
      BY <1>2
    <2> QED
      BY <1>2, <2>1 DEF ChannelTypeOK, ChipKinds, IsInit
  <1>4. InChannel' \subseteq InChannel /\ \A C : Behind(C) => Behind(C)'
    BY <1>2, ForgetKeeps
  <1>5. asked.command # "NONE"
    BY <1>1 DEF RefusalInv, Dialog, AskedHere, FitInv, Kinds, Places, Idle, Pings
  <1>6. Accepts => /\ answer' \in Arrived /\ answer' \in ReplyType
                   /\ answer'.command = responseCommand /\ Accepted'
    <2> SUFFICES ASSUME Accepts
                 PROVE  /\ answer' \in Arrived /\ answer' \in ReplyType
                        /\ answer'.command = responseCommand /\ Accepted'
      OBVIOUS
    <2>1. /\ answer' = mDfuPacketQueue[1] /\ answer' \in ReplyType
          /\ Len(mDfuPacketQueue) \in Nat /\ Len(mDfuPacketQueue) >= 1
      BY <1>2, HeadTailProperties DEF Accepts
    <2>2. answer' \in Arrived
      BY <2>1 DEF Arrived
    <2> QED
      BY <1>2, <1>5, <2>1, <2>2 DEF Accepts, Accepted, responseCommand
  <1>7. GivesUp => answer' = Unanswered /\ ~Accepted'
    BY DEF GivesUp, Accepted, Unanswered, Reply, ReplyType, PlainCommand
  <1>8. AskedHere'
    BY <1>1, <1>6, <1>7
  <1>9. /\ \A C : Only(C) => Only(C)'
        /\ \A C : Without(C) => Without(C)'
    BY <1>4 DEF Only, Without
  <1>10. Channel'
    <2>1. Mixed => Mixed'
      BY <1>1, <1>2, <1>9 DEF Mixed
    <2> DEFINE A == Answers
    <2>2. A' = A /\ responseCommand \in A
      BY <1>1 DEF responseCommand, Answers
    <2>3. (Behind(A) => Behind(A)') /\ (Only(A) => Only(A)')
      BY <1>4, <1>9, <2>2 DEF Behind, Ordered, Arrived, OnTheWay, Only, InChannel
    <2>4. Accepts /\ Behind(A) => Only(A)'
      <3>1. Arrived' = {} /\ OnTheWay' = OnTheWay
        BY <1>2 DEF Arrived, OnTheWay
      <3> QED
        BY <1>6, <2>2, <3>1 DEF Behind, Only, InChannel
    <2>5. /\ Behind(A) \/ Mixed
          /\ pc # "end"
      BY <1>1 DEF RefusalInv, Dialog, Channel, Idle
    <2> HIDE DEF A
    <2>6. (Behind(Answers) \/ Mixed)' /\ (Accepted => Only(Answers) \/ Mixed)'
      <3>1. Behind(A)' \/ Mixed'
        BY <2>1, <2>3, <2>5
      <3>2. Accepted' => Only(A)' \/ Mixed'
        BY <1>7, <2>1, <2>4, <2>5
      <3> QED
        BY <3>1, <3>2 DEF A
    <2> QED
      BY <1>1, <1>2, <1>9, <2>6 DEF RefusalInv, Dialog, Channel, Idle
  <1>11. BytesTaken'
    <2>1. Accepted' /\ asked.command = "WRITE" =>
              \E r \in InChannel : r.command = "CALCULATE_CHECKSUM"
      BY <1>6, <1>7 DEF InChannel, responseCommand
    <2>2. (\E r \in InChannel' : r.command = "CALCULATE_CHECKSUM") =>
              \E r \in InChannel : r.command = "CALCULATE_CHECKSUM"
      BY <1>4
    <2> QED
      BY <1>2, <2>1, <2>2 DEF RefusalInv, Dialog, BytesTaken, ChipHasImage
  <1>12. Refusals'
    <2>1. answer' \in InChannel \/ answer'.command # "EXECUTE"
      BY <1>6, <1>7 DEF InChannel, Unanswered, Reply
    <2> QED
      BY <1>2, <1>4, <2>1 DEF RefusalInv, Dialog, Refusals
  <1> QED
    BY <1>1, <1>3, <1>8, <1>10, <1>11, <1>12 DEF RefusalInv, Dialog

-----------------------------------------------------------------------------
(* The steps of the update task.                                           *)

(* The dialog stands still while the update task works on the package.     *)
DialogStill ==
    /\ UNCHANGED <<package, asked, answer, mDfuPacketQueue, replies, older>>
    /\ UNCHANGED <<late, lost>>
    /\ chip' \in ChipType /\ ChipKeeps

LEMMA StillKeepsTypes ==
    ASSUME ChannelTypeOK, ChipKinds, DialogStill
    PROVE  /\ ChannelTypeOK' /\ ChipKinds'
           /\ (Accepted' <=> Accepted) /\ Answers' = Answers
           /\ InChannel' = InChannel
           /\ \A C : /\ Only(C)' <=> Only(C)
                     /\ Without(C)' <=> Without(C)
                     /\ Behind(C)' <=> Behind(C)
           /\ (Behind(Answers)' <=> Behind(Answers))
           /\ (Only(Answers)' <=> Only(Answers))
           /\ (ChipHasImage /\ image' = image => ChipHasImage')
  <1> USE DEF DialogStill
  <1>1. ChannelTypeOK'
    BY DEF ChannelTypeOK
  <1>2. ChipKinds'
    BY DEF ChipKinds, ChipKeeps, IsInit
  <1>3. (Accepted' <=> Accepted) /\ Answers' = Answers
    BY DEF Accepted, Answers, responseCommand
  <1>4. /\ InChannel' = InChannel /\ Arrived' = Arrived /\ OnTheWay' = OnTheWay
    BY DEF InChannel, Arrived, OnTheWay
  <1>5. \A C : /\ Only(C)' <=> Only(C)
               /\ Without(C)' <=> Without(C)
               /\ Behind(C)' <=> Behind(C)
    BY <1>4 DEF Only, Without, Behind
  <1>6. /\ Behind(Answers)' <=> Behind(Answers)
        /\ Only(Answers)' <=> Only(Answers)
    BY <1>3, <1>4 DEF Only, Behind, Ordered
  <1>7. ChipHasImage /\ image' = image => ChipHasImage'
    BY DEF ChipHasImage, ChipKeeps
  <1> QED
    BY <1>1, <1>2, <1>3, <1>4, <1>5, <1>6, <1>7

(* The update task goes on with its image and asks nothing.                *)
LEMMA StillKeepsDialog ==
    ASSUME RefusalInv, FitInv', DialogStill, image' = image,
           pc # "end", pc' \notin {"end", "execute"},
           AskedHere', GoingOn', Ignored'
    PROVE  RefusalInv'
  <1>1. /\ ChannelTypeOK' /\ ChipKinds'
        /\ (Accepted' <=> Accepted) /\ Answers' = Answers
        /\ InChannel' = InChannel
        /\ \A C : /\ Only(C)' <=> Only(C)
                  /\ Without(C)' <=> Without(C)
        /\ (Behind(Answers)' <=> Behind(Answers))
        /\ (Only(Answers)' <=> Only(Answers))
        /\ (ChipHasImage => ChipHasImage')
    BY StillKeepsTypes DEF RefusalInv
  <1>2. /\ UNCHANGED <<package, asked, answer, mDfuPacketQueue>>
    BY DEF DialogStill
  <1>3. (IsInit(image)' <=> IsInit(image)) /\ (IsData(image)' <=> IsData(image))
    BY <1>2 DEF IsInit, IsData
  <1>4. Channel'
    <2>1. Mixed' <=> Mixed
      BY <1>1, <1>2, <1>3 DEF Mixed
    <2> QED
      BY <1>1, <1>2, <1>3, <2>1 DEF RefusalInv, Dialog, Channel
  <1>5. BytesTaken'
    BY <1>1, <1>2 DEF RefusalInv, Dialog, BytesTaken
  <1>6. Refusals'
    BY DEF Refusals
  <1> QED
    BY <1>1, <1>4, <1>5, <1>6 DEF RefusalInv, Dialog

(* A new command is asked: what is left in the channel is not mistaken for *)
(* an answer to it.                                                        *)
LEMMA AskKeepsDialog ==
    ASSUME RefusalInv, FitInv', NEW cmd \in AskedType, Ask(cmd),
           UNCHANGED package,
           image' = image \/ (image' = image + 1 /\ cmd.command \in {"PING", "SELECT"}),
           cmd.command # "NONE", pc' # "end",
           AskedHere', GoingOn', Ignored',
           IF cmd.command = "WRITE"
           THEN Behind({"CALCULATE_CHECKSUM", "WRITE"})
           ELSE \/ Behind({cmd.command})
                \/ /\ cmd.command \in {"SELECT", "CREATE"}
                   /\ IsData(image') /\ Only({"SELECT", "CREATE"}),
           cmd.command \in InImage => Without({"PING"}),
           IsInit(image') =>
               /\ cmd.command = "CREATE" =>
                      Only({"SELECT", "CREATE"}) \/ Without({"SELECT"})
               /\ cmd.command \in {"WRITE", "EXECUTE"} => Without({"SELECT"}),
           cmd.command = "WRITE" /\ cmd.image = image =>
               \/ ChipHasImage
               \/ Without({"CALCULATE_CHECKSUM"}),
           pc' = "execute" =>
               /\ cmd.command = "EXECUTE" /\ ChipHasImage
               /\ Without({"EXECUTE"}) /\ image' = image
    PROVE  RefusalInv'
  <1>1. /\ asked' = cmd /\ answer' = Pending /\ send(cmd)
        /\ UNCHANGED <<package, older, late>>
        /\ package \in Packages /\ ChannelTypeOK /\ ChipKinds
    BY DEF Ask, RefusalInv, FitInv, Kinds
  <1>2. late' \in Nat
    BY <1>1 DEF ChannelTypeOK
  <1>3. cmd.command = "CREATE" =>
            /\ cmd.image \in 1..Len(package)
            /\ cmd.type = package[cmd.image].type
    <2>1. image' \in 0..Len(package) /\ Len(package) \in Nat
      BY <1>1, ImageFacts DEF FitInv, Kinds
    <2> QED
      BY <1>1, <2>1 DEF AskedHere
  <1>4. /\ ChannelTypeOK' /\ ChipKinds'
        /\ mDfuPacketQueue' = << >>
        /\ Answers' = IF cmd.command = "WRITE"
                      THEN {"CALCULATE_CHECKSUM", "WRITE"} ELSE {cmd.command}
        /\ \A r \in InChannel' : r \in InChannel \/ r.command \in Answers'
        /\ \A C : Answers' \subseteq C /\ Behind(C) => Behind(C)'
    BY <1>1, <1>2, <1>3, SentKeeps
  <1>5. ~Accepted'
    BY <1>1 DEF Accepted, Pending, Reply, ReplyType, PlainCommand
  <1>6. /\ (IsInit(image)' <=> IsInit(image')) /\ (IsData(image)' <=> IsData(image'))
    BY <1>1 DEF IsInit, IsData
  <1>7. /\ \A C : Answers' \subseteq C /\ Only(C) => Only(C)'
        /\ \A C : Without(C) /\ Answers' \cap C = {} => Without(C)'
    BY <1>4 DEF Only, Without
  <1>8. (Behind(Answers) \/ Mixed)'
    <2>1. CASE /\ cmd.command \in {"SELECT", "CREATE"}
               /\ IsData(image') /\ Only({"SELECT", "CREATE"})
      <3>1. Only({"SELECT", "CREATE"})'
        BY <1>4, <1>7, <2>1
      <3> QED
        BY <1>1, <1>6, <2>1, <3>1 DEF Mixed
    <2>2. CASE IF cmd.command = "WRITE"
               THEN Behind({"CALCULATE_CHECKSUM", "WRITE"})
               ELSE Behind({cmd.command})
      <3> DEFINE A == IF cmd.command = "WRITE"
                      THEN {"CALCULATE_CHECKSUM", "WRITE"} ELSE {cmd.command}
      <3>1. Answers' = A
        BY <1>4
      <3>2. Behind(A)
        <4>1. CASE cmd.command = "WRITE"
          BY <2>2, <4>1
        <4>2. CASE cmd.command # "WRITE"
          BY <2>2, <4>2
        <4> QED
          BY <4>1, <4>2
      <3> HIDE DEF A
      <3>3. Behind(A)'
        BY <1>4, <3>1, <3>2
      <3>4. A' = A
        BY <1>1 DEF A
      <3>5. (Answers = A)'
        BY <3>1, <3>4
      <3> QED
        BY <3>3, <3>5
    <2> QED
      BY <2>1, <2>2
  <1>9. Channel'
    <2>1. cmd.command \in InImage => Without({"PING"})'
      BY <1>4, <1>7 DEF InImage
    <2>2. IsInit(image') =>
              /\ cmd.command = "CREATE" =>
                     Only({"SELECT", "CREATE"})' \/ Without({"SELECT"})'
              /\ cmd.command \in {"WRITE", "EXECUTE"} => Without({"SELECT"})'
      BY <1>4, <1>7
    <2> QED
      BY <1>1, <1>4, <1>5, <1>6, <1>8, <2>1, <2>2 DEF Channel
  <1>10. BytesTaken'
    <2>1. ASSUME cmd.command = "WRITE", cmd.image = image',
                 \E r \in InChannel' : r.command = "CALCULATE_CHECKSUM"
          PROVE  ChipHasImage'
      <3>1. \/ ChipHasImage
            \/ \A r \in InChannel : r.command # "CALCULATE_CHECKSUM"
        BY <2>1 DEF Without
      <3> QED
        BY <1>1, <2>1, <3>1, WriteKeepsBytes
    <2>2. pc' = "execute" => ChipHasImage'
      BY <1>1, ExecuteRefused
    <2> QED
      BY <1>1, <1>5, <2>1, <2>2 DEF BytesTaken
  <1>11. Refusals'
    <2> SUFFICES ASSUME pc' = "execute" PROVE Refusals'
      BY DEF Refusals
    <2>1. \A r \in InChannel' : r.code = "FW_VERSION_FAILURE" =>
              r \in InChannel \/ image \in older
      BY <1>1, ExecuteRefused
    <2>2. answer'.command # "EXECUTE" /\ \A r \in InChannel : r.command # "EXECUTE"
      BY <1>1 DEF Pending, Reply, Without
    <2> QED
      BY <1>1, <2>1, <2>2 DEF Refusals
  <1> QED
    BY <1>4, <1>9, <1>10, <1>11 DEF RefusalInv, Dialog

(* What Ask is given is a command, and it is the one that is asked.        *)
LEMMA PlainAsked ==
    ASSUME NEW command \in PlainCommand
    PROVE  /\ Plain(command) \in AskedType
           /\ Plain(command).command = command
  BY DEF Plain, AskedType

LEMMA PlaceFacts ==
    ASSUME RefusalInv
    PROVE  /\ package \in Packages /\ image \in 0..Len(package)
           /\ Len(package) \in Nat /\ asked \in AskedType
           /\ chip \in ChipType
           /\ answer \in {Pending, Unanswered} \/ Accepted
           /\ answer.code = "SUCCESS" => Accepted
           /\ answer.code = "FW_VERSION_FAILURE" => Accepted
           /\ pc \in Idle => answer # Pending
           /\ answer # Pending /\ pc # "end" => mDfuPacketQueue = << >>
           /\ image # 0 => Size = package[image].size /\ Type = package[image].type
  <1>1. package \in Packages /\ image \in 0..Len(package)
    BY DEF RefusalInv, FitInv, Kinds
  <1>2. Len(package) \in Nat
    BY <1>1, ImageFacts
  <1>3. asked \in AskedType /\ chip \in ChipType
    BY DEF RefusalInv, ChannelTypeOK
  <1>4. /\ answer \in {Pending, Unanswered} \/ Accepted
        /\ pc \in Idle => answer # Pending
    BY DEF RefusalInv, Dialog, AskedHere
  <1>5. /\ answer.code = "SUCCESS" => Accepted
        /\ answer.code = "FW_VERSION_FAILURE" => Accepted
    BY <1>4 DEF Pending, Unanswered, Reply
  <1>6. answer # Pending /\ pc # "end" => mDfuPacketQueue = << >>
    BY DEF RefusalInv, Dialog, Channel
  <1> QED
    BY <1>1, <1>2, <1>3, <1>4, <1>5, <1>6 DEF Size, Type

LEMMA ChipStill ==
    ASSUME chip \in ChipType,
           \/ UNCHANGED chip
           \/ \E mode \in {"application", "restarting", "dfu", "silent"} :
                  chip' = [chip EXCEPT !.mode = mode]
    PROVE  chip' \in ChipType /\ ChipKeeps
  <1>1. CASE UNCHANGED chip
    BY <1>1 DEF ChipKeeps
  <1>2. CASE \E mode \in {"application", "restarting", "dfu", "silent"} :
                 chip' = [chip EXCEPT !.mode = mode]
    BY <1>2, ModeOnly
  <1> QED
    BY <1>1, <1>2

LEMMA OrderDfuKeepsDialog ==
    ASSUME RefusalInv, FitInv', enterDfu \/ forceDfu
    PROVE  RefusalInv'
  <1>1. /\ UNCHANGED <<parseVars, bufferVars, objectVars, callVars,
                        mDfuPacketQueue, older, replies, late, lost>>
        /\ \/ pc = "init" /\ pc' = "entering"
           \/ pc = "force" /\ pc' = "forcing"
        /\ chipMayRestart
    BY DEF enterDfu, forceDfu, OrderDfu
  <1> USE DEF parseVars, bufferVars, objectVars, callVars
  <1>2. chip' \in ChipType /\ ChipKeeps
    <2>1. chip \in ChipType
      BY PlaceFacts
    <2> DEFINE next == IF chip.mode = "application" THEN "restarting" ELSE chip.mode
    <2>2. next \in {"application", "restarting", "dfu", "silent"}
      BY <2>1 DEF ChipType
    <2>3. chip' = chip \/ chip' = [chip EXCEPT !.mode = next]
      BY <1>1 DEF chipMayRestart
    <2> HIDE DEF next
    <2> QED
      BY <2>1, <2>2, <2>3, ChipStill
  <1>3. DialogStill
    BY <1>1, <1>2 DEF DialogStill
  <1>4. (Accepted' <=> Accepted)
    BY <1>1 DEF Accepted, responseCommand
  <1>5. AskedHere'
    BY <1>1, <1>4 DEF RefusalInv, Dialog, AskedHere, Idle, Pings, BeforePackage
  <1>6. GoingOn' /\ Ignored'
    BY <1>1 DEF RefusalInv, Dialog, GoingOn, Ignored, IsData
  <1> QED
    BY <1>1, <1>3, <1>5, <1>6, StillKeepsDialog

LEMMA WaitEnteredDfuKeepsDialog ==
    ASSUME RefusalInv, FitInv', waitEnteredDfu
    PROVE  RefusalInv'
  <1>1. /\ UNCHANGED <<parseVars, bufferVars, objectVars>>
        /\ \/ pc = "entering" /\ pc' = "ping"
           \/ pc = "forcing" /\ pc' = "pingForced"
           \/ pc = "reentering" /\ pc' = "pingAgain"
        /\ Ask(Plain("PING"))
    BY DEF waitEnteredDfu
  <1> USE DEF parseVars, bufferVars, objectVars
  <1>2. Plain("PING") \in AskedType /\ Plain("PING").command = "PING"
    BY PlainAsked DEF PlainCommand
  <1>3. asked' = Plain("PING") /\ answer' = Pending /\ UNCHANGED older
    BY <1>1 DEF Ask
  <1>4. AskedHere' /\ GoingOn' /\ Ignored'
    <2>1. AskedHere'
      BY <1>1, <1>2, <1>3
         DEF RefusalInv, Dialog, AskedHere, Idle, Pings, BeforePackage
    <2>2. GoingOn' /\ Ignored'
      BY <1>1, <1>3 DEF RefusalInv, Dialog, GoingOn, Ignored, IsData
    <2> QED
      BY <2>1, <2>2
  <1>5. CASE asked.command = "NONE"
    <2>1. Without({"PING"})
      BY <1>1, <1>5 DEF RefusalInv, Dialog, Channel, Only, Without
    <2> QED
      BY <1>1, <1>2, <1>4, <2>1, BehindFromWithout, AskKeepsDialog DEF InImage
  <1>6. CASE asked.command = "PING"
    <2>1. Behind({"PING"})
      <3>1. Behind(Answers)
        BY <1>1, <1>6 DEF RefusalInv, Dialog, Channel, Mixed
      <3>2. Answers = {"PING"}
        BY <1>6 DEF Answers
      <3> QED
        BY <3>1, <3>2
    <2> QED
      BY <1>1, <1>2, <1>4, <2>1, AskKeepsDialog DEF InImage
  <1> QED
    BY <1>1, <1>5, <1>6 DEF RefusalInv, Dialog, AskedHere

(* The update task works on the package: what it asked last stays asked.   *)
LEMMA WorkKeepsAsked ==
    ASSUME RefusalInv, DialogStill, image' = image, answer # Pending,
           pc' \in {"read", "parse", "push", "pushed", "packet"}
    PROVE  /\ pc # "end" => AskedHere'
           /\ mCurrentObjectOffset' = mCurrentObjectOffset => (Going' <=> Going)
           /\ (Accepted' <=> Accepted)
           /\ mIgnoreNextFirmware' = mIgnoreNextFirmware => Ignored'
  <1>1. (Accepted' <=> Accepted)
    BY DEF DialogStill, Accepted, responseCommand
  <1>2. UNCHANGED <<asked, answer, package, older>>
    BY DEF DialogStill
  <1>3. AskedHere'
    BY <1>1, <1>2
       DEF RefusalInv, Dialog, AskedHere, Idle, Pings, BeforePackage
  <1>4. mCurrentObjectOffset' = mCurrentObjectOffset => (Going' <=> Going)
    BY <1>1, <1>2 DEF Going
  <1>5. mIgnoreNextFirmware' = mIgnoreNextFirmware => Ignored'
    BY <1>2 DEF RefusalInv, Dialog, Ignored, IsData
  <1> QED
    BY <1>1, <1>3, <1>4, <1>5

LEMMA InitUpdateKeepsDialog ==
    ASSUME RefusalInv, FitInv', initUpdate
    PROVE  RefusalInv'
  <1>1. /\ UNCHANGED <<parseVars, bufferVars, objectVars>>
        /\ pc \in {"ping", "pingForced"} /\ answer # Pending
        /\ \/ Succeeded /\ pc' = "read" /\ UNCHANGED <<callVars, channelVars>>
           \/ pc' = "force" /\ UNCHANGED <<callVars, channelVars>>
           \/ Stop("UNEXPECTED")
    BY DEF initUpdate, GoesOn
  <1> USE DEF parseVars, bufferVars, objectVars, callVars, channelVars
  <1>2. asked.command = "PING" /\ image = 0 /\ chip \in ChipType
    BY <1>1, PlaceFacts DEF RefusalInv, Dialog, AskedHere, Pings, BeforePackage
  <1>3. CASE Stop("UNEXPECTED")
    <2>1. Ignored'
      BY <1>1 DEF RefusalInv, Dialog, Ignored, IsData, Stop
    <2> QED
      BY <1>1, <1>3, <2>1, StopKeepsDialog DEF Stop, RefusalInv
  <1>4. CASE UNCHANGED <<callVars, channelVars>>
    <2>1. DialogStill
      BY <1>1, <1>2, <1>4 DEF DialogStill, ChipKeeps
    <2>2. CASE pc' = "read"
      <3>1. AskedHere' /\ (Accepted' <=> Accepted) /\ Ignored'
        BY <1>1, <2>1, <2>2, WorkKeepsAsked
      <3>2. Accepted
        BY <1>1, <2>2, PlaceFacts DEF Succeeded, Stop
      <3>3. GoingOn'
        <4>1. mCurrentState' # "FIRMWARE"
          BY <1>1 DEF RefusalInv, FitInv, AtRest, BeforePackage
        <4> QED
          BY <1>2, <1>4, <1>1, <2>2, <3>1, <3>2, <4>1 DEF GoingOn
      <3> QED
        BY <1>1, <2>1, <2>2, <3>1, <3>3, StillKeepsDialog
    <2>3. CASE pc' = "force"
      <3>1. (Accepted' <=> Accepted)
        BY <1>4 DEF Accepted, responseCommand
      <3>2. AskedHere'
        BY <1>1, <1>2, <1>4, <2>3, <3>1
           DEF RefusalInv, Dialog, AskedHere, Idle, Pings, BeforePackage
      <3>3. GoingOn' /\ Ignored'
        BY <1>1, <1>4, <2>3 DEF RefusalInv, Dialog, GoingOn, Ignored, IsData
      <3> QED
        BY <1>1, <2>1, <2>3, <3>2, <3>3, StillKeepsDialog
    <2> QED
      BY <1>1, <1>3, <2>2, <2>3
  <1> QED
    BY <1>1, <1>3, <1>4

LEMMA ChunkKeepsDialog ==
    ASSUME RefusalInv, FitInv',
           \/ writeFirmware \/ EndChunk \/ NextHeader
           \/ SplitHeader \/ SpoiltHeader
    PROVE  RefusalInv'
  <1>1. /\ UNCHANGED <<package, image, mFirmwareOffset, bufferVars, objectVars>>
        /\ pc \in {"read", "parse"}
        /\ \/ /\ pc' \in {"read", "parse"}
              /\ UNCHANGED <<callVars, channelVars>>
              /\ mCurrentState' = "FIRMWARE" => mCurrentState = "FIRMWARE"
              /\ mCurrentState' = "FIRMWARE" /\ Exhausted => Exhausted'
           \/ \E outcome : Stop(outcome)
    <2>1. CASE writeFirmware
      <3>1. package \in Packages /\ streamed \in Nat
        BY DEF RefusalInv, FitInv, Kinds
      <3>2. TotalLen \in Nat
        BY <3>1, ImageFacts
      <3>3. CASE streamed < TotalLen
        <4>1. ~Exhausted /\ streamed # TotalLen
          BY <3>1, <3>2, <3>3 DEF Exhausted
        <4> QED
          BY <2>1, <4>1 DEF writeFirmware
      <3>4. CASE streamed = TotalLen
        <4>1. ~(streamed < TotalLen)
          BY <3>1, <3>2, <3>4
        <4>2. Stop("SUCCESS")
          BY <2>1, <4>1 DEF writeFirmware
        <4> QED
          BY <2>1, <4>2 DEF writeFirmware
      <3> QED
        BY <2>1, <3>3, <3>4 DEF writeFirmware
    <2>2. CASE EndChunk
      BY <2>2 DEF EndChunk, parseVars, Exhausted, TotalLen
    <2>3. CASE NextHeader
      BY <2>3 DEF NextHeader
    <2>4. CASE SplitHeader
      BY <2>4 DEF SplitHeader, InHeader
    <2>5. CASE SpoiltHeader
      BY <2>5 DEF SpoiltHeader, InHeader, parseVars
    <2> QED
      BY <2>1, <2>2, <2>3, <2>4, <2>5
  <1> USE DEF bufferVars, objectVars, callVars, channelVars
  <1>2. chip \in ChipType /\ answer # Pending
    BY <1>1, PlaceFacts DEF Idle
  <1>3. CASE \E outcome : Stop(outcome)
    <2>1. Ignored'
      BY <1>1, <1>3 DEF RefusalInv, Dialog, Ignored, IsData, Stop
    <2> QED
      BY <1>1, <1>3, <2>1, StopKeepsDialog DEF Stop, RefusalInv
  <1>4. CASE /\ pc' \in {"read", "parse"}
             /\ UNCHANGED <<callVars, channelVars>>
             /\ mCurrentState' = "FIRMWARE" => mCurrentState = "FIRMWARE"
             /\ mCurrentState' = "FIRMWARE" /\ Exhausted => Exhausted'
    <2>1. DialogStill
      BY <1>1, <1>2, <1>4 DEF DialogStill, ChipKeeps
    <2>2. /\ AskedHere' /\ (Accepted' <=> Accepted) /\ (Going' <=> Going)
          /\ Ignored'
      BY <1>1, <1>2, <1>4, <2>1, WorkKeepsAsked
    <2>3. GoingOn'
      BY <1>1, <1>4, <2>2 DEF RefusalInv, Dialog, GoingOn
    <2> QED
      BY <1>1, <1>4, <2>1, <2>2, <2>3, StillKeepsDialog
  <1> QED
    BY <1>1, <1>3, <1>4

LEMMA ReadHeaderKeepsDialog ==
    ASSUME RefusalInv, FitInv', ReadHeader
    PROVE  RefusalInv'
  <1>1. /\ pc = "parse" /\ image' = image + 1 /\ mCurrentState' = "FIRMWARE"
        /\ buffered' = 0 /\ mCurrentObjectOffset' = 0 /\ UNCHANGED package
        /\ onManifest(package[image'])
    BY DEF ReadHeader, InHeader, onManifest
  <1>2. /\ image' \in 1..Len(package) /\ image \in Nat /\ image' # 0
        /\ package \in Packages
    BY <1>1, PlaceFacts DEF FitInv, Kinds
  <1>3. /\ image # 0 => asked.command \in InImage
        /\ image # 0 /\ asked.command = "SELECT" => Accepted
        /\ image = 0 => asked.command = "PING" /\ Accepted
        /\ answer # Pending /\ chip \in ChipType
    BY <1>1, PlaceFacts DEF RefusalInv, Dialog, GoingOn, Idle
  <1>4. /\ \A i : (IsInit(i)' <=> IsInit(i)) /\ (IsData(i)' <=> IsData(i))
        /\ (IsInit(image)' <=> IsInit(image')) /\ (IsData(image)' <=> IsData(image'))
    BY <1>1 DEF IsInit, IsData
  <1>5. IsData(image') => image # 0 /\ IsInit(image) /\ ~IsData(image) /\ ~Mixed
    <2> SUFFICES ASSUME IsData(image')
                 PROVE  image # 0 /\ IsInit(image) /\ ~IsData(image) /\ ~Mixed
      OBVIOUS
    <2>1. image' > 1 /\ IsInit(image' - 1)
      BY <1>2, ImagesTakeTurns
    <2>2. image # 0 /\ IsInit(image)
      BY <1>1, <1>2, <2>1
    <2>3. ~IsData(image)
      BY <1>2, <2>2, ImagesTakeTurns
    <2> QED
      BY <2>2, <2>3 DEF Mixed
  <1>6. CASE /\ package[image'].type = "FIRMWARE_DATA" /\ mIgnoreNextFirmware
             /\ pc' = "parse" /\ mIgnoreNextFirmware'
             /\ UNCHANGED <<callVars, channelVars>>
    <2> USE DEF callVars, channelVars
    <2>1. IsData(image')
      BY <1>2, <1>6 DEF IsData
    <2>2. DialogStill
      BY <1>1, <1>3, <1>6 DEF DialogStill, ChipKeeps
    <2>3. /\ ChannelTypeOK' /\ ChipKinds'
          /\ (Accepted' <=> Accepted) /\ InChannel' = InChannel
          /\ \A C : /\ Only(C)' <=> Only(C)
                    /\ Without(C)' <=> Without(C)
          /\ (Behind(Answers)' <=> Behind(Answers))
          /\ (Only(Answers)' <=> Only(Answers))
      BY <2>2, StillKeepsTypes DEF RefusalInv
    <2>4. /\ asked.command \in {"CREATE", "WRITE"} => asked.image \in 1..image
          /\ asked.command = "CREATE" => asked.type = package[asked.image].type
      BY DEF RefusalInv, Dialog, AskedHere
    <2>5. AskedHere'
      <3>1. /\ asked'.command \in {"CREATE", "WRITE"} => asked'.image \in 1..image'
            /\ asked'.command = "CREATE" => asked'.type = package[asked'.image].type
        BY <1>1, <1>2, <1>6, <2>4
      <3>2. answer' \in {Pending, Unanswered} \/ Accepted'
        BY <1>6, <2>3, PlaceFacts
      <3> QED
        BY <1>1, <1>3, <1>6, <3>1, <3>2 DEF AskedHere, Idle, Pings, BeforePackage
    <2>6. GoingOn'
      BY <1>1, <1>2, <1>3, <1>5, <1>6, <2>1, <2>3 DEF GoingOn
    <2>7. Ignored'
      <3>1. image \in older
        BY <1>5, <1>6, <2>1 DEF RefusalInv, Dialog, Ignored
      <3>2. image' - 1 = image /\ image' # 0
        BY <1>1, <1>2
      <3> QED
        BY <1>4, <1>6, <2>1, <3>1, <3>2 DEF Ignored
    <2>8. Channel'
      <3>1. ~IsInit(image')
        BY <1>2, <2>1, ImagesTakeTurns
      <3>2. /\ answer # Pending => mDfuPacketQueue = << >>
            /\ asked.command = "NONE" => Only({})
            /\ Behind(Answers)
            /\ Accepted => Only(Answers)
            /\ asked.command \in InImage => Without({"PING"})
        BY <1>1, <1>5, <2>1 DEF RefusalInv, Dialog, Channel
      <3> QED
        BY <1>4, <1>6, <2>3, <3>1, <3>2 DEF Channel
    <2>9. BytesTaken' /\ Refusals'
      <3>1. asked'.command = "WRITE" => asked'.image # image'
        BY <1>1, <1>2, <1>6, <2>4
      <3> QED
        BY <1>6, <3>1 DEF BytesTaken, Refusals
    <2> QED
      BY <2>3, <2>5, <2>6, <2>7, <2>8, <2>9 DEF RefusalInv, Dialog
  <1>7. CASE /\ package[image'].type = "FIRMWARE_DATA" /\ ~mIgnoreNextFirmware
             /\ pc' = "select" /\ ~mIgnoreNextFirmware'
             /\ Ask(Plain("SELECT"))
    <2>1. IsData(image')
      BY <1>2, <1>7 DEF IsData
    <2>2. Plain("SELECT") \in AskedType /\ Plain("SELECT").command = "SELECT"
      BY PlainAsked DEF PlainCommand
    <2>3. asked' = Plain("SELECT") /\ answer' = Pending
      BY <1>7 DEF Ask
    <2>4. AskedHere' /\ GoingOn' /\ Ignored'
      BY <1>2, <1>7, <2>2, <2>3
         DEF AskedHere, GoingOn, Ignored, Idle, Pings, BeforePackage
    <2>5. Without({"PING"})
      BY <1>1, <1>3, <1>5, <2>1 DEF RefusalInv, Dialog, Channel
    <2>6. Behind({"SELECT"}) \/ Only({"SELECT", "CREATE"})
      <3>1. CASE asked.command = "SELECT"
        <4>1. Only(Answers) /\ Answers = {"SELECT"}
          BY <1>1, <1>3, <1>5, <2>1, <3>1 DEF RefusalInv, Dialog, Channel, Answers
        <4> QED
          BY <4>1, BehindFromOnly
      <3>2. CASE asked.command \in {"CREATE", "WRITE", "EXECUTE"}
        <4>1. Only({"SELECT", "CREATE"}) \/ Without({"SELECT"})
          BY <1>1, <1>5, <2>1, <3>2 DEF RefusalInv, Dialog, Channel
        <4> QED
          BY <4>1, BehindFromWithout
      <3> QED
        BY <1>3, <1>5, <2>1, <3>1, <3>2 DEF InImage
    <2> QED
      BY <1>1, <1>7, <2>1, <2>2, <2>4, <2>5, <2>6, AskKeepsDialog
  <1>8. CASE /\ pc' = "pingDfu" /\ ~mIgnoreNextFirmware'
             /\ Ask(Plain("PING"))
    <2>1. Plain("PING") \in AskedType /\ Plain("PING").command = "PING"
      BY PlainAsked DEF PlainCommand
    <2>2. asked' = Plain("PING") /\ answer' = Pending
      BY <1>8 DEF Ask
    <2>3. AskedHere' /\ GoingOn' /\ Ignored'
      BY <1>2, <1>8, <2>1, <2>2
         DEF AskedHere, GoingOn, Ignored, Idle, Pings, BeforePackage
    <2>4. Behind({"PING"})
      <3>1. CASE image = 0
        <4>1. Only(Answers) /\ Answers = {"PING"}
          BY <1>1, <1>3, <3>1 DEF RefusalInv, Dialog, Channel, Answers, Mixed
        <4> QED
          BY <4>1, BehindFromOnly
      <3>2. CASE image # 0
        <4>1. Without({"PING"})
          BY <1>1, <1>3, <3>2 DEF RefusalInv, Dialog, Channel
        <4> QED
          BY <4>1, BehindFromWithout
      <3> QED
        BY <3>1, <3>2
    <2> QED
      BY <1>1, <1>8, <2>1, <2>3, <2>4, AskKeepsDialog DEF InImage
  <1> QED
    BY <1>1, <1>6, <1>7, <1>8 DEF onManifest

LEMMA ManifestAnsweredKeepsDialog ==
    ASSUME RefusalInv, FitInv', ManifestAnswered
    PROVE  RefusalInv'
  <1>1. /\ UNCHANGED <<parseVars, bufferVars, mCurrentObjectOffset,
                        mIgnoreNextFirmware>>
        /\ answer # Pending /\ pc \in BeforeImage
        /\ \/ Succeeded /\ pc \in {"pingDfu", "pingAgain"}
              /\ pc' = "mtu" /\ Ask(Plain("MTU"))
           \/ Succeeded /\ pc = "mtu" /\ pc' = "prn" /\ Ask(Plain("PRN"))
           \/ Succeeded /\ pc = "prn" /\ pc' = "select" /\ Ask(Plain("SELECT"))
           \/ Succeeded /\ pc = "select" /\ pc' = "parse"
              /\ UNCHANGED <<callVars, channelVars>>
           \/ pc = "pingDfu" /\ pc' = "reentering"
              /\ UNCHANGED <<callVars, channelVars>>
           \/ Stop("WRITE")
    BY DEF ManifestAnswered, GoesOn, BeforeImage
  <1> USE DEF parseVars, bufferVars
  <1>2. /\ chip \in ChipType /\ image # 0 /\ mCurrentObjectOffset = 0
        /\ Succeeded => Accepted
    BY <1>1, PlaceFacts DEF RefusalInv, FitInv, AtRest, Position, Succeeded
  <1>3. Ignored'
    <2>1. UNCHANGED older
      BY <1>1 DEF channelVars, Ask, Stop
    <2> QED
      BY <1>1, <2>1 DEF RefusalInv, Dialog, Ignored, IsData
  <1>4. Accepted => Only(Answers) \/ Mixed
    BY <1>1 DEF RefusalInv, Dialog, Channel, BeforeImage
  <1>5. ASSUME NEW command \in {"MTU", "PRN", "SELECT"},
               pc' \in {"mtu", "prn", "select"}, Ask(Plain(command)),
               pc' = "mtu" => command = "MTU", pc' = "prn" => command = "PRN",
               pc' = "select" => command = "SELECT",
               Without({command}), Without({"PING"}) \/ command # "SELECT"
        PROVE  RefusalInv'
    <2>1. Plain(command) \in AskedType /\ Plain(command).command = command
      BY PlainAsked DEF PlainCommand
    <2>2. asked' = Plain(command) /\ answer' = Pending
      BY <1>5 DEF Ask
    <2>3. AskedHere' /\ GoingOn'
      BY <1>5, <2>1, <2>2 DEF AskedHere, GoingOn, Idle, Pings, BeforePackage
    <2> QED
      BY <1>1, <1>3, <1>5, <2>1, <2>3, BehindFromWithout, AskKeepsDialog DEF InImage
  <1>6. CASE /\ Succeeded /\ pc \in {"pingDfu", "pingAgain"}
             /\ pc' = "mtu" /\ Ask(Plain("MTU"))
    <2>1. asked.command = "PING"
      BY <1>6 DEF RefusalInv, Dialog, AskedHere, Pings
    <2>2. Only({"PING"})
      BY <1>2, <1>4, <1>6, <2>1 DEF Answers, Mixed
    <2> QED
      BY <1>5, <1>6, <2>2 DEF Only, Without
  <1>7. CASE Succeeded /\ pc = "mtu" /\ pc' = "prn" /\ Ask(Plain("PRN"))
    <2>1. asked.command = "MTU"
      BY <1>7 DEF RefusalInv, Dialog, AskedHere
    <2>2. Only({"MTU"})
      BY <1>2, <1>4, <1>7, <2>1 DEF Answers, Mixed
    <2> QED
      BY <1>5, <1>7, <2>2 DEF Only, Without
  <1>8. CASE Succeeded /\ pc = "prn" /\ pc' = "select" /\ Ask(Plain("SELECT"))
    <2>1. asked.command = "PRN"
      BY <1>8 DEF RefusalInv, Dialog, AskedHere
    <2>2. Only({"PRN"})
      BY <1>2, <1>4, <1>8, <2>1 DEF Answers, Mixed
    <2> QED
      BY <1>5, <1>8, <2>2 DEF Only, Without
  <1>9. CASE /\ Succeeded /\ pc = "select" /\ pc' = "parse"
             /\ UNCHANGED <<callVars, channelVars>>
    <2> USE DEF callVars, channelVars
    <2>1. DialogStill
      BY <1>1, <1>2, <1>9 DEF DialogStill, ChipKeeps
    <2>2. AskedHere' /\ (Going' <=> Going) /\ (Accepted' <=> Accepted)
      BY <1>1, <1>9, <2>1, WorkKeepsAsked
    <2>3. asked.command = "SELECT"
      BY <1>9 DEF RefusalInv, Dialog, AskedHere
    <2>4. Going
      BY <1>2, <1>9, <2>3 DEF Going
    <2>5. GoingOn'
      BY <1>1, <1>2, <1>9, <2>2, <2>3, <2>4 DEF GoingOn, InImage
    <2> QED
      BY <1>1, <1>3, <1>9, <2>1, <2>2, <2>5, StillKeepsDialog
  <1>10. CASE pc = "pingDfu" /\ pc' = "reentering" /\ UNCHANGED <<callVars, channelVars>>
    <2> USE DEF callVars, channelVars
    <2>1. DialogStill
      BY <1>1, <1>2, <1>10 DEF DialogStill, ChipKeeps
    <2>2. (Accepted' <=> Accepted)
      BY <1>10 DEF Accepted, responseCommand
    <2>3. AskedHere'
      BY <1>1, <1>10, <2>2
         DEF RefusalInv, Dialog, AskedHere, Idle, Pings, BeforePackage
    <2>4. GoingOn'
      BY <1>10 DEF GoingOn
    <2> QED
      BY <1>1, <1>3, <1>10, <2>1, <2>3, <2>4, StillKeepsDialog
  <1>11. CASE Stop("WRITE")
    BY <1>1, <1>3, <1>11, StopKeepsDialog DEF Stop, channelVars, RefusalInv, BeforeImage
  <1> QED
    BY <1>1, <1>6, <1>7, <1>8, <1>9, <1>10, <1>11

LEMMA FirmwareKeepsDialog ==
    ASSUME RefusalInv, FitInv', onFirmware \/ pushBack
    PROVE  RefusalInv'
  <1>1. /\ UNCHANGED <<package, image, mCurrentState, objectVars, callVars, channelVars>>
        /\ pc \in {"parse", "push"} /\ pc' \in {"push", "packet", "pushed"}
    BY DEF onFirmware, pushBack, parseVars
  <1> USE DEF callVars, channelVars, objectVars
  <1>2. chip \in ChipType /\ answer # Pending
    BY <1>1, PlaceFacts DEF Idle
  <1>3. DialogStill
    BY <1>1, <1>2 DEF DialogStill, ChipKeeps
  <1>4. AskedHere' /\ (Going' <=> Going) /\ (Accepted' <=> Accepted) /\ Ignored'
    BY <1>1, <1>2, <1>3, WorkKeepsAsked
  <1>5. CASE onFirmware
    <2>1. /\ pc = "parse" /\ mCurrentState = "FIRMWARE"
          /\ \/ mIgnoreNextFirmware /\ pc' = "pushed" /\ UNCHANGED buffered
             \/ ~mIgnoreNextFirmware /\ pc' = "push"
      BY <1>5 DEF onFirmware
    <2>0. ~Exhausted
      BY <1>5 DEF onFirmware, Exhausted
    <2>2. /\ Going \/ (mIgnoreNextFirmware /\ buffered = 0)
          /\ image # 0
          /\ asked.command \in InImage
          /\ asked.command = "SELECT" => Accepted
      BY <2>0, <2>1 DEF RefusalInv, FitInv, Position, Dialog, GoingOn
    <2>3. mIgnoreNextFirmware => mIgnoreNextFirmware'
      BY <1>1
    <2>4. GoingOn'
      BY <1>1, <1>4, <2>1, <2>2, <2>3 DEF GoingOn
    <2> QED
      BY <1>1, <1>3, <1>4, <2>4, StillKeepsDialog
  <1>6. CASE pushBack
    <2>1. pc = "push" /\ pc' \in {"packet", "pushed"}
      BY <1>6 DEF pushBack
    <2>2. Going /\ asked.command \in InImage /\ Accepted
      BY <2>1 DEF RefusalInv, Dialog, GoingOn, Going, InImage
    <2>3. GoingOn'
      BY <1>1, <1>4, <2>1, <2>2 DEF GoingOn
    <2> QED
      BY <1>1, <1>3, <1>4, <2>3, StillKeepsDialog
  <1> QED
    BY <1>5, <1>6

LEMMA FirmwareTakenKeepsDialog ==
    ASSUME RefusalInv, FitInv', FirmwareTaken
    PROVE  RefusalInv'
  <1>1. /\ UNCHANGED <<package, image, streamed, unread, buffered, objectVars>>
        /\ pc = "pushed"
        /\ \/ /\ mFirmwareOffset < Size /\ toPush = 0 /\ pc' = "parse"
              /\ UNCHANGED <<mCurrentState, callVars, channelVars>>
           \/ Stop("WRITE")
           \/ /\ mCurrentState' = "END"
              /\ IF buffered = 0 THEN pc' = "parse" ELSE pc' = "packet"
              /\ UNCHANGED <<callVars, channelVars>>
    BY DEF FirmwareTaken
  <1> USE DEF callVars, channelVars, objectVars
  <1>2. chip \in ChipType /\ answer # Pending /\ image # 0
    BY <1>1, PlaceFacts DEF Idle, RefusalInv, FitInv, Pushing, Position
  <1>3. /\ asked.command \in InImage
        /\ asked.command = "SELECT" => Accepted
        /\ \/ Going
           \/ /\ buffered = 0
              /\ \/ toPush # 0 \/ mFirmwareOffset = Size
                 \/ mIgnoreNextFirmware \/ Exhausted
        /\ Exhausted => Exhausted'
    BY <1>1, <1>2 DEF RefusalInv, Dialog, GoingOn, Exhausted, TotalLen
  <1>4. CASE Stop("WRITE")
    <2>1. Ignored'
      BY <1>1, <1>4 DEF RefusalInv, Dialog, Ignored, IsData, Stop
    <2> QED
      BY <1>1, <1>4, <2>1, StopKeepsDialog DEF Stop, RefusalInv
  <1>5. CASE pc' \in {"parse", "packet"} /\ UNCHANGED <<callVars, channelVars>>
    <2>1. DialogStill
      BY <1>1, <1>2, <1>5 DEF DialogStill, ChipKeeps
    <2>2. AskedHere' /\ (Going' <=> Going) /\ (Accepted' <=> Accepted) /\ Ignored'
      BY <1>1, <1>2, <1>5, <2>1, WorkKeepsAsked
    <2>3. GoingOn'
      <3>1. CASE /\ mFirmwareOffset < Size /\ toPush = 0 /\ pc' = "parse"
        <4>0. image \in 1..Len(package) /\ package \in Packages
          BY <1>2, PlaceFacts
        <4>1. Size \in Nat /\ mFirmwareOffset \in Nat
          BY <4>0, ImageFacts DEF RefusalInv, FitInv, Kinds, Size
        <4>2. Going \/ (mIgnoreNextFirmware /\ buffered = 0) \/ Exhausted
          BY <1>3, <3>1, <4>1
        <4>3. mIgnoreNextFirmware => mIgnoreNextFirmware'
          BY <1>1
        <4> QED
          BY <1>1, <1>2, <1>3, <1>5, <2>2, <3>1, <4>2, <4>3 DEF GoingOn
      <3>2. CASE /\ mCurrentState' = "END"
                 /\ IF buffered = 0 THEN pc' = "parse" ELSE pc' = "packet"
        BY <1>1, <1>2, <1>3, <1>5, <2>2, <3>2 DEF GoingOn
      <3> QED
        BY <1>1, <1>5, <3>1, <3>2 DEF Stop
    <2> QED
      BY <1>1, <1>5, <2>1, <2>2, <2>3, StillKeepsDialog
  <1> QED
    BY <1>1, <1>4, <1>5

(* A packet is done, whatever it came to.                                  *)
LEMMA PacketDoneKeepsDialog ==
    ASSUME RefusalInv, FitInv', pc \in {"create", "write", "execute"},
           answer # Pending, mCurrentObjectOffset' = mCurrentObjectOffset,
           NEW taken \in BOOLEAN, PacketDone(taken),
           taken => pc # "create" /\ Accepted,
           Ignored'
    PROVE  RefusalInv'
  <1>1. /\ UNCHANGED <<parseVars, via>>
        /\ buffered' = IF via = "direct" THEN buffered ELSE 0
        /\ toPush' = IF taken /\ via = "direct" THEN toPush - PacketLen ELSE toPush
        /\ \/ /\ taken \/ via # "partial"
              /\ pc' = CASE ~taken -> "pushed"
                         [] taken /\ via = "partial" -> "parse"
                         [] taken /\ via # "partial" -> "push"
              /\ UNCHANGED <<callVars, channelVars>>
           \/ ~taken /\ via = "partial" /\ Stop("WRITE")
    BY DEF PacketDone
  <1> USE DEF parseVars, callVars, channelVars
  <1>2. chip \in ChipType /\ image # 0
    <2>1. mCurrentState # "HEADER"
      BY DEF RefusalInv, FitInv, Kinds, InPacket, Sending
    <2> QED
      BY <2>1, PlaceFacts DEF RefusalInv, FitInv, Kinds, Position
  <1>3. /\ pc = "create" => asked.command = "CREATE"
        /\ pc = "write" => /\ asked.command = "WRITE" /\ asked.image = image
                           /\ mCurrentObjectOffset # 0
        /\ pc = "execute" => asked.command = "EXECUTE" /\ mCurrentObjectOffset = 0
    BY DEF RefusalInv, Dialog, AskedHere, FitInv, InPacket, Sending
  <1>4. CASE ~taken /\ via = "partial" /\ Stop("WRITE")
    BY <1>1, <1>4, StopKeepsDialog DEF Stop, RefusalInv
  <1>5. CASE /\ ~taken /\ via # "partial" /\ pc' = "pushed"
             /\ UNCHANGED <<callVars, channelVars>>
    <2>1. DialogStill
      BY <1>1, <1>2, <1>5 DEF DialogStill, ChipKeeps
    <2>2. AskedHere' /\ (Accepted' <=> Accepted)
      BY <1>1, <1>5, <2>1, WorkKeepsAsked
    <2>3. buffered' = 0 /\ (toPush' # 0 \/ mFirmwareOffset' = Size' \/ Exhausted')
      <3>1. /\ via = "flush" => (toPush = 0 => mFirmwareOffset = Size \/ Exhausted)
            /\ via = "direct" => buffered = 0 /\ toPush >= PacketLen
            /\ via \in {"flush", "direct", "partial"}
            /\ toPush \in 0..ChunkLen
        BY DEF RefusalInv, FitInv, Kinds, InPacket, Sending
      <3>2. /\ Size' = Size /\ mFirmwareOffset' = mFirmwareOffset
            /\ toPush' = toPush /\ (Exhausted' <=> Exhausted)
        BY <1>1, <1>5 DEF Size, Exhausted, TotalLen
      <3>3. via = "direct" => toPush # 0
        BY <3>1, Lengths
      <3> QED
        BY <1>1, <1>5, <3>1, <3>2, <3>3
    <2>4. GoingOn'
      BY <1>1, <1>2, <1>3, <1>5, <2>2, <2>3 DEF GoingOn, InImage
    <2> QED
      BY <1>1, <1>5, <2>1, <2>2, <2>4, StillKeepsDialog
  <1>6. CASE /\ taken /\ pc' = IF via = "partial" THEN "parse" ELSE "push"
             /\ UNCHANGED <<callVars, channelVars>>
    <2>1. DialogStill
      BY <1>1, <1>2, <1>6 DEF DialogStill, ChipKeeps
    <2>2. AskedHere' /\ (Going' <=> Going) /\ (Accepted' <=> Accepted)
      BY <1>1, <1>6, <2>1, WorkKeepsAsked
    <2>3. Going
      BY <1>3, <1>6 DEF Going
    <2>4. via = "partial" => mCurrentState = "END"
      BY DEF RefusalInv, FitInv, InPacket, Sending
    <2>5. GoingOn'
      BY <1>1, <1>2, <1>3, <1>6, <2>2, <2>3, <2>4 DEF GoingOn, InImage
    <2> QED
      BY <1>1, <1>6, <2>1, <2>2, <2>5, StillKeepsDialog
  <1>7. \/ ~taken /\ via = "partial" /\ Stop("WRITE")
        \/ /\ ~taken /\ via # "partial" /\ pc' = "pushed"
           /\ UNCHANGED <<callVars, channelVars>>
        \/ /\ taken /\ pc' = IF via = "partial" THEN "parse" ELSE "push"
           /\ UNCHANGED <<callVars, channelVars>>
    BY <1>1
  <1> QED
    BY <1>4, <1>5, <1>6, <1>7

(* A packet is written: replies to packets that are on their way are to    *)
(* packets of the same image.                                              *)
LEMMA WritePacketKeepsDialog ==
    ASSUME RefusalInv, FitInv', pc \in {"packet", "create"}, WritePacket,
           UNCHANGED <<parseVars, bufferVars, mIgnoreNextFirmware>>,
           \/ Only({"CALCULATE_CHECKSUM", "WRITE"}) /\ ChipHasImage
           \/ Without({"CALCULATE_CHECKSUM", "WRITE"}),
           Without({"PING"}), IsInit(image) => Without({"SELECT"})
    PROVE  RefusalInv'
  <1> DEFINE cmd == Write(PacketFrom, PacketSize)
  <1>1. /\ pc' = "write" /\ Ask(cmd)
        /\ mCurrentObjectOffset' = mCurrentObjectOffset + PacketSize
    BY DEF WritePacket
  <1> USE DEF parseVars, bufferVars
  <1>2. /\ via \in {"flush", "direct", "partial"}
        /\ buffered \in Nat /\ toPush \in Nat /\ mFirmwareOffset \in Nat
        /\ mCurrentObjectOffset \in Nat
        /\ via = "partial" => buffered # 0
        /\ mCurrentState # "HEADER"
        /\ image \in 1..Len(package) /\ package \in Packages
    <2>1. /\ via \in {"flush", "direct", "partial"}
          /\ buffered \in 0..PacketLen /\ toPush \in 0..ChunkLen
          /\ mFirmwareOffset \in Nat /\ mCurrentObjectOffset \in 0..ObjectLen
          /\ mCurrentState # "HEADER" /\ via = "partial" => buffered # 0
          /\ image \in 0..Len(package) /\ package \in Packages
          /\ mCurrentState \in {"HEADER", "FIRMWARE", "END"}
      BY DEF RefusalInv, FitInv, Kinds, InPacket, Sending
    <2>2. mCurrentState # "HEADER" /\ (via = "partial" => buffered # 0)
      BY <2>1 DEF RefusalInv, FitInv, Kinds, InPacket, Sending
    <2>3. image # 0
      BY <2>1, <2>2 DEF RefusalInv, FitInv, Position
    <2> QED
      BY <2>1, <2>2, <2>3, Lengths, ImageFacts
  <1>3. PacketSize \in Nat /\ PacketSize > 0
    BY <1>2, Lengths DEF PacketSize
  <1>4. PacketFrom \in Int
    <2>1. Size \in Nat
      BY <1>2, ImageFacts DEF Size
    <2>2. swallowed \in Nat
      BY Lengths DEF RefusalInv, FitInv, Kinds
    <2>3. PacketFrom \in {swallowed + (Size - buffered),
                         swallowed + (mFirmwareOffset - toPush - PacketLen),
                         swallowed + (mFirmwareOffset - toPush)}
      BY <1>2 DEF PacketFrom
    <2> QED
      BY <1>2, <2>1, <2>2, <2>3, Lengths
  <1>5. /\ cmd \in AskedType /\ cmd.command = "WRITE" /\ cmd.image = image
    BY <1>2, <1>3, <1>4 DEF Write, AskedType
  <1> HIDE DEF cmd
  <1>6. asked' = cmd /\ answer' = Pending /\ UNCHANGED older
    BY <1>1 DEF Ask
  <1>7. AskedHere'
    <2>1. mCurrentObjectOffset' # 0
      BY <1>1, <1>2, <1>3
    <2>2. image' \in 1..image'
      BY <1>2
    <2> QED
      BY <1>1, <1>5, <1>6, <2>1, <2>2
         DEF AskedHere, Idle, Pings, BeforePackage
  <1>8. GoingOn' /\ Ignored'
    BY <1>1, <1>6 DEF GoingOn, RefusalInv, Dialog, Ignored, IsData
  <1>9. Behind({"CALCULATE_CHECKSUM", "WRITE"})
    BY BehindFromOnly, BehindFromWithout
  <1>10. ChipHasImage \/ Without({"CALCULATE_CHECKSUM"})
    BY DEF Without
  <1> QED
    BY <1>1, <1>5, <1>7, <1>8, <1>9, <1>10, AskKeepsDialog DEF InImage

LEMMA BufferFullKeepsDialog ==
    ASSUME RefusalInv, FitInv', _bufferFull
    PROVE  RefusalInv'
  <1>1. /\ UNCHANGED <<parseVars, bufferVars>>
        /\ pc = "packet"
        /\ \/ Stop("assert") /\ UNCHANGED objectVars
           \/ /\ mCurrentObjectOffset = 0 /\ pc' = "create"
              /\ Ask([command |-> "CREATE", type |-> Type, image |-> image,
                      size |-> Least(mRemainingFirmwareSize, ObjectLen)])
              /\ UNCHANGED objectVars
           \/ /\ mCurrentObjectOffset # 0
              /\ WritePacket
              /\ UNCHANGED mIgnoreNextFirmware
    BY DEF _bufferFull
  <1>2. /\ asked.command \in {"SELECT", "WRITE", "EXECUTE"} /\ Accepted
        /\ mCurrentObjectOffset = 0 <=> asked.command # "WRITE"
        /\ asked.command = "WRITE" => asked.image = image
    BY <1>1 DEF RefusalInv, Dialog, GoingOn, Going
  <1>3. Without({"PING"}) /\ (Only(Answers) \/ Mixed)
    BY <1>1, <1>2 DEF RefusalInv, Dialog, Channel, InImage
  <1>4. /\ image \in 1..Len(package) /\ package \in Packages
    <2>1. mCurrentState # "HEADER"
      BY <1>1 DEF RefusalInv, FitInv, Kinds, InPacket, Sending
    <2>2. image # 0
      BY <2>1 DEF RefusalInv, FitInv, Kinds, Position
    <2> QED
      BY <2>2, PlaceFacts
  <1>5. CASE Stop("assert") /\ UNCHANGED objectVars
    <2> USE DEF parseVars, objectVars, channelVars
    <2>1. Ignored'
      BY <1>1, <1>5 DEF RefusalInv, Dialog, Ignored, IsData, Stop
    <2> QED
      BY <1>1, <1>5, <2>1, StopKeepsDialog DEF Stop, RefusalInv
  <1>6. CASE /\ mCurrentObjectOffset = 0 /\ pc' = "create"
             /\ Ask([command |-> "CREATE", type |-> Type, image |-> image,
                     size |-> Least(mRemainingFirmwareSize, ObjectLen)])
             /\ UNCHANGED objectVars
    <2> DEFINE cmd == [command |-> "CREATE", type |-> Type, image |-> image,
                       size |-> Least(mRemainingFirmwareSize, ObjectLen)]
    <2>1. /\ Type = package[image].type /\ Type \in ImageType
          /\ Least(mRemainingFirmwareSize, ObjectLen) \in Nat
      <3>1. mRemainingFirmwareSize \in Nat
        BY DEF RefusalInv, FitInv, Kinds
      <3> QED
        BY <1>4, <3>1, ImageFacts, Lengths DEF Type, Least
    <2>2. /\ cmd \in AskedType /\ cmd.command = "CREATE" /\ cmd.image = image
          /\ cmd.type = package[image].type
      BY <1>4, <2>1 DEF AskedType
    <2>3. Ask(cmd)
      BY <1>6
    <2> HIDE DEF cmd
    <2> USE DEF parseVars, objectVars
    <2>4. asked' = cmd /\ answer' = Pending /\ UNCHANGED older
      BY <2>3 DEF Ask
    <2>5. AskedHere'
      <3>1. image' \in 1..image'
        BY <1>1, <1>4
      <3> QED
        BY <1>1, <1>6, <2>2, <2>4, <3>1 DEF AskedHere, Idle, Pings, BeforePackage
    <2>6. GoingOn' /\ Ignored'
      BY <1>1, <1>6, <2>4 DEF GoingOn, RefusalInv, Dialog, Ignored, IsData
    <2>7. Only({"SELECT"}) \/ Only({"EXECUTE"}) \/ (IsData(image) /\ Only({"SELECT", "CREATE"}))
      BY <1>2, <1>3, <1>6 DEF Answers, Mixed
    <2>8. /\ Behind({"CREATE"}) \/ (IsData(image) /\ Only({"SELECT", "CREATE"}))
          /\ IsInit(image) => Only({"SELECT", "CREATE"}) \/ Without({"SELECT"})
      <3>1. CASE Only({"SELECT"})
        <4>1. Without({"CREATE"}) /\ Only({"SELECT", "CREATE"})
          BY <3>1 DEF Only, Without
        <4> QED
          BY <4>1, BehindFromWithout
      <3>2. CASE Only({"EXECUTE"})
        <4>1. Without({"CREATE"}) /\ Without({"SELECT"})
          BY <3>2 DEF Only, Without
        <4> QED
          BY <4>1, BehindFromWithout
      <3>3. CASE IsData(image) /\ Only({"SELECT", "CREATE"})
        BY <3>3
      <3> QED
        BY <2>7, <3>1, <3>2, <3>3
    <2> QED
      BY <1>1, <1>3, <1>6, <2>2, <2>3, <2>5, <2>6, <2>8, AskKeepsDialog
  <1>7. CASE mCurrentObjectOffset # 0 /\ WritePacket /\ UNCHANGED mIgnoreNextFirmware
    <2>1. asked.command = "WRITE" /\ asked.image = image
      BY <1>2, <1>7
    <2>2. Only({"CALCULATE_CHECKSUM", "WRITE"})
      BY <1>3, <2>1 DEF Answers, Mixed
    <2>3. ChipHasImage
      BY <1>1, <1>2, <2>1 DEF RefusalInv, Dialog, BytesTaken
    <2>4. Without({"SELECT"})
      BY <2>2 DEF Only, Without
    <2> QED
      BY <1>1, <1>3, <1>7, <2>2, <2>3, <2>4, WritePacketKeepsDialog
  <1> QED
    BY <1>1, <1>5, <1>6, <1>7

LEMMA CreateAnsweredKeepsDialog ==
    ASSUME RefusalInv, FitInv', CreateAnswered
    PROVE  RefusalInv'
  <1>1. pc = "create" /\ answer # Pending
    BY DEF CreateAnswered, GoesOn
  <1>2. asked.command = "CREATE" /\ Without({"PING"}) /\ (Accepted => Only({"CREATE"}) \/ Mixed)
    <2>1. asked.command = "CREATE"
      BY <1>1 DEF RefusalInv, Dialog, AskedHere
    <2>2. Answers = {"CREATE"}
      BY <2>1 DEF Answers
    <2> QED
      BY <1>1, <2>1, <2>2 DEF RefusalInv, Dialog, Channel, InImage
  <1>3. CASE /\ Succeeded /\ WritePacket
             /\ UNCHANGED <<parseVars, bufferVars, mIgnoreNextFirmware>>
    <2>1. Accepted
      BY <1>3, PlaceFacts DEF Succeeded
    <2>2. Only({"SELECT", "CREATE"})
      BY <1>2, <2>1 DEF Only, Mixed
    <2>3. Without({"CALCULATE_CHECKSUM", "WRITE"})
      BY <2>2 DEF Only, Without
    <2>4. IsInit(image) => Without({"SELECT"})
      <3> SUFFICES ASSUME IsInit(image) PROVE Without({"SELECT"})
        OBVIOUS
      <3>1. ~IsData(image)
        BY PlaceFacts, ImagesTakeTurns
      <3>2. Only({"CREATE"})
        BY <1>2, <2>1, <3>1 DEF Mixed
      <3> QED
        BY <3>2 DEF Only, Without
    <2> QED
      BY <1>1, <1>2, <1>3, <2>3, <2>4, WritePacketKeepsDialog
  <1>4. CASE PacketDone(FALSE) /\ UNCHANGED objectVars
    <2>1. Ignored'
      BY <1>4 DEF RefusalInv, Dialog, Ignored, IsData, PacketDone, parseVars,
                  objectVars, channelVars, Stop
    <2> QED
      BY <1>1, <1>4, <2>1, PacketDoneKeepsDialog DEF objectVars
  <1> QED
    BY <1>3, <1>4 DEF CreateAnswered

LEMMA WriteAnsweredKeepsDialog ==
    ASSUME RefusalInv, FitInv', WriteAnswered
    PROVE  RefusalInv'
  <1> DEFINE acknowledged ==
                 Succeeded /\ answer.offset = Size - mRemainingFirmwareSize
  <1>1. pc = "write" /\ answer # Pending /\ acknowledged \in BOOLEAN
    BY DEF WriteAnswered, GoesOn
  <1>2. /\ asked.command = "WRITE" /\ asked.image = image
        /\ Without({"PING"})
        /\ acknowledged => Accepted
        /\ Accepted => Only({"CALCULATE_CHECKSUM", "WRITE"}) /\ ChipHasImage
    <2>1. asked.command = "WRITE" /\ asked.image = image
      BY <1>1 DEF RefusalInv, Dialog, AskedHere
    <2>2. Answers = {"CALCULATE_CHECKSUM", "WRITE"}
      BY <2>1 DEF Answers
    <2>3. /\ Without({"PING"})
          /\ Accepted => Only({"CALCULATE_CHECKSUM", "WRITE"}) /\ ChipHasImage
      BY <1>1, <2>1, <2>2
         DEF RefusalInv, Dialog, Channel, BytesTaken, InImage, Mixed
    <2>4. acknowledged => Accepted
      BY PlaceFacts DEF Succeeded
    <2> QED
      BY <2>1, <2>3, <2>4
  <1>3. CASE /\ acknowledged /\ pc' = "execute" /\ Ask(Plain("EXECUTE"))
             /\ UNCHANGED <<parseVars, bufferVars, mIgnoreNextFirmware>>
    <2> USE DEF parseVars, bufferVars
    <2>1. Plain("EXECUTE") \in AskedType /\ Plain("EXECUTE").command = "EXECUTE"
      BY PlainAsked DEF PlainCommand
    <2>2. asked' = Plain("EXECUTE") /\ answer' = Pending /\ UNCHANGED older
      BY <1>3 DEF Ask
    <2>3. AskedHere' /\ GoingOn' /\ Ignored'
      <3>1. AskedHere' /\ GoingOn'
        BY <1>3, <2>1, <2>2 DEF AskedHere, GoingOn, Idle, Pings, BeforePackage
      <3>2. Ignored'
        BY <1>3, <2>2 DEF RefusalInv, Dialog, Ignored, IsData
      <3> QED
        BY <3>1, <3>2
    <2>4. Only({"CALCULATE_CHECKSUM", "WRITE"}) /\ ChipHasImage
      BY <1>2, <1>3
    <2>5. Without({"EXECUTE"}) /\ Without({"SELECT"})
      BY <2>4 DEF Only, Without
    <2> QED
      BY <1>2, <1>3, <2>1, <2>3, <2>4, <2>5, BehindFromWithout, AskKeepsDialog
  <1>4. CASE PacketDone(acknowledged) /\ UNCHANGED objectVars
    <2>1. Ignored'
      BY <1>4 DEF RefusalInv, Dialog, Ignored, IsData, PacketDone, parseVars,
                  objectVars, channelVars, Stop
    <2> HIDE DEF acknowledged
    <2> QED
      BY <1>1, <1>2, <1>4, <2>1, PacketDoneKeepsDialog DEF objectVars
  <1> QED
    BY <1>3, <1>4 DEF WriteAnswered

LEMMA ExecuteKeepsDialog ==
    ASSUME RefusalInv, FitInv', execute
    PROVE  RefusalInv'
  <1> DEFINE taken == answer.code \in {"SUCCESS", "FW_VERSION_FAILURE"}
  <1>1. /\ pc = "execute" /\ answer # Pending /\ taken \in BOOLEAN
        /\ PacketDone(taken) /\ UNCHANGED mCurrentObjectOffset
        /\ mIgnoreNextFirmware' =
               (mIgnoreNextFirmware \/ answer.code = "FW_VERSION_FAILURE")
    BY DEF execute, GoesOn
  <1>2. taken => Accepted
    BY PlaceFacts
  <1>3. asked.command = "EXECUTE" /\ image # 0
    <2>1. mCurrentState # "HEADER"
      BY <1>1 DEF RefusalInv, FitInv, Kinds, InPacket, Sending
    <2>2. asked.command = "EXECUTE"
      BY <1>1 DEF RefusalInv, Dialog, AskedHere
    <2> QED
      BY <2>1, <2>2 DEF RefusalInv, FitInv, Kinds, Position
  <1>4. answer.code = "FW_VERSION_FAILURE" => image \in older
    <2> SUFFICES ASSUME answer.code = "FW_VERSION_FAILURE" PROVE image \in older
      OBVIOUS
    <2>1. answer.command = "EXECUTE"
      BY <1>2, <1>3 DEF Accepted, responseCommand
    <2> QED
      BY <1>1, <2>1 DEF RefusalInv, Dialog, Refusals
  <1>5. Ignored'
    <2>1. UNCHANGED <<package, image, older>>
      BY <1>1 DEF PacketDone, parseVars, channelVars, Stop
    <2>2. mIgnoreNextFirmware =>
              image # 0 /\ (image \in older \/ (IsData(image) /\ image - 1 \in older))
      BY DEF RefusalInv, Dialog, Ignored
    <2>3. IsData(image)' <=> IsData(image)
      BY <2>1 DEF IsData
    <2>4. mIgnoreNextFirmware' =>
              mIgnoreNextFirmware \/ answer.code = "FW_VERSION_FAILURE"
      BY <1>1
    <2> QED
      BY <1>3, <1>4, <2>1, <2>2, <2>3, <2>4 DEF Ignored
  <1> HIDE DEF taken
  <1> QED
    BY <1>1, <1>2, <1>5, PacketDoneKeepsDialog

-----------------------------------------------------------------------------

LEMMA RefusalStart == Init => RefusalInv
  <1> SUFFICES ASSUME Init PROVE RefusalInv
    OBVIOUS
  <1>1. FitInv
    BY FitStart
  <1>2. /\ package \in Packages /\ DOMAIN package = 1..Len(package)
    BY ImagesTakeTurns DEF Init
  <1>3. ChannelTypeOK
    <2>1. asked \in AskedType
      BY DEF Init, Plain, AskedType
    <2>2. chip \in ChipType
      BY DEF Init, ChipType, ImageType
    <2>3. older \subseteq {i \in 1..Len(package) : package[i].type = "FIRMWARE_INIT"}
      BY <1>2 DEF Init
    <2> QED
      BY <2>1, <2>2, <2>3 DEF Init, ChannelTypeOK
  <1>4. ChipKinds
    <2>1. 0 \notin older
      BY <1>3 DEF ChannelTypeOK
    <2> QED
      BY <2>1 DEF Init, ChipKinds
  <1>5. /\ pc = "init" /\ image = 0 /\ asked.command = "NONE"
        /\ answer = Unanswered /\ mIgnoreNextFirmware = FALSE
        /\ mDfuPacketQueue = << >> /\ replies = << >>
        /\ mCurrentState = "HEADER"
    BY DEF Init, Plain
  <1>6. Unanswered # Pending /\ ~Accepted
    BY <1>5 DEF Unanswered, Pending, Reply, Accepted
  <1>7. Only({}) /\ Behind(Answers)
    BY <1>5 DEF Only, Behind, Ordered, InChannel, Arrived, OnTheWay
  <1>8. AskedHere /\ GoingOn /\ Ignored
    BY <1>5, <1>6 DEF AskedHere, GoingOn, Ignored, Idle, Pings, BeforePackage
  <1>9. Channel /\ BytesTaken /\ Refusals
    BY <1>5, <1>6, <1>7 DEF Channel, BytesTaken, Refusals, InImage
  <1> QED
    BY <1>1, <1>3, <1>4, <1>8, <1>9 DEF RefusalInv, Dialog

LEMMA RefusalStep ==
    ASSUME RefusalInv, [Next]_vars
    PROVE  RefusalInv'
  <1>1. FitInv'
    BY FitStep DEF RefusalInv
  <1>2. CASE receive \/ receiveTimesOut
    <2>1. /\ answer = Pending
          /\ UNCHANGED <<fitVars, asked, unreported>>
          /\ Retries \/ GivesUp \/ Accepts
      BY <1>2, WaitEnds DEF RefusalInv
    <2> QED
      BY <1>1, <2>1, RetryKeepsDialog, AnswerKeepsDialog
  <1>3. CASE notification \/ ChipEntersDfu \/ ChipFallsSilent
    BY <1>1, <1>3, ChipTaskKeepsDialog
  <1>4. CASE enterDfu \/ forceDfu \/ waitEnteredDfu \/ initUpdate
    BY <1>1, <1>4, OrderDfuKeepsDialog, WaitEnteredDfuKeepsDialog,
       InitUpdateKeepsDialog
  <1>5. CASE \/ writeFirmware \/ EndChunk \/ NextHeader
             \/ SplitHeader \/ SpoiltHeader
    BY <1>1, <1>5, ChunkKeepsDialog
  <1>6. CASE ReadHeader \/ ManifestAnswered
    BY <1>1, <1>6, ReadHeaderKeepsDialog, ManifestAnsweredKeepsDialog
  <1>7. CASE onFirmware \/ pushBack \/ FirmwareTaken
    BY <1>1, <1>7, FirmwareKeepsDialog, FirmwareTakenKeepsDialog
  <1>8. CASE _bufferFull \/ CreateAnswered \/ WriteAnswered \/ execute
    BY <1>1, <1>8, BufferFullKeepsDialog, CreateAnsweredKeepsDialog,
       WriteAnsweredKeepsDialog, ExecuteKeepsDialog
  <1>9. CASE UNCHANGED vars
    <2> USE DEF vars, updateVars, parseVars, bufferVars, objectVars, callVars, channelVars
    <2>1. ChannelTypeOK' /\ ChipKinds'
      BY <1>9 DEF RefusalInv, ChannelTypeOK, ChipKinds, IsInit
    <2>0. (Accepted' <=> Accepted) /\ (Going' <=> Going)
      BY <1>9 DEF Going, Accepted, responseCommand
    <2>2. AskedHere'
      BY <1>9, <2>0 DEF RefusalInv, Dialog, AskedHere
    <2>5. GoingOn'
      BY <1>9, <2>0 DEF RefusalInv, Dialog, GoingOn, Size, Exhausted, TotalLen
    <2>3. Channel' /\ BytesTaken'
      BY <1>9 DEF RefusalInv, Dialog, Channel, BytesTaken, Accepted, responseCommand,
                  Only, Without, Behind, Ordered, Mixed, InChannel, Arrived, OnTheWay,
                  Answers, IsInit, IsData, ChipHasImage
    <2>4. Refusals' /\ Ignored'
      BY <1>9 DEF RefusalInv, Dialog, Refusals, Ignored, InChannel, Arrived, OnTheWay, IsData
    <2> QED
      BY <1>1, <2>1, <2>2, <2>5, <2>3, <2>4 DEF RefusalInv, Dialog
  <1> QED
    BY <1>2, <1>3, <1>4, <1>5, <1>6, <1>7, <1>8, <1>9 DEF Next, UpdateTask

(* Only images the chip refused for their version are left out, for every  *)
(* package of INIT and DATA images and every length, however many replies  *)
(* are lost or late: the refusal of one image is never taken for that of   *)
(* another (NRFFirmwareUpdate.cpp:226-231, 268-271, 395-399, 455-458).     *)
THEOREM IgnoresOnlyOlderCorrect == Spec => []IgnoresOnlyOlder
  <1>1. RefusalInv => IgnoresOnlyOlder
    BY DEF RefusalInv, Dialog, Ignored, IgnoresOnlyOlder
  <1> QED
    BY <1>1, RefusalStart, RefusalStep, PTL DEF Spec

-----------------------------------------------------------------------------
(* Nothing is lost or late, and no header took bytes of its image: every   *)
(* command is taken and answered before the next, and the chip has as much *)
(* of the image as was sent.                                               *)

Unspoilt == late = 0 /\ lost = 0 /\ swallowed = 0 => chip.inOrder /\ chip.sound

Tidy ==
    /\ late = 0 /\ lost = 0 /\ swallowed = 0
    /\ chip.mode # "silent" /\ pc # "end"

Sent == Size - mRemainingFirmwareSize

(* What the chip was asked is answered.                                    *)
Right(r) ==
    /\ r.command = responseCommand
    /\ asked.command = "PING" => chip.mode = "dfu"
    /\ asked.command # "EXECUTE" => r.code = "SUCCESS"
    /\ pc = "write" => r.offset = Sent

Conversation ==
    /\ answer # Pending => replies = << >> /\ mDfuPacketQueue = << >>
    /\ replies = << >> \/ mDfuPacketQueue = << >>
    /\ Len(replies) <= 1 /\ Len(mDfuPacketQueue) <= 1
    /\ asked.command \notin {"NONE", "PING"} =>
           /\ answer # Unanswered
           /\ answer = Pending => replies # << >> \/ mDfuPacketQueue # << >>
    /\ \A r \in InChannel : Right(r)
    /\ answer \notin {Pending, Unanswered} => Right(answer)

(* What is outstanding is what is buffered, to be pushed or to be received.*)
LeftOut == mIgnoreNextFirmware /\ IsData(image)

Waiting == buffered + toPush + Size - mFirmwareOffset

Ledger ==
    /\ pc \in {"read", "parse"} /\ mCurrentState = "FIRMWARE" /\ ~LeftOut =>
           mRemainingFirmwareSize = Waiting
    /\ pc = "pushed" => toPush = 0
    /\ pc = "push" \/ (pc = "pushed" /\ ~LeftOut) =>
           mRemainingFirmwareSize = Waiting
    /\ pc \in {"read", "parse"} \cup BeforePackage /\ mCurrentState # "FIRMWARE" =>
           mRemainingFirmwareSize = 0
    /\ pc \in {"packet", "create"} =>
           mRemainingFirmwareSize = IF via = "partial" THEN buffered ELSE Waiting
    /\ pc \in {"write", "execute"} =>
           mRemainingFirmwareSize =
               IF via = "partial" THEN 0 ELSE Waiting - PacketLen
    /\ pc # "write" /\ mRemainingFirmwareSize = 0 => mCurrentObjectOffset = 0
    /\ pc \in BeforeImage => mRemainingFirmwareSize = 0 /\ ~mIgnoreNextFirmware
    /\ image # 0 => mRemainingFirmwareSize <= Size
    /\ mIgnoreNextFirmware => mRemainingFirmwareSize = 0

(* The chip takes an object of the image.                                  *)
Opened ==
    /\ chip.mode = "dfu"
    /\ chip.image = image /\ chip.type = Type
    /\ chip.offset = Sent
    /\ chip.executed = Sent - mCurrentObjectOffset
    /\ chip.object = Least(mRemainingFirmwareSize + mCurrentObjectOffset, ObjectLen)
    /\ IsInit(image) => chip.executed = 0
    /\ IsData(image) => chip.expects = image

(* The chip is ready for the DATA image i.                                 *)
Announced(i) == chip.expects = i /\ chip.executed = 0

(* The chip has executed what was sent of the image.                       *)
Closed ==
    /\ IsInit(image) =>
           /\ chip.mode = "dfu"
           /\ mRemainingFirmwareSize \in {0, Size}
           /\ mRemainingFirmwareSize = 0 => Announced(image + 1)
    /\ IsData(image) /\ mRemainingFirmwareSize # 0 =>
           /\ chip.mode = "dfu"
           /\ chip.expects = image /\ chip.executed = Sent

Refused(r) == r.code = "FW_VERSION_FAILURE"

Progress ==
    /\ pc \in {"mtu", "prn", "select"} => chip.mode = "dfu"
    /\ pc \in BeforeImage /\ IsData(image) => Announced(image)
    /\ pc \in {"read", "parse", "push", "pushed", "packet"} /\ image # 0 =>
           IF mCurrentObjectOffset # 0 THEN Opened
           ELSE mIgnoreNextFirmware \/ Closed
    /\ pc \in {"create", "write"} => Opened
    /\ pc = "execute" =>
           \/ /\ Closed
              /\ \A r \in InChannel \cup {answer} : r = Pending \/ r.code = "SUCCESS"
           \/ /\ IsInit(image) /\ mRemainingFirmwareSize = 0
              /\ \A r \in InChannel \cup {answer} : r = Pending \/ Refused(r)

Lock == Conversation /\ Ledger /\ Progress

OrderInv == RefusalInv /\ Unspoilt /\ (Tidy => Lock)

(* The update, wherever it stands.                                         *)
LEMMA UpdateFacts ==
    ASSUME RefusalInv
    PROVE  /\ FitInv
           /\ package \in Packages /\ Len(package) \in Nat
           /\ image \in 0..Len(package)
           /\ image # 0 =>
                  /\ Size \in Nat /\ Size > 0 /\ Type \in ImageType
                  /\ IsInit(image) \/ IsData(image)
                  /\ IsInit(image) <=> Type = "FIRMWARE_INIT"
                  /\ IsData(image) <=> Type = "FIRMWARE_DATA"
           /\ buffered \in Nat /\ toPush \in Nat /\ mFirmwareOffset \in Nat
           /\ buffered <= PacketLen
           /\ mRemainingFirmwareSize \in Nat /\ mCurrentObjectOffset \in Nat
           /\ mIgnoreNextFirmware \in BOOLEAN
           /\ chip \in ChipType /\ asked \in AskedType
           /\ chip.image \in Nat /\ chip.object \in Nat /\ chip.offset \in Nat
           /\ chip.executed \in Nat /\ chip.expects \in Nat
  <1>1. FitInv
    BY DEF RefusalInv
  <1>2. /\ package \in Packages /\ Len(package) \in Nat
        /\ image \in 0..Len(package) /\ chip \in ChipType
        /\ asked \in AskedType
    BY PlaceFacts
  <1>3. image # 0 =>
            /\ Size \in Nat /\ Size > 0 /\ Type \in ImageType
            /\ IsInit(image) \/ IsData(image)
            /\ IsInit(image) <=> Type = "FIRMWARE_INIT"
            /\ IsData(image) <=> Type = "FIRMWARE_DATA"
    BY <1>2, ImageFacts DEF Size, Type, IsInit, IsData, ImageType
  <1>4. /\ buffered \in Nat /\ toPush \in Nat /\ mFirmwareOffset \in Nat
        /\ buffered <= PacketLen
        /\ mRemainingFirmwareSize \in Nat /\ mCurrentObjectOffset \in Nat
        /\ mIgnoreNextFirmware \in BOOLEAN
    BY <1>1, Lengths DEF FitInv, Kinds
  <1>5. /\ chip.image \in Nat /\ chip.object \in Nat /\ chip.offset \in Nat
        /\ chip.executed \in Nat /\ chip.expects \in Nat
    BY <1>2 DEF ChipType
  <1> QED
    BY <1>1, <1>2, <1>3, <1>4, <1>5

LEMMA ImageBegun ==
    ASSUME RefusalInv, mCurrentState # "HEADER"
    PROVE  image # 0 /\ image \in 1..Len(package)
  <1>1. Position /\ mCurrentState \in {"FIRMWARE", "END"}
    BY DEF RefusalInv, FitInv, Kinds
  <1>2. image # 0
    BY <1>1 DEF Position
  <1> QED
    BY <1>2, UpdateFacts

-----------------------------------------------------------------------------
(* What is left to send of an image, step by step.                         *)

LEMMA ReadHeaderLedger ==
    ASSUME RefusalInv, FitInv', ReadHeader
    PROVE  Ledger'
  <1>1. /\ mCurrentState' = "FIRMWARE" /\ image' = image + 1
        /\ UNCHANGED package
        /\ buffered' = 0 /\ mCurrentObjectOffset' = 0 /\ mRemainingFirmwareSize' = 0
        /\ \/ /\ package[image'].type = "FIRMWARE_DATA" /\ mIgnoreNextFirmware
              /\ pc' = "parse" /\ mIgnoreNextFirmware'
           \/ pc' \in {"select", "pingDfu"} /\ ~mIgnoreNextFirmware'
    BY DEF ReadHeader, onManifest
  <1>2. image' \in 1..Len(package) /\ Size' \in Nat
    <2>1. image \in 0..Len(package) /\ Len(package) \in Nat /\ package \in Packages
      BY UpdateFacts
    <2>2. image' \in 0..Len(package)
      BY <1>1 DEF FitInv, Kinds
    <2>3. image' \in 1..Len(package)
      BY <1>1, <2>1, <2>2
    <2> QED
      BY <1>1, <2>1, <2>3, ImageFacts DEF Size
  <1>3. IsData(image)' <=> package[image'].type = "FIRMWARE_DATA"
    BY <1>1, <1>2 DEF IsData
  <1> QED
    BY <1>1, <1>2, <1>3 DEF Ledger, LeftOut, BeforeImage, BeforePackage

LEMMA ManifestLedger ==
    ASSUME RefusalInv, Ledger, ManifestAnswered, pc' # "end"
    PROVE  Ledger'
  <1>1. /\ UNCHANGED <<parseVars, bufferVars, mCurrentObjectOffset, mIgnoreNextFirmware>>
        /\ mRemainingFirmwareSize' = IF pc' = "parse" THEN Size ELSE 0
        /\ pc \in BeforeImage
        /\ pc' \in {"mtu", "prn", "select", "reentering", "parse"}
    BY DEF ManifestAnswered, GoesOn, Stop, BeforeImage
  <1> USE DEF parseVars, bufferVars
  <1>2. /\ mCurrentState = "FIRMWARE" /\ mFirmwareOffset = 0 /\ buffered = 0
        /\ toPush = 0 /\ mCurrentObjectOffset = 0 /\ image # 0
        /\ ~mIgnoreNextFirmware /\ Size \in Nat /\ Size > 0
    <2>1. /\ mCurrentState = "FIRMWARE" /\ mFirmwareOffset = 0 /\ buffered = 0
          /\ toPush = 0 /\ mCurrentObjectOffset = 0
      BY <1>1, UpdateFacts DEF FitInv, AtRest
    <2> QED
      BY <1>1, <2>1, ImageBegun, UpdateFacts DEF Ledger
  <1>3. (IsData(image)' <=> IsData(image)) /\ Size' = Size
    BY <1>1 DEF IsData, Size
  <1> QED
    BY <1>1, <1>2, <1>3 DEF Ledger, BeforeImage, BeforePackage, Waiting, LeftOut

LEMMA ChunkLedger ==
    ASSUME Ledger,
           UNCHANGED <<package, image, mFirmwareOffset, bufferVars, objectVars>>,
           pc \in {"read", "parse"}, pc' \in {"read", "parse"},
           mCurrentState' = "FIRMWARE" <=> mCurrentState = "FIRMWARE"
    PROVE  Ledger'
  BY DEF Ledger, bufferVars, objectVars, Waiting, LeftOut, IsData, Size,
         BeforeImage, BeforePackage

LEMMA OnFirmwareLedger ==
    ASSUME RefusalInv, Ledger, onFirmware
    PROVE  Ledger'
  <1> DEFINE piece == Least(Size - mFirmwareOffset, unread)
             copied == IF buffered = 0 THEN 0
                       ELSE Least(piece, PacketLen - buffered)
  <1>1. /\ pc = "parse" /\ mCurrentState = "FIRMWARE"
        /\ mFirmwareOffset' = mFirmwareOffset + piece
        /\ IF mIgnoreNextFirmware
           THEN pc' = "pushed" /\ toPush' = 0 /\ UNCHANGED buffered
           ELSE /\ pc' = "push"
                /\ toPush' = piece - copied
                /\ buffered' = buffered + copied
        /\ UNCHANGED <<package, image, mCurrentState, via, objectVars>>
    BY DEF onFirmware
  <1>2. /\ toPush = 0 /\ mFirmwareOffset < Size
        /\ Size \in Nat /\ image # 0 /\ unread \in Nat
    <2>1. toPush = 0 /\ mFirmwareOffset < Size /\ image # 0
      BY <1>1, UpdateFacts, ImageBegun DEF FitInv, AtRest
    <2> QED
      BY <2>1, UpdateFacts, Lengths DEF FitInv, Kinds
  <1>3. piece \in Nat /\ copied \in Nat
    <2>1. /\ mFirmwareOffset \in Nat /\ buffered \in Nat
          /\ buffered <= PacketLen /\ PacketLen \in Nat
      BY UpdateFacts, Lengths
    <2>2. piece \in Nat
      BY <1>2, <2>1 DEF Least
    <2> QED
      BY <2>1, <2>2 DEF Least
  <1> HIDE DEF piece, copied
  <1>4. /\ (IsInit(image)' <=> IsInit(image)) /\ (IsData(image)' <=> IsData(image))
        /\ Size' = Size
    BY <1>1 DEF IsInit, IsData, Size
  <1>5. mIgnoreNextFirmware => LeftOut /\ mRemainingFirmwareSize = 0
    <2> SUFFICES ASSUME mIgnoreNextFirmware, ~LeftOut PROVE FALSE
      BY DEF Ledger
    <2>1. mRemainingFirmwareSize = 0 /\ mRemainingFirmwareSize = Waiting
      BY <1>1 DEF Ledger
    <2> QED
      BY <1>2, <2>1, UpdateFacts DEF Waiting
  <1>6. CASE mIgnoreNextFirmware
    <2>1. LeftOut'
      BY <1>1, <1>4, <1>5, <1>6 DEF LeftOut, objectVars
    <2> QED
      BY <1>1, <1>2, <1>4, <1>5, <1>6, <2>1
         DEF Ledger, objectVars, BeforeImage, BeforePackage
  <1>7. CASE ~mIgnoreNextFirmware
    <2>1. mRemainingFirmwareSize = Waiting
      BY <1>1, <1>7 DEF Ledger, LeftOut
    <2>2. Waiting' = Waiting
      BY <1>1, <1>2, <1>3, <1>4, <1>7, UpdateFacts DEF Waiting
    <2> QED
      BY <1>1, <1>2, <1>4, <1>7, <2>1, <2>2
         DEF Ledger, objectVars, BeforeImage, BeforePackage
  <1> QED
    BY <1>6, <1>7

LEMMA PushBackLedger ==
    ASSUME RefusalInv, Ledger, pushBack
    PROVE  Ledger'
  <1>1. /\ UNCHANGED <<parseVars, objectVars>>
        /\ pc = "push"
        /\ \/ /\ pc' = "packet" /\ via' \in {"flush", "direct"}
              /\ UNCHANGED <<buffered, toPush>>
           \/ /\ pc' = "pushed"
              /\ buffered' = buffered + toPush /\ toPush' = 0
    BY DEF pushBack
  <1>2. mRemainingFirmwareSize = Waiting /\ image # 0 /\ Size \in Nat
    <2>1. mCurrentState = "FIRMWARE"
      BY <1>1, UpdateFacts DEF FitInv, Pushing
    <2> QED
      BY <1>1, <2>1, ImageBegun, UpdateFacts DEF Ledger
  <1> USE DEF parseVars
  <1>3. /\ (IsInit(image)' <=> IsInit(image)) /\ (IsData(image)' <=> IsData(image))
        /\ Size' = Size
    BY <1>1 DEF IsInit, IsData, Size
  <1>4. Waiting' = Waiting
    BY <1>1, <1>2, <1>3, UpdateFacts DEF Waiting
  <1> QED
    BY <1>1, <1>2, <1>3, <1>4 DEF Ledger, objectVars, BeforeImage, BeforePackage

LEMMA FirmwareTakenLedger ==
    ASSUME RefusalInv, Ledger, FirmwareTaken, pc' # "end"
    PROVE  Ledger' /\ (mCurrentState' = "END" => mRemainingFirmwareSize = buffered)
  <1>1. /\ UNCHANGED <<package, streamed, unread, image, buffered, objectVars>>
        /\ pc = "pushed" /\ toPush' = 0
        /\ \/ /\ mFirmwareOffset < Size /\ pc' = "parse"
              /\ UNCHANGED <<mCurrentState, mFirmwareOffset>>
           \/ /\ mFirmwareOffset = Size
              /\ mCurrentState' = "END" /\ mFirmwareOffset' = 0
              /\ IF buffered = 0 THEN pc' = "parse"
                                 ELSE pc' = "packet" /\ via' = "partial"
    BY DEF FirmwareTaken, Stop
  <1>2. /\ image # 0 /\ Size \in Nat /\ toPush = 0
        /\ mCurrentState = "FIRMWARE" /\ mFirmwareOffset \in Nat
    <2>1. mCurrentState = "FIRMWARE"
      BY <1>1, UpdateFacts DEF FitInv, Pushing
    <2> QED
      BY <1>1, <2>1, ImageBegun, UpdateFacts DEF Ledger
  <1>3. LeftOut => mRemainingFirmwareSize = 0 /\ buffered = 0
    <2> SUFFICES ASSUME LeftOut PROVE mRemainingFirmwareSize = 0 /\ buffered = 0
      OBVIOUS
    <2>1. mRemainingFirmwareSize = 0
      BY DEF LeftOut, Ledger
    <2>2. \/ Outstanding(mRemainingFirmwareSize)
          \/ buffered = 0
      BY <1>1, UpdateFacts DEF FitInv, Pushing, Between
    <2> QED
      BY <1>2, <2>1, <2>2, UpdateFacts DEF Outstanding
  <1>4. /\ (IsInit(image)' <=> IsInit(image)) /\ (IsData(image)' <=> IsData(image))
        /\ Size' = Size /\ (LeftOut' <=> LeftOut)
    BY <1>1 DEF IsInit, IsData, Size, LeftOut, objectVars
  <1>5. CASE /\ mFirmwareOffset < Size /\ pc' = "parse"
             /\ UNCHANGED <<mCurrentState, mFirmwareOffset>>
    <2>1. Waiting' = Waiting
      BY <1>1, <1>2, <1>4, <1>5 DEF Waiting
    <2> QED
      BY <1>1, <1>2, <1>4, <1>5, <2>1
         DEF Ledger, objectVars, BeforeImage, BeforePackage
  <1>6. CASE /\ mFirmwareOffset = Size
             /\ mCurrentState' = "END" /\ mFirmwareOffset' = 0
             /\ IF buffered = 0 THEN pc' = "parse"
                                ELSE pc' = "packet" /\ via' = "partial"
    <2>1. mRemainingFirmwareSize = buffered
      <3>1. CASE LeftOut
        BY <1>3, <3>1
      <3>2. CASE ~LeftOut
        <4>1. mRemainingFirmwareSize = Waiting
          BY <1>1, <1>2, <3>2 DEF Ledger
        <4> QED
          BY <1>2, <1>6, <4>1, UpdateFacts DEF Waiting
      <3> QED
        BY <3>1, <3>2
    <2> QED
      BY <1>1, <1>2, <1>4, <1>6, <2>1
         DEF Ledger, objectVars, BeforeImage, BeforePackage
  <1> QED
    BY <1>1, <1>5, <1>6

(* The packet that is sent begins where the last one ended, and behind the *)
(* bytes that went to the header.                                          *)
LEMMA PacketLedger ==
    ASSUME RefusalInv, Ledger, pc \in {"packet", "create"}
    PROVE  /\ image \in 1..Len(package) /\ image \in Nat /\ image # 0
           /\ Size \in Nat /\ ~mIgnoreNextFirmware
           /\ PacketSize \in Nat /\ PacketSize > 0
           /\ mRemainingFirmwareSize >= PacketSize
           /\ mCurrentObjectOffset + PacketSize <= ObjectLen
           /\ PacketFrom = swallowed + Sent /\ Sent \in Nat
           /\ swallowed \in Nat
  <1>1. /\ PacketSize \in Nat /\ PacketSize > 0
        /\ mCurrentObjectOffset + PacketSize <= ObjectLen
        /\ mRemainingFirmwareSize >= PacketSize
    <2>1. /\ PacketSize \in Nat /\ PacketSize > 0
          /\ mCurrentObjectOffset + PacketSize \in 0..ObjectLen
      BY PacketFits, UpdateFacts
    <2>2. mRemainingFirmwareSize >= PacketSize
      BY UpdateFacts DEF FitInv, InPacket, Sending
    <2> QED
      BY <2>1, <2>2, Lengths
  <1>2. image \in 1..Len(package) /\ image \in Nat /\ image # 0 /\ Size \in Nat
    <2>1. mCurrentState \in {"FIRMWARE", "END"}
      BY UpdateFacts DEF FitInv, InPacket, Sending, Kinds
    <2> QED
      BY <2>1, ImageBegun, UpdateFacts
  <1>3. /\ mRemainingFirmwareSize = IF via = "partial" THEN buffered ELSE Waiting
        /\ mIgnoreNextFirmware => mRemainingFirmwareSize = 0
        /\ mRemainingFirmwareSize <= Size
    BY <1>2 DEF Ledger
  <1>4. /\ via = "flush" => buffered = PacketLen
        /\ via = "direct" => buffered = 0
        /\ via \in {"flush", "direct", "partial"}
    BY UpdateFacts DEF FitInv, InPacket, Sending, Kinds
  <1>5. PacketFrom = swallowed + Sent
    <2>1. CASE via = "partial"
      <3>1. PacketFrom = swallowed + (Size - buffered)
        BY <2>1 DEF PacketFrom
      <3> QED
        BY <1>3, <2>1, <3>1 DEF Sent
    <2>2. CASE via = "flush"
      <3>1. PacketFrom = swallowed + (mFirmwareOffset - toPush - PacketLen)
        BY <2>2 DEF PacketFrom
      <3>2. Sent = mFirmwareOffset - toPush - PacketLen
        BY <1>2, <1>3, <1>4, <2>2, UpdateFacts, Lengths DEF Sent, Waiting
      <3> QED
        BY <3>1, <3>2
    <2>3. CASE via = "direct"
      <3>1. PacketFrom = swallowed + (mFirmwareOffset - toPush)
        BY <2>3 DEF PacketFrom
      <3>2. Sent = mFirmwareOffset - toPush
        BY <1>2, <1>3, <1>4, <2>3, UpdateFacts, Lengths DEF Sent, Waiting
      <3> QED
        BY <3>1, <3>2
    <2> QED
      BY <1>4, <2>1, <2>2, <2>3
  <1>6. swallowed \in Nat
    BY UpdateFacts, Lengths DEF FitInv, Kinds
  <1>7. Sent \in Nat /\ ~mIgnoreNextFirmware
    BY <1>1, <1>2, <1>3, UpdateFacts DEF Sent
  <1> QED
    BY <1>1, <1>2, <1>5, <1>6, <1>7

LEMMA WritePacketLedger ==
    ASSUME RefusalInv, Ledger, pc \in {"packet", "create"}, WritePacket,
           UNCHANGED <<parseVars, bufferVars, mIgnoreNextFirmware>>
    PROVE  Ledger' /\ Sent' = Sent + PacketSize
  <1>1. /\ image # 0 /\ Size \in Nat /\ ~mIgnoreNextFirmware
        /\ PacketSize \in Nat /\ PacketSize > 0
        /\ mRemainingFirmwareSize >= PacketSize
        /\ mRemainingFirmwareSize \in Nat
    BY PacketLedger, UpdateFacts
  <1>2. /\ mRemainingFirmwareSize' = mRemainingFirmwareSize - PacketSize
        /\ mCurrentObjectOffset' = mCurrentObjectOffset + PacketSize
        /\ pc' = "write"
    BY DEF WritePacket
  <1>3. /\ UNCHANGED <<package, image, mFirmwareOffset, buffered, toPush, via>>
        /\ Size' = Size /\ Waiting' = Waiting
    BY DEF parseVars, bufferVars, Size, Waiting
  <1>4. Sent' = Sent + PacketSize
    BY <1>1, <1>2, <1>3 DEF Sent
  <1>5. /\ mRemainingFirmwareSize = IF via = "partial" THEN buffered ELSE Waiting
        /\ mRemainingFirmwareSize <= Size
    BY <1>1 DEF Ledger
  <1>6. mRemainingFirmwareSize' = IF via' = "partial" THEN 0 ELSE Waiting' - PacketLen
    BY <1>2, <1>3, <1>5, UpdateFacts, Lengths DEF PacketSize
  <1>7. ~mIgnoreNextFirmware' /\ mRemainingFirmwareSize' <= Size'
    BY <1>1, <1>2, <1>3, <1>5
  <1> QED
    BY <1>2, <1>4, <1>6, <1>7 DEF Ledger, BeforeImage, BeforePackage

LEMMA CreateLedger ==
    ASSUME RefusalInv, Ledger, pc \in {"packet", "create"}, pc' = "create",
           UNCHANGED <<parseVars, bufferVars, objectVars>>
    PROVE  Ledger'
  <1>1. /\ Size' = Size /\ Waiting' = Waiting /\ UNCHANGED objectVars
        /\ via' = via /\ buffered' = buffered /\ image' = image
    BY DEF parseVars, bufferVars, objectVars, Size, Waiting
  <1>2. ~mIgnoreNextFirmware
    BY PacketLedger
  <1> QED
    BY <1>1, <1>2 DEF Ledger, objectVars, BeforeImage, BeforePackage

LEMMA ExecuteLedger ==
    ASSUME RefusalInv, Ledger, pc = "write", pc' = "execute",
           mCurrentObjectOffset' = 0,
           UNCHANGED <<parseVars, bufferVars, mRemainingFirmwareSize,
                       mIgnoreNextFirmware>>
    PROVE  Ledger'
  <1>1. /\ Size' = Size /\ Waiting' = Waiting
        /\ via' = via /\ buffered' = buffered /\ image' = image
    BY DEF parseVars, bufferVars, Size, Waiting
  <1> QED
    BY <1>1 DEF Ledger, BeforeImage, BeforePackage

LEMMA PacketTakenLedger ==
    ASSUME RefusalInv, Ledger, pc \in {"write", "execute"}, PacketDone(TRUE),
           UNCHANGED <<mCurrentObjectOffset, mRemainingFirmwareSize>>,
           mIgnoreNextFirmware' => mRemainingFirmwareSize = 0,
           mRemainingFirmwareSize = 0 => mCurrentObjectOffset = 0
    PROVE  /\ Ledger'
           /\ UNCHANGED <<package, image, callVars, channelVars>>
           /\ pc' = IF via = "partial" THEN "parse" ELSE "push"
           /\ via = "partial" =>
                  mRemainingFirmwareSize = 0 /\ mCurrentState' = "END"
  <1>1. /\ UNCHANGED <<parseVars, via, callVars, channelVars>>
        /\ buffered' = IF via = "direct" THEN buffered ELSE 0
        /\ toPush' = IF via = "direct" THEN toPush - PacketLen ELSE toPush
        /\ pc' = IF via = "partial" THEN "parse" ELSE "push"
    BY DEF PacketDone
  <1>2. /\ mRemainingFirmwareSize =
               IF via = "partial" THEN 0 ELSE Waiting - PacketLen
        /\ image # 0 => mRemainingFirmwareSize <= Size
    BY DEF Ledger
  <1>3. /\ via = "flush" => buffered = PacketLen
        /\ via = "direct" => buffered = 0
        /\ via = "partial" => mCurrentState = "END"
        /\ via \in {"flush", "direct", "partial"}
        /\ mCurrentState # "HEADER"
    <2>1. /\ via = "flush" => buffered = PacketLen
          /\ via = "direct" => buffered = 0
          /\ via = "partial" => mCurrentState = "END"
          /\ via # "partial" => mCurrentState = "FIRMWARE"
      BY UpdateFacts DEF FitInv, InPacket, Sending
    <2>2. via \in {"flush", "direct", "partial"}
      BY UpdateFacts DEF FitInv, Kinds
    <2> QED
      BY <2>1, <2>2
  <1>4. /\ UNCHANGED <<package, image, mFirmwareOffset, mCurrentState>>
        /\ Size' = Size
    BY <1>1 DEF parseVars, Size
  <1>5. CASE via = "partial"
    <2>1. mCurrentState' # "FIRMWARE" /\ mRemainingFirmwareSize' = 0 /\ pc' = "parse"
      BY <1>1, <1>2, <1>3, <1>4, <1>5
    <2>2. Ledger'
      BY <1>2, <1>4, <2>1 DEF Ledger, BeforeImage, BeforePackage
    <2> QED
      BY <1>1, <1>2, <1>3, <1>4, <1>5, <2>2
  <1>6. CASE via # "partial"
    <2>1. /\ image # 0 /\ Size \in Nat /\ buffered \in Nat /\ toPush \in Nat
          /\ mFirmwareOffset \in Nat /\ mRemainingFirmwareSize \in Nat
      BY <1>3, ImageBegun, UpdateFacts
    <2>2. mRemainingFirmwareSize' = Waiting'
      BY <1>1, <1>2, <1>3, <1>4, <1>6, <2>1, Lengths DEF Waiting
    <2>3. pc' = "push"
      BY <1>1, <1>6
    <2>4. Ledger'
      BY <1>2, <1>4, <2>1, <2>2, <2>3 DEF Ledger, BeforeImage, BeforePackage
    <2> QED
      BY <1>1, <1>4, <1>6, <2>4
  <1> QED
    BY <1>5, <1>6

-----------------------------------------------------------------------------
(* What is on its way between the update task and the chip.                *)

LEMMA EmptyChannel ==
    ASSUME replies = << >>, mDfuPacketQueue = << >>
    PROVE  InChannel = {}
  BY DEF InChannel, Arrived, OnTheWay

LEMMA EmptiedChannel ==
    ASSUME replies' = << >>, mDfuPacketQueue' = << >>
    PROVE  InChannel' = {}
  BY DEF InChannel, Arrived, OnTheWay

LEMMA OneReply ==
    ASSUME NEW r, replies' = << r >>, mDfuPacketQueue' = << >>
    PROVE  InChannel' = {r} /\ Len(replies') = 1
  BY DEF InChannel, Arrived, OnTheWay

(* What is sent while nothing is on its way is taken and answered at once, *)
(* or there is nobody to take it.                                          *)
LEMMA SentToEmpty ==
    ASSUME NEW cmd, send(cmd), replies = << >>, lost = 0, lost' = 0
    PROVE  /\ mDfuPacketQueue' = << >>
           /\ IF chip.mode = "dfu"
              THEN chip' = After(cmd) /\ replies' = << ReplyTo(cmd) >>
              ELSE chip' = chip /\ replies' = << >>
  <1>1. lost' # lost + 1
    OBVIOUS
  <1>2. Append(<< >>, ReplyTo(cmd)) = << ReplyTo(cmd) >>
    OBVIOUS
  <1> QED
    BY <1>1, <1>2 DEF send

(* What is behind nothing is never before something: once a command or its *)
(* reply is lost or late, the chip is silent or the transfer has ended, it *)
(* stays so.                                                               *)
LEMMA ChipMoves ==
    ASSUME RefusalInv, Next
    PROVE  /\ late' \in {late, late + 1}
           /\ \/ UNCHANGED <<chip, lost>>
              \/ /\ pc # "end" /\ \E cmd : send(cmd)
              \/ /\ UNCHANGED lost /\ ChipKeeps
                 /\ chip.mode = "silent" => chip'.mode = "silent"
           /\ pc = "end" => pc' = "end"
  <1>0. /\ chip \in ChipType /\ (pc = "end" => answer # Pending)
    BY PlaceFacts DEF Idle
  <1> USE DEF callVars, channelVars, updateVars
  <1>1. CASE receive \/ receiveTimesOut
    <2>1. pc # "end" /\ pc' = pc
      BY <1>0, <1>1 DEF receive, receiveTimesOut
    <2> QED
      BY <1>1, <2>1 DEF receive, receiveTimesOut, tryAgain
  <1>2. CASE notification \/ ChipEntersDfu \/ ChipFallsSilent
    <2>1. CASE notification
      BY <2>1 DEF notification
    <2>2. CASE ChipEntersDfu
      <3>1. chip' = [chip EXCEPT !.mode = "dfu"] /\ chip.mode = "restarting"
        BY <2>2 DEF ChipEntersDfu
      <3> QED
        BY <1>0, <2>2, <3>1, ModeOnly DEF ChipEntersDfu
    <2>3. CASE ChipFallsSilent
      <3>1. chip' = [chip EXCEPT !.mode = "silent"] /\ chip.mode # "silent"
        BY <2>3 DEF ChipFallsSilent
      <3> QED
        BY <1>0, <2>3, <3>1, ModeOnly DEF ChipFallsSilent
    <2> QED
      BY <1>2, <2>1, <2>2, <2>3
  <1>3. CASE enterDfu \/ forceDfu
    <2>1. pc # "end" /\ chipMayRestart /\ UNCHANGED <<late, lost>>
      BY <1>3 DEF enterDfu, forceDfu, OrderDfu
    <2> DEFINE mode == IF chip.mode = "application" THEN "restarting" ELSE chip.mode
    <2>2. mode \in {"application", "restarting", "dfu", "silent"}
      BY <1>0 DEF ChipType
    <2>3. chip' = chip \/ chip' = [chip EXCEPT !.mode = mode]
      BY <2>1 DEF chipMayRestart
    <2>4. chip.mode = "silent" => mode = "silent"
      OBVIOUS
    <2> HIDE DEF mode
    <2>5. CASE chip' = [chip EXCEPT !.mode = mode]
      <3>1. ChipKeeps
        BY <1>0, <2>2, <2>5, ModeOnly
      <3>2. chip'.mode = mode
        BY <1>0, <2>5 DEF ChipType
      <3> QED
        BY <2>1, <2>4, <3>1, <3>2
    <2> QED
      BY <2>1, <2>3, <2>5
  <1>4. CASE waitEnteredDfu \/ initUpdate
    BY <1>4 DEF waitEnteredDfu, initUpdate, GoesOn, Ask, Stop
  <1>5. CASE writeFirmware \/ EndChunk \/ NextHeader
    BY <1>5 DEF writeFirmware, EndChunk, NextHeader, Stop
  <1>6. CASE ReadHeader \/ SplitHeader \/ SpoiltHeader \/ ManifestAnswered
    <2>1. CASE ReadHeader
      BY <2>1 DEF ReadHeader, InHeader, onManifest, Ask
    <2>2. CASE SplitHeader \/ SpoiltHeader
      BY <2>2 DEF SplitHeader, SpoiltHeader, InHeader, Stop
    <2>3. CASE ManifestAnswered
      BY <2>3 DEF ManifestAnswered, GoesOn, Ask, Stop
    <2> QED
      BY <1>6, <2>1, <2>2, <2>3
  <1>7. CASE onFirmware \/ pushBack \/ FirmwareTaken
    BY <1>7 DEF onFirmware, pushBack, FirmwareTaken, Stop
  <1>8. CASE _bufferFull
    BY <1>8 DEF _bufferFull, WritePacket, Ask, Stop
  <1>9. CASE CreateAnswered \/ WriteAnswered \/ execute
    <2>1. ASSUME NEW taken, PacketDone(taken)
          PROVE  UNCHANGED <<late, chip, lost>>
      BY <2>1 DEF PacketDone, Stop
    <2>2. ASSUME NEW cmd, Ask(cmd)
          PROVE  send(cmd) /\ UNCHANGED late
      BY <2>2 DEF Ask
    <2>3. pc # "end"
      BY <1>9 DEF CreateAnswered, WriteAnswered, execute, GoesOn
    <2>4. \/ \E taken : PacketDone(taken)
          \/ \E cmd : Ask(cmd)
      BY <1>9 DEF CreateAnswered, WriteAnswered, execute, WritePacket
    <2> QED
      BY <2>1, <2>2, <2>3, <2>4
  <1> QED
    BY <1>1, <1>2, <1>3, <1>4, <1>5, <1>6, <1>7, <1>8, <1>9 DEF Next, UpdateTask

LEMMA SwallowedStays ==
    ASSUME [Next]_vars, swallowed # 0
    PROVE  swallowed' = swallowed
  <1> USE DEF updateVars, parseVars
  <1>1. CASE enterDfu \/ forceDfu \/ waitEnteredDfu \/ initUpdate
    BY <1>1 DEF enterDfu, forceDfu, OrderDfu, waitEnteredDfu, initUpdate
  <1>2. CASE receive \/ receiveTimesOut
    BY <1>2 DEF receive, receiveTimesOut
  <1>3. CASE writeFirmware \/ EndChunk \/ NextHeader
    BY <1>3 DEF writeFirmware, EndChunk, NextHeader
  <1>4. CASE ReadHeader \/ SplitHeader \/ SpoiltHeader \/ ManifestAnswered
    BY <1>4 DEF ReadHeader, SplitHeader, SpoiltHeader, ManifestAnswered
  <1>5. CASE onFirmware \/ pushBack \/ FirmwareTaken
    BY <1>5 DEF onFirmware, pushBack, FirmwareTaken
  <1>6. CASE _bufferFull \/ CreateAnswered \/ WriteAnswered \/ execute
    BY <1>6 DEF _bufferFull, CreateAnswered, WriteAnswered, execute, PacketDone
  <1>7. CASE notification \/ ChipEntersDfu \/ ChipFallsSilent \/ UNCHANGED vars
    BY <1>7 DEF notification, ChipEntersDfu, ChipFallsSilent, vars
  <1> QED
    BY <1>1, <1>2, <1>3, <1>4, <1>5, <1>6, <1>7 DEF Next, UpdateTask

LEMMA UntidyStays ==
    ASSUME RefusalInv, Unspoilt, ~Tidy, Next
    PROVE  ~Tidy' /\ Unspoilt'
  <1>1. late \in Nat /\ lost \in Nat /\ late' \in {late, late + 1}
    BY ChipMoves DEF RefusalInv, ChannelTypeOK
  <1>2. lost' \in {lost, lost + 1}
    BY ChipMoves DEF send
  <1>3. CASE late # 0 \/ lost # 0
    <2>1. late' # 0 \/ lost' # 0
      BY <1>1, <1>2, <1>3
    <2> QED
      BY <2>1 DEF Tidy, Unspoilt
  <1>0. swallowed # 0 => swallowed' = swallowed
    BY SwallowedStays
  <1>4. CASE chip.mode = "silent"
    <2>1. (chip' = chip) \/ (ChipKeeps /\ chip'.mode = "silent")
      BY <1>4, ChipMoves DEF send
    <2>2. chip'.mode = "silent"
      BY <1>4, <2>1
    <2>3. late' = 0 /\ lost' = 0 /\ swallowed' = 0 =>
              late = 0 /\ lost = 0 /\ swallowed = 0
      BY <1>0, <1>1, <1>2
    <2>4. chip.inOrder /\ chip.sound => chip'.inOrder /\ chip'.sound
      BY <2>1 DEF ChipKeeps
    <2> QED
      BY <2>2, <2>3, <2>4 DEF Tidy, Unspoilt
  <1>5. CASE pc = "end"
    <2>1. pc' = "end" /\ (UNCHANGED chip \/ ChipKeeps)
      BY <1>5, ChipMoves
    <2>2. late' = 0 /\ lost' = 0 /\ swallowed' = 0 =>
              late = 0 /\ lost = 0 /\ swallowed = 0
      BY <1>0, <1>1, <1>2
    <2>3. chip.inOrder /\ chip.sound => chip'.inOrder /\ chip'.sound
      BY <2>1 DEF ChipKeeps
    <2> QED
      BY <2>1, <2>2, <2>3 DEF Tidy, Unspoilt
  <1>6. CASE swallowed # 0
    BY <1>0, <1>6 DEF Tidy, Unspoilt
  <1> QED
    BY <1>3, <1>4, <1>5, <1>6 DEF Tidy

LEMMA LockFacts ==
    ASSUME OrderInv
    PROVE  /\ RefusalInv /\ FitInv /\ Unspoilt
           /\ package \in Packages /\ Len(package) \in Nat
           /\ image \in 0..Len(package)
           /\ image # 0 =>
                  /\ Size \in Nat /\ Size > 0 /\ Type \in ImageType
                  /\ IsInit(image) \/ IsData(image)
                  /\ IsInit(image) <=> Type = "FIRMWARE_INIT"
                  /\ IsData(image) <=> Type = "FIRMWARE_DATA"
           /\ buffered \in Nat /\ toPush \in Nat /\ mFirmwareOffset \in Nat
           /\ buffered <= PacketLen
           /\ mRemainingFirmwareSize \in Nat /\ mCurrentObjectOffset \in Nat
           /\ mIgnoreNextFirmware \in BOOLEAN
           /\ chip \in ChipType /\ asked \in AskedType
           /\ chip.image \in Nat /\ chip.object \in Nat /\ chip.offset \in Nat
           /\ chip.executed \in Nat /\ chip.expects \in Nat
           /\ Tidy => chip.inOrder /\ chip.sound /\ Lock
  <1>1. /\ RefusalInv /\ FitInv /\ Unspoilt
        /\ Tidy => chip.inOrder /\ chip.sound /\ Lock
    BY DEF OrderInv, RefusalInv, Unspoilt, Tidy
  <1> QED
    BY <1>1, UpdateFacts

(* A command that is asked while all is tidy.                              *)
LEMMA AskConverses ==
    ASSUME OrderInv, Tidy, late' = 0, lost' = 0, answer # Pending,
           NEW cmd \in AskedType, cmd.command # "NONE", Ask(cmd),
           cmd.command # "PING" => chip.mode = "dfu"
    PROVE  /\ answer' = Pending /\ asked' = cmd /\ UNCHANGED older
           /\ chip.mode = "dfu" => chip' = After(cmd) /\ InChannel' = {ReplyTo(cmd)}
           /\ chip.mode # "dfu" => chip' = chip /\ InChannel' = {}
           /\ (\A r \in InChannel : Right(r))' => Conversation'
  <1>1. /\ replies = << >> /\ mDfuPacketQueue = << >> /\ lost = 0
    BY LockFacts DEF Lock, Conversation, Tidy
  <1>2. answer' = Pending /\ asked' = cmd /\ send(cmd) /\ UNCHANGED older
    BY DEF Ask
  <1>3. /\ mDfuPacketQueue' = << >>
        /\ IF chip.mode = "dfu"
           THEN chip' = After(cmd) /\ replies' = << ReplyTo(cmd) >>
           ELSE chip' = chip /\ replies' = << >>
    BY <1>1, <1>2, SentToEmpty
  <1>4. Pending # Unanswered
    BY DEF Pending, Unanswered, Reply
  <1>5. CASE chip.mode = "dfu"
    <2>1. InChannel' = {ReplyTo(cmd)} /\ Len(replies') = 1 /\ replies' # << >>
      BY <1>3, <1>5, OneReply
    <2>2. (\A r \in InChannel : Right(r))' => Conversation'
      BY <1>2, <1>3, <1>4, <1>5, <2>1 DEF Conversation
    <2> QED
      BY <1>2, <1>3, <1>5, <2>1, <2>2
  <1>6. CASE chip.mode # "dfu"
    <2>1. InChannel' = {}
      BY <1>3, <1>6, EmptiedChannel
    <2>2. Conversation'
      BY <1>2, <1>3, <1>4, <1>6, <2>1 DEF Conversation
    <2> QED
      BY <1>2, <1>3, <1>6, <2>1, <2>2
  <1> QED
    BY <1>5, <1>6

LEMMA PlainConverses ==
    ASSUME OrderInv, Tidy, late' = 0, lost' = 0, answer # Pending,
           NEW command \in {"PING", "MTU", "PRN", "SELECT"}, Ask(Plain(command)),
           command # "PING" => chip.mode = "dfu", pc' # "write"
    PROVE  chip' = chip /\ Conversation'
  <1> DEFINE cmd == Plain(command)
  <1>1. cmd \in AskedType /\ cmd.command = command /\ Ask(cmd)
    BY PlainAsked DEF PlainCommand
  <1> HIDE DEF cmd
  <1>2. /\ asked' = cmd
        /\ chip.mode = "dfu" => chip' = After(cmd) /\ InChannel' = {ReplyTo(cmd)}
        /\ chip.mode # "dfu" => chip' = chip /\ InChannel' = {}
        /\ (\A r \in InChannel : Right(r))' => Conversation'
    BY <1>1, AskConverses
  <1>3. CodeOf(cmd) = "SUCCESS" /\ After(cmd) = chip
    BY <1>1 DEF CodeOf, Fits, After
  <1>4. ReplyTo(cmd).command = command /\ ReplyTo(cmd).code = "SUCCESS"
    BY <1>1, <1>3, LockFacts, ReplyKinds
  <1>5. responseCommand' = command
    BY <1>1, <1>2 DEF responseCommand
  <1>6. (\A r \in InChannel : Right(r))'
    BY <1>1, <1>2, <1>3, <1>4, <1>5 DEF Right
  <1> QED
    BY <1>2, <1>3, <1>6

(* The update task goes on by itself.                                      *)
LEMMA WorkConverses ==
    ASSUME Conversation, UNCHANGED <<callVars, channelVars>>, answer # Pending,
           pc' # "write"
    PROVE  Conversation'
  <1> USE DEF callVars, channelVars
  <1>1. InChannel' = {} /\ responseCommand' = responseCommand
    BY EmptiedChannel DEF Conversation, responseCommand
  <1>2. answer \notin {Pending, Unanswered} => Right(answer)'
    BY <1>1 DEF Conversation, Right
  <1> QED
    BY <1>1, <1>2 DEF Conversation

-----------------------------------------------------------------------------
(* The channel, while all is tidy.                                         *)

LEMMA NoneIsEmpty ==
    \A s \in Seq(ReplyType) : s # << >> => Len(s) \in Nat \ {0}
  BY EmptySeq

LEMMA LedgerKept ==
    ASSUME Ledger, UNCHANGED fitVars
    PROVE  Ledger'
  BY DEF Ledger, fitVars, parseVars, bufferVars, objectVars, Waiting, LeftOut,
         IsData, Size

LEMMA ProgressKept ==
    ASSUME Progress, UNCHANGED fitVars, ChipKeeps,
           chip.mode = "dfu" => chip'.mode = "dfu",
           pc = "execute" =>
               InChannel' \cup {answer'} \subseteq InChannel \cup {answer}
    PROVE  Progress'
  <1> USE DEF fitVars, parseVars, bufferVars, objectVars
  <1>1. /\ \A i : (IsInit(i)' <=> IsInit(i)) /\ (IsData(i)' <=> IsData(i))
        /\ (IsInit(image)' <=> IsInit(image)) /\ (IsData(image)' <=> IsData(image))
        /\ Sent' = Sent /\ Size' = Size /\ Type' = Type
    BY DEF IsInit, IsData, Sent, Size, Type
  <1>2. Opened => Opened'
    BY <1>1 DEF Opened, ChipKeeps
  <1>3. /\ Announced(image) => Announced(image)'
        /\ Announced(image + 1) => Announced(image + 1)'
    BY DEF Announced, ChipKeeps
  <1>4. Closed => Closed'
    BY <1>1, <1>3 DEF Closed, ChipKeeps
  <1>5. pc = "execute" =>
            \/ /\ Closed'
               /\ \A r \in InChannel' \cup {answer'} : r = Pending \/ r.code = "SUCCESS"
            \/ /\ IsInit(image)' /\ mRemainingFirmwareSize' = 0
               /\ \A r \in InChannel' \cup {answer'} : r = Pending \/ Refused(r)
    BY <1>1, <1>4 DEF Progress
  <1>6. (\A r \in InChannel \cup {answer} : r = Pending \/ Refused(r))'
            <=> \A r \in InChannel' \cup {answer'} : r = Pending \/ Refused(r)
    BY DEF Refused, Pending, Reply
  <1> QED
    BY <1>1, <1>2, <1>3, <1>4, <1>5 DEF Progress, Refused

LEMMA NotificationInOrder ==
    ASSUME OrderInv, Tidy, notification
    PROVE  Unspoilt' /\ Lock'
  <1>1. /\ Conversation /\ Ledger /\ Progress /\ ChannelTypeOK
        /\ replies \in Seq(ReplyType)
    BY LockFacts DEF Lock, RefusalInv, ChannelTypeOK
  <1>2. /\ UNCHANGED <<fitVars, asked, answer, chip, late, lost>>
        /\ replies # << >> /\ replies' = Tail(replies)
        /\ answer = Pending => mDfuPacketQueue = << >>
    BY <1>1 DEF notification, updateVars, fitVars, callVars, Conversation
  <1>3. answer = Pending /\ mDfuPacketQueue = << >> /\ Len(replies) = 1
    <2>1. Len(replies) \in Nat \ {0} /\ Len(replies) <= 1
      BY <1>1, <1>2, NoneIsEmpty DEF Conversation
    <2>2. answer = Pending /\ mDfuPacketQueue = << >>
      BY <1>1, <1>2 DEF Conversation
    <2> QED
      BY <2>1, <2>2
  <1>4. /\ mDfuPacketQueue' = << Head(replies) >> /\ replies' = << >>
    <2>1. Append(mDfuPacketQueue, Head(replies)) = << Head(replies) >>
      BY <1>3
    <2>2. Len(mDfuPacketQueue) < MAX_NUMBER_OF_RECEIVED_SLIP_PACKET
      BY <1>3 DEF MAX_NUMBER_OF_RECEIVED_SLIP_PACKET
    <2>3. Tail(replies) = << >>
      <3>1. Tail(replies) \in Seq(ReplyType) /\ Len(Tail(replies)) = 0
        BY <1>1, <1>2, <1>3, HeadTailProperties
      <3> QED
        BY <3>1, NoneIsEmpty
    <2> QED
      BY <1>2, <1>3, <2>1, <2>2, <2>3 DEF notification
  <1>5. InChannel' \subseteq InChannel
    BY <1>1, NotificationKeeps
  <1>6. Conversation'
    <2>1. responseCommand' = responseCommand /\ Sent' = Sent /\ UNCHANGED <<pc, chip, asked, answer>>
      BY <1>2 DEF responseCommand, Sent, Size, fitVars, parseVars, objectVars
    <2>2. (\A r \in InChannel : Right(r))'
      BY <1>1, <1>5, <2>1 DEF Conversation, Right
    <2>3. Len(mDfuPacketQueue') = 1 /\ mDfuPacketQueue' # << >>
      BY <1>4
    <2> QED
      BY <1>1, <1>3, <1>4, <2>1, <2>2, <2>3 DEF Conversation, Right
  <1>7. Ledger' /\ Progress'
    BY <1>1, <1>2, <1>5, LedgerKept, ProgressKept DEF ChipKeeps
  <1> QED
    BY <1>2, <1>6, <1>7, LockFacts DEF Lock, Unspoilt

LEMMA ModeInOrder ==
    ASSUME OrderInv, Tidy,
           UNCHANGED <<updateVars, mDfuPacketQueue, replies, late, lost>>,
           chip' = chip \/ ChipKeeps,
           chip.mode = "dfu" => chip'.mode \in {"dfu", "silent"}
    PROVE  Unspoilt' /\ (Tidy' => Lock')
  <1>1. Conversation /\ Ledger /\ Progress /\ chip.inOrder /\ chip.sound
    BY LockFacts DEF Lock
  <1>2. ChipKeeps
    BY DEF ChipKeeps
  <1>3. Unspoilt'
    BY <1>1, <1>2 DEF Unspoilt, ChipKeeps
  <1>4. ASSUME Tidy' PROVE Lock'
    <2>1. chip.mode = "dfu" => chip'.mode = "dfu"
      BY <1>4 DEF Tidy
    <2>2. UNCHANGED <<fitVars, asked, answer>> /\ InChannel' = InChannel
      BY DEF updateVars, callVars, fitVars, InChannel, Arrived, OnTheWay
    <2>3. Ledger' /\ Progress'
      BY <1>1, <1>2, <2>1, <2>2, LedgerKept, ProgressKept
    <2>4. responseCommand' = responseCommand /\ Sent' = Sent
      BY <2>2 DEF responseCommand, Sent, Size, fitVars, parseVars, objectVars
    <2>5. Conversation'
      BY <1>1, <2>1, <2>2, <2>4 DEF Conversation, Right, fitVars
    <2> QED
      BY <2>3, <2>5 DEF Lock
  <1> QED
    BY <1>3, <1>4

LEMMA ReceiveInOrder ==
    ASSUME OrderInv, Tidy, receive \/ receiveTimesOut, late' = 0, lost' = 0
    PROVE  chip'.inOrder /\ chip'.sound /\ Lock'
  <1>1. /\ Conversation /\ Ledger /\ Progress /\ chip.inOrder /\ chip.sound
        /\ ChannelTypeOK /\ lost = 0
    BY LockFacts DEF Lock, RefusalInv, Tidy
  <1>2. answer = Pending /\ UNCHANGED <<fitVars, asked>>
    BY <1>1, WaitEnds
  <1>3. responseCommand' = responseCommand /\ Sent' = Sent
    BY <1>2 DEF responseCommand, Sent, Size, fitVars, parseVars, objectVars
  <1>4. CASE receive
    <2>1. /\ mDfuPacketQueue # << >> /\ replies = << >>
          /\ mDfuPacketQueue \in Seq(ReplyType)
      BY <1>1, <1>4 DEF receive, Conversation, ChannelTypeOK
    <2>2. Head(mDfuPacketQueue) \in InChannel
      <3>1. Len(mDfuPacketQueue) \in Nat \ {0}
        BY <2>1, NoneIsEmpty
      <3>2. 1 \in 1..Len(mDfuPacketQueue) /\ Head(mDfuPacketQueue) = mDfuPacketQueue[1]
        BY <2>1, <3>1
      <3> QED
        BY <3>2 DEF InChannel, Arrived
    <2>3. Right(Head(mDfuPacketQueue))
      BY <1>1, <2>2 DEF Conversation
    <2>4. /\ answer' = Head(mDfuPacketQueue) /\ mDfuPacketQueue' = << >>
          /\ UNCHANGED <<chip, replies, lost>>
      BY <1>4, <2>3 DEF receive, Right
    <2>5. InChannel' = {} /\ InChannel' \cup {answer'} \subseteq InChannel \cup {answer}
      BY <2>1, <2>2, <2>4, EmptiedChannel
    <2>6. Right(answer)'
      BY <1>2, <1>3, <2>3, <2>4 DEF Right, fitVars
    <2>7. answer' \notin {Pending, Unanswered}
      <3>1. answer' \in ReplyType
        BY <2>1, <2>4, HeadTailProperties
      <3> QED
        BY <3>1 DEF ReplyType, PlainCommand, Pending, Unanswered, Reply
    <2>8. Conversation'
      BY <2>1, <2>4, <2>5, <2>6, <2>7 DEF Conversation
    <2>9. Ledger' /\ Progress'
      BY <1>1, <1>2, <2>4, <2>5, LedgerKept, ProgressKept DEF ChipKeeps
    <2> QED
      BY <1>1, <2>4, <2>8, <2>9 DEF Lock
  <1>5. CASE receiveTimesOut
    <2>1. replies = << >> /\ mDfuPacketQueue = << >> /\ tryAgain
      <3>1. late \in Nat /\ late' # late + 1
        BY <1>1 DEF ChannelTypeOK
      <3> QED
        BY <1>5, <3>1 DEF receiveTimesOut
    <2>2. /\ asked.command = "PING" /\ asked \in AskedType
          /\ pc \in Pings
      <3>1. asked.command \in {"NONE", "PING"}
        BY <1>1, <1>2, <2>1 DEF Conversation
      <3>2. pc \in Pings \cup {"mtu", "prn", "select", "create", "write", "execute"}
        BY <1>2, LockFacts
           DEF RefusalInv, Dialog, AskedHere, FitInv, Kinds, Places, Idle, Pings
      <3> QED
        BY <3>1, <3>2, LockFacts DEF RefusalInv, Dialog, AskedHere, Pings
    <2>3. CodeOf(asked) = "SUCCESS" /\ After(asked) = chip
      BY <2>2 DEF CodeOf, Fits, After
    <2>4. ReplyTo(asked).command = "PING" /\ ReplyTo(asked).code = "SUCCESS"
      BY <2>2, <2>3, LockFacts, ReplyKinds
    <2>5. responseCommand' = "PING"
      BY <1>3, <2>2 DEF responseCommand
    <2>6. Pending # Unanswered
      BY DEF Pending, Unanswered, Reply
    <2>7. chip' = chip /\ Conversation'
      <3>1. CASE send(asked) /\ answer' = answer
        <4>1. /\ mDfuPacketQueue' = << >>
              /\ IF chip.mode = "dfu"
                 THEN chip' = After(asked) /\ replies' = << ReplyTo(asked) >>
                 ELSE chip' = chip /\ replies' = << >>
          BY <1>1, <2>1, <3>1, SentToEmpty
        <4>2. CASE chip.mode = "dfu"
          <5>1. /\ chip' = chip
                /\ InChannel' = {ReplyTo(asked)} /\ Len(replies') = 1
            BY <2>3, <4>1, <4>2, OneReply
          <5>2. (\A r \in InChannel : Right(r))'
            BY <1>2, <2>2, <2>4, <2>5, <4>2, <5>1 DEF Right, Pings, fitVars
          <5> QED
            BY <1>2, <2>2, <2>6, <3>1, <4>1, <4>2, <5>1, <5>2 DEF Conversation
        <4>3. CASE chip.mode # "dfu"
          <5>1. chip' = chip /\ InChannel' = {}
            BY <4>1, <4>3, EmptiedChannel
          <5> QED
            BY <1>2, <2>2, <2>6, <3>1, <4>1, <4>3, <5>1 DEF Conversation
        <4> QED
          BY <4>2, <4>3
      <3>2. CASE /\ answer' = Unanswered /\ mDfuPacketQueue' = << >>
                 /\ UNCHANGED <<chip, replies, lost>>
        <4>1. InChannel' = {}
          BY <2>1, <3>2, EmptiedChannel
        <4> QED
          BY <1>2, <2>1, <2>2, <3>2, <4>1 DEF Conversation
      <3> QED
        BY <2>1, <3>1, <3>2 DEF tryAgain
    <2>8. Ledger' /\ Progress'
      BY <1>1, <1>2, <2>2, <2>7, LedgerKept, ProgressKept DEF ChipKeeps, Pings
    <2> QED
      BY <1>1, <2>7, <2>8 DEF Lock
  <1> QED
    BY <1>4, <1>5

(* The chip is asked for its boot loader, and the ping that tells.         *)
LEMMA InitUpdateInOrder ==
    ASSUME OrderInv, Tidy, late' = 0, lost' = 0,
           enterDfu \/ forceDfu \/ waitEnteredDfu \/ initUpdate
    PROVE  chip'.inOrder /\ chip'.sound /\ (Tidy' => Lock')
  <1>1. /\ Conversation /\ Ledger /\ Progress /\ chip.inOrder /\ chip.sound
        /\ chip \in ChipType /\ answer # Pending
    <2>1. answer # Pending
      BY PlaceFacts
         DEF OrderInv, enterDfu, forceDfu, waitEnteredDfu, initUpdate, OrderDfu,
             GoesOn, Idle
    <2> QED
      BY <2>1, LockFacts DEF Lock
  <1>2. /\ UNCHANGED <<parseVars, bufferVars, objectVars>>
        /\ pc \in BeforePackage \cup {"reentering"}
        /\ pc' \in BeforePackage \cup {"read", "pingAgain", "end"}
        /\ pc = "reentering" <=> pc' = "pingAgain"
    BY DEF enterDfu, forceDfu, OrderDfu, waitEnteredDfu, initUpdate, GoesOn,
           Stop, BeforePackage
  <1> USE DEF parseVars, bufferVars, objectVars
  <1>3. pc' # "end" => Ledger' /\ Progress'
    <2>1. pc \in BeforePackage => image = 0 /\ mCurrentState = "HEADER"
      BY LockFacts DEF RefusalInv, Dialog, AskedHere, FitInv, AtRest
    <2>2. pc' # "end" => Ledger'
      BY <1>1, <1>2, <2>1
         DEF Ledger, BeforePackage, BeforeImage, Waiting, LeftOut, IsData, Size
    <2>3. pc' # "end" => Progress'
      <3>1. pc' = "pingAgain" => chip' = chip
        BY <1>1, <1>2, PlainConverses
           DEF enterDfu, forceDfu, OrderDfu, waitEnteredDfu, initUpdate, GoesOn
      <3>2. pc' = "pingAgain" /\ IsData(image)' => Announced(image)'
        BY <1>1, <1>2, <3>1 DEF Progress, BeforeImage, IsData, Announced
      <3> QED
        BY <1>2, <2>1, <3>2 DEF Progress, BeforePackage, BeforeImage
    <2> QED
      BY <2>2, <2>3
  <1>4. chip'.inOrder /\ chip'.sound /\ (pc' # "end" => Conversation')
    <2>1. CASE enterDfu \/ forceDfu
      <3>1. /\ UNCHANGED <<callVars, mDfuPacketQueue, replies>> /\ pc' \in BeforePackage
            /\ chipMayRestart
        BY <2>1 DEF enterDfu, forceDfu, OrderDfu, BeforePackage
      <3> DEFINE mode == IF chip.mode = "application" THEN "restarting" ELSE chip.mode
      <3>2. mode \in {"application", "restarting", "dfu", "silent"}
        BY <1>1 DEF ChipType
      <3>3. chip' = chip \/ chip' = [chip EXCEPT !.mode = mode]
        BY <3>1 DEF chipMayRestart
      <3>4. chip.mode = "dfu" => mode = "dfu"
        OBVIOUS
      <3> HIDE DEF mode
      <3>5. ChipKeeps /\ (chip.mode = "dfu" => chip'.mode = "dfu")
        <4>1. CASE chip' = [chip EXCEPT !.mode = mode]
          <5>1. chip'.mode = mode
            BY <1>1, <4>1 DEF ChipType
          <5> QED
            BY <1>1, <3>2, <3>4, <4>1, <5>1, ModeOnly
        <4> QED
          BY <3>3, <4>1 DEF ChipKeeps
      <3>6. /\ InChannel' = {} /\ responseCommand' = responseCommand
            /\ asked' = asked /\ answer' = answer
        BY <1>1, <3>1, EmptiedChannel DEF Conversation, responseCommand, callVars
      <3>7. answer \notin {Pending, Unanswered} => Right(answer)'
        BY <1>1, <1>2, <3>1, <3>5, <3>6 DEF Conversation, Right, BeforePackage
      <3>8. Conversation'
        BY <1>1, <3>1, <3>6, <3>7 DEF Conversation
      <3> QED
        BY <1>1, <3>5, <3>8 DEF ChipKeeps
    <2>2. CASE waitEnteredDfu
      <3>1. Ask(Plain("PING")) /\ pc' # "write"
        BY <2>2 DEF waitEnteredDfu
      <3>2. chip' = chip /\ Conversation'
        BY <1>1, <3>1, PlainConverses
      <3> QED
        BY <1>1, <3>2
    <2>3. CASE initUpdate
      <3>1. \/ UNCHANGED <<callVars, channelVars>> /\ pc' # "write"
            \/ pc' = "end" /\ UNCHANGED chip
        BY <2>3 DEF initUpdate, GoesOn, Stop, channelVars
      <3>2. CASE UNCHANGED <<callVars, channelVars>> /\ pc' # "write"
        BY <1>1, <3>2, WorkConverses DEF channelVars
      <3> QED
        BY <1>1, <3>1, <3>2
    <2> QED
      BY <2>1, <2>2, <2>3
  <1> QED
    BY <1>3, <1>4 DEF Lock, Tidy

-----------------------------------------------------------------------------
(* The package is read.                                                    *)

(* What the chip has does not depend on what is done with the buffer.      *)
LEMMA WorkProgresses ==
    ASSUME Progress,
           UNCHANGED <<package, image, objectVars, chip>>,
           pc \in {"read", "parse", "push", "pushed"},
           pc' \in {"read", "parse", "push", "pushed", "packet"}
    PROVE  Progress'
  <1> USE DEF objectVars
  <1>1. /\ (IsInit(image)' <=> IsInit(image)) /\ (IsData(image)' <=> IsData(image))
        /\ Sent' = Sent /\ Size' = Size /\ Type' = Type
    BY DEF IsInit, IsData, Sent, Size, Type
  <1>2. Opened => Opened'
    BY <1>1 DEF Opened
  <1>3. Closed => Closed'
    BY <1>1 DEF Closed, Announced
  <1> QED
    BY <1>2, <1>3 DEF Progress, BeforeImage

LEMMA ChunkInOrder ==
    ASSUME OrderInv, Tidy, late' = 0, lost' = 0,
           \/ writeFirmware \/ EndChunk \/ NextHeader
           \/ SplitHeader \/ SpoiltHeader
    PROVE  chip'.inOrder /\ chip'.sound /\ (Tidy' => Lock')
  <1>1. /\ Conversation /\ Ledger /\ Progress /\ chip.inOrder /\ chip.sound
        /\ answer # Pending
    <2>1. answer # Pending
      BY PlaceFacts DEF OrderInv, writeFirmware, EndChunk, NextHeader,
                        SplitHeader, SpoiltHeader, InHeader, Idle
    <2> QED
      BY <2>1, LockFacts DEF Lock
  <1>2. /\ UNCHANGED <<package, image, mFirmwareOffset, bufferVars, objectVars, chip>>
        /\ pc \in {"read", "parse"}
        /\ \/ /\ pc' \in {"read", "parse"}
              /\ UNCHANGED <<callVars, channelVars>>
              /\ mCurrentState' = "FIRMWARE" <=> mCurrentState = "FIRMWARE"
           \/ pc' = "end"
    <2>1. CASE writeFirmware
      BY <2>1 DEF writeFirmware, Stop, channelVars
    <2>2. CASE EndChunk
      BY <2>2 DEF EndChunk, parseVars, channelVars
    <2>3. CASE NextHeader
      BY <2>3 DEF NextHeader, channelVars
    <2>4. CASE SplitHeader \/ SpoiltHeader
      BY <2>4 DEF SplitHeader, SpoiltHeader, InHeader, Stop, parseVars, channelVars
    <2> QED
      BY <2>1, <2>2, <2>3, <2>4
  <1>3. CASE /\ pc' \in {"read", "parse"}
             /\ UNCHANGED <<callVars, channelVars>>
             /\ mCurrentState' = "FIRMWARE" <=> mCurrentState = "FIRMWARE"
    <2>1. Conversation'
      BY <1>1, <1>3, WorkConverses
    <2>2. Ledger'
      BY <1>1, <1>2, <1>3, ChunkLedger
    <2>3. Progress'
      BY <1>1, <1>2, <1>3, WorkProgresses
    <2> QED
      BY <1>1, <1>2, <2>1, <2>2, <2>3 DEF Lock
  <1> QED
    BY <1>1, <1>2, <1>3 DEF Tidy

(* The next image is an INIT image, or the DATA image that the one before  *)
(* announced.                                                              *)
LEMMA ReadHeaderInOrder ==
    ASSUME OrderInv, Tidy, FitInv', late' = 0, lost' = 0, ReadHeader
    PROVE  chip'.inOrder /\ chip'.sound /\ (Tidy' => Lock')
  <1>1. /\ Conversation /\ Ledger /\ Progress /\ chip.inOrder /\ chip.sound
        /\ answer # Pending /\ package \in Packages
    <2>1. answer # Pending
      BY PlaceFacts DEF OrderInv, ReadHeader, InHeader, Idle
    <2> QED
      BY <2>1, LockFacts DEF Lock
  <1>2. /\ pc = "parse" /\ mCurrentState = "HEADER"
        /\ image' = image + 1 /\ mCurrentState' = "FIRMWARE"
        /\ UNCHANGED <<package, mFirmwareOffset, toPush>>
        /\ buffered' = 0 /\ mCurrentObjectOffset' = 0 /\ mRemainingFirmwareSize' = 0
        /\ onManifest(package[image'])
    BY DEF ReadHeader, InHeader, onManifest
  <1>3. /\ image \in Nat /\ image' \in 1..Len(package)
        /\ \A i : (IsInit(i)' <=> IsInit(i)) /\ (IsData(i)' <=> IsData(i))
        /\ (IsInit(image)' <=> IsInit(image')) /\ (IsData(image)' <=> IsData(image'))
        /\ IsInit(image') <=> package[image'].type = "FIRMWARE_INIT"
        /\ IsData(image') <=> package[image'].type = "FIRMWARE_DATA"
    <2>1. image \in 0..Len(package) /\ Len(package) \in Nat
      BY LockFacts
    <2>2. image' \in 0..Len(package)
      BY <1>2 DEF FitInv, Kinds
    <2>3. image' \in 1..Len(package)
      BY <1>2, <2>1, <2>2
    <2> QED
      BY <1>2, <2>1, <2>3 DEF IsInit, IsData
  <1>4. Ledger'
    BY LockFacts, ReadHeaderLedger
  <1>5. CASE /\ package[image'].type = "FIRMWARE_DATA" /\ mIgnoreNextFirmware
             /\ pc' = "parse"
             /\ UNCHANGED <<mIgnoreNextFirmware, callVars, channelVars>>
    <2>1. Conversation' /\ chip' = chip
      BY <1>1, <1>5, WorkConverses DEF channelVars
    <2>3. Progress'
      BY <1>2, <1>5 DEF Progress, BeforeImage
    <2> QED
      BY <1>1, <1>4, <2>1, <2>3 DEF Lock
  <1>6. CASE /\ package[image'].type = "FIRMWARE_DATA" /\ ~mIgnoreNextFirmware
             /\ pc' = "select" /\ Ask(Plain("SELECT"))
             /\ UNCHANGED mIgnoreNextFirmware
    <2>1. IsData(image') /\ IsInit(image) /\ image # 0
      <3>1. IsData(image')
        BY <1>3, <1>6
      <3>2. image' \in Nat /\ image' - 1 = image
        BY <1>2, <1>3
      <3>3. image' > 1 /\ IsInit(image' - 1)
        BY <1>1, <3>1, <3>2, ImagesTakeTurns
      <3>4. IsInit(image)
        BY <3>2, <3>3 DEF IsInit
      <3>5. image # 0
        <4>1. image' > 1
          BY <3>3
        <4> QED
          BY <3>2, <4>1
      <3> QED
        BY <3>1, <3>4, <3>5
    <2>2. mRemainingFirmwareSize = 0 /\ mCurrentObjectOffset = 0
      BY <1>1, <1>2 DEF Ledger
    <2>3. chip.mode = "dfu" /\ Announced(image')
      BY <1>1, <1>2, <1>6, <2>1, <2>2 DEF Progress, Closed
    <2>4. chip' = chip /\ Conversation'
      BY <1>1, <1>6, <2>3, PlainConverses
    <2>6. Announced(image)'
      BY <2>3, <2>4 DEF Announced
    <2>7. Progress'
      BY <1>6, <2>3, <2>4, <2>6 DEF Progress, BeforeImage
    <2> QED
      BY <1>1, <1>4, <2>4, <2>7 DEF Lock
  <1>7. CASE /\ package[image'].type = "FIRMWARE_INIT"
             /\ mIgnoreNextFirmware' = FALSE
             /\ pc' = "pingDfu" /\ Ask(Plain("PING"))
    <2>1. chip' = chip /\ Conversation'
      BY <1>1, <1>7, PlainConverses
    <2>3. Progress'
      BY <1>3, <1>7 DEF Progress, BeforeImage
    <2> QED
      BY <1>1, <1>4, <2>1, <2>3 DEF Lock
  <1> QED
    BY <1>2, <1>5, <1>6, <1>7 DEF onManifest

LEMMA ManifestInOrder ==
    ASSUME OrderInv, Tidy, FitInv', late' = 0, lost' = 0, ManifestAnswered
    PROVE  chip'.inOrder /\ chip'.sound /\ (Tidy' => Lock')
  <1>1. /\ Conversation /\ Ledger /\ Progress /\ chip.inOrder /\ chip.sound
        /\ answer # Pending
        /\ pc \in {"pingDfu", "pingAgain", "mtu", "prn", "select"}
    BY LockFacts DEF Lock, ManifestAnswered, GoesOn
  <1>2. /\ UNCHANGED <<parseVars, bufferVars, mCurrentObjectOffset, mIgnoreNextFirmware>>
        /\ mRemainingFirmwareSize' = IF pc' = "parse" THEN Size ELSE 0
        /\ \/ /\ Succeeded
              /\ \/ /\ pc \in {"pingDfu", "pingAgain"}
                    /\ pc' = "mtu" /\ Ask(Plain("MTU"))
                 \/ pc = "mtu" /\ pc' = "prn" /\ Ask(Plain("PRN"))
                 \/ pc = "prn" /\ pc' = "select" /\ Ask(Plain("SELECT"))
                 \/ pc = "select" /\ pc' = "parse" /\ UNCHANGED <<callVars, channelVars>>
           \/ /\ pc' = "reentering"
              /\ UNCHANGED <<callVars, channelVars>>
           \/ pc' = "end" /\ UNCHANGED chip
    BY DEF ManifestAnswered, Stop, channelVars
  <1> USE DEF parseVars, bufferVars
  <1>3. /\ mCurrentState = "FIRMWARE" /\ mFirmwareOffset = 0 /\ buffered = 0
        /\ toPush = 0 /\ mCurrentObjectOffset = 0 /\ image # 0
        /\ mRemainingFirmwareSize = 0 /\ ~mIgnoreNextFirmware
        /\ Size \in Nat /\ Size > 0 /\ (IsInit(image) \/ IsData(image))
    <2>1. /\ mCurrentState = "FIRMWARE" /\ mFirmwareOffset = 0 /\ buffered = 0
          /\ toPush = 0 /\ mCurrentObjectOffset = 0 /\ image # 0
      BY <1>1, LockFacts DEF FitInv, AtRest, Position, BeforeImage
    <2> QED
      BY <1>1, <2>1, LockFacts DEF Ledger, BeforeImage
  <1>4. /\ (IsInit(image)' <=> IsInit(image)) /\ (IsData(image)' <=> IsData(image))
        /\ Size' = Size
    BY <1>2 DEF IsInit, IsData, Size
  <1>5. Succeeded => chip.mode = "dfu"
    <2> SUFFICES ASSUME Succeeded PROVE chip.mode = "dfu"
      OBVIOUS
    <2>1. answer \notin {Pending, Unanswered}
      BY DEF Succeeded, Pending, Unanswered, Reply
    <2>2. pc \in {"pingDfu", "pingAgain"} => asked.command = "PING"
      BY <1>1, LockFacts DEF RefusalInv, Dialog, AskedHere, Pings
    <2> QED
      BY <1>1, <2>1, <2>2 DEF Conversation, Right, Progress
  <1>6. pc' # "end" => Ledger'
    BY <1>1, LockFacts, ManifestLedger
  <1>7. CASE /\ Succeeded
             /\ \E command \in {"MTU", "PRN", "SELECT"} : Ask(Plain(command))
             /\ pc' \in {"mtu", "prn", "select"}
    <2>1. chip' = chip /\ Conversation'
      BY <1>1, <1>5, <1>7, PlainConverses
    <2>2. Progress'
      <3>1. IsData(image) => Announced(image)
        BY <1>1 DEF Progress, BeforeImage
      <3>2. IsData(image)' => Announced(image)'
        BY <1>2, <1>4, <2>1, <3>1 DEF Announced
      <3> QED
        BY <1>5, <1>7, <2>1, <3>2 DEF Progress
    <2> QED
      BY <1>1, <1>6, <1>7, <2>1, <2>2 DEF Lock
  <1>8. CASE pc = "select" /\ pc' = "parse" /\ UNCHANGED <<callVars, channelVars>>
    <2>1. Conversation' /\ chip' = chip
      BY <1>1, <1>8, WorkConverses DEF channelVars
    <2>3. chip.mode = "dfu" /\ (IsData(image) => Announced(image))
      BY <1>1, <1>8 DEF Progress, BeforeImage
    <2>4. Closed'
      BY <1>2, <1>3, <1>4, <1>8, <2>1, <2>3 DEF Closed, Announced, Sent
    <2>5. Progress'
      BY <1>2, <1>3, <1>8, <2>4 DEF Progress, BeforeImage
    <2> QED
      BY <1>1, <1>6, <1>8, <2>1, <2>5 DEF Lock
  <1>9. CASE pc' = "reentering" /\ UNCHANGED <<callVars, channelVars>>
    <2>1. Conversation' /\ chip' = chip
      BY <1>1, <1>9, WorkConverses DEF channelVars
    <2>2. Progress'
      <3>1. IsData(image)' => Announced(image)'
        BY <1>1, <1>2, <1>4, <2>1 DEF Progress, BeforeImage, Announced
      <3> QED
        BY <1>9, <3>1 DEF Progress
    <2> QED
      BY <1>1, <1>6, <1>9, <2>1, <2>2 DEF Lock
  <1> QED
    BY <1>1, <1>2, <1>7, <1>8, <1>9 DEF Tidy

-----------------------------------------------------------------------------
(* The bytes of an image go to the buffer.                                 *)

LEMMA WorkInOrder ==
    ASSUME OrderInv, Tidy, UNCHANGED <<package, image, objectVars, callVars, channelVars>>,
           pc \in {"read", "parse", "push", "pushed"},
           pc' \in {"read", "parse", "push", "pushed", "packet"},
           Ledger'
    PROVE  chip'.inOrder /\ chip'.sound /\ (Tidy' => Lock')
  <1>1. /\ Conversation /\ Progress /\ chip.inOrder /\ chip.sound
    BY LockFacts DEF Lock
  <1>2. chip' = chip /\ answer # Pending
    BY PlaceFacts DEF OrderInv, channelVars, Idle
  <1>3. Conversation'
    BY <1>1, <1>2, WorkConverses
  <1>4. Progress'
    BY <1>1, <1>2, WorkProgresses
  <1> QED
    BY <1>1, <1>2, <1>3, <1>4 DEF Lock

LEMMA OnFirmwareInOrder ==
    ASSUME OrderInv, Tidy, onFirmware
    PROVE  chip'.inOrder /\ chip'.sound /\ (Tidy' => Lock')
  <1>1. Ledger'
    BY LockFacts, OnFirmwareLedger DEF Lock
  <1> QED
    BY <1>1, WorkInOrder DEF onFirmware

LEMMA PushBackInOrder ==
    ASSUME OrderInv, Tidy, pushBack
    PROVE  chip'.inOrder /\ chip'.sound /\ (Tidy' => Lock')
  <1>1. Ledger'
    BY LockFacts, PushBackLedger DEF Lock
  <1>2. pc = "push" /\ pc' \in {"packet", "pushed"}
    BY DEF pushBack
  <1> QED
    BY <1>1, <1>2, WorkInOrder DEF pushBack, parseVars

LEMMA FirmwareTakenInOrder ==
    ASSUME OrderInv, Tidy, FirmwareTaken
    PROVE  chip'.inOrder /\ chip'.sound /\ (Tidy' => Lock')
  <1>1. /\ UNCHANGED <<package, image, objectVars>> /\ pc = "pushed"
        /\ \/ pc' \in {"parse", "packet"} /\ UNCHANGED <<callVars, channelVars>>
           \/ pc' = "end" /\ UNCHANGED chip
    BY DEF FirmwareTaken, Stop, channelVars
  <1>2. chip.inOrder /\ chip.sound /\ Ledger
    BY LockFacts DEF Lock
  <1>3. CASE pc' \in {"parse", "packet"} /\ UNCHANGED <<callVars, channelVars>>
    BY <1>1, <1>2, <1>3, LockFacts, FirmwareTakenLedger, WorkInOrder
  <1>4. CASE pc' = "end" /\ UNCHANGED chip
    BY <1>2, <1>4 DEF Tidy
  <1> QED
    BY <1>1, <1>3, <1>4


-----------------------------------------------------------------------------
(* The packets.                                                            *)

(* The packet that is sent begins where the chip stopped.                  *)
LEMMA PacketFacts ==
    ASSUME OrderInv, Tidy, pc \in {"packet", "create"}
    PROVE  /\ image \in 1..Len(package) /\ image \in Nat /\ image # 0
           /\ Size \in Nat /\ ~mIgnoreNextFirmware
           /\ PacketSize \in Nat /\ PacketSize > 0
           /\ mRemainingFirmwareSize >= PacketSize
           /\ mCurrentObjectOffset + PacketSize <= ObjectLen
           /\ PacketFrom = Sent /\ Sent \in Nat
  <1>1. PacketFrom = swallowed + Sent /\ Sent \in Nat /\ swallowed = 0
    BY LockFacts, PacketLedger DEF Lock, Tidy
  <1>2. PacketFrom = Sent
    BY <1>1
  <1> QED
    BY <1>2, LockFacts, PacketLedger DEF Lock

LEMMA WritePacketInOrder ==
    ASSUME OrderInv, Tidy, late' = 0, lost' = 0, answer # Pending,
           pc \in {"packet", "create"}, Opened, WritePacket,
           UNCHANGED <<parseVars, bufferVars, mIgnoreNextFirmware>>
    PROVE  chip'.inOrder /\ chip'.sound /\ (Tidy' => Lock')
  <1> DEFINE cmd == Write(PacketFrom, PacketSize)
  <1>1. /\ image \in Nat /\ image # 0
        /\ Size \in Nat /\ ~mIgnoreNextFirmware
        /\ PacketSize \in Nat /\ PacketSize > 0
        /\ mRemainingFirmwareSize >= PacketSize
        /\ mCurrentObjectOffset + PacketSize <= ObjectLen
        /\ PacketFrom = Sent /\ Sent \in Nat
    BY PacketFacts
  <1>2. /\ mRemainingFirmwareSize' = mRemainingFirmwareSize - PacketSize
        /\ mCurrentObjectOffset' = mCurrentObjectOffset + PacketSize
        /\ pc' = "write" /\ Ask(cmd)
    BY DEF WritePacket
  <1>3. /\ cmd \in AskedType /\ cmd.command = "WRITE"
        /\ cmd.from = Sent /\ cmd.size = PacketSize /\ cmd.image = image
    BY <1>1 DEF Write, AskedType
  <1> HIDE DEF cmd
  <1>4. /\ chip.mode = "dfu" /\ chip.image = image /\ chip.type = Type
        /\ chip.offset = Sent
        /\ chip.executed = Sent - mCurrentObjectOffset
        /\ chip.object = Least(mRemainingFirmwareSize + mCurrentObjectOffset, ObjectLen)
        /\ IsInit(image) => chip.executed = 0
        /\ IsData(image) => chip.expects = image
        /\ chip \in ChipType /\ chip.inOrder /\ chip.sound
    BY LockFacts DEF Opened
  <1>5. CodeOf(cmd) = "SUCCESS" /\ Fits(cmd)
    <2>1. chip.offset + cmd.size <= chip.executed + chip.object
      BY <1>1, <1>3, <1>4, LockFacts, Lengths DEF Least
    <2> QED
      BY <1>3, <2>1 DEF CodeOf, Fits
  <1>6. /\ asked' = cmd /\ chip' = After(cmd) /\ InChannel' = {ReplyTo(cmd)}
        /\ (\A r \in InChannel : Right(r))' => Conversation'
    BY <1>2, <1>3, <1>4, AskConverses
  <1>7. /\ UNCHANGED <<chip.mode, chip.type, chip.image, chip.object>>
        /\ UNCHANGED <<chip.executed, chip.expects>>
        /\ chip'.sound /\ chip'.inOrder
        /\ chip'.offset = chip.offset + cmd.size
    BY <1>3, <1>4, <1>5, <1>6, WriteTaken DEF ChipWrites
  <1>8. /\ (IsInit(image)' <=> IsInit(image)) /\ (IsData(image)' <=> IsData(image))
        /\ Size' = Size /\ Type' = Type /\ Sent' = Sent + PacketSize
        /\ image' = image /\ Waiting' = Waiting
    <2>1. /\ UNCHANGED <<package, image, mFirmwareOffset, buffered, toPush>>
          /\ (IsInit(image)' <=> IsInit(image)) /\ (IsData(image)' <=> IsData(image))
          /\ Size' = Size /\ Type' = Type
      BY DEF parseVars, bufferVars, IsInit, IsData, Size, Type
    <2>2. mRemainingFirmwareSize \in Nat
      BY LockFacts
    <2>3. Sent' = Sent + PacketSize
      BY <1>1, <1>2, <2>1, <2>2 DEF Sent
    <2> QED
      BY <2>1, <2>3 DEF Waiting
  <1>9. Conversation'
    <2>1. /\ ReplyTo(cmd).command = "CALCULATE_CHECKSUM"
          /\ ReplyTo(cmd).code = "SUCCESS"
          /\ ReplyTo(cmd).offset = chip.offset + cmd.size
      BY <1>3, <1>5 DEF ReplyTo, Reply
    <2>2. responseCommand' = "CALCULATE_CHECKSUM" /\ asked'.command = "WRITE"
      BY <1>3, <1>6 DEF responseCommand
    <2>3. (\A r \in InChannel : Right(r))'
      BY <1>3, <1>4, <1>6, <1>8, <2>1, <2>2 DEF Right
    <2> QED
      BY <1>6, <2>3
  <1>10. Ledger'
    BY LockFacts, WritePacketLedger DEF Lock
  <1>11. Opened'
    <2>1. mRemainingFirmwareSize' + mCurrentObjectOffset'
              = mRemainingFirmwareSize + mCurrentObjectOffset
      BY <1>1, <1>2, LockFacts
    <2>2. /\ chip'.offset = Sent'
          /\ chip'.executed = Sent' - mCurrentObjectOffset'
      BY <1>1, <1>2, <1>3, <1>4, <1>7, <1>8, LockFacts
    <2>3. chip'.object = Least(mRemainingFirmwareSize' + mCurrentObjectOffset', ObjectLen)
      BY <1>4, <1>7, <2>1
    <2> QED
      BY <1>4, <1>7, <1>8, <2>2, <2>3 DEF Opened, Least
  <1>12. Progress'
    BY <1>2, <1>11 DEF Progress, BeforeImage
  <1> QED
    BY <1>7, <1>9, <1>10, <1>12 DEF Lock

LEMMA CreateInOrder ==
    ASSUME OrderInv, Tidy, late' = 0, lost' = 0, pc = "packet",
           mCurrentObjectOffset = 0, pc' = "create",
           Ask([command |-> "CREATE", type |-> Type, image |-> image,
                size |-> Least(mRemainingFirmwareSize, ObjectLen)]),
           UNCHANGED <<parseVars, bufferVars, objectVars>>
    PROVE  chip'.inOrder /\ chip'.sound /\ (Tidy' => Lock')
  <1> DEFINE object == Least(mRemainingFirmwareSize, ObjectLen)
             cmd == [command |-> "CREATE", type |-> Type, image |-> image,
                     size |-> object]
  <1>1. /\ image \in Nat /\ image # 0
        /\ Size \in Nat /\ ~mIgnoreNextFirmware
        /\ mRemainingFirmwareSize > 0 /\ Sent \in Nat
        /\ Type \in ImageType /\ object \in Nat
    BY PacketFacts, LockFacts, Lengths DEF Least
  <1>2. Ask(cmd)
    OBVIOUS
  <1>9. object = Least(mRemainingFirmwareSize, ObjectLen)
    OBVIOUS
  <1> HIDE DEF object
  <1>3. /\ cmd \in AskedType /\ cmd.command = "CREATE"
        /\ cmd.type = Type /\ cmd.size = object /\ cmd.image = image
    BY <1>1 DEF AskedType
  <1> HIDE DEF cmd
  <1>4. /\ Closed /\ chip \in ChipType /\ chip.inOrder /\ chip.sound
        /\ answer # Pending
    BY <1>1, LockFacts, PlaceFacts DEF Lock, Progress, Idle
  <1>5. /\ IsInit(image) \/ IsData(image)
        /\ IsInit(image) => Type = "FIRMWARE_INIT" /\ ~IsData(image)
        /\ IsData(image) => Type = "FIRMWARE_DATA" /\ ~IsInit(image)
    BY <1>1, LockFacts DEF ImageType
  <1>6. /\ chip.mode = "dfu"
        /\ IsInit(image) => Sent = 0
        /\ IsData(image) => chip.expects = image /\ chip.executed = Sent
    BY <1>1, <1>4, <1>5, LockFacts DEF Closed, Sent
  <1>7. CodeOf(cmd) = "SUCCESS"
    BY <1>1, <1>3, <1>5, <1>6 DEF CodeOf, Fits
  <1>8. /\ asked' = cmd /\ chip' = After(cmd) /\ InChannel' = {ReplyTo(cmd)}
        /\ (\A r \in InChannel : Right(r))' => Conversation'
    BY <1>2, <1>3, <1>4, <1>6, AskConverses
  <1>10. ChipCreates(cmd)
    BY <1>3, <1>4, <1>7, <1>8, CreateTaken
  <1>11. /\ (IsInit(image)' <=> IsInit(image)) /\ (IsData(image)' <=> IsData(image))
         /\ Size' = Size /\ Type' = Type /\ Sent' = Sent /\ image' = image
         /\ Waiting' = Waiting /\ UNCHANGED objectVars /\ via' = via
         /\ buffered' = buffered
    BY DEF parseVars, bufferVars, objectVars, IsInit, IsData, Size, Type, Sent, Waiting
  <1>12. Conversation'
    <2>1. ReplyTo(cmd).command = "CREATE" /\ ReplyTo(cmd).code = "SUCCESS"
      BY <1>3, <1>7 DEF ReplyTo, Reply
    <2>2. responseCommand' = "CREATE" /\ asked'.command = "CREATE"
      BY <1>3, <1>8 DEF responseCommand
    <2>3. (\A r \in InChannel : Right(r))'
      BY <1>8, <2>1, <2>2 DEF Right
    <2> QED
      BY <1>8, <2>3
  <1>13. Ledger'
    BY LockFacts, CreateLedger DEF Lock
  <1>14. Opened' /\ chip'.inOrder /\ chip'.sound
    <2>1. mCurrentObjectOffset' = 0 /\ mRemainingFirmwareSize' = mRemainingFirmwareSize
      BY DEF objectVars
    <2>2. /\ chip'.mode = "dfu" /\ chip'.type = Type /\ chip'.object = object
      BY <1>3, <1>6, <1>10 DEF ChipCreates
    <2>3. CASE IsInit(image)
      <3>1. /\ chip'.image = image /\ chip'.executed = 0 /\ chip'.offset = 0
            /\ chip'.inOrder /\ chip'.sound
        BY <1>3, <1>5, <1>10, <2>3 DEF ChipCreates
      <3>2. Sent = 0 /\ ~IsData(image)
        BY <1>5, <1>6, <2>3
      <3> QED
        BY <1>1, <1>9, <1>11, <2>1, <2>2, <3>1, <3>2, LockFacts DEF Opened, Least
    <2>4. CASE IsData(image)
      <3>1. /\ chip'.image = image /\ chip'.executed = Sent /\ chip'.offset = Sent
            /\ chip'.expects = image /\ chip'.inOrder /\ chip'.sound
        BY <1>3, <1>4, <1>5, <1>6, <1>10, <2>4 DEF ChipCreates
      <3>2. ~IsInit(image)
        BY <1>5, <2>4
      <3> QED
        BY <1>1, <1>9, <1>11, <2>1, <2>2, <3>1, <3>2, LockFacts DEF Opened, Least
    <2> QED
      BY <1>5, <2>3, <2>4
  <1>15. Progress'
    BY <1>14 DEF Progress, BeforeImage
  <1> QED
    BY <1>12, <1>13, <1>14, <1>15 DEF Lock

LEMMA BufferFullInOrder ==
    ASSUME OrderInv, Tidy, late' = 0, lost' = 0, _bufferFull
    PROVE  chip'.inOrder /\ chip'.sound /\ (Tidy' => Lock')
  <1>1. /\ UNCHANGED <<parseVars, bufferVars>> /\ pc = "packet"
        /\ \/ pc' = "end" /\ UNCHANGED chip
           \/ /\ mCurrentObjectOffset = 0 /\ pc' = "create"
              /\ Ask([command |-> "CREATE", type |-> Type, image |-> image,
                      size |-> Least(mRemainingFirmwareSize, ObjectLen)])
              /\ UNCHANGED objectVars
           \/ /\ mCurrentObjectOffset # 0
              /\ WritePacket
              /\ UNCHANGED mIgnoreNextFirmware
    BY DEF _bufferFull, Stop, channelVars
  <1>2. chip.inOrder /\ chip.sound /\ answer # Pending
    BY <1>1, LockFacts, PlaceFacts DEF Idle
  <1>3. CASE pc' = "end" /\ UNCHANGED chip
    BY <1>2, <1>3 DEF Tidy
  <1>4. CASE /\ mCurrentObjectOffset = 0 /\ pc' = "create"
             /\ Ask([command |-> "CREATE", type |-> Type, image |-> image,
                     size |-> Least(mRemainingFirmwareSize, ObjectLen)])
             /\ UNCHANGED objectVars
    BY <1>1, <1>4, CreateInOrder
  <1>5. CASE mCurrentObjectOffset # 0 /\ WritePacket /\ UNCHANGED mIgnoreNextFirmware
    <2>1. Opened
      <3>1. image # 0 /\ Progress
        BY <1>1, PacketFacts, LockFacts DEF Lock
      <3> QED
        BY <1>1, <1>5, <3>1 DEF Progress
    <2> QED
      BY <1>1, <1>2, <1>5, <2>1, WritePacketInOrder
  <1> QED
    BY <1>1, <1>3, <1>4, <1>5

(* What the chip was asked for it has done.                                *)
LEMMA AnsweredRight ==
    ASSUME OrderInv, Tidy, answer # Pending, pc \in {"create", "write", "execute"}
    PROVE  Right(answer) /\ (pc # "execute" => Succeeded)
  <1>1. /\ pc = "create" => asked.command = "CREATE"
        /\ pc = "write" => asked.command = "WRITE"
        /\ pc = "execute" => asked.command = "EXECUTE"
    BY LockFacts DEF RefusalInv, Dialog, AskedHere
  <1>2. Right(answer)
    BY <1>1, LockFacts DEF Lock, Conversation
  <1> QED
    BY <1>1, <1>2 DEF Right, Succeeded

LEMMA CreateAnsweredInOrder ==
    ASSUME OrderInv, Tidy, late' = 0, lost' = 0, CreateAnswered
    PROVE  chip'.inOrder /\ chip'.sound /\ (Tidy' => Lock')
  <1>1. pc = "create" /\ answer # Pending
    BY DEF CreateAnswered, GoesOn
  <1>2. Succeeded /\ Opened
    BY <1>1, AnsweredRight, LockFacts DEF Lock, Progress
  <1>3. WritePacket /\ UNCHANGED <<parseVars, bufferVars, mIgnoreNextFirmware>>
    BY <1>2 DEF CreateAnswered
  <1> QED
    BY <1>1, <1>2, <1>3, WritePacketInOrder

(* A packet was taken, and the image goes on or has come to its end.       *)
LEMMA TakenKeepsLedger ==
    ASSUME OrderInv, Tidy, pc \in {"write", "execute"}, answer # Pending, PacketDone(TRUE),
           UNCHANGED <<mCurrentObjectOffset, mRemainingFirmwareSize>>,
           mIgnoreNextFirmware' => mRemainingFirmwareSize = 0,
           mRemainingFirmwareSize = 0 => mCurrentObjectOffset = 0
    PROVE  Ledger' /\ Conversation' /\ UNCHANGED <<package, image, chip, callVars, channelVars>>
           /\ pc' \in {"parse", "push"} /\ (via = "partial" => mRemainingFirmwareSize = 0)
  <1>1. /\ Ledger' /\ UNCHANGED <<package, image, callVars, channelVars>>
        /\ pc' \in {"parse", "push"} /\ (via = "partial" => mRemainingFirmwareSize = 0)
    BY LockFacts, PacketTakenLedger DEF Lock
  <1>2. Conversation' /\ UNCHANGED chip
    BY <1>1, LockFacts, WorkConverses DEF Lock, channelVars
  <1> QED
    BY <1>1, <1>2

(* An object that is complete is executed; an INIT image fits one.         *)
LEMMA ObjectInOrder ==
    ASSUME OrderInv, Tidy, late' = 0, lost' = 0, answer # Pending, pc = "write",
           mCurrentObjectOffset = ObjectLen \/ mRemainingFirmwareSize = 0,
           mCurrentObjectOffset' = 0, pc' = "execute", Ask(Plain("EXECUTE")),
           UNCHANGED <<parseVars, bufferVars, mRemainingFirmwareSize,
                       mIgnoreNextFirmware>>
    PROVE  chip'.inOrder /\ chip'.sound /\ (Tidy' => Lock')
  <1> DEFINE cmd == Plain("EXECUTE")
  <1>1. cmd \in AskedType /\ cmd.command = "EXECUTE" /\ Ask(cmd)
    BY PlainAsked DEF PlainCommand
  <1> HIDE DEF cmd
  <1>2. /\ Ledger /\ Opened /\ chip \in ChipType /\ chip.inOrder /\ chip.sound
        /\ package \in Packages /\ image \in 0..Len(package) /\ Len(package) \in Nat
        /\ mRemainingFirmwareSize \in Nat /\ mCurrentObjectOffset \in Nat
        /\ mCurrentObjectOffset <= ObjectLen
    BY LockFacts, Lengths DEF Lock, Progress, FitInv, Kinds
  <1>3. image # 0 /\ image \in 1..Len(package)
    <2>1. Position /\ mCurrentState \in {"FIRMWARE", "END"}
      BY LockFacts DEF FitInv, InPacket, Sending, Kinds
    <2>2. image # 0
      BY <2>1 DEF Position
    <2> QED
      BY <1>2, <2>2
  <1>4. /\ Size \in Nat /\ (IsInit(image) \/ IsData(image))
        /\ Type \in ImageType
        /\ IsInit(image) <=> Type = "FIRMWARE_INIT"
        /\ IsData(image) <=> Type = "FIRMWARE_DATA"
        /\ mRemainingFirmwareSize <= Size
        /\ mRemainingFirmwareSize =
               IF via = "partial" THEN 0 ELSE Waiting - PacketLen
        /\ mIgnoreNextFirmware => mRemainingFirmwareSize = 0
    BY <1>2, <1>3, LockFacts DEF Ledger
  <1>5. /\ chip.mode = "dfu" /\ chip.image = image /\ chip.type = Type
        /\ chip.offset = Sent
        /\ chip.executed = Sent - mCurrentObjectOffset
        /\ chip.object = Least(mRemainingFirmwareSize + mCurrentObjectOffset, ObjectLen)
        /\ IsInit(image) => chip.executed = 0
        /\ IsData(image) => chip.expects = image
    BY <1>2 DEF Opened
  <1>6. chip.offset = chip.executed + chip.object
    <2>1. Least(mRemainingFirmwareSize + mCurrentObjectOffset, ObjectLen)
              = mCurrentObjectOffset
      BY <1>2, Lengths DEF Least
    <2>2. chip.object = mCurrentObjectOffset
      BY <1>5, <2>1
    <2>3. Sent \in Nat
      BY <1>2, <1>4 DEF Sent
    <2>4. /\ chip.offset = Sent
          /\ chip.executed = Sent - mCurrentObjectOffset
      BY <1>5
    <2> QED
      BY <1>2, <2>2, <2>3, <2>4
  <1>7. IsInit(image) => mRemainingFirmwareSize = 0
    <2> SUFFICES ASSUME IsInit(image) PROVE mRemainingFirmwareSize = 0
      OBVIOUS
    <2>1. Size <= ObjectLen
      BY <1>2, <1>3, ImagesTakeTurns, PairsAssumption DEF IsInit, Size
    <2>2. Size - mRemainingFirmwareSize = mCurrentObjectOffset
      BY <1>2, <1>4, <1>5 DEF Sent
    <2> QED
      BY <1>2, <1>4, <2>1, <2>2, Lengths
  <1>8. Fits(cmd)
    BY <1>1, <1>3, <1>5, <1>6 DEF Fits
  <1>9. /\ asked' = cmd /\ answer' = Pending
        /\ chip' = After(cmd) /\ InChannel' = {ReplyTo(cmd)}
        /\ (\A r \in InChannel : Right(r))' => Conversation'
    BY <1>1, <1>5, AskConverses
  <1>10. ReplyTo(cmd).command = "EXECUTE" /\ ReplyTo(cmd).code = CodeOf(cmd)
    BY <1>1 DEF ReplyTo, Reply
  <1>11. Conversation'
    <2>1. responseCommand' = "EXECUTE" /\ asked'.command = "EXECUTE"
      BY <1>1, <1>9 DEF responseCommand
    <2>2. (\A r \in InChannel : Right(r))'
      BY <1>9, <1>10, <2>1 DEF Right
    <2> QED
      BY <1>9, <2>2
  <1>12. /\ (IsInit(image)' <=> IsInit(image)) /\ (IsData(image)' <=> IsData(image))
         /\ Size' = Size /\ Sent' = Sent /\ image' = image /\ Waiting' = Waiting
         /\ via' = via
    BY DEF parseVars, bufferVars, IsInit, IsData, Size, Sent, Waiting
  <1>13. Ledger'
    BY <1>2, LockFacts, ExecuteLedger
  <1>14. CASE chip.image \in older
    <2>1. CodeOf(cmd) = "FW_VERSION_FAILURE" /\ chip' = chip
      BY <1>1, <1>2, <1>8, <1>9, <1>14 DEF CodeOf, After
    <2>2. IsInit(image)
      BY <1>4, <1>5, <1>14, LockFacts DEF RefusalInv, ChipKinds, ImageType
    <2>3. \A r \in InChannel' \cup {answer'} : r = Pending \/ Refused(r)
      BY <1>9, <1>10, <2>1 DEF Refused
    <2>4. mRemainingFirmwareSize' = 0 /\ IsInit(image)'
      BY <1>7, <1>12, <2>2
    <2>5. (\A r \in InChannel \cup {answer} : r = Pending \/ Refused(r))'
      BY <2>3 DEF Refused, Pending, Reply
    <2>6. Progress'
      BY <2>4, <2>5 DEF Progress, BeforeImage
    <2> QED
      BY <1>2, <1>11, <1>13, <2>1, <2>6 DEF Lock
  <1>15. CASE chip.image \notin older
    <2>1. CodeOf(cmd) = "SUCCESS"
      BY <1>1, <1>2, <1>8, <1>15 DEF CodeOf
    <2>2. ChipExecutes(cmd)
      BY <1>1, <1>2, <1>9, <2>1, ExecuteTaken
    <2>3. chip'.inOrder /\ chip'.sound
      BY <1>2, <1>4, <1>5, <2>2 DEF ChipExecutes, ImageType
    <2>4. Closed'
      <3>1. CASE IsInit(image)
        <4>1. /\ chip'.expects = image + 1 /\ chip'.executed = 0 /\ chip'.mode = "dfu"
          BY <1>4, <1>5, <2>2, <3>1 DEF ChipExecutes
        <4>2. mRemainingFirmwareSize' = 0 /\ ~IsData(image)'
          BY <1>4, <1>7, <1>12, <3>1
        <4> QED
          BY <1>12, <4>1, <4>2 DEF Closed, Announced
      <3>2. CASE IsData(image)
        <4>1. mRemainingFirmwareSize # 0 => ~Whole
          BY <1>2, <1>4, <1>5, <3>2 DEF Whole, Sent, Size
        <4>2. /\ chip'.expects = image /\ chip'.executed = Sent
              /\ mRemainingFirmwareSize # 0 => chip'.mode = "dfu"
          BY <1>4, <1>5, <2>2, <3>2, <4>1 DEF ChipExecutes
        <4>3. ~IsInit(image)'
          BY <1>4, <1>12, <3>2
        <4> QED
          BY <1>12, <4>2, <4>3 DEF Closed
      <3> QED
        BY <1>4, <3>1, <3>2
    <2>5. (\A r \in InChannel \cup {answer} : r = Pending \/ r.code = "SUCCESS")'
      BY <1>9, <1>10, <2>1 DEF Pending, Reply
    <2>6. Progress'
      BY <2>4, <2>5 DEF Progress, BeforeImage
    <2> QED
      BY <1>11, <1>13, <2>3, <2>6 DEF Lock
  <1> QED
    BY <1>14, <1>15

LEMMA WriteAnsweredInOrder ==
    ASSUME OrderInv, Tidy, late' = 0, lost' = 0, WriteAnswered
    PROVE  chip'.inOrder /\ chip'.sound /\ (Tidy' => Lock')
  <1> DEFINE acknowledged == Succeeded /\ answer.offset = Size - mRemainingFirmwareSize
             complete == mCurrentObjectOffset = ObjectLen \/ mRemainingFirmwareSize = 0
  <1>1. /\ pc = "write" /\ answer # Pending
        /\ mCurrentObjectOffset # 0
    BY LockFacts DEF WriteAnswered, GoesOn, RefusalInv, Dialog, AskedHere
  <1>2. acknowledged
    BY <1>1, AnsweredRight DEF Right, Sent
  <1>3. \/ /\ complete
           /\ mCurrentObjectOffset' = 0 /\ pc' = "execute" /\ Ask(Plain("EXECUTE"))
           /\ UNCHANGED <<parseVars, bufferVars, mRemainingFirmwareSize,
                          mIgnoreNextFirmware>>
        \/ /\ ~complete
           /\ PacketDone(acknowledged) /\ UNCHANGED objectVars
    BY <1>2 DEF WriteAnswered
  <1>4. CASE /\ complete
             /\ mCurrentObjectOffset' = 0 /\ pc' = "execute" /\ Ask(Plain("EXECUTE"))
             /\ UNCHANGED <<parseVars, bufferVars, mRemainingFirmwareSize,
                            mIgnoreNextFirmware>>
    BY <1>1, <1>4, ObjectInOrder
  <1>5. CASE ~complete /\ PacketDone(acknowledged) /\ UNCHANGED objectVars
    <2>1. PacketDone(TRUE)
      <3>1. acknowledged = TRUE
        BY <1>2
      <3> HIDE DEF acknowledged
      <3> QED
        BY <1>5, <3>1
    <2> HIDE DEF acknowledged
    <2>2. /\ Opened /\ chip.inOrder /\ chip.sound
          /\ mIgnoreNextFirmware => mRemainingFirmwareSize = 0
      BY <1>1, LockFacts DEF Lock, Ledger, Progress
    <2>3. mRemainingFirmwareSize # 0
      BY <1>5
    <2>4. /\ Ledger' /\ Conversation'
          /\ UNCHANGED <<package, image, chip, callVars, channelVars>>
          /\ pc' \in {"parse", "push"}
      BY <1>1, <1>5, <2>1, <2>2, <2>3, TakenKeepsLedger DEF objectVars
    <2>5. Opened'
      BY <1>5, <2>2, <2>4 DEF Opened, objectVars, Sent, Size, Type, IsInit, IsData
    <2>6. Progress'
      BY <1>1, <1>5, <2>4, <2>5 DEF Progress, objectVars, BeforeImage
    <2> QED
      BY <2>2, <2>4, <2>6 DEF Lock
  <1> QED
    BY <1>3, <1>4, <1>5

LEMMA ExecuteInOrder ==
    ASSUME OrderInv, Tidy, late' = 0, lost' = 0, execute
    PROVE  chip'.inOrder /\ chip'.sound /\ (Tidy' => Lock')
  <1>1. /\ pc = "execute" /\ answer # Pending
        /\ PacketDone(answer.code \in {"SUCCESS", "FW_VERSION_FAILURE"})
        /\ UNCHANGED <<mCurrentObjectOffset, mRemainingFirmwareSize>>
        /\ mIgnoreNextFirmware' =
               (mIgnoreNextFirmware \/ answer.code = "FW_VERSION_FAILURE")
    BY DEF execute, GoesOn
  <1>2. /\ Ledger /\ chip.inOrder /\ chip.sound /\ mCurrentObjectOffset = 0
        /\ \/ Closed /\ answer.code = "SUCCESS"
           \/ mRemainingFirmwareSize = 0 /\ Refused(answer)
    <2>1. Ledger /\ Progress /\ chip.inOrder /\ chip.sound /\ mCurrentObjectOffset = 0
      BY <1>1, LockFacts DEF Lock, FitInv, InPacket, Sending
    <2> QED
      BY <1>1, <2>1 DEF Progress
  <1>3. PacketDone(TRUE)
    <2> DEFINE taken == answer.code \in {"SUCCESS", "FW_VERSION_FAILURE"}
    <2>1. taken = TRUE
      BY <1>2 DEF Refused
    <2>2. PacketDone(taken)
      BY <1>1
    <2> HIDE DEF taken
    <2> QED
      BY <2>1, <2>2
  <1>4. \/ mIgnoreNextFirmware' /\ mRemainingFirmwareSize = 0
        \/ Closed /\ (mIgnoreNextFirmware' => mRemainingFirmwareSize = 0)
    <2>1. CASE Closed /\ answer.code = "SUCCESS"
      <3>1. mIgnoreNextFirmware' => mIgnoreNextFirmware
        BY <1>1, <2>1
      <3> QED
        BY <1>2, <2>1, <3>1 DEF Ledger
    <2>2. CASE mRemainingFirmwareSize = 0 /\ Refused(answer)
      BY <1>1, <2>2 DEF Refused
    <2> QED
      BY <1>2, <2>1, <2>2
  <1>5. /\ Ledger' /\ Conversation'
        /\ UNCHANGED <<package, image, chip, callVars, channelVars>>
        /\ pc' \in {"parse", "push"}
    BY <1>1, <1>2, <1>3, <1>4, TakenKeepsLedger
  <1>6. Closed => Closed'
    BY <1>1, <1>5 DEF Closed, Announced, Sent, Size, IsInit, IsData
  <1>7. Progress'
    BY <1>1, <1>2, <1>4, <1>5, <1>6 DEF Progress, BeforeImage
  <1> QED
    BY <1>2, <1>5, <1>7 DEF Lock

-----------------------------------------------------------------------------

LEMMA OrderStart == Init => OrderInv
  <1> SUFFICES ASSUME Init PROVE OrderInv
    OBVIOUS
  <1>1. RefusalInv
    BY RefusalStart
  <1>2. /\ pc = "init" /\ image = 0 /\ asked.command = "NONE"
        /\ answer = Unanswered /\ mIgnoreNextFirmware = FALSE
        /\ mRemainingFirmwareSize = 0 /\ mCurrentObjectOffset = 0
        /\ mDfuPacketQueue = << >> /\ replies = << >>
        /\ mCurrentState = "HEADER"
        /\ chip.inOrder /\ chip.sound
    BY DEF Init, Plain
  <1>3. InChannel = {} /\ Unanswered # Pending
    BY <1>2, EmptyChannel DEF Unanswered, Pending, Reply
  <1>4. Conversation
    BY <1>2, <1>3 DEF Conversation
  <1>5. Ledger
    BY <1>2 DEF Ledger, BeforeImage, BeforePackage
  <1>6. Progress
    BY <1>2 DEF Progress, BeforeImage
  <1> QED
    BY <1>1, <1>2, <1>4, <1>5, <1>6 DEF OrderInv, Unspoilt, Lock

LEMMA OrderStep ==
    ASSUME OrderInv, [Next]_vars
    PROVE  OrderInv'
  <1>1. RefusalInv' /\ FitInv'
    BY RefusalStep DEF OrderInv, RefusalInv
  <1>2. CASE UNCHANGED vars
    <2> USE DEF vars, updateVars, parseVars, bufferVars, objectVars, callVars, channelVars
    <2>1. (Unspoilt' <=> Unspoilt) /\ (Tidy' <=> Tidy)
      BY <1>2 DEF Unspoilt, Tidy
    <2>2. InChannel' = InChannel /\ UNCHANGED fitVars /\ ChipKeeps
      BY <1>2 DEF InChannel, Arrived, OnTheWay, fitVars, ChipKeeps
    <2>3. Conversation => Conversation'
      BY <1>2, <2>2 DEF Conversation, Right, responseCommand, Sent, Size
    <2>4. Lock => Lock'
      BY <1>2, <2>2, <2>3, LedgerKept, ProgressKept DEF Lock
    <2> QED
      BY <1>1, <2>1, <2>4 DEF OrderInv
  <1>3. CASE Next
    <2>1. CASE ~Tidy
      BY <1>1, <1>3, <2>1, UntidyStays DEF OrderInv
    <2>2. CASE Tidy /\ ~(late' = 0 /\ lost' = 0)
      BY <1>1, <2>2 DEF OrderInv, Unspoilt, Tidy
    <2>3. CASE Tidy /\ late' = 0 /\ lost' = 0
      <3> SUFFICES chip'.inOrder /\ chip'.sound /\ (Tidy' => Lock')
        BY <1>1 DEF OrderInv, Unspoilt
      <3>1. CASE notification
        <4>1. swallowed' = 0
          BY <2>3, <3>1 DEF notification, updateVars, parseVars, Tidy
        <4> QED
          BY <2>3, <3>1, <4>1, NotificationInOrder DEF Unspoilt
      <3>2. CASE ChipEntersDfu \/ ChipFallsSilent
        <4>1. chip \in ChipType
          BY LockFacts
        <4>2. /\ UNCHANGED <<updateVars, mDfuPacketQueue, replies, late, lost>>
              /\ \/ chip' = [chip EXCEPT !.mode = "silent"]
                 \/ chip' = [chip EXCEPT !.mode = "dfu"]
          BY <3>2 DEF ChipEntersDfu, ChipFallsSilent
        <4>3. ChipKeeps /\ chip'.mode \in {"dfu", "silent"}
          <5>1. chip'.mode \in {"dfu", "silent"}
            BY <4>1, <4>2 DEF ChipType
          <5>2. ChipKeeps
            BY <4>1, <4>2, ModeOnly
          <5> QED
            BY <5>1, <5>2
        <4>4. swallowed' = 0
          BY <2>3, <4>2 DEF updateVars, parseVars, Tidy
        <4> QED
          BY <2>3, <4>2, <4>3, <4>4, ModeInOrder DEF Unspoilt
      <3>3. CASE receive \/ receiveTimesOut
        BY <2>3, <3>3, ReceiveInOrder
      <3>4. CASE enterDfu \/ forceDfu \/ waitEnteredDfu \/ initUpdate
        BY <2>3, <3>4, InitUpdateInOrder
      <3>5. CASE \/ writeFirmware \/ EndChunk \/ NextHeader
                 \/ SplitHeader \/ SpoiltHeader
        BY <2>3, <3>5, ChunkInOrder
      <3>6. CASE ReadHeader
        BY <1>1, <2>3, <3>6, ReadHeaderInOrder
      <3>7. CASE ManifestAnswered
        BY <1>1, <2>3, <3>7, ManifestInOrder
      <3>8. CASE onFirmware
        BY <2>3, <3>8, OnFirmwareInOrder
      <3>9. CASE pushBack
        BY <2>3, <3>9, PushBackInOrder
      <3>10. CASE FirmwareTaken
        BY <2>3, <3>10, FirmwareTakenInOrder
      <3>11. CASE _bufferFull
        BY <2>3, <3>11, BufferFullInOrder
      <3>12. CASE CreateAnswered
        BY <2>3, <3>12, CreateAnsweredInOrder
      <3>13. CASE WriteAnswered
        BY <2>3, <3>13, WriteAnsweredInOrder
      <3>14. CASE execute
        BY <2>3, <3>14, ExecuteInOrder
      <3> QED
        BY <1>3, <3>1, <3>2, <3>3, <3>4, <3>5, <3>6, <3>7, <3>8, <3>9, <3>10,
           <3>11, <3>12, <3>13, <3>14 DEF Next, UpdateTask
    <2> QED
      BY <2>1, <2>2, <2>3
  <1> QED
    BY <1>2, <1>3

(* As long as nothing is lost or late, and no header lay in two chunks,    *)
(* every byte of an image is sent once and in its order, for every package *)
(* of INIT and DATA images and every length of header, packet, chunk and   *)
(* object (FlashWriteBuffer.hpp:46-128, NRFFirmwarePackage.cpp:38-75): the *)
(* chip is never sent a byte where it does not belong.                     *)
THEOREM TakenOnceInOrderCorrect == Spec => []TakenOnceInOrder
  <1>1. OrderInv => TakenOnceInOrder
    BY DEF OrderInv, Unspoilt, TakenOnceInOrder
  <1> QED
    BY <1>1, OrderStart, OrderStep, PTL DEF Spec

-----------------------------------------------------------------------------
(* What is reported as done is in place: once the chip has said that it    *)
(* executed the last of an image all packets of which were taken, it has   *)
(* put that image in place.                                                *)

(* All packets of the image were taken so far.                             *)
Fine == pc # "end" /\ image # 0 /\ image \notin unreported

(* Behind a packet that failed the image has come to its end, or with a    *)
(* header in two chunks the package has.                                   *)
Failures ==
    /\ unreported \subseteq 1..image
    /\ pc # "end" /\ image \in unreported =>
           \/ /\ pc = "pushed" /\ buffered = 0
              /\ toPush # 0 \/ mFirmwareOffset = Size \/ Exhausted
           \/ pc \in {"read", "parse"} /\ (mCurrentState # "FIRMWARE" \/ Exhausted)

(* An INIT image is one object.                                            *)
Account ==
    Fine =>
        /\ Ledger
        /\ mIgnoreNextFirmware => pc \in {"read", "parse", "push", "pushed"}
        /\ IsInit(image) =>
               \/ mRemainingFirmwareSize = 0
               \/ pc # "execute" /\ Sent = mCurrentObjectOffset
        /\ pc = "create" => asked.size = Least(mRemainingFirmwareSize, ObjectLen)

Heard == InChannel \cup {answer}

Told(command) == \E r \in Heard : r.command = command /\ r.code = "SUCCESS"

(* The failures of the two images before went unreported: the chip may     *)
(* still expect the DATA image among them.                                 *)
Misled(i) == i - 1 \in unreported /\ i - 2 \in unreported

Good(i) ==
    \/ i \in chip.installed \/ (i - 1) \in older
    \/ i \in unreported \/ Misled(i)

Finished ==
    /\ pc # "end" => \A k \in 1..image - 1 : IsData(k) => Good(k)
    /\ result = "SUCCESS" => pc = "end" /\ \A k \in 1..Len(package) :
           IsData(k) => Good(k) \/ (swallowed # 0 /\ k >= image)

(* What the chip expects since an earlier image, and began nothing of.     *)
Stale ==
    pc # "end" /\ chip.expects # 0 /\ chip.executed = 0 =>
        \A k \in chip.expects..image - 1 : k \in unreported

Expecting ==
    /\ chip.type = "FIRMWARE_INIT" => chip.image <= image /\ chip.executed = 0
    /\ chip.type = "FIRMWARE_DATA" => chip.image = chip.expects /\ chip.expects # 0
    /\ chip.expects # 0 => IsInit(chip.expects - 1) /\ chip.expects - 1 <= image
    /\ chip.executed <= chip.offset
    /\ pc # "end" /\ mIgnoreNextFirmware => chip.expects = 0

(* A reply to CREATE that is not the last one's tells what is open.        *)
CreateTold ==
    pc # "end" /\ Told("CREATE") =>
        /\ asked.command = "CREATE" =>
               IF asked.type = "FIRMWARE_INIT"
               THEN chip.type = "FIRMWARE_INIT" /\ chip.image = asked.image /\ chip.expects = 0
               ELSE chip.type = "FIRMWARE_INIT" \/ chip.object = asked.size
        /\ asked.command \in InImage /\ (IsInit(image) \/ asked.command = "SELECT") =>
               chip.type = "FIRMWARE_INIT"

(* What the chip has of an INIT image whose packets were taken.            *)
InitSent ==
    Fine /\ IsInit(image) =>
    /\ mCurrentObjectOffset # 0 \/ pc = "execute" =>
           chip.type = "FIRMWARE_INIT" /\ chip.image = image
    /\ mCurrentObjectOffset # 0 => chip.expects = 0
    /\ pc = "execute" =>
           /\ chip.expects = 0 \/ (chip.expects = image + 1 /\ image \notin older)
           /\ Told("EXECUTE") => chip.expects = image + 1
    /\ mRemainingFirmwareSize = 0 /\ pc \notin BeforeImage \cup {"write", "execute"} =>
           mIgnoreNextFirmware \/ chip.expects = image + 1

(* The chip has the DATA image open, or what it takes for it.              *)
HasData ==
    chip.type = "FIRMWARE_DATA" /\ (chip.image = image \/ Misled(image))

(* The bytes went to an earlier image, as its checksum will show.          *)
TooFar ==
    /\ pc = "write" /\ chip.executed # 0
    /\ Sent = mCurrentObjectOffset /\ asked.size = mCurrentObjectOffset
    /\ \A r \in Heard : r.command = "CALCULATE_CHECKSUM" =>
           r.offset >= chip.executed + mCurrentObjectOffset

(* What the chip has of a DATA image whose packets were taken.             *)
DataSent ==
    Fine /\ IsData(image) /\ ~mIgnoreNextFirmware =>
    /\ /\ pc \notin BeforeImage \cup {"write", "execute"}
       /\ mCurrentObjectOffset = 0 /\ Sent # 0
       => /\ HasData /\ chip.executed = Sent
          /\ mRemainingFirmwareSize = 0 => Good(image)
    /\ mCurrentObjectOffset # 0 =>
           \/ chip.type = "FIRMWARE_INIT" /\ Sent = mCurrentObjectOffset
           \/ /\ chip.type = "FIRMWARE_DATA"
              /\ chip.object = Least(mRemainingFirmwareSize + mCurrentObjectOffset, ObjectLen)
              /\ (HasData /\ chip.executed = Sent - mCurrentObjectOffset) \/ TooFar
    /\ pc = "execute" =>
           \/ chip.type = "FIRMWARE_INIT" /\ ~Told("EXECUTE")
           \/ /\ HasData
              /\ chip.executed + chip.object = Sent
              /\ Told("EXECUTE") =>
                     /\ chip.executed = Sent
                     /\ mRemainingFirmwareSize = 0 => Good(image)

Delivery ==
    /\ Failures /\ Account /\ Finished /\ Stale /\ Expecting
    /\ CreateTold /\ InitSent /\ DataSent

DeliveryInv == RefusalInv /\ Delivery

-----------------------------------------------------------------------------
(* What a command that is sent changes of what the chip has and expects.   *)

(* The images stay what they are, and what is in place stays there.        *)
LEMMA GoodKept ==
    ASSUME UNCHANGED <<package, older>>, unreported \subseteq unreported',
           chip.installed \subseteq chip'.installed
    PROVE  \A i : /\ (IsData(i)' <=> IsData(i)) /\ (IsInit(i)' <=> IsInit(i))
                  /\ Good(i) => Good(i)'
                  /\ Misled(i) => Misled(i)'
  BY DEF Good, Misled, IsData, IsInit

LEMMA ImageStays ==
    ASSUME UNCHANGED <<package, image>>
    PROVE  /\ (IsInit(image)' <=> IsInit(image)) /\ (IsData(image)' <=> IsData(image))
           /\ Size' = Size /\ Type' = Type
  BY DEF IsInit, IsData, Size, Type

(* Success is told only of what the chip has done.                         *)
LEMMA ToldBySend ==
    ASSUME RefusalInv, NEW cmd \in AskedType, cmd.command # "NONE",
           send(cmd), answer' = Pending
    PROVE  /\ \A r \in Heard' :
                  r \in InChannel \/ r = ReplyTo(cmd) \/ r.command = "NONE"
           /\ \A command \in {"CREATE", "EXECUTE"} : Told(command)' =>
                  \/ \E r \in InChannel : r.command = command /\ r.code = "SUCCESS"
                  \/ command = "CREATE" /\ ChipCreates(cmd)
                  \/ command = "EXECUTE" /\ ChipExecutes(cmd)
  <1>1. ChannelTypeOK /\ chip \in ChipType /\ replies \in Seq(ReplyType)
    BY DEF RefusalInv, ChannelTypeOK
  <1>2. /\ ReplyTo(cmd) \in ReplyType
        /\ cmd.command = "WRITE" =>
               ReplyTo(cmd).command \in {"CALCULATE_CHECKSUM", "WRITE"}
        /\ cmd.command # "WRITE" =>
               /\ ReplyTo(cmd).command = cmd.command
               /\ ReplyTo(cmd).code = CodeOf(cmd)
    BY <1>1, ReplyKinds
  <1>3. \A r \in Heard' :
            r \in InChannel \/ r = ReplyTo(cmd) \/ r.command = "NONE"
    BY <1>1, <1>2, SendAppends DEF Heard, Pending, Reply
  <1>4. ASSUME NEW command \in {"CREATE", "EXECUTE"}, Told(command)'
        PROVE  \/ \E r \in InChannel : r.command = command /\ r.code = "SUCCESS"
               \/ command = "CREATE" /\ ChipCreates(cmd)
               \/ command = "EXECUTE" /\ ChipExecutes(cmd)
    <2>1. PICK r \in Heard' : r.command = command /\ r.code = "SUCCESS"
      BY <1>4 DEF Told
    <2> SUFFICES ASSUME r \notin InChannel
                 PROVE  \/ command = "CREATE" /\ ChipCreates(cmd)
                        \/ command = "EXECUTE" /\ ChipExecutes(cmd)
      BY <2>1
    <2>2. r = ReplyTo(cmd) /\ cmd.command = command /\ CodeOf(cmd) = "SUCCESS"
      BY <1>2, <1>3, <2>1
    <2>3. r \in InChannel'
      BY <2>1 DEF Heard, Pending, Reply
    <2>4. chip' = After(cmd)
      BY <1>1, <2>2, <2>3, SendOutcome
    <2> QED
      BY <1>1, <2>2, <2>4, CreateTaken, ExecuteTaken
  <1> QED
    BY <1>3, <1>4

(* What is sent in an image, and when.                                     *)
SentInImage(cmd) ==
    /\ cmd \in AskedType /\ cmd.command # "NONE"
    /\ send(cmd) /\ asked' = cmd /\ answer' = Pending
    /\ UNCHANGED <<package, image, older, unreported, result>>
    /\ pc # "end" /\ pc' # "end" /\ ~mIgnoreNextFirmware'
    /\ cmd.command = "CREATE" => cmd.image = image /\ cmd.type = Type
    /\ cmd.command = "EXECUTE" => ChipHasImage

(* The chip expects the DATA image behind the INIT image it executed.      *)
LEMMA SentExpecting ==
    ASSUME RefusalInv, Expecting, Stale, NEW cmd, SentInImage(cmd)
    PROVE  /\ Expecting' /\ Stale'
           /\ chip.installed \subseteq chip'.installed
  <1>1. /\ chip' \in ChipType
        /\ chip' = chip \/ ChipCreates(cmd) \/ ChipWrites(cmd) \/ ChipExecutes(cmd)
    BY SendTaken, UpdateFacts DEF SentInImage
  <1>2. /\ UNCHANGED <<package, image, unreported>> /\ ~mIgnoreNextFirmware'
        /\ \A i : IsInit(i)' <=> IsInit(i)
        /\ image \in Nat /\ chip.image \in Nat /\ chip.expects \in Nat
        /\ chip.executed \in Nat /\ chip.offset \in Nat /\ chip.type \in ImageType
        /\ pc # "end"
    <2>1. chip.type \in ImageType /\ image \in Nat
      BY UpdateFacts DEF ChipType
    <2> QED
      BY <2>1, UpdateFacts DEF SentInImage, IsInit
  <1>3. CASE chip' = chip
    BY <1>2, <1>3 DEF Expecting, Stale
  <1>4. CASE ChipCreates(cmd)
    <2>1. /\ cmd.command = "CREATE" /\ cmd.image = image
          /\ cmd.type \in ImageType /\ chip'.type = cmd.type
      BY <1>4 DEF ChipCreates, SentInImage, AskedType, PlainCommand
    <2>2. CASE cmd.type = "FIRMWARE_INIT"
      BY <1>2, <1>4, <2>1, <2>2 DEF ChipCreates, Expecting, Stale
    <2>3. CASE cmd.type = "FIRMWARE_DATA"
      BY <1>2, <1>4, <2>1, <2>3 DEF ChipCreates, Expecting, Stale
    <2>4. chip'.installed = chip.installed
      BY <1>4 DEF ChipCreates
    <2> QED
      BY <2>1, <2>2, <2>3, <2>4 DEF ImageType
  <1>5. CASE ChipWrites(cmd)
    <2>1. cmd.size \in Nat
      BY <1>5 DEF ChipWrites, SentInImage, AskedType, PlainCommand
    <2>2. chip'.offset >= chip.offset
      BY <1>2, <1>5, <2>1 DEF ChipWrites
    <2>3. /\ UNCHANGED <<chip.type, chip.image, chip.executed, chip.expects>>
          /\ UNCHANGED chip.installed
      BY <1>5 DEF ChipWrites
    <2>4. chip.executed <= chip'.offset
      BY <1>2, <2>2, <1>1 DEF Expecting, ChipType
    <2> QED
      BY <1>2, <2>3, <2>4 DEF Expecting, Stale
  <1>6. CASE ChipExecutes(cmd) /\ chip.type = "FIRMWARE_INIT"
    <2>1. Whole /\ cmd.command = "EXECUTE" /\ chip.image # 0
      BY <1>6 DEF ChipExecutes, Whole
    <2>2. chip.image = image
      BY <1>6, <2>1 DEF ChipExecutes, SentInImage, ChipHasImage
    <2>3. IsInit(image)
      BY <1>6, <2>1, <2>2 DEF RefusalInv, ChipKinds
    <2>4. /\ chip'.expects = image + 1 /\ chip'.expects - 1 = image
          /\ UNCHANGED <<chip.type, chip.image, chip.executed, chip.offset, chip.installed>>
      BY <1>2, <1>6, <2>2 DEF ChipExecutes
    <2> QED
      BY <1>2, <1>6, <2>2, <2>3, <2>4 DEF Expecting, Stale
  <1>7. CASE ChipExecutes(cmd) /\ chip.type = "FIRMWARE_DATA"
    <2>1. /\ UNCHANGED <<chip.type, chip.image, chip.offset, chip.expects>>
          /\ chip'.executed = chip.offset
          /\ chip.installed \subseteq chip'.installed
      BY <1>7 DEF ChipExecutes
    <2>2. Expecting'
      BY <1>2, <1>7, <2>1 DEF Expecting
    <2>3. chip'.executed = 0 => chip.executed = 0
      BY <1>2, <2>1 DEF Expecting
    <2> QED
      BY <1>2, <2>1, <2>2, <2>3 DEF Stale
  <1> QED
    BY <1>1, <1>2, <1>3, <1>4, <1>5, <1>6, <1>7 DEF ImageType

LEMMA SentTold ==
    ASSUME RefusalInv, CreateTold, NEW cmd, SentInImage(cmd),
           cmd.command \in {"WRITE", "EXECUTE"} => asked.command \in InImage,
           cmd.command = "SELECT" => asked.command = "SELECT" \/ Only({"PRN"}),
           cmd.command = "CREATE" =>
               \/ asked = cmd
               \/ Without({"CREATE"})
               \/ asked.command = "SELECT" /\ IsData(image)
    PROVE  CreateTold'
  <1> SUFFICES ASSUME Told("CREATE")' PROVE CreateTold'
    BY DEF CreateTold
  <1>1. /\ cmd \in AskedType /\ cmd.command # "NONE" /\ send(cmd)
        /\ asked' = cmd /\ answer' = Pending /\ UNCHANGED <<package, image>>
        /\ pc # "end"
    BY DEF SentInImage
  <1>2. \/ \E r \in InChannel : r.command = "CREATE" /\ r.code = "SUCCESS"
        \/ ChipCreates(cmd)
    BY <1>1, ToldBySend
  <1>3. chip' = chip \/ ChipCreates(cmd) \/ ChipWrites(cmd) \/ ChipExecutes(cmd)
    BY <1>1, SendTaken, UpdateFacts
  <1>4. chip'.type = chip.type \/ ChipCreates(cmd)
    BY <1>3 DEF ChipWrites, ChipExecutes
  <1>5. (IsInit(image)' <=> IsInit(image)) /\ (IsData(image)' <=> IsData(image))
    BY <1>1, ImageStays
  <1>6. (\E r \in InChannel : r.command = "CREATE" /\ r.code = "SUCCESS") =>
            Told("CREATE") /\ ~Without({"CREATE"}) /\ ~Only({"PRN"})
    BY DEF Told, Heard, Without, Only
  <1>7. CASE cmd.command = "CREATE"
    <2>1. /\ cmd.image = image /\ cmd.type = Type /\ cmd.command \in InImage
          /\ cmd.type \in ImageType
      BY <1>7, <1>1 DEF SentInImage, InImage, AskedType, PlainCommand
    <2>2. IsInit(image) => Type = "FIRMWARE_INIT"
      BY DEF IsInit, Type
    <2>3. CASE ChipCreates(cmd)
      <3>1. /\ chip'.type = cmd.type /\ chip'.object = cmd.size
            /\ cmd.type = "FIRMWARE_INIT" =>
                   chip'.image = cmd.image /\ chip'.expects = 0
        BY <2>3 DEF ChipCreates
      <3> QED
        BY <1>1, <1>5, <1>7, <2>1, <2>2, <3>1 DEF CreateTold, ImageType
    <2>4. CASE ~ChipCreates(cmd) /\ asked = cmd
      <3>1. chip' = chip
        BY <1>3, <1>7, <2>4 DEF ChipWrites, ChipExecutes
      <3> QED
        BY <1>1, <1>2, <1>5, <1>6, <2>4, <3>1 DEF CreateTold
    <2>5. CASE ~ChipCreates(cmd) /\ asked.command = "SELECT" /\ IsData(image)
      <3>1. chip.type = "FIRMWARE_INIT"
        BY <1>1, <1>2, <1>6, <2>5 DEF CreateTold, InImage
      <3>2. Type = "FIRMWARE_DATA"
        BY <2>5 DEF IsData, Type
      <3> QED
        BY <1>1, <1>4, <2>1, <2>5, <3>1, <3>2 DEF CreateTold
    <2> QED
      BY <1>2, <1>6, <1>7, <2>3, <2>4, <2>5
  <1>8. CASE cmd.command # "CREATE"
    <2>1. ~ChipCreates(cmd)
      BY <1>8 DEF ChipCreates
    <2> SUFFICES ASSUME cmd.command \in InImage, IsInit(image) \/ cmd.command = "SELECT"
                 PROVE  chip.type = "FIRMWARE_INIT"
      BY <1>1, <1>4, <1>5, <1>8, <2>1 DEF CreateTold
    <2>2. Told("CREATE") /\ ~Only({"PRN"})
      BY <1>2, <1>6, <2>1
    <2>3. asked.command \in InImage /\ (IsInit(image) \/ asked.command = "SELECT")
      BY <1>8, <2>2 DEF InImage
    <2> QED
      BY <1>1, <2>2, <2>3 DEF CreateTold
  <1> QED
    BY <1>7, <1>8

(* What every command that is sent in an image keeps.                      *)
LEMMA SentDelivers ==
    ASSUME RefusalInv, Delivery, NEW cmd, SentInImage(cmd),
           image \notin unreported,
           cmd.command \in {"WRITE", "EXECUTE"} => asked.command \in InImage,
           cmd.command = "SELECT" => asked.command = "SELECT" \/ Only({"PRN"}),
           cmd.command = "CREATE" =>
               \/ asked = cmd
               \/ Without({"CREATE"})
               \/ asked.command = "SELECT" /\ IsData(image),
           Account', InitSent', DataSent'
    PROVE  Delivery'
  <1>1. Expecting' /\ Stale' /\ CreateTold' /\ chip.installed \subseteq chip'.installed
    BY SentExpecting, SentTold DEF Delivery
  <1>2. /\ UNCHANGED <<package, image, older, unreported, result>>
        /\ pc # "end" /\ pc' # "end"
    BY DEF SentInImage
  <1>3. Failures'
    BY <1>2 DEF Delivery, Failures
  <1>4. Finished'
    BY <1>1, <1>2, GoodKept DEF Delivery, Finished
  <1> QED
    BY <1>1, <1>3, <1>4 DEF Delivery

-----------------------------------------------------------------------------
(* While nothing is sent.                                                  *)

(* What the update task hears is nothing new.                              *)
HearsNoMore == \A r \in Heard' : r \in Heard \/ r.command = "NONE"

LEMMA KeptUnsent ==
    ASSUME Delivery, ChipKeeps, HearsNoMore,
           UNCHANGED <<package, image, asked, older>>,
           unreported \subseteq unreported', pc # "end", result' # "SUCCESS",
           mIgnoreNextFirmware' => mIgnoreNextFirmware \/ chip.expects = 0
    PROVE  Finished' /\ Stale' /\ Expecting' /\ CreateTold'
  <1>1. /\ UNCHANGED <<chip.type, chip.image, chip.object, chip.offset>>
        /\ UNCHANGED <<chip.executed, chip.expects, chip.installed>>
    BY DEF ChipKeeps
  <1>2. \A i : /\ (IsData(i)' <=> IsData(i)) /\ (IsInit(i)' <=> IsInit(i))
               /\ Good(i) => Good(i)'
    BY <1>1, GoodKept
  <1>3. (IsInit(image)' <=> IsInit(image)) /\ (IsInit(chip.expects - 1)' <=> IsInit(chip.expects - 1))
    BY <1>1 DEF IsInit
  <1>4. Finished'
    BY <1>2 DEF Delivery, Finished
  <1>5. Stale' /\ Expecting'
    BY <1>1, <1>3 DEF Delivery, Stale, Expecting
  <1>6. Told("CREATE")' => Told("CREATE")
    BY DEF Told, HearsNoMore
  <1>7. CreateTold'
    BY <1>1, <1>3, <1>6 DEF Delivery, CreateTold
  <1> QED
    BY <1>4, <1>5, <1>7

(* What holds of the image holds as long as the chip and it stay.          *)
LEMMA StillDelivers ==
    ASSUME RefusalInv, Delivery, ChipKeeps, HearsNoMore,
           UNCHANGED <<fitVars, asked, unreported, older>>
    PROVE  Delivery'
  <1> USE DEF fitVars, parseVars, bufferVars, objectVars
  <1>1. /\ UNCHANGED <<chip.type, chip.image, chip.object, chip.offset>>
        /\ UNCHANGED <<chip.executed, chip.expects, chip.installed>>
    BY DEF ChipKeeps
  <1>2. \A i : /\ (IsData(i)' <=> IsData(i)) /\ (IsInit(i)' <=> IsInit(i))
               /\ Good(i) => Good(i)'
               /\ Misled(i) => Misled(i)'
    BY <1>1, GoodKept
  <1>3. /\ (IsInit(image)' <=> IsInit(image)) /\ (IsData(image)' <=> IsData(image))
        /\ Size' = Size
    BY ImageStays
  <1>4. /\ Good(image) => Good(image)'
        /\ Misled(image) => Misled(image)'
    BY <1>1 DEF Good, Misled
  <1>5. /\ Told("EXECUTE")' => Told("EXECUTE")
        /\ Sent' = Sent /\ (Fine' <=> Fine)
    BY <1>3 DEF Told, HearsNoMore, Sent, Fine
  <1>6. (HasData => HasData') /\ (TooFar => TooFar')
    <2>1. HasData => HasData'
      BY <1>1, <1>4 DEF HasData
    <2>2. TooFar => TooFar'
      BY <1>1, <1>5 DEF TooFar, HearsNoMore
    <2> QED
      BY <2>1, <2>2
  <1>7. Finished' /\ Stale' /\ Expecting' /\ CreateTold'
    <2>1. CASE pc = "end"
      <3>1. Finished' /\ Stale' /\ CreateTold'
        BY <1>2, <2>1 DEF Delivery, Finished, Stale, CreateTold
      <3>2. Expecting'
        <4>1. IsInit(chip.expects - 1)' <=> IsInit(chip.expects - 1)
          BY <1>1 DEF IsInit
        <4> QED
          BY <1>1, <4>1 DEF Delivery, Expecting
      <3> QED
        BY <3>1, <3>2
    <2>2. CASE pc # "end"
      <3>1. result' # "SUCCESS"
        BY <2>2 DEF Delivery, Finished
      <3> QED
        BY <2>2, <3>1, KeptUnsent
    <2> QED
      BY <2>1, <2>2
  <1>8. Failures'
    BY <1>3 DEF Delivery, Failures, Exhausted, TotalLen
  <1>9. Account'
    <2>1. Ledger => Ledger'
      BY <1>3 DEF Ledger, LeftOut, Waiting
    <2> QED
      BY <1>3, <1>5, <2>1 DEF Delivery, Account
  <1>10. InitSent'
    BY <1>1, <1>3, <1>5 DEF Delivery, InitSent
  <1>11. DataSent'
    <2> SUFFICES ASSUME Fine, IsData(image), ~mIgnoreNextFirmware
                 PROVE  DataSent'
      BY <1>3, <1>5 DEF DataSent
    <2>1. /\ pc \notin BeforeImage \cup {"write", "execute"}
          /\ mCurrentObjectOffset = 0 /\ Sent # 0
          => /\ HasData' /\ chip'.executed = Sent'
             /\ mRemainingFirmwareSize = 0 => Good(image)'
      BY <1>1, <1>4, <1>5, <1>6 DEF Delivery, DataSent
    <2>2. mCurrentObjectOffset # 0 =>
           \/ chip'.type = "FIRMWARE_INIT" /\ Sent' = mCurrentObjectOffset
           \/ /\ chip'.type = "FIRMWARE_DATA"
              /\ chip'.object = Least(mRemainingFirmwareSize + mCurrentObjectOffset, ObjectLen)
              /\ (HasData' /\ chip'.executed = Sent' - mCurrentObjectOffset) \/ TooFar'
      BY <1>1, <1>5, <1>6 DEF Delivery, DataSent
    <2>3. pc = "execute" =>
           \/ chip'.type = "FIRMWARE_INIT" /\ ~Told("EXECUTE")'
           \/ /\ HasData'
              /\ chip'.executed + chip'.object = Sent'
              /\ Told("EXECUTE")' =>
                     /\ chip'.executed = Sent'
                     /\ mRemainingFirmwareSize = 0 => Good(image)'
      BY <1>1, <1>4, <1>5, <1>6 DEF Delivery, DataSent
    <2> QED
      BY <1>5, <2>1, <2>2, <2>3 DEF DataSent
  <1> QED
    BY <1>7, <1>8, <1>9, <1>10, <1>11 DEF Delivery

(* The tasks of the chip, and the end of a wait.                           *)
LEMMA ChipTaskDelivers ==
    ASSUME RefusalInv, Delivery, notification \/ ChipEntersDfu \/ ChipFallsSilent
    PROVE  Delivery'
  <1>1. UNCHANGED <<fitVars, asked, answer, unreported, older>>
    BY DEF notification, ChipEntersDfu, ChipFallsSilent, updateVars, callVars, fitVars
  <1>2. InChannel' \subseteq InChannel
    <2>1. CASE notification
      BY <2>1, NotificationKeeps DEF RefusalInv
    <2>2. CASE UNCHANGED <<mDfuPacketQueue, replies>>
      BY <2>2 DEF InChannel, Arrived, OnTheWay
    <2> QED
      BY <2>1, <2>2 DEF ChipEntersDfu, ChipFallsSilent
  <1>3. HearsNoMore
    BY <1>1, <1>2 DEF HearsNoMore, Heard
  <1>4. ChipKeeps
    <2>1. chip \in ChipType
      BY UpdateFacts
    <2> QED
      BY <2>1, ChipStill DEF notification, ChipEntersDfu, ChipFallsSilent
  <1> QED
    BY <1>1, <1>3, <1>4, StillDelivers

LEMMA AnswerDelivers ==
    ASSUME RefusalInv, Delivery, UNCHANGED <<fitVars, asked, unreported>>,
           GivesUp \/ Accepts
    PROVE  Delivery'
  <1>1. /\ UNCHANGED <<chip, replies, older>> /\ mDfuPacketQueue' = << >>
        /\ replies \in Seq(ReplyType) /\ mDfuPacketQueue \in Seq(ReplyType)
    BY DEF GivesUp, Accepts, RefusalInv, ChannelTypeOK
  <1>2. InChannel' \subseteq InChannel
    BY <1>1, ForgetKeeps
  <1>3. answer' \in InChannel \/ answer'.command = "NONE"
    <2>1. CASE GivesUp
      BY <2>1 DEF GivesUp, Unanswered, Reply
    <2>2. CASE Accepts
      <3>1. /\ answer' = mDfuPacketQueue[1]
            /\ Len(mDfuPacketQueue) \in Nat /\ Len(mDfuPacketQueue) >= 1
        BY <1>1, <2>2, HeadTailProperties DEF Accepts
      <3> QED
        BY <3>1 DEF InChannel, Arrived
    <2> QED
      BY <2>1, <2>2
  <1>4. HearsNoMore
    BY <1>2, <1>3 DEF HearsNoMore, Heard
  <1>5. ChipKeeps
    BY <1>1 DEF ChipKeeps
  <1> QED
    BY <1>1, <1>4, <1>5, StillDelivers

-----------------------------------------------------------------------------
(* What is sent of an image.                                               *)

(* A command is asked only while the image goes on.                        *)
LEMMA GoesOnFine ==
    ASSUME RefusalInv, Delivery,
           pc \notin {"read", "parse", "push", "pushed", "end"}
    PROVE  /\ image \notin unreported /\ ~mIgnoreNextFirmware
           /\ image # 0 => Fine /\ Ledger
           /\ pc \in Sending => image # 0
           /\ result # "SUCCESS"
  <1>1. image \notin unreported
    BY DEF Delivery, Failures
  <1>2. image # 0 => Fine /\ Ledger
    BY <1>1 DEF Delivery, Account, Fine
  <1>3. ~mIgnoreNextFirmware
    <2> SUFFICES ASSUME mIgnoreNextFirmware PROVE FALSE
      OBVIOUS
    <2>1. image # 0
      BY DEF RefusalInv, Dialog, Ignored
    <2> QED
      BY <1>2, <2>1 DEF Delivery, Account
  <1>4. pc \in Sending => image # 0
    <2> SUFFICES ASSUME pc \in Sending PROVE image # 0
      OBVIOUS
    <2>1. mCurrentState # "HEADER"
      BY UpdateFacts DEF FitInv, InPacket, Kinds
    <2> QED
      BY <2>1, ImageBegun
  <1>5. result # "SUCCESS"
    BY DEF Delivery, Finished
  <1> QED
    BY <1>1, <1>2, <1>3, <1>4, <1>5

(* Before the first packet of an image.                                    *)
LEMMA BeforePackets ==
    ASSUME Ledger', mCurrentObjectOffset' = 0, pc' \in BeforeImage
    PROVE  Account' /\ InitSent' /\ DataSent'
  <1>1. mRemainingFirmwareSize' = 0 /\ ~mIgnoreNextFirmware'
    BY DEF Ledger
  <1>2. pc' \notin {"create", "execute", "write"}
    BY DEF BeforeImage
  <1> QED
    BY <1>1, <1>2 DEF Account, InitSent, DataSent

LEMMA PlainSent ==
    ASSUME RefusalInv, Delivery, NEW cmd, SentInImage(cmd),
           cmd.command \in {"PING", "MTU", "PRN", "SELECT"},
           image \notin unreported,
           cmd.command = "SELECT" => asked.command = "SELECT" \/ Only({"PRN"}),
           image # 0 => Ledger' /\ mCurrentObjectOffset' = 0 /\ pc' \in BeforeImage
    PROVE  Delivery'
  <1>1. image' = image
    BY DEF SentInImage
  <1>2. Account' /\ InitSent' /\ DataSent'
    <2>1. CASE image = 0
      BY <1>1, <2>1 DEF Account, InitSent, DataSent, Fine
    <2>2. CASE image # 0
      BY <2>2, BeforePackets
    <2> QED
      BY <2>1, <2>2
  <1> QED
    BY <1>2, SentDelivers

LEMMA CreateSent ==
    ASSUME RefusalInv, Delivery, NEW cmd, SentInImage(cmd),
           cmd.command = "CREATE",
           cmd.size = Least(mRemainingFirmwareSize, ObjectLen),
           pc \in {"packet", "create"}, pc' = "create", mCurrentObjectOffset = 0,
           UNCHANGED <<parseVars, bufferVars, objectVars>>,
           \/ asked = cmd
           \/ Without({"CREATE"})
           \/ asked.command = "SELECT" /\ IsData(image)
    PROVE  Delivery'
  <1>1. /\ image \notin unreported /\ ~mIgnoreNextFirmware /\ Fine /\ Ledger
        /\ image # 0
    BY GoesOnFine DEF Sending
  <1>2. mRemainingFirmwareSize # 0 /\ Size \in Nat
    BY <1>1, PacketLedger, UpdateFacts
  <1>3. /\ UNCHANGED <<package, image, older, unreported>> /\ UNCHANGED objectVars
        /\ asked' = cmd
    BY DEF SentInImage
  <1> USE DEF objectVars
  <1>4. /\ (IsInit(image)' <=> IsInit(image)) /\ (IsData(image)' <=> IsData(image))
        /\ Size' = Size
    BY <1>3, ImageStays
  <1>5. Sent' = Sent
    BY <1>3, <1>4 DEF Sent
  <1>6. Account'
    <2>1. Ledger'
      BY <1>1, CreateLedger
    <2> QED
      BY <1>1, <1>3, <1>4, <1>5, <2>1 DEF Delivery, Account
  <1>7. InitSent'
    BY <1>2, <1>3 DEF InitSent
  <1>8. DataSent'
    <2> SUFFICES ASSUME IsData(image), Sent # 0
                 PROVE  HasData' /\ chip'.executed = Sent
      BY <1>2, <1>3, <1>4, <1>5 DEF DataSent
    <2>1. HasData /\ chip.executed = Sent
      BY <1>1 DEF Delivery, DataSent, BeforeImage
    <2>2. chip' = chip \/ ChipCreates(cmd)
      BY SendTaken, UpdateFacts DEF SentInImage, ChipWrites, ChipExecutes
    <2>3. cmd.type = "FIRMWARE_DATA"
      BY DEF SentInImage, IsData, Type
    <2>4. chip.image = chip.expects /\ chip.type = "FIRMWARE_DATA"
      BY <2>1 DEF HasData, Delivery, Expecting
    <2>5. /\ chip'.executed = chip.executed /\ chip'.type = "FIRMWARE_DATA"
          /\ chip'.image = chip.image
      BY <2>2, <2>3, <2>4 DEF ChipCreates
    <2> QED
      BY <1>3, <2>1, <2>5 DEF HasData, Misled
  <1> QED
    BY <1>1, <1>6, <1>7, <1>8, SentDelivers

(* A packet leaves the chip with the object it had.                        *)
LEMMA WriteLeaves ==
    ASSUME RefusalInv, NEW cmd, SentInImage(cmd), cmd.command = "WRITE"
    PROVE  /\ UNCHANGED <<chip.type, chip.image, chip.object>>
           /\ UNCHANGED <<chip.executed, chip.expects, chip.installed>>
           /\ HasData => HasData'
           /\ \A r \in Heard' : r.command = "CALCULATE_CHECKSUM" =>
                  r \in InChannel \/ r.offset = chip.offset + cmd.size
  <1>1. /\ cmd \in AskedType /\ cmd.command # "NONE" /\ send(cmd)
        /\ answer' = Pending /\ UNCHANGED <<image, unreported>>
        /\ chip \in ChipType
    BY UpdateFacts DEF SentInImage
  <1>2. chip' = chip \/ ChipWrites(cmd)
    BY <1>1, SendTaken DEF ChipCreates, ChipExecutes
  <1>3. /\ UNCHANGED <<chip.type, chip.image, chip.object>>
        /\ UNCHANGED <<chip.executed, chip.expects, chip.installed>>
    BY <1>2 DEF ChipWrites
  <1>4. HasData => HasData'
    BY <1>1, <1>3 DEF HasData, Misled
  <1>5. ReplyTo(cmd).command = "CALCULATE_CHECKSUM" =>
            ReplyTo(cmd).offset = chip.offset + cmd.size
    BY <1>1, ReplyKinds
  <1> QED
    BY <1>1, <1>3, <1>4, <1>5, ToldBySend

(* The chip that still expects the DATA image before was misled twice.     *)
LEMMA ExpectsEarlier ==
    ASSUME RefusalInv, Delivery, pc # "end", IsData(image), chip.expects # 0,
           chip.executed = 0
    PROVE  chip.expects = image \/ Misled(image)
  <1>1. /\ IsInit(chip.expects - 1) /\ chip.expects - 1 <= image
        /\ \A k \in chip.expects..image - 1 : k \in unreported
    BY DEF Delivery, Expecting, Stale
  <1>2. chip.expects \in Nat /\ image \in Nat /\ package \in Packages
    BY UpdateFacts
  <1>3. /\ image > 1 /\ IsInit(image - 1)
        /\ \A i \in Nat : IsInit(i) => ~IsInit(i + 1) /\ ~IsData(i)
    BY <1>2, ImagesTakeTurns
  <1>4. chip.expects - 1 # image
    BY <1>1, <1>2, <1>3
  <1>5. chip.expects - 1 # image - 2
    <2> SUFFICES ASSUME chip.expects - 1 = image - 2 PROVE FALSE
      OBVIOUS
    <2>1. IsInit(image - 2) /\ image - 2 \in Nat /\ (image - 2) + 1 = image - 1
      BY <1>1, <1>2, <1>3
    <2> QED
      BY <1>3, <2>1
  <1>6. CASE chip.expects = image
    BY <1>6
  <1>7. CASE chip.expects # image
    <2>1. chip.expects <= image - 2
      BY <1>1, <1>2, <1>3, <1>4, <1>5, <1>7
    <2>2. image - 1 \in chip.expects..image - 1 /\ image - 2 \in chip.expects..image - 1
      BY <1>2, <1>3, <2>1
    <2> QED
      BY <1>1, <2>2 DEF Misled
  <1> QED
    BY <1>6, <1>7

(* What a packet finds the chip with: an object that was created or begun. *)
LEMMA ReadyToWrite ==
    ASSUME RefusalInv, Delivery,
           \/ pc = "packet" /\ mCurrentObjectOffset # 0
           \/ pc = "create" /\ answer.code = "SUCCESS"
    PROVE  /\ asked.command \in {"WRITE", "CREATE"}
           /\ IsInit(image) =>
                  /\ chip.type = "FIRMWARE_INIT" /\ chip.image = image
                  /\ chip.expects = 0
           /\ IsData(image) =>
                  \/ chip.type = "FIRMWARE_INIT" /\ Sent = mCurrentObjectOffset
                  \/ /\ chip.type = "FIRMWARE_DATA"
                     /\ chip.object =
                            Least(mRemainingFirmwareSize + mCurrentObjectOffset, ObjectLen)
                     /\ \/ HasData /\ chip.executed = Sent - mCurrentObjectOffset
                        \/ /\ mCurrentObjectOffset = 0 /\ Sent = 0
                           /\ chip.executed # 0 /\ Without({"CALCULATE_CHECKSUM"})
  <1>1. Fine /\ Ledger /\ ~mIgnoreNextFirmware /\ image # 0
    BY GoesOnFine DEF Sending
  <1>2. CASE pc = "packet" /\ mCurrentObjectOffset # 0
    <2>1. asked.command = "WRITE"
      BY <1>2 DEF RefusalInv, Dialog, GoingOn, Going
    <2>2. ~TooFar
      BY <1>2 DEF TooFar
    <2> QED
      BY <1>1, <1>2, <2>1, <2>2 DEF Delivery, InitSent, DataSent
  <1>3. CASE pc = "create" /\ answer.code = "SUCCESS"
    <2>1. /\ asked.command = "CREATE" /\ asked.image = image /\ asked.type = Type
          /\ mCurrentObjectOffset = 0 /\ Accepted
      <3>1. asked.command = "CREATE" /\ asked.image = image /\ asked.type = package[asked.image].type
        BY <1>3 DEF RefusalInv, Dialog, AskedHere
      <3>2. mCurrentObjectOffset = 0
        BY <1>3, UpdateFacts DEF FitInv, InPacket, Sending
      <3> QED
        BY <1>3, <3>1, <3>2, PlaceFacts DEF Type
    <2>2. Told("CREATE") /\ Without({"CALCULATE_CHECKSUM"})
      <3>1. answer.command = "CREATE"
        BY <2>1 DEF Accepted, responseCommand
      <3>2. Only(Answers) \/ Mixed
        BY <1>3, <2>1 DEF RefusalInv, Dialog, Channel
      <3> QED
        BY <1>3, <2>1, <3>1, <3>2 DEF Told, Heard, Only, Without, Answers, Mixed
    <2>3. asked.size = Least(mRemainingFirmwareSize, ObjectLen)
      BY <1>1, <1>3 DEF Delivery, Account
    <2>4. IF asked.type = "FIRMWARE_INIT"
          THEN chip.type = "FIRMWARE_INIT" /\ chip.image = asked.image /\ chip.expects = 0
          ELSE chip.type = "FIRMWARE_INIT" \/ chip.object = asked.size
      BY <1>3, <2>1, <2>2 DEF Delivery, CreateTold
    <2>5. IsInit(image) =>
              /\ chip.type = "FIRMWARE_INIT" /\ chip.image = image
              /\ chip.expects = 0
      BY <1>1, <2>1, <2>4, UpdateFacts
    <2>6. ASSUME IsData(image)
          PROVE  \/ chip.type = "FIRMWARE_INIT" /\ Sent = 0
                 \/ /\ chip.type = "FIRMWARE_DATA"
                    /\ chip.object = Least(mRemainingFirmwareSize, ObjectLen)
                    /\ \/ HasData /\ chip.executed = Sent
                       \/ Sent = 0 /\ chip.executed # 0
      <3>1. Sent # 0 => HasData /\ chip.executed = Sent
        BY <1>1, <1>3, <2>1, <2>6 DEF Delivery, DataSent, BeforeImage
      <3>2. chip.type \in ImageType
        BY UpdateFacts DEF ChipType
      <3>3. CASE chip.type = "FIRMWARE_INIT"
        BY <3>1, <3>3 DEF HasData
      <3>4. CASE chip.type = "FIRMWARE_DATA"
        <4>1. chip.object = Least(mRemainingFirmwareSize, ObjectLen)
          BY <1>1, <2>1, <2>3, <2>4, <2>6, <3>4, UpdateFacts
        <4>2. Sent = 0 /\ chip.executed = 0 => HasData
          <5>1. chip.image = chip.expects /\ chip.expects # 0
            BY <3>4 DEF Delivery, Expecting
          <5> QED
            BY <1>3, <2>6, <3>4, <5>1, ExpectsEarlier DEF HasData
        <4> QED
          BY <3>1, <3>4, <4>1, <4>2
      <3> QED
        BY <3>2, <3>3, <3>4 DEF ImageType
    <2>7. /\ Size \in Nat /\ mRemainingFirmwareSize \in Nat
          /\ mRemainingFirmwareSize + 0 = mRemainingFirmwareSize
          /\ Sent \in Int /\ Sent - 0 = Sent
      BY <1>1, UpdateFacts DEF Sent
    <2> QED
      BY <2>1, <2>2, <2>5, <2>6, <2>7
  <1> QED
    BY <1>2, <1>3

LEMMA WriteSent ==
    ASSUME RefusalInv, Delivery,
           \/ pc = "packet" /\ mCurrentObjectOffset # 0
           \/ pc = "create" /\ answer.code = "SUCCESS",
           WritePacket, SentInImage(Write(PacketFrom, PacketSize)),
           UNCHANGED <<parseVars, bufferVars, mIgnoreNextFirmware>>
    PROVE  Delivery'
  <1> DEFINE cmd == Write(PacketFrom, PacketSize)
             O == mCurrentObjectOffset
             R == mRemainingFirmwareSize
             P == PacketSize
  <1>1. /\ Fine /\ Ledger /\ ~mIgnoreNextFirmware /\ image # 0
        /\ image \notin unreported
    BY GoesOnFine DEF Sending
  <1>2. /\ P \in Nat /\ P > 0 /\ Sent \in Nat /\ R \in Nat /\ O \in Nat
        /\ Size \in Nat /\ chip.offset \in Nat /\ chip.executed \in Nat
    <2>1. P \in Nat /\ P > 0 /\ Sent \in Nat /\ Size \in Nat
      BY <1>1, PacketLedger
    <2> QED
      BY <2>1, UpdateFacts
  <1>3. /\ R' = R - P /\ O' = O + P /\ pc' = "write"
        /\ cmd.command = "WRITE" /\ cmd.size = P
        /\ UNCHANGED <<package, image, older, unreported, mIgnoreNextFirmware>>
        /\ asked' = cmd
    BY DEF WritePacket, SentInImage, Write
  <1>4. Ledger' /\ Sent' = Sent + P
    BY <1>1, WritePacketLedger
  <1>5. /\ (IsInit(image)' <=> IsInit(image)) /\ (IsData(image)' <=> IsData(image))
    BY <1>3, ImageStays
  <1> HIDE DEF cmd, P
  <1>6. /\ UNCHANGED <<chip.type, chip.image, chip.object>>
        /\ UNCHANGED <<chip.executed, chip.expects, chip.installed>>
        /\ HasData => HasData'
        /\ \A r \in Heard' : r.command = "CALCULATE_CHECKSUM" =>
               r \in InChannel \/ r.offset = chip.offset + P
    BY <1>3, WriteLeaves DEF cmd, P
  <1>7. /\ R' + O' = R + O /\ Sent' - O' = Sent - O /\ O' # 0
        /\ Sent = O => Sent' = O'
    BY <1>2, <1>3, <1>4
  <1>8. Account'
    <2>1. IsInit(image) /\ R # 0 => Sent = O
      BY <1>1 DEF Delivery, Account
    <2>2. R # 0
      BY <1>1, PacketLedger
    <2> QED
      BY <1>1, <1>3, <1>4, <1>5, <1>7, <2>1, <2>2 DEF Account
  <1>9. InitSent'
    BY <1>3, <1>5, <1>6, ReadyToWrite DEF InitSent
  <1>10. DataSent'
    <2> SUFFICES ASSUME IsData(image)
                 PROVE  \/ chip'.type = "FIRMWARE_INIT" /\ Sent' = O'
                        \/ /\ chip'.type = "FIRMWARE_DATA"
                           /\ chip'.object = Least(R' + O', ObjectLen)
                           /\ (HasData' /\ chip'.executed = Sent' - O') \/ TooFar'
      BY <1>3, <1>5, <1>7 DEF DataSent
    <2>1. CASE chip.type = "FIRMWARE_INIT" /\ Sent = O
      BY <1>6, <1>7, <2>1
    <2>2. CASE /\ chip.type = "FIRMWARE_DATA"
               /\ chip.object = Least(R + O, ObjectLen)
               /\ HasData /\ chip.executed = Sent - O
      BY <1>6, <1>7, <2>2
    <2>3. CASE /\ chip.type = "FIRMWARE_DATA"
               /\ chip.object = Least(R + O, ObjectLen)
               /\ O = 0 /\ Sent = 0
               /\ chip.executed # 0 /\ Without({"CALCULATE_CHECKSUM"})
      <3>1. O' = P /\ Sent' = O' /\ asked'.size = O' /\ chip'.executed = chip.executed
        BY <1>2, <1>3, <1>4, <1>6, <2>3
      <3>2. chip.executed <= chip.offset
        BY DEF Delivery, Expecting
      <3>3. ASSUME NEW r \in Heard', r.command = "CALCULATE_CHECKSUM"
            PROVE  r.offset >= chip'.executed + O'
        <4>1. r.offset = chip.offset + P
          BY <1>6, <2>3, <3>3 DEF Without
        <4> QED
          BY <1>2, <3>1, <3>2, <4>1
      <3>4. TooFar'
        BY <1>3, <2>3, <3>1, <3>3 DEF TooFar
      <3> QED
        BY <1>6, <1>7, <2>3, <3>4
    <2> HIDE DEF O, R
    <2> QED
      BY <2>1, <2>2, <2>3, ReadyToWrite DEF O, R
  <1>11. asked.command \in InImage
    BY ReadyToWrite DEF InImage
  <1> QED
    BY <1>1, <1>3, <1>8, <1>9, <1>10, <1>11, SentDelivers DEF cmd

(* A packet that is sent again.                                            *)
LEMMA WriteAgain ==
    ASSUME RefusalInv, Delivery, pc = "write", asked.command = "WRITE",
           SentInImage(asked), UNCHANGED fitVars
    PROVE  Delivery'
  <1> USE DEF fitVars, parseVars, bufferVars, objectVars
  <1>1. /\ Fine /\ Ledger /\ ~mIgnoreNextFirmware /\ image # 0
        /\ image \notin unreported
    BY GoesOnFine DEF Sending
  <1>2. /\ UNCHANGED <<package, image, older, unreported, asked>>
    BY DEF SentInImage
  <1>3. /\ (IsInit(image)' <=> IsInit(image)) /\ (IsData(image)' <=> IsData(image))
        /\ Size' = Size
    BY <1>2, ImageStays
  <1>4. /\ UNCHANGED <<chip.type, chip.image, chip.object>>
        /\ UNCHANGED <<chip.executed, chip.expects, chip.installed>>
        /\ HasData => HasData'
        /\ \A r \in Heard' : r.command = "CALCULATE_CHECKSUM" =>
               r \in InChannel \/ r.offset = chip.offset + asked.size
    BY WriteLeaves
  <1>5. Sent' = Sent
    BY <1>3 DEF Sent
  <1>6. TooFar => TooFar'
    <2> SUFFICES ASSUME TooFar PROVE TooFar'
      OBVIOUS
    <2>1. /\ chip.executed # 0 /\ Sent = mCurrentObjectOffset
          /\ asked.size = mCurrentObjectOffset
          /\ \A r \in Heard : r.command = "CALCULATE_CHECKSUM" =>
                 r.offset >= chip.executed + mCurrentObjectOffset
      BY DEF TooFar
    <2>2. chip.offset + asked.size >= chip.executed + mCurrentObjectOffset
      <3>1. chip.executed <= chip.offset
        BY DEF Delivery, Expecting
      <3> QED
        BY <2>1, <3>1, UpdateFacts
    <2>3. \A r \in Heard' : r.command = "CALCULATE_CHECKSUM" =>
              r.offset >= chip.executed + mCurrentObjectOffset
      BY <1>4, <2>1, <2>2 DEF Heard
    <2> QED
      BY <1>2, <1>4, <1>5, <2>1, <2>3 DEF TooFar
  <1>7. Account'
    <2>1. Ledger'
      BY <1>1, <1>3 DEF Ledger, LeftOut, Waiting
    <2> QED
      BY <1>1, <1>2, <1>3, <1>5, <2>1 DEF Delivery, Account
  <1>8. InitSent'
    BY <1>1, <1>2, <1>3, <1>4 DEF Delivery, InitSent, Fine
  <1>9. DataSent'
    BY <1>1, <1>2, <1>3, <1>4, <1>5, <1>6 DEF Delivery, DataSent, Fine
  <1> QED
    BY <1>1, <1>7, <1>8, <1>9, SentDelivers DEF InImage

(* The chip has said that it executed the object.                          *)
Reported == \E r \in InChannel : r.command = "EXECUTE" /\ r.code = "SUCCESS"

InitReady ==
    /\ mRemainingFirmwareSize = 0
    /\ chip.type = "FIRMWARE_INIT" /\ chip.image = image
    /\ chip.expects = 0 \/ (chip.expects = image + 1 /\ image \notin older)
    /\ Reported => chip.expects = image + 1

DataReady ==
    \/ chip.type = "FIRMWARE_INIT" /\ ~Reported
    \/ /\ HasData
       /\ chip.executed + chip.object = Sent
       /\ Reported =>
              /\ chip.executed = Sent
              /\ mRemainingFirmwareSize = 0 => Good(image)

LEMMA ExecuteSent ==
    ASSUME RefusalInv, Delivery, NEW cmd, SentInImage(cmd),
           cmd.command = "EXECUTE", pc \in {"write", "execute"},
           asked.command \in InImage,
           pc' = "execute", mCurrentObjectOffset' = 0,
           UNCHANGED mRemainingFirmwareSize, Ledger',
           IsInit(image) => InitReady, IsData(image) => DataReady
    PROVE  Delivery'
  <1>1. /\ Fine /\ Ledger /\ ~mIgnoreNextFirmware /\ image # 0
        /\ image \notin unreported
    BY GoesOnFine DEF Sending
  <1>2. /\ UNCHANGED <<package, image, older, unreported>> /\ ~mIgnoreNextFirmware'
        /\ cmd \in AskedType /\ send(cmd) /\ answer' = Pending
        /\ chip \in ChipType /\ ChipHasImage
    BY UpdateFacts DEF SentInImage
  <1>3. /\ (IsInit(image)' <=> IsInit(image)) /\ (IsData(image)' <=> IsData(image))
        /\ Size' = Size /\ Size = package[image].size /\ Sent' = Sent
    BY <1>1, <1>2, ImageStays, PlaceFacts DEF Sent
  <1>4. chip' = chip \/ ChipExecutes(cmd)
    BY <1>2, SendTaken DEF ChipCreates, ChipWrites
  <1>5. Told("EXECUTE")' => Reported \/ ChipExecutes(cmd)
    BY <1>2, ToldBySend DEF Reported
  <1>6. Account'
    BY <1>2, <1>3 DEF Account, InitReady
  <1>7. InitSent'
    <2> SUFFICES ASSUME IsInit(image)
                 PROVE  /\ chip'.type = "FIRMWARE_INIT" /\ chip'.image = image
                        /\ chip'.expects = 0 \/ (chip'.expects = image + 1 /\ image \notin older)
                        /\ Told("EXECUTE")' => chip'.expects = image + 1
      BY <1>2, <1>3 DEF InitSent
    <2>1. CASE chip' = chip /\ ~ChipExecutes(cmd)
      BY <1>5, <2>1 DEF InitReady
    <2>2. CASE ChipExecutes(cmd)
      BY <2>2 DEF ChipExecutes, InitReady
    <2> QED
      BY <1>4, <2>1, <2>2
  <1>8. DataSent'
    <2> SUFFICES ASSUME IsData(image)
                 PROVE  \/ chip'.type = "FIRMWARE_INIT" /\ ~Told("EXECUTE")'
                        \/ /\ HasData'
                           /\ chip'.executed + chip'.object = Sent
                           /\ Told("EXECUTE")' =>
                                  /\ chip'.executed = Sent
                                  /\ mRemainingFirmwareSize = 0 => Good(image)'
      BY <1>2, <1>3 DEF DataSent
    <2>1. CASE chip' = chip /\ ~ChipExecutes(cmd)
      <3>1. (HasData => HasData') /\ (Good(image) => Good(image)')
        BY <1>2, <2>1 DEF HasData, Misled, Good
      <3> QED
        BY <1>5, <2>1, <3>1 DEF DataReady
    <2>2. CASE ChipExecutes(cmd)
      <3>1. chip.type # "FIRMWARE_INIT"
        <4> SUFFICES ASSUME chip.type = "FIRMWARE_INIT" PROVE FALSE
          OBVIOUS
        <4>1. chip.image = image
          BY <1>2, <2>2 DEF ChipExecutes, Whole, ChipHasImage
        <4>2. IsInit(image)
          BY <1>1, <4>1 DEF RefusalInv, ChipKinds
        <4> QED
          BY <4>2 DEF IsInit, IsData
      <3>2. HasData /\ chip.executed + chip.object = Sent /\ Sent \in Int
        <4>1. Sent \in Int
          BY <1>1, UpdateFacts DEF Sent
        <4> QED
          BY <3>1, <4>1 DEF DataReady
      <3>3. /\ chip'.type = chip.type /\ chip'.image = chip.image
            /\ chip'.executed = chip.offset /\ chip'.object = 0
            /\ chip.offset = chip.executed + chip.object
            /\ chip'.installed = IF Whole THEN chip.installed \cup {chip.image}
                                          ELSE chip.installed
        BY <2>2, <3>2 DEF ChipExecutes, HasData
      <3>4. HasData'
        BY <1>2, <3>2, <3>3 DEF HasData, Misled
      <3>5. chip'.executed = Sent /\ chip'.executed + chip'.object = Sent
        BY <3>2, <3>3
      <3>6. mRemainingFirmwareSize = 0 => Good(image)'
        <4> SUFFICES ASSUME mRemainingFirmwareSize = 0 PROVE Good(image)'
          OBVIOUS
        <4>1. CASE chip.image = image
          <5>1. chip.offset = Size
            BY <1>1, <3>2, <3>3, UpdateFacts DEF Sent
          <5>2. Whole
            BY <1>3, <4>1, <5>1 DEF Whole
          <5> QED
            BY <1>2, <3>3, <4>1, <5>2 DEF Good
        <4>2. CASE Misled(image)
          BY <1>2, <4>2 DEF Good, Misled
        <4> QED
          BY <3>2, <4>1, <4>2 DEF HasData
      <3> QED
        BY <3>4, <3>5, <3>6
    <2> QED
      BY <1>4, <2>1, <2>2
  <1> QED
    BY <1>1, <1>6, <1>7, <1>8, SentDelivers

(* A command that is asked again.                                          *)
LEMMA RetryDelivers ==
    ASSUME RefusalInv, Delivery, answer = Pending,
           UNCHANGED <<fitVars, asked, unreported>>, Retries
    PROVE  Delivery'
  <1> USE DEF fitVars, parseVars, bufferVars, objectVars
  <1>1. /\ pc \notin Idle /\ pc \in Places
        /\ asked \in AskedType
    BY PlaceFacts, UpdateFacts DEF FitInv, Kinds
  <1>2. /\ image \notin unreported /\ ~mIgnoreNextFirmware
        /\ image # 0 => Fine /\ Ledger
        /\ pc \in Sending => image # 0
        /\ result # "SUCCESS"
    BY <1>1, GoesOnFine DEF Idle
  <1>3. AskedHere /\ (pc = "execute" => ChipHasImage)
    BY DEF RefusalInv, Dialog, BytesTaken
  <1>4. /\ asked.command # "NONE" /\ send(asked) /\ asked' = asked /\ answer' = Pending
        /\ UNCHANGED <<package, image, older, unreported, result, pc>>
        /\ pc # "end"
    <2>1. asked.command # "NONE"
      BY <1>1, <1>3 DEF AskedHere, Places, Idle, Pings
    <2> QED
      BY <1>1, <2>1 DEF Retries, Idle
  <1>5. /\ asked.command = "CREATE" => pc = "create"
        /\ asked.command = "WRITE" => pc = "write"
        /\ asked.command = "EXECUTE" => pc = "execute"
        /\ asked.command = "SELECT" => pc = "select"
        /\ pc \in Sending => pc \in {"create", "write", "execute"}
        /\ pc = "create" => asked.command = "CREATE"
        /\ pc = "write" => asked.command = "WRITE"
        /\ pc = "execute" => asked.command = "EXECUTE"
    BY <1>1, <1>3 DEF AskedHere, Places, Idle, Pings, Sending
  <1>6. SentInImage(asked)
    <2>1. asked.command = "CREATE" => asked.image = image /\ asked.type = Type
      BY <1>3, <1>5 DEF AskedHere, Type
    <2>2. asked.command = "EXECUTE" => ChipHasImage
      BY <1>3, <1>5
    <2> QED
      BY <1>1, <1>2, <1>4, <2>1, <2>2 DEF SentInImage
  <1>7. CASE asked.command \notin {"CREATE", "WRITE", "EXECUTE"}
    <2>1. asked.command \in {"PING", "MTU", "PRN", "SELECT"}
      BY <1>1, <1>4, <1>7 DEF AskedType, PlainCommand
    <2>2. image # 0 => pc \in BeforeImage
      BY <1>1, <1>3, <1>7, UpdateFacts
         DEF AskedHere, Places, Idle, BeforePackage, BeforeImage
    <2>3. pc \in BeforeImage => mCurrentObjectOffset = 0
      BY UpdateFacts DEF FitInv, AtRest
    <2>4. (IsData(image)' <=> IsData(image)) /\ Size' = Size
      BY ImageStays
    <2>5. image # 0 => Ledger'
      BY <1>2, <2>4 DEF Ledger, LeftOut, Waiting
    <2> QED
      BY <1>2, <1>6, <2>1, <2>2, <2>3, <2>5, PlainSent
  <1>8. CASE asked.command = "CREATE"
    <2>1. mCurrentObjectOffset = 0 /\ pc = "create"
      BY <1>5, <1>8, UpdateFacts DEF FitInv, InPacket, Sending
    <2>2. asked.size = Least(mRemainingFirmwareSize, ObjectLen)
      BY <1>2, <2>1 DEF Delivery, Account, Sending
    <2> QED
      BY <1>6, <1>8, <2>1, <2>2, CreateSent
  <1>9. CASE asked.command = "WRITE"
    BY <1>5, <1>6, <1>9, WriteAgain
  <1>10. CASE asked.command = "EXECUTE"
    <2>1. mCurrentObjectOffset = 0 /\ pc = "execute" /\ Fine /\ Ledger
      BY <1>2, <1>5, <1>10, UpdateFacts DEF FitInv, InPacket, Sending
    <2>2. Reported => Told("EXECUTE")
      BY DEF Reported, Told, Heard
    <2>3. IsInit(image) => InitReady
      BY <2>1, <2>2 DEF Delivery, Account, InitSent, InitReady
    <2>4. IsData(image) => DataReady
      BY <1>2, <2>1, <2>2 DEF Delivery, DataSent, DataReady
    <2>5. (IsData(image)' <=> IsData(image)) /\ Size' = Size
      BY ImageStays
    <2>6. Ledger'
      BY <2>1, <2>5 DEF Ledger, LeftOut, Waiting
    <2> QED
      BY <1>6, <1>10, <2>1, <2>3, <2>4, <2>6, ExecuteSent DEF InImage
  <1> QED
    BY <1>7, <1>8, <1>9, <1>10

-----------------------------------------------------------------------------
(* The steps of the update task that ask nothing.                          *)

LEMMA UnsentHears ==
    ASSUME UNCHANGED <<answer, mDfuPacketQueue, replies>>
    PROVE  HearsNoMore
  BY DEF HearsNoMore, Heard, InChannel, Arrived, OnTheWay

LEMMA StopDelivers ==
    ASSUME RefusalInv, Delivery, pc # "end", pc' = "end",
           UNCHANGED <<package, image, chip, older, unreported>>,
           result' = "SUCCESS" =>
               /\ UNCHANGED swallowed
               /\ \A k \in 1..Len(package) :
                      IsData(k) => Good(k) \/ (swallowed # 0 /\ k >= image)
    PROVE  Delivery'
  <1>1. /\ \A i : (IsData(i)' <=> IsData(i)) /\ (Good(i) => Good(i)')
        /\ (IsInit(chip.expects - 1)' <=> IsInit(chip.expects - 1))
    BY GoodKept DEF IsInit
  <1>2. Finished'
    BY <1>1 DEF Delivery, Finished
  <1>3. Expecting' /\ Failures'
    BY <1>1 DEF Delivery, Expecting, Failures
  <1>4. Stale' /\ CreateTold' /\ Account' /\ InitSent' /\ DataSent'
    BY DEF Stale, CreateTold, Account, InitSent, DataSent, Fine
  <1> QED
    BY <1>2, <1>3, <1>4 DEF Delivery

LEMMA NoImageDelivers ==
    ASSUME RefusalInv, Delivery, image = 0, pc # "end", pc' # "end",
           UNCHANGED <<package, image, older, unreported, asked, answer>>,
           UNCHANGED <<mDfuPacketQueue, replies, mIgnoreNextFirmware, result>>,
           ChipKeeps
    PROVE  Delivery'
  <1>1. result' # "SUCCESS"
    BY DEF Delivery, Finished
  <1>2. Finished' /\ Stale' /\ Expecting' /\ CreateTold'
    BY <1>1, UnsentHears, KeptUnsent
  <1>3. Account' /\ InitSent' /\ DataSent'
    BY DEF Account, InitSent, DataSent, Fine
  <1>4. Failures'
    <2>1. unreported = {}
      BY DEF Delivery, Failures
    <2> QED
      BY <2>1 DEF Failures
  <1> QED
    BY <1>2, <1>3, <1>4 DEF Delivery

LEMMA WorkDelivers ==
    ASSUME RefusalInv, Delivery,
           pc \in {"read", "parse", "push", "pushed"},
           pc' \in {"read", "parse", "push", "pushed", "packet"},
           UNCHANGED <<package, image, callVars, channelVars, objectVars>>,
           UNCHANGED <<unreported, result>>,
           Fine => Ledger' /\ (mIgnoreNextFirmware => pc' # "packet"),
           Failures'
    PROVE  Delivery'
  <1> USE DEF callVars, channelVars, objectVars
  <1>1. result' # "SUCCESS" /\ ChipKeeps
    BY DEF Delivery, Finished, ChipKeeps
  <1>2. Finished' /\ Stale' /\ Expecting' /\ CreateTold'
    BY <1>1, UnsentHears, KeptUnsent
  <1>3. /\ (IsInit(image)' <=> IsInit(image)) /\ (IsData(image)' <=> IsData(image))
        /\ Size' = Size /\ Sent' = Sent /\ (Fine' <=> Fine)
    BY ImageStays DEF Sent, Fine
  <1>4. Account'
    BY <1>3 DEF Delivery, Account
  <1>5. InitSent'
    BY <1>3 DEF Delivery, InitSent, BeforeImage
  <1>6. (Good(image) => Good(image)') /\ (HasData => HasData') /\ ~TooFar
    BY DEF Good, Misled, HasData, TooFar
  <1>7. DataSent'
    BY <1>3, <1>6 DEF Delivery, DataSent, BeforeImage
  <1> QED
    BY <1>2, <1>4, <1>5, <1>7 DEF Delivery

LEMMA FineLedger ==
    ASSUME Delivery, Fine
    PROVE  Ledger
  BY DEF Delivery, Account

LEMMA ChunkDelivers ==
    ASSUME RefusalInv, Delivery,
           pc \in {"read", "parse"}, pc' \in {"read", "parse"},
           UNCHANGED <<package, image, mFirmwareOffset, bufferVars, objectVars>>,
           UNCHANGED <<callVars, channelVars, unreported, result>>,
           mCurrentState' = "FIRMWARE" <=> mCurrentState = "FIRMWARE",
           Exhausted => Exhausted'
    PROVE  Delivery'
  <1>1. Fine => Ledger'
    BY FineLedger, ChunkLedger
  <1>2. Failures'
    BY DEF Delivery, Failures
  <1> QED
    BY <1>1, <1>2, WorkDelivers

LEMMA OnFirmwareDelivers ==
    ASSUME RefusalInv, Delivery, onFirmware
    PROVE  Delivery'
  <1>1. /\ pc = "parse" /\ mCurrentState = "FIRMWARE" /\ ~Exhausted
        /\ pc' \in {"push", "pushed"}
        /\ UNCHANGED <<package, image, callVars, channelVars, objectVars>>
        /\ UNCHANGED <<unreported, result>>
    BY DEF onFirmware, Exhausted
  <1>2. Failures'
    BY <1>1 DEF Delivery, Failures
  <1>3. Fine => Ledger'
    BY FineLedger, OnFirmwareLedger
  <1> QED
    BY <1>1, <1>2, <1>3, WorkDelivers

LEMMA PushBackDelivers ==
    ASSUME RefusalInv, Delivery, pushBack
    PROVE  Delivery'
  <1>1. /\ pc = "push" /\ pc' \in {"packet", "pushed"}
        /\ UNCHANGED <<package, image, callVars, channelVars, objectVars>>
        /\ UNCHANGED <<unreported, result>>
    BY DEF pushBack, parseVars
  <1>2. image \notin unreported
    BY <1>1 DEF Delivery, Failures
  <1>3. Failures'
    BY <1>1, <1>2 DEF Delivery, Failures
  <1>4. Fine => Ledger'
    BY FineLedger, PushBackLedger
  <1>5. Fine /\ pc' = "packet" => ~mIgnoreNextFirmware
    <2> SUFFICES ASSUME Fine, pc' = "packet", mIgnoreNextFirmware PROVE FALSE
      OBVIOUS
    <2>1. mRemainingFirmwareSize = 0 /\ mRemainingFirmwareSize = Waiting
      BY <1>1, FineLedger DEF Ledger
    <2>2. /\ Size \in Nat /\ mFirmwareOffset <= Size
          /\ buffered \in Nat /\ toPush \in Nat /\ mFirmwareOffset \in Nat
      <3>1. mCurrentState = "FIRMWARE"
        BY <1>1, UpdateFacts DEF FitInv, Pushing
      <3> QED
        BY <3>1, UpdateFacts DEF FitInv, Position
    <2>3. buffered = 0 /\ toPush = 0
      BY <2>1, <2>2 DEF Waiting
    <2>4. buffered = PacketLen \/ toPush >= PacketLen
      BY <2>2 DEF pushBack
    <2> QED
      BY <2>3, <2>4, Lengths
  <1> QED
    BY <1>1, <1>3, <1>4, <1>5, WorkDelivers

LEMMA FirmwareTakenDelivers ==
    ASSUME RefusalInv, Delivery, FirmwareTaken
    PROVE  Delivery'
  <1>1. /\ pc = "pushed"
        /\ UNCHANGED <<package, image, buffered, objectVars, unreported>>
    BY DEF FirmwareTaken
  <1>2. CASE pc' = "end"
    <2>1. result' = "WRITE" /\ UNCHANGED channelVars
      BY <1>2 DEF FirmwareTaken, Stop
    <2> QED
      BY <1>1, <1>2, <2>1, StopDelivers DEF channelVars
  <1>3. CASE pc' # "end"
    <2>1. /\ UNCHANGED <<result, callVars, channelVars>>
          /\ \/ /\ mFirmwareOffset < Size /\ toPush = 0 /\ pc' = "parse"
             \/ /\ mFirmwareOffset = Size /\ mCurrentState' = "END"
                /\ pc' = IF buffered = 0 THEN "parse" ELSE "packet"
      BY <1>3 DEF FirmwareTaken, Stop
    <2>2. Fine => Ledger' /\ (mCurrentState' = "END" => mRemainingFirmwareSize = buffered)
      BY <1>3, FineLedger, FirmwareTakenLedger
    <2>3. Fine /\ pc' = "packet" => ~mIgnoreNextFirmware
      <3> SUFFICES ASSUME Fine, pc' = "packet", mIgnoreNextFirmware PROVE FALSE
        OBVIOUS
      <3>1. mRemainingFirmwareSize = 0
        BY FineLedger DEF Ledger
      <3> QED
        BY <2>1, <2>2, <3>1
    <2>4. Failures'
      <3>1. image \in unreported =>
                /\ toPush # 0 \/ mFirmwareOffset = Size \/ Exhausted
                /\ buffered = 0
        BY <1>1 DEF Delivery, Failures
      <3>3. Exhausted => Exhausted'
        BY DEF FirmwareTaken, Exhausted, TotalLen
      <3>2. mFirmwareOffset < Size => mFirmwareOffset # Size
        <4>1. mFirmwareOffset \in Nat /\ Size \in Nat
          <5>1. mCurrentState = "FIRMWARE"
            BY <1>1, UpdateFacts DEF FitInv, Pushing
          <5> QED
            BY <5>1, ImageBegun, UpdateFacts
        <4> QED
          BY <4>1
      <3> QED
        BY <1>1, <1>3, <2>1, <3>1, <3>2, <3>3 DEF Delivery, Failures
    <2> QED
      BY <1>1, <2>1, <2>2, <2>3, <2>4, WorkDelivers
  <1> QED
    BY <1>2, <1>3

-----------------------------------------------------------------------------
(* The end of an image, and of the package.                                *)

LEMMA ImageClosed ==
    ASSUME RefusalInv, Delivery, pc \in {"read", "parse"},
           mCurrentState # "FIRMWARE", image # 0
    PROVE  /\ IsData(image) => Good(image)
           /\ chip.expects # 0 /\ chip.executed = 0 =>
                  image \in unreported \/ chip.expects > image
  <1>1. CASE image \in unreported
    BY <1>1 DEF Good
  <1>2. CASE image \notin unreported
    <2>1. Fine /\ Ledger
      BY <1>2 DEF Fine, Delivery, Account
    <2>2. /\ mRemainingFirmwareSize = 0 /\ mCurrentObjectOffset = 0
          /\ Size \in Nat /\ Size > 0 /\ Sent = Size
          /\ IsInit(image) \/ IsData(image)
          /\ image \in Nat
      <3>1. mRemainingFirmwareSize = 0 /\ mCurrentObjectOffset = 0
        BY <2>1 DEF Ledger
      <3> QED
        BY <3>1, UpdateFacts DEF Sent
    <2>3. CASE mIgnoreNextFirmware
      <3>1. chip.expects = 0
        BY <2>1, <2>3 DEF Fine, Delivery, Expecting
      <3>2. IsData(image) => image \notin older
        BY DEF RefusalInv, ChannelTypeOK, IsData
      <3>3. IsData(image) => image - 1 \in older
        BY <2>3, <3>2 DEF RefusalInv, Dialog, Ignored
      <3> QED
        BY <3>1, <3>3 DEF Good
    <2>4. CASE ~mIgnoreNextFirmware /\ IsInit(image)
      <3>1. chip.expects = image + 1
        BY <2>1, <2>2, <2>4 DEF Delivery, InitSent, BeforeImage
      <3>2. ~IsData(image)
        BY <2>4 DEF IsInit, IsData
      <3> QED
        BY <2>2, <3>1, <3>2
    <2>5. CASE ~mIgnoreNextFirmware /\ IsData(image)
      <3>1. chip.executed = Sent /\ Good(image)
        BY <2>1, <2>2, <2>5 DEF Delivery, DataSent, BeforeImage
      <3> QED
        BY <2>2, <3>1
    <2> QED
      BY <2>2, <2>3, <2>4, <2>5
  <1> QED
    BY <1>1, <1>2

LEMMA ReadHeaderDelivers ==
    ASSUME RefusalInv, RefusalInv', Delivery, ReadHeader
    PROVE  Delivery'
  <1>1. /\ pc = "parse" /\ mCurrentState # "FIRMWARE" /\ image' = image + 1
        /\ UNCHANGED <<package, result, unreported>>
        /\ mCurrentObjectOffset' = 0 /\ ~Exhausted
    BY DEF ReadHeader, onManifest, InHeader, Exhausted
  <1>2. \/ /\ package[image'].type = "FIRMWARE_DATA"
           /\ mIgnoreNextFirmware' /\ mIgnoreNextFirmware
           /\ pc' = "parse" /\ UNCHANGED <<callVars, channelVars>>
        \/ /\ ~mIgnoreNextFirmware'
           /\ \/ /\ package[image'].type = "FIRMWARE_DATA"
                 /\ pc' = "select" /\ Ask(Plain("SELECT"))
              \/ /\ pc' = "pingDfu" /\ Ask(Plain("PING"))
    BY DEF ReadHeader, onManifest
  <1>3. Ledger' /\ image' \in 1..Len(package) /\ image \in Nat
    <2>1. FitInv' /\ image' \in 0..Len(package') /\ Len(package) \in Nat
      BY DEF RefusalInv, FitInv, Kinds
    <2>2. image \in Nat /\ Len(package) \in Nat
      BY UpdateFacts
    <2> QED
      BY <1>1, <2>1, <2>2, ReadHeaderLedger
  <1>4. UNCHANGED <<chip, older>>
    <2>1. CASE UNCHANGED channelVars
      BY <2>1 DEF channelVars
    <2>2. ASSUME NEW command \in {"PING", "SELECT"}, Ask(Plain(command))
          PROVE  UNCHANGED <<chip, older>>
      <3>1. Plain(command) \in AskedType /\ Plain(command).command = command
        BY PlainAsked DEF PlainCommand
      <3> QED
        BY <2>2, <3>1, SendTaken, UpdateFacts
           DEF Ask, ChipCreates, ChipWrites, ChipExecutes
    <2> QED
      BY <1>2, <2>1, <2>2
  <1>5. /\ \A i : (IsData(i)' <=> IsData(i)) /\ (Good(i) => Good(i)')
        /\ (IsInit(chip.expects - 1)' <=> IsInit(chip.expects - 1))
        /\ (IsData(image)' <=> IsData(image')) /\ (IsInit(image)' <=> IsInit(image'))
    BY <1>1, <1>4, GoodKept DEF IsInit, IsData
  <1>6. Finished'
    <2>1. \A k \in 1..image : IsData(k) => Good(k)
      <3> SUFFICES ASSUME NEW k \in 1..image, IsData(k) PROVE Good(k)
        OBVIOUS
      <3>1. CASE k = image
        BY <1>1, <1>3, <3>1, ImageClosed
      <3>2. CASE k # image
        <4>1. k \in 1..image - 1
          BY <1>3, <3>2
        <4> QED
          BY <1>1, <4>1 DEF Delivery, Finished
      <3> QED
        BY <3>1, <3>2
    <2>2. result' # "SUCCESS"
      BY <1>1 DEF Delivery, Finished
    <2>3. image' - 1 = image
      BY <1>1, <1>3
    <2> QED
      BY <1>5, <2>1, <2>2, <2>3 DEF Finished
  <1>7. Stale'
    <2> SUFFICES ASSUME chip.expects # 0, chip.executed = 0,
                        NEW k \in chip.expects..image
                 PROVE  k \in unreported
      <3>1. image' - 1 = image
        BY <1>1, <1>3
      <3> QED
        BY <1>1, <1>4, <3>1 DEF Stale
    <2>1. chip.expects \in Nat /\ chip.expects > 0
      BY UpdateFacts
    <2>2. CASE k = image
      BY <1>1, <1>3, <2>1, <2>2, ImageClosed
    <2>3. CASE k # image
      <3>1. k \in chip.expects..image - 1
        BY <1>3, <2>1, <2>3
      <3> QED
        BY <1>1, <3>1 DEF Delivery, Stale
    <2> QED
      BY <2>2, <2>3
  <1>8. Expecting'
    <2>1. chip.image \in Nat /\ chip.expects \in Nat
      BY UpdateFacts
    <2>2. mIgnoreNextFirmware' => chip.expects = 0
      BY <1>1, <1>2 DEF Delivery, Expecting
    <2> QED
      BY <1>1, <1>3, <1>4, <1>5, <2>1, <2>2 DEF Delivery, Expecting
  <1>9. Failures'
    BY <1>1, <1>3 DEF Delivery, Failures
  <1>10. Account' /\ InitSent' /\ DataSent'
    <2>1. CASE mIgnoreNextFirmware'
      <3>1. /\ package[image'].type = "FIRMWARE_DATA" /\ pc' = "parse"
        BY <1>2, <2>1
      <3>2. ~IsInit(image)'
        BY <1>1, <3>1 DEF IsInit
      <3> QED
        BY <1>3, <2>1, <3>1, <3>2 DEF Account, InitSent, DataSent
    <2>2. CASE ~mIgnoreNextFirmware'
      <3>1. pc' \in BeforeImage
        BY <1>2, <2>2 DEF BeforeImage
      <3> QED
        BY <1>1, <1>3, <3>1, BeforePackets
    <2> QED
      BY <2>1, <2>2
  <1>11. CreateTold'
    <2> SUFFICES ASSUME Told("CREATE")' PROVE CreateTold'
      BY DEF CreateTold
    <2>1. CASE /\ package[image'].type = "FIRMWARE_DATA"
               /\ UNCHANGED <<callVars, channelVars>>
      <3>1. Told("CREATE") /\ asked' = asked
        BY <2>1 DEF callVars, channelVars, Told, Heard, InChannel, Arrived, OnTheWay
      <3>2. ~IsInit(image)'
        BY <1>1, <2>1 DEF IsInit
      <3> QED
        BY <1>1, <1>4, <3>1, <3>2 DEF Delivery, CreateTold
    <2>2. CASE /\ package[image'].type = "FIRMWARE_DATA"
               /\ Ask(Plain("SELECT"))
      <3>1. /\ Plain("SELECT") \in AskedType /\ Plain("SELECT").command = "SELECT"
            /\ send(Plain("SELECT")) /\ asked' = Plain("SELECT") /\ answer' = Pending
        BY <2>2, PlainAsked DEF PlainCommand, Ask
      <3>2. \E r \in InChannel : r.command = "CREATE" /\ r.code = "SUCCESS"
        BY <3>1, ToldBySend DEF ChipCreates
      <3>3. Told("CREATE")
        BY <3>2 DEF Told, Heard
      <3>4. IsInit(image) /\ image # 0
        <4>1. IsData(image')
          BY <1>3, <2>2 DEF IsData
        <4>2. package \in Packages /\ image' \in Nat /\ image' - 1 = image
          BY <1>1, <1>3, UpdateFacts
        <4>3. image' > 1 /\ IsInit(image' - 1)
          BY <4>1, <4>2, ImagesTakeTurns
        <4> QED
          BY <1>1, <1>3, <4>2, <4>3
      <3>5. asked.command \in InImage
        BY <1>1, <3>4 DEF RefusalInv, Dialog, GoingOn
      <3>6. chip.type = "FIRMWARE_INIT"
        BY <1>1, <3>3, <3>4, <3>5 DEF Delivery, CreateTold
      <3> QED
        BY <1>4, <3>1, <3>6 DEF CreateTold
    <2>3. CASE Ask(Plain("PING"))
      <3>1. asked'.command = "PING"
        BY <2>3 DEF Ask, Plain
      <3> QED
        BY <3>1 DEF CreateTold, InImage
    <2> QED
      BY <1>2, <2>1, <2>2, <2>3
  <1> QED
    BY <1>6, <1>7, <1>8, <1>9, <1>10, <1>11 DEF Delivery

LEMMA WriteFirmwareDelivers ==
    ASSUME RefusalInv, Delivery, writeFirmware
    PROVE  Delivery'
  <1>1. /\ pc = "read"
        /\ UNCHANGED <<package, image, mCurrentState, mFirmwareOffset>>
        /\ UNCHANGED <<bufferVars, objectVars, unreported>>
    BY DEF writeFirmware
  <1>2. CASE /\ pc' = "parse" /\ UNCHANGED <<result, callVars, channelVars>>
             /\ streamed < TotalLen
    <2>1. ~Exhausted
      BY <1>2, UpdateFacts DEF Exhausted, FitInv, Kinds
    <2> QED
      BY <1>1, <1>2, <2>1, ChunkDelivers
  <1>3. CASE streamed = TotalLen /\ Stop("SUCCESS")
    <2> DEFINE n == Len(package)
    <2>1. /\ package \in Packages /\ image \in 0..n /\ n \in Nat
          /\ mHeaderOffset \in 0..HeaderLen - 1
          /\ UNCHANGED swallowed
      BY UpdateFacts DEF FitInv, Kinds, writeFirmware
    <2>2. ASSUME NEW k \in 1..image - 1, IsData(k) PROVE Good(k)
      BY <1>1, <2>2 DEF Delivery, Finished
    <2>3. CASE swallowed # 0
      <3>1. \A k \in 1..n : k >= image \/ k \in 1..image - 1
        BY <2>1
      <3>2. \A k \in 1..n : IsData(k) => Good(k) \/ (swallowed # 0 /\ k >= image)
        BY <2>2, <2>3, <3>1
      <3> QED
        BY <1>1, <1>3, <2>1, <3>2, StopDelivers DEF Stop, channelVars
    <2>4. CASE swallowed = 0
      <3>1. /\ streamed = TotalLen /\ streamed \in Nat
            /\ mCurrentState = "FIRMWARE" =>
                   /\ image # 0 /\ mFirmwareOffset < Size
                   /\ streamed = package[image].end - Size + mFirmwareOffset
            /\ mCurrentState # "FIRMWARE" =>
                   streamed = (IF image = 0 THEN 0 ELSE package[image].end)
                                  + mHeaderOffset
        <4>1. FitInv /\ mFirmwareOffset \in Nat /\ streamed \in Nat
          BY UpdateFacts DEF FitInv, Kinds
        <4>2. AtRest /\ Position
          BY <4>1 DEF FitInv
        <4>3. unread = 0 /\ (mCurrentState = "FIRMWARE" => mFirmwareOffset < Size)
          BY <1>1, <4>2 DEF AtRest
        <4>4. image # 0 => package[image].end \in Nat /\ Size \in Nat
          BY <2>1, UpdateFacts, ImageFacts DEF Size
        <4>5. streamed - unread = streamed
          BY <4>1, <4>3
        <4>6. ASSUME mCurrentState = "FIRMWARE"
              PROVE  /\ image # 0
                     /\ streamed = package[image].end - Size + mFirmwareOffset
          <5>1. /\ image # 0
                /\ streamed = package[image].end - Size + mFirmwareOffset + swallowed
            BY <4>2, <4>5, <4>6 DEF Position
          <5> QED
            BY <2>4, <4>1, <4>4, <5>1
        <4>7. ASSUME mCurrentState # "FIRMWARE"
              PROVE  streamed = (IF image = 0 THEN 0 ELSE package[image].end)
                                    + mHeaderOffset
          <5>1. streamed = (IF image = 0 THEN 0 ELSE package[image].end)
                               + mHeaderOffset + swallowed
            BY <4>2, <4>5, <4>7 DEF Position
          <5> QED
            BY <2>1, <2>4, <4>4, <5>1, Lengths
        <4> QED
          BY <1>3, <4>1, <4>3, <4>6, <4>7
      <3>2. /\ n >= 1 /\ TotalLen = package[n].end
            /\ \A i \in 1..n :
                   /\ package[i].size \in Nat /\ package[i].size > 0
                   /\ package[i].end \in Nat /\ package[i].end <= package[n].end
                   /\ package[i].end = HeaderLen + package[i].size
                                       + (IF i = 1 THEN 0 ELSE package[i - 1].end)
        BY <2>1, ImageFacts DEF TotalLen
      <3>3. \A i \in 1..n - 1 : package[i].end + HeaderLen < package[n].end
        <4> SUFFICES ASSUME NEW i \in 1..n - 1
                     PROVE  package[i].end + HeaderLen < package[n].end
          OBVIOUS
        <4>1. i \in 1..n /\ i + 1 \in 1..n /\ i + 1 # 1 /\ (i + 1) - 1 = i
          BY <2>1
        <4>2. package[i + 1].end = HeaderLen + package[i + 1].size + package[i].end
          BY <3>2, <4>1
        <4>3. /\ package[i].end \in Nat /\ package[i + 1].size \in Nat
              /\ package[i + 1].size > 0 /\ package[i + 1].end \in Nat
              /\ package[i + 1].end <= package[n].end /\ package[n].end \in Nat
          <5>1. n \in 1..n
            BY <2>1, <3>2
          <5> QED
            BY <3>2, <4>1, <5>1
        <4>4. HeaderLen \in Nat
          BY Lengths
        <4> DEFINE e == package[i].end
                   f == package[i + 1].end
                   s == package[i + 1].size
                   l == package[n].end
        <4>5. e \in Nat /\ s \in Nat /\ s > 0 /\ f \in Nat /\ l \in Nat
              /\ f <= l /\ f = HeaderLen + s + e
          BY <4>2, <4>3
        <4> HIDE DEF e, f, s, l
        <4>6. e + HeaderLen < l
          BY <4>4, <4>5
        <4> QED
          BY <4>6 DEF e, l
      <3>4. package[n].end > HeaderLen
        <4>1. n \in 1..n
          BY <2>1, <3>2
        <4>2. CASE n = 1
          BY <3>2, <4>1, <4>2, Lengths
        <4>3. CASE n # 1
          <5>0. n \in Nat /\ n >= 1
            BY <2>1, <3>2
          <5>1. \A m \in Nat : m >= 1 /\ m # 1 => m - 1 \in 1..m - 1 /\ m - 1 \in 1..m
            OBVIOUS
          <5>2. n - 1 \in 1..n - 1 /\ n - 1 \in 1..n
            BY <4>3, <5>0, <5>1
          <5> QED
            BY <3>2, <3>3, <5>2, Lengths
        <4> QED
          BY <4>2, <4>3
      <3>5. image # 0 => /\ image \in 1..n /\ Size \in Nat /\ mFirmwareOffset \in Nat
                         /\ package[image].end \in Nat
                         /\ package[image].end <= package[n].end
        BY <2>1, <3>2, UpdateFacts
      <3>6. mCurrentState # "FIRMWARE"
        BY <3>1, <3>2, <3>5
      <3>7. image # 0
        BY <2>1, <3>1, <3>2, <3>4, <3>6, Lengths
      <3>8. image = n
        <4> SUFFICES ASSUME image # n PROVE FALSE
          OBVIOUS
        <4>1. image \in 1..n - 1 /\ streamed = package[image].end + mHeaderOffset
          BY <2>1, <3>1, <3>5, <3>6, <3>7
        <4>2. package[image].end + HeaderLen < streamed
          BY <3>1, <3>2, <3>3, <4>1
        <4> QED
          BY <2>1, <3>5, <3>7, <4>1, <4>2, Lengths
      <3>9. IsData(image) => Good(image)
        BY <1>1, <3>6, <3>7, ImageClosed
      <3>10. \A k \in 1..n : k = image \/ k \in 1..image - 1
        BY <2>1, <3>8
      <3>11. \A k \in 1..n : IsData(k) => Good(k)
        BY <2>2, <3>9, <3>10
      <3> QED
        BY <1>1, <1>3, <2>1, <3>11, StopDelivers DEF Stop, channelVars
    <2> QED
      BY <2>3, <2>4
  <1> QED
    BY <1>2, <1>3 DEF writeFirmware

-----------------------------------------------------------------------------
(* The chip is asked whether it is there and what it takes.                *)

LEMMA OrderDfuDelivers ==
    ASSUME RefusalInv, Delivery, enterDfu \/ forceDfu
    PROVE  Delivery'
  <1>1. /\ pc \in {"init", "force"} /\ pc' \in {"entering", "forcing"}
        /\ UNCHANGED <<package, image, older, unreported, asked, answer>>
        /\ UNCHANGED <<mDfuPacketQueue, replies, mIgnoreNextFirmware, result>>
    BY DEF enterDfu, forceDfu, OrderDfu, parseVars, objectVars, callVars
  <1>2. image = 0
    BY <1>1 DEF RefusalInv, Dialog, AskedHere, BeforePackage
  <1>3. ChipKeeps
    <2>1. \/ UNCHANGED chip
          \/ chip' = [chip EXCEPT !.mode = "restarting"]
          \/ chip' = [chip EXCEPT !.mode = chip.mode]
      BY DEF enterDfu, forceDfu, OrderDfu, chipMayRestart
    <2>2. chip \in ChipType /\ chip.mode \in {"application", "restarting", "dfu", "silent"}
      BY UpdateFacts DEF ChipType
    <2> QED
      BY <2>1, <2>2, ChipStill
  <1> QED
    BY <1>1, <1>2, <1>3, NoImageDelivers

LEMMA WaitEnteredDfuDelivers ==
    ASSUME RefusalInv, Delivery, waitEnteredDfu
    PROVE  Delivery'
  <1>1. /\ pc \in {"entering", "forcing", "reentering"}
        /\ pc = "reentering" => pc' = "pingAgain"
        /\ pc' # "end"
        /\ Ask(Plain("PING"))
        /\ UNCHANGED <<parseVars, bufferVars, objectVars, result, unreported>>
    BY DEF waitEnteredDfu
  <1>2. /\ image \notin unreported /\ ~mIgnoreNextFirmware
        /\ image # 0 => Ledger
    BY <1>1, GoesOnFine
  <1>3. SentInImage(Plain("PING")) /\ Plain("PING").command = "PING"
    <2>1. Plain("PING") \in AskedType /\ Plain("PING").command = "PING"
      BY PlainAsked DEF PlainCommand
    <2> QED
      BY <1>1, <1>2, <2>1 DEF Ask, SentInImage, parseVars, objectVars
  <1>4. image # 0 => pc = "reentering"
    BY <1>1 DEF RefusalInv, Dialog, AskedHere, BeforePackage
  <1>5. image # 0 => Ledger' /\ mCurrentObjectOffset' = 0 /\ pc' \in BeforeImage
    <2> SUFFICES ASSUME image # 0
                 PROVE  Ledger' /\ mCurrentObjectOffset' = 0 /\ pc' \in BeforeImage
      OBVIOUS
    <2>1. pc \in BeforeImage /\ pc' \in BeforeImage /\ pc' = "pingAgain"
      BY <1>1, <1>4 DEF BeforeImage
    <2>2. mCurrentObjectOffset = 0
      BY <2>1, UpdateFacts DEF FitInv, AtRest
    <2>3. /\ UNCHANGED <<image, mCurrentObjectOffset, mRemainingFirmwareSize,
                         mIgnoreNextFirmware>>
          /\ Size' = Size
      BY <1>1 DEF parseVars, objectVars, Size
    <2>4. /\ mRemainingFirmwareSize' = 0 /\ mRemainingFirmwareSize' <= Size'
          /\ mCurrentObjectOffset' = 0 /\ ~mIgnoreNextFirmware'
      BY <1>2, <2>1, <2>2, <2>3 DEF Ledger
    <2>5. Ledger'
      BY <2>1, <2>4 DEF Ledger, BeforePackage
    <2> QED
      BY <2>1, <2>4, <2>5
  <1> QED
    BY <1>2, <1>3, <1>5, PlainSent

LEMMA InitUpdateDelivers ==
    ASSUME RefusalInv, Delivery, initUpdate
    PROVE  Delivery'
  <1>1. /\ pc \in {"ping", "pingForced"}
        /\ UNCHANGED <<parseVars, bufferVars, objectVars, unreported, channelVars>>
        /\ \/ pc' \in {"read", "force"} /\ UNCHANGED <<result, callVars>>
           \/ pc' = "end" /\ result' = "UNEXPECTED"
    BY DEF initUpdate, GoesOn, Stop
  <1> USE DEF parseVars, objectVars, channelVars, callVars
  <1>2. image = 0 /\ ChipKeeps
    BY <1>1 DEF RefusalInv, Dialog, AskedHere, BeforePackage, ChipKeeps
  <1>3. CASE pc' = "end" /\ result' = "UNEXPECTED"
    BY <1>1, <1>3, StopDelivers
  <1>4. CASE pc' \in {"read", "force"} /\ UNCHANGED <<result, callVars>>
    BY <1>1, <1>2, <1>4, NoImageDelivers
  <1> QED
    BY <1>1, <1>3, <1>4

LEMMA ManifestDelivers ==
    ASSUME RefusalInv, Delivery, ManifestAnswered
    PROVE  Delivery'
  <1>1. /\ pc \in BeforeImage
        /\ UNCHANGED <<parseVars, bufferVars, mCurrentObjectOffset>>
        /\ UNCHANGED <<mIgnoreNextFirmware, unreported>>
        /\ mRemainingFirmwareSize' = IF pc' = "parse" THEN Size ELSE 0
    BY DEF ManifestAnswered, GoesOn, BeforeImage
  <1>2. \/ /\ answer.code = "SUCCESS" /\ UNCHANGED result
           /\ \/ pc' = "mtu" /\ Ask(Plain("MTU"))
              \/ pc' = "prn" /\ Ask(Plain("PRN"))
              \/ pc = "prn" /\ pc' = "select" /\ Ask(Plain("SELECT"))
        \/ pc' \in {"parse", "reentering"} /\ UNCHANGED <<callVars, channelVars, result>>
        \/ pc' = "end" /\ result' = "WRITE" /\ UNCHANGED channelVars
    BY DEF ManifestAnswered, Stop, Succeeded
  <1>3. /\ image \notin unreported /\ ~mIgnoreNextFirmware
        /\ image # 0 => Fine /\ Ledger
        /\ result # "SUCCESS" /\ pc # "end"
    BY <1>1, GoesOnFine DEF BeforeImage
  <1>4. /\ image # 0 /\ mCurrentObjectOffset = 0
        /\ Size \in Nat /\ Size > 0
    <2>1. mCurrentState = "FIRMWARE" /\ mCurrentObjectOffset = 0
      BY <1>1, UpdateFacts DEF FitInv, AtRest
    <2> QED
      BY <2>1, ImageBegun, UpdateFacts
  <1>5. UNCHANGED <<package, image>> /\ Size' = Size
    BY <1>1 DEF parseVars, Size
  <1>6. pc' # "end" => Ledger'
    BY <1>3, <1>4, ManifestLedger
  <1>7. ASSUME NEW command \in {"MTU", "PRN", "SELECT"}, Ask(Plain(command)),
               UNCHANGED result, pc' \in {"mtu", "prn", "select"},
               command = "SELECT" => Only({"PRN"})
        PROVE  Delivery'
    <2>1. Plain(command) \in AskedType /\ Plain(command).command = command
      BY PlainAsked DEF PlainCommand
    <2>2. SentInImage(Plain(command))
      BY <1>1, <1>3, <1>5, <1>7, <2>1 DEF Ask, SentInImage
    <2>3. pc' \in BeforeImage /\ pc' # "end"
      BY <1>7 DEF BeforeImage
    <2>4. mCurrentObjectOffset' = 0
      BY <1>1, <1>4
    <2> QED
      BY <1>3, <1>6, <1>7, <2>1, <2>2, <2>3, <2>4, PlainSent
  <1>8. answer.code = "SUCCESS" /\ pc = "prn" => Only({"PRN"})
    <2> SUFFICES ASSUME answer.code = "SUCCESS", pc = "prn" PROVE Only({"PRN"})
      OBVIOUS
    <2>1. Accepted /\ asked.command = "PRN"
      BY PlaceFacts DEF RefusalInv, Dialog, AskedHere
    <2>2. Only(Answers)
      BY <1>3, <2>1 DEF RefusalInv, Dialog, Channel, Mixed
    <2> QED
      BY <2>1, <2>2 DEF Answers
  <1>9. CASE pc' = "end" /\ result' = "WRITE" /\ UNCHANGED channelVars
    BY <1>1, <1>3, <1>5, <1>9, StopDelivers DEF channelVars
  <1>10. CASE /\ pc' \in {"parse", "reentering"}
              /\ UNCHANGED <<callVars, channelVars, result>>
    <2> USE DEF callVars, channelVars
    <2>1. Finished' /\ Stale' /\ Expecting' /\ CreateTold'
      <3>1. ChipKeeps
        BY <1>10 DEF ChipKeeps
      <3> QED
        BY <1>1, <1>3, <1>5, <1>10, <3>1, UnsentHears, KeptUnsent
    <2>2. Failures'
      BY <1>1, <1>3, <1>5 DEF Delivery, Failures
    <2>3. Account' /\ InitSent' /\ DataSent'
      <3>1. CASE pc' = "reentering"
        <4>1. pc' \in BeforeImage /\ mCurrentObjectOffset' = 0
          BY <1>1, <1>4, <3>1 DEF BeforeImage
        <4> QED
          BY <1>6, <1>10, <4>1, BeforePackets
      <3>2. CASE pc' = "parse"
        <4>1. /\ mRemainingFirmwareSize' = Size' /\ mCurrentObjectOffset' = 0
              /\ Sent' = 0 /\ ~mIgnoreNextFirmware' /\ Size' > 0 /\ Size' \in Nat
          BY <1>1, <1>3, <1>4, <1>5, <3>2 DEF Sent
        <4> QED
          BY <1>6, <1>10, <3>2, <4>1 DEF Account, InitSent, DataSent
      <3> QED
        BY <1>10, <3>1, <3>2
    <2> QED
      BY <2>1, <2>2, <2>3 DEF Delivery
  <1> QED
    BY <1>2, <1>7, <1>8, <1>9, <1>10

-----------------------------------------------------------------------------
(* The packets of an image.                                                *)

LEMMA BufferFullDelivers ==
    ASSUME RefusalInv, Delivery, _bufferFull
    PROVE  Delivery'
  <1>1. /\ pc = "packet"
        /\ UNCHANGED <<parseVars, bufferVars, unreported>>
    BY DEF _bufferFull
  <1>2. /\ image \notin unreported /\ ~mIgnoreNextFirmware /\ Fine /\ Ledger
        /\ image # 0
    BY <1>1, GoesOnFine DEF Sending
  <1>3. PacketFrom \in Nat /\ PacketSize \in Nat /\ image \in Nat
    BY <1>1, <1>2, PacketLedger
  <1>4. /\ Going /\ Accepted
    BY <1>1 DEF RefusalInv, Dialog, GoingOn, Going
  <1>5. UNCHANGED <<package, image>>
    BY <1>1 DEF parseVars
  <1>6. CASE Stop("assert")
    BY <1>1, <1>5, <1>6, StopDelivers DEF Stop, channelVars
  <1>7. CASE /\ mCurrentObjectOffset = 0 /\ pc' = "create"
             /\ Ask([command |-> "CREATE", type |-> Type, image |-> image,
                     size |-> Least(mRemainingFirmwareSize, ObjectLen)])
             /\ UNCHANGED <<objectVars, result>>
    <2> DEFINE cmd == [command |-> "CREATE", type |-> Type, image |-> image,
                       size |-> Least(mRemainingFirmwareSize, ObjectLen)]
    <2>1. /\ cmd.command = "CREATE" /\ cmd.image = image /\ cmd.type = Type
          /\ cmd.size = Least(mRemainingFirmwareSize, ObjectLen)
      OBVIOUS
    <2>2. cmd \in AskedType
      <3>1. Least(mRemainingFirmwareSize, ObjectLen) \in Nat
        BY UpdateFacts, Lengths DEF Least
      <3>2. Type \in ImageType
        BY <1>2, UpdateFacts
      <3> QED
        BY <1>3, <3>1, <3>2 DEF AskedType
    <2> HIDE DEF cmd
    <2>3. Ask(cmd)
      BY <1>7 DEF cmd
    <2>4. SentInImage(cmd)
      BY <1>1, <1>2, <1>5, <1>7, <2>1, <2>2, <2>3 DEF Ask, SentInImage, objectVars
    <2>5. Without({"CREATE"}) \/ (asked.command = "SELECT" /\ IsData(image))
      <3>1. asked.command \in {"SELECT", "EXECUTE"}
        BY <1>4, <1>7 DEF Going
      <3>2. Only({asked.command}) \/ Mixed
        BY <1>1, <1>4, <3>1 DEF RefusalInv, Dialog, Channel, Answers
      <3> QED
        BY <3>1, <3>2 DEF Only, Without, Mixed
    <2> QED
      BY <1>1, <1>7, <2>1, <2>4, <2>5, CreateSent
  <1>8. CASE mCurrentObjectOffset # 0 /\ WritePacket
             /\ UNCHANGED <<mIgnoreNextFirmware, result>>
    <2> DEFINE cmd == Write(PacketFrom, PacketSize)
    <2>1. cmd \in AskedType /\ cmd.command = "WRITE" /\ cmd.image = image
      BY <1>3 DEF Write, AskedType
    <2>2. Ask(cmd) /\ pc' = "write"
      BY <1>8 DEF WritePacket
    <2> HIDE DEF cmd
    <2>3. SentInImage(cmd)
      BY <1>1, <1>2, <1>5, <1>8, <2>1, <2>2 DEF Ask, SentInImage
    <2> QED
      BY <1>1, <1>8, <2>3, WriteSent DEF cmd
  <1> QED
    BY <1>6, <1>7, <1>8 DEF _bufferFull

(* A packet that failed.                                                   *)
LEMMA FailedDelivers ==
    ASSUME RefusalInv, Delivery, pc \in {"create", "write", "execute"},
           PacketDone(FALSE), mIgnoreNextFirmware' => mIgnoreNextFirmware
    PROVE  Delivery'
  <1>1. /\ UNCHANGED <<parseVars, via>>
        /\ buffered' = IF via = "direct" THEN buffered ELSE 0
        /\ toPush' = toPush
        /\ \/ /\ via # "partial" /\ pc' = "pushed"
              /\ unreported' = unreported \cup {image}
              /\ UNCHANGED <<callVars, channelVars, result>>
           \/ /\ via = "partial" /\ Stop("WRITE") /\ unreported' = unreported
    BY DEF PacketDone
  <1>2. /\ image \notin unreported /\ image # 0 /\ result # "SUCCESS"
        /\ image \in 1..Len(package)
    <2>1. image \notin unreported /\ image # 0 /\ result # "SUCCESS"
      BY GoesOnFine DEF Sending
    <2> QED
      BY <2>1, UpdateFacts
  <1>3. UNCHANGED <<package, image>> /\ Size' = Size
    BY <1>1 DEF parseVars, Size
  <1>4. CASE via = "partial" /\ Stop("WRITE") /\ unreported' = unreported
    BY <1>3, <1>4, StopDelivers DEF Stop, channelVars
  <1>5. CASE /\ via # "partial" /\ pc' = "pushed"
             /\ unreported' = unreported \cup {image}
             /\ UNCHANGED <<callVars, channelVars, result>>
    <2> USE DEF callVars, channelVars
    <2>1. Finished' /\ Stale' /\ Expecting' /\ CreateTold'
      <3>1. ChipKeeps
        BY <1>5 DEF ChipKeeps
      <3> QED
        BY <1>2, <1>3, <1>5, <3>1, UnsentHears, KeptUnsent
    <2>2. Failures'
      <3>1. /\ via = "flush" => toPush # 0 \/ mFirmwareOffset = Size \/ Exhausted
            /\ via = "direct" => buffered = 0 /\ toPush >= PacketLen
            /\ via \in {"flush", "direct"}
        BY <1>5, UpdateFacts DEF FitInv, InPacket, Sending, Kinds
      <3>2. buffered' = 0
        BY <1>1, <3>1
      <3>3. toPush # 0 \/ mFirmwareOffset = Size \/ Exhausted
        BY <3>1, Lengths
      <3>4. mFirmwareOffset' = mFirmwareOffset /\ (Exhausted => Exhausted')
        BY <1>1 DEF parseVars, Exhausted, TotalLen
      <3>5. unreported' \subseteq 1..image'
        BY <1>2, <1>3, <1>5 DEF Delivery, Failures
      <3> QED
        BY <1>1, <1>3, <1>5, <3>2, <3>3, <3>4, <3>5 DEF Failures
    <2>3. Account' /\ InitSent' /\ DataSent'
      BY <1>3, <1>5 DEF Account, InitSent, DataSent, Fine
    <2> QED
      BY <2>1, <2>2, <2>3 DEF Delivery
  <1> QED
    BY <1>1, <1>4, <1>5

(* A packet that was taken.                                                *)
LEMMA TakenDelivers ==
    ASSUME RefusalInv, Delivery, pc \in {"write", "execute"}, PacketDone(TRUE),
           UNCHANGED <<mCurrentObjectOffset, mRemainingFirmwareSize>>,
           mIgnoreNextFirmware' => mRemainingFirmwareSize = 0 /\ chip.expects = 0,
           mRemainingFirmwareSize = 0 => mCurrentObjectOffset = 0,
           IsInit(image) =>
               /\ mRemainingFirmwareSize = 0 \/ Sent = mCurrentObjectOffset
               /\ mCurrentObjectOffset # 0 =>
                      /\ chip.type = "FIRMWARE_INIT" /\ chip.image = image
                      /\ chip.expects = 0
               /\ mRemainingFirmwareSize = 0 =>
                      mIgnoreNextFirmware' \/ chip.expects = image + 1,
           IsData(image) =>
               /\ mCurrentObjectOffset = 0 =>
                      /\ HasData /\ chip.executed = Sent
                      /\ mRemainingFirmwareSize = 0 => Good(image)
               /\ mCurrentObjectOffset # 0 =>
                      \/ chip.type = "FIRMWARE_INIT" /\ Sent = mCurrentObjectOffset
                      \/ /\ chip.type = "FIRMWARE_DATA"
                         /\ chip.object =
                                Least(mRemainingFirmwareSize + mCurrentObjectOffset, ObjectLen)
                         /\ HasData /\ chip.executed = Sent - mCurrentObjectOffset
    PROVE  Delivery'
  <1>1. /\ image \notin unreported /\ image # 0 /\ result # "SUCCESS" /\ Ledger
    BY GoesOnFine DEF Sending
  <1>2. /\ Ledger' /\ UNCHANGED <<package, image, callVars, channelVars>>
        /\ pc' \in {"parse", "push"}
    BY <1>1, PacketTakenLedger
  <1>3. UNCHANGED <<unreported, result>>
    BY DEF PacketDone
  <1> USE DEF callVars, channelVars
  <1>4. /\ (IsInit(image)' <=> IsInit(image)) /\ (IsData(image)' <=> IsData(image))
        /\ Size' = Size /\ Sent' = Sent
    BY <1>2, ImageStays DEF Sent
  <1>5. Finished' /\ Stale' /\ Expecting' /\ CreateTold'
    <2>1. ChipKeeps
      BY <1>2 DEF ChipKeeps
    <2> QED
      BY <1>1, <1>2, <1>3, <2>1, UnsentHears, KeptUnsent
  <1>6. Failures'
    BY <1>1, <1>2, <1>3 DEF Delivery, Failures
  <1>7. Account'
    BY <1>2, <1>4 DEF Account
  <1>8. InitSent'
    BY <1>2, <1>4 DEF InitSent
  <1>9. (Good(image) => Good(image)') /\ (HasData => HasData')
    BY <1>2, <1>3 DEF Good, Misled, HasData
  <1>10. DataSent'
    <2> SUFFICES ASSUME IsData(image) PROVE DataSent'
      BY <1>4 DEF DataSent
    <2>1. mCurrentObjectOffset = 0 =>
              /\ HasData' /\ chip'.executed = Sent'
              /\ mRemainingFirmwareSize' = 0 => Good(image)'
      BY <1>2, <1>4, <1>9
    <2>2. mCurrentObjectOffset # 0 =>
              \/ chip'.type = "FIRMWARE_INIT" /\ Sent' = mCurrentObjectOffset'
              \/ /\ chip'.type = "FIRMWARE_DATA"
                 /\ chip'.object =
                        Least(mRemainingFirmwareSize' + mCurrentObjectOffset', ObjectLen)
                 /\ HasData' /\ chip'.executed = Sent' - mCurrentObjectOffset'
      BY <1>2, <1>4, <1>9
    <2> QED
      BY <1>2, <2>1, <2>2 DEF DataSent
  <1> QED
    BY <1>5, <1>6, <1>7, <1>8, <1>10 DEF Delivery

LEMMA CreateAnsweredDelivers ==
    ASSUME RefusalInv, Delivery, CreateAnswered
    PROVE  Delivery'
  <1>1. pc = "create"
    BY DEF CreateAnswered, GoesOn
  <1>2. CASE ~Succeeded /\ PacketDone(FALSE) /\ UNCHANGED objectVars
    BY <1>1, <1>2, FailedDelivers DEF objectVars
  <1>3. CASE /\ Succeeded /\ WritePacket
             /\ UNCHANGED <<parseVars, bufferVars, mIgnoreNextFirmware, result, unreported>>
    <2> DEFINE cmd == Write(PacketFrom, PacketSize)
    <2>1. /\ image # 0 /\ Ledger /\ ~mIgnoreNextFirmware
      BY <1>1, GoesOnFine DEF Sending
    <2>2. cmd \in AskedType /\ cmd.command = "WRITE"
      <3>1. PacketFrom \in Nat /\ PacketSize \in Nat /\ image \in Nat
        BY <1>1, <2>1, PacketLedger
      <3> QED
        BY <3>1 DEF Write, AskedType
    <2>3. Ask(cmd) /\ pc' = "write"
      BY <1>3 DEF WritePacket
    <2> HIDE DEF cmd
    <2>4. SentInImage(cmd)
      BY <1>1, <1>3, <2>1, <2>2, <2>3 DEF Ask, SentInImage, parseVars
    <2> QED
      BY <1>1, <1>3, <2>4, WriteSent DEF cmd, Succeeded
  <1> QED
    BY <1>2, <1>3 DEF CreateAnswered

(* A packet whose bytes the chip has, all of those sent so far.            *)
LEMMA Acknowledged ==
    ASSUME RefusalInv, Delivery, pc = "write", answer.code = "SUCCESS",
           answer.offset = Sent
    PROVE  /\ Fine /\ Ledger /\ image # 0 /\ ~mIgnoreNextFirmware
           /\ asked.command = "WRITE" /\ ChipHasImage /\ ~Reported
           /\ mCurrentObjectOffset # 0 /\ ~TooFar /\ Sent \in Int
  <1>1. Fine /\ Ledger /\ image # 0 /\ ~mIgnoreNextFirmware
    BY GoesOnFine DEF Sending
  <1>2. /\ asked.command = "WRITE" /\ asked.image = image
        /\ mCurrentObjectOffset # 0 /\ Accepted
    BY PlaceFacts DEF RefusalInv, Dialog, AskedHere
  <1>3. ChipHasImage /\ Only({"CALCULATE_CHECKSUM", "WRITE"})
    BY <1>2 DEF RefusalInv, Dialog, BytesTaken, Channel, Answers, Mixed
  <1>4. ~Reported
    BY <1>3 DEF Reported, Only
  <1>5. Sent \in Int
    BY <1>1, UpdateFacts DEF Sent
  <1>6. ~TooFar
    <2> SUFFICES ASSUME TooFar PROVE FALSE
      OBVIOUS
    <2>1. answer \in Heard /\ answer.command = "CALCULATE_CHECKSUM"
      BY <1>2 DEF Heard, Accepted, responseCommand
    <2>2. answer.offset >= chip.executed + mCurrentObjectOffset
      BY <2>1 DEF TooFar
    <2>3. chip.executed # 0 /\ Sent = mCurrentObjectOffset
      BY DEF TooFar
    <2> QED
      BY <2>2, <2>3, UpdateFacts
  <1> QED
    BY <1>1, <1>2, <1>3, <1>4, <1>5, <1>6

LEMMA WriteAnsweredDelivers ==
    ASSUME RefusalInv, Delivery, WriteAnswered
    PROVE  Delivery'
  <1> DEFINE acknowledged == Succeeded /\ answer.offset = Size - mRemainingFirmwareSize
             complete == mCurrentObjectOffset = ObjectLen \/ mRemainingFirmwareSize = 0
  <1>1. /\ pc = "write"
        /\ \/ /\ acknowledged /\ complete
              /\ mCurrentObjectOffset' = 0 /\ pc' = "execute" /\ Ask(Plain("EXECUTE"))
              /\ UNCHANGED <<parseVars, bufferVars, mRemainingFirmwareSize,
                             mIgnoreNextFirmware, result, unreported>>
           \/ /\ acknowledged /\ ~complete /\ PacketDone(TRUE) /\ UNCHANGED objectVars
           \/ PacketDone(FALSE) /\ UNCHANGED objectVars
    BY DEF WriteAnswered, GoesOn, PacketDone
  <1>2. acknowledged => answer.code = "SUCCESS" /\ answer.offset = Sent
    BY DEF Succeeded, Sent
  <1> HIDE DEF acknowledged
  <1>3. CASE PacketDone(FALSE) /\ UNCHANGED objectVars
    BY <1>1, <1>3, FailedDelivers DEF objectVars
  <1>4. CASE acknowledged /\ ~complete /\ PacketDone(TRUE) /\ UNCHANGED objectVars
    <2>1. /\ Fine /\ ~mIgnoreNextFirmware /\ mCurrentObjectOffset # 0 /\ ~TooFar
          /\ mRemainingFirmwareSize # 0
      BY <1>1, <1>2, <1>4, Acknowledged
    <2>2. IsInit(image) =>
              /\ mRemainingFirmwareSize = 0 \/ Sent = mCurrentObjectOffset
              /\ chip.type = "FIRMWARE_INIT" /\ chip.image = image
              /\ chip.expects = 0
      BY <2>1 DEF Delivery, Account, InitSent
    <2>3. IsData(image) =>
              \/ chip.type = "FIRMWARE_INIT" /\ Sent = mCurrentObjectOffset
              \/ /\ chip.type = "FIRMWARE_DATA"
                 /\ chip.object =
                        Least(mRemainingFirmwareSize + mCurrentObjectOffset, ObjectLen)
                 /\ HasData /\ chip.executed = Sent - mCurrentObjectOffset
      BY <2>1 DEF Delivery, DataSent
    <2> QED
      BY <1>1, <1>4, <2>1, <2>2, <2>3, TakenDelivers DEF objectVars
  <1>5. CASE /\ acknowledged /\ complete
             /\ mCurrentObjectOffset' = 0 /\ pc' = "execute" /\ Ask(Plain("EXECUTE"))
             /\ UNCHANGED <<parseVars, bufferVars, mRemainingFirmwareSize,
                            mIgnoreNextFirmware, result, unreported>>
    <2>1. /\ Fine /\ Ledger /\ image # 0 /\ ~mIgnoreNextFirmware
          /\ asked.command = "WRITE" /\ ChipHasImage /\ ~Reported
          /\ mCurrentObjectOffset # 0 /\ ~TooFar /\ Sent \in Int
      BY <1>1, <1>2, <1>5, Acknowledged
    <2>2. /\ mRemainingFirmwareSize \in Nat /\ mCurrentObjectOffset \in Nat
          /\ mCurrentObjectOffset <= ObjectLen /\ ObjectLen \in Nat
          /\ Size \in Nat /\ Size = package[image].size
          /\ image \in 1..Len(package) /\ package \in Packages
          /\ chip.executed \in Nat /\ chip.object \in Nat
      <3>1. mCurrentObjectOffset <= ObjectLen
        BY UpdateFacts, Lengths DEF FitInv, Kinds
      <3> QED
        BY <2>1, <3>1, UpdateFacts, PlaceFacts, Lengths
    <2>3. Plain("EXECUTE") \in AskedType /\ Plain("EXECUTE").command = "EXECUTE"
      BY PlainAsked DEF PlainCommand
    <2>4. SentInImage(Plain("EXECUTE"))
      BY <1>1, <1>5, <2>1, <2>3 DEF Ask, SentInImage, parseVars
    <2>5. Ledger'
      BY <1>1, <1>5, <2>1, ExecuteLedger
    <2>6. IsInit(image) => InitReady
      <3> SUFFICES ASSUME IsInit(image) PROVE InitReady
        OBVIOUS
      <3>1. chip.type = "FIRMWARE_INIT" /\ chip.image = image /\ chip.expects = 0
        BY <2>1 DEF Delivery, InitSent
      <3>2. mRemainingFirmwareSize = 0
        <4>1. package[image].size <= ObjectLen
          BY <2>2, PairsAssumption DEF IsInit
        <4>2. mRemainingFirmwareSize = 0 \/ Sent = mCurrentObjectOffset
          BY <2>1 DEF Delivery, Account
        <4> QED
          BY <1>5, <2>2, <4>1, <4>2 DEF Sent
      <3> QED
        BY <2>1, <3>1, <3>2 DEF InitReady
    <2>7. IsData(image) => DataReady
      <3> SUFFICES ASSUME IsData(image) PROVE DataReady
        OBVIOUS
      <3>1. CASE chip.type = "FIRMWARE_INIT"
        BY <2>1, <3>1 DEF DataReady
      <3>2. CASE chip.type # "FIRMWARE_INIT"
        <4>1. /\ chip.object =
                     Least(mRemainingFirmwareSize + mCurrentObjectOffset, ObjectLen)
              /\ HasData /\ chip.executed = Sent - mCurrentObjectOffset
          BY <2>1, <3>2 DEF Delivery, DataSent
        <4>2. Least(mRemainingFirmwareSize + mCurrentObjectOffset, ObjectLen)
                  = mCurrentObjectOffset
          BY <1>5, <2>2 DEF Least
        <4>3. chip.executed + chip.object = Sent
          BY <2>1, <2>2, <4>1, <4>2
        <4> QED
          BY <2>1, <4>1, <4>3 DEF DataReady
      <3> QED
        BY <3>1, <3>2
    <2>8. pc' = "execute" /\ mCurrentObjectOffset' = 0 /\ UNCHANGED mRemainingFirmwareSize
      BY <1>5
    <2> HIDE DEF complete
    <2> QED
      BY <1>1, <2>1, <2>3, <2>4, <2>5, <2>6, <2>7, <2>8, ExecuteSent DEF InImage
  <1> QED
    BY <1>1, <1>3, <1>4, <1>5

LEMMA ExecuteDelivers ==
    ASSUME RefusalInv, Delivery, execute
    PROVE  Delivery'
  <1>1. /\ pc = "execute"
        /\ UNCHANGED <<mCurrentObjectOffset, mRemainingFirmwareSize>>
        /\ mIgnoreNextFirmware' =>
               mIgnoreNextFirmware \/ answer.code = "FW_VERSION_FAILURE"
        /\ answer.code = "FW_VERSION_FAILURE" => mIgnoreNextFirmware'
        /\ IF answer.code \in {"SUCCESS", "FW_VERSION_FAILURE"}
           THEN PacketDone(TRUE) ELSE PacketDone(FALSE)
    BY DEF execute, GoesOn, PacketDone
  <1>2. /\ Fine /\ Ledger /\ image # 0 /\ ~mIgnoreNextFirmware
        /\ mCurrentObjectOffset = 0 /\ asked.command = "EXECUTE"
    <2>1. mCurrentObjectOffset = 0
      BY <1>1, UpdateFacts DEF FitInv, InPacket, Sending
    <2>2. asked.command = "EXECUTE"
      BY <1>1 DEF RefusalInv, Dialog, AskedHere
    <2> QED
      BY <1>1, <2>1, <2>2, GoesOnFine DEF Sending
  <1>3. CASE answer.code \notin {"SUCCESS", "FW_VERSION_FAILURE"}
    BY <1>1, <1>3, FailedDelivers
  <1>4. CASE answer.code = "SUCCESS"
    <2>1. Told("EXECUTE")
      <3>1. answer.command = "EXECUTE"
        BY <1>2, <1>4, PlaceFacts DEF Accepted, responseCommand
      <3> QED
        BY <1>4, <3>1 DEF Told, Heard
    <2>2. IsInit(image) => mRemainingFirmwareSize = 0 /\ chip.expects = image + 1
      BY <1>1, <1>2, <2>1 DEF Delivery, Account, InitSent
    <2>3. IsData(image) =>
              /\ HasData /\ chip.executed = Sent
              /\ mRemainingFirmwareSize = 0 => Good(image)
      BY <1>1, <1>2, <2>1 DEF Delivery, DataSent
    <2>4. PacketDone(TRUE) /\ ~mIgnoreNextFirmware'
      BY <1>1, <1>2, <1>4
    <2> QED
      BY <1>1, <1>2, <2>2, <2>3, <2>4, TakenDelivers
  <1>5. CASE answer.code = "FW_VERSION_FAILURE"
    <2>1. image \in older
      <3>1. answer.command = "EXECUTE"
        BY <1>2, <1>5, PlaceFacts DEF Accepted, responseCommand
      <3> QED
        BY <1>1, <1>5, <3>1 DEF RefusalInv, Dialog, Refusals
    <2>2. IsInit(image) /\ ~IsData(image)
      BY <2>1 DEF RefusalInv, ChannelTypeOK, IsInit, IsData
    <2>3. mRemainingFirmwareSize = 0 /\ chip.expects = 0
      BY <1>1, <1>2, <2>1, <2>2 DEF Delivery, Account, InitSent
    <2>4. PacketDone(TRUE) /\ mIgnoreNextFirmware'
      BY <1>1, <1>5
    <2> QED
      BY <1>1, <1>2, <2>2, <2>3, <2>4, TakenDelivers
  <1> QED
    BY <1>3, <1>4, <1>5

-----------------------------------------------------------------------------

LEMMA DeliveryStart == Init => DeliveryInv
  <1> SUFFICES ASSUME Init PROVE DeliveryInv
    OBVIOUS
  <1>1. RefusalInv
    BY RefusalStart
  <1>2. /\ image = 0 /\ unreported = {} /\ pc = "init" /\ result = "none"
        /\ asked.command = "NONE" /\ answer = Unanswered
        /\ mIgnoreNextFirmware = FALSE
        /\ chip.type = "FIRMWARE_INIT" /\ chip.image = 0 /\ chip.executed = 0
        /\ chip.offset = 0 /\ chip.expects = 0
        /\ mDfuPacketQueue = << >> /\ replies = << >>
    BY DEF Init, Plain
  <1>3. Failures /\ Account /\ InitSent /\ DataSent
    BY <1>2 DEF Failures, Account, InitSent, DataSent, Fine
  <1>4. Finished /\ Stale /\ Expecting
    BY <1>2 DEF Finished, Stale, Expecting
  <1>5. CreateTold
    BY <1>2 DEF CreateTold, InImage
  <1> QED
    BY <1>1, <1>3, <1>4, <1>5 DEF DeliveryInv, Delivery

LEMMA DeliveryStep ==
    ASSUME DeliveryInv, [Next]_vars
    PROVE  DeliveryInv'
  <1>1. RefusalInv /\ RefusalInv' /\ Delivery
    BY RefusalStep DEF DeliveryInv
  <1>2. CASE receive \/ receiveTimesOut
    <2>1. /\ answer = Pending
          /\ UNCHANGED <<fitVars, asked, unreported>>
          /\ Retries \/ GivesUp \/ Accepts
      BY <1>1, <1>2, WaitEnds DEF RefusalInv
    <2> QED
      BY <1>1, <2>1, RetryDelivers, AnswerDelivers DEF DeliveryInv
  <1>3. CASE notification \/ ChipEntersDfu \/ ChipFallsSilent
    BY <1>1, <1>3, ChipTaskDelivers DEF DeliveryInv
  <1>4. CASE enterDfu \/ forceDfu \/ waitEnteredDfu \/ initUpdate
    BY <1>1, <1>4, OrderDfuDelivers, WaitEnteredDfuDelivers, InitUpdateDelivers
       DEF DeliveryInv
  <1>5. CASE writeFirmware
    BY <1>1, <1>5, WriteFirmwareDelivers DEF DeliveryInv
  <1>6. CASE EndChunk \/ NextHeader \/ SplitHeader
    <2>1. Exhausted => Exhausted'
      BY <1>6 DEF EndChunk, NextHeader, SplitHeader, InHeader, Exhausted,
         TotalLen, parseVars
    <2>2. Delivery'
      BY <1>1, <1>6, <2>1, ChunkDelivers
         DEF EndChunk, NextHeader, SplitHeader, InHeader, parseVars
    <2> QED
      BY <1>1, <2>2 DEF DeliveryInv
  <1>11. CASE SpoiltHeader
    <2>1. /\ pc = "parse" /\ UNCHANGED <<parseVars, bufferVars, objectVars, unreported>>
          /\ \E outcome \in {"WRITE", "undefined"} : Stop(outcome)
      BY <1>11 DEF SpoiltHeader, InHeader
    <2>2. result' # "SUCCESS" /\ pc' = "end" /\ UNCHANGED channelVars
      BY <2>1 DEF Stop
    <2>3. Delivery'
      BY <1>1, <2>1, <2>2, StopDelivers
         DEF channelVars, parseVars, objectVars
    <2> QED
      BY <1>1, <2>3 DEF DeliveryInv
  <1>7. CASE ReadHeader \/ ManifestAnswered
    BY <1>1, <1>7, ReadHeaderDelivers, ManifestDelivers DEF DeliveryInv
  <1>8. CASE onFirmware \/ pushBack \/ FirmwareTaken
    BY <1>1, <1>8, OnFirmwareDelivers, PushBackDelivers, FirmwareTakenDelivers
       DEF DeliveryInv
  <1>9. CASE _bufferFull \/ CreateAnswered \/ WriteAnswered \/ execute
    BY <1>1, <1>9, BufferFullDelivers, CreateAnsweredDelivers,
       WriteAnsweredDelivers, ExecuteDelivers DEF DeliveryInv
  <1>10. CASE UNCHANGED vars
    <2>1. /\ UNCHANGED <<fitVars, asked, unreported, older>>
          /\ UNCHANGED <<answer, mDfuPacketQueue, replies>> /\ ChipKeeps
      BY <1>10 DEF vars, updateVars, callVars, channelVars, fitVars, ChipKeeps
    <2> QED
      BY <1>1, <2>1, UnsentHears, StillDelivers DEF DeliveryInv
  <1> QED
    BY <1>2, <1>3, <1>4, <1>5, <1>6, <1>7, <1>8, <1>9, <1>10, <1>11
       DEF Next, UpdateTask

(* An update of the chip that is reported as done has put every DATA image  *)
(* in place, but behind an INIT image the chip refused, but for packets     *)
(* whose failure the end of their image overwrites, and but for the images  *)
(* from the one on whose header lay in two chunks and took bytes of it: for *)
(* every package of pairs and every length, however many commands and       *)
(* replies are lost or late, and whichever reply is taken for another's     *)
(* (NRFFirmwareUpdate.cpp:363-461, NRFFirmwarePackage.cpp:38-75).           *)
THEOREM InstalledUnlessUnreportedCorrect == Spec => []InstalledUnlessUnreported
  <1>1. DeliveryInv => InstalledUnlessUnreported
    <2> SUFFICES ASSUME DeliveryInv, result = "SUCCESS", NEW i \in DataImages
                 PROVE  \/ i \in chip.installed \/ (i - 1) \in older
                        \/ i \in unreported \/ {i - 1, i - 2} \subseteq unreported
                        \/ swallowed # 0 /\ i >= image
      BY DEF InstalledUnlessUnreported
    <2>1. package \in Packages
      BY UpdateFacts DEF DeliveryInv
    <2>2. i \in 1..Len(package) /\ IsData(i)
      BY <2>1, ImagesTakeTurns DEF DataImages, IsData
    <2>3. Good(i) \/ (swallowed # 0 /\ i >= image)
      BY <2>2 DEF DeliveryInv, Delivery, Finished
    <2> QED
      BY <2>3 DEF Good, Misled
  <1> QED
    BY <1>1, DeliveryStart, DeliveryStep, PTL DEF Spec

=============================================================================
