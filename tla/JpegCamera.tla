------------------------------ MODULE JpegCamera ------------------------------
(***************************************************************************)
(* The JPEG encoder of the camera (ExynosJpegEncoderForCamera): a picture  *)
(* is compressed with a thumbnail embedded in its Exif segment.            *)
(*                                                                         *)
(* Two sessions do the work.  "main" compresses the picture, and with      *)
(* back-to-back compression also a thumbnail image the client has given.   *)
(* "thumb" compresses the thumbnail otherwise: on a thread of its own,     *)
(* which first scales the picture down, when no thumbnail image was given; *)
(* on the client's thread when one was given but there is no back-to-back  *)
(* compression, and when a thumbnail turned out too large.                 *)
(*                                                                         *)
(* A client takes shots: it sets up the encoder, gives the buffers, has    *)
(* the picture encoded, and waits for it if the hardware is fed by the     *)
(* camera (HWFC), when encode() does not block.  Of a stream only the      *)
(* length of the thumbnail matters, in a coarse unit.                      *)
(***************************************************************************)
EXTENDS JpegCompressor, FiniteSets

CONSTANTS
  Shots,          \* what the client may ask for, see ShotFields
  MaxThreads,     \* bound: threads alive at a time
  MaxThumb,       \* GetMaxThumbnailSize(): what the Exif segment leaves
  Lengths,        \* the lengths a compressed thumbnail may have
  Quality,        \* m_nThumbQuality
  GivenFirst,     \* the client gives the thumbnail image before the main one
  MaySwitch,      \* it may give an image after thumbnails that were made of
                  \* the picture, or no more of them after it gave one
  MayStrand       \* the main image may fail while the thread runs

ASSUME ShotFields ==
  \A s \in Shots :
     /\ DOMAIN s = {"pix", "memory", "memory2", "out", "thumb", "given",
                    "hwfc", "quality", "room"}
     /\ s.pix \in DOMAIN Planes
     /\ {s.memory, s.memory2, s.out} \subseteq Memory
     /\ s.thumb \in 0 .. 2 /\ {s.given, s.hwfc} \subseteq BOOLEAN
     /\ s.room \in Nat
     /\ s.given => s.thumb # 0
ASSUME ThumbConstants ==
  /\ MaxThreads \in Nat \ {0} /\ MaxThumb \in Nat \ {0}
  /\ Lengths \subseteq Nat \ {0} /\ Quality \in 20 .. 100
  /\ {GivenFirst, MaySwitch, MayStrand} \subseteq BOOLEAN

(* A thumbnail of a picture in two buffers is in one.                      *)
GetThumbnailFormat(pix) ==
  CASE pix = "NV12M" -> "NV12"
    [] pix = "NV21M" -> "NV21"
    [] OTHER -> pix

ASSUME ThumbnailFormats ==
  \A f \in DOMAIN Planes : /\ GetThumbnailFormat(f) \in DOMAIN Planes
                           /\ Planes[GetThumbnailFormat(f)] = 1

Session == {"main", "thumb"}
Threads == 1 .. MaxThreads
Client == 0

(* The size of the main image; those of thumbnails are smaller.            *)
MainSize == 3

VARIABLES
  at,              \* where the client stands
  shot,            \* the shot it takes, or None
  btb,             \* IsBTBCompressionSupported(), for the life of the encoder
  enc,             \* the settings of the encoder
  images,          \* m_pThumbnailImageBuffer, m_fdThumbnailImageBuffer
  hw,              \* [Session -> the compression session]
  buffers,         \* the ION buffers: their sizes, and what the stream holds
  call,            \* [Client and Threads -> CompressThumbnailOnly, or None]
  thread,          \* [Threads -> where a thread stands, or None]
  m_threadWorker,
  thumblen,        \* the length of the thumbnail's stream
  result,          \* of the last shot: "okay", "failed" or None
  excused          \* in this shot a request failed, a buffer that an earlier
                   \* failure left in the driver was in the way, no quality
                   \* would do, or the encoder says it cannot do it

encoderVars == <<btb, enc, images, hw, buffers>>
threadVars == <<call, thread, m_threadWorker>>
shotVars == <<at, shot, thumblen, result, excused>>
vars == <<encoderVars, threadVars, shotVars>>

IsThumbGenerationNeeded == ~enc.noCreate

LeastOf(a, b) == IF a < b THEN a ELSE b

Qualities == {s.quality : s \in Shots}

Encoders ==
  [pix : DOMAIN Planes \cup {None}, thumb : 0 .. 2,
   quality : Qualities \cup {0}, changed : BOOLEAN, noCreate : BOOLEAN,
   hwfc : BOOLEAN, inType : Memory, outType : Memory,
   thumbType : Memory \cup {None}]

Images == [memory : Memory \cup {None}, holds : [1 .. 2 -> Contents]]

Buffers == [image : 0 .. 2, stream : 0 .. 2, holds : {"thumb", "stale"}]

Calls ==
  [at : {"setup", "compress", "dequeue"}, limit : 0 .. MaxThumb,
   quality : 20 .. 100, pix : DOMAIN Planes, memory : Memory]

ThreadStates ==
  [at : {"scale", "compress", "ended"},
   len : {n \in Lengths : n <= MaxThumb} \cup {0}]

ASSUME NoneIsNoValue ==
  None \notin Calls \cup ThreadStates \cup Shots \cup {"okay", "failed"}

TypeOK ==
  /\ at \in {"idle", "first", "second", "encode", "prepare", "compress",
             "returned", "wait", "finish", "thumb", "check", "again",
             "retried"}
  /\ shot \in Shots \cup {None}
  /\ btb \in BOOLEAN
  /\ enc \in Encoders
  /\ images \in Images
  /\ hw \in [Session -> Compressors]
  /\ buffers \in Buffers
  /\ call \in [{Client} \cup Threads -> Calls \cup {None}]
  /\ thread \in [Threads -> ThreadStates \cup {None}]
  /\ m_threadWorker \in 0 .. MaxThreads
  /\ thumblen \in Lengths \cup {0}
  /\ result \in {"okay", "failed", None}
  /\ excused \in BOOLEAN

(* After the constructor, and setThumbnailQuality.                         *)
Init ==
  /\ at = "idle" /\ shot = None /\ btb \in BOOLEAN
  /\ enc = [pix |-> None, thumb |-> 0, quality |-> 0, changed |-> TRUE,
            noCreate |-> FALSE, hwfc |-> FALSE, inType |-> "USERPTR",
            outType |-> "USERPTR", thumbType |-> None]
  /\ images = [memory |-> None, holds |-> [i \in 1 .. 2 |-> "stale"]]
  /\ hw = [s \in Session |->
             NewCompressor(IF s = "main" THEN {"QFACTOR2"} ELSE {"CHROMFACTOR"})]
  /\ buffers = [image |-> 0, stream |-> 0, holds |-> "stale"]
  /\ call = [w \in {Client} \cup Threads |-> None]
  /\ thread = [w \in Threads |-> None]
  /\ m_threadWorker = 0
  /\ thumblen = 0 /\ result = None /\ excused = FALSE

-----------------------------------------------------------------------------
(* The settings.                                                           *)

setThumbnailSize(e, size) ==
  IF e.thumb = size THEN e
  ELSE [e EXCEPT !.thumb = size, !.changed = @ \/ btb]

setColorFormat(e, pix) ==
  IF e.pix = pix THEN e ELSE [e EXCEPT !.pix = pix, !.changed = TRUE]

(* The secondary image is configured only when the client gives it and the *)
(* hardware compresses it back-to-back.                                    *)
FormatOf(e) ==
  [pix |-> e.pix, size |-> MainSize,
   thumb |-> IF ~e.noCreate \/ ~btb THEN 0 ELSE e.thumb]

(* EnsureFormatIsApplied.                                                  *)
Ensured(e, c) ==
  [enc |-> [e EXCEPT !.changed = FALSE],
   main |-> IF e.changed THEN Tried(c, FormatOf(e)) ELSE c]

(* Whatever is in a buffer belongs to an earlier shot from now on.         *)
Aged(c) == [c EXCEPT !.src = [p \in SrcPlane |-> "stale"]]

(* Only with back-to-back compression a thumbnail image in another kind of *)
(* buffer than the main image is told from one in the same kind.  A buffer *)
(* of the picture that the driver kept makes the main image fail.          *)
MayAsk(s) ==
  /\ s.thumb # 0 /\ ~s.given =>
       /\ IsThumbGenerationNeeded \/ MaySwitch
       /\ hw["main"].driver.kept = None \/ MayStrand
  /\ s.given /\ IsThumbGenerationNeeded => enc.thumb = 0 \/ MaySwitch
  /\ s.given => s.memory2 = s.memory \/ btb

(* The client sets everything but the buffers.                             *)
Ask(s) ==
  /\ at = "idle" /\ MayAsk(s)
  /\ at' = IF s.given THEN "first" ELSE "second"
  /\ shot' = s
  /\ LET sized == IF s.thumb = 0 THEN enc ELSE setThumbnailSize(enc, s.thumb)
     IN enc' = [setColorFormat(sized, s.pix) EXCEPT
                  !.hwfc = s.hwfc, !.quality = s.quality]
  /\ hw' = [t \in Session |->
              IF t = "main" /\ enc.quality # s.quality
              THEN Aged(SetQuality(hw[t], "QFACTOR")) ELSE Aged(hw[t])]
  /\ images' = [images EXCEPT !.holds = [i \in 1 .. 2 |-> "stale"]]
  /\ buffers' = [buffers EXCEPT !.holds = "stale"]
  /\ result' = None /\ excused' = FALSE /\ thumblen' = 0
  /\ UNCHANGED <<btb, threadVars>>

GivesThumb == shot.given /\ at = IF GivenFirst THEN "first" ELSE "second"
GivesMain == at = IF GivenFirst \/ ~shot.given THEN "second" ELSE "first"

(* The client has given a buffer, and goes on to the other or to encode(). *)
Given == at' = IF at = "first" THEN "second" ELSE "encode"

ShotEnds(how) ==
  /\ at' = "idle" /\ result' = how

setInBuf ==
  /\ at \in {"first", "second"} /\ GivesMain
  /\ LET applied == Ensured(enc, hw["main"])
         planes == [i \in 1 .. 2 |-> "main"]
     IN /\ enc' = [applied.enc EXCEPT !.inType = shot.memory]
        /\ hw' = [hw EXCEPT !["main"] =
                    SetImageBuffer(applied.main, planes, shot.memory)]
  /\ Given
  /\ UNCHANGED <<btb, images, buffers, threadVars, shot, thumblen, result,
                 excused>>

(* setInBuf2.  There may be no way back from noCreate, see encode().       *)
setInBuf2 ==
  /\ at \in {"first", "second"} /\ GivesThumb
  /\ LET wanted == [enc EXCEPT !.noCreate = TRUE]
         applied == Ensured(wanted, hw["main"])
         planes == [i \in 1 .. 2 |-> "given"]
     IN /\ enc' = [applied.enc EXCEPT !.thumbType = shot.memory2]
        /\ images' = [memory |-> shot.memory2, holds |-> planes]
        /\ hw' = [hw EXCEPT !["main"] =
                    IF btb THEN SetImageBuffer2(applied.main, planes)
                    ELSE applied.main]
  /\ Given
  /\ UNCHANGED <<btb, buffers, threadVars, shot, thumblen, result, excused>>

-----------------------------------------------------------------------------
(* encode().                                                               *)

(* Buffers of different kinds cannot be compressed back-to-back.           *)
KindsDiffer ==
  /\ shot.thumb # 0 /\ ~IsThumbGenerationNeeded /\ btb
  /\ enc.thumbType # enc.inType

(* Without a thumbnail image after all, the encoder makes one.             *)
Settled(e) ==
  CASE shot.thumb = 0 -> setThumbnailSize(e, 0)
    [] shot.thumb # 0 /\ e.noCreate /\ e.thumbType = None ->
         [e EXCEPT !.noCreate = FALSE, !.changed = TRUE]
    [] OTHER -> e

WithOut(c) == SetJpegBuffer(c, shot.out)

Encode ==
  /\ at = "encode" /\ ~KindsDiffer
  /\ LET applied == Ensured(Settled([enc EXCEPT !.outType = shot.out]),
                            WithOut(hw["main"]))
     IN enc' = applied.enc /\ hw' = [hw EXCEPT !["main"] = applied.main]
  /\ at' = "prepare"
  /\ UNCHANGED <<btb, images, buffers, threadVars, shot, thumblen, result,
                 excused>>

EncodeRefuses ==
  /\ at = "encode" /\ KindsDiffer
  /\ enc' = [enc EXCEPT !.outType = shot.out]
  /\ hw' = [hw EXCEPT !["main"] = WithOut(@)]
  /\ ShotEnds("failed") /\ excused' = TRUE
  /\ UNCHANGED <<btb, images, buffers, threadVars, shot, thumblen>>

(* A mutant: a buffer is used again whatever its size.                     *)
StreamBufferAny(b) ==
  IF b.stream > 0 THEN b
  ELSE [b EXCEPT !.stream = enc.thumb, !.holds = "stale"]

(* AllocThumbJpegBuffer.                                                   *)
StreamBuffer(b) ==
  IF b.stream >= enc.thumb THEN b
  ELSE [b EXCEPT !.stream = enc.thumb, !.holds = "stale"]

NoStreamBuffer(b) == [b EXCEPT !.stream = 0, !.holds = "stale"]

(* PrepareCompression.                                                     *)
SecondStream == IF btb THEN [hw EXCEPT !["main"] = SetJpegBuffer2(@)] ELSE hw

NothingToPrepare ==
  /\ at = "prepare" /\ shot.thumb = 0
  /\ at' = "compress"
  /\ UNCHANGED <<encoderVars, threadVars, shot, thumblen, result, excused>>

StartThread(w) ==
  /\ at = "prepare" /\ shot.thumb # 0 /\ IsThumbGenerationNeeded
  /\ thread[w] = None
  /\ at' = "compress"
  /\ thread' = [thread EXCEPT ![w] = [at |-> "scale", len |-> 0]]
  /\ m_threadWorker' = w
  /\ hw' = SecondStream
  /\ UNCHANGED <<btb, enc, images, buffers, call, shot, thumblen, result,
                 excused>>

PrepareStream ==
  /\ at = "prepare" /\ shot.thumb # 0 /\ ~IsThumbGenerationNeeded
  /\ at' = "compress"
  /\ buffers' = StreamBuffer(buffers)
  /\ hw' = SecondStream
  /\ UNCHANGED <<btb, enc, images, threadVars, shot, thumblen, result, excused>>

PrepareFails ==
  /\ at = "prepare" /\ shot.thumb # 0
  /\ IF IsThumbGenerationNeeded
     THEN "thread" \in Faults /\ UNCHANGED buffers
     ELSE /\ "stream buffer" \in Faults /\ buffers.stream < enc.thumb
          /\ buffers' = NoStreamBuffer(buffers)
  /\ ShotEnds("failed") /\ excused' = TRUE
  /\ UNCHANGED <<btb, enc, images, hw, threadVars, shot, thumblen>>

-----------------------------------------------------------------------------
(* The main image.                                                         *)

Running == {w \in Threads : thread[w] # None /\ thread[w].at # "ended"}

CompressMain ==
  /\ at = "compress"
  /\ Compresses(hw["main"], TRUE)
  /\ hw' = [hw EXCEPT !["main"] = Compressed(@, enc.hwfc)]
  /\ at' = IF enc.hwfc THEN "returned" ELSE "wait"
  /\ UNCHANGED <<btb, enc, images, buffers, threadVars, shot, thumblen, result,
                 excused>>

CompressMainFails ==
  /\ at = "compress"
  /\ \A w \in Threads : thread[w] # None => MayStrand
  /\ \E f \in CompressFailures(hw["main"], enc.hwfc, TRUE) :
        /\ hw' = [hw EXCEPT !["main"] = f[1]]
        /\ excused' = (excused \/ f[2])
  /\ ShotEnds("failed")
  /\ UNCHANGED <<btb, enc, images, buffers, threadVars, shot, thumblen>>

(* encode() has returned without a stream; the client waits for it.        *)
WaitForCompression ==
  /\ at = "returned"
  /\ at' = "wait"
  /\ UNCHANGED <<encoderVars, threadVars, shot, thumblen, result, excused>>

(* What a compression of these planes yields for the shot.                 *)
ThumbFrom(planes) ==
  IF \A p \in DOMAIN planes : planes[p] \in {"given", "scaled"} THEN "thumb"
  ELSE "stale"

(* DQBuf: the hardware is done, with the thumbnail if it had one.          *)
MainDone ==
  /\ at = "wait"
  /\ at' = "finish"
  /\ hw' = [hw EXCEPT !["main"] = Dequeued(@)]
  /\ LET c == hw["main"]
         n == Planes[c.driver.format["src"].pix]
     IN IF IsB2BCompression(c)
        THEN /\ thumblen' \in Lengths
             /\ buffers' = [buffers EXCEPT !.holds =
                              ThumbFrom([p \in 1 .. n |-> c.src[n + p]])]
        ELSE UNCHANGED <<thumblen, buffers>>
  /\ UNCHANGED <<btb, enc, images, threadVars, shot, result, excused>>

MainFails ==
  /\ at = "wait" /\ "DQBUF" \in Faults
  /\ \A w \in Threads : thread[w] # None => MayStrand
  /\ \E c \in DequeueFailures(hw["main"]) : hw' = [hw EXCEPT !["main"] = c]
  /\ ShotEnds("failed") /\ excused' = TRUE
  /\ UNCHANGED <<btb, enc, images, buffers, threadVars, shot, thumblen>>

-----------------------------------------------------------------------------
(* CompressThumbnailOnly, by the client or by a thread.                    *)

(* A mutant: quality and limit are passed in the other order.              *)
NewCallSwapped(limit, quality, pix, memory) ==
  [at |-> "setup", limit |-> quality, quality |-> limit, pix |-> pix,
   memory |-> memory]

NewCall(limit, quality, pix, memory) ==
  [at |-> "setup", limit |-> limit, quality |-> quality, pix |-> pix,
   memory |-> memory]

Returns(w, len) ==
  /\ call' = [call EXCEPT ![w] = None]
  /\ IF w = Client
     THEN /\ thumblen' = len /\ UNCHANGED thread
          /\ at' = IF at = "again" THEN "retried" ELSE "check"
     ELSE /\ thread' = [thread EXCEPT ![w] = [at |-> "ended", len |-> len]]
          /\ UNCHANGED <<at, thumblen>>

ThumbFormat(w) == [pix |-> call[w].pix, size |-> enc.thumb, thumb |-> 0]

(* The buffers are read as addresses or as descriptors, whichever was last *)
(* stored in them.                                                         *)
ReadImages(memory) ==
  IF images.memory = memory THEN images.holds
  ELSE [i \in 1 .. 2 |-> "stale"]

SetUp(w) ==
  /\ call[w] # None /\ call[w].at = "setup"
  /\ hw' = [hw EXCEPT !["thumb"] =
       SetQuality(
         SetJpegBuffer(
           SetImageBuffer(Tried(@, ThumbFormat(w)), ReadImages(call[w].memory),
                          call[w].memory),
           "DMABUF"),
         "QFACTOR")]
  /\ call' = [call EXCEPT ![w].at = "compress"]
  /\ UNCHANGED <<btb, enc, images, buffers, thread, m_threadWorker, shotVars>>

HasStream == buffers.stream > 0

CompressThumb(w) ==
  /\ call[w] # None /\ call[w].at = "compress"
  /\ Compresses(hw["thumb"], HasStream)
  /\ hw' = [hw EXCEPT !["thumb"] = Compressed(@, FALSE)]
  /\ call' = [call EXCEPT ![w].at = "dequeue"]
  /\ UNCHANGED <<btb, enc, images, buffers, thread, m_threadWorker, shotVars>>

CompressThumbFails(w) ==
  /\ call[w] # None /\ call[w].at = "compress"
  /\ \E f \in CompressFailures(hw["thumb"], FALSE, HasStream) :
        /\ hw' = [hw EXCEPT !["thumb"] = f[1]]
        /\ excused' = (excused \/ f[2])
  /\ Returns(w, 0)
  /\ UNCHANGED <<btb, enc, images, buffers, m_threadWorker, shot, result>>

(* A mutant: it is tried again with the quality that was too much.         *)
NextQualityKept(quality) == LeastOf(50, quality)

NextQuality(quality) == LeastOf(50, quality - 10)

(* The stream is taken if it is short enough, or compressed again with     *)
(* less quality as long as there is any.                                   *)
ThumbDone(w) ==
  /\ call[w] # None /\ call[w].at = "dequeue"
  /\ LET c == hw["thumb"]
         n == Planes[c.driver.format["src"].pix]
         again == NextQuality(call[w].quality)
     IN \E len \in Lengths :
          /\ buffers' = [buffers EXCEPT !.holds =
                           ThumbFrom([p \in 1 .. n |-> c.src[p]])]
          /\ \/ /\ len <= call[w].limit
                /\ hw' = [hw EXCEPT !["thumb"] = Dequeued(c)]
                /\ Returns(w, len) /\ UNCHANGED excused
             \/ /\ len > call[w].limit /\ again >= 20
                /\ hw' = [hw EXCEPT !["thumb"] =
                            SetQuality(Dequeued(c), "QFACTOR")]
                /\ call' = [call EXCEPT ![w].at = "compress",
                                        ![w].quality = again]
                /\ UNCHANGED <<thread, at, thumblen, excused>>
             \/ /\ len > call[w].limit /\ again < 20
                /\ hw' = [hw EXCEPT !["thumb"] = Dequeued(c)]
                /\ Returns(w, 0) /\ excused' = TRUE
  /\ UNCHANGED <<btb, enc, images, m_threadWorker, shot, result>>

ThumbFails(w) ==
  /\ call[w] # None /\ call[w].at = "dequeue" /\ "DQBUF" \in Faults
  /\ \E c \in DequeueFailures(hw["thumb"]) : hw' = [hw EXCEPT !["thumb"] = c]
  /\ Returns(w, 0) /\ excused' = TRUE
  /\ UNCHANGED <<btb, enc, images, buffers, m_threadWorker, shot, result>>

-----------------------------------------------------------------------------
(* The thread: CompressThumbnail with GenerateThumbnailImage.              *)

(* AllocThumbBuffer: the two buffers grow together.                        *)
BothBuffers(b) ==
  IF b.image >= enc.thumb THEN b
  ELSE [StreamBuffer(b) EXCEPT !.image = enc.thumb]

ScaledFrom(c) ==
  IF \A p \in 1 .. c.planes : c.src[p] = "main" THEN "scaled" ELSE "stale"

Scale(w) ==
  /\ thread[w] # None /\ thread[w].at = "scale"
  /\ buffers' = BothBuffers(buffers)
  /\ images' = [memory |-> "DMABUF",
                holds |-> [i \in 1 .. 2 |->
                             IF i = 1 THEN ScaledFrom(hw["main"]) ELSE "stale"]]
  /\ thread' = [thread EXCEPT ![w].at = "compress"]
  /\ call' = [call EXCEPT ![w] = NewCall(MaxThumb, Quality,
                                         GetThumbnailFormat(enc.pix), "DMABUF")]
  /\ UNCHANGED <<btb, enc, hw, m_threadWorker, shotVars>>

ScaleFails(w) ==
  /\ thread[w] # None /\ thread[w].at = "scale"
  /\ \/ "scaler" \in Faults /\ buffers' = BothBuffers(buffers)
     \/ /\ "image buffer" \in Faults /\ buffers.image < enc.thumb
        /\ buffers' = [buffers EXCEPT !.image = 0]
     \/ /\ "stream buffer" \in Faults /\ buffers.image < enc.thumb
        /\ buffers.stream < enc.thumb
        /\ buffers' = [NoStreamBuffer(buffers) EXCEPT !.image = enc.thumb]
  /\ thread' = [thread EXCEPT ![w] = [at |-> "ended", len |-> 0]]
  /\ excused' = TRUE
  /\ UNCHANGED <<btb, enc, images, hw, call, m_threadWorker, at, shot, thumblen,
                 result>>

-----------------------------------------------------------------------------
(* FinishCompression.                                                      *)

FinishesWithout ==
  /\ at = "finish" /\ shot.thumb = 0
  /\ ShotEnds("okay") /\ thumblen' = 0
  /\ UNCHANGED <<encoderVars, threadVars, shot, excused>>

(* A mutant: the thread is not waited for.                                 *)
JoinAny ==
  /\ at = "finish" /\ shot.thumb # 0 /\ IsThumbGenerationNeeded
  /\ thumblen' = thread[m_threadWorker].len
  /\ thread' = [thread EXCEPT ![m_threadWorker] = None]
  /\ at' = "check"
  /\ UNCHANGED <<encoderVars, call, m_threadWorker, shot, result, excused>>

JoinThread ==
  /\ at = "finish" /\ shot.thumb # 0 /\ IsThumbGenerationNeeded
  /\ thread[m_threadWorker].at = "ended"
  /\ thumblen' = thread[m_threadWorker].len
  /\ thread' = [thread EXCEPT ![m_threadWorker] = None]
  /\ at' = "check"
  /\ UNCHANGED <<encoderVars, call, m_threadWorker, shot, result, excused>>

(* The thumbnail that was given is compressed now.                         *)
CompressGiven ==
  /\ at = "finish" /\ shot.thumb # 0 /\ ~IsThumbGenerationNeeded /\ ~btb
  /\ call' = [call EXCEPT ![Client] =
                NewCall(MaxThumb, Quality, enc.pix, enc.inType)]
  /\ at' = "thumb"
  /\ UNCHANGED <<encoderVars, thread, m_threadWorker, shot, thumblen, result,
                 excused>>

CompressedTogether ==
  /\ at = "finish" /\ shot.thumb # 0 /\ ~IsThumbGenerationNeeded /\ btb
  /\ at' = "check"
  /\ UNCHANGED <<encoderVars, threadVars, shot, thumblen, result, excused>>

(* A mutant: what the segment leaves is forgotten.                         *)
MaxThumbOfBuffer == shot.room

(* What is left for the thumbnail in the segment, and in the buffer of the *)
(* stream.                                                                 *)
MaxThumbHere == LeastOf(MaxThumb, shot.room)

Embed ==
  /\ \/ at = "check" /\ thumblen <= MaxThumbHere
     \/ at = "retried" /\ thumblen > 0
  /\ ShotEnds("okay")
  /\ UNCHANGED <<encoderVars, threadVars, shot, thumblen, excused>>

(* A thumbnail that is too large is compressed again, from the buffers it  *)
(* is believed to be in.                                                   *)
CompressAgain ==
  /\ at = "check" /\ thumblen > MaxThumbHere
  /\ call' = [call EXCEPT ![Client] =
                NewCall(MaxThumbHere, 50, enc.pix, enc.inType)]
  /\ at' = "again"
  /\ UNCHANGED <<encoderVars, thread, m_threadWorker, shot, thumblen, result,
                 excused>>

RetryFails ==
  /\ at = "retried" /\ thumblen = 0
  /\ ShotEnds("failed")
  /\ UNCHANGED <<encoderVars, threadVars, shot, thumblen, excused>>

-----------------------------------------------------------------------------
SetsUp == setInBuf \/ setInBuf2

Encodes ==
  \/ Encode \/ EncodeRefuses
  \/ NothingToPrepare \/ PrepareStream \/ PrepareFails
  \/ \E w \in Threads : StartThread(w)
  \/ CompressMain \/ CompressMainFails
  \/ WaitForCompression
  \/ MainDone \/ MainFails

Finishes ==
  \/ FinishesWithout \/ JoinThread \/ CompressGiven \/ CompressedTogether
  \/ Embed \/ CompressAgain \/ RetryFails

CompressThumbnailOnly(w) ==
  \/ SetUp(w)
  \/ CompressThumb(w) \/ CompressThumbFails(w)
  \/ ThumbDone(w) \/ ThumbFails(w)

tCompressThumbnail(w) ==
  Scale(w) \/ ScaleFails(w) \/ CompressThumbnailOnly(w)

ClientStep ==
  SetsUp \/ Encodes \/ Finishes \/ CompressThumbnailOnly(Client)

Next ==
  \/ \E s \in Shots : Ask(s)
  \/ ClientStep
  \/ \E w \in Threads : tCompressThumbnail(w)

Spec == Init /\ [][Next]_vars

(* A client that has asked goes on, the threads are scheduled, and the     *)
(* hardware finishes what was queued, in order or with an error.           *)
FairSpec ==
  /\ Spec
  /\ WF_vars(ClientStep)
  /\ \A w \in Threads : WF_vars(tCompressThumbnail(w))

-----------------------------------------------------------------------------
(* Properties.                                                             *)

(* What the shot is meant to make of a session, whatever was asked before. *)
FormatAsked(s) ==
  IF s = "main"
  THEN [pix |-> shot.pix, size |-> MainSize,
        thumb |-> IF shot.given /\ btb THEN shot.thumb ELSE 0]
  ELSE [pix |-> IF shot.given THEN shot.pix ELSE GetThumbnailFormat(shot.pix),
        size |-> shot.thumb, thumb |-> 0]

ImagesAsked(s) ==
  LET n == Planes[FormatAsked(s).pix]
  IN IF s = "thumb"
     THEN [p \in 1 .. n |-> IF shot.given THEN "given" ELSE "scaled"]
     ELSE [p \in 1 .. (IF FormatAsked(s).thumb = 0 THEN n ELSE 2 * n) |->
             IF p <= n THEN "main" ELSE "given"]

(* What is queued to the hardware is the job of the shot that is taken:    *)
(* the driver has the format of its images, sizes included, all its planes *)
(* are of this shot, every control has the value asked for last, and the   *)
(* thumbnail fits the buffer its stream goes to -- however much of it the  *)
(* encoder believes to be set already, and after any failure before.       *)
JobAsAsked ==
  \A s \in Session : hw[s].driver.queued =>
     LET c == hw[s]
         wanted == ImagesAsked(s)
     IN /\ \A side \in Side : c.driver.format[side] = FormatAsked(s)
        /\ \A p \in DOMAIN wanted : c.src[p] = wanted[p]
        /\ c.driver.stale = {}
        /\ c.driver.hwfc = (s = "main" /\ shot.hwfc)
        /\ s = "thumb" \/ FormatAsked(s).thumb # 0 => buffers.stream >= shot.thumb
        /\ s = "thumb" /\ ~shot.given => buffers.image >= shot.thumb

(* The thumbnail that is embedded was made for this shot, and fits what is *)
(* left for it; the thread that makes it has ended by then.                *)
EmbedsOwnThumb ==
  at = "idle" /\ result = "okay" /\ thumblen > 0 =>
    /\ shot.thumb # 0
    /\ buffers.holds = "thumb"
    /\ thumblen <= MaxThumb /\ thumblen <= shot.room
    /\ Running = {}

(* A shot in which nothing failed succeeds, with the thumbnail it asked    *)
(* for: no earlier setting spoils it, and no earlier failure does but that *)
(* of DQBUF, when the driver keeps a buffer which is in this shot's way.   *)
FaultlessShotSucceeds ==
  at = "idle" /\ result # None /\ ~excused =>
    /\ result = "okay"
    /\ shot.thumb # 0 => thumblen > 0

(* A shot ends: the thumbnail is not compressed again and again, and the   *)
(* thread is joined only where there is one.                               *)
EncodeEnds == at # "idle" ~> at = "idle"
=============================================================================
