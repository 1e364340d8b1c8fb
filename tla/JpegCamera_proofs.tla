-------------------------- MODULE JpegCamera_proofs --------------------------
(***************************************************************************)
(* The JPEG encoder of the camera takes every shot as it was asked for,    *)
(* whatever was asked and whatever failed before, for any shots, any       *)
(* lengths of thumbnails and any number of threads.                        *)
(***************************************************************************)
EXTENDS JpegCamera, TLAPS

(* What a session is to compress a thumbnail of the shot s from.           *)
ThumbPix(s) == IF s.given THEN s.pix ELSE GetThumbnailFormat(s.pix)

ThumbMemory(s) == IF s.given THEN s.memory ELSE "DMABUF"

Kinds(src, dst) == [side \in Side |-> IF side = "src" THEN src ELSE dst]

MainKinds(s) == Kinds(s.memory, s.out)

ThumbKinds(s) == Kinds(ThumbMemory(s), "DMABUF")

(* What each of the two sessions compresses for the shot u, and from what  *)
(* kinds of buffers to what kind.                                          *)
Uses(s, u) == s = "main" \/ u.thumb # 0

PixOf(s, u) == IF s = "main" THEN u.pix ELSE ThumbPix(u)

KindsOf(s, u) == IF s = "main" THEN MainKinds(u) ELSE ThumbKinds(u)

(* Buffers of another kind come with another format.                       *)
KindFollowsFormat ==
  \A s \in Session : \A u, v \in Shots :
     Uses(s, u) /\ Uses(s, v) /\ PixOf(s, u) = PixOf(s, v)
       => KindsOf(s, u) = KindsOf(s, v)

(* A generated thumbnail that may have to be compressed again is found     *)
(* where that is done from.                                                *)
AgainFromSame ==
  \A s \in Shots :
     s.thumb # 0 /\ ~s.given /\ s.room < MaxThumb
       => s.memory = "DMABUF" /\ GetThumbnailFormat(s.pix) = s.pix

(* The clients and the failures for which the encoder keeps its promises.  *)
Orderly ==
  /\ GivenFirst /\ ~MaySwitch /\ ~MayStrand
  /\ {"S_EXT_CTRLS", "stream buffer"} \cap Faults = {}
  /\ KindFollowsFormat /\ AgainFromSame

-----------------------------------------------------------------------------
(* The session knows what the driver has.                                  *)
Known(c) ==
  /\ "PIX_FMT" \notin c.flags =>
       /\ c.format # None
       /\ \A side \in Side : c.driver.format[side] = c.format
  /\ c.format # None => c.planes = Planes[c.format.pix]
  /\ c.driver.stale \subseteq c.controls
  /\ c.driver.hwfc = c.hwfc

(* If it asks for no buffers, those the driver has are of these kinds.     *)
RequestedFor(c, kinds) ==
  "REQBUFS" \in c.flags /\ "PIX_FMT" \notin c.flags => c.driver.buffers = kinds

SessionKnown(s, c) ==
  /\ Known(c)
  /\ \A u \in Shots :
        Uses(s, u) /\ c.format # None /\ c.format.pix = PixOf(s, u)
          => RequestedFor(c, KindsOf(s, u))

SessionsKnown == \A s \in Session : SessionKnown(s, hw[s])

-----------------------------------------------------------------------------
(* The settings of the encoder, and what they are for the shot.            *)
Early == {"first", "second", "encode"}
Underway == {"compress", "returned", "wait", "finish"}

EncKept ==
  /\ enc.noCreate <=> enc.thumbType # None
  /\ ~enc.changed =>
       hw["main"].format =
         FormatOf(IF at = "first" THEN [enc EXCEPT !.noCreate = TRUE] ELSE enc)
  /\ buffers.image <= buffers.stream

ShotKept ==
  at # "idle" =>
    /\ shot \in Shots
    /\ enc.pix = shot.pix /\ enc.hwfc = shot.hwfc
    /\ shot.thumb # 0 => enc.thumb = shot.thumb
    /\ shot.thumb # 0 /\ ~shot.given => ~enc.noCreate
    /\ shot.given => shot.memory2 = shot.memory \/ btb
    /\ at = "first" => shot.given
    /\ at # "first" /\ shot.given =>
         /\ enc.thumbType = shot.memory2
         /\ images = [memory |-> shot.memory2, holds |-> [i \in 1 .. 2 |-> "given"]]
    /\ at \notin Early =>
         /\ enc.thumb = shot.thumb /\ ~enc.changed
         /\ shot.given => shot.memory2 = shot.memory

(* The main session has been given what is needed for the shot.            *)
MainKept ==
  LET c == hw["main"]
      n == Planes[shot.pix]
  IN /\ at \notin {"idle", "first", "second"} =>
          /\ "SRC_BUFFER" \in c.flags
          /\ c.memory["src"] = shot.memory /\ enc.inType = shot.memory
          /\ \A p \in 1 .. n : c.src[p] = "main"
     /\ at \notin {"idle", "first"} /\ shot.given /\ btb =>
          /\ "SRC_BUFFER2" \in c.flags
          /\ \A p \in n + 1 .. 2 * n : c.src[p] = "given"
     /\ at \notin {"idle"} \cup Early =>
          "DST_BUFFER" \in c.flags /\ c.memory["dst"] = shot.out
     /\ at \notin {"idle", "prepare"} \cup Early /\ shot.given =>
          /\ btb => "DST_BUFFER2" \in c.flags
          /\ buffers.stream >= shot.thumb
     /\ c.driver.queued => at \in {"returned", "wait"}
     /\ at \in {"returned", "wait"} =>
          /\ "PIX_FMT" \notin c.flags /\ c.driver.stale = {}
          /\ c.driver.hwfc = shot.hwfc

-----------------------------------------------------------------------------
(* Generated thumbnails have a thread, and it is the only one.             *)
Generating == at \in Underway /\ shot.thumb # 0 /\ ~enc.noCreate

ThreadsKept ==
  /\ Generating => m_threadWorker \in Threads /\ thread[m_threadWorker] # None
  /\ at \in {"thumb", "again"} <=> call[Client] # None

OneThread ==
  /\ \A w \in Threads : thread[w] # None => w = m_threadWorker /\ Generating
  /\ \A w \in Threads : call[w] # None =>
        thread[w] # None /\ thread[w].at = "compress"

(* The picture the thumbnail is compressed from is there.                  *)
Pictured ==
  /\ images.memory = ThumbMemory(shot)
  /\ \A p \in 1 .. Planes[ThumbPix(shot)] :
        images.holds[p] = IF shot.given THEN "given" ELSE "scaled"
  /\ buffers.stream >= shot.thumb
  /\ ~shot.given => buffers.image >= shot.thumb

PictureKept ==
  /\ at \notin {"idle", "prepare"} \cup Early /\ shot.given => Pictured
  /\ \A w \in Threads :
        thread[w] # None =>
          /\ thread[w].at = "compress" \/ thread[w].len > 0 => Pictured
          /\ thread[w].at # "ended" => thread[w].len = 0
          /\ thread[w].at = "ended" =>
               IF thread[w].len = 0 THEN excused ELSE buffers.holds = "thumb"
  /\ at \in {"check", "again", "retried"} /\ thumblen > 0 => Pictured

(* A call to compress the thumbnail, and what the session is told by it.   *)
CallKept ==
  LET c == hw["thumb"]
  IN /\ \A w \in {Client} \cup Threads :
          call[w] # None =>
            /\ call[w].pix = ThumbPix(shot)
            /\ call[w].memory = ThumbMemory(shot)
            /\ call[w].limit = IF at = "again" THEN MaxThumbHere ELSE MaxThumb
            /\ shot.thumb # 0 /\ Pictured
            /\ call[w].at # "setup" =>
                 /\ c.format = FormatAsked("thumb")
                 /\ c.memory = ThumbKinds(shot)
                 /\ {"SRC_BUFFER", "DST_BUFFER"} \subseteq c.flags
                 /\ \A p \in 1 .. Planes[ThumbPix(shot)] :
                       c.src[p] = IF shot.given THEN "given" ELSE "scaled"
            /\ call[w].at = "dequeue" =>
                 "PIX_FMT" \notin c.flags /\ c.driver.stale = {} /\ ~c.driver.hwfc
     /\ c.driver.queued =>
          \E w \in {Client} \cup Threads : call[w] # None /\ call[w].at = "dequeue"

-----------------------------------------------------------------------------
(* What is known of the thumbnail at each place, and of the result.        *)
ResultKept ==
  /\ thumblen > 0 => shot \in Shots /\ shot.thumb # 0 /\ buffers.holds = "thumb"
  /\ at \in Early \cup {"prepare", "compress", "returned", "wait", "thumb"} =>
       thumblen = 0
  /\ at = "finish" =>
       IF shot.given /\ btb THEN thumblen > 0 ELSE thumblen = 0
  /\ at \in {"thumb", "check", "again", "retried"} => shot.thumb # 0
  /\ at \in {"thumb"} => shot.given
  /\ at = "again" => thumblen > MaxThumbHere
  /\ at \in {"check", "retried"} => thumblen > 0 \/ excused
  /\ at = "check" /\ ~shot.given => thumblen <= MaxThumb
  /\ at = "retried" => thumblen <= MaxThumbHere
  /\ at = "idle" /\ result = "okay" =>
       /\ shot \in Shots
       /\ shot.thumb # 0 => thumblen > 0 \/ excused
       /\ thumblen > 0 => thumblen <= MaxThumbHere
  /\ at = "idle" /\ result = "failed" => excused

CameraInv ==
  /\ SessionsKnown /\ EncKept /\ ShotKept /\ MainKept
  /\ ThreadsKept /\ OneThread /\ PictureKept /\ CallKept /\ ResultKept

-----------------------------------------------------------------------------
(* What the calls of a session make of its fields.                         *)
BufferFlags == {"SRC_BUFFER", "SRC_BUFFER2", "DST_BUFFER", "DST_BUFFER2"}

SameDriver(r, c) ==
  /\ r.format = c.format /\ r.planes = c.planes
  /\ r.controls = c.controls /\ r.hwfc = c.hwfc /\ r.driver = c.driver

LEMMA TriedFields ==
  ASSUME NEW c \in Compressors, NEW f \in Formats
  PROVE  LET r == Tried(c, f)
         IN /\ r \in Compressors
            /\ r.format = f /\ r.src = c.src /\ r.memory = c.memory
            /\ r.controls = c.controls /\ r.hwfc = c.hwfc /\ r.driver = c.driver
            /\ f = c.format => r = c
            /\ f # c.format => /\ r.flags = c.flags \cup {"PIX_FMT"}
                               /\ r.planes = Planes[f.pix]
<1>1. Planes[f.pix] \in 0 .. 2
  BY PlanesAreFew DEF Formats
<1> QED
  BY <1>1 DEF Tried, SetImageFormat, Compressors, Flag

LEMMA ImageFields ==
  ASSUME NEW c \in Compressors, NEW contents \in [1 .. 2 -> Contents],
         NEW memory \in Memory
  PROVE  LET r == SetImageBuffer(c, contents, memory)
         IN /\ r \in Compressors
            /\ SameDriver(r, c)
            /\ r.flags = c.flags \cup {"SRC_BUFFER"}
            /\ r.memory = [c.memory EXCEPT !["src"] = memory]
            /\ \A p \in SrcPlane :
                  r.src[p] = IF p <= c.planes THEN contents[p] ELSE c.src[p]
<1> DEFINE src == [p \in SrcPlane |->
                    IF p <= c.planes THEN contents[p] ELSE c.src[p]]
           mem == [c.memory EXCEPT !["src"] = memory]
           flags == c.flags \cup {"SRC_BUFFER"}
<1>1. src \in [SrcPlane -> Contents]
  <2> SUFFICES ASSUME NEW p \in SrcPlane
               PROVE  (IF p <= c.planes THEN contents[p] ELSE c.src[p]) \in Contents
    OBVIOUS
  <2>1. c.planes \in 0 .. 2 /\ c.src \in [SrcPlane -> Contents]
    BY DEF Compressors
  <2>2. p <= c.planes => p \in 1 .. 2
    BY <2>1 DEF SrcPlane
  <2> QED
    BY <2>1, <2>2
<1>2. mem \in [Side -> Memory \cup {None}]
  BY DEF Compressors, Side
<1>3. flags \subseteq Flag
  BY DEF Compressors, Flag
<1>4. SetImageBuffer(c, contents, memory)
        = [c EXCEPT !.src = src, !.memory = mem, !.flags = flags]
  BY DEF SetImageBuffer, Compressors
<1>5. \A p \in SrcPlane :
         src[p] = IF p <= c.planes THEN contents[p] ELSE c.src[p]
  OBVIOUS
<1> HIDE DEF src, mem, flags
<1>6. [c EXCEPT !.src = src, !.memory = mem, !.flags = flags] \in Compressors
  BY <1>1, <1>2, <1>3 DEF Compressors
<1> QED
  BY <1>4, <1>5, <1>6 DEF mem, flags, SameDriver, Compressors

LEMMA Image2Fields ==
  ASSUME NEW c \in Compressors, NEW contents \in [1 .. 2 -> Contents]
  PROVE  LET r == SetImageBuffer2(c, contents)
         IN /\ r \in Compressors
            /\ SameDriver(r, c) /\ r.memory = c.memory
            /\ r.flags = c.flags \cup {"SRC_BUFFER2"}
            /\ \A p \in SrcPlane :
                  r.src[p] = IF p \in c.planes + 1 .. 2 * c.planes
                             THEN contents[p - c.planes] ELSE c.src[p]
<1> DEFINE src == [p \in SrcPlane |->
                    IF p \in c.planes + 1 .. 2 * c.planes
                    THEN contents[p - c.planes] ELSE c.src[p]]
           flags == c.flags \cup {"SRC_BUFFER2"}
<1>1. src \in [SrcPlane -> Contents]
  <2> SUFFICES ASSUME NEW p \in SrcPlane
               PROVE  (IF p \in c.planes + 1 .. 2 * c.planes
                       THEN contents[p - c.planes] ELSE c.src[p]) \in Contents
    OBVIOUS
  <2>1. c.planes \in 0 .. 2 /\ c.src \in [SrcPlane -> Contents]
    BY DEF Compressors
  <2>2. p \in c.planes + 1 .. 2 * c.planes => p - c.planes \in 1 .. 2
    BY <2>1 DEF SrcPlane
  <2> QED
    BY <2>1, <2>2
<1>2. flags \subseteq Flag
  BY DEF Compressors, Flag
<1>3. SetImageBuffer2(c, contents) = [c EXCEPT !.src = src, !.flags = flags]
  BY DEF SetImageBuffer2
<1>4. \A p \in SrcPlane :
         src[p] = IF p \in c.planes + 1 .. 2 * c.planes
                  THEN contents[p - c.planes] ELSE c.src[p]
  OBVIOUS
<1> HIDE DEF src, flags
<1>5. [c EXCEPT !.src = src, !.flags = flags] \in Compressors
  BY <1>1, <1>2 DEF Compressors
<1> QED
  BY <1>3, <1>4, <1>5 DEF flags, SameDriver, Compressors

LEMMA JpegFields ==
  ASSUME NEW c \in Compressors, NEW memory \in Memory
  PROVE  LET r == SetJpegBuffer(c, memory)
         IN /\ r \in Compressors
            /\ SameDriver(r, c) /\ r.src = c.src
            /\ r.flags = c.flags \cup {"DST_BUFFER"}
            /\ r.memory = [c.memory EXCEPT !["dst"] = memory]
BY DEF SetJpegBuffer, SameDriver, Compressors, Flag, Side

LEMMA Jpeg2Fields ==
  ASSUME NEW c \in Compressors
  PROVE  LET r == SetJpegBuffer2(c)
         IN /\ r \in Compressors
            /\ SameDriver(r, c) /\ r.src = c.src /\ r.memory = c.memory
            /\ r.flags = c.flags \cup {"DST_BUFFER2"}
BY DEF SetJpegBuffer2, SameDriver, Compressors, Flag

LEMMA QualityFields ==
  ASSUME NEW c \in Compressors, NEW control \in Control
  PROVE  LET r == SetQuality(c, control)
         IN /\ r \in Compressors
            /\ r.flags = c.flags /\ r.format = c.format /\ r.planes = c.planes
            /\ r.memory = c.memory /\ r.src = c.src /\ r.hwfc = c.hwfc
            /\ r.driver.format = c.driver.format
            /\ r.driver.buffers = c.driver.buffers
            /\ r.driver.queued = c.driver.queued /\ r.driver.hwfc = c.driver.hwfc
            /\ r.controls = c.controls \cup {control}
            /\ r.driver.stale = c.driver.stale \cup {control}
BY DEF SetQuality, Compressors, Drivers

LEMMA AgedFields ==
  ASSUME NEW c \in Compressors
  PROVE  /\ Aged(c) \in Compressors /\ SameDriver(Aged(c), c)
         /\ Aged(c).flags = c.flags /\ Aged(c).memory = c.memory
BY DEF Aged, SameDriver, Compressors, Contents

LEMMA DequeuedFields ==
  ASSUME NEW c \in Compressors
  PROVE  LET r == Dequeued(c)
         IN /\ r \in Compressors
            /\ r.flags = c.flags \ {"QBUF"} /\ ~r.driver.queued
            /\ r.format = c.format /\ r.planes = c.planes
            /\ r.memory = c.memory /\ r.src = c.src /\ r.hwfc = c.hwfc
            /\ r.controls = c.controls
            /\ r.driver.format = c.driver.format
            /\ r.driver.buffers = c.driver.buffers
            /\ r.driver.stale = c.driver.stale /\ r.driver.hwfc = c.driver.hwfc
BY DEF Dequeued, Compressors, Drivers

LEMMA DequeueFailureFields ==
  ASSUME NEW c \in Compressors, NEW r \in DequeueFailures(c)
  PROVE  /\ r \in Compressors
         /\ r.flags = c.flags \ {"QBUF"} /\ ~r.driver.queued
         /\ r.format = c.format /\ r.planes = c.planes
         /\ r.memory = c.memory /\ r.src = c.src /\ r.hwfc = c.hwfc
         /\ r.controls = c.controls
         /\ r.driver.format = c.driver.format
         /\ r.driver.buffers = c.driver.buffers
         /\ r.driver.stale = c.driver.stale /\ r.driver.hwfc = c.driver.hwfc
<1> DEFINE d == Dequeued(c)
<1>1. PICK s \in Side \cup {None} : r = [d EXCEPT !.driver.kept = s]
  BY DEF DequeueFailures
<1>2. /\ d \in Compressors
      /\ d.flags = c.flags \ {"QBUF"} /\ ~d.driver.queued
      /\ d.format = c.format /\ d.planes = c.planes
      /\ d.memory = c.memory /\ d.src = c.src /\ d.hwfc = c.hwfc
      /\ d.controls = c.controls
      /\ d.driver.format = c.driver.format
      /\ d.driver.buffers = c.driver.buffers
      /\ d.driver.stale = c.driver.stale /\ d.driver.hwfc = c.driver.hwfc
  BY DequeuedFields
<1> HIDE DEF d
<1> QED
  BY <1>1, <1>2 DEF Compressors, Drivers

-----------------------------------------------------------------------------
(* Compress: what its steps leave of what the session was told.            *)
SameImages(r, c) ==
  /\ r.format = c.format /\ r.memory = c.memory /\ r.src = c.src
  /\ c.flags \cap BufferFlags \subseteq r.flags

LEMMA StoppedFields ==
  ASSUME NEW c \in Compressors
  PROVE  LET r == Stopped(c)
         IN /\ r \in Compressors /\ SameImages(r, c)
            /\ r.flags = c.flags \ {"STREAMING", "QBUF", "REQBUFS"}
            /\ r.planes = c.planes /\ r.controls = c.controls /\ r.hwfc = c.hwfc
            /\ ~r.driver.queued /\ r.driver.format = c.driver.format
            /\ r.driver.stale = c.driver.stale /\ r.driver.hwfc = c.driver.hwfc
<1> DEFINE r == Stopped(c)
           F == c.flags \ {"STREAMING", "QBUF", "REQBUFS"}
           d == [c.driver EXCEPT !.streaming = {}, !.queued = FALSE,
                                 !.kept = None, !.buffers = NoMemory]
<1>1. c.driver \in Drivers /\ c.flags \in SUBSET Flag
  BY DEF Compressors
<1>2. /\ d \in Drivers /\ ~d.queued /\ d.format = c.driver.format
      /\ d.stale = c.driver.stale /\ d.hwfc = c.driver.hwfc
  BY <1>1 DEF Drivers, NoMemory
<1>3. F \in SUBSET Flag
  BY <1>1
<1>4. r = [c EXCEPT !.flags = F, !.driver = d]
  BY DEF Stopped
<1> HIDE DEF r, d, F
<1>5. /\ r \in Compressors /\ r.flags = F /\ r.driver = d
      /\ r.format = c.format /\ r.planes = c.planes /\ r.memory = c.memory
      /\ r.src = c.src /\ r.controls = c.controls /\ r.hwfc = c.hwfc
  BY <1>2, <1>3, <1>4 DEF Compressors
<1>6. SameImages(r, c)
  BY <1>5 DEF SameImages, BufferFlags, F
<1> QED
  BY <1>2, <1>5, <1>6 DEF r, F

LEMMA FormattedFields ==
  ASSUME NEW c \in Compressors, c.format # None
  PROVE  LET r == Formatted(c)
         IN /\ r \in Compressors /\ SameImages(r, c)
            /\ r.controls = c.controls /\ r.hwfc = c.hwfc
            /\ r.driver.stale = c.driver.stale /\ r.driver.hwfc = c.driver.hwfc
            /\ "PIX_FMT" \notin c.flags => r = c
            /\ "PIX_FMT" \in c.flags =>
                 /\ r.flags = c.flags \ {"PIX_FMT", "STREAMING", "QBUF", "REQBUFS"}
                 /\ r.planes = Planes[c.format.pix] /\ ~r.driver.queued
                 /\ r.driver.format = [side \in Side |-> c.format]
<1>1. CASE "PIX_FMT" \notin c.flags
  BY <1>1 DEF Formatted, SameImages
<1>2. CASE "PIX_FMT" \in c.flags
  <2> DEFINE s == Stopped(c)
  <2>1. Planes[c.format.pix] \in 0 .. 2
    BY PlanesAreFew DEF Compressors, Formats
  <2>2. /\ s \in Compressors /\ SameImages(s, c)
        /\ s.flags = c.flags \ {"STREAMING", "QBUF", "REQBUFS"}
        /\ s.controls = c.controls /\ s.hwfc = c.hwfc
        /\ ~s.driver.queued
        /\ s.driver.stale = c.driver.stale /\ s.driver.hwfc = c.driver.hwfc
    BY StoppedFields
  <2>3. Formatted(c) = FormatSet(s)
    BY <1>2 DEF Formatted
  <2> HIDE DEF s
  <2>4. s.format = c.format /\ c.format \in Formats
    BY <2>2 DEF SameImages, Compressors
  <2> DEFINE r == FormatSet(s)
             t == [s EXCEPT !.planes = Planes[c.format.pix]]
             F == s.flags \ {"PIX_FMT"}
             d == [s.driver EXCEPT !.format = [side \in Side |-> c.format]]
  <2>5. /\ t \in Compressors /\ t.planes = Planes[c.format.pix]
        /\ t.flags = s.flags /\ t.driver = s.driver /\ t.format = s.format
        /\ t.memory = s.memory /\ t.src = s.src
        /\ t.controls = s.controls /\ t.hwfc = s.hwfc
    BY <2>1, <2>2 DEF Compressors
  <2>6. s.driver \in Drivers /\ s.flags \in SUBSET Flag
    BY <2>2 DEF Compressors
  <2>7. /\ d \in Drivers /\ d.format = [side \in Side |-> c.format]
        /\ d.queued = s.driver.queued /\ d.stale = s.driver.stale
        /\ d.hwfc = s.driver.hwfc
    BY <2>4, <2>6 DEF Drivers
  <2>8. r = [t EXCEPT !.flags = F, !.driver = d]
    BY <2>4 DEF FormatSet
  <2>9. F \in SUBSET Flag
    BY <2>6
  <2> HIDE DEF r, t, F, d
  <2>10. /\ r \in Compressors /\ r.flags = F /\ r.driver = d
         /\ r.format = t.format /\ r.planes = t.planes /\ r.memory = t.memory
         /\ r.src = t.src /\ r.controls = t.controls /\ r.hwfc = t.hwfc
    BY <2>5, <2>7, <2>8, <2>9 DEF Compressors
  <2>11. F = c.flags \ {"PIX_FMT", "STREAMING", "QBUF", "REQBUFS"}
    BY <2>2 DEF F
  <2>12. SameImages(r, c)
    BY <2>2, <2>5, <2>10 DEF SameImages, BufferFlags, F
  <2>13. Formatted(c) = r
    BY <2>3 DEF r
  <2> QED
    BY <1>2, <2>2, <2>5, <2>7, <2>10, <2>11, <2>12, <2>13
<1> QED
  BY <1>1, <1>2

LEMMA RequestedFields ==
  ASSUME NEW c \in Compressors
  PROVE  LET r == Requested(c)
         IN /\ r \in Compressors /\ SameImages(r, c)
            /\ r.flags = c.flags \cup {"REQBUFS"}
            /\ r.planes = c.planes /\ r.controls = c.controls /\ r.hwfc = c.hwfc
            /\ r.driver = [c.driver EXCEPT !.buffers = r.driver.buffers]
            /\ r.driver.buffers = IF "REQBUFS" \in c.flags THEN c.driver.buffers
                                  ELSE c.memory
<1> DEFINE r == Requested(c)
<1>1. c.driver \in Drivers /\ c.memory \in [Side -> Memory \cup {None}]
      /\ c.flags \in SUBSET Flag
  BY DEF Compressors
<1>2. CASE "REQBUFS" \in c.flags
  <2>1. r = c
    BY <1>2 DEF Requested
  <2> HIDE DEF r
  <2>2. r.flags = c.flags \cup {"REQBUFS"}
    BY <1>2, <2>1
  <2>3. r.driver = [c.driver EXCEPT !.buffers = r.driver.buffers]
    BY <1>1, <2>1 DEF Drivers
  <2>4. r \in Compressors /\ SameImages(r, c)
    BY <2>1 DEF SameImages
  <2>5. r.planes = c.planes /\ r.controls = c.controls /\ r.hwfc = c.hwfc
    BY <2>1
  <2>6. r.driver.buffers = IF "REQBUFS" \in c.flags THEN c.driver.buffers
                           ELSE c.memory
    BY <1>2, <2>1
  <2> QED
    BY <2>2, <2>3, <2>4, <2>5, <2>6 DEF r
<1>3. CASE "REQBUFS" \notin c.flags
  <2> DEFINE d == [c.driver EXCEPT !.buffers = c.memory]
  <2>1. d \in Drivers /\ d.buffers = c.memory
    BY <1>1 DEF Drivers
  <2>2. r = [c EXCEPT !.flags = @ \cup {"REQBUFS"}, !.driver = d]
    BY <1>3 DEF Requested
  <2>3. d = [c.driver EXCEPT !.buffers = d.buffers]
    BY <2>1
  <2> HIDE DEF r, d
  <2>4. /\ r.flags = c.flags \cup {"REQBUFS"} /\ r.driver = d
        /\ r.format = c.format /\ r.memory = c.memory /\ r.src = c.src
        /\ r.planes = c.planes /\ r.controls = c.controls /\ r.hwfc = c.hwfc
    BY <2>2 DEF Compressors
  <2>5. r \in Compressors
    BY <1>1, <2>1, <2>2 DEF Compressors, Flag
  <2> QED
    BY <1>3, <2>1, <2>3, <2>4, <2>5 DEF SameImages, r
<1> QED
  BY <1>2, <1>3

LEMMA StreamedFields ==
  ASSUME NEW c \in Compressors
  PROVE  LET r == StreamedOn(c)
         IN /\ r \in Compressors /\ SameImages(r, c)
            /\ r.flags = c.flags \cup {"STREAMING"}
            /\ r.planes = c.planes /\ r.controls = c.controls /\ r.hwfc = c.hwfc
            /\ r.driver = [c.driver EXCEPT !.streaming = r.driver.streaming]
<1> DEFINE r == StreamedOn(c)
<1>1. c.driver \in Drivers /\ c.flags \in SUBSET Flag
  BY DEF Compressors
<1>2. CASE "STREAMING" \in c.flags
  <2>1. r = c
    BY <1>2 DEF StreamedOn
  <2> HIDE DEF r
  <2>2. r.flags = c.flags \cup {"STREAMING"}
    BY <1>2, <2>1
  <2>3. r.driver = [c.driver EXCEPT !.streaming = r.driver.streaming]
    BY <1>1, <2>1 DEF Drivers
  <2> QED
    BY <2>1, <2>2, <2>3 DEF SameImages, r
<1>3. CASE "STREAMING" \notin c.flags
  <2> DEFINE d == [c.driver EXCEPT !.streaming = Side]
  <2>1. d \in Drivers /\ d.streaming = Side
    BY <1>1 DEF Drivers
  <2>2. r = [c EXCEPT !.flags = @ \cup {"STREAMING"}, !.driver = d]
    BY <1>3 DEF StreamedOn
  <2>3. d = [c.driver EXCEPT !.streaming = d.streaming]
    BY <2>1
  <2> HIDE DEF r, d
  <2>4. /\ r.flags = c.flags \cup {"STREAMING"} /\ r.driver = d
        /\ r.format = c.format /\ r.memory = c.memory /\ r.src = c.src
        /\ r.planes = c.planes /\ r.controls = c.controls /\ r.hwfc = c.hwfc
    BY <2>2 DEF Compressors
  <2>5. r \in Compressors
    BY <1>1, <2>1, <2>2 DEF Compressors, Flag
  <2> QED
    BY <2>3, <2>4, <2>5 DEF SameImages, r
<1> QED
  BY <1>2, <1>3

LEMMA ControlsFields ==
  ASSUME NEW c \in Compressors, NEW hwfc \in BOOLEAN
  PROVE  LET r == ControlsSet(c, hwfc)
         IN /\ r \in Compressors /\ SameImages(r, c)
            /\ r.flags = c.flags /\ r.planes = c.planes
            /\ r.controls = {} /\ r.hwfc = hwfc
            /\ r.driver.stale = c.driver.stale \ c.controls
            /\ r.driver.hwfc = IF c.hwfc = hwfc THEN c.driver.hwfc ELSE hwfc
            /\ r.driver.format = c.driver.format
            /\ r.driver.buffers = c.driver.buffers
            /\ r.driver.queued = c.driver.queued
BY DEF ControlsSet, ControlsForgotten, SameImages, Compressors, Drivers

(* All of it: whatever the session was, it compresses with the format it   *)
(* was given, and with the controls.                                       *)
LEMMA PreparedFields ==
  ASSUME NEW c \in Compressors, c.format # None, NEW hwfc \in BOOLEAN
  PROVE  LET r == Prepared(c, hwfc)
             asked == "REQBUFS" \in c.flags /\ "PIX_FMT" \notin c.flags
         IN /\ r \in Compressors /\ SameImages(r, c)
            /\ "PIX_FMT" \notin r.flags /\ r.controls = {} /\ r.hwfc = hwfc
            /\ r.planes = IF "PIX_FMT" \in c.flags THEN Planes[c.format.pix]
                          ELSE c.planes
            /\ r.driver.stale = c.driver.stale \ c.controls
            /\ r.driver.hwfc = IF c.hwfc = hwfc THEN c.driver.hwfc ELSE hwfc
            /\ \A side \in Side :
                  r.driver.format[side] = IF "PIX_FMT" \in c.flags THEN c.format
                                          ELSE c.driver.format[side]
            /\ r.driver.buffers = IF asked THEN c.driver.buffers ELSE c.memory
            /\ ~c.driver.queued => ~r.driver.queued
<1> DEFINE f == Formatted(c)
           q == Requested(f)
           s == StreamedOn(q)
           r == ControlsSet(s, hwfc)
<1>1. /\ f \in Compressors /\ SameImages(f, c)
      /\ f.controls = c.controls /\ f.hwfc = c.hwfc
      /\ f.driver.stale = c.driver.stale /\ f.driver.hwfc = c.driver.hwfc
      /\ "PIX_FMT" \notin c.flags => f = c
      /\ "PIX_FMT" \in c.flags =>
           /\ f.flags = c.flags \ {"PIX_FMT", "STREAMING", "QBUF", "REQBUFS"}
           /\ f.planes = Planes[c.format.pix] /\ ~f.driver.queued
           /\ f.driver.format = [side \in Side |-> c.format]
  BY FormattedFields
<1> HIDE DEF f
<1>2. /\ q \in Compressors /\ SameImages(q, f) /\ q.flags = f.flags \cup {"REQBUFS"}
      /\ q.planes = f.planes /\ q.controls = f.controls /\ q.hwfc = f.hwfc
      /\ q.driver = [f.driver EXCEPT !.buffers = q.driver.buffers]
      /\ q.driver.buffers = IF "REQBUFS" \in f.flags THEN f.driver.buffers ELSE f.memory
  BY <1>1, RequestedFields
<1> HIDE DEF q
<1>3. /\ s \in Compressors /\ SameImages(s, q) /\ s.flags = q.flags \cup {"STREAMING"}
      /\ s.planes = q.planes /\ s.controls = q.controls /\ s.hwfc = q.hwfc
      /\ s.driver = [q.driver EXCEPT !.streaming = s.driver.streaming]
  BY <1>2, StreamedFields
<1> HIDE DEF s
<1>4. /\ r \in Compressors /\ SameImages(r, s)
      /\ r.flags = s.flags /\ r.planes = s.planes
      /\ r.controls = {} /\ r.hwfc = hwfc
      /\ r.driver.stale = s.driver.stale \ s.controls
      /\ r.driver.hwfc = IF s.hwfc = hwfc THEN s.driver.hwfc ELSE hwfc
      /\ r.driver.format = s.driver.format
      /\ r.driver.buffers = s.driver.buffers
      /\ r.driver.queued = s.driver.queued
  BY <1>3, ControlsFields
<1>5. Prepared(c, hwfc) = r
  BY DEF Prepared, f, q, s
<1> HIDE DEF r
<1>6. {f.driver, q.driver, s.driver} \subseteq Drivers
  BY <1>1, <1>2, <1>3 DEF Compressors
<1>7. SameImages(r, c)
  BY <1>1, <1>2, <1>3, <1>4 DEF SameImages
<1>8. /\ s.driver.stale = c.driver.stale /\ s.controls = c.controls
      /\ s.hwfc = c.hwfc /\ s.driver.hwfc = c.driver.hwfc
      /\ s.driver.format = f.driver.format /\ s.driver.queued = f.driver.queued
      /\ s.driver.buffers = q.driver.buffers
  BY <1>1, <1>2, <1>3, <1>6 DEF Drivers
<1>9. f.memory = c.memory
  BY <1>1 DEF SameImages
<1>10. \A side \in Side :
          r.driver.format[side] = IF "PIX_FMT" \in c.flags THEN c.format
                                  ELSE c.driver.format[side]
  <2>1. CASE "PIX_FMT" \in c.flags
    BY <1>1, <1>4, <1>8, <2>1
  <2>2. CASE "PIX_FMT" \notin c.flags
    BY <1>1, <1>4, <1>8, <2>2
  <2> QED
    BY <2>1, <2>2
<1> QED
  BY <1>1, <1>2, <1>3, <1>4, <1>5, <1>7, <1>8, <1>9, <1>10

LEMMA CompressedFields ==
  ASSUME NEW c \in Compressors, c.format # None, NEW hwfc \in BOOLEAN
  PROVE  LET r == Compressed(c, hwfc)
             p == Prepared(c, hwfc)
         IN /\ r \in Compressors /\ SameImages(r, c)
            /\ r.flags = p.flags \cup {"QBUF"}
            /\ r.controls = p.controls /\ r.hwfc = p.hwfc /\ r.planes = p.planes
            /\ r.driver.stale = p.driver.stale /\ r.driver.hwfc = p.driver.hwfc
            /\ r.driver.format = p.driver.format
            /\ r.driver.buffers = p.driver.buffers
<1> DEFINE p == Prepared(c, hwfc)
<1>1. p \in Compressors /\ SameImages(p, c)
  BY PreparedFields
<1>2. Compressed(c, hwfc) = [p EXCEPT !.flags = @ \cup {"QBUF"},
                                      !.driver.queued = TRUE]
  BY DEF Compressed
<1> HIDE DEF p
<1>3. p.flags \cup {"QBUF"} \subseteq Flag
  BY <1>1 DEF Compressors, Flag
<1>4. LET r == Compressed(c, hwfc)
      IN /\ r \in Compressors /\ SameImages(r, c)
         /\ r.flags = p.flags \cup {"QBUF"}
         /\ r.controls = p.controls /\ r.hwfc = p.hwfc /\ r.planes = p.planes
         /\ r.driver.stale = p.driver.stale /\ r.driver.hwfc = p.driver.hwfc
         /\ r.driver.format = p.driver.format
         /\ r.driver.buffers = p.driver.buffers
  <2> DEFINE r == Compressed(c, hwfc)
  <2>1. r \in Compressors
    <3> DEFINE fl == p.flags \cup {"QBUF"}
               d == [p.driver EXCEPT !.queued = TRUE]
    <3>1. d \in Drivers
      BY <1>1 DEF Compressors, Drivers
    <3>2. r = [p EXCEPT !.flags = fl, !.driver = d]
      BY <1>1, <1>2 DEF Compressors
    <3>3. fl \in SUBSET Flag
      BY <1>3
    <3> HIDE DEF fl, d, r
    <3> QED
      BY <1>1, <3>1, <3>2, <3>3 DEF Compressors
  <2>2. /\ r.flags = p.flags \cup {"QBUF"}
        /\ r.format = p.format /\ r.memory = p.memory /\ r.src = p.src
        /\ r.controls = p.controls /\ r.hwfc = p.hwfc /\ r.planes = p.planes
    BY <1>1, <1>2 DEF Compressors
  <2>3. /\ r.driver.stale = p.driver.stale /\ r.driver.hwfc = p.driver.hwfc
        /\ r.driver.format = p.driver.format
        /\ r.driver.buffers = p.driver.buffers
    BY <1>1, <1>2 DEF Compressors, Drivers
  <2>4. SameImages(r, c)
    BY <1>1, <2>2 DEF SameImages
  <2> QED
    BY <2>1, <2>2, <2>3, <2>4
<1> QED
  BY <1>4 DEF p

(* What a failing Compress leaves is one of these.                         *)
FormatFailed(c) == [Stopped(c) EXCEPT !.driver.format = [s \in Side |-> None]]

ControlsFailed(c, hwfc) ==
  ControlsForgotten(StreamedOn(Requested(Formatted(c))), hwfc)

LeftBehind(c, hwfc) ==
  {Formatted(c), Requested(Formatted(c)), Prepared(c, hwfc),
   Stopped(Prepared(c, hwfc))}

LEMMA FailuresAre ==
  ASSUME NEW c, NEW hwfc, NEW dstOkay,
         NEW f \in CompressFailures(c, hwfc, dstOkay)
  PROVE  /\ f[2] \in BOOLEAN
         /\ Fits(c, dstOkay) => f[2]
         /\ \/ "PIX_FMT" \in c.flags /\ f[1] \in HalfStopped(c) \cup {FormatFailed(c)}
            \/ "S_EXT_CTRLS" \in Faults /\ f[1] = ControlsFailed(c, hwfc)
            \/ f[1] \in LeftBehind(c, hwfc)
<1> DEFINE Left ==
             \/ /\ "PIX_FMT" \in c.flags
                /\ f[1] \in HalfStopped(c) \cup {FormatFailed(c)}
             \/ "S_EXT_CTRLS" \in Faults /\ f[1] = ControlsFailed(c, hwfc)
             \/ f[1] \in LeftBehind(c, hwfc)
<1>1. ASSUME NEW g \in CompressFaults(c, hwfc), f = <<g, TRUE>>
      PROVE  f[2] = TRUE /\ Left
  <2>1. PICK request \in Faults \cap Requests : g \in Faulted(c, hwfc, request)
    BY <1>1 DEF CompressFaults
  <2>2. f[1] = g /\ f[2] = TRUE
    BY <1>1
  <2>3. CASE request = "S_FMT"
    BY <2>1, <2>2, <2>3 DEF Faulted, FormatFaults, FormatFailed
  <2>4. CASE request = "REQBUFS"
    BY <2>1, <2>2, <2>4 DEF Faulted, StopFaults, LeftBehind
  <2>5. CASE request = "STREAMON"
    BY <2>1, <2>2, <2>5 DEF Faulted, LeftBehind
  <2>6. CASE request = "S_EXT_CTRLS"
    BY <2>1, <2>2, <2>6 DEF Faulted, ControlsFailed
  <2>7. CASE request = "QBUF"
    <3>1. g \in {QBufFailed(Prepared(c, hwfc), s) : s \in Side}
      BY <2>1, <2>7 DEF Faulted
    <3> QED
      BY <2>2, <3>1 DEF QBufFailed, LeftBehind
  <2> QED
    BY <2>1, <2>2, <2>3, <2>4, <2>5, <2>6, <2>7 DEF Requests
<1>2. ASSUME f = <<Refused(c, hwfc), Fits(c, dstOkay)>>
      PROVE  f[2] = Fits(c, dstOkay) /\ Left
  BY <1>2 DEF Refused, QBufFailed, LeftBehind
<1>3. \/ \E g \in CompressFaults(c, hwfc) : f = <<g, TRUE>>
      \/ f = <<Refused(c, hwfc), Fits(c, dstOkay)>>
  BY DEF CompressFailures
<1>4. Fits(c, dstOkay) \in BOOLEAN
  BY DEF Fits
<1> HIDE DEF Left
<1>5. f[2] \in BOOLEAN /\ (Fits(c, dstOkay) => f[2]) /\ Left
  BY <1>1, <1>2, <1>3, <1>4
<1> QED
  BY <1>5 DEF Left

(* It keeps what the session was told, and does not queue.                 *)
LEMMA FailedFields ==
  ASSUME NEW c \in Compressors, c.format # None, NEW hwfc \in BOOLEAN,
         NEW dstOkay, NEW f \in CompressFailures(c, hwfc, dstOkay)
  PROVE  f[1] \in Compressors /\ SameImages(f[1], c)
<1> DEFINE m == Formatted(c)
           q == Requested(m)
           s == StreamedOn(q)
           p == Prepared(c, hwfc)
<1>1. m \in Compressors /\ SameImages(m, c)
  BY FormattedFields
<1>2. q \in Compressors /\ SameImages(q, m)
  BY <1>1, RequestedFields
<1>3. s \in Compressors /\ SameImages(s, q)
  BY <1>2, StreamedFields
<1>4. p \in Compressors /\ SameImages(p, c)
  BY PreparedFields
<1>5. Stopped(p) \in Compressors /\ SameImages(Stopped(p), p)
  BY <1>4, StoppedFields
<1>6. \A g \in LeftBehind(c, hwfc) : g \in Compressors /\ SameImages(g, c)
  BY <1>1, <1>2, <1>4, <1>5 DEF LeftBehind, SameImages
<1>7. /\ ControlsFailed(c, hwfc) \in Compressors
      /\ SameImages(ControlsFailed(c, hwfc), c)
  <2>1. ControlsFailed(c, hwfc) = [s EXCEPT !.controls = {}, !.hwfc = hwfc]
    BY DEF ControlsFailed, ControlsForgotten
  <2> HIDE DEF m, q, s
  <2> QED
    BY <1>1, <1>2, <1>3, <2>1 DEF SameImages, Compressors
<1>8. /\ FormatFailed(c) \in Compressors
      /\ SameImages(FormatFailed(c), c)
  <2> DEFINE t == Stopped(c)
  <2>1. t \in Compressors /\ SameImages(t, c)
    BY StoppedFields
  <2>2. FormatFailed(c) = [t EXCEPT !.driver.format = [d \in Side |-> None]]
    BY DEF FormatFailed
  <2> DEFINE e == [t.driver EXCEPT !.format = [d \in Side |-> None]]
  <2>3. FormatFailed(c) = [t EXCEPT !.driver = e]
    BY <2>2
  <2> HIDE DEF t
  <2>4. e \in Drivers
    BY <2>1 DEF Compressors, Drivers
  <2> HIDE DEF e
  <2> QED
    BY <2>1, <2>3, <2>4 DEF SameImages, Compressors
<1>9. \A g \in HalfStopped(c) : g \in Compressors /\ SameImages(g, c)
  <2> SUFFICES ASSUME NEW k \in {None, c.driver.buffers.src}
               PROVE  LET g == [c EXCEPT !.flags = @ \ {"STREAMING", "QBUF"},
                                         !.driver.streaming = {},
                                         !.driver.queued = FALSE,
                                         !.driver.kept = None,
                                         !.driver.buffers.src = k]
                      IN g \in Compressors /\ SameImages(g, c)
    BY DEF HalfStopped
  <2> DEFINE g == [c EXCEPT !.flags = @ \ {"STREAMING", "QBUF"},
                            !.driver.streaming = {},
                            !.driver.queued = FALSE,
                            !.driver.kept = None,
                            !.driver.buffers.src = k]
             h == [c EXCEPT !.flags = @ \ {"STREAMING", "QBUF"},
                            !.driver.streaming = {},
                            !.driver.queued = FALSE]
             b == [c.driver.buffers EXCEPT !["src"] = k]
  <2>1. /\ h \in Compressors /\ h.driver.buffers = c.driver.buffers
        /\ h.flags = c.flags \ {"STREAMING", "QBUF"} /\ h.format = c.format
        /\ h.memory = c.memory /\ h.src = c.src
    BY DEF Compressors, Drivers
  <2>2. g = [h EXCEPT !.driver.kept = None, !.driver.buffers.src = k]
    OBVIOUS
  <2> HIDE DEF h
  <2>3. g = [h EXCEPT !.driver.kept = None, !.driver.buffers = b]
    BY <2>1, <2>2 DEF Compressors, Drivers
  <2>4. b \in [Side -> Memory \cup {None}]
    BY DEF Compressors, Drivers, Side
  <2> HIDE DEF g, b
  <2>5. /\ g \in Compressors /\ g.flags = h.flags /\ g.format = h.format
        /\ g.memory = h.memory /\ g.src = h.src
    BY <2>1, <2>3, <2>4 DEF Compressors, Drivers
  <2>6. SameImages(g, c)
    BY <2>1, <2>5 DEF SameImages, BufferFlags
  <2> QED
    BY <2>5, <2>6 DEF g
<1> QED
  BY <1>6, <1>7, <1>8, <1>9, FailuresAre
-----------------------------------------------------------------------------
(* Types.  What the steps need of the formats, the shot and the thread     *)
(* beside them.                                                            *)
Formed ==
  /\ at # "idle" => shot \in Shots
  /\ shot \in Shots => enc.pix \in DOMAIN Planes
  /\ \A w \in Threads : thread[w] # None \/ call[w] # None => shot \in Shots
  /\ call[Client] # None => at \in {"thumb", "again"}
  /\ ~enc.changed => hw["main"].format # None
  /\ at \notin {"idle"} \cup Early => ~enc.changed
  /\ \A w \in {Client} \cup Threads :
        call[w] # None /\ call[w].at # "setup" => hw["thumb"].format # None
  /\ Generating => m_threadWorker \in Threads /\ thread[m_threadWorker] # None

USE DEF Client

LEMMA ShotType ==
  ASSUME NEW s \in Shots
  PROVE  /\ s.pix \in DOMAIN Planes
         /\ s.memory \in Memory /\ s.memory2 \in Memory /\ s.out \in Memory
         /\ s.thumb \in 0 .. 2 /\ s.given \in BOOLEAN /\ s.hwfc \in BOOLEAN
         /\ s.room \in Nat /\ (s.given => s.thumb # 0)
BY ShotFields

LEMMA LengthType ==
  /\ MaxThumb \in Nat
  /\ \A l \in Lengths : l \in Nat /\ l > 0
  /\ \A l \in {n \in Lengths : n <= MaxThumb} \cup {0} : l \in Nat /\ l <= MaxThumb
BY ThumbConstants

LEMMA FormatType ==
  ASSUME NEW e \in Encoders, e.pix \in DOMAIN Planes
  PROVE  /\ FormatOf(e) \in Formats
         /\ FormatOf(e).pix = e.pix /\ FormatOf(e).size = MainSize
         /\ FormatOf(e).thumb = IF ~e.noCreate \/ ~btb THEN 0 ELSE e.thumb
         /\ None \notin Formats
BY NoneIsNoFormat DEF FormatOf, Encoders, Formats, MainSize

LEMMA EnsuredFields ==
  ASSUME NEW e \in Encoders, e.pix \in DOMAIN Planes, NEW c \in Compressors
  PROVE  LET r == Ensured(e, c)
         IN /\ r.enc = [e EXCEPT !.changed = FALSE] /\ r.enc \in Encoders
            /\ r.main = IF e.changed THEN Tried(c, FormatOf(e)) ELSE c
            /\ r.main \in Compressors
            /\ r.main.format = IF e.changed THEN FormatOf(e) ELSE c.format
<1>1. Tried(c, FormatOf(e)) \in Compressors /\ Tried(c, FormatOf(e)).format = FormatOf(e)
  BY FormatType, TriedFields
<1>2. [e EXCEPT !.changed = FALSE] \in Encoders
  BY DEF Encoders
<1> QED
  BY <1>1, <1>2 DEF Ensured

LEMMA CameraInit == Init => TypeOK /\ Formed
<1> SUFFICES ASSUME Init PROVE TypeOK /\ Formed
  OBVIOUS
<1>1. NewCompressor({"QFACTOR2"}) \in Compressors /\ NewCompressor({"CHROMFACTOR"}) \in Compressors
  BY DEF NewCompressor, Compressors, Drivers, NoMemory, Flag, Control, Contents
<1>2. hw \in [Session -> Compressors]
  BY <1>1 DEF Init, Session
<1>3. enc \in Encoders /\ images \in Images /\ buffers \in Buffers
  BY DEF Init, Encoders, Images, Buffers, Memory, Contents
<1>4. /\ call \in [{Client} \cup Threads -> Calls \cup {None}]
      /\ thread \in [Threads -> ThreadStates \cup {None}]
      /\ m_threadWorker \in 0 .. MaxThreads
  BY ThumbConstants DEF Init
<1>5. TypeOK
  BY <1>2, <1>3, <1>4 DEF Init, TypeOK
<1> QED
  BY <1>5, NoneIsNoValue DEF Init, Formed, Generating, Underway

LEMMA AskTyped ==
  ASSUME TypeOK, Formed, NEW s \in Shots, Ask(s)
  PROVE  TypeOK' /\ Formed'
<1> USE ShotType
<1>1. enc' \in Encoders /\ enc'.pix = s.pix
  <2> DEFINE sized == IF s.thumb = 0 THEN enc ELSE setThumbnailSize(enc, s.thumb)
             coloured == setColorFormat(sized, s.pix)
  <2>1. sized \in Encoders
    BY DEF TypeOK, Encoders, setThumbnailSize
  <2> HIDE DEF sized
  <2>2. coloured \in Encoders /\ coloured.pix = s.pix
    BY <2>1 DEF Encoders, setColorFormat
  <2>3. enc' = [coloured EXCEPT !.hwfc = s.hwfc, !.quality = s.quality]
    BY DEF Ask, sized
  <2> HIDE DEF coloured
  <2> QED
    BY <2>2, <2>3 DEF Qualities, Encoders
<1>2. ~enc'.changed => ~enc.changed
  BY DEF Ask, TypeOK, Encoders, setThumbnailSize, setColorFormat
<1>3. hw' \in [Session -> Compressors] /\ hw'["main"].format = hw["main"].format
      /\ hw'["thumb"].format = hw["thumb"].format
  <2>1. \A t \in Session : /\ SetQuality(hw[t], "QFACTOR") \in Compressors
                           /\ SetQuality(hw[t], "QFACTOR").format = hw[t].format
    BY QualityFields DEF TypeOK, Control
  <2>2. \A c \in Compressors : Aged(c) \in Compressors /\ Aged(c).format = c.format
    BY AgedFields DEF SameDriver
  <2> QED
    BY <2>1, <2>2 DEF Ask, TypeOK, Session
<1>4. images' \in Images /\ buffers' \in Buffers
  BY DEF Ask, TypeOK, Images, Buffers, Contents
<1>5. TypeOK'
  BY <1>1, <1>3, <1>4 DEF Ask, TypeOK, threadVars
<1>6. /\ at = "idle" /\ at' \in {"first", "second"} /\ shot' = s
      /\ UNCHANGED <<call, thread>>
  BY DEF Ask, threadVars
<1>7. ~Generating'
  BY <1>6 DEF Generating, Underway
<1> QED
  BY <1>1, <1>2, <1>3, <1>5, <1>6, <1>7 DEF Formed, Early
LEMMA SetInBufTyped ==
  ASSUME TypeOK, Formed, setInBuf
  PROVE  TypeOK' /\ Formed'
<1> DEFINE a == Ensured(enc, hw["main"])
           planes == [i \in 1 .. 2 |-> "main"]
<1>1. shot \in Shots /\ enc.pix \in DOMAIN Planes /\ shot.memory \in Memory
  BY ShotType DEF setInBuf, Formed
<1>2. /\ a.enc = [enc EXCEPT !.changed = FALSE] /\ a.enc \in Encoders
      /\ a.main \in Compressors /\ a.main.format # None
  BY <1>1, EnsuredFields, FormatType DEF TypeOK, Formed, Session
<1>3. planes \in [1 .. 2 -> Contents]
  BY DEF Contents
<1>4. /\ enc' = [a.enc EXCEPT !.inType = shot.memory]
      /\ hw' = [hw EXCEPT !["main"] = SetImageBuffer(a.main, planes, shot.memory)]
      /\ UNCHANGED <<btb, images, buffers, call, thread, m_threadWorker, shot,
                     thumblen, result, excused>>
  BY DEF setInBuf, threadVars
<1> HIDE DEF a, planes
<1>5. /\ SetImageBuffer(a.main, planes, shot.memory) \in Compressors
      /\ SetImageBuffer(a.main, planes, shot.memory).format = a.main.format
  <2>1. /\ SetImageBuffer(a.main, planes, shot.memory) \in Compressors
        /\ SameDriver(SetImageBuffer(a.main, planes, shot.memory), a.main)
    BY <1>1, <1>2, <1>3, ImageFields
  <2> QED
    BY <2>1 DEF SameDriver
<1>6. /\ hw' \in [Session -> Compressors] /\ hw'["main"].format # None
      /\ hw'["thumb"] = hw["thumb"]
  BY <1>2, <1>4, <1>5 DEF TypeOK, Session
<1>7. /\ enc' \in Encoders /\ ~enc'.changed /\ enc'.pix = enc.pix
      /\ enc'.noCreate = enc.noCreate
  BY <1>1, <1>2, <1>4 DEF TypeOK, Encoders
<1>8. at \in {"first", "second"} /\ at' \in {"second", "encode"}
  BY DEF setInBuf, Given
<1>9. TypeOK'
  BY <1>4, <1>6, <1>7, <1>8 DEF TypeOK
<1>10. ~Generating'
  BY <1>8 DEF Generating, Underway
<1> QED
  BY <1>1, <1>4, <1>6, <1>7, <1>8, <1>9, <1>10 DEF Formed, Early

LEMMA SetInBuf2Typed ==
  ASSUME TypeOK, Formed, setInBuf2
  PROVE  TypeOK' /\ Formed'
<1> DEFINE e == [enc EXCEPT !.noCreate = TRUE]
           a == Ensured(e, hw["main"])
           planes == [i \in 1 .. 2 |-> "given"]
<1>1. shot \in Shots /\ enc.pix \in DOMAIN Planes /\ shot.memory2 \in Memory
  BY ShotType DEF setInBuf2, Formed
<1>2. e \in Encoders /\ e.pix = enc.pix /\ e.changed = enc.changed
  BY DEF TypeOK, Encoders
<1> HIDE DEF e
<1>3. /\ a.enc = [e EXCEPT !.changed = FALSE] /\ a.enc \in Encoders
      /\ a.main \in Compressors /\ a.main.format # None
  BY <1>1, <1>2, EnsuredFields, FormatType DEF TypeOK, Formed, Session
<1>4. planes \in [1 .. 2 -> Contents] /\ images' \in Images
  BY <1>1 DEF Contents, Images, setInBuf2
<1>5. /\ enc' = [a.enc EXCEPT !.thumbType = shot.memory2]
      /\ hw' = [hw EXCEPT !["main"] =
                  IF btb THEN SetImageBuffer2(a.main, planes) ELSE a.main]
      /\ UNCHANGED <<btb, buffers, call, thread, m_threadWorker, shot,
                     thumblen, result, excused>>
  BY DEF setInBuf2, threadVars, e
<1> HIDE DEF a, planes
<1>6. /\ SetImageBuffer2(a.main, planes) \in Compressors
      /\ SetImageBuffer2(a.main, planes).format = a.main.format
  BY <1>3, <1>4, Image2Fields DEF SameDriver
<1>7. /\ hw' \in [Session -> Compressors] /\ hw'["main"].format # None
      /\ hw'["thumb"] = hw["thumb"]
  BY <1>3, <1>5, <1>6 DEF TypeOK, Session
<1>8. enc' \in Encoders /\ ~enc'.changed /\ enc'.pix = enc.pix
  BY <1>1, <1>2, <1>3, <1>5 DEF Encoders
<1>9. at \in {"first", "second"} /\ at' \in {"second", "encode"}
  BY DEF setInBuf2, Given
<1>10. TypeOK'
  BY <1>4, <1>5, <1>7, <1>8, <1>9 DEF TypeOK
<1>11. ~Generating'
  BY <1>9 DEF Generating, Underway
<1> QED
  BY <1>1, <1>5, <1>7, <1>8, <1>9, <1>10, <1>11 DEF Formed, Early

LEMMA SettledFields ==
  ASSUME NEW e \in Encoders, shot \in Shots
  PROVE  LET r == Settled(e)
         IN /\ r \in Encoders
            /\ r.pix = e.pix /\ r.inType = e.inType /\ r.thumbType = e.thumbType
            /\ r.hwfc = e.hwfc
            /\ ~r.changed => ~e.changed /\ (~btb \/ r.thumb = e.thumb)
            /\ r.thumb = IF shot.thumb = 0 THEN 0 ELSE e.thumb
            /\ ~(shot.thumb # 0 /\ e.noCreate /\ e.thumbType = None) =>
                 r.noCreate = e.noCreate
<1>1. shot.thumb \in 0 .. 2
  BY ShotType
<1>2. CASE shot.thumb = 0
  <2>1. Settled(e) = setThumbnailSize(e, 0)
    BY <1>2 DEF Settled
  <2>2. CASE e.thumb = 0
    BY <1>2, <2>1, <2>2 DEF setThumbnailSize
  <2>3. CASE e.thumb # 0
    <3>1. CASE e.changed \/ btb
      <4> DEFINE z == [e EXCEPT !.thumb = 0]
                 r == [e EXCEPT !.thumb = 0, !.changed = TRUE]
      <4>1. (e.changed \/ btb) = TRUE
        BY <3>1
      <4>2. Settled(e) = [e EXCEPT !.thumb = 0, !.changed = e.changed \/ btb]
        BY <2>1, <2>3, Zenon DEF setThumbnailSize
      <4>3. Settled(e) = r
        BY <4>1, <4>2, Zenon
      <4>4. r \in Encoders
        <5>1. z \in Encoders
          BY DEF Encoders
        <5>2. r = [z EXCEPT !.changed = r.changed] /\ r.changed \in BOOLEAN
          BY DEF Encoders
        <5> HIDE DEF z, r
        <5> QED
          BY <5>1, <5>2 DEF Encoders
      <4>5. /\ r.pix = e.pix /\ r.inType = e.inType /\ r.hwfc = e.hwfc
            /\ r.thumbType = e.thumbType /\ r.thumb = 0
        BY DEF Encoders
      <4>6. r.noCreate = e.noCreate
        BY DEF Encoders
      <4>7. r.changed = TRUE
        BY DEF Encoders
      <4> HIDE DEF r
      <4>8. ~r.changed => ~e.changed /\ ~btb
        BY <3>1, <4>7
      <4> QED
        BY <1>2, <4>3, <4>4, <4>5, <4>6, <4>8, Zenon
    <3>2. CASE ~(e.changed \/ btb)
      <4> DEFINE z == [e EXCEPT !.thumb = 0]
                 r == [e EXCEPT !.thumb = 0, !.changed = FALSE]
      <4>1. (e.changed \/ btb) = FALSE
        BY <3>2
      <4>2. Settled(e) = [e EXCEPT !.thumb = 0, !.changed = e.changed \/ btb]
        BY <2>1, <2>3, Zenon DEF setThumbnailSize
      <4>3. Settled(e) = r
        BY <4>1, <4>2, Zenon
      <4>4. r \in Encoders
        <5>1. z \in Encoders
          BY DEF Encoders
        <5>2. r = [z EXCEPT !.changed = r.changed] /\ r.changed \in BOOLEAN
          BY DEF Encoders
        <5> HIDE DEF z, r
        <5> QED
          BY <5>1, <5>2 DEF Encoders
      <4>5. /\ r.pix = e.pix /\ r.inType = e.inType /\ r.hwfc = e.hwfc
            /\ r.thumbType = e.thumbType /\ r.thumb = 0
        BY DEF Encoders
      <4>6. r.noCreate = e.noCreate
        BY DEF Encoders
      <4>7. r.changed = FALSE
        BY DEF Encoders
      <4> HIDE DEF r
      <4>8. ~r.changed => ~e.changed /\ ~btb
        BY <3>2, <4>7
      <4> QED
        BY <1>2, <4>3, <4>4, <4>5, <4>6, <4>8, Zenon
    <3> QED
      BY <3>1, <3>2
  <2> QED
    BY <2>2, <2>3
<1>3. CASE shot.thumb # 0 /\ e.noCreate /\ e.thumbType = None
  BY <1>3 DEF Settled, Encoders
<1>4. CASE shot.thumb # 0 /\ ~(e.noCreate /\ e.thumbType = None)
  BY <1>4 DEF Settled, Encoders
<1> QED
  BY <1>1, <1>2, <1>3, <1>4

LEMMA EncodeTyped ==
  ASSUME TypeOK, Formed, Encode
  PROVE  TypeOK' /\ Formed'
<1> DEFINE o == [enc EXCEPT !.outType = shot.out]
           e == Settled(o)
           c == WithOut(hw["main"])
           a == Ensured(e, c)
<1>1. shot \in Shots /\ enc.pix \in DOMAIN Planes /\ shot.out \in Memory
  BY ShotType DEF Encode, Formed
<1>2. o \in Encoders /\ o.pix = enc.pix /\ o.changed = enc.changed
  BY <1>1 DEF TypeOK, Encoders
<1>3. e \in Encoders /\ e.pix = enc.pix /\ (~e.changed => ~enc.changed)
  BY <1>1, <1>2, SettledFields
<1>4. c \in Compressors /\ c.format = hw["main"].format
  BY <1>1, JpegFields DEF TypeOK, Session, WithOut, SameDriver
<1>5. /\ enc' = a.enc /\ hw' = [hw EXCEPT !["main"] = a.main]
      /\ at = "encode" /\ at' = "prepare"
      /\ UNCHANGED <<btb, images, buffers, call, thread, m_threadWorker, shot,
                     thumblen, result, excused>>
  BY DEF Encode, threadVars
<1> HIDE DEF o, e, c
<1>6. /\ a.enc = [e EXCEPT !.changed = FALSE] /\ a.enc \in Encoders
      /\ a.main \in Compressors /\ a.main.format # None
  BY <1>1, <1>3, <1>4, EnsuredFields, FormatType DEF Formed
<1> HIDE DEF a
<1>7. /\ hw' \in [Session -> Compressors] /\ hw'["main"].format # None
      /\ hw'["thumb"] = hw["thumb"]
  BY <1>5, <1>6 DEF TypeOK, Session
<1>8. enc' \in Encoders /\ ~enc'.changed /\ enc'.pix = enc.pix
  BY <1>3, <1>5, <1>6 DEF Encoders
<1>9. TypeOK'
  BY <1>5, <1>7, <1>8 DEF TypeOK
<1>10. ~Generating'
  BY <1>5 DEF Generating, Underway
<1> QED
  BY <1>1, <1>5, <1>7, <1>8, <1>9, <1>10 DEF Formed, Early

LEMMA EncodeRefusesTyped ==
  ASSUME TypeOK, Formed, EncodeRefuses
  PROVE  TypeOK' /\ Formed'
<1>1. shot \in Shots /\ enc.pix \in DOMAIN Planes /\ shot.out \in Memory
  BY ShotType DEF EncodeRefuses, Formed
<1>2. /\ WithOut(hw["main"]) \in Compressors
      /\ WithOut(hw["main"]).format = hw["main"].format
  BY <1>1, JpegFields DEF TypeOK, Session, WithOut, SameDriver
<1>3. /\ enc' = [enc EXCEPT !.outType = shot.out]
      /\ hw' = [hw EXCEPT !["main"] = WithOut(hw["main"])]
      /\ at = "encode" /\ at' = "idle" /\ result' = "failed" /\ excused' = TRUE
      /\ UNCHANGED <<btb, images, buffers, call, thread, m_threadWorker, shot,
                     thumblen>>
  BY DEF EncodeRefuses, threadVars, ShotEnds
<1>4. /\ hw' \in [Session -> Compressors]
      /\ hw'["main"].format = hw["main"].format /\ hw'["thumb"] = hw["thumb"]
  BY <1>2, <1>3 DEF TypeOK, Session
<1>5. enc' \in Encoders /\ enc'.changed = enc.changed /\ enc'.pix = enc.pix
  BY <1>1, <1>3 DEF TypeOK, Encoders
<1>6. TypeOK'
  BY <1>3, <1>4, <1>5 DEF TypeOK
<1>7. ~Generating'
  BY <1>3 DEF Generating, Underway
<1> QED
  BY <1>1, <1>3, <1>4, <1>5, <1>6, <1>7 DEF Formed
LEMMA StreamBufferType ==
  ASSUME TypeOK
  PROVE  /\ StreamBuffer(buffers) \in Buffers /\ BothBuffers(buffers) \in Buffers
         /\ NoStreamBuffer(buffers) \in Buffers
         /\ StreamBuffer(buffers).image = buffers.image
         /\ StreamBuffer(buffers).stream >= enc.thumb
         /\ StreamBuffer(buffers).stream >= buffers.stream
         /\ BothBuffers(buffers).image >= enc.thumb
         /\ buffers.image <= buffers.stream =>
              /\ BothBuffers(buffers).stream >= enc.thumb
              /\ BothBuffers(buffers).image <= BothBuffers(buffers).stream
<1>1. enc.thumb \in 0 .. 2
  BY DEF TypeOK, Encoders
<1>2. buffers \in Buffers
  BY DEF TypeOK
<1> DEFINE s == StreamBuffer(buffers)
<1>3. /\ s \in Buffers /\ s.image = buffers.image
      /\ s.stream >= enc.thumb /\ s.stream >= buffers.stream
  <2>1. CASE buffers.stream >= enc.thumb
    BY <1>1, <1>2, <2>1 DEF StreamBuffer, Buffers
  <2>2. CASE ~(buffers.stream >= enc.thumb)
    <3> DEFINE z == [buffers EXCEPT !.stream = enc.thumb]
    <3>1. s = [z EXCEPT !.holds = "stale"]
      BY <1>2, <2>2 DEF StreamBuffer, Buffers
    <3>2. z \in Buffers /\ z.image = buffers.image /\ z.stream = enc.thumb
      BY <1>1, <1>2 DEF Buffers
    <3> HIDE DEF z
    <3> QED
      BY <1>1, <1>2, <2>2, <3>1, <3>2 DEF Buffers
  <2> QED
    BY <2>1, <2>2
<1>4. NoStreamBuffer(buffers) \in Buffers
  <2> DEFINE z == [buffers EXCEPT !.stream = 0]
  <2>1. NoStreamBuffer(buffers) = [z EXCEPT !.holds = "stale"]
    BY <1>2 DEF NoStreamBuffer, Buffers
  <2>2. z \in Buffers
    BY <1>2 DEF Buffers
  <2> HIDE DEF z
  <2> QED
    BY <2>1, <2>2 DEF Buffers
<1> HIDE DEF s
<1>5. /\ BothBuffers(buffers) \in Buffers /\ BothBuffers(buffers).image >= enc.thumb
      /\ buffers.image <= buffers.stream =>
           /\ BothBuffers(buffers).stream >= enc.thumb
           /\ BothBuffers(buffers).image <= BothBuffers(buffers).stream
  <2>1. CASE buffers.image >= enc.thumb
    BY <1>1, <1>2, <2>1 DEF BothBuffers, Buffers
  <2>2. CASE ~(buffers.image >= enc.thumb)
    <3>1. BothBuffers(buffers) = [s EXCEPT !.image = enc.thumb]
      BY <2>2 DEF BothBuffers, s
    <3> QED
      BY <1>1, <1>2, <1>3, <3>1 DEF Buffers
  <2> QED
    BY <2>1, <2>2
<1> QED
  BY <1>3, <1>4, <1>5 DEF s

LEMMA SecondStreamFields ==
  ASSUME TypeOK
  PROVE  /\ SecondStream \in [Session -> Compressors]
         /\ SecondStream["thumb"] = hw["thumb"]
         /\ SameDriver(SecondStream["main"], hw["main"])
         /\ SecondStream["main"].src = hw["main"].src
         /\ SecondStream["main"].memory = hw["main"].memory
         /\ SecondStream["main"].flags =
              IF btb THEN hw["main"].flags \cup {"DST_BUFFER2"} ELSE hw["main"].flags
<1> DEFINE r == SetJpegBuffer2(hw["main"])
<1>1. /\ r \in Compressors /\ SameDriver(r, hw["main"])
      /\ r.src = hw["main"].src /\ r.memory = hw["main"].memory
      /\ r.flags = hw["main"].flags \cup {"DST_BUFFER2"}
  BY Jpeg2Fields DEF TypeOK, Session
<1>2. SecondStream = IF btb THEN [hw EXCEPT !["main"] = r] ELSE hw
  BY DEF SecondStream
<1>3. SameDriver(hw["main"], hw["main"])
  BY DEF SameDriver
<1> HIDE DEF r
<1> QED
  BY <1>1, <1>2, <1>3 DEF TypeOK, Session

LEMMA PrepareTyped ==
  ASSUME TypeOK, Formed,
         \/ NothingToPrepare \/ PrepareStream \/ PrepareFails
         \/ \E w \in Threads : StartThread(w)
  PROVE  TypeOK' /\ Formed'
<1> USE StreamBufferType, SecondStreamFields DEF SameDriver
<1>1. CASE NothingToPrepare
  <2>1. /\ at' = "compress" /\ shot' = shot /\ shot.thumb = 0
        /\ UNCHANGED <<btb, enc, images, hw, buffers, call, thread,
                       m_threadWorker, thumblen, result, excused>>
    BY <1>1 DEF NothingToPrepare, encoderVars, threadVars
  <2> QED
    BY <1>1, <2>1 DEF NothingToPrepare, TypeOK, Formed, Generating, Underway, Early
<1>2. CASE PrepareStream
  <2>1. /\ at' = "compress" /\ enc.noCreate /\ buffers' = StreamBuffer(buffers)
        /\ hw' = SecondStream
        /\ UNCHANGED <<btb, enc, images, call, thread, m_threadWorker, shot,
                       thumblen, result, excused>>
    BY <1>2 DEF PrepareStream, threadVars, IsThumbGenerationNeeded
  <2>2. TypeOK'
    BY <2>1 DEF TypeOK
  <2> QED
    BY <1>2, <2>1, <2>2 DEF PrepareStream, Formed, Generating, Early
<1>3. CASE PrepareFails
  <2>1. /\ at' = "idle" /\ result' = "failed" /\ excused' = TRUE
        /\ buffers' \in {buffers, NoStreamBuffer(buffers)}
        /\ UNCHANGED <<btb, enc, images, hw, call, thread, m_threadWorker, shot,
                       thumblen>>
    BY <1>3 DEF PrepareFails, threadVars, ShotEnds
  <2>2. TypeOK'
    BY <2>1 DEF TypeOK
  <2> QED
    BY <1>3, <2>1, <2>2 DEF PrepareFails, Formed, Generating, Underway
<1>4. ASSUME NEW w \in Threads, StartThread(w)
      PROVE  TypeOK' /\ Formed'
  <2>1. /\ at' = "compress" /\ at = "prepare"
        /\ thread' = [thread EXCEPT ![w] = [at |-> "scale", len |-> 0]]
        /\ m_threadWorker' = w /\ hw' = SecondStream
        /\ UNCHANGED <<btb, enc, images, buffers, call, shot, thumblen, result,
                       excused>>
    BY <1>4 DEF StartThread
  <2>2. [at |-> "scale", len |-> 0] \in ThreadStates
    BY DEF ThreadStates
  <2>3. /\ thread' \in [Threads -> ThreadStates \cup {None}] /\ thread'[w] # None
        /\ m_threadWorker' \in 0 .. MaxThreads
    BY <2>1, <2>2, NoneIsNoValue, ThumbConstants DEF TypeOK, Threads
  <2>4. TypeOK'
    BY <2>1, <2>3 DEF TypeOK
  <2> QED
    BY <2>1, <2>3, <2>4 DEF Formed, Generating, Early
<1> QED
  BY <1>1, <1>2, <1>3, <1>4

LEMMA MainTyped ==
  ASSUME TypeOK, Formed,
         \/ CompressMain \/ CompressMainFails
         \/ WaitForCompression \/ MainDone \/ MainFails
  PROVE  TypeOK' /\ Formed'
<1> DEFINE c == hw["main"]
<1>1. c \in Compressors /\ enc.hwfc \in BOOLEAN
  BY DEF TypeOK, Session, Encoders
<1>2. CASE CompressMain
  <2>1. /\ at = "compress" /\ at' = IF enc.hwfc THEN "returned" ELSE "wait"
        /\ hw' = [hw EXCEPT !["main"] = Compressed(c, enc.hwfc)]
        /\ UNCHANGED <<btb, enc, images, buffers, call, thread, m_threadWorker,
                       shot, thumblen, result, excused>>
    BY <1>2 DEF CompressMain, threadVars
  <2>2. c.format # None
    BY <2>1 DEF Formed, Early
  <2>3. Compressed(c, enc.hwfc) \in Compressors
        /\ Compressed(c, enc.hwfc).format = c.format
    BY <1>1, <2>2, CompressedFields DEF SameImages
  <2>4. /\ hw' \in [Session -> Compressors] /\ hw'["main"].format = c.format
        /\ hw'["thumb"] = hw["thumb"]
    BY <2>1, <2>3 DEF TypeOK, Session
  <2>5. TypeOK'
    BY <2>1, <2>4 DEF TypeOK
  <2> QED
    BY <2>1, <2>4, <2>5 DEF Formed, Generating, Underway, Early
<1>3. CASE CompressMainFails
  <2>1. PICK f \in CompressFailures(c, enc.hwfc, TRUE) :
           hw' = [hw EXCEPT !["main"] = f[1]] /\ excused' = (excused \/ f[2])
    BY <1>3 DEF CompressMainFails
  <2>2. /\ at = "compress" /\ at' = "idle" /\ result' = "failed"
        /\ UNCHANGED <<btb, enc, images, buffers, call, thread, m_threadWorker,
                       shot, thumblen>>
    BY <1>3 DEF CompressMainFails, ShotEnds, threadVars
  <2>3. c.format # None
    BY <2>2 DEF Formed, Early
  <2>4. f[1] \in Compressors /\ f[1].format = c.format
    BY <1>1, <2>3, FailedFields DEF SameImages
  <2>5. /\ hw' \in [Session -> Compressors] /\ hw'["main"].format = c.format
        /\ hw'["thumb"] = hw["thumb"]
    BY <2>1, <2>4 DEF TypeOK, Session
  <2>6. excused' \in BOOLEAN
    BY <2>1
  <2>7. TypeOK'
    BY <2>2, <2>5, <2>6 DEF TypeOK
  <2> QED
    BY <2>2, <2>5, <2>7 DEF Formed, Generating, Underway
<1>4. CASE WaitForCompression
  <2>1. /\ at = "returned" /\ at' = "wait"
        /\ UNCHANGED <<btb, enc, images, hw, buffers, call, thread,
                       m_threadWorker, shot, thumblen, result, excused>>
    BY <1>4 DEF WaitForCompression, encoderVars, threadVars
  <2> QED
    BY <2>1 DEF TypeOK, Formed, Generating, Underway, Early
<1>5. ASSUME NEW d \in {Dequeued(c)} \cup DequeueFailures(c),
             hw' = [hw EXCEPT !["main"] = d]
      PROVE  /\ hw' \in [Session -> Compressors] /\ hw'["thumb"] = hw["thumb"]
             /\ hw'["main"].format = c.format
  BY <1>1, <1>5, DequeuedFields, DequeueFailureFields DEF TypeOK, Session
<1>6. CASE MainDone
  <2>1. /\ at = "wait" /\ at' = "finish"
        /\ hw' = [hw EXCEPT !["main"] = Dequeued(c)]
        /\ thumblen' \in Lengths \/ thumblen' = thumblen
        /\ UNCHANGED <<btb, enc, images, call, thread, m_threadWorker, shot,
                       result, excused>>
    BY <1>6 DEF MainDone, threadVars
  <2>2. buffers' \in Buffers
    BY <1>6 DEF MainDone, TypeOK, Buffers, ThumbFrom
  <2>3. TypeOK'
    BY <1>5, <2>1, <2>2 DEF TypeOK
  <2> QED
    BY <1>5, <2>1, <2>3 DEF Formed, Generating, Underway, Early
<1>7. CASE MainFails
  <2>1. /\ at' = "idle" /\ result' = "failed" /\ excused' = TRUE
        /\ \E d \in DequeueFailures(c) : hw' = [hw EXCEPT !["main"] = d]
        /\ at = "wait"
        /\ UNCHANGED <<btb, enc, images, buffers, call, thread, m_threadWorker,
                       shot, thumblen>>
    BY <1>7 DEF MainFails, ShotEnds, threadVars
  <2>2. TypeOK'
    BY <1>5, <2>1 DEF TypeOK
  <2> QED
    BY <1>5, <2>1, <2>2 DEF Formed, Generating, Underway
<1> QED
  BY <1>2, <1>3, <1>4, <1>6, <1>7
-----------------------------------------------------------------------------
(* The calls of CompressThumbnailOnly.                                     *)
Callers == {Client} \cup Threads

ToldThumb(w) ==
  SetQuality(
    SetJpegBuffer(
      SetImageBuffer(Tried(hw["thumb"], ThumbFormat(w)),
                     ReadImages(call[w].memory), call[w].memory),
      "DMABUF"),
    "QFACTOR")

LEMMA ToldThumbFields ==
  ASSUME TypeOK, NEW w \in Callers, call[w] # None
  PROVE  LET c == hw["thumb"]
             f == ThumbFormat(w)
             r == ToldThumb(w)
         IN /\ r \in Compressors /\ f \in Formats /\ f # None
            /\ r.format = f /\ r.memory = Kinds(call[w].memory, "DMABUF")
            /\ r.flags = c.flags \cup {"SRC_BUFFER", "DST_BUFFER"} \cup
                           (IF f = c.format THEN {} ELSE {"PIX_FMT"})
            /\ r.planes = IF f = c.format THEN c.planes ELSE Planes[f.pix]
            /\ \A p \in SrcPlane :
                  p <= r.planes => r.src[p] = ReadImages(call[w].memory)[p]
            /\ r.controls = c.controls \cup {"QFACTOR"} /\ r.hwfc = c.hwfc
            /\ r.driver.stale = c.driver.stale \cup {"QFACTOR"}
            /\ r.driver.format = c.driver.format
            /\ r.driver.buffers = c.driver.buffers
            /\ r.driver.queued = c.driver.queued /\ r.driver.hwfc = c.driver.hwfc
<1> DEFINE c == hw["thumb"]
           f == ThumbFormat(w)
           read == ReadImages(call[w].memory)
           t == Tried(c, f)
           i == SetImageBuffer(t, read, call[w].memory)
           j == SetJpegBuffer(i, "DMABUF")
           r == SetQuality(j, "QFACTOR")
<1>1. c \in Compressors /\ call[w] \in Calls /\ call[w].memory \in Memory
  BY DEF TypeOK, Session, Callers, Calls
<1>2. f \in Formats /\ f # None
  BY <1>1, NoneIsNoFormat DEF ThumbFormat, TypeOK, Encoders, Calls, Formats
<1>3. read \in [1 .. 2 -> Contents]
  BY DEF ReadImages, TypeOK, Images, Contents
<1> HIDE DEF c, f, read
<1>4. /\ t \in Compressors
      /\ t.format = f /\ t.memory = c.memory
      /\ t.controls = c.controls /\ t.hwfc = c.hwfc /\ t.driver = c.driver
      /\ f = c.format => t = c
      /\ f # c.format => /\ t.flags = c.flags \cup {"PIX_FMT"}
                         /\ t.planes = Planes[f.pix]
  BY <1>1, <1>2, TriedFields
<1> HIDE DEF t
<1>5. /\ i \in Compressors /\ SameDriver(i, t)
      /\ i.flags = t.flags \cup {"SRC_BUFFER"}
      /\ i.memory = [t.memory EXCEPT !["src"] = call[w].memory]
      /\ \A p \in SrcPlane : i.src[p] = IF p <= t.planes THEN read[p] ELSE t.src[p]
  BY <1>1, <1>3, <1>4, ImageFields
<1> HIDE DEF i
<1>6. /\ j \in Compressors /\ SameDriver(j, i) /\ j.src = i.src
      /\ j.flags = i.flags \cup {"DST_BUFFER"}
      /\ j.memory = [i.memory EXCEPT !["dst"] = "DMABUF"]
  BY <1>5, JpegFields DEF Memory
<1> HIDE DEF j
<1>7. /\ r \in Compressors
      /\ r.flags = j.flags /\ r.format = j.format /\ r.planes = j.planes
      /\ r.memory = j.memory /\ r.src = j.src /\ r.hwfc = j.hwfc
      /\ r.driver.format = j.driver.format
      /\ r.driver.buffers = j.driver.buffers
      /\ r.driver.queued = j.driver.queued /\ r.driver.hwfc = j.driver.hwfc
      /\ r.controls = j.controls \cup {"QFACTOR"}
      /\ r.driver.stale = j.driver.stale \cup {"QFACTOR"}
  BY <1>6, QualityFields DEF Control
<1>8. ToldThumb(w) = r
  BY DEF ToldThumb, c, f, read, t, i, j
<1> HIDE DEF r
<1>9. r.memory = Kinds(call[w].memory, "DMABUF")
  <2>1. t.memory \in [Side -> Memory \cup {None}]
    BY <1>4 DEF Compressors
  <2> QED
    BY <1>5, <1>6, <1>7, <2>1 DEF Kinds, Side
<1>10. /\ j.planes = t.planes /\ j.controls = t.controls /\ j.hwfc = t.hwfc
       /\ j.driver = t.driver /\ j.format = t.format
  BY <1>5, <1>6 DEF SameDriver
<1>11. r.flags = c.flags \cup {"SRC_BUFFER", "DST_BUFFER"} \cup
                   (IF f = c.format THEN {} ELSE {"PIX_FMT"})
  BY <1>4, <1>5, <1>6, <1>7
<1>12. r.planes = IF f = c.format THEN c.planes ELSE Planes[f.pix]
  BY <1>4, <1>7, <1>10
<1>13. \A p \in SrcPlane : p <= r.planes => r.src[p] = read[p]
  BY <1>5, <1>6, <1>7, <1>10
<1>14. /\ r \in Compressors /\ f \in Formats /\ f # None /\ r.format = f
       /\ r.controls = c.controls \cup {"QFACTOR"} /\ r.hwfc = c.hwfc
       /\ r.driver.stale = c.driver.stale \cup {"QFACTOR"}
       /\ r.driver.format = c.driver.format
       /\ r.driver.buffers = c.driver.buffers
       /\ r.driver.queued = c.driver.queued /\ r.driver.hwfc = c.driver.hwfc
  BY <1>2, <1>4, <1>7, <1>10
<1> QED
  BY <1>8, <1>9, <1>11, <1>12, <1>13, <1>14 DEF c, f, read

LEMMA NewCallType ==
  ASSUME NEW limit \in 0 .. MaxThumb, NEW quality \in 20 .. 100,
         NEW pix \in DOMAIN Planes, NEW memory \in Memory
  PROVE  /\ NewCall(limit, quality, pix, memory) \in Calls
         /\ NewCall(limit, quality, pix, memory) # None
BY NoneIsNoValue DEF NewCall, Calls

(* A call that is still going on.                                          *)
LEMMA CallMoves ==
  ASSUME TypeOK, NEW w \in Callers, call[w] # None,
         NEW pc \in {"setup", "compress", "dequeue"},
         call' = [call EXCEPT ![w].at = pc]
  PROVE  /\ call' \in [Callers -> Calls \cup {None}]
         /\ call'[w] # None /\ call'[w].at = pc
         /\ call'[w].quality = call[w].quality
         /\ call'[w].limit = call[w].limit /\ call'[w].pix = call[w].pix
         /\ call'[w].memory = call[w].memory
         /\ \A v \in Callers : v # w => call'[v] = call[v]
<1>1. call \in [Callers -> Calls \cup {None}] /\ call[w] \in Calls
  BY DEF TypeOK, Callers
<1> DEFINE r == [call[w] EXCEPT !.at = pc]
<1>2. /\ r \in Calls /\ r.at = pc /\ r.quality = call[w].quality
      /\ r.limit = call[w].limit /\ r.pix = call[w].pix
      /\ r.memory = call[w].memory
  BY <1>1 DEF Calls
<1>3. call' = [call EXCEPT ![w] = r]
  BY <1>1
<1> HIDE DEF r
<1> QED
  BY <1>1, <1>2, <1>3, NoneIsNoValue

LEMMA CallAdvances ==
  ASSUME TypeOK, NEW w \in Callers, call[w] # None,
         NEW pc \in {"setup", "compress", "dequeue"}, NEW quality \in 20 .. 100,
         call' = [call EXCEPT ![w].at = pc, ![w].quality = quality]
  PROVE  /\ call' \in [Callers -> Calls \cup {None}]
         /\ call'[w] # None
         /\ call'[w].at = pc /\ call'[w].quality = quality
         /\ call'[w].limit = call[w].limit /\ call'[w].pix = call[w].pix
         /\ call'[w].memory = call[w].memory
         /\ \A v \in Callers : v # w => call'[v] = call[v]
<1>1. call \in [Callers -> Calls \cup {None}] /\ call[w] \in Calls
  BY DEF TypeOK, Callers
<1> DEFINE z == [call[w] EXCEPT !.at = pc]
           r == [z EXCEPT !.quality = quality]
<1>2. /\ z \in Calls /\ z.at = pc /\ z.limit = call[w].limit
      /\ z.pix = call[w].pix /\ z.memory = call[w].memory
  BY <1>1 DEF Calls
<1>3. call' = [call EXCEPT ![w] = r]
  BY <1>1
<1> HIDE DEF z
<1>4. /\ r \in Calls /\ r # None /\ r.at = pc /\ r.quality = quality /\ r.limit = call[w].limit
      /\ r.pix = call[w].pix /\ r.memory = call[w].memory
  BY <1>2, NoneIsNoValue DEF Calls
<1> HIDE DEF r
<1>5. call'[w] = r /\ \A v \in Callers : v # w => call'[v] = call[v]
  BY <1>1, <1>3
<1>6. call' \in [Callers -> Calls \cup {None}]
  BY <1>1, <1>3, <1>4
<1> QED
  BY <1>4, <1>5, <1>6

LEMMA ThreadEnds ==
  ASSUME TypeOK, NEW w \in Threads, NEW len \in {n \in Lengths : n <= MaxThumb} \cup {0},
         thread' = [thread EXCEPT ![w] = [at |-> "ended", len |-> len]]
  PROVE  /\ thread' \in [Threads -> ThreadStates \cup {None}]
         /\ thread'[w] # None /\ thread'[w].at = "ended" /\ thread'[w].len = len
         /\ \A v \in Threads : v # w => thread'[v] = thread[v]
<1> DEFINE r == [at |-> "ended", len |-> len]
<1>1. r \in ThreadStates /\ r # None /\ r.at = "ended" /\ r.len = len
  BY NoneIsNoValue DEF ThreadStates
<1> HIDE DEF r
<1>2. thread' = [thread EXCEPT ![w] = r]
  BY DEF r
<1> QED
  BY <1>1, <1>2 DEF TypeOK

LEMMA ReturnsFields ==
  ASSUME TypeOK, NEW w \in Callers, NEW len \in {n \in Lengths : n <= MaxThumb} \cup {0},
         Returns(w, len)
  PROVE  /\ call' \in [Callers -> Calls \cup {None}]
         /\ call'[w] = None /\ \A v \in Callers : v # w => call'[v] = call[v]
         /\ thread' \in [Threads -> ThreadStates \cup {None}]
         /\ thumblen' \in Lengths \cup {0}
         /\ w = Client =>
              /\ thumblen' = len /\ thread' = thread
              /\ at' = IF at = "again" THEN "retried" ELSE "check"
         /\ w # Client =>
              /\ thread'[w] # None /\ thread'[w].at = "ended" /\ thread'[w].len = len
              /\ \A v \in Threads : v # w => thread'[v] = thread[v]
              /\ at' = at /\ thumblen' = thumblen
<1>1. /\ call' \in [Callers -> Calls \cup {None}]
      /\ call'[w] = None /\ \A v \in Callers : v # w => call'[v] = call[v]
  BY DEF Returns, TypeOK, Callers
<1>2. CASE w = Client
  BY <1>1, <1>2 DEF Returns, TypeOK
<1>3. CASE w # Client
  <2>1. w \in Threads
    BY <1>3 DEF Callers
  <2>2. /\ thread' = [thread EXCEPT ![w] = [at |-> "ended", len |-> len]]
        /\ at' = at /\ thumblen' = thumblen
    BY <1>3 DEF Returns
  <2> QED
    BY <1>1, <1>3, <2>1, <2>2, ThreadEnds DEF TypeOK
<1> QED
  BY <1>2, <1>3
LEMMA CallersApart == Client \notin Threads /\ Threads \subseteq Callers
BY ThumbConstants DEF Callers, Threads

LEMMA SetUpTyped ==
  ASSUME TypeOK, Formed, NEW w \in Callers, SetUp(w)
  PROVE  TypeOK' /\ Formed'
<1>1. /\ call[w] # None /\ call' = [call EXCEPT ![w].at = "compress"]
      /\ hw' = [hw EXCEPT !["thumb"] = ToldThumb(w)]
      /\ UNCHANGED <<btb, enc, images, buffers, thread, m_threadWorker,
                     at, shot, thumblen, result, excused>>
  BY DEF SetUp, ToldThumb, shotVars
<1>2. ToldThumb(w) \in Compressors /\ ToldThumb(w).format # None
  BY <1>1, ToldThumbFields
<1>3. /\ hw' \in [Session -> Compressors] /\ hw'["main"] = hw["main"]
      /\ hw'["thumb"].format # None
  BY <1>1, <1>2 DEF TypeOK, Session
<1>4. /\ call' \in [Callers -> Calls \cup {None}] /\ call'[w] # None
      /\ \A v \in Callers : v # w => call'[v] = call[v]
  BY <1>1, CallMoves
<1>5. TypeOK'
  BY <1>1, <1>3, <1>4 DEF TypeOK, Callers
<1> QED
  BY <1>1, <1>3, <1>4, <1>5 DEF Formed, Generating, Callers

LEMMA ReturnTyped ==
  ASSUME TypeOK, Formed, NEW w \in Callers, call[w] # None,
         NEW len \in {n \in Lengths : n <= MaxThumb} \cup {0}, Returns(w, len),
         hw' \in [Session -> Compressors], hw'["main"] = hw["main"],
         hw'["thumb"].format # None, excused' \in BOOLEAN, buffers' \in Buffers,
         UNCHANGED <<btb, enc, images, m_threadWorker, shot, result>>
  PROVE  TypeOK' /\ Formed'
<1>1. /\ call' \in [Callers -> Calls \cup {None}] /\ call'[w] = None
      /\ \A v \in Callers : v # w => call'[v] = call[v]
      /\ thread' \in [Threads -> ThreadStates \cup {None}]
      /\ thumblen' \in Lengths \cup {0}
  BY ReturnsFields
<1>2. CASE w = Client
  <2>1. /\ thread' = thread /\ at \in {"thumb", "again"}
        /\ at' \in {"check", "retried"}
    BY <1>2, ReturnsFields DEF Formed
  <2>2. TypeOK'
    BY <1>1, <2>1 DEF TypeOK, Callers
  <2>3. ~Generating'
    BY <2>1 DEF Generating, Underway
  <2> QED
    BY <1>1, <1>2, <2>1, <2>2, <2>3 DEF Formed, Callers, Early
<1>3. CASE w # Client
  <2>1. /\ at' = at /\ w \in Threads /\ thread'[w] # None
        /\ \A v \in Threads : v # w => thread'[v] = thread[v]
    BY <1>3, ReturnsFields DEF Callers
  <2>2. TypeOK'
    BY <1>1, <2>1 DEF TypeOK, Callers
  <2>3. shot \in Shots
    BY <2>1 DEF Formed
  <2> QED
    BY <1>1, <1>3, <2>1, <2>2, <2>3 DEF Formed, Generating, Callers
<1> QED
  BY <1>2, <1>3

LEMMA CompressThumbTyped ==
  ASSUME TypeOK, Formed, NEW w \in Callers,
         CompressThumb(w) \/ CompressThumbFails(w)
  PROVE  TypeOK' /\ Formed'
<1> DEFINE c == hw["thumb"]
<1>1. /\ call[w] # None /\ call[w].at = "compress" /\ c \in Compressors
      /\ c.format # None
  BY DEF CompressThumb, CompressThumbFails, Formed, TypeOK, Session, Callers
<1>2. CASE CompressThumb(w)
  <2>1. /\ call' = [call EXCEPT ![w].at = "dequeue"]
        /\ hw' = [hw EXCEPT !["thumb"] = Compressed(c, FALSE)]
        /\ UNCHANGED <<btb, enc, images, buffers, thread, m_threadWorker,
                       at, shot, thumblen, result, excused>>
    BY <1>2 DEF CompressThumb, shotVars
  <2>2. Compressed(c, FALSE) \in Compressors /\ Compressed(c, FALSE).format = c.format
    BY <1>1, CompressedFields DEF SameImages
  <2>3. /\ hw' \in [Session -> Compressors] /\ hw'["main"] = hw["main"]
        /\ hw'["thumb"].format # None
    BY <1>1, <2>1, <2>2 DEF TypeOK, Session
  <2>4. /\ call' \in [Callers -> Calls \cup {None}] /\ call'[w] # None
        /\ \A v \in Callers : v # w => call'[v] = call[v]
    BY <1>1, <2>1, CallMoves
  <2>5. TypeOK'
    BY <2>1, <2>3, <2>4 DEF TypeOK, Callers
  <2> QED
    BY <1>1, <2>1, <2>3, <2>4, <2>5 DEF Formed, Generating, Callers
<1>3. CASE CompressThumbFails(w)
  <2>1. PICK f \in CompressFailures(c, FALSE, HasStream) :
           hw' = [hw EXCEPT !["thumb"] = f[1]] /\ excused' = (excused \/ f[2])
    BY <1>3 DEF CompressThumbFails
  <2>2. /\ Returns(w, 0)
        /\ UNCHANGED <<btb, enc, images, buffers, m_threadWorker, shot, result>>
    BY <1>3 DEF CompressThumbFails
  <2>3. f[1] \in Compressors /\ f[1].format = c.format
    BY <1>1, FailedFields DEF SameImages
  <2>4. /\ hw' \in [Session -> Compressors] /\ hw'["main"] = hw["main"]
        /\ hw'["thumb"].format # None
    BY <1>1, <2>1, <2>3 DEF TypeOK, Session
  <2>5. excused' \in BOOLEAN
    BY <2>1
  <2> QED
    <3>1. buffers' \in Buffers
      BY <2>2 DEF TypeOK
    <3> QED
      BY <1>1, <2>2, <2>4, <2>5, <3>1, ReturnTyped
<1> QED
  BY <1>2, <1>3

LEMMA ThumbDoneTyped ==
  ASSUME TypeOK, Formed, NEW w \in Callers, ThumbDone(w) \/ ThumbFails(w)
  PROVE  TypeOK' /\ Formed'
<1> DEFINE c == hw["thumb"]
           again == NextQuality(call[w].quality)
<1>1. /\ call[w] # None /\ call[w].at = "dequeue" /\ c \in Compressors
      /\ c.format # None /\ call[w] \in Calls
  BY DEF ThumbDone, ThumbFails, Formed, TypeOK, Session, Callers
<1>2. Dequeued(c) \in Compressors /\ Dequeued(c).format = c.format
  BY <1>1, DequeuedFields
<1>3. ASSUME NEW d, d \in Compressors, d.format = c.format,
             hw' = [hw EXCEPT !["thumb"] = d]
      PROVE  /\ hw' \in [Session -> Compressors] /\ hw'["main"] = hw["main"]
             /\ hw'["thumb"].format # None
  BY <1>1, <1>3 DEF TypeOK, Session
<1>4. CASE ThumbFails(w)
  <2>1. /\ Returns(w, 0) /\ excused' = TRUE
        /\ UNCHANGED <<btb, enc, images, buffers, m_threadWorker, shot, result>>
    BY <1>4 DEF ThumbFails
  <2>2. PICK d \in DequeueFailures(c) : hw' = [hw EXCEPT !["thumb"] = d]
    BY <1>4 DEF ThumbFails
  <2>3. d \in Compressors /\ d.format = c.format
    BY <1>1, DequeueFailureFields
  <2> QED
    <3>1. buffers' \in Buffers
      BY <2>1 DEF TypeOK
    <3> QED
      BY <1>1, <1>3, <2>1, <2>2, <2>3, <3>1, ReturnTyped
<1>5. CASE ThumbDone(w)
  <2>1. buffers' \in Buffers
    BY <1>5 DEF ThumbDone, TypeOK, Buffers, ThumbFrom
  <2>2. UNCHANGED <<btb, enc, images, m_threadWorker, shot, result>>
    BY <1>5 DEF ThumbDone
  <2>3. PICK len \in Lengths :
          \/ /\ len <= call[w].limit
             /\ hw' = [hw EXCEPT !["thumb"] = Dequeued(c)]
             /\ Returns(w, len) /\ UNCHANGED excused
          \/ /\ len > call[w].limit /\ again >= 20
             /\ hw' = [hw EXCEPT !["thumb"] = SetQuality(Dequeued(c), "QFACTOR")]
             /\ call' = [call EXCEPT ![w].at = "compress", ![w].quality = again]
             /\ UNCHANGED <<thread, at, thumblen, excused>>
          \/ /\ len > call[w].limit /\ again < 20
             /\ hw' = [hw EXCEPT !["thumb"] = Dequeued(c)]
             /\ Returns(w, 0) /\ excused' = TRUE
    BY <1>5 DEF ThumbDone
  <2>4. len \in Nat /\ call[w].limit \in 0 .. MaxThumb /\ MaxThumb \in Nat
    BY <1>1, ThumbConstants DEF Calls
  <2>5. CASE len <= call[w].limit /\ Returns(w, len) /\ UNCHANGED excused
             /\ hw' = [hw EXCEPT !["thumb"] = Dequeued(c)]
    <3>1. len \in {n \in Lengths : n <= MaxThumb} \cup {0}
      BY <2>4, <2>5
    <3>2. excused' \in BOOLEAN
      BY <2>5 DEF TypeOK
    <3> QED
      BY <1>1, <1>2, <1>3, <2>1, <2>2, <2>5, <3>1, <3>2, ReturnTyped
  <2>6. CASE Returns(w, 0) /\ excused' = TRUE
             /\ hw' = [hw EXCEPT !["thumb"] = Dequeued(c)]
    BY <1>1, <1>2, <1>3, <2>1, <2>2, <2>6, ReturnTyped
  <2>7. CASE /\ again >= 20
             /\ hw' = [hw EXCEPT !["thumb"] = SetQuality(Dequeued(c), "QFACTOR")]
             /\ call' = [call EXCEPT ![w].at = "compress", ![w].quality = again]
             /\ UNCHANGED <<thread, at, thumblen, excused>>
    <3>1. again \in 20 .. 100
      BY <1>1, <2>7 DEF NextQuality, LeastOf, Calls
    <3>2. /\ call' \in [Callers -> Calls \cup {None}] /\ call'[w] # None
          /\ \A v \in Callers : v # w => call'[v] = call[v]
      BY <1>1, <2>7, <3>1, CallAdvances
    <3>3. /\ SetQuality(Dequeued(c), "QFACTOR") \in Compressors
          /\ SetQuality(Dequeued(c), "QFACTOR").format = c.format
      BY <1>2, QualityFields DEF Control
    <3>4. /\ hw' \in [Session -> Compressors] /\ hw'["main"] = hw["main"]
          /\ hw'["thumb"].format # None
      BY <1>3, <2>7, <3>3
    <3>5. TypeOK'
      BY <2>1, <2>2, <2>7, <3>2, <3>4 DEF TypeOK, Callers
    <3> QED
      BY <1>1, <2>2, <2>7, <3>2, <3>4, <3>5 DEF Formed, Generating, Callers
  <2> QED
    BY <2>3, <2>5, <2>6, <2>7
<1> QED
  BY <1>4, <1>5

LEMMA ScaleTyped ==
  ASSUME TypeOK, Formed, NEW w \in Threads, Scale(w) \/ ScaleFails(w)
  PROVE  TypeOK' /\ Formed'
<1>1. /\ thread[w] # None /\ thread[w].at = "scale" /\ thread[w] \in ThreadStates
      /\ shot \in Shots /\ enc.pix \in DOMAIN Planes
  BY DEF Scale, ScaleFails, Formed, TypeOK
<1>2. CASE Scale(w)
  <2>1. /\ buffers' = BothBuffers(buffers)
        /\ thread' = [thread EXCEPT ![w].at = "compress"]
        /\ call' = [call EXCEPT ![w] = NewCall(MaxThumb, Quality,
                                         GetThumbnailFormat(enc.pix), "DMABUF")]
        /\ UNCHANGED <<btb, enc, hw, m_threadWorker, at, shot, thumblen, result,
                       excused>>
    BY <1>2 DEF Scale, shotVars
  <2>2. images' \in Images
    BY <1>2 DEF Scale, Images, Memory, Contents, ScaledFrom
  <2>3. thread' \in [Threads -> ThreadStates \cup {None}] /\ thread'[w] # None
        /\ \A v \in Threads : v # w => thread'[v] = thread[v]
    <3>1. [thread[w] EXCEPT !.at = "compress"] \in ThreadStates
      BY <1>1 DEF ThreadStates
    <3> QED
      BY <2>1, <3>1, NoneIsNoValue DEF TypeOK
  <2> DEFINE new == NewCall(MaxThumb, Quality, GetThumbnailFormat(enc.pix), "DMABUF")
  <2>4. new \in Calls /\ new.at = "setup"
    <3>1. MaxThumb \in 0 .. MaxThumb /\ Quality \in 20 .. 100
      BY ThumbConstants
    <3> QED
      BY <1>1, <3>1, NewCallType, ThumbnailFormats DEF Memory, NewCall
  <2> HIDE DEF new
  <2>5. /\ call' \in [Callers -> Calls \cup {None}] /\ call'[w].at = "setup"
        /\ \A v \in Callers : v # w => call'[v] = call[v]
    BY <2>1, <2>4, CallersApart DEF TypeOK, Callers, new
  <2>6. TypeOK'
    BY <2>1, <2>2, <2>3, <2>5, StreamBufferType DEF TypeOK, Callers
  <2> QED
    BY <1>1, <2>1, <2>3, <2>5, <2>6, CallersApart DEF Formed, Generating, Callers
<1>3. CASE ScaleFails(w)
  <2>1. /\ thread' = [thread EXCEPT ![w] = [at |-> "ended", len |-> 0]]
        /\ excused' = TRUE
        /\ UNCHANGED <<btb, enc, images, hw, call, m_threadWorker, at, shot,
                       thumblen, result>>
    BY <1>3 DEF ScaleFails
  <2>2. buffers' \in Buffers
    <3>1. /\ BothBuffers(buffers) \in Buffers /\ NoStreamBuffer(buffers) \in Buffers
          /\ enc.thumb \in 0 .. 2
      BY StreamBufferType DEF TypeOK, Encoders
    <3> DEFINE n == NoStreamBuffer(buffers)
    <3>2. \/ buffers' = BothBuffers(buffers)
          \/ buffers' = [buffers EXCEPT !.image = 0]
          \/ buffers' = [n EXCEPT !.image = enc.thumb]
      BY <1>3 DEF ScaleFails
    <3> HIDE DEF n
    <3>3. n \in Buffers
      BY <3>1 DEF n
    <3> QED
      BY <3>1, <3>2, <3>3 DEF TypeOK, Buffers
  <2>3. thread' \in [Threads -> ThreadStates \cup {None}] /\ thread'[w] # None
        /\ \A v \in Threads : v # w => thread'[v] = thread[v]
    BY <2>1, ThreadEnds
  <2>4. TypeOK'
    BY <2>1, <2>2, <2>3 DEF TypeOK
  <2> QED
    BY <1>1, <2>1, <2>3, <2>4 DEF Formed, Generating
<1> QED
  BY <1>2, <1>3

LEMMA FinishTyped ==
  ASSUME TypeOK, Formed, Finishes
  PROVE  TypeOK' /\ Formed'
<1>1. CASE FinishesWithout
  <2>1. /\ at' = "idle" /\ result' = "okay" /\ thumblen' = 0 /\ at = "finish"
        /\ UNCHANGED <<btb, enc, images, hw, buffers, call, thread,
                       m_threadWorker, shot, excused>>
    BY <1>1 DEF FinishesWithout, ShotEnds, encoderVars, threadVars
  <2> QED
    BY <2>1 DEF TypeOK, Formed, Generating, Underway
<1>2. CASE JoinThread
  <2>1. /\ at = "finish" /\ Generating
    BY <1>2 DEF JoinThread, Generating, Underway, IsThumbGenerationNeeded
  <2>2. m_threadWorker \in Threads /\ thread[m_threadWorker] \in ThreadStates
    BY <2>1 DEF Formed, TypeOK
  <2>3. /\ thumblen' = thread[m_threadWorker].len /\ at' = "check"
        /\ thread' = [thread EXCEPT ![m_threadWorker] = None]
        /\ UNCHANGED <<btb, enc, images, hw, buffers, call, m_threadWorker, shot,
                       result, excused>>
    BY <1>2 DEF JoinThread, encoderVars
  <2>4. thumblen' \in Lengths \cup {0}
    BY <2>2, <2>3 DEF ThreadStates
  <2>5. TypeOK'
    BY <2>2, <2>3, <2>4 DEF TypeOK
  <2> QED
    BY <2>1, <2>2, <2>3, <2>5 DEF Formed, Generating, Underway, TypeOK, Early
<1>3. ASSUME CompressGiven \/ CompressAgain
      PROVE  TypeOK' /\ Formed'
  <2>1. PICK limit \in 0 .. MaxThumb, quality \in 20 .. 100 :
           call' = [call EXCEPT ![Client] =
                      NewCall(limit, quality, enc.pix, enc.inType)]
    <3>1. CASE CompressGiven
      <4>1. MaxThumb \in 0 .. MaxThumb /\ Quality \in 20 .. 100
        BY ThumbConstants
      <4> QED
        BY <3>1, <4>1 DEF CompressGiven
    <3>2. CASE CompressAgain
      <4>1. shot \in Shots
        BY <3>2 DEF CompressAgain, Formed
      <4>2. MaxThumbHere \in 0 .. MaxThumb /\ 50 \in 20 .. 100
        BY <4>1, ShotType, ThumbConstants DEF MaxThumbHere, LeastOf
      <4> QED
        BY <3>2, <4>2 DEF CompressAgain
    <3> QED
      BY <1>3, <3>1, <3>2
  <2>2. /\ at \in {"finish", "check"} /\ at' \in {"thumb", "again"}
        /\ UNCHANGED <<btb, enc, images, hw, buffers, thread, m_threadWorker,
                       shot, thumblen, result, excused>>
    BY <1>3 DEF CompressGiven, CompressAgain, encoderVars
  <2> DEFINE new == NewCall(limit, quality, enc.pix, enc.inType)
  <2>3. new \in Calls /\ new.at = "setup"
    <3>1. enc.pix \in DOMAIN Planes /\ enc.inType \in Memory
      BY <2>2 DEF Formed, TypeOK, Encoders
    <3> QED
      BY <3>1, NewCallType DEF NewCall
  <2> HIDE DEF new
  <2>4. /\ call' \in [Callers -> Calls \cup {None}] /\ call'[Client].at = "setup"
        /\ \A v \in Callers : v # Client => call'[v] = call[v]
    BY <2>1, <2>3 DEF TypeOK, Callers, new
  <2>5. TypeOK'
    BY <2>2, <2>4 DEF TypeOK, Callers
  <2> QED
    BY <2>2, <2>4, <2>5 DEF Formed, Generating, Underway, Early, Callers
<1>4. CASE CompressedTogether
  <2>1. /\ at = "finish" /\ at' = "check" /\ enc.noCreate
        /\ UNCHANGED <<btb, enc, images, hw, buffers, call, thread,
                       m_threadWorker, shot, thumblen, result, excused>>
    BY <1>4 DEF CompressedTogether, encoderVars, threadVars, IsThumbGenerationNeeded
  <2> QED
    BY <2>1 DEF TypeOK, Formed, Generating, Early
<1>5. CASE Embed \/ RetryFails
  <2>1. /\ at' = "idle" /\ result' \in {"okay", "failed"} /\ at \in {"check", "retried"}
        /\ UNCHANGED <<btb, enc, images, hw, buffers, call, thread,
                       m_threadWorker, shot, thumblen, excused>>
    BY <1>5 DEF Embed, RetryFails, ShotEnds, encoderVars, threadVars
  <2> QED
    BY <2>1 DEF TypeOK, Formed, Generating, Underway
<1> QED
  BY <1>1, <1>2, <1>3, <1>4, <1>5 DEF Finishes

LEMMA NextTyped ==
  ASSUME TypeOK, Formed, [Next]_vars
  PROVE  TypeOK' /\ Formed'
<1>1. ASSUME NEW s \in Shots, Ask(s) PROVE TypeOK' /\ Formed'
  BY <1>1, AskTyped
<1>2. CASE SetsUp
  BY <1>2, SetInBufTyped, SetInBuf2Typed DEF SetsUp
<1>3. CASE Encodes
  BY <1>3, EncodeTyped, EncodeRefusesTyped, PrepareTyped, MainTyped DEF Encodes
<1>4. CASE Finishes
  BY <1>4, FinishTyped
<1>5. ASSUME NEW w \in Callers, CompressThumbnailOnly(w) PROVE TypeOK' /\ Formed'
  BY <1>5, SetUpTyped, CompressThumbTyped, ThumbDoneTyped DEF CompressThumbnailOnly
<1>6. ASSUME NEW w \in Threads, tCompressThumbnail(w) PROVE TypeOK' /\ Formed'
  BY <1>5, <1>6, ScaleTyped, CallersApart DEF tCompressThumbnail
<1>7. CASE UNCHANGED vars
  BY <1>7 DEF vars, encoderVars, threadVars, shotVars, TypeOK, Formed, Generating
<1>8. Client \in Callers
  BY DEF Callers
<1> QED
  BY <1>1, <1>2, <1>3, <1>4, <1>5, <1>6, <1>7, <1>8 DEF Next, ClientStep

(* The settings, the sessions, the buffers and the calls of a shot keep    *)
(* their types, whatever the client asks for and whatever fails.           *)
THEOREM JpegTypeCorrect == Spec => []TypeOK
<1>1. Spec => [](TypeOK /\ Formed)
  BY CameraInit, NextTyped, PTL DEF Spec
<1> QED
  BY <1>1, PTL
-----------------------------------------------------------------------------
(* A session keeps knowing its driver.                                     *)
SameFlags(r, c) ==
  /\ "PIX_FMT" \in r.flags <=> "PIX_FMT" \in c.flags
  /\ "REQBUFS" \in r.flags <=> "REQBUFS" \in c.flags

LEMMA KnownSame ==
  ASSUME NEW s \in Session, NEW c, NEW r, SessionKnown(s, c),
         SameDriver(r, c), SameFlags(r, c)
  PROVE  SessionKnown(s, r)
BY DEF SessionKnown, Known, RequestedFor, SameDriver, SameFlags

LEMMA KnownFrom ==
  ASSUME NEW s \in Session, NEW c, NEW r, SessionKnown(s, c), Known(r),
         r.format = c.format,
         \A k : RequestedFor(c, k) => RequestedFor(r, k)
  PROVE  SessionKnown(s, r)
<1> USE DEF SessionKnown
<1>1. ASSUME NEW u \in Shots, Uses(s, u), r.format # None,
             r.format.pix = PixOf(s, u)
      PROVE  RequestedFor(r, KindsOf(s, u))
  <2>1. c.format # None /\ c.format.pix = PixOf(s, u)
    BY <1>1
  <2>2. RequestedFor(c, KindsOf(s, u))
    BY <1>1, <2>1
  <2> QED
    BY <2>2
<1> QED
  BY <1>1

LEMMA KnownTried ==
  ASSUME NEW s \in Session, NEW c \in Compressors, NEW f \in Formats,
         SessionKnown(s, c)
  PROVE  SessionKnown(s, Tried(c, f))
<1> DEFINE r == Tried(c, f)
<1>1. CASE f = c.format
  BY <1>1, TriedFields
<1>2. CASE f # c.format
  <2>1. /\ r.format = f /\ r.controls = c.controls /\ r.hwfc = c.hwfc
        /\ r.driver = c.driver /\ "PIX_FMT" \in r.flags
        /\ r.planes = Planes[f.pix]
    BY <1>2, TriedFields
  <2> HIDE DEF r
  <2>2. Known(r)
    BY <2>1 DEF SessionKnown, Known
  <2>3. \A k : RequestedFor(r, k)
    BY <2>1 DEF RequestedFor
  <2>4. SessionKnown(s, r)
    BY <2>2, <2>3 DEF SessionKnown
  <2> QED
    BY <2>4 DEF r
<1> QED
  BY <1>1, <1>2

LEMMA KnownQuality ==
  ASSUME NEW s \in Session, NEW c \in Compressors, NEW control \in Control,
         SessionKnown(s, c)
  PROVE  SessionKnown(s, SetQuality(c, control))
<1> DEFINE r == SetQuality(c, control)
<1>1. /\ r.flags = c.flags /\ r.format = c.format /\ r.planes = c.planes
      /\ r.hwfc = c.hwfc /\ r.driver.format = c.driver.format
      /\ r.driver.buffers = c.driver.buffers /\ r.driver.hwfc = c.driver.hwfc
      /\ r.controls = c.controls \cup {control}
      /\ r.driver.stale = c.driver.stale \cup {control}
  BY QualityFields
<1> HIDE DEF r
<1>2. Known(r)
  BY <1>1 DEF SessionKnown, Known
<1>3. \A k : RequestedFor(c, k) => RequestedFor(r, k)
  BY <1>1 DEF RequestedFor
<1>4. SessionKnown(s, r)
  BY <1>1, <1>2, <1>3, KnownFrom
<1> QED
  BY <1>4 DEF r

LEMMA KnownDequeued ==
  ASSUME NEW s \in Session, NEW c \in Compressors, SessionKnown(s, c),
         NEW r \in {Dequeued(c)} \cup DequeueFailures(c)
  PROVE  SessionKnown(s, r)
<1>1. /\ r.flags = c.flags \ {"QBUF"} /\ r.format = c.format
      /\ r.planes = c.planes /\ r.hwfc = c.hwfc /\ r.controls = c.controls
      /\ r.driver.format = c.driver.format
      /\ r.driver.buffers = c.driver.buffers
      /\ r.driver.stale = c.driver.stale /\ r.driver.hwfc = c.driver.hwfc
  BY DequeuedFields, DequeueFailureFields
<1>2. Known(r)
  BY <1>1 DEF SessionKnown, Known
<1>3. \A k : RequestedFor(c, k) => RequestedFor(r, k)
  BY <1>1 DEF RequestedFor
<1> QED
  BY <1>1, <1>2, <1>3, KnownFrom

(* It is told what the shot needs: the buffers the driver has, or is asked *)
(* for, are of the kinds it is given.                                      *)
LEMMA KnownPrepared ==
  ASSUME KindFollowsFormat, NEW s \in Session, NEW u \in Shots, Uses(s, u),
         NEW c \in Compressors, c.format # None, c.format.pix = PixOf(s, u),
         c.memory = KindsOf(s, u), SessionKnown(s, c), NEW hwfc \in BOOLEAN
  PROVE  LET p == Prepared(c, hwfc)
         IN /\ SessionKnown(s, p) /\ p.driver.buffers = c.memory
            /\ "PIX_FMT" \notin p.flags /\ p.driver.stale = {}
            /\ p.driver.hwfc = hwfc
<1> DEFINE p == Prepared(c, hwfc)
<1>1. /\ p \in Compressors /\ SameImages(p, c)
      /\ "PIX_FMT" \notin p.flags /\ p.controls = {} /\ p.hwfc = hwfc
      /\ p.planes = IF "PIX_FMT" \in c.flags THEN Planes[c.format.pix]
                    ELSE c.planes
      /\ p.driver.stale = c.driver.stale \ c.controls
      /\ p.driver.hwfc = IF c.hwfc = hwfc THEN c.driver.hwfc ELSE hwfc
      /\ \A side \in Side :
            p.driver.format[side] = IF "PIX_FMT" \in c.flags THEN c.format
                                    ELSE c.driver.format[side]
      /\ p.driver.buffers = IF "REQBUFS" \in c.flags /\ "PIX_FMT" \notin c.flags
                            THEN c.driver.buffers ELSE c.memory
  <2>1. /\ p \in Compressors /\ SameImages(p, c)
        /\ "PIX_FMT" \notin p.flags /\ p.controls = {} /\ p.hwfc = hwfc
    BY PreparedFields
  <2>2. p.planes = IF "PIX_FMT" \in c.flags THEN Planes[c.format.pix] ELSE c.planes
    BY PreparedFields
  <2>3. p.driver.stale = c.driver.stale \ c.controls
    BY PreparedFields
  <2>4. p.driver.hwfc = IF c.hwfc = hwfc THEN c.driver.hwfc ELSE hwfc
    BY PreparedFields
  <2>5. \A side \in Side :
           p.driver.format[side] = IF "PIX_FMT" \in c.flags THEN c.format
                                   ELSE c.driver.format[side]
    BY PreparedFields
  <2>6. p.driver.buffers = IF "REQBUFS" \in c.flags /\ "PIX_FMT" \notin c.flags
                           THEN c.driver.buffers ELSE c.memory
    BY PreparedFields
  <2> QED
    BY <2>1, <2>2, <2>3, <2>4, <2>5, <2>6
<1> HIDE DEF p
<1>2. p.format = c.format
  BY <1>1 DEF SameImages
<1>3. "REQBUFS" \in c.flags /\ "PIX_FMT" \notin c.flags => c.driver.buffers = KindsOf(s, u)
  BY DEF SessionKnown, RequestedFor
<1>4. p.driver.buffers = c.memory
  BY <1>1, <1>3
<1>5. p.driver.stale = {} /\ p.driver.hwfc = hwfc
  BY <1>1 DEF SessionKnown, Known
<1>6. p.planes = Planes[c.format.pix]
  BY <1>1 DEF SessionKnown, Known
<1>7. \A side \in Side : p.driver.format[side] = c.format
  BY <1>1 DEF SessionKnown, Known
<1>8. Known(p)
  BY <1>1, <1>2, <1>5, <1>6, <1>7 DEF Known
<1>9. \A v \in Shots : Uses(s, v) /\ p.format.pix = PixOf(s, v)
                         => p.driver.buffers = KindsOf(s, v)
  BY <1>2, <1>4 DEF KindFollowsFormat
<1>10. SessionKnown(s, p)
  BY <1>8, <1>9 DEF SessionKnown, RequestedFor
<1> QED
  BY <1>1, <1>4, <1>5, <1>10 DEF p

LEMMA KnownCompressed ==
  ASSUME KindFollowsFormat, NEW s \in Session, NEW u \in Shots, Uses(s, u),
         NEW c \in Compressors, c.format # None, c.format.pix = PixOf(s, u),
         c.memory = KindsOf(s, u), SessionKnown(s, c), NEW hwfc \in BOOLEAN
  PROVE  LET r == Compressed(c, hwfc)
         IN /\ SessionKnown(s, r)
            /\ "PIX_FMT" \notin r.flags /\ r.driver.stale = {}
            /\ r.driver.hwfc = hwfc
<1> DEFINE r == Compressed(c, hwfc)
           p == Prepared(c, hwfc)
<1>1. /\ SessionKnown(s, p)
      /\ "PIX_FMT" \notin p.flags /\ p.driver.stale = {}
      /\ p.driver.hwfc = hwfc
  BY KnownPrepared
<1>2. p.format = c.format
  BY PreparedFields DEF SameImages
<1>3. /\ r.flags = p.flags \cup {"QBUF"} /\ r.format = c.format
      /\ r.controls = p.controls /\ r.hwfc = p.hwfc /\ r.planes = p.planes
      /\ r.driver.stale = p.driver.stale /\ r.driver.hwfc = p.driver.hwfc
      /\ r.driver.format = p.driver.format
      /\ r.driver.buffers = p.driver.buffers
  BY CompressedFields DEF SameImages
<1> HIDE DEF p, r
<1>4. Known(r)
  BY <1>1, <1>2, <1>3 DEF SessionKnown, Known
<1>5. SessionKnown(s, r)
  BY <1>1, <1>2, <1>3, <1>4 DEF SessionKnown, RequestedFor
<1> QED
  BY <1>1, <1>3, <1>5 DEF r

LEMMA KnownStopped ==
  ASSUME NEW s \in Session, NEW c \in Compressors, SessionKnown(s, c)
  PROVE  SessionKnown(s, Stopped(c))
<1> DEFINE r == Stopped(c)
<1>1. /\ r.flags = c.flags \ {"STREAMING", "QBUF", "REQBUFS"}
      /\ r.format = c.format /\ r.planes = c.planes
      /\ r.controls = c.controls /\ r.hwfc = c.hwfc
      /\ r.driver.format = c.driver.format
      /\ r.driver.stale = c.driver.stale /\ r.driver.hwfc = c.driver.hwfc
  BY StoppedFields DEF SameImages
<1> HIDE DEF r
<1>2. Known(r)
  BY <1>1 DEF SessionKnown, Known
<1>3. \A k : RequestedFor(c, k) => RequestedFor(r, k)
  BY <1>1 DEF RequestedFor
<1>4. SessionKnown(s, r)
  BY <1>1, <1>2, <1>3, KnownFrom
<1> QED
  BY <1>4 DEF r

(* A failure of a request leaves a session that knows its driver, and that *)
(* has nothing queued.                                                     *)
LEMMA KnownFailed ==
  ASSUME KindFollowsFormat, "S_EXT_CTRLS" \notin Faults,
         NEW s \in Session, NEW u \in Shots, Uses(s, u),
         NEW c \in Compressors, c.format # None, c.format.pix = PixOf(s, u),
         c.memory = KindsOf(s, u), SessionKnown(s, c), ~c.driver.queued,
         NEW hwfc \in BOOLEAN, NEW dstOkay,
         NEW f \in CompressFailures(c, hwfc, dstOkay)
  PROVE  SessionKnown(s, f[1]) /\ ~f[1].driver.queued
<1> DEFINE m == Formatted(c)
           q == Requested(m)
           p == Prepared(c, hwfc)
<1>1. SessionKnown(s, p) /\ p \in Compressors /\ ~p.driver.queued
  BY KnownPrepared, PreparedFields
<1>2. SessionKnown(s, Stopped(p)) /\ ~Stopped(p).driver.queued
  BY <1>1, KnownStopped, StoppedFields
<1>3. SessionKnown(s, m) /\ m \in Compressors /\ ~m.driver.queued
      /\ m.format = c.format /\ m.memory = c.memory
  <2>1. m.format = c.format /\ m.memory = c.memory
    BY FormattedFields DEF SameImages
  <2>2. CASE "PIX_FMT" \notin c.flags
    BY <2>1, <2>2, FormattedFields
  <2>3. CASE "PIX_FMT" \in c.flags
    <3>1. /\ m.controls = c.controls /\ m.hwfc = c.hwfc /\ m \in Compressors
          /\ m.driver.stale = c.driver.stale /\ m.driver.hwfc = c.driver.hwfc
          /\ m.flags = c.flags \ {"PIX_FMT", "STREAMING", "QBUF", "REQBUFS"}
          /\ m.planes = Planes[c.format.pix] /\ ~m.driver.queued
          /\ m.driver.format = [side \in Side |-> c.format]
      BY <2>3, FormattedFields
    <3> HIDE DEF m
    <3>2. Known(m)
      BY <2>1, <3>1 DEF SessionKnown, Known
    <3> QED
      BY <2>1, <3>1, <3>2 DEF SessionKnown, RequestedFor
  <2> QED
    BY <2>2, <2>3
<1> HIDE DEF m, p
<1>4. SessionKnown(s, q) /\ ~q.driver.queued
  <2>1. /\ q \in Compressors /\ q.format = m.format
        /\ q.flags = m.flags \cup {"REQBUFS"}
        /\ q.planes = m.planes /\ q.controls = m.controls /\ q.hwfc = m.hwfc
        /\ q.driver = [m.driver EXCEPT !.buffers = q.driver.buffers]
        /\ q.driver.buffers = IF "REQBUFS" \in m.flags THEN m.driver.buffers
                              ELSE m.memory
    BY <1>3, RequestedFields DEF SameImages
  <2> HIDE DEF q
  <2>2. /\ q.driver.format = m.driver.format /\ q.driver.queued = m.driver.queued
        /\ q.driver.stale = m.driver.stale /\ q.driver.hwfc = m.driver.hwfc
    BY <1>3, <2>1 DEF Compressors, Drivers
  <2>3. Known(q)
    BY <1>3, <2>1, <2>2 DEF SessionKnown, Known
  <2>4. \A v \in Shots : Uses(s, v) /\ q.format.pix = PixOf(s, v)
                           => KindsOf(s, u) = KindsOf(s, v)
    <3>1. q.format.pix = PixOf(s, u)
      BY <1>3, <2>1
    <3> QED
      BY <3>1, Zenon DEF KindFollowsFormat
  <2>5. ASSUME NEW v \in Shots, Uses(s, v), q.format.pix = PixOf(s, v)
        PROVE  RequestedFor(q, KindsOf(s, v))
    <3>1. KindsOf(s, v) = c.memory
      BY <2>4, <2>5
    <3>2. RequestedFor(m, KindsOf(s, v))
      BY <1>3, <2>1, <2>5 DEF SessionKnown
    <3> QED
      BY <1>3, <2>1, <3>1, <3>2 DEF RequestedFor
  <2>6. SessionKnown(s, q)
    BY <2>3, <2>5 DEF SessionKnown
  <2> QED
    BY <1>3, <2>2, <2>6
<1>5. \A g \in LeftBehind(c, hwfc) : SessionKnown(s, g) /\ ~g.driver.queued
  BY <1>1, <1>2, <1>3, <1>4 DEF LeftBehind, m, q, p
<1>6. ASSUME "PIX_FMT" \in c.flags
      PROVE  \A g \in HalfStopped(c) \cup {FormatFailed(c)} :
                SessionKnown(s, g) /\ ~g.driver.queued
  <2>1. SessionKnown(s, FormatFailed(c)) /\ ~FormatFailed(c).driver.queued
    <3> DEFINE t == Stopped(c)
               g == FormatFailed(c)
    <3>1. SessionKnown(s, t) /\ t \in Compressors /\ ~t.driver.queued
          /\ "PIX_FMT" \in t.flags
      BY <1>6, KnownStopped, StoppedFields
    <3>2. g = [t EXCEPT !.driver.format = [d \in Side |-> None]]
      BY DEF FormatFailed
    <3> HIDE DEF t, g
    <3>3. /\ g.flags = t.flags /\ g.format = t.format /\ g.planes = t.planes
          /\ g.controls = t.controls /\ g.hwfc = t.hwfc
          /\ g.driver.stale = t.driver.stale /\ g.driver.hwfc = t.driver.hwfc
          /\ g.driver.queued = t.driver.queued
      BY <3>1, <3>2 DEF Compressors, Drivers
    <3>4. Known(g)
      BY <3>1, <3>3 DEF SessionKnown, Known
    <3>5. SessionKnown(s, g) /\ ~g.driver.queued
      BY <3>1, <3>3, <3>4 DEF SessionKnown, RequestedFor
    <3> QED
      BY <3>5 DEF g
  <2>2. ASSUME NEW k \in {None, c.driver.buffers.src}
        PROVE  LET g == [c EXCEPT !.flags = @ \ {"STREAMING", "QBUF"},
                                  !.driver.streaming = {},
                                  !.driver.queued = FALSE,
                                  !.driver.kept = None,
                                  !.driver.buffers.src = k]
               IN SessionKnown(s, g) /\ ~g.driver.queued
    <3> DEFINE g == [c EXCEPT !.flags = @ \ {"STREAMING", "QBUF"},
                              !.driver.streaming = {},
                              !.driver.queued = FALSE,
                              !.driver.kept = None,
                              !.driver.buffers.src = k]
    <3>1. /\ g.flags = c.flags \ {"STREAMING", "QBUF"} /\ g.format = c.format
          /\ g.planes = c.planes /\ g.controls = c.controls /\ g.hwfc = c.hwfc
      BY DEF Compressors
    <3>2. /\ g.driver.stale = c.driver.stale /\ g.driver.hwfc = c.driver.hwfc
          /\ g.driver.queued = FALSE
      BY DEF Compressors, Drivers
    <3> HIDE DEF g
    <3>3. Known(g)
      BY <1>6, <3>1, <3>2 DEF SessionKnown, Known
    <3>4. SessionKnown(s, g) /\ ~g.driver.queued
      BY <1>6, <3>1, <3>2, <3>3 DEF SessionKnown, RequestedFor
    <3> QED
      BY <3>4 DEF g
  <2> QED
    BY <2>1, <2>2 DEF HalfStopped
<1> QED
  BY <1>5, <1>6, FailuresAre-----------------------------------------------------------------------------
(* What is known of a shot from the invariant.                             *)
LEMMA CameraKeptInit == Init => CameraInv
<1> SUFFICES ASSUME Init PROVE CameraInv
  OBVIOUS
<1>1. /\ at = "idle" /\ thumblen = 0 /\ result = None /\ enc.changed = TRUE
      /\ enc.noCreate = FALSE /\ enc.thumbType = None
      /\ buffers.image = 0 /\ buffers.stream = 0
      /\ \A w \in Threads : thread[w] = None
      /\ \A w \in Callers : call[w] = None
  BY DEF Init, Callers
<1>2. \A s \in Session : /\ hw[s].flags = {"PIX_FMT"} /\ hw[s].format = None
                         /\ hw[s].driver.stale = hw[s].controls
                         /\ hw[s].driver.hwfc = FALSE /\ hw[s].hwfc = FALSE
                         /\ hw[s].driver.queued = FALSE
  BY DEF Init, NewCompressor, Session
<1>3. SessionsKnown
  BY <1>2 DEF SessionsKnown, SessionKnown, Known
<1>4. EncKept /\ ShotKept
  BY <1>1 DEF EncKept, ShotKept
<1>5. MainKept
  BY <1>1, <1>2 DEF MainKept, Session
<1>6. ThreadsKept /\ OneThread /\ PictureKept
  BY <1>1 DEF ThreadsKept, OneThread, PictureKept, Generating, Underway, Callers
<1>7. CallKept
  BY <1>1, <1>2 DEF CallKept, Callers, Session
<1>8. ResultKept
  BY <1>1, NoneIsNoValue DEF ResultKept, Early
<1> QED
  BY <1>3, <1>4, <1>5, <1>6, <1>7, <1>8 DEF CameraInv

(* No thread runs, and no thumbnail is compressed on its own.              *)
Calm ==
  /\ \A w \in Threads : thread[w] = None
  /\ \A w \in Callers : call[w] = None
  /\ ~hw["thumb"].driver.queued

LEMMA CalmBefore ==
  ASSUME CameraInv, ~Generating, at \notin {"thumb", "again"}
  PROVE  Calm
<1>1. \A w \in Threads : thread[w] = None
  BY DEF CameraInv, OneThread
<1>2. \A w \in Callers : call[w] = None
  BY <1>1 DEF CameraInv, OneThread, ThreadsKept, Callers
<1>3. ~hw["thumb"].driver.queued
  BY <1>2 DEF CameraInv, CallKept, Callers
<1> QED
  BY <1>1, <1>2, <1>3 DEF Calm

LEMMA CalmAfter ==
  ASSUME Calm', ~Generating', at' \notin {"thumb", "again"}
  PROVE  ThreadsKept' /\ OneThread' /\ CallKept'
BY DEF Calm, ThreadsKept, OneThread, CallKept, Callers

(* One thumbnail is compressed at a time.                                  *)
LEMMA OneCaller ==
  ASSUME CameraInv, NEW w \in Callers, NEW v \in Callers,
         call[w] # None, call[v] # None
  PROVE  v = w
<1>1. \A x \in Threads : call[x] # None => x = m_threadWorker /\ at \in Underway
  BY DEF CameraInv, OneThread, Generating
<1>2. call[Client] # None => at \in {"thumb", "again"}
  BY DEF CameraInv, ThreadsKept
<1> QED
  BY <1>1, <1>2 DEF Callers, Underway

LEMMA ShotFacts ==
  ASSUME TypeOK, CameraInv, at # "idle"
  PROVE  /\ shot \in Shots /\ Planes[shot.pix] \in 1 .. 2
         /\ Planes[ThumbPix(shot)] \in 1 .. 2
         /\ ~shot.given => Planes[ThumbPix(shot)] = 1
         /\ ThumbMemory(shot) \in Memory
         /\ at # "first" => (shot.given <=> shot.thumb # 0 /\ enc.noCreate)
<1>1. shot \in Shots
  BY DEF CameraInv, ShotKept
<1>2. shot.memory2 \in Memory /\ shot.given \in BOOLEAN /\ shot.memory \in Memory
      /\ shot.pix \in DOMAIN Planes /\ (shot.given => shot.thumb # 0)
  BY <1>1, ShotType
<1>3. at # "first" => (shot.given <=> shot.thumb # 0 /\ enc.noCreate)
  BY <1>2, NoneIsNoFormat DEF CameraInv, ShotKept, EncKept
<1>4. Planes[shot.pix] \in 1 .. 2 /\ Planes[ThumbPix(shot)] \in 1 .. 2
      /\ (~shot.given => Planes[ThumbPix(shot)] = 1)
  BY <1>2, PlanesAreFew, ThumbnailFormats DEF ThumbPix
<1>5. ThumbMemory(shot) \in Memory
  BY <1>2 DEF ThumbMemory, Memory
<1> QED
  BY <1>1, <1>3, <1>4, <1>5

(* What the main session is to compress from the moment it is prepared.    *)
LEMMA MainFacts ==
  ASSUME TypeOK, CameraInv, at \notin {"idle"} \cup Early
  PROVE  LET c == hw["main"]
         IN /\ c \in Compressors /\ enc.hwfc = shot.hwfc /\ shot.hwfc \in BOOLEAN
            /\ c.format = FormatAsked("main") /\ c.format # None
            /\ c.format.pix = shot.pix /\ c.planes = Planes[shot.pix]
            /\ c.format.thumb = IF shot.given /\ btb THEN shot.thumb ELSE 0
            /\ c.memory = MainKinds(shot)
<1> DEFINE c == hw["main"]
<1>1. shot \in Shots /\ (shot.given <=> shot.thumb # 0 /\ enc.noCreate)
  BY ShotFacts DEF Early
<1>2. c \in Compressors /\ enc.hwfc = shot.hwfc /\ shot.hwfc \in BOOLEAN
  BY <1>1, ShotType DEF CameraInv, ShotKept, TypeOK, Session
<1>3. c.format = FormatOf(enc) /\ enc.pix = shot.pix /\ enc.thumb = shot.thumb
  BY DEF CameraInv, EncKept, ShotKept, Early
<1>4. FormatOf(enc) = FormatAsked("main")
  BY <1>1, <1>3 DEF FormatOf, FormatAsked
<1>5. c.format # None
  BY <1>1, <1>3, ShotType, FormatType DEF TypeOK
<1>6. c.planes = Planes[c.format.pix]
  BY <1>5 DEF CameraInv, SessionsKnown, SessionKnown, Known, Session
<1>7. c.memory = MainKinds(shot)
  <2>1. c.memory["src"] = shot.memory /\ c.memory["dst"] = shot.out
    BY DEF CameraInv, MainKept, Early
  <2>2. c.memory \in [Side -> Memory \cup {None}]
    BY <1>2 DEF Compressors
  <2> QED
    BY <2>1, <2>2 DEF MainKinds, Kinds, Side
<1> QED
  BY <1>2, <1>3, <1>4, <1>5, <1>6, <1>7 DEF FormatAsked
LEMMA CalmKept ==
  ASSUME Calm, UNCHANGED <<thread, call>>,
         hw'["thumb"].driver.queued = hw["thumb"].driver.queued
  PROVE  Calm'
BY DEF Calm

LEMMA SessionsAre ==
  ASSUME SessionKnown("main", hw'["main"]), SessionKnown("thumb", hw'["thumb"])
  PROVE  SessionsKnown'
BY DEF SessionsKnown, Session

LEMMA SessionsWere ==
  ASSUME TypeOK, CameraInv
  PROVE  /\ hw["main"] \in Compressors /\ SessionKnown("main", hw["main"])
         /\ hw["thumb"] \in Compressors /\ SessionKnown("thumb", hw["thumb"])
         /\ "main" \in Session /\ "thumb" \in Session
BY DEF TypeOK, CameraInv, SessionsKnown, Session

-----------------------------------------------------------------------------
(* The invariant is kept: asking for a shot and giving its images.         *)
LEMMA AskKept ==
  ASSUME Orderly, TypeOK, TypeOK', CameraInv, NEW s \in Shots, Ask(s)
  PROVE  CameraInv'
<1> USE ShotType
<1>1. /\ at = "idle" /\ at' = IF s.given THEN "first" ELSE "second"
      /\ shot' = s /\ thumblen' = 0 /\ result' = None
      /\ UNCHANGED <<btb, call, thread, m_threadWorker>>
  BY DEF Ask, threadVars
<1>2. /\ s.thumb # 0 /\ ~s.given => ~enc.noCreate
      /\ s.given /\ ~enc.noCreate => enc.thumb = 0
      /\ s.given => s.memory2 = s.memory \/ btb
  BY DEF Ask, MayAsk, IsThumbGenerationNeeded, Orderly
<1>3. /\ enc'.pix = s.pix /\ enc'.hwfc = s.hwfc /\ enc'.noCreate = enc.noCreate
      /\ enc'.thumbType = enc.thumbType
      /\ s.thumb # 0 => enc'.thumb = s.thumb
      /\ s.thumb = 0 => enc'.thumb = enc.thumb
      /\ ~enc'.changed => /\ ~enc.changed /\ enc.pix = s.pix
                          /\ enc'.thumb = enc.thumb \/ ~btb
  BY DEF Ask, TypeOK, Encoders, setThumbnailSize, setColorFormat
<1>4. hw' = [t \in Session |->
               IF t = "main" /\ enc.quality # s.quality
               THEN Aged(SetQuality(hw[t], "QFACTOR")) ELSE Aged(hw[t])]
  BY DEF Ask
<1>5. ASSUME NEW t \in Session
      PROVE  /\ SessionKnown(t, hw'[t]) /\ hw'[t].format = hw[t].format
             /\ hw'[t].driver.queued = hw[t].driver.queued
  <2>1. hw[t] \in Compressors /\ SessionKnown(t, hw[t])
    BY DEF TypeOK, CameraInv, SessionsKnown
  <2> DEFINE r == SetQuality(hw[t], "QFACTOR")
  <2>2. /\ r \in Compressors /\ SessionKnown(t, r) /\ r.format = hw[t].format
        /\ r.driver.queued = hw[t].driver.queued
    BY <2>1, QualityFields, KnownQuality DEF Control
  <2>3. ASSUME NEW c \in Compressors, SessionKnown(t, c)
        PROVE  /\ SessionKnown(t, Aged(c)) /\ Aged(c).format = c.format
               /\ Aged(c).driver.queued = c.driver.queued
    <3>1. SameDriver(Aged(c), c) /\ Aged(c).flags = c.flags
      BY AgedFields
    <3> QED
      BY <2>3, <3>1, KnownSame DEF SameFlags, SameDriver
  <2>4. hw'[t] = Aged(r) \/ hw'[t] = Aged(hw[t])
    BY <1>4
  <2> HIDE DEF r
  <2> QED
    BY <2>1, <2>2, <2>3, <2>4
<1>6. SessionsKnown'
  BY <1>5 DEF SessionsKnown
<1>7. Calm'
  <2>1. Calm
    BY <1>1, CalmBefore DEF Generating, Underway
  <2> QED
    BY <1>1, <1>5, <2>1, CalmKept DEF Session
<1>8. ~Generating' /\ at' \notin {"thumb", "again"}
  BY <1>1 DEF Generating, Underway
<1>9. EncKept'
  <2>1. enc'.noCreate <=> enc'.thumbType # None
    BY <1>3 DEF CameraInv, EncKept
  <2>2. buffers'.image <= buffers'.stream
    BY DEF Ask, TypeOK, Buffers, CameraInv, EncKept
  <2>3. ASSUME ~enc'.changed
        PROVE  (hw["main"].format =
                  FormatOf(IF at = "first" THEN [enc EXCEPT !.noCreate = TRUE]
                           ELSE enc))'
    <3>1. hw'["main"].format = FormatOf(enc)
      BY <1>1, <1>3, <1>5, <2>3 DEF CameraInv, EncKept, Session
    <3>2. FormatOf(enc) = [pix |-> s.pix, size |-> MainSize,
                           thumb |-> IF ~enc.noCreate \/ ~btb THEN 0 ELSE enc.thumb]
      BY <1>3, <2>3 DEF FormatOf
    <3>3. CASE s.given
      <4>1. enc.noCreate \/ ~btb
        BY <1>2, <1>3, <2>3, <3>3
      <4> DEFINE e == [enc EXCEPT !.noCreate = TRUE]
      <4>2. e'.pix = s.pix /\ e'.noCreate = TRUE /\ e'.thumb = enc'.thumb
        BY <1>3 DEF TypeOK, Encoders
      <4> HIDE DEF e
      <4>3. FormatOf(e)' = FormatOf(enc)
        BY <1>1, <1>3, <2>3, <3>2, <4>1, <4>2 DEF FormatOf
      <4> QED
        BY <1>1, <3>1, <3>3, <4>3 DEF e
    <3>4. CASE ~s.given
      BY <1>1, <1>3, <2>3, <3>1, <3>2, <3>4 DEF FormatOf
    <3> QED
      BY <3>3, <3>4
  <2> QED
    BY <2>1, <2>2, <2>3 DEF EncKept
<1>10. ShotKept'
  BY <1>1, <1>2, <1>3 DEF ShotKept, Early
<1>11. MainKept'
  BY <1>1, <1>5 DEF MainKept, CameraInv, Early, Session
<1>12. PictureKept'
  BY <1>1, <1>7 DEF PictureKept, Calm, Early
<1>13. ResultKept'
  BY <1>1, NoneIsNoValue DEF ResultKept, Early
<1> QED
  BY <1>6, <1>7, <1>8, <1>9, <1>10, <1>11, <1>12, <1>13, CalmAfter DEF CameraInv

(* Ensured applies the format of the shot, whatever the session had.       *)
LEMMA EnsuredKnown ==
  ASSUME NEW e \in Encoders, e.pix \in DOMAIN Planes, NEW c \in Compressors,
         SessionKnown("main", c), ~e.changed => c.format = FormatOf(e)
  PROVE  LET r == Ensured(e, c).main
         IN /\ r \in Compressors /\ SessionKnown("main", r)
            /\ r.format = FormatOf(e) /\ r.planes = Planes[e.pix]
            /\ r.src = c.src /\ r.memory = c.memory /\ c.flags \subseteq r.flags
            /\ r.driver.queued = c.driver.queued
<1> DEFINE f == FormatOf(e)
           t == Tried(c, f)
           r == Ensured(e, c).main
<1>1. f \in Formats /\ f # None /\ f.pix = e.pix
  BY FormatType
<1>2. r = IF e.changed THEN t ELSE c
  BY DEF Ensured
<1> HIDE DEF f
<1>3. /\ t \in Compressors /\ SessionKnown("main", t) /\ t.format = f
      /\ t.src = c.src /\ t.memory = c.memory /\ t.driver = c.driver
      /\ c.flags \subseteq t.flags
  <2>1. SessionKnown("main", t)
    BY <1>1, KnownTried DEF Session
  <2>2. /\ t \in Compressors /\ t.format = f
        /\ t.src = c.src /\ t.memory = c.memory /\ t.driver = c.driver
        /\ f = c.format => t = c
        /\ f # c.format => t.flags = c.flags \cup {"PIX_FMT"}
    BY <1>1, TriedFields
  <2> HIDE DEF t
  <2>3. c.flags \subseteq t.flags
    BY <2>2
  <2> QED
    BY <2>1, <2>2, <2>3
<1> HIDE DEF t, r
<1>4. /\ r \in Compressors /\ SessionKnown("main", r) /\ r.format = f
      /\ r.src = c.src /\ r.memory = c.memory /\ c.flags \subseteq r.flags
      /\ r.driver.queued = c.driver.queued
  BY <1>2, <1>3 DEF f
<1>5. r.planes = Planes[e.pix]
  BY <1>1, <1>4 DEF SessionKnown, Known
<1> QED
  BY <1>4, <1>5 DEF f, r

LEMMA SetInBufKept ==
  ASSUME Orderly, TypeOK, TypeOK', CameraInv, setInBuf
  PROVE  CameraInv'
<1> DEFINE a == Ensured(enc, hw["main"])
           planes == [i \in 1 .. 2 |-> "main"]
           c == SetImageBuffer(a.main, planes, shot.memory)
           n == Planes[shot.pix]
<1>1. /\ at = "second" /\ at' = "encode"
      /\ enc' = [a.enc EXCEPT !.inType = shot.memory]
      /\ hw' = [hw EXCEPT !["main"] = c]
      /\ UNCHANGED <<btb, images, buffers, call, thread, m_threadWorker, shot,
                     thumblen, result, excused>>
  BY DEF setInBuf, threadVars, GivesMain, Given, Orderly
<1>2. /\ shot \in Shots /\ n \in 1 .. 2 /\ enc.pix = shot.pix
      /\ shot.pix \in DOMAIN Planes /\ shot.memory \in Memory
      /\ enc \in Encoders
  BY <1>1, ShotFacts, ShotType DEF CameraInv, ShotKept, TypeOK
<1>3. /\ a.main \in Compressors /\ SessionKnown("main", a.main)
      /\ a.main.format = FormatOf(enc) /\ a.main.planes = n
      /\ a.main.src = hw["main"].src /\ a.main.memory = hw["main"].memory
      /\ hw["main"].flags \subseteq a.main.flags
      /\ a.main.driver.queued = hw["main"].driver.queued
  <2>1. ~enc.changed => hw["main"].format = FormatOf(enc)
    BY <1>1 DEF CameraInv, EncKept
  <2> QED
    BY <1>2, <2>1, SessionsWere, EnsuredKnown
<1>4. a.enc = [enc EXCEPT !.changed = FALSE]
  BY DEF Ensured
<1>5. planes \in [1 .. 2 -> Contents] /\ \A p \in 1 .. 2 : planes[p] = "main"
  BY DEF Contents
<1> HIDE DEF a, planes, n
<1>6. /\ c \in Compressors /\ SameDriver(c, a.main)
      /\ c.flags = a.main.flags \cup {"SRC_BUFFER"}
      /\ c.memory = [a.main.memory EXCEPT !["src"] = shot.memory]
      /\ \A p \in SrcPlane : c.src[p] = IF p <= a.main.planes THEN planes[p]
                                        ELSE a.main.src[p]
  BY <1>2, <1>3, <1>5, ImageFields
<1> HIDE DEF c
<1>7. /\ enc'.pix = enc.pix /\ enc'.thumb = enc.thumb /\ enc'.hwfc = enc.hwfc
      /\ enc'.noCreate = enc.noCreate /\ enc'.thumbType = enc.thumbType
      /\ ~enc'.changed /\ enc'.inType = shot.memory
  BY <1>1, <1>2, <1>4 DEF Encoders
<1>8. hw'["main"] = c /\ hw'["thumb"] = hw["thumb"]
  BY <1>1 DEF TypeOK, Session
<1>9. SessionsKnown'
  <2>1. SessionKnown("main", c)
    BY <1>3, <1>6, KnownSame DEF SameFlags, Session
  <2> QED
    BY <1>8, <2>1, SessionsWere, SessionsAre
<1>10. Calm' /\ ~Generating' /\ at' \notin {"thumb", "again"}
  BY <1>1, <1>8, CalmBefore, CalmKept DEF Generating, Underway
<1>11. EncKept'
  BY <1>1, <1>3, <1>6, <1>7, <1>8
     DEF CameraInv, EncKept, FormatOf, SameDriver
<1>12. ShotKept'
  BY <1>1, <1>7 DEF CameraInv, ShotKept, Early
<1>13. MainKept'
  <2>1. "SRC_BUFFER" \in c.flags /\ c.memory["src"] = shot.memory
    BY <1>3, <1>6, SessionsWere DEF Compressors, Side
  <2>2. \A p \in 1 .. n : c.src[p] = "main"
    BY <1>2, <1>3, <1>5, <1>6 DEF SrcPlane, n
  <2>3. ASSUME shot.given, btb
        PROVE  /\ "SRC_BUFFER2" \in c.flags
               /\ \A p \in n + 1 .. 2 * n : c.src[p] = "given"
    <3>1. /\ "SRC_BUFFER2" \in hw["main"].flags
          /\ \A p \in n + 1 .. 2 * n : hw["main"].src[p] = "given"
      BY <1>1, <2>3 DEF CameraInv, MainKept, n
    <3> QED
      BY <1>2, <1>3, <1>6, <3>1 DEF SrcPlane, n
  <2>4. ~c.driver.queued
    BY <1>1, <1>3, <1>6 DEF CameraInv, MainKept, SameDriver
  <2> QED
    BY <1>1, <1>7, <1>8, <2>1, <2>2, <2>3, <2>4 DEF MainKept, Early, n
<1>14. PictureKept'
  BY <1>1, <1>10 DEF PictureKept, Calm, Early
<1>15. ResultKept'
  BY <1>1 DEF CameraInv, ResultKept, Early
<1> QED
  BY <1>9, <1>10, <1>11, <1>12, <1>13, <1>14, <1>15, CalmAfter DEF CameraInv

LEMMA SetInBuf2Kept ==
  ASSUME Orderly, TypeOK, TypeOK', CameraInv, setInBuf2
  PROVE  CameraInv'
<1> DEFINE e == [enc EXCEPT !.noCreate = TRUE]
           a == Ensured(e, hw["main"])
           planes == [i \in 1 .. 2 |-> "given"]
           r == SetImageBuffer2(a.main, planes)
           c == IF btb THEN r ELSE a.main
           n == Planes[shot.pix]
<1>1. /\ at = "first" /\ at' = "second" /\ shot.given
      /\ enc' = [a.enc EXCEPT !.thumbType = shot.memory2]
      /\ images' = [memory |-> shot.memory2, holds |-> planes]
      /\ hw' = [hw EXCEPT !["main"] = c]
      /\ UNCHANGED <<btb, buffers, call, thread, m_threadWorker, shot,
                     thumblen, result, excused>>
  BY DEF setInBuf2, threadVars, GivesThumb, Given, Orderly
<1>2. /\ shot \in Shots /\ n \in 1 .. 2 /\ enc.pix = shot.pix
      /\ shot.pix \in DOMAIN Planes /\ shot.memory2 \in Memory
      /\ shot.memory2 # None /\ enc \in Encoders
  BY <1>1, ShotFacts, ShotType, NoneIsNoFormat DEF CameraInv, ShotKept, TypeOK
<1>3. /\ e \in Encoders /\ e.pix = enc.pix /\ e.changed = enc.changed
      /\ e.thumb = enc.thumb /\ e.hwfc = enc.hwfc /\ e.noCreate = TRUE
  BY <1>2 DEF Encoders
<1>4. ~e.changed => hw["main"].format = FormatOf(e)
  BY <1>1, <1>3 DEF CameraInv, EncKept
<1> HIDE DEF e
<1>5. /\ a.main \in Compressors /\ SessionKnown("main", a.main)
      /\ a.main.format = FormatOf(e) /\ a.main.planes = n
      /\ a.main.src = hw["main"].src /\ a.main.memory = hw["main"].memory
      /\ hw["main"].flags \subseteq a.main.flags
      /\ a.main.driver.queued = hw["main"].driver.queued
  BY <1>2, <1>3, <1>4, SessionsWere, EnsuredKnown
<1>6. a.enc = [e EXCEPT !.changed = FALSE]
  BY DEF Ensured
<1>7. planes \in [1 .. 2 -> Contents] /\ \A p \in 1 .. 2 : planes[p] = "given"
  BY DEF Contents
<1> HIDE DEF a, n
<1>8. /\ SameDriver(c, a.main) /\ a.main.flags \subseteq c.flags
      /\ SameFlags(c, a.main)
      /\ btb => /\ "SRC_BUFFER2" \in c.flags
                /\ \A p \in n + 1 .. 2 * n : c.src[p] = "given"
  <2> HIDE DEF planes
  <2>1. /\ r \in Compressors /\ SameDriver(r, a.main)
        /\ r.flags = a.main.flags \cup {"SRC_BUFFER2"}
        /\ \A p \in SrcPlane :
              r.src[p] = IF p \in a.main.planes + 1 .. 2 * a.main.planes
                         THEN planes[p - a.main.planes] ELSE a.main.src[p]
    BY <1>5, <1>7, Image2Fields
  <2> HIDE DEF r
  <2>2. \A p \in n + 1 .. 2 * n : r.src[p] = "given"
    BY <1>2, <1>5, <1>7, <2>1 DEF SrcPlane, n
  <2>3. SameDriver(a.main, a.main)
    BY DEF SameDriver
  <2> QED
    BY <2>1, <2>2, <2>3 DEF SameFlags
<1> HIDE DEF c
<1>9. /\ enc'.pix = enc.pix /\ enc'.thumb = enc.thumb /\ enc'.hwfc = enc.hwfc
      /\ enc'.noCreate = TRUE /\ enc'.thumbType = shot.memory2
      /\ ~enc'.changed
  BY <1>1, <1>2, <1>3, <1>6 DEF Encoders
<1>10. hw'["main"] = c /\ hw'["thumb"] = hw["thumb"]
  BY <1>1 DEF TypeOK, Session
<1>11. SessionsKnown'
  <2>1. SessionKnown("main", c)
    BY <1>5, <1>8, KnownSame DEF Session
  <2> QED
    BY <1>10, <2>1, SessionsWere, SessionsAre
<1>12. Calm' /\ ~Generating' /\ at' \notin {"thumb", "again"}
  BY <1>1, <1>10, CalmBefore, CalmKept DEF Generating, Underway
<1>13. EncKept'
  BY <1>1, <1>2, <1>3, <1>5, <1>8, <1>9, <1>10
     DEF CameraInv, EncKept, FormatOf, SameDriver
<1>14. ShotKept'
  BY <1>1, <1>9, ShotType DEF CameraInv, ShotKept, Early
<1>15. MainKept'
  <2>1. ~c.driver.queued
    BY <1>1, <1>5, <1>8 DEF CameraInv, MainKept, SameDriver
  <2> QED
    BY <1>1, <1>8, <1>10, <2>1 DEF MainKept, Early, n
<1>16. PictureKept'
  BY <1>1, <1>12 DEF PictureKept, Calm, Early
<1>17. ResultKept'
  BY <1>1 DEF CameraInv, ResultKept, Early
<1> QED
  BY <1>11, <1>12, <1>13, <1>14, <1>15, <1>16, <1>17, CalmAfter DEF CameraInv

-----------------------------------------------------------------------------
(* encode() and what it prepares.                                          *)
LEMMA EncodeKept ==
  ASSUME Orderly, TypeOK, TypeOK', CameraInv, Encode
  PROVE  CameraInv'
<1> DEFINE o == [enc EXCEPT !.outType = shot.out]
           e == Settled(o)
           d == WithOut(hw["main"])
           a == Ensured(e, d)
           c == a.main
           n == Planes[shot.pix]
<1>1. /\ at = "encode" /\ at' = "prepare" /\ ~KindsDiffer
      /\ enc' = a.enc /\ hw' = [hw EXCEPT !["main"] = c]
      /\ UNCHANGED <<btb, images, buffers, call, thread, m_threadWorker, shot,
                     thumblen, result, excused>>
  BY DEF Encode, threadVars
<1>2. /\ shot \in Shots /\ n \in 1 .. 2 /\ enc.pix = shot.pix
      /\ shot.pix \in DOMAIN Planes /\ shot.out \in Memory /\ enc \in Encoders
      /\ (shot.given <=> shot.thumb # 0 /\ enc.noCreate)
  BY <1>1, ShotFacts, ShotType DEF CameraInv, ShotKept, TypeOK
<1>3. /\ o \in Encoders /\ o.pix = enc.pix /\ o.changed = enc.changed
      /\ o.thumb = enc.thumb /\ o.hwfc = enc.hwfc /\ o.noCreate = enc.noCreate
      /\ o.inType = enc.inType /\ o.thumbType = enc.thumbType
  BY <1>2 DEF Encoders
<1> HIDE DEF o
<1>4. /\ e \in Encoders /\ e.pix = enc.pix /\ e.inType = enc.inType
      /\ e.thumbType = enc.thumbType /\ e.hwfc = enc.hwfc
      /\ ~e.changed => ~enc.changed /\ (~btb \/ e.thumb = enc.thumb)
      /\ e.thumb = IF shot.thumb = 0 THEN 0 ELSE enc.thumb
  BY <1>2, <1>3, SettledFields
<1>5. e.noCreate = enc.noCreate
  <2>1. ~(shot.thumb # 0 /\ o.noCreate /\ o.thumbType = None)
    BY <1>3 DEF CameraInv, EncKept
  <2> QED
    BY <1>2, <1>3, <2>1, SettledFields
<1> HIDE DEF e
<1>6. /\ d \in Compressors /\ SameDriver(d, hw["main"]) /\ d.src = hw["main"].src
      /\ d.flags = hw["main"].flags \cup {"DST_BUFFER"}
      /\ d.memory = [hw["main"].memory EXCEPT !["dst"] = shot.out]
  BY <1>2, SessionsWere, JpegFields DEF WithOut
<1> HIDE DEF d
<1>7. SessionKnown("main", d)
  BY <1>6, SessionsWere, KnownSame DEF SameFlags
<1>8. ~e.changed => d.format = FormatOf(e)
  <2>1. ~enc.changed => hw["main"].format = FormatOf(enc)
    BY <1>1 DEF CameraInv, EncKept
  <2> QED
    BY <1>4, <1>5, <1>6, <2>1 DEF SameDriver, FormatOf
<1>9. /\ c \in Compressors /\ SessionKnown("main", c)
      /\ c.format = FormatOf(e) /\ c.src = d.src /\ c.memory = d.memory
      /\ d.flags \subseteq c.flags /\ c.driver.queued = d.driver.queued
  BY <1>2, <1>4, <1>6, <1>7, <1>8, EnsuredKnown
<1>10. a.enc = [e EXCEPT !.changed = FALSE]
  BY DEF Ensured
<1> HIDE DEF a, c
<1>11. /\ enc'.pix = enc.pix /\ enc'.thumb = e.thumb /\ enc'.hwfc = enc.hwfc
       /\ enc'.noCreate = enc.noCreate /\ enc'.thumbType = enc.thumbType
       /\ enc'.inType = enc.inType /\ ~enc'.changed
  BY <1>1, <1>4, <1>5, <1>10 DEF Encoders
<1>12. hw'["main"] = c /\ hw'["thumb"] = hw["thumb"]
  BY <1>1 DEF TypeOK, Session
<1>13. SessionsKnown'
  BY <1>9, <1>12, SessionsWere, SessionsAre
<1>14. Calm' /\ ~Generating' /\ at' \notin {"thumb", "again"}
  BY <1>1, <1>12, CalmBefore, CalmKept DEF Generating, Underway
<1>15. EncKept'
  BY <1>1, <1>4, <1>5, <1>9, <1>11, <1>12 DEF CameraInv, EncKept, FormatOf
<1>16. ShotKept'
  <2>1. enc'.thumb = shot.thumb
    BY <1>1, <1>4, <1>11 DEF CameraInv, ShotKept
  <2>2. shot.given => shot.memory2 = shot.memory
    <3>1. shot.given => /\ enc.thumbType = shot.memory2 /\ enc.inType = shot.memory
                        /\ (shot.memory2 = shot.memory \/ btb)
      BY <1>1 DEF CameraInv, ShotKept, MainKept
    <3>2. shot.given /\ btb => enc.thumbType = enc.inType
      BY <1>1, <1>2 DEF KindsDiffer, IsThumbGenerationNeeded
    <3> QED
      BY <3>1, <3>2
  <2> QED
    BY <1>1, <1>11, <2>1, <2>2 DEF CameraInv, ShotKept, Early
<1>17. MainKept'
  <2>1. /\ "SRC_BUFFER" \in hw["main"].flags
        /\ hw["main"].memory["src"] = shot.memory /\ enc.inType = shot.memory
        /\ \A p \in 1 .. n : hw["main"].src[p] = "main"
        /\ shot.given /\ btb =>
             /\ "SRC_BUFFER2" \in hw["main"].flags
             /\ \A p \in n + 1 .. 2 * n : hw["main"].src[p] = "given"
        /\ ~hw["main"].driver.queued
    BY <1>1 DEF CameraInv, MainKept, n
  <2>2. c.memory["src"] = shot.memory /\ c.memory["dst"] = shot.out
    BY <1>6, <1>9, <2>1, SessionsWere DEF Compressors, Side
  <2>3. ~c.driver.queued
    BY <1>6, <1>9, <2>1 DEF SameDriver
  <2>4. /\ {"SRC_BUFFER", "DST_BUFFER"} \subseteq c.flags
        /\ \A p \in 1 .. n : c.src[p] = "main"
        /\ shot.given /\ btb =>
             /\ "SRC_BUFFER2" \in c.flags
             /\ \A p \in n + 1 .. 2 * n : c.src[p] = "given"
    BY <1>6, <1>9, <2>1
  <2>5. /\ at' = "prepare" /\ shot' = shot /\ btb' = btb
        /\ enc'.inType = shot.memory /\ hw'["main"] = c
    BY <1>1, <1>11, <1>12, <2>1
  <2> QED
    BY <2>2, <2>3, <2>4, <2>5 DEF MainKept, Early, n
<1>18. PictureKept'
  BY <1>1, <1>14 DEF PictureKept, Calm, Early
<1>19. ResultKept'
  BY <1>1 DEF CameraInv, ResultKept, Early
<1> QED
  BY <1>13, <1>14, <1>15, <1>16, <1>17, <1>18, <1>19, CalmAfter DEF CameraInv

LEMMA EncodeRefusesKept ==
  ASSUME Orderly, TypeOK, TypeOK', CameraInv, EncodeRefuses
  PROVE  CameraInv'
<1> DEFINE c == WithOut(hw["main"])
<1>1. /\ at = "encode" /\ at' = "idle" /\ result' = "failed" /\ excused' = TRUE
      /\ enc' = [enc EXCEPT !.outType = shot.out]
      /\ hw' = [hw EXCEPT !["main"] = c]
      /\ UNCHANGED <<btb, images, buffers, call, thread, m_threadWorker, shot,
                     thumblen>>
  BY DEF EncodeRefuses, ShotEnds, threadVars
<1>2. shot.out \in Memory
  BY <1>1, ShotFacts, ShotType
<1>3. SameDriver(c, hw["main"]) /\ c.flags = hw["main"].flags \cup {"DST_BUFFER"}
  BY <1>2, SessionsWere, JpegFields DEF WithOut
<1> HIDE DEF c
<1>4. hw'["main"] = c /\ hw'["thumb"] = hw["thumb"]
  BY <1>1 DEF TypeOK, Session
<1>5. SessionsKnown'
  <2>1. SessionKnown("main", c)
    BY <1>3, SessionsWere, KnownSame DEF SameFlags
  <2> QED
    BY <1>4, <2>1, SessionsWere, SessionsAre
<1>6. Calm' /\ ~Generating' /\ at' \notin {"thumb", "again"}
  BY <1>1, <1>4, CalmBefore, CalmKept DEF Generating, Underway
<1>7. /\ enc'.pix = enc.pix /\ enc'.thumb = enc.thumb
      /\ enc'.noCreate = enc.noCreate /\ enc'.thumbType = enc.thumbType
      /\ enc'.changed = enc.changed
  BY <1>1 DEF TypeOK, Encoders
<1>8. EncKept'
  BY <1>1, <1>3, <1>4, <1>7 DEF CameraInv, EncKept, FormatOf, SameDriver
<1>9. MainKept'
  BY <1>1, <1>3, <1>4 DEF CameraInv, MainKept, SameDriver
<1>10. ShotKept' /\ PictureKept'
  BY <1>1, <1>6 DEF ShotKept, PictureKept, Calm
<1>11. ResultKept'
  BY <1>1 DEF CameraInv, ResultKept, Early
<1> QED
  BY <1>5, <1>6, <1>8, <1>9, <1>10, <1>11, CalmAfter DEF CameraInv

LEMMA NothingToPrepareKept ==
  ASSUME Orderly, TypeOK, TypeOK', CameraInv, NothingToPrepare
  PROVE  CameraInv'
<1>1. /\ at = "prepare" /\ at' = "compress" /\ shot.thumb = 0
      /\ UNCHANGED <<btb, enc, images, hw, buffers, call, thread,
                     m_threadWorker, shot, thumblen, result, excused>>
  BY DEF NothingToPrepare, encoderVars, threadVars
<1>2. ~shot.given
  BY <1>1, ShotFacts
<1>3. Calm' /\ ~Generating' /\ at' \notin {"thumb", "again"}
  BY <1>1, CalmBefore, CalmKept DEF Generating, Underway
<1>4. SessionsKnown' /\ EncKept'
  BY <1>1 DEF CameraInv, SessionsKnown, EncKept, FormatOf
<1>5. ShotKept'
  BY <1>1, <1>2 DEF CameraInv, ShotKept, Early
<1>6. MainKept'
  BY <1>1, <1>2 DEF CameraInv, MainKept, Early
<1>7. PictureKept'
  BY <1>1, <1>2, <1>3 DEF PictureKept, Calm
<1>8. ResultKept'
  BY <1>1 DEF CameraInv, ResultKept, Early
<1> QED
  BY <1>3, <1>4, <1>5, <1>6, <1>7, <1>8, CalmAfter DEF CameraInv

(* The second stream is made known to the main session.                    *)
LEMMA SecondStreamKnown ==
  ASSUME TypeOK, CameraInv
  PROVE  /\ SessionKnown("main", SecondStream["main"])
         /\ SecondStream["thumb"] = hw["thumb"]
         /\ SameDriver(SecondStream["main"], hw["main"])
         /\ SecondStream["main"].src = hw["main"].src
         /\ SecondStream["main"].memory = hw["main"].memory
         /\ hw["main"].flags \subseteq SecondStream["main"].flags
         /\ btb => "DST_BUFFER2" \in SecondStream["main"].flags
<1>1. SameFlags(SecondStream["main"], hw["main"])
  BY SecondStreamFields DEF SameFlags
<1> QED
  BY <1>1, SecondStreamFields, SessionsWere, KnownSame

LEMMA PrepareStreamKept ==
  ASSUME Orderly, TypeOK, TypeOK', CameraInv, PrepareStream
  PROVE  CameraInv'
<1> USE SecondStreamKnown DEF SameDriver
<1>1. /\ at = "prepare" /\ at' = "compress" /\ shot.thumb # 0 /\ enc.noCreate
      /\ buffers' = StreamBuffer(buffers) /\ hw' = SecondStream
      /\ UNCHANGED <<btb, enc, images, call, thread, m_threadWorker, shot,
                     thumblen, result, excused>>
  BY DEF PrepareStream, threadVars, IsThumbGenerationNeeded
<1>2. shot.given
  BY <1>1, ShotFacts
<1>3. /\ buffers'.image = buffers.image /\ buffers'.stream >= shot.thumb
      /\ buffers'.stream >= buffers.stream
      /\ buffers \in Buffers /\ buffers' \in Buffers
  BY <1>1, StreamBufferType DEF CameraInv, ShotKept, Early, TypeOK
<1>4. Calm' /\ ~Generating' /\ at' \notin {"thumb", "again"}
  BY <1>1, CalmBefore, CalmKept DEF Generating, Underway
<1>5. SessionsKnown'
  BY <1>1, SessionsWere, SessionsAre
<1>6. EncKept'
  <2>1. buffers'.image <= buffers'.stream
    BY <1>3 DEF Buffers, CameraInv, EncKept
  <2> QED
    BY <1>1, <2>1 DEF CameraInv, EncKept, FormatOf
<1>7. ShotKept'
  BY <1>1 DEF CameraInv, ShotKept, Early
<1>8. MainKept'
  BY <1>1, <1>3 DEF CameraInv, MainKept, Early
<1>9. PictureKept'
  <2>1. /\ images.memory = shot.memory2 /\ shot.memory2 = shot.memory
        /\ images.holds = [i \in 1 .. 2 |-> "given"]
    BY <1>1, <1>2 DEF CameraInv, ShotKept, Early
  <2>2. Pictured'
    BY <1>1, <1>2, <1>3, <2>1, ShotFacts DEF Pictured, ThumbMemory
  <2> QED
    BY <1>1, <1>2, <1>4, <2>2 DEF PictureKept, Calm
<1>10. ResultKept'
  BY <1>1 DEF CameraInv, ResultKept, Early
<1> QED
  BY <1>4, <1>5, <1>6, <1>7, <1>8, <1>9, <1>10, CalmAfter DEF CameraInv

LEMMA PrepareFailsKept ==
  ASSUME Orderly, TypeOK, TypeOK', CameraInv, PrepareFails
  PROVE  CameraInv'
<1>1. /\ at = "prepare" /\ at' = "idle" /\ result' = "failed" /\ excused' = TRUE
      /\ UNCHANGED <<btb, enc, images, hw, buffers, call, thread,
                     m_threadWorker, shot, thumblen>>
  BY DEF PrepareFails, ShotEnds, threadVars, Orderly
<1>2. Calm' /\ ~Generating' /\ at' \notin {"thumb", "again"}
  BY <1>1, CalmBefore, CalmKept DEF Generating, Underway
<1>3. SessionsKnown' /\ EncKept'
  BY <1>1 DEF CameraInv, SessionsKnown, EncKept, FormatOf
<1>4. ShotKept' /\ PictureKept'
  BY <1>1, <1>2 DEF ShotKept, PictureKept, Calm
<1>5. MainKept'
  BY <1>1 DEF CameraInv, MainKept
<1>6. ResultKept'
  BY <1>1 DEF CameraInv, ResultKept, Early
<1> QED
  BY <1>2, <1>3, <1>4, <1>5, <1>6, CalmAfter DEF CameraInv

LEMMA StartThreadKept ==
  ASSUME Orderly, TypeOK, TypeOK', CameraInv, NEW w \in Threads, StartThread(w)
  PROVE  CameraInv'
<1> USE SecondStreamKnown DEF SameDriver
<1>1. /\ at = "prepare" /\ at' = "compress" /\ shot.thumb # 0 /\ ~enc.noCreate
      /\ thread' = [thread EXCEPT ![w] = [at |-> "scale", len |-> 0]]
      /\ m_threadWorker' = w /\ hw' = SecondStream
      /\ UNCHANGED <<btb, enc, images, buffers, call, shot, thumblen, result,
                     excused>>
  BY DEF StartThread, IsThumbGenerationNeeded
<1>2. ~shot.given
  BY <1>1, ShotFacts
<1>3. Calm
  BY <1>1, CalmBefore DEF Generating, Underway
<1>4. /\ thread'[w] # None /\ thread'[w].at = "scale" /\ thread'[w].len = 0
      /\ \A v \in Threads : v # w => thread'[v] = None
  <2>1. [at |-> "scale", len |-> 0] \in ThreadStates
    BY DEF ThreadStates
  <2> QED
    BY <1>1, <1>3, <2>1, NoneIsNoValue DEF TypeOK, Calm
<1>5. SessionsKnown'
  BY <1>1, SessionsWere, SessionsAre
<1>6. EncKept'
  BY <1>1 DEF CameraInv, EncKept, FormatOf
<1>7. ShotKept'
  BY <1>1 DEF CameraInv, ShotKept, Early
<1>8. MainKept'
  BY <1>1, <1>2 DEF CameraInv, MainKept, Early
<1>9. Generating' /\ ThreadsKept' /\ OneThread'
  BY <1>1, <1>3, <1>4 DEF Generating, Underway, ThreadsKept, OneThread, Calm, Callers
<1>10. PictureKept'
  <2>1. ASSUME NEW v \in Threads, thread'[v] # None
        PROVE  v = w
    BY <1>4, <2>1
  <2> QED
    BY <1>1, <1>2, <1>4, <2>1 DEF PictureKept
<1>11. CallKept'
  BY <1>1, <1>3 DEF CallKept, Calm, Callers
<1>12. ResultKept'
  BY <1>1 DEF CameraInv, ResultKept, Early
<1> QED
  BY <1>5, <1>6, <1>7, <1>8, <1>9, <1>10, <1>11, <1>12 DEF CameraInv

-----------------------------------------------------------------------------
(* The main image.                                                         *)

(* A session that was told of the shot can compress for it, so that only a *)
(* fault keeps it from that, or a buffer that one left in the driver.      *)
LEMMA WillCompress ==
  ASSUME KindFollowsFormat, NEW s \in Session, NEW u \in Shots, Uses(s, u),
         NEW c \in Compressors, c.format # None, c.format.pix = PixOf(s, u),
         c.memory = KindsOf(s, u), SessionKnown(s, c), NEW dstOkay, dstOkay,
         {"SRC_BUFFER", "DST_BUFFER"} \subseteq c.flags,
         c.format.thumb # 0 => {"SRC_BUFFER2", "DST_BUFFER2"} \subseteq c.flags
  PROVE  Fits(c, dstOkay)
<1>1. /\ Formatted(c).format = c.format
      /\ c.flags \cap BufferFlags \subseteq Formatted(c).flags
  BY FormattedFields DEF SameImages
<1>2. Specified(Formatted(c))
  BY <1>1 DEF Specified, IsB2BCompression, BufferFlags
<1>3. Requested(Formatted(c)).driver.buffers = c.memory
  <2> DEFINE m == Formatted(c)
             q == Requested(m)
  <2>1. m \in Compressors /\ m.memory = c.memory
    BY FormattedFields DEF SameImages
  <2>2. q.driver.buffers = IF "REQBUFS" \in m.flags THEN m.driver.buffers
                           ELSE m.memory
    BY <2>1, RequestedFields
  <2>3. CASE "PIX_FMT" \notin c.flags
    <3>1. m = c
      BY <2>3 DEF Formatted
    <3>2. "REQBUFS" \in c.flags => c.driver.buffers = KindsOf(s, u)
      BY <2>3 DEF SessionKnown, RequestedFor
    <3> QED
      BY <2>2, <3>1, <3>2
  <2>4. CASE "PIX_FMT" \in c.flags
    <3>1. "REQBUFS" \notin m.flags
      BY <2>4, FormattedFields
    <3> QED
      BY <2>1, <2>2, <3>1
  <2> QED
    BY <2>3, <2>4
<1> QED
  BY <1>2, <1>3 DEF Fits

LEMMA MainTold ==
  ASSUME TypeOK, CameraInv, at \in Underway
  PROVE  LET c == hw["main"]
             n == Planes[shot.pix]
         IN /\ {"SRC_BUFFER", "DST_BUFFER"} \subseteq c.flags
            /\ c.memory["src"] = shot.memory /\ c.memory["dst"] = shot.out
            /\ enc.inType = shot.memory
            /\ \A p \in 1 .. n : c.src[p] = "main"
            /\ shot.given => buffers.stream >= shot.thumb
            /\ shot.given /\ btb =>
                 /\ {"SRC_BUFFER2", "DST_BUFFER2"} \subseteq c.flags
                 /\ \A p \in n + 1 .. 2 * n : c.src[p] = "given"
BY DEF CameraInv, MainKept, Underway, Early

(* Another state of the session, in which it was told the same.            *)
LEMMA MainStays ==
  ASSUME TypeOK, CameraInv, NEW r, SameImages(r, hw["main"]),
         at \in Underway, at' \in Underway,
         UNCHANGED <<btb, enc, shot>>, hw'["main"] = r,
         buffers'.stream = buffers.stream, buffers'.image = buffers.image,
         r.driver.queued => at' \in {"returned", "wait"},
         at' \in {"returned", "wait"} =>
           /\ "PIX_FMT" \notin r.flags /\ r.driver.stale = {}
           /\ r.driver.hwfc = shot.hwfc
  PROVE  EncKept' /\ MainKept'
<1>1. /\ r.format = hw["main"].format /\ r.memory = hw["main"].memory
      /\ r.src = hw["main"].src
      /\ hw["main"].flags \cap BufferFlags \subseteq r.flags
  BY DEF SameImages
<1>2. EncKept'
  BY <1>1 DEF CameraInv, EncKept, FormatOf, Underway
<1>3. /\ "SRC_BUFFER" \in r.flags /\ "DST_BUFFER" \in r.flags
      /\ r.memory["src"] = shot.memory /\ r.memory["dst"] = shot.out
      /\ enc.inType = shot.memory
      /\ \A p \in 1 .. Planes[shot.pix] : r.src[p] = "main"
      /\ shot.given => buffers.stream >= shot.thumb
      /\ shot.given /\ btb =>
           /\ "SRC_BUFFER2" \in r.flags /\ "DST_BUFFER2" \in r.flags
           /\ \A p \in Planes[shot.pix] + 1 .. 2 * Planes[shot.pix] :
                 r.src[p] = "given"
  BY <1>1, MainTold DEF BufferFlags
<1>4. MainKept'
  BY <1>3 DEF MainKept
<1> QED
  BY <1>2, <1>4

LEMMA CompressMainKept ==
  ASSUME Orderly, TypeOK, TypeOK', CameraInv, CompressMain
  PROVE  CameraInv'
<1> DEFINE c == hw["main"]
           r == Compressed(c, enc.hwfc)
<1>1. /\ at = "compress" /\ at' = IF enc.hwfc THEN "returned" ELSE "wait"
      /\ hw' = [hw EXCEPT !["main"] = r]
      /\ UNCHANGED <<btb, enc, images, buffers, call, thread, m_threadWorker,
                     shot, thumblen, result, excused>>
  BY DEF CompressMain, threadVars
<1>2. /\ shot \in Shots /\ c \in Compressors /\ enc.hwfc = shot.hwfc
      /\ enc.hwfc \in BOOLEAN
      /\ c.format # None /\ c.format.pix = shot.pix /\ c.memory = MainKinds(shot)
  BY <1>1, ShotFacts, MainFacts DEF Early
<1>3. /\ SessionKnown("main", r) /\ SameImages(r, c)
      /\ "PIX_FMT" \notin r.flags /\ r.driver.stale = {}
      /\ r.driver.hwfc = shot.hwfc
  <2>1. Uses("main", shot) /\ c.format.pix = PixOf("main", shot)
        /\ c.memory = KindsOf("main", shot) /\ KindFollowsFormat
    BY <1>2 DEF Uses, PixOf, KindsOf, Orderly
  <2>2. /\ SessionKnown("main", r) /\ "PIX_FMT" \notin r.flags
        /\ r.driver.stale = {} /\ r.driver.hwfc = enc.hwfc
    BY <1>2, <2>1, SessionsWere, KnownCompressed
  <2> QED
    BY <1>2, <2>2, CompressedFields
<1> HIDE DEF r
<1>4. hw'["main"] = r /\ hw'["thumb"] = hw["thumb"]
  BY <1>1 DEF TypeOK, Session
<1>5. SessionsKnown'
  BY <1>3, <1>4, SessionsWere, SessionsAre
<1>6. at \in Underway /\ at' \in {"returned", "wait"} /\ at' \in Underway
  BY <1>1 DEF Underway
<1>7. EncKept' /\ MainKept'
  BY <1>1, <1>3, <1>4, <1>6, MainStays
<1>8. ShotKept'
  BY <1>1, <1>6 DEF CameraInv, ShotKept, Underway, Early
<1>9. ThreadsKept' /\ OneThread'
  BY <1>1, <1>6 DEF CameraInv, ThreadsKept, OneThread, Generating
<1>10. PictureKept'
  BY <1>1, <1>6 DEF CameraInv, PictureKept, Pictured, Underway, Early
<1>11. CallKept'
  BY <1>1, <1>4, <1>6
     DEF CameraInv, CallKept, Pictured, FormatAsked, MaxThumbHere
<1>12. ResultKept'
  BY <1>1, <1>6 DEF CameraInv, ResultKept, Underway, Early
<1> QED
  BY <1>5, <1>7, <1>8, <1>9, <1>10, <1>11, <1>12 DEF CameraInv

LEMMA CompressMainFailsKept ==
  ASSUME Orderly, TypeOK, TypeOK', CameraInv, CompressMainFails
  PROVE  CameraInv'
<1> DEFINE c == hw["main"]
<1>1. PICK f \in CompressFailures(c, enc.hwfc, TRUE) :
         hw' = [hw EXCEPT !["main"] = f[1]] /\ excused' = (excused \/ f[2])
  BY DEF CompressMainFails
<1>2. /\ at = "compress" /\ at' = "idle" /\ result' = "failed"
      /\ \A w \in Threads : thread[w] = None
      /\ UNCHANGED <<btb, enc, images, buffers, call, thread, m_threadWorker,
                     shot, thumblen>>
  BY DEF CompressMainFails, ShotEnds, threadVars, Orderly
<1>3. /\ shot \in Shots /\ c \in Compressors /\ enc.hwfc = shot.hwfc
      /\ enc.hwfc \in BOOLEAN
      /\ c.format # None /\ c.format.pix = shot.pix /\ c.memory = MainKinds(shot)
      /\ c.format.thumb = IF shot.given /\ btb THEN shot.thumb ELSE 0
  BY <1>2, ShotFacts, MainFacts DEF Early
<1>4. Uses("main", shot) /\ c.format.pix = PixOf("main", shot)
      /\ c.memory = KindsOf("main", shot) /\ KindFollowsFormat
      /\ "S_EXT_CTRLS" \notin Faults
  BY <1>3 DEF Uses, PixOf, KindsOf, Orderly
<1>5. ~c.driver.queued
  BY <1>2 DEF CameraInv, MainKept
<1>6. SessionKnown("main", f[1]) /\ ~f[1].driver.queued /\ SameImages(f[1], c)
  BY <1>1, <1>3, <1>4, <1>5, SessionsWere, KnownFailed, FailedFields
<1>7. excused' = TRUE
  <2>1. {"SRC_BUFFER", "DST_BUFFER"} \subseteq c.flags
        /\ (c.format.thumb # 0 => {"SRC_BUFFER2", "DST_BUFFER2"} \subseteq c.flags)
    BY <1>2, <1>3, MainTold DEF Underway
  <2>2. Fits(c, TRUE)
    BY <1>3, <1>4, <2>1, SessionsWere, WillCompress
  <2>3. f[2]
    BY <1>1, <2>2, FailuresAre
  <2> QED
    BY <1>1, <2>3
<1>8. hw'["main"] = f[1] /\ hw'["thumb"] = hw["thumb"]
  BY <1>1 DEF TypeOK, Session
<1>9. SessionsKnown'
  BY <1>6, <1>8, SessionsWere, SessionsAre
<1>10. Calm' /\ ~Generating' /\ at' \notin {"thumb", "again"}
  <2>1. Calm
    <3>1. \A w \in Callers : call[w] = None
      BY <1>2 DEF CameraInv, OneThread, ThreadsKept, Callers
    <3>2. ~hw["thumb"].driver.queued
      BY <3>1 DEF CameraInv, CallKept, Callers
    <3> QED
      BY <1>2, <3>1, <3>2 DEF Calm
  <2> QED
    BY <1>2, <1>8, <2>1, CalmKept DEF Generating, Underway
<1>11. EncKept'
  <2>1. f[1].format = c.format
    BY <1>6 DEF SameImages
  <2> QED
    BY <1>2, <1>8, <2>1 DEF CameraInv, EncKept, FormatOf
<1>12. ShotKept' /\ MainKept' /\ PictureKept'
  BY <1>2, <1>6, <1>8, <1>10 DEF ShotKept, MainKept, PictureKept, Calm
<1>13. ResultKept'
  BY <1>2, <1>7 DEF CameraInv, ResultKept, Early
<1> QED
  BY <1>9, <1>10, <1>11, <1>12, <1>13, CalmAfter DEF CameraInv

LEMMA WaitForCompressionKept ==
  ASSUME Orderly, TypeOK, TypeOK', CameraInv, WaitForCompression
  PROVE  CameraInv'
<1>1. /\ at = "returned" /\ at' = "wait"
      /\ UNCHANGED <<btb, enc, images, hw, buffers, call, thread,
                     m_threadWorker, shot, thumblen, result, excused>>
  BY DEF WaitForCompression, encoderVars, threadVars
<1>2. SessionsKnown' /\ EncKept'
  BY <1>1 DEF CameraInv, SessionsKnown, EncKept, FormatOf
<1>3. ShotKept'
  BY <1>1 DEF CameraInv, ShotKept, Early
<1>4. MainKept'
  BY <1>1 DEF CameraInv, MainKept, Early
<1>5. ThreadsKept' /\ OneThread'
  BY <1>1 DEF CameraInv, ThreadsKept, OneThread, Generating, Underway
<1>6. PictureKept'
  BY <1>1 DEF CameraInv, PictureKept, Pictured, Early
<1>7. CallKept'
  BY <1>1 DEF CameraInv, CallKept, Pictured, FormatAsked, MaxThumbHere
<1>8. ResultKept'
  BY <1>1 DEF CameraInv, ResultKept, Early
<1> QED
  BY <1>2, <1>3, <1>4, <1>5, <1>6, <1>7, <1>8 DEF CameraInv

LEMMA DequeuedKnown ==
  ASSUME NEW s \in Session, NEW c \in Compressors, SessionKnown(s, c),
         NEW r \in {Dequeued(c)} \cup DequeueFailures(c)
  PROVE  SessionKnown(s, r) /\ SameImages(r, c) /\ ~r.driver.queued
<1>1. /\ r.flags = c.flags \ {"QBUF"} /\ r.format = c.format
      /\ r.memory = c.memory /\ r.src = c.src /\ ~r.driver.queued
  BY DequeuedFields, DequeueFailureFields
<1> QED
  BY <1>1, KnownDequeued DEF SameImages, BufferFlags

LEMMA MainDoneKept ==
  ASSUME Orderly, TypeOK, TypeOK', CameraInv, MainDone
  PROVE  CameraInv'
<1> DEFINE c == hw["main"]
           r == Dequeued(c)
           n == Planes[c.driver.format["src"].pix]
           holds == ThumbFrom([p \in 1 .. n |-> c.src[n + p]])
<1>1. /\ at = "wait" /\ at' = "finish" /\ hw' = [hw EXCEPT !["main"] = r]
      /\ IF IsB2BCompression(c)
         THEN thumblen' \in Lengths /\ buffers' = [buffers EXCEPT !.holds = holds]
         ELSE UNCHANGED <<thumblen, buffers>>
      /\ UNCHANGED <<btb, enc, images, call, thread, m_threadWorker, shot,
                     result, excused>>
  BY DEF MainDone, threadVars
<1>2. /\ shot \in Shots /\ shot.thumb \in 0 .. 2 /\ (shot.given => shot.thumb # 0)
      /\ Planes[shot.pix] \in 1 .. 2
      /\ (shot.given <=> shot.thumb # 0 /\ enc.noCreate)
      /\ c.format # None /\ c.format.pix = shot.pix
      /\ c.format.thumb = IF shot.given /\ btb THEN shot.thumb ELSE 0
  BY <1>1, ShotFacts, MainFacts, ShotType DEF Early
<1>3. SessionKnown("main", r) /\ SameImages(r, c) /\ ~r.driver.queued
  BY SessionsWere, DequeuedKnown
<1>4. IsB2BCompression(c) <=> shot.given /\ btb
  BY <1>2 DEF IsB2BCompression
<1>5. ASSUME shot.given, btb
      PROVE  holds = "thumb"
  <2>1. n = Planes[shot.pix]
    <3>1. "PIX_FMT" \notin c.flags
      BY <1>1 DEF CameraInv, MainKept
    <3>2. c.driver.format["src"] = c.format
      BY <3>1, SessionsWere DEF SessionKnown, Known, Side
    <3> QED
      BY <1>2, <3>2
  <2>2. \A p \in Planes[shot.pix] + 1 .. 2 * Planes[shot.pix] : c.src[p] = "given"
    BY <1>1, <1>5, MainTold DEF Underway
  <2>3. \A p \in 1 .. n : c.src[n + p] = "given"
    BY <1>2, <2>1, <2>2
  <2> HIDE DEF n
  <2> QED
    BY <2>3 DEF ThumbFrom
<1> HIDE DEF holds, r
<1>6. hw'["main"] = r /\ hw'["thumb"] = hw["thumb"]
  BY <1>1 DEF TypeOK, Session
<1>7. /\ buffers'.stream = buffers.stream /\ buffers'.image = buffers.image
      /\ shot.given /\ btb => buffers'.holds = "thumb" /\ thumblen' \in Lengths
      /\ ~(shot.given /\ btb) => buffers' = buffers /\ thumblen' = thumblen
  BY <1>1, <1>4, <1>5 DEF TypeOK, Buffers
<1>8. SessionsKnown'
  BY <1>3, <1>6, SessionsWere, SessionsAre
<1>9. EncKept' /\ MainKept'
  <2>1. at \in Underway /\ at' \in Underway /\ at' \notin {"returned", "wait"}
    BY <1>1 DEF Underway
  <2> QED
    BY <1>1, <1>3, <1>6, <1>7, <2>1, MainStays
<1>10. ShotKept'
  BY <1>1 DEF CameraInv, ShotKept, Early
<1>11. Generating' = Generating /\ (shot.given => ~Generating)
  BY <1>1, <1>2 DEF Generating, Underway
<1>12. ThreadsKept' /\ OneThread'
  BY <1>1, <1>11 DEF CameraInv, ThreadsKept, OneThread
<1>13. PictureKept'
  <2>1. Pictured' <=> Pictured
    BY <1>1, <1>7 DEF Pictured
  <2>2. shot.given => Pictured
    BY <1>1 DEF CameraInv, PictureKept, Early
  <2>3. ASSUME NEW w \in Threads, thread[w] # None
        PROVE  /\ thread[w].at = "compress" \/ thread[w].len > 0 => Pictured'
               /\ thread[w].at # "ended" => thread[w].len = 0
               /\ thread[w].at = "ended" =>
                    IF thread[w].len = 0 THEN excused ELSE buffers'.holds = "thumb"
    <3>1. ~shot.given
      BY <1>11, <2>3 DEF CameraInv, OneThread
    <3> QED
      BY <1>7, <2>1, <2>3, <3>1 DEF CameraInv, PictureKept
  <2> QED
    BY <1>1, <2>1, <2>2, <2>3 DEF PictureKept
<1>14. CallKept'
  BY <1>1, <1>6, <1>7
     DEF CameraInv, CallKept, Pictured, FormatAsked, MaxThumbHere
<1>15. ResultKept'
  <2>1. thumblen = 0 /\ 0 \notin Lengths /\ Lengths \subseteq Nat
    BY <1>1, ThumbConstants DEF CameraInv, ResultKept
  <2>2. CASE shot.given /\ btb
    <3>1. thumblen' > 0 /\ buffers'.holds = "thumb"
      <4>1. thumblen' \in Lengths /\ buffers'.holds = "thumb"
        BY <1>7, <2>2
      <4>2. \A l \in Lengths : l > 0
        BY ThumbConstants
      <4> QED
        BY <4>1, <4>2
    <3> QED
      BY <1>1, <1>2, <2>2, <3>1 DEF ResultKept, Early
  <2>3. CASE ~(shot.given /\ btb)
    <3>1. thumblen' = 0
      BY <1>7, <2>1, <2>3
    <3> QED
      BY <1>1, <1>2, <2>3, <3>1 DEF ResultKept, Early
  <2> QED
    BY <2>2, <2>3
<1> QED
  BY <1>8, <1>9, <1>10, <1>12, <1>13, <1>14, <1>15 DEF CameraInv

LEMMA MainFailsKept ==
  ASSUME Orderly, TypeOK, TypeOK', CameraInv, MainFails
  PROVE  CameraInv'
<1>0. PICK r \in DequeueFailures(hw["main"]) : hw' = [hw EXCEPT !["main"] = r]
  BY DEF MainFails
<1>1. /\ at = "wait" /\ at' = "idle" /\ result' = "failed" /\ excused' = TRUE
      /\ \A w \in Threads : thread[w] = None
      /\ UNCHANGED <<btb, enc, images, buffers, call, thread, m_threadWorker,
                     shot, thumblen>>
  BY DEF MainFails, ShotEnds, threadVars, Orderly
<1>2. SessionKnown("main", r) /\ SameImages(r, hw["main"]) /\ ~r.driver.queued
  BY SessionsWere, DequeuedKnown
<1>3. hw'["main"] = r /\ hw'["thumb"] = hw["thumb"]
  BY <1>0 DEF TypeOK, Session
<1>4. SessionsKnown'
  BY <1>2, <1>3, SessionsWere, SessionsAre
<1>5. Calm' /\ ~Generating' /\ at' \notin {"thumb", "again"}
  <2>1. Calm
    <3>1. \A w \in Callers : call[w] = None
      BY <1>1 DEF CameraInv, OneThread, ThreadsKept, Callers
    <3>2. ~hw["thumb"].driver.queued
      BY <3>1 DEF CameraInv, CallKept, Callers
    <3> QED
      BY <1>1, <3>1, <3>2 DEF Calm
  <2> QED
    BY <1>1, <1>3, <2>1, CalmKept DEF Generating, Underway
<1>6. EncKept'
  BY <1>1, <1>2, <1>3 DEF CameraInv, EncKept, FormatOf, SameImages
<1>7. ShotKept' /\ MainKept' /\ PictureKept'
  BY <1>1, <1>2, <1>3, <1>5 DEF ShotKept, MainKept, PictureKept, Calm
<1>8. ResultKept'
  BY <1>1 DEF CameraInv, ResultKept, Early
<1> QED
  BY <1>4, <1>5, <1>6, <1>7, <1>8, CalmAfter DEF CameraInv

-----------------------------------------------------------------------------
(* The thumbnail that is compressed on its own.                            *)
Later == {"thumb", "check", "again", "retried"}

(* What does not change once the main image is queued.                     *)
LEMMA LaterSame ==
  ASSUME TypeOK, CameraInv, at \notin {"idle", "prepare"} \cup Early,
         at' = at \/ (at \notin {"returned", "wait"} /\ at' \in Later),
         UNCHANGED <<btb, enc, shot>>, hw'["main"] = hw["main"],
         shot.given => images' = images /\ buffers'.stream >= shot.thumb,
         buffers'.image <= buffers'.stream
  PROVE  EncKept' /\ ShotKept' /\ MainKept'
<1>1. at' \notin {"idle", "prepare"} \cup Early
      /\ at' # "first" /\ at # "first" /\ at' # "second" /\ at' # "idle"
  BY DEF Later, Early
<1>2. EncKept'
  BY <1>1 DEF CameraInv, EncKept, FormatOf
<1>3. ShotKept'
  BY <1>1 DEF CameraInv, ShotKept, Early
<1>4. MainKept'
  <2>1. hw["main"].driver.queued => at' \in {"returned", "wait"}
    BY DEF CameraInv, MainKept, Later
  <2>2. at' \in {"returned", "wait"} => at \in {"returned", "wait"}
    BY DEF Later
  <2> QED
    BY <1>1, <2>1, <2>2 DEF CameraInv, MainKept, Early
<1> QED
  BY <1>2, <1>3, <1>4

LEMMA ThumbFacts ==
  ASSUME TypeOK, CameraInv, NEW w \in Callers, call[w] # None
  PROVE  /\ shot \in Shots /\ enc.thumb = shot.thumb /\ shot.thumb \in 1 .. 2
         /\ at \notin {"idle", "prepare"} \cup Early
         /\ call[w].pix = ThumbPix(shot) /\ call[w].memory = ThumbMemory(shot)
         /\ call[w].limit = IF at = "again" THEN MaxThumbHere ELSE MaxThumb
         /\ Pictured
         /\ w = Client => /\ at \in {"thumb", "again"} /\ ~Generating
                          /\ \A v \in Threads : thread[v] = None
         /\ w # Client => /\ w \in Threads /\ thread[w] # None
                          /\ thread[w].at = "compress"
                          /\ w = m_threadWorker /\ Generating
                          /\ at \in Underway /\ ~shot.given
<1>1. w = Client => at \in {"thumb", "again"}
  BY DEF CameraInv, ThreadsKept
<1>2. w # Client => /\ w \in Threads /\ thread[w] # None
                    /\ thread[w].at = "compress"
                    /\ w = m_threadWorker /\ Generating
  BY DEF CameraInv, OneThread, Callers
<1>3. at \notin {"idle", "prepare"} \cup Early
  BY <1>1, <1>2 DEF Generating, Underway, Early
<1>4. /\ call[w].pix = ThumbPix(shot) /\ call[w].memory = ThumbMemory(shot)
      /\ call[w].limit = IF at = "again" THEN MaxThumbHere ELSE MaxThumb
      /\ shot.thumb # 0 /\ Pictured
  BY DEF CameraInv, CallKept, Callers
<1>5. shot \in Shots /\ enc.thumb = shot.thumb
  BY <1>3, <1>4 DEF CameraInv, ShotKept, Early
<1>6. shot.thumb \in 1 .. 2
  BY <1>4, <1>5, ShotType
<1>7. w # Client => at \in Underway /\ ~shot.given
  BY <1>2, <1>3, ShotFacts DEF Generating, Early
<1>8. w = Client => ~Generating /\ \A v \in Threads : thread[v] = None
  BY <1>1 DEF CameraInv, OneThread, Generating, Underway
<1> QED
  BY <1>1, <1>2, <1>3, <1>4, <1>5, <1>6, <1>7, <1>8

(* What the session is told by the call.                                   *)
Told(c) ==
  /\ c.format = FormatAsked("thumb") /\ c.memory = ThumbKinds(shot)
  /\ {"SRC_BUFFER", "DST_BUFFER"} \subseteq c.flags
  /\ \A p \in 1 .. Planes[ThumbPix(shot)] :
        c.src[p] = IF shot.given THEN "given" ELSE "scaled"

LEMMA ThumbTold ==
  ASSUME TypeOK, CameraInv, NEW w \in Callers, call[w] # None,
         call[w].at # "setup"
  PROVE  LET c == hw["thumb"]
         IN /\ c \in Compressors /\ Told(c) /\ c.format # None
            /\ Uses("thumb", shot) /\ c.format.pix = PixOf("thumb", shot)
            /\ c.memory = KindsOf("thumb", shot) /\ c.format.thumb = 0
            /\ call[w].at # "dequeue" => ~c.driver.queued
            /\ call[w].at = "dequeue" => /\ "PIX_FMT" \notin c.flags
                                         /\ c.driver.stale = {} /\ ~c.driver.hwfc
<1>1. Told(hw["thumb"])
  BY DEF CameraInv, CallKept, Told, Callers
<1>2. /\ FormatAsked("thumb") # None
      /\ FormatAsked("thumb").pix = ThumbPix(shot)
      /\ FormatAsked("thumb").thumb = 0
  <2>1. ThumbPix(shot) \in DOMAIN Planes /\ shot.thumb \in 1 .. 2
    BY ThumbFacts, ShotType, ThumbnailFormats DEF ThumbPix
  <2>2. FormatAsked("thumb") = [pix |-> ThumbPix(shot), size |-> shot.thumb, thumb |-> 0]
    BY DEF FormatAsked, ThumbPix
  <2>3. FormatAsked("thumb") \in Formats
    BY <2>1, <2>2 DEF Formats
  <2> QED
    BY <2>2, <2>3, NoneIsNoFormat
<1>3. call[w].at # "dequeue" => ~hw["thumb"].driver.queued
  <2>1. \A v \in Callers : call[v] # None => v = w
    BY OneCaller
  <2> QED
    BY <2>1 DEF CameraInv, CallKept, Callers
<1>4. call[w].at = "dequeue" => /\ "PIX_FMT" \notin hw["thumb"].flags
                                /\ hw["thumb"].driver.stale = {}
                                /\ ~hw["thumb"].driver.hwfc
  BY DEF CameraInv, CallKept, Callers
<1>5. shot.thumb # 0
  BY ThumbFacts
<1> QED
  BY <1>1, <1>2, <1>3, <1>4, <1>5, SessionsWere DEF Told, Uses, PixOf, KindsOf

(* A step of the call that is not its last.                                *)
LEMMA CallGoesOn ==
  ASSUME TypeOK, CameraInv, NEW w \in Callers, call[w] # None, call'[w] # None,
         \A v \in Callers : v # w => call'[v] = call[v],
         call'[w].pix = call[w].pix, call'[w].limit = call[w].limit,
         call'[w].memory = call[w].memory,
         UNCHANGED <<btb, enc, images, thread, m_threadWorker, at, shot,
                     thumblen, result, excused>>,
         hw'["main"] = hw["main"], SessionKnown("thumb", hw'["thumb"]),
         buffers'.stream = buffers.stream, buffers'.image = buffers.image,
         buffers'.holds = buffers.holds \/ buffers'.holds = "thumb",
         Told(hw'["thumb"]),
         call'[w].at = "dequeue" => /\ "PIX_FMT" \notin hw'["thumb"].flags
                                    /\ hw'["thumb"].driver.stale = {}
                                    /\ ~hw'["thumb"].driver.hwfc,
         hw'["thumb"].driver.queued => call'[w].at = "dequeue"
  PROVE  CameraInv'
<1>1. at \notin {"idle", "prepare"} \cup Early
  BY ThumbFacts
<1>2. SessionsKnown'
  BY SessionsWere, SessionsAre
<1>3. EncKept' /\ ShotKept' /\ MainKept'
  <2>1. shot.given => buffers'.stream >= shot.thumb
    BY <1>1 DEF CameraInv, MainKept
  <2>2. buffers'.image <= buffers'.stream
    BY DEF CameraInv, EncKept
  <2> QED
    BY <1>1, <2>1, <2>2, LaterSame
<1>4. Generating' = Generating /\ (Pictured' <=> Pictured)
  BY DEF Generating, Pictured
<1>5. \A v \in Callers : (call'[v] # None) <=> (call[v] # None)
  OBVIOUS
<1>6. ThreadsKept' /\ OneThread'
  BY <1>4, <1>5 DEF CameraInv, ThreadsKept, OneThread, Callers
<1>7. PictureKept'
  BY <1>4 DEF CameraInv, PictureKept
<1>8. CallKept'
  <2>1. \A v \in Callers : call'[v] # None => v = w
    BY <1>5, OneCaller
  <2>2. /\ call'[w].pix = ThumbPix(shot) /\ call'[w].memory = ThumbMemory(shot)
        /\ call'[w].limit = IF at = "again" THEN MaxThumbHere ELSE MaxThumb
        /\ shot.thumb # 0 /\ Pictured
    BY ThumbFacts
  <2>3. MaxThumbHere' = MaxThumbHere /\ FormatAsked("thumb")' = FormatAsked("thumb")
    BY DEF MaxThumbHere, FormatAsked
  <2> QED
    BY <1>4, <2>1, <2>2, <2>3 DEF CallKept, Told, Callers
<1>9. ResultKept'
  BY DEF CameraInv, ResultKept, MaxThumbHere
<1> QED
  BY <1>2, <1>3, <1>6, <1>7, <1>8, <1>9 DEF CameraInv

(* Its last step, on the client's thread.                                  *)
LEMMA ClientReturns ==
  ASSUME TypeOK, CameraInv, call[Client] # None,
         NEW len \in {n \in Lengths : n <= MaxThumb} \cup {0},
         Returns(Client, len),
         len > 0 => buffers'.holds = "thumb" /\ len <= call[Client].limit,
         len = 0 => excused',
         buffers'.stream = buffers.stream, buffers'.image = buffers.image,
         hw'["main"] = hw["main"], SessionKnown("thumb", hw'["thumb"]),
         ~hw'["thumb"].driver.queued,
         UNCHANGED <<btb, enc, images, m_threadWorker, shot, result>>
  PROVE  CameraInv'
<1>1. /\ at \in {"thumb", "again"} /\ thumblen' = len
      /\ at' = IF at = "again" THEN "retried" ELSE "check"
      /\ \A v \in Callers : v # Client => call'[v] = call[v]
      /\ call'[Client] = None
  BY ThumbFacts, ReturnsFields DEF Callers
<1>2. Calm'
  <2>1. \A v \in Threads : thread[v] = None
    BY ThumbFacts DEF Callers
  <2>2. \A v \in Threads : thread'[v] = None
    BY <2>1, ReturnsFields DEF Callers
  <2>3. \A v \in Callers : call'[v] = None
    BY <1>1, OneCaller DEF Callers
  <2> QED
    BY <2>2, <2>3 DEF Calm
<1>3. ~Generating' /\ at' \notin {"thumb", "again"}
  BY <1>1 DEF Generating, Underway
<1>4. SessionsKnown'
  BY SessionsWere, SessionsAre
<1>5. at \notin {"idle", "prepare"} \cup Early
  BY <1>1 DEF Early
<1>6. EncKept' /\ ShotKept' /\ MainKept'
  <2>1. shot.given => buffers'.stream >= shot.thumb
    BY <1>5 DEF CameraInv, MainKept
  <2>2. buffers'.image <= buffers'.stream
    BY DEF CameraInv, EncKept
  <2>3. at \notin {"returned", "wait"} /\ at' \in Later
    BY <1>1 DEF Later
  <2> QED
    BY <1>5, <2>1, <2>2, <2>3, LaterSame
<1>7. Pictured'
  BY ThumbFacts DEF Pictured, Callers
<1>8. PictureKept'
  BY <1>2, <1>7 DEF PictureKept, Calm
<1>9. ResultKept'
  <2>1. /\ shot \in Shots /\ shot.thumb # 0 /\ shot.room \in Nat
        /\ call[Client].limit = IF at = "again" THEN MaxThumbHere ELSE MaxThumb
    BY ThumbFacts, ShotType DEF Callers
  <2>2. MaxThumbHere \in Nat /\ MaxThumbHere' = MaxThumbHere /\ len \in Nat
        /\ MaxThumb \in Nat /\ len <= MaxThumb
    BY <2>1, LengthType DEF MaxThumbHere, LeastOf
  <2>3. at = "thumb" => shot.given
    BY <1>1 DEF CameraInv, ResultKept
  <2>4. at = "again" => len <= MaxThumbHere
    BY <2>1, <2>2
  <2>5. len > 0 \/ excused'
    BY <2>2
  <2>6. thumblen' > 0 => buffers'.holds = "thumb"
    BY <1>1
  <2> QED
    BY <1>1, <2>1, <2>2, <2>3, <2>4, <2>5, <2>6 DEF ResultKept, Early
<1> QED
  BY <1>2, <1>3, <1>4, <1>6, <1>8, <1>9, CalmAfter DEF CameraInv

(* Its last step, on the thread of its own.                                *)
LEMMA ThreadReturns ==
  ASSUME TypeOK, CameraInv, NEW w \in Threads, call[w] # None,
         NEW len \in {n \in Lengths : n <= MaxThumb} \cup {0},
         Returns(w, len),
         len > 0 => buffers'.holds = "thumb",
         buffers'.holds = buffers.holds \/ buffers'.holds = "thumb",
         len = 0 => excused', excused => excused',
         buffers'.stream = buffers.stream, buffers'.image = buffers.image,
         hw'["main"] = hw["main"], SessionKnown("thumb", hw'["thumb"]),
         ~hw'["thumb"].driver.queued,
         UNCHANGED <<btb, enc, images, m_threadWorker, shot, result>>
  PROVE  CameraInv'
<1>1. w \in Callers /\ w # Client
  BY CallersApart
<1>2. /\ thread[w] # None /\ w = m_threadWorker /\ Generating /\ at \in Underway
      /\ ~shot.given /\ Pictured /\ at \notin {"idle", "prepare"} \cup Early
  BY <1>1, ThumbFacts
<1>3. /\ at' = at /\ thumblen' = thumblen
      /\ thread'[w] # None /\ thread'[w].at = "ended" /\ thread'[w].len = len
      /\ \A v \in Threads : v # w => thread'[v] = thread[v]
  BY <1>1, ReturnsFields
<1>4. \A v \in Threads : v # w => thread'[v] = None
  BY <1>2, <1>3 DEF CameraInv, OneThread
<1>5. \A v \in Callers : call'[v] = None
  BY <1>1, OneCaller, ReturnsFields
<1>6. SessionsKnown'
  BY SessionsWere, SessionsAre
<1>7. EncKept' /\ ShotKept' /\ MainKept'
  <2>1. buffers'.image <= buffers'.stream
    BY DEF CameraInv, EncKept
  <2> QED
    BY <1>2, <1>3, <2>1, LaterSame
<1>8. Generating' = Generating /\ Pictured'
  BY <1>2, <1>3 DEF Generating, Pictured
<1>9. ThreadsKept' /\ OneThread'
  <2>1. at' \notin {"thumb", "again"}
    BY <1>2, <1>3 DEF Underway
  <2> QED
    BY <1>2, <1>3, <1>4, <1>5, <1>8, <2>1 DEF ThreadsKept, OneThread, Callers
<1>10. PictureKept'
  <2>1. len \in Nat
    BY LengthType
  <2>2. at' \notin {"check", "again", "retried"}
    BY <1>2, <1>3 DEF Underway
  <2>3. thread'[w].len = 0 => excused'
    BY <1>3
  <2>4. thread'[w].len # 0 => buffers'.holds = "thumb"
    BY <1>3, <2>1
  <2> QED
    BY <1>2, <1>3, <1>4, <1>8, <2>2, <2>3, <2>4 DEF PictureKept
<1>11. CallKept'
  BY <1>5 DEF CallKept, Callers
<1>12. ResultKept'
  <2>1. at \notin {"check", "retried", "idle"}
    BY <1>2 DEF Underway
  <2> QED
    BY <1>3, <2>1 DEF CameraInv, ResultKept, MaxThumbHere
<1> QED
  BY <1>6, <1>7, <1>9, <1>10, <1>11, <1>12 DEF CameraInv

LEMMA CallReturns ==
  ASSUME TypeOK, CameraInv, NEW w \in Callers, call[w] # None,
         NEW len \in {n \in Lengths : n <= MaxThumb} \cup {0},
         Returns(w, len),
         len > 0 => buffers'.holds = "thumb" /\ len <= call[w].limit,
         buffers'.holds = buffers.holds \/ buffers'.holds = "thumb",
         len = 0 => excused', excused => excused',
         buffers'.stream = buffers.stream, buffers'.image = buffers.image,
         hw'["main"] = hw["main"], SessionKnown("thumb", hw'["thumb"]),
         ~hw'["thumb"].driver.queued,
         UNCHANGED <<btb, enc, images, m_threadWorker, shot, result>>
  PROVE  CameraInv'
<1>1. CASE w = Client
  BY <1>1, ClientReturns
<1>2. CASE w # Client
  <2>1. w \in Threads
    BY <1>2 DEF Callers
  <2> QED
    BY <2>1, ThreadReturns
<1> QED
  BY <1>1, <1>2

LEMMA SetUpKept ==
  ASSUME Orderly, TypeOK, TypeOK', CameraInv, NEW w \in Callers, SetUp(w)
  PROVE  CameraInv'
<1> DEFINE c == hw["thumb"]
           f == ThumbFormat(w)
           r == ToldThumb(w)
<1>1. /\ call[w] # None /\ call[w].at = "setup"
      /\ call' = [call EXCEPT ![w].at = "compress"]
      /\ hw' = [hw EXCEPT !["thumb"] = r]
      /\ UNCHANGED <<btb, enc, images, buffers, thread, m_threadWorker,
                     at, shot, thumblen, result, excused>>
  BY DEF SetUp, ToldThumb, shotVars
<1>2. /\ r \in Compressors /\ f \in Formats /\ f # None
      /\ r.format = f /\ r.memory = Kinds(call[w].memory, "DMABUF")
      /\ r.flags = c.flags \cup {"SRC_BUFFER", "DST_BUFFER"} \cup
                     (IF f = c.format THEN {} ELSE {"PIX_FMT"})
      /\ r.planes = IF f = c.format THEN c.planes ELSE Planes[f.pix]
      /\ \A p \in SrcPlane :
            p <= r.planes => r.src[p] = ReadImages(call[w].memory)[p]
      /\ r.controls = c.controls \cup {"QFACTOR"} /\ r.hwfc = c.hwfc
      /\ r.driver.stale = c.driver.stale \cup {"QFACTOR"}
      /\ r.driver.format = c.driver.format
      /\ r.driver.buffers = c.driver.buffers
      /\ r.driver.queued = c.driver.queued /\ r.driver.hwfc = c.driver.hwfc
  BY <1>1, ToldThumbFields
<1>3. /\ shot \in Shots /\ enc.thumb = shot.thumb
      /\ at \notin {"idle", "prepare"} \cup Early
      /\ call[w].pix = ThumbPix(shot) /\ call[w].memory = ThumbMemory(shot)
      /\ Pictured
  BY <1>1, ThumbFacts
<1>4. c \in Compressors /\ SessionKnown("thumb", c)
  BY SessionsWere
<1> HIDE DEF r, f
<1>5. r.planes = Planes[f.pix]
  BY <1>2, <1>4 DEF SessionKnown, Known
<1>6. SessionKnown("thumb", r)
  <2> HIDE DEF c
  <2>1. "PIX_FMT" \notin r.flags =>
          /\ "PIX_FMT" \notin c.flags /\ r.format = c.format
    BY <1>2
  <2>2. Known(r)
    BY <1>2, <1>4, <1>5, <2>1 DEF SessionKnown, Known
  <2>3. ASSUME NEW u \in Shots, Uses("thumb", u), r.format.pix = PixOf("thumb", u)
        PROVE  RequestedFor(r, KindsOf("thumb", u))
    <3>1. CASE f = c.format
      <4>1. RequestedFor(c, KindsOf("thumb", u))
        BY <1>2, <1>4, <2>3, <3>1 DEF SessionKnown
      <4>2. "REQBUFS" \in r.flags /\ "PIX_FMT" \notin r.flags =>
              "REQBUFS" \in c.flags /\ "PIX_FMT" \notin c.flags
        BY <1>2
      <4> QED
        BY <1>2, <4>1, <4>2 DEF RequestedFor
    <3>2. CASE f # c.format
      BY <1>2, <3>2 DEF RequestedFor
    <3> QED
      BY <3>1, <3>2
  <2> QED
    BY <2>2, <2>3 DEF SessionKnown
<1>7. hw'["thumb"] = r /\ hw'["main"] = hw["main"]
  BY <1>1 DEF TypeOK, Session
<1>8. /\ call'[w] # None /\ call'[w].at = "compress"
      /\ call'[w].limit = call[w].limit /\ call'[w].pix = call[w].pix
      /\ call'[w].memory = call[w].memory
      /\ \A v \in Callers : v # w => call'[v] = call[v]
  BY <1>1, CallMoves
<1>9. Told(r)
  <2>1. f = FormatAsked("thumb") /\ f.pix = ThumbPix(shot)
    BY <1>3 DEF ThumbFormat, FormatAsked, ThumbPix, f
  <2>2. r.memory = ThumbKinds(shot)
    BY <1>2, <1>3 DEF ThumbKinds
  <2>3. ReadImages(call[w].memory) = images.holds
    BY <1>3 DEF Pictured, ReadImages
  <2>4. Planes[ThumbPix(shot)] \in 1 .. 2
    BY <1>3, ShotFacts
  <2>5. \A p \in 1 .. Planes[ThumbPix(shot)] :
          r.src[p] = IF shot.given THEN "given" ELSE "scaled"
    <3>1. \A p \in 1 .. Planes[ThumbPix(shot)] : r.src[p] = images.holds[p]
      BY <1>2, <1>5, <2>1, <2>3, <2>4 DEF SrcPlane
    <3> QED
      BY <1>3, <3>1 DEF Pictured
  <2> QED
    BY <1>2, <2>1, <2>2, <2>5 DEF Told
<1>10. ~r.driver.queued
  <2>1. \A v \in Callers : call[v] # None => v = w
    BY <1>1, OneCaller
  <2>2. ~c.driver.queued
    BY <1>1, <2>1 DEF CameraInv, CallKept, Callers
  <2> QED
    BY <1>2, <2>2
<1> QED
  BY <1>1, <1>6, <1>7, <1>8, <1>9, <1>10, CallGoesOn

LEMMA CompressThumbKept ==
  ASSUME Orderly, TypeOK, TypeOK', CameraInv, NEW w \in Callers, CompressThumb(w)
  PROVE  CameraInv'
<1> DEFINE c == hw["thumb"]
           r == Compressed(c, FALSE)
<1>1. /\ call[w] # None /\ call[w].at = "compress"
      /\ call' = [call EXCEPT ![w].at = "dequeue"]
      /\ hw' = [hw EXCEPT !["thumb"] = r]
      /\ UNCHANGED <<btb, enc, images, buffers, thread, m_threadWorker,
                     at, shot, thumblen, result, excused>>
  BY DEF CompressThumb, shotVars
<1>2. /\ c \in Compressors /\ Told(c) /\ c.format # None
      /\ Uses("thumb", shot) /\ c.format.pix = PixOf("thumb", shot)
      /\ c.memory = KindsOf("thumb", shot) /\ shot \in Shots
      /\ SessionKnown("thumb", c) /\ KindFollowsFormat
  BY <1>1, ThumbTold, ThumbFacts, SessionsWere DEF Orderly
<1>3. /\ SessionKnown("thumb", r) /\ SameImages(r, c)
      /\ "PIX_FMT" \notin r.flags /\ r.driver.stale = {} /\ ~r.driver.hwfc
  <2>1. SameImages(r, c)
    BY <1>2, CompressedFields
  <2>2. /\ SessionKnown("thumb", r) /\ "PIX_FMT" \notin r.flags
        /\ r.driver.stale = {} /\ r.driver.hwfc = FALSE
    <3> DEFINE hwfc == FALSE
    <3>1. hwfc \in BOOLEAN /\ r = Compressed(c, hwfc)
      OBVIOUS
    <3> HIDE DEF hwfc, r
    <3>2. /\ SessionKnown("thumb", r) /\ "PIX_FMT" \notin r.flags
          /\ r.driver.stale = {} /\ r.driver.hwfc = hwfc
      BY <1>2, <3>1, SessionsWere, KnownCompressed
    <3> QED
      BY <3>2 DEF hwfc
  <2> QED
    BY <2>1, <2>2
<1> HIDE DEF r
<1>4. hw'["thumb"] = r /\ hw'["main"] = hw["main"]
  BY <1>1 DEF TypeOK, Session
<1>5. /\ call'[w] # None /\ call'[w].at = "dequeue"
      /\ call'[w].limit = call[w].limit /\ call'[w].pix = call[w].pix
      /\ call'[w].memory = call[w].memory
      /\ \A v \in Callers : v # w => call'[v] = call[v]
  BY <1>1, CallMoves
<1>6. Told(r)
  BY <1>2, <1>3 DEF Told, SameImages, BufferFlags
<1> QED
  BY <1>1, <1>3, <1>4, <1>5, <1>6, CallGoesOn

LEMMA CompressThumbFailsKept ==
  ASSUME Orderly, TypeOK, TypeOK', CameraInv, NEW w \in Callers,
         CompressThumbFails(w)
  PROVE  CameraInv'
<1> DEFINE c == hw["thumb"]
<1>1. PICK f \in CompressFailures(c, FALSE, HasStream) :
         hw' = [hw EXCEPT !["thumb"] = f[1]] /\ excused' = (excused \/ f[2])
  BY DEF CompressThumbFails
<1>2. /\ call[w] # None /\ call[w].at = "compress" /\ Returns(w, 0)
      /\ UNCHANGED <<btb, enc, images, buffers, m_threadWorker, shot, result>>
  BY DEF CompressThumbFails
<1>3. /\ c \in Compressors /\ Told(c) /\ c.format # None
      /\ Uses("thumb", shot) /\ c.format.pix = PixOf("thumb", shot)
      /\ c.memory = KindsOf("thumb", shot) /\ c.format.thumb = 0
      /\ ~c.driver.queued /\ shot \in Shots
      /\ SessionKnown("thumb", c) /\ KindFollowsFormat
      /\ "S_EXT_CTRLS" \notin Faults
  BY <1>2, ThumbTold, ThumbFacts, SessionsWere DEF Orderly
<1>4. HasStream
  <2>1. shot.thumb \in 1 .. 2 /\ buffers.stream >= shot.thumb /\ buffers \in Buffers
    BY <1>2, ThumbFacts DEF Pictured, TypeOK
  <2> QED
    BY <2>1 DEF HasStream, Buffers
<1>5. f[2]
  <2>1. Fits(c, HasStream)
    BY <1>3, <1>4, SessionsWere, WillCompress DEF Told
  <2> QED
    BY <1>1, <2>1, FailuresAre
<1>6. SessionKnown("thumb", f[1]) /\ ~f[1].driver.queued
  BY <1>1, <1>3, SessionsWere, KnownFailed
<1>7. hw'["thumb"] = f[1] /\ hw'["main"] = hw["main"]
  BY <1>1 DEF TypeOK, Session
<1>8. excused' = TRUE
  BY <1>1, <1>5
<1> QED
  BY <1>2, <1>6, <1>7, <1>8, CallReturns

LEMMA ThumbFailsKept ==
  ASSUME Orderly, TypeOK, TypeOK', CameraInv, NEW w \in Callers, ThumbFails(w)
  PROVE  CameraInv'
<1>0. PICK r \in DequeueFailures(hw["thumb"]) : hw' = [hw EXCEPT !["thumb"] = r]
  BY DEF ThumbFails
<1>1. /\ call[w] # None /\ Returns(w, 0) /\ excused' = TRUE
      /\ UNCHANGED <<btb, enc, images, buffers, m_threadWorker, shot, result>>
  BY DEF ThumbFails
<1>2. SessionKnown("thumb", r) /\ ~r.driver.queued
  BY SessionsWere, DequeuedKnown
<1>3. hw'["thumb"] = r /\ hw'["main"] = hw["main"]
  BY <1>0 DEF TypeOK, Session
<1> QED
  BY <1>1, <1>2, <1>3, CallReturns

LEMMA ThumbDoneKept ==
  ASSUME Orderly, TypeOK, TypeOK', CameraInv, NEW w \in Callers, ThumbDone(w)
  PROVE  CameraInv'
<1> DEFINE c == hw["thumb"]
           n == Planes[c.driver.format["src"].pix]
           again == NextQuality(call[w].quality)
           d == Dequeued(c)
           q == SetQuality(d, "QFACTOR")
           holds == ThumbFrom([p \in 1 .. n |-> c.src[p]])
<1>1. /\ call[w] # None /\ call[w].at = "dequeue" /\ call[w] \in Calls
      /\ UNCHANGED <<btb, enc, images, m_threadWorker, shot, result>>
      /\ buffers' = [buffers EXCEPT !.holds = holds]
  BY DEF ThumbDone, TypeOK, Callers
<1>2. PICK len \in Lengths :
        \/ /\ len <= call[w].limit
           /\ hw' = [hw EXCEPT !["thumb"] = d]
           /\ Returns(w, len) /\ UNCHANGED excused
        \/ /\ len > call[w].limit /\ again >= 20
           /\ hw' = [hw EXCEPT !["thumb"] = q]
           /\ call' = [call EXCEPT ![w].at = "compress", ![w].quality = again]
           /\ UNCHANGED <<thread, at, thumblen, excused>>
        \/ /\ len > call[w].limit /\ again < 20
           /\ hw' = [hw EXCEPT !["thumb"] = d]
           /\ Returns(w, 0) /\ excused' = TRUE
  BY DEF ThumbDone
<1>3. /\ c \in Compressors /\ Told(c) /\ c.format # None
      /\ c.format.pix = PixOf("thumb", shot) /\ "PIX_FMT" \notin c.flags
      /\ SessionKnown("thumb", c)
  BY <1>1, ThumbTold, SessionsWere
<1>4. holds = "thumb"
  <2>1. n = Planes[ThumbPix(shot)]
    BY <1>3 DEF SessionKnown, Known, PixOf, Side
  <2>2. \A p \in 1 .. n : c.src[p] \in {"given", "scaled"}
    BY <1>3, <2>1 DEF Told
  <2> HIDE DEF n
  <2> QED
    BY <2>2 DEF ThumbFrom
<1>5. /\ SessionKnown("thumb", d) /\ SameImages(d, c) /\ ~d.driver.queued
      /\ d \in Compressors
  BY <1>3, SessionsWere, DequeuedKnown, DequeuedFields
<1>6. /\ SessionKnown("thumb", q) /\ SameImages(q, c) /\ ~q.driver.queued
  <2> HIDE DEF d
  <2>1. SessionKnown("thumb", q)
    BY <1>5, SessionsWere, KnownQuality DEF Control
  <2>2. /\ q.flags = d.flags /\ q.format = d.format /\ q.memory = d.memory
        /\ q.src = d.src /\ q.driver.queued = d.driver.queued
    BY <1>5, QualityFields DEF Control
  <2> QED
    BY <1>5, <2>1, <2>2 DEF SameImages
<1> HIDE DEF holds, q, d
<1>7. /\ buffers'.stream = buffers.stream /\ buffers'.image = buffers.image
      /\ buffers'.holds = "thumb"
  BY <1>1, <1>4 DEF TypeOK, Buffers
<1>8. len \in Nat /\ call[w].limit \in 0 .. MaxThumb /\ len > 0
  BY <1>1, LengthType DEF Calls
<1>9. CASE /\ len <= call[w].limit /\ hw' = [hw EXCEPT !["thumb"] = d]
           /\ Returns(w, len) /\ UNCHANGED excused
  <2>1. len \in {k \in Lengths : k <= MaxThumb} \cup {0}
    BY <1>8, <1>9, LengthType
  <2>2. hw'["thumb"] = d /\ hw'["main"] = hw["main"]
    BY <1>9 DEF TypeOK, Session
  <2> QED
    BY <1>1, <1>5, <1>7, <1>8, <1>9, <2>1, <2>2, CallReturns
<1>10. CASE /\ hw' = [hw EXCEPT !["thumb"] = d]
            /\ Returns(w, 0) /\ excused' = TRUE
  <2>1. hw'["thumb"] = d /\ hw'["main"] = hw["main"]
    BY <1>10 DEF TypeOK, Session
  <2> QED
    BY <1>1, <1>5, <1>7, <1>10, <2>1, CallReturns
<1>11. CASE /\ again >= 20 /\ hw' = [hw EXCEPT !["thumb"] = q]
            /\ call' = [call EXCEPT ![w].at = "compress", ![w].quality = again]
            /\ UNCHANGED <<thread, at, thumblen, excused>>
  <2>1. again \in 20 .. 100
    BY <1>1, <1>11 DEF NextQuality, LeastOf, Calls
  <2>2. /\ call'[w] # None /\ call'[w].at = "compress"
        /\ call'[w].limit = call[w].limit /\ call'[w].pix = call[w].pix
        /\ call'[w].memory = call[w].memory
        /\ \A v \in Callers : v # w => call'[v] = call[v]
    BY <1>1, <1>11, <2>1, CallAdvances
  <2>3. hw'["thumb"] = q /\ hw'["main"] = hw["main"]
    BY <1>11 DEF TypeOK, Session
  <2>4. Told(q)
    BY <1>3, <1>6 DEF Told, SameImages, BufferFlags
  <2> QED
    BY <1>1, <1>6, <1>7, <1>11, <2>2, <2>3, <2>4, CallGoesOn
<1> QED
  BY <1>2, <1>9, <1>10, <1>11

-----------------------------------------------------------------------------
(* The thread.                                                             *)

(* While the picture is not scaled down, nothing is compressed from it.    *)
LEMMA ScalingFacts ==
  ASSUME TypeOK, CameraInv, NEW w \in Threads, thread[w] # None,
         thread[w].at = "scale"
  PROVE  /\ w = m_threadWorker /\ Generating /\ at \in Underway
         /\ at \notin {"idle", "prepare"} \cup Early
         /\ shot \in Shots /\ ~shot.given /\ enc.thumb = shot.thumb
         /\ enc.pix = shot.pix /\ shot.thumb # 0
         /\ thread[w].len = 0 /\ thumblen = 0
         /\ \A v \in Threads : v # w => thread[v] = None
         /\ \A v \in Callers : call[v] = None
         /\ ~hw["thumb"].driver.queued
<1>1. /\ w = m_threadWorker /\ Generating
      /\ \A v \in Threads : v # w => thread[v] = None
  BY DEF CameraInv, OneThread
<1>2. at \in Underway /\ at \notin {"idle", "prepare"} \cup Early /\ shot.thumb # 0
  BY <1>1 DEF Generating, Underway, Early
<1>3. shot \in Shots /\ ~shot.given
  BY <1>1, <1>2, ShotFacts DEF Generating, Early
<1>4. enc.thumb = shot.thumb /\ enc.pix = shot.pix
  BY <1>2 DEF CameraInv, ShotKept
<1>5. thread[w].len = 0
  BY DEF CameraInv, PictureKept
<1>6. \A v \in Callers : call[v] = None
  <2>1. call[Client] = None
    BY <1>2 DEF CameraInv, ThreadsKept, Underway
  <2>2. \A v \in Threads : call[v] = None
    BY <1>1 DEF CameraInv, OneThread
  <2> QED
    BY <2>1, <2>2 DEF Callers
<1>7. ~hw["thumb"].driver.queued
  BY <1>6 DEF CameraInv, CallKept, Callers
<1>8. thumblen = 0
  BY <1>2, <1>3 DEF CameraInv, ResultKept, Underway, Early
<1> QED
  BY <1>1, <1>2, <1>3, <1>4, <1>5, <1>6, <1>7, <1>8

LEMMA ScaleKept ==
  ASSUME Orderly, TypeOK, TypeOK', CameraInv, NEW w \in Threads, Scale(w)
  PROVE  CameraInv'
<1> DEFINE new == NewCall(MaxThumb, Quality, GetThumbnailFormat(enc.pix), "DMABUF")
           c == hw["main"]
<1>1. /\ thread[w] # None /\ thread[w].at = "scale" /\ thread[w] \in ThreadStates
      /\ buffers' = BothBuffers(buffers)
      /\ images' = [memory |-> "DMABUF",
                    holds |-> [i \in 1 .. 2 |->
                                 IF i = 1 THEN ScaledFrom(c) ELSE "stale"]]
      /\ thread' = [thread EXCEPT ![w].at = "compress"]
      /\ call' = [call EXCEPT ![w] = new]
      /\ UNCHANGED <<btb, enc, hw, m_threadWorker, at, shot, thumblen, result,
                     excused>>
  BY DEF Scale, shotVars, TypeOK
<1>2. /\ w = m_threadWorker /\ Generating /\ at \in Underway
      /\ at \notin {"idle", "prepare"} \cup Early
      /\ shot \in Shots /\ ~shot.given /\ enc.thumb = shot.thumb
      /\ enc.pix = shot.pix /\ shot.thumb # 0
      /\ thread[w].len = 0 /\ thumblen = 0
      /\ \A v \in Threads : v # w => thread[v] = None
      /\ \A v \in Callers : call[v] = None
      /\ ~hw["thumb"].driver.queued
  BY <1>1, ScalingFacts
<1>3. /\ new \in Calls /\ new # None /\ new.at = "setup" /\ new.limit = MaxThumb
      /\ new.pix = ThumbPix(shot) /\ new.memory = ThumbMemory(shot)
  <2>1. MaxThumb \in 0 .. MaxThumb /\ Quality \in 20 .. 100
    BY ThumbConstants
  <2>2. GetThumbnailFormat(enc.pix) \in DOMAIN Planes
    BY <1>2, ShotType, ThumbnailFormats
  <2> QED
    BY <1>2, <2>1, <2>2, NewCallType
       DEF NewCall, Memory, ThumbPix, ThumbMemory
<1> HIDE DEF new
<1>4. /\ call'[w] = new
      /\ \A v \in Callers : v # w => call'[v] = None
  BY <1>1, <1>2, CallersApart DEF TypeOK, Callers
<1>5. /\ thread'[w] # None /\ thread'[w].at = "compress" /\ thread'[w].len = 0
      /\ \A v \in Threads : v # w => thread'[v] = None
  <2> DEFINE r == [thread[w] EXCEPT !.at = "compress"]
  <2>1. r \in ThreadStates /\ r.at = "compress" /\ r.len = 0
    BY <1>1, <1>2 DEF ThreadStates
  <2>2. thread' = [thread EXCEPT ![w] = r]
    BY <1>1
  <2> HIDE DEF r
  <2> QED
    BY <1>2, <2>1, <2>2, NoneIsNoValue DEF TypeOK
<1>6. /\ buffers'.image >= shot.thumb /\ buffers'.stream >= shot.thumb
      /\ buffers'.image <= buffers'.stream
  BY <1>1, <1>2, StreamBufferType DEF CameraInv, EncKept
<1>7. Pictured'
  <2>1. c.planes = Planes[shot.pix] /\ Planes[shot.pix] \in 1 .. 2
    BY <1>2, MainFacts, ShotFacts
  <2>2. \A p \in 1 .. Planes[shot.pix] : c.src[p] = "main"
    BY <1>2, MainTold
  <2>3. ScaledFrom(c) = "scaled"
    BY <2>1, <2>2 DEF ScaledFrom
  <2>4. images'.memory = "DMABUF" /\ images'.holds[1] = "scaled"
    BY <1>1, <2>3
  <2>5. Planes[ThumbPix(shot)] = 1 /\ ThumbMemory(shot) = "DMABUF"
    BY <1>2, ShotFacts DEF ThumbMemory
  <2> QED
    BY <1>1, <1>2, <1>6, <2>4, <2>5 DEF Pictured
<1>8. SessionsKnown'
  BY <1>1 DEF CameraInv, SessionsKnown
<1>9. EncKept' /\ ShotKept' /\ MainKept'
  BY <1>1, <1>2, <1>6, LaterSame
<1>10. ThreadsKept' /\ OneThread'
  <2>1. Generating' /\ at' \notin {"thumb", "again"}
    BY <1>1, <1>2 DEF Generating, Underway
  <2>2. Client \in Callers /\ w # Client /\ Threads \subseteq Callers
    BY CallersApart DEF Callers
  <2> QED
    BY <1>1, <1>2, <1>4, <1>5, <2>1, <2>2 DEF ThreadsKept, OneThread
<1>11. PictureKept'
  BY <1>1, <1>2, <1>5, <1>7, ThumbConstants DEF PictureKept, Underway
<1>12. CallKept'
  <2>1. at # "again"
    BY <1>2 DEF Underway
  <2> QED
    BY <1>1, <1>2, <1>3, <1>4, <1>7, <2>1 DEF CallKept, Callers
<1>13. ResultKept'
  BY <1>1, <1>2 DEF CameraInv, ResultKept, MaxThumbHere
<1> QED
  BY <1>8, <1>9, <1>10, <1>11, <1>12, <1>13 DEF CameraInv

LEMMA ScaleFailsKept ==
  ASSUME Orderly, TypeOK, TypeOK', CameraInv, NEW w \in Threads, ScaleFails(w)
  PROVE  CameraInv'
<1>1. /\ thread[w] # None /\ thread[w].at = "scale"
      /\ \/ buffers' = BothBuffers(buffers)
         \/ buffers' = [buffers EXCEPT !.image = 0]
      /\ thread' = [thread EXCEPT ![w] = [at |-> "ended", len |-> 0]]
      /\ excused' = TRUE
      /\ UNCHANGED <<btb, enc, images, hw, call, m_threadWorker, at, shot,
                     thumblen, result>>
  BY DEF ScaleFails, Orderly
<1>2. /\ w = m_threadWorker /\ Generating /\ at \in Underway
      /\ at \notin {"idle", "prepare"} \cup Early
      /\ shot \in Shots /\ ~shot.given /\ thumblen = 0
      /\ \A v \in Threads : v # w => thread[v] = None
      /\ \A v \in Callers : call[v] = None
      /\ ~hw["thumb"].driver.queued
  BY <1>1, ScalingFacts
<1>3. /\ thread'[w] # None /\ thread'[w].at = "ended" /\ thread'[w].len = 0
      /\ \A v \in Threads : v # w => thread'[v] = None
  BY <1>1, <1>2, ThreadEnds
<1>4. buffers'.image <= buffers'.stream
  <2>1. CASE buffers' = BothBuffers(buffers)
    BY <2>1, StreamBufferType DEF CameraInv, EncKept
  <2>2. CASE buffers' = [buffers EXCEPT !.image = 0]
    BY <2>2 DEF TypeOK, Buffers
  <2> QED
    BY <1>1, <2>1, <2>2
<1>5. SessionsKnown'
  BY <1>1 DEF CameraInv, SessionsKnown
<1>6. EncKept' /\ ShotKept' /\ MainKept'
  BY <1>1, <1>2, <1>4, LaterSame
<1>7. ThreadsKept' /\ OneThread'
  <2>1. Generating' /\ at' \notin {"thumb", "again"}
    BY <1>1, <1>2 DEF Generating, Underway
  <2>2. Client \in Callers /\ Threads \subseteq Callers
    BY CallersApart DEF Callers
  <2> QED
    BY <1>1, <1>2, <1>3, <2>1, <2>2 DEF ThreadsKept, OneThread
<1>8. PictureKept'
  BY <1>1, <1>2, <1>3 DEF PictureKept, Underway
<1>9. CallKept'
  BY <1>1, <1>2 DEF CallKept, Callers
<1>10. ResultKept'
  BY <1>1, <1>2 DEF CameraInv, ResultKept, MaxThumbHere
<1> QED
  BY <1>5, <1>6, <1>7, <1>8, <1>9, <1>10 DEF CameraInv

-----------------------------------------------------------------------------
(* FinishCompression.                                                      *)
LEMMA FinishesWithoutKept ==
  ASSUME Orderly, TypeOK, TypeOK', CameraInv, FinishesWithout
  PROVE  CameraInv'
<1>1. /\ at = "finish" /\ at' = "idle" /\ result' = "okay" /\ shot.thumb = 0
      /\ thumblen' = 0
      /\ UNCHANGED <<btb, enc, images, hw, buffers, call, thread,
                     m_threadWorker, shot, excused>>
  BY DEF FinishesWithout, ShotEnds, encoderVars, threadVars
<1>2. Calm' /\ ~Generating' /\ at' \notin {"thumb", "again"}
  BY <1>1, CalmBefore, CalmKept DEF Generating, Underway
<1>3. SessionsKnown' /\ EncKept'
  BY <1>1 DEF CameraInv, SessionsKnown, EncKept, FormatOf
<1>4. ShotKept' /\ PictureKept'
  BY <1>1, <1>2 DEF ShotKept, PictureKept, Calm
<1>5. MainKept'
  BY <1>1 DEF CameraInv, MainKept
<1>6. shot \in Shots
  BY <1>1, ShotFacts
<1>7. ResultKept'
  BY <1>1, <1>6 DEF ResultKept, Early
<1> QED
  BY <1>2, <1>3, <1>4, <1>5, <1>7, CalmAfter DEF CameraInv

LEMMA JoinThreadKept ==
  ASSUME Orderly, TypeOK, TypeOK', CameraInv, JoinThread
  PROVE  CameraInv'
<1> DEFINE w == m_threadWorker
<1>1. /\ at = "finish" /\ at' = "check" /\ shot.thumb # 0 /\ ~enc.noCreate
      /\ thread[w].at = "ended" /\ thumblen' = thread[w].len
      /\ thread' = [thread EXCEPT ![w] = None]
      /\ UNCHANGED <<btb, enc, images, hw, buffers, call, m_threadWorker, shot,
                     result, excused>>
  BY DEF JoinThread, encoderVars, IsThumbGenerationNeeded
<1>2. Generating /\ w \in Threads /\ thread[w] # None
  BY <1>1 DEF Generating, Underway, CameraInv, ThreadsKept
<1>3. shot \in Shots /\ ~shot.given
  BY <1>1, ShotFacts
<1>4. /\ \A v \in Threads : v # w => thread[v] = None
      /\ thread[w].len > 0 => Pictured
      /\ IF thread[w].len = 0 THEN excused ELSE buffers.holds = "thumb"
  BY <1>1, <1>2 DEF CameraInv, OneThread, PictureKept
<1>5. thread[w].len \in Nat /\ thread[w].len <= MaxThumb
  <2>1. thread[w] \in ThreadStates
    BY <1>2 DEF TypeOK
  <2> QED
    BY <2>1, LengthType DEF ThreadStates
<1>6. Calm'
  <2>1. \A v \in Threads : thread'[v] = None
    BY <1>1, <1>4 DEF TypeOK
  <2>2. \A v \in Callers : call[v] = None
    <3>1. \A v \in Threads : call[v] = None
      BY <1>1, <1>2 DEF CameraInv, OneThread
    <3>2. call[Client] = None
      BY <1>1 DEF CameraInv, ThreadsKept
    <3> QED
      BY <3>1, <3>2 DEF Callers
  <2>3. ~hw["thumb"].driver.queued
    BY <2>2 DEF CameraInv, CallKept, Callers
  <2> QED
    BY <1>1, <2>1, <2>2, <2>3 DEF Calm
<1> HIDE DEF w
<1>7. ~Generating' /\ at' \notin {"thumb", "again"}
  BY <1>1 DEF Generating, Underway
<1>8. SessionsKnown'
  BY <1>1 DEF CameraInv, SessionsKnown
<1>9. EncKept' /\ ShotKept' /\ MainKept'
  <2>1. buffers'.image <= buffers'.stream
    BY <1>1 DEF CameraInv, EncKept
  <2> QED
    BY <1>1, <1>3, <2>1, LaterSame DEF Early, Later
<1>10. PictureKept'
  <2>1. thumblen' > 0 => Pictured'
    BY <1>1, <1>4 DEF Pictured
  <2> QED
    BY <1>1, <1>3, <1>6, <2>1 DEF PictureKept, Calm
<1>11. ResultKept'
  <2>1. thumblen' > 0 => buffers'.holds = "thumb"
    BY <1>1, <1>4, <1>5
  <2>2. thumblen' > 0 \/ excused'
    <3>1. CASE thread[w].len = 0
      BY <1>1, <1>4, <3>1
    <3>2. CASE thread[w].len # 0
      BY <1>1, <1>5, <3>2
    <3> QED
      BY <3>1, <3>2
  <2> QED
    BY <1>1, <1>3, <1>5, <2>1, <2>2 DEF ResultKept, Early
<1> QED
  BY <1>6, <1>7, <1>8, <1>9, <1>10, <1>11, CalmAfter DEF CameraInv

(* A call of the client begins.                                            *)
LEMMA ClientCalls ==
  ASSUME TypeOK, CameraInv, at \in {"finish", "check"}, ~Generating,
         at' \in {"thumb", "again"}, NEW new \in Calls, new # None,
         call' = [call EXCEPT ![Client] = new],
         new.at = "setup", new.pix = ThumbPix(shot),
         new.memory = ThumbMemory(shot),
         new.limit = IF at' = "again" THEN MaxThumbHere ELSE MaxThumb,
         shot.thumb # 0, Pictured,
         UNCHANGED <<btb, enc, images, hw, buffers, thread, m_threadWorker,
                     shot, result, excused>>
  PROVE  /\ SessionsKnown' /\ EncKept' /\ ShotKept' /\ MainKept'
         /\ ThreadsKept' /\ OneThread' /\ PictureKept' /\ CallKept'
<1>1. Calm
  BY CalmBefore
<1>2. call'[Client] = new /\ \A v \in Threads : call'[v] = None
  BY <1>1, CallersApart DEF Calm, TypeOK, Callers
<1>3. SessionsKnown'
  BY DEF CameraInv, SessionsKnown
<1>4. EncKept' /\ ShotKept' /\ MainKept'
  <2>1. at \notin {"idle", "prepare"} \cup Early /\ at \notin {"returned", "wait"}
        /\ at' \in Later
    BY DEF Early, Later
  <2>2. buffers'.image <= buffers'.stream
    BY DEF CameraInv, EncKept
  <2>3. shot.given => buffers'.stream >= shot.thumb
    BY DEF Pictured
  <2> QED
    BY <2>1, <2>2, <2>3, LaterSame
<1>5. ~Generating'
  BY DEF Generating, Underway
<1>6. ThreadsKept' /\ OneThread'
  BY <1>1, <1>2, <1>5 DEF ThreadsKept, OneThread, Calm
<1>7. Pictured'
  BY DEF Pictured
<1>8. PictureKept'
  BY <1>1, <1>7 DEF PictureKept, Calm
<1>9. CallKept'
  <2>1. MaxThumbHere' = MaxThumbHere
    BY DEF MaxThumbHere
  <2> QED
    BY <1>1, <1>2, <1>7, <2>1 DEF CallKept, Calm
<1> QED
  BY <1>3, <1>4, <1>6, <1>8, <1>9

LEMMA CompressGivenKept ==
  ASSUME Orderly, TypeOK, TypeOK', CameraInv, CompressGiven
  PROVE  CameraInv'
<1> DEFINE new == NewCall(MaxThumb, Quality, enc.pix, enc.inType)
<1>1. /\ at = "finish" /\ at' = "thumb" /\ shot.thumb # 0 /\ enc.noCreate /\ ~btb
      /\ call' = [call EXCEPT ![Client] = new]
      /\ UNCHANGED <<btb, enc, images, hw, buffers, thread, m_threadWorker,
                     shot, thumblen, result, excused>>
  BY DEF CompressGiven, encoderVars, IsThumbGenerationNeeded
<1>2. shot \in Shots /\ shot.given
  BY <1>1, ShotFacts
<1>3. enc.pix = shot.pix /\ enc.inType = shot.memory
  BY <1>1 DEF CameraInv, ShotKept, MainKept, Early
<1>4. /\ new \in Calls /\ new # None /\ new.at = "setup" /\ new.limit = MaxThumb
      /\ new.pix = ThumbPix(shot) /\ new.memory = ThumbMemory(shot)
  <2>1. MaxThumb \in 0 .. MaxThumb /\ Quality \in 20 .. 100
    BY ThumbConstants
  <2>2. enc.pix \in DOMAIN Planes /\ enc.inType \in Memory
    BY <1>2, <1>3, ShotType
  <2> QED
    BY <1>2, <1>3, <2>1, <2>2, NewCallType DEF NewCall, ThumbPix, ThumbMemory
<1> HIDE DEF new
<1>5. Pictured
  BY <1>1, <1>2 DEF CameraInv, PictureKept, Early
<1>6. /\ SessionsKnown' /\ EncKept' /\ ShotKept' /\ MainKept'
      /\ ThreadsKept' /\ OneThread' /\ PictureKept' /\ CallKept'
  <2>1. ~Generating
    BY <1>1 DEF Generating
  <2> QED
    BY <1>1, <1>4, <1>5, <2>1, ClientCalls
<1>7. ResultKept'
  <2>1. thumblen = 0
    BY <1>1 DEF CameraInv, ResultKept
  <2> QED
    BY <1>1, <1>2, <2>1 DEF ResultKept, Early
<1> QED
  BY <1>6, <1>7 DEF CameraInv

LEMMA CompressAgainKept ==
  ASSUME Orderly, TypeOK, TypeOK', CameraInv, CompressAgain
  PROVE  CameraInv'
<1> DEFINE new == NewCall(MaxThumbHere, 50, enc.pix, enc.inType)
<1>1. /\ at = "check" /\ at' = "again" /\ thumblen > MaxThumbHere
      /\ call' = [call EXCEPT ![Client] = new]
      /\ UNCHANGED <<btb, enc, images, hw, buffers, thread, m_threadWorker,
                     shot, thumblen, result, excused>>
  BY DEF CompressAgain, encoderVars
<1>2. shot \in Shots /\ shot.thumb # 0
  BY <1>1, ShotFacts DEF CameraInv, ResultKept
<1>3. enc.pix = shot.pix /\ enc.inType = shot.memory
  BY <1>1 DEF CameraInv, ShotKept, MainKept, Early
<1>4. /\ MaxThumbHere \in 0 .. MaxThumb /\ thumblen \in Nat
      /\ MaxThumbHere < MaxThumb => shot.room < MaxThumb
      /\ shot.room \in Nat /\ MaxThumb \in Nat
  BY <1>2, ShotType, LengthType DEF MaxThumbHere, LeastOf, TypeOK
<1>5. ThumbPix(shot) = shot.pix /\ ThumbMemory(shot) = shot.memory
  <2>1. CASE shot.given
    BY <2>1 DEF ThumbPix, ThumbMemory
  <2>2. CASE ~shot.given
    <3>1. thumblen <= MaxThumb
      BY <1>1, <2>2 DEF CameraInv, ResultKept
    <3>2. shot.room < MaxThumb
      BY <1>1, <1>4, <3>1
    <3>3. shot.memory = "DMABUF" /\ GetThumbnailFormat(shot.pix) = shot.pix
      BY <1>2, <2>2, <3>2 DEF Orderly, AgainFromSame
    <3> QED
      BY <2>2, <3>3 DEF ThumbPix, ThumbMemory
  <2> QED
    BY <2>1, <2>2
<1>6. /\ new \in Calls /\ new # None /\ new.at = "setup"
      /\ new.limit = MaxThumbHere
      /\ new.pix = ThumbPix(shot) /\ new.memory = ThumbMemory(shot)
  <2>1. enc.pix \in DOMAIN Planes /\ enc.inType \in Memory /\ 50 \in 20 .. 100
    BY <1>2, <1>3, ShotType
  <2> QED
    BY <1>3, <1>4, <1>5, <2>1, NewCallType DEF NewCall
<1> HIDE DEF new
<1>7. thumblen > 0 /\ Pictured
  BY <1>1, <1>4 DEF CameraInv, PictureKept
<1>8. /\ SessionsKnown' /\ EncKept' /\ ShotKept' /\ MainKept'
      /\ ThreadsKept' /\ OneThread' /\ PictureKept' /\ CallKept'
  <2>1. ~Generating
    BY <1>1 DEF Generating, Underway
  <2> QED
    BY <1>1, <1>2, <1>6, <1>7, <2>1, ClientCalls
<1>9. ResultKept'
  <2>1. buffers.holds = "thumb" /\ MaxThumbHere' = MaxThumbHere
    BY <1>1, <1>7 DEF CameraInv, ResultKept, MaxThumbHere
  <2> QED
    BY <1>1, <1>2, <2>1 DEF ResultKept, Early
<1> QED
  BY <1>8, <1>9 DEF CameraInv

LEMMA CompressedTogetherKept ==
  ASSUME Orderly, TypeOK, TypeOK', CameraInv, CompressedTogether
  PROVE  CameraInv'
<1>1. /\ at = "finish" /\ at' = "check" /\ shot.thumb # 0 /\ enc.noCreate /\ btb
      /\ UNCHANGED <<btb, enc, images, hw, buffers, call, thread,
                     m_threadWorker, shot, thumblen, result, excused>>
  BY DEF CompressedTogether, encoderVars, threadVars, IsThumbGenerationNeeded
<1>2. shot \in Shots /\ shot.given
  BY <1>1, ShotFacts
<1>3. Calm' /\ ~Generating' /\ at' \notin {"thumb", "again"}
  BY <1>1, CalmBefore, CalmKept DEF Generating, Underway
<1>4. SessionsKnown'
  BY <1>1 DEF CameraInv, SessionsKnown
<1>5. EncKept' /\ ShotKept' /\ MainKept'
  <2>1. buffers'.image <= buffers'.stream
    BY <1>1 DEF CameraInv, EncKept
  <2>2. shot.given => buffers'.stream >= shot.thumb
    BY <1>1 DEF CameraInv, MainKept, Early
  <2> QED
    BY <1>1, <2>1, <2>2, LaterSame DEF Early, Later
<1>6. PictureKept'
  <2>1. Pictured'
    BY <1>1, <1>2 DEF CameraInv, PictureKept, Pictured, Early
  <2> QED
    BY <1>3, <2>1 DEF PictureKept, Calm
<1>7. ResultKept'
  BY <1>1, <1>2 DEF CameraInv, ResultKept, Early
<1> QED
  BY <1>3, <1>4, <1>5, <1>6, <1>7, CalmAfter DEF CameraInv

LEMMA ShotEndsKept ==
  ASSUME Orderly, TypeOK, TypeOK', CameraInv, Embed \/ RetryFails
  PROVE  CameraInv'
<1>1. /\ at \in {"check", "retried"} /\ at' = "idle"
      /\ UNCHANGED <<btb, enc, images, hw, buffers, call, thread,
                     m_threadWorker, shot, thumblen, excused>>
  BY DEF Embed, RetryFails, ShotEnds, encoderVars, threadVars
<1>2. Calm' /\ ~Generating' /\ at' \notin {"thumb", "again"}
  BY <1>1, CalmBefore, CalmKept DEF Generating, Underway
<1>3. SessionsKnown' /\ EncKept'
  BY <1>1 DEF CameraInv, SessionsKnown, EncKept, FormatOf
<1>4. ShotKept' /\ PictureKept'
  BY <1>1, <1>2 DEF ShotKept, PictureKept, Calm
<1>5. MainKept'
  BY <1>1 DEF CameraInv, MainKept
<1>6. ResultKept'
  <2>1. /\ shot \in Shots /\ MaxThumbHere' = MaxThumbHere
        /\ thumblen > 0 => shot.thumb # 0 /\ buffers.holds = "thumb"
        /\ thumblen > 0 \/ excused
    BY <1>1, ShotFacts DEF CameraInv, ResultKept, MaxThumbHere
  <2>2. CASE Embed
    <3>1. thumblen <= MaxThumbHere /\ result' = "okay"
      BY <2>2 DEF Embed, ShotEnds, CameraInv, ResultKept
    <3> QED
      BY <1>1, <2>1, <3>1 DEF ResultKept, Early
  <2>3. CASE RetryFails
    <3>1. thumblen = 0 /\ result' = "failed"
      BY <2>3 DEF RetryFails, ShotEnds
    <3> QED
      BY <1>1, <2>1, <3>1 DEF ResultKept, Early
  <2> QED
    BY <2>2, <2>3
<1> QED
  BY <1>2, <1>3, <1>4, <1>5, <1>6, CalmAfter DEF CameraInv
-----------------------------------------------------------------------------
(* Every step keeps the invariant.                                         *)
LEMMA EncodesKept ==
  ASSUME Orderly, TypeOK, TypeOK', CameraInv, Encodes
  PROVE  CameraInv'
<1>1. CASE Encode \/ EncodeRefuses
  BY <1>1, EncodeKept, EncodeRefusesKept
<1>2. CASE NothingToPrepare \/ PrepareStream \/ PrepareFails
  BY <1>2, NothingToPrepareKept, PrepareStreamKept, PrepareFailsKept
<1>3. ASSUME NEW w \in Threads, StartThread(w) PROVE CameraInv'
  BY <1>3, StartThreadKept
<1>4. CASE CompressMain \/ CompressMainFails
  BY <1>4, CompressMainKept, CompressMainFailsKept
<1>5. CASE WaitForCompression \/ MainDone \/ MainFails
  BY <1>5, WaitForCompressionKept, MainDoneKept, MainFailsKept
<1> QED
  BY <1>1, <1>2, <1>3, <1>4, <1>5 DEF Encodes

LEMMA FinishesKept ==
  ASSUME Orderly, TypeOK, TypeOK', CameraInv, Finishes
  PROVE  CameraInv'
<1>1. CASE FinishesWithout \/ JoinThread
  BY <1>1, FinishesWithoutKept, JoinThreadKept
<1>2. CASE CompressGiven \/ CompressAgain \/ CompressedTogether
  BY <1>2, CompressGivenKept, CompressAgainKept, CompressedTogetherKept
<1>3. CASE Embed \/ RetryFails
  BY <1>3, ShotEndsKept
<1> QED
  BY <1>1, <1>2, <1>3 DEF Finishes

LEMMA CompressThumbnailOnlyKept ==
  ASSUME Orderly, TypeOK, TypeOK', CameraInv, NEW w \in Callers,
         CompressThumbnailOnly(w)
  PROVE  CameraInv'
BY SetUpKept, CompressThumbKept, CompressThumbFailsKept, ThumbDoneKept,
   ThumbFailsKept DEF CompressThumbnailOnly

LEMMA NextKept ==
  ASSUME Orderly, TypeOK, Formed, CameraInv, [Next]_vars
  PROVE  CameraInv'
<1> TypeOK'
  BY NextTyped
<1>1. ASSUME NEW s \in Shots, Ask(s) PROVE CameraInv'
  BY <1>1, AskKept
<1>2. CASE SetsUp
  BY <1>2, SetInBufKept, SetInBuf2Kept DEF SetsUp
<1>3. CASE Encodes \/ Finishes
  BY <1>3, EncodesKept, FinishesKept
<1>4. ASSUME NEW w \in Callers, CompressThumbnailOnly(w) PROVE CameraInv'
  BY <1>4, CompressThumbnailOnlyKept
<1>5. ASSUME NEW w \in Threads, tCompressThumbnail(w) PROVE CameraInv'
  BY <1>4, <1>5, ScaleKept, ScaleFailsKept, CallersApart
     DEF tCompressThumbnail
<1>6. CASE UNCHANGED vars
  <2>1. UNCHANGED <<at, shot, btb, enc, images, hw, buffers, call, thread,
                    m_threadWorker, thumblen, result, excused>>
    BY <1>6 DEF vars, encoderVars, threadVars, shotVars
  <2>2. /\ SessionsKnown' = SessionsKnown /\ EncKept' = EncKept
        /\ ShotKept' = ShotKept /\ MainKept' = MainKept
    BY <2>1 DEF SessionsKnown, EncKept, FormatOf, ShotKept, MainKept
  <2>3. Generating' = Generating /\ Pictured' = Pictured
        /\ MaxThumbHere' = MaxThumbHere /\ FormatAsked("thumb")' = FormatAsked("thumb")
    BY <2>1 DEF Generating, Pictured, MaxThumbHere, FormatAsked
  <2>4. /\ ThreadsKept' = ThreadsKept /\ OneThread' = OneThread
        /\ PictureKept' = PictureKept
    BY <2>1, <2>3 DEF ThreadsKept, OneThread, PictureKept
  <2>5. CallKept' = CallKept
    BY <2>1, <2>3 DEF CallKept
  <2>6. ResultKept' = ResultKept
    BY <2>1, <2>3 DEF ResultKept
  <2> QED
    BY <2>2, <2>4, <2>5, <2>6 DEF CameraInv
<1>7. Client \in Callers
  BY DEF Callers
<1> QED
  BY <1>1, <1>2, <1>3, <1>4, <1>5, <1>6, <1>7 DEF Next, ClientStep

LEMMA CameraInvariant ==
  ASSUME Orderly PROVE Spec => [](TypeOK /\ Formed /\ CameraInv)
<1>1. Init => TypeOK /\ Formed /\ CameraInv
  BY CameraInit, CameraKeptInit
<1>2. (TypeOK /\ Formed /\ CameraInv) /\ [Next]_vars
        => (TypeOK /\ Formed /\ CameraInv)'
  BY NextTyped, NextKept
<1> QED
  BY <1>1, <1>2, PTL DEF Spec

-----------------------------------------------------------------------------
(* What the hardware compresses is the job of the shot that is taken.      *)
LEMMA MainAsAsked ==
  ASSUME TypeOK, CameraInv, hw["main"].driver.queued
  PROVE  LET c == hw["main"]
         IN /\ \A side \in Side : c.driver.format[side] = FormatAsked("main")
            /\ \A p \in DOMAIN ImagesAsked("main") :
                  c.src[p] = ImagesAsked("main")[p]
            /\ c.driver.stale = {} /\ c.driver.hwfc = shot.hwfc
            /\ FormatAsked("main").thumb # 0 => buffers.stream >= shot.thumb
<1> DEFINE c == hw["main"]
           n == Planes[shot.pix]
<1>1. at \in {"returned", "wait"} /\ "PIX_FMT" \notin c.flags
      /\ c.driver.stale = {} /\ c.driver.hwfc = shot.hwfc
  BY DEF CameraInv, MainKept
<1>2. at \in Underway /\ at \notin {"idle"} \cup Early
  BY <1>1 DEF Underway, Early
<1>3. c.format = FormatAsked("main")
      /\ FormatAsked("main").pix = shot.pix
      /\ FormatAsked("main").thumb = IF shot.given /\ btb THEN shot.thumb ELSE 0
  BY <1>2, MainFacts
<1>4. \A side \in Side : c.driver.format[side] = FormatAsked("main")
  BY <1>1, <1>3, SessionsWere DEF SessionKnown, Known
<1>5. shot \in Shots /\ n \in 1 .. 2 /\ shot.given \in BOOLEAN
      /\ (shot.given => shot.thumb # 0)
  BY <1>2, ShotFacts, ShotType
<1>6. /\ \A p \in 1 .. n : c.src[p] = "main"
      /\ shot.given => buffers.stream >= shot.thumb
      /\ shot.given /\ btb => \A p \in n + 1 .. 2 * n : c.src[p] = "given"
  BY <1>2, MainTold
<1>7. ASSUME NEW p \in DOMAIN ImagesAsked("main")
      PROVE  c.src[p] = ImagesAsked("main")[p]
  <2> DEFINE m == IF FormatAsked("main").thumb = 0 THEN n ELSE 2 * n
  <2>1. ImagesAsked("main")
          = [q \in 1 .. m |-> IF q <= n THEN "main" ELSE "given"]
    BY <1>3 DEF ImagesAsked
  <2>2. p \in 1 .. m /\ m \in {n, 2 * n}
    BY <2>1
  <2>3. p \in 1 .. n \/ p \in n + 1 .. 2 * n
    BY <2>2, <1>5
  <2>4. CASE p \in 1 .. n
    BY <2>1, <2>2, <2>4, <1>5, <1>6
  <2>5. CASE p \in n + 1 .. 2 * n
    <3>1. m # n
      BY <2>2, <2>5, <1>5
    <3>2. shot.given /\ btb
      BY <3>1, <1>3
    <3> QED
      BY <2>1, <2>2, <2>5, <3>2, <1>5, <1>6
  <2> QED
    BY <2>3, <2>4, <2>5
<1>8. FormatAsked("main").thumb # 0 => buffers.stream >= shot.thumb
  BY <1>3, <1>6
<1> QED
  BY <1>1, <1>4, <1>7, <1>8

LEMMA ThumbAsAsked ==
  ASSUME TypeOK, CameraInv, hw["thumb"].driver.queued
  PROVE  LET c == hw["thumb"]
         IN /\ \A side \in Side : c.driver.format[side] = FormatAsked("thumb")
            /\ \A p \in DOMAIN ImagesAsked("thumb") :
                  c.src[p] = ImagesAsked("thumb")[p]
            /\ c.driver.stale = {} /\ c.driver.hwfc = FALSE
            /\ buffers.stream >= shot.thumb
            /\ ~shot.given => buffers.image >= shot.thumb
<1> DEFINE c == hw["thumb"]
<1>1. PICK w \in Callers : call[w] # None /\ call[w].at = "dequeue"
  BY DEF CameraInv, CallKept, Callers
<1>2. /\ c \in Compressors /\ Told(c) /\ c.format # None
      /\ "PIX_FMT" \notin c.flags /\ c.driver.stale = {} /\ ~c.driver.hwfc
  BY <1>1, ThumbTold
<1>3. c.format = FormatAsked("thumb")
      /\ \A p \in 1 .. Planes[ThumbPix(shot)] :
            c.src[p] = IF shot.given THEN "given" ELSE "scaled"
  BY <1>2 DEF Told
<1>4. \A side \in Side : c.driver.format[side] = FormatAsked("thumb")
  BY <1>2, <1>3, SessionsWere DEF SessionKnown, Known
<1>5. c.driver.hwfc = FALSE
  BY <1>2 DEF Compressors
<1>6. /\ buffers.stream >= shot.thumb
      /\ ~shot.given => buffers.image >= shot.thumb
  BY <1>1, ThumbFacts DEF Pictured
<1>7. ImagesAsked("thumb")
        = [p \in 1 .. Planes[ThumbPix(shot)] |->
             IF shot.given THEN "given" ELSE "scaled"]
  BY DEF ImagesAsked, FormatAsked, ThumbPix
<1> QED
  BY <1>2, <1>3, <1>4, <1>5, <1>6, <1>7

(* What is queued to the hardware is the job of the shot that is taken,    *)
(* however much of it the encoder believes to be set already, and after    *)
(* any failure before.                                                     *)
THEOREM JobsAreTheShot ==
  ASSUME Orderly PROVE Spec => []JobAsAsked
<1>1. TypeOK /\ CameraInv => JobAsAsked
  <2> SUFFICES ASSUME TypeOK, CameraInv PROVE JobAsAsked
    OBVIOUS
  <2>1. hw["main"].driver.queued => shot.hwfc \in BOOLEAN
    <3> SUFFICES ASSUME hw["main"].driver.queued PROVE shot.hwfc \in BOOLEAN
      OBVIOUS
    <3>1. at \in {"returned", "wait"}
      BY DEF CameraInv, MainKept
    <3> QED
      BY <3>1, MainFacts DEF Early
  <2>2. \A s \in Session : s = "main" \/ s = "thumb"
    BY DEF Session
  <2> QED
    BY <2>1, <2>2, MainAsAsked, ThumbAsAsked DEF JobAsAsked
<1> QED
  BY <1>1, CameraInvariant, PTL

(* The thumbnail that is embedded was made for this shot and fits what is  *)
(* left for it, and no thread works on another one by then.                *)
THEOREM OwnThumbEmbedded ==
  ASSUME Orderly PROVE Spec => []EmbedsOwnThumb
<1>1. TypeOK /\ CameraInv => EmbedsOwnThumb
  <2> SUFFICES ASSUME TypeOK, CameraInv, at = "idle", result = "okay",
                      thumblen > 0
               PROVE  /\ shot.thumb # 0 /\ buffers.holds = "thumb"
                      /\ thumblen <= MaxThumb /\ thumblen <= shot.room
                      /\ Running = {}
    BY DEF EmbedsOwnThumb
  <2>1. shot \in Shots /\ shot.thumb # 0 /\ buffers.holds = "thumb"
        /\ thumblen <= MaxThumbHere
    BY DEF CameraInv, ResultKept
  <2>2. shot.room \in Nat /\ MaxThumb \in Nat /\ thumblen \in Nat
    BY <2>1, ShotFields, ThumbConstants DEF TypeOK
  <2>3. thumblen <= MaxThumb /\ thumblen <= shot.room
    BY <2>1, <2>2 DEF MaxThumbHere, LeastOf
  <2>4. Calm
    BY CalmBefore DEF Generating, Underway
  <2>5. Running = {}
    BY <2>4 DEF Running, Calm
  <2> QED
    BY <2>1, <2>3, <2>5
<1> QED
  BY <1>1, CameraInvariant, PTL

(* A shot in which nothing failed succeeds, with the thumbnail it asked    *)
(* for: no earlier setting spoils it, and no earlier failure but one of    *)
(* DQBUF, when the driver kept a buffer that this shot finds in its way.   *)
THEOREM FaultlessShots ==
  ASSUME Orderly PROVE Spec => []FaultlessShotSucceeds
<1>1. TypeOK /\ CameraInv => FaultlessShotSucceeds
  BY DEF TypeOK, CameraInv, ResultKept, FaultlessShotSucceeds
<1> QED
  BY <1>1, CameraInvariant, PTL
=============================================================================
