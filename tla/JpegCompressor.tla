---------------------------- MODULE JpegCompressor ----------------------------
(***************************************************************************)
(* A JPEG compression session (CHWJpegV4L2Compressor) and the V4L2 driver  *)
(* under it, as a record and what the calls of the session make of it.     *)
(*                                                                         *)
(* The session mirrors the driver in its flags, and asks for as little as  *)
(* it can: a format that is already set, buffers that were requested or a  *)
(* stream that is on are not asked for again.  A request may fail at any   *)
(* point; what was reached by then stays.                                  *)
(*                                                                         *)
(* Of a buffer it matters only what it holds for the shot that is being    *)
(* taken, "stale" being everything of an earlier one.                      *)
(***************************************************************************)
EXTENDS Integers

CONSTANTS
  Faults,         \* the requests that may fail
  Planes,         \* [pixel format -> the number of its planes]
  None            \* "no value"

Requests == {"S_FMT", "REQBUFS", "STREAMON", "S_EXT_CTRLS", "QBUF"}

ASSUME PlanesAreFew == \A f \in DOMAIN Planes : Planes[f] \in 1 .. 2

Side == {"src", "dst"}
Memory == {"USERPTR", "DMABUF"}
Control == {"CHROMFACTOR", "QFACTOR", "QFACTOR2"}
Flag == {"PIX_FMT", "SRC_BUFFER", "SRC_BUFFER2", "DST_BUFFER", "DST_BUFFER2",
         "REQBUFS", "STREAMING", "QBUF"}

(* The planes of the primary image come first, then those of the second.   *)
SrcPlane == 1 .. 4

(* What is compressed: thumb is the size of a secondary image, or zero.    *)
Formats == [pix : DOMAIN Planes, size : Nat, thumb : Nat]

ASSUME NoneIsNoFormat == None \notin Formats \cup Memory \cup Side

NoMemory == [s \in Side |-> None]

(* controls are those of m_uiControlsToSet; driver.stale are the controls  *)
(* for which the driver does not have the value that was asked for last,   *)
(* and driver.kept is the first side of which it still has a buffer that   *)
(* the session takes for returned.                                         *)
NewCompressor(controls) ==
  [flags |-> {"PIX_FMT"}, format |-> None, planes |-> 0, memory |-> NoMemory,
   src |-> [p \in SrcPlane |-> "stale"], controls |-> controls,
   hwfc |-> FALSE,
   driver |-> [format |-> [s \in Side |-> None], buffers |-> NoMemory,
               streaming |-> {}, queued |-> FALSE, kept |-> None,
               stale |-> controls, hwfc |-> FALSE]]

-----------------------------------------------------------------------------
(* The calls that only set the session up.                                 *)

(* The format is stored and still to be set; the number of planes is what  *)
(* the driver answers to TRY_FMT.                                          *)
SetImageFormat(c, format) ==
  IF c.format = format THEN c
  ELSE [c EXCEPT !.format = format, !.flags = @ \cup {"PIX_FMT"}]

Tried(c, format) ==
  IF c.format = format THEN c
  ELSE [SetImageFormat(c, format) EXCEPT !.planes = Planes[format.pix]]

(* contents[i] is what the caller's i-th buffer holds.                     *)
SetImageBuffer(c, contents, memory) ==
  [c EXCEPT !.src = [p \in SrcPlane |->
                       IF p <= c.planes THEN contents[p] ELSE c.src[p]],
            !.memory.src = memory,
            !.flags = @ \cup {"SRC_BUFFER"}]

SetImageBuffer2(c, contents) ==
  [c EXCEPT !.src = [p \in SrcPlane |->
                       IF p \in c.planes + 1 .. 2 * c.planes
                       THEN contents[p - c.planes] ELSE c.src[p]],
            !.flags = @ \cup {"SRC_BUFFER2"}]

SetJpegBuffer(c, memory) ==
  [c EXCEPT !.memory.dst = memory, !.flags = @ \cup {"DST_BUFFER"}]

SetJpegBuffer2(c) == [c EXCEPT !.flags = @ \cup {"DST_BUFFER2"}]

SetQuality(c, control) ==
  [c EXCEPT !.controls = @ \cup {control},
            !.driver.stale = @ \cup {control}]

-----------------------------------------------------------------------------
(* Compress: the steps it takes as far as they are needed.                 *)

(* StopStreaming: all buffers are back and freed.                          *)
Stopped(c) ==
  [c EXCEPT !.flags = @ \ {"STREAMING", "QBUF", "REQBUFS"},
            !.driver.streaming = {}, !.driver.queued = FALSE,
            !.driver.kept = None, !.driver.buffers = NoMemory]

(* StopStreaming when the buffers of one side, or of both, are not freed.  *)
HalfStopped(c) ==
  {[c EXCEPT !.flags = @ \ {"STREAMING", "QBUF"},
             !.driver.streaming = {}, !.driver.queued = FALSE,
             !.driver.kept = None, !.driver.buffers.src = m] :
     m \in {None, c.driver.buffers.src}}

(* SetFormat, with the answer of the driver.                               *)
FormatSet(c) ==
  [c EXCEPT !.flags = @ \ {"PIX_FMT"},
            !.planes = Planes[c.format.pix],
            !.driver.format = [s \in Side |-> c.format]]

Formatted(c) == IF "PIX_FMT" \in c.flags THEN FormatSet(Stopped(c)) ELSE c

IsB2BCompression(c) == c.format.thumb # 0

Specified(c) ==
  /\ {"SRC_BUFFER", "DST_BUFFER"} \subseteq c.flags
  /\ IsB2BCompression(c) => {"SRC_BUFFER2", "DST_BUFFER2"} \subseteq c.flags

(* ReqBufs(1) and StreamOn.                                                *)
Requested(c) ==
  IF "REQBUFS" \in c.flags THEN c
  ELSE [c EXCEPT !.flags = @ \cup {"REQBUFS"}, !.driver.buffers = c.memory]

StreamedOn(c) ==
  IF "STREAMING" \in c.flags THEN c
  ELSE [c EXCEPT !.flags = @ \cup {"STREAMING"}, !.driver.streaming = Side]

(* UpdateControls: what was to be set is forgotten before it is set.       *)
ControlsForgotten(c, hwfc) == [c EXCEPT !.controls = {}, !.hwfc = hwfc]

ControlsSet(c, hwfc) ==
  [ControlsForgotten(c, hwfc) EXCEPT !.driver.stale = @ \ c.controls,
     !.driver.hwfc = IF c.hwfc = hwfc THEN c.driver.hwfc ELSE hwfc]

Prepared(c, hwfc) == ControlsSet(StreamedOn(Requested(Formatted(c))), hwfc)

(* The driver takes a buffer of the kind that was requested only.  dstOkay *)
(* says that there is a buffer for the stream.                             *)
Fits(c, dstOkay) ==
  /\ Specified(Formatted(c))
  /\ dstOkay
  /\ Requested(Formatted(c)).driver.buffers = c.memory

(* It takes none while it still has the one that was queued before.        *)
Compresses(c, dstOkay) ==
  Fits(c, dstOkay) /\ Formatted(c).driver.kept = None

Compressed(c, hwfc) ==
  [Prepared(c, hwfc) EXCEPT !.flags = @ \cup {"QBUF"}, !.driver.queued = TRUE]

(* What is left when QBuf fails for a side.                                *)
QBufFailed(c, side) == IF side = "src" THEN c ELSE Stopped(c)

(* The driver takes the buffer of the image, which is queued first.        *)
SourceTaken(c) ==
  c.driver.buffers.src = c.memory.src /\ c.driver.kept # "src"

(* What is left of the session when Compress fails for a reason of its own *)
(* rather than for a fault.                                                *)
Refused(c, hwfc) ==
  IF ~Specified(Formatted(c)) THEN Formatted(c)
  ELSE LET p == Prepared(c, hwfc)
       IN QBufFailed(p, IF SourceTaken(Requested(Formatted(c)))
                        THEN "dst" ELSE "src")

(* What may be left of it when a request of Compress fails.                *)
StopFaults(c) ==
  IF {"PIX_FMT", "REQBUFS"} \subseteq c.flags THEN HalfStopped(c) ELSE {}

(* Which formats the driver is left with is not known, and does not matter *)
(* while PIX_FMT is set.                                                   *)
FormatFaults(c) ==
  IF "PIX_FMT" \in c.flags
  THEN {[Stopped(c) EXCEPT !.driver.format = [s \in Side |-> None]]}
  ELSE {}

Faulted(c, hwfc, request) ==
  LET formatted == Formatted(c)
      requested == Requested(formatted)
  IN CASE request = "S_FMT" -> FormatFaults(c)
       [] request = "REQBUFS" -> StopFaults(c) \cup
            (IF "REQBUFS" \in formatted.flags \/ ~Specified(formatted) THEN {}
             ELSE {formatted})
       [] ~Specified(formatted) -> {}
       [] request = "STREAMON" ->
            IF "STREAMING" \in requested.flags THEN {} ELSE {requested}
       [] request = "S_EXT_CTRLS" ->
            IF c.controls = {} /\ c.hwfc = hwfc THEN {}
            ELSE {ControlsForgotten(StreamedOn(requested), hwfc)}
       [] request = "QBUF" ->
            LET p == Prepared(c, hwfc)
            IN {QBufFailed(p, s) :
                  s \in {t \in Side : t = "dst" => SourceTaken(requested)}}
       [] OTHER -> {}

CompressFaults(c, hwfc) ==
  UNION {Faulted(c, hwfc, request) : request \in Faults \cap Requests}

(* How Compress may fail: what it leaves, and whether a request failed for *)
(* no reason of its own: now, or earlier and left a buffer in the driver.  *)
CompressFailures(c, hwfc, dstOkay) ==
  {<<f, TRUE>> : f \in CompressFaults(c, hwfc)} \cup
  {<<f, Fits(c, dstOkay)>> :
     f \in IF Compresses(c, dstOkay) THEN {} ELSE {Refused(c, hwfc)}}

(* DQBuf.                                                                  *)
Dequeued(c) == [c EXCEPT !.flags = @ \ {"QBUF"}, !.driver.queued = FALSE]

(* DQBuf fails: both buffers came back and one is marked as wrong, or the  *)
(* driver keeps one or both, although their flags are cleared.             *)
DequeueFailures(c) ==
  {[Dequeued(c) EXCEPT !.driver.kept = s] : s \in Side \cup {None}}

-----------------------------------------------------------------------------
Contents == {"main", "given", "scaled", "stale"}

Drivers ==
  [format : [Side -> Formats \cup {None}],
   buffers : [Side -> Memory \cup {None}], streaming : SUBSET Side,
   queued : BOOLEAN, kept : Side \cup {None}, stale : SUBSET Control,
   hwfc : BOOLEAN]

Compressors ==
  [flags : SUBSET Flag, format : Formats \cup {None}, planes : 0 .. 2,
   memory : [Side -> Memory \cup {None}], src : [SrcPlane -> Contents],
   controls : SUBSET Control, hwfc : BOOLEAN, driver : Drivers]
=============================================================================
