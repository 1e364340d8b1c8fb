------------------------------- MODULE GscM2m --------------------------------
(***************************************************************************)
(* The external memory-to-memory MPP of HWC 1 (ExynosMPP::processM2M) with *)
(* the V4L2 session of libgscaler under it: a layer is converted into the  *)
(* next of a ring of destination buffers, which the display then reads.    *)
(*                                                                         *)
(* The MPP keeps what the last frame was configured as and configures the  *)
(* session only when the new frame differs; the session keeps which of its *)
(* two sides still has to be told to the driver (dirty), streams (on) and  *)
(* has a buffer in the driver (queued).  The conversion and the display    *)
(* run on their own, ordered by fences alone.                              *)
(*                                                                         *)
(* A fence of a posted frame signals when the display has replaced it; it  *)
(* is written as the number of frames the display has to move on until     *)
(* then, 0 being a fence that has signalled, and no fence at all.          *)
(***************************************************************************)
EXTENDS Naturals, Sequences

CONSTANTS
  Frames,         \* what the client may ask to show, see FrameFields
  NumBuffers,     \* NUM_MPP_DST_BUFS
  MaxQueued,      \* bound: posted frames the client lets be outstanding
  Faults,         \* requests to the driver, or the allocator, may fail
  Freed,          \* a buffer that has left the ring
  None            \* "no value"

BufferType == {"NORMAL", "NORMAL_DRM", "SECURE_DRM"}

(* A buffer has one format and one protection for its life.                *)
ASSUME FrameFields ==
  /\ \A f \in Frames : /\ DOMAIN f = {"type", "geometry", "format",
                                      "colorspace", "handle"}
                       /\ f.type \in BufferType
  /\ \A f, g \in Frames :
        f.handle = g.handle => f.type = g.type /\ f.format = g.format
ASSUME RingAndQueue == NumBuffers \in Nat \ {0} /\ MaxQueued \in Nat \ {0}
ASSUME FaultsIsBool == Faults \in BOOLEAN

Side == {"src", "dst"}
Ring == 0 .. NumBuffers - 1

VARIABLES
  at,                  \* where processM2M or set stands
  call,                \* its locals: [frame, reconfigure, isDirty, done]
  gsc,                 \* the CGscaler of mMPPHandle, or None
  driver,              \* [format, colorspace, ready, streaming, queue] of its fd
  job,                 \* the conversion the driver has not done, or None
  protection,          \* the content protection last asked of the driver
  mConfig,             \* mSrcConfig and mDstConfig, or None when zero
  mBufferType,
  mDstBuffers,         \* [Ring -> [type, format] or None]
  mDstBufFence,        \* [Ring -> fence]
  mCurrentBuf,
  mAllocatedBufferNum,
  mLastMPPLayerHandle,
  display,             \* the frames posted: the one on screen, then the others
  mLastConfigData,     \* the buffer in the configuration last accepted
  mLastRetireFence     \* mLastRetireFenceFd

mppVars == <<mConfig, mBufferType, mDstBuffers, mDstBufFence, mCurrentBuf,
             mAllocatedBufferNum, mLastMPPLayerHandle>>
sessionVars == <<gsc, driver, job, protection>>
displayVars == <<display, mLastConfigData, mLastRetireFence>>
vars == <<at, call, mppVars, sessionVars, displayVars>>

IsSecure(f) == f.type = "SECURE_DRM"

(* The fields that isSrcConfigChanged and isDstConfigChanged compare.      *)
ConfigOf(f) == [geometry |-> f.geometry, format |-> f.format,
                secure |-> IsSecure(f)]

Closed == [format |-> [s \in Side |-> None], colorspace |-> None,
           ready |-> {}, streaming |-> {}, queue |-> {}]
NoFrame == [buffer |-> None, state |-> "ready"]
NoBuffers == [i \in Ring |-> None]
NoFences == [i \in Ring |-> 0]

Configs == {ConfigOf(f) : f \in Frames}
Colorspaces == {f.colorspace : f \in Frames}

Buffers == [type : BufferType, format : {f.format : f \in Frames}]

Calls == [frame : Frames, reconfigure : BOOLEAN, isDirty : BOOLEAN,
          done : {"converted", "reused", "failed"}]

Sessions == [allowDrm : BOOLEAN, drm : BOOLEAN,
             config : Configs \cup {None},
             colorspace : Colorspaces \cup {None},
             dirty : SUBSET Side, on : SUBSET Side, queued : SUBSET Side]

Drivers == [format : [Side -> Configs \cup {None}],
            colorspace : Colorspaces \cup {None},
            ready : SUBSET Side, streaming : SUBSET Side,
            queue : SUBSET Side]

Jobs == [buffer : Ring \cup {Freed}, frame : Frames, waits : 0 .. MaxQueued]

Posts == [buffer : Ring \cup {Freed, None},
          state : {"ready", "waiting", "unfenced", "dropped"}]

ASSUME NoneIsNoValue ==
  None \notin Configs \cup Calls \cup Sessions \cup Jobs \cup Buffers \cup Nat

TypeOK ==
  /\ at \in {"idle", "buffers", "configure", "run", "wait", "protect",
             "format", "csc", "queue", "stream", "post", "cleanup"}
  /\ call \in Calls \cup {None}
  /\ at \in {"idle", "cleanup"} <=> call = None
  /\ gsc \in Sessions \cup {None}
  /\ driver \in Drivers
  /\ job \in Jobs \cup {None}
  /\ protection \in BOOLEAN
  /\ mConfig \in Configs \cup {None}
  /\ mBufferType \in BufferType
  /\ mDstBuffers \in [Ring -> Buffers \cup {None}]
  /\ mDstBufFence \in [Ring -> 0 .. MaxQueued]
  /\ mCurrentBuf \in Ring
  /\ mAllocatedBufferNum \in 0 .. NumBuffers
  /\ mLastRetireFence \in {None} \cup 0 .. MaxQueued
  /\ mLastConfigData \in Ring \cup {Freed, None}
  /\ display \in Seq(Posts) /\ Len(display) \in 1 .. MaxQueued

Init ==
  /\ at = "idle" /\ call = None
  /\ gsc = None /\ driver = Closed /\ job = None /\ protection = FALSE
  /\ mConfig = None /\ mBufferType = "NORMAL"
  /\ mDstBuffers = NoBuffers /\ mDstBufFence = NoFences
  /\ mCurrentBuf = 0 /\ mAllocatedBufferNum = 0 /\ mLastMPPLayerHandle = None
  /\ display = <<NoFrame>> /\ mLastConfigData = None /\ mLastRetireFence = None

-----------------------------------------------------------------------------
(* The driver and the display.                                             *)

(* The frames posted to show what is being converted: "waiting" for the    *)
(* fence of the conversion, or "unfenced" when they were given none.  When *)
(* the driver drops the conversion, what was posted is shown as it is.     *)
Settled(state) ==
  [i \in DOMAIN display |->
     IF display[i].state \in {"waiting", "unfenced"}
     THEN [display[i] EXCEPT !.state = state] ELSE display[i]]

(* The conversion waits for the fence of its destination; its own fences   *)
(* signal when it is done.                                                 *)
Convert ==
  /\ job # None /\ job.waits = 0 /\ driver.streaming = Side
  /\ job' = None
  /\ display' = Settled("ready")
  /\ UNCHANGED <<at, call, mppVars, gsc, driver, protection,
                 mLastConfigData, mLastRetireFence>>

Sooner(fence) == IF fence \in Nat \ {0} THEN fence - 1 ELSE fence

(* The display moves on to the next frame when that has been converted.    *)
Flip ==
  /\ Len(display) > 1 /\ display[2].state # "waiting"
  /\ display' = Tail(display)
  /\ mDstBufFence' = [i \in Ring |-> Sooner(mDstBufFence[i])]
  /\ job' = IF job = None THEN None ELSE [job EXCEPT !.waits = Sooner(@)]
  /\ mLastRetireFence' = Sooner(mLastRetireFence)
  /\ UNCHANGED <<at, call, mConfig, mBufferType, mDstBuffers, mCurrentBuf,
                 mAllocatedBufferNum, mLastMPPLayerHandle, gsc, driver,
                 protection, mLastConfigData>>

-----------------------------------------------------------------------------
(* The session (CGscaler).                                                 *)

NewSession(allowDrm) ==
  [allowDrm |-> allowDrm, drm |-> FALSE, config |-> None, colorspace |-> None,
   dirty |-> {}, on |-> {}, queued |-> {}]

(* m_gsc_m2m_stop and close; a session that does not stream has nothing to *)
(* stop.                                                                   *)
CloseSession ==
  /\ gsc' = None
  /\ driver' = Closed
  /\ protection' = (protection /\ gsc.on = {})
  /\ job' = None

(* A mutant: the side of the source stays marked as streaming.             *)
ConfiguredOneSide(f) ==
  [gsc EXCEPT !.on = @ \cap {"src"}, !.dirty = Side, !.config = ConfigOf(f),
              !.colorspace = f.colorspace, !.drm = IsSecure(f)]

(* What is left of the session when it has been stopped and configured     *)
(* again.                                                                  *)
Configured(f) ==
  [gsc EXCEPT !.on = {}, !.dirty = Side, !.config = ConfigOf(f),
              !.colorspace = f.colorspace, !.drm = IsSecure(f)]

-----------------------------------------------------------------------------
(* ExynosMPP::processM2M.                                                  *)

(* mMPPHandle is created again for another type of buffer.                 *)
IsStale(f) == gsc # None /\ mBufferType # f.type

(* A mutant: only the size is compared.                                    *)
ReconfigureForSize(f) ==
  IF mConfig = None THEN TRUE ELSE mConfig.geometry # f.geometry

Reconfigure(f) == mConfig # ConfigOf(f)

(* A mutant: another format is no reason to allocate again.                *)
DstReallocForType(f) ==
  \/ mConfig = None
  \/ mConfig.secure # IsSecure(f)
  \/ mBufferType # f.type

DstRealloc(f) ==
  \/ mConfig = None
  \/ mConfig.format # f.format
  \/ mConfig.secure # IsSecure(f)
  \/ mBufferType # f.type

(* The frame shows the very buffer the last one did.                       *)
Reusable(f) == ~Reconfigure(f) /\ mLastMPPLayerHandle = f.handle

LocalsOf(f, done) ==
  [frame |-> f, reconfigure |-> Reconfigure(f), isDirty |-> FALSE,
   done |-> done]

DestroyStale(f) ==
  IF IsStale(f) THEN CloseSession /\ display' = Settled("dropped")
  ELSE UNCHANGED <<sessionVars, display>>

(* The first half of processM2M: the stale session is destroyed, and the   *)
(* ring begins again when its buffers do not fit.                          *)
Begin(f) ==
  /\ at = "idle" /\ Len(display) < MaxQueued
  /\ ~Reusable(f)
  /\ at' = "buffers"
  /\ call' = LocalsOf(f, "converted")
  /\ DestroyStale(f)
  /\ IF Reconfigure(f) /\ DstRealloc(f)
     THEN /\ mBufferType' = f.type
          /\ mCurrentBuf' = 0
          /\ mAllocatedBufferNum' = 0
     ELSE UNCHANGED <<mBufferType, mCurrentBuf, mAllocatedBufferNum>>
  /\ mLastMPPLayerHandle' = f.handle
  /\ UNCHANGED <<mConfig, mDstBuffers, mDstBufFence, mLastConfigData,
                 mLastRetireFence>>

(* A mutant: stepping back from the first buffer leaves the ring.          *)
ReuseBelow(f) ==
  /\ at = "idle" /\ Len(display) < MaxQueued
  /\ Reusable(f)
  /\ at' = "post"
  /\ call' = LocalsOf(f, "reused")
  /\ DestroyStale(f)
  /\ mCurrentBuf' = mCurrentBuf + NumBuffers - 1
  /\ UNCHANGED <<mConfig, mBufferType, mDstBuffers, mDstBufFence,
                 mAllocatedBufferNum, mLastMPPLayerHandle, mLastConfigData,
                 mLastRetireFence>>

(* reusePreviousFrame steps back to the buffer of the last frame.          *)
Reuse(f) ==
  /\ at = "idle" /\ Len(display) < MaxQueued
  /\ Reusable(f)
  /\ at' = "post"
  /\ call' = LocalsOf(f, "reused")
  /\ DestroyStale(f)
  /\ mCurrentBuf' = (mCurrentBuf + NumBuffers - 1) % NumBuffers
  /\ UNCHANGED <<mConfig, mBufferType, mDstBuffers, mDstBufFence,
                 mAllocatedBufferNum, mLastMPPLayerHandle, mLastConfigData,
                 mLastRetireFence>>

(* Buffers leave the ring; who still has one keeps its memory.             *)
Leave(buffers, posts) ==
  /\ display' = [i \in DOMAIN posts |->
        IF posts[i].buffer \in buffers THEN [posts[i] EXCEPT !.buffer = Freed]
        ELSE posts[i]]
  /\ mLastConfigData' = IF mLastConfigData \in buffers THEN Freed
                        ELSE mLastConfigData

(* reallocateBuffers: one buffer of the ring, with its fence, is replaced  *)
(* on every frame until all of them have been.  Then the MPP is opened.    *)
AllocateAndOpen ==
  /\ at = "buffers"
  /\ at' = IF call.reconfigure THEN "configure" ELSE "run"
  /\ IF mAllocatedBufferNum < NumBuffers
     THEN /\ mDstBuffers' = [mDstBuffers EXCEPT ![mCurrentBuf] =
               [type |-> call.frame.type, format |-> call.frame.format]]
          /\ mDstBufFence' = [mDstBufFence EXCEPT ![mCurrentBuf] = 0]
          /\ mAllocatedBufferNum' = mAllocatedBufferNum + 1
          /\ Leave({mCurrentBuf}, display)
          /\ job' = IF job = None \/ job.buffer # mCurrentBuf THEN job
                    ELSE [job EXCEPT !.buffer = Freed]
     ELSE UNCHANGED <<mDstBuffers, mDstBufFence, mAllocatedBufferNum, job,
                      display, mLastConfigData>>
  /\ gsc' = IF gsc = None THEN NewSession(call.frame.type # "NORMAL") ELSE gsc
  /\ UNCHANGED <<call, mConfig, mBufferType, mCurrentBuf, mLastMPPLayerHandle,
                 driver, protection, mLastRetireFence>>

(* A mutant: a frame that failed is tried again at once.                   *)
ResetAndRetry ==
  /\ mDstBuffers' = NoBuffers
  /\ mDstBufFence' = NoFences
  /\ mConfig' = None
  /\ mBufferType' = "NORMAL"
  /\ mAllocatedBufferNum' = 0
  /\ call' = [call EXCEPT !.reconfigure = TRUE]
  /\ at' = "buffers"
  /\ UNCHANGED <<mCurrentBuf, mLastMPPLayerHandle, mLastRetireFence>>

(* err_alloc: every buffer is given back and the frame fails; the position *)
(* in the ring is not reset.                                               *)
Reset ==
  /\ mDstBuffers' = NoBuffers
  /\ mDstBufFence' = NoFences
  /\ mConfig' = None
  /\ mBufferType' = "NORMAL"
  /\ mAllocatedBufferNum' = 0
  /\ call' = [call EXCEPT !.done = "failed"]
  /\ at' = "post"
  /\ UNCHANGED <<mCurrentBuf, mLastMPPLayerHandle, mLastRetireFence>>

AllocationFails ==
  /\ Faults
  /\ at = "buffers"
  /\ mAllocatedBufferNum < NumBuffers \/ gsc = None
  /\ Reset
  /\ Leave(Ring, display)
  /\ job' = IF job = None THEN None ELSE [job EXCEPT !.buffer = Freed]
  /\ UNCHANGED <<gsc, driver, protection>>

(* stopMPP, setCSCProperty and configMPP.                                  *)
Configure ==
  /\ at = "configure"
  /\ IsSecure(call.frame) => gsc.allowDrm
  /\ at' = "run"
  /\ gsc' = Configured(call.frame)
  /\ IF gsc.on = {} THEN UNCHANGED <<driver, job, protection, display>>
     ELSE /\ driver' = [driver EXCEPT !.ready = {}, !.streaming = {},
                                      !.queue = {}]
          /\ protection' = FALSE
          /\ job' = None
          /\ display' = Settled("dropped")
  /\ UNCHANGED <<call, mppVars, mLastConfigData, mLastRetireFence>>

(* m_gsc_m2m_run_core up to the first request to the driver.               *)
EnterRun ==
  /\ at = "run"
  /\ gsc.config # None
  /\ call' = [call EXCEPT !.isDirty = gsc.dirty # {}]
  /\ at' = IF "src" \in gsc.on THEN "wait" ELSE "protect"
  /\ UNCHANGED <<mppVars, sessionVars, displayVars>>

(* m_gsc_m2m_wait_frame_done takes back what the driver has done with.     *)
WaitFrameDone ==
  /\ at = "wait" /\ job = None
  /\ driver' = [driver EXCEPT !.queue = @ \ gsc.queued]
  /\ gsc' = [gsc EXCEPT !.queued = {}]
  /\ at' = "protect"
  /\ UNCHANGED <<call, mppVars, job, protection, displayVars>>

(* A mutant: only the first configuration of a session switches it on.     *)
ProtectOnce ==
  /\ at = "protect"
  /\ protection' = (protection \/ (call.isDirty /\ gsc.drm
                                   /\ driver.colorspace = None))
  /\ at' = IF call.isDirty THEN "format" ELSE "queue"
  /\ UNCHANGED <<call, mppVars, gsc, driver, job, displayVars>>

(* The protection is switched on before the buffers are requested.         *)
Protect ==
  /\ at = "protect"
  /\ protection' = (protection \/ (call.isDirty /\ gsc.allowDrm /\ gsc.drm))
  /\ at' = IF call.isDirty THEN "format" ELSE "queue"
  /\ UNCHANGED <<call, mppVars, gsc, driver, job, displayVars>>

(* m_gsc_set_format of the sides that were configured.                     *)
SetFormat ==
  /\ at = "format"
  /\ driver' = [driver EXCEPT
        !.format = [s \in Side |->
                      IF s \in gsc.dirty THEN gsc.config ELSE driver.format[s]],
        !.ready = @ \cup gsc.dirty]
  /\ gsc' = [gsc EXCEPT !.dirty = {}]
  /\ at' = "csc"
  /\ UNCHANGED <<call, mppVars, job, protection, displayVars>>

SetColorspace ==
  /\ at = "csc"
  /\ driver' = [driver EXCEPT !.colorspace = gsc.colorspace]
  /\ at' = "queue"
  /\ UNCHANGED <<call, mppVars, gsc, job, protection, displayVars>>

(* The frame is on its way, and is what the next one is compared with.     *)
Processed ==
  /\ mConfig' = ConfigOf(call.frame)
  /\ at' = "post"

(* m_gsc_set_addr of both sides; the fence of the destination goes with it. *)
QueueBuffers ==
  /\ at = "queue"
  /\ driver' = [driver EXCEPT !.queue = Side]
  /\ gsc' = [gsc EXCEPT !.queued = Side]
  /\ job' = [buffer |-> mCurrentBuf, frame |-> call.frame,
             waits |-> mDstBufFence[mCurrentBuf]]
  /\ mDstBufFence' = [mDstBufFence EXCEPT ![mCurrentBuf] = 0]
  /\ IF gsc.on = Side THEN Processed ELSE at' = "stream" /\ UNCHANGED mConfig
  /\ UNCHANGED <<call, mBufferType, mDstBuffers, mCurrentBuf,
                 mAllocatedBufferNum, mLastMPPLayerHandle, protection,
                 displayVars>>

(* The source is switched on first.                                        *)
StreamOn(s) ==
  /\ at = "stream" /\ s \notin gsc.on
  /\ s = "dst" => "src" \in gsc.on
  /\ driver' = [driver EXCEPT !.streaming = @ \cup {s}]
  /\ gsc' = [gsc EXCEPT !.on = @ \cup {s}]
  /\ IF s = "dst" THEN Processed ELSE UNCHANGED <<at, mConfig>>
  /\ UNCHANGED <<call, mBufferType, mDstBuffers, mDstBufFence, mCurrentBuf,
                 mAllocatedBufferNum, mLastMPPLayerHandle, job, protection,
                 displayVars>>

(* err_gsc_config: whatever failed, the session is destroyed.  A session   *)
(* that was never configured fails at the check of the size, the others    *)
(* where a request to the driver fails.                                    *)
SessionFails ==
  /\ \/ at = "configure" /\ IsSecure(call.frame) /\ ~gsc.allowDrm
     \/ at = "run" /\ gsc.config = None
     \/ /\ Faults
        /\ \/ at = "configure" /\ gsc.on # {}
           \/ at \in {"wait", "format", "csc", "queue", "stream"}
           \/ at = "protect" /\ call.isDirty /\ gsc.drm
  /\ Reset
  /\ CloseSession
  /\ Leave(Ring, Settled("dropped"))

-----------------------------------------------------------------------------
(* ExynosDisplay::set.                                                     *)

BufferToShow ==
  IF call.done = "failed" THEN None ELSE mCurrentBuf

(* What is posted waits for the conversion that was started for it; a      *)
(* buffer that is shown again comes without a fence.                       *)
FrameToShow ==
  [buffer |-> BufferToShow,
   state |-> IF job = None THEN "ready"
             ELSE CASE call.done = "converted" -> "waiting"
                    [] call.done = "failed" -> "ready"
                    [] OTHER -> IF job.buffer = mCurrentBuf THEN "unfenced"
                                ELSE "ready"]

(* A mutant: a buffer shown again keeps the fence it had.                  *)
DupFenceUnlessReused(fence) ==
  /\ mDstBufFence' = IF call.done = "reused" THEN mDstBufFence
                     ELSE [mDstBufFence EXCEPT ![mCurrentBuf] = fence]
  /\ mCurrentBuf' = (mCurrentBuf + 1) % NumBuffers

(* dupFence: the current buffer is held until the display has replaced the *)
(* frame, and the ring moves on, also when the frame failed.               *)
DupFence(fence) ==
  /\ mDstBufFence' = [mDstBufFence EXCEPT ![mCurrentBuf] = fence]
  /\ mCurrentBuf' = (mCurrentBuf + 1) % NumBuffers

SetReturns ==
  /\ at = "post"
  /\ at' = "idle" /\ call' = None
  /\ UNCHANGED <<mConfig, mBufferType, mDstBuffers, mAllocatedBufferNum,
                 mLastMPPLayerHandle, sessionVars>>

PostFrame ==
  /\ SetReturns
  /\ display' = Append(display, FrameToShow)
  /\ mLastConfigData' = BufferToShow
  /\ mLastRetireFence' = Len(display')
  /\ DupFence(Len(display'))

(* WIN_CONFIG may be skipped when it would change nothing, which depends   *)
(* on the other windows, on the other displays and on a switch for tests:  *)
(* the frame has the fence of the last one.                                *)
SkipFrame ==
  /\ SetReturns
  /\ BufferToShow = mLastConfigData
  /\ IF mLastRetireFence = None THEN UNCHANGED <<mDstBufFence, mCurrentBuf>>
     ELSE DupFence(mLastRetireFence)
  /\ UNCHANGED displayVars

(* When WIN_CONFIG fails the screen is cleared; mLastConfigData is kept.    *)
ClearDisplay ==
  /\ SetReturns
  /\ Faults
  /\ display' = Append(display, NoFrame)
  /\ mLastRetireFence' = Len(display')
  /\ DupFence(Len(display'))
  /\ UNCHANGED mLastConfigData

(* A frame none of whose layers has the MPP any more.                      *)
PostWithout ==
  /\ at = "idle" /\ Len(display) < MaxQueued
  /\ at' = "cleanup"
  /\ \/ /\ display' = Append(display, NoFrame)
        /\ mLastConfigData' = None
        /\ mLastRetireFence' = Len(display')
     \/ mLastConfigData = None /\ UNCHANGED displayVars
  /\ UNCHANGED <<call, mppVars, sessionVars>>

(* cleanupMPPs, at the end of such a frame: an open MPP is given up.       *)
CleanupM2M ==
  /\ at = "cleanup" /\ gsc # None
  /\ at' = "idle"
  /\ CloseSession
  /\ Leave(Ring, Settled("dropped"))
  /\ mDstBuffers' = NoBuffers /\ mDstBufFence' = NoFences
  /\ mConfig' = None /\ mBufferType' = "NORMAL"
  /\ mCurrentBuf' = 0 /\ mAllocatedBufferNum' = 0
  /\ mLastMPPLayerHandle' = None
  /\ UNCHANGED <<call, mLastRetireFence>>

NothingToCleanup ==
  /\ at = "cleanup" /\ gsc = None
  /\ at' = "idle"
  /\ UNCHANGED <<call, mppVars, sessionVars, displayVars>>

-----------------------------------------------------------------------------
Proceed ==
  \/ AllocateAndOpen \/ AllocationFails \/ Configure
  \/ EnterRun \/ WaitFrameDone \/ Protect \/ SetFormat \/ SetColorspace
  \/ QueueBuffers \/ (\E s \in Side : StreamOn(s)) \/ SessionFails
  \/ PostFrame \/ SkipFrame \/ ClearDisplay \/ CleanupM2M \/ NothingToCleanup

NewFrame ==
  \/ \E f \in Frames : Begin(f) \/ Reuse(f)
  \/ PostWithout

Next == Proceed \/ NewFrame \/ Convert \/ Flip

Spec == Init /\ [][Next]_vars

(* A frame that was begun is carried on, the hardware converts, and the    *)
(* display moves on; the client need not show anything more.               *)
FairSpec == Spec /\ WF_vars(Proceed) /\ WF_vars(Convert) /\ WF_vars(Flip)

-----------------------------------------------------------------------------
(* The driver is never asked for what it has to refuse, or would answer    *)
(* never: a side is not given a format while it still has its buffers, a   *)
(* buffer is not queued twice or before it was requested, and what is      *)
(* waited for is in the driver.  The session keeps its own flags for this, *)
(* which a stop, a failure or a new configuration must leave in step.      *)
DriverAsked ==
  /\ at = "format" => gsc.dirty \cap driver.ready = {}
  /\ at = "queue" => /\ driver.ready = Side /\ job = None
                     /\ driver.queue = {}
  /\ at = "stream" => gsc.on = driver.streaming
  /\ at = "wait" => /\ driver.streaming = Side
                    /\ gsc.queued = driver.queue

(* A conversion runs with the size and the formats of the frame it was     *)
(* started for, although the session is configured only when processM2M    *)
(* believes that something changed.                                        *)
ConvertsAsAsked ==
  job # None => \A s \in Side : driver.format[s] = ConfigOf(job.frame)

(* The buffer a conversion writes, and the one a frame shows, is a buffer   *)
(* of the ring of the right kind: buffers are replaced one per frame, and  *)
(* a failure or another kind of layer begins the ring anew.                *)
BufferFits ==
  (at \in {"queue", "stream"} \/ (at = "post" /\ call.done # "failed")) =>
     /\ mDstBuffers[mCurrentBuf] # None
     /\ mDstBuffers[mCurrentBuf].type = call.frame.type
     /\ mDstBuffers[mCurrentBuf].format = call.frame.format

(* A secure layer is converted with the content protection on: every stop  *)
(* switches it off, and only a new configuration switches it on.           *)
ProtectedWhileSecure ==
  job # None /\ IsSecure(job.frame) => protection

(* A conversion that may write overwrites neither what the screen shows    *)
(* nor what is still to be shown: the fence of the display has come round  *)
(* to it with its buffer, also when frames were reused, skipped or failed. *)
WaitsForScreen ==
  job # None /\ job.waits = 0 =>
     \A i \in DOMAIN display :
        display[i].buffer = job.buffer /\ job.buffer # Freed =>
           display[i].state \in {"waiting", "unfenced"}

(* set() returns: the composer's thread, the conversion and the display do *)
(* not end up waiting on each other, and failures do not hold it.          *)
SetEnds == at # "idle" ~> at = "idle"

-----------------------------------------------------------------------------
(* Violated by the code.                                                   *)

(* Without a session the content protection is off.  m_gsc_m2m_destroy     *)
(* stops the session for this, but the stop does nothing for a session     *)
(* that failed between switching the protection on and streaming.          *)
ProtectionOffWhenClosed == gsc = None => ~protection

(* The colour space is that of the frame.  It is not compared.             *)
ColorspaceAsAsked == job # None => driver.colorspace = job.frame.colorspace

(* Only a request that failed loses a frame.  A session that is created    *)
(* again for another type of buffer is not configured when the rest is     *)
(* equal.                                                                  *)
RunIsConfigured == at = "run" => gsc.config # None

(* What comes on the screen was converted.  Stopping the session drops a   *)
(* conversion that was already posted; and a frame reused after a failed   *)
(* WIN_CONFIG does not wait for the conversion that was started before.    *)
ShownIsConverted == Head(display).state \notin {"dropped", "unfenced"}

(* A frame whose WIN_CONFIG is skipped is what the screen is about to      *)
(* show.  After a failed WIN_CONFIG the screen is clear, and               *)
(* mLastConfigData still describes the frame before.                       *)
SkippedIsShown ==
  at = "post" /\ BufferToShow = mLastConfigData =>
     display[Len(display)].buffer = BufferToShow
=============================================================================
