------------------------------ MODULE M2mBuffer ------------------------------
(***************************************************************************)
(* The destination buffers of the blending m2m MPP of a display            *)
(* (ExynosMPP, mExynosCompositionInfo.mM2mMPP): which buffer a frame is    *)
(* composed into, which one the display driver is given, and who owns the  *)
(* sync fences of both.                                                    *)
(*                                                                         *)
(* NUM_MPP_DST_BUFS buffers are used in turn.  The hardware that composes  *)
(* waits for the release fence kept with the buffer; the display driver    *)
(* waits for the acquire fence that composing returned.  The release fence *)
(* that the driver returns with a frame signals when that frame has        *)
(* replaced the previous one on the screen, so it is kept with the buffer  *)
(* of the previous frame (mPrivDstBuf).  A frame whose sources equal those *)
(* of the previous one is not composed again: it shows the previous buffer.*)
(*                                                                         *)
(* A frame is composed either in validateDisplay (early) or in a           *)
(* presentDisplay that skips validation.  The contents of the assigned     *)
(* sources are an element of Frame; the display driver and the composing   *)
(* hardware are external.                                                  *)
(***************************************************************************)
EXTENDS Naturals, Sequences, FiniteSets

CONSTANTS
  Frame,         \* what the assigned sources can show
  NumBuffers,    \* NUM_MPP_DST_BUFS
  Fence,         \* the file descriptors fences can have
  MaxQueued,     \* bound on the frames waiting in the display driver
  Preallocated,  \* ~mFreeOutBufFlag: idle hardware keeps its buffers
  MayDrop,       \* a composed frame may be dropped or composed once more
  MayFail,       \* an allocation, a composition or a present may fail
  None           \* no buffer, no fence (-1), nothing shown

ASSUME ParametersOK ==
  /\ NumBuffers \in Nat \ {0, 1}
  /\ MaxQueued \in Nat
  /\ {Preallocated, MayDrop, MayFail} \subseteq BOOLEAN

Index == 0 .. NumBuffers - 1

ASSUME NoneIsNothing == None \notin Index \cup Fence \cup Frame

(* A mutant: the index does not wrap around.                               *)
NextUnbounded(i) == i + 1

Next1(i) == (i + 1) % NumBuffers

Previous(i) == (i + NumBuffers - 1) % NumBuffers

VARIABLES
  mDstImgs,         \* [Index -> allocated, release fence]
  mCurrentDstBuf,
  mPrivDstBuf,
  mPrevFrameInfo,   \* sources of the last doPostProcessing()
  running,          \* mHWState is MPP_HW_STATE_RUNNING
  assigned,         \* mAssignedSources, None when the display uses no m2m MPP
  target,           \* mExynosCompositionInfo: buffer, fence and what it shows
  geometry,         \* the next frame must be validated and assigned
  mLastDpuData,     \* the buffer the driver was given last
  mLastLayerBuffer, \* sources of the last present
  phase,            \* how far the frame is
  early,            \* it is composed in validateDisplay
  mFreedBuffers,    \* fences of the buffers ResourceManageThread will free
  contents,         \* [Index -> Frame]: what was composed into the buffer
  job,              \* the composition last given to the hardware
  open,             \* fence file descriptors that are open
  dropped,          \* a composed frame was dropped or composed once more
  screen, queue     \* the display driver: the frame shown, those waiting

mppVars == <<mDstImgs, mCurrentDstBuf, mPrivDstBuf, mPrevFrameInfo, running,
             mFreedBuffers, contents, job>>
frameVars == <<assigned, target, geometry, mLastDpuData, mLastLayerBuffer,
               phase, early>>
driverVars == <<screen, queue>>
vars == <<mppVars, frameVars, open, dropped, driverVars>>

OrNone(S) == S \cup {None}
Shown == [buf : OrNone(Index), fence : OrNone(Fence)]
Target == [buf : OrNone(Index), fence : OrNone(Fence), shows : OrNone(Frame)]

NoTarget == [buf |-> None, fence |-> None, shows |-> None]
NoJob == [buf |-> None, after |-> None]
Empty == [allocated |-> FALSE, release |-> None]

TypeOK ==
  /\ mDstImgs \in [Index -> [allocated : BOOLEAN, release : OrNone(Fence)]]
  /\ mCurrentDstBuf \in Index
  /\ mPrivDstBuf \in OrNone(Index)
  /\ mPrevFrameInfo \in OrNone(Frame)
  /\ running \in BOOLEAN
  /\ assigned \in OrNone(Frame)
  /\ target \in Target
  /\ geometry \in BOOLEAN
  /\ mLastDpuData \in OrNone(Index)
  /\ mLastLayerBuffer \in OrNone(Frame)
  /\ phase \in {"idle", "compose", "execute", "composed", "failed", "client"}
  /\ early \in BOOLEAN
  /\ mFreedBuffers \subseteq Fence
  /\ contents \in [Index -> OrNone(Frame)]
  /\ job \in [buf : OrNone(Index), after : OrNone(Fence)]
  /\ open \subseteq Fence
  /\ dropped \in BOOLEAN
  /\ screen \in OrNone(Index)
  /\ queue \in Seq(Shown)
  /\ Len(queue) <= MaxQueued

Init ==
  /\ mDstImgs = [i \in Index |-> [Empty EXCEPT !.allocated = Preallocated]]
  /\ mCurrentDstBuf = 0
  /\ mPrivDstBuf = None
  /\ mPrevFrameInfo = None
  /\ running = FALSE
  /\ assigned = None
  /\ target = NoTarget
  /\ geometry = TRUE
  /\ mLastDpuData = None
  /\ mLastLayerBuffer = None
  /\ phase = "idle"
  /\ early = FALSE
  /\ mFreedBuffers = {}
  /\ contents = [i \in Index |-> None]
  /\ job = NoJob
  /\ open = {}
  /\ dropped = FALSE
  /\ screen = None
  /\ queue = <<>>

-----------------------------------------------------------------------------
Current == mDstImgs[mCurrentDstBuf]

(* The fences the display driver has not signalled yet.                    *)
Pending == {queue[k].fence : k \in DOMAIN queue}

(* A new fence gets the lowest file descriptor that is free.  The fence of a *)
(* pending frame keeps its name after its descriptor is closed.            *)
NewFence(f) ==
  LET free == Fence \ (open \cup Pending)
  IN f \in free /\ \A g \in free : f <= g

Closed(fences) == open' = open \ fences

(* The MPP keeps another buffer at index i from now on, so the driver no   *)
(* longer reads what is there.                                             *)
Detached(i) ==
  /\ mLastDpuData' = IF mLastDpuData = i THEN None ELSE mLastDpuData
  /\ screen' = IF screen = i THEN None ELSE screen
  /\ queue' = [k \in DOMAIN queue |->
                 IF queue[k].buf = i THEN [queue[k] EXCEPT !.buf = None]
                                     ELSE queue[k]]

-----------------------------------------------------------------------------
(* validateDisplay(): the frame shows s.  A geometry change makes the      *)
(* assignment start over, which closes the fence of a target left over.    *)
StartPostProcessing(s, assigning) ==
  /\ assigned' = s
  /\ geometry \/ assigned = None => assigning
  /\ geometry' = FALSE
  /\ early' = TRUE
  /\ running' = TRUE
  /\ phase' = "compose"
  /\ job' = NoJob
  /\ IF assigning
     THEN target' = NoTarget /\ Closed({target.fence})
     ELSE UNCHANGED <<target, open>>
  /\ UNCHANGED <<mDstImgs, mCurrentDstBuf, mPrivDstBuf, mPrevFrameInfo,
                 mFreedBuffers, contents, mLastDpuData, mLastLayerBuffer,
                 driverVars>>

Validate(s, assigning) == phase = "idle" /\ StartPostProcessing(s, assigning)

(* The display is validated once more before it is presented.              *)
ValidateAgain(s, assigning) ==
  MayDrop /\ phase = "composed" /\ early /\ StartPostProcessing(s, assigning)

(* presentDisplay() without validation: only the source buffers changed.   *)
PresentWithoutValidate(s) ==
  /\ phase = "idle"
  /\ ~geometry /\ assigned # None
  /\ assigned' = s
  /\ early' = FALSE
  /\ running' = TRUE
  /\ phase' = "compose"
  /\ job' = NoJob
  /\ UNCHANGED <<mDstImgs, mCurrentDstBuf, mPrivDstBuf, mPrevFrameInfo,
                 mFreedBuffers, contents, target, geometry, mLastDpuData,
                 mLastLayerBuffer, open, driverVars>>

(* The frame is validated, and the display gets no m2m MPP.                *)
ValidateWithoutMpp ==
  /\ phase = "idle"
  /\ assigned' = None
  /\ target' = NoTarget
  /\ Closed({target.fence})
  /\ geometry' = FALSE
  /\ phase' = "client"
  /\ job' = NoJob
  /\ UNCHANGED <<mDstImgs, mCurrentDstBuf, mPrivDstBuf, mPrevFrameInfo,
                 running, mFreedBuffers, contents, mLastDpuData,
                 mLastLayerBuffer, early, driverVars>>

-----------------------------------------------------------------------------
(* doPostProcessing().                                                     *)

(* needDstBufRealloc() decides: always when there is no buffer, otherwise  *)
(* by the size and the format of the frame.  The fences of the buffer it   *)
(* replaces go with it to the thread that frees it, or are closed.         *)
allocOutBuf ==
  /\ phase = "compose"
  /\ mDstImgs' = [mDstImgs EXCEPT ![mCurrentDstBuf] =
                    [Empty EXCEPT !.allocated = TRUE]]
  /\ contents' = [contents EXCEPT ![mCurrentDstBuf] = None]
  /\ LET left == {Current.release} \ {None}
     IN IF Current.allocated
        THEN mFreedBuffers' = mFreedBuffers \cup left /\ UNCHANGED open
        ELSE Closed(left) /\ UNCHANGED mFreedBuffers
  /\ Detached(mCurrentDstBuf)
  /\ phase' = "execute"
  /\ UNCHANGED <<mCurrentDstBuf, mPrivDstBuf, mPrevFrameInfo, running, job,
                 assigned, target, geometry, mLastLayerBuffer, early>>

allocOutBufFails ==
  /\ MayFail
  /\ phase = "compose"
  /\ mPrevFrameInfo' = assigned
  /\ phase' = "failed"
  /\ UNCHANGED <<mDstImgs, mCurrentDstBuf, mPrivDstBuf, running,
                 mFreedBuffers, contents, job, assigned, target, geometry,
                 mLastDpuData, mLastLayerBuffer, early, open, driverVars>>

(* A mutant: only the number of the sources is compared.                   *)
canUseFrameOfSameSize ==
  /\ mPrevFrameInfo # None
  /\ mDstImgs[Previous(mCurrentDstBuf)].allocated

canUsePrevFrame ==
  /\ mPrevFrameInfo = assigned
  /\ mDstImgs[Previous(mCurrentDstBuf)].allocated

(* getDstImageInfo(), setTargetBuffer() and resetDstAcquireFence(): the    *)
(* acquire fence f of buffer i goes to the target and is not kept in        *)
(* mDstImgs.                                                               *)
SetTarget(i, f, frame) ==
  target' = [buf |-> i, fence |-> f, shows |-> frame]

usePrevFrame ==
  /\ phase = "compose"
  /\ Current.allocated
  /\ canUsePrevFrame
  /\ LET p == Previous(mCurrentDstBuf)
     IN /\ mCurrentDstBuf' = p
        /\ SetTarget(p, None, contents[p])
  /\ phase' = "composed"
  /\ UNCHANGED <<mDstImgs, mPrivDstBuf, mPrevFrameInfo, running,
                 mFreedBuffers, contents, job, assigned, geometry,
                 mLastDpuData, mLastLayerBuffer, early, open, driverVars>>

Executes ==
  \/ phase = "execute"
  \/ phase = "compose" /\ Current.allocated /\ ~canUsePrevFrame

(* The release fence goes to the hardware with the buffer.                 *)
doPostProcessingInternal(f) ==
  /\ Executes
  /\ NewFence(f)
  /\ job' = [buf |-> mCurrentDstBuf, after |-> Current.release]
  /\ contents' = [contents EXCEPT ![mCurrentDstBuf] = assigned]
  /\ mDstImgs' = [mDstImgs EXCEPT ![mCurrentDstBuf].release = None]
  /\ SetTarget(mCurrentDstBuf, f, assigned)
  /\ open' = (open \ {Current.release}) \cup {f}
  /\ mPrevFrameInfo' = assigned
  /\ phase' = "composed"
  /\ UNCHANGED <<mCurrentDstBuf, mPrivDstBuf, running, mFreedBuffers,
                 assigned, geometry, mLastDpuData, mLastLayerBuffer, early,
                 driverVars>>

(* A source cannot be set up, or the hardware rejects the job (it has the  *)
(* release fence then).                                                    *)
executeFails(rejected) ==
  /\ MayFail
  /\ Executes
  /\ mDstImgs' = IF rejected
                 THEN [mDstImgs EXCEPT ![mCurrentDstBuf].release = None]
                 ELSE mDstImgs
  /\ Closed(IF rejected THEN {Current.release} ELSE {})
  /\ mPrevFrameInfo' = assigned
  /\ phase' = "failed"
  /\ UNCHANGED <<mCurrentDstBuf, mPrivDstBuf, running, mFreedBuffers,
                 contents, job, assigned, target, geometry, mLastDpuData,
                 mLastLayerBuffer, early, driverVars>>

(* A mutant: the closed fence stays with the buffer.                       *)
closeFencesOnly == UNCHANGED mDstImgs /\ Closed({Current.release, target.fence})

(* ExynosDisplay::closeFences() on the target and the MPP.                 *)
closeFences ==
  /\ mDstImgs' = [mDstImgs EXCEPT ![mCurrentDstBuf].release = None]
  /\ Closed({Current.release, target.fence})

(* startPostProcessing() failed: validateDisplay falls back to client      *)
(* composition, presentDisplay ignores it and goes on with the old target. *)
PostProcessingFailed ==
  /\ phase = "failed"
  /\ closeFences
  /\ IF early
     THEN /\ assigned' = None
          /\ target' = NoTarget
          /\ geometry' = TRUE
          /\ phase' = "client"
     ELSE /\ target' = [target EXCEPT !.fence = None]
          /\ phase' = "composed"
          /\ UNCHANGED <<assigned, geometry>>
  /\ UNCHANGED <<mCurrentDstBuf, mPrivDstBuf, mPrevFrameInfo, running,
                 mFreedBuffers, contents, job, mLastDpuData,
                 mLastLayerBuffer, early, driverVars>>

-----------------------------------------------------------------------------
(* presentDisplay().                                                       *)

(* The buffer the release fence of the new frame is kept with: the new     *)
(* frame replaces it.  A mutant: the one that the new frame shows.         *)
releasedTooEarly == mCurrentDstBuf

releasedBuffer == mPrivDstBuf

(* A mutant: the fence that the buffer had is overwritten.                 *)
setDstReleaseFenceOnly(f, images, fences) ==
  /\ mDstImgs' = IF releasedBuffer = None THEN images
                 ELSE [images EXCEPT ![releasedBuffer].release = f]
  /\ open' = ((open \cup {f}) \ {None}) \ fences

(* Fence f is kept in images; it is closed when there is no buffer to keep *)
(* it with.  fences are closed as well.                                    *)
setDstReleaseFence(f, images, fences) ==
  IF releasedBuffer = None
  THEN /\ mDstImgs' = images
       /\ Closed(fences)
  ELSE /\ mDstImgs' = [images EXCEPT ![releasedBuffer].release = f]
       /\ open' = ((open \cup {f}) \ {None})
                     \ (fences \cup {images[releasedBuffer].release})

increaseDstBuffIndex == mCurrentDstBuf' = Next1(mCurrentDstBuf)

(* The frame counts as presented.  The fence of the target was closed once *)
(* the driver had it.                                                      *)
FrameDone ==
  /\ phase = "composed"
  /\ mPrivDstBuf' = mCurrentDstBuf
  /\ increaseDstBuffIndex
  /\ target' = [target EXCEPT !.fence = None]
  /\ mLastLayerBuffer' = assigned
  /\ phase' = "idle"
  /\ job' = NoJob
  /\ UNCHANGED <<mPrevFrameInfo, running, mFreedBuffers, contents, assigned,
                 geometry, early, screen>>

Queued(b, f) ==
  /\ Len(queue) < MaxQueued
  /\ queue' = Append(queue, [buf |-> b, fence |-> f])
  /\ mLastDpuData' = b

Deliver(f) ==
  /\ NewFence(f)
  /\ Queued(target.buf, f)
  /\ setDstReleaseFence(f, mDstImgs, {target.fence})
  /\ FrameDone

(* Nothing changed since the last frame: it is not delivered.              *)
SkipWinConfig ==
  /\ target.buf # None /\ mLastDpuData = target.buf
  /\ assigned = mLastLayerBuffer
  /\ UNCHANGED <<mLastDpuData, queue>>
  /\ setDstReleaseFence(None, mDstImgs, {target.fence})
  /\ FrameDone

(* The driver rejects the frame: the fences are closed and the screen is   *)
(* cleared.                                                                *)
DeliverFails ==
  /\ MayFail
  /\ Queued(None, None)
  /\ setDstReleaseFence(None, [mDstImgs EXCEPT ![mCurrentDstBuf].release = None],
                        {Current.release, target.fence})
  /\ FrameDone

(* An error before the frame is delivered.                                 *)
PresentFails ==
  /\ MayFail
  /\ phase = "composed"
  /\ closeFences
  /\ target' = [target EXCEPT !.fence = None]
  /\ mLastDpuData' = None
  /\ geometry' = TRUE
  /\ phase' = "idle"
  /\ job' = NoJob
  /\ UNCHANGED <<mCurrentDstBuf, mPrivDstBuf, mPrevFrameInfo, running,
                 mFreedBuffers, contents, assigned, mLastLayerBuffer, early,
                 driverVars>>

(* handleSkipPresent(): the frame is not shown.                            *)
closeFencesForSkipFrame ==
  /\ MayDrop
  /\ phase = "composed" /\ early
  /\ Closed({target.fence})
  /\ target' = [target EXCEPT !.fence = None]
  /\ phase' = "idle"
  /\ job' = NoJob
  /\ UNCHANGED <<mDstImgs, mCurrentDstBuf, mPrivDstBuf, mPrevFrameInfo,
                 running, mFreedBuffers, contents, assigned, geometry,
                 mLastDpuData, mLastLayerBuffer, early, driverVars>>

(* requestHWStateChange(MPP_HW_STATE_IDLE), from the last present of a     *)
(* frame in which the MPP has no source.                                   *)
requestIdle ==
  /\ running' = FALSE
  /\ IF running
     THEN /\ mPrevFrameInfo' = None
          /\ IF Preallocated
             THEN UNCHANGED <<mDstImgs, contents>>
             ELSE /\ mDstImgs' = [i \in Index |->
                                    [mDstImgs[i] EXCEPT !.allocated = FALSE]]
                  /\ contents' = [i \in Index |-> None]
     ELSE UNCHANGED <<mPrevFrameInfo, mDstImgs, contents>>

PresentWithoutMpp ==
  /\ phase = "client"
  /\ Len(queue) < MaxQueued
  /\ requestIdle
  /\ LET freed == running /\ ~Preallocated
         Left(b) == IF freed THEN None ELSE b
     IN /\ screen' = Left(screen)
        /\ queue' = Append([k \in DOMAIN queue |->
                              [queue[k] EXCEPT !.buf = Left(@)]],
                           [buf |-> None, fence |-> None])
  /\ mLastDpuData' = None
  /\ mLastLayerBuffer' = None
  /\ phase' = "idle"
  /\ UNCHANGED <<mCurrentDstBuf, mPrivDstBuf, mFreedBuffers, job, assigned,
                 target, geometry, early, open>>

-----------------------------------------------------------------------------
(* ResourceManageThread::freeBuffers().                                    *)
freeBuffers ==
  /\ mFreedBuffers # {}
  /\ Closed(mFreedBuffers)
  /\ mFreedBuffers' = {}
  /\ UNCHANGED <<mDstImgs, mCurrentDstBuf, mPrivDstBuf, mPrevFrameInfo,
                 running, contents, job, frameVars, driverVars>>

(* The display driver shows the next frame: it stops reading the buffer    *)
(* shown so far and signals the release fence of the new frame.            *)
ShowNext ==
  /\ queue # <<>>
  /\ screen' = Head(queue).buf
  /\ queue' = Tail(queue)
  /\ UNCHANGED <<mppVars, frameVars, open>>

Compose ==
  \/ \E s \in Frame :
        \/ PresentWithoutValidate(s)
        \/ \E assigning \in BOOLEAN : Validate(s, assigning)
  \/ ValidateWithoutMpp
  \/ allocOutBuf \/ allocOutBufFails \/ usePrevFrame
  \/ \E f \in Fence : doPostProcessingInternal(f)
  \/ \E rejected \in BOOLEAN : executeFails(rejected)
  \/ PostProcessingFailed

Present ==
  \/ \E f \in Fence : Deliver(f)
  \/ SkipWinConfig \/ DeliverFails \/ PresentFails \/ PresentWithoutMpp

Drop ==
  \/ \E s \in Frame, assigning \in BOOLEAN : ValidateAgain(s, assigning)
  \/ closeFencesForSkipFrame

Next ==
  \/ (Compose \/ Present \/ freeBuffers \/ ShowNext) /\ UNCHANGED dropped
  \/ Drop /\ dropped' = TRUE

Spec == Init /\ [][Next]_vars

-----------------------------------------------------------------------------
(* Properties.                                                             *)

(* The driver still reads buffer i in the frames at these positions: 0 is  *)
(* the screen, the others are in the queue.                                *)
Readers(i) ==
  {k \in 0 .. Len(queue) : i = IF k = 0 THEN screen ELSE queue[k].buf}

(* Who waits for fence f writes buffer i when the driver has read it.      *)
Covers(f, i) ==
  \/ Readers(i) = {}
  \/ /\ f # None
     /\ \E k \in DOMAIN queue :
           queue[k].fence = f /\ \A r \in Readers(i) : r < k

(* A frame is never composed into a buffer the driver still has to read,   *)
(* unless the hardware waits for the fence of a later frame: reusing the   *)
(* previous frame, skipped deliveries and idle hardware never break the    *)
(* order in which the buffers and their release fences go round.           *)
WriteWaitsForReaders == job # NoJob => Covers(job.after, job.buf)

(* The places that will close fence f: a buffer, the composition target,    *)
(* the thread that frees buffers.                                          *)
Owners(f) ==
  {<<"release", i>> : i \in {j \in Index : mDstImgs[j].release = f}}
    \cup (IF target.fence = f THEN {<<"target", 0>>} ELSE {})
    \cup (IF f \in mFreedBuffers THEN {<<"freed", 0>>} ELSE {})

(* No fence is closed twice, and none is used after it was closed, even    *)
(* when frames are dropped, composed again or fail.                        *)
FenceOwnedOnce ==
  \A f \in Fence : Cardinality(Owners(f)) <= IF f \in open THEN 1 ELSE 0

(* As long as every composed frame is presented, whatever fails, no open   *)
(* fence is overwritten before it is closed: validateFences() would report *)
(* "Fence leak!".                                                          *)
NoFenceLeaked == ~dropped => \A f \in open : Owners(f) # {}

(* doPostProcessing(), "Reuse previous frame": the buffer that is          *)
(* presented shows the sources that are assigned.                          *)
PresentedIsCurrent ==
  [][phase = "composed" /\ phase' = "idle" /\ mCurrentDstBuf' # mCurrentDstBuf
       => target.shows = assigned]_vars

(* "Reuse previous frame": the buffer that is shown again was composed     *)
(* from the sources that are assigned.                                     *)
ReusedIsCurrent == [][usePrevFrame => target'.shows = assigned]_vars
=============================================================================
