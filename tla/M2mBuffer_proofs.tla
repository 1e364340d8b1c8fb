-------------------------- MODULE M2mBuffer_proofs --------------------------
(***************************************************************************)
(* Who owns the sync fences of the composing m2m MPP, for any number of    *)
(* destination buffers, any fences and frames, and whatever is dropped or  *)
(* fails.                                                                  *)
(***************************************************************************)
EXTENDS M2mBuffer, FiniteSetTheorems, TLAPS

(* Every fence somebody will close is open, and only one will close it.    *)
FencesKept ==
  /\ target.fence # None => target.fence \in open \ mFreedBuffers
  /\ mFreedBuffers \subseteq open
  /\ \A i \in Index : mDstImgs[i].release # None =>
       /\ mDstImgs[i].release \in open \ mFreedBuffers
       /\ mDstImgs[i].release # target.fence
       /\ \A j \in Index \ {i} : mDstImgs[j].release # mDstImgs[i].release

HasOwner(f) ==
  \/ f = target.fence \/ f \in mFreedBuffers
  \/ \E i \in Index : mDstImgs[i].release = f

(* Only between composing and presenting does the target have a fence.     *)
NothingLost ==
  ~dropped => /\ phase # "composed" => target.fence = None
              /\ \A f \in open : HasOwner(f)

M2mInv == TypeOK /\ FencesKept /\ NothingLost

-----------------------------------------------------------------------------
LEMMA IndexFacts ==
  /\ 0 \in Index
  /\ \A i \in Index : Next1(i) \in Index /\ Previous(i) \in Index
<1>1. NumBuffers \in Nat \ {0, 1}
  BY ParametersOK
<1>2. ASSUME NEW n \in Nat PROVE n % NumBuffers \in Index
  BY <1>1 DEF Index
<1>3. ASSUME NEW i \in Index PROVE i + 1 \in Nat /\ i + NumBuffers - 1 \in Nat
  BY <1>1 DEF Index
<1> QED
  BY <1>1, <1>2, <1>3 DEF Index, Next1, Previous

LEMMA NoneFacts == None \notin Index /\ None \notin Fence /\ None \notin Frame
BY NoneIsNothing

(* The frames in the queue stay frames when a buffer is detached.          *)
LEMMA DetachedTyped ==
  ASSUME TypeOK, NEW i \in Index, Detached(i)
  PROVE  /\ mLastDpuData' \in OrNone(Index) /\ screen' \in OrNone(Index)
         /\ queue' \in Seq(Shown) /\ Len(queue') <= MaxQueued
<1>1. \A k \in DOMAIN queue : queue[k] \in Shown
  BY DEF TypeOK
<1>2. \A k \in DOMAIN queue : queue'[k] \in Shown
  BY <1>1 DEF Detached, Shown, OrNone
<1>3. queue' \in Seq(Shown) /\ Len(queue') = Len(queue)
  BY <1>2 DEF Detached, TypeOK
<1> QED
  BY <1>3 DEF Detached, TypeOK, OrNone

LEMMA QueuedTyped ==
  ASSUME TypeOK, NEW b \in OrNone(Index), NEW f \in OrNone(Fence), Queued(b, f)
  PROVE  /\ mLastDpuData' \in OrNone(Index)
         /\ queue' \in Seq(Shown) /\ Len(queue') <= MaxQueued
<1>1. [buf |-> b, fence |-> f] \in Shown
  BY DEF Shown
<1> QED
  BY <1>1, ParametersOK DEF Queued, TypeOK

-----------------------------------------------------------------------------
LEMMA InitM2m == Init => M2mInv
<1> SUFFICES ASSUME Init PROVE M2mInv
  OBVIOUS
<1>1. mDstImgs \in [Index -> [allocated : BOOLEAN, release : OrNone(Fence)]]
  BY ParametersOK DEF Init, Empty, OrNone
<1>2. \A i \in Index : mDstImgs[i].release = None
  BY DEF Init, Empty
<1>3. TypeOK
  BY <1>1, IndexFacts, ParametersOK
     DEF Init, TypeOK, OrNone, Target, NoTarget, NoJob
<1>4. FencesKept /\ NothingLost
  BY <1>2 DEF Init, FencesKept, NothingLost, NoTarget
<1> QED
  BY <1>3, <1>4 DEF M2mInv

(* The start of a frame: nothing of the buffers changes, and at most the   *)
(* fence of the target is closed.                                          *)
StartsFrame ==
  \/ \E s \in Frame : \/ PresentWithoutValidate(s)
                      \/ \E assigning \in BOOLEAN : Validate(s, assigning)
                                                  \/ ValidateAgain(s, assigning)
  \/ ValidateWithoutMpp

LEMMA StartTyped == ASSUME M2mInv, StartsFrame, dropped' \in BOOLEAN PROVE TypeOK'
<1>1. TypeOK
  BY DEF M2mInv
<1>2. /\ UNCHANGED <<mDstImgs, mCurrentDstBuf, mPrivDstBuf, mPrevFrameInfo,
                     mFreedBuffers, contents, mLastDpuData, mLastLayerBuffer,
                     screen, queue>>
      /\ assigned' \in Frame \cup {None}
      /\ target' \in {target, NoTarget} /\ geometry' \in {geometry, FALSE}
      /\ open' \subseteq open
      /\ running' \in {running, TRUE} /\ early' \in {early, TRUE, FALSE}
      /\ phase' \in {"compose", "client"} /\ job' = NoJob
  BY DEF StartsFrame, PresentWithoutValidate, Validate, ValidateAgain,
         StartPostProcessing, ValidateWithoutMpp, driverVars, Closed
<1>3. NoTarget \in Target /\ NoJob.buf = None /\ NoJob.after = None
  BY DEF NoTarget, Target, OrNone, NoJob
<1>4. job' \in [buf : OrNone(Index), after : OrNone(Fence)]
  BY <1>2 DEF NoJob, OrNone
<1>5. /\ running' \in BOOLEAN /\ geometry' \in BOOLEAN /\ early' \in BOOLEAN
  BY <1>1, <1>2 DEF TypeOK
<1>6. target' \in Target
  BY <1>1, <1>2, <1>3 DEF TypeOK
<1>7. assigned' \in OrNone(Frame) /\ open' \subseteq Fence
  BY <1>1, <1>2 DEF TypeOK, OrNone
<1> QED
  BY <1>1, <1>2, <1>4, <1>5, <1>6, <1>7 DEF TypeOK

LEMMA StartFences ==
  ASSUME M2mInv, StartsFrame, ~dropped' => ~dropped /\ phase = "idle"
  PROVE  FencesKept' /\ NothingLost'
<1>1. /\ UNCHANGED <<mDstImgs, mFreedBuffers>>
      /\ phase' \in {"compose", "client"}
      /\ \/ target' = target /\ open' = open
         \/ target' = NoTarget /\ open' = open \ {target.fence}
  BY DEF StartsFrame, PresentWithoutValidate, Validate, ValidateAgain,
         StartPostProcessing, ValidateWithoutMpp, Closed
<1>2. NoTarget.fence = None
  BY DEF NoTarget
<1>3. FencesKept'
  BY <1>1, <1>2, NoneFacts DEF M2mInv, FencesKept, TypeOK
<1>4. NothingLost'
  BY <1>1, <1>2 DEF M2mInv, NothingLost, HasOwner
<1> QED
  BY <1>3, <1>4

LEMMA ReleaseTyped ==
  ASSUME TypeOK, NEW i \in Index
  PROVE  mDstImgs[i].release \in OrNone(Fence)
BY DEF TypeOK

(* A buffer is replaced: its fence goes where it will be closed, or is.    *)
LEMMA AllocKept ==
  ASSUME M2mInv, allocOutBuf, dropped' = dropped PROVE M2mInv'
<1>1. TypeOK /\ FencesKept /\ NothingLost
  BY DEF M2mInv
<1>2. /\ UNCHANGED <<mCurrentDstBuf, mPrivDstBuf, mPrevFrameInfo, running, job,
                     assigned, target, geometry, mLastLayerBuffer, early>>
      /\ phase = "compose" /\ phase' = "execute" /\ Detached(mCurrentDstBuf)
      /\ mCurrentDstBuf \in Index
  BY <1>1 DEF allocOutBuf, TypeOK
<1>3. [Empty EXCEPT !.allocated = TRUE] \in [allocated : BOOLEAN, release : {None}]
  BY DEF Empty
<1>4. /\ mDstImgs' \in [Index -> [allocated : BOOLEAN, release : OrNone(Fence)]]
      /\ mDstImgs'[mCurrentDstBuf].release = None
      /\ \A i \in Index \ {mCurrentDstBuf} :
            mDstImgs'[i].release = mDstImgs[i].release
  BY <1>1, <1>2, <1>3 DEF allocOutBuf, TypeOK, OrNone
<1>5. contents' \in [Index -> OrNone(Frame)]
  BY <1>1, <1>2 DEF allocOutBuf, TypeOK, OrNone
<1>6. Current.release \in OrNone(Fence)
  BY <1>1, <1>2, ReleaseTyped DEF Current
<1>7. \/ /\ mFreedBuffers' = mFreedBuffers \cup ({Current.release} \ {None})
         /\ open' = open
      \/ /\ mFreedBuffers' = mFreedBuffers
         /\ open' = open \ ({Current.release} \ {None})
  BY DEF allocOutBuf, Closed
<1>8. TypeOK'
  <2>1. mFreedBuffers' \subseteq Fence /\ open' \subseteq Fence
    BY <1>1, <1>6, <1>7 DEF TypeOK, OrNone
  <2> QED
    BY <1>1, <1>2, <1>4, <1>5, <2>1, DetachedTyped DEF TypeOK
<1>9. FencesKept'
  BY <1>1, <1>2, <1>4, <1>7 DEF FencesKept, Current
<1>10. NothingLost'
  BY <1>1, <1>2, <1>4, <1>7 DEF NothingLost, HasOwner, Current
<1> QED
  BY <1>8, <1>9, <1>10 DEF M2mInv

(* Steps that touch neither the release fences nor what is open.           *)
LEMMA FencesUntouched ==
  ASSUME M2mInv, UNCHANGED <<mFreedBuffers, open>>,
         target'.fence = target.fence,
         \A i \in Index : mDstImgs'[i].release = mDstImgs[i].release,
         ~dropped' => ~dropped,
         phase' # "composed" => phase # "composed"
  PROVE  FencesKept' /\ NothingLost'
<1>1. FencesKept'
  BY DEF M2mInv, FencesKept
<1>2. NothingLost'
  BY DEF M2mInv, NothingLost, HasOwner
<1> QED
  BY <1>1, <1>2

LEMMA AllocFailsKept ==
  ASSUME M2mInv, allocOutBufFails, dropped' = dropped PROVE M2mInv'
<1>1. TypeOK'
  BY DEF M2mInv, allocOutBufFails, TypeOK, driverVars
<1>2. FencesKept' /\ NothingLost'
  BY FencesUntouched DEF allocOutBufFails
<1> QED
  BY <1>1, <1>2 DEF M2mInv

LEMMA UsePrevKept ==
  ASSUME M2mInv, usePrevFrame, dropped' = dropped PROVE M2mInv'
<1>1. TypeOK /\ FencesKept /\ NothingLost
  BY DEF M2mInv
<1>2. /\ UNCHANGED <<mDstImgs, mPrivDstBuf, mPrevFrameInfo, running,
                     mFreedBuffers, contents, job, assigned, geometry,
                     mLastDpuData, mLastLayerBuffer, early, open, driverVars>>
      /\ phase = "compose" /\ phase' = "composed"
      /\ mCurrentDstBuf' = Previous(mCurrentDstBuf)
      /\ target' = [buf |-> mCurrentDstBuf', fence |-> None,
                    shows |-> contents[mCurrentDstBuf']]
  BY DEF usePrevFrame, SetTarget
<1>3. mCurrentDstBuf' \in Index
  BY <1>1, <1>2, IndexFacts DEF TypeOK
<1>4. contents[mCurrentDstBuf'] \in OrNone(Frame)
  BY <1>1, <1>3 DEF TypeOK
<1>5. target' \in Target /\ target'.fence = None
  BY <1>2, <1>3, <1>4 DEF Target, OrNone
<1>6. TypeOK'
  BY <1>1, <1>2, <1>3, <1>5 DEF TypeOK, driverVars
<1>7. FencesKept' /\ NothingLost'
  BY <1>1, <1>2, <1>5, NoneFacts DEF FencesKept, NothingLost, HasOwner, TypeOK
<1> QED
  BY <1>6, <1>7 DEF M2mInv

(* The hardware takes the release fence, and the target gets a new fence   *)
(* that nobody had.                                                        *)
LEMMA ComposeKept ==
  ASSUME M2mInv, NEW f \in Fence, doPostProcessingInternal(f), dropped' = dropped
  PROVE  M2mInv'
<1>1. TypeOK /\ FencesKept /\ NothingLost /\ mCurrentDstBuf \in Index
  BY DEF M2mInv, TypeOK
<1>2. /\ UNCHANGED <<mCurrentDstBuf, mPrivDstBuf, running, mFreedBuffers,
                     assigned, geometry, mLastDpuData, mLastLayerBuffer, early,
                     driverVars>>
      /\ phase \in {"compose", "execute"} /\ phase' = "composed"
      /\ f \notin open /\ mPrevFrameInfo' = assigned
      /\ open' = (open \ {Current.release}) \cup {f}
      /\ target' = [buf |-> mCurrentDstBuf, fence |-> f, shows |-> assigned]
      /\ job' = [buf |-> mCurrentDstBuf, after |-> Current.release]
  BY DEF doPostProcessingInternal, Executes, NewFence, SetTarget
<1>3. Current.release \in OrNone(Fence)
  BY <1>1, ReleaseTyped DEF Current
<1>4. /\ mDstImgs' \in [Index -> [allocated : BOOLEAN, release : OrNone(Fence)]]
      /\ mDstImgs'[mCurrentDstBuf].release = None
      /\ \A i \in Index \ {mCurrentDstBuf} :
            mDstImgs'[i].release = mDstImgs[i].release
  BY <1>1 DEF doPostProcessingInternal, TypeOK, OrNone
<1>5. /\ contents' \in [Index -> OrNone(Frame)] /\ target' \in Target
      /\ target'.fence = f
      /\ job' \in [buf : OrNone(Index), after : OrNone(Fence)]
  BY <1>1, <1>2, <1>3 DEF doPostProcessingInternal, TypeOK, Target, OrNone
<1>6. TypeOK'
  BY <1>1, <1>2, <1>4, <1>5 DEF TypeOK, driverVars
<1>7. FencesKept'
  BY <1>1, <1>2, <1>4, <1>5, NoneFacts DEF FencesKept, Current, TypeOK
<1>8. NothingLost'
  BY <1>1, <1>2, <1>4, <1>5 DEF NothingLost, HasOwner, Current
<1> QED
  BY <1>6, <1>7, <1>8 DEF M2mInv

(* The fence of the current buffer, and of the target with it or not, is   *)
(* closed and forgotten.                                                   *)
LEMMA CurrentClosed ==
  ASSUME M2mInv,
         \/ UNCHANGED mDstImgs /\ UNCHANGED open
         \/ /\ mDstImgs' = [mDstImgs EXCEPT ![mCurrentDstBuf].release = None]
            /\ open' = open \ {Current.release}
  PROVE  /\ mDstImgs' \in [Index -> [allocated : BOOLEAN, release : OrNone(Fence)]]
         /\ open' \subseteq Fence
         /\ UNCHANGED mFreedBuffers /\ target'.fence = target.fence => FencesKept'
         /\ UNCHANGED mFreedBuffers /\ target'.fence = target.fence
              /\ dropped' = dropped /\ (phase' # "composed" => phase # "composed")
              => NothingLost'
<1>1. TypeOK /\ FencesKept /\ NothingLost /\ mCurrentDstBuf \in Index
  BY DEF M2mInv, TypeOK
<1>2. CASE UNCHANGED mDstImgs /\ UNCHANGED open
  BY <1>1, <1>2 DEF TypeOK, FencesKept, NothingLost, HasOwner
<1>3. CASE /\ mDstImgs' = [mDstImgs EXCEPT ![mCurrentDstBuf].release = None]
           /\ open' = open \ {Current.release}
  <2>1. /\ mDstImgs' \in [Index -> [allocated : BOOLEAN, release : OrNone(Fence)]]
        /\ mDstImgs'[mCurrentDstBuf].release = None
        /\ \A i \in Index \ {mCurrentDstBuf} :
              mDstImgs'[i].release = mDstImgs[i].release
    BY <1>1, <1>3 DEF TypeOK, OrNone
  <2>2. open' \subseteq Fence
    BY <1>1, <1>3 DEF TypeOK
  <2>3. ASSUME UNCHANGED mFreedBuffers, target'.fence = target.fence
        PROVE  FencesKept'
    BY <1>1, <1>3, <2>1, <2>3, NoneFacts DEF FencesKept, Current, TypeOK
  <2>4. ASSUME UNCHANGED mFreedBuffers, target'.fence = target.fence,
               dropped' = dropped, phase' # "composed" => phase # "composed"
        PROVE  NothingLost'
    BY <1>1, <1>3, <2>1, <2>4 DEF NothingLost, HasOwner, Current
  <2> QED
    BY <2>1, <2>2, <2>3, <2>4
<1> QED
  BY <1>2, <1>3

LEMMA ExecuteFailsKept ==
  ASSUME M2mInv, NEW rejected \in BOOLEAN, executeFails(rejected),
         dropped' = dropped
  PROVE  M2mInv'
<1>1. TypeOK /\ FencesKept /\ NothingLost
  BY DEF M2mInv
<1>2. /\ UNCHANGED <<mCurrentDstBuf, mPrivDstBuf, running, mFreedBuffers,
                     contents, job, assigned, target, geometry, mLastDpuData,
                     mLastLayerBuffer, early, driverVars>>
      /\ phase \in {"compose", "execute"} /\ phase' = "failed"
      /\ mPrevFrameInfo' = assigned
  BY DEF executeFails, Executes
<1>3. \/ UNCHANGED mDstImgs /\ UNCHANGED open
      \/ /\ mDstImgs' = [mDstImgs EXCEPT ![mCurrentDstBuf].release = None]
         /\ open' = open \ {Current.release}
  BY DEF executeFails, Closed
<1>4. /\ mDstImgs' \in [Index -> [allocated : BOOLEAN, release : OrNone(Fence)]]
      /\ open' \subseteq Fence /\ FencesKept' /\ NothingLost'
  BY <1>2, <1>3, CurrentClosed
<1>5. TypeOK'
  BY <1>1, <1>2, <1>4 DEF TypeOK, driverVars
<1> QED
  BY <1>4, <1>5 DEF M2mInv

(* closeFences() closes what the current buffer and the target have.       *)
LEMMA CloseFences ==
  ASSUME M2mInv, closeFences, UNCHANGED mFreedBuffers, target'.fence = None,
         ~dropped' => ~dropped
  PROVE  /\ mDstImgs' \in [Index -> [allocated : BOOLEAN, release : OrNone(Fence)]]
         /\ open' \subseteq Fence /\ FencesKept' /\ NothingLost'
<1>1. TypeOK /\ FencesKept /\ NothingLost /\ mCurrentDstBuf \in Index
  BY DEF M2mInv, TypeOK
<1>2. open' = open \ {Current.release, target.fence}
  BY DEF closeFences, Closed
<1>3. /\ mDstImgs' \in [Index -> [allocated : BOOLEAN, release : OrNone(Fence)]]
      /\ mDstImgs'[mCurrentDstBuf].release = None
      /\ \A i \in Index \ {mCurrentDstBuf} :
            mDstImgs'[i].release = mDstImgs[i].release
  BY <1>1 DEF closeFences, TypeOK, OrNone
<1>4. open' \subseteq Fence
  BY <1>1, <1>2 DEF TypeOK
<1>5. FencesKept'
  BY <1>1, <1>2, <1>3, NoneFacts DEF FencesKept, Current, TypeOK
<1>6. NothingLost'
  BY <1>1, <1>2, <1>3 DEF NothingLost, HasOwner, Current
<1> QED
  BY <1>3, <1>4, <1>5, <1>6

LEMMA ProcessingFailedKept ==
  ASSUME M2mInv, PostProcessingFailed, dropped' = dropped PROVE M2mInv'
<1>1. TypeOK
  BY DEF M2mInv
<1>2. /\ closeFences
      /\ UNCHANGED <<mCurrentDstBuf, mPrivDstBuf, mPrevFrameInfo, running,
                     mFreedBuffers, contents, job, mLastDpuData,
                     mLastLayerBuffer, early, driverVars>>
      /\ assigned' \in {assigned, None} /\ geometry' \in {geometry, TRUE}
      /\ target' \in {NoTarget, [target EXCEPT !.fence = None]}
      /\ phase' \in {"client", "composed"}
  BY DEF PostProcessingFailed
<1>3. target' \in Target /\ target'.fence = None
  BY <1>1, <1>2 DEF TypeOK, Target, NoTarget, OrNone
<1>4. geometry' \in BOOLEAN /\ assigned' \in OrNone(Frame)
  BY <1>1, <1>2 DEF TypeOK, OrNone
<1>5. /\ mDstImgs' \in [Index -> [allocated : BOOLEAN, release : OrNone(Fence)]]
      /\ open' \subseteq Fence /\ FencesKept' /\ NothingLost'
  BY <1>2, <1>3, CloseFences
<1>6. TypeOK'
  BY <1>1, <1>2, <1>3, <1>4, <1>5 DEF TypeOK, driverVars
<1> QED
  BY <1>5, <1>6 DEF M2mInv

LEMMA PresentFailsKept ==
  ASSUME M2mInv, PresentFails, dropped' = dropped PROVE M2mInv'
<1>1. TypeOK
  BY DEF M2mInv
<1>2. /\ closeFences
      /\ UNCHANGED <<mCurrentDstBuf, mPrivDstBuf, mPrevFrameInfo, running,
                     mFreedBuffers, contents, assigned, mLastLayerBuffer,
                     early, driverVars>>
      /\ target' = [target EXCEPT !.fence = None]
      /\ mLastDpuData' = None /\ geometry' = TRUE /\ phase' = "idle"
      /\ job' = NoJob
  BY DEF PresentFails
<1>3. /\ target' \in Target /\ target'.fence = None
      /\ job' \in [buf : OrNone(Index), after : OrNone(Fence)]
  BY <1>1, <1>2 DEF TypeOK, Target, NoJob, OrNone
<1>4. /\ mDstImgs' \in [Index -> [allocated : BOOLEAN, release : OrNone(Fence)]]
      /\ open' \subseteq Fence /\ FencesKept' /\ NothingLost'
  BY <1>2, <1>3, CloseFences
<1>5. TypeOK'
  BY <1>1, <1>2, <1>3, <1>4 DEF TypeOK, driverVars, OrNone
<1> QED
  BY <1>4, <1>5 DEF M2mInv

(* setDstReleaseFence(): the fence f of the new frame takes the place of   *)
(* the one that the replaced buffer had, and the fences of the target, and *)
(* of the current buffer when it lost its own, are closed.                 *)
LEMMA ReleaseSet ==
  ASSUME M2mInv, NEW f \in OrNone(Fence), f \notin open, NEW images, NEW fences,
         \/ images = mDstImgs /\ fences = {target.fence}
         \/ /\ images = [mDstImgs EXCEPT ![mCurrentDstBuf].release = None]
            /\ fences = {Current.release, target.fence},
         setDstReleaseFence(f, images, fences),
         target'.fence = None, UNCHANGED mFreedBuffers, dropped' = dropped
  PROVE  /\ mDstImgs' \in [Index -> [allocated : BOOLEAN, release : OrNone(Fence)]]
         /\ open' \subseteq Fence /\ FencesKept' /\ NothingLost'
<1>1. TypeOK /\ FencesKept /\ NothingLost /\ mCurrentDstBuf \in Index
  BY DEF M2mInv, TypeOK
<1>2. images \in [Index -> [allocated : BOOLEAN, release : OrNone(Fence)]]
  BY <1>1 DEF TypeOK, OrNone
<1>3. /\ \A i \in Index : \/ images[i].release = mDstImgs[i].release
                          \/ /\ images[i].release = None
                             /\ mDstImgs[i].release \in fences
      /\ target.fence \in fences /\ fences \cap mFreedBuffers = {}
      /\ fences \subseteq open \cup {None}
  <2>1. Current.release = None \/ Current.release \in open \ mFreedBuffers
    BY <1>1 DEF FencesKept, Current
  <2>2. target.fence = None \/ target.fence \in open \ mFreedBuffers
    BY <1>1 DEF FencesKept
  <2>3. None \notin mFreedBuffers
    BY <1>1, NoneFacts DEF TypeOK
  <2>4. CASE images = mDstImgs /\ fences = {target.fence}
    BY <2>2, <2>3, <2>4
  <2>5. CASE /\ images = [mDstImgs EXCEPT ![mCurrentDstBuf].release = None]
             /\ fences = {Current.release, target.fence}
    <3>1. \A i \in Index : \/ images[i].release = mDstImgs[i].release
                          \/ /\ images[i].release = None
                             /\ mDstImgs[i].release = Current.release
      BY <1>1, <2>5 DEF TypeOK, Current
    <3> QED
      BY <2>1, <2>2, <2>3, <2>5, <3>1
  <2> QED
    BY <2>4, <2>5
<1>4. \A i \in Index : images[i].release # None =>
        /\ images[i].release \in open \ (mFreedBuffers \cup fences)
        /\ \A j \in Index \ {i} : images[j].release # images[i].release
  BY <1>1, <1>2 DEF FencesKept, Current, TypeOK
<1>5. CASE releasedBuffer = None
  <2>1. mDstImgs' = images /\ open' = open \ fences
    BY <1>5 DEF setDstReleaseFence, Closed
  <2>2. FencesKept'
    BY <1>1, <1>3, <1>4, <2>1 DEF FencesKept
  <2>3. NothingLost'
    BY <1>1, <1>3, <1>4, <2>1 DEF NothingLost, HasOwner
  <2> QED
    BY <1>1, <1>2, <2>1, <2>2, <2>3 DEF TypeOK
<1>6. CASE releasedBuffer # None
  <2>1. PICK p \in Index : p = releasedBuffer
    BY <1>1, <1>6 DEF releasedBuffer, TypeOK, OrNone
  <2>2. /\ mDstImgs' = [images EXCEPT ![p].release = f]
        /\ open' = ((open \cup {f}) \ {None}) \ (fences \cup {images[p].release})
    BY <1>6, <2>1 DEF setDstReleaseFence
  <2>3. /\ mDstImgs' \in [Index -> [allocated : BOOLEAN, release : OrNone(Fence)]]
        /\ mDstImgs'[p].release = f
        /\ \A i \in Index \ {p} : mDstImgs'[i].release = images[i].release
    BY <1>2, <2>2
  <2>4. open' \subseteq Fence
    BY <1>1, <2>2 DEF TypeOK, OrNone
  <2>5. f # None => f \in open' /\ f \notin mFreedBuffers
    BY <1>1, <1>3, <1>4, <2>2 DEF FencesKept
  <2>6. \A i \in Index \ {p} : images[i].release # None =>
          images[i].release \in open' /\ images[i].release # f
    BY <1>4, <2>2
  <2>7. mFreedBuffers \subseteq open'
    BY <1>1, <1>3, <1>4, <2>2, NoneFacts DEF FencesKept, TypeOK
  <2>8. FencesKept'
    BY <1>4, <2>3, <2>5, <2>6, <2>7 DEF FencesKept
  <2>9. NothingLost'
    BY <1>1, <1>3, <2>1, <2>2, <2>3 DEF NothingLost, HasOwner
  <2> QED
    BY <2>3, <2>4, <2>8, <2>9
<1> QED
  BY <1>5, <1>6

LEMMA FrameDoneTyped ==
  ASSUME TypeOK, FrameDone
  PROVE  /\ mCurrentDstBuf' \in Index /\ mPrivDstBuf' \in OrNone(Index)
         /\ target' \in Target /\ target'.fence = None
         /\ mLastLayerBuffer' \in OrNone(Frame) /\ phase' = "idle"
         /\ job' \in [buf : OrNone(Index), after : OrNone(Fence)]
         /\ UNCHANGED <<mPrevFrameInfo, running, mFreedBuffers, contents,
                        assigned, geometry, early, screen>>
<1>1. mCurrentDstBuf' \in Index
  BY IndexFacts DEF TypeOK, FrameDone, increaseDstBuffIndex
<1>2. target' \in Target /\ target'.fence = None
  BY DEF TypeOK, FrameDone, Target, OrNone
<1>3. job' \in [buf : OrNone(Index), after : OrNone(Fence)]
  BY DEF FrameDone, NoJob, OrNone
<1> QED
  BY <1>1, <1>2, <1>3 DEF TypeOK, FrameDone, OrNone

LEMMA DeliverKept ==
  ASSUME M2mInv,
         (\E f \in Fence : Deliver(f)) \/ SkipWinConfig \/ DeliverFails,
         dropped' = dropped
  PROVE  M2mInv'
<1>1. TypeOK /\ FrameDone
  BY DEF M2mInv, Deliver, SkipWinConfig, DeliverFails
<1>2. /\ mCurrentDstBuf' \in Index /\ mPrivDstBuf' \in OrNone(Index)
      /\ target' \in Target /\ target'.fence = None
      /\ mLastLayerBuffer' \in OrNone(Frame) /\ phase' = "idle"
      /\ job' \in [buf : OrNone(Index), after : OrNone(Fence)]
      /\ UNCHANGED <<mPrevFrameInfo, running, mFreedBuffers, contents,
                     assigned, geometry, early, screen>>
  BY <1>1, FrameDoneTyped
<1>3. target.buf \in OrNone(Index) /\ None \notin open
  BY <1>1, NoneFacts DEF TypeOK, Target
<1>4. /\ mLastDpuData' \in OrNone(Index)
      /\ queue' \in Seq(Shown) /\ Len(queue') <= MaxQueued
      /\ mDstImgs' \in [Index -> [allocated : BOOLEAN, release : OrNone(Fence)]]
      /\ open' \subseteq Fence /\ FencesKept' /\ NothingLost'
  <2>1. CASE \E f \in Fence : Deliver(f)
    <3>1. PICK f \in Fence : Deliver(f)
      BY <2>1
    <3>2. /\ Queued(target.buf, f) /\ f \notin open /\ f \in OrNone(Fence)
          /\ setDstReleaseFence(f, mDstImgs, {target.fence})
      BY <3>1 DEF Deliver, NewFence, OrNone
    <3>3. /\ mLastDpuData' \in OrNone(Index)
          /\ queue' \in Seq(Shown) /\ Len(queue') <= MaxQueued
      BY <1>1, <1>3, <3>2, QueuedTyped
    <3> QED
      BY <1>2, <3>2, <3>3, ReleaseSet
  <2>2. CASE SkipWinConfig
    <3>1. /\ UNCHANGED <<mLastDpuData, queue>> /\ None \in OrNone(Fence)
          /\ setDstReleaseFence(None, mDstImgs, {target.fence})
      BY <2>2 DEF SkipWinConfig, OrNone
    <3>2. /\ mLastDpuData' \in OrNone(Index)
          /\ queue' \in Seq(Shown) /\ Len(queue') <= MaxQueued
      BY <1>1, <3>1 DEF TypeOK
    <3> QED
      BY <1>2, <1>3, <3>1, <3>2, ReleaseSet
  <2>3. CASE DeliverFails
    <3>1. /\ Queued(None, None) /\ None \in OrNone(Fence) /\ None \in OrNone(Index)
          /\ setDstReleaseFence(None,
               [mDstImgs EXCEPT ![mCurrentDstBuf].release = None],
               {Current.release, target.fence})
      BY <2>3 DEF DeliverFails, OrNone
    <3>2. /\ mLastDpuData' \in OrNone(Index)
          /\ queue' \in Seq(Shown) /\ Len(queue') <= MaxQueued
      BY <1>1, <3>1, QueuedTyped
    <3> QED
      BY <1>2, <1>3, <3>1, <3>2, ReleaseSet
  <2> QED
    BY <2>1, <2>2, <2>3
<1>5. TypeOK'
  BY <1>1, <1>2, <1>4 DEF TypeOK
<1> QED
  BY <1>4, <1>5 DEF M2mInv

LEMMA SkipFrameKept ==
  ASSUME M2mInv, closeFencesForSkipFrame, dropped' = TRUE PROVE M2mInv'
<1>1. TypeOK /\ FencesKept
  BY DEF M2mInv
<1>2. /\ UNCHANGED <<mDstImgs, mCurrentDstBuf, mPrivDstBuf, mPrevFrameInfo,
                     running, mFreedBuffers, contents, assigned, geometry,
                     mLastDpuData, mLastLayerBuffer, early, driverVars>>
      /\ target' = [target EXCEPT !.fence = None] /\ phase' = "idle"
      /\ job' = NoJob /\ open' = open \ {target.fence}
  BY DEF closeFencesForSkipFrame, Closed
<1>3. /\ target' \in Target /\ target'.fence = None
      /\ job' \in [buf : OrNone(Index), after : OrNone(Fence)]
  BY <1>1, <1>2 DEF TypeOK, Target, NoJob, OrNone
<1>4. open' \subseteq Fence
  BY <1>1, <1>2 DEF TypeOK
<1>5. TypeOK'
  BY <1>1, <1>2, <1>3, <1>4 DEF TypeOK, driverVars
<1>6. FencesKept'
  BY <1>1, <1>2, <1>3, NoneFacts DEF FencesKept, TypeOK
<1> QED
  BY <1>5, <1>6 DEF M2mInv, NothingLost

LEMMA WithoutMppKept ==
  ASSUME M2mInv, PresentWithoutMpp, dropped' = dropped PROVE M2mInv'
<1>1. TypeOK
  BY DEF M2mInv
<1>2. /\ UNCHANGED <<mCurrentDstBuf, mPrivDstBuf, mFreedBuffers, job, assigned,
                     target, geometry, early, open>>
      /\ phase = "client" /\ phase' = "idle" /\ requestIdle
      /\ mLastDpuData' = None /\ mLastLayerBuffer' = None
      /\ Len(queue) < MaxQueued
  BY DEF PresentWithoutMpp
<1>3. /\ mDstImgs' \in [Index -> [allocated : BOOLEAN, release : OrNone(Fence)]]
      /\ \A i \in Index : mDstImgs'[i].release = mDstImgs[i].release
      /\ contents' \in [Index -> OrNone(Frame)]
      /\ mPrevFrameInfo' \in OrNone(Frame) /\ running' \in BOOLEAN
  <2>1. running' \in BOOLEAN
    BY <1>2 DEF requestIdle
  <2>2. CASE UNCHANGED <<mDstImgs, contents>>
    BY <1>1, <1>2, <2>1, <2>2 DEF requestIdle, TypeOK, OrNone
  <2>3. CASE /\ mDstImgs' = [i \in Index |->
                               [mDstImgs[i] EXCEPT !.allocated = FALSE]]
             /\ contents' = [i \in Index |-> None]
    <3>1. mPrevFrameInfo' \in OrNone(Frame)
      BY <1>1, <1>2 DEF requestIdle, TypeOK, OrNone
    <3>2. \A i \in Index : mDstImgs[i] \in [allocated : BOOLEAN,
                                            release : OrNone(Fence)]
      BY <1>1 DEF TypeOK
    <3>3. \A i \in Index :
            /\ mDstImgs'[i] \in [allocated : BOOLEAN, release : OrNone(Fence)]
            /\ mDstImgs'[i].release = mDstImgs[i].release
      BY <2>3, <3>2
    <3> QED
      BY <2>1, <2>3, <3>1, <3>3 DEF OrNone
  <2> QED
    BY <1>2, <2>2, <2>3 DEF requestIdle
<1>4. /\ screen' \in OrNone(Index)
      /\ queue' \in Seq(Shown) /\ Len(queue') <= MaxQueued
  <2> DEFINE freed == running /\ ~Preallocated
             Left(b) == IF freed THEN None ELSE b
             left == [k \in DOMAIN queue |-> [queue[k] EXCEPT !.buf = Left(@)]]
             last == [buf |-> None, fence |-> None]
  <2>1. screen' = Left(screen) /\ queue' = Append(left, last)
    BY DEF PresentWithoutMpp
  <2>2. \A b \in OrNone(Index) : Left(b) \in OrNone(Index)
    BY DEF OrNone
  <2>3. \A k \in DOMAIN queue : queue[k] \in Shown
    BY <1>1 DEF TypeOK
  <2>4. \A k \in DOMAIN queue : left[k] \in Shown
    BY <2>2, <2>3 DEF Shown
  <2>5. left \in Seq(Shown) /\ Len(left) = Len(queue)
    BY <1>1, <2>4 DEF TypeOK
  <2>6. last \in Shown
    BY DEF Shown, OrNone
  <2> HIDE DEF Left, left, last
  <2>7. queue' \in Seq(Shown) /\ Len(queue') = Len(queue) + 1
    BY <2>1, <2>5, <2>6
  <2> QED
    BY <1>1, <1>2, <2>1, <2>2, <2>7, ParametersOK DEF TypeOK
<1>5. TypeOK'
  BY <1>1, <1>2, <1>3, <1>4 DEF TypeOK, OrNone
<1>6. FencesKept' /\ NothingLost'
  BY <1>2, <1>3, FencesUntouched
<1> QED
  BY <1>5, <1>6 DEF M2mInv

(* The thread that frees buffers closes their fences.                      *)
LEMMA FreeKept ==
  ASSUME M2mInv, freeBuffers, dropped' = dropped PROVE M2mInv'
<1>1. TypeOK /\ FencesKept /\ NothingLost
  BY DEF M2mInv
<1>2. /\ UNCHANGED <<mDstImgs, mCurrentDstBuf, mPrivDstBuf, mPrevFrameInfo,
                     running, contents, job, frameVars, driverVars>>
      /\ open' = open \ mFreedBuffers /\ mFreedBuffers' = {}
  BY DEF freeBuffers, Closed
<1>3. TypeOK'
  BY <1>1, <1>2 DEF TypeOK, frameVars, driverVars
<1>4. FencesKept' /\ NothingLost'
  BY <1>1, <1>2 DEF FencesKept, NothingLost, HasOwner, frameVars
<1> QED
  BY <1>3, <1>4 DEF M2mInv

LEMMA ShowKept ==
  ASSUME M2mInv, ShowNext, dropped' = dropped PROVE M2mInv'
<1>1. TypeOK
  BY DEF M2mInv
<1>2. UNCHANGED <<mppVars, frameVars, open>>
  BY DEF ShowNext
<1>3. /\ screen' \in OrNone(Index)
      /\ queue' \in Seq(Shown) /\ Len(queue') <= MaxQueued
  <2>1. Head(queue) \in Shown /\ Tail(queue) \in Seq(Shown)
        /\ Len(Tail(queue)) = Len(queue) - 1
    BY <1>1 DEF ShowNext, TypeOK
  <2> QED
    BY <1>1, <2>1, ParametersOK DEF ShowNext, Shown, TypeOK
<1>4. TypeOK'
  BY <1>1, <1>2, <1>3 DEF TypeOK, mppVars, frameVars
<1>5. FencesKept' /\ NothingLost'
  BY <1>2, FencesUntouched DEF mppVars, frameVars
<1> QED
  BY <1>4, <1>5 DEF M2mInv

LEMMA StartKept ==
  ASSUME M2mInv, StartsFrame, dropped' \in BOOLEAN,
         ~dropped' => ~dropped /\ phase = "idle"
  PROVE  M2mInv'
BY StartTyped, StartFences DEF M2mInv

LEMMA ComposingKept ==
  ASSUME M2mInv, Compose, dropped' = dropped PROVE M2mInv'
<1>1. dropped' \in BOOLEAN
  BY DEF M2mInv, TypeOK
<1>2. CASE \/ \E s \in Frame : \/ PresentWithoutValidate(s)
                               \/ \E assigning \in BOOLEAN : Validate(s, assigning)
           \/ ValidateWithoutMpp
  <2>1. phase = "idle" /\ StartsFrame
    BY <1>2 DEF StartsFrame, PresentWithoutValidate, Validate, ValidateWithoutMpp
  <2> QED
    BY <1>1, <2>1, StartKept
<1> QED
  BY <1>2, AllocKept, AllocFailsKept, UsePrevKept, ComposeKept, ExecuteFailsKept,
     ProcessingFailedKept DEF Compose

LEMMA NextKept == ASSUME M2mInv, [Next]_vars PROVE M2mInv'
<1>1. CASE UNCHANGED vars
  <2>1. TypeOK'
    BY <1>1 DEF M2mInv, TypeOK, vars, mppVars, frameVars, driverVars
  <2> QED
    BY <1>1, <2>1, FencesUntouched DEF M2mInv, vars, mppVars, frameVars
<1>2. CASE (Compose \/ Present \/ freeBuffers \/ ShowNext) /\ dropped' = dropped
  BY <1>2, ComposingKept, DeliverKept, PresentFailsKept, WithoutMppKept, FreeKept,
     ShowKept DEF Present
<1>3. CASE Drop /\ dropped' = TRUE
  <2>1. CASE closeFencesForSkipFrame
    BY <1>3, <2>1, SkipFrameKept
  <2>2. CASE \E s \in Frame, assigning \in BOOLEAN : ValidateAgain(s, assigning)
    BY <1>3, <2>2, StartKept DEF StartsFrame
  <2> QED
    BY <1>3, <2>1, <2>2 DEF Drop
<1> QED
  BY <1>1, <1>2, <1>3 DEF Next

(* Fences are in one place each, and none is lost, at every step of a      *)
(* frame.                                                                  *)
THEOREM M2mInvariant == Spec => []M2mInv
BY InitM2m, NextKept, PTL DEF Spec

-----------------------------------------------------------------------------
(* The buffers, the target and the queue of the driver keep their types.   *)
THEOREM M2mTypeCorrect == Spec => []TypeOK
<1>1. M2mInv => TypeOK
  BY DEF M2mInv
<1> QED
  BY <1>1, M2mInvariant, PTL

(* No fence is closed twice, whatever is dropped, repeated or fails.       *)
THEOREM FencesOwnedOnce == Spec => []FenceOwnedOnce
<1>1. ASSUME M2mInv, NEW f \in Fence
      PROVE  Cardinality(Owners(f)) <= IF f \in open THEN 1 ELSE 0
  <2>1. TypeOK /\ FencesKept /\ f # None
    BY <1>1, NoneFacts DEF M2mInv
  <2>2. \A x, y \in Owners(f) : x = y
    BY <2>1 DEF Owners, FencesKept
  <2>3. Owners(f) # {} => f \in open
    BY <2>1 DEF Owners, FencesKept
  <2>4. CASE Owners(f) = {}
    BY <2>4, FS_EmptySet
  <2>5. CASE Owners(f) # {}
    <3>1. PICK x : Owners(f) = {x}
      BY <2>2, <2>5
    <3>2. Cardinality(Owners(f)) = 1
      BY <3>1, FS_Singleton
    <3> QED
      BY <2>3, <2>5, <3>2
  <2> QED
    BY <2>4, <2>5
<1>2. M2mInv => FenceOwnedOnce
  BY <1>1 DEF FenceOwnedOnce
<1> QED
  BY <1>2, M2mInvariant, PTL

(* While no composed frame is dropped, every open fence will be closed.    *)
THEOREM NoFencesLeaked == Spec => []NoFenceLeaked
<1>1. ASSUME M2mInv, ~dropped, NEW f \in open PROVE Owners(f) # {}
  <2>1. HasOwner(f)
    BY <1>1 DEF M2mInv, NothingLost
  <2> QED
    BY <2>1 DEF HasOwner, Owners
<1>2. M2mInv => NoFenceLeaked
  BY <1>1 DEF NoFenceLeaked
<1> QED
  BY <1>2, M2mInvariant, PTL

-----------------------------------------------------------------------------
(* The order in which the buffers go round, when every composed frame is   *)
(* presented and nothing fails.                                            *)

AllPresented == ~MayDrop /\ ~MayFail

(* The buffer of the last frame is the one before the current one; a frame *)
(* that reuses it has stepped back.                                        *)
Turn ==
  /\ phase # "failed"
  /\ mPrivDstBuf # None =>
       \/ mCurrentDstBuf = Next1(mPrivDstBuf)
       \/ phase = "composed" /\ mCurrentDstBuf = mPrivDstBuf
  /\ phase \in {"compose", "execute", "composed"} => assigned # None
  /\ phase = "composed" => target.buf = mCurrentDstBuf
  /\ mLastDpuData \in {None, mPrivDstBuf}
  /\ job # NoJob => phase = "composed" /\ job.buf = mCurrentDstBuf

(* Every buffer but that of the last frame has the fence of a frame that   *)
(* its readers precede, or the hardware took it.                           *)
Protected ==
  /\ \A i \in Index :
       i = mPrivDstBuf \/ (phase = "composed" /\ i = mCurrentDstBuf)
         \/ Covers(mDstImgs[i].release, i)
  /\ WriteWaitsForReaders

(* What can be reused was composed from what is remembered.                *)
Remembered ==
  /\ phase \in {"idle", "compose", "execute", "client"} /\ mPrevFrameInfo # None =>
         mPrivDstBuf # None /\ contents[mPrivDstBuf] = mPrevFrameInfo
  /\ phase = "composed" =>
       /\ mPrevFrameInfo = assigned /\ contents[mCurrentDstBuf] = assigned
       /\ target.shows = assigned

RingInv == Turn /\ Protected /\ Remembered

LEMMA RingOrder ==
  \A i \in Index : Next1(i) # i /\ Previous(Next1(i)) = i
<1> SUFFICES ASSUME NEW i \in Index PROVE Next1(i) # i /\ Previous(Next1(i)) = i
  OBVIOUS
<1>1. NumBuffers \in Nat \ {0, 1} /\ i \in 0 .. NumBuffers - 1
  BY ParametersOK DEF Index
<1>2. CASE i + 1 < NumBuffers
  <2>1. Next1(i) = i + 1
    BY <1>1, <1>2 DEF Next1
  <2>2. Previous(i + 1) = i
    BY <1>1, <1>2 DEF Previous
  <2> QED
    BY <1>1, <2>1, <2>2
<1>3. CASE i + 1 = NumBuffers
  <2>1. Next1(i) = 0
    BY <1>1, <1>3 DEF Next1
  <2>2. Previous(0) = NumBuffers - 1
    BY <1>1 DEF Previous
  <2> QED
    BY <1>1, <1>3, <2>1, <2>2
<1> QED
  BY <1>1, <1>2, <1>3

(* Frames are added behind, and readers only leave.                        *)
LEMMA CoversKept ==
  ASSUME TypeOK, NEW f, NEW i \in Index, Covers(f, i),
         queue' \in Seq(Shown), Len(queue) <= Len(queue'),
         \A k \in DOMAIN queue : queue'[k].fence = queue[k].fence,
         Readers(i)' \subseteq Readers(i)
  PROVE  Covers(f, i)'
<1>1. DOMAIN queue \subseteq DOMAIN queue'
  BY DEF TypeOK
<1> QED
  BY <1>1 DEF Covers

(* Nothing the driver was given changes.                                   *)
LEMMA CoversSame ==
  ASSUME UNCHANGED driverVars, NEW f, NEW i, Covers(f, i) PROVE Covers(f, i)'
BY DEF Covers, Readers, driverVars

LEMMA CoversShown ==
  ASSUME TypeOK, ShowNext, NEW f, NEW i \in Index, Covers(f, i)
  PROVE  Covers(f, i)'
<1>1. /\ Len(queue) \in Nat /\ Len(queue) > 0 /\ Len(queue') = Len(queue) - 1
      /\ screen' = queue[1].buf
      /\ \A k \in 1 .. Len(queue) - 1 : queue'[k] = queue[k + 1]
      /\ DOMAIN queue = 1 .. Len(queue)
      /\ DOMAIN queue' = 1 .. Len(queue) - 1
  BY DEF ShowNext, TypeOK
<1>2. \A r \in Readers(i)' : r \in Nat /\ r + 1 \in Readers(i)
  BY <1>1 DEF Readers
<1>3. CASE Readers(i) = {}
  BY <1>2, <1>3 DEF Covers
<1>4. CASE Readers(i) # {}
  <2>1. PICK k \in 1 .. Len(queue) :
          queue[k].fence = f /\ f # None /\ \A r \in Readers(i) : r < k
    BY <1>1, <1>4 DEF Covers
  <2>2. CASE k = 1
    <3>1. Readers(i)' = {}
      BY <1>2, <2>1, <2>2
    <3> QED
      BY <3>1 DEF Covers
  <2>3. CASE k > 1
    <3>1. k - 1 \in DOMAIN queue' /\ queue'[k - 1].fence = f
      BY <1>1, <2>1, <2>3
    <3>2. \A r \in Readers(i)' : r < k - 1
      BY <1>2, <2>1
    <3> QED
      BY <2>1, <3>1, <3>2 DEF Covers
  <2> QED
    BY <1>1, <2>2, <2>3
<1> QED
  BY <1>3, <1>4

(* The frame delivered is the fence of what it replaces.                   *)
LEMMA CoversDelivered ==
  ASSUME TypeOK, NEW b \in OrNone(Index), NEW f \in Fence, Queued(b, f),
         UNCHANGED screen, NEW i \in Index, i # b
  PROVE  Covers(f, i)'
<1>1. /\ Len(queue) \in Nat /\ Len(queue') = Len(queue) + 1
      /\ queue'[Len(queue) + 1] = [buf |-> b, fence |-> f]
      /\ \A k \in 1 .. Len(queue) : queue'[k] = queue[k]
      /\ DOMAIN queue' = 1 .. Len(queue) + 1
  BY DEF Queued, TypeOK
<1>2. \A r \in Readers(i)' : r < Len(queue) + 1
  BY <1>1 DEF Readers
<1> QED
  BY <1>1, <1>2, NoneFacts DEF Covers

LEMMA ReadersDelivered ==
  ASSUME TypeOK, NEW b \in OrNone(Index), NEW f \in OrNone(Fence), Queued(b, f),
         UNCHANGED screen, NEW i \in Index, i # b
  PROVE  /\ Len(queue) <= Len(queue')
         /\ \A k \in DOMAIN queue : queue'[k].fence = queue[k].fence
         /\ Readers(i)' \subseteq Readers(i)
<1>1. /\ Len(queue) \in Nat /\ Len(queue') = Len(queue) + 1
      /\ queue'[Len(queue) + 1] = [buf |-> b, fence |-> f]
      /\ \A k \in 1 .. Len(queue) : queue'[k] = queue[k]
      /\ DOMAIN queue = 1 .. Len(queue) /\ DOMAIN queue' = 1 .. Len(queue) + 1
  BY DEF Queued, TypeOK
<1> QED
  BY <1>1 DEF Readers

-----------------------------------------------------------------------------
LEMMA InitRing == Init => RingInv
<1> SUFFICES ASSUME Init PROVE RingInv
  OBVIOUS
<1>1. \A i \in Index : Readers(i) = {}
  BY NoneFacts DEF Init, Readers
<1> QED
  BY <1>1 DEF Init, RingInv, Turn, Protected, Remembered, WriteWaitsForReaders,
     Covers

(* A frame begins: nothing of the buffers changes, and no job is left.     *)
LEMMA StartRing ==
  ASSUME M2mInv, RingInv, AllPresented, StartsFrame PROVE RingInv'
<1>1. /\ UNCHANGED <<mDstImgs, mCurrentDstBuf, mPrivDstBuf, mPrevFrameInfo,
                     contents, mLastDpuData, driverVars>>
      /\ phase = "idle" /\ phase' \in {"compose", "client"} /\ job' = NoJob
      /\ phase' = "compose" => assigned' \in Frame
  BY DEF AllPresented, StartsFrame, PresentWithoutValidate, Validate,
         ValidateAgain, StartPostProcessing, ValidateWithoutMpp
<1>2. Turn' /\ Remembered'
  BY <1>1, NoneFacts DEF RingInv, Turn, Remembered
<1>3. Protected'
  BY <1>1, CoversSame DEF RingInv, Protected, WriteWaitsForReaders
<1> QED
  BY <1>2, <1>3 DEF RingInv

LEMMA AllocRing ==
  ASSUME M2mInv, RingInv, AllPresented, allocOutBuf PROVE RingInv'
<1>1. /\ UNCHANGED <<mCurrentDstBuf, mPrivDstBuf, mPrevFrameInfo, job, assigned>>
      /\ phase = "compose" /\ phase' = "execute" /\ Detached(mCurrentDstBuf)
      /\ mCurrentDstBuf \in Index /\ TypeOK /\ Turn /\ Protected /\ Remembered
  BY DEF M2mInv, TypeOK, RingInv, allocOutBuf
<1>2. /\ queue' \in Seq(Shown) /\ Len(queue') = Len(queue)
      /\ \A k \in DOMAIN queue : queue'[k].fence = queue[k].fence
      /\ \A i \in Index : Readers(i)' \subseteq Readers(i)
      /\ Readers(mCurrentDstBuf)' = {}
  <2>1. queue' \in Seq(Shown)
    BY <1>1, DetachedTyped
  <2>2. \A k \in DOMAIN queue : queue[k] \in Shown
    BY <1>1 DEF TypeOK
  <2>3. /\ DOMAIN queue' = DOMAIN queue /\ DOMAIN queue = 1 .. Len(queue)
        /\ Len(queue) \in Nat /\ Len(queue') = Len(queue)
    BY <1>1, <2>1 DEF Detached, TypeOK
  <2>4. \A k \in DOMAIN queue :
          /\ queue'[k].fence = queue[k].fence
          /\ queue'[k].buf = IF queue[k].buf = mCurrentDstBuf THEN None
                             ELSE queue[k].buf
    BY <1>1, <2>2 DEF Detached, Shown
  <2>5. screen' = IF screen = mCurrentDstBuf THEN None ELSE screen
    BY <1>1 DEF Detached
  <2>6. \A i \in Index : Readers(i)' \subseteq Readers(i)
    BY <2>3, <2>4, <2>5, NoneFacts DEF Readers
  <2>7. Readers(mCurrentDstBuf)' = {}
    BY <1>1, <2>3, <2>4, <2>5, NoneFacts DEF Readers
  <2> QED
    BY <2>1, <2>3, <2>4, <2>6, <2>7
<1>3. \A i \in Index \ {mCurrentDstBuf} : mDstImgs'[i] = mDstImgs[i]
  BY <1>1 DEF allocOutBuf, TypeOK
<1>4. /\ mPrivDstBuf # None =>
           mPrivDstBuf \in Index /\ mPrivDstBuf # mCurrentDstBuf
  BY <1>1, RingOrder DEF Turn, TypeOK, OrNone
<1>5. Turn'
  BY <1>1, <1>4 DEF Turn, Detached
<1>6. Remembered'
  BY <1>1, <1>4 DEF Remembered, allocOutBuf, TypeOK
<1>7. ASSUME NEW i \in Index, i # mPrivDstBuf
      PROVE  Covers(mDstImgs[i].release, i)'
  <2>1. CASE i = mCurrentDstBuf
    BY <1>1, <1>2, <2>1 DEF Covers
  <2>2. CASE i # mCurrentDstBuf
    <3>1. Covers(mDstImgs[i].release, i)
      BY <1>1, <1>7, <2>2 DEF Protected
    <3> DEFINE f == mDstImgs[i].release
    <3>2. Covers(f, i)
      BY <3>1
    <3>3. mDstImgs'[i].release = f
      BY <1>3, <2>2
    <3> HIDE DEF f
    <3> QED
      BY <1>1, <1>2, <3>2, <3>3 DEF Covers, TypeOK
  <2> QED
    BY <2>1, <2>2
<1>8. job' = NoJob
  BY <1>1 DEF Turn
<1> QED
  BY <1>1, <1>5, <1>6, <1>7, <1>8 DEF RingInv, Protected, WriteWaitsForReaders,
     NoJob

(* The previous buffer is that of the last frame, and nobody else's.       *)
LEMMA UsePrevRing ==
  ASSUME M2mInv, RingInv, AllPresented, usePrevFrame PROVE RingInv'
<1>1. /\ UNCHANGED <<mDstImgs, mPrivDstBuf, mPrevFrameInfo, contents, job,
                     assigned, mLastDpuData, driverVars>>
      /\ phase = "compose" /\ phase' = "composed"
      /\ mPrevFrameInfo = assigned
      /\ mCurrentDstBuf' = Previous(mCurrentDstBuf)
      /\ target' = [buf |-> mCurrentDstBuf', fence |-> None,
                    shows |-> contents[mCurrentDstBuf']]
      /\ TypeOK /\ Turn /\ Protected /\ Remembered
  BY DEF M2mInv, RingInv, usePrevFrame, canUsePrevFrame, SetTarget
<1>2. mPrivDstBuf \in Index /\ contents[mPrivDstBuf] = assigned
  BY <1>1 DEF Turn, Remembered, TypeOK, OrNone
<1>3. mCurrentDstBuf' = mPrivDstBuf
  BY <1>1, <1>2, RingOrder, NoneFacts DEF Turn
<1>4. Turn' /\ Remembered'
  BY <1>1, <1>2, <1>3 DEF Turn, Remembered
<1>5. job' = NoJob
  BY <1>1 DEF Turn
<1>6. ASSUME NEW i \in Index, i # mPrivDstBuf
      PROVE  Covers(mDstImgs[i].release, i)'
  BY <1>1, <1>6, CoversSame DEF Protected
<1> QED
  BY <1>1, <1>4, <1>5, <1>6 DEF RingInv, Protected, WriteWaitsForReaders, NoJob

(* The hardware waits for the fence that the current buffer had.           *)
LEMMA ComposeRing ==
  ASSUME M2mInv, RingInv, AllPresented, NEW f \in Fence,
         doPostProcessingInternal(f)
  PROVE  RingInv'
<1>1. /\ UNCHANGED <<mCurrentDstBuf, mPrivDstBuf, assigned, mLastDpuData,
                     driverVars>>
      /\ phase \in {"compose", "execute"} /\ phase' = "composed"
      /\ mPrevFrameInfo' = assigned
      /\ target' = [buf |-> mCurrentDstBuf, fence |-> f, shows |-> assigned]
      /\ job' = [buf |-> mCurrentDstBuf, after |-> Current.release]
      /\ mCurrentDstBuf \in Index
      /\ TypeOK /\ Turn /\ Protected /\ Remembered
  BY DEF M2mInv, TypeOK, RingInv, doPostProcessingInternal, Executes, SetTarget
<1>2. contents'[mCurrentDstBuf] = assigned
  BY <1>1 DEF doPostProcessingInternal, TypeOK
<1>3. \A i \in Index \ {mCurrentDstBuf} : mDstImgs'[i] = mDstImgs[i]
  BY <1>1 DEF doPostProcessingInternal, TypeOK
<1>4. mPrivDstBuf # mCurrentDstBuf
  BY <1>1, RingOrder, NoneFacts DEF Turn, TypeOK, OrNone
<1>5. Covers(Current.release, mCurrentDstBuf)
  BY <1>1, <1>4 DEF Protected, Current
<1>6. WriteWaitsForReaders'
  <2> DEFINE g == Current.release
             i == mCurrentDstBuf
  <2>1. Covers(g, i)
    BY <1>5
  <2>2. job'.after = g /\ job'.buf = i
    BY <1>1
  <2> HIDE DEF g, i
  <2> QED
    BY <1>1, <2>1, <2>2 DEF WriteWaitsForReaders, Covers, Readers, driverVars
<1>7. ASSUME NEW j \in Index, j # mPrivDstBuf, j # mCurrentDstBuf
      PROVE  Covers(mDstImgs[j].release, j)'
  <2>1. Covers(mDstImgs[j].release, j)
    BY <1>1, <1>7 DEF Protected
  <2> QED
    BY <1>1, <1>3, <1>7, <2>1 DEF Covers, Readers, driverVars
<1>8. Turn'
  BY <1>1 DEF Turn
<1>9. Remembered'
  BY <1>1, <1>2 DEF Remembered
<1> QED
  BY <1>1, <1>6, <1>7, <1>8, <1>9 DEF RingInv, Protected

(* The frame counts as presented: its buffer is the last one now.          *)
LEMMA FrameDoneRing ==
  ASSUME M2mInv, RingInv, FrameDone, mLastDpuData' \in {None, mCurrentDstBuf},
         \A i \in Index \ {mCurrentDstBuf} : Covers(mDstImgs[i].release, i)'
  PROVE  RingInv'
<1>1. /\ TypeOK /\ mCurrentDstBuf \in Index /\ Turn /\ Remembered
      /\ phase = "composed" /\ phase' = "idle" /\ job' = NoJob
      /\ mPrivDstBuf' = mCurrentDstBuf
      /\ mCurrentDstBuf' = Next1(mCurrentDstBuf)
      /\ UNCHANGED <<mPrevFrameInfo, contents, assigned>>
  BY DEF M2mInv, RingInv, TypeOK, FrameDone, increaseDstBuffIndex
<1>2. Turn'
  BY <1>1 DEF Turn
<1>3. Remembered'
  BY <1>1, NoneFacts DEF Remembered
<1>4. Protected'
  BY <1>1 DEF Protected, WriteWaitsForReaders, NoJob
<1> QED
  BY <1>2, <1>3, <1>4 DEF RingInv

(* The buffer that is replaced gets the fence of the frame that replaces   *)
(* it, and the others have theirs.                                         *)
LEMMA DeliverRing ==
  ASSUME M2mInv, RingInv, NEW f \in Fence, Deliver(f) PROVE RingInv'
<1>1. /\ TypeOK /\ Turn /\ Protected /\ FrameDone /\ phase = "composed"
      /\ Queued(mCurrentDstBuf, f) /\ UNCHANGED screen
      /\ setDstReleaseFence(f, mDstImgs, {target.fence})
      /\ mCurrentDstBuf \in OrNone(Index) /\ f \in OrNone(Fence)
  BY DEF M2mInv, RingInv, Turn, TypeOK, Deliver, FrameDone, OrNone
<1>2. mLastDpuData' = mCurrentDstBuf /\ queue' \in Seq(Shown)
  BY <1>1, QueuedTyped DEF Queued
<1>3. ASSUME NEW i \in Index \ {mCurrentDstBuf}
      PROVE  Covers(mDstImgs[i].release, i)'
  <2>1. CASE i = mPrivDstBuf
    <3>1. mDstImgs'[i].release = f
      BY <1>1, <2>1, NoneFacts DEF setDstReleaseFence, releasedBuffer, TypeOK
    <3>2. Covers(f, i)'
      BY <1>1, CoversDelivered
    <3> QED
      BY <3>1, <3>2 DEF Covers
  <2>2. CASE i # mPrivDstBuf
    <3> DEFINE g == mDstImgs[i].release
    <3>1. mDstImgs'[i].release = g
      BY <1>1, <2>2 DEF setDstReleaseFence, releasedBuffer, TypeOK, OrNone
    <3>2. Covers(g, i)
      BY <1>1, <2>2 DEF Protected
    <3> HIDE DEF g
    <3>3. /\ Len(queue) <= Len(queue') /\ Readers(i)' \subseteq Readers(i)
          /\ \A k \in DOMAIN queue : queue'[k].fence = queue[k].fence
      BY <1>1, ReadersDelivered
    <3>4. DOMAIN queue \subseteq DOMAIN queue'
      BY <1>1, <1>2, <3>3 DEF TypeOK
    <3> QED
      BY <3>1, <3>2, <3>3, <3>4 DEF Covers
  <2> QED
    BY <2>1, <2>2
<1> QED
  BY <1>1, <1>2, <1>3, FrameDoneRing

(* A skipped frame shows what the last one did, so it reused the buffer.   *)
LEMMA SkipRing ==
  ASSUME M2mInv, RingInv, SkipWinConfig PROVE RingInv'
<1>1. /\ TypeOK /\ Turn /\ Protected /\ FrameDone /\ phase = "composed"
      /\ target.buf # None /\ mLastDpuData = target.buf
      /\ UNCHANGED <<mLastDpuData, driverVars>>
      /\ setDstReleaseFence(None, mDstImgs, {target.fence})
  BY DEF M2mInv, RingInv, SkipWinConfig, FrameDone, driverVars
<1>2. /\ mCurrentDstBuf = mPrivDstBuf /\ mPrivDstBuf \in Index
      /\ mLastDpuData' = mCurrentDstBuf
  BY <1>1 DEF Turn, TypeOK, OrNone
<1>3. ASSUME NEW i \in Index \ {mCurrentDstBuf}
      PROVE  Covers(mDstImgs[i].release, i)'
  <2> DEFINE g == mDstImgs[i].release
  <2>1. mDstImgs'[i].release = g
    BY <1>1, <1>2 DEF setDstReleaseFence, releasedBuffer, TypeOK
  <2>2. Covers(g, i)
    BY <1>1, <1>2 DEF Protected
  <2> HIDE DEF g
  <2> QED
    BY <1>1, <2>1, <2>2 DEF Covers, Readers, driverVars
<1> QED
  BY <1>1, <1>2, <1>3, FrameDoneRing

LEMMA WithoutMppRing ==
  ASSUME M2mInv, RingInv, PresentWithoutMpp PROVE RingInv'
<1>1. /\ UNCHANGED <<mCurrentDstBuf, mPrivDstBuf, job, assigned, target>>
      /\ phase = "client" /\ phase' = "idle" /\ requestIdle
      /\ mLastDpuData' = None
      /\ TypeOK /\ Turn /\ Protected /\ Remembered
  BY DEF M2mInv, RingInv, PresentWithoutMpp
<1>2. \A i \in Index : mDstImgs'[i].release = mDstImgs[i].release
  BY <1>1 DEF requestIdle, TypeOK
<1>3. /\ DOMAIN queue \subseteq DOMAIN queue'
      /\ \A k \in DOMAIN queue : queue'[k].fence = queue[k].fence
      /\ \A i \in Index : Readers(i)' \subseteq Readers(i)
  <2> DEFINE Left(b) == IF running /\ ~Preallocated THEN None ELSE b
             left == [k \in DOMAIN queue |-> [queue[k] EXCEPT !.buf = Left(@)]]
             last == [buf |-> None, fence |-> None]
  <2>1. screen' = Left(screen) /\ queue' = Append(left, last)
    BY DEF PresentWithoutMpp
  <2>2. \A k \in DOMAIN queue : queue[k] \in Shown
    BY <1>1 DEF TypeOK
  <2>3. \A k \in DOMAIN queue : /\ left[k].fence = queue[k].fence
                                /\ left[k].buf = Left(queue[k].buf)
    BY <2>2 DEF Shown
  <2>4. left \in Seq(Shown) /\ Len(left) = Len(queue) /\ Len(queue) \in Nat
    <3>1. \A b \in OrNone(Index) : Left(b) \in OrNone(Index)
      BY DEF OrNone
    <3>2. \A k \in DOMAIN queue : left[k] \in Shown
      BY <2>2, <3>1 DEF Shown
    <3> QED
      BY <1>1, <3>2 DEF TypeOK
  <2>5. \A i \in Index : \A b : i = Left(b) => i = b
    BY NoneFacts
  <2>6. last.buf = None
    OBVIOUS
  <2>7. last \in Shown
    BY DEF Shown, OrNone
  <2> HIDE DEF Left, left, last
  <2>8. /\ Len(queue') = Len(queue) + 1 /\ queue'[Len(queue) + 1] = last
        /\ \A k \in 1 .. Len(queue) : queue'[k] = left[k]
        /\ DOMAIN queue = 1 .. Len(queue) /\ DOMAIN queue' = 1 .. Len(queue) + 1
    BY <1>1, <2>1, <2>4, <2>7 DEF TypeOK
  <2>9. ASSUME NEW i \in Index, NEW r \in Readers(i)' PROVE r \in Readers(i)
    <3>1. r \in 0 .. Len(queue) + 1
      BY <2>8 DEF Readers
    <3>2. r # Len(queue) + 1
      BY <2>4, <2>6, <2>8, NoneFacts DEF Readers
    <3>3. CASE r = 0
      BY <2>1, <2>4, <2>5, <3>3 DEF Readers
    <3>4. CASE r # 0
      <4>1. r \in 1 .. Len(queue)
        BY <2>4, <3>1, <3>2, <3>4
      <4>2. i = Left(queue[r].buf)
        BY <2>3, <2>8, <3>4, <4>1 DEF Readers
      <4> QED
        BY <2>4, <2>5, <3>4, <4>1, <4>2 DEF Readers
    <3> QED
      BY <3>3, <3>4
  <2> QED
    BY <2>3, <2>4, <2>8, <2>9
<1>4. ASSUME NEW i \in Index, i # mPrivDstBuf
      PROVE  Covers(mDstImgs[i].release, i)'
  <2>1. Covers(mDstImgs[i].release, i)
    BY <1>1, <1>4 DEF Protected
  <2> QED
    BY <1>2, <1>3, <1>4, <2>1 DEF Covers
<1>5. Turn'
  BY <1>1 DEF Turn
<1>6. Remembered'
  BY <1>1 DEF Remembered, requestIdle
<1> QED
  BY <1>1, <1>4, <1>5, <1>6 DEF RingInv, Protected, WriteWaitsForReaders, Turn, NoJob

LEMMA ShowRing ==
  ASSUME M2mInv, RingInv, ShowNext PROVE RingInv'
<1>1. UNCHANGED <<mppVars, frameVars>> /\ TypeOK
  BY DEF ShowNext, M2mInv
<1>2. Turn' /\ Remembered'
  BY <1>1 DEF RingInv, Turn, Remembered, mppVars, frameVars
<1>3. ASSUME NEW i \in Index, i # mPrivDstBuf,
             ~(phase = "composed" /\ i = mCurrentDstBuf)
      PROVE  Covers(mDstImgs[i].release, i)'
  <2>1. PICK f : f = mDstImgs[i].release
    OBVIOUS
  <2>2. Covers(f, i)
    BY <1>3, <2>1 DEF RingInv, Protected
  <2>3. mDstImgs'[i].release = f
    BY <1>1, <2>1 DEF mppVars
  <2>4. Covers(f, i)'
    BY <1>1, <2>2, CoversShown
  <2> QED
    BY <2>3, <2>4 DEF Covers
<1>4. WriteWaitsForReaders'
  <2>1. CASE job = NoJob
    BY <1>1, <2>1 DEF WriteWaitsForReaders, mppVars, NoJob
  <2>2. CASE job # NoJob
    <3>1. PICK f, i : f = job.after /\ i = job.buf
      OBVIOUS
    <3>2. Covers(f, i) /\ i \in Index
      BY <1>1, <2>2, <3>1 DEF RingInv, Protected, WriteWaitsForReaders, Turn, TypeOK
    <3>3. job'.after = f /\ job'.buf = i
      BY <1>1, <3>1 DEF mppVars
    <3>4. Covers(f, i)'
      BY <1>1, <3>2, CoversShown
    <3> QED
      BY <3>3, <3>4 DEF WriteWaitsForReaders, Covers
  <2> QED
    BY <2>1, <2>2
<1> QED
  BY <1>1, <1>2, <1>3, <1>4 DEF RingInv, Protected, mppVars, frameVars

LEMMA FreeRing ==
  ASSUME M2mInv, RingInv, freeBuffers \/ UNCHANGED vars PROVE RingInv'
<1>1. /\ UNCHANGED <<mDstImgs, mCurrentDstBuf, mPrivDstBuf, mPrevFrameInfo,
                     contents, job, frameVars, driverVars>>
  BY DEF freeBuffers, vars, mppVars
<1> QED
  BY <1>1 DEF RingInv, Turn, Protected, Remembered, WriteWaitsForReaders, Covers,
     Readers, frameVars, driverVars

LEMMA NextRing ==
  ASSUME M2mInv, RingInv, AllPresented, [Next]_vars PROVE RingInv'
<1>1. ~Drop
  BY DEF AllPresented, Drop, ValidateAgain, closeFencesForSkipFrame
<1>2. ~allocOutBufFails /\ ~DeliverFails /\ ~PresentFails
      /\ \A rejected \in BOOLEAN : ~executeFails(rejected)
  BY DEF AllPresented, allocOutBufFails, DeliverFails, PresentFails, executeFails
<1>3. ~PostProcessingFailed
  BY DEF RingInv, Turn, PostProcessingFailed
<1>4. CASE Compose
  <2>1. CASE StartsFrame
    BY <2>1, StartRing
  <2> QED
    BY <1>2, <1>3, <1>4, <2>1, AllocRing, UsePrevRing, ComposeRing
       DEF Compose, StartsFrame
<1> QED
  BY <1>1, <1>2, <1>4, DeliverRing, SkipRing, WithoutMppRing, ShowRing, FreeRing
     DEF Next, Present

(* When every composed frame is presented and nothing fails, the buffers   *)
(* and their fences go round in step.                                      *)
THEOREM RingInvariant == ASSUME AllPresented PROVE Spec => [](M2mInv /\ RingInv)
<1>1. Init => M2mInv /\ RingInv
  BY InitM2m, InitRing
<1>2. M2mInv /\ RingInv /\ [Next]_vars => (M2mInv /\ RingInv)'
  BY NextKept, NextRing
<1> QED
  BY <1>1, <1>2, PTL DEF Spec

(* No picture that is shown, or will be, is composed over.                 *)
THEOREM WritesWait == ASSUME AllPresented PROVE Spec => []WriteWaitsForReaders
<1>1. M2mInv /\ RingInv => WriteWaitsForReaders
  BY DEF RingInv, Protected
<1> QED
  BY <1>1, RingInvariant, PTL

(* What is presented shows the sources that are assigned.                  *)
THEOREM CurrentIsPresented == ASSUME AllPresented PROVE Spec => PresentedIsCurrent
<1>1. M2mInv /\ RingInv
        => [phase = "composed" /\ phase' = "idle"
              /\ mCurrentDstBuf' # mCurrentDstBuf
              => target.shows = assigned]_vars
  BY DEF RingInv, Remembered
<1> QED
  BY <1>1, RingInvariant, PTL DEF PresentedIsCurrent
=============================================================================
