--------------------------- MODULE GscM2m_proofs ---------------------------
(***************************************************************************)
(* The session of libgscaler keeps in step with its driver, and with what  *)
(* processM2M believes of it; the ring of destination buffers fits the     *)
(* frames, and its fences hold conversions back until the display is done: *)
(* for any frames, any size of the ring and any failures of requests.      *)
(***************************************************************************)
EXTENDS GscM2m, TLAPS

(* The driver has been told all that the session was configured with.      *)
Told ==
  /\ gsc.dirty = {} /\ gsc.config # None
  /\ driver.ready = Side
  /\ driver.format = [s \in Side |-> gsc.config]
  /\ gsc.drm => protection

(* Both sides stream, and each has a buffer in the driver.                 *)
Loaded == Told /\ gsc.on = Side /\ gsc.queued = Side /\ driver.queue = Side

(* Created and not configured yet.                                         *)
Fresh ==
  /\ gsc.config = None /\ gsc.dirty = {} /\ gsc.on = {}
  /\ driver = Closed /\ job = None

(* Configured, and nothing of it told to the driver.                       *)
Untold ==
  /\ gsc.dirty = Side /\ gsc.config # None /\ gsc.on = {}
  /\ driver.ready = {} /\ driver.queue = {} /\ job = None

ForFrame == gsc.config = ConfigOf(call.frame)

Unloaded == job = None /\ driver.queue = {}

(* What holds of the session whatever processM2M is doing.                 *)
SessionKept ==
  /\ gsc = None => driver = Closed /\ job = None
  /\ gsc # None =>
       /\ driver.streaming = gsc.on
       /\ gsc.config # None => /\ gsc.drm = gsc.config.secure
                               /\ gsc.drm => gsc.allowDrm
  /\ job # None => gsc # None /\ gsc.config = ConfigOf(job.frame)

(* What holds of it at each place of processM2M and set.                   *)
SessionAt ==
  /\ at \in {"idle", "buffers", "post", "cleanup"} /\ gsc # None =>
       Loaded /\ mConfig \in {None, gsc.config}
  /\ at = "buffers" => call.reconfigure = Reconfigure(call.frame)
  /\ at = "configure" => gsc # None /\ (Fresh \/ Loaded)
  /\ at = "run" => gsc # None /\ (Fresh \/ (ForFrame /\ (Untold \/ Loaded)))
  /\ at = "wait" => gsc # None /\ ForFrame /\ Loaded /\ ~call.isDirty
  /\ at = "protect" =>
       /\ gsc # None /\ ForFrame /\ Unloaded
       /\ \/ call.isDirty /\ Untold
          \/ ~call.isDirty /\ Told /\ gsc.on = Side
  /\ at = "format" =>
       gsc # None /\ ForFrame /\ Untold /\ (gsc.drm => protection)
  /\ at = "csc" => gsc # None /\ ForFrame /\ Unloaded /\ Told /\ gsc.on = {}
  /\ at = "queue" =>
       gsc # None /\ ForFrame /\ Unloaded /\ Told /\ gsc.on \in {{}, Side}
  /\ at = "stream" =>
       /\ gsc # None /\ ForFrame /\ Told
       /\ gsc.on \in {{}, {"src"}}
       /\ gsc.queued = Side /\ driver.queue = Side

(* There is room for the frame that is being made.                         *)
Room == at \notin {"idle", "cleanup"} => Len(display) < MaxQueued

SessionInv == TypeOK /\ Room /\ SessionKept /\ SessionAt

-----------------------------------------------------------------------------
LEMMA RingFacts ==
  /\ 0 \in Ring /\ NumBuffers \in Nat /\ MaxQueued \in Nat \ {0}
  /\ \A i \in Ring : /\ (i + 1) % NumBuffers \in Ring
                     /\ (i + NumBuffers - 1) % NumBuffers \in Ring
<1>1. NumBuffers \in Nat \ {0} /\ MaxQueued \in Nat \ {0}
  BY RingAndQueue
<1>2. ASSUME NEW n \in Nat PROVE n % NumBuffers \in Ring
  BY <1>1 DEF Ring
<1>3. ASSUME NEW i \in Ring
      PROVE  i + 1 \in Nat /\ i + NumBuffers - 1 \in Nat
  BY <1>1 DEF Ring
<1> QED
  BY <1>1, <1>2, <1>3 DEF Ring

LEMMA FrameFacts ==
  \A f \in Frames : /\ f.type \in BufferType
                    /\ ConfigOf(f) \in Configs /\ ConfigOf(f) # None
                    /\ f.colorspace \in Colorspaces
                    /\ ConfigOf(f).secure = IsSecure(f)
BY FrameFields, NoneIsNoValue DEF Configs, Colorspaces, ConfigOf, IsSecure

(* What was posted is still posted, whatever becomes of the conversion and *)
(* of the buffers.                                                         *)
LEMMA SettledPosts ==
  ASSUME display \in Seq(Posts), NEW state \in {"ready", "dropped"}
  PROVE  Settled(state) \in Seq(Posts) /\ Len(Settled(state)) = Len(display)
<1>1. \A i \in DOMAIN display : display[i] \in Posts
  OBVIOUS
<1>2. \A i \in DOMAIN display : Settled(state)[i] \in Posts
  BY <1>1 DEF Settled, Posts
<1> QED
  BY <1>2 DEF Settled

LEMMA LeavePosts ==
  ASSUME NEW posts \in Seq(Posts), NEW buffers \in SUBSET Ring,
         mLastConfigData \in Ring \cup {Freed, None}, Leave(buffers, posts)
  PROVE  /\ display' \in Seq(Posts) /\ Len(display') = Len(posts)
         /\ mLastConfigData' \in Ring \cup {Freed, None}
<1>1. \A i \in DOMAIN posts : posts[i] \in Posts
  OBVIOUS
<1>2. \A i \in DOMAIN posts : display'[i] \in Posts
  BY <1>1 DEF Leave, Posts
<1> QED
  BY <1>2 DEF Leave

LEMMA CloseTyped ==
  ASSUME TypeOK, gsc # None, CloseSession
  PROVE  /\ gsc' \in Sessions \cup {None} /\ driver' \in Drivers
         /\ job' \in Jobs \cup {None} /\ protection' \in BOOLEAN
BY DEF CloseSession, TypeOK, Drivers, Closed, Side

LEMMA StaleTyped ==
  ASSUME TypeOK, NEW f \in Frames, DestroyStale(f)
  PROVE  /\ gsc' \in Sessions \cup {None} /\ driver' \in Drivers
         /\ job' \in Jobs \cup {None} /\ protection' \in BOOLEAN
         /\ display' \in Seq(Posts) /\ Len(display') = Len(display)
<1>1. CASE IsStale(f)
  BY <1>1, CloseTyped, SettledPosts DEF DestroyStale, IsStale, TypeOK
<1>2. CASE ~IsStale(f)
  BY <1>2 DEF DestroyStale, sessionVars, TypeOK
<1> QED
  BY <1>1, <1>2

LEMMA ResetTyped ==
  ASSUME TypeOK, Room, Reset, call # None
  PROVE  /\ mDstBuffers' \in [Ring -> Buffers \cup {None}]
         /\ mDstBufFence' \in [Ring -> 0 .. MaxQueued]
         /\ mConfig' = None /\ mBufferType' \in BufferType
         /\ mAllocatedBufferNum' \in 0 .. NumBuffers
         /\ call' \in Calls /\ call' # None /\ at' = "post"
         /\ mCurrentBuf' \in Ring
         /\ mLastRetireFence' \in {None} \cup 0 .. MaxQueued
<1>1. call' \in Calls
  BY DEF Reset, TypeOK, Calls
<1>2. /\ mDstBuffers' \in [Ring -> Buffers \cup {None}]
      /\ mDstBufFence' \in [Ring -> 0 .. MaxQueued]
  BY RingFacts DEF Reset, NoBuffers, NoFences
<1>3. mConfig' = None /\ mBufferType' = "NORMAL" /\ mAllocatedBufferNum' = 0
  BY DEF Reset
<1>4. /\ mCurrentBuf' = mCurrentBuf /\ at' = "post"
      /\ mLastRetireFence' = mLastRetireFence
  BY DEF Reset
<1>5. mCurrentBuf \in Ring /\ mLastRetireFence \in {None} \cup 0 .. MaxQueued
  BY DEF TypeOK
<1>6. call' # None
  BY <1>1, NoneIsNoValue
<1> QED
  BY <1>1, <1>2, <1>3, <1>4, <1>5, <1>6, RingFacts DEF BufferType

LEMMA InitTyped == Init => SessionInv
<1> SUFFICES ASSUME Init PROVE SessionInv
  OBVIOUS
<1>1. display \in Seq(Posts) /\ Len(display) \in 1 .. MaxQueued
  BY RingFacts DEF Init, NoFrame, Posts
<1>2. Closed \in Drivers /\ NoBuffers \in [Ring -> Buffers \cup {None}]
      /\ NoFences \in [Ring -> 0 .. MaxQueued]
  BY RingFacts DEF Drivers, Closed, NoBuffers, NoFences, Side
<1>3. TypeOK
  <2>1. protection \in BOOLEAN
    BY DEF Init
  <2>2. mAllocatedBufferNum \in 0 .. NumBuffers /\ mCurrentBuf \in Ring
    BY RingFacts DEF Init
  <2> QED
    BY <1>1, <1>2, <2>1, <2>2 DEF Init, TypeOK, BufferType
<1>4. Room /\ SessionKept /\ SessionAt
  BY DEF Init, Room, SessionKept, SessionAt
<1> QED
  BY <1>3, <1>4 DEF SessionInv

-----------------------------------------------------------------------------
(* Types.                                                                  *)

LEMMA CalledTyped ==
  ASSUME TypeOK, at \notin {"idle", "cleanup"}
  PROVE  call \in Calls /\ call # None /\ call.frame \in Frames
BY NoneIsNoValue DEF TypeOK, Calls

LEMMA LocalsTyped ==
  ASSUME NEW f \in Frames, NEW done \in {"converted", "reused", "failed"}
  PROVE  LocalsOf(f, done) \in Calls /\ LocalsOf(f, done) # None
<1>1. LocalsOf(f, done) \in Calls
  BY DEF LocalsOf, Calls, Reconfigure
<1> QED
  BY <1>1, NoneIsNoValue

LEMMA ConvertTyped ==
  ASSUME SessionInv, Convert PROVE TypeOK' /\ Room'
<1>1. TypeOK /\ Room
  BY DEF SessionInv
<1>2. display' \in Seq(Posts) /\ Len(display') = Len(display)
  BY <1>1, SettledPosts DEF Convert, TypeOK
<1> QED
  BY <1>1, <1>2 DEF Convert, TypeOK, Room, mppVars

LEMMA FlipTyped ==
  ASSUME SessionInv, Flip PROVE TypeOK' /\ Room'
<1>1. TypeOK /\ Room
  BY DEF SessionInv
<1>2. /\ display' \in Seq(Posts) /\ Len(display') = Len(display) - 1
      /\ Len(display') \in 1 .. MaxQueued
  BY <1>1, RingFacts DEF Flip, TypeOK
<1>3. \A k \in 0 .. MaxQueued : Sooner(k) \in 0 .. MaxQueued
  BY RingFacts DEF Sooner
<1>4. mDstBufFence' \in [Ring -> 0 .. MaxQueued]
  BY <1>1, <1>3 DEF Flip, TypeOK
<1>5. job' \in Jobs \cup {None}
  BY <1>1, <1>3 DEF Flip, TypeOK, Jobs
<1>6. mLastRetireFence' \in {None} \cup 0 .. MaxQueued
  <2>1. CASE mLastRetireFence \in 0 .. MaxQueued
    BY <1>3, <2>1 DEF Flip
  <2>2. CASE mLastRetireFence = None
    BY <2>2, NoneIsNoValue DEF Flip, Sooner
  <2> QED
    BY <1>1, <2>1, <2>2 DEF TypeOK
<1>7. UNCHANGED <<at, call, mConfig, mBufferType, mDstBuffers, mCurrentBuf,
                  mAllocatedBufferNum, gsc, driver, protection,
                  mLastConfigData>>
  BY DEF Flip
<1>8. Len(display') < Len(display)
  BY <1>1, <1>2 DEF TypeOK
<1> QED
  BY <1>1, <1>2, <1>4, <1>5, <1>6, <1>7, <1>8, RingFacts DEF TypeOK, Room

LEMMA BeginTyped ==
  ASSUME SessionInv, NEW f \in Frames, Begin(f) PROVE TypeOK' /\ Room'
<1>1. TypeOK /\ Room
  BY DEF SessionInv
<1>2. call' \in Calls /\ call' # None
  BY LocalsTyped DEF Begin
<1>3. /\ gsc' \in Sessions \cup {None} /\ driver' \in Drivers
      /\ job' \in Jobs \cup {None} /\ protection' \in BOOLEAN
      /\ display' \in Seq(Posts) /\ Len(display') = Len(display)
  BY <1>1, StaleTyped DEF Begin
<1>4. mBufferType' \in BufferType /\ mCurrentBuf' \in Ring
  BY <1>1, RingFacts, FrameFacts DEF Begin, TypeOK
<1>5. mAllocatedBufferNum' \in 0 .. NumBuffers
  BY <1>1, RingFacts DEF Begin, TypeOK
<1> QED
  BY <1>1, <1>2, <1>3, <1>4, <1>5 DEF Begin, TypeOK, Room

LEMMA ReuseTyped ==
  ASSUME SessionInv, NEW f \in Frames, Reuse(f) PROVE TypeOK' /\ Room'
<1>1. TypeOK /\ Room
  BY DEF SessionInv
<1>2. call' \in Calls /\ call' # None
  BY LocalsTyped DEF Reuse
<1>3. /\ gsc' \in Sessions \cup {None} /\ driver' \in Drivers
      /\ job' \in Jobs \cup {None} /\ protection' \in BOOLEAN
      /\ display' \in Seq(Posts) /\ Len(display') = Len(display)
  BY <1>1, StaleTyped DEF Reuse
<1>4. mCurrentBuf' \in Ring
  BY <1>1, RingFacts DEF Reuse, TypeOK
<1> QED
  BY <1>1, <1>2, <1>3, <1>4 DEF Reuse, TypeOK, Room

LEMMA AllocateTyped ==
  ASSUME SessionInv, AllocateAndOpen PROVE TypeOK' /\ Room'
<1>1. TypeOK /\ Room
  BY DEF SessionInv
<1>2. call \in Calls /\ call # None /\ call.frame \in Frames
  BY <1>1, CalledTyped DEF AllocateAndOpen
<1>3. gsc' \in Sessions \cup {None}
  <2>1. NewSession(call.frame.type # "NORMAL") \in Sessions
    BY DEF NewSession, Sessions
  <2> QED
    BY <1>1, <2>1 DEF AllocateAndOpen, TypeOK
<1>4. CASE mAllocatedBufferNum < NumBuffers
  <2>1. /\ display' \in Seq(Posts) /\ Len(display') = Len(display)
        /\ mLastConfigData' \in Ring \cup {Freed, None}
    <3>1. Leave({mCurrentBuf}, display) /\ {mCurrentBuf} \in SUBSET Ring
      BY <1>1, <1>4 DEF AllocateAndOpen, TypeOK
    <3> QED
      BY <1>1, <3>1, LeavePosts DEF TypeOK
  <2>2. job' \in Jobs \cup {None}
    BY <1>1, <1>4 DEF AllocateAndOpen, TypeOK, Jobs
  <2>3. mDstBuffers' \in [Ring -> Buffers \cup {None}]
    <3>1. [type |-> call.frame.type, format |-> call.frame.format] \in Buffers
      BY <1>2, FrameFacts DEF Buffers
    <3> QED
      BY <1>1, <1>4, <3>1 DEF AllocateAndOpen, TypeOK
  <2>4. /\ mDstBufFence' \in [Ring -> 0 .. MaxQueued]
        /\ mAllocatedBufferNum' \in 0 .. NumBuffers
    BY <1>1, <1>4, RingFacts DEF AllocateAndOpen, TypeOK
  <2> QED
    BY <1>1, <1>2, <1>3, <2>1, <2>2, <2>3, <2>4 DEF AllocateAndOpen, TypeOK, Room
<1>5. CASE ~(mAllocatedBufferNum < NumBuffers)
  BY <1>1, <1>2, <1>3, <1>5 DEF AllocateAndOpen, TypeOK, Room
<1> QED
  BY <1>4, <1>5

LEMMA AllocationFailsTyped ==
  ASSUME SessionInv, AllocationFails PROVE TypeOK' /\ Room'
<1>1. TypeOK /\ Room /\ Reset /\ at = "buffers"
  BY DEF SessionInv, AllocationFails
<1>2. call # None
  BY <1>1, CalledTyped
<1>3. /\ display' \in Seq(Posts) /\ Len(display') = Len(display)
      /\ mLastConfigData' \in Ring \cup {Freed, None}
  BY <1>1, LeavePosts DEF AllocationFails, TypeOK
<1>4. job' \in Jobs \cup {None}
  BY <1>1 DEF AllocationFails, TypeOK, Jobs
<1>5. /\ gsc' = gsc /\ driver' = driver /\ protection' = protection
  BY DEF AllocationFails
<1> QED
  BY <1>1, <1>2, <1>3, <1>4, <1>5, ResetTyped DEF TypeOK, Room

LEMMA SessionFailsTyped ==
  ASSUME SessionInv, SessionFails PROVE TypeOK' /\ Room'
<1>1. TypeOK /\ Room /\ Reset /\ CloseSession
  BY DEF SessionInv, SessionFails
<1>2. /\ at \in {"configure", "run", "wait", "protect", "format", "csc",
                 "queue", "stream"}
      /\ gsc # None
  BY DEF SessionInv, SessionAt, SessionFails
<1>3. call # None
  BY <1>1, <1>2, CalledTyped
<1>4. /\ gsc' \in Sessions \cup {None} /\ driver' \in Drivers
      /\ job' \in Jobs \cup {None} /\ protection' \in BOOLEAN
  BY <1>1, <1>2, CloseTyped
<1>5. /\ Settled("dropped") \in Seq(Posts)
      /\ Len(Settled("dropped")) = Len(display)
  BY <1>1, SettledPosts DEF TypeOK
<1>6. Leave(Ring, Settled("dropped"))
  BY DEF SessionFails
<1>7. /\ display' \in Seq(Posts) /\ Len(display') = Len(display)
      /\ mLastConfigData' \in Ring \cup {Freed, None}
  BY <1>1, <1>5, <1>6, LeavePosts DEF TypeOK
<1> QED
  BY <1>1, <1>2, <1>3, <1>4, <1>7, ResetTyped DEF TypeOK, Room

LEMMA ConfigureTyped ==
  ASSUME SessionInv, Configure PROVE TypeOK' /\ Room'
<1>1. TypeOK /\ Room /\ gsc # None /\ at = "configure"
  BY DEF SessionInv, SessionAt, Configure
<1>2. call \in Calls /\ call.frame \in Frames
  BY <1>1, CalledTyped
<1>3. gsc' \in Sessions
  BY <1>1, <1>2, FrameFacts DEF Configure, Configured, TypeOK, Sessions, IsSecure
<1>4. /\ driver' \in Drivers /\ job' \in Jobs \cup {None}
      /\ protection' \in BOOLEAN
      /\ display' \in Seq(Posts) /\ Len(display') = Len(display)
  <2>1. CASE gsc.on = {}
    BY <1>1, <2>1 DEF Configure, TypeOK
  <2>2. CASE gsc.on # {}
    BY <1>1, <2>2, SettledPosts DEF Configure, TypeOK, Drivers
  <2> QED
    BY <2>1, <2>2
<1>5. /\ at' = "run" /\ UNCHANGED <<call, mppVars, mLastConfigData,
                                    mLastRetireFence>>
  BY DEF Configure
<1> QED
  BY <1>1, <1>3, <1>4, <1>5 DEF TypeOK, Room, mppVars

LEMMA EnterRunTyped ==
  ASSUME SessionInv, EnterRun PROVE TypeOK' /\ Room'
<1>1. TypeOK /\ Room /\ at = "run"
  BY DEF SessionInv, EnterRun
<1>2. call \in Calls
  BY <1>1, CalledTyped
<1>3. call' \in Calls
  BY <1>2 DEF EnterRun, Calls
<1>4. call' # None
  BY <1>3, NoneIsNoValue
<1>5. at' \in {"wait", "protect"}
  BY DEF EnterRun
<1>6. UNCHANGED <<mppVars, sessionVars, displayVars>>
  BY DEF EnterRun
<1> QED
  BY <1>1, <1>3, <1>4, <1>5, <1>6
     DEF TypeOK, Room, mppVars, sessionVars, displayVars

(* The requests to the driver change the session and the driver alone.     *)
LEMMA RequestsTyped ==
  ASSUME SessionInv, WaitFrameDone \/ Protect \/ SetFormat \/ SetColorspace
  PROVE  TypeOK' /\ Room'
<1>1. TypeOK /\ Room /\ gsc \in Sessions
  BY DEF SessionInv, SessionAt, TypeOK, WaitFrameDone, Protect, SetFormat,
         SetColorspace
<1>2. /\ at \in {"wait", "protect", "format", "csc"}
      /\ at' \in {"protect", "format", "csc", "queue"}
      /\ UNCHANGED <<call, mppVars, job, displayVars>>
  BY DEF WaitFrameDone, Protect, SetFormat, SetColorspace
<1>3. gsc' \in Sessions
  BY <1>1 DEF WaitFrameDone, Protect, SetFormat, SetColorspace, Sessions
<1>4. driver \in Drivers
  BY <1>1 DEF TypeOK
<1>5. driver' \in Drivers
  <2>1. CASE WaitFrameDone
    BY <1>4, <2>1 DEF WaitFrameDone, Drivers
  <2>2. CASE Protect
    BY <1>4, <2>2 DEF Protect
  <2>3. CASE SetFormat
    BY <1>1, <1>4, <2>3 DEF SetFormat, Drivers, Sessions
  <2>4. CASE SetColorspace
    BY <1>1, <1>4, <2>4 DEF SetColorspace, Drivers, Sessions
  <2> QED
    BY <2>1, <2>2, <2>3, <2>4
<1>6. protection' \in BOOLEAN
  BY <1>1 DEF WaitFrameDone, Protect, SetFormat, SetColorspace, TypeOK
<1> QED
  BY <1>1, <1>2, <1>3, <1>5, <1>6 DEF TypeOK, Room, mppVars, displayVars

LEMMA ProcessedTyped ==
  ASSUME SessionInv, at \in {"queue", "stream"}, Processed
  PROVE  mConfig' \in Configs \cup {None} /\ at' = "post"
BY CalledTyped, FrameFacts DEF SessionInv, Processed

LEMMA QueueTyped ==
  ASSUME SessionInv, QueueBuffers PROVE TypeOK' /\ Room'
<1>1. TypeOK /\ Room /\ gsc \in Sessions /\ at = "queue"
  BY DEF SessionInv, SessionAt, TypeOK, QueueBuffers
<1>2. call \in Calls /\ call # None /\ call.frame \in Frames
  BY <1>1, CalledTyped
<1>3. mConfig' \in Configs \cup {None} /\ at' \in {"post", "stream"}
  BY <1>1, ProcessedTyped DEF QueueBuffers, TypeOK
<1>4. gsc' \in Sessions /\ driver' \in Drivers
  BY <1>1 DEF QueueBuffers, Sessions, Drivers, TypeOK
<1>5. job' \in Jobs
  BY <1>1, <1>2 DEF QueueBuffers, Jobs, TypeOK
<1>6. mDstBufFence' \in [Ring -> 0 .. MaxQueued]
  BY <1>1, RingFacts DEF QueueBuffers, TypeOK
<1>7. UNCHANGED <<call, mBufferType, mDstBuffers, mCurrentBuf,
                  mAllocatedBufferNum, mLastMPPLayerHandle, protection,
                  displayVars>>
  BY DEF QueueBuffers
<1> QED
  BY <1>1, <1>2, <1>3, <1>4, <1>5, <1>6, <1>7 DEF TypeOK, Room, displayVars

LEMMA StreamTyped ==
  ASSUME SessionInv, NEW s \in Side, StreamOn(s) PROVE TypeOK' /\ Room'
<1>1. TypeOK /\ Room /\ gsc \in Sessions /\ at = "stream"
  BY DEF SessionInv, SessionAt, TypeOK, StreamOn
<1>2. call # None
  BY <1>1, CalledTyped
<1>3. mConfig' \in Configs \cup {None} /\ at' \in {"post", "stream"}
  BY <1>1, ProcessedTyped DEF StreamOn, TypeOK
<1>4. gsc' \in Sessions /\ driver' \in Drivers
  BY <1>1 DEF StreamOn, Sessions, Drivers, TypeOK
<1>5. UNCHANGED <<call, mBufferType, mDstBuffers, mDstBufFence, mCurrentBuf,
                  mAllocatedBufferNum, mLastMPPLayerHandle, job, protection,
                  displayVars>>
  BY DEF StreamOn
<1> QED
  BY <1>1, <1>2, <1>3, <1>4, <1>5 DEF TypeOK, Room, displayVars

LEMMA DupFenceTyped ==
  ASSUME TypeOK, NEW fence \in 0 .. MaxQueued, DupFence(fence)
  PROVE  mDstBufFence' \in [Ring -> 0 .. MaxQueued] /\ mCurrentBuf' \in Ring
BY RingFacts DEF DupFence, TypeOK

LEMMA ReturnsTyped ==
  ASSUME SessionInv, PostFrame \/ SkipFrame \/ ClearDisplay
  PROVE  TypeOK' /\ Room'
<1>1. TypeOK /\ Len(display) < MaxQueued /\ call # None
  BY CalledTyped DEF SessionInv, Room, PostFrame, SkipFrame, ClearDisplay, SetReturns
<1>2. /\ at' = "idle" /\ call' = None
      /\ UNCHANGED <<mConfig, mBufferType, mDstBuffers, mAllocatedBufferNum,
                     mLastMPPLayerHandle, sessionVars>>
  BY DEF PostFrame, SkipFrame, ClearDisplay, SetReturns
<1>3. BufferToShow \in Ring \cup {None}
  BY <1>1 DEF BufferToShow, TypeOK
<1>4. ASSUME NEW p \in Posts, display' = Append(display, p)
      PROVE  /\ display' \in Seq(Posts) /\ Len(display') \in 1 .. MaxQueued
  BY <1>1, <1>4, RingFacts DEF TypeOK
<1>5. FrameToShow \in Posts /\ NoFrame \in Posts
  BY <1>3 DEF FrameToShow, NoFrame, Posts
<1>6. CASE PostFrame
  <2>1. /\ display' \in Seq(Posts) /\ Len(display') \in 1 .. MaxQueued
    BY <1>4, <1>5, <1>6 DEF PostFrame
  <2>2. mDstBufFence' \in [Ring -> 0 .. MaxQueued] /\ mCurrentBuf' \in Ring
    BY <1>1, <1>6, <2>1, RingFacts, DupFenceTyped DEF PostFrame
  <2>3. /\ mLastConfigData' \in Ring \cup {Freed, None}
        /\ mLastRetireFence' \in {None} \cup 0 .. MaxQueued
    BY <1>3, <1>6, <2>1, RingFacts DEF PostFrame
  <2> QED
    BY <1>1, <1>2, <2>1, <2>2, <2>3 DEF TypeOK, Room, sessionVars
<1>7. CASE SkipFrame
  <2>1. mDstBufFence' \in [Ring -> 0 .. MaxQueued] /\ mCurrentBuf' \in Ring
    BY <1>1, <1>7, DupFenceTyped DEF SkipFrame, TypeOK
  <2>2. UNCHANGED displayVars
    BY <1>7 DEF SkipFrame
  <2> QED
    BY <1>1, <1>2, <2>1, <2>2 DEF TypeOK, Room, sessionVars, displayVars
<1>8. CASE ClearDisplay
  <2>1. /\ display' \in Seq(Posts) /\ Len(display') \in 1 .. MaxQueued
    BY <1>4, <1>5, <1>8 DEF ClearDisplay
  <2>2. mDstBufFence' \in [Ring -> 0 .. MaxQueued] /\ mCurrentBuf' \in Ring
    BY <1>1, <1>8, <2>1, RingFacts, DupFenceTyped DEF ClearDisplay
  <2>3. /\ mLastConfigData' \in Ring \cup {Freed, None}
        /\ mLastRetireFence' \in {None} \cup 0 .. MaxQueued
    BY <1>1, <1>8, <2>1, RingFacts DEF ClearDisplay, TypeOK
  <2> QED
    BY <1>1, <1>2, <2>1, <2>2, <2>3 DEF TypeOK, Room, sessionVars
<1> QED
  BY <1>6, <1>7, <1>8

LEMMA WithoutTyped ==
  ASSUME SessionInv, PostWithout \/ NothingToCleanup
  PROVE  TypeOK' /\ Room'
<1>1. TypeOK /\ Room /\ at \in {"idle", "cleanup"} /\ call = None
  BY DEF SessionInv, PostWithout, NothingToCleanup, TypeOK
<1>2. /\ at' \in {"idle", "cleanup"}
      /\ UNCHANGED <<call, mppVars, sessionVars>>
  BY DEF PostWithout, NothingToCleanup
<1>3. /\ display' \in Seq(Posts) /\ Len(display') \in 1 .. MaxQueued
      /\ mLastConfigData' \in Ring \cup {Freed, None}
      /\ mLastRetireFence' \in {None} \cup 0 .. MaxQueued
  <2>1. CASE UNCHANGED displayVars
    BY <1>1, <2>1 DEF TypeOK, displayVars
  <2>2. CASE /\ Len(display) < MaxQueued
             /\ display' = Append(display, NoFrame)
             /\ mLastConfigData' = None
             /\ mLastRetireFence' = Len(display')
    <3>1. NoFrame \in Posts
      BY DEF NoFrame, Posts
    <3>2. /\ display' \in Seq(Posts) /\ Len(display') \in 1 .. MaxQueued
      BY <1>1, <2>2, <3>1, RingFacts DEF TypeOK
    <3> QED
      BY <2>2, <3>2, RingFacts
  <2> QED
    BY <2>1, <2>2 DEF PostWithout, NothingToCleanup
<1> QED
  BY <1>1, <1>2, <1>3 DEF TypeOK, Room, mppVars, sessionVars

LEMMA CleanupTyped ==
  ASSUME SessionInv, CleanupM2M PROVE TypeOK' /\ Room'
<1>1. TypeOK /\ gsc # None /\ call = None
  BY DEF SessionInv, CleanupM2M, TypeOK
<1>2. /\ gsc' \in Sessions \cup {None} /\ driver' \in Drivers
      /\ job' \in Jobs \cup {None} /\ protection' \in BOOLEAN
  BY <1>1, CloseTyped DEF CleanupM2M
<1>3. /\ Settled("dropped") \in Seq(Posts)
      /\ Len(Settled("dropped")) = Len(display)
  BY <1>1, SettledPosts DEF TypeOK
<1>4. /\ display' \in Seq(Posts) /\ Len(display') = Len(display)
      /\ mLastConfigData' \in Ring \cup {Freed, None}
  BY <1>1, <1>3, LeavePosts DEF CleanupM2M, TypeOK
<1>5. /\ mDstBuffers' \in [Ring -> Buffers \cup {None}]
      /\ mDstBufFence' \in [Ring -> 0 .. MaxQueued]
      /\ mCurrentBuf' \in Ring /\ mAllocatedBufferNum' \in 0 .. NumBuffers
      /\ mBufferType' \in BufferType /\ mConfig' = None
  BY RingFacts DEF CleanupM2M, NoBuffers, NoFences, BufferType
<1>6. /\ at' = "idle" /\ call' = call /\ mLastRetireFence' = mLastRetireFence
  BY DEF CleanupM2M
<1> QED
  BY <1>1, <1>2, <1>4, <1>5, <1>6 DEF TypeOK, Room

LEMMA NextTyped ==
  ASSUME SessionInv, [Next]_vars PROVE TypeOK' /\ Room'
<1>1. CASE UNCHANGED vars
  BY <1>1 DEF SessionInv, TypeOK, Room, vars, mppVars, sessionVars, displayVars
<1>2. CASE Next
  BY <1>2, ConvertTyped, FlipTyped, BeginTyped, ReuseTyped, AllocateTyped,
     AllocationFailsTyped, SessionFailsTyped, ConfigureTyped, EnterRunTyped,
     RequestsTyped, QueueTyped, StreamTyped, ReturnsTyped, WithoutTyped,
     CleanupTyped
     DEF Next, Proceed, NewFrame
<1> QED
  BY <1>1, <1>2

-----------------------------------------------------------------------------
(* The session and its driver.                                             *)

SessionDefs == SessionKept /\ SessionAt

LEMMA InitSession == Init => SessionDefs
BY DEF Init, SessionDefs, SessionKept, SessionAt

(* The conversion and the display are between requests of their own.       *)
LEMMA ConvertSession ==
  ASSUME SessionInv, Convert PROVE SessionDefs'
<1>1. /\ job' = None
      /\ UNCHANGED <<at, call, mConfig, gsc, driver, protection>>
  BY DEF Convert, mppVars
<1>2. SessionKept'
  BY <1>1 DEF SessionInv, SessionKept
<1>3. SessionAt'
  BY <1>1 DEF SessionInv, SessionAt, Fresh, Untold, Loaded, Told, Unloaded,
     ForFrame, Reconfigure
<1> QED
  BY <1>2, <1>3 DEF SessionDefs

(* Of the conversion only whether there is one, and of which frame.        *)
LEMMA SameSession ==
  ASSUME SessionInv,
         UNCHANGED <<at, call, mConfig, gsc, driver, protection>>,
         job = None <=> job' = None,
         job # None => job'.frame = job.frame
  PROVE  SessionDefs'
<1>1. SessionKept'
  BY DEF SessionInv, SessionKept
<1>2. SessionAt'
  BY DEF SessionInv, SessionAt, Fresh, Untold, Loaded, Told, Unloaded,
     ForFrame, Reconfigure
<1> QED
  BY <1>1, <1>2 DEF SessionDefs

LEMMA FlipSession ==
  ASSUME SessionInv, Flip PROVE SessionDefs'
<1>1. UNCHANGED <<at, call, mConfig, gsc, driver, protection>>
  BY DEF Flip
<1>2. CASE job = None
  BY <1>1, <1>2, SameSession DEF Flip
<1>3. CASE job # None
  <2>1. job \in Jobs
    BY <1>3 DEF SessionInv, TypeOK
  <2>2. job' = [job EXCEPT !.waits = Sooner(@)]
    BY <1>3 DEF Flip
  <2>3. job'.frame = job.frame
    BY <2>1, <2>2 DEF Jobs
  <2>4. job' \in Jobs \cup {None} /\ job' # None
    <3>1. DOMAIN job' = {"buffer", "frame", "waits"}
      BY <2>1, <2>2 DEF Jobs
    <3>2. job.waits \in 0 .. MaxQueued
      BY <2>1 DEF Jobs
    <3>3. Sooner(job.waits) \in 0 .. MaxQueued
      BY <3>2, RingFacts DEF Sooner
    <3>4. job' \in Jobs
      BY <2>1, <2>2, <3>3 DEF Jobs
    <3> QED
      BY <3>4, NoneIsNoValue
  <2> QED
    BY <1>1, <1>3, <2>3, <2>4, SameSession
<1> QED
  BY <1>2, <1>3

(* set() posts what processM2M made, or a frame without the MPP.           *)
LEMMA PostSession ==
  ASSUME SessionInv,
         PostFrame \/ SkipFrame \/ ClearDisplay \/ PostWithout
         \/ NothingToCleanup
  PROVE  SessionDefs'
<1>1. /\ at \in {"idle", "post", "cleanup"} /\ at' \in {"idle", "cleanup"}
      /\ UNCHANGED <<mConfig, sessionVars>>
  BY DEF PostFrame, SkipFrame, ClearDisplay, SetReturns, PostWithout,
         NothingToCleanup, mppVars
<1>2. SessionKept'
  BY <1>1 DEF SessionInv, SessionKept, sessionVars
<1>3. SessionAt'
  BY <1>1 DEF SessionInv, SessionAt, sessionVars, Loaded, Told
<1> QED
  BY <1>2, <1>3 DEF SessionDefs

LEMMA ClosedSession ==
  ASSUME gsc' = None, driver' = Closed, job' = None,
         at' \in {"idle", "buffers", "post", "cleanup"},
         at' = "buffers" => call'.reconfigure = Reconfigure(call.frame)'
  PROVE  SessionDefs'
<1>1. SessionKept'
  BY DEF SessionKept
<1>2. SessionAt'
  BY DEF SessionAt
<1> QED
  BY <1>1, <1>2 DEF SessionDefs

LEMMA CleanupSession ==
  ASSUME SessionInv, CleanupM2M PROVE SessionDefs'
BY ClosedSession DEF CleanupM2M, CloseSession

LEMMA SessionFailsSession ==
  ASSUME SessionInv, SessionFails PROVE SessionDefs'
BY ClosedSession DEF SessionFails, CloseSession, Reset

(* A frame is begun: a stale session is closed, and one that is not keeps  *)
(* its configuration until the comparison has been acted on.               *)
LEMMA BeginSession ==
  ASSUME SessionInv, NEW f \in Frames, Begin(f) \/ Reuse(f)
  PROVE  SessionDefs'
<1>1. /\ at = "idle" /\ at' \in {"buffers", "post"} /\ mConfig' = mConfig
      /\ DestroyStale(f)
      /\ \E done \in {"converted", "reused"} : call' = LocalsOf(f, done)
  BY DEF Begin, Reuse
<1>2. call'.frame = f /\ call'.reconfigure = Reconfigure(f)
  BY <1>1 DEF LocalsOf
<1>3. call'.reconfigure = Reconfigure(call.frame)'
  BY <1>1, <1>2 DEF Reconfigure
<1>4. CASE IsStale(f)
  BY <1>1, <1>3, <1>4, ClosedSession DEF DestroyStale, CloseSession
<1>5. CASE ~IsStale(f)
  <2>1. UNCHANGED <<gsc, driver, job, protection>>
    BY <1>1, <1>5 DEF DestroyStale, sessionVars
  <2>2. SessionKept'
    BY <2>1 DEF SessionInv, SessionKept
  <2>3. SessionAt'
    BY <1>1, <1>3, <2>1 DEF SessionInv, SessionAt, Loaded, Told
  <2> QED
    BY <2>2, <2>3 DEF SessionDefs
<1> QED
  BY <1>4, <1>5

LEMMA AllocateSession ==
  ASSUME SessionInv, AllocateAndOpen PROVE SessionDefs'
<1>1. /\ at = "buffers" /\ call \in Calls /\ call.frame \in Frames
      /\ call.reconfigure = Reconfigure(call.frame)
      /\ UNCHANGED <<call, mConfig, driver, protection>>
      /\ at' = IF call.reconfigure THEN "configure" ELSE "run"
  BY CalledTyped DEF SessionInv, SessionAt, AllocateAndOpen
<1>2. /\ job = None <=> job' = None
      /\ job # None => job'.frame = job.frame
  <2>1. CASE job = None \/ job' = job
    BY <2>1 DEF AllocateAndOpen
  <2>2. CASE job # None /\ job' # job
    <3>1. job \in Jobs /\ job' = [job EXCEPT !.buffer = Freed]
      BY <2>2 DEF SessionInv, TypeOK, AllocateAndOpen
    <3>2. job' \in Jobs /\ job'.frame = job.frame
      BY <3>1 DEF Jobs
    <3> QED
      BY <2>2, <3>2, NoneIsNoValue
  <2> QED
    BY <2>1, <2>2
<1>3. CASE gsc = None
  <2>1. gsc' = NewSession(call.frame.type # "NORMAL")
    BY <1>3 DEF AllocateAndOpen
  <2>2. gsc' \in Sessions /\ gsc' # None
    <3>1. NewSession(call.frame.type # "NORMAL") \in Sessions
      BY DEF NewSession, Sessions
    <3> QED
      BY <2>1, <3>1, NoneIsNoValue
  <2>3. job' = None /\ driver' = Closed
    BY <1>1, <1>2, <1>3 DEF SessionInv, SessionKept
  <2>4. /\ gsc'.config = None /\ gsc'.on = {} /\ gsc'.dirty = {}
    BY <2>1 DEF NewSession
  <2>5. Fresh'
    BY <2>3, <2>4 DEF Fresh, Closed
  <2>6. SessionKept'
    BY <2>2, <2>3, <2>4 DEF SessionKept, Closed
  <2>7. SessionAt'
    BY <1>1, <2>2, <2>5 DEF SessionAt
  <2> QED
    BY <2>6, <2>7 DEF SessionDefs
<1>4. CASE gsc # None
  <2>1. gsc' = gsc
    BY <1>4 DEF AllocateAndOpen
  <2>2. SessionKept'
    BY <1>1, <1>2, <2>1 DEF SessionInv, SessionKept
  <2>3. Loaded' /\ mConfig \in {None, gsc.config}
    BY <1>1, <1>4, <2>1 DEF SessionInv, SessionAt, Loaded, Told
  <2>4. ~call.reconfigure => ForFrame'
    BY <1>1, <2>1, <2>3, FrameFacts DEF Reconfigure, ForFrame
  <2>5. SessionAt'
    BY <1>1, <1>4, <2>1, <2>3, <2>4 DEF SessionAt
  <2> QED
    BY <2>2, <2>5 DEF SessionDefs
<1> QED
  BY <1>3, <1>4

LEMMA AllocationFailsSession ==
  ASSUME SessionInv, AllocationFails PROVE SessionDefs'
<1>1. /\ at = "buffers" /\ at' = "post" /\ mConfig' = None
      /\ UNCHANGED <<gsc, driver, protection>>
  BY DEF AllocationFails, Reset
<1>2. /\ job = None <=> job' = None
      /\ job # None => job'.frame = job.frame
  <2>1. CASE job = None
    BY <2>1 DEF AllocationFails
  <2>2. CASE job # None
    <3>1. job \in Jobs /\ job' = [job EXCEPT !.buffer = Freed]
      BY <2>2 DEF SessionInv, TypeOK, AllocationFails
    <3>2. job' \in Jobs /\ job'.frame = job.frame
      BY <3>1 DEF Jobs
    <3> QED
      BY <2>2, <3>2, NoneIsNoValue
  <2> QED
    BY <2>1, <2>2
<1>3. SessionKept'
  BY <1>1, <1>2 DEF SessionInv, SessionKept
<1>4. SessionAt'
  BY <1>1 DEF SessionInv, SessionAt, Loaded, Told
<1> QED
  BY <1>3, <1>4 DEF SessionDefs

(* A stop leaves nothing in the driver; what is configured again is told   *)
(* to it at the next run.                                                  *)
LEMMA ConfigureSession ==
  ASSUME SessionInv, Configure PROVE SessionDefs'
<1>1. /\ at = "configure" /\ at' = "run" /\ call \in Calls
      /\ call.frame \in Frames /\ gsc # None /\ gsc \in Sessions
      /\ gsc' = Configured(call.frame) /\ call' = call
      /\ IsSecure(call.frame) => gsc.allowDrm
      /\ Fresh \/ Loaded
  BY CalledTyped DEF SessionInv, SessionAt, TypeOK, Configure
<1>2. driver \in Drivers /\ driver.streaming = gsc.on
  BY <1>1 DEF SessionInv, SessionKept, TypeOK
<1>3. gsc' # None
  <2>1. gsc' \in Sessions
    BY <1>1, FrameFacts DEF Configured, Sessions, IsSecure
  <2> QED
    BY <2>1, NoneIsNoValue
<1>4. /\ gsc'.config = ConfigOf(call.frame) /\ gsc'.dirty = Side
      /\ gsc'.on = {} /\ gsc'.drm = IsSecure(call.frame)
      /\ gsc'.allowDrm = gsc.allowDrm
  BY <1>1 DEF Configured, Sessions
<1>5. /\ driver'.ready = {} /\ driver'.queue = {} /\ driver'.streaming = {}
      /\ job' = None
  <2>1. CASE gsc.on = {}
    <3>1. Fresh
      BY <1>1, <2>1 DEF Loaded, Side
    <3> QED
      BY <2>1, <3>1 DEF Configure, Fresh, Closed
  <2>2. CASE gsc.on # {}
    BY <1>2, <2>2 DEF Configure, Drivers
  <2> QED
    BY <2>1, <2>2
<1>6. SessionKept'
  BY <1>1, <1>3, <1>4, <1>5, FrameFacts DEF SessionKept
<1>7. Untold' /\ ForFrame'
  BY <1>1, <1>4, <1>5, FrameFacts DEF Untold, ForFrame
<1>8. SessionAt'
  BY <1>1, <1>3, <1>7 DEF SessionAt
<1> QED
  BY <1>6, <1>8 DEF SessionDefs

LEMMA EnterRunSession ==
  ASSUME SessionInv, EnterRun PROVE SessionDefs'
<1>1. /\ at = "run" /\ call \in Calls /\ gsc # None /\ gsc.config # None
      /\ UNCHANGED <<mConfig, gsc, driver, job, protection>>
      /\ call' = [call EXCEPT !.isDirty = gsc.dirty # {}]
      /\ at' = IF "src" \in gsc.on THEN "wait" ELSE "protect"
  BY CalledTyped DEF SessionInv, SessionAt, EnterRun, sessionVars, mppVars
<1>2. ForFrame /\ (Untold \/ Loaded)
  BY <1>1 DEF SessionInv, SessionAt, Fresh
<1>3. call'.frame = call.frame /\ (call'.isDirty <=> gsc.dirty # {})
  BY <1>1 DEF Calls
<1>4. SessionKept'
  BY <1>1 DEF SessionInv, SessionKept
<1>5. CASE Untold
  <2>1. at' = "protect" /\ call'.isDirty
    BY <1>1, <1>3, <1>5 DEF Untold, Side
  <2>2. ForFrame' /\ Untold' /\ Unloaded'
    BY <1>1, <1>2, <1>3, <1>5 DEF ForFrame, Untold, Unloaded
  <2> QED
    BY <1>1, <1>4, <2>1, <2>2 DEF SessionDefs, SessionAt
<1>6. CASE Loaded
  <2>1. at' = "wait" /\ ~call'.isDirty
    BY <1>1, <1>3, <1>6 DEF Loaded, Told, Side
  <2>2. ForFrame' /\ Loaded'
    BY <1>1, <1>2, <1>3, <1>6 DEF ForFrame, Loaded, Told
  <2> QED
    BY <1>1, <1>4, <2>1, <2>2 DEF SessionDefs, SessionAt
<1> QED
  BY <1>2, <1>5, <1>6

LEMMA WaitSession ==
  ASSUME SessionInv, WaitFrameDone PROVE SessionDefs'
<1>1. /\ at = "wait" /\ at' = "protect" /\ gsc \in Sessions /\ driver \in Drivers
      /\ gsc # None /\ ForFrame /\ Loaded /\ ~call.isDirty
      /\ driver' = [driver EXCEPT !.queue = @ \ gsc.queued]
      /\ gsc' = [gsc EXCEPT !.queued = {}]
      /\ job = None /\ UNCHANGED <<call, job, protection>>
  BY DEF SessionInv, SessionAt, TypeOK, WaitFrameDone
<1>2. gsc' \in Sessions /\ gsc' # None
  <2>1. gsc' \in Sessions
    BY <1>1 DEF Sessions
  <2> QED
    BY <2>1, NoneIsNoValue
<1>3. /\ gsc'.config = gsc.config /\ gsc'.dirty = gsc.dirty /\ gsc'.on = gsc.on
      /\ gsc'.drm = gsc.drm /\ gsc'.allowDrm = gsc.allowDrm
  BY <1>1 DEF Sessions
<1>4. /\ driver'.queue = {} /\ driver'.ready = driver.ready
      /\ driver'.streaming = driver.streaming
      /\ driver'.format = driver.format
  BY <1>1 DEF Drivers, Loaded
<1>5. SessionKept'
  BY <1>1, <1>2, <1>3, <1>4 DEF SessionInv, SessionKept
<1>6. ForFrame' /\ Unloaded' /\ Told' /\ gsc'.on = Side
  BY <1>1, <1>3, <1>4 DEF ForFrame, Unloaded, Told, Loaded
<1> QED
  BY <1>1, <1>2, <1>5, <1>6 DEF SessionDefs, SessionAt

LEMMA ProtectSession ==
  ASSUME SessionInv, Protect PROVE SessionDefs'
<1>1. /\ at = "protect" /\ gsc # None /\ ForFrame /\ Unloaded
      /\ \/ call.isDirty /\ Untold
         \/ ~call.isDirty /\ Told /\ gsc.on = Side
      /\ protection' = (protection \/ (call.isDirty /\ gsc.allowDrm /\ gsc.drm))
      /\ at' = IF call.isDirty THEN "format" ELSE "queue"
      /\ UNCHANGED <<call, gsc, driver, job>>
  BY DEF SessionInv, SessionAt, Protect
<1>2. SessionKept'
  BY <1>1 DEF SessionInv, SessionKept
<1>3. gsc.config # None
  BY <1>1 DEF Untold, Told
<1>4. gsc.drm => gsc.allowDrm
  BY <1>1, <1>3 DEF SessionInv, SessionKept
<1>5. ForFrame' /\ Unloaded'
  BY <1>1 DEF ForFrame, Unloaded
<1>6. CASE call.isDirty
  <2>1. Untold' /\ (gsc'.drm => protection')
    BY <1>1, <1>4, <1>6 DEF Untold
  <2> QED
    BY <1>1, <1>2, <1>5, <1>6, <2>1 DEF SessionDefs, SessionAt
<1>7. CASE ~call.isDirty
  <2>1. Told' /\ gsc'.on = Side
    BY <1>1, <1>7 DEF Told
  <2> QED
    BY <1>1, <1>2, <1>5, <1>7, <2>1 DEF SessionDefs, SessionAt
<1> QED
  BY <1>6, <1>7

LEMMA SetFormatSession ==
  ASSUME SessionInv, SetFormat PROVE SessionDefs'
<1>1. /\ at = "format" /\ at' = "csc" /\ gsc \in Sessions /\ driver \in Drivers
      /\ gsc # None /\ ForFrame /\ Untold /\ (gsc.drm => protection)
      /\ driver' = [driver EXCEPT
            !.format = [s \in Side |->
                IF s \in gsc.dirty THEN gsc.config ELSE driver.format[s]],
            !.ready = @ \cup gsc.dirty]
      /\ gsc' = [gsc EXCEPT !.dirty = {}]
      /\ UNCHANGED <<call, job, protection>>
  BY DEF SessionInv, SessionAt, TypeOK, SetFormat
<1>2. gsc' \in Sessions /\ gsc' # None
  <2>1. gsc' \in Sessions
    BY <1>1 DEF Sessions
  <2> QED
    BY <2>1, NoneIsNoValue
<1>3. /\ gsc'.config = gsc.config /\ gsc'.dirty = {} /\ gsc'.on = gsc.on
      /\ gsc'.drm = gsc.drm /\ gsc'.allowDrm = gsc.allowDrm
  BY <1>1 DEF Sessions
<1>4. /\ driver'.queue = driver.queue /\ driver'.streaming = driver.streaming
      /\ driver'.ready = Side /\ driver'.format = [s \in Side |-> gsc.config]
  BY <1>1 DEF Drivers, Untold
<1>5. SessionKept'
  BY <1>1, <1>2, <1>3, <1>4 DEF SessionInv, SessionKept
<1>6. ForFrame' /\ Unloaded' /\ Told' /\ gsc'.on = {}
  BY <1>1, <1>3, <1>4 DEF ForFrame, Unloaded, Told, Untold
<1> QED
  BY <1>1, <1>2, <1>5, <1>6 DEF SessionDefs, SessionAt

LEMMA SetColorspaceSession ==
  ASSUME SessionInv, SetColorspace PROVE SessionDefs'
<1>1. /\ at = "csc" /\ at' = "queue" /\ driver \in Drivers
      /\ gsc # None /\ ForFrame /\ Unloaded /\ Told /\ gsc.on = {}
      /\ driver' = [driver EXCEPT !.colorspace = gsc.colorspace]
      /\ UNCHANGED <<call, gsc, job, protection>>
  BY DEF SessionInv, SessionAt, TypeOK, SetColorspace
<1>2. /\ driver'.queue = driver.queue /\ driver'.streaming = driver.streaming
      /\ driver'.ready = driver.ready /\ driver'.format = driver.format
  BY <1>1 DEF Drivers
<1>3. SessionKept'
  BY <1>1, <1>2 DEF SessionInv, SessionKept
<1>4. ForFrame' /\ Unloaded' /\ Told' /\ gsc'.on = {}
  BY <1>1, <1>2 DEF ForFrame, Unloaded, Told
<1> QED
  BY <1>1, <1>3, <1>4 DEF SessionDefs, SessionAt

(* The frame is what the session runs with, and is remembered as such.     *)
LEMMA QueueSession ==
  ASSUME SessionInv, QueueBuffers PROVE SessionDefs'
<1>1. /\ at = "queue" /\ gsc \in Sessions /\ driver \in Drivers
      /\ call \in Calls /\ call.frame \in Frames
      /\ gsc # None /\ ForFrame /\ Unloaded /\ Told /\ gsc.on \in {{}, Side}
      /\ driver' = [driver EXCEPT !.queue = Side]
      /\ gsc' = [gsc EXCEPT !.queued = Side]
      /\ UNCHANGED <<call, protection>>
  BY CalledTyped DEF SessionInv, SessionAt, TypeOK, QueueBuffers
<1>2. gsc' \in Sessions /\ gsc' # None
  <2>1. gsc' \in Sessions
    BY <1>1 DEF Sessions
  <2> QED
    BY <2>1, NoneIsNoValue
<1>3. /\ gsc'.config = gsc.config /\ gsc'.dirty = gsc.dirty /\ gsc'.on = gsc.on
      /\ gsc'.drm = gsc.drm /\ gsc'.allowDrm = gsc.allowDrm
      /\ gsc'.queued = Side
  BY <1>1 DEF Sessions
<1>4. /\ driver'.queue = Side /\ driver'.streaming = driver.streaming
      /\ driver'.ready = driver.ready /\ driver'.format = driver.format
  BY <1>1 DEF Drivers
<1>5. job'.frame = call.frame
  BY DEF QueueBuffers
<1>6. SessionKept'
  BY <1>1, <1>2, <1>3, <1>4, <1>5 DEF SessionInv, SessionKept, ForFrame
<1>7. ForFrame' /\ Told'
  BY <1>1, <1>3, <1>4 DEF ForFrame, Told
<1>8. CASE gsc.on = Side
  <2>1. at' = "post" /\ mConfig' = ConfigOf(call.frame)
    BY <1>8 DEF QueueBuffers, Processed
  <2>2. Loaded' /\ mConfig' = gsc'.config
    BY <1>1, <1>3, <1>4, <1>7, <1>8, <2>1 DEF Loaded, ForFrame
  <2> QED
    BY <1>6, <2>1, <2>2 DEF SessionDefs, SessionAt
<1>9. CASE gsc.on # Side
  <2>1. at' = "stream" /\ gsc'.on = {}
    BY <1>1, <1>3, <1>9 DEF QueueBuffers
  <2> QED
    BY <1>2, <1>3, <1>4, <1>6, <1>7, <2>1 DEF SessionDefs, SessionAt
<1> QED
  BY <1>8, <1>9

LEMMA StreamSession ==
  ASSUME SessionInv, NEW s \in Side, StreamOn(s) PROVE SessionDefs'
<1>1. /\ at = "stream" /\ gsc \in Sessions /\ driver \in Drivers
      /\ call \in Calls /\ call.frame \in Frames
      /\ gsc # None /\ ForFrame /\ Told /\ gsc.on \in {{}, {"src"}}
      /\ gsc.queued = Side /\ driver.queue = Side
      /\ s \notin gsc.on /\ (s = "dst" => "src" \in gsc.on)
      /\ driver' = [driver EXCEPT !.streaming = @ \cup {s}]
      /\ gsc' = [gsc EXCEPT !.on = @ \cup {s}]
      /\ UNCHANGED <<call, job, protection>>
  BY CalledTyped DEF SessionInv, SessionAt, TypeOK, StreamOn
<1>2. gsc' \in Sessions /\ gsc' # None
  <2>1. gsc' \in Sessions
    BY <1>1 DEF Sessions
  <2> QED
    BY <2>1, NoneIsNoValue
<1>3. /\ gsc'.config = gsc.config /\ gsc'.dirty = gsc.dirty
      /\ gsc'.on = gsc.on \cup {s}
      /\ gsc'.drm = gsc.drm /\ gsc'.allowDrm = gsc.allowDrm
      /\ gsc'.queued = Side
  BY <1>1 DEF Sessions
<1>4. /\ driver'.queue = Side /\ driver'.streaming = driver.streaming \cup {s}
      /\ driver'.ready = driver.ready /\ driver'.format = driver.format
  BY <1>1 DEF Drivers
<1>5. SessionKept'
  BY <1>1, <1>2, <1>3, <1>4 DEF SessionInv, SessionKept
<1>6. ForFrame' /\ Told'
  BY <1>1, <1>3, <1>4 DEF ForFrame, Told
<1>7. CASE s = "dst"
  <2>1. at' = "post" /\ mConfig' = ConfigOf(call.frame)
    BY <1>7 DEF StreamOn, Processed
  <2>2. gsc'.on = Side
    BY <1>1, <1>3, <1>7 DEF Side
  <2>3. Loaded' /\ mConfig' = gsc'.config
    BY <1>1, <1>3, <1>4, <1>6, <2>1, <2>2 DEF Loaded, ForFrame
  <2> QED
    BY <1>5, <2>1, <2>3 DEF SessionDefs, SessionAt
<1>8. CASE s = "src"
  <2>1. at' = "stream"
    BY <1>1, <1>8 DEF StreamOn
  <2>2. gsc'.on = {"src"}
    BY <1>1, <1>3, <1>8
  <2> QED
    BY <1>2, <1>3, <1>4, <1>5, <1>6, <2>1, <2>2 DEF SessionDefs, SessionAt
<1> QED
  BY <1>7, <1>8 DEF Side

-----------------------------------------------------------------------------
LEMMA NextSession ==
  ASSUME SessionInv, [Next]_vars PROVE SessionDefs'
<1>1. CASE UNCHANGED vars
  BY <1>1, SameSession DEF vars, mppVars, sessionVars
<1>2. CASE Next
  BY <1>2, ConvertSession, FlipSession, PostSession, BeginSession,
     AllocateSession, AllocationFailsSession, SessionFailsSession,
     ConfigureSession, EnterRunSession, WaitSession, ProtectSession,
     SetFormatSession, SetColorspaceSession, QueueSession, StreamSession,
     CleanupSession
     DEF Next, Proceed, NewFrame
<1> QED
  BY <1>1, <1>2

(* The session, the driver and processM2M's memory of the last frame keep  *)
(* in step at every place of a frame.                                      *)
THEOREM SessionInvariant == Spec => []SessionInv
<1>1. Init => SessionInv
  BY InitTyped
<1>2. SessionInv /\ [Next]_vars => SessionInv'
  BY NextTyped, NextSession DEF SessionInv, SessionDefs
<1> QED
  BY <1>1, <1>2, PTL DEF Spec

(* Every variable of processM2M, set, the session and the display keeps    *)
(* its type, the ring its bounds and the display its queue.                *)
THEOREM GscTypeCorrect == Spec => []TypeOK
<1>1. SessionInv => TypeOK
  BY DEF SessionInv
<1> QED
  BY <1>1, SessionInvariant, PTL

(* The driver of the gscaler is never asked for what it has to refuse.     *)
THEOREM DriverIsAsked == Spec => []DriverAsked
<1>1. SessionInv => DriverAsked
  <2> SUFFICES ASSUME SessionInv PROVE DriverAsked
    OBVIOUS
  <2>1. at = "format" => gsc.dirty \cap driver.ready = {}
    BY DEF SessionInv, SessionAt, Untold
  <2>2. at = "queue" => driver.ready = Side /\ job = None /\ driver.queue = {}
    BY DEF SessionInv, SessionAt, Told, Unloaded
  <2>3. at = "stream" => gsc.on = driver.streaming
    BY DEF SessionInv, SessionAt, SessionKept
  <2>4. at = "wait" => driver.streaming = Side /\ gsc.queued = driver.queue
    BY DEF SessionInv, SessionAt, SessionKept, Loaded
  <2> QED
    BY <2>1, <2>2, <2>3, <2>4 DEF DriverAsked
<1> QED
  BY <1>1, SessionInvariant, PTL

(* While a conversion runs, the driver has been told what the session was  *)
(* configured with.                                                        *)
LEMMA JobIsTold == ASSUME SessionInv, job # None PROVE Told
<1>1. gsc # None
  BY DEF SessionInv, SessionKept
<1>2. at \in {"idle", "buffers", "configure", "run", "wait", "stream", "post",
             "cleanup"}
  BY DEF SessionInv, TypeOK, SessionAt, Unloaded, Untold
<1> QED
  BY <1>1, <1>2 DEF SessionInv, SessionAt, Loaded, Fresh, Untold

(* A conversion runs with the sizes and formats of its frame.              *)
THEOREM ConvertedAsAsked == Spec => []ConvertsAsAsked
<1>1. SessionInv => ConvertsAsAsked
  BY JobIsTold DEF ConvertsAsAsked, SessionInv, SessionKept, Told
<1> QED
  BY <1>1, SessionInvariant, PTL

(* A secure layer is converted with the content protection on.             *)
THEOREM SecureIsProtected == Spec => []ProtectedWhileSecure
<1>1. SessionInv => ProtectedWhileSecure
  <2> SUFFICES ASSUME SessionInv, job # None, IsSecure(job.frame)
               PROVE  protection
    BY DEF ProtectedWhileSecure
  <2>1. Told /\ gsc # None /\ gsc.config = ConfigOf(job.frame)
    BY JobIsTold DEF SessionInv, SessionKept
  <2>2. gsc.drm = gsc.config.secure
    BY <2>1 DEF SessionInv, SessionKept, Told
  <2>3. gsc.config.secure = IsSecure(job.frame)
    BY <2>1 DEF ConfigOf
  <2> QED
    BY <2>1, <2>2, <2>3 DEF Told
<1> QED
  BY <1>1, SessionInvariant, PTL

-----------------------------------------------------------------------------
(* The ring and the screen: definitions.                                   *)

(* The buffers of the ring that have been allocated are of the kind of f.  *)
RingFor(f) ==
  /\ mBufferType = f.type
  /\ \A i \in Ring : i < mAllocatedBufferNum =>
        mDstBuffers[i] = [type |-> f.type, format |-> f.format]

(* The ring is full, or the next buffer is the next one to be allocated.   *)
NextFits(f) == RingFor(f) /\ mAllocatedBufferNum \in {mCurrentBuf, NumBuffers}

(* The ring is full, or the current buffer was allocated last.             *)
CurrentFits(f) ==
  RingFor(f) /\ mAllocatedBufferNum \in {mCurrentBuf + 1, NumBuffers}

Converting == {"configure", "run", "wait", "protect", "format", "csc",
               "queue", "stream"}

(* What the ring holds at each place of processM2M and set.  A frame whose *)
(* session is created again without being configured fails at the latest   *)
(* when it is run, and may come with a ring of another kind.               *)
RingAt ==
  /\ at \in {"idle", "cleanup"} /\ mConfig # None =>
       \E f \in Frames : /\ f.handle = mLastMPPLayerHandle
                         /\ mConfig = ConfigOf(f)
                         /\ NextFits(f) /\ mAllocatedBufferNum > 0
  /\ at \notin {"idle", "cleanup"} => mLastMPPLayerHandle = call.frame.handle
  /\ at = "buffers" =>
       NextFits(call.frame) \/ (gsc = None /\ ~call.reconfigure)
  /\ at \in Converting \cup {"buffers"} => call.done = "converted"
  /\ at \in Converting =>
       CurrentFits(call.frame) \/ (at = "run" /\ gsc.config = None)
  /\ at = "post" =>
       IF call.done = "failed" THEN mConfig = None
       ELSE mConfig = ConfigOf(call.frame) /\ CurrentFits(call.frame)

(* The fence of the last retired frame is that of the last frame posted.   *)
RetireLast ==
  IF mLastRetireFence = None
  THEN /\ mLastConfigData = None
       /\ Len(display) = 1 /\ display[1].buffer = None
  ELSE mLastRetireFence = Len(display)

(* Until its conversion is posted, the fence of the buffer it writes is    *)
(* the one that the conversion waits for.                                  *)
JobHasFence(i) ==
  /\ at \in {"stream", "post"} /\ job # None
  /\ job.buffer = display[i].buffer /\ job.buffer = mCurrentBuf
  /\ job.waits >= i

(* What the display has not replaced has a fence that signals no sooner.   *)
FenceKept ==
  \A i \in DOMAIN display : display[i].buffer \in Ring \ {Freed} =>
     mDstBufFence[display[i].buffer] >= i \/ JobHasFence(i)

JobWaits ==
  job # None => \A i \in DOMAIN display :
     display[i].buffer = job.buffer /\ job.buffer # Freed =>
        display[i].state \in {"waiting", "unfenced"} \/ job.waits >= i

RingInv == RingAt /\ RetireLast
ScreenInv == FenceKept /\ JobWaits

-----------------------------------------------------------------------------
(* The ring of destination buffers.                                        *)

LEMMA NextOfRing ==
  ASSUME NEW i \in Ring
  PROVE  /\ (i + 1) % NumBuffers = IF i + 1 = NumBuffers THEN 0 ELSE i + 1
         /\ i > 0 => (i + NumBuffers - 1) % NumBuffers = i - 1
<1>1. NumBuffers \in Nat \ {0} /\ i \in Nat /\ i < NumBuffers
  BY RingAndQueue DEF Ring
<1>2. CASE i + 1 = NumBuffers
  BY <1>1, <1>2
<1>3. CASE i + 1 < NumBuffers
  BY <1>1, <1>3
<1>4. ASSUME i > 0 PROVE (i + NumBuffers - 1) % NumBuffers = i - 1
  <2>1. i + NumBuffers - 1 = NumBuffers + (i - 1)
    BY <1>1
  <2>2. i - 1 \in Nat /\ i - 1 < NumBuffers
    BY <1>1, <1>4
  <2> QED
    BY <1>1, <2>1, <2>2
<1> QED
  BY <1>1, <1>2, <1>3, <1>4

(* The conversion and the display leave the ring alone.                    *)
LEMMA RingSame ==
  ASSUME RingAt,
         UNCHANGED <<at, call, mConfig, mBufferType, mDstBuffers, mCurrentBuf,
                     mAllocatedBufferNum, mLastMPPLayerHandle, gsc>>
  PROVE  RingAt'
BY DEF RingAt, NextFits, CurrentFits, RingFor

(* A frame is begun: the ring fits it, or begins again, or the frame will  *)
(* fail for want of a configured session.                                  *)
LEMMA BeginRing ==
  ASSUME SessionInv, RingAt, NEW f \in Frames, Begin(f) PROVE RingAt'
<1>1. /\ at = "idle" /\ at' = "buffers"
      /\ call' = LocalsOf(f, "converted") /\ DestroyStale(f)
      /\ mLastMPPLayerHandle' = f.handle
      /\ UNCHANGED <<mConfig, mDstBuffers>>
  BY DEF Begin
<1>2. /\ call'.frame = f /\ call'.done = "converted"
      /\ call'.reconfigure = Reconfigure(f)
  BY <1>1 DEF LocalsOf
<1>3. NextFits(f)' \/ (gsc' = None /\ ~Reconfigure(f))
  <2>1. CASE Reconfigure(f) /\ DstRealloc(f)
    <3>1. mBufferType' = f.type /\ mCurrentBuf' = 0 /\ mAllocatedBufferNum' = 0
      BY <2>1 DEF Begin
    <3>2. \A i \in Ring : ~(i < 0)
      BY DEF Ring
    <3> QED
      BY <3>1, <3>2 DEF NextFits, RingFor
  <2>2. CASE ~(Reconfigure(f) /\ DstRealloc(f))
    <3>1. UNCHANGED <<mBufferType, mCurrentBuf, mAllocatedBufferNum>>
      BY <2>2 DEF Begin
    <3>2. mConfig # None /\ mConfig.format = f.format
      BY <2>2, FrameFacts DEF Reconfigure, DstRealloc, ConfigOf
    <3>3. PICK g \in Frames : NextFits(g) /\ mConfig = ConfigOf(g)
      BY <1>1, <3>2 DEF RingAt
    <3>4. g.format = f.format
      BY <3>2, <3>3 DEF ConfigOf
    <3>5. CASE mBufferType = f.type
      BY <1>1, <3>1, <3>3, <3>4, <3>5 DEF NextFits, RingFor
    <3>6. CASE mBufferType # f.type
      <4>1. ~Reconfigure(f)
        BY <2>2, <3>6 DEF DstRealloc
      <4>2. gsc' = None
        BY <1>1, <3>6 DEF DestroyStale, IsStale, CloseSession, sessionVars
      <4> QED
        BY <4>1, <4>2
    <3> QED
      BY <3>5, <3>6
  <2> QED
    BY <2>1, <2>2
<1> QED
  BY <1>1, <1>2, <1>3 DEF RingAt, Converting

(* A frame of the same buffer as the last one finds the ring that the last *)
(* one left, and steps back to the buffer it was converted to.             *)
LEMMA ReuseRing ==
  ASSUME SessionInv, RingAt, NEW f \in Frames, Reuse(f) PROVE RingAt'
<1>1. /\ at = "idle" /\ at' = "post" /\ Reusable(f)
      /\ call' = LocalsOf(f, "reused")
      /\ mCurrentBuf' = (mCurrentBuf + NumBuffers - 1) % NumBuffers
      /\ UNCHANGED <<mConfig, mBufferType, mDstBuffers, mAllocatedBufferNum,
                     mLastMPPLayerHandle>>
  BY DEF Reuse
<1>2. call'.frame = f /\ call'.done = "reused"
  BY <1>1 DEF LocalsOf
<1>3. mConfig = ConfigOf(f) /\ mConfig # None /\ mLastMPPLayerHandle = f.handle
  BY <1>1, FrameFacts DEF Reusable, Reconfigure
<1>4. PICK g \in Frames :
         /\ g.handle = mLastMPPLayerHandle
         /\ NextFits(g) /\ mAllocatedBufferNum > 0
  BY <1>1, <1>3 DEF RingAt
<1>5. g.type = f.type /\ g.format = f.format
  BY <1>3, <1>4, FrameFields
<1>6. RingFor(f)'
  BY <1>1, <1>4, <1>5 DEF NextFits, RingFor
<1>7. mAllocatedBufferNum' \in {mCurrentBuf' + 1, NumBuffers}
  <2>1. CASE mAllocatedBufferNum = NumBuffers
    BY <1>1, <2>1
  <2>2. CASE mAllocatedBufferNum = mCurrentBuf
    <3>1. mCurrentBuf \in Ring /\ mCurrentBuf > 0 /\ mCurrentBuf \in Nat
      BY <1>4, <2>2 DEF SessionInv, TypeOK, Ring
    <3>2. mCurrentBuf' = mCurrentBuf - 1
      BY <1>1, <3>1, NextOfRing
    <3> QED
      BY <1>1, <2>2, <3>1, <3>2
  <2> QED
    BY <1>4, <2>1, <2>2 DEF NextFits
<1> QED
  BY <1>1, <1>2, <1>3, <1>6, <1>7 DEF RingAt, CurrentFits, Converting

LEMMA AllocateRing ==
  ASSUME SessionInv, RingAt, AllocateAndOpen PROVE RingAt'
<1>1. /\ at = "buffers" /\ at' \in {"configure", "run"}
      /\ UNCHANGED <<call, mConfig, mBufferType, mCurrentBuf,
                     mLastMPPLayerHandle>>
      /\ at' = "run" <=> ~call.reconfigure
  BY CalledTyped DEF AllocateAndOpen, SessionInv, Calls
<1>2. call.done = "converted" /\ mLastMPPLayerHandle = call.frame.handle
  BY <1>1 DEF RingAt
<1>3. CASE NextFits(call.frame)
  <2>1. CASE mAllocatedBufferNum < NumBuffers
    <3>1. /\ mDstBuffers \in [Ring -> Buffers \cup {None}]
          /\ mCurrentBuf \in Ring /\ mCurrentBuf \in Nat
          /\ mAllocatedBufferNum = mCurrentBuf
      BY <1>3, <2>1 DEF SessionInv, TypeOK, NextFits, Ring
    <3>2. /\ mDstBuffers' = [mDstBuffers EXCEPT ![mCurrentBuf] =
               [type |-> call.frame.type, format |-> call.frame.format]]
          /\ mAllocatedBufferNum' = mAllocatedBufferNum + 1
      BY <2>1 DEF AllocateAndOpen
    <3>3. ASSUME NEW i \in Ring, i < mAllocatedBufferNum'
          PROVE  mDstBuffers'[i] = [type |-> call.frame.type,
                                    format |-> call.frame.format]
      <4>1. i < mAllocatedBufferNum \/ i = mCurrentBuf
        BY <3>1, <3>2, <3>3 DEF Ring
      <4> QED
        BY <1>3, <3>1, <3>2, <4>1 DEF NextFits, RingFor
    <3>4. CurrentFits(call.frame)'
      BY <1>1, <1>3, <3>1, <3>2, <3>3 DEF CurrentFits, NextFits, RingFor
    <3> QED
      BY <1>1, <1>2, <3>4 DEF RingAt, Converting
  <2>2. CASE ~(mAllocatedBufferNum < NumBuffers)
    <3>1. UNCHANGED <<mDstBuffers, mAllocatedBufferNum>>
      BY <2>2 DEF AllocateAndOpen
    <3>2. mAllocatedBufferNum = NumBuffers
      BY <2>2, RingFacts DEF SessionInv, TypeOK
    <3>3. CurrentFits(call.frame)'
      BY <1>1, <1>3, <3>1, <3>2 DEF CurrentFits, NextFits, RingFor
    <3> QED
      BY <1>1, <1>2, <3>3 DEF RingAt, Converting
  <2> QED
    BY <2>1, <2>2
<1>4. CASE gsc = None /\ ~call.reconfigure
  <2>1. at' = "run" /\ gsc'.config = None
    BY <1>1, <1>4 DEF AllocateAndOpen, NewSession
  <2> QED
    BY <1>1, <1>2, <2>1 DEF RingAt, Converting
<1> QED
  BY <1>1, <1>3, <1>4 DEF RingAt

(* Whatever fails, the ring is forgotten.                                  *)
LEMMA FailRing ==
  ASSUME SessionInv, RingAt, AllocationFails \/ SessionFails PROVE RingAt'
<1>1. at \notin {"idle", "cleanup"} /\ call \in Calls
  BY CalledTyped DEF SessionInv, AllocationFails, SessionFails
<1>2. /\ at' = "post" /\ mConfig' = None
      /\ mLastMPPLayerHandle' = mLastMPPLayerHandle
      /\ call' = [call EXCEPT !.done = "failed"]
  BY DEF AllocationFails, SessionFails, Reset
<1>3. call'.done = "failed" /\ call'.frame = call.frame
  BY <1>1, <1>2 DEF Calls
<1> QED
  BY <1>1, <1>2, <1>3 DEF RingAt, Converting

(* Between the allocation and the end of the frame nothing is allocated.   *)
LEMMA RunRing ==
  ASSUME SessionInv, RingAt,
         \/ Configure \/ EnterRun \/ WaitFrameDone \/ Protect
         \/ SetFormat \/ SetColorspace
  PROVE  RingAt'
<1>1. /\ at \in Converting /\ at' \in Converting /\ call \in Calls
      /\ UNCHANGED mppVars
  BY CalledTyped DEF SessionInv, Configure, EnterRun, WaitFrameDone, Protect,
     SetFormat, SetColorspace, Converting
<1>2. call'.frame = call.frame /\ call'.done = call.done
  BY <1>1 DEF Configure, EnterRun, WaitFrameDone, Protect, SetFormat,
     SetColorspace, Calls
<1>3. ~(at = "run" /\ gsc.config = None)
  BY DEF Configure, EnterRun, WaitFrameDone, Protect, SetFormat, SetColorspace
<1>4. CurrentFits(call.frame)'
  BY <1>1, <1>2, <1>3 DEF RingAt, CurrentFits, RingFor, mppVars
<1> QED
  BY <1>1, <1>2, <1>4 DEF RingAt, Converting, mppVars

LEMMA QueueRing ==
  ASSUME SessionInv, RingAt, QueueBuffers \/ \E s \in Side : StreamOn(s)
  PROVE  RingAt'
<1>1. /\ at \in {"queue", "stream"}
      /\ \/ at' = "post" /\ mConfig' = ConfigOf(call.frame)
         \/ at' = "stream"
      /\ UNCHANGED <<call, mBufferType, mDstBuffers, mCurrentBuf,
                     mAllocatedBufferNum, mLastMPPLayerHandle>>
  BY DEF QueueBuffers, StreamOn, Processed
<1>2. CurrentFits(call.frame)'
  BY <1>1 DEF RingAt, CurrentFits, RingFor, Converting
<1> QED
  BY <1>1, <1>2 DEF RingAt, Converting

(* The frame is posted: the ring moves on to the next buffer.              *)
LEMMA ReturnsRing ==
  ASSUME SessionInv, RingInv, PostFrame \/ SkipFrame \/ ClearDisplay
  PROVE  RingAt'
<1>1. /\ at = "post" /\ at' = "idle" /\ call.frame \in Frames
      /\ UNCHANGED <<mConfig, mBufferType, mDstBuffers, mAllocatedBufferNum,
                     mLastMPPLayerHandle>>
  BY CalledTyped DEF SessionInv, PostFrame, SkipFrame, ClearDisplay, SetReturns
<1>2. CASE mConfig = None
  BY <1>1, <1>2 DEF RingAt, Converting
<1>3. CASE mConfig # None
  <2> PICK f \in Frames : f = call.frame
    BY <1>1
  <2>1. /\ mConfig = ConfigOf(f) /\ CurrentFits(f)
        /\ mLastMPPLayerHandle = f.handle
        /\ BufferToShow = mCurrentBuf
    BY <1>1, <1>3 DEF RingInv, RingAt, BufferToShow
  <2>2. /\ mCurrentBuf \in Ring /\ mCurrentBuf \in Nat /\ mCurrentBuf # None
        /\ NumBuffers \in Nat \ {0}
    BY RingAndQueue, NoneIsNoValue DEF SessionInv, TypeOK, Ring
  <2>3. mCurrentBuf' = (mCurrentBuf + 1) % NumBuffers
    <3>1. CASE SkipFrame
      BY <2>1, <2>2, <3>1 DEF SkipFrame, RingInv, RetireLast, DupFence
    <3>2. CASE PostFrame \/ ClearDisplay
      BY <3>2 DEF PostFrame, ClearDisplay, DupFence
    <3> QED
      BY <3>1, <3>2
  <2>4. mAllocatedBufferNum' \in {mCurrentBuf', NumBuffers}
    BY <1>1, <2>1, <2>2, <2>3, NextOfRing DEF CurrentFits
  <2>5. mAllocatedBufferNum' > 0
    BY <1>1, <2>1, <2>2 DEF CurrentFits
  <2>6. NextFits(f)'
    BY <1>1, <2>1, <2>4 DEF CurrentFits, NextFits, RingFor
  <2> QED
    BY <1>1, <2>1, <2>5, <2>6 DEF RingAt, Converting
<1> QED
  BY <1>2, <1>3

LEMMA WithoutRing ==
  ASSUME SessionInv, RingAt, PostWithout \/ NothingToCleanup \/ CleanupM2M
  PROVE  RingAt'
<1>1. at \in {"idle", "cleanup"} /\ at' \in {"idle", "cleanup"}
  BY DEF PostWithout, NothingToCleanup, CleanupM2M
<1>2. CASE CleanupM2M
  BY <1>1, <1>2 DEF CleanupM2M, RingAt, Converting
<1>3. CASE ~CleanupM2M
  <2>1. UNCHANGED mppVars
    BY <1>3 DEF PostWithout, NothingToCleanup
  <2> QED
    BY <1>1, <2>1 DEF RingAt, Converting, NextFits, RingFor, mppVars
<1> QED
  BY <1>2, <1>3

LEMMA NextRing ==
  ASSUME SessionInv, RingInv, [Next]_vars PROVE RingAt'
<1>1. RingAt
  BY DEF RingInv
<1>2. CASE UNCHANGED vars
  BY <1>1, <1>2, RingSame DEF vars, mppVars, sessionVars
<1>3. CASE Convert \/ Flip
  BY <1>1, <1>3, RingSame DEF Convert, Flip, mppVars
<1>4. CASE Proceed \/ NewFrame
  BY <1>1, <1>4, BeginRing, ReuseRing, AllocateRing, FailRing, RunRing, QueueRing,
     ReturnsRing, WithoutRing DEF Proceed, NewFrame
<1> QED
  BY <1>2, <1>3, <1>4 DEF Next

-----------------------------------------------------------------------------
(* The fences of the display.                                              *)

LEMMA DisplayTyped ==
  ASSUME TypeOK
  PROVE  /\ display \in Seq(Posts) /\ Len(display) \in Nat /\ Len(display) > 0
         /\ DOMAIN display = 1 .. Len(display)
         /\ \A i \in DOMAIN display : display[i] \in Posts /\ i \in Nat /\ i > 0
<1>1. display \in Seq(Posts) /\ Len(display) \in 1 .. MaxQueued
  BY DEF TypeOK
<1> QED
  BY <1>1, RingFacts

(* What was posted keeps its place and its buffer; only what waits for the *)
(* conversion changes its state.                                           *)
LEMMA SettledKeeps ==
  ASSUME TypeOK, NEW state
  PROVE  /\ DOMAIN Settled(state) = DOMAIN display
         /\ Len(Settled(state)) = Len(display)
         /\ \A i \in DOMAIN display :
               Settled(state)[i].buffer = display[i].buffer
<1>1. \A i \in DOMAIN display : Settled(state)[i].buffer = display[i].buffer
  BY DisplayTyped DEF Settled, Posts
<1> QED
  BY <1>1, DisplayTyped DEF Settled

(* Buffers that leave the ring leave their places in the display alone.    *)
LEMMA LeaveKeeps ==
  ASSUME NEW posts \in Seq(Posts), NEW buffers, Leave(buffers, posts)
  PROVE  /\ DOMAIN display' = DOMAIN posts /\ Len(display') = Len(posts)
         /\ \A i \in DOMAIN posts :
               /\ display'[i].state = posts[i].state
               /\ display'[i].buffer = IF posts[i].buffer \in buffers THEN Freed
                                       ELSE posts[i].buffer
<1>1. \A i \in DOMAIN posts : posts[i] \in Posts
  OBVIOUS
<1> QED
  BY <1>1 DEF Leave, Posts

(* Steps that change neither what is posted nor what it waits for.         *)
LEMMA SameScreen ==
  ASSUME ScreenInv, UNCHANGED <<display, job, mDstBufFence>>,
         at \in {"stream", "post"} =>
           at' \in {"stream", "post"} /\ mCurrentBuf' = mCurrentBuf
  PROVE  ScreenInv'
BY DEF ScreenInv, FenceKept, JobWaits, JobHasFence

(* The conversion ends, or is dropped while its fence is in the ring.      *)
LEMMA SettleScreen ==
  ASSUME TypeOK, ScreenInv, NEW state, display' = Settled(state), job' = None,
         mDstBufFence' = mDstBufFence,
         \A i \in DOMAIN display : ~JobHasFence(i)
  PROVE  ScreenInv'
<1>1. \A i \in DOMAIN display :
         display[i].buffer \in Ring \ {Freed} => mDstBufFence[display[i].buffer] >= i
  BY DEF ScreenInv, FenceKept
<1>2. FenceKept'
  BY <1>1, SettledKeeps DEF FenceKept
<1> QED
  BY <1>2 DEF ScreenInv, JobWaits

(* All buffers leave the ring.                                             *)
LEMMA EmptyScreen ==
  ASSUME NEW posts \in Seq(Posts), Leave(Ring, posts),
         job' = None \/ job'.buffer = Freed,
         \A i \in DOMAIN posts : posts[i].buffer \in Ring \cup {Freed, None}
  PROVE  ScreenInv'
<1>1. DOMAIN display' = DOMAIN posts
  BY LeaveKeeps
<1>2. \A i \in DOMAIN display' : display'[i].buffer \notin Ring \ {Freed}
  BY <1>1, LeaveKeeps
<1> QED
  BY <1>2 DEF ScreenInv, FenceKept, JobWaits

LEMMA ConvertScreen ==
  ASSUME TypeOK, ScreenInv, Convert PROVE ScreenInv'
<1>1. \A i \in DOMAIN display : ~JobHasFence(i)
  BY DisplayTyped DEF Convert, JobHasFence
<1> QED
  BY <1>1, SettleScreen DEF Convert, mppVars

LEMMA FlipScreen ==
  ASSUME TypeOK, ScreenInv, Flip PROVE ScreenInv'
<1>1. /\ display' = Tail(display) /\ Len(display) > 1
      /\ mDstBufFence' = [i \in Ring |-> Sooner(mDstBufFence[i])]
      /\ job' = IF job = None THEN None ELSE [job EXCEPT !.waits = Sooner(@)]
      /\ UNCHANGED <<at, mCurrentBuf>>
  BY DEF Flip
<1>2. ASSUME NEW i \in DOMAIN display'
      PROVE  /\ i + 1 \in DOMAIN display /\ display'[i] = display[i + 1]
             /\ i \in Nat /\ i > 0
  BY <1>1, <1>2, DisplayTyped
<1>3. ASSUME NEW k \in Nat, NEW i \in Nat, k >= i + 1
      PROVE  Sooner(k) >= i
  BY <1>3 DEF Sooner
<1>4. ASSUME job # None
      PROVE  /\ job' # None /\ job'.buffer = job.buffer
             /\ job'.waits = Sooner(job.waits) /\ job.waits \in Nat
  <2>1. job \in Jobs /\ job' = [job EXCEPT !.waits = Sooner(@)]
    BY <1>1, <1>4 DEF TypeOK
  <2>2. job.waits \in 0 .. MaxQueued /\ Sooner(job.waits) \in 0 .. MaxQueued
    BY <2>1, RingFacts DEF Jobs, Sooner
  <2>3. job' \in Jobs
    BY <2>1, <2>2 DEF Jobs
  <2> QED
    BY <2>1, <2>2, <2>3, NoneIsNoValue DEF Jobs
<1>5. FenceKept'
  <2> SUFFICES ASSUME NEW i \in DOMAIN display',
                      display'[i].buffer \in Ring \ {Freed}
               PROVE  mDstBufFence'[display'[i].buffer] >= i \/ JobHasFence(i)'
    BY DEF FenceKept
  <2>1. mDstBufFence[display[i + 1].buffer] >= i + 1 \/ JobHasFence(i + 1)
    BY <1>2 DEF ScreenInv, FenceKept
  <2>2. CASE mDstBufFence[display[i + 1].buffer] >= i + 1
    <3>1. mDstBufFence[display[i + 1].buffer] \in Nat
      BY <1>2, RingFacts DEF TypeOK
    <3>2. Sooner(mDstBufFence[display[i + 1].buffer]) >= i
      BY <1>2, <1>3, <2>2, <3>1
    <3> QED
      BY <1>1, <1>2, <3>2
  <2>3. CASE JobHasFence(i + 1)
    BY <1>1, <1>2, <1>3, <1>4, <2>3 DEF JobHasFence
  <2> QED
    BY <2>1, <2>2, <2>3
<1>6. JobWaits'
  <2> SUFFICES ASSUME job' # None, NEW i \in DOMAIN display',
                      display'[i].buffer = job'.buffer, job'.buffer # Freed,
                      display'[i].state \notin {"waiting", "unfenced"}
               PROVE  job'.waits >= i
    BY DEF JobWaits
  <2>1. job # None
    BY <1>1
  <2>2. job.waits >= i + 1
    BY <1>2, <1>4, <2>1 DEF ScreenInv, JobWaits
  <2> QED
    BY <1>2, <1>3, <1>4, <2>1, <2>2
<1> QED
  BY <1>5, <1>6 DEF ScreenInv

LEMMA BeginScreen ==
  ASSUME TypeOK, ScreenInv, NEW f \in Frames, Begin(f) \/ Reuse(f)
  PROVE  ScreenInv'
<1>1. at = "idle" /\ DestroyStale(f) /\ mDstBufFence' = mDstBufFence
  BY DEF Begin, Reuse
<1>2. CASE IsStale(f)
  BY <1>1, <1>2, SettleScreen DEF DestroyStale, CloseSession, JobHasFence
<1>3. CASE ~IsStale(f)
  BY <1>1, <1>3, SameScreen DEF DestroyStale, sessionVars
<1> QED
  BY <1>2, <1>3

LEMMA AllocateScreen ==
  ASSUME TypeOK, ScreenInv, AllocateAndOpen PROVE ScreenInv'
<1>1. at = "buffers" /\ at' \in {"configure", "run"}
  BY DEF AllocateAndOpen
<1>2. CASE mAllocatedBufferNum < NumBuffers
  <2>1. /\ mDstBufFence' = [mDstBufFence EXCEPT ![mCurrentBuf] = 0]
        /\ Leave({mCurrentBuf}, display)
        /\ job' = IF job = None \/ job.buffer # mCurrentBuf THEN job
                  ELSE [job EXCEPT !.buffer = Freed]
    BY <1>2 DEF AllocateAndOpen
  <2>2. /\ DOMAIN display' = DOMAIN display
        /\ \A i \in DOMAIN display :
              /\ display'[i].state = display[i].state
              /\ display'[i].buffer # Freed =>
                   /\ display'[i].buffer = display[i].buffer
                   /\ display[i].buffer # mCurrentBuf
    BY <2>1, DisplayTyped, LeaveKeeps
  <2>3. \A i \in DOMAIN display :
           display[i].buffer \in Ring \ {Freed} =>
              mDstBufFence[display[i].buffer] >= i
    BY <1>1 DEF ScreenInv, FenceKept, JobHasFence
  <2>4. FenceKept'
    BY <2>1, <2>2, <2>3 DEF FenceKept, TypeOK
  <2>5. job' # None /\ job'.buffer # Freed => job' = job
    BY <2>1 DEF TypeOK, Jobs
  <2>6. JobWaits'
    BY <2>2, <2>5 DEF ScreenInv, JobWaits
  <2> QED
    BY <2>4, <2>6 DEF ScreenInv
<1>3. CASE ~(mAllocatedBufferNum < NumBuffers)
  BY <1>1, <1>3, SameScreen DEF AllocateAndOpen
<1> QED
  BY <1>2, <1>3

LEMMA FailScreen ==
  ASSUME TypeOK, AllocationFails \/ SessionFails \/ CleanupM2M
  PROVE  ScreenInv'
<1>1. \A i \in DOMAIN display : display[i].buffer \in Ring \cup {Freed, None}
  BY DisplayTyped DEF Posts
<1>2. CASE AllocationFails
  <2>1. job' = None \/ job'.buffer = Freed
    BY <1>2 DEF AllocationFails, TypeOK, Jobs
  <2> QED
    BY <1>1, <1>2, <2>1, EmptyScreen, DisplayTyped DEF AllocationFails
<1>3. CASE SessionFails \/ CleanupM2M
  <2>1. job' = None /\ Leave(Ring, Settled("dropped"))
    BY <1>3 DEF SessionFails, CleanupM2M, CloseSession
  <2>2. Settled("dropped") \in Seq(Posts)
    BY SettledPosts DEF TypeOK
  <2>3. \A i \in DOMAIN Settled("dropped") :
           Settled("dropped")[i].buffer \in Ring \cup {Freed, None}
    BY <1>1, SettledKeeps
  <2> QED
    BY <2>1, <2>2, <2>3, EmptyScreen
<1> QED
  BY <1>2, <1>3

LEMMA RunScreen ==
  ASSUME TypeOK, ScreenInv,
         \/ Configure \/ EnterRun \/ WaitFrameDone \/ Protect
         \/ SetFormat \/ SetColorspace \/ \E s \in Side : StreamOn(s)
  PROVE  ScreenInv'
<1>1. mDstBufFence' = mDstBufFence /\ mCurrentBuf' = mCurrentBuf
  BY DEF Configure, EnterRun, WaitFrameDone, Protect, SetFormat, SetColorspace,
         StreamOn, mppVars
<1>2. CASE Configure /\ gsc.on # {}
  BY <1>1, <1>2, SettleScreen DEF Configure, JobHasFence
<1>3. CASE ~(Configure /\ gsc.on # {})
  <2>1. /\ UNCHANGED <<display, job>>
        /\ at \in {"stream", "post"} => at' \in {"stream", "post"}
    BY <1>3 DEF Configure, EnterRun, WaitFrameDone, Protect, SetFormat,
       SetColorspace, StreamOn, Processed, sessionVars, displayVars
  <2> QED
    BY <1>1, <2>1, SameScreen
<1> QED
  BY <1>2, <1>3

(* The conversion takes over the fence of its buffer.                      *)
LEMMA QueueScreen ==
  ASSUME SessionInv, ScreenInv, QueueBuffers PROVE ScreenInv'
<1>1. /\ at = "queue" /\ at' \in {"post", "stream"} /\ TypeOK
      /\ job' = [buffer |-> mCurrentBuf, frame |-> call.frame,
                 waits |-> mDstBufFence[mCurrentBuf]]
      /\ mDstBufFence' = [mDstBufFence EXCEPT ![mCurrentBuf] = 0]
      /\ UNCHANGED <<display, mCurrentBuf>>
  BY DEF QueueBuffers, SessionInv, Processed, displayVars
<1>2. job' \in Jobs /\ job' # None
  <2>1. job' \in Jobs
    BY <1>1, CalledTyped DEF TypeOK, Jobs
  <2> QED
    BY <2>1, NoneIsNoValue
<1>3. \A i \in DOMAIN display :
         display[i].buffer \in Ring \ {Freed} => mDstBufFence[display[i].buffer] >= i
  BY <1>1 DEF ScreenInv, FenceKept, JobHasFence
<1>4. FenceKept'
  BY <1>1, <1>2, <1>3 DEF FenceKept, JobHasFence, TypeOK
<1>5. JobWaits'
  BY <1>1, <1>3 DEF JobWaits, TypeOK
<1> QED
  BY <1>4, <1>5 DEF ScreenInv

(* A frame is posted, skipped or cleared: its buffer has a fence that      *)
(* signals no sooner than the last frame posted is replaced.               *)
LEMMA ReturnsScreen ==
  ASSUME SessionInv, RingInv, ScreenInv, PostFrame \/ SkipFrame \/ ClearDisplay
  PROVE  ScreenInv'
<1>1. /\ at = "post" /\ at' = "idle" /\ job' = job /\ TypeOK
      /\ \/ display' = display /\ SkipFrame
         \/ display' = Append(display, FrameToShow) /\ PostFrame
         \/ display' = Append(display, NoFrame)
  BY DEF SessionInv, PostFrame, SkipFrame, ClearDisplay, SetReturns, sessionVars,
         displayVars
<1>2. \/ /\ mDstBufFence' = [mDstBufFence EXCEPT ![mCurrentBuf] = Len(display')]
      \/ /\ mLastRetireFence = None /\ display' = display
         /\ mDstBufFence' = mDstBufFence
  <2>1. CASE SkipFrame
    BY <1>1, <2>1 DEF SkipFrame, DupFence, RingInv, RetireLast, displayVars
  <2>2. CASE PostFrame \/ ClearDisplay
    BY <2>2 DEF PostFrame, ClearDisplay, DupFence
  <2> QED
    BY <2>1, <2>2
<1>3. /\ Len(display') \in Nat /\ DOMAIN display' = 1 .. Len(display')
      /\ Len(display') >= Len(display)
      /\ \A i \in DOMAIN display : display'[i] = display[i]
      /\ DOMAIN display \subseteq DOMAIN display'
      /\ \A i \in DOMAIN display' \ DOMAIN display :
            \/ display'[i] = NoFrame
            \/ display'[i] = FrameToShow
  BY <1>1, DisplayTyped
<1>4. FrameToShow.buffer \in {mCurrentBuf, None} /\ None \notin Ring
  BY NoneIsNoValue DEF FrameToShow, BufferToShow, Ring
<1>5. FenceKept'
  <2> SUFFICES ASSUME NEW i \in DOMAIN display',
                      display'[i].buffer \in Ring \ {Freed}
               PROVE  mDstBufFence'[display'[i].buffer] >= i
    BY DEF FenceKept
  <2>1. i \in Nat /\ i <= Len(display')
    BY <1>3
  <2>2. CASE mDstBufFence' = [mDstBufFence EXCEPT ![mCurrentBuf] = Len(display')]
    <3>1. CASE display'[i].buffer = mCurrentBuf
      BY <1>1, <2>1, <2>2, <3>1 DEF TypeOK
    <3>2. CASE display'[i].buffer # mCurrentBuf
      <4>1. i \in DOMAIN display
        BY <1>3, <1>4, <3>2 DEF NoFrame
      <4>2. mDstBufFence[display[i].buffer] >= i
        BY <1>3, <3>2, <4>1 DEF ScreenInv, FenceKept, JobHasFence
      <4> QED
        BY <1>1, <1>3, <2>2, <3>2, <4>1, <4>2 DEF TypeOK
    <3> QED
      BY <3>1, <3>2
  <2>3. CASE mLastRetireFence = None /\ display' = display
    <3>1. i = 1 /\ display[1].buffer = None
      BY <1>1, <2>3, DisplayTyped DEF RingInv, RetireLast
    <3> QED
      BY <1>4, <2>3, <3>1
  <2> QED
    BY <1>2, <2>2, <2>3
<1>6. JobWaits'
  <2> SUFFICES ASSUME job # None, NEW i \in DOMAIN display',
                      display'[i].buffer = job.buffer, job.buffer # Freed,
                      display'[i].state \notin {"waiting", "unfenced"}
               PROVE  job.waits >= i
    BY <1>1 DEF JobWaits
  <2>1. job.buffer \in Ring
    BY <1>1 DEF TypeOK, Jobs
  <2>2. i \in DOMAIN display
    <3> SUFFICES ASSUME i \notin DOMAIN display PROVE FALSE
      OBVIOUS
    <3>1. display'[i] = FrameToShow
      BY <1>3, <1>4, <2>1 DEF NoFrame
    <3>2. FrameToShow.buffer = mCurrentBuf /\ call.done # "failed"
      BY <1>4, <2>1, <3>1 DEF FrameToShow, BufferToShow
    <3>3. FrameToShow.state \in {"waiting", "unfenced"}
      BY <3>1, <3>2 DEF FrameToShow
    <3> QED
      BY <3>1, <3>3
  <2> QED
    BY <1>3, <2>2 DEF ScreenInv, JobWaits
<1> QED
  BY <1>5, <1>6 DEF ScreenInv

LEMMA WithoutScreen ==
  ASSUME TypeOK, ScreenInv, PostWithout \/ NothingToCleanup PROVE ScreenInv'
<1>1. /\ at \in {"idle", "cleanup"}
      /\ UNCHANGED <<job, mDstBufFence, mCurrentBuf>>
  BY DEF PostWithout, NothingToCleanup, mppVars, sessionVars
<1>2. CASE display' = display
  BY <1>1, <1>2, SameScreen
<1>3. CASE display' = Append(display, NoFrame)
  <2>1. /\ \A i \in DOMAIN display : display'[i] = display[i]
        /\ \A i \in DOMAIN display' \ DOMAIN display : display'[i] = NoFrame
    BY <1>3, DisplayTyped
  <2>2. None \notin Ring
    BY NoneIsNoValue DEF Ring
  <2>3. FenceKept'
    BY <1>1, <2>1, <2>2 DEF ScreenInv, FenceKept, JobHasFence, NoFrame
  <2>4. job # None => job.buffer \in Ring \cup {Freed}
    BY DEF TypeOK, Jobs
  <2>5. JobWaits'
    BY <1>1, <2>1, <2>2, <2>4 DEF ScreenInv, JobWaits, NoFrame
  <2> QED
    BY <2>3, <2>5 DEF ScreenInv
<1> QED
  BY <1>2, <1>3 DEF PostWithout, NothingToCleanup, displayVars

-----------------------------------------------------------------------------
(* The fence of a skipped frame.                                           *)

(* A step that keeps the places of what is posted, and empties buffers.    *)
LEMMA SameRetire ==
  ASSUME TypeOK, RetireLast, mLastRetireFence' = mLastRetireFence,
         DOMAIN display' = DOMAIN display, Len(display') = Len(display),
         mLastConfigData = None => mLastConfigData' = None,
         \A i \in DOMAIN display :
            display[i].buffer = None => display'[i].buffer = None
  PROVE  RetireLast'
<1>1. CASE mLastRetireFence = None
  <2>1. 1 \in DOMAIN display
    BY DisplayTyped
  <2> QED
    BY <1>1, <2>1 DEF RetireLast
<1>2. CASE mLastRetireFence # None
  BY <1>2 DEF RetireLast
<1> QED
  BY <1>1, <1>2

LEMMA NextRetire ==
  ASSUME SessionInv, RetireLast, [Next]_vars PROVE RetireLast'
<1>1. TypeOK /\ None \notin Ring /\ None \notin Nat
  BY NoneIsNoValue DEF SessionInv, Ring
<1>2. CASE UNCHANGED <<display, mLastRetireFence, mLastConfigData>>
  BY <1>2 DEF RetireLast
<1>3. CASE Flip
  <2>1. /\ Len(display) > 1 /\ display' = Tail(display)
        /\ mLastRetireFence' = Sooner(mLastRetireFence)
    BY <1>3 DEF Flip
  <2>2. mLastRetireFence = Len(display) /\ Len(display') = Len(display) - 1
    BY <1>1, <2>1, DisplayTyped DEF RetireLast
  <2>3. mLastRetireFence' = Len(display') /\ mLastRetireFence' \in Nat
    BY <1>1, <2>1, <2>2, DisplayTyped DEF Sooner
  <2> QED
    BY <1>1, <2>3 DEF RetireLast
<1>4. ASSUME NEW state, display' = Settled(state),
             UNCHANGED <<mLastRetireFence, mLastConfigData>>
      PROVE  RetireLast'
  BY <1>1, <1>4, SettledKeeps, SameRetire
<1>5. ASSUME NEW posts \in Seq(Posts), NEW buffers \in SUBSET Ring,
             Leave(buffers, posts), mLastRetireFence' = mLastRetireFence,
             DOMAIN posts = DOMAIN display, Len(posts) = Len(display),
             \A i \in DOMAIN display : posts[i].buffer = display[i].buffer
      PROVE  RetireLast'
  <2>1. mLastConfigData = None => mLastConfigData' = None
    BY <1>1, <1>5 DEF Leave
  <2>2. /\ DOMAIN display' = DOMAIN display /\ Len(display') = Len(display)
        /\ \A i \in DOMAIN display :
              display[i].buffer = None => display'[i].buffer = None
    BY <1>1, <1>5, LeaveKeeps
  <2> QED
    BY <1>1, <1>5, <2>1, <2>2, SameRetire
<1>6. ASSUME Leave(Ring, Settled("dropped")),
             mLastRetireFence' = mLastRetireFence
      PROVE  RetireLast'
  BY <1>1, <1>5, <1>6, SettledPosts, SettledKeeps DEF TypeOK
<1>7. ASSUME NEW p \in Posts, display' = Append(display, p),
             mLastRetireFence' = Len(display')
      PROVE  RetireLast'
  BY <1>1, <1>7, DisplayTyped DEF RetireLast
<1>8. CASE Convert
  BY <1>4, <1>8 DEF Convert
<1>9. ASSUME NEW f \in Frames, Begin(f) \/ Reuse(f) PROVE RetireLast'
  BY <1>2, <1>4, <1>9 DEF Begin, Reuse, DestroyStale
<1>10. CASE AllocateAndOpen
  <2>1. {mCurrentBuf} \in SUBSET Ring /\ display \in Seq(Posts)
    BY <1>1 DEF TypeOK
  <2> QED
    BY <1>2, <1>5, <1>10, <2>1 DEF AllocateAndOpen
<1>11. CASE AllocationFails
  BY <1>1, <1>5, <1>11 DEF AllocationFails, Reset, TypeOK
<1>12. CASE SessionFails \/ CleanupM2M
  BY <1>6, <1>12 DEF SessionFails, Reset, CleanupM2M
<1>13. CASE Configure
  BY <1>2, <1>4, <1>13 DEF Configure
<1>14. CASE \/ EnterRun \/ WaitFrameDone \/ Protect \/ SetFormat \/ SetColorspace
            \/ QueueBuffers \/ (\E s \in Side : StreamOn(s)) \/ NothingToCleanup
            \/ SkipFrame
  BY <1>2, <1>14 DEF EnterRun, WaitFrameDone, Protect, SetFormat, SetColorspace,
     QueueBuffers, StreamOn, NothingToCleanup, SkipFrame, displayVars
<1>15. CASE PostFrame \/ ClearDisplay \/ PostWithout
  <2>1. BufferToShow \in Ring \cup {None}
    BY <1>1 DEF BufferToShow, TypeOK
  <2>2. FrameToShow \in Posts /\ NoFrame \in Posts
    BY <2>1 DEF FrameToShow, NoFrame, Posts
  <2> QED
    BY <1>2, <1>7, <1>15, <2>2 DEF PostFrame, ClearDisplay, PostWithout, displayVars
<1>16. CASE UNCHANGED vars
  BY <1>2, <1>16 DEF vars, displayVars
<1> QED
  BY <1>3, <1>8, <1>9, <1>10, <1>11, <1>12, <1>13, <1>14, <1>15, <1>16
     DEF Next, Proceed, NewFrame

LEMMA NextScreen ==
  ASSUME SessionInv, RingInv, ScreenInv, [Next]_vars PROVE ScreenInv'
<1>1. TypeOK
  BY DEF SessionInv
<1>2. CASE UNCHANGED vars
  BY <1>2, SameScreen DEF vars, mppVars, sessionVars, displayVars
<1>3. CASE Next
  BY <1>1, <1>3, ConvertScreen, FlipScreen, BeginScreen, AllocateScreen,
     FailScreen, RunScreen, QueueScreen, ReturnsScreen, WithoutScreen
     DEF Next, Proceed, NewFrame
<1> QED
  BY <1>2, <1>3

LEMMA InitRing == Init => RingInv /\ ScreenInv
<1> SUFFICES ASSUME Init PROVE RingInv /\ ScreenInv
  OBVIOUS
<1>1. DOMAIN display = {1} /\ Len(display) = 1 /\ display[1] = NoFrame
  BY DEF Init
<1>2. RingInv
  BY <1>1 DEF Init, RingInv, RingAt, Converting, RetireLast, NoFrame
<1>3. None \notin Ring
  BY NoneIsNoValue DEF Ring
<1>4. ScreenInv
  BY <1>1, <1>3 DEF Init, ScreenInv, FenceKept, JobWaits, NoFrame
<1> QED
  BY <1>2, <1>4

(* The ring holds what its position and its count say, and every fence     *)
(* comes round no sooner than the display is done with its buffer.         *)
THEOREM RingInvariant == Spec => [](RingInv /\ ScreenInv)
<1>1. /\ SessionInv /\ RingInv /\ ScreenInv /\ [Next]_vars
      => RingInv' /\ ScreenInv'
  BY NextRing, NextRetire, NextScreen DEF RingInv
<1> QED
  BY <1>1, InitRing, SessionInvariant, PTL DEF Spec

(* A conversion writes, and a frame shows, a buffer of its own type and    *)
(* format: the ring that is allocated one buffer per frame is begun anew   *)
(* whenever it has to be, also after a failure.                            *)
THEOREM BuffersFit == Spec => []BufferFits
<1>1. SessionInv /\ RingInv => BufferFits
  <2> SUFFICES ASSUME SessionInv, RingInv,
                      at \in {"queue", "stream"}
                        \/ (at = "post" /\ call.done # "failed")
               PROVE  /\ mDstBuffers[mCurrentBuf] # None
                      /\ mDstBuffers[mCurrentBuf].type = call.frame.type
                      /\ mDstBuffers[mCurrentBuf].format = call.frame.format
    BY DEF BufferFits
  <2>1. CurrentFits(call.frame)
    BY DEF RingInv, RingAt, Converting
  <2>2. mCurrentBuf \in Ring /\ mCurrentBuf \in Nat /\ mCurrentBuf < NumBuffers
    BY RingFacts DEF SessionInv, TypeOK, Ring
  <2>3. mCurrentBuf < mAllocatedBufferNum
    BY <2>1, <2>2 DEF CurrentFits
  <2>4. mDstBuffers[mCurrentBuf] =
          [type |-> call.frame.type, format |-> call.frame.format]
    BY <2>1, <2>2, <2>3 DEF CurrentFits, RingFor
  <2>5. mDstBuffers[mCurrentBuf] \in Buffers
    BY <2>4, CalledTyped, FrameFacts DEF SessionInv, Buffers
  <2> QED
    BY <2>4, <2>5, NoneIsNoValue
<1> QED
  BY <1>1, SessionInvariant, RingInvariant, PTL

(* The conversion overwrites nothing that is, or will come, on the screen. *)
THEOREM ScreenIsWaitedFor == Spec => []WaitsForScreen
<1>1. SessionInv /\ ScreenInv => WaitsForScreen
  BY DisplayTyped DEF SessionInv, ScreenInv, JobWaits, WaitsForScreen
<1> QED
  BY <1>1, SessionInvariant, RingInvariant, PTL
=============================================================================
