# Verification of the Exynos graphics HALs

TLA+ models of the hardware composers, of two hardware sessions under them and of the
camera's JPEG encoder in this repository, TLC runs that check them on small instances, and theorems that
TLAPS proves for every instance. Paths below are relative to `src/base/`.

To check a run: `tlc -config MCFrameProtocol.cfg MCFrameProtocol`; the runs and
their properties are listed in `PROJECT.json`, which also maps every definition to
the lines it models. To check the proofs: `tlapm` on `FrameProtocol_proofs.tla`,
`Hwc3Frame_proofs.tla`, `DynamicRecomp_proofs.tla`, `M2mBuffer_proofs.tla`,
`ResourceAssign_proofs.tla`, `GscM2m_proofs.tla`, `AcrylMscl_proofs.tla` and
`JpegCamera_proofs.tla`.

## 1. The system

The repository holds the Samsung Exynos implementations of Android's graphics HALs.
The core is the hardware composer, which exists in three generations (`libhwc1`,
`libhwc2`, `libhwc2.1`) and two service front ends. `libhwc2.1` is the current
one and the subject of most modules; `hwc3` drives the same displays. `GscM2m` is about
the memory-to-memory path of the oldest one and the session of `libgscaler` it runs on;
`JpegCompressor` and `JpegCamera` are about `libhwjpeg`, `AcrylMscl` about the scaler
of `libacryl`, which the m2m MPPs of 2.1 run on.

| Part | State it keeps | Operations | What is hard |
|---|---|---|---|
| `libhwc2.1/ExynosHWC.cpp` | `mHWCRenderingState` per display | HWC2 entry points | reads a display's state before it takes its lock |
| `libhwc2.1/libdevice` ExynosDevice | displays, `mGeometryChanged`, dynamic recomposition thread | first/last validate and present, `validateDisplays`, `canSkipValidate` | decisions over all displays, whose flags change under other locks |
| `libhwc2.1/libdevice` ExynosDisplay | rendering state, flags of the round, skip flags, composition targets, fences | validate, accept, present, power, configuration | client, event thread and recomposition thread; error paths in every step |
| `libexternaldisplay`, `libvirtualdisplay` | plug state, skipped start frames, session state | the same, overridden | frames that are validated but not shown |
| `libdevice` ExynosLayer | buffer, geometry, fences | setters | geometry changes in the middle of a round |
| `libresource` ExynosResourceManager | assignment of MPPs and windows, DPU/MPP capacity | `assignResource`, pre-assignment, resource sets | resources move between displays |
| `libresource` ExynosMPP | destination ring, previous frame, fences, capacity, freeing thread | `doPostProcessing`, `setDstReleaseFence`, `requestHWStateChange` | buffers shared with the driver, fence ownership, failures |
| `libdisplayinterface` | driver file descriptors, pending config | deliver a frame, set configuration | the driver is asynchronous |
| `libhwcService`, `libhwchelper` | debug and control switches, fence trace | binder calls | - |
| `hwc3` | buffer caches, must-validate flag | AIDL commands | the second front end of the same displays, with callbacks on other threads |
| `libacryl` | canvas and layers, their flags and fences, what the driver was told | setters, `execute`, `waitExecution` | only what is new is told to the driver; fences in and out of asynchronous jobs; failures half way |
| `libhwc1` ExynosMPP, ExynosDisplay | destination ring, last configurations, retire fence | `processM2M`, `set`, `cleanupMPPs` | the ring turns on frames that fail, are reused or are skipped |
| `libgscaler` CGscaler | per side: configured, streaming, queued; content protection | create, config, run, wait, stop, destroy | legal sequences of ioctls after a failure half way |
| `libhwjpeg` camera encoder | settings and what of them is new, two sessions, ION buffers, a thread | set up, `encode`, `WaitForCompression` | caches of what the driver has; a thread whose shot may fail; retries |
| `libscaler`, `giantmscl` | V4L2 queues and stream states | set format, queue, dequeue | legal sequences of ioctls |
| `librepeater`, `libtsmux`, `libsbwc` | shared buffers, jobs | map/unmap, start/stop, packetise | resources over failed and repeated calls |
| `libion`, `libmemtrack`, `libmpp` | none to speak of | wrappers, parsers, a factory | - |

How the parts of `libhwc2.1` interact. The client (SurfaceFlinger through the
composer service) refreshes the displays it knows to be on, one after the other.
For each display it sets layers, then either presents at once (`presentOrValidate`)
and falls back to validation on an error, or validates, accepts the changes and
presents. The first `validateDisplay` of such a round validates *all* displays,
because the hardware is distributed over all of them: `assignResource` of the
first one takes everything back (`prepareResources`), and each display then takes
its share. `mRenderingStateFlags` records which displays were validated and presented
in the round; the last present clears them, and with them `mGeometryChanged`. A
composing MPP is started in `validateDisplay` already (`earlyStartMPP`) and its
result is handed to the display driver in `presentDisplay`. Beside the client
thread, the event thread plugs external displays, the dynamic recomposition thread
sets the geometry flag, and `ResourceManageThread` frees buffers.

What makes each part correct:

- frame protocol: a display is never shown with hardware that a later validation
  took back; a validated and accepted display is not refused; a skipped display
  is assigned again before it is shown; displays that join late wait for the next round;
- destination buffers: no picture is overwritten while it can be on the screen, the
  presented picture is the requested one, and every fence is closed exactly once;
- resource assignment: an MPP belongs to one display, within its capacity, in an
  allowed set of windows; the layers of a composer form one range;
- dynamic recomposition: at most one thread, none when every display turned it off;
- hwc3: the same guarantees as the frame protocol through its own front end, and no
  forgotten refresh;
- gscaler and its MPP: the session's flags agree with the driver after every failure,
  a layer is converted as it was configured, into a buffer nobody reads, protected
  when it is secure, and every `set()` returns;
- Acryl's scaler: the driver works as the client last asked, whatever failed before; a
  failure does not outlive its job; every fence is closed exactly once;
- JPEG encoder: the hardware gets the job of the shot that is taken, whatever the session
  believes to have set before; a failure does not outlive its shot; what is embedded is this
  shot's thumbnail, and `encode` ends.

`PROJECT.json` lists the hazards with the line where each one bites.

## 2. The modules

### FrameCore and FrameProtocol

`FrameCore` holds the state of the displays and one operator per operation;
`FrameProtocol` EXTENDS it with the entry points of `ExynosHWC.cpp`, the client and
the other threads. `Hwc3Frame` puts the other front end on the same `FrameCore`.

State. A boolean member of `ExynosDisplay` is the *set* of displays on which it is
true: `validateFlag`, `presentFlag`, `mNeedSkipPresent`, `mNeedSkipValidatePresent`,
`mIsSkipFrame`, `mPlugState`, `powered`, `mResChanged`. `mRenderingState`,
`mSkipStartFrame` and `geometryChanged` (is `ExynosDevice::mGeometryChanged` non-zero)
are as in the code. `resources` is a history variable: what the display still holds
of its last assignment (`none`, `fresh`, `stale`, `missed`; see the head of the
module). It is never read by a guard; the properties compare it with what is shown.
`result` is what the last present answered.

Steps. Between the client's read of `mPlugState` and the locked body of a call, and
between two turns of `validateDisplays`, other threads may run; `call` records how
far the entry point has got. Each turn, and each locked body, is one action, since
it holds the display's lock. `ExynosDevice` is not locked, but its fields are only
written by the client thread, with the exception of `mGeometryChanged`, which
other threads only set.

| Action | Code |
|---|---|
| `StartRefresh`, `PickDisplay`, `DropUnplugged` | the client (external) |
| `WriteLayer`, `WriteDisplayFrame` | `ExynosLayer` setters |
| `CallValidate`, `AlreadyValidated`, `SkippedValidate`, `forceSkipValidateDisplay`, `validateDisplays` | `exynos_validateDisplay` and what it calls |
| `acceptDisplayChanges` | `exynos_acceptDisplayChanges` |
| `CallPresent`, `presentDisplay`, `forceSkipPresentDisplay` | `exynos_presentDisplay` and what it calls |
| `setPowerModeOff`, `setPowerModeOn`, `setActiveConfig`, `StartVirtual`, `StopVirtual` | the entry points of the same names |
| `Hotplug` | `handleHotplugEvent` on the event thread |
| `dynamicRecompositionThreadLoop` | the recomposition thread |

Abstractions. Layers, buffers and fences are left out; what depends on them is a
choice: whether preprocessing finds a change, whether assignment fails, whether
`canSkipValidate` is refused for a client layer, whether a resolution switch is
applied in a present. `mResChanged` on a display that drops frames lasts as long as
the layers do not cover the new resolution (also a choice). Assumed of the client:
it composes one display at a time, changes power and configuration between two
refreshes, and accepts or gives up after one validation.

### FrameContract

What a client may rely on, without any of the flags, as a specification of three
variables: per display what it was promised (`none`, `validated`, `accepted`), the
displays that may be refused all the same (`excused`), and the last `answer`. A promise
is kept by any answer other than `notValidated`; and `NoNewExcuse`: while a promise
stands, nothing inside the composer turns its display into an excused one. Both front ends
are shown to implement it. The refinement mapping (`ContractOf` in FrameProtocol)
reads the promise off the client's `stage`, and `excused` off `mNeedSkipPresent` and
`mResChanged`. Every internal step maps to `Work` or to a stutter.

### Hwc3Frame

The composer 3 service: `ComposerCommandEngine` decides by `mMustValidate` whether a
present must validate first, and `HalImpl` calls the display directly: no `mPlugState`,
no rendering state of `ExynosHWC`, no validation on behalf of the other displays. The
variables of FrameProtocol are shared, with `mMustValidate` and `refreshDue` (a thread
that has changed a display and not called back yet) added.

| Action | Code |
|---|---|
| `MustValidateFirst`, `EnterPresent`, `HalPresent` | `executePresentOrValidateDisplay`, `executePresentDisplay` and `HalImpl::presentDisplay`, which accepts what was validated |
| `HalValidate`, `ClearMustValidate` | `HalImpl::validateDisplay`; what the engine does after it returned |
| `HalAccept` | `HalImpl::acceptDisplayChanges` |
| `HotplugEvent`, `Recompose`, `onRefresh` | the event and recomposition threads; the refresh callback on them, later |
| `FollowDisplays` | the engine's and `ResourceManager`'s per-display data on hot plug; whether a new display must be validated is left open |

### FrameProtocol_proofs, Hwc3Frame_proofs

The theorems about these modules; see section 4.

### DynamicRecomp and DynamicRecomp_proofs

The life of the dynamic recomposition thread. Several threads are possible (`stage`,
one entry per thread), since whether there is only one is the question; `mDRThread`,
`mDRThreadStatus`, `mDRLoopStatus`, `mDREnable` (the set of displays) and
`useDynamicRecomp` are the members of the same names.

| Action | Code |
|---|---|
| `Construct` | what the constructor of `ExynosDevice` does about it, in its order |
| `setPowerMode`, `Joined` | `setPowerMode` of any display up to, and after, the `pthread_join` |
| `validateDisplay`, `SetLoop` | the creation in `validateDisplay`; the store after `pthread_create` |
| `setDynamicRecomposition` | the service's switch, at any time |
| `dynamicRecompositionThreadLoop` | the thread: count itself, test the flag, one turn of the loop, leave |

The client makes one call at a time (as in FrameProtocol). A new thread counts itself, and
its creator sets `mDRLoopStatus` only after `pthread_create`; nothing in the code orders
these with what follows, and nothing in the model does. Two history variables record the
two ways this goes wrong: `overlooked`, a call has read `mDRThreadStatus` while a created
thread had not counted itself yet; `tooFast`, a thread has found the flag clear because
its creator had not set it yet. The properties say what goes wrong only then, and which of the two
it takes.

### ResourceAssign, ResourceAssignInv and ResourceAssign_proofs

One display's `assignResource()`, from the first validate to the window numbers. `r` is
the assignment so far: the type of each layer, the OTF MPP and m2m MPP of each source,
the two blended ranges, `mWindowNumUsed`. The helpers of `ExynosDisplay` (add to and
remove from a range) and of the resource manager are operators on `r`, since they call
each other several levels deep within one step; the steps are those at which the code
decides whether to start over.

| Action | Code |
|---|---|
| `StartFrame`, `Present` | the client; `preAssignResources`, `initializeValidateInfos` |
| `AskedForClient` | `assignLayers` of the layers with `HWC2_COMPOSITION_CLIENT` |
| `Try`, `TestAgain` | the loop of `assignResourceInternal`, up to `ASSIGN_RESOURCE_TRY_COUNT` |
| `AssignLayer` (`AssignDevice`, `AssignExynos`, `AssignClient`), `NextLevel` | `assignLayers` from the highest priority down |
| `AssignExynosTarget` | `assignCompositionTarget` for the G2D's target |
| `setResourcePriority` | `setResourcePriority`: any m2m MPP may be found busy |
| `Finish` | `updateExynosComposition`, `updateClientComposition`, `assignWindow` |
| `startPostProcessing`, `Fallback` | the rest of `validateDisplay` and its error path |

Formats, sizes and chip restrictions are data: a layer is the set of MPPs that support
it, its priority, whether the client asked for it, and its load on the G2D. `KindOK` says
which combinations are possible: a layer of high priority (a protected or HDR one) is
never supported by the blending MPP. For protected and YUV layers that follows from the
code; for an HDR layer in RGB it is an assumption about the chip. Were it false, such a
layer could be blended and lost, since the ends of the G2D's range are trimmed by
priority. `HighApart` says that no two neighbours in Z order have high priority, and is a
condition of two of the properties: the trim takes one layer off the upper end of the range, not
two (`ExynosDisplay.cpp:4355`; section 3). `ExynosDisplay.cpp:4385` has `=` where `==` is meant, which has no effect
with this one blending MPP.

### GscM2m

The external m2m MPP of HWC 1 with the `CGscaler` session under it, the driver, and the
display that reads its buffers. `gsc` is the session (per side what is dirty, streaming
and queued), `driver` what the driver knows, `job` the conversion it has, `mDstBuffers`,
`mDstBufFence`, `mCurrentBuf` the ring, `display` the frames posted. A fence is the
number of flips until it signals.

| Action | Code |
|---|---|
| `Begin`, `Reuse`, `AllocateAndOpen`, `AllocationFails` | `processM2M`, `reusePreviousFrame`, `reallocateBuffers` |
| `Configure` | `stopMPP`, `setCSCProperty`, `configMPP` |
| `EnterRun`, `WaitFrameDone`, `Protect`, `SetFormat`, `SetColorspace`, `QueueBuffers`, `StreamOn` | `m_gsc_m2m_run_core`, one action per request to the driver |
| `SessionFails` | `err_gsc_config`, from any of these requests |
| `PostFrame`, `SkipFrame`, `ClearDisplay` | the end of `ExynosDisplay::set`: WIN_CONFIG, skipped, or failing |
| `PostWithout`, `CleanupM2M`, `NothingToCleanup` | a frame without the MPP, and `cleanupMPPs` |
| `Convert`, `Flip` | the driver and the display (external) |

`processM2M` is written for an MPP that is a gscaler (`type < HW_SCAL0`; the types come
from headers of the device, which are not in the repository).

### JpegCompressor, JpegCamera and JpegCamera_proofs

`JpegCompressor` is one V4L2 compression session as a record with operators: its flags,
what it was given, and beside them what the driver has (`driver`). `JpegCamera` holds two
of them (`hw`): "main" for the picture, "thumb" for the thumbnail. `enc` has the settings of
the encoder, `buffers` the ION buffers, `images` the thumbnail's image buffers, `call` the calls
of `CompressThumbnailOnly` in progress (by the client or the thread), `thread` the thumbnail
threads. `excused` says whether the shot has a reason to fail, or to go without its thumbnail.

| Action | Code |
|---|---|
| `Ask` | the setters: sizes, format, quality, HWFC |
| `setInBuf`, `setInBuf2` | the two kinds of images, each with `EnsureFormatIsApplied` |
| `Encode`, `EncodeRefuses` | `encode` up to the format |
| `StartThread`, `PrepareStream`, `NothingToPrepare`, `PrepareFails` | `PrepareCompression` |
| `CompressMain`, `CompressMainFails`, `WaitForCompression`, `MainDone`, `MainFails` | `Compress`, `DQBuf`; with HWFC the client waits in a call of its own |
| `Scale`, `ScaleFails` | `GenerateThumbnailImage` on the thread |
| `SetUp`, `CompressThumb`, `CompressThumbFails`, `ThumbDone`, `ThumbFails` | `CompressThumbnailOnly`, whoever calls it |
| `JoinThread`, `CompressGiven`, `CompressedTogether`, `FinishesWithout`, `CompressAgain`, `RetryFails`, `Embed` | `FinishCompression` |

What a buffer holds is all the model knows of a picture: `"main"`, `"given"` and `"scaled"`
are of the shot that is taken, everything else is stale. The driver refuses buffers
of another memory type than it was asked for, and a descriptor that is none.

### AcrylMscl and AcrylMscl_proofs

`AcrylicCompositorMSCL9810`: `image` are the source (the layer) and the target (the canvas)
with what was set and what of it is new, `area` the crop, window and transform, `session`
the members that remember what the driver was told, `driver` what it has. `call` says how far
a call has got, and `fences` counts the descriptors the library has to close.

| Action | Code |
|---|---|
| `SetLayer`, `SetCanvas` | `ExynosMPP::setupLayer` and `setupDst`, the client, with every setter they call |
| `RenewLayer` | `removeLayer` and `createLayer` |
| `Execute`, `WaitExecution`, `Return` | `execute`, `waitExecution`, and their ends |
| `Dequeue` | `dequeueBuffer`, one side after the other |
| `SetTransform` | `setTransform` |
| `ResetMode`, `Reset`, `ConfigureCSC` | `resetMode`, with the two per-side requests and `configureCSC` |
| `ChangeMode` | `changeMode` with `setFormat` and `setCrop` |
| `SetProtection`, `Prepare` | `prepareExecute` |
| `QueueBuffer`, `Finish` | `queueBuffer` up to the second buffer, and its end, also on failure |

`Faults` lists the requests that may fail, each independently at every call. The driver is
external: it takes a format only for a side without buffers, a buffer only of the
kind that was requested, and one at a time. One extent stands for the two dimensions, and
a type for a pixel format with its colour space, which only matter for being equal or not.
`KindFollowsType` is assumed of the client, since `prepareExecute` asks for buffers
again only with a new format; `ExynosMPP` passes nothing but dmabufs.

### M2mBuffer

The composing m2m MPP of one display: `mDstImgs` (per index whether it is allocated
and its release fence), `mCurrentDstBuf`, `mPrivDstBuf`, `mPrevFrameInfo`, the
composition target, and the display driver as an environment (`screen`, `queue`).
`contents` and `job` are history variables. A frame is a few actions, `phase` says
how far it is:

| Actions | Code |
|---|---|
| `Validate`, `ValidateAgain`, `ValidateWithoutMpp`, `PresentWithoutValidate` | start of a frame in `validateDisplay` or in a `presentDisplay` that skips validation |
| `allocOutBuf`, `allocOutBufFails`, `usePrevFrame`, `doPostProcessingInternal`, `executeFails` | `ExynosMPP::doPostProcessing` |
| `PostProcessingFailed` | the callers' error paths |
| `Deliver`, `SkipWinConfig`, `DeliverFails`, `PresentFails`, `closeFencesForSkipFrame`, `PresentWithoutMpp` | `presentDisplay` |
| `freeBuffers` | `ResourceManageThread` |
| `ShowNext` | the display driver (external) |

The fences are file descriptors: a new one gets the lowest free number, so a number
that is closed too late or twice belongs to somebody else. The acquire fence of a
buffer is handed to the target in the same call, so it is not kept per buffer.

Two constants open the protocol where FrameProtocol shows it can be: `MayDrop` lets
a composed frame be skipped (`handleSkipPresent`) or validated once more before its
present; `MayFail` lets allocation, composition and delivery fail.

## 3. What the runs show

`TypeOK` and one mutant per property: each mutant is a definition of the module
(marked "A mutant") with a plausible bug; with it in place TLC finds the property
violated, so no property holds vacuously.

| Run | Instance | Shows |
|---|---|---|
| `MCFrameProtocol` | a primary and an external display, one skipped start frame (5 in the code) | `SkippedKeepsGeometry`, `RoundKept`, `ShownOwnsResources`, and the refinement `Contract` |
| `MCFrameVirtual` | a primary and a virtual display | `SkippedValidateOwnsAll` |
| `MCHwc3Frame` | a primary and an external display through the composer 3 service | the refinement `Hwc3Contract` |
| `MCM2mBuffer` | two pictures, 3 buffers (as in the code), 5 fences, 2 frames queued, no failures | `WriteWaitsForReaders`, `PresentedIsCurrent` |
| `MCM2mFaults` | two pictures (symmetric), 2 buffers, 3 fences, 1 frame queued, `MayDrop`, `MayFail` | `NoFenceLeaked`, `FenceOwnedOnce` |
| `MCDynamicRecomp` | three displays, two of which take part (in the code only the primary does), 3 threads as fast or slow as they like, `mDRThreadStatus` zero and `mDRLoopStatus` anything at first | `TwoOnlyIfOverlooked`, `LoopHasThread`, `EndedIsJoined`, `LastOffDestroys`, `PowerModeReturns` |
| `MCResourceAssign` | 5 layers of any of 5 kinds, 3 OTF MPPs, a G2D of 2 sources and capacity 2, 2 windows, 100 tries (as in the code) | `NeverGivesUp`, `NoInversion`; under `HighApart`, `EveryLayerShown` and `BlendedIsContiguous` |
| `MCGscM2m` | six frames that differ in type, size, format and colour space, 3 buffers (as in the code), up to 4 frames posted, `Faults` | `DriverAsked`, `ConvertsAsAsked`, `BufferFits`, `ProtectedWhileSecure`, `WaitsForScreen`, `SetEnds` |
| `MCJpegCamera` | 6 kinds of shots: 2 formats, 2 thumbnail sizes, given or generated, little room or much, with and without HWFC, refused; with and without back-to-back compression; the 7 kinds of failures its configuration lists | `JobAsAsked`, `EmbedsOwnThumb`, `FaultlessShotSucceeds`, `EncodeEnds` |
| `MCAcrylMscl` | 5 layers and 3 canvases that differ in size, type, memory, protection, crop, window, transform and fence, one of them not supported; 18 requests that may fail | `ConfiguredAsAsked`, `FaultlessJobSucceeds`, `NoFenceLeaked` |

Why the bounds are enough. The decisions of the frame protocol compare one display
with "all others", so two displays show every case of the quantifiers except
"some but not all others". What holds for it is proved below: everything these runs
check, except that `ShownOwnsResources` needs two conditions there and
`SkippedValidateOwnsAll` does not hold for virtual displays (the second table); instances
with three displays are too large to be exhausted and are not among the runs. Skipping one start frame or five differs only in the number of
repetitions of the same state, and the bound itself is a theorem (`TypeCorrect`). In the
rings, the queue length is what separates a buffer from its reuse: with 3 buffers and 2
queued frames the composer comes back to a buffer that is still on the screen, and
with 4 posted frames `GscM2m` laps its ring. 5 fences are enough for every fence the
actions can hold at a time (one per buffer, one in the target, one pending). The run with
failures uses fewer buffers, since a leak does not need the ring to be full; once a frame has
been dropped fences do leak (next table), and the run ends where none is left. In the assignment, two windows and two
sources make the layers compete for everything, and 5 layers are one more than a range of the
client inside one of the G2D takes, enough for two layers of high priority at the end of a range that
is not the last one: with 4 layers `HighApart` makes no difference. `NoInversion` is stated for frames whose
first try works out. A later try keeps the layers that went to the client where they are, although the
MPP that one of them could not get before may be free by then: with 8 layers and 3 windows TLC
finds one of lower priority that takes it.

`MCJpegCamera` takes clients that give the thumbnail image before the main one, do
not change between given and generated thumbnails without a shot that has none, and change
the kind of memory only with the format. A failure of the main image while the thread runs, a
failing `S_EXT_CTRLS` and a failing allocation of the stream buffer are left out: with each
of these the properties do not hold (the second table below says how). `DQBUF` fails with
both buffers returned, or with one or both left in the driver. In the latter case the next shot of the
format is refused, again and again if the buffer is the source's; that is an excuse of
`FaultlessShotSucceeds`, and the table has it as well. A shot whose thumbnail is to be
generated is not asked for while the main session is in this state, since its main image would
fail while the thread runs. Shots of any
length can follow each other, so a failure in one meets every later one.

`MCAcrylMscl` lets calls of any number follow each other, so what one leaves half done
meets every later one. Its layers and canvases are chosen so that any two differ in
something, and every field of the session and of the driver is reached with at least two values; equal
and different is all that the code asks of most of them. `FLIP_V`, `ROT_90` and
`REQBUFS(0)` do not fail in this run: with each of them the properties do not hold, and
the table below says how.

Fairness. `MCDynamicRecomp`: weak fairness of each recomposition thread and of the
client in the middle of a call, that is, the kernel runs every thread that can run; a
`usleep` ends, and the mutex that the loop takes (`mDRMutex`) is not held by the caller of
`setPowerMode`. `MCGscM2m`: weak fairness of a call that has begun, of the conversion and
of the display, that is, the drivers complete what they accepted; nothing is assumed of when
the client shows another frame. `MCJpegCamera`: weak fairness of a shot that was asked for
and of the thumbnail thread: the hardware returns what was queued, in order or with an
error, and the client that called `setInBuf` goes on to `encode` and waits. All other properties are safety properties.

Disagreements between the code and what its comments and messages say; TLC gives a
trace for each one, quoted in `PROJECT.json`:

| Run | What happens |
|---|---|
| `MCDrTwoThreads` | Two power changes before the new recomposition thread has counted itself create two threads. |
| `MCHwc3SkipSome` | Through the composer 3 service a display can be shown without validation although the validate of another one took its resources. |

The following are violated too, and their properties are kept in the modules, but
they have no run of their own. To see one, put the property in place of the
properties of the named configuration, with the constants given:

| Property | Configuration | What happens |
|---|---|---|
| `ChangedIsNotShown` | `MCFrameProtocol` | The recomposition thread changes the geometry after acceptance: the frame is shown all the same, and the last present drops the change (`ExynosDisplay.cpp:2830`; the comment at 5146 wants a frame with such a change not to be shown). |
| `LatecomerNotShown` | `MCFrameProtocol` | A display unplugged in the middle of a round keeps its `validateFlag` (`ExynosExternalDisplay.cpp:126`); plugged in and powered on again it is taken for validated, where `ExynosHWC.cpp:978` lets a latecomer wait for the next round. |
| `ShownOwnsResources` | `MCFrameProtocol`, two external displays, no primary | A display that is plugged in but off is validated first in a round and gets its resources; `isFirstValidate()` asks only the displays that are on (`ExynosDevice.cpp:273`), so the next one's turn is a first one too and takes them back. The first is powered on and its power-off fails (`ExynosExternalDisplay.cpp:425`), which marks it presented; the other's present ends the round and clears the geometry flag, and the first is then shown without validation and without resources. |
| `ShownOwnsResources` | `MCFrameProtocol`, one display of each type | A primary display with a pending resolution change drops its validation (`ExynosDisplay.cpp:3653`) and its client gives the frame up, twice, so the round stays open over two refreshes. The external display, just switched on again, skips its frame in both: first for its power-off, and then as a latecomer, once a new virtual display has been validated. In the third refresh it counts as already validated (`ExynosHWC.cpp:936`) and is shown, although it never had a turn of its own. |
| `SkippedValidateOwnsAll` | `MCFrameVirtual`, one display of each type | The virtual display gets its first layers after another display's validate has validated it, while the geometry flag is set anyway because the external display's present failed. Its frame is skipped, the last present clears the flag, and the next frame of the primary display is shown without validation although the virtual display has layers and no resources. |
| `SkipLastsOneFrame` | `MCFrameProtocol` | A present of an unplugged display leaves `mNeedSkipValidatePresent` (`ExynosHWC.cpp:525`), which also skips the first frame after it is back; line 978 speaks of "this frame". |
| `SkipAllOrNone` | `MCFrameProtocol` | A display presented without validation does not count as validated, so the next display's validation of the same refresh validates it again; `ExynosDevice.cpp:871`: all displays are skipped or none. |
| `CheckedBeforeFlag` | `MCHwc3Frame` | A display is validated again while its flag is set (`ExynosDisplay.cpp:3766`: "`isFirstValidate()` should be checked only before setting `validateFlag`"; `ExynosDevice.cpp:246`). |
| `PresentedIsCurrent` | `MCM2mBuffer`, `MaxQueued = 1`, `MayDrop = TRUE` | A frame composed but not yet presented is composed again with the same sources: the older buffer is shown (`ExynosMPP.cpp:1696`). |
| `NoFenceLeaked` without `~dropped` | `MCM2mFaults` | Two validations before a present lose the acquire fence of the first (`setTargetBuffer`). |
| `ReusedIsCurrent` | `MCM2mBuffer`, `MayFail = TRUE` | After a failed present (`ExynosDisplay.cpp:3052`) the next equal frame reuses a buffer that was not composed from it. |
| `LoopHasThread` without `tooFast` | `MCDrTwoThreads` | The new thread tests `mDRLoopStatus` before its creator sets it, ends, and is never created again by `validateDisplay`. |
| `LastOffDestroys` without `overlooked` | `MCDrTwoThreads` | The last display is turned off before the thread its power-on created has counted itself: `mDRThreadStatus` is 0, so nothing is told to end and nothing is joined, and the thread goes on (`ExynosDevice.cpp:355`). |
| `EndedIsJoined` without `overlooked`, or without `tooFast` | `MCDrTwoThreads` | A second thread takes over `mDRThread` although the first was not counted yet, or has left without being told to: nobody joins the first. |
| `NoThreadWhenOff` | `MCDynamicRecomp`, two displays, one in `DRDefault`, 2 threads | `validateDisplay` of another display creates the thread after the last one that takes part was turned off (`ExynosDisplay.cpp:3683`). |
| `EnabledByPanel` | the same | The constructor reads `mDREnable` before anything has set it, so only the service can switch recomposition on (`ExynosDevice.cpp:119`, `ExynosDevice.h:173`). |
| `EndedIsJoined` | `MCDynamicRecomp`, `StatusAtStart <- AnyStatus` | `mDRThreadStatus` is not initialised; with a positive value, powering off joins thread 0. |
| `WindowsNeverNegative`, `WindowsCounted` | `MCResourceAssign` | A layer that keeps its type DEVICE from an earlier try is subtracted from `mWindowNumUsed` although the count was started over (`ExynosDisplay.cpp:4081`), and one below `mBlendingNoneIndex` is not (`ExynosDisplay.cpp:4089`). The count is unsigned: below zero it refuses every window. |
| `EveryLayerShown` | `MCResourceAssign`, `useMaxG2DSrc = TRUE` | Extending the range of the G2D by a neighbour asks `isAssignable()` again for a layer that already counts, and ignores the answer EXYNOS_ERROR_CHANGED (`ExynosResourceManager.cpp:708`): the layer is in no range, or its new client range has no window. |
| `EveryLayerShown`, `BlendedIsContiguous` without `HighApart` | `MCResourceAssign` | Two neighbouring layers of high priority at the upper end of the G2D's range, which ends below one of the client's: the loop that trims the range walks upwards (`ExynosDisplay.cpp:4355`), so when the last layer goes its lower neighbour has been passed, and it is not strictly inside either (line 4376). The range ends in a layer with a window of its own, `assignWindow` gives it none, and the layers blended into it are not shown. |
| `WindowsFit` | `MCResourceAssign` | No window is asked for when the target of the G2D gets its MPP, so one window too many can be used. |
| `ProtectionOffWhenClosed` | `MCGscM2m` | A session that fails between switching the content protection on and its first STREAMON is destroyed with the protection on: the stop does nothing for it (`libgscaler_obj.cpp`, `m_gsc_m2m_stop`). |
| `ColorspaceAsAsked` | `MCGscM2m` | The colour space is not among the fields that decide about a new configuration (`ExynosMPPv2.cpp:125`, `1397`). |
| `RunIsConfigured` | `MCGscM2m` | NORMAL and NORMAL_DRM layers of equal geometry share a configuration but not a session; the new session is run unconfigured and the frame fails. |
| `ShownIsConverted` | `MCGscM2m` | STREAMOFF drops a conversion whose frame was already posted; and a frame reused after a failed WIN_CONFIG is posted without the fence of its conversion. |
| `SkippedIsShown` | `MCGscM2m` | After a failed WIN_CONFIG the screen is cleared, but `mLastConfigData` still describes the frame before, and an equal frame is skipped (`ExynosDisplay.cpp:504`, `2134` of `libvppdisplay`). |
| `JobAsAsked`, `FaultlessShotSucceeds` | `MCJpegCamera`, `GivenFirst = FALSE` | With `setInBuf()` before `setInBuf2()` the first applies the format without a thumbnail and clears the state, which `NoThumbGenerationNeeded()` does not set again (`ExynosJpegEncoderForCamera.cpp:820`, 182): the picture is compressed without its thumbnail, no error is reported, and so are the following shots of this size. The comment at 107 says that the state is there "to know if thumbnail image size need to be configured to HWJPEG". |
| `JobAsAsked` | the same, `MaySwitch = TRUE` | A given thumbnail after generated ones of the same size is lost in the same way. The other way round, nothing takes `setInBuf2()` back (line 435 does so when it failed, and only without back-to-back compression): the image given before is compressed again. |
| `JobAsAsked` | the same, `MayStrand = TRUE`, `MaxThreads = 2` | When the main image fails, `encode()` returns without `pthread_join` (line 452): the thread goes on while the next shot changes what it reads, and a second one may use the same session (`exynos-hwjpeg.h:133`: "This class is *not* thread-safe"). |
| `FaultlessShotSucceeds` | the same, `"stream buffer"` in `Faults` | When the image buffer was allocated but the stream buffer was not (line 699), the next `AllocThumbBuffer()` finds the former large enough and returns true (line 678) without the latter: no further thumbnail is made. |
| `JobAsAsked` | the same, `"S_EXT_CTRLS"` in `Faults` | `UpdateControls()` clears what is to be set before the request that sets it (`hwjpeg-v4l2.cpp:459`): after a failure the old quality stays. |
| `FaultlessShotSucceeds`, with FALSE for `Fits(c, dstOkay)` in `CompressFailures` | `MCJpegCamera` | A failing DQBUF clears the flags that say something is queued and does not stop the stream (`hwjpeg-v4l2.cpp:618-631`). If the driver still has the source's buffer, QBUF of the next shot of this format is refused (line 576), also without stopping: this and all following shots fail, until the format changes. If only the stream's buffer is left, QBUF of that one is refused, which stops the stream (line 586), and one shot is lost. |
| `ConfiguredAsAsked` | `MCAcrylMscl`, `<<"S_CTRL", "ROT_90">>` in `Faults` | `setTransform()` remembers the transform after all three controls (`acrylic_mscl9810.cpp:237`). When the last one fails the flips have been set; if the client goes back to the transform of before, nothing differs, and the driver keeps the flips. |
| `ConfiguredAsAsked`, `FaultlessJobSucceeds` | the same, `<<"REQBUFS(0)", "SOURCE">>` in `Faults` | Buffers that could not be freed stay marked as requested, so the side gets neither its new format nor a STREAMON. |
| `FaultlessJobSucceeds` without `Stranded` | `MCAcrylMscl` | When the target's buffer is refused, `resetMode()` is to "reset the state of the output path" (`acrylic_mscl9810.cpp:415`), but it resets only if a setting has changed since the last job. Otherwise the source's buffer stays queued, and the next job is refused for it, although nothing fails in it. |
| `FaultlessJobSucceeds` | `MCAcrylMscl`, two layers of one type, size and different memory, without `KindFollowsType` | The other kind of memory is no reason to ask for buffers again, and the driver refuses it. |

A second validation before the present is not contrived: `setLayerDisplayFrame` clears the
flags of all displays, so when one display is written after another's validation in the
same refresh, its validation is again a first one (`WriteDisplayFrame` in FrameProtocol).

Of the properties of the recomposition thread, only `PowerModeReturns` does not depend on its
timing at all. The others hold as they are stated, with `overlooked` and `tooFast` in them, and TLC
violates each when one of its excuses is taken out.

## 4. What is proved

`FrameProtocol_proofs` proves, for every set of displays and every number of start
frames:

- `TypeCorrect`: `Spec => []TypeOK`.
- `RoundIsKept`: `Spec => []RoundKept`. What the client was told in its frame stays
  true until it uses it: after its turn a display is `VALIDATED` until it is
  accepted, and `ACCEPTED_CHANGE` until it is presented, whatever the other
  displays, the event thread and the recomposition thread do.
- `AcceptedIsPresented`: `Spec => AcceptedNotRefused`, an action property that
  follows from the two invariants.
- `ContractIsKept`: `Spec => Contract`, that is, the entry points of HWC 2.1 implement
  FrameContract.
- `SkippedAreAssigned`: `Spec => []SkippedKeepsGeometry`. While an external display that is
  on skips its frames, the geometry flag stays set, so the first frame it shows is assigned.
- `ShownOwnTheirs`: `Spec /\ [][SettledStep]_vars => ShownOwnsResources`. A primary or external
  display that is on is never shown with resources that a later first validate took back.
  `SettledStep` says that no display is changing its resolution and that no power-off of
  an external display that is on is refused. Neither can be left out: the second table of
  section 3 has a behaviour against each, with three and with two displays. With the two
  displays of `MCFrameProtocol` neither is needed.
- `SkippedOwnTheirs`: `Spec /\ [][SettledStep]_vars => SkippedValidateOwnsScreen`. Under the same
  conditions, a frame is shown without validation only when no primary or external
  display that is on was left without resources. With a virtual display this is not so
  (the table again), and that part of `SkippedValidateOwnsAll` is only model-checked.

`Hwc3Frame_proofs` proves, for the same constants:

- `Hwc3TypeCorrect`: `Hwc3Spec => []Hwc3TypeOK`.
- `Hwc3ContractIsKept`: `Hwc3Spec => Hwc3Contract`, the same for the composer 3 service.

Assumptions: the three kinds of displays are disjoint, `SkipExternalFrame` is a
natural number, and `mDisplays` lists every display once.

The argument. `RoundKept` is inductive together with `TypeOK`: its first conjunct (a
call is always for the display being composed) is what excludes the calls of other
displays, and `OwnTurnOver` states it for the middle of `validateDisplays`, whose loop
changes one display per turn. The proof has one lemma per group of actions: the
bodies of `ValidateDisplay` and `PresentDisplay` keep the rendering state of every
other display, the configuration actions happen only between refreshes, and the other
threads do not write rendering states at all. `AcceptedIsPresented` then looks
at the one step that returns `HWC2_ERROR_NOT_VALIDATED`: without a skip flag it
requires a state that is not `ACCEPTED_CHANGE`.

For the contract, `RoundKept` covers frames that were accepted. `AutoKept` adds the frames
the client presents after a validation alone: there the entry point of present accepts on
the way, and what it knows of the display must not be taken back between that and
the locked body. Each action is then shown to be one of the contract's steps or a stutter,
action by action. The service needs an invariant of its own (`Hwc3Round`), since it has no
`validateDisplays` and no state of its entry points: in its place stands the display's
rendering state between two commands. The lemmas about `ValidateDisplay` and `PresentDisplay`
are used for both.

`SkippedKeepsGeometry` looks at states between calls only and is not inductive: the flag is
cleared in the middle of a round, by whichever display presents last. `SkipInv` has three
parts. `PowerKept`: what is on is plugged, also for a call that found its display
unplugged. `SkipsKept` carries the property into the middle of the calls, where a present that is about to
clear the flag has counted its display's frame already. `LateKept` is about the flags of a
round: an external display that is on and not yet validated once others are was
powered on since, and powering on sets the geometry flag. Validation never clears
the flag, so the only lemma with work to do is the one about a present (`SkipsCleared`): it clears
the flag only at the end of a round in which no display that is on skips.

`ShownOwnsResources` is about one step, and its invariant about the round that step ends. A
round begins with the first validate, which takes the resources of all other displays
back, and ends when the last display that is on is presented; it can outlast a refresh, since a
display may skip its frame or be refused. A display that is left without resources is
*owed* a frame: `OwedKept` says that the geometry flag stays set for it, and that it is not
shown meanwhile, because a skip flag is set as soon as the round counts it as validated
or presented. The flag that `exynos_validateDisplay` sets for a latecomer is cleared by the
next validate, so the round has to be over by then: `MadeUp` says that all other displays
are presented or still to come in this refresh, and that one of these is left to end
the round. That rests on three facts about what a round can leave out: `RefusedOnce` (a display
that still owes a frame after power off is refused once), `EarlyKept` (one that was presented before
its turn in the refresh belongs to a round that goes on), and `PassedOver` (one that
is not validated once others are has missed the round or was presented in it). `PlaceKept`,
`PendingKept` and `AcceptedNow` tie the flags to the place of the client. `ShownInv` has
been checked by TLC on larger sets of displays before it was proved; that is how the two
conditions were found.

`DynamicRecomp_proofs` proves, for every set of displays and threads:

- `TypesKept`: `Spec => []TypeOK`, with any timing and any initial contents.
- `NeverTwoThreads`: `Spec => []TwoOnlyIfOverlooked`. Two threads exist only after a call has
  overlooked one, whatever natural number `mDRThreadStatus` holds at first.
- `LastOffLeavesNone`: `Spec => LastOffDestroys`, for the same initial values: the call that turns
  off the last display leaves no thread, unless one was overlooked.
- `LoopNeverStale`: `Spec => []LoopHasThread`, whatever the members hold at first: while
  `mDRLoopStatus` is set and a thread was ever created, one is there that has not found it
  cleared, unless one was too fast. That threads were overlooked does no harm here.
- `CreatedIsJoined`: `Spec => []EndedIsJoined`, when `mDRThreadStatus` is zero at first; with another
  value the second table of section 3 has a violation.

None of them assumes anything of the timing: a thread may run at any moment after
`pthread_create`, or never. The two excuses are told apart because they are two races: the first
is about the counter, the second about the flag.

None is inductive. `CountKept` says that, until a thread is overlooked, only the thread that `mDRThread`
names exists and `mDRThreadStatus` is what it was at first, and one more exactly while that thread
is counted; so a status of 0 that was not read too early means no thread (`CreateCounts`).
`FlagKept` says that, until a thread is too fast, the flag is set only while some thread goes on. A thread
leaves its loop in two ways: its flag was cleared by `dynamicRecompositionThreadDestroy()`, which
clears it for all, or it was too fast. `JoinKept` and `NamedKept` add what the client may conclude at each point
of a call: between calls, no flag means no thread at all, and what is being joined is counted or has ended.

`M2mBuffer_proofs` proves, for every number of destination buffers, all frames and
fences, and with frames dropped, repeated or failing:

- `M2mTypeCorrect`: `Spec => []TypeOK`.
- `FencesOwnedOnce`: `Spec => []FenceOwnedOnce`.
- `NoFencesLeaked`: `Spec => []NoFenceLeaked`.

`FenceOwnedOnce` counts the owners of a fence; what the steps preserve is `FencesKept`: the
fences of the buffers, of the target and of the thread that frees buffers are open and all
different. A new fence is none that is open, so it is none that has an owner.
`NothingLost` adds that, until a frame was dropped, the target only has a fence between
composing and presenting; this is why overwriting it loses nothing. The one lemma with
substance is `ReleaseSet`: the release fence of a frame takes the place of the fence
the replaced buffer had, whether that is the current buffer, another one or none.

For the frames that are all presented without a failure (`AllPresented`, the constants of
`MCM2mBuffer`; `MCM2mFaults` has the others), it also proves:

- `WritesWait`: `Spec => []WriteWaitsForReaders`.
- `CurrentIsPresented`: `Spec => PresentedIsCurrent`.

Both rest on `RingInv`. `Turn`: the buffer of the last frame is the one before the current
one, except while that frame is being shown again. `Protected`: every buffer but the last
frame's carries the fence of a queued frame behind all its readers, unless the hardware
just took it. Delivering a frame with fence f makes this true of the buffer it replaces,
since all its readers are already queued and the new frame shows another one. `Remembered`:
what `canUsePrevFrame` compares with is what is in the buffer it steps back to. That a
delivery is skipped only for a reused buffer follows from `mLastDpuData`, which is
the last frame's buffer or nothing. `NumBuffers` has to be at least 2 for any of this.

`ResourceAssign_proofs` proves, for any number of layers, any kinds of layers, any MPPs, and any
capacities, windows and tries:

- `ResourceTypeCorrect`: `Spec => []TypeOK`.
- `NothingEverOverloaded`: `Spec => []NothingOverloaded`, the part of `EveryLayerShown` about the
  MPPs, not only when the assignment is done but at every step.

and, when `useMaxG2DSrc` is off, as it is by default (`ExynosDisplay.cpp:345`):

- `AllLayersShown`: `Spec => []EveryLayerShown`.
- `BlendedContiguous`: `Spec => []BlendedIsContiguous`.
- `NeverGivenUp`: `Spec => [](HighApart => NeverGivesUp)`, when `TryCount` is above `5 * LayerNum + 4`.
  The code allows for 100 tries, which is enough for 19 layers.

and, with `useMaxG2DSrc` on or off:

- `NoneOutranked`: `Spec => []NoInversion`.

All of them rest on `ParametersOK`; the first two and the last rest on nothing else.
`NothingOverloaded` is not inductive for two reasons. An OTF MPP is given to a layer when it has no users, so users and sources have to agree
(`Owned`), through every helper that takes an MPP back. And a layer is given to the G2D by
`canBlend`, but taken from one that was found busy by type and by range: that nothing is left
with it needs `Held`, that the layers with the blending MPP are the EXYNOS ones and lie in its
range, and `Converts`, that the one with the MPP of one source is DEVICE. Both fail for a while in the middle
of a try: `addExynosCompositionLayer` widens the range first and follows up layer by layer,
so what its parts preserve is stated of two assignments, before and after (`Fine`, and `Rough` for a
range whose ends are being trimmed). `Pending` says that the layers `assignLayers` has yet to come
to have no MPP of one source, which makes them free to become anything. `Inv` collects what holds at
which `pc`. It and the invariants below (`Good`, `Patient`, `FirstTry`) are in `ResourceAssignInv`, with the
invariants of the loops; TLC has checked all four on an instance of three layers.

The loops over layers are recursive functions over a bounded set of numbers (`Loop`). Their
induction is over sets of numbers (`UpTo`), which the provers can do: `LoopFunction` says that the function exists
when the step stays in a set, `LoopThrough` that it follows a family of sets, one for each
number of turns, and one lemma per loop turns the operator into such a function.

`EveryLayerShown` and `BlendedIsContiguous` are about types, ranges and targets together, and none of
the steps that build them is safe by itself. `Good` is what is added to `Inv`, for frames with
`HighApart`. `Course` describes the assignment between the steps of a try: the range of the G2D holds
nothing but its layers (`Solid`); the client's begins and ends with one of its layers and spans no
other of low priority; a range has an MPP for its target from the step on that looks for one
(`BothTargeted`), or the try ends in a change; and each layer the try has come to is in a range or has
an MPP of its own (`Found`). Inside `addExynosCompositionLayer` none of this is true, so `blendSandwiched`,
`unnest` and the trim each have what they make of the ranges stated before and after. In `Finish`, the loops of
`updateClientComposition` take layers off either end of the client's range; `Put` is what they and `assignWindow` leave: each layer has a place
(`Kept`), and the windows are numbered in Z order up to each layer, a range at its last one (`Numbered`).
The attempt to prove this is what found the two neighbours of high priority of section 3.

`NeverGivenUp` is a termination argument, made of a safety invariant: the tries so far and
`Left`, what is left to change, are no more than `MostTries` together. A try that ends in a change
has moved a layer to the client or to the G2D, or has found one more MPP busy, or has given up the
range of low frame rate; only the last two let layers come back, and each happens once per MPP or
frame (`Spare`). That a try does not end in a change without one of them is what most of the
lemmas are for.

`NoInversion` says nothing of why a layer of high priority went to the client, so it is not
inductive: what keeps others from the MPP later is the reason it was refused. `Fair` keeps the reason:
either no window was left, and no layer below it has an MPP or is of type DEVICE (`NoneFor`), or all
OTF MPPs that support it have a source, which is not a layer below it (`AllTaken`). In the first try,
layers are looked at in the order of priority (`Unseen`), only layers of low priority follow another one to the
client (`OnlyLowFollow`), and no layer goes to the G2D without ending the try, so both stay
true until `Finish`. There `updateClientComposition` gives layers at the ends of the client's
range a window of their own if one is left and an OTF MPP has no source, and a layer that has lost
all MPPs to others is then no worse off. Only when the last layer leaves the client does its
target give an MPP back, and then there is nothing left to be fair about (`KeepingFair`).
`FirstTry` says at which `pc` this holds. After `Fallback` no layer has an MPP.

`GscM2m_proofs` proves, for all frames, any ring and any failing requests:

- `GscTypeCorrect`: `Spec => []TypeOK`.
- `DriverIsAsked`, `ConvertedAsAsked`, `SecureIsProtected`: the safety properties of the
  session.

None of the three is inductive: processM2M compares a frame with the last one and
configures the session only when they differ, so what the driver has been told depends on
`mConfig`, the session and the place of the call together. `SessionAt` says for
each place whether the session is `Fresh`, `Untold` (configured, nothing told to the driver) or
`Loaded` (both sides stream with what it was configured with), and that between frames
`mConfig` is either nothing or what a loaded session runs with. `SessionKept` ties
the conversion in the driver to the configuration of its frame. Assumptions: a buffer keeps
its format and protection for its life (`FrameFields`), and `None` is no value of any type.

It also proves, for the same constants:

- `BuffersFit`: `Spec => []BufferFits`.
- `ScreenIsWaitedFor`: `Spec => []WaitsForScreen`.

`BufferFits` speaks of one buffer, but the ring is allocated one buffer per frame, so a
step can break it several frames later. `RingAt` says what holds of all of them: the buffers
allocated so far are of the kind of the last frame, and the ring is either full or has
exactly the buffers behind the current one (`NextFits` before a frame has taken its buffer,
`CurrentFits` after). Between frames this is known only while `mConfig` is kept; a failure
sets it to nothing, and the next frame begins the ring anew. There is one exception: a session that is
created again for an unchanged frame is not configured, and may come with a ring of another
kind; that frame fails before its conversion is queued.

For `WaitsForScreen` the fences have to be followed from a frame posted to the conversion
that overwrites its buffer, any number of frames later. `FenceKept`: a buffer of the ring that a frame on, or on its
way to, the display shows has a fence that signals no sooner than that frame is replaced, or
its conversion is about to be posted and waits as long. `RetireLast`: the fence of
the last retired frame, which a reused picture and a skipped frame are given, is that of the
last frame posted. `JobWaits` carries it over to a conversion under way.

`AcrylMscl_proofs` proves, for any layers, canvases, sizes and failing requests:

- `MsclTypeCorrect`: `Spec => []TypeOK`.
- `FencesNeverLeaked`: `Spec => []NoFenceLeaked`.

The count of fences is preserved by a step only if a queued buffer's release fence is
still to be handed out: `ReleasesKept` says that there is none before the buffer of its
side was queued, and that the source's is held all through the reset of an aborted job.

It also proves, for the same constants, when the requests that may fail leave out the three
of the table above (`Recovers`):

- `JobsConfigured`: `Spec => []ConfiguredAsAsked`.
- `JobsSucceed`: `Spec => []FaultlessJobSucceeds`.

`SessionInv` says what the session may believe of the driver. Between two calls, after any
failures (`BuffersKept`, `ControlsKept`): the session knows which side has buffers, a buffer
it takes for queued is queued, the transform and the protection it remembers are
the driver's, and a streaming side whose image has no new setting streams with that image. The last
one is what allows `resetMode()` to skip a reset. Within a call (`CallKept`), from the
decision of `resetMode()` on, a side that still streams has what was asked for (`Agreed`), after
`changeMode()` every side has been told (`AllTold`), and an aborted job keeps
this through its reset. `JobsKept` follows the queued buffers, also through a job that is
refused half way, which is where `Stranded` comes from. `KindFollowsType` is used
once, for a setter that leaves the image settled: the buffers the driver was asked for are
of the new image's kind.

`JpegCamera_proofs` proves, for any shots, any lengths of a thumbnail and any number of
threads:

- `JpegTypeCorrect`: `Spec => []TypeOK`, for any client and any failures.

and for the clients and failures of `Orderly`:

- `JobsAreTheShot`: `Spec => []JobAsAsked`.
- `OwnThumbEmbedded`: `Spec => []EmbedsOwnThumb`.
- `FaultlessShots`: `Spec => []FaultlessShotSucceeds`.

`Orderly` leaves out what the table above shows to break them: an image given before the
thumbnail, a client that switches between given and generated thumbnails, a main image that
fails while the thread runs, a failing `S_EXT_CTRLS`, and a stream buffer that cannot be
allocated. Two more hypotheses are about the shots (section 5): memory of another
kind comes with another pixel format (`KindFollowsFormat`), and a generated thumbnail that
may have to be compressed again is in the buffer from which that is done
(`AgainFromSame`). `MCJpegCamera` assumes `Orderly` of its instance, as `MCAcrylMscl` assumes
`Recovers`, so TLC evaluates both.

`CameraInv` is the invariant. None of the properties is inductive: what is queued for a shot
depends on what the sessions remember of all shots before. `SessionsKnown` is what a session
may believe after any failure: without the flag `PIX_FMT` the driver has its format, with
`REQBUFS` the driver has buffers of the kind that every shot of this format uses, and the
controls the driver does not have are among those still to be set. The failures of a
compression end in one of a few states (`CompressFailures`), and each keeps this. It says
nothing of the buffers the driver may have kept after a failing DQBUF (`driver.kept`):
what is proved is that the request of a shot always fits (`Fits`), so that such a buffer is
the only thing an earlier shot can leave in the way, and `FaultlessShots` excepts it.
`EncKept` is the same one level up: settings that are not marked as changed are the
main session's format. `ShotKept` and `MainKept` say what of the shot has reached the settings
and the session at each place of the client. `ThreadsKept` and `OneThread`: a
thread exists only between its start and its join, it is the one `m_threadWorker` names, and nobody
else compresses a thumbnail meanwhile, which is why the thumbnail session and the
buffers are not shared. `PictureKept` says from where on the picture of the thumbnail is there,
`CallKept` what the thumbnail's session has been told at each place of a call, and `ResultKept`
ties the length of the thumbnail to its limits and to `excused`. There is one lemma per
action, and under it one step per part of the invariant.

Only model-checked, and why:

- liveness (`PowerModeReturns`, `SetEnds`, `EncodeEnds`): liveness under fairness is out of
  the prover's reach;
- `ShownOwnsResources` of `FrameProtocol` without the hypothesis of `ShownOwnTheirs`: it holds
  for the instance and is violated for larger sets of displays (second table of section 3);
- `SkippedValidateOwnsAll` for virtual displays: it holds for the instance and is violated with
  one display of each type. `SkippedOwnsResources` is violated.

## 5. Not modelled

See the components of `PROJECT.json`. In the frame protocol: vsync-timed
configuration changes, DOZE power modes (built only with `USES_DOZEMODE`), the
blanking of an external display by the service (`mBlanked` is never set), readback,
window update, the virtual display's output buffer and LLWFD mode, and the
destructor of `ExynosDevice` (its `pthread_kill(SIGTERM)` ends the process). Two paths are
dead in this tree and left out for that reason: `setHWStateFence` is only ever called
with -1, so the state fences of `ResourceManageThread` never exist, and
`doReallocDstBufs` has no caller, so `DstBufMgrThread` never has work.

Some failures of the frame protocol are taken together or left out. `AssignValidate` lets
every failing validation of a first display mark the resources as taken back, also when
`preProcessLayer` failed before `prepareResources`. `Unplug` is the one that succeeds: a
refused power-off, after which `closeExternalDisplay` returns early
(`ExynosExternalDisplay.cpp:114`), and a failing `openExternalDisplay` (line 533) are not
represented. Neither are the error returns of `getChangedCompositionTypes` and
`getDisplayRequests` for a display that is already validated (`AlreadyValidated`).

In the resource assignment: MPPs shared by several displays (reservation and
hand-over), format tables and downscale limits, the capacity arithmetic, the
cursor layer, and the switches of `mDisplayControl` other than `useMaxG2DSrc`.

Around `GscM2m`: the external display (a ring of 2 buffers and its own advance,
`ExynosExternalDisplay.cpp:275`), the virtual display (no buffers of its own), the MSC
scaler and its double operation, blending and S3D, and `BufferFreeThread`. `set()` is given a fresh
layer handle for a fresh picture, so the comparison of file descriptor numbers in
`checkConfigChanged` is taken for one of buffers; the acquire fence that is lost when a frame
fails, and `mLastRetireFenceFd`, which is duplicated after the client may have
closed it (`libvppdisplay/ExynosDisplay.cpp:505`), are not represented. `skip_win_config`
is off by default (`ExynosHWC.cpp:1167` of `libhwc1`): `SkipFrame` covers it on and off.
`skip_m2m_processing_mode` (`ExynosMPPv2.cpp:916`) is taken as on. The errors of `set()` that
have nothing to do with the conversion (`libvppdisplay/ExynosDisplay.cpp:488`, 2022, 2047-2065)
and a failing `dup()` of a fence (513, 573) are left out.

In the JPEG encoder: the decoder, the wrapper of the older API, `destroy()`, a failing
`TRY_FMT` (the format is remembered before it is tried, so a second attempt takes it for
set, with the number of planes of the format before: `hwjpeg-v4l2.cpp:153`), a second
failure while a first one is cleaned up (so the `StopStreaming()` of line 586 succeeds),
and where the segments lie in the stream. `encode()` may also refuse a shot for its Exif data
(`ExynosJpegEncoderForCamera.cpp:387`), for a buffer that is too small (517) or because
nothing is left of a stream after its trailing bytes (481, 801): these are not represented. Memory
of another type without a new format is refused by the driver for good, since `ReqBufs()`
returns early (line 490). A thumbnail generated from a picture in two
buffers by address that turns out too large for the stream's buffer is compressed again
from the wrong side of the union in `ExynosJpegEncoderForCamera.h:65` (line 512): the
instance has no such shot. Without back-to-back compression nothing compares the types
of the two images; `MayAsk` takes them to be equal.

In Acryl: the G2D and MSCL3830 back ends, several layers with `prioritize`,
`importLayer`, performance requests, HDR data, and the compositor's destruction. A client
that asks for the release fences of a job may not wait for it at once (`Execute`).

## 6. Plan

Done: `FrameCore`, `FrameProtocol`, `FrameContract`, `Hwc3Frame`, `DynamicRecomp`, `M2mBuffer`,
`ResourceAssign`, `GscM2m`, `AcrylMscl`, `JpegCompressor` and `JpegCamera` with their proofs.

1. An abstract specification of a buffer ring (each buffer is owned by the composer,
   queued, or on the screen) for both rings; how `MayDrop` and `MayFail` break `RingInv`.
2. `MppHandover`: FREE, RESERVED and ASSIGNED of every MPP over several displays;
   `MppCapacity`: what `addCapacity` adds is what `removeCapacity` takes away.
3. A composition of FrameProtocol and M2mBuffer that decides which of `MayDrop`'s
   frames really occur; external power state (`mEnabled`), configuration changes.
4. `Repeater`, `TSMux`, `Scaler`, `GiantMscl`, the other back ends of `libacryl`.
5. HWC 2.0 where it differs from 2.1.
