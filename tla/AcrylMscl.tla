------------------------------ MODULE AcrylMscl ------------------------------
(***************************************************************************)
(* Acryl's scaler (AcrylicCompositorMSCL9810): its two images, the session *)
(* it keeps on the MSCL driver, and that driver.                           *)
(*                                                                         *)
(* A client sets up the source image, its layer, and the target image, its *)
(* canvas, and asks for a job with execute().  The session remembers what  *)
(* it has told the driver, and a setter remembers that it changed          *)
(* something, so that execute() only repeats what is new: most jobs find   *)
(* the driver configured and only exchange the buffers.  Every request may *)
(* fail; the next job starts from whatever was reached by then.            *)
(*                                                                         *)
(* One extent stands for the two dimensions of a picture.  An image type   *)
(* stands for a pixel format together with its colour space.               *)
(***************************************************************************)
EXTENDS Integers

CONSTANTS
  Layers,         \* what a client may set a layer up with
  Canvases,       \* what a client may set the canvas up with
  Dimensions,     \* the extents within the limits of the hardware
  Types,          \* the supported image types, "RGB" among them
  MaxScale,       \* the largest ratio an extent is scaled by, up or down
  Faults,         \* the requests that may fail, as <<request, of what>>
  None            \* "no value"

Side == {"SOURCE", "TARGET"}
Memory == {"DMABUF", "USERPTR"}
Flip == {"FLIP_H", "FLIP_V", "ROT_90"}
Setting == {"TYPE", "DIMENSION", "BUFFER"}

(* The requests as they can fail.                                          *)
Requests ==
  ({"STREAMOFF", "REQBUFS", "REQBUFS(0)", "S_FMT", "S_CROP", "STREAMON",
    "QBUF", "DQBUF"} \X Side)
  \cup ({"S_CTRL"} \X (Flip \cup {"CSC_EQ", "CSC_RANGE", "PROTECTION"}))

Rectangle == [pos : Nat, size : Nat]

ASSUME FaultsAreRequests == Faults \subseteq Requests
ASSUME SizesArePositive ==
  /\ Dimensions \subseteq Nat \ {0} /\ MaxScale \in Nat \ {0}
  /\ \E n \in Dimensions : \A m \in Dimensions : n <= m
ASSUME NoneIsNeither == None \notin Memory \cup Types

(* A client may ask for any extent and any type, supported or not.         *)
ASSUME Offers ==
  /\ \A s \in Layers \cup Canvases :
        s.memory \in Memory /\ s.protected \in BOOLEAN /\ s.fence \in BOOLEAN
  /\ \A l \in Layers : /\ l.crop \in Rectangle /\ l.window \in Rectangle
                       /\ l.transform \subseteq Flip

(* It keeps to one kind of memory for the images of a type: prepareExecute *)
(* asks for the buffers of a side again only when its format is new.       *)
ASSUME KindFollowsType ==
  \A offered \in {Layers, Canvases} : \A s, t \in offered :
    s.type = t.type => s.memory = t.memory

VARIABLES
  image,          \* AcrylicCanvas: the image of either side
  area,           \* AcrylicLayer: the crop, the window and the transform
  session,        \* AcrylicCompositorMSCL9810: what the driver was told
  driver,         \* what the driver has
  call,           \* the call that is being made
  fences          \* the number of open fences the library has to close

vars == <<image, area, session, driver, call, fences>>

Whole(extent) == [pos |-> 0, size |-> extent]
NoRect == Whole(0)
Smallest == CHOOSE n \in Dimensions : \A m \in Dimensions : n <= m

(* Changed settings are those since the last job that reached the buffers. *)
NewImage ==
  [has |-> {}, changed |-> {}, dimension |-> Smallest, type |-> None,
   memory |-> None, protected |-> FALSE, fence |-> FALSE]

NewArea == [crop |-> NoRect, window |-> NoRect, transform |-> {}]

On(value) == [d \in Side |-> value]

NoCall ==
  [pc |-> "idle", side |-> "SOURCE", room |-> 0, waits |-> FALSE,
   faulted |-> FALSE, ok |-> FALSE, aborts |-> FALSE, release |-> {}]

Init ==
  /\ image = On(NewImage)
  /\ area = NewArea
  /\ session = [transform |-> {}, turned |-> FALSE, protected |-> FALSE,
                rect |-> On(NoRect), memory |-> On(None), state |-> On({})]
  /\ driver = [transform |-> {}, csc |-> <<None, None>>, protected |-> FALSE,
               format |-> On(None), rect |-> On(NoRect), buffers |-> On(None),
               streaming |-> {}, queued |-> {}]
  /\ call = NoCall
  /\ fences = 0

-----------------------------------------------------------------------------
(* What the client sets up between two calls.                              *)

One(b) == IF b THEN 1 ELSE 0

(* Mutant: a value is taken whether it is supported or not.                *)
WithSettingUnchecked(i, setting, field, value, supported) ==
  [i EXCEPT ![field] = value, !.has = @ \cup {setting},
            !.changed = @ \cup {setting}]

(* A value that is set already changes nothing; one that is refused leaves *)
(* the image without the setting.                                          *)
WithSetting(i, setting, field, value, supported) ==
  IF setting \in i.has /\ i[field] = value THEN i
  ELSE IF value \in supported
       THEN [i EXCEPT ![field] = value, !.has = @ \cup {setting},
                      !.changed = @ \cup {setting}]
       ELSE [i EXCEPT !.has = @ \ {setting}]

WithDimension(i, extent) ==
  WithSetting(i, "DIMENSION", "dimension", extent, Dimensions)

WithType(i, type) == WithSetting(i, "TYPE", "type", type, Types)

(* The fence of an earlier buffer that was never used is closed.           *)
WithBuffer(i, b) ==
  [i EXCEPT !.memory = b.memory, !.protected = b.protected, !.fence = b.fence,
            !.has = @ \cup {"BUFFER"}]

WithImage(i, b) ==
  WithBuffer(WithType(WithDimension(i, b.dimension), b.type), b)

Scales(from, to) == from <= to * MaxScale /\ to <= from * MaxScale

(* setImageDimension() of a layer puts its crop back to the whole image.   *)
Uncropped(a, i) ==
  IF "DIMENSION" \in i.has THEN [a EXCEPT !.crop = Whole(i.dimension)] ELSE a

AreaFits(i, l) ==
  /\ l.crop.size >= Smallest
  /\ l.crop.pos + l.crop.size <= i.dimension
  /\ l.window # NoRect =>
       l.window.size >= Smallest /\ Scales(l.crop.size, l.window.size)

(* An area that is refused leaves the one before.                          *)
WithArea(a, i, l) ==
  IF AreaFits(i, l)
  THEN [crop |-> l.crop, window |-> l.window, transform |-> l.transform]
  ELSE a

SetLayer(l) ==
  LET i == WithImage(image["SOURCE"], l)
  IN /\ call.pc = "idle"
     /\ image' = [image EXCEPT !["SOURCE"] = i]
     /\ area' = WithArea(Uncropped(area, i), i, l)
     /\ fences' = fences - One(image["SOURCE"].fence) + One(l.fence)
     /\ UNCHANGED <<session, driver, call>>

SetCanvas(c) ==
  /\ call.pc = "idle"
  /\ image' = [image EXCEPT !["TARGET"] = WithImage(@, c)]
  /\ fences' = fences - One(image["TARGET"].fence) + One(c.fence)
  /\ UNCHANGED <<area, session, driver, call>>

(* The client deletes its layer and creates another one.                   *)
RenewLayer ==
  /\ call.pc = "idle"
  /\ image' = [image EXCEPT !["SOURCE"] = NewImage]
  /\ area' = NewArea
  /\ fences' = fences - One(image["SOURCE"].fence)
  /\ UNCHANGED <<session, driver, call>>

-----------------------------------------------------------------------------
(* validateAllLayers, and the start of a call.                               *)

SettingOkay(i) == i.has = Setting

Valid ==
  /\ \A d \in Side : SettingOkay(image[d])
  /\ IF area.window = NoRect
     THEN Scales(area.crop.size, image["TARGET"].dimension)
     ELSE area.window.pos + area.window.size <= image["TARGET"].dimension
  /\ image["SOURCE"].protected => image["TARGET"].protected

(* execute() with room for that many release fences; without any it may    *)
(* wait for the job.  What is not valid is refused and changes nothing.    *)
Execute(room, waits) ==
  /\ call.pc = "idle"
  /\ Valid
  /\ waits => room = 0
  /\ call' = [NoCall EXCEPT !.pc = "dequeue", !.room = room, !.waits = waits]
  /\ UNCHANGED <<image, area, session, driver, fences>>

At(pc, d) == call.pc = pc /\ call.side = d
GoTo(pc, d) == call' = [call EXCEPT !.pc = pc, !.side = d]

(* The next side, or the step after both.                                  *)
ProceedAfter(fault, d, pc) ==
  call' = [call EXCEPT !.pc = IF d = "SOURCE" THEN @ ELSE pc,
                       !.side = IF d = "SOURCE" THEN "TARGET" ELSE "SOURCE",
                       !.faulted = @ \/ fault]

Proceed(d, pc) == ProceedAfter(FALSE, d, pc)

(* The call is refused, because of a fault or because the driver cannot do *)
(* what it is asked for.                                                   *)
Fail(fault) ==
  call' = [call EXCEPT !.pc = "return", !.faulted = @ \/ fault, !.ok = FALSE]

MayFail(request, of) == <<request, of>> \in Faults

-----------------------------------------------------------------------------
(* dequeueBuffer: the job before is waited for.                            *)

AfterDequeue(d) ==
  IF d = "TARGET" /\ call.waits /\ call.ok
  THEN GoTo("return", d)
  ELSE Proceed(d, "transform")

Dequeue(d) ==
  /\ At("dequeue", d)
  /\ \/ /\ "QBUF" \notin session.state[d]
        /\ AfterDequeue(d)
        /\ UNCHANGED <<session, driver>>
     \/ /\ "QBUF" \in session.state[d]
        /\ d \in driver.queued \cap driver.streaming
        /\ session' = [session EXCEPT !.state[d] = @ \ {"QBUF"}]
        /\ driver' = [driver EXCEPT !.queued = @ \ {d}]
        /\ AfterDequeue(d)
     \/ /\ "QBUF" \in session.state[d]
        /\ d \notin driver.streaming \/ MayFail("DQBUF", d)
        /\ Fail(d \in driver.streaming)
        /\ UNCHANGED <<session, driver>>
  /\ UNCHANGED <<image, area, fences>>

-----------------------------------------------------------------------------
(* setTransform: one control after the other, those that differ.           *)

Turning == (session.transform \ area.transform)
           \cup (area.transform \ session.transform)

Earlier == [FLIP_H |-> {}, FLIP_V |-> {"FLIP_H"}, ROT_90 |-> {"FLIP_H", "FLIP_V"}]

Turned(controls) ==
  [driver EXCEPT !.transform = (@ \ controls) \cup (area.transform \cap controls)]

SetTransform ==
  /\ call.pc = "transform"
  /\ \/ /\ session' = [session EXCEPT !.turned = Turning # {},
                                      !.transform = area.transform]
        /\ driver' = Turned(Turning)
        /\ GoTo("mode", "SOURCE")
     \/ \E f \in Turning :
          /\ MayFail("S_CTRL", f)
          /\ session' = [session EXCEPT !.turned = TRUE]
          /\ driver' = Turned(Turning \cap Earlier[f])
          /\ Fail(TRUE)
  /\ UNCHANGED <<image, area, fences>>

-----------------------------------------------------------------------------
(* resetMode: nothing can be configured while a side has its buffers.      *)

Window ==
  IF area.window = NoRect THEN Whole(image["TARGET"].dimension) ELSE area.window

Rect == [SOURCE |-> area.crop, TARGET |-> Window]

(* Mutant: the settings of the images that changed are not looked at.      *)
ResetIfMoved == session.rect # Rect \/ session.turned

ResetRequired ==
  \/ session.rect # Rect
  \/ \E d \in Side : image[d].changed # {}
  \/ session.turned

(* A failing call that resets what it reached goes on to its end.          *)
AfterReset ==
  GoTo(IF call.aborts THEN "finish" ELSE "change", "SOURCE")

ResetMode ==
  /\ call.pc = "mode"
  /\ session' = [session EXCEPT !.turned = FALSE]
  /\ IF ResetRequired THEN GoTo("reset", "SOURCE") ELSE AfterReset
  /\ UNCHANGED <<image, area, driver, fences>>

Stopped(d) ==
  [driver EXCEPT !.streaming = @ \ {d}, !.queued = @ \ {d}]

Freed(d) == [Stopped(d) EXCEPT !.buffers[d] = None]

(* Neither failure stops the reset; buffers that could not be freed stay.  *)
Reset(d) ==
  /\ At("reset", d)
  /\ \/ /\ "REQBUFS" \notin session.state[d]
        /\ Proceed(d, "csc")
        /\ UNCHANGED <<session, driver>>
     \/ \E off \in IF MayFail("STREAMOFF", d) THEN BOOLEAN ELSE {TRUE} :
          /\ "REQBUFS" \in session.state[d]
          /\ \/ /\ session' = [session EXCEPT !.state[d] = @ \ {"REQBUFS"}]
                /\ driver' = Freed(d)
                /\ ProceedAfter(~off, d, "csc")
             \/ /\ MayFail("REQBUFS(0)", d)
                /\ driver' = IF off THEN Stopped(d) ELSE driver
                /\ ProceedAfter(TRUE, d, "csc")
                /\ UNCHANGED session
  /\ UNCHANGED <<image, area, fences>>

(* configureCSC: the type whose colour space the conversion takes its      *)
(* matrix and its range from, if one side is RGB and the other is not.     *)
Conversion ==
  LET s == image["SOURCE"].type
      t == image["TARGET"].type
  IN IF s = "RGB" /\ t # "RGB" THEN t
     ELSE IF s # "RGB" /\ t = "RGB" THEN s
     ELSE None

ConfigureCSC ==
  /\ call.pc = "csc"
  /\ \/ /\ Conversion = None
        /\ AfterReset
        /\ UNCHANGED driver
     \/ /\ Conversion # None
        /\ driver' = [driver EXCEPT !.csc = <<Conversion, Conversion>>]
        /\ AfterReset
     \/ /\ Conversion # None
        /\ \/ /\ MayFail("S_CTRL", "CSC_EQ")
              /\ UNCHANGED driver
           \/ /\ MayFail("S_CTRL", "CSC_RANGE")
              /\ driver' = [driver EXCEPT !.csc[1] = Conversion]
        /\ IF call.aborts THEN AfterReset ELSE Fail(TRUE)
  /\ UNCHANGED <<image, area, session, fences>>

-----------------------------------------------------------------------------
(* changeMode: the format and the crop of a side without buffers.          *)

Format(i) == <<i.dimension, i.type>>

ChangeMode(d) ==
  LET whole == Whole(image[d].dimension)
      formatted == [driver EXCEPT !.format[d] = Format(image[d]),
                                  !.rect[d] = whole]
  IN /\ At("change", d)
     /\ \/ /\ "REQBUFS" \in session.state[d]
           /\ Proceed(d, "protect")
           /\ UNCHANGED <<session, driver>>
        \/ /\ "REQBUFS" \notin session.state[d]
           /\ driver.buffers[d] = None
           /\ session' = [session EXCEPT !.rect[d] = Rect[d]]
           /\ driver' = [formatted EXCEPT !.rect[d] = Rect[d]]
           /\ Proceed(d, "protect")
        \/ /\ "REQBUFS" \notin session.state[d]
           /\ driver.buffers[d] # None \/ MayFail("S_FMT", d)
           /\ Fail(driver.buffers[d] = None)
           /\ UNCHANGED <<session, driver>>
        \/ /\ "REQBUFS" \notin session.state[d]
           /\ driver.buffers[d] = None
           /\ MayFail("S_CROP", d)
           /\ session' = [session EXCEPT !.rect[d] = whole]
           /\ driver' = formatted
           /\ Fail(TRUE)
     /\ UNCHANGED <<image, area, fences>>

-----------------------------------------------------------------------------
(* prepareExecute: the protection, then the buffers of both sides.         *)

SetProtection ==
  /\ call.pc = "protect"
  /\ LET protected == image["TARGET"].protected
     IN \/ /\ session.protected = protected
           /\ GoTo("prepare", "SOURCE")
           /\ UNCHANGED <<session, driver>>
        \/ /\ session.protected # protected
           /\ session' = [session EXCEPT !.protected = protected]
           /\ driver' = [driver EXCEPT !.protected = protected]
           /\ GoTo("prepare", "SOURCE")
        \/ /\ session.protected # protected
           /\ MayFail("S_CTRL", "PROTECTION")
           /\ Fail(TRUE)
           /\ UNCHANGED <<session, driver>>
  /\ UNCHANGED <<image, area, fences>>

(* Mutant: buffers that cannot be streamed are kept.                       *)
PrepareKeeps(d) ==
  LET requested == [driver EXCEPT !.buffers[d] = image[d].memory]
  IN /\ At("prepare", d)
     /\ \/ /\ "REQBUFS" \in session.state[d]
           /\ Proceed(d, "queue")
           /\ UNCHANGED <<session, driver>>
        \/ /\ "REQBUFS" \notin session.state[d]
           /\ session' = [session EXCEPT !.memory[d] = image[d].memory,
                                         !.state[d] = @ \cup {"REQBUFS"}]
           /\ driver' = [requested EXCEPT !.streaming = @ \cup {d}]
           /\ Proceed(d, "queue")
        \/ /\ "REQBUFS" \notin session.state[d]
           /\ driver' = IF MayFail("STREAMON", d) THEN requested ELSE driver
           /\ Fail(TRUE)
           /\ UNCHANGED session
     /\ UNCHANGED <<image, area, fences>>

(* Buffers that cannot be streamed are given back, if that succeeds.       *)
Prepare(d) ==
  LET requested == [driver EXCEPT !.buffers[d] = image[d].memory]
  IN /\ At("prepare", d)
     /\ \/ /\ "REQBUFS" \in session.state[d]
           /\ Proceed(d, "queue")
           /\ UNCHANGED <<session, driver>>
        \/ /\ "REQBUFS" \notin session.state[d]
           /\ session' = [session EXCEPT !.memory[d] = image[d].memory,
                                         !.state[d] = @ \cup {"REQBUFS"}]
           /\ driver' = [requested EXCEPT !.streaming = @ \cup {d}]
           /\ Proceed(d, "queue")
        \/ /\ "REQBUFS" \notin session.state[d]
           /\ \/ /\ MayFail("REQBUFS", d)
                 /\ UNCHANGED driver
              \/ /\ MayFail("STREAMON", d)
                 /\ driver' = Freed(d)
              \/ /\ MayFail("STREAMON", d) /\ MayFail("REQBUFS(0)", d)
                 /\ driver' = requested
           /\ Fail(TRUE)
           /\ UNCHANGED session
     /\ UNCHANGED <<image, area, fences>>

-----------------------------------------------------------------------------
(* queueBuffer: both buffers, and the fences that come with them.          *)

(* The driver makes a release fence if it is given an acquire fence, which *)
(* it does not keep, or if one is asked for: the source's goes first.      *)
Releases(d) == image[d].fence \/ call.room > IF d = "SOURCE" THEN 0 ELSE 1

Unfenced(d) == [image EXCEPT ![d].fence = FALSE]

MayQueue(d) == driver.buffers[d] = image[d].memory /\ d \notin driver.queued

(* A target that is refused takes the source's job with it.                *)
QueueBuffer(d) ==
  /\ At("queue", d)
  /\ image' = Unfenced(d)
  /\ \/ /\ MayQueue(d)
        /\ driver' = [driver EXCEPT !.queued = @ \cup {d}]
        /\ fences' = fences + One(Releases(d)) - One(image[d].fence)
        /\ call' = [call EXCEPT
             !.release = IF Releases(d) THEN @ \cup {d} ELSE @,
             !.ok = d = "TARGET",
             !.pc = IF d = "TARGET" THEN "finish" ELSE @,
             !.side = IF d = "TARGET" THEN "SOURCE" ELSE "TARGET"]
     \/ /\ ~ MayQueue(d) \/ MayFail("QBUF", d)
        /\ fences' = fences - One(image[d].fence)
        /\ call' = [call EXCEPT
             !.faulted = @ \/ MayQueue(d),
             !.aborts = d = "TARGET",
             !.pc = IF d = "TARGET" THEN "mode" ELSE "finish",
             !.side = "SOURCE"]
        /\ UNCHANGED driver
  /\ UNCHANGED <<area, session>>

(* Mutant: the fence of a buffer that was never queued is forgotten.       *)
FinishForgets ==
  /\ call.pc = "finish"
  /\ image' = [d \in Side |-> [image[d] EXCEPT !.changed = {}, !.fence = FALSE]]
  /\ session' = IF call.ok
                THEN [session EXCEPT !.state = [d \in Side |-> @[d] \cup {"QBUF"}]]
                ELSE session
  /\ fences' = fences - One("SOURCE" \in call.release)
                      - One("TARGET" \in call.release)
  /\ call' = [call EXCEPT !.release = {},
                          !.pc = IF call.ok /\ call.waits THEN "dequeue"
                                 ELSE "return"]
  /\ UNCHANGED <<area, driver>>

(* The release fences go to the caller or are closed, and so are acquire   *)
(* fences of buffers that were never queued.                               *)
Finish ==
  /\ call.pc = "finish"
  /\ image' = [d \in Side |-> [image[d] EXCEPT !.changed = {}, !.fence = FALSE]]
  /\ session' = IF call.ok
                THEN [session EXCEPT !.state = [d \in Side |-> @[d] \cup {"QBUF"}]]
                ELSE session
  /\ fences' = fences - One("SOURCE" \in call.release)
                      - One("TARGET" \in call.release)
                      - One(image["SOURCE"].fence) - One(image["TARGET"].fence)
  /\ call' = [call EXCEPT !.release = {},
                          !.pc = IF call.ok /\ call.waits THEN "dequeue"
                                 ELSE "return"]
  /\ UNCHANGED <<area, driver>>

Return ==
  /\ call.pc = "return"
  /\ call' = NoCall
  /\ UNCHANGED <<image, area, session, driver, fences>>

(* waitExecution() of the client for the job that was queued.              *)
WaitExecution ==
  /\ call.pc = "idle"
  /\ call' = [NoCall EXCEPT !.pc = "dequeue", !.waits = TRUE, !.ok = TRUE]
  /\ UNCHANGED <<image, area, session, driver, fences>>

Next ==
  \/ \E l \in Layers : SetLayer(l)
  \/ \E c \in Canvases : SetCanvas(c)
  \/ RenewLayer
  \/ \E room \in 0 .. 2, waits \in BOOLEAN : Execute(room, waits)
  \/ WaitExecution
  \/ \E d \in Side : \/ Dequeue(d) \/ Reset(d) \/ ChangeMode(d)
                     \/ Prepare(d) \/ QueueBuffer(d)
  \/ SetTransform \/ ResetMode \/ ConfigureCSC \/ SetProtection
  \/ Finish \/ Return

Spec == Init /\ [][Next]_vars

-----------------------------------------------------------------------------
(* Types: what the session, the driver and the images are made of.         *)

Type == Types \cup {None}
Kind == Memory \cup {None}

Images ==
  [has : SUBSET Setting, changed : SUBSET Setting, dimension : Dimensions,
   type : Type, memory : Kind, protected : BOOLEAN, fence : BOOLEAN]

Areas == [crop : Rectangle, window : Rectangle, transform : SUBSET Flip]

Sessions ==
  [transform : SUBSET Flip, turned : BOOLEAN, protected : BOOLEAN,
   rect : [Side -> Rectangle], memory : [Side -> Kind],
   state : [Side -> SUBSET {"REQBUFS", "QBUF"}]]

Drivers ==
  [transform : SUBSET Flip, csc : Type \X Type, protected : BOOLEAN,
   format : [Side -> {None} \cup (Dimensions \X Type)],
   rect : [Side -> Rectangle], buffers : [Side -> Kind],
   streaming : SUBSET Side, queued : SUBSET Side]

Step == {"idle", "dequeue", "transform", "mode", "reset", "csc", "change",
         "protect", "prepare", "queue", "finish", "return"}

Calls ==
  [pc : Step, side : Side, room : 0 .. 2, waits : BOOLEAN,
   faulted : BOOLEAN, ok : BOOLEAN, aborts : BOOLEAN, release : SUBSET Side]

TypeOK ==
  /\ image \in [Side -> Images] /\ area \in Areas
  /\ session \in Sessions /\ driver \in Drivers
  /\ call \in Calls /\ fences \in 0 .. 4

(* When both buffers are queued, the driver has the format, the crop and   *)
(* the kind of memory of either image, the transform, the protection and,  *)
(* where the types differ, the colour conversion that the client asked for *)
(* last: whatever failed before, no step that execute() left out because   *)
(* the session remembered it as done was due (resetMode, changeMode,       *)
(* setTransform, prepareExecute).                                          *)
ConfiguredAsAsked ==
  call.pc = "finish" /\ call.ok =>
    /\ \A d \in Side : /\ driver.format[d] = Format(image[d])
                       /\ driver.rect[d] = Rect[d]
                       /\ driver.buffers[d] = image[d].memory
    /\ driver.transform = area.transform
    /\ driver.protected = image["TARGET"].protected
    /\ Conversion # None => driver.csc = <<Conversion, Conversion>>
    /\ driver.streaming = Side /\ driver.queued = Side

(* resetMode() at the end of a job whose target is refused resets nothing  *)
(* when nothing has changed: the source's buffer then stays with the       *)
(* driver, which takes no other, while the session knows of no job.        *)
Stranded ==
  /\ driver.queued = {"SOURCE"}
  /\ \A d \in Side : "QBUF" \notin session.state[d]
  /\ ~ ResetRequired

(* A valid call in which no request fails gets its job to the driver,      *)
(* however many calls failed before it and wherever they stopped: what an  *)
(* aborted execute() left in the session and in the driver never refuses a *)
(* later one, a stranded source apart.                                     *)
FaultlessJobSucceeds ==
  call.pc = "return" /\ ~ call.faulted /\ ~ call.ok => Stranded

(* The open fences are those that an image still has to wait for and those *)
(* of buffers queued in this call: on no path of execute(), and in no      *)
(* setter, is a fence lost or closed twice.                                *)
NoFenceLeaked ==
  fences = One(image["SOURCE"].fence) + One(image["TARGET"].fence)
           + One("SOURCE" \in call.release) + One("TARGET" \in call.release)
=============================================================================
