-------------------------- MODULE AcrylMscl_proofs --------------------------
(***************************************************************************)
(* Acryl's scaler session closes every fence once and tells the driver     *)
(* what the client asked for last, whatever failed before; a valid job in  *)
(* which nothing fails is run, for any layers, canvases and sizes.         *)
(***************************************************************************)
EXTENDS AcrylMscl, TLAPS

(* Release fences are held from a queued buffer to the end of the call.    *)
Aborting == call.aborts /\ call.pc \in {"mode", "reset", "csc"}

ReleasesKept ==
  /\ "TARGET" \in call.release => call.pc = "finish"
  /\ "SOURCE" \in call.release =>
       call.pc = "finish" \/ At("queue", "TARGET") \/ Aborting

FenceInv == TypeOK /\ NoFenceLeaked /\ ReleasesKept

-----------------------------------------------------------------------------
LEMMA OneIsBounded == \A b \in BOOLEAN : One(b) \in 0 .. 1
BY DEF One

LEMMA FencesBounded ==
  ASSUME NEW i, NEW release, NEW n,
         \A d \in Side : i[d].fence \in BOOLEAN,
         n = One(i["SOURCE"].fence) + One(i["TARGET"].fence)
             + One("SOURCE" \in release) + One("TARGET" \in release)
  PROVE  n \in 0 .. 4
BY DEF One, Side

LEMMA SizeFacts ==
  /\ Smallest \in Dimensions /\ Dimensions \subseteq Nat \ {0}
  /\ NoRect \in Rectangle
  /\ \A n \in Dimensions : Whole(n) \in Rectangle
<1>1. Smallest \in Dimensions
  BY SizesArePositive DEF Smallest
<1> QED
  BY <1>1, SizesArePositive DEF NoRect, Whole, Rectangle

LEMMA NewTyped ==
  NewImage \in Images /\ NewArea \in Areas /\ NoCall \in Calls
<1>1. NewImage \in Images
  BY SizeFacts DEF NewImage, Images, Type, Kind
<1>2. NewArea \in Areas
  BY SizeFacts DEF NewArea, Areas
<1>3. NoCall \in Calls
  BY DEF NoCall, Calls, Step, Side
<1> QED
  BY <1>1, <1>2, <1>3

LEMMA InitFences == Init => FenceInv
<1> SUFFICES ASSUME Init PROVE FenceInv
  OBVIOUS
<1>1. image \in [Side -> Images] /\ area \in Areas /\ call \in Calls
  BY NewTyped DEF Init, On
<1>2. session \in Sessions
  BY SizeFacts DEF Init, On, Sessions, Kind
<1>3. driver \in Drivers
  BY SizeFacts DEF Init, On, Drivers, Kind, Type
<1>4. NoFenceLeaked /\ ReleasesKept
  BY DEF Init, On, NewImage, NoCall, NoFenceLeaked, One, ReleasesKept, Side
<1> QED
  BY <1>1, <1>2, <1>3, <1>4 DEF FenceInv, TypeOK, Init

-----------------------------------------------------------------------------
(* The client.                                                             *)

LEMMA ImageTyped ==
  ASSUME NEW i \in Images, NEW b \in Layers \cup Canvases
  PROVE  /\ WithImage(i, b) \in Images
         /\ WithImage(i, b).fence = b.fence
<1> DEFINE sized == WithDimension(i, b.dimension)
           typed == WithType(sized, b.type)
<1>1. sized \in Images
  BY DEF WithDimension, WithSetting, Images, Setting
<1>2. typed \in Images
  BY <1>1 DEF WithType, WithSetting, Images, Setting, Type
<1>3. /\ WithBuffer(typed, b) \in Images
      /\ WithBuffer(typed, b).fence = b.fence
  <2> HIDE DEF typed
  <2> QED
    BY <1>2, Offers DEF WithBuffer, Images, Setting, Kind
<1> QED
  BY <1>3 DEF WithImage

LEMMA LayerFences ==
  ASSUME FenceInv, NEW l \in Layers, SetLayer(l) PROVE FenceInv'
<1>1. TypeOK /\ NoFenceLeaked /\ ReleasesKept
  BY DEF FenceInv
<1> DEFINE i == WithImage(image["SOURCE"], l)
<1>2. i \in Images /\ i.fence = l.fence
  BY <1>1, ImageTyped DEF TypeOK, Side
<1> HIDE DEF i
<1>3. image' = [image EXCEPT !["SOURCE"] = i]
  BY DEF SetLayer, i
<1>4. image' \in [Side -> Images]
  BY <1>1, <1>2, <1>3 DEF TypeOK
<1>5. area' \in Areas
  <2>1. Uncropped(area, i) \in Areas
    BY <1>1, <1>2, SizeFacts DEF TypeOK, Uncropped, Areas, Images
  <2>2. WithArea(Uncropped(area, i), i, l) \in Areas
    BY <2>1, Offers DEF WithArea, Areas
  <2> QED
    BY <2>2 DEF SetLayer, i
<1>6. fences' = One(l.fence) + One(image["TARGET"].fence)
                + One("SOURCE" \in call.release) + One("TARGET" \in call.release)
  <2>1. image["SOURCE"].fence \in BOOLEAN /\ image["TARGET"].fence \in BOOLEAN
    BY <1>1 DEF TypeOK, Images, Side
  <2> QED
    BY <1>1, <2>1, Offers, OneIsBounded DEF SetLayer, NoFenceLeaked
<1>7. NoFenceLeaked'
  BY <1>1, <1>2, <1>3, <1>6 DEF NoFenceLeaked, SetLayer, TypeOK, Side
<1>8. fences' \in 0 .. 4
  BY <1>4, <1>7, FencesBounded DEF NoFenceLeaked, Images
<1> QED
  BY <1>1, <1>4, <1>5, <1>7, <1>8
     DEF FenceInv, TypeOK, SetLayer, ReleasesKept, At, Aborting

LEMMA CanvasFences ==
  ASSUME FenceInv, NEW c \in Canvases, SetCanvas(c) PROVE FenceInv'
<1>1. TypeOK /\ NoFenceLeaked /\ ReleasesKept
  BY DEF FenceInv
<1> DEFINE i == WithImage(image["TARGET"], c)
<1>2. i \in Images /\ i.fence = c.fence
  BY <1>1, ImageTyped DEF TypeOK, Side
<1> HIDE DEF i
<1>3. image' = [image EXCEPT !["TARGET"] = i]
  BY DEF SetCanvas, i
<1>4. image' \in [Side -> Images]
  BY <1>1, <1>2, <1>3 DEF TypeOK
<1>5. fences' = One(image["SOURCE"].fence) + One(c.fence)
                + One("SOURCE" \in call.release) + One("TARGET" \in call.release)
  <2>1. image["SOURCE"].fence \in BOOLEAN /\ image["TARGET"].fence \in BOOLEAN
    BY <1>1 DEF TypeOK, Images, Side
  <2> QED
    BY <1>1, <2>1, Offers, OneIsBounded DEF SetCanvas, NoFenceLeaked
<1>6. NoFenceLeaked'
  BY <1>1, <1>2, <1>3, <1>5 DEF NoFenceLeaked, SetCanvas, TypeOK, Side
<1>7. fences' \in 0 .. 4
  BY <1>4, <1>6, FencesBounded DEF NoFenceLeaked, Images
<1> QED
  BY <1>1, <1>4, <1>6, <1>7
     DEF FenceInv, TypeOK, SetCanvas, ReleasesKept, At, Aborting

LEMMA RenewFences == ASSUME FenceInv, RenewLayer PROVE FenceInv'
<1>1. TypeOK /\ NoFenceLeaked /\ ReleasesKept
  BY DEF FenceInv
<1>2. image' \in [Side -> Images] /\ area' \in Areas
  BY <1>1, NewTyped DEF RenewLayer, TypeOK
<1>3. NewImage.fence = FALSE
  BY DEF NewImage
<1>4. NoFenceLeaked'
  <2>1. image["SOURCE"].fence \in BOOLEAN /\ image["TARGET"].fence \in BOOLEAN
    BY <1>1 DEF TypeOK, Images, Side
  <2>2. /\ image'["SOURCE"].fence = FALSE
        /\ image'["TARGET"] = image["TARGET"]
    BY <1>1, <1>3 DEF RenewLayer, TypeOK, Side
  <2> QED
    BY <1>1, <2>1, <2>2, OneIsBounded DEF RenewLayer, NoFenceLeaked, One
<1>5. fences' \in 0 .. 4
  BY <1>2, <1>4, FencesBounded DEF NoFenceLeaked, Images
<1> QED
  BY <1>1, <1>2, <1>4, <1>5
     DEF FenceInv, TypeOK, RenewLayer, ReleasesKept, At, Aborting

-----------------------------------------------------------------------------
(* The steps of a call that neither use nor make fences.                   *)

LEMMA OtherFences ==
  ASSUME FenceInv, UNCHANGED <<image, area, fences>>,
         session' \in Sessions, driver' \in Drivers, call' \in Calls,
         call'.release = call.release, ReleasesKept'
  PROVE  FenceInv'
BY DEF FenceInv, TypeOK, NoFenceLeaked

(* Where a call goes on: with the next step, with the other side, or not.  *)

LEMMA GoToFacts ==
  ASSUME call \in Calls, NEW pc \in Step, NEW d \in Side, GoTo(pc, d)
  PROVE  /\ call' \in Calls /\ call'.pc = pc /\ call'.side = d
         /\ call'.room = call.room /\ call'.waits = call.waits
         /\ call'.faulted = call.faulted /\ call'.ok = call.ok
         /\ call'.aborts = call.aborts /\ call'.release = call.release
BY DEF GoTo, Calls

LEMMA ProceedFacts ==
  ASSUME call \in Calls, NEW pc \in Step, NEW d \in Side,
         NEW fault \in BOOLEAN, ProceedAfter(fault, d, pc)
  PROVE  /\ call' \in Calls
         /\ call'.pc = IF d = "SOURCE" THEN call.pc ELSE pc
         /\ call'.side = IF d = "SOURCE" THEN "TARGET" ELSE "SOURCE"
         /\ call'.room = call.room /\ call'.waits = call.waits
         /\ call'.faulted = (call.faulted \/ fault) /\ call'.ok = call.ok
         /\ call'.aborts = call.aborts /\ call'.release = call.release
<1>1. call'.side \in Side /\ call'.pc \in Step
  BY DEF ProceedAfter, Calls, Side
<1>2. call'.faulted \in BOOLEAN /\ call'.faulted = (call.faulted \/ fault)
  BY DEF ProceedAfter, Calls
<1> QED
  BY <1>1, <1>2 DEF ProceedAfter, Calls

LEMMA FailFacts ==
  ASSUME call \in Calls, NEW fault \in BOOLEAN, Fail(fault)
  PROVE  /\ call' \in Calls /\ call'.pc = "return" /\ ~call'.ok
         /\ call'.faulted = (call.faulted \/ fault)
         /\ call'.side = call.side /\ call'.room = call.room
         /\ call'.waits = call.waits /\ call'.aborts = call.aborts
         /\ call'.release = call.release
<1>1. call'.faulted \in BOOLEAN /\ call'.faulted = (call.faulted \/ fault)
  BY DEF Fail, Calls
<1>2. "return" \in Step
  BY DEF Step
<1> QED
  BY <1>1, <1>2 DEF Fail, Calls

LEMMA ExecuteFences ==
  ASSUME FenceInv, NEW room \in 0 .. 2, NEW waits \in BOOLEAN,
         Execute(room, waits)
  PROVE  FenceInv'
<1>1. call' \in Calls /\ call'.release = {}
  BY NewTyped DEF Execute, NoCall, Calls, Step
<1>2. call.release = {}
  BY DEF FenceInv, TypeOK, ReleasesKept, Execute, At, Aborting, Calls, Side
<1> QED
  BY <1>1, <1>2, OtherFences DEF Execute, FenceInv, TypeOK, ReleasesKept

LEMMA GoOnFences ==
  ASSUME FenceInv, NEW d \in Side, NEW pc \in Step, NEW fault \in BOOLEAN,
         GoTo(pc, d) \/ ProceedAfter(fault, d, pc) \/ Fail(fault),
         call.release = {} \/ (Aborting /\ pc \in {"reset", "csc", "finish"}
                                /\ ~Fail(fault))
  PROVE  call' \in Calls /\ call'.release = call.release /\ ReleasesKept'
<1>1. call \in Calls /\ ReleasesKept
  BY DEF FenceInv, TypeOK
<1>2. CASE GoTo(pc, d)
  BY <1>1, <1>2, GoToFacts DEF ReleasesKept, Aborting
<1>3. CASE ProceedAfter(fault, d, pc)
  BY <1>1, <1>3, ProceedFacts DEF ReleasesKept, Aborting
<1>4. CASE Fail(fault)
  BY <1>1, <1>4, FailFacts DEF ReleasesKept, Aborting
<1> QED
  BY <1>2, <1>3, <1>4

LEMMA SessionTyped ==
  ASSUME session \in Sessions, NEW d \in Side, NEW rect \in Rectangle,
         NEW memory \in Kind, NEW state \in SUBSET {"REQBUFS", "QBUF"}
  PROVE  /\ [session EXCEPT !.state[d] = state] \in Sessions
         /\ [session EXCEPT !.rect[d] = rect] \in Sessions
         /\ [session EXCEPT !.memory[d] = memory, !.state[d] = state] \in Sessions
<1> DEFINE States == SUBSET {"REQBUFS", "QBUF"}
           states == [session.state EXCEPT ![d] = state]
           rects == [session.rect EXCEPT ![d] = rect]
           memories == [session.memory EXCEPT ![d] = memory]
<1>1. states \in [Side -> States] /\ rects \in [Side -> Rectangle]
      /\ memories \in [Side -> Kind]
  BY DEF Sessions
<1> HIDE DEF states, rects, memories
<1>2. /\ [session EXCEPT !.state = states] \in Sessions
      /\ [session EXCEPT !.rect = rects] \in Sessions
      /\ [session EXCEPT !.memory = memories, !.state = states] \in Sessions
  BY <1>1 DEF Sessions
<1>3. /\ [session EXCEPT !.state[d] = state] = [session EXCEPT !.state = states]
      /\ [session EXCEPT !.rect[d] = rect] = [session EXCEPT !.rect = rects]
      /\ [session EXCEPT !.memory[d] = memory, !.state[d] = state]
           = [session EXCEPT !.memory = memories, !.state = states]
  BY DEF Sessions, states, rects, memories
<1> QED
  BY <1>2, <1>3

LEMMA DequeueFences ==
  ASSUME FenceInv, NEW d \in Side, Dequeue(d) PROVE FenceInv'
<1>1. TypeOK /\ ReleasesKept
  BY DEF FenceInv
<1>2. session' \in Sessions /\ driver' \in Drivers
  BY <1>1 DEF Dequeue, TypeOK, Sessions, Drivers
<1>3. call.release = {}
  BY <1>1 DEF Dequeue, At, ReleasesKept, Aborting, TypeOK, Calls, Side
<1>4. \/ ProceedAfter(FALSE, d, "transform") \/ GoTo("return", d)
      \/ \E fault \in BOOLEAN : Fail(fault)
  <2>1. (d \in driver.streaming) \in BOOLEAN
    OBVIOUS
  <2> QED
    BY <2>1 DEF Dequeue, AfterDequeue, Proceed
<1>5. call' \in Calls /\ call'.release = call.release /\ ReleasesKept'
  BY <1>3, <1>4, GoOnFences DEF Step
<1> QED
  BY <1>2, <1>5, OtherFences DEF Dequeue

LEMMA TurnedTyped ==
  ASSUME TypeOK, NEW controls \in SUBSET Flip
  PROVE  Turned(controls) \in Drivers
<1>1. (driver.transform \ controls) \cup (area.transform \cap controls)
        \in SUBSET Flip
  BY DEF TypeOK, Drivers, Areas
<1> QED
  BY <1>1 DEF Turned, TypeOK, Drivers

LEMMA TransformFences == ASSUME FenceInv, SetTransform PROVE FenceInv'
<1>1. TypeOK /\ ReleasesKept
  BY DEF FenceInv
<1>2. Turning \subseteq Flip
  BY <1>1 DEF Turning, TypeOK, Sessions, Areas
<1>3. session' \in Sessions
  BY <1>1 DEF SetTransform, TypeOK, Sessions, Areas
<1>4. driver' \in Drivers
  <2>1. \E controls \in SUBSET Turning : driver' = Turned(controls)
    BY DEF SetTransform
  <2> QED
    BY <1>1, <1>2, <2>1, TurnedTyped
<1>5. call.release = {}
  BY <1>1 DEF SetTransform, At, ReleasesKept, Aborting, TypeOK, Calls, Side
<1>6. GoTo("mode", "SOURCE") \/ Fail(TRUE)
  BY DEF SetTransform
<1>7. call' \in Calls /\ call'.release = call.release /\ ReleasesKept'
  BY <1>5, <1>6, GoOnFences DEF Step, Side
<1> QED
  BY <1>3, <1>4, <1>7, OtherFences DEF SetTransform

LEMMA ModeFences == ASSUME FenceInv, ResetMode PROVE FenceInv'
<1>1. TypeOK /\ ReleasesKept
  BY DEF FenceInv
<1>2. session' \in Sessions /\ driver' \in Drivers
  BY <1>1 DEF ResetMode, TypeOK, Sessions
<1>3. call.release = {} \/ Aborting
  BY <1>1 DEF ResetMode, At, ReleasesKept, TypeOK, Calls, Side
<1>4. \/ GoTo("reset", "SOURCE")
      \/ call.aborts /\ GoTo("finish", "SOURCE")
      \/ ~call.aborts /\ GoTo("change", "SOURCE")
  BY <1>1 DEF ResetMode, AfterReset, TypeOK, Calls
<1>5. ~Aborting => call.release = {}
  BY <1>3
<1>6. call' \in Calls /\ call'.release = call.release /\ ReleasesKept'
  BY <1>1, <1>3, <1>4, <1>5, GoToFacts
     DEF TypeOK, ReleasesKept, Aborting, Step, Side
<1> QED
  BY <1>2, <1>6, OtherFences DEF ResetMode

LEMMA FreedTyped ==
  ASSUME driver \in Drivers, NEW d \in Side
  PROVE  Stopped(d) \in Drivers /\ Freed(d) \in Drivers
<1>1. Stopped(d) \in Drivers
  BY DEF Stopped, Drivers
<1>2. None \in Kind
  BY DEF Kind
<1> QED
  BY <1>1, <1>2 DEF Freed, Drivers

LEMMA ResetFences ==
  ASSUME FenceInv, NEW d \in Side, Reset(d) PROVE FenceInv'
<1>1. TypeOK /\ ReleasesKept
  BY DEF FenceInv
<1>2. session' \in Sessions
  <2>1. session \in Sessions /\ session.state[d] \ {"REQBUFS"}
          \in SUBSET {"REQBUFS", "QBUF"}
    BY <1>1 DEF TypeOK, Sessions
  <2>2. [session EXCEPT !.state[d] = @ \ {"REQBUFS"}]
          = [session EXCEPT !.state[d] = session.state[d] \ {"REQBUFS"}]
    BY <2>1 DEF Sessions
  <2>3. \/ session' = session
        \/ session' = [session EXCEPT !.state[d] = @ \ {"REQBUFS"}]
    BY DEF Reset
  <2> QED
    BY <2>1, <2>2, <2>3, SessionTyped, SizeFacts DEF Kind
<1>3. driver' \in Drivers
  BY <1>1, FreedTyped DEF Reset, TypeOK
<1>4. call.release = {} \/ Aborting
  BY <1>1 DEF Reset, At, ReleasesKept, TypeOK, Calls, Side
<1>5. PICK fault \in BOOLEAN : ProceedAfter(fault, d, "csc")
  BY DEF Reset, Proceed
<1>6. call.pc = "reset" /\ call \in Calls
  BY <1>1 DEF Reset, At, TypeOK
<1>7. call' \in Calls /\ call'.release = call.release /\ ReleasesKept'
  BY <1>1, <1>4, <1>5, <1>6, ProceedFacts DEF ReleasesKept, Aborting, Step
<1> QED
  BY <1>2, <1>3, <1>7, OtherFences DEF Reset

LEMMA CSCFences == ASSUME FenceInv, ConfigureCSC PROVE FenceInv'
<1>1. TypeOK /\ ReleasesKept
  BY DEF FenceInv
<1>2. Conversion \in Type
  BY <1>1 DEF TypeOK, Images, Conversion, Type, Side
<1>3. session' \in Sessions
  BY <1>1 DEF ConfigureCSC, TypeOK
<1>4. driver' \in Drivers
  <2>1. driver \in Drivers /\ driver.csc \in Type \X Type
    BY <1>1 DEF TypeOK, Drivers
  <2>2. [driver.csc EXCEPT ![1] = Conversion] \in Type \X Type
    BY <1>2, <2>1
  <2> QED
    <3>1. \A c \in Type \X Type : [driver EXCEPT !.csc = c] \in Drivers
      BY <2>1 DEF Drivers
    <3>2. \/ driver' = driver
          \/ driver' = [driver EXCEPT !.csc = <<Conversion, Conversion>>]
          \/ driver' = [driver EXCEPT !.csc[1] = Conversion]
      BY DEF ConfigureCSC
    <3>3. [driver EXCEPT !.csc[1] = Conversion]
            = [driver EXCEPT !.csc = [driver.csc EXCEPT ![1] = Conversion]]
      BY <2>1 DEF Drivers
    <3> QED
      BY <1>2, <2>1, <2>2, <3>1, <3>2, <3>3
<1>5. \/ call.aborts /\ GoTo("finish", "SOURCE")
      \/ ~call.aborts /\ (GoTo("change", "SOURCE") \/ Fail(TRUE))
  BY <1>1 DEF ConfigureCSC, AfterReset, TypeOK, Calls
<1>6. call' \in Calls /\ call'.release = call.release /\ ReleasesKept'
  BY <1>1, <1>5, GoToFacts, FailFacts
     DEF ConfigureCSC, TypeOK, ReleasesKept, Aborting, At, Step, Side, Calls
<1> QED
  BY <1>3, <1>4, <1>6, OtherFences DEF ConfigureCSC

LEMMA ChangeFences ==
  ASSUME FenceInv, NEW d \in Side, ChangeMode(d) PROVE FenceInv'
<1>1. TypeOK /\ ReleasesKept
  BY DEF FenceInv
<1>2. /\ Rect[d] \in Rectangle /\ Whole(image[d].dimension) \in Rectangle
      /\ Format(image[d]) \in Dimensions \X Type
  BY <1>1, SizeFacts DEF TypeOK, Rect, Window, Areas, Images, Format, Side
<1>3. session' \in Sessions
  <2>1. \/ session' = session
        \/ \E rect \in Rectangle : session' = [session EXCEPT !.rect[d] = rect]
    BY <1>2 DEF ChangeMode
  <2> QED
    BY <1>1, <2>1, SessionTyped DEF TypeOK, Kind
<1>4. driver' \in Drivers
  <2> DEFINE whole == Whole(image[d].dimension)
             formatted == [driver EXCEPT !.format[d] = Format(image[d]),
                                         !.rect[d] = whole]
  <2>1. formatted \in Drivers
    BY <1>1, <1>2 DEF TypeOK, Drivers
  <2>2. [formatted EXCEPT !.rect[d] = Rect[d]] \in Drivers
    <3> HIDE DEF formatted
    <3> QED
      BY <1>2, <2>1 DEF Drivers
  <2> QED
    BY <1>1, <2>1, <2>2 DEF ChangeMode, TypeOK
<1>5. call.release = {}
  BY <1>1 DEF ChangeMode, At, ReleasesKept, Aborting, TypeOK, Calls, Side
<1>6. \/ ProceedAfter(FALSE, d, "protect")
      \/ \E fault \in BOOLEAN : Fail(fault)
  BY DEF ChangeMode, Proceed
<1>7. call' \in Calls /\ call'.release = call.release /\ ReleasesKept'
  BY <1>5, <1>6, GoOnFences DEF Step
<1> QED
  BY <1>3, <1>4, <1>7, OtherFences DEF ChangeMode

LEMMA ProtectFences == ASSUME FenceInv, SetProtection PROVE FenceInv'
<1>1. TypeOK /\ ReleasesKept
  BY DEF FenceInv
<1>2. image["TARGET"].protected \in BOOLEAN
  BY <1>1 DEF TypeOK, Images, Side
<1>3. session' \in Sessions /\ driver' \in Drivers
  BY <1>1, <1>2 DEF SetProtection, TypeOK, Sessions, Drivers
<1>4. call.release = {}
  BY <1>1 DEF SetProtection, At, ReleasesKept, Aborting, TypeOK, Calls, Side
<1>5. GoTo("prepare", "SOURCE") \/ Fail(TRUE)
  BY DEF SetProtection
<1>6. call' \in Calls /\ call'.release = call.release /\ ReleasesKept'
  BY <1>4, <1>5, GoOnFences DEF Step, Side
<1> QED
  BY <1>3, <1>6, OtherFences DEF SetProtection

LEMMA PrepareFences ==
  ASSUME FenceInv, NEW d \in Side, Prepare(d) PROVE FenceInv'
<1>1. TypeOK /\ ReleasesKept
  BY DEF FenceInv
<1>2. image[d].memory \in Kind
  BY <1>1 DEF TypeOK, Images
<1>3. session' \in Sessions
  <2>1. session \in Sessions /\ session.state[d] \cup {"REQBUFS"}
          \in SUBSET {"REQBUFS", "QBUF"}
    BY <1>1 DEF TypeOK, Sessions
  <2>2. \/ session' = session
        \/ session' = [session EXCEPT !.memory[d] = image[d].memory,
                            !.state[d] = session.state[d] \cup {"REQBUFS"}]
    BY <2>1 DEF Prepare, Sessions
  <2>3. [session EXCEPT !.memory[d] = image[d].memory,
                        !.state[d] = session.state[d] \cup {"REQBUFS"}]
          \in Sessions
    <3> DEFINE state == session.state[d] \cup {"REQBUFS"}
    <3> HIDE DEF state
    <3>1. session \in Sessions /\ state \in SUBSET {"REQBUFS", "QBUF"}
          /\ NoRect \in Rectangle
      BY <2>1, SizeFacts DEF state
    <3>2. [session EXCEPT !.memory[d] = image[d].memory, !.state[d] = state]
            \in Sessions
      BY <1>2, <3>1, SessionTyped
    <3> QED
      BY <3>2 DEF state
  <2> QED
    BY <2>1, <2>2, <2>3
<1>4. driver' \in Drivers
  <2> DEFINE requested == [driver EXCEPT !.buffers[d] = image[d].memory]
  <2>1. requested \in Drivers
    BY <1>1, <1>2 DEF TypeOK, Drivers
  <2>2. [requested EXCEPT !.streaming = @ \cup {d}] \in Drivers
    <3> HIDE DEF requested
    <3> QED
      BY <2>1 DEF Drivers
  <2> QED
    BY <1>1, <2>1, <2>2, FreedTyped DEF Prepare, TypeOK
<1>5. call.release = {}
  BY <1>1 DEF Prepare, At, ReleasesKept, Aborting, TypeOK, Calls, Side
<1>6. ProceedAfter(FALSE, d, "queue") \/ Fail(TRUE)
  BY DEF Prepare, Proceed
<1>7. call' \in Calls /\ call'.release = call.release /\ ReleasesKept'
  BY <1>5, <1>6, GoOnFences DEF Step
<1> QED
  BY <1>3, <1>4, <1>7, OtherFences DEF Prepare

LEMMA ReturnFences == ASSUME FenceInv, Return PROVE FenceInv'
<1>1. call' \in Calls /\ call'.release = {}
  BY NewTyped DEF Return, NoCall
<1>2. call.release = {}
  BY DEF FenceInv, TypeOK, ReleasesKept, Return, At, Aborting, Calls, Side
<1> QED
  BY <1>1, <1>2, OtherFences DEF Return, FenceInv, TypeOK, ReleasesKept

LEMMA WaitFences == ASSUME FenceInv, WaitExecution PROVE FenceInv'
<1>1. call' \in Calls /\ call'.release = {}
  BY NewTyped DEF WaitExecution, NoCall, Calls, Step
<1>2. call.release = {}
  BY DEF FenceInv, TypeOK, ReleasesKept, WaitExecution, At, Aborting, Calls,
     Side
<1> QED
  BY <1>1, <1>2, OtherFences DEF WaitExecution, FenceInv, TypeOK, ReleasesKept

-----------------------------------------------------------------------------
(* The steps that do.                                                      *)

LEMMA QueuedFacts ==
  ASSUME call \in Calls, NEW release \in SUBSET Side, NEW ok \in BOOLEAN,
         NEW pc \in Step, NEW side \in Side,
         call' = [call EXCEPT !.release = release, !.ok = ok, !.pc = pc,
                              !.side = side]
  PROVE  /\ call' \in Calls /\ call'.release = release /\ call'.pc = pc
         /\ call'.side = side /\ call'.aborts = call.aborts
BY DEF Calls

LEMMA RefusedFacts ==
  ASSUME call \in Calls, NEW faulted \in BOOLEAN, NEW aborts \in BOOLEAN,
         NEW pc \in Step, NEW side \in Side,
         call' = [call EXCEPT !.faulted = faulted, !.aborts = aborts, !.pc = pc,
                              !.side = side]
  PROVE  /\ call' \in Calls /\ call'.release = call.release /\ call'.pc = pc
         /\ call'.side = side /\ call'.aborts = aborts
BY DEF Calls

LEMMA QueueFences ==
  ASSUME FenceInv, NEW d \in Side, QueueBuffer(d) PROVE FenceInv'
<1>1. TypeOK /\ NoFenceLeaked /\ ReleasesKept
  BY DEF FenceInv
<1>2. /\ \A e \in Side : image[e] \in Images /\ image[e].fence \in BOOLEAN
      /\ image' = [image EXCEPT ![d].fence = FALSE]
  BY <1>1 DEF QueueBuffer, Unfenced, TypeOK, Images
<1>3. /\ image' \in [Side -> Images]
      /\ image'[d].fence = FALSE
      /\ \A e \in Side : e # d => image'[e] = image[e]
  BY <1>1, <1>2 DEF TypeOK, Images
<1>4. driver' \in Drivers
  BY <1>1 DEF QueueBuffer, TypeOK, Drivers
<1>5. call' \in Calls /\ ReleasesKept'
      /\ call'.release \in {call.release, call.release \cup {d}}
  <2> DEFINE release == IF Releases(d) THEN call.release \cup {d}
                        ELSE call.release
             queued == IF d = "TARGET" THEN "finish" ELSE call.pc
             refused == IF d = "TARGET" THEN "mode" ELSE "finish"
             side == IF d = "TARGET" THEN "SOURCE" ELSE "TARGET"
  <2>1. /\ call \in Calls /\ release \in SUBSET Side /\ queued \in Step
        /\ refused \in Step /\ side \in Side /\ "SOURCE" \in Side
        /\ (d = "TARGET") \in BOOLEAN
    BY <1>1 DEF TypeOK, Calls, Side, Step
  <2>2. /\ call.pc = "queue" /\ call.side = d
        /\ "TARGET" \notin call.release
        /\ d = "SOURCE" => call.release = {}
    BY <1>1 DEF QueueBuffer, At, ReleasesKept, Aborting, TypeOK, Calls, Side
  <2>3. CASE call' = [call EXCEPT !.release = release, !.ok = d = "TARGET",
                                  !.pc = queued, !.side = side]
    <3>1. /\ call' \in Calls /\ call'.release = release /\ call'.pc = queued
          /\ call'.side = side /\ call'.aborts = call.aborts
      <4> HIDE DEF release, queued, side
      <4> QED
        BY <2>1, <2>3, QueuedFacts
    <3> QED
      BY <2>2, <3>1 DEF ReleasesKept, At, Side
  <2>4. CASE \E faulted \in BOOLEAN :
               call' = [call EXCEPT !.faulted = faulted, !.aborts = d = "TARGET",
                                    !.pc = refused, !.side = "SOURCE"]
    <3>0. PICK faulted \in BOOLEAN :
            call' = [call EXCEPT !.faulted = faulted, !.aborts = d = "TARGET",
                                 !.pc = refused, !.side = "SOURCE"]
      BY <2>4
    <3>1. /\ call' \in Calls /\ call'.release = call.release
          /\ call'.pc = refused /\ call'.side = "SOURCE"
          /\ call'.aborts = (d = "TARGET")
      <4> HIDE DEF refused
      <4> QED
        BY <2>1, <3>0, RefusedFacts
    <3> QED
      BY <2>2, <3>1 DEF ReleasesKept, At, Side, Aborting
  <2>5. call.faulted \in BOOLEAN /\ MayQueue(d) \in BOOLEAN
    BY <2>1 DEF Calls, MayQueue
  <2> QED
    BY <2>1, <2>3, <2>4, <2>5 DEF QueueBuffer
<1>6. d \notin call.release
  BY <1>1 DEF QueueBuffer, At, ReleasesKept, Side, Aborting
<1>7. NoFenceLeaked'
  <2>1. CASE call'.release = call.release /\ fences' = fences - One(image[d].fence)
    <3>1. CASE d = "SOURCE"
      BY <1>1, <1>2, <1>3, <2>1, <3>1 DEF NoFenceLeaked, One, Side
    <3>2. CASE d = "TARGET"
      BY <1>1, <1>2, <1>3, <2>1, <3>2 DEF NoFenceLeaked, One, Side
    <3> QED
      BY <3>1, <3>2 DEF Side
  <2>2. CASE call'.release = call.release \cup {d}
             /\ fences' = fences + 1 - One(image[d].fence)
    <3>1. CASE d = "SOURCE"
      BY <1>1, <1>2, <1>3, <1>6, <2>2, <3>1 DEF NoFenceLeaked, One, Side, TypeOK
    <3>2. CASE d = "TARGET"
      BY <1>1, <1>2, <1>3, <1>6, <2>2, <3>2 DEF NoFenceLeaked, One, Side, TypeOK
    <3> QED
      BY <3>1, <3>2 DEF Side
  <2>3. \/ /\ call'.release = call.release
           /\ fences' = fences - One(image[d].fence)
        \/ /\ call'.release = call.release \cup {d}
           /\ fences' = fences + 1 - One(image[d].fence)
    <3>1. call \in Calls /\ fences \in Int /\ One(image[d].fence) \in Int
      BY <1>1, <1>2, OneIsBounded DEF TypeOK
    <3>2. CASE Releases(d)
      BY <3>1, <3>2 DEF QueueBuffer, One, Calls
    <3>3. CASE ~Releases(d)
      <4>1. One(Releases(d)) = 0
        BY <3>3 DEF One
      <4>2. CASE /\ fences' = fences + One(Releases(d)) - One(image[d].fence)
                 /\ call'.release = call.release
        BY <3>1, <4>1, <4>2
      <4>3. CASE /\ fences' = fences - One(image[d].fence)
                 /\ call'.release = call.release
        BY <4>3
      <4> QED
        BY <3>1, <3>3, <4>2, <4>3 DEF QueueBuffer, Calls
    <3> QED
      BY <3>2, <3>3
  <2> QED
    BY <2>1, <2>2, <2>3
<1>8. fences' \in 0 .. 4
  BY <1>3, <1>7, FencesBounded DEF NoFenceLeaked, Images
<1> QED
  BY <1>1, <1>3, <1>4, <1>5, <1>7, <1>8 DEF FenceInv, TypeOK, QueueBuffer

LEMMA FinishFences == ASSUME FenceInv, Finish PROVE FenceInv'
<1>1. TypeOK /\ NoFenceLeaked /\ ReleasesKept
  BY DEF FenceInv
<1>2. image' \in [Side -> Images] /\ \A d \in Side : image'[d].fence = FALSE
  BY <1>1 DEF Finish, TypeOK, Images
<1>3. session' \in Sessions
  BY <1>1 DEF Finish, TypeOK, Sessions
<1>4. call' \in Calls /\ call'.release = {} /\ ReleasesKept'
  <2>1. PICK pc \in {"dequeue", "return"} :
          call' = [call EXCEPT !.release = {}, !.pc = pc]
    BY DEF Finish
  <2>2. /\ call' \in Calls /\ call'.release = {} /\ call'.pc = pc
        /\ call'.aborts = call.aborts
    BY <1>1, <2>1 DEF TypeOK, Calls, Step
  <2> QED
    BY <2>2 DEF ReleasesKept, At
<1>5. fences' = 0
  <2>1. \A d \in Side : image[d].fence \in BOOLEAN
    BY <1>1 DEF TypeOK, Images
  <2> QED
    BY <1>1, <2>1 DEF Finish, NoFenceLeaked, One, Side
<1>6. NoFenceLeaked'
  BY <1>2, <1>4, <1>5 DEF NoFenceLeaked, One, Side
<1>7. area' \in Areas /\ driver' \in Drivers /\ fences' \in 0 .. 4
  <2>1. UNCHANGED <<area, driver>>
    BY DEF Finish
  <2>2. fences' \in 0 .. 4
    BY <1>5
  <2> QED
    BY <1>1, <2>1, <2>2 DEF TypeOK
<1> QED
  BY <1>2, <1>3, <1>4, <1>6, <1>7 DEF FenceInv, TypeOK

LEMMA FencesKept == Spec => []FenceInv
<1>1. FenceInv /\ [Next]_vars => FenceInv'
  <2> SUFFICES ASSUME FenceInv, [Next]_vars PROVE FenceInv'
    OBVIOUS
  <2>1. CASE Next
    BY <2>1, LayerFences, CanvasFences, RenewFences, ExecuteFences, WaitFences,
       DequeueFences, ResetFences, ChangeFences, PrepareFences, QueueFences,
       TransformFences, ModeFences, CSCFences, ProtectFences, FinishFences,
       ReturnFences DEF Next
  <2>2. CASE UNCHANGED vars
    BY <2>2 DEF vars, FenceInv, TypeOK, NoFenceLeaked, ReleasesKept, At, Aborting
  <2> QED
    BY <2>1, <2>2
<1> QED
  BY <1>1, InitFences, PTL DEF Spec

(* The images, the session, the driver and the call keep their types.      *)
THEOREM MsclTypeCorrect == Spec => []TypeOK
BY FencesKept, PTL DEF FenceInv

(* Every open fence is one that an image or the call still has to pass on  *)
(* or close.                                                               *)
THEOREM FencesNeverLeaked == Spec => []NoFenceLeaked
BY FencesKept, PTL DEF FenceInv

-----------------------------------------------------------------------------
(* The failures after which the session knows what the driver has: buffers *)
(* can be freed, and of the transform's controls only the first may fail.  *)
Recovers ==
  /\ \A d \in Side : <<"REQBUFS(0)", d>> \notin Faults
  /\ \A f \in {"FLIP_V", "ROT_90"} : <<"S_CTRL", f>> \notin Faults

Offered == [SOURCE |-> Layers, TARGET |-> Canvases]

(* All of the image that the driver is told was set and nothing changed.   *)
Settled(i) == {"TYPE", "DIMENSION"} \subseteq i.has /\ i.changed = {}

(* The driver has the image's format, its memory and its crop.             *)
Matches(d) ==
  driver.format[d] = Format(image[d]) /\ driver.buffers[d] = image[d].memory

Told(d) ==
  /\ driver.format[d] = Format(image[d])
  /\ driver.rect[d] = Rect[d] /\ session.rect[d] = Rect[d]

Ready(d) == d \in driver.streaming => Told(d) /\ Matches(d)

Converted == Conversion # None => driver.csc = <<Conversion, Conversion>>

(* How far a call has got: an aborted one keeps what was reached.          *)
Agreed ==
  Aborting \/ call.pc \in {"change", "protect", "prepare", "queue", "finish"}

AllTold == Aborting \/ call.pc \in {"protect", "prepare", "queue", "finish"}

Underway == call.pc \notin {"idle", "return", "dequeue"}
Done == call.pc = "finish" /\ call.ok

(* An image whose type is set is one that the client offers.               *)
ImageKept(d) ==
  "TYPE" \in image[d].has =>
    \E s \in Offered[d] : s.type = image[d].type /\ s.memory = image[d].memory

(* A side: the session knows its state, and an image that is settled is    *)
(* the one that the side streams with.                                     *)
BuffersKept(d) ==
  /\ "REQBUFS" \in session.state[d] <=> d \in driver.streaming
  /\ d \notin driver.streaming => driver.buffers[d] = None
  /\ "QBUF" \in session.state[d] => d \in driver.queued
  /\ d \in driver.queued => d \in driver.streaming
  /\ d \in driver.streaming => driver.rect[d] = session.rect[d]
  /\ d \in driver.streaming /\ Settled(image[d]) => Matches(d)

ControlsKept ==
  /\ driver.transform = session.transform
  /\ driver.protected = session.protected
  /\ (\A d \in Side : Settled(image[d])) => Converted

(* The steps of a call.                                                    *)
FlowKept ==
  /\ call.aborts =>
       /\ call.pc \in {"mode", "reset", "csc", "finish", "return"}
       /\ call.faulted /\ ~call.ok
  /\ call.ok => call.pc \in {"finish", "return", "dequeue"}
  /\ call.pc \in {"mode", "finish"} => call.side = "SOURCE"
  /\ Underway \/ (call.pc = "dequeue" /\ ~call.ok) =>
       \A d \in Side : SettingOkay(image[d])
  /\ call.pc = "dequeue" /\ call.ok => call.waits

(* The job, from its queued buffers to the dequeued ones.                  *)
JobsKept ==
  /\ Underway => \A d \in Side : "QBUF" \notin session.state[d]
  /\ At("dequeue", "TARGET") => "QBUF" \notin session.state["SOURCE"]
  /\ "TARGET" \in driver.queued => "QBUF" \in session.state["TARGET"] \/ Done
  /\ At("queue", "TARGET") => "SOURCE" \in driver.queued
  /\ Done => driver.queued = Side
  /\ call.pc = "finish" /\ ~call.ok /\ ~call.faulted =>
       driver.queued = {"SOURCE"}
  /\ call.pc = "return" /\ ~call.ok /\ ~call.faulted => Stranded

(* What a call has told the driver when it gets to a step.                 *)
CallKept ==
  /\ Underway /\ call.pc # "transform" => session.transform = area.transform
  /\ Agreed \/ call.pc \in {"reset", "csc"} => ~session.turned
  /\ At("reset", "TARGET") \/ call.pc = "csc" => "SOURCE" \notin driver.streaming
  /\ call.pc = "csc" => "TARGET" \notin driver.streaming
  /\ Agreed => Converted /\ \A d \in Side : Ready(d)
  /\ AllTold => \A d \in Side : Told(d)
  /\ At("change", "TARGET") => Told("SOURCE")
  /\ At("prepare", "TARGET") => "SOURCE" \in driver.streaming
  /\ call.pc = "queue" => driver.streaming = Side
  /\ call.pc \in {"prepare", "queue"} \/ Done =>
       session.protected = image["TARGET"].protected

SessionInv ==
  /\ TypeOK
  /\ \A d \in Side : ImageKept(d) /\ BuffersKept(d)
  /\ ControlsKept /\ FlowKept /\ JobsKept /\ CallKept

-----------------------------------------------------------------------------
LEMMA InitSession == Init => SessionInv
<1> SUFFICES ASSUME Init PROVE SessionInv
  OBVIOUS
<1>1. TypeOK
  BY InitFences DEF FenceInv
<1>2. \A d \in Side : image[d].has = {} /\ session.state[d] = {}
                      /\ driver.buffers[d] = None
  BY DEF Init, On, NewImage
<1>3. call.pc = "idle" /\ ~call.aborts /\ ~call.ok
  BY DEF Init, NoCall
<1>4. /\ driver.streaming = {} /\ driver.queued = {}
      /\ driver.transform = session.transform
      /\ driver.protected = session.protected
  BY DEF Init
<1>5. \A d \in Side : ImageKept(d) /\ BuffersKept(d)
  BY <1>2, <1>4 DEF ImageKept, BuffersKept
<1>6. ControlsKept
  BY <1>2, <1>4 DEF ControlsKept, Settled, Side
<1>7. FlowKept
  BY <1>3 DEF FlowKept, Underway
<1>8. JobsKept
  BY <1>3, <1>4 DEF JobsKept, Underway, At, Done
<1>9. CallKept
  BY <1>3 DEF CallKept, Underway, Agreed, AllTold, Aborting, At, Done
<1> QED
  BY <1>1, <1>5, <1>6, <1>7, <1>8, <1>9 DEF SessionInv

-----------------------------------------------------------------------------
(* The client.                                                             *)

(* A setter that leaves the image settled has changed nothing that the     *)
(* driver is told.                                                         *)
LEMMA SettersFacts ==
  ASSUME NEW d \in Side, NEW b \in Offered[d], image[d] \in Images,
         ImageKept(d)
  PROVE  LET i == WithImage(image[d], b)
         IN /\ "TYPE" \in i.has => i.type = b.type
            /\ i.memory = b.memory /\ i.protected = b.protected
            /\ Settled(i) => /\ Settled(image[d])
                             /\ Format(i) = Format(image[d])
                             /\ i.type = image[d].type
                             /\ i.memory = image[d].memory
<1> DEFINE old == image[d]
           sized == WithDimension(old, b.dimension)
           typed == WithType(sized, b.type)
           i == WithBuffer(typed, b)
<1>1. /\ sized \in Images /\ sized.type = old.type
      /\ "TYPE" \in sized.has <=> "TYPE" \in old.has
      /\ "DIMENSION" \in sized.has /\ sized.changed = {} =>
           /\ "DIMENSION" \in old.has /\ old.changed = {}
           /\ sized.dimension = old.dimension
  BY DEF WithDimension, WithSetting, Images, Setting
<1> HIDE DEF sized
<1>2. /\ typed \in Images /\ typed.dimension = sized.dimension
      /\ "DIMENSION" \in typed.has <=> "DIMENSION" \in sized.has
      /\ "TYPE" \in typed.has => typed.type = b.type
      /\ "TYPE" \in typed.has /\ typed.changed = {} =>
           /\ "TYPE" \in sized.has /\ sized.changed = {}
           /\ typed.type = sized.type
  BY <1>1 DEF WithType, WithSetting, Images, Setting, Type
<1> HIDE DEF typed
<1>3. /\ i.memory = b.memory /\ i.protected = b.protected
      /\ i.type = typed.type /\ i.dimension = typed.dimension
      /\ i.changed = typed.changed
      /\ "DIMENSION" \in i.has <=> "DIMENSION" \in typed.has
      /\ "TYPE" \in i.has <=> "TYPE" \in typed.has
  BY <1>2 DEF WithBuffer, Images
<1>4. WithImage(old, b) = i
  BY DEF WithImage, sized, typed
<1> HIDE DEF i
<1>5. Settled(i) => /\ Settled(old) /\ Format(i) = Format(old)
                    /\ i.type = old.type /\ old.type = b.type
  BY <1>1, <1>2, <1>3 DEF Settled, Format
<1>6. Settled(i) => i.memory = old.memory
  <2>1. Layers \in {Layers, Canvases} /\ Canvases \in {Layers, Canvases}
    OBVIOUS
  <2>2. \A s, t \in Offered[d] : s.type = t.type => s.memory = t.memory
    BY <2>1, KindFollowsType DEF Offered, Side
  <2> QED
    BY <1>3, <1>5, <2>2 DEF ImageKept, Settled
<1> QED
  BY <1>2, <1>3, <1>4, <1>5, <1>6

LEMMA ClientSession ==
  ASSUME SessionInv, TypeOK', call.pc = "idle",
         UNCHANGED <<session, driver, call>>,
         \A d \in Side :
           /\ ImageKept(d)'
           /\ Settled(image'[d]) => /\ Settled(image[d])
                                    /\ Format(image'[d]) = Format(image[d])
                                    /\ image'[d].type = image[d].type
                                    /\ image'[d].memory = image[d].memory
  PROVE  SessionInv'
<1>1. \A d \in Side : BuffersKept(d)'
  BY DEF SessionInv, BuffersKept, Matches
<1>2. ControlsKept'
  <2>1. (\A d \in Side : Settled(image'[d])) =>
          Converted /\ Conversion' = Conversion
    BY DEF SessionInv, ControlsKept, Conversion, Side
  <2> QED
    BY <2>1 DEF SessionInv, ControlsKept, Converted
<1>3. FlowKept'
  BY DEF SessionInv, FlowKept, Underway
<1>4. JobsKept'
  BY DEF SessionInv, JobsKept, Underway, At, Done
<1>5. CallKept'
  <2>1. ~call.aborts
    BY DEF SessionInv, FlowKept
  <2> QED
    BY <2>1 DEF CallKept, Underway, Agreed, AllTold, Aborting, At, Done
<1> QED
  BY <1>1, <1>2, <1>3, <1>4, <1>5 DEF SessionInv

LEMMA LayerSession ==
  ASSUME SessionInv, TypeOK', NEW l \in Layers, SetLayer(l) PROVE SessionInv'
<1> DEFINE i == WithImage(image["SOURCE"], l)
<1>1. /\ "SOURCE" \in Side /\ "TARGET" \in Side /\ image["SOURCE"] \in Images
      /\ ImageKept("SOURCE") /\ ImageKept("TARGET") /\ l \in Offered["SOURCE"]
      /\ image \in [Side -> Images]
  BY DEF SessionInv, TypeOK, Side, Offered
<1>2. /\ "TYPE" \in i.has => i.type = l.type /\ i.memory = l.memory
      /\ Settled(i) => /\ Settled(image["SOURCE"])
                       /\ Format(i) = Format(image["SOURCE"])
                       /\ i.type = image["SOURCE"].type
                       /\ i.memory = image["SOURCE"].memory
  BY <1>1, SettersFacts
<1> HIDE DEF i
<1>3. image'["SOURCE"] = i /\ image'["TARGET"] = image["TARGET"]
  BY <1>1 DEF SetLayer, i
<1>4. \A d \in Side :
        /\ ImageKept(d)'
        /\ Settled(image'[d]) => /\ Settled(image[d])
                                 /\ Format(image'[d]) = Format(image[d])
                                 /\ image'[d].type = image[d].type
                                 /\ image'[d].memory = image[d].memory
  BY <1>1, <1>2, <1>3 DEF ImageKept, Side
<1>5. call.pc = "idle" /\ UNCHANGED <<session, driver, call>>
  BY DEF SetLayer
<1> QED
  BY <1>4, <1>5, ClientSession

LEMMA CanvasSession ==
  ASSUME SessionInv, TypeOK', NEW c \in Canvases, SetCanvas(c) PROVE SessionInv'
<1> DEFINE i == WithImage(image["TARGET"], c)
<1>1. /\ "SOURCE" \in Side /\ "TARGET" \in Side /\ image["TARGET"] \in Images
      /\ ImageKept("SOURCE") /\ ImageKept("TARGET") /\ c \in Offered["TARGET"]
      /\ image \in [Side -> Images]
  BY DEF SessionInv, TypeOK, Side, Offered
<1>2. /\ "TYPE" \in i.has => i.type = c.type /\ i.memory = c.memory
      /\ Settled(i) => /\ Settled(image["TARGET"])
                       /\ Format(i) = Format(image["TARGET"])
                       /\ i.type = image["TARGET"].type
                       /\ i.memory = image["TARGET"].memory
  BY <1>1, SettersFacts
<1> HIDE DEF i
<1>3. image'["TARGET"] = i /\ image'["SOURCE"] = image["SOURCE"]
  BY <1>1 DEF SetCanvas, i
<1>4. \A d \in Side :
        /\ ImageKept(d)'
        /\ Settled(image'[d]) => /\ Settled(image[d])
                                 /\ Format(image'[d]) = Format(image[d])
                                 /\ image'[d].type = image[d].type
                                 /\ image'[d].memory = image[d].memory
  BY <1>1, <1>2, <1>3 DEF ImageKept, Side
<1>5. call.pc = "idle" /\ UNCHANGED <<session, driver, call>>
  BY DEF SetCanvas
<1> QED
  BY <1>4, <1>5, ClientSession

LEMMA RenewSession == ASSUME SessionInv, TypeOK', RenewLayer PROVE SessionInv'
<1>1. image'["SOURCE"] = NewImage /\ image'["TARGET"] = image["TARGET"]
  BY DEF SessionInv, TypeOK, RenewLayer, Side
<1>2. ~Settled(NewImage) /\ "TYPE" \notin NewImage.has
  BY DEF Settled, NewImage
<1>3. \A d \in Side :
        /\ ImageKept(d)'
        /\ Settled(image'[d]) => /\ Settled(image[d])
                                 /\ Format(image'[d]) = Format(image[d])
                                 /\ image'[d].type = image[d].type
                                 /\ image'[d].memory = image[d].memory
  BY <1>1, <1>2 DEF SessionInv, ImageKept, Side
<1> QED
  BY <1>3, ClientSession DEF RenewLayer

(* A call starts with what the images were set up with.                    *)
LEMMA StartSession ==
  ASSUME SessionInv, TypeOK', UNCHANGED <<image, area, session, driver>>,
         call.pc = "idle", call'.pc = "dequeue", call'.side = "SOURCE",
         ~call'.aborts, call'.ok => call'.waits,
         ~call'.ok => \A d \in Side : SettingOkay(image[d])
  PROVE  SessionInv'
<1>1. \A d \in Side : ImageKept(d)' /\ BuffersKept(d)'
  BY DEF SessionInv, ImageKept, BuffersKept, Matches
<1>2. ControlsKept'
  BY DEF SessionInv, ControlsKept, Converted, Conversion
<1>3. FlowKept'
  BY DEF FlowKept, Underway
<1>4. JobsKept'
  BY DEF SessionInv, JobsKept, Underway, At, Done
<1>5. CallKept'
  BY DEF CallKept, Underway, Agreed, AllTold, Aborting, At, Done
<1> QED
  BY <1>1, <1>2, <1>3, <1>4, <1>5 DEF SessionInv

LEMMA ExecuteSession ==
  ASSUME SessionInv, TypeOK', NEW room \in 0 .. 2, NEW waits \in BOOLEAN,
         Execute(room, waits)
  PROVE  SessionInv'
<1>1. /\ call'.pc = "dequeue" /\ call'.side = "SOURCE"
      /\ ~call'.aborts /\ ~call'.ok
  BY DEF Execute, NoCall
<1> QED
  BY <1>1, StartSession DEF Execute, Valid

LEMMA WaitSession == ASSUME SessionInv, TypeOK', WaitExecution PROVE SessionInv'
<1>1. /\ call'.pc = "dequeue" /\ call'.side = "SOURCE"
      /\ ~call'.aborts /\ call'.ok /\ call'.waits
  BY DEF WaitExecution, NoCall
<1> QED
  BY <1>1, StartSession DEF WaitExecution

LEMMA ReturnSession == ASSUME SessionInv, TypeOK', Return PROVE SessionInv'
<1>1. call'.pc = "idle" /\ ~call'.aborts /\ ~call'.ok
  BY DEF Return, NoCall
<1>2. call.pc = "return" /\ UNCHANGED <<image, area, session, driver>>
  BY DEF Return
<1>3. \A d \in Side : ImageKept(d)' /\ BuffersKept(d)'
  BY <1>2 DEF SessionInv, ImageKept, BuffersKept, Matches
<1>4. ControlsKept'
  BY <1>2 DEF SessionInv, ControlsKept, Converted, Conversion
<1>5. FlowKept'
  BY <1>1 DEF FlowKept, Underway
<1>6. JobsKept'
  BY <1>1, <1>2 DEF SessionInv, JobsKept, Underway, At, Done
<1>7. CallKept'
  BY <1>1 DEF CallKept, Underway, Agreed, AllTold, Aborting, At, Done
<1> QED
  BY <1>3, <1>4, <1>5, <1>6, <1>7 DEF SessionInv

-----------------------------------------------------------------------------
(* The steps of a call.                                                    *)

(* A step that leaves the images alone, and the steps that refuse the call *)
(* for a failing request.                                                  *)
LEMMA ImagesSession ==
  ASSUME SessionInv, UNCHANGED <<image, area>>
  PROVE  \A d \in Side : ImageKept(d)'
BY DEF SessionInv, ImageKept

LEMMA FailSession ==
  ASSUME SessionInv, TypeOK', UNCHANGED <<image, area>>, Fail(TRUE),
         \A d \in Side : BuffersKept(d)', ControlsKept',
         "TARGET" \in driver'.queued => "QBUF" \in session'.state["TARGET"]
  PROVE  SessionInv'
<1>1. call \in Calls
  BY DEF SessionInv, TypeOK
<1>2. /\ call'.pc = "return" /\ ~call'.ok /\ call'.faulted
      /\ call'.aborts = call.aborts
  BY <1>1, FailFacts
<1>3. FlowKept'
  BY <1>2 DEF FlowKept, Underway
<1>4. JobsKept'
  BY <1>2 DEF JobsKept, Underway, At, Done
<1>5. CallKept'
  BY <1>2 DEF CallKept, Underway, Agreed, AllTold, Aborting, At, Done
<1> QED
  BY <1>3, <1>4, <1>5, ImagesSession DEF SessionInv

LEMMA DequeueSession ==
  ASSUME SessionInv, TypeOK', NEW d \in Side, Dequeue(d) PROVE SessionInv'
<1>1. /\ call \in Calls /\ session \in Sessions /\ driver \in Drivers
      /\ "SOURCE" \in Side /\ "TARGET" \in Side
      /\ \A e \in Side : BuffersKept(e)
      /\ ControlsKept /\ FlowKept /\ JobsKept
  BY DEF SessionInv, TypeOK, Side
<1>2. call.pc = "dequeue" /\ call.side = d /\ UNCHANGED <<image, area>>
  BY DEF Dequeue, At
<1>3. CASE d \in driver.streaming /\ Fail(TRUE) /\ UNCHANGED <<session, driver>>
  <2>1. (\A e \in Side : BuffersKept(e)') /\ ControlsKept'
    BY <1>1, <1>2, <1>3
       DEF BuffersKept, Matches, ControlsKept, Converted, Conversion
  <2>2. "TARGET" \in driver'.queued => "QBUF" \in session'.state["TARGET"]
    BY <1>1, <1>2, <1>3 DEF JobsKept, Done
  <2> QED
    BY <1>2, <1>3, <2>1, <2>2, FailSession
<1>4. CASE AfterDequeue(d) /\ "QBUF" \notin session'.state[d]
  <2>1. /\ session'.transform = session.transform
        /\ session'.protected = session.protected
        /\ session'.rect = session.rect
        /\ \A e \in Side :
             /\ "REQBUFS" \in session'.state[e] <=> "REQBUFS" \in session.state[e]
             /\ e # d => session'.state[e] = session.state[e]
    BY <1>1 DEF Dequeue, Sessions
  <2>2. /\ driver'.transform = driver.transform
        /\ driver'.protected = driver.protected /\ driver'.csc = driver.csc
        /\ driver'.format = driver.format /\ driver'.rect = driver.rect
        /\ driver'.buffers = driver.buffers
        /\ driver'.streaming = driver.streaming
        /\ \/ driver'.queued = driver.queued /\ "QBUF" \notin session.state[d]
           \/ driver'.queued = driver.queued \ {d}
    BY <1>1, <1>4 DEF Dequeue, Drivers
  <2>3. \A e \in Side : BuffersKept(e)'
    BY <1>1, <1>2, <1>4, <2>1, <2>2 DEF BuffersKept, Matches
  <2>4. ControlsKept'
    BY <1>1, <1>2, <2>1, <2>2 DEF ControlsKept, Converted, Conversion
  <2>5. "TARGET" \in driver'.queued => "QBUF" \in session'.state["TARGET"]
    BY <1>1, <1>2, <2>1, <2>2 DEF JobsKept, Done
  <2>6. CASE d = "TARGET" /\ call.waits /\ call.ok
    <3>1. call'.pc = "return" /\ call'.ok /\ call'.aborts = call.aborts
      BY <1>1, <1>4, <2>6, GoToFacts DEF AfterDequeue, Step
    <3>2. FlowKept'
      BY <1>1, <1>2, <3>1 DEF FlowKept, Underway
    <3>3. JobsKept'
      BY <2>5, <3>1 DEF JobsKept, Underway, At, Done
    <3>4. CallKept'
      BY <3>1 DEF CallKept, Underway, Agreed, AllTold, Aborting, At, Done
    <3> QED
      BY <1>2, <2>3, <2>4, <3>2, <3>3, <3>4, ImagesSession DEF SessionInv
  <2>7. CASE ~(d = "TARGET" /\ call.waits /\ call.ok)
    <3>1. /\ call'.pc = IF d = "SOURCE" THEN "dequeue" ELSE "transform"
          /\ call'.side = IF d = "SOURCE" THEN "TARGET" ELSE "SOURCE"
          /\ call'.ok = call.ok /\ call'.aborts = call.aborts
          /\ call'.waits = call.waits
      BY <1>1, <1>2, <1>4, <2>7, ProceedFacts DEF AfterDequeue, Proceed, Step
    <3>2. FlowKept'
      BY <1>1, <1>2, <2>7, <3>1 DEF FlowKept, Underway, SettingOkay, Side
    <3>3. JobsKept'
      BY <1>1, <1>2, <1>4, <2>1, <2>5, <3>1
         DEF JobsKept, Underway, At, Done, Side
    <3>4. CallKept'
      BY <1>1, <1>2, <3>1
         DEF CallKept, Underway, Agreed, AllTold, Aborting, At, Done, FlowKept
    <3> QED
      BY <1>2, <2>3, <2>4, <3>2, <3>3, <3>4, ImagesSession DEF SessionInv
  <2> QED
    BY <2>6, <2>7
<1>5. "QBUF" \in session.state[d] => d \in driver.streaming
  BY <1>1 DEF BuffersKept
<1>6. CASE "QBUF" \notin session.state[d]
  BY <1>4, <1>6 DEF Dequeue
<1>7. CASE /\ "QBUF" \in session.state[d]
           /\ session' = [session EXCEPT !.state[d] = @ \ {"QBUF"}]
           /\ AfterDequeue(d)
  <2>1. "QBUF" \notin session'.state[d]
    BY <1>1, <1>7 DEF Sessions
  <2> QED
    BY <1>4, <1>7, <2>1
<1>8. CASE /\ "QBUF" \in session.state[d] /\ Fail(d \in driver.streaming)
           /\ UNCHANGED <<session, driver>>
  <2>1. (d \in driver.streaming) = TRUE
    BY <1>5, <1>8
  <2> QED
    BY <1>3, <1>8, <2>1
<1> QED
  BY <1>6, <1>7, <1>8 DEF Dequeue

LEMMA TurnedFacts ==
  ASSUME driver \in Drivers, NEW controls, driver' = Turned(controls)
  PROVE  /\ driver'.transform = (driver.transform \ controls)
                                   \cup (area.transform \cap controls)
         /\ driver'.protected = driver.protected /\ driver'.csc = driver.csc
         /\ driver'.format = driver.format /\ driver'.rect = driver.rect
         /\ driver'.buffers = driver.buffers
         /\ driver'.streaming = driver.streaming
         /\ driver'.queued = driver.queued
BY DEF Turned, Drivers

LEMMA TransformSession ==
  ASSUME Recovers, SessionInv, TypeOK', SetTransform PROVE SessionInv'
<1>1. /\ call \in Calls /\ session \in Sessions /\ driver \in Drivers
      /\ area \in Areas /\ "SOURCE" \in Side
      /\ \A e \in Side : BuffersKept(e)
      /\ ControlsKept /\ FlowKept /\ JobsKept
  BY DEF SessionInv, TypeOK, Side
<1>2. call.pc = "transform" /\ UNCHANGED <<image, area>>
  BY DEF SetTransform
<1>3. /\ session'.protected = session.protected
      /\ session'.rect = session.rect /\ session'.state = session.state
  BY <1>1 DEF SetTransform, Sessions
<1>5. Turning \subseteq Flip
  BY <1>1 DEF Turning, Sessions, Areas
<1>6. /\ driver'.protected = driver.protected /\ driver'.csc = driver.csc
      /\ driver'.format = driver.format /\ driver'.rect = driver.rect
      /\ driver'.buffers = driver.buffers
      /\ driver'.streaming = driver.streaming
      /\ driver'.queued = driver.queued
  BY <1>1, TurnedFacts DEF SetTransform
<1>7. \A e \in Side : BuffersKept(e)'
  BY <1>1, <1>2, <1>3, <1>6 DEF BuffersKept, Matches
<1>8. driver'.transform = session'.transform => ControlsKept'
  BY <1>1, <1>2, <1>3, <1>6 DEF ControlsKept, Converted, Conversion
<1>9. "TARGET" \in driver'.queued => "QBUF" \in session'.state["TARGET"]
  BY <1>1, <1>2, <1>3, <1>6 DEF JobsKept, Done
<1>10. CASE /\ session' = [session EXCEPT !.turned = Turning # {},
                                          !.transform = area.transform]
            /\ driver' = Turned(Turning)
            /\ GoTo("mode", "SOURCE")
  <2>1. session'.transform = area.transform
    BY <1>1, <1>10 DEF Sessions
  <2>2. driver'.transform = area.transform
    <3>1. driver'.transform = (driver.transform \ Turning)
                               \cup (area.transform \cap Turning)
      BY <1>1, <1>10, TurnedFacts
    <3> QED
      BY <1>1, <3>1 DEF Turning, ControlsKept
  <2>3. /\ call'.pc = "mode" /\ call'.side = "SOURCE" /\ call'.ok = call.ok
        /\ call'.aborts = call.aborts
    BY <1>1, <1>10, GoToFacts DEF Step
  <2>4. FlowKept'
    BY <1>1, <1>2, <2>3 DEF FlowKept, Underway, SettingOkay
  <2>5. JobsKept'
    BY <1>1, <1>2, <1>3, <1>9, <2>3 DEF JobsKept, Underway, At, Done
  <2>6. CallKept'
    BY <1>1, <1>2, <2>1, <2>3
       DEF CallKept, Underway, Agreed, AllTold, Aborting, At, Done, FlowKept
  <2> QED
    BY <1>2, <1>7, <1>8, <2>1, <2>2, <2>4, <2>5, <2>6, ImagesSession
       DEF SessionInv
<1>11. CASE \E f \in Turning : /\ MayFail("S_CTRL", f)
                               /\ session' = [session EXCEPT !.turned = TRUE]
                               /\ driver' = Turned(Turning \cap Earlier[f])
                               /\ Fail(TRUE)
  <2>1. PICK f \in Turning : /\ MayFail("S_CTRL", f)
                             /\ session' = [session EXCEPT !.turned = TRUE]
                             /\ driver' = Turned(Turning \cap Earlier[f])
                             /\ Fail(TRUE)
    BY <1>11
  <2>2. f = "FLIP_H"
    BY <1>5, <2>1 DEF Recovers, MayFail, Flip
  <2>3. Turning \cap Earlier[f] = {}
    BY <2>2 DEF Earlier
  <2>4. driver'.transform = driver.transform
    <3>1. driver'.transform = (driver.transform \ {}) \cup (area.transform \cap {})
      BY <1>1, <2>1, <2>3, TurnedFacts
    <3> QED
      BY <3>1
  <2>5. session'.transform = session.transform
    BY <1>1, <2>1 DEF Sessions
  <2>6. ControlsKept'
    BY <1>1, <1>8, <2>4, <2>5 DEF ControlsKept
  <2> QED
    BY <1>2, <1>7, <1>9, <2>1, <2>6, FailSession
<1> QED
  BY <1>10, <1>11 DEF SetTransform

(* resetMode: the comparison that decides whether all is configured anew.  *)
LEMMA ModeSession == ASSUME SessionInv, TypeOK', ResetMode PROVE SessionInv'
<1>1. /\ call \in Calls /\ session \in Sessions /\ "SOURCE" \in Side
      /\ \A e \in Side : BuffersKept(e)
      /\ ControlsKept /\ FlowKept /\ JobsKept /\ CallKept
  BY DEF SessionInv, TypeOK, Side
<1>2. call.pc = "mode" /\ UNCHANGED <<image, area, driver>>
  BY DEF ResetMode
<1>3. /\ session'.transform = session.transform
      /\ session'.protected = session.protected
      /\ session'.rect = session.rect /\ session'.state = session.state
      /\ session'.turned = FALSE
  BY <1>1 DEF ResetMode, Sessions
<1>4. /\ call'.ok = call.ok /\ call'.aborts = call.aborts
      /\ call'.faulted = call.faulted /\ call'.side = "SOURCE"
      /\ call'.pc = IF ResetRequired THEN "reset"
                    ELSE IF call.aborts THEN "finish" ELSE "change"
  BY <1>1, GoToFacts DEF ResetMode, AfterReset, Step
<1>5. \A e \in Side : BuffersKept(e)'
  BY <1>1, <1>2, <1>3 DEF BuffersKept, Matches
<1>6. ControlsKept'
  BY <1>1, <1>2, <1>3 DEF ControlsKept, Converted, Conversion
<1>7. FlowKept'
  BY <1>1, <1>2, <1>4 DEF FlowKept, Underway, SettingOkay
<1>8. JobsKept'
  BY <1>1, <1>2, <1>3, <1>4 DEF JobsKept, Underway, At, Done, FlowKept
<1>9. UNCHANGED Rect /\ UNCHANGED Conversion
  BY <1>2 DEF Rect, Window, Conversion
<1>10. CASE call.aborts
  <2>1. Aborting /\ ~call.ok
    BY <1>1, <1>2, <1>10 DEF Aborting, FlowKept
  <2>2. Converted /\ \A e \in Side : Ready(e) /\ Told(e)
    BY <1>1, <2>1 DEF CallKept, Agreed, AllTold
  <2>3. Converted' /\ \A e \in Side : Ready(e)' /\ Told(e)'
    BY <1>2, <1>3, <1>9, <2>2 DEF Converted, Ready, Told, Matches
  <2>4. CallKept'
    BY <1>1, <1>2, <1>3, <1>4, <1>10, <2>1, <2>3
       DEF CallKept, Underway, At, Done
  <2> QED
    BY <1>2, <1>5, <1>6, <1>7, <1>8, <2>4, ImagesSession DEF SessionInv
<1>11. CASE ~call.aborts /\ ResetRequired
  <2>1. CallKept'
    BY <1>1, <1>2, <1>3, <1>4, <1>11
       DEF CallKept, Underway, Agreed, AllTold, Aborting, At, Done
  <2> QED
    BY <1>2, <1>5, <1>6, <1>7, <1>8, <2>1, ImagesSession DEF SessionInv
<1>12. CASE ~call.aborts /\ ~ResetRequired
  <2>1. \A e \in Side : Settled(image[e])
    BY <1>1, <1>2, <1>12
       DEF FlowKept, Underway, SettingOkay, Setting, Settled, ResetRequired
  <2>2. session.rect = Rect
    BY <1>12 DEF ResetRequired
  <2>3. Converted /\ \A e \in Side : Ready(e)
    BY <1>1, <2>1, <2>2 DEF ControlsKept, Ready, BuffersKept, Told, Matches
  <2>4. Converted' /\ \A e \in Side : Ready(e)'
    BY <1>2, <1>3, <1>9, <2>3 DEF Converted, Ready, Told, Matches
  <2>5. CallKept'
    BY <1>1, <1>2, <1>3, <1>4, <1>12, <2>4
       DEF CallKept, Underway, Agreed, AllTold, Aborting, At, Done
  <2> QED
    BY <1>2, <1>5, <1>6, <1>7, <1>8, <2>5, ImagesSession DEF SessionInv
<1> QED
  BY <1>10, <1>11, <1>12

LEMMA FreedFacts ==
  ASSUME driver \in Drivers, NEW d \in Side, driver' = Freed(d)
  PROVE  /\ driver'.transform = driver.transform
         /\ driver'.protected = driver.protected /\ driver'.csc = driver.csc
         /\ driver'.format = driver.format /\ driver'.rect = driver.rect
         /\ driver'.buffers[d] = None
         /\ \A e \in Side : e # d => driver'.buffers[e] = driver.buffers[e]
         /\ driver'.streaming = driver.streaming \ {d}
         /\ driver'.queued = driver.queued \ {d}
<1>1. Stopped(d) \in Drivers
  BY FreedTyped
<1>2. /\ Stopped(d).transform = driver.transform
      /\ Stopped(d).protected = driver.protected
      /\ Stopped(d).csc = driver.csc /\ Stopped(d).format = driver.format
      /\ Stopped(d).rect = driver.rect /\ Stopped(d).buffers = driver.buffers
      /\ Stopped(d).streaming = driver.streaming \ {d}
      /\ Stopped(d).queued = driver.queued \ {d}
  BY DEF Stopped, Drivers
<1> DEFINE s == Stopped(d)
<1> HIDE DEF s
<1>3. driver' = [s EXCEPT !.buffers[d] = None] /\ s \in Drivers
  BY <1>1 DEF Freed, s
<1>4. /\ driver'.transform = s.transform /\ driver'.protected = s.protected
      /\ driver'.csc = s.csc /\ driver'.format = s.format
      /\ driver'.rect = s.rect /\ driver'.streaming = s.streaming
      /\ driver'.queued = s.queued
      /\ driver'.buffers = [s.buffers EXCEPT ![d] = None]
  BY <1>3 DEF Drivers
<1>5. driver.buffers \in [Side -> Kind]
  BY DEF Drivers
<1> QED
  BY <1>2, <1>4, <1>5 DEF s

LEMMA ResetSession ==
  ASSUME Recovers, SessionInv, TypeOK', NEW d \in Side, Reset(d)
  PROVE  SessionInv'
<1>1. /\ call \in Calls /\ session \in Sessions /\ driver \in Drivers
      /\ \A e \in Side : BuffersKept(e)
      /\ ControlsKept /\ FlowKept /\ JobsKept /\ CallKept
  BY DEF SessionInv, TypeOK
<1>2. /\ call.pc = "reset" /\ call.side = d /\ UNCHANGED <<image, area>>
      /\ Underway
  BY DEF Reset, At, Underway
<1>3. \/ UNCHANGED <<session, driver>> /\ d \notin driver.streaming
      \/ /\ session' = [session EXCEPT !.state[d] = @ \ {"REQBUFS"}]
         /\ driver' = Freed(d)
  BY <1>1 DEF Reset, Recovers, MayFail, BuffersKept
<1>4. PICK fault \in BOOLEAN : ProceedAfter(fault, d, "csc")
  BY DEF Reset, Proceed
<1>5. /\ call'.ok = call.ok /\ call'.aborts = call.aborts
      /\ call.faulted => call'.faulted
      /\ call'.pc = IF d = "SOURCE" THEN "reset" ELSE "csc"
      /\ call'.side = IF d = "SOURCE" THEN "TARGET" ELSE "SOURCE"
  BY <1>1, <1>2, <1>4, ProceedFacts DEF Step
<1>6. /\ session'.transform = session.transform
      /\ session'.protected = session.protected
      /\ session'.turned = session.turned /\ session'.rect = session.rect
      /\ \A e \in Side :
           /\ "QBUF" \notin session'.state[e]
           /\ e # d => session'.state[e] = session.state[e]
      /\ "REQBUFS" \notin session'.state[d]
  <2>1. \A e \in Side : "QBUF" \notin session.state[e]
    BY <1>1, <1>2 DEF JobsKept
  <2>2. d \notin driver.streaming => "REQBUFS" \notin session.state[d]
    BY <1>1 DEF BuffersKept
  <2> QED
    BY <1>1, <1>3, <2>1, <2>2 DEF Sessions
<1>7. /\ driver'.transform = driver.transform
      /\ driver'.protected = driver.protected /\ driver'.csc = driver.csc
      /\ driver'.format = driver.format /\ driver'.rect = driver.rect
      /\ driver'.buffers[d] = None
      /\ \A e \in Side : e # d => driver'.buffers[e] = driver.buffers[e]
      /\ driver'.streaming = driver.streaming \ {d}
      /\ driver'.queued = driver.queued \ {d}
  <2>1. CASE UNCHANGED <<session, driver>> /\ d \notin driver.streaming
    BY <1>1, <2>1 DEF BuffersKept
  <2>2. CASE driver' = Freed(d)
    BY <1>1, <2>2, FreedFacts
  <2> QED
    BY <1>3, <2>1, <2>2
<1>8. \A e \in Side : BuffersKept(e)'
  BY <1>1, <1>2, <1>6, <1>7 DEF BuffersKept, Matches
<1>9. ControlsKept'
  BY <1>1, <1>2, <1>6, <1>7 DEF ControlsKept, Converted, Conversion
<1>10. FlowKept'
  BY <1>1, <1>2, <1>5 DEF FlowKept, Underway, SettingOkay
<1>11. JobsKept'
  <2>1. call'.pc \notin {"dequeue", "queue", "finish", "return"}
    BY <1>5
  <2>2. "TARGET" \notin driver.queued
    BY <1>1, <1>2 DEF JobsKept, Done, Side
  <2> QED
    BY <1>6, <1>7, <2>1, <2>2 DEF JobsKept, At, Done
<1>12. UNCHANGED Rect /\ UNCHANGED Conversion
  BY <1>2 DEF Rect, Window, Conversion
<1>13. Agreed => Converted' /\ \A e \in Side : Ready(e)' /\ Told(e)'
  <2> SUFFICES ASSUME Agreed
               PROVE  Converted' /\ \A e \in Side : Ready(e)' /\ Told(e)'
    OBVIOUS
  <2>1. AllTold
    BY <1>2 DEF Agreed, AllTold
  <2>2. Converted /\ \A e \in Side : Ready(e) /\ Told(e)
    BY <1>1, <2>1 DEF CallKept
  <2> QED
    BY <1>2, <1>6, <1>7, <1>12, <2>2 DEF Converted, Ready, Told, Matches
<1>14. /\ Aborting' => Agreed
       /\ Agreed' <=> Aborting'
       /\ AllTold' <=> Aborting'
  BY <1>2, <1>5 DEF Aborting, Agreed, AllTold
<1>15. CallKept'
  BY <1>1, <1>2, <1>5, <1>6, <1>7, <1>13, <1>14
     DEF CallKept, Underway, At, Done, Side
<1> QED
  BY <1>2, <1>8, <1>9, <1>10, <1>11, <1>15, ImagesSession DEF SessionInv

LEMMA CSCSession == ASSUME SessionInv, TypeOK', ConfigureCSC PROVE SessionInv'
<1>1. /\ call \in Calls /\ driver \in Drivers /\ "SOURCE" \in Side
      /\ \A e \in Side : BuffersKept(e)
      /\ ControlsKept /\ FlowKept /\ JobsKept /\ CallKept
  BY DEF SessionInv, TypeOK, Side
<1>2. call.pc = "csc" /\ UNCHANGED <<image, area, session>>
  BY DEF ConfigureCSC
<1>3. /\ driver'.transform = driver.transform
      /\ driver'.protected = driver.protected
      /\ driver'.format = driver.format /\ driver'.rect = driver.rect
      /\ driver'.buffers = driver.buffers
      /\ driver'.streaming = driver.streaming
      /\ driver'.queued = driver.queued
      /\ \/ driver'.csc = driver.csc
         \/ driver'.csc = <<Conversion, Conversion>>
         \/ driver'.csc = [driver.csc EXCEPT ![1] = Conversion]
  BY <1>1 DEF ConfigureCSC, Drivers
<1>4. UNCHANGED Rect /\ UNCHANGED Conversion
  BY <1>2 DEF Rect, Window, Conversion
<1>5. Converted => Converted'
  <2>1. [<<Conversion, Conversion>> EXCEPT ![1] = Conversion]
          = <<Conversion, Conversion>>
    OBVIOUS
  <2> QED
    BY <1>3, <1>4, <2>1 DEF Converted
<1>6. \A e \in Side : BuffersKept(e)'
  BY <1>1, <1>2, <1>3 DEF BuffersKept, Matches
<1>7. ControlsKept'
  BY <1>1, <1>2, <1>3, <1>5 DEF ControlsKept
<1>8. "TARGET" \in driver'.queued => "QBUF" \in session'.state["TARGET"]
  BY <1>1, <1>2, <1>3 DEF JobsKept, Done
<1>9. CASE ~call.aborts /\ Fail(TRUE)
  BY <1>2, <1>6, <1>7, <1>8, <1>9, FailSession
<1>10. CASE Converted' /\ AfterReset
  <2>1. /\ call'.ok = call.ok /\ call'.aborts = call.aborts
        /\ call'.faulted = call.faulted /\ call'.side = "SOURCE"
        /\ call'.pc = IF call.aborts THEN "finish" ELSE "change"
    BY <1>1, <1>10, GoToFacts DEF AfterReset, Step
  <2>2. FlowKept'
    BY <1>1, <1>2, <2>1 DEF FlowKept, Underway, SettingOkay
  <2>3. JobsKept'
    BY <1>1, <1>2, <1>8, <2>1 DEF JobsKept, Underway, At, Done, FlowKept
  <2>4. \A e \in Side : e \notin driver'.streaming /\ Ready(e)'
    BY <1>1, <1>2, <1>3 DEF CallKept, Ready, Side
  <2>5. call.aborts => \A e \in Side : Told(e)'
    <3>1. call.aborts => AllTold
      BY <1>2 DEF AllTold, Aborting
    <3> QED
      BY <1>1, <1>2, <1>3, <1>4, <3>1 DEF CallKept, Told
  <2>6. CallKept'
    BY <1>1, <1>2, <1>10, <2>1, <2>4, <2>5
       DEF CallKept, Underway, Agreed, AllTold, Aborting, At, Done, FlowKept
  <2> QED
    BY <1>2, <1>6, <1>7, <2>2, <2>3, <2>6, ImagesSession DEF SessionInv
<1>11. CASE call.aborts
  <2>1. Agreed
    BY <1>2, <1>11 DEF Agreed, Aborting
  <2>2. Converted'
    BY <1>1, <1>5, <2>1 DEF CallKept
  <2> QED
    BY <1>10, <1>11, <2>2 DEF ConfigureCSC
<1>12. CASE ~call.aborts
  <2>1. CASE Conversion = None
    BY <1>4, <1>10, <2>1 DEF ConfigureCSC, Converted
  <2>2. CASE driver' = [driver EXCEPT !.csc = <<Conversion, Conversion>>]
             /\ AfterReset
    <3>1. driver'.csc = <<Conversion, Conversion>>
      BY <1>1, <2>2 DEF Drivers
    <3> QED
      BY <1>4, <1>10, <2>2, <3>1 DEF Converted
  <2> QED
    BY <1>9, <1>12, <2>1, <2>2 DEF ConfigureCSC
<1> QED
  BY <1>11, <1>12

(* A side's format is set, and then its crop, or the step fails between.   *)
Formatted(d) ==
  [driver EXCEPT !.format[d] = Format(image[d]),
                 !.rect[d] = Whole(image[d].dimension)]

Configured(d, rect) ==
  /\ session' = [session EXCEPT !.rect[d] = rect]
  /\ \/ driver' = Formatted(d) /\ rect = Whole(image[d].dimension)
     \/ driver' = [Formatted(d) EXCEPT !.rect[d] = rect]

LEMMA FormattedFacts ==
  ASSUME session \in Sessions, driver \in Drivers, NEW d \in Side,
         NEW rect, Configured(d, rect)
  PROVE  /\ session'.transform = session.transform
         /\ session'.turned = session.turned
         /\ session'.protected = session.protected
         /\ session'.state = session.state
         /\ driver'.transform = driver.transform
         /\ driver'.protected = driver.protected /\ driver'.csc = driver.csc
         /\ driver'.buffers = driver.buffers
         /\ driver'.streaming = driver.streaming
         /\ driver'.queued = driver.queued
         /\ driver'.format[d] = Format(image[d])
         /\ driver'.rect[d] = rect /\ session'.rect[d] = rect
         /\ \A e \in Side : e # d =>
              /\ driver'.format[e] = driver.format[e]
              /\ driver'.rect[e] = driver.rect[e]
              /\ session'.rect[e] = session.rect[e]
<1> DEFINE formatted == Formatted(d)
<1>1. /\ session'.transform = session.transform
      /\ session'.turned = session.turned
      /\ session'.protected = session.protected
      /\ session'.state = session.state
      /\ session'.rect[d] = rect
      /\ \A e \in Side : e # d => session'.rect[e] = session.rect[e]
  BY DEF Sessions, Configured
<1>2. /\ DOMAIN formatted = DOMAIN driver
      /\ formatted.transform = driver.transform
      /\ formatted.protected = driver.protected
      /\ formatted.csc = driver.csc /\ formatted.buffers = driver.buffers
      /\ formatted.streaming = driver.streaming
      /\ formatted.queued = driver.queued
      /\ formatted.format = [driver.format EXCEPT ![d] = Format(image[d])]
      /\ formatted.rect = [driver.rect EXCEPT ![d] = Whole(image[d].dimension)]
  BY DEF Drivers, Formatted
<1>3. \/ driver' = formatted /\ rect = Whole(image[d].dimension)
      \/ driver' = [formatted EXCEPT !.rect[d] = rect]
  BY DEF Configured
<1> HIDE DEF formatted
<1>4. /\ driver'.transform = formatted.transform
      /\ driver'.protected = formatted.protected
      /\ driver'.csc = formatted.csc /\ driver'.buffers = formatted.buffers
      /\ driver'.streaming = formatted.streaming
      /\ driver'.queued = formatted.queued
      /\ driver'.format = formatted.format
      /\ \/ driver'.rect = formatted.rect
            /\ rect = Whole(image[d].dimension)
         \/ driver'.rect = [formatted.rect EXCEPT ![d] = rect]
  BY <1>2, <1>3 DEF Drivers
<1>5. /\ driver.format \in [Side -> {None} \cup (Dimensions \X Type)]
      /\ driver.rect \in [Side -> Rectangle]
  BY DEF Drivers
<1> QED
  BY <1>1, <1>2, <1>4, <1>5

LEMMA ChangeSession ==
  ASSUME SessionInv, TypeOK', NEW d \in Side, ChangeMode(d) PROVE SessionInv'
<1>1. /\ call \in Calls /\ session \in Sessions /\ driver \in Drivers
      /\ \A e \in Side : BuffersKept(e)
      /\ ControlsKept /\ FlowKept /\ JobsKept /\ CallKept
  BY DEF SessionInv, TypeOK
<1>2. /\ call.pc = "change" /\ call.side = d /\ UNCHANGED <<image, area>>
      /\ ~call.aborts /\ Agreed
  BY <1>1 DEF ChangeMode, At, FlowKept, Agreed
<1>3. UNCHANGED Rect /\ UNCHANGED Conversion
  BY <1>2 DEF Rect, Window, Conversion
<1>4. Converted /\ \A e \in Side : Ready(e)
  BY <1>1, <1>2 DEF CallKept
<1>5. \/ UNCHANGED <<session, driver>>
      \/ d \notin driver.streaming /\ \E rect : Configured(d, rect)
  BY <1>1 DEF ChangeMode, BuffersKept, Configured, Formatted
<1>6. /\ session'.transform = session.transform
      /\ session'.turned = session.turned
      /\ session'.protected = session.protected
      /\ session'.state = session.state
      /\ driver'.transform = driver.transform
      /\ driver'.protected = driver.protected /\ driver'.csc = driver.csc
      /\ driver'.buffers = driver.buffers
      /\ driver'.streaming = driver.streaming
      /\ driver'.queued = driver.queued
      /\ \A e \in Side : (e # d \/ e \in driver.streaming) =>
           /\ driver'.format[e] = driver.format[e]
           /\ driver'.rect[e] = driver.rect[e]
           /\ session'.rect[e] = session.rect[e]
  <2>1. CASE UNCHANGED <<session, driver>>
    BY <2>1
  <2>2. CASE d \notin driver.streaming /\ \E rect : Configured(d, rect)
    <3>1. PICK rect : Configured(d, rect)
      BY <2>2
    <3> QED
      BY <1>1, <2>2, <3>1, FormattedFacts
  <2> QED
    BY <1>5, <2>1, <2>2
<1>7. \A e \in Side : BuffersKept(e)'
  BY <1>1, <1>2, <1>6 DEF BuffersKept, Matches
<1>8. ControlsKept'
  BY <1>1, <1>2, <1>3, <1>6 DEF ControlsKept, Converted
<1>9. "TARGET" \in driver'.queued => "QBUF" \in session'.state["TARGET"]
  BY <1>1, <1>2, <1>6 DEF JobsKept, Done
<1>10. Converted' /\ \A e \in Side : Ready(e)'
  BY <1>2, <1>3, <1>4, <1>6 DEF Converted, Ready, Told, Matches
<1>11. CASE Fail(TRUE)
  BY <1>2, <1>7, <1>8, <1>9, <1>11, FailSession
<1>12. CASE Proceed(d, "protect") /\ Told(d)'
  <2>1. /\ call'.ok = call.ok /\ call'.aborts = call.aborts
        /\ call'.pc = IF d = "SOURCE" THEN "change" ELSE "protect"
        /\ call'.side = IF d = "SOURCE" THEN "TARGET" ELSE "SOURCE"
    BY <1>1, <1>2, <1>12, ProceedFacts DEF Proceed, Step
  <2>2. FlowKept'
    BY <1>1, <1>2, <2>1 DEF FlowKept, Underway, SettingOkay
  <2>3. JobsKept'
    BY <1>1, <1>2, <1>6, <1>9, <2>1 DEF JobsKept, Underway, At, Done
  <2>4. d = "TARGET" => Told("SOURCE")'
    <3>1. d = "TARGET" => Told("SOURCE")
      BY <1>1, <1>2 DEF CallKept, At
    <3> QED
      BY <1>2, <1>3, <1>6, <3>1 DEF Told, Side
  <2>5. CallKept'
    BY <1>1, <1>2, <1>6, <1>10, <1>12, <2>1, <2>4
       DEF CallKept, Underway, Agreed, AllTold, Aborting, At, Done, Side
  <2> QED
    BY <1>2, <1>7, <1>8, <2>2, <2>3, <2>5, ImagesSession DEF SessionInv
<1>13. CASE "REQBUFS" \in session.state[d]
  <2>1. Told(d)
    BY <1>1, <1>4, <1>13 DEF BuffersKept, Ready
  <2>2. Proceed(d, "protect") /\ UNCHANGED <<session, driver>>
    BY <1>13 DEF ChangeMode
  <2>3. Told(d)'
    BY <1>2, <1>3, <2>1, <2>2 DEF Told
  <2> QED
    BY <1>12, <2>2, <2>3
<1>14. CASE Configured(d, Rect[d]) /\ Proceed(d, "protect")
  <2>1. /\ driver'.format[d] = Format(image[d])
        /\ driver'.rect[d] = Rect[d] /\ session'.rect[d] = Rect[d]
    BY <1>1, <1>14, FormattedFacts
  <2>2. Told(d)'
    BY <1>2, <1>3, <2>1 DEF Told
  <2> QED
    BY <1>12, <1>14, <2>2
<1>15. CASE "REQBUFS" \notin session.state[d]
  <2>1. (driver.buffers[d] = None) = TRUE
    BY <1>1, <1>15 DEF BuffersKept
  <2> QED
    BY <1>11, <1>14, <1>15, <2>1 DEF ChangeMode, Configured, Formatted
<1> QED
  BY <1>13, <1>15

LEMMA ProtectSession ==
  ASSUME SessionInv, TypeOK', SetProtection PROVE SessionInv'
<1>1. /\ call \in Calls /\ session \in Sessions /\ driver \in Drivers
      /\ "SOURCE" \in Side /\ \A e \in Side : BuffersKept(e)
      /\ ControlsKept /\ FlowKept /\ JobsKept /\ CallKept
  BY DEF SessionInv, TypeOK, Side
<1>2. call.pc = "protect" /\ UNCHANGED <<image, area>>
  BY DEF SetProtection
<1>3. /\ session'.transform = session.transform
      /\ session'.turned = session.turned
      /\ session'.rect = session.rect /\ session'.state = session.state
      /\ driver'.transform = driver.transform /\ driver'.csc = driver.csc
      /\ driver'.format = driver.format /\ driver'.rect = driver.rect
      /\ driver'.buffers = driver.buffers
      /\ driver'.streaming = driver.streaming
      /\ driver'.queued = driver.queued
      /\ session'.protected = driver'.protected
  BY <1>1 DEF SetProtection, Sessions, Drivers, ControlsKept
<1>4. UNCHANGED Rect /\ UNCHANGED Conversion
  BY <1>2 DEF Rect, Window, Conversion
<1>5. \A e \in Side : BuffersKept(e)'
  BY <1>1, <1>2, <1>3 DEF BuffersKept, Matches
<1>6. ControlsKept'
  BY <1>1, <1>2, <1>3, <1>4 DEF ControlsKept, Converted
<1>7. "TARGET" \in driver'.queued => "QBUF" \in session'.state["TARGET"]
  BY <1>1, <1>2, <1>3 DEF JobsKept, Done
<1>8. CASE Fail(TRUE)
  BY <1>2, <1>5, <1>6, <1>7, <1>8, FailSession
<1>9. CASE GoTo("prepare", "SOURCE")
           /\ session'.protected = image["TARGET"].protected
  <2>1. /\ call'.ok = call.ok /\ call'.aborts = call.aborts
        /\ call'.pc = "prepare" /\ call'.side = "SOURCE"
    BY <1>1, <1>9, GoToFacts DEF Step
  <2>2. FlowKept'
    BY <1>1, <1>2, <2>1 DEF FlowKept, Underway, SettingOkay
  <2>3. JobsKept'
    BY <1>1, <1>2, <1>3, <1>7, <2>1 DEF JobsKept, Underway, At, Done
  <2>4. Converted /\ \A e \in Side : Ready(e) /\ Told(e)
    BY <1>1, <1>2 DEF CallKept, Agreed, AllTold
  <2>5. Converted' /\ \A e \in Side : Ready(e)' /\ Told(e)'
    BY <1>2, <1>3, <1>4, <2>4 DEF Converted, Ready, Told, Matches
  <2>6. CallKept'
    BY <1>1, <1>2, <1>3, <1>9, <2>1, <2>5
       DEF CallKept, Underway, Agreed, AllTold, Aborting, At, Done, FlowKept
  <2> QED
    BY <1>2, <1>5, <1>6, <2>2, <2>3, <2>6, ImagesSession DEF SessionInv
<1>10. Fail(TRUE) \/ session'.protected = image["TARGET"].protected
  BY <1>1 DEF SetProtection, Sessions
<1> QED
  BY <1>8, <1>9, <1>10 DEF SetProtection

LEMMA PreparedFacts ==
  ASSUME session \in Sessions, driver \in Drivers, NEW d \in Side, NEW memory,
         session' = [session EXCEPT !.memory[d] = memory,
                                    !.state[d] = @ \cup {"REQBUFS"}],
         NEW requested, requested = [driver EXCEPT !.buffers[d] = memory],
         driver' = [requested EXCEPT !.streaming = @ \cup {d}]
  PROVE  /\ session'.transform = session.transform
         /\ session'.turned = session.turned
         /\ session'.protected = session.protected
         /\ session'.rect = session.rect
         /\ session'.state[d] = session.state[d] \cup {"REQBUFS"}
         /\ \A e \in Side : e # d => session'.state[e] = session.state[e]
         /\ driver'.transform = driver.transform
         /\ driver'.protected = driver.protected /\ driver'.csc = driver.csc
         /\ driver'.format = driver.format /\ driver'.rect = driver.rect
         /\ driver'.queued = driver.queued
         /\ driver'.streaming = driver.streaming \cup {d}
         /\ driver'.buffers[d] = memory
         /\ \A e \in Side : e # d => driver'.buffers[e] = driver.buffers[e]
<1>1. /\ session'.transform = session.transform
      /\ session'.turned = session.turned
      /\ session'.protected = session.protected
      /\ session'.rect = session.rect
      /\ session'.state[d] = session.state[d] \cup {"REQBUFS"}
      /\ \A e \in Side : e # d => session'.state[e] = session.state[e]
  BY DEF Sessions
<1>2. /\ DOMAIN requested = DOMAIN driver
      /\ requested.transform = driver.transform
      /\ requested.protected = driver.protected
      /\ requested.csc = driver.csc /\ requested.format = driver.format
      /\ requested.rect = driver.rect /\ requested.queued = driver.queued
      /\ requested.streaming = driver.streaming
      /\ requested.buffers = [driver.buffers EXCEPT ![d] = memory]
  BY DEF Drivers
<1>3. /\ driver'.transform = requested.transform
      /\ driver'.protected = requested.protected
      /\ driver'.csc = requested.csc /\ driver'.format = requested.format
      /\ driver'.rect = requested.rect /\ driver'.queued = requested.queued
      /\ driver'.streaming = requested.streaming \cup {d}
      /\ driver'.buffers = requested.buffers
  BY <1>2 DEF Drivers
<1>4. driver.buffers \in [Side -> Kind]
  BY DEF Drivers
<1> QED
  BY <1>1, <1>2, <1>3, <1>4

LEMMA PrepareSession ==
  ASSUME Recovers, SessionInv, TypeOK', NEW d \in Side, Prepare(d)
  PROVE  SessionInv'
<1> DEFINE requested == [driver EXCEPT !.buffers[d] = image[d].memory]
<1>1. /\ call \in Calls /\ session \in Sessions /\ driver \in Drivers
      /\ \A e \in Side : BuffersKept(e)
      /\ ControlsKept /\ FlowKept /\ JobsKept /\ CallKept
  BY DEF SessionInv, TypeOK
<1>2. /\ call.pc = "prepare" /\ call.side = d /\ UNCHANGED <<image, area>>
      /\ ~call.aborts /\ Agreed /\ AllTold
  BY <1>1 DEF Prepare, At, FlowKept, Agreed, AllTold
<1>3. UNCHANGED Rect /\ UNCHANGED Conversion
  BY <1>2 DEF Rect, Window, Conversion
<1>4. Converted /\ \A e \in Side : Ready(e) /\ Told(e)
  BY <1>1, <1>2 DEF CallKept
<1>5. /\ "QBUF" \notin session.state[d]
      /\ "TARGET" \notin driver.queued
  BY <1>1, <1>2 DEF JobsKept, Underway, Done, Side
<1>6. CASE /\ "REQBUFS" \notin session.state[d] /\ Fail(TRUE)
           /\ UNCHANGED session /\ (UNCHANGED driver \/ driver' = Freed(d))
  <2>1. d \notin driver.streaming /\ driver.buffers[d] = None
    BY <1>1, <1>6 DEF BuffersKept
  <2>2. /\ driver'.transform = driver.transform
        /\ driver'.protected = driver.protected /\ driver'.csc = driver.csc
        /\ driver'.format = driver.format /\ driver'.rect = driver.rect
        /\ driver'.buffers[d] = None
        /\ \A e \in Side : e # d => driver'.buffers[e] = driver.buffers[e]
        /\ driver'.streaming = driver.streaming \ {d}
        /\ driver'.queued = driver.queued \ {d}
    <3>1. d \notin driver.queued
      BY <1>1, <2>1 DEF BuffersKept
    <3>2. CASE UNCHANGED driver
      BY <2>1, <3>1, <3>2
    <3>3. CASE driver' = Freed(d)
      BY <1>1, <3>3, FreedFacts
    <3> QED
      BY <1>6, <3>2, <3>3
  <2>3. \A e \in Side : BuffersKept(e)'
    BY <1>1, <1>2, <1>5, <1>6, <2>1, <2>2 DEF BuffersKept, Matches
  <2>4. ControlsKept'
    BY <1>1, <1>2, <1>3, <1>6, <2>2 DEF ControlsKept, Converted
  <2>5. "TARGET" \notin driver'.queued
    BY <1>5, <2>2
  <2> QED
    BY <1>2, <1>6, <2>3, <2>4, <2>5, FailSession
<1>7. CASE /\ Proceed(d, "queue")
           /\ session'.transform = session.transform
           /\ session'.turned = session.turned
           /\ session'.protected = session.protected
           /\ session'.rect = session.rect
           /\ "REQBUFS" \in session'.state[d]
           /\ "QBUF" \notin session'.state[d]
           /\ \A e \in Side : e # d => session'.state[e] = session.state[e]
           /\ driver'.transform = driver.transform
           /\ driver'.protected = driver.protected /\ driver'.csc = driver.csc
           /\ driver'.format = driver.format /\ driver'.rect = driver.rect
           /\ driver'.queued = driver.queued
           /\ driver'.streaming = driver.streaming \cup {d}
           /\ driver'.buffers[d] = image[d].memory
           /\ \A e \in Side : e # d => driver'.buffers[e] = driver.buffers[e]
  <2>1. /\ call'.ok = call.ok /\ call'.aborts = call.aborts
        /\ call'.pc = IF d = "SOURCE" THEN "prepare" ELSE "queue"
        /\ call'.side = IF d = "SOURCE" THEN "TARGET" ELSE "SOURCE"
    BY <1>1, <1>2, <1>7, ProceedFacts DEF Proceed, Step
  <2>2. Converted' /\ \A e \in Side : Told(e)'
    BY <1>2, <1>3, <1>4, <1>7 DEF Converted, Told
  <2>3. \A e \in Side : Ready(e)'
    BY <1>2, <1>4, <1>7, <2>2 DEF Ready, Matches, Told
  <2>4. \A e \in Side : BuffersKept(e)'
    <3>1. Told(d)
      BY <1>4
    <3> QED
      BY <1>1, <1>2, <1>5, <1>7, <3>1 DEF BuffersKept, Matches, Told
  <2>5. ControlsKept'
    BY <1>7, <1>1, <2>2 DEF ControlsKept
  <2>6. FlowKept'
    BY <1>1, <1>2, <2>1 DEF FlowKept, Underway, SettingOkay
  <2>7. JobsKept'
    <3>1. \A e \in Side : "QBUF" \notin session'.state[e]
      BY <1>1, <1>2, <1>7 DEF JobsKept, Underway
    <3> QED
      BY <1>5, <1>7, <2>1, <3>1 DEF JobsKept, At, Done, Side
  <2>8. d = "TARGET" => driver'.streaming = Side
    <3>1. driver.streaming \subseteq Side
      BY <1>1 DEF Drivers
    <3> QED
      BY <1>1, <1>2, <1>7, <3>1 DEF CallKept, At, Side
  <2>9. CallKept'
    BY <1>1, <1>2, <1>7, <2>1, <2>2, <2>3, <2>8
       DEF CallKept, Underway, Agreed, AllTold, Aborting, At, Done, Side
  <2> QED
    BY <1>2, <2>4, <2>5, <2>6, <2>7, <2>9, ImagesSession DEF SessionInv
<1>8. CASE "REQBUFS" \in session.state[d]
  <2>1. d \in driver.streaming /\ Matches(d)
    BY <1>1, <1>4, <1>8 DEF BuffersKept, Ready
  <2>2. driver.streaming \cup {d} = driver.streaming
    BY <2>1
  <2>3. Proceed(d, "queue") /\ UNCHANGED <<session, driver>>
    BY <1>8 DEF Prepare
  <2> QED
    BY <1>5, <1>7, <1>8, <2>1, <2>2, <2>3 DEF Matches
<1>9. CASE /\ session' = [session EXCEPT !.memory[d] = image[d].memory,
                                          !.state[d] = @ \cup {"REQBUFS"}]
           /\ driver' = [requested EXCEPT !.streaming = @ \cup {d}]
           /\ Proceed(d, "queue")
  <2>1. /\ session'.transform = session.transform
        /\ session'.turned = session.turned
        /\ session'.protected = session.protected
        /\ session'.rect = session.rect
        /\ session'.state[d] = session.state[d] \cup {"REQBUFS"}
        /\ \A e \in Side : e # d => session'.state[e] = session.state[e]
        /\ driver'.transform = driver.transform
        /\ driver'.protected = driver.protected /\ driver'.csc = driver.csc
        /\ driver'.format = driver.format /\ driver'.rect = driver.rect
        /\ driver'.queued = driver.queued
        /\ driver'.streaming = driver.streaming \cup {d}
        /\ driver'.buffers[d] = image[d].memory
        /\ \A e \in Side : e # d => driver'.buffers[e] = driver.buffers[e]
    <3>1. requested = [driver EXCEPT !.buffers[d] = image[d].memory]
      OBVIOUS
    <3> HIDE DEF requested
    <3> QED
      BY <1>1, <1>9, <3>1, PreparedFacts
  <2> QED
    BY <1>5, <1>7, <1>9, <2>1
<1>10. CASE "REQBUFS" \notin session.state[d]
  BY <1>6, <1>9, <1>10 DEF Prepare, Recovers, MayFail
<1> QED
  BY <1>8, <1>10

(* queueBuffer takes fences away, which the driver is not told of.         *)
LEMMA UnfencedFacts ==
  ASSUME TypeOK, TypeOK', area' = area,
         \A d \in Side :
           /\ image'[d].has = image[d].has /\ image'[d].type = image[d].type
           /\ image'[d].dimension = image[d].dimension
           /\ image'[d].memory = image[d].memory
           /\ image'[d].protected = image[d].protected
  PROVE  /\ UNCHANGED Rect /\ UNCHANGED Conversion
         /\ \A d \in Side : /\ Format(image'[d]) = Format(image[d])
                            /\ ImageKept(d) => ImageKept(d)'
                            /\ SettingOkay(image[d]) => SettingOkay(image'[d])
BY DEF Rect, Window, Conversion, Format, ImageKept, SettingOkay, Side

LEMMA QueueSession ==
  ASSUME SessionInv, TypeOK', NEW d \in Side, QueueBuffer(d) PROVE SessionInv'
<1>1. /\ call \in Calls /\ session \in Sessions /\ driver \in Drivers
      /\ image \in [Side -> Images] /\ TypeOK
      /\ \A e \in Side : ImageKept(e) /\ BuffersKept(e)
      /\ ControlsKept /\ FlowKept /\ JobsKept /\ CallKept
  BY DEF SessionInv, TypeOK
<1>2. /\ call.pc = "queue" /\ call.side = d /\ UNCHANGED <<area, session>>
      /\ ~call.aborts /\ ~call.ok /\ Agreed /\ AllTold
  BY <1>1 DEF QueueBuffer, At, FlowKept, Agreed, AllTold
<1>3. \A e \in Side :
        /\ image'[e].has = image[e].has /\ image'[e].type = image[e].type
        /\ image'[e].changed = image[e].changed
        /\ image'[e].dimension = image[e].dimension
        /\ image'[e].memory = image[e].memory
        /\ image'[e].protected = image[e].protected
  BY <1>1 DEF QueueBuffer, Unfenced, Images
<1>4. /\ UNCHANGED Rect /\ UNCHANGED Conversion
      /\ \A e \in Side : /\ Format(image'[e]) = Format(image[e])
                         /\ ImageKept(e)'
                         /\ SettingOkay(image[e]) => SettingOkay(image'[e])
  BY <1>1, <1>2, <1>3, UnfencedFacts
<1>5. /\ Converted /\ \A e \in Side : Ready(e) /\ Told(e)
      /\ driver.streaming = Side /\ session.transform = area.transform
      /\ ~session.turned
      /\ session.protected = image["TARGET"].protected
  BY <1>1, <1>2 DEF CallKept, Underway
<1>6. /\ \A e \in Side : "QBUF" \notin session.state[e]
      /\ "TARGET" \notin driver.queued
      /\ d = "TARGET" => driver.queued = {"SOURCE"}
  <2>1. \A e \in Side : "QBUF" \notin session.state[e]
    BY <1>1, <1>2 DEF JobsKept, Underway
  <2>2. "TARGET" \notin driver.queued
    BY <1>1, <1>2, <2>1 DEF JobsKept, Done, Side
  <2> QED
    BY <1>1, <1>2, <2>1, <2>2 DEF JobsKept, At, Drivers, Side
<1>7. /\ driver'.transform = driver.transform
      /\ driver'.protected = driver.protected /\ driver'.csc = driver.csc
      /\ driver'.format = driver.format /\ driver'.rect = driver.rect
      /\ driver'.buffers = driver.buffers
      /\ driver'.streaming = driver.streaming
      /\ driver'.queued \in {driver.queued, driver.queued \cup {d}}
  BY <1>1 DEF QueueBuffer, Drivers
<1>8. \A e \in Side : BuffersKept(e)'
  BY <1>1, <1>2, <1>3, <1>4, <1>5, <1>7 DEF BuffersKept, Matches, Settled
<1>9. Converted' /\ \A e \in Side : Ready(e)' /\ Told(e)'
  BY <1>2, <1>3, <1>4, <1>5, <1>7 DEF Converted, Ready, Told, Matches
<1>10. ControlsKept'
  BY <1>1, <1>2, <1>7, <1>9 DEF ControlsKept
<1>11. (\A e \in Side : SettingOkay(image'[e])) /\ "TARGET" \in Side
  BY <1>1, <1>2, <1>4 DEF FlowKept, Underway, Side
<1>12. CASE /\ driver' = [driver EXCEPT !.queued = @ \cup {d}]
            /\ call' = [call EXCEPT
                 !.release = IF Releases(d) THEN @ \cup {d} ELSE @,
                 !.ok = d = "TARGET",
                 !.pc = IF d = "TARGET" THEN "finish" ELSE @,
                 !.side = IF d = "TARGET" THEN "SOURCE" ELSE "TARGET"]
  <2>1. /\ call'.ok = (d = "TARGET") /\ call'.aborts = call.aborts
        /\ call'.pc = IF d = "TARGET" THEN "finish" ELSE "queue"
        /\ call'.side = IF d = "TARGET" THEN "SOURCE" ELSE "TARGET"
    BY <1>1, <1>2, <1>12 DEF Calls
  <2>2. driver'.queued = driver.queued \cup {d}
    BY <1>1, <1>12 DEF Drivers
  <2>3. FlowKept'
    BY <1>2, <1>11, <2>1 DEF FlowKept, Underway, Side
  <2>4. JobsKept'
    BY <1>2, <1>6, <2>1, <2>2 DEF JobsKept, At, Done, Side
  <2>5. CallKept'
    BY <1>2, <1>3, <1>5, <1>7, <1>9, <1>11, <2>1
       DEF CallKept, Underway, Agreed, AllTold, Aborting, At, Done
  <2> QED
    BY <1>4, <1>8, <1>10, <2>3, <2>4, <2>5 DEF SessionInv
<1>13. CASE /\ ~MayQueue(d) \/ MayFail("QBUF", d)
            /\ call' = [call EXCEPT
                 !.faulted = @ \/ MayQueue(d), !.aborts = d = "TARGET",
                 !.pc = IF d = "TARGET" THEN "mode" ELSE "finish",
                 !.side = "SOURCE"]
            /\ UNCHANGED driver
  <2>1. /\ call'.ok = call.ok /\ call'.aborts = (d = "TARGET")
        /\ call'.faulted = (call.faulted \/ MayQueue(d))
        /\ call'.pc = IF d = "TARGET" THEN "mode" ELSE "finish"
        /\ call'.side = "SOURCE"
    BY <1>1, <1>13 DEF Calls
  <2>2. MayQueue(d) <=> d \notin driver.queued
    BY <1>5 DEF MayQueue, Ready, Matches
  <2>3. d = "TARGET" => call'.faulted
    BY <1>6, <2>1, <2>2
  <2>4. d = "SOURCE" /\ ~call'.faulted => driver.queued = {"SOURCE"}
    <3>1. driver.queued \subseteq {"SOURCE", "TARGET"}
      BY <1>1 DEF Drivers, Side
    <3>2. d = "SOURCE" /\ ~call'.faulted => "SOURCE" \in driver.queued
      BY <2>1, <2>2
    <3> QED
      BY <1>6, <3>1, <3>2
  <2>5. FlowKept'
    BY <1>2, <1>11, <2>1, <2>3 DEF FlowKept, Underway
  <2>6. JobsKept'
    BY <1>2, <1>6, <1>13, <2>1, <2>3, <2>4 DEF JobsKept, At, Done, Side
  <2>7. CallKept'
    BY <1>2, <1>3, <1>5, <1>7, <1>9, <1>11, <2>1
       DEF CallKept, Underway, Agreed, AllTold, Aborting, At, Done
  <2> QED
    BY <1>4, <1>8, <1>10, <2>5, <2>6, <2>7 DEF SessionInv
<1> QED
  BY <1>12, <1>13 DEF QueueBuffer

LEMMA FinishSession == ASSUME SessionInv, TypeOK', Finish PROVE SessionInv'
<1>1. /\ call \in Calls /\ session \in Sessions /\ driver \in Drivers
      /\ image \in [Side -> Images] /\ TypeOK
      /\ \A e \in Side : ImageKept(e) /\ BuffersKept(e)
      /\ ControlsKept /\ FlowKept /\ JobsKept /\ CallKept
  BY DEF SessionInv, TypeOK
<1>2. /\ call.pc = "finish" /\ call.side = "SOURCE"
      /\ UNCHANGED <<area, driver>> /\ Agreed /\ AllTold
  BY <1>1 DEF Finish, FlowKept, Agreed, AllTold
<1>3. \A e \in Side :
        /\ image'[e].has = image[e].has /\ image'[e].type = image[e].type
        /\ image'[e].changed = {}
        /\ image'[e].dimension = image[e].dimension
        /\ image'[e].memory = image[e].memory
        /\ image'[e].protected = image[e].protected
  BY <1>1 DEF Finish, Images
<1>4. /\ UNCHANGED Rect /\ UNCHANGED Conversion
      /\ \A e \in Side : /\ Format(image'[e]) = Format(image[e])
                         /\ ImageKept(e)'
                         /\ SettingOkay(image[e]) => SettingOkay(image'[e])
  BY <1>1, <1>2, <1>3, UnfencedFacts
<1>5. /\ Converted /\ \A e \in Side : Ready(e) /\ Told(e)
      /\ ~session.turned
  BY <1>1, <1>2 DEF CallKept
<1>6. /\ session'.transform = session.transform
      /\ session'.turned = session.turned
      /\ session'.protected = session.protected
      /\ session'.rect = session.rect
      /\ \A e \in Side :
           /\ "REQBUFS" \in session'.state[e] <=> "REQBUFS" \in session.state[e]
           /\ "QBUF" \in session'.state[e] <=> call.ok
  <2>1. \A e \in Side : "QBUF" \notin session.state[e]
    BY <1>1, <1>2 DEF JobsKept, Underway
  <2> QED
    BY <1>1, <2>1 DEF Finish, Sessions, Calls
<1>7. PICK pc \in {"dequeue", "return"} :
        /\ call' = [call EXCEPT !.release = {}, !.pc = pc]
        /\ pc = "dequeue" <=> call.ok /\ call.waits
  BY DEF Finish
<1>8. /\ call'.pc = pc /\ call'.side = "SOURCE" /\ call'.ok = call.ok
      /\ call'.waits = call.waits /\ call'.aborts = call.aborts
      /\ call'.faulted = call.faulted
  BY <1>1, <1>2, <1>7 DEF Calls
<1>9. \A e \in Side : BuffersKept(e)'
  <2>1. call.ok => driver.queued = Side
    BY <1>1, <1>2 DEF JobsKept, Done
  <2>2. \A e \in Side : e \in driver.streaming => Matches(e)
    BY <1>5 DEF Ready
  <2> QED
    BY <1>1, <1>2, <1>3, <1>4, <1>6, <2>1, <2>2 DEF BuffersKept, Matches
<1>10. Converted' /\ \A e \in Side : Told(e)'
  BY <1>2, <1>3, <1>4, <1>5, <1>6 DEF Converted, Told
<1>11. ControlsKept'
  BY <1>1, <1>2, <1>6, <1>10 DEF ControlsKept
<1>12. FlowKept'
  BY <1>1, <1>2, <1>7, <1>8 DEF FlowKept, Underway
<1>13. ~ResetRequired'
  <2>1. session'.rect = Rect'
    <3>1. \A e \in Side : session'.rect[e] = Rect'[e]
      BY <1>10 DEF Told
    <3>2. session'.rect \in [Side -> Rectangle]
      BY DEF TypeOK, Sessions
    <3>3. Rect' = [e \in Side |-> Rect'[e]]
      BY DEF Rect, Side
    <3> QED
      BY <3>1, <3>2, <3>3
  <2> QED
    BY <1>3, <1>5, <1>6, <2>1 DEF ResetRequired
<1>14. JobsKept'
  <2>1. ~call.ok => "TARGET" \notin driver.queued
    BY <1>1, <1>2 DEF JobsKept, Done, Underway, Side
  <2>2. ~call.ok /\ ~call.faulted => Stranded'
    BY <1>1, <1>2, <1>6, <1>13 DEF JobsKept, Stranded
  <2> QED
    BY <1>2, <1>6, <1>7, <1>8, <2>1, <2>2
       DEF JobsKept, Underway, At, Done, Side
<1>15. CallKept'
  BY <1>7, <1>8 DEF CallKept, Underway, Agreed, AllTold, Aborting, At, Done
<1> QED
  BY <1>4, <1>9, <1>11, <1>12, <1>14, <1>15 DEF SessionInv

-----------------------------------------------------------------------------
LEMMA SessionKept == ASSUME Recovers PROVE Spec => []SessionInv
<1>1. TypeOK' /\ SessionInv /\ [Next]_vars => SessionInv'
  <2> SUFFICES ASSUME TypeOK', SessionInv, [Next]_vars PROVE SessionInv'
    OBVIOUS
  <2>1. CASE Next
    BY <2>1, LayerSession, CanvasSession, RenewSession, ExecuteSession,
       WaitSession, DequeueSession, ResetSession, ChangeSession,
       PrepareSession, QueueSession, TransformSession, ModeSession,
       CSCSession, ProtectSession, FinishSession, ReturnSession DEF Next
  <2>2. CASE UNCHANGED vars
    BY <2>2 DEF vars, SessionInv, ImageKept, BuffersKept, Matches,
       ControlsKept, Converted, Conversion, FlowKept, Underway, SettingOkay,
       JobsKept, At, Done, Stranded, ResetRequired, Rect, Window, CallKept,
       Agreed, AllTold, Aborting, Ready, Told
  <2> QED
    BY <2>1, <2>2
<1> QED
  BY <1>1, InitSession, MsclTypeCorrect, PTL DEF Spec

(* A job that is queued runs with what the client asked for, whatever      *)
(* failed in the jobs before it.                                           *)
THEOREM JobsConfigured ==
  ASSUME Recovers PROVE Spec => []ConfiguredAsAsked
<1>1. SessionInv => ConfiguredAsAsked
  <2> SUFFICES ASSUME SessionInv, call.pc = "finish", call.ok
               PROVE  ConfiguredAsAsked
    BY DEF ConfiguredAsAsked
  <2>1. Agreed /\ AllTold /\ Underway /\ Done
    BY DEF Agreed, AllTold, Underway, Done
  <2>2. /\ \A d \in Side : Told(d) /\ Ready(d)
        /\ Converted /\ session.transform = area.transform
        /\ session.protected = image["TARGET"].protected
    BY <2>1 DEF SessionInv, CallKept
  <2>3. driver.queued = Side /\ driver.streaming = Side
    BY <2>1 DEF SessionInv, JobsKept, BuffersKept, TypeOK, Drivers
  <2> QED
    BY <2>2, <2>3 DEF ConfiguredAsAsked, SessionInv, ControlsKept, Told, Ready,
       Matches, Converted
<1> QED
  BY <1>1, SessionKept, PTL

(* A valid job in which no request fails is run, whatever failed before it *)
(* and wherever that call stopped.                                         *)
THEOREM JobsSucceed ==
  ASSUME Recovers PROVE Spec => []FaultlessJobSucceeds
<1>1. SessionInv => FaultlessJobSucceeds
  BY DEF SessionInv, JobsKept, FaultlessJobSucceeds
<1> QED
  BY <1>1, SessionKept, PTL
=============================================================================
