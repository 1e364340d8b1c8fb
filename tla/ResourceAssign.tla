--------------------------- MODULE ResourceAssign ---------------------------
(***************************************************************************)
(* How ExynosResourceManager::assignResource() gives the layers of one     *)
(* display their hardware, from the first validate of a frame to the       *)
(* window numbers of assignWindow().                                       *)
(*                                                                         *)
(* A layer is shown by a window of its own, fed by an OTF MPP directly or  *)
(* through a memory-to-memory MPP with one source (DEVICE); or it is       *)
(* blended by the G2D with its neighbours into one window (EXYNOS); or the *)
(* client blends it with its neighbours into one (CLIENT).  Either blended *)
(* range must be contiguous in Z order, except that a layer of high        *)
(* priority keeps its own window inside it.                                *)
(*                                                                         *)
(* The assignment starts over whenever a decision invalidates an earlier   *)
(* one: the display did not have a blended range before, the G2D is found  *)
(* busy, a layer of high frame rate would need the client.                 *)
(*                                                                         *)
(* Formats, sizes and restrictions are abstracted to the set of MPPs that  *)
(* support a layer (mSupportedMPPFlag) and to the load it puts on the G2D. *)
(***************************************************************************)
EXTENDS Integers, Sequences, FiniteSets, FiniteSetsExt, Functions

CONSTANTS
  LayerNum,       \* mLayers.size()
  Kind,           \* what a layer can be: see KindOK
  OtfMPPs,        \* the names of the display's OTF MPPs, in order
  Single,         \* the G2D as MPP of one source (MPP_LOGICAL_G2D_YUV)
  Blending,       \* the G2D as blending MPP (MPP_LOGICAL_G2D_RGB)
  None,           \* no MPP
  MaxSrcLayerNum, \* mMaxSrcLayerNum of the blending MPP
  Capacity,       \* mCapacity of the G2D
  MaxWindowNum,   \* mMaxWindowNum
  TryCount,       \* ASSIGN_RESOURCE_TRY_COUNT
  useMaxG2DSrc    \* mDisplayControl.useMaxG2DSrc
                  \* (the two optimisations of mDisplayControl are on)

Otf == Range(OtfMPPs)
M2m == {Single, Blending}

PriorityHigh == 3
PriorityMax == 4
Priority == 1 .. PriorityMax

(***************************************************************************)
(* priority   mOverlayPriority                                             *)
(* client     mCompositionType is CLIENT: the client asked for it           *)
(* supports   mSupportedMPPFlag; nothing, when validateLayer() refuses it  *)
(* load       the G2D capacity it takes                                    *)
(* The blending MPP takes neither protected nor YUV sources; that it takes *)
(* no HDR source either is an assumption about the chip.                   *)
(***************************************************************************)
KindOK(k) ==
  /\ k.priority \in Priority
  /\ k.client \in BOOLEAN
  /\ k.supports \subseteq Otf \cup M2m
  /\ k.load \in Nat
  /\ k.priority >= PriorityHigh => Blending \notin k.supports

ASSUME ParametersOK ==
  /\ LayerNum \in Nat \ {0}
  /\ Kind # {} /\ \A k \in Kind : KindOK(k)
  /\ OtfMPPs \in Seq(Otf) /\ IsInjective(OtfMPPs) /\ Otf # {}
  /\ None \notin Otf \cup M2m /\ Single # Blending
  /\ {MaxSrcLayerNum, Capacity, MaxWindowNum} \subseteq Nat
  /\ TryCount \in Nat \ {0}
  /\ useMaxG2DSrc \in BOOLEAN

Layer == 0 .. LayerNum - 1

(* mClientCompositionInfo and mExynosCompositionInfo are sources as well.  *)
Client == -1
Exynos == -2
Source == Layer \cup {Client, Exynos}

Ranges == [has : BOOLEAN, first : Int, last : Int]
NoRange == [has |-> FALSE, first |-> -1, last |-> -1]
In(i, range) == range.has /\ range.first <= i /\ i <= range.last

VARIABLES
  kind,             \* [Layer -> Kind]
  mBlendingNoneIndex,
  lowFps,           \* mLowFpsLayerInfo
  r,                \* the assignment so far: see ResultOK
  tries,            \* retry_count
  level,            \* the priority assignLayers() is called with
  next,             \* the layer it looks at next
  pc

vars == <<kind, mBlendingNoneIndex, lowFps, r, tries, level, next, pc>>

(***************************************************************************)
(* type     mValidateCompositionType of the layers                         *)
(* otf      mOtfMPP of a source                                            *)
(* m2m      mM2mMPP of a layer; the MPP's mAssignedSources agree with it   *)
(* users    mAssignedSources of an OTF MPP                                 *)
(* client, exynos   the blended ranges                                     *)
(* windows  mWindowNumUsed                                                 *)
(* busy     m2m MPPs that were found busy: reserved for no display         *)
(* window   mWindowIndex of a source                                       *)
(* ret      what the last helper returned                                  *)
(* moved    *isExynosCompositionChanged                                    *)
(***************************************************************************)
Ret == {"ok", "changed", "error"}

ResultOK ==
  /\ r.type \in [Layer -> {"INVALID", "CLIENT", "EXYNOS", "DEVICE"}]
  /\ r.otf \in [Source -> Otf \cup {None}]
  /\ r.m2m \in [Layer -> M2m \cup {None}]
  /\ r.users \in [Otf -> SUBSET Source]
  /\ {r.client, r.exynos} \subseteq Ranges
  /\ r.windows \in Int
  /\ r.busy \subseteq M2m
  /\ r.window \in [Source -> Int]
  /\ r.ret \in Ret
  /\ r.moved \in BOOLEAN

TypeOK ==
  /\ kind \in [Layer -> Kind]
  /\ mBlendingNoneIndex \in -1 .. LayerNum - 1
  /\ lowFps \in Ranges
  /\ ResultOK
  /\ tries \in 0 .. TryCount
  /\ level \in Priority
  /\ next \in 0 .. LayerNum
  /\ pc \in {"idle", "asked", "try", "layers", "target", "prioritize",
             "test", "update", "assigned", "error", "failed", "done"}

(* preAssignResources(), resetValidateData(), initializeValidateInfos().   *)
Fresh ==
  [type |-> [l \in Layer |-> "INVALID"],
   otf |-> [s \in Source |-> None],
   m2m |-> [l \in Layer |-> None],
   users |-> [o \in Otf |-> {}],
   client |-> NoRange, exynos |-> NoRange,
   windows |-> 0, busy |-> {}, window |-> [s \in Source |-> -1],
   ret |-> "ok", moved |-> FALSE]

High(l) == kind[l].priority >= PriorityHigh

(* for (i = first; i <= last; i++) s = Step(s, i)                          *)
Loop(Step(_, _), s, first, last) ==
  LET times == IF last < first THEN 0 ELSE last - first + 1
      after[n \in 0 .. times] ==
        IF n = 0 THEN s ELSE Step(after[n - 1], first + n - 1)
  IN after[times]

-----------------------------------------------------------------------------
(* ExynosMPP and ExynosLayer.                                              *)

resetAssignedState(s, o) ==
  [s EXCEPT !.users[o] = {},
            !.otf = [x \in Source |-> IF @[x] = o THEN None ELSE @[x]]]

(* resetAssignedResource() of each layer of L: it lets go of its MPPs, and  *)
(* an OTF MPP lets go of all its sources.                                  *)
resetAssignedResource(s, L) ==
  LET left == {s.otf[l] : l \in L} \ {None}
  IN [s EXCEPT !.users = [o \in Otf |-> IF o \in left THEN {} ELSE @[o]],
               !.otf = [x \in Source |-> IF @[x] \in left THEN None ELSE @[x]],
               !.m2m = [l \in Layer |-> IF l \in L THEN None ELSE @[l]]]

assignOtf(s, o, x) ==
  [s EXCEPT !.users[o] = @ \cup {x}, !.otf[x] = o]

M2mSources(s, m) == {l \in Layer : s.m2m[l] = m}

(* hasEnoughCapa(): both of the G2D's MPPs take from the same capacity.    *)
Load(S) ==
  LET Add(sum, l) == IF l \in S THEN sum + kind[l].load ELSE sum
  IN Loop(Add, 0, 0, LayerNum - 1)

hasEnoughCapa(s, l) ==
  Load({k \in Layer : s.m2m[k] \in M2m}) + kind[l].load <= Capacity

otfAssignable(s, o) == s.users[o] = {}

m2mAssignable(s, m) ==
  /\ m \notin s.busy
  /\ Cardinality(M2mSources(s, m)) < IF m = Blending THEN MaxSrcLayerNum ELSE 1

canBlend(s, l) ==
  /\ Blending \in kind[l].supports
  /\ m2mAssignable(s, Blending)
  /\ hasEnoughCapa(s, l)

initializeClient(s) ==
  [s EXCEPT !.client = NoRange, !.otf[Client] = None, !.window[Client] = -1]

initializeExynos(s) ==
  [s EXCEPT !.exynos = NoRange, !.otf[Exynos] = None, !.window[Exynos] = -1]

-----------------------------------------------------------------------------
(* ExynosDisplay: the blended ranges.                                      *)

Lower(a, b) == IF a < b THEN a ELSE b
Higher(a, b) == IF a > b THEN a ELSE b

Widened(range, l) ==
  IF range.has
  THEN [has |-> TRUE, first |-> Lower(range.first, l),
        last |-> Higher(range.last, l)]
  ELSE [has |-> TRUE, first |-> l, last |-> l]

(* Mutant: a layer of high frame rate may stay between the client's.       *)
SandwichedUnlessDevice(s, range) ==
  {k \in Layer : /\ range.first < k /\ k < range.last
                 /\ ~High(k) /\ s.type[k] \notin {"CLIENT", "DEVICE"}}

(* The layers of low priority that have to follow layer l to the client:   *)
(* those between two of the client's, and those below a layer that does    *)
(* not blend.                                                              *)
Sandwiched(s, range) ==
  {k \in Layer : /\ range.first < k /\ k < range.last
                 /\ ~High(k) /\ s.type[k] # "CLIENT"}

BelowBlendingNone(s, l) ==
  IF mBlendingNoneIndex # -1 /\ ~High(l) /\ l <= mBlendingNoneIndex
  THEN {k \in 0 .. mBlendingNoneIndex : ~High(k) /\ s.type[k] # "CLIENT"}
  ELSE {}

ToClient(s, L) ==
  [resetAssignedResource(s, L) EXCEPT
     !.type = [k \in Layer |-> IF k \in L THEN "CLIENT" ELSE @[k]]]

ExynosLayers(s) == {k \in Layer : s.type[k] = "EXYNOS"}

(* "Check Exynos Composition info is changed"                              *)
shrinkExynos(s) ==
  LET left == ExynosLayers(s)
  IN IF s.exynos.first < 0 \/ s.exynos.last < 0
     THEN [s EXCEPT !.ret = "error", !.moved = FALSE]
     ELSE IF left = {}
          THEN [initializeExynos(s) EXCEPT !.ret = "changed", !.moved = TRUE]
          ELSE [s EXCEPT !.exynos.first = Min(left), !.exynos.last = Max(left),
                         !.ret = "ok", !.moved = TRUE]

(* Mutant: a new range is nothing to start over for.                       *)
addClientUnannounced(s, l) ==
  LET range == Widened(s.client, l)
  IN [ToClient(s, Sandwiched(s, range)) EXCEPT
        !.client = range, !.ret = "ok", !.moved = FALSE]

addClientCompositionLayer(s, l) ==
  LET range == Widened(s.client, l)
      between == Sandwiched(s, range)
      below == BelowBlendingNone(s, l) \ between
      windows == {k \in between : s.type[k] = "DEVICE"}
      t == ToClient([s EXCEPT !.windows = @ - Cardinality(windows)],
                    between \cup below)
      u == [t EXCEPT !.client =
              IF below = {} THEN range
              ELSE Widened(Widened(range, Min(below)), Max(below))]
  IN IF ~s.client.has
     THEN [s EXCEPT !.client = range, !.ret = "changed", !.moved = FALSE]
     ELSE IF (between \cup below) \cap ExynosLayers(s) # {}
          THEN shrinkExynos(u)
          ELSE [u EXCEPT !.ret = "ok", !.moved = FALSE]

(* The layer is the first or the last one of the range.                    *)
removeClientCompositionLayer(s, l) ==
  LET range == s.client
      target == s.otf[Client]
  IN IF ~range.has \/ l \notin {range.first, range.last}
     THEN [s EXCEPT !.ret = "error"]
     ELSE IF range.first = range.last
     THEN IF target = None
          THEN [s EXCEPT !.ret = "error"]
          ELSE [initializeClient(resetAssignedState(s, target))
                  EXCEPT !.windows = @ - 1, !.ret = "ok"]
     ELSE IF l = range.first
     THEN [s EXCEPT !.client.first = @ + 1, !.ret = "ok"]
     ELSE [s EXCEPT !.client.last = @ - 1, !.ret = "ok"]

(***************************************************************************)
(* addExynosCompositionLayer() walks the range the new layer makes, with   *)
(* an accumulator: s, the assignment; invalid, a layer of the range cannot *)
(* be blended; changed; error.                                             *)
(***************************************************************************)
leftToClient(a, c) ==
  [a EXCEPT !.s = c, !.error = c.ret = "error", !.changed = @ \/ c.ret = "changed"]

blendSandwiched(a, i) ==
  LET s == a.s
      device == IF s.type[i] = "DEVICE" THEN 1 ELSE 0
  IN IF a.error \/ High(i) \/ s.type[i] = "EXYNOS" THEN a
     ELSE IF s.type[i] = "CLIENT" THEN [a EXCEPT !.invalid = TRUE]
     ELSE IF ~canBlend(s, i)
     THEN leftToClient([a EXCEPT !.invalid = TRUE],
                       addClientCompositionLayer(ToClient(s, {i}), i))
     ELSE [a EXCEPT !.s = [resetAssignedResource(s, {i})
                             EXCEPT !.m2m[i] = Blending, !.type[i] = "EXYNOS",
                                    !.windows = @ - device,
                                    !.exynos = Widened(@, i)]]

(* "Check if exynos comosition nests GLES composition": the end that is    *)
(* nearer to the client's range goes to the client.                        *)
Nests(s) ==
  /\ s.client.has
  /\ s.exynos.first < s.client.first /\ s.client.last < s.exynos.last

besideClient(c, lower) ==
  IF c.moved \/ c.ret = "error" THEN c
  ELSE IF lower THEN [c EXCEPT !.exynos.first = c.client.last + 1]
                ELSE [c EXCEPT !.exynos.last = c.client.first - 1]

unnest(a) ==
  LET s == a.s
      lower == s.client.first - s.exynos.first < s.exynos.last - s.client.last
      end == IF lower THEN s.exynos.first ELSE s.exynos.last
  IN IF ~a.invalid \/ a.error \/ ~Nests(s) THEN a
     ELSE leftToClient(a, besideClient(
            addClientCompositionLayer(ToClient(s, {end}), end), lower))

(* Layers of high priority do not count at the ends of the range.          *)
trimHigh(s, high) ==
  LET Trim(t, i) == IF i \notin high THEN t
                    ELSE IF i = t.exynos.first THEN [t EXCEPT !.exynos.first = @ + 1]
                    ELSE IF i = t.exynos.last THEN [t EXCEPT !.exynos.last = @ - 1]
                    ELSE t
  IN Loop(Trim, s, 0, LayerNum - 1)

EmptyRange(range) == ~(range.first \in Layer /\ range.last \in Layer
                         /\ range.first <= range.last)

(* A layer of high priority inside the range: all the others go to the     *)
(* client.                                                                 *)
splitByHigh(s, high) ==
  LET Give(t, i) == IF i \in high THEN t
                    ELSE addClientCompositionLayer(ToClient(t, {i}), i)
  IN initializeExynos(Loop(Give, s, s.exynos.first, s.exynos.last))

whole(s, high, changed) ==
  IF EmptyRange(s.exynos)
  THEN [initializeExynos(s) EXCEPT !.ret = "changed"]
  ELSE IF \E i \in high : s.exynos.first < i /\ i < s.exynos.last
  THEN [splitByHigh(s, high) EXCEPT !.ret = "changed"]
  ELSE [s EXCEPT !.ret = IF changed THEN "changed" ELSE "ok"]

trimmed(a, high) ==
  IF a.error THEN [a.s EXCEPT !.ret = "error"]
  ELSE whole(trimHigh(a.s, high), high, a.changed)

addExynosCompositionLayer(s, l) ==
  LET range == Widened(s.exynos, l)
      start == [s |-> [s EXCEPT !.exynos = range],
                invalid |-> FALSE, changed |-> FALSE, error |-> FALSE]
      high == {k \in range.first .. range.last : High(k)}
  IN IF ~s.exynos.has
     THEN [start.s EXCEPT !.ret = "changed"]
     ELSE trimmed(unnest(Loop(blendSandwiched, start, range.first, range.last)),
                  high)

-----------------------------------------------------------------------------
(* ExynosResourceManager: the resources for one source.                    *)

NoWindowLeft(s) == s.windows >= MaxWindowNum \/ s.windows < 0

(* validateLayer(), and the windows: what keeps the layer from an OTF MPP. *)
Obstacles(s, l) ==
  (IF kind[l].client \/ In(l, lowFps) THEN {"client"}
   ELSE IF l <= mBlendingNoneIndex /\ ~High(l) THEN {"sourceOver"} ELSE {})
    \cup (IF NoWindowLeft(s) THEN {"window"} ELSE {})

(* The first MPP of OtfMPPs that is free and among the given ones.         *)
freeOtf(s, given) ==
  LET free == {k \in DOMAIN OtfMPPs :
                 OtfMPPs[k] \in given /\ otfAssignable(s, OtfMPPs[k])}
  IN IF free = {} THEN None ELSE OtfMPPs[Min(free)]

Answer(type, o, m) == [type |-> type, otf |-> o, m2m |-> m]

(* Every OTF MPP takes what the G2D writes.                                *)
assignLayer(s, l) ==
  LET blocked == Obstacles(s, l)
      supports == kind[l].supports
      direct == freeOtf(s, supports)
      single == /\ Single \in supports /\ m2mAssignable(s, Single)
                /\ hasEnoughCapa(s, l) /\ freeOtf(s, Otf) # None
  IN IF "client" \in blocked \/ Cardinality(blocked) > 1
     THEN Answer("CLIENT", None, None)
     ELSE IF blocked = {} /\ direct # None
     THEN Answer("DEVICE", direct, None)
     ELSE IF blocked = {} /\ single
     THEN Answer("DEVICE", freeOtf(s, Otf), Single)
     ELSE IF canBlend(s, l)
     THEN Answer("EXYNOS", None, Blending)
     ELSE Answer("CLIENT", None, None)

(* assignMPP() of what assignLayer() found.                                *)
assign(s, l, answer) ==
  LET t == IF answer.otf = None THEN s ELSE assignOtf(s, answer.otf, l)
      u == IF answer.m2m = None THEN t ELSE [t EXCEPT !.m2m[l] = answer.m2m]
  IN [u EXCEPT !.type[l] = answer.type,
               !.windows = IF answer.type = "DEVICE" THEN @ + 1 ELSE @]

(* assignCompositionTarget() for Client or Exynos.                         *)
assignCompositionTarget(s, target) ==
  LET has == IF target = Client THEN s.client.has ELSE s.exynos.has
      o == freeOtf(s, Otf)
  IN IF ~has THEN [s EXCEPT !.ret = "ok"]
     ELSE IF o = None THEN [s EXCEPT !.ret = "error"]
     ELSE [assignOtf(s, o, target) EXCEPT !.windows = @ + 1, !.ret = "ok"]

(* resetAssignedResources(): the blending MPP keeps its sources, unless    *)
(* forced.                                                                 *)
resetAssignedResources(s, force) ==
  [s EXCEPT !.users = [o \in Otf |-> {}], !.otf = [x \in Source |-> None],
            !.m2m = [l \in Layer |->
                       IF @[l] = Blending /\ ~force THEN Blending ELSE None],
            !.windows = 0]

-----------------------------------------------------------------------------
(* assignLayers(): what follows from the answer for one layer.             *)

(* A layer of high frame rate goes to the client.                          *)
LowFpsLost(s) ==
  /\ lowFps.has /\ s.client.has
  /\ s.client.first < lowFps.first \/ s.client.last > lowFps.last

(* Mutant: the layers keep what was decided for them.                      *)
reassignKeepingTypes(s) == [initializeExynos(initializeClient(s)) EXCEPT !.ret = "changed"]

(* needReAssign: all is forgotten.                                         *)
reassign(s) ==
  LET ofClient == IF s.client.has /\ s.otf[Client] # None
                  THEN resetAssignedState(s, s.otf[Client]) ELSE s
      ofExynos == IF s.exynos.has /\ s.otf[Exynos] # None
                  THEN resetAssignedState(ofClient, s.otf[Exynos]) ELSE ofClient
      blended == IF s.exynos.has THEN M2mSources(s, Blending) ELSE {}
  IN [initializeExynos(initializeClient(ofExynos))
        EXCEPT !.m2m = [l \in Layer |-> IF l \in blended THEN None ELSE @[l]],
               !.type = [l \in Layer |-> "INVALID"],
               !.ret = "changed"]

(* Mutant: the priorities in ascending order.                              *)
WaitingLowestFirst ==
  {l \in Layer : /\ l >= next
                 /\ kind[l].priority = PriorityMax + 1 - level
                 /\ r.type[l] \notin {"CLIENT", "EXYNOS"}}

(* The layers still to be looked at with this priority.                    *)
Waiting ==
  {l \in Layer : /\ l >= next
                 /\ kind[l].priority = level
                 /\ r.type[l] \notin {"CLIENT", "EXYNOS"}}

(* Go on with the next layer, or leave assignLayers().                     *)
Proceed(s, l) ==
  /\ r' = s
  /\ next' = l + 1
  /\ pc' = CASE s.ret = "ok" -> "layers"
             [] s.ret = "changed" -> "test"
             [] s.ret = "error" -> "error"

AssignDevice(l, answer) ==
  /\ answer.type = "DEVICE"
  /\ Proceed([assign(r, l, answer) EXCEPT !.ret = "ok"], l)
  /\ UNCHANGED lowFps

UnlessLowFpsLost(s, l) ==
  LET lost == s.ret = "ok" /\ LowFpsLost(s)
  IN /\ Proceed(IF lost THEN reassign(s) ELSE s, l)
     /\ lowFps' = IF lost THEN NoRange ELSE lowFps

AssignExynos(l, answer) ==
  /\ answer.type = "EXYNOS"
  /\ UnlessLowFpsLost(addExynosCompositionLayer(assign(r, l, answer), l), l)

AssignClient(l, answer) ==
  LET lost == lowFps.has /\ ~In(l, lowFps)
      s == addClientCompositionLayer([r EXCEPT !.type[l] = "CLIENT"], l)
  IN /\ answer.type = "CLIENT"
     /\ Proceed(IF lost THEN reassign(r) ELSE s, l)
     /\ lowFps' = IF lost THEN NoRange ELSE lowFps

-----------------------------------------------------------------------------
(* What follows when all layers have their answer.                         *)

(* The window numbers, in Z order; a blended range takes its number at its *)
(* last layer.                                                             *)
Target(type) == IF type = "CLIENT" THEN Client ELSE Exynos
Blended(s, type) == IF type = "CLIENT" THEN s.client ELSE s.exynos

assignWindow(s) ==
  LET One(acc, l) ==
        LET type == s.type[l]
            range == Blended(s, type)
            x == IF type = "DEVICE" THEN l ELSE Target(type)
        IN IF type = "INVALID" \/ (type # "DEVICE" /\ ~(range.has /\ range.last = l))
           THEN acc
           ELSE [acc EXCEPT !.s.window[x] = acc.index, !.index = @ + 1]
  IN Loop(One, [s |-> s, index |-> 0], 0, LayerNum - 1).s

(* One more layer next to the blended range, as long as the G2D takes it.  *)
extend(a, l) ==
  LET can == a.s.type[l] # "CLIENT" /\ canBlend(a.s, l)
      t == [resetAssignedResource(a.s, {l}) EXCEPT !.m2m[l] = Blending]
  IN IF ~a.on THEN a
     ELSE IF ~can THEN [a EXCEPT !.on = FALSE]
     ELSE [s |-> [addExynosCompositionLayer(t, l) EXCEPT !.type[l] = "EXYNOS"],
           left |-> a.left - 1, on |-> a.left > 1]

extendDown(a, first) ==
  LET Down(b, k) == extend(b, first - k)
  IN Loop(Down, [a EXCEPT !.on = a.left > 0], 1, first).s

extendBoth(s) ==
  LET left == MaxSrcLayerNum - (s.exynos.last - s.exynos.first + 1)
  IN extendDown(Loop(extend, [s |-> s, left |-> left, on |-> left > 0],
                     s.exynos.last + 1, LayerNum - 1),
                s.exynos.first)

(* A range of one layer that its OTF MPP can show is no composition.       *)
unblend(s) ==
  LET l == s.exynos.first
      o == s.otf[Exynos]
      t == [initializeExynos(resetAssignedResource(s, {l}))
              EXCEPT !.type[l] = "DEVICE"]
  IN IF o # None /\ l >= 0 /\ l = s.exynos.last /\ o \in kind[l].supports
     THEN assignOtf(resetAssignedState(t, o), o, l)
     ELSE s

updateExynosComposition(s) ==
  IF ~s.exynos.has THEN s
  ELSE unblend(IF useMaxG2DSrc THEN extendBoth(s) ELSE s)

(* A layer at an end of the client's range that fits now gets its own      *)
(* window; the G2D is not taken for it.                                    *)
KeepsOwn(s, l, answer) ==
  LET removed == removeClientCompositionLayer(s, l)
  IN IF answer.type # "DEVICE" \/ answer.m2m # None
     THEN [s |-> s, on |-> FALSE]
     ELSE IF removed.ret = "error" THEN [s |-> removed, on |-> FALSE]
     ELSE [s |-> assign(removed, l, answer), on |-> TRUE]

Keeps(s, l, end) ==
  LET t == IF end = "first" THEN [s EXCEPT !.client.first = @ + 1]
                            ELSE [s EXCEPT !.client.last = @ - 1]
  IN IF High(l) /\ s.type[l] = "DEVICE" THEN [s |-> t, on |-> TRUE]
     ELSE KeepsOwn(s, l, assignLayer(s, l))

shrinkFromAbove(s) ==
  LET Down(a, k) == IF a.on THEN Keeps(a.s, s.client.last - k, "last") ELSE a
  IN IF s.ret = "error" THEN s
     ELSE Loop(Down, [s |-> s, on |-> TRUE], 0, s.client.last).s

updateClientComposition(s) ==
  LET Up(a, l) == IF a.on THEN Keeps(a.s, l, "first") ELSE a
  IN IF ~s.client.has \/ s.client = lowFps THEN s
     ELSE shrinkFromAbove(Loop(Up, [s |-> s, on |-> TRUE],
                               s.client.first, s.client.last).s)

-----------------------------------------------------------------------------
(* The steps of assignResource(), in validateDisplay().                    *)

Init ==
  /\ kind = [l \in Layer |-> CHOOSE k \in Kind : TRUE]
  /\ mBlendingNoneIndex = -1
  /\ lowFps = NoRange
  /\ r = Fresh
  /\ tries = 0
  /\ level = PriorityMax
  /\ next = 0
  /\ pc = "idle"

(* doPreProcessing(), checkLayerFps(): what the client gave us.            *)
LowFps(k) ==
  {range \in [has : {TRUE}, first : Layer, last : Layer] :
     /\ range.first < range.last
     /\ \A l \in range.first .. range.last : k[l].priority < PriorityHigh}

BlendingNone(k) == {l \in Layer \ {0} : k[l].priority < PriorityHigh}

(* Layers the client asked for are the client's before anything else.      *)
askedForClient(s, l) ==
  IF kind[l].client
  THEN addClientCompositionLayer([s EXCEPT !.type[l] = "CLIENT"], l)
  ELSE s

(* The first validate of a frame.                                          *)
StartFrame ==
  /\ pc = "idle"
  /\ kind' \in [Layer -> Kind]
  /\ mBlendingNoneIndex' \in {-1} \cup BlendingNone(kind')
  /\ lowFps' \in {NoRange} \cup LowFps(kind')
  /\ r' = Fresh
  /\ tries' = 0
  /\ pc' = "asked"
  /\ UNCHANGED <<level, next>>

AskedForClient ==
  /\ pc = "asked"
  /\ r' = Loop(askedForClient, r, 0, LayerNum - 1)
  /\ pc' = IF r'.ret = "error" THEN "error" ELSE "try"
  /\ UNCHANGED <<kind, mBlendingNoneIndex, lowFps, tries, level, next>>

Try ==
  /\ pc = "try"
  /\ r' = assignCompositionTarget(resetAssignedResources(r, FALSE), Client)
  /\ level' = PriorityMax
  /\ next' = 0
  /\ pc' = IF r'.ret = "error" THEN "error" ELSE "layers"
  /\ UNCHANGED <<kind, mBlendingNoneIndex, lowFps, tries>>

AssignLayer ==
  /\ pc = "layers"
  /\ Waiting # {}
  /\ LET l == Min(Waiting)
         answer == assignLayer(r, l)
     IN \/ AssignDevice(l, answer)
        \/ AssignExynos(l, answer)
        \/ AssignClient(l, answer)
  /\ UNCHANGED <<kind, mBlendingNoneIndex, tries, level>>

(* Mutant: assignLayers() counts down past the lowest priority.            *)
NextLevelPastLow ==
  /\ pc = "layers"
  /\ Waiting = {}
  /\ level' = level - 1
  /\ next' = 0
  /\ pc' = CASE level = PriorityHigh -> "target"
             [] level = 1 -> "prioritize"
             [] OTHER -> "layers"
  /\ UNCHANGED <<kind, mBlendingNoneIndex, lowFps, r, tries>>

(* The targets of the G2D come after the layers of high priority.          *)
NextLevel ==
  /\ pc = "layers"
  /\ Waiting = {}
  /\ level' = IF level > 1 THEN level - 1 ELSE level
  /\ next' = 0
  /\ pc' = CASE level = PriorityHigh -> "target"
             [] level = 1 -> "prioritize"
             [] OTHER -> "layers"
  /\ UNCHANGED <<kind, mBlendingNoneIndex, lowFps, r, tries>>

(* Without an MPP for its target the whole range goes to the client.       *)
givenToClient(s) ==
  IF s.ret = "error" THEN s ELSE [initializeExynos(s) EXCEPT !.ret = "changed"]

giveExynosToClient(s) ==
  LET Give(t, l) == IF t.ret = "error" THEN t
                    ELSE addClientCompositionLayer(ToClient(t, {l}), l)
  IN givenToClient(Loop(Give, [s EXCEPT !.ret = "ok"],
                        s.exynos.first, s.exynos.last))

AssignExynosTarget ==
  /\ pc = "target"
  /\ LET s == assignCompositionTarget(r, Exynos)
     IN r' = IF s.ret = "ok" THEN s ELSE giveExynosToClient(r)
  /\ pc' = CASE r'.ret = "ok" -> "layers"
             [] r'.ret = "changed" -> "test"
             [] r'.ret = "error" -> "error"
  /\ UNCHANGED <<kind, mBlendingNoneIndex, lowFps, tries, level, next>>

(* An MPP that cannot start its job before others is given up.             *)
giveUp(s, L, m) ==
  [resetAssignedResource(s, L) EXCEPT
     !.type = [l \in Layer |-> IF l \in L THEN "DEVICE" ELSE @[l]],
     !.busy = @ \cup {m}, !.ret = "changed"]

setResourcePriority ==
  /\ pc = "prioritize"
  /\ \E singleBusy, blendingBusy \in BOOLEAN :
       LET alone == {l \in M2mSources(r, Single) : r.type[l] = "DEVICE"}
           blended == {l \in Layer : In(l, r.exynos)}
           s == IF singleBusy THEN giveUp(r, alone, Single) ELSE r
       IN /\ singleBusy => alone # {}
          /\ blendingBusy => r.exynos.has
          /\ r' = IF blendingBusy THEN initializeExynos(giveUp(s, blended, Blending))
                  ELSE s
  /\ pc' = "test"
  /\ UNCHANGED <<kind, mBlendingNoneIndex, lowFps, tries, level, next>>

(* do { } while (changed and tries left)                                   *)
TestAgain ==
  /\ pc = "test"
  /\ tries' = tries + 1
  /\ pc' = IF r.ret = "changed" /\ tries' < TryCount THEN "try"
           ELSE IF tries' = TryCount THEN "error" ELSE "update"
  /\ UNCHANGED <<kind, mBlendingNoneIndex, lowFps, r, level, next>>

Updated(s) ==
  IF s.ret = "error" THEN r' = s /\ pc' = "error"
                     ELSE r' = assignWindow(s) /\ pc' = "assigned"

Finish ==
  /\ pc = "update"
  /\ Updated(updateClientComposition(updateExynosComposition(r)))
  /\ UNCHANGED <<kind, mBlendingNoneIndex, lowFps, tries, level, next>>

(* The G2D gets its job at once when earlyStartMPP is set; that may fail.  *)
startPostProcessing ==
  /\ pc = "assigned"
  /\ pc' \in {"done", "failed"}
  /\ UNCHANGED <<kind, mBlendingNoneIndex, lowFps, r, tries, level, next>>

(* validateDisplay() after an error: the client composes everything.       *)
Fallback ==
  /\ pc \in {"error", "failed"}
  /\ LET Give(s, l) == addClientCompositionLayer([s EXCEPT !.type[l] = "CLIENT"], l)
         cleared == initializeExynos(initializeClient(resetAssignedResources(r, TRUE)))
         given == Loop(Give, cleared, 0, LayerNum - 1)
     IN r' = assignWindow(assignCompositionTarget(given, Client))
  /\ pc' = "done"
  /\ UNCHANGED <<kind, mBlendingNoneIndex, lowFps, tries, level, next>>

Assign ==
  \/ AskedForClient
  \/ Try
  \/ AssignLayer
  \/ NextLevel
  \/ AssignExynosTarget
  \/ setResourcePriority
  \/ TestAgain
  \/ Finish
  \/ startPostProcessing
  \/ Fallback

(* Nothing of the assignment outlives the next first validate.             *)
Present ==
  /\ pc = "done"
  /\ kind' = [l \in Layer |-> CHOOSE k \in Kind : TRUE]
  /\ mBlendingNoneIndex' = -1
  /\ lowFps' = NoRange
  /\ r' = Fresh
  /\ tries' = 0
  /\ level' = PriorityMax
  /\ next' = 0
  /\ pc' = "idle"

Next == StartFrame \/ Assign \/ Present

Spec == Init /\ [][Next]_vars

-----------------------------------------------------------------------------
(* Properties.                                                             *)

Done == pc = "done"

(* x has an OTF MPP for itself and a window number.                        *)
Displayed(x) == r.otf[x] # None /\ r.users[r.otf[x]] = {x} /\ r.window[x] >= 0

(* The m2m MPPs get what they can do in a frame and nothing when they were *)
(* busy, and no OTF MPP has two sources.                                   *)
NothingOverloaded ==
  /\ Cardinality(M2mSources(r, Blending)) <= MaxSrcLayerNum
  /\ Cardinality(M2mSources(r, Single)) <= 1
  /\ Load({l \in Layer : r.m2m[l] \in M2m}) <= Capacity
  /\ \A o \in Otf : Cardinality(r.users[o]) <= 1
  /\ \A m \in r.busy : M2mSources(r, m) = {}

(* No two neighbours in Z order have high priority.  Two of them at the    *)
(* upper end of the G2D's range are trimmed by one only, because the trim  *)
(* walks upwards: TLC finds the next two properties violated with five     *)
(* layers, two such neighbours below one of the client's among them.       *)
HighApart == \A l \in Layer \ {0} : ~(High(l - 1) /\ High(l))

(* However often the assignment started over, in the end every layer       *)
(* reaches the screen, and no MPP is asked for more than it can do: by an  *)
(* MPP and a window of its own, or in a blended range whose target has     *)
(* them.  assignWindow() logs a range that is not there as an error and    *)
(* leaves its layers out.                                                  *)
EveryLayerShown ==
  Done => /\ NothingOverloaded
          /\ HighApart => \A l \in Layer :
               \/ r.type[l] = "DEVICE" /\ Displayed(l) /\ r.m2m[l] # Blending
               \/ r.type[l] = "CLIENT" /\ In(l, r.client) /\ Displayed(Client)
               \/ /\ r.type[l] = "EXYNOS" /\ r.m2m[l] = Blending
                  /\ In(l, r.exynos) /\ Displayed(Exynos)

(* What is blended into one window is contiguous in Z order, or the        *)
(* picture is wrong: a layer of another type inside a range has high       *)
(* priority and its own window ("handle sandwiched layers").               *)
BlendedIsContiguous ==
  Done /\ HighApart =>
    \A type \in {"CLIENT", "EXYNOS"}, l \in Layer :
      In(l, Blended(r, type)) /\ r.type[l] # type
        => High(l) /\ r.type[l] = "DEVICE" /\ type = "CLIENT"

(* The decisions converge: validateDisplay() never has to fall back to the *)
(* client because assignResource() gave up or found itself inconsistent.   *)
NeverGivesUp == pc # "error"

(* When the first try works out, no layer of high priority lost the MPP    *)
(* that could show it to one of lower priority.  A later try may do        *)
(* otherwise: layers that went to the client stay there, although the MPP  *)
(* they could not get in an earlier try may be free in this one.           *)
NoInversion ==
  Done /\ tries = 1 =>
    \A l, k \in Layer :
      /\ High(l) /\ r.type[l] = "CLIENT" /\ ~kind[l].client
      /\ kind[k].priority < kind[l].priority
      => r.otf[k] \notin kind[l].supports

(* What mWindowNumUsed and mMaxWindowNum are for.  TLC finds all three     *)
(* violated: a layer that keeps its type DEVICE from an earlier try is     *)
(* subtracted although resetAssignedResources() has started the count      *)
(* over; one that goes to the client because it lies below                 *)
(* mBlendingNoneIndex is not; and no window is asked for when the target   *)
(* of the G2D gets its MPP.                                                *)
Windows(s) ==
  Cardinality({l \in Layer : s.type[l] = "DEVICE"})
    + (IF s.client.has THEN 1 ELSE 0) + (IF s.exynos.has THEN 1 ELSE 0)

WindowsNeverNegative == r.windows >= 0
WindowsCounted == pc = "update" => r.windows = Windows(r)
WindowsFit == Done => Windows(r) <= MaxWindowNum
=============================================================================
