---------------------- MODULE ResourceAssignInv ----------------------
(***************************************************************************)
(* The inductive invariants of the resource assignment: Inv holds of every *)
(* frame, Good and Patient of frames whose layers of high priority are     *)
(* HighApart, and FirstTry of the first try.  ResourceAssign_proofs proves *)
(* them.  The sets at the end are invariants of loops.                     *)
(***************************************************************************)
EXTENDS ResourceAssign

-----------------------------------------------------------------------------
(* The assignment of resources, at any time.                               *)

LoadOf(k, S) ==
  LET Add(sum, l) == IF l \in S THEN sum + k[l].load ELSE sum
  IN Loop(Add, 0, 0, LayerNum - 1)

Types == {"INVALID", "CLIENT", "EXYNOS", "DEVICE"}

Assignment ==
  [type : [Layer -> Types], otf : [Source -> Otf \cup {None}],
   m2m : [Layer -> M2m \cup {None}], users : [Otf -> SUBSET Source],
   client : Ranges, exynos : Ranges, windows : Int, busy : SUBSET M2m,
   window : [Source -> Int], ret : Ret, moved : BOOLEAN]

(* An OTF MPP has one source at most, and a source with an OTF MPP has it  *)
(* for itself.                                                             *)
Owned(s) ==
  /\ \A o \in Otf : s.users[o] = {} \/ \E x \in Source : s.users[o] = {x}
  /\ \A x \in Source : s.otf[x] # None => s.users[s.otf[x]] = {x}

G2DSources(s) == {l \in Layer : s.m2m[l] \in M2m}

(* The G2D can do what it is asked for, with layers of the kinds k.        *)
Within(k, s) ==
  /\ Cardinality(M2mSources(s, Blending)) <= MaxSrcLayerNum
  /\ Cardinality(M2mSources(s, Single)) <= 1
  /\ LoadOf(k, G2DSources(s)) <= Capacity
  /\ \A m \in s.busy : M2mSources(s, m) = {}

Spanning(range) ==
  \/ range = NoRange
  \/ range.has /\ range.first \in Layer /\ range.last \in Layer /\ range.first <= range.last

(* addExynosCompositionLayer() moves the ends of the G2D's range about     *)
(* before it looks at the result; the rest holds all the time.             *)
Firm(k, s) == s \in Assignment /\ Owned(s) /\ Within(k, s)

Steady(k, s) ==
  s \in Assignment /\ Owned(s) /\ Within(k, s) /\ Spanning(s.client)

Sound(k, s) == Steady(k, s) /\ Spanning(s.exynos)

(* What the client and the display gave for the frame.                     *)
Given ==
  /\ kind \in [Layer -> Kind]
  /\ mBlendingNoneIndex \in -1 .. LayerNum - 1
  /\ lowFps \in Ranges

-----------------------------------------------------------------------------
(* The blended ranges and their layers.                                    *)

(* The sources of the blending MPP are the layers of the G2D, of low       *)
(* priority all of them and in its range.                                  *)
Blends(k, s) ==
  \A l \in Layer :
    /\ s.m2m[l] = Blending <=> s.type[l] = "EXYNOS"
    /\ s.type[l] = "EXYNOS" => k[l].priority < PriorityHigh /\ In(l, s.exynos)

(* The layers of the client, but for those of X, need no MPP and are in    *)
(* its range, which spans no other of low priority.                        *)
ClientHoldsBut(k, s, X) ==
  \A l \in Layer :
    /\ s.type[l] = "CLIENT" /\ l \notin X => In(l, s.client) /\ s.m2m[l] = None
    /\ In(l, s.client) /\ k[l].priority < PriorityHigh => s.type[l] = "CLIENT"

(* No layer is the G2D's or the client's but those that it holds.          *)
Settled(s) == Blends(kind, s) /\ ClientHoldsBut(kind, s, {})

(* Once the blending MPP was found busy no layer is the G2D's any more.    *)
Held(s) ==
  IF Blending \in s.busy THEN \A l \in Layer : s.type[l] # "EXYNOS" ELSE Settled(s)

(* A layer with the G2D as MPP of one source has a window of its own, and  *)
(* no layer that is still to come has it.                                  *)
Converts(s) == \A l \in Layer : s.m2m[l] = Single => s.type[l] = "DEVICE"

ToCome(lev, n) ==
  {l \in Layer : kind[l].priority < lev \/ (kind[l].priority = lev /\ l >= n)}

Pending(s, lev, n) == \A l \in ToCome(lev, n) : s.m2m[l] # Single

-----------------------------------------------------------------------------
(* assignResource() step by step. While a try lasts the assignment is      *)
(* sound and every blended layer is held by a range; the layers still to   *)
(* come do not have the G2D as MPP of one source, so that who has it has a *)
(* window of its own and loses it when the G2D is found busy.              *)

Trying == {"asked", "try", "layers", "target", "prioritize", "test"}

Inv ==
  /\ Given /\ Firm(kind, r)
  /\ tries \in 0 .. TryCount /\ level \in Priority /\ next \in 0 .. LayerNum
  /\ pc \in Trying \cup {"idle", "update", "assigned", "error", "failed", "done"}
  /\ pc \in Trying \cup {"update"} => Sound(kind, r)
  /\ pc \in Trying => tries < TryCount /\ Held(r)
  /\ pc = "asked" => \A l \in Layer : r.m2m[l] = None
  /\ pc \in {"layers", "target", "prioritize"} => Converts(r)
  /\ pc \in {"layers", "target"} => Pending(r, level, next)

-----------------------------------------------------------------------------
(* The ends of the ranges. While no two neighbours have high priority, a   *)
(* range of the G2D holds nothing but its layers, and the client's begins  *)
(* and ends with one of its layers.                                        *)

ClientEnds(s) ==
  s.client.has => s.type[s.client.first] = "CLIENT" /\ s.type[s.client.last] = "CLIENT"

Solid(s) == \A l \in Layer : In(l, s.exynos) => s.type[l] = "EXYNOS"

Neat(s) == Settled(s) /\ ClientEnds(s) /\ Solid(s)

Found(s, l) ==
  s.type[l] \in {"CLIENT", "EXYNOS"} \/ (s.type[l] = "DEVICE" /\ s.otf[l] # None)

Targeted(s) == s.client.has => s.otf[Client] # None

BothTargeted(s) == Targeted(s) /\ (s.exynos.has => s.otf[Exynos] # None)

-----------------------------------------------------------------------------
(* The course of the assignment, while no two neighbours have high         *)
(* priority: the ranges are neat, what was looked at has found something,  *)
(* and a range that is there has got its target when it was due.           *)

Course ==
  /\ pc \in Trying \cup {"update"} => Neat(r)
  /\ pc \in {"layers", "target", "prioritize", "update"} => r.ret = "ok" /\ Targeted(r)
  /\ pc \in {"prioritize", "update"} \/ (pc = "layers" /\ level < PriorityHigh)
       => BothTargeted(r)
  /\ pc \in {"layers", "target"} => \A l \in Layer \ ToCome(level, next) : Found(r, l)
  /\ pc \in {"prioritize", "update"} => \A l \in Layer : Found(r, l)
  /\ pc = "test" /\ r.ret # "changed" =>
       r.ret = "ok" /\ BothTargeted(r) /\ \A l \in Layer : Found(r, l)
  /\ pc = "asked" => r.ret # "error"

-----------------------------------------------------------------------------
(* The end of the frame.                                                   *)

(* What holds of an assignment in which every layer found something.       *)
Kept(s) ==
  /\ Sound(kind, s) /\ Settled(s) /\ Solid(s)
  /\ BothTargeted(s) /\ \A l \in Layer : Found(s, l)
  /\ s.ret # "error"

(* Each layer with a window of its own, and each target of a range that is *)
(* there, has its number.                                                  *)
Numbered(s) ==
  /\ \A l \in Layer : s.type[l] = "DEVICE" => s.window[l] >= 0
  /\ s.client.has => s.window[Client] >= 0
  /\ s.exynos.has => s.window[Exynos] >= 0

(* The assignment with its windows.                                        *)
Put(s) == Kept(s) /\ Numbered(s)

(* What assignResource() leaves, without the optimisation that extends the *)
(* range of the G2D by its neighbours.                                     *)
Presented == pc \in {"assigned", "done"} /\ ~useMaxG2DSrc => Put(r)

Good == HighApart => Course /\ Presented

-----------------------------------------------------------------------------
(* How often the assignment can start over. A try that ends with a change  *)
(* leaves a layer nearer to the client than before, or finds an MPP busy,  *)
(* or gives up the range of low frame rate; only the last two let layers   *)
(* come back.                                                              *)

OtherThan(s, types) == {l \in Layer : s.type[l] \notin types}

Spare(busy, low) ==
  (IF low.has THEN 2 * LayerNum + 1 ELSE 0)
    + (IF Blending \in busy THEN 0 ELSE LayerNum + 1)
    + (IF Single \in busy THEN 0 ELSE 1)

Left(s, low) ==
  Cardinality(OtherThan(s, {"CLIENT"})) + Cardinality(OtherThan(s, {"CLIENT", "EXYNOS"}))
    + Spare(s.busy, low)

MostTries == 5 * LayerNum + 3

Changed == pc = "test" /\ r.ret = "changed"

Counted ==
  pc \in Trying => tries + Left(r, lowFps) + (IF Changed THEN 1 ELSE 0) <= MostTries

Patient == HighApart => Counted /\ pc # "error"

-----------------------------------------------------------------------------
(* No inversion in the first try. A layer of high priority goes to the     *)
(* client when no window is left, and then none of lower priority gets one *)
(* either; or when all OTF MPPs that support it have their sources, and    *)
(* none of these has lower priority.                                       *)

(* Before it, the layers of high priority that are the client's are those  *)
(* that it asked for.                                                      *)
Untried(s) ==
  /\ ~s.exynos.has
  /\ \A l \in Layer : /\ s.type[l] \in {"INVALID", "CLIENT"}
                      /\ High(l) /\ s.type[l] = "CLIENT" => kind[l].client

Lost(s, l) == High(l) /\ s.type[l] = "CLIENT" /\ ~kind[l].client

Below(l) == {k \in Layer : kind[k].priority < kind[l].priority}

NoneFor(s, l) ==
  /\ NoWindowLeft(s)
  /\ \A k \in Below(l) : s.otf[k] = None /\ s.type[k] # "DEVICE"

AllTaken(s, l) ==
  \A o \in Otf \cap kind[l].supports :
    s.users[o] # {} /\ \A k \in Below(l) : s.otf[k] # o

Fair(s) == \A l \in Layer : Lost(s, l) => NoneFor(s, l) \/ AllTaken(s, l)

Ranked(s) ==
  \A l \in Layer : Lost(s, l) => \A k \in Below(l) : s.otf[k] \notin kind[l].supports

(* The layers still to come have got nothing yet.                          *)
Unseen(s, lev, n) == \A l \in ToCome(lev, n) : s.otf[l] = None /\ s.type[l] # "DEVICE"

-----------------------------------------------------------------------------
(* What is known during the first try. A second one begins with layers     *)
(* that the first has given to the client, and MPPs that they did not get. *)

LowFpsLow == \A l \in Layer : In(l, lowFps) => ~High(l)

Begun ==
  /\ pc = "asked" => r = Fresh
  /\ pc = "try" => Untried(r)
  /\ pc \in {"layers", "target", "prioritize"} => ~r.exynos.has /\ Fair(r)
  /\ pc \in {"layers", "target"} => Unseen(r, level, next)
  /\ pc = "test" /\ r.ret # "changed" => ~r.exynos.has /\ Fair(r)

Ended ==
  /\ pc = "update" => ~r.exynos.has /\ Fair(r)
  /\ pc \in {"assigned", "done"} => Ranked(r)

FirstTry == LowFpsLow /\ (tries = 0 => Begun) /\ (tries = 1 => Ended)

-----------------------------------------------------------------------------
(* What the loops keep up.                                                 *)

(* t gives no layer a window of its own, nor the G2D as MPP of one source; *)
(* none forgets what was found for it, and none of the client's is taken   *)
(* away from it.                                                           *)
Lets(s, t) ==
  \A l \in Layer :
    /\ t.m2m[l] = Single => s.m2m[l] = Single /\ t.type[l] = s.type[l]
    /\ t.type[l] = "DEVICE" => s.type[l] = "DEVICE" /\ t.otf[l] = s.otf[l]
    /\ t.type[l] = "INVALID" => s.type[l] = "INVALID"
    /\ s.type[l] = "CLIENT" => t.type[l] = "CLIENT"

(* The walk of addExynosCompositionLayer(), from a sound assignment s.     *)
Fine(s, t) ==
  /\ Sound(kind, t) /\ Lets(s, t)
  /\ Settled(s) => Settled(t)

Walk(s) ==
  {a \in [s : Assignment, invalid : BOOLEAN, changed : BOOLEAN, error : BOOLEAN] :
     Fine(s, a.s) /\ (Settled(s) => ~a.error)}

ExynosEnds(s) ==
  s.exynos.has => s.type[s.exynos.first] = "EXYNOS" /\ s.type[s.exynos.last] = "EXYNOS"

Shape(s) == Settled(s) /\ ClientEnds(s) /\ ExynosEnds(s)

(* Nothing happened to the targets of the blended ranges.                  *)
SameTargets(s, t) ==
  /\ t.client.has <=> s.client.has
  /\ t.exynos.has <=> s.exynos.has
  /\ t.otf[Client] = s.otf[Client] /\ t.otf[Exynos] = s.otf[Exynos]

(* The walk, while no two neighbours have high priority.                   *)
OnTheWay(s, a) ==
  /\ a \in Walk(s) /\ Shape(a.s) /\ a.s.busy = s.busy
  /\ \A x \in Layer : In(x, a.s.exynos) => In(x, s.exynos)
  /\ a.changed \/ SameTargets(s, a.s)

(* The layers that are added at the ends of the G2D's range.               *)
Extending == {a \in [s : Assignment, left : Int, on : BOOLEAN] : Sound(kind, a.s)}

(* The layers at the ends of the client's range that get a window of their *)
(* own after all.  The range may become empty meanwhile.                   *)
Keeping ==
  {a \in [s : Assignment, on : BOOLEAN] :
     Firm(kind, a.s) /\ a.s.client.last <= LayerNum - 1}

(* Once the client has no layer left, its target gives its MPP back: what  *)
(* is left of the fairness is that nobody of lower priority has an MPP     *)
(* that one of high priority could use.                                    *)
KeepingFair ==
  {a \in Keeping : Fair(a.s) \/ (~a.s.client.has /\ Ranked(a.s))}

(* What keeps a layer of the client's from a window of its own.            *)
Blocked(s, l) ==
  \/ kind[l].client \/ In(l, lowFps)
  \/ l <= mBlendingNoneIndex /\ ~High(l)
  \/ NoWindowLeft(s)
  \/ \A o \in Otf : o \in kind[l].supports => s.users[o] # {}

(* updateClientComposition() shortens the range from below until a layer   *)
(* has to stay the client's, and then from above.                          *)
FromBelow(first, last, n) ==
  {a \in [s : Assignment, on : BOOLEAN] :
     /\ Kept(a.s)
     /\ a.on => IF first + n <= last
                THEN /\ a.s.client.has /\ a.s.client.first = first + n
                     /\ a.s.client.last = last /\ a.s.type[last] = "CLIENT"
                ELSE ~a.s.client.has
     /\ ~a.on => /\ a.s.client.has /\ a.s.type[a.s.client.first] = "CLIENT"
                 /\ Blocked(a.s, a.s.client.first)}

FromAbove(first, top, n) ==
  {a \in [s : Assignment, on : BOOLEAN] :
     /\ Kept(a.s) /\ a.s.client.has
     /\ a.on => /\ a.s.client.first = first /\ a.s.client.last = top - n
                /\ a.s.type[first] = "CLIENT" /\ Blocked(a.s, first)
     /\ ~a.on => a.s.type[a.s.client.last] = "CLIENT"}

(* The sources below layer n have their windows, numbered by               *)
(* assignWindow().                                                         *)
NumberedTo(s, n) ==
  {a \in [s : Assignment, index : Nat] :
     /\ a.s.ret = s.ret
     /\ \A l \in Layer : l < n /\ s.type[l] = "DEVICE" => a.s.window[l] >= 0
     /\ s.client.has /\ s.client.last < n => a.s.window[Client] >= 0
     /\ s.exynos.has /\ s.exynos.last < n => a.s.window[Exynos] >= 0}

(* The layers below n are the client's, and no source has an MPP.          *)
GivenTo(n) ==
  {s \in Assignment :
     /\ Sound(kind, s) /\ ~s.exynos.has
     /\ \A o \in Otf : s.users[o] = {}
     /\ \A l \in Layer : s.m2m[l] = None
     /\ \A l \in Layer : l < n => s.type[l] = "CLIENT" /\ In(l, s.client)}

======================================================================
