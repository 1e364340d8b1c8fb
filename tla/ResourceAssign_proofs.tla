----------------------- MODULE ResourceAssign_proofs -----------------------
(***************************************************************************)
(* What holds of the resource assignment for any number of layers, kinds   *)
(* of layers and MPPs.                                                     *)
(***************************************************************************)
EXTENDS ResourceAssignInv, FiniteSetTheorems, WellFoundedInduction, TLAPS

-----------------------------------------------------------------------------
(* Induction over a bounded range of numbers, and the function a Loop is.  *)

(* Stated with a set, as the provers do not instantiate a predicate.       *)
LEMMA UpTo ==
  ASSUME NEW N \in Nat, NEW S, 0 \in S, \A n \in 1 .. N : n - 1 \in S => n \in S
  PROVE  0 .. N \subseteq S
<1> SUFFICES ASSUME (0 .. N) \ S # {} PROVE FALSE
  OBVIOUS
<1> DEFINE Less == {p \in Nat \X Nat : p[1] < p[2]}
<1>1. IsWellFoundedOn(Less, Nat)
  BY NatLessThanWellFounded DEF OpToRel
<1> HIDE DEF Less
<1>2. PICK x \in (0 .. N) \ S : \A y \in (0 .. N) \ S : <<y, x>> \notin Less
  <2>1. (0 .. N) \ S \subseteq Nat
    OBVIOUS
  <2>2. IsWellFoundedOn(Less, (0 .. N) \ S)
    BY <1>1, <2>1, IsWellFoundedOnSubset
  <2> QED
    BY <2>2, WFMin
<1>3. x \in 1 .. N /\ x - 1 \in 0 .. N /\ x - 1 < x
  OBVIOUS
<1>4. x - 1 \in (0 .. N) \ S
  BY <1>3
<1>5. <<x - 1, x>> \in Less
  BY <1>3 DEF Less
<1> QED
  BY <1>2, <1>4, <1>5

(* A step F that stays in a set, N times; g repeats it, beginning with s.  *)
Stays(F, N, S) == F \in [S \X (1 .. N) -> S]

Repeats(g, F, N, S, s) ==
  /\ g \in [0 .. N -> S]
  /\ g[0] = s
  /\ \A n \in 1 .. N : g[n] = F[<<g[n - 1], n>>]

LEMMA LoopFunction ==
  ASSUME NEW N \in Nat, NEW S, NEW s \in S, NEW F, Stays(F, N, S)
  PROVE  \E g : Repeats(g, F, N, S, s)
<1> DEFINE Up(m, g) == /\ g \in [0 .. m -> S] /\ g[0] = s
                       /\ \A n \in 1 .. m : g[n] = F[<<g[n - 1], n>>]
           Reached == {m \in 0 .. N : \E g : Up(m, g)}
<1>1. 0 \in Reached
  <2>1. Up(0, [k \in 0 .. 0 |-> s])
    OBVIOUS
  <2> HIDE DEF Up
  <2> QED
    BY <2>1
<1>2. ASSUME NEW m \in 1 .. N, m - 1 \in Reached
      PROVE  m \in Reached
  <2>1. PICK g : Up(m - 1, g)
    BY <1>2
  <2>0. F \in [S \X (1 .. N) -> S]
    BY DEF Stays
  <2> DEFINE h == [k \in 0 .. m |-> IF k = m THEN F[<<g[m - 1], m>>] ELSE g[k]]
  <2>2. F[<<g[m - 1], m>>] \in S
    BY <2>1, <2>0
  <2>3. h \in [0 .. m -> S] /\ h[0] = s
    BY <2>1, <2>2
  <2>4. ASSUME NEW n \in 1 .. m
        PROVE  h[n] = F[<<h[n - 1], n>>]
    <3>1. h[n - 1] = g[n - 1]
      OBVIOUS
    <3>2. CASE n = m
      <4>1. h[m] = F[<<g[m - 1], m>>]
        OBVIOUS
      <4> QED
        BY <3>1, <3>2, <4>1
    <3>3. CASE n # m
      <4>1. n \in 1 .. m - 1 /\ n \in 0 .. m
        BY <3>3
      <4>2. h[n] = g[n]
        BY <3>3, <4>1
      <4> HIDE DEF h
      <4> QED
        BY <2>1, <3>1, <4>1, <4>2
    <3> QED
      BY <3>2, <3>3
  <2>5. Up(m, h)
    <3> HIDE DEF h
    <3> QED
      BY <2>3, <2>4
  <2> HIDE DEF Up
  <2> QED
    BY <2>5
<1>3. N \in Reached
  <2> HIDE DEF Reached
  <2>1. 0 .. N \subseteq Reached
    BY <1>1, <1>2, UpTo
  <2> QED
    BY <2>1
<1> QED
  BY <1>3 DEF Repeats

(* Two functions that start alike and go on alike are alike.               *)
LEMMA SameLoop ==
  ASSUME NEW N \in Nat, NEW g, NEW h, h[0] = g[0],
         \A n \in 1 .. N : h[n - 1] = g[n - 1] => h[n] = g[n]
  PROVE  \A n \in 0 .. N : h[n] = g[n]
<1> DEFINE Same == {n \in 0 .. N : h[n] = g[n]}
<1>1. 0 \in Same
  OBVIOUS
<1>2. \A n \in 1 .. N : n - 1 \in Same => n \in Same
  OBVIOUS
<1> HIDE DEF Same
<1>3. 0 .. N \subseteq Same
  BY <1>1, <1>2, UpTo
<1> QED
  BY <1>3 DEF Same

(* The same, when each repetition leads from one set to the next.          *)
Leads(F, N, A) ==
  \A n \in 1 .. N : \A a \in A[n - 1] : F[<<a, n>>] \in A[n]

Follows(g, F, N, A, s) ==
  /\ g[0] = s
  /\ \A n \in 1 .. N : g[n] = F[<<g[n - 1], n>>]
  /\ \A n \in 0 .. N : g[n] \in A[n]

IsLoop(g, N) == g = [n \in 0 .. N |-> g[n]]

LEMMA LoopThrough ==
  ASSUME NEW N \in Nat, NEW A, NEW F, NEW s \in A[0], Leads(F, N, A)
  PROVE  \E g : IsLoop(g, N) /\ Follows(g, F, N, A, s)
<1>0. \A n \in 1 .. N : \A a \in A[n - 1] : F[<<a, n>>] \in A[n]
  BY DEF Leads
<1> DEFINE S == UNION {A[n] : n \in 0 .. N}
           G == [p \in S \X (1 .. N) |-> IF p[1] \in A[p[2] - 1] THEN F[p] ELSE s]
<1>1. s \in S /\ Stays(G, N, S)
  <2>1. s \in S /\ \A n \in 1 .. N : A[n] \subseteq S
    OBVIOUS
  <2>2. ASSUME NEW p \in S \X (1 .. N), p[1] \in A[p[2] - 1]
        PROVE  F[p] \in S
    <3>1. p = <<p[1], p[2]>> /\ p[2] \in 1 .. N
      OBVIOUS
    <3>2. F[<<p[1], p[2]>>] \in A[p[2]]
      BY <1>0, <2>2, <3>1
    <3> QED
      BY <2>1, <3>1, <3>2
  <2> HIDE DEF S
  <2> QED
    BY <2>1, <2>2 DEF Stays
<1>2. PICK g : Repeats(g, G, N, S, s)
  <2> HIDE DEF G, S
  <2> QED
    BY <1>1, LoopFunction
<1> DEFINE There == {n \in 0 .. N : g[n] \in A[n]}
<1>3. 0 \in There
  BY <1>2 DEF Repeats
<1>4. ASSUME NEW n \in 1 .. N, n - 1 \in There
      PROVE  g[n] = F[<<g[n - 1], n>>] /\ n \in There
  <2>1. g[n - 1] \in A[n - 1] /\ n - 1 \in 0 .. N
    BY <1>4
  <2>2. g[n] = G[<<g[n - 1], n>>] /\ g[n - 1] \in S
    <3> HIDE DEF G
    <3> QED
      BY <1>2, <2>1 DEF Repeats
  <2>3. G[<<g[n - 1], n>>] = F[<<g[n - 1], n>>]
    <3> HIDE DEF S
    <3> QED
      BY <2>1, <2>2
  <2> QED
    BY <1>0, <2>1, <2>2, <2>3
<1>5. 0 .. N \subseteq There
  <2> HIDE DEF There
  <2> QED
    BY <1>3, <1>4, UpTo
<1>6. IsLoop(g, N)
  <2> HIDE DEF S, G
  <2> QED
    BY <1>2 DEF Repeats, IsLoop
<1>7. g[0] = s
  <2> HIDE DEF S, G
  <2> QED
    BY <1>2 DEF Repeats
<1>8. \A n \in 1 .. N : g[n] = F[<<g[n - 1], n>>]
  BY <1>4, <1>5
<1> QED
  BY <1>5, <1>6, <1>7, <1>8 DEF Follows
-----------------------------------------------------------------------------
(* The load of the G2D.                                                    *)

LEMMA LoadSteps ==
  ASSUME NEW k \in [Layer -> Kind], NEW S
  PROVE  \E g \in [0 .. LayerNum -> Nat] :
           /\ g[0] = 0
           /\ \A n \in 1 .. LayerNum :
                g[n] = g[n - 1] + (IF n - 1 \in S THEN k[n - 1].load ELSE 0)
           /\ LoadOf(k, S) = g[LayerNum]
<1> DEFINE Add(sum, l) == IF l \in S THEN sum + k[l].load ELSE sum
           times == IF LayerNum - 1 < 0 THEN 0 ELSE LayerNum - 1 - 0 + 1
           Acc == Nat
           start == 0
           F == [p \in Acc \X (1 .. times) |-> Add(p[1], 0 + p[2] - 1)]
           Rec(f) == [n \in 0 .. times |->
                        IF n = 0 THEN start ELSE Add(f[n - 1], 0 + n - 1)]
           after == CHOOSE f : f = Rec(f)
<1>1. LoadOf(k, S) = after[times]
  BY DEF LoadOf, Loop
<1>2. times = LayerNum /\ times \in Nat
  BY ParametersOK
<1>3. ASSUME NEW sum \in Acc, NEW n \in 1 .. times
      PROVE  Add(sum, 0 + n - 1) \in Acc
  <2>1. 0 + n - 1 \in Layer
    BY <1>2 DEF Layer
  <2>2. k[0 + n - 1].load \in Nat
    BY <2>1, ParametersOK DEF KindOK
  <2> QED
    BY <2>2
<1>4. start \in Acc
  OBVIOUS
<1> HIDE DEF Add, times, Acc, start
<1>5. PICK g : Repeats(g, F, times, Acc, start)
  <2>1. Stays(F, times, Acc)
    BY <1>3 DEF Stays
  <2> HIDE DEF F
  <2> QED
    BY <1>2, <1>4, <2>1, LoopFunction
<1>6. ASSUME NEW n \in 1 .. times PROVE g[n] = Add(g[n - 1], 0 + n - 1)
  <2>1. g[n - 1] \in Acc /\ g[n] = F[<<g[n - 1], n>>]
    <3> HIDE DEF F
    <3> QED
      BY <1>2, <1>5 DEF Repeats
  <2> QED
    BY <2>1
<1> HIDE DEF F
<1>7. after = Rec(after)
  <2>1. g = Rec(g)
    <3>0. g \in [0 .. times -> Acc]
      BY <1>5 DEF Repeats
    <3>1. ASSUME NEW n \in 0 .. times
          PROVE  g[n] = IF n = 0 THEN start ELSE Add(g[n - 1], 0 + n - 1)
      BY <1>2, <1>5, <1>6 DEF Repeats
    <3> QED
      BY <3>0, <3>1
  <2> HIDE DEF Rec
  <2> QED
    BY <2>1
<1>8. \A n \in 0 .. times : after[n] = g[n]
  <2> HIDE DEF after
  <2>1. after[0] = g[0]
    BY <1>2, <1>5, <1>7 DEF Repeats
  <2>2. \A n \in 1 .. times : after[n] = Add(after[n - 1], 0 + n - 1)
    BY <1>2, <1>7
  <2>3. \A n \in 1 .. times : after[n - 1] = g[n - 1] => after[n] = g[n]
    BY <1>6, <2>2
  <2> QED
    BY <1>2, <2>1, <2>3, SameLoop
<1> HIDE DEF after
<1>9. \A n \in 1 .. times : Add(g[n - 1], 0 + n - 1) =
         g[n - 1] + (IF n - 1 \in S THEN k[n - 1].load ELSE 0)
  BY <1>2, <1>5 DEF Repeats, Add, Acc
<1> QED
  BY <1>1, <1>2, <1>5, <1>6, <1>8, <1>9 DEF Repeats, Acc, start

(* What is loaded counts, and one source more adds no more than its load.  *)
LEMMA LoadBounds ==
  ASSUME NEW k \in [Layer -> Kind], NEW S, NEW T, S \subseteq T
  PROVE  LoadOf(k, S) \in Nat /\ LoadOf(k, S) <= LoadOf(k, T)
<1>1. PICK g \in [0 .. LayerNum -> Nat] :
        /\ g[0] = 0
        /\ \A n \in 1 .. LayerNum :
             g[n] = g[n - 1] + (IF n - 1 \in S THEN k[n - 1].load ELSE 0)
        /\ LoadOf(k, S) = g[LayerNum]
  BY LoadSteps
<1>2. PICK h \in [0 .. LayerNum -> Nat] :
        /\ h[0] = 0
        /\ \A n \in 1 .. LayerNum :
             h[n] = h[n - 1] + (IF n - 1 \in T THEN k[n - 1].load ELSE 0)
        /\ LoadOf(k, T) = h[LayerNum]
  BY LoadSteps
<1> DEFINE Smaller == {n \in 0 .. LayerNum : g[n] <= h[n]}
<1>3. LayerNum \in Nat
  BY ParametersOK
<1>4. 0 \in Smaller
  BY <1>1, <1>2, <1>3
<1>5. ASSUME NEW n \in 1 .. LayerNum, n - 1 \in Smaller
      PROVE  n \in Smaller
  <2>1. n - 1 \in Layer /\ n - 1 \in 0 .. LayerNum /\ n \in 0 .. LayerNum
    BY <1>3 DEF Layer
  <2>2. k[n - 1].load \in Nat
    BY <2>1, ParametersOK DEF KindOK
  <2>3. g[n - 1] \in Nat /\ h[n - 1] \in Nat /\ g[n - 1] <= h[n - 1]
    BY <1>5, <2>1
  <2>4. g[n] = g[n - 1] + (IF n - 1 \in S THEN k[n - 1].load ELSE 0)
    BY <1>1
  <2>5. h[n] = h[n - 1] + (IF n - 1 \in T THEN k[n - 1].load ELSE 0)
    BY <1>2
  <2>6. g[n] <= h[n]
    BY <2>2, <2>3, <2>4, <2>5
  <2> QED
    BY <2>1, <2>6
<1>6. 0 .. LayerNum \subseteq Smaller
  <2> HIDE DEF Smaller
  <2> QED
    BY <1>3, <1>4, <1>5, UpTo
<1>7. LayerNum \in Smaller
  BY <1>3, <1>6
<1> QED
  BY <1>1, <1>2, <1>3, <1>7

LEMMA LoadOneMore ==
  ASSUME NEW k \in [Layer -> Kind], NEW S, NEW l \in Layer
  PROVE  LoadOf(k, S \cup {l}) <= LoadOf(k, S) + k[l].load
<1>1. PICK g \in [0 .. LayerNum -> Nat] :
        /\ g[0] = 0
        /\ \A n \in 1 .. LayerNum :
             g[n] = g[n - 1] + (IF n - 1 \in S THEN k[n - 1].load ELSE 0)
        /\ LoadOf(k, S) = g[LayerNum]
  BY LoadSteps
<1> DEFINE T == S \cup {l}
<1> HIDE DEF T
<1>2. PICK h \in [0 .. LayerNum -> Nat] :
        /\ h[0] = 0
        /\ \A n \in 1 .. LayerNum :
             h[n] = h[n - 1] + (IF n - 1 \in T THEN k[n - 1].load ELSE 0)
        /\ LoadOf(k, T) = h[LayerNum]
  BY LoadSteps
<1> DEFINE more(n) == IF l < n THEN k[l].load ELSE 0
           Smaller == {n \in 0 .. LayerNum : h[n] <= g[n] + more(n)}
<1>3. LayerNum \in Nat /\ l \in 0 .. LayerNum - 1 /\ k[l].load \in Nat
  BY ParametersOK DEF Layer, KindOK
<1>4. 0 \in Smaller
  BY <1>1, <1>2, <1>3
<1>5. ASSUME NEW n \in 1 .. LayerNum, n - 1 \in Smaller
      PROVE  n \in Smaller
  <2>1. n - 1 \in Layer /\ n - 1 \in 0 .. LayerNum /\ n \in 0 .. LayerNum
    BY <1>3 DEF Layer
  <2>2. k[n - 1].load \in Nat
    BY <2>1, ParametersOK DEF KindOK
  <2>3. g[n - 1] \in Nat /\ h[n - 1] \in Nat /\ h[n - 1] <= g[n - 1] + more(n - 1)
    BY <1>5, <2>1
  <2>4. g[n] = g[n - 1] + (IF n - 1 \in S THEN k[n - 1].load ELSE 0)
    BY <1>1
  <2>5. h[n] = h[n - 1] + (IF n - 1 \in T THEN k[n - 1].load ELSE 0)
    BY <1>2
  <2>6. CASE n - 1 = l
    <3>1. more(n) = k[l].load /\ more(n - 1) = 0
      BY <1>3, <2>6
    <3>2. k[n - 1].load = k[l].load /\ k[l].load \in Nat
      BY <1>3, <2>6
    <3> HIDE DEF more
    <3>3. h[n] = h[n - 1] + k[l].load \/ h[n] = h[n - 1]
      BY <2>3, <2>5, <3>2
    <3>4. g[n] = g[n - 1] + k[l].load \/ g[n] = g[n - 1]
      BY <2>3, <2>4, <3>2
    <3>5. h[n - 1] <= g[n - 1] /\ g[n - 1] \in Nat /\ h[n - 1] \in Nat
      BY <2>3, <3>1
    <3>6. h[n] <= g[n] + k[l].load
      BY <3>2, <3>3, <3>4, <3>5
    <3> QED
      BY <2>1, <3>1, <3>6
  <2>7. CASE n - 1 # l
    <3>1. n - 1 \in T <=> n - 1 \in S
      BY <2>7 DEF T
    <3>2. more(n) = more(n - 1)
      BY <1>3, <2>7
    <3> HIDE DEF more
    <3>3. more(n - 1) \in Nat
      BY <1>3 DEF more
    <3> QED
      BY <2>1, <2>2, <2>3, <2>4, <2>5, <3>1, <3>2, <3>3
  <2> QED
    BY <2>6, <2>7
<1>6. 0 .. LayerNum \subseteq Smaller
  <2> HIDE DEF Smaller
  <2> QED
    BY <1>3, <1>4, <1>5, UpTo
<1>7. h[LayerNum] <= g[LayerNum] + k[l].load
  BY <1>3, <1>6
<1> QED
  BY <1>1, <1>2, <1>7 DEF T

-----------------------------------------------------------------------------
(* What holds of an assignment at every step.                              *)

LEMMA LayersFinite == \A S \in SUBSET Layer : IsFiniteSet(S) /\ Cardinality(S) \in Nat
<1>1. IsFiniteSet(Layer)
  BY ParametersOK, FS_Interval DEF Layer
<1> QED
  BY <1>1, FS_Subset, FS_CardinalityType

LEMMA NotMPPs ==
  /\ None \notin Otf /\ None \notin M2m
  /\ Single # Blending /\ Single \in M2m /\ Blending \in M2m
  BY ParametersOK DEF M2m

(* Who only takes sources away from the G2D overloads nothing.             *)
LEMMA TakenAway ==
  ASSUME NEW k \in [Layer -> Kind], NEW s \in Assignment, NEW t, Within(k, s),
         t.busy = s.busy, \A l \in Layer : t.m2m[l] \in {s.m2m[l], None}
  PROVE  Within(k, t)
<1>1. \A m \in M2m : M2mSources(t, m) \subseteq M2mSources(s, m)
  BY NotMPPs DEF M2mSources
<1>2. G2DSources(t) \subseteq G2DSources(s)
  BY NotMPPs DEF G2DSources
<1>3. \A m \in M2m : Cardinality(M2mSources(t, m)) <= Cardinality(M2mSources(s, m))
  <2> TAKE m \in M2m
  <2>1. M2mSources(s, m) \in SUBSET Layer
    BY DEF M2mSources
  <2> QED
    BY <1>1, <2>1, LayersFinite, FS_Subset
<1>4. LoadOf(k, G2DSources(t)) <= LoadOf(k, G2DSources(s))
  BY <1>2, LoadBounds
<1>5. \A m \in t.busy : M2mSources(t, m) = {}
  <2>1. s.busy \subseteq M2m
    BY DEF Assignment
  <2> QED
    BY <1>1, <2>1 DEF Within
<1>6. \A m \in M2m : Cardinality(M2mSources(t, m)) \in Nat /\ Cardinality(M2mSources(s, m)) \in Nat
  BY LayersFinite DEF M2mSources
<1>7. LoadOf(k, G2DSources(t)) \in Nat /\ LoadOf(k, G2DSources(s)) \in Nat
  BY LoadBounds
<1>8. Capacity \in Nat /\ MaxSrcLayerNum \in Nat
  BY ParametersOK
<1> QED
  BY <1>3, <1>4, <1>5, <1>6, <1>7, <1>8, NotMPPs DEF Within

(* Nor does one source more that isAssignable() was asked about.           *)
LEMMA OneSourceMore ==
  ASSUME kind \in [Layer -> Kind], NEW s \in Assignment, NEW t, NEW l, NEW m \in M2m,
         Within(kind, s), m2mAssignable(s, m), hasEnoughCapa(s, l),
         t.busy = s.busy, l \in Layer => t.m2m[l] = m,
         \A x \in Layer \ {l} : t.m2m[x] \in {s.m2m[x], None}
  PROVE  Within(kind, t)
<1>1. CASE l \notin Layer
  BY <1>1, TakenAway
<1>2. CASE l \in Layer
  <2>1. \A n \in M2m : M2mSources(t, n) \subseteq M2mSources(s, n) \cup (IF n = m THEN {l} ELSE {})
    BY <1>2, NotMPPs DEF M2mSources
  <2>2. \A n \in M2m : /\ M2mSources(s, n) \in SUBSET Layer
                       /\ Cardinality(M2mSources(s, n)) \in Nat
                       /\ Cardinality(M2mSources(t, n)) \in Nat
    BY LayersFinite DEF M2mSources
  <2>3. \A n \in M2m \ {m} : Cardinality(M2mSources(t, n)) <= Cardinality(M2mSources(s, n))
    BY <2>1, <2>2, LayersFinite, FS_Subset
  <2>4. Cardinality(M2mSources(t, m)) <= Cardinality(M2mSources(s, m)) + 1
    <3> DEFINE more == M2mSources(s, m) \cup {l}
    <3>1. M2mSources(t, m) \subseteq more
      BY <2>1
    <3>2. IsFiniteSet(M2mSources(s, m)) /\ IsFiniteSet(more) /\ more \in SUBSET Layer
      BY <1>2, <2>2, LayersFinite
    <3>3. Cardinality(M2mSources(t, m)) <= Cardinality(more)
      BY <3>1, <3>2, FS_Subset
    <3>4. Cardinality(more) <= Cardinality(M2mSources(s, m)) + 1
      BY <2>2, <3>2, FS_AddElement
    <3>5. Cardinality(more) \in Nat
      BY <3>2, LayersFinite
    <3> HIDE DEF more
    <3> QED
      BY <2>2, <3>3, <3>4, <3>5
  <2>5. LoadOf(kind, G2DSources(t)) <= Capacity
    <3>1. G2DSources(t) \subseteq G2DSources(s) \cup {l}
      BY <1>2, NotMPPs DEF G2DSources
    <3>2. LoadOf(kind, G2DSources(t)) <= LoadOf(kind, G2DSources(s) \cup {l})
      BY <3>1, LoadBounds
    <3>3. LoadOf(kind, G2DSources(s) \cup {l}) <= LoadOf(kind, G2DSources(s)) + kind[l].load
      BY <1>2, LoadOneMore
    <3>4. LoadOf(kind, G2DSources(s)) + kind[l].load <= Capacity
      BY DEF hasEnoughCapa, Load, LoadOf, G2DSources
    <3>5. /\ LoadOf(kind, G2DSources(t)) \in Nat
          /\ LoadOf(kind, G2DSources(s) \cup {l}) \in Nat
          /\ LoadOf(kind, G2DSources(s)) \in Nat
      BY LoadBounds
    <3>6. kind[l].load \in Nat /\ Capacity \in Nat
      BY <1>2, ParametersOK DEF KindOK
    <3> QED
      BY <3>2, <3>3, <3>4, <3>5, <3>6
  <2>6. \A n \in t.busy : M2mSources(t, n) = {}
    <3>1. s.busy \subseteq M2m /\ m \notin s.busy
      BY DEF Assignment, m2mAssignable
    <3> QED
      BY <2>1, <3>1 DEF Within
  <2>7. Cardinality(M2mSources(s, m)) < IF m = Blending THEN MaxSrcLayerNum ELSE 1
    BY DEF m2mAssignable
  <2>8. MaxSrcLayerNum \in Nat
    BY ParametersOK
  <2>9. Cardinality(M2mSources(t, Blending)) <= MaxSrcLayerNum
    <3>1. CASE m = Blending
      BY <2>2, <2>4, <2>7, <2>8, <3>1
    <3>2. CASE m # Blending
      <4>1. Cardinality(M2mSources(t, Blending)) <= Cardinality(M2mSources(s, Blending))
        BY <2>3, <3>2, NotMPPs
      <4> QED
        BY <2>2, <2>8, <4>1, NotMPPs DEF Within
    <3> QED
      BY <3>1, <3>2
  <2>10. Cardinality(M2mSources(t, Single)) <= 1
    <3>1. CASE m = Single
      BY <2>2, <2>4, <2>7, <3>1, NotMPPs
    <3>2. CASE m # Single
      <4>1. Cardinality(M2mSources(t, Single)) <= Cardinality(M2mSources(s, Single))
        BY <2>3, <3>2, NotMPPs
      <4> QED
        BY <2>2, <4>1, NotMPPs DEF Within
    <3> QED
      BY <3>1, <3>2
  <2> QED
    BY <2>5, <2>6, <2>9, <2>10 DEF Within
<1> QED
  BY <1>1, <1>2

(* Sources that lose their MPP, and MPPs that lose their source.           *)
LEMMA Freed ==
  ASSUME NEW s \in Assignment, NEW t \in Assignment, Owned(s),
         \A o \in Otf : t.users[o] \in {s.users[o], {}},
         \A x \in Source : t.otf[x] # None =>
           t.otf[x] = s.otf[x] /\ t.users[t.otf[x]] = s.users[t.otf[x]]
  PROVE  Owned(t)
BY DEF Owned

-----------------------------------------------------------------------------
(* The operators on an assignment, one after the other: what they leave    *)
(* sound, and what of the layers they leave alone.                         *)

(* t is s, but for the windows, what was returned and the ranges.          *)
SameResources(s, t) ==
  t.type = s.type /\ t.otf = s.otf /\ t.m2m = s.m2m /\ t.users = s.users /\ t.busy = s.busy

LEMMA SameFirm ==
  ASSUME NEW k \in [Layer -> Kind], NEW s, NEW t \in Assignment,
         Firm(k, s), SameResources(s, t)
  PROVE  Firm(k, t)
<1>1. Owned(t)
  BY DEF Firm, Owned, SameResources
<1>2. Within(k, t)
  BY TakenAway DEF Firm, SameResources
<1> QED
  BY <1>1, <1>2 DEF Firm

LEMMA SameSteady ==
  ASSUME NEW k \in [Layer -> Kind], NEW s, NEW t \in Assignment,
         Steady(k, s), SameResources(s, t), Spanning(t.client)
  PROVE  Steady(k, t)
BY SameFirm DEF Firm, Steady

LEMMA ResetStateFirm ==
  ASSUME NEW k \in [Layer -> Kind], NEW s, NEW o, Firm(k, s)
  PROVE  LET t == resetAssignedState(s, o)
         IN  /\ Firm(k, t)
             /\ t.type = s.type /\ t.m2m = s.m2m /\ t.busy = s.busy
             /\ t.client = s.client /\ t.exynos = s.exynos
             /\ o \in Otf => t.users[o] = {}
             /\ \A p \in Otf \ {o} : t.users[p] = s.users[p]
<1> DEFINE t == resetAssignedState(s, o)
<1>1. s \in Assignment /\ Owned(s) /\ Within(k, s)
  BY DEF Firm
<1>2. t \in Assignment
  BY <1>1 DEF Assignment, resetAssignedState
<1>3. /\ t.type = s.type /\ t.m2m = s.m2m /\ t.busy = s.busy
      /\ t.client = s.client /\ t.exynos = s.exynos
      /\ o \in Otf => t.users[o] = {}
      /\ \A p \in Otf \ {o} : t.users[p] = s.users[p]
      /\ \A x \in Source : t.otf[x] = IF s.otf[x] = o THEN None ELSE s.otf[x]
  BY <1>1 DEF Assignment, resetAssignedState
<1> HIDE DEF t
<1>4. Owned(t)
  <2>1. \A x \in Source : s.otf[x] \in Otf \cup {None}
    BY <1>1 DEF Assignment
  <2> QED
    BY <1>1, <1>2, <1>3, <2>1, Freed
<1>5. Within(k, t)
  BY <1>1, <1>3, TakenAway
<1> QED
  BY <1>1, <1>2, <1>3, <1>4, <1>5 DEF Firm, t

LEMMA ResetStateSteady ==
  ASSUME NEW k \in [Layer -> Kind], NEW s, NEW o, Steady(k, s)
  PROVE  LET t == resetAssignedState(s, o)
         IN  /\ Steady(k, t)
             /\ t.type = s.type /\ t.m2m = s.m2m /\ t.busy = s.busy
             /\ t.client = s.client /\ t.exynos = s.exynos
             /\ o \in Otf => t.users[o] = {}
             /\ \A p \in Otf \ {o} : t.users[p] = s.users[p]
<1>1. Firm(k, s) /\ Spanning(s.client) /\ Spanning(NoRange)
  BY DEF Steady, Firm, Spanning
<1> QED
  BY <1>1, ResetStateFirm DEF Steady, Firm

LEMMA ResetResourceSteady ==
  ASSUME NEW k \in [Layer -> Kind], NEW s, NEW L \in SUBSET Layer, Steady(k, s)
  PROVE  LET t == resetAssignedResource(s, L)
         IN  /\ Steady(k, t)
             /\ t.type = s.type /\ t.busy = s.busy
             /\ t.client = s.client /\ t.exynos = s.exynos
             /\ t.windows = s.windows /\ t.window = s.window
             /\ \A l \in Layer : t.m2m[l] = IF l \in L THEN None ELSE s.m2m[l]
             /\ \A x \in Source \ L : t.otf[x] = s.otf[x]
<1> DEFINE t == resetAssignedResource(s, L)
           left == {s.otf[l] : l \in L} \ {None}
<1>1. s \in Assignment /\ Owned(s) /\ Within(k, s) /\ Spanning(s.client)
  BY DEF Steady
<1>2. /\ t.users = [o \in Otf |-> IF o \in left THEN {} ELSE s.users[o]]
      /\ t.otf = [x \in Source |-> IF s.otf[x] \in left THEN None ELSE s.otf[x]]
      /\ t.m2m = [l \in Layer |-> IF l \in L THEN None ELSE s.m2m[l]]
      /\ t.type = s.type /\ t.busy = s.busy
      /\ t.client = s.client /\ t.exynos = s.exynos
      /\ t.windows = s.windows /\ t.window = s.window
  BY <1>1 DEF Assignment, resetAssignedResource
<1> HIDE DEF left
<1>3. t \in Assignment
  BY <1>1 DEF Assignment, resetAssignedResource
<1> HIDE DEF t
<1>4. Owned(t)
  BY <1>1, <1>2, <1>3, Freed DEF Assignment
<1>5. Within(k, t)
  BY <1>1, <1>2, TakenAway
<1>6. ASSUME NEW x \in Source \ L
      PROVE  t.otf[x] = s.otf[x]
  <2>1. ASSUME s.otf[x] \in left PROVE FALSE
    <3>1. PICK l \in L : s.otf[l] = s.otf[x] /\ s.otf[x] # None
      BY <2>1 DEF left
    <3>2. l \in Source
      BY DEF Source
    <3>3. s.users[s.otf[x]] = {x} /\ s.users[s.otf[l]] = {l}
      BY <1>1, <3>1, <3>2 DEF Owned
    <3> QED
      BY <3>1, <3>3
  <2> QED
    BY <1>2, <2>1
<1> QED
  BY <1>1, <1>2, <1>3, <1>4, <1>5, <1>6 DEF Steady, t

LEMMA AssignOtfFirm ==
  ASSUME NEW k \in [Layer -> Kind], NEW s, NEW o \in Otf, NEW x \in Source,
         Firm(k, s), s.users[o] = {}
  PROVE  LET t == assignOtf(s, o, x)
         IN  /\ Firm(k, t)
             /\ t.type = s.type /\ t.m2m = s.m2m /\ t.busy = s.busy
             /\ t.client = s.client /\ t.exynos = s.exynos
             /\ t.otf[x] = o
<1> DEFINE t == assignOtf(s, o, x)
<1>1. s \in Assignment /\ Owned(s) /\ Within(k, s)
  BY DEF Firm
<1>2. /\ t.users = [s.users EXCEPT ![o] = {x}]
      /\ t.otf = [s.otf EXCEPT ![x] = o]
      /\ t.type = s.type /\ t.m2m = s.m2m /\ t.busy = s.busy
      /\ t.client = s.client /\ t.exynos = s.exynos
  BY <1>1 DEF Assignment, assignOtf
<1>3. t \in Assignment
  BY <1>1 DEF Assignment, assignOtf
<1>4. s.users \in [Otf -> SUBSET Source] /\ s.otf \in [Source -> Otf \cup {None}]
  BY <1>1 DEF Assignment
<1> HIDE DEF t
<1>5. Owned(t)
  <2>1. ASSUME NEW p \in Otf
        PROVE  t.users[p] = {} \/ \E y \in Source : t.users[p] = {y}
    BY <1>1, <1>2, <1>4 DEF Owned
  <2>2. ASSUME NEW y \in Source, t.otf[y] # None
        PROVE  t.users[t.otf[y]] = {y}
    <3>1. CASE y = x
      BY <1>2, <1>4, <3>1
    <3>2. CASE y # x
      <4>1. t.otf[y] = s.otf[y] /\ s.users[s.otf[y]] = {y} /\ s.otf[y] \in Otf
        BY <1>1, <1>2, <1>4, <2>2, <3>2 DEF Owned
      <4> QED
        BY <1>2, <1>4, <4>1
    <3> QED
      BY <3>1, <3>2
  <2> QED
    BY <2>1, <2>2 DEF Owned
<1>6. Within(k, t)
  BY <1>1, <1>2, TakenAway
<1>7. t.otf[x] = o
  BY <1>2, <1>4
<1> QED
  BY <1>1, <1>2, <1>3, <1>5, <1>6, <1>7 DEF Firm, t

LEMMA AssignOtfSteady ==
  ASSUME NEW k \in [Layer -> Kind], NEW s, NEW o \in Otf, NEW x \in Source,
         Steady(k, s), s.users[o] = {}
  PROVE  LET t == assignOtf(s, o, x)
         IN  /\ Steady(k, t)
             /\ t.type = s.type /\ t.m2m = s.m2m /\ t.busy = s.busy
             /\ t.client = s.client /\ t.exynos = s.exynos
             /\ t.otf[x] = o
<1>1. Firm(k, s) /\ Spanning(s.client) /\ Spanning(NoRange)
  BY DEF Steady, Firm, Spanning
<1> QED
  BY <1>1, AssignOtfFirm DEF Steady, Firm

LEMMA LeastOne ==
  ASSUME NEW S \in SUBSET Nat, S # {}
  PROVE  Min(S) \in S /\ \A y \in S : Min(S) <= y
<1> DEFINE Less == {p \in Nat \X Nat : p[1] < p[2]}
<1>1. IsWellFoundedOn(Less, Nat)
  BY NatLessThanWellFounded DEF OpToRel
<1> HIDE DEF Less
<1>2. PICK x \in S : \A y \in S : <<y, x>> \notin Less
  <2>1. IsWellFoundedOn(Less, S)
    BY <1>1, IsWellFoundedOnSubset
  <2> QED
    BY <2>1, WFMin
<1>3. ASSUME NEW y \in S
      PROVE  x <= y
  <2>1. x \in Nat /\ y \in Nat
    OBVIOUS
  <2>2. CASE y < x
    <3>1. <<y, x>> \in Less
      BY <2>1, <2>2 DEF Less
    <3> QED
      BY <1>2, <3>1
  <2> QED
    BY <2>1, <2>2
<1> QED
  BY <1>3 DEF Min

LEMMA GreatestLayer ==
  ASSUME NEW S \in SUBSET Layer, S # {}
  PROVE  Max(S) \in S /\ \A y \in S : y <= Max(S)
<1> DEFINE N == LayerNum - 1
           T == {N - x : x \in S}
<1>1. N \in Nat /\ Layer = 0 .. N
  BY ParametersOK DEF Layer
<1>2. T \in SUBSET Nat /\ T # {} /\ \A y \in S : N - y \in T
  <2>1. \A x \in S : N - x \in Nat
    BY <1>1
  <2> HIDE DEF N
  <2> QED
    BY <2>1
<1>3. Min(T) \in T /\ \A y \in T : Min(T) <= y
  BY <1>2, LeastOne
<1>4. PICK x \in S : Min(T) = N - x
  BY <1>3
<1>5. ASSUME NEW y \in S
      PROVE  y <= x
  <2>1. N - x <= N - y
    BY <1>2, <1>3, <1>4
  <2>2. N \in Nat /\ x \in 0 .. N /\ y \in 0 .. N
    BY <1>1
  <2> HIDE DEF N
  <2> QED
    BY <2>1, <2>2
<1> QED
  BY <1>5 DEF Max

LEMMA LetsAgain ==
  ASSUME NEW s, NEW t, NEW u, Lets(s, t), Lets(t, u)
  PROVE  Lets(s, u)
BY DEF Lets

LEMMA InitializeFirm ==
  ASSUME NEW k \in [Layer -> Kind], NEW s, Firm(k, s)
  PROVE  LET c == initializeClient(s)
             e == initializeExynos(s)
         IN  /\ Firm(k, c) /\ c.client = NoRange /\ c.exynos = s.exynos
             /\ c.type = s.type /\ c.m2m = s.m2m /\ c.busy = s.busy /\ Lets(s, c)
             /\ Firm(k, e) /\ e.client = s.client /\ e.exynos = NoRange
             /\ e.type = s.type /\ e.m2m = s.m2m /\ e.busy = s.busy /\ Lets(s, e)
<1> DEFINE c == initializeClient(s)
           e == initializeExynos(s)
<1>1. s \in Assignment /\ Owned(s) /\ Within(k, s)
  BY DEF Firm
<1>2. NoRange \in Ranges /\ Spanning(NoRange) /\ ~NoRange.has
  BY DEF NoRange, Ranges, Spanning
<1>0. -1 \in Int
  OBVIOUS
<1>3. c \in Assignment /\ e \in Assignment
  <2>1. /\ [s.otf EXCEPT ![Client] = None] \in [Source -> Otf \cup {None}]
        /\ [s.otf EXCEPT ![Exynos] = None] \in [Source -> Otf \cup {None}]
        /\ [s.window EXCEPT ![Client] = -1] \in [Source -> Int]
        /\ [s.window EXCEPT ![Exynos] = -1] \in [Source -> Int]
    BY <1>0, <1>1 DEF Assignment
  <2>2. c \in Assignment
    BY <1>1, <1>2, <2>1 DEF Assignment, initializeClient
  <2>3. e \in Assignment
    BY <1>1, <1>2, <2>1 DEF Assignment, initializeExynos
  <2> QED
    BY <2>2, <2>3
<1>4. /\ c.client = NoRange /\ c.exynos = s.exynos
      /\ c.type = s.type /\ c.m2m = s.m2m /\ c.busy = s.busy /\ c.users = s.users
      /\ c.otf = [s.otf EXCEPT ![Client] = None]
      /\ e.client = s.client /\ e.exynos = NoRange
      /\ e.type = s.type /\ e.m2m = s.m2m /\ e.busy = s.busy /\ e.users = s.users
      /\ e.otf = [s.otf EXCEPT ![Exynos] = None]
  BY <1>1 DEF Assignment, initializeClient, initializeExynos
<1>5. s.otf \in [Source -> Otf \cup {None}]
  BY <1>1 DEF Assignment
<1> HIDE DEF c, e
<1>6. Owned(c) /\ Owned(e)
  BY <1>1, <1>3, <1>4, <1>5, Freed
<1>7. Within(k, c) /\ Within(k, e)
  BY <1>1, <1>4, TakenAway
<1>8. Lets(s, c) /\ Lets(s, e)
  <2>1. \A l \in Layer : l \in Source /\ l # Client /\ l # Exynos
    BY DEF Layer, Source, Client, Exynos
  <2> QED
    BY <1>4, <1>5, <2>1 DEF Lets
<1> QED
  BY <1>1, <1>2, <1>3, <1>4, <1>6, <1>7, <1>8 DEF Firm, c, e

LEMMA InitializeSteady ==
  ASSUME NEW k \in [Layer -> Kind], NEW s, Steady(k, s)
  PROVE  LET c == initializeClient(s)
             e == initializeExynos(s)
         IN  /\ Steady(k, c) /\ c.client = NoRange /\ c.exynos = s.exynos
             /\ c.type = s.type /\ c.m2m = s.m2m /\ c.busy = s.busy /\ Lets(s, c)
             /\ Steady(k, e) /\ e.client = s.client /\ e.exynos = NoRange
             /\ e.type = s.type /\ e.m2m = s.m2m /\ e.busy = s.busy /\ Lets(s, e)
             /\ Sound(k, e)
<1>1. Firm(k, s) /\ Spanning(s.client) /\ Spanning(NoRange)
  BY DEF Steady, Firm, Spanning
<1> QED
  BY <1>1, InitializeFirm DEF Steady, Firm, Sound

LEMMA ToClientSteady ==
  ASSUME NEW k \in [Layer -> Kind], NEW s, NEW L \in SUBSET Layer, Steady(k, s)
  PROVE  LET t == ToClient(s, L)
         IN  /\ Steady(k, t) /\ Lets(s, t)
             /\ t.busy = s.busy /\ t.client = s.client /\ t.exynos = s.exynos
             /\ t.windows = s.windows
             /\ \A l \in Layer :
                  /\ t.type[l] = IF l \in L THEN "CLIENT" ELSE s.type[l]
                  /\ t.m2m[l] = IF l \in L THEN None ELSE s.m2m[l]
             /\ \A x \in Source \ L : t.otf[x] = s.otf[x]
<1> DEFINE u == resetAssignedResource(s, L)
           t == ToClient(s, L)
<1>1. /\ Steady(k, u)
      /\ u.type = s.type /\ u.busy = s.busy
      /\ u.client = s.client /\ u.exynos = s.exynos
      /\ u.windows = s.windows
      /\ \A l \in Layer : u.m2m[l] = IF l \in L THEN None ELSE s.m2m[l]
      /\ \A x \in Source \ L : u.otf[x] = s.otf[x]
  BY ResetResourceSteady
<1>2. t = [u EXCEPT !.type = [l \in Layer |-> IF l \in L THEN "CLIENT" ELSE @[l]]]
  BY DEF ToClient
<1>3. s \in Assignment /\ u \in Assignment /\ Owned(u) /\ Within(k, u) /\ Spanning(u.client)
  BY <1>1 DEF Steady
<1> HIDE DEF u, t
<1>4. t \in Assignment
  BY <1>2, <1>3 DEF Assignment, Types
<1>5. /\ t.busy = u.busy /\ t.client = u.client /\ t.exynos = u.exynos
      /\ t.windows = u.windows /\ t.m2m = u.m2m /\ t.otf = u.otf /\ t.users = u.users
      /\ \A l \in Layer : t.type[l] = IF l \in L THEN "CLIENT" ELSE u.type[l]
  BY <1>2, <1>3 DEF Assignment
<1>6. Owned(t) /\ Within(k, t)
  BY <1>3, <1>5, TakenAway DEF Owned
<1>7. Lets(s, t)
  <2> SUFFICES ASSUME NEW l \in Layer
               PROVE  /\ t.m2m[l] = Single => s.m2m[l] = Single /\ t.type[l] = s.type[l]
                      /\ t.type[l] = "DEVICE" => s.type[l] = "DEVICE" /\ t.otf[l] = s.otf[l]
                      /\ t.type[l] = "INVALID" => s.type[l] = "INVALID"
                      /\ s.type[l] = "CLIENT" => t.type[l] = "CLIENT"
    BY DEF Lets
  <2>1. l \in Source
    BY DEF Source
  <2>2. CASE l \in L
    BY <1>1, <1>5, <2>2, NotMPPs
  <2>3. CASE l \notin L
    BY <1>1, <1>5, <2>1, <2>3
  <2> QED
    BY <2>2, <2>3
<1> QED
  BY <1>1, <1>3, <1>4, <1>5, <1>6, <1>7 DEF Steady, t
-----------------------------------------------------------------------------
(* What every repetition leads from the set A[n - 1] to the set A[n], the  *)
(* loop leads from A[0] to the set at its end.  One lemma for each loop of *)
(* the model, all with the same argument.                                  *)

LoopTimes(first, last) == IF last < first THEN 0 ELSE last - first + 1

TrimOne(t, i, high) ==
  IF i \notin high THEN t
  ELSE IF i = t.exynos.first THEN [t EXCEPT !.exynos.first = @ + 1]
  ELSE IF i = t.exynos.last THEN [t EXCEPT !.exynos.last = @ - 1]
  ELSE t

(* One layer given to the client.                                          *)
GiveLayer(s, l) == addClientCompositionLayer(ToClient(s, {l}), l)

GiveBut(t, i, high) == IF i \in high THEN t ELSE GiveLayer(t, i)

GiveAllBut(s, high) ==
  LET Give(t, i) == GiveBut(t, i, high)
  IN Loop(Give, s, s.exynos.first, s.exynos.last)

GiveUnlessError(t, i) == IF t.ret = "error" THEN t ELSE GiveLayer(t, i)

ClientsLayer(s, l) == addClientCompositionLayer([s EXCEPT !.type[l] = "CLIENT"], l)

WindowOne(acc, l, s) ==
  LET type == s.type[l]
      range == Blended(s, type)
      x == IF type = "DEVICE" THEN l ELSE Target(type)
  IN IF type = "INVALID" \/ (type # "DEVICE" /\ ~(range.has /\ range.last = l))
     THEN acc
     ELSE [acc EXCEPT !.s.window[x] = acc.index, !.index = @ + 1]

AllWindows(start, s) ==
  LET One(acc, l) == WindowOne(acc, l, s)
  IN Loop(One, start, 0, LayerNum - 1)

KeepUp(a, l) == IF a.on THEN Keeps(a.s, l, "first") ELSE a
KeepDown(a, l) == IF a.on THEN Keeps(a.s, l, "last") ELSE a

KeepAllDown(s, top, first, last) ==
  LET Down(a, k) == KeepDown(a, top - k)
  IN Loop(Down, s, first, last)

ExtendAllDown(s, top, first, last) ==
  LET Down(a, k) == extend(a, top - k)
  IN Loop(Down, s, first, last)

LEMMA TrimLoop ==
  ASSUME NEW s, NEW high, NEW A,
         LayerNum \in Nat,
         s \in A[0],
         \A n \in 1 .. LoopTimes(0, LayerNum - 1) : \A t \in A[n - 1] :
           TrimOne(t, 0 + n - 1, high) \in A[n]
  PROVE  trimHigh(s, high) \in A[LoopTimes(0, LayerNum - 1)]
<1> DEFINE Step(t, i) == TrimOne(t, i, high)
           times == LoopTimes(0, LayerNum - 1)
           start == s
           F == [p \in (UNION {A[n] : n \in 0 .. times}) \X (1 .. times) |->
                   Step(p[1], 0 + p[2] - 1)]
           Rec(f) == [n \in 0 .. times |->
                        IF n = 0 THEN start ELSE Step(f[n - 1], 0 + n - 1)]
           after == CHOOSE f : f = Rec(f)
<1>1. trimHigh(s, high) = after[times]
  BY DEF trimHigh, TrimOne, Loop, LoopTimes
<1>2. times \in Nat
  BY DEF LoopTimes
<1>3. \A n \in 1 .. times : \A t \in A[n - 1] : Step(t, 0 + n - 1) \in A[n]
  OBVIOUS
<1>4. start \in A[0]
  OBVIOUS
<1> HIDE DEF Step, times, start
<1>5. ASSUME NEW n \in 1 .. times, NEW t \in A[n - 1]
      PROVE  F[<<t, n>>] = Step(t, 0 + n - 1) /\ F[<<t, n>>] \in A[n]
  <2>1. n - 1 \in 0 .. times
    BY <1>2
  <2>2. F[<<t, n>>] = Step(t, 0 + n - 1)
    BY <2>1
  <2> HIDE DEF F
  <2> QED
    BY <1>3, <2>2
<1> HIDE DEF F
<1>6. PICK g : IsLoop(g, times) /\ Follows(g, F, times, A, start)
  <2>1. Leads(F, times, A)
    BY <1>5 DEF Leads
  <2> QED
    BY <1>2, <1>4, <2>1, LoopThrough
<1>7. ASSUME NEW n \in 1 .. times
      PROVE  g[n] = Step(g[n - 1], 0 + n - 1)
  <2>1. n - 1 \in 0 .. times
    BY <1>2
  <2> QED
    BY <1>5, <1>6, <2>1 DEF Follows
<1>8. after = Rec(after)
  <2>1. \A n \in 0 .. times :
          g[n] = IF n = 0 THEN start ELSE Step(g[n - 1], 0 + n - 1)
    BY <1>2, <1>6, <1>7 DEF Follows
  <2>2. g = Rec(g)
    BY <1>6, <2>1 DEF IsLoop
  <2> HIDE DEF Rec
  <2> QED
    BY <2>2
<1> HIDE DEF after
<1>9. after[times] = g[times]
  <2>1. after[0] = g[0]
    BY <1>2, <1>6, <1>8 DEF Follows
  <2>2. \A n \in 1 .. times : after[n] = Step(after[n - 1], 0 + n - 1)
    BY <1>2, <1>8
  <2>3. \A n \in 1 .. times : after[n - 1] = g[n - 1] => after[n] = g[n]
    BY <1>7, <2>2
  <2> QED
    BY <1>2, <2>1, <2>3, SameLoop
<1> QED
  BY <1>1, <1>2, <1>6, <1>9 DEF Follows, times

LEMMA WalkLoop ==
  ASSUME NEW s, NEW first \in Int, NEW last \in Int, NEW A,
         
         s \in A[0],
         \A n \in 1 .. LoopTimes(first, last) : \A t \in A[n - 1] :
           blendSandwiched(t, first + n - 1) \in A[n]
  PROVE  Loop(blendSandwiched, s, first, last) \in A[LoopTimes(first, last)]
<1> DEFINE Step(t, i) == blendSandwiched(t, i)
           times == LoopTimes(first, last)
           start == s
           F == [p \in (UNION {A[n] : n \in 0 .. times}) \X (1 .. times) |->
                   Step(p[1], first + p[2] - 1)]
           Rec(f) == [n \in 0 .. times |->
                        IF n = 0 THEN start ELSE Step(f[n - 1], first + n - 1)]
           after == CHOOSE f : f = Rec(f)
<1>1. Loop(blendSandwiched, s, first, last) = after[times]
  BY DEF Loop, LoopTimes
<1>2. times \in Nat
  BY DEF LoopTimes
<1>3. \A n \in 1 .. times : \A t \in A[n - 1] : Step(t, first + n - 1) \in A[n]
  OBVIOUS
<1>4. start \in A[0]
  OBVIOUS
<1> HIDE DEF Step, times, start
<1>5. ASSUME NEW n \in 1 .. times, NEW t \in A[n - 1]
      PROVE  F[<<t, n>>] = Step(t, first + n - 1) /\ F[<<t, n>>] \in A[n]
  <2>1. n - 1 \in 0 .. times
    BY <1>2
  <2>2. F[<<t, n>>] = Step(t, first + n - 1)
    BY <2>1
  <2> HIDE DEF F
  <2> QED
    BY <1>3, <2>2
<1> HIDE DEF F
<1>6. PICK g : IsLoop(g, times) /\ Follows(g, F, times, A, start)
  <2>1. Leads(F, times, A)
    BY <1>5 DEF Leads
  <2> QED
    BY <1>2, <1>4, <2>1, LoopThrough
<1>7. ASSUME NEW n \in 1 .. times
      PROVE  g[n] = Step(g[n - 1], first + n - 1)
  <2>1. n - 1 \in 0 .. times
    BY <1>2
  <2> QED
    BY <1>5, <1>6, <2>1 DEF Follows
<1>8. after = Rec(after)
  <2>1. \A n \in 0 .. times :
          g[n] = IF n = 0 THEN start ELSE Step(g[n - 1], first + n - 1)
    BY <1>2, <1>6, <1>7 DEF Follows
  <2>2. g = Rec(g)
    BY <1>6, <2>1 DEF IsLoop
  <2> HIDE DEF Rec
  <2> QED
    BY <2>2
<1> HIDE DEF after
<1>9. after[times] = g[times]
  <2>1. after[0] = g[0]
    BY <1>2, <1>6, <1>8 DEF Follows
  <2>2. \A n \in 1 .. times : after[n] = Step(after[n - 1], first + n - 1)
    BY <1>2, <1>8
  <2>3. \A n \in 1 .. times : after[n - 1] = g[n - 1] => after[n] = g[n]
    BY <1>7, <2>2
  <2> QED
    BY <1>2, <2>1, <2>3, SameLoop
<1> QED
  BY <1>1, <1>2, <1>6, <1>9 DEF Follows, times

LEMMA GiveAllButLoop ==
  ASSUME NEW s, NEW high, NEW A,
         s.exynos.first \in Int, s.exynos.last \in Int,
         s \in A[0],
         \A n \in 1 .. LoopTimes(s.exynos.first, s.exynos.last) : \A t \in A[n - 1] :
           GiveBut(t, s.exynos.first + n - 1, high) \in A[n]
  PROVE  GiveAllBut(s, high) \in A[LoopTimes(s.exynos.first, s.exynos.last)]
<1> DEFINE Step(t, i) == GiveBut(t, i, high)
           times == LoopTimes(s.exynos.first, s.exynos.last)
           start == s
           F == [p \in (UNION {A[n] : n \in 0 .. times}) \X (1 .. times) |->
                   Step(p[1], s.exynos.first + p[2] - 1)]
           Rec(f) == [n \in 0 .. times |->
                        IF n = 0 THEN start ELSE Step(f[n - 1], s.exynos.first + n - 1)]
           after == CHOOSE f : f = Rec(f)
<1>1. GiveAllBut(s, high) = after[times]
  BY DEF GiveAllBut, Loop, LoopTimes
<1>2. times \in Nat
  BY DEF LoopTimes
<1>3. \A n \in 1 .. times : \A t \in A[n - 1] : Step(t, s.exynos.first + n - 1) \in A[n]
  OBVIOUS
<1>4. start \in A[0]
  OBVIOUS
<1> HIDE DEF Step, times, start
<1>5. ASSUME NEW n \in 1 .. times, NEW t \in A[n - 1]
      PROVE  F[<<t, n>>] = Step(t, s.exynos.first + n - 1) /\ F[<<t, n>>] \in A[n]
  <2>1. n - 1 \in 0 .. times
    BY <1>2
  <2>2. F[<<t, n>>] = Step(t, s.exynos.first + n - 1)
    BY <2>1
  <2> HIDE DEF F
  <2> QED
    BY <1>3, <2>2
<1> HIDE DEF F
<1>6. PICK g : IsLoop(g, times) /\ Follows(g, F, times, A, start)
  <2>1. Leads(F, times, A)
    BY <1>5 DEF Leads
  <2> QED
    BY <1>2, <1>4, <2>1, LoopThrough
<1>7. ASSUME NEW n \in 1 .. times
      PROVE  g[n] = Step(g[n - 1], s.exynos.first + n - 1)
  <2>1. n - 1 \in 0 .. times
    BY <1>2
  <2> QED
    BY <1>5, <1>6, <2>1 DEF Follows
<1>8. after = Rec(after)
  <2>1. \A n \in 0 .. times :
          g[n] = IF n = 0 THEN start ELSE Step(g[n - 1], s.exynos.first + n - 1)
    BY <1>2, <1>6, <1>7 DEF Follows
  <2>2. g = Rec(g)
    BY <1>6, <2>1 DEF IsLoop
  <2> HIDE DEF Rec
  <2> QED
    BY <2>2
<1> HIDE DEF after
<1>9. after[times] = g[times]
  <2>1. after[0] = g[0]
    BY <1>2, <1>6, <1>8 DEF Follows
  <2>2. \A n \in 1 .. times : after[n] = Step(after[n - 1], s.exynos.first + n - 1)
    BY <1>2, <1>8
  <2>3. \A n \in 1 .. times : after[n - 1] = g[n - 1] => after[n] = g[n]
    BY <1>7, <2>2
  <2> QED
    BY <1>2, <2>1, <2>3, SameLoop
<1> QED
  BY <1>1, <1>2, <1>6, <1>9 DEF Follows, times

LEMMA ExtendLoop ==
  ASSUME NEW s, NEW first \in Int, NEW last \in Int, NEW A,
         
         s \in A[0],
         \A n \in 1 .. LoopTimes(first, last) : \A t \in A[n - 1] :
           extend(t, first + n - 1) \in A[n]
  PROVE  Loop(extend, s, first, last) \in A[LoopTimes(first, last)]
<1> DEFINE Step(t, i) == extend(t, i)
           times == LoopTimes(first, last)
           start == s
           F == [p \in (UNION {A[n] : n \in 0 .. times}) \X (1 .. times) |->
                   Step(p[1], first + p[2] - 1)]
           Rec(f) == [n \in 0 .. times |->
                        IF n = 0 THEN start ELSE Step(f[n - 1], first + n - 1)]
           after == CHOOSE f : f = Rec(f)
<1>1. Loop(extend, s, first, last) = after[times]
  BY DEF Loop, LoopTimes
<1>2. times \in Nat
  BY DEF LoopTimes
<1>3. \A n \in 1 .. times : \A t \in A[n - 1] : Step(t, first + n - 1) \in A[n]
  OBVIOUS
<1>4. start \in A[0]
  OBVIOUS
<1> HIDE DEF Step, times, start
<1>5. ASSUME NEW n \in 1 .. times, NEW t \in A[n - 1]
      PROVE  F[<<t, n>>] = Step(t, first + n - 1) /\ F[<<t, n>>] \in A[n]
  <2>1. n - 1 \in 0 .. times
    BY <1>2
  <2>2. F[<<t, n>>] = Step(t, first + n - 1)
    BY <2>1
  <2> HIDE DEF F
  <2> QED
    BY <1>3, <2>2
<1> HIDE DEF F
<1>6. PICK g : IsLoop(g, times) /\ Follows(g, F, times, A, start)
  <2>1. Leads(F, times, A)
    BY <1>5 DEF Leads
  <2> QED
    BY <1>2, <1>4, <2>1, LoopThrough
<1>7. ASSUME NEW n \in 1 .. times
      PROVE  g[n] = Step(g[n - 1], first + n - 1)
  <2>1. n - 1 \in 0 .. times
    BY <1>2
  <2> QED
    BY <1>5, <1>6, <2>1 DEF Follows
<1>8. after = Rec(after)
  <2>1. \A n \in 0 .. times :
          g[n] = IF n = 0 THEN start ELSE Step(g[n - 1], first + n - 1)
    BY <1>2, <1>6, <1>7 DEF Follows
  <2>2. g = Rec(g)
    BY <1>6, <2>1 DEF IsLoop
  <2> HIDE DEF Rec
  <2> QED
    BY <2>2
<1> HIDE DEF after
<1>9. after[times] = g[times]
  <2>1. after[0] = g[0]
    BY <1>2, <1>6, <1>8 DEF Follows
  <2>2. \A n \in 1 .. times : after[n] = Step(after[n - 1], first + n - 1)
    BY <1>2, <1>8
  <2>3. \A n \in 1 .. times : after[n - 1] = g[n - 1] => after[n] = g[n]
    BY <1>7, <2>2
  <2> QED
    BY <1>2, <2>1, <2>3, SameLoop
<1> QED
  BY <1>1, <1>2, <1>6, <1>9 DEF Follows, times

LEMMA AskedLoop ==
  ASSUME NEW s, NEW A,
         LayerNum \in Nat,
         s \in A[0],
         \A n \in 1 .. LoopTimes(0, LayerNum - 1) : \A t \in A[n - 1] :
           askedForClient(t, 0 + n - 1) \in A[n]
  PROVE  Loop(askedForClient, s, 0, LayerNum - 1) \in A[LoopTimes(0, LayerNum - 1)]
<1> DEFINE Step(t, i) == askedForClient(t, i)
           times == LoopTimes(0, LayerNum - 1)
           start == s
           F == [p \in (UNION {A[n] : n \in 0 .. times}) \X (1 .. times) |->
                   Step(p[1], 0 + p[2] - 1)]
           Rec(f) == [n \in 0 .. times |->
                        IF n = 0 THEN start ELSE Step(f[n - 1], 0 + n - 1)]
           after == CHOOSE f : f = Rec(f)
<1>1. Loop(askedForClient, s, 0, LayerNum - 1) = after[times]
  BY DEF Loop, LoopTimes
<1>2. times \in Nat
  BY DEF LoopTimes
<1>3. \A n \in 1 .. times : \A t \in A[n - 1] : Step(t, 0 + n - 1) \in A[n]
  OBVIOUS
<1>4. start \in A[0]
  OBVIOUS
<1> HIDE DEF Step, times, start
<1>5. ASSUME NEW n \in 1 .. times, NEW t \in A[n - 1]
      PROVE  F[<<t, n>>] = Step(t, 0 + n - 1) /\ F[<<t, n>>] \in A[n]
  <2>1. n - 1 \in 0 .. times
    BY <1>2
  <2>2. F[<<t, n>>] = Step(t, 0 + n - 1)
    BY <2>1
  <2> HIDE DEF F
  <2> QED
    BY <1>3, <2>2
<1> HIDE DEF F
<1>6. PICK g : IsLoop(g, times) /\ Follows(g, F, times, A, start)
  <2>1. Leads(F, times, A)
    BY <1>5 DEF Leads
  <2> QED
    BY <1>2, <1>4, <2>1, LoopThrough
<1>7. ASSUME NEW n \in 1 .. times
      PROVE  g[n] = Step(g[n - 1], 0 + n - 1)
  <2>1. n - 1 \in 0 .. times
    BY <1>2
  <2> QED
    BY <1>5, <1>6, <2>1 DEF Follows
<1>8. after = Rec(after)
  <2>1. \A n \in 0 .. times :
          g[n] = IF n = 0 THEN start ELSE Step(g[n - 1], 0 + n - 1)
    BY <1>2, <1>6, <1>7 DEF Follows
  <2>2. g = Rec(g)
    BY <1>6, <2>1 DEF IsLoop
  <2> HIDE DEF Rec
  <2> QED
    BY <2>2
<1> HIDE DEF after
<1>9. after[times] = g[times]
  <2>1. after[0] = g[0]
    BY <1>2, <1>6, <1>8 DEF Follows
  <2>2. \A n \in 1 .. times : after[n] = Step(after[n - 1], 0 + n - 1)
    BY <1>2, <1>8
  <2>3. \A n \in 1 .. times : after[n - 1] = g[n - 1] => after[n] = g[n]
    BY <1>7, <2>2
  <2> QED
    BY <1>2, <2>1, <2>3, SameLoop
<1> QED
  BY <1>1, <1>2, <1>6, <1>9 DEF Follows, times

LEMMA ClientLoop ==
  ASSUME NEW s, NEW A,
         LayerNum \in Nat,
         s \in A[0],
         \A n \in 1 .. LoopTimes(0, LayerNum - 1) : \A t \in A[n - 1] :
           ClientsLayer(t, 0 + n - 1) \in A[n]
  PROVE  Loop(ClientsLayer, s, 0, LayerNum - 1) \in A[LoopTimes(0, LayerNum - 1)]
<1> DEFINE Step(t, i) == ClientsLayer(t, i)
           times == LoopTimes(0, LayerNum - 1)
           start == s
           F == [p \in (UNION {A[n] : n \in 0 .. times}) \X (1 .. times) |->
                   Step(p[1], 0 + p[2] - 1)]
           Rec(f) == [n \in 0 .. times |->
                        IF n = 0 THEN start ELSE Step(f[n - 1], 0 + n - 1)]
           after == CHOOSE f : f = Rec(f)
<1>1. Loop(ClientsLayer, s, 0, LayerNum - 1) = after[times]
  BY DEF Loop, LoopTimes
<1>2. times \in Nat
  BY DEF LoopTimes
<1>3. \A n \in 1 .. times : \A t \in A[n - 1] : Step(t, 0 + n - 1) \in A[n]
  OBVIOUS
<1>4. start \in A[0]
  OBVIOUS
<1> HIDE DEF Step, times, start
<1>5. ASSUME NEW n \in 1 .. times, NEW t \in A[n - 1]
      PROVE  F[<<t, n>>] = Step(t, 0 + n - 1) /\ F[<<t, n>>] \in A[n]
  <2>1. n - 1 \in 0 .. times
    BY <1>2
  <2>2. F[<<t, n>>] = Step(t, 0 + n - 1)
    BY <2>1
  <2> HIDE DEF F
  <2> QED
    BY <1>3, <2>2
<1> HIDE DEF F
<1>6. PICK g : IsLoop(g, times) /\ Follows(g, F, times, A, start)
  <2>1. Leads(F, times, A)
    BY <1>5 DEF Leads
  <2> QED
    BY <1>2, <1>4, <2>1, LoopThrough
<1>7. ASSUME NEW n \in 1 .. times
      PROVE  g[n] = Step(g[n - 1], 0 + n - 1)
  <2>1. n - 1 \in 0 .. times
    BY <1>2
  <2> QED
    BY <1>5, <1>6, <2>1 DEF Follows
<1>8. after = Rec(after)
  <2>1. \A n \in 0 .. times :
          g[n] = IF n = 0 THEN start ELSE Step(g[n - 1], 0 + n - 1)
    BY <1>2, <1>6, <1>7 DEF Follows
  <2>2. g = Rec(g)
    BY <1>6, <2>1 DEF IsLoop
  <2> HIDE DEF Rec
  <2> QED
    BY <2>2
<1> HIDE DEF after
<1>9. after[times] = g[times]
  <2>1. after[0] = g[0]
    BY <1>2, <1>6, <1>8 DEF Follows
  <2>2. \A n \in 1 .. times : after[n] = Step(after[n - 1], 0 + n - 1)
    BY <1>2, <1>8
  <2>3. \A n \in 1 .. times : after[n - 1] = g[n - 1] => after[n] = g[n]
    BY <1>7, <2>2
  <2> QED
    BY <1>2, <2>1, <2>3, SameLoop
<1> QED
  BY <1>1, <1>2, <1>6, <1>9 DEF Follows, times

LEMMA GiveLoop ==
  ASSUME NEW s, NEW first \in Int, NEW last \in Int, NEW A,
         
         s \in A[0],
         \A n \in 1 .. LoopTimes(first, last) : \A t \in A[n - 1] :
           GiveUnlessError(t, first + n - 1) \in A[n]
  PROVE  Loop(GiveUnlessError, s, first, last) \in A[LoopTimes(first, last)]
<1> DEFINE Step(t, i) == GiveUnlessError(t, i)
           times == LoopTimes(first, last)
           start == s
           F == [p \in (UNION {A[n] : n \in 0 .. times}) \X (1 .. times) |->
                   Step(p[1], first + p[2] - 1)]
           Rec(f) == [n \in 0 .. times |->
                        IF n = 0 THEN start ELSE Step(f[n - 1], first + n - 1)]
           after == CHOOSE f : f = Rec(f)
<1>1. Loop(GiveUnlessError, s, first, last) = after[times]
  BY DEF Loop, LoopTimes
<1>2. times \in Nat
  BY DEF LoopTimes
<1>3. \A n \in 1 .. times : \A t \in A[n - 1] : Step(t, first + n - 1) \in A[n]
  OBVIOUS
<1>4. start \in A[0]
  OBVIOUS
<1> HIDE DEF Step, times, start
<1>5. ASSUME NEW n \in 1 .. times, NEW t \in A[n - 1]
      PROVE  F[<<t, n>>] = Step(t, first + n - 1) /\ F[<<t, n>>] \in A[n]
  <2>1. n - 1 \in 0 .. times
    BY <1>2
  <2>2. F[<<t, n>>] = Step(t, first + n - 1)
    BY <2>1
  <2> HIDE DEF F
  <2> QED
    BY <1>3, <2>2
<1> HIDE DEF F
<1>6. PICK g : IsLoop(g, times) /\ Follows(g, F, times, A, start)
  <2>1. Leads(F, times, A)
    BY <1>5 DEF Leads
  <2> QED
    BY <1>2, <1>4, <2>1, LoopThrough
<1>7. ASSUME NEW n \in 1 .. times
      PROVE  g[n] = Step(g[n - 1], first + n - 1)
  <2>1. n - 1 \in 0 .. times
    BY <1>2
  <2> QED
    BY <1>5, <1>6, <2>1 DEF Follows
<1>8. after = Rec(after)
  <2>1. \A n \in 0 .. times :
          g[n] = IF n = 0 THEN start ELSE Step(g[n - 1], first + n - 1)
    BY <1>2, <1>6, <1>7 DEF Follows
  <2>2. g = Rec(g)
    BY <1>6, <2>1 DEF IsLoop
  <2> HIDE DEF Rec
  <2> QED
    BY <2>2
<1> HIDE DEF after
<1>9. after[times] = g[times]
  <2>1. after[0] = g[0]
    BY <1>2, <1>6, <1>8 DEF Follows
  <2>2. \A n \in 1 .. times : after[n] = Step(after[n - 1], first + n - 1)
    BY <1>2, <1>8
  <2>3. \A n \in 1 .. times : after[n - 1] = g[n - 1] => after[n] = g[n]
    BY <1>7, <2>2
  <2> QED
    BY <1>2, <2>1, <2>3, SameLoop
<1> QED
  BY <1>1, <1>2, <1>6, <1>9 DEF Follows, times

LEMMA KeepUpLoop ==
  ASSUME NEW s, NEW first \in Int, NEW last \in Int, NEW A,
         
         s \in A[0],
         \A n \in 1 .. LoopTimes(first, last) : \A t \in A[n - 1] :
           KeepUp(t, first + n - 1) \in A[n]
  PROVE  Loop(KeepUp, s, first, last) \in A[LoopTimes(first, last)]
<1> DEFINE Step(t, i) == KeepUp(t, i)
           times == LoopTimes(first, last)
           start == s
           F == [p \in (UNION {A[n] : n \in 0 .. times}) \X (1 .. times) |->
                   Step(p[1], first + p[2] - 1)]
           Rec(f) == [n \in 0 .. times |->
                        IF n = 0 THEN start ELSE Step(f[n - 1], first + n - 1)]
           after == CHOOSE f : f = Rec(f)
<1>1. Loop(KeepUp, s, first, last) = after[times]
  BY DEF Loop, LoopTimes
<1>2. times \in Nat
  BY DEF LoopTimes
<1>3. \A n \in 1 .. times : \A t \in A[n - 1] : Step(t, first + n - 1) \in A[n]
  OBVIOUS
<1>4. start \in A[0]
  OBVIOUS
<1> HIDE DEF Step, times, start
<1>5. ASSUME NEW n \in 1 .. times, NEW t \in A[n - 1]
      PROVE  F[<<t, n>>] = Step(t, first + n - 1) /\ F[<<t, n>>] \in A[n]
  <2>1. n - 1 \in 0 .. times
    BY <1>2
  <2>2. F[<<t, n>>] = Step(t, first + n - 1)
    BY <2>1
  <2> HIDE DEF F
  <2> QED
    BY <1>3, <2>2
<1> HIDE DEF F
<1>6. PICK g : IsLoop(g, times) /\ Follows(g, F, times, A, start)
  <2>1. Leads(F, times, A)
    BY <1>5 DEF Leads
  <2> QED
    BY <1>2, <1>4, <2>1, LoopThrough
<1>7. ASSUME NEW n \in 1 .. times
      PROVE  g[n] = Step(g[n - 1], first + n - 1)
  <2>1. n - 1 \in 0 .. times
    BY <1>2
  <2> QED
    BY <1>5, <1>6, <2>1 DEF Follows
<1>8. after = Rec(after)
  <2>1. \A n \in 0 .. times :
          g[n] = IF n = 0 THEN start ELSE Step(g[n - 1], first + n - 1)
    BY <1>2, <1>6, <1>7 DEF Follows
  <2>2. g = Rec(g)
    BY <1>6, <2>1 DEF IsLoop
  <2> HIDE DEF Rec
  <2> QED
    BY <2>2
<1> HIDE DEF after
<1>9. after[times] = g[times]
  <2>1. after[0] = g[0]
    BY <1>2, <1>6, <1>8 DEF Follows
  <2>2. \A n \in 1 .. times : after[n] = Step(after[n - 1], first + n - 1)
    BY <1>2, <1>8
  <2>3. \A n \in 1 .. times : after[n - 1] = g[n - 1] => after[n] = g[n]
    BY <1>7, <2>2
  <2> QED
    BY <1>2, <2>1, <2>3, SameLoop
<1> QED
  BY <1>1, <1>2, <1>6, <1>9 DEF Follows, times

LEMMA KeepDownLoop ==
  ASSUME NEW s, NEW top, NEW first \in Int, NEW last \in Int, NEW A,
         top \in Int,
         s \in A[0],
         \A n \in 1 .. LoopTimes(first, last) : \A t \in A[n - 1] :
           KeepDown(t, top - (first + n - 1)) \in A[n]
  PROVE  KeepAllDown(s, top, first, last) \in A[LoopTimes(first, last)]
<1> DEFINE Step(t, i) == KeepDown(t, top - (i))
           times == LoopTimes(first, last)
           start == s
           F == [p \in (UNION {A[n] : n \in 0 .. times}) \X (1 .. times) |->
                   Step(p[1], first + p[2] - 1)]
           Rec(f) == [n \in 0 .. times |->
                        IF n = 0 THEN start ELSE Step(f[n - 1], first + n - 1)]
           after == CHOOSE f : f = Rec(f)
<1>1. KeepAllDown(s, top, first, last) = after[times]
  BY DEF KeepAllDown, Loop, LoopTimes
<1>2. times \in Nat
  BY DEF LoopTimes
<1>3. \A n \in 1 .. times : \A t \in A[n - 1] : Step(t, first + n - 1) \in A[n]
  OBVIOUS
<1>4. start \in A[0]
  OBVIOUS
<1> HIDE DEF Step, times, start
<1>5. ASSUME NEW n \in 1 .. times, NEW t \in A[n - 1]
      PROVE  F[<<t, n>>] = Step(t, first + n - 1) /\ F[<<t, n>>] \in A[n]
  <2>1. n - 1 \in 0 .. times
    BY <1>2
  <2>2. F[<<t, n>>] = Step(t, first + n - 1)
    BY <2>1
  <2> HIDE DEF F
  <2> QED
    BY <1>3, <2>2
<1> HIDE DEF F
<1>6. PICK g : IsLoop(g, times) /\ Follows(g, F, times, A, start)
  <2>1. Leads(F, times, A)
    BY <1>5 DEF Leads
  <2> QED
    BY <1>2, <1>4, <2>1, LoopThrough
<1>7. ASSUME NEW n \in 1 .. times
      PROVE  g[n] = Step(g[n - 1], first + n - 1)
  <2>1. n - 1 \in 0 .. times
    BY <1>2
  <2> QED
    BY <1>5, <1>6, <2>1 DEF Follows
<1>8. after = Rec(after)
  <2>1. \A n \in 0 .. times :
          g[n] = IF n = 0 THEN start ELSE Step(g[n - 1], first + n - 1)
    BY <1>2, <1>6, <1>7 DEF Follows
  <2>2. g = Rec(g)
    BY <1>6, <2>1 DEF IsLoop
  <2> HIDE DEF Rec
  <2> QED
    BY <2>2
<1> HIDE DEF after
<1>9. after[times] = g[times]
  <2>1. after[0] = g[0]
    BY <1>2, <1>6, <1>8 DEF Follows
  <2>2. \A n \in 1 .. times : after[n] = Step(after[n - 1], first + n - 1)
    BY <1>2, <1>8
  <2>3. \A n \in 1 .. times : after[n - 1] = g[n - 1] => after[n] = g[n]
    BY <1>7, <2>2
  <2> QED
    BY <1>2, <2>1, <2>3, SameLoop
<1> QED
  BY <1>1, <1>2, <1>6, <1>9 DEF Follows, times

LEMMA ExtendDownLoop ==
  ASSUME NEW s, NEW top, NEW first \in Int, NEW last \in Int, NEW A,
         top \in Int,
         s \in A[0],
         \A n \in 1 .. LoopTimes(first, last) : \A t \in A[n - 1] :
           extend(t, top - (first + n - 1)) \in A[n]
  PROVE  ExtendAllDown(s, top, first, last) \in A[LoopTimes(first, last)]
<1> DEFINE Step(t, i) == extend(t, top - (i))
           times == LoopTimes(first, last)
           start == s
           F == [p \in (UNION {A[n] : n \in 0 .. times}) \X (1 .. times) |->
                   Step(p[1], first + p[2] - 1)]
           Rec(f) == [n \in 0 .. times |->
                        IF n = 0 THEN start ELSE Step(f[n - 1], first + n - 1)]
           after == CHOOSE f : f = Rec(f)
<1>1. ExtendAllDown(s, top, first, last) = after[times]
  BY DEF ExtendAllDown, Loop, LoopTimes
<1>2. times \in Nat
  BY DEF LoopTimes
<1>3. \A n \in 1 .. times : \A t \in A[n - 1] : Step(t, first + n - 1) \in A[n]
  OBVIOUS
<1>4. start \in A[0]
  OBVIOUS
<1> HIDE DEF Step, times, start
<1>5. ASSUME NEW n \in 1 .. times, NEW t \in A[n - 1]
      PROVE  F[<<t, n>>] = Step(t, first + n - 1) /\ F[<<t, n>>] \in A[n]
  <2>1. n - 1 \in 0 .. times
    BY <1>2
  <2>2. F[<<t, n>>] = Step(t, first + n - 1)
    BY <2>1
  <2> HIDE DEF F
  <2> QED
    BY <1>3, <2>2
<1> HIDE DEF F
<1>6. PICK g : IsLoop(g, times) /\ Follows(g, F, times, A, start)
  <2>1. Leads(F, times, A)
    BY <1>5 DEF Leads
  <2> QED
    BY <1>2, <1>4, <2>1, LoopThrough
<1>7. ASSUME NEW n \in 1 .. times
      PROVE  g[n] = Step(g[n - 1], first + n - 1)
  <2>1. n - 1 \in 0 .. times
    BY <1>2
  <2> QED
    BY <1>5, <1>6, <2>1 DEF Follows
<1>8. after = Rec(after)
  <2>1. \A n \in 0 .. times :
          g[n] = IF n = 0 THEN start ELSE Step(g[n - 1], first + n - 1)
    BY <1>2, <1>6, <1>7 DEF Follows
  <2>2. g = Rec(g)
    BY <1>6, <2>1 DEF IsLoop
  <2> HIDE DEF Rec
  <2> QED
    BY <2>2
<1> HIDE DEF after
<1>9. after[times] = g[times]
  <2>1. after[0] = g[0]
    BY <1>2, <1>6, <1>8 DEF Follows
  <2>2. \A n \in 1 .. times : after[n] = Step(after[n - 1], first + n - 1)
    BY <1>2, <1>8
  <2>3. \A n \in 1 .. times : after[n - 1] = g[n - 1] => after[n] = g[n]
    BY <1>7, <2>2
  <2> QED
    BY <1>2, <2>1, <2>3, SameLoop
<1> QED
  BY <1>1, <1>2, <1>6, <1>9 DEF Follows, times

LEMMA WindowLoop ==
  ASSUME NEW s, NEW a, NEW A,
         LayerNum \in Nat,
         a \in A[0],
         \A n \in 1 .. LoopTimes(0, LayerNum - 1) : \A t \in A[n - 1] :
           WindowOne(t, 0 + n - 1, s) \in A[n]
  PROVE  AllWindows(a, s) \in A[LoopTimes(0, LayerNum - 1)]
<1> DEFINE Step(t, i) == WindowOne(t, i, s)
           times == LoopTimes(0, LayerNum - 1)
           start == a
           F == [p \in (UNION {A[n] : n \in 0 .. times}) \X (1 .. times) |->
                   Step(p[1], 0 + p[2] - 1)]
           Rec(f) == [n \in 0 .. times |->
                        IF n = 0 THEN start ELSE Step(f[n - 1], 0 + n - 1)]
           after == CHOOSE f : f = Rec(f)
<1>1. AllWindows(a, s) = after[times]
  BY DEF AllWindows, Loop, LoopTimes
<1>2. times \in Nat
  BY DEF LoopTimes
<1>3. \A n \in 1 .. times : \A t \in A[n - 1] : Step(t, 0 + n - 1) \in A[n]
  OBVIOUS
<1>4. start \in A[0]
  OBVIOUS
<1> HIDE DEF Step, times, start
<1>5. ASSUME NEW n \in 1 .. times, NEW t \in A[n - 1]
      PROVE  F[<<t, n>>] = Step(t, 0 + n - 1) /\ F[<<t, n>>] \in A[n]
  <2>1. n - 1 \in 0 .. times
    BY <1>2
  <2>2. F[<<t, n>>] = Step(t, 0 + n - 1)
    BY <2>1
  <2> HIDE DEF F
  <2> QED
    BY <1>3, <2>2
<1> HIDE DEF F
<1>6. PICK g : IsLoop(g, times) /\ Follows(g, F, times, A, start)
  <2>1. Leads(F, times, A)
    BY <1>5 DEF Leads
  <2> QED
    BY <1>2, <1>4, <2>1, LoopThrough
<1>7. ASSUME NEW n \in 1 .. times
      PROVE  g[n] = Step(g[n - 1], 0 + n - 1)
  <2>1. n - 1 \in 0 .. times
    BY <1>2
  <2> QED
    BY <1>5, <1>6, <2>1 DEF Follows
<1>8. after = Rec(after)
  <2>1. \A n \in 0 .. times :
          g[n] = IF n = 0 THEN start ELSE Step(g[n - 1], 0 + n - 1)
    BY <1>2, <1>6, <1>7 DEF Follows
  <2>2. g = Rec(g)
    BY <1>6, <2>1 DEF IsLoop
  <2> HIDE DEF Rec
  <2> QED
    BY <2>2
<1> HIDE DEF after
<1>9. after[times] = g[times]
  <2>1. after[0] = g[0]
    BY <1>2, <1>6, <1>8 DEF Follows
  <2>2. \A n \in 1 .. times : after[n] = Step(after[n - 1], 0 + n - 1)
    BY <1>2, <1>8
  <2>3. \A n \in 1 .. times : after[n - 1] = g[n - 1] => after[n] = g[n]
    BY <1>7, <2>2
  <2> QED
    BY <1>2, <2>1, <2>3, SameLoop
<1> QED
  BY <1>1, <1>2, <1>6, <1>9 DEF Follows, times

-----------------------------------------------------------------------------
(* The blended ranges.                                                     *)

SameLayers(s, t) ==
  /\ t.type = s.type /\ t.m2m = s.m2m /\ t.users = s.users /\ t.busy = s.busy
  /\ \A l \in Layer : t.otf[l] = s.otf[l]

(* From s to t some layers went to the client, and nothing else happened   *)
(* to any.                                                                 *)
Gives(s, t) ==
  /\ t.busy = s.busy
  /\ \A l \in Layer :
       \/ t.type[l] = s.type[l] /\ t.m2m[l] = s.m2m[l] /\ t.otf[l] = s.otf[l]
       \/ t.type[l] = "CLIENT" /\ t.m2m[l] = None /\ t.otf[l] = None

LEMMA Numbers ==
  /\ LayerNum \in Nat \ {0} /\ \A l \in Layer : l \in Int /\ 0 <= l /\ l <= LayerNum - 1
  /\ \A l \in Int : 0 <= l /\ l <= LayerNum - 1 => l \in Layer
  /\ Layer \subseteq Source /\ Client \in Source /\ Exynos \in Source
  /\ Client \notin Layer /\ Exynos \notin Layer /\ Client # Exynos
  BY ParametersOK DEF Layer, Source, Client, Exynos

LEMMA Priorities ==
  Given => \A l \in Layer : kind[l].priority \in Priority /\ kind[l].load \in Nat
             /\ kind[l].supports \subseteq Otf \cup M2m
             /\ (High(l) <=> ~(kind[l].priority < PriorityHigh))
             /\ (High(l) => Blending \notin kind[l].supports)
  BY ParametersOK DEF Given, KindOK, High, Priority, PriorityHigh

LEMMA LeastLayer ==
  ASSUME NEW S \in SUBSET Layer, S # {}
  PROVE  Min(S) \in S /\ \A y \in S : Min(S) <= y
<1>1. S \in SUBSET Nat
  BY ParametersOK DEF Layer
<1> QED
  BY <1>1, LeastOne

LEMMA WidenedSpans ==
  ASSUME NEW range \in Ranges, Spanning(range), NEW l \in Layer
  PROVE  LET w == Widened(range, l)
         IN  /\ w \in Ranges /\ Spanning(w) /\ w.has /\ In(l, w)
             /\ \A x \in Layer : In(x, range) => In(x, w)
             /\ \A x \in Layer :
                  In(x, w) => (x = l \/ In(x, range) \/ (w.first < x /\ x < w.last))
<1> DEFINE w == Widened(range, l)
<1>1. l \in Layer /\ l \in Int /\ range.first \in Int /\ range.last \in Int
  BY Numbers DEF Ranges
<1>2. CASE ~range.has
  <2>1. w = [has |-> TRUE, first |-> l, last |-> l]
    BY <1>2 DEF Widened
  <2> HIDE DEF w
  <2> QED
    BY <1>1, <1>2, <2>1, Numbers DEF Spanning, Ranges, In, w
<1>3. CASE range.has
  <2>1. w = [has |-> TRUE, first |-> IF range.first < l THEN range.first ELSE l,
             last |-> IF range.last > l THEN range.last ELSE l]
    BY <1>3 DEF Widened, Lower, Higher
  <2>2. range.first \in Layer /\ range.last \in Layer /\ range.first <= range.last
    BY <1>3 DEF Spanning, NoRange
  <2> HIDE DEF w
  <2> QED
    BY <1>1, <1>3, <2>1, <2>2, Numbers DEF Spanning, Ranges, In, w
<1> QED
  BY <1>2, <1>3

LEMMA ShrinkExynosSteady ==
  ASSUME NEW k \in [Layer -> Kind], NEW s, Steady(k, s), Spanning(s.exynos)
  PROVE  LET t == shrinkExynos(s)
         IN  /\ Sound(k, t) /\ SameLayers(s, t) /\ t.client = s.client
             /\ t.windows = s.windows /\ t.moved \in BOOLEAN
             /\ s.exynos.has => \A l \in Layer : s.type[l] = "EXYNOS" => In(l, t.exynos)
             /\ s.exynos.has => t.ret # "error" /\ t.moved
<1> DEFINE t == shrinkExynos(s)
           left == ExynosLayers(s)
           e == initializeExynos(s)
<1>0. left \in SUBSET Layer /\ \A l \in Layer : l \in left <=> s.type[l] = "EXYNOS"
  BY DEF ExynosLayers
<1>1. s \in Assignment
  BY DEF Steady
<1>2. CASE s.exynos.first < 0 \/ s.exynos.last < 0
  <2>1. t = [s EXCEPT !.ret = "error", !.moved = FALSE]
    BY <1>2 DEF shrinkExynos
  <2>2. /\ t \in Assignment /\ SameResources(s, t) /\ t.client = s.client
        /\ t.exynos = s.exynos /\ t.windows = s.windows /\ t.otf = s.otf
    BY <1>1, <2>1 DEF Assignment, Ret, SameResources
  <2>3. ~s.exynos.has
    BY <1>2, Numbers DEF Spanning, NoRange
  <2>4. Steady(k, t)
    <3> HIDE DEF t
    <3> QED
      BY <2>2, SameSteady DEF Steady
  <2> HIDE DEF t
  <2> QED
    BY <2>2, <2>3, <2>4 DEF Sound, SameLayers, SameResources, Assignment, Steady, t
<1>3. CASE ~(s.exynos.first < 0 \/ s.exynos.last < 0) /\ left = {}
  <2>1. t = [e EXCEPT !.ret = "changed", !.moved = TRUE]
    BY <1>3 DEF shrinkExynos
  <2>2. /\ Steady(k, e) /\ e.client = s.client /\ e.exynos = NoRange
        /\ e.type = s.type /\ e.m2m = s.m2m /\ e.busy = s.busy
    BY InitializeSteady
  <2>3. e.users = s.users /\ e.windows = s.windows /\ \A l \in Layer : e.otf[l] = s.otf[l]
    BY <1>1, Numbers DEF Assignment, initializeExynos
  <2>4. e \in Assignment
    BY <2>2 DEF Steady
  <2>5. /\ t \in Assignment /\ SameResources(e, t) /\ t.client = e.client
        /\ t.exynos = e.exynos /\ t.windows = e.windows /\ t.otf = e.otf
        /\ t.ret = "changed" /\ t.moved
    BY <2>1, <2>4 DEF Assignment, Ret, SameResources
  <2> HIDE DEF t, e
  <2>6. Steady(k, t)
    BY <2>2, <2>5, SameSteady DEF Steady
  <2>7. Spanning(t.exynos)
    BY <2>2, <2>5 DEF Spanning, NoRange
  <2>8. \A l \in Layer : s.type[l] # "EXYNOS"
    BY <1>0, <1>3
  <2> QED
    BY <2>2, <2>3, <2>5, <2>6, <2>7, <2>8 DEF Sound, SameLayers, SameResources, t
<1>4. CASE ~(s.exynos.first < 0 \/ s.exynos.last < 0) /\ left # {}
  <2>1. t = [s EXCEPT !.exynos.first = Min(left), !.exynos.last = Max(left),
                      !.ret = "ok", !.moved = TRUE]
    BY <1>4 DEF shrinkExynos
  <2>2. /\ Min(left) \in left /\ \A y \in left : Min(left) <= y
        /\ Max(left) \in left /\ \A y \in left : y <= Max(left)
    BY <1>0, <1>4, LeastLayer, GreatestLayer
  <2> HIDE DEF left
  <2>3. Min(left) \in Int /\ Max(left) \in Int
    BY <1>0, <2>2, Numbers
  <2>4. t.exynos = [has |-> s.exynos.has, first |-> Min(left), last |-> Max(left)]
    <3>1. s.exynos \in Ranges
      BY <1>1 DEF Assignment
    <3>2. t.exynos = [[s.exynos EXCEPT !.first = Min(left)] EXCEPT !.last = Max(left)]
      BY <1>1, <2>1 DEF Assignment
    <3> QED
      BY <3>1, <3>2 DEF Ranges
  <2>5. /\ t \in Assignment /\ SameResources(s, t) /\ t.client = s.client
        /\ t.windows = s.windows /\ t.otf = s.otf /\ t.ret = "ok" /\ t.moved
    <3>1. t.exynos \in Ranges
      BY <1>1, <2>3, <2>4 DEF Assignment, Ranges
    <3>2. t = [s EXCEPT !.exynos = t.exynos, !.ret = "ok", !.moved = TRUE]
      BY <1>1, <2>1 DEF Assignment
    <3> HIDE DEF t
    <3> QED
      BY <1>1, <3>1, <3>2 DEF Assignment, Ret, SameResources
  <2> HIDE DEF t
  <2>6. Steady(k, t)
    BY <2>5, SameSteady DEF Steady
  <2>7. Spanning(t.exynos)
    <3>1. s.exynos.has
      BY <1>4 DEF Spanning, NoRange
    <3>2. Min(left) \in Layer /\ Max(left) \in Layer /\ Min(left) <= Max(left)
      BY <1>0, <2>2
    <3> QED
      BY <2>4, <3>1, <3>2 DEF Spanning
  <2>8. s.exynos.has => \A l \in Layer : s.type[l] = "EXYNOS" => In(l, t.exynos)
    BY <1>0, <2>2, <2>4 DEF In
  <2> QED
    BY <2>5, <2>6, <2>7, <2>8 DEF Sound, SameLayers, SameResources, t
<1> QED
  BY <1>2, <1>3, <1>4

(* The layers that follow layer l to the client, and its range then.       *)
Followers(s, l) ==
  Sandwiched(s, Widened(s.client, l)) \cup BelowBlendingNone(s, l)

NewClient(s, l) ==
  LET range == Widened(s.client, l)
      below == BelowBlendingNone(s, l) \ Sandwiched(s, range)
  IN IF below = {} THEN range ELSE Widened(Widened(range, Min(below)), Max(below))

LEMMA WidenedByLittle ==
  ASSUME NEW range \in Ranges, range.has, NEW a \in Layer, In(a, range), NEW l \in Layer
  PROVE  \A x \in Layer : In(x, Widened(range, l)) => (In(x, range) \/ x <= a \/ x <= l)
<1>1. /\ Widened(range, l).first = IF range.first < l THEN range.first ELSE l
      /\ Widened(range, l).last = IF range.last > l THEN range.last ELSE l
  BY DEF Widened, Lower, Higher
<1>2. range.first \in Int /\ range.last \in Int /\ range.first <= a /\ a <= range.last
  BY DEF Ranges, In
<1> HIDE DEF Widened
<1> QED
  BY <1>1, <1>2, Numbers DEF In

LEMMA FollowersInside ==
  ASSUME Given, NEW s, Steady(kind, s), NEW l \in Layer
  PROVE  LET L == Followers(s, l)
             range == NewClient(s, l)
         IN  /\ L \in SUBSET Layer
             /\ range \in Ranges /\ Spanning(range) /\ range.has /\ In(l, range)
             /\ \A x \in Layer : x \in L \/ In(x, s.client) => In(x, range)
             /\ \A x \in L : ~High(x) /\ s.type[x] # "CLIENT"
             /\ \A x \in Layer :
                  In(x, range) /\ ~High(x) /\ s.type[x] # "CLIENT"
                    => (x = l \/ In(x, s.client) \/ x \in L)
<1> DEFINE wide == Widened(s.client, l)
           between == Sandwiched(s, wide)
           all == BelowBlendingNone(s, l)
           below == all \ between
           L == Followers(s, l)
           range == NewClient(s, l)
<1>1. s.client \in Ranges /\ Spanning(s.client)
  BY DEF Steady, Assignment
<1>2. /\ wide \in Ranges /\ Spanning(wide) /\ wide.has /\ In(l, wide)
      /\ \A x \in Layer : In(x, s.client) => In(x, wide)
      /\ \A x \in Layer :
           In(x, wide) => (x = l \/ In(x, s.client) \/ (wide.first < x /\ x < wide.last))
  BY <1>1, WidenedSpans
<1> HIDE DEF wide
<1>3. /\ between \in SUBSET Layer
      /\ \A x \in Layer : x \in between <=> wide.first < x /\ x < wide.last
                                             /\ ~High(x) /\ s.type[x] # "CLIENT"
  BY DEF Sandwiched
<1>4. /\ all \in SUBSET Layer
      /\ \A x \in all : ~High(x) /\ s.type[x] # "CLIENT" /\ l <= mBlendingNoneIndex
      /\ all # {} => \A x \in Layer : x <= mBlendingNoneIndex /\ ~High(x)
                       /\ s.type[x] # "CLIENT" => x \in all
      /\ \A x \in all : x <= mBlendingNoneIndex
  <2>1. \A x \in 0 .. mBlendingNoneIndex : x \in Layer /\ x <= mBlendingNoneIndex
    BY Numbers DEF Given
  <2>2. \A x \in Layer : x <= mBlendingNoneIndex => x \in 0 .. mBlendingNoneIndex
    BY Numbers DEF Given
  <2> QED
    BY <2>1, <2>2 DEF BelowBlendingNone
<1>5. L = between \cup all
  BY DEF Followers, wide
<1>6. range = IF below = {} THEN wide ELSE Widened(Widened(wide, Min(below)), Max(below))
  BY DEF NewClient, wide
<1> HIDE DEF between, all, L, range
<1>7. \A x \in between : In(x, wide)
  BY <1>2, <1>3, Numbers DEF In, Ranges
<1>8. CASE below = {}
  <2>1. L = between /\ range = wide
    BY <1>5, <1>6, <1>8
  <2> QED
    BY <1>2, <1>3, <1>7, <2>1 DEF L, range
<1>9. CASE below # {}
  <2>1. below \in SUBSET Layer
    BY <1>4
  <2>2. /\ Min(below) \in below /\ \A y \in below : Min(below) <= y
        /\ Max(below) \in below /\ \A y \in below : y <= Max(below)
    BY <1>9, <2>1, LeastLayer, GreatestLayer
  <2> DEFINE low == Min(below)
             top == Max(below)
             wider == Widened(wide, low)
  <2>3. low \in Layer /\ top \in Layer
    BY <2>1, <2>2
  <2> HIDE DEF low, top
  <2>4. /\ wider \in Ranges /\ Spanning(wider) /\ wider.has
        /\ In(low, wider)
        /\ \A x \in Layer : In(x, wide) => In(x, wider)
    BY <1>2, <2>3, WidenedSpans
  <2>5. \A x \in Layer : In(x, wider) => (In(x, wide) \/ x <= l \/ x <= low)
    BY <1>2, <2>3, WidenedByLittle
  <2> HIDE DEF wider
  <2>6. range = Widened(wider, top)
    BY <1>6, <1>9 DEF wider, low, top
  <2>7. /\ range \in Ranges /\ Spanning(range) /\ range.has
        /\ In(top, range)
        /\ \A x \in Layer : In(x, wider) => In(x, range)
    BY <2>3, <2>4, <2>6, WidenedSpans
  <2>8. \A x \in Layer : In(x, range) => (In(x, wider) \/ x <= low \/ x <= top)
    BY <2>3, <2>4, <2>6, WidenedByLittle
  <2>9. \A x \in below : In(x, range)
    <3> TAKE x \in below
    <3>1. low <= x /\ x <= top /\ x \in Layer
      BY <2>1, <2>2 DEF low, top
    <3>2. In(low, range) /\ In(top, range)
      BY <2>3, <2>4, <2>7
    <3> QED
      BY <2>3, <2>7, <3>1, <3>2, Numbers DEF In, Ranges
  <2>10. ASSUME NEW x \in Layer, In(x, range), ~High(x), s.type[x] # "CLIENT"
         PROVE  x = l \/ In(x, s.client) \/ x \in L
    <3>1. /\ l <= mBlendingNoneIndex /\ top <= mBlendingNoneIndex
          /\ low <= mBlendingNoneIndex
      BY <1>4, <2>2 DEF top, low
    <3>2. CASE x <= mBlendingNoneIndex
      BY <1>4, <1>5, <1>9, <2>10, <3>2
    <3>3. CASE ~(x <= mBlendingNoneIndex)
      <4>1. In(x, wide)
        BY <2>3, <2>5, <2>8, <2>10, <3>1, <3>3, Numbers DEF Given
      <4> QED
        BY <1>2, <1>3, <1>5, <2>10, <4>1
    <3> QED
      BY <3>2, <3>3
  <2>11. \A x \in Layer : x \in L \/ In(x, s.client) => In(x, range)
    <3>1. \A x \in Layer : In(x, wide) => In(x, range)
      BY <2>4, <2>7
    <3>2. \A x \in L : x \in between \/ x \in below
      BY <1>5
    <3>3. \A x \in between : x \in Layer
      BY <1>3
    <3> QED
      BY <1>2, <1>7, <2>9, <3>1, <3>2, <3>3
  <2>12. L \in SUBSET Layer /\ \A x \in L : ~High(x) /\ s.type[x] # "CLIENT"
    BY <1>3, <1>4, <1>5
  <2>13. In(l, range)
    BY <1>2, <2>4, <2>7
  <2> QED
    BY <2>7, <2>10, <2>11, <2>12, <2>13 DEF L, range
<1> QED
  BY <1>8, <1>9

LEMMA GivesAgain ==
  ASSUME NEW s, NEW t, NEW u, Gives(s, t), Gives(t, u)
  PROVE  Gives(s, u)
BY DEF Gives

(* addClientCompositionLayer() leaves the assignment sound and takes       *)
(* layers from the G2D and from their MPPs only; the client has the layer  *)
(* and all that its range spans.                                           *)
AddedToClient(s, t, l) ==
  /\ Sound(kind, t) /\ Gives(s, t)
  /\ t.client.has /\ In(l, t.client)
  /\ \A x \in Layer : In(x, s.client) => In(x, t.client)
  /\ t.otf[Client] = s.otf[Client]
  /\ t.exynos.has => s.exynos.has /\ t.otf[Exynos] = s.otf[Exynos]
  /\ ~s.client.has => SameResources(s, t) /\ t.exynos = s.exynos /\ t.ret = "changed"
  /\ ~t.moved => /\ t.exynos = s.exynos
                 /\ Blends(kind, s) =>
                      \A x \in Layer : s.type[x] = "EXYNOS" => t.type[x] = "EXYNOS"
  /\ Blends(kind, s) => Blends(kind, t) /\ t.ret # "error"
  /\ s.type[l] = "CLIENT" /\ s.m2m[l] = None /\ ClientHoldsBut(kind, s, {l})
       => ClientHoldsBut(kind, t, {})

LEMMA AddClient ==
  ASSUME Given, NEW s, Sound(kind, s), NEW l \in Layer
  PROVE  AddedToClient(s, addClientCompositionLayer(s, l), l)
<1> DEFINE wide == Widened(s.client, l)
           L == Followers(s, l)
           range == NewClient(s, l)
           res == addClientCompositionLayer(s, l)
<1>1. s \in Assignment /\ Steady(kind, s) /\ Spanning(s.client) /\ Spanning(s.exynos)
  BY DEF Sound, Steady
<1>2. kind \in [Layer -> Kind]
  BY DEF Given
<1>3. CASE ~s.client.has
  <2>1. res = [s EXCEPT !.client = wide, !.ret = "changed", !.moved = FALSE]
    BY <1>3 DEF addClientCompositionLayer
  <2>2. /\ wide \in Ranges /\ Spanning(wide) /\ wide.has /\ In(l, wide)
        /\ \A x \in Layer : In(x, s.client) => In(x, wide)
        /\ \A x \in Layer : In(x, wide) => x = l
    <3>1. wide = [has |-> TRUE, first |-> l, last |-> l]
      BY <1>3 DEF Widened
    <3> HIDE DEF wide
    <3> QED
      BY <1>3, <3>1, Numbers DEF Ranges, Spanning, In
  <2> HIDE DEF wide
  <2>3. /\ res \in Assignment /\ SameResources(s, res) /\ res.client = wide
        /\ res.exynos = s.exynos /\ res.ret = "changed"
    BY <1>1, <2>1, <2>2 DEF Assignment, Ret, SameResources
  <2> HIDE DEF res
  <2>4. Sound(kind, res)
    BY <1>1, <1>2, <2>2, <2>3, SameSteady DEF Sound
  <2>5. Gives(s, res)
    BY <2>3 DEF SameResources, Gives
  <2>6. Blends(kind, s) => Blends(kind, res) /\ res.ret # "error"
    BY <2>3 DEF SameResources, Blends
  <2>7. s.type[l] = "CLIENT" /\ s.m2m[l] = None /\ ClientHoldsBut(kind, s, {l})
          => ClientHoldsBut(kind, res, {})
    BY <2>2, <2>3 DEF SameResources, ClientHoldsBut
  <2> QED
    BY <2>2, <2>3, <2>4, <2>5, <2>6, <2>7 DEF SameResources, AddedToClient, res
<1>4. CASE s.client.has
  <2> DEFINE s1 == [s EXCEPT !.windows = @ - Cardinality({x \in Sandwiched(s, wide) :
                                                           s.type[x] = "DEVICE"})]
             t == ToClient(s1, L)
             u == [t EXCEPT !.client = range]
             v == [u EXCEPT !.ret = "ok", !.moved = FALSE]
  <2>1. res = IF L \cap ExynosLayers(s) # {} THEN shrinkExynos(u) ELSE v
    <3>1. Sandwiched(s, wide) \cup (BelowBlendingNone(s, l) \ Sandwiched(s, wide)) = L
      BY DEF Followers
    <3> QED
      BY <1>4, <3>1 DEF addClientCompositionLayer, NewClient
  <2>2. /\ L \in SUBSET Layer
        /\ range \in Ranges /\ Spanning(range) /\ range.has /\ In(l, range)
        /\ \A x \in Layer : x \in L \/ In(x, s.client) => In(x, range)
        /\ \A x \in L : ~High(x) /\ s.type[x] # "CLIENT"
        /\ \A x \in Layer :
             In(x, range) /\ ~High(x) /\ s.type[x] # "CLIENT"
               => (x = l \/ In(x, s.client) \/ x \in L)
    BY <1>1, FollowersInside
  <2>3. /\ s1 \in Assignment /\ SameResources(s, s1) /\ s1.client = s.client
        /\ s1.exynos = s.exynos
    <3>1. Cardinality({x \in Sandwiched(s, wide) : s.type[x] = "DEVICE"}) \in Nat
      BY LayersFinite DEF Sandwiched
    <3> HIDE DEF wide
    <3> QED
      BY <1>1, <3>1 DEF Assignment, SameResources
  <2> HIDE DEF s1, L, range
  <2>4. Steady(kind, s1)
    BY <1>1, <1>2, <2>3, SameSteady
  <2>5. /\ Steady(kind, t)
        /\ t.busy = s.busy /\ t.client = s.client /\ t.exynos = s.exynos
        /\ \A x \in Layer :
             /\ t.type[x] = IF x \in L THEN "CLIENT" ELSE s.type[x]
             /\ t.m2m[x] = IF x \in L THEN None ELSE s.m2m[x]
        /\ \A x \in Source \ L : t.otf[x] = s.otf[x]
    BY <1>2, <2>2, <2>3, <2>4, ToClientSteady DEF SameResources
  <2>6. \A x \in L : t.otf[x] = None
    <3>1. s1.otf \in [Source -> Otf \cup {None}]
      BY <2>3 DEF Assignment
    <3>2. \A x \in L : t.otf[x] = IF s1.otf[x] \in {s1.otf[y] : y \in L} \ {None}
                                  THEN None ELSE s1.otf[x]
      BY <2>2, <2>3, <3>1, Numbers DEF ToClient, resetAssignedResource, Assignment
    <3> QED
      BY <3>2
  <2> HIDE DEF t
  <2>7. t \in Assignment
    BY <2>5 DEF Steady
  <2>8. /\ u \in Assignment /\ SameResources(t, u) /\ u.client = range /\ u.exynos = t.exynos
        /\ v \in Assignment /\ SameResources(t, v) /\ v.client = range /\ v.exynos = t.exynos
        /\ v.ret = "ok" /\ ~v.moved
    BY <2>2, <2>7 DEF Assignment, SameResources, Ret
  <2> HIDE DEF u, v
  <2>9. Steady(kind, u) /\ Sound(kind, v)
    BY <1>1, <1>2, <2>2, <2>5, <2>8, SameSteady DEF Sound
  <2> DEFINE Same(w) == /\ w.type = t.type /\ w.m2m = t.m2m /\ w.busy = t.busy
                        /\ w.client = range /\ \A x \in Layer : w.otf[x] = t.otf[x]
  <2>10. \A w : Same(w) => Gives(s, w)
    BY <2>5, <2>6, Numbers DEF Gives
  <2>11. \A w : Same(w) /\ s.type[l] = "CLIENT" /\ s.m2m[l] = None
                 /\ ClientHoldsBut(kind, s, {l}) => ClientHoldsBut(kind, w, {})
    <3> SUFFICES ASSUME NEW w, Same(w), s.type[l] = "CLIENT", s.m2m[l] = None,
                        ClientHoldsBut(kind, s, {l}), NEW x \in Layer
                 PROVE  /\ w.type[x] = "CLIENT" => In(x, range) /\ w.m2m[x] = None
                        /\ In(x, range) /\ kind[x].priority < PriorityHigh
                             => w.type[x] = "CLIENT"
      BY DEF ClientHoldsBut
    <3>1. kind[x].priority < PriorityHigh <=> ~High(x)
      BY Priorities
    <3>2. ASSUME w.type[x] = "CLIENT" PROVE In(x, range) /\ w.m2m[x] = None
      BY <2>2, <2>5, <3>2 DEF ClientHoldsBut
    <3>3. ASSUME In(x, range), ~High(x) PROVE w.type[x] = "CLIENT"
      <4>1. s.type[x] = "CLIENT" \/ x = l \/ In(x, s.client) \/ x \in L
        BY <2>2, <3>3
      <4>2. In(x, s.client) => s.type[x] = "CLIENT"
        BY <3>1, <3>3 DEF ClientHoldsBut
      <4> QED
        BY <2>5, <4>1, <4>2
    <3> QED
      BY <3>1, <3>2, <3>3
  <2>12. \A x \in Source \ Layer : x \notin L
    BY <2>2
  <2>13. CASE L \cap ExynosLayers(s) # {}
    <3>1. res = shrinkExynos(u)
      BY <2>1, <2>13
    <3>2. /\ Sound(kind, res) /\ SameLayers(u, res) /\ res.client = u.client
          /\ u.exynos.has => \A x \in Layer : u.type[x] = "EXYNOS" => In(x, res.exynos)
          /\ u.exynos.has => res.ret # "error" /\ res.moved
      BY <1>1, <1>2, <2>5, <2>8, <2>9, <3>1, ShrinkExynosSteady
    <3>3. /\ res.otf[Client] = u.otf[Client]
          /\ res.exynos.has => u.exynos.has /\ res.otf[Exynos] = u.otf[Exynos]
          /\ ~res.moved => res.exynos = u.exynos
      <4>1. u \in Assignment
        BY <2>8
      <4>2. CASE u.exynos.first < 0 \/ u.exynos.last < 0
        BY <3>1, <4>1, <4>2 DEF shrinkExynos, Assignment
      <4>3. CASE ~(u.exynos.first < 0 \/ u.exynos.last < 0) /\ ExynosLayers(u) = {}
        <5>1. res = [initializeExynos(u) EXCEPT !.ret = "changed", !.moved = TRUE]
          BY <3>1, <4>3 DEF shrinkExynos
        <5>2. initializeExynos(u) \in Assignment /\ initializeExynos(u).exynos = NoRange
          BY <1>2, <2>9, InitializeSteady DEF Steady
        <5>3. initializeExynos(u).otf[Client] = u.otf[Client]
          BY <4>1, Numbers DEF initializeExynos, Assignment
        <5> HIDE DEF res
        <5> QED
          BY <5>1, <5>2, <5>3 DEF Assignment, NoRange
      <4>4. CASE ~(u.exynos.first < 0 \/ u.exynos.last < 0) /\ ExynosLayers(u) # {}
        <5>1. res = [u EXCEPT !.exynos.first = Min(ExynosLayers(u)),
                              !.exynos.last = Max(ExynosLayers(u)),
                              !.ret = "ok", !.moved = TRUE]
          BY <3>1, <4>4 DEF shrinkExynos
        <5>2. u.exynos \in Ranges
          BY <4>1 DEF Assignment
        <5> HIDE DEF res
        <5> QED
          BY <4>1, <5>1, <5>2 DEF Assignment, Ranges
      <4> QED
        BY <4>2, <4>3, <4>4
    <3> HIDE DEF res
    <3>4. Same(res)
      BY <2>8, <3>2 DEF SameResources, SameLayers
    <3>5. Blends(kind, s) => s.exynos.has
      <4>1. PICK x \in L : s.type[x] = "EXYNOS" /\ x \in Layer
        BY <2>13 DEF ExynosLayers
      <4> QED
        BY <4>1 DEF Blends, In
    <3>6. Blends(kind, s) => Blends(kind, res) /\ res.ret # "error"
      <4> SUFFICES ASSUME Blends(kind, s), NEW x \in Layer
                   PROVE  /\ res.m2m[x] = Blending <=> res.type[x] = "EXYNOS"
                          /\ res.type[x] = "EXYNOS" =>
                               kind[x].priority < PriorityHigh /\ In(x, res.exynos)
        BY <2>5, <2>8, <3>2, <3>5 DEF Blends
      <4>1. u.type = t.type /\ u.exynos.has
        BY <2>5, <2>8, <3>5 DEF SameResources
      <4> QED
        BY <2>5, <3>2, <3>4, <4>1, NotMPPs DEF Blends
    <3>7. Sound(kind, res) /\ Gives(s, res)
      BY <2>10, <3>2, <3>4
    <3>8. s.type[l] = "CLIENT" /\ s.m2m[l] = None /\ ClientHoldsBut(kind, s, {l})
            => ClientHoldsBut(kind, res, {})
      BY <2>11, <3>4
    <3>9. /\ res.otf[Client] = s.otf[Client]
          /\ res.exynos.has => s.exynos.has /\ res.otf[Exynos] = s.otf[Exynos]
          /\ ~res.moved => res.exynos = s.exynos
          /\ Blends(kind, s) => res.moved
      BY <2>5, <2>8, <2>12, <3>2, <3>3, <3>5, Numbers DEF SameResources
    <3>10. /\ res.client.has /\ In(l, res.client)
           /\ \A x \in Layer : In(x, s.client) => In(x, res.client)
      BY <2>2, <3>4
    <3> QED
      BY <1>4, <3>6, <3>7, <3>8, <3>9, <3>10 DEF AddedToClient, res
  <2>14. CASE L \cap ExynosLayers(s) = {}
    <3>1. res = v
      BY <2>1, <2>14
    <3> HIDE DEF res
    <3>2. Same(res)
      BY <2>8, <3>1 DEF SameResources
    <3>3. \A x \in Layer : s.type[x] = "EXYNOS" => x \notin L
      BY <2>14 DEF ExynosLayers
    <3>4. Blends(kind, s) => Blends(kind, res) /\ res.ret # "error"
      <4> SUFFICES ASSUME Blends(kind, s), NEW x \in Layer
                   PROVE  /\ res.m2m[x] = Blending <=> res.type[x] = "EXYNOS"
                          /\ res.type[x] = "EXYNOS" =>
                               kind[x].priority < PriorityHigh /\ In(x, res.exynos)
        BY <2>8, <3>1 DEF Blends
      <4>1. res.exynos = s.exynos
        BY <2>5, <2>8, <3>1
      <4> QED
        BY <2>5, <3>2, <3>3, <4>1, NotMPPs DEF Blends
    <3>5. Sound(kind, res) /\ Gives(s, res)
      BY <2>9, <2>10, <3>1, <3>2
    <3>6. s.type[l] = "CLIENT" /\ s.m2m[l] = None /\ ClientHoldsBut(kind, s, {l})
            => ClientHoldsBut(kind, res, {})
      BY <2>11, <3>2
    <3>7. /\ res.otf[Client] = s.otf[Client]
          /\ res.otf[Exynos] = s.otf[Exynos]
          /\ res.exynos = s.exynos
      BY <2>5, <2>8, <2>12, <3>1, Numbers DEF SameResources
    <3>8. /\ res.client.has /\ In(l, res.client)
          /\ \A x \in Layer : In(x, s.client) => In(x, res.client)
      BY <2>2, <3>2
    <3>9. \A x \in Layer : s.type[x] = "EXYNOS" => res.type[x] = "EXYNOS"
      BY <2>5, <3>2, <3>3
    <3> QED
      BY <1>4, <3>4, <3>5, <3>6, <3>7, <3>8, <3>9 DEF AddedToClient, res
  <2> QED
    BY <2>13, <2>14
<1> QED
  BY <1>3, <1>4

LEMMA FineAgain ==
  ASSUME NEW s, NEW t, NEW u, Fine(s, t), Fine(t, u)
  PROVE  Fine(s, u)
BY LetsAgain DEF Fine

LEMMA GivesLets ==
  ASSUME NEW s, NEW t, Gives(s, t)
  PROVE  Lets(s, t)
BY NotMPPs DEF Gives, Lets

LEMMA ToClientGives ==
  ASSUME NEW s \in Assignment, NEW L \in SUBSET Layer, Steady(kind, s), Given
  PROVE  Gives(s, ToClient(s, L))
<1> DEFINE t == ToClient(s, L)
<1>1. kind \in [Layer -> Kind]
  BY DEF Given
<1>2. /\ t.busy = s.busy
      /\ \A l \in Layer :
           /\ t.type[l] = IF l \in L THEN "CLIENT" ELSE s.type[l]
           /\ t.m2m[l] = IF l \in L THEN None ELSE s.m2m[l]
      /\ \A x \in Source \ L : t.otf[x] = s.otf[x]
  BY <1>1, ToClientSteady
<1>3. \A x \in L : t.otf[x] = None
  <2>1. s.otf \in [Source -> Otf \cup {None}]
    BY DEF Assignment
  <2>2. \A x \in L : t.otf[x] = IF s.otf[x] \in {s.otf[y] : y \in L} \ {None}
                                THEN None ELSE s.otf[x]
    BY <2>1, Numbers DEF ToClient, resetAssignedResource, Assignment
  <2> QED
    BY <2>2
<1> HIDE DEF t
<1> QED
  BY <1>2, <1>3, Numbers DEF Gives, t

LEMMA GiveLayerFine ==
  ASSUME Given, NEW s, Sound(kind, s), NEW l \in Layer
  PROVE  LET c == GiveLayer(s, l)
         IN  /\ Fine(s, c) /\ Gives(s, c) /\ c.type[l] = "CLIENT"
             /\ Settled(s) => c.ret # "error"
             /\ ~c.moved => c.exynos = s.exynos
             /\ c.client.has /\ In(l, c.client)
             /\ \A x \in Layer : In(x, s.client) => In(x, c.client)
             /\ c.otf[Client] = s.otf[Client]
<1> DEFINE t == ToClient(s, {l})
           c == GiveLayer(s, l)
<1>1. kind \in [Layer -> Kind] /\ s \in Assignment /\ Steady(kind, s)
  BY DEF Given, Sound, Steady
<1>2. /\ Steady(kind, t) /\ Lets(s, t)
      /\ t.busy = s.busy /\ t.client = s.client /\ t.exynos = s.exynos
      /\ t.windows = s.windows
      /\ \A x \in Layer :
           /\ t.type[x] = IF x \in {l} THEN "CLIENT" ELSE s.type[x]
           /\ t.m2m[x] = IF x \in {l} THEN None ELSE s.m2m[x]
      /\ \A x \in Source \ {l} : t.otf[x] = s.otf[x]
  BY <1>1, ToClientSteady
<1>3. Sound(kind, t) /\ Gives(s, t)
  BY <1>1, <1>2, ToClientGives DEF Sound
<1>4. AddedToClient(t, c, l)
  BY <1>3, AddClient DEF GiveLayer
<1> HIDE DEF t, c
<1>5. Settled(s) => /\ Blends(kind, t) /\ ClientHoldsBut(kind, t, {l})
                    /\ t.type[l] = "CLIENT" /\ t.m2m[l] = None
  <2>1. Blends(kind, s) => Blends(kind, t)
    BY <1>2, NotMPPs DEF Blends
  <2>2. ClientHoldsBut(kind, s, {}) => ClientHoldsBut(kind, t, {l})
    BY <1>2 DEF ClientHoldsBut
  <2> QED
    BY <1>2, <2>1, <2>2 DEF Settled
<1>6. Gives(s, c) /\ Lets(s, c)
  BY <1>3, <1>4, GivesAgain, GivesLets DEF AddedToClient
<1>7. Fine(s, c)
  BY <1>4, <1>5, <1>6 DEF Fine, Settled, AddedToClient
<1>8. c.type[l] = "CLIENT"
  BY <1>2, <1>4 DEF AddedToClient, Gives
<1>9. c.otf[Client] = s.otf[Client]
  BY <1>2, <1>4, Numbers DEF AddedToClient
<1> QED
  BY <1>2, <1>4, <1>5, <1>6, <1>7, <1>8, <1>9 DEF AddedToClient, c

LEMMA LeftToClient ==
  ASSUME NEW a \in [s : Assignment, invalid : BOOLEAN, changed : BOOLEAN, error : BOOLEAN],
         NEW c \in Assignment
  PROVE  LET b == leftToClient(a, c)
         IN  /\ b \in [s : Assignment, invalid : BOOLEAN, changed : BOOLEAN, error : BOOLEAN]
             /\ b.s = c /\ b.invalid = a.invalid /\ (b.error <=> c.ret = "error")
             /\ b.changed <=> a.changed \/ c.ret = "changed"
BY DEF leftToClient

(* Layer i, and no other, became one of the G2D's.                         *)
JustBlended(s, t, i) ==
  /\ t.exynos = Widened(s.exynos, i) /\ t.client = s.client /\ t.busy = s.busy
  /\ \A x \in Layer : t.type[x] = IF x = i THEN "EXYNOS" ELSE s.type[x]
  /\ \A x \in Source \ {i} : t.otf[x] = s.otf[x]

LEMMA BlendLayerFine ==
  ASSUME Given, NEW s, Sound(kind, s), NEW i \in Layer, canBlend(s, i), ~High(i),
         s.type[i] \notin {"CLIENT", "EXYNOS"}, NEW w \in Int
  PROVE  LET t == [resetAssignedResource(s, {i})
                     EXCEPT !.m2m[i] = Blending, !.type[i] = "EXYNOS",
                            !.windows = w, !.exynos = Widened(@, i)]
         IN  Fine(s, t) /\ JustBlended(s, t, i)
<1> DEFINE u == resetAssignedResource(s, {i})
           range == Widened(s.exynos, i)
           t == [u EXCEPT !.m2m[i] = Blending, !.type[i] = "EXYNOS",
                          !.windows = w, !.exynos = Widened(@, i)]
<1>1. kind \in [Layer -> Kind] /\ s \in Assignment /\ Steady(kind, s) /\ Within(kind, s)
      /\ s.exynos \in Ranges /\ Spanning(s.exynos)
  BY DEF Given, Sound, Steady, Assignment
<1>2. /\ Steady(kind, u)
      /\ u.type = s.type /\ u.busy = s.busy
      /\ u.client = s.client /\ u.exynos = s.exynos
      /\ \A x \in Layer : u.m2m[x] = IF x \in {i} THEN None ELSE s.m2m[x]
      /\ \A x \in Source \ {i} : u.otf[x] = s.otf[x]
  BY <1>1, ResetResourceSteady
<1>3. /\ range \in Ranges /\ Spanning(range) /\ range.has /\ In(i, range)
      /\ \A x \in Layer : In(x, s.exynos) => In(x, range)
  BY <1>1, WidenedSpans
<1>4. u \in Assignment /\ Owned(u)
  BY <1>2 DEF Steady
<1> HIDE DEF u, range
<1>5. t = [u EXCEPT !.m2m = [u.m2m EXCEPT ![i] = Blending],
                    !.type = [u.type EXCEPT ![i] = "EXYNOS"],
                    !.windows = w, !.exynos = range]
  BY <1>2, <1>4 DEF Assignment, range
<1>6. /\ [u.m2m EXCEPT ![i] = Blending] \in [Layer -> M2m \cup {None}]
      /\ [u.type EXCEPT ![i] = "EXYNOS"] \in [Layer -> Types]
  BY <1>4, NotMPPs DEF Assignment, Types
<1> HIDE DEF t
<1>7. /\ t \in Assignment /\ t.client = s.client /\ t.exynos = range
      /\ t.users = u.users /\ t.otf = u.otf /\ t.busy = s.busy
      /\ t.m2m = [u.m2m EXCEPT ![i] = Blending]
      /\ t.type = [u.type EXCEPT ![i] = "EXYNOS"]
  BY <1>2, <1>3, <1>4, <1>5, <1>6 DEF Assignment
<1>8. /\ \A x \in Layer : t.type[x] = IF x = i THEN "EXYNOS" ELSE s.type[x]
      /\ \A x \in Layer : t.m2m[x] = IF x = i THEN Blending ELSE s.m2m[x]
  BY <1>2, <1>4, <1>7 DEF Assignment
<1>9. Within(kind, t)
  <2>1. m2mAssignable(s, Blending) /\ hasEnoughCapa(s, i)
    BY DEF canBlend
  <2>2. t.m2m[i] = Blending /\ \A x \in Layer \ {i} : t.m2m[x] \in {s.m2m[x], None}
    BY <1>8
  <2>3. Blending \in M2m /\ t.busy = s.busy
    BY <1>7, NotMPPs
  <2> QED
    BY <1>1, <2>1, <2>2, <2>3, OneSourceMore
<1>10. Owned(t)
  BY <1>4, <1>7 DEF Owned
<1>11. Sound(kind, t)
  BY <1>3, <1>2, <1>7, <1>9, <1>10 DEF Sound, Steady
<1>12. Lets(s, t)
  BY <1>2, <1>7, <1>8, NotMPPs, Numbers DEF Lets
<1>13. Settled(s) => Settled(t)
  <2>1. kind[i].priority < PriorityHigh
    BY Priorities
  <2>2. Blends(kind, s) => Blends(kind, t)
    BY <1>3, <1>7, <1>8, <2>1 DEF Blends
  <2>3. ClientHoldsBut(kind, s, {}) => ClientHoldsBut(kind, t, {})
    BY <1>7, <1>8, <2>1 DEF ClientHoldsBut
  <2> QED
    BY <2>2, <2>3 DEF Settled
<1> QED
  BY <1>2, <1>7, <1>8, <1>11, <1>12, <1>13 DEF Fine, JustBlended, t, u, range

LEMMA WalkOn ==
  ASSUME Given, NEW s, NEW a \in Walk(s), NEW i \in Layer
  PROVE  blendSandwiched(a, i) \in Walk(s)
<1> DEFINE b == blendSandwiched(a, i)
           aa == [a EXCEPT !.invalid = TRUE]
           type == [s : Assignment, invalid : BOOLEAN, changed : BOOLEAN, error : BOOLEAN]
<1>1. a \in type /\ Fine(s, a.s) /\ Sound(kind, a.s) /\ a.s \in Assignment
      /\ (Settled(s) => ~a.error)
  BY DEF Walk, Fine
<1>2. aa \in type /\ aa.s = a.s /\ aa.error = a.error
  BY <1>1
<1>3. CASE a.error \/ High(i) \/ a.s.type[i] = "EXYNOS"
  BY <1>3 DEF blendSandwiched
<1>4. CASE ~(a.error \/ High(i) \/ a.s.type[i] = "EXYNOS") /\ a.s.type[i] = "CLIENT"
  <2>1. b = aa
    BY <1>4 DEF blendSandwiched
  <2> HIDE DEF b, aa
  <2> QED
    BY <1>1, <1>2, <2>1 DEF Walk, b
<1>5. CASE /\ ~(a.error \/ High(i) \/ a.s.type[i] = "EXYNOS")
           /\ a.s.type[i] # "CLIENT" /\ ~canBlend(a.s, i)
  <2> DEFINE c == GiveLayer(a.s, i)
  <2>1. b = leftToClient(aa, c)
    BY <1>5 DEF blendSandwiched, GiveLayer
  <2>2. Fine(a.s, c) /\ (Settled(a.s) => c.ret # "error") /\ c \in Assignment
    BY <1>1, GiveLayerFine DEF Fine, Sound, Steady
  <2> HIDE DEF c
  <2>3. b \in type /\ b.s = c /\ (b.error <=> c.ret = "error")
    BY <1>2, <2>1, <2>2, LeftToClient
  <2> HIDE DEF b
  <2>4. Fine(s, c) /\ (Settled(s) => Settled(a.s))
    BY <1>1, <2>2, FineAgain DEF Fine
  <2> QED
    BY <2>2, <2>3, <2>4 DEF Walk, b
<1>6. CASE /\ ~(a.error \/ High(i) \/ a.s.type[i] = "EXYNOS")
           /\ a.s.type[i] # "CLIENT" /\ canBlend(a.s, i)
  <2> DEFINE w == a.s.windows - (IF a.s.type[i] = "DEVICE" THEN 1 ELSE 0)
             u == resetAssignedResource(a.s, {i})
             t == [u EXCEPT !.m2m[i] = Blending, !.type[i] = "EXYNOS",
                            !.windows = w, !.exynos = Widened(@, i)]
  <2>1. w \in Int /\ u.windows = a.s.windows
    BY <1>1 DEF Assignment, resetAssignedResource
  <2>2. b = [a EXCEPT !.s = t]
    <3>1. b = [a EXCEPT !.s =
                 [u EXCEPT !.m2m[i] = Blending, !.type[i] = "EXYNOS",
                           !.windows = @ - (IF a.s.type[i] = "DEVICE" THEN 1 ELSE 0),
                           !.exynos = Widened(@, i)]]
      BY <1>6 DEF blendSandwiched
    <3> HIDE DEF u
    <3> QED
      BY <2>1, <3>1
  <2>3. Fine(a.s, t)
    BY <1>1, <1>6, <2>1, BlendLayerFine
  <2> HIDE DEF t, b
  <2>4. b \in type /\ b.s = t /\ b.error = a.error
    BY <1>1, <2>2, <2>3 DEF Fine, Sound, Steady
  <2>5. Fine(s, t)
    BY <1>1, <2>3, FineAgain
  <2> QED
    BY <1>1, <2>4, <2>5 DEF Walk, b
<1> QED
  BY <1>3, <1>4, <1>5, <1>6

LEMMA Times ==
  ASSUME NEW first \in Int, NEW last \in Int
  PROVE  /\ LoopTimes(first, last) \in Nat
         /\ \A n \in 1 .. LoopTimes(first, last) :
              first + n - 1 \in Int /\ first <= first + n - 1 /\ first + n - 1 <= last
         /\ LoopTimes(first, last) > 0 => LoopTimes(first, last) = last - first + 1
         /\ first <= last => LoopTimes(first, last) = last - first + 1
  BY DEF LoopTimes

LEMMA AllLayers ==
  /\ LayerNum \in Nat /\ LoopTimes(0, LayerNum - 1) = LayerNum
  /\ \A n \in 1 .. LayerNum : 0 + n - 1 \in Layer /\ 0 + n - 1 = n - 1
  BY ParametersOK DEF LoopTimes, Layer

LEMMA LayersBetween ==
  ASSUME NEW first \in Layer, NEW last \in Layer
  PROVE  /\ LoopTimes(first, last) \in Nat
         /\ \A n \in 1 .. LoopTimes(first, last) : first + n - 1 \in Layer
<1>1. first \in Int /\ last \in Int /\ 0 <= first /\ last <= LayerNum - 1
      /\ LayerNum \in Nat
  BY Numbers
<1>2. \A n \in 1 .. LoopTimes(first, last) :
        first + n - 1 \in Int /\ first <= first + n - 1 /\ first + n - 1 <= last
  BY <1>1, Times
<1>3. LoopTimes(first, last) \in Nat
  BY <1>1, Times
<1>4. ASSUME NEW n \in 1 .. LoopTimes(first, last)
      PROVE  first + n - 1 \in Layer
  <2> DEFINE i == first + n - 1
  <2>1. i \in Int /\ first <= i /\ i <= last
    BY <1>2
  <2> HIDE DEF i
  <2>2. i \in Layer
    BY <1>1, <2>1, Numbers
  <2> QED
    BY <2>2 DEF i
<1> QED
  BY <1>3, <1>4

(* The ends of the G2D's range, while addExynosCompositionLayer() moves    *)
(* them about.                                                             *)
Loose(range) ==
  \/ range = NoRange
  \/ range.has /\ 0 <= range.first /\ range.last <= LayerNum - 1

Rough(s, t) ==
  /\ Steady(kind, t) /\ Loose(t.exynos) /\ Lets(s, t)
  /\ Settled(s) => Settled(t)

LEMMA FineRough ==
  ASSUME NEW s, NEW t, Fine(s, t)
  PROVE  Rough(s, t)
<1>1. Loose(t.exynos)
  BY Numbers DEF Fine, Sound, Spanning, Loose
<1> QED
  BY <1>1 DEF Fine, Rough, Sound

LEMMA BesideClientRough ==
  ASSUME Given, NEW s, Sound(kind, s), Nests(s), NEW lower \in BOOLEAN
  PROVE  LET end == IF lower THEN s.exynos.first ELSE s.exynos.last
             t == besideClient(GiveLayer(s, end), lower)
         IN  /\ Rough(s, t) /\ (Settled(s) => t.ret # "error")
             /\ t.ret = "error" => Fine(s, t)
<1> DEFINE end == IF lower THEN s.exynos.first ELSE s.exynos.last
           c == GiveLayer(s, end)
           t == besideClient(c, lower)
<1>1. /\ s.exynos.has /\ s.exynos.first \in Layer /\ s.exynos.last \in Layer
      /\ s.exynos.first <= s.exynos.last
      /\ s.client.has /\ s.client.first \in Layer /\ s.client.last \in Layer
  <2>1. s.client.has /\ s.exynos.first < s.client.first /\ s.client.last < s.exynos.last
    BY DEF Nests
  <2>2. s.client.first \in Layer /\ s.client.last \in Layer
        /\ s.client.first <= s.client.last
    BY <2>1 DEF Sound, Steady, Spanning, NoRange
  <2>3. s.exynos # NoRange
    BY <2>1, <2>2, Numbers DEF NoRange
  <2> QED
    BY <2>1, <2>2, <2>3 DEF Sound, Spanning
<1>2. end \in Layer
  BY <1>1
<1>3. /\ Fine(s, c)
      /\ Settled(s) => c.ret # "error"
      /\ ~c.moved => c.exynos = s.exynos
      /\ c.client.has /\ In(end, c.client)
  BY <1>2, GiveLayerFine
<1>4. Steady(kind, c) /\ Lets(s, c) /\ c \in Assignment /\ kind \in [Layer -> Kind]
      /\ s.exynos \in Ranges
  BY <1>3 DEF Fine, Sound, Steady, Given, Assignment
<1>5. c.client.first \in Layer /\ c.client.last \in Layer /\ c.client.first <= c.client.last
  BY <1>3, <1>4 DEF Steady, Spanning, NoRange
<1> HIDE DEF c
<1>6. CASE c.moved \/ c.ret = "error"
  <2>1. t = c
    BY <1>6 DEF besideClient
  <2> HIDE DEF t
  <2> QED
    BY <1>3, <2>1, FineRough DEF c, t, end
<1>7. CASE ~(c.moved \/ c.ret = "error")
  <2> DEFINE range == IF lower THEN [s.exynos EXCEPT !.first = c.client.last + 1]
                               ELSE [s.exynos EXCEPT !.last = c.client.first - 1]
  <2>1. t = [c EXCEPT !.exynos = range]
    BY <1>3, <1>4, <1>7 DEF besideClient, Assignment
  <2>2. /\ range \in Ranges /\ range.has
        /\ range.first = IF lower THEN c.client.last + 1 ELSE s.exynos.first
        /\ range.last = IF lower THEN s.exynos.last ELSE c.client.first - 1
    BY <1>1, <1>4, <1>5, Numbers DEF Ranges
  <2> HIDE DEF range, t
  <2>3. t \in Assignment /\ SameResources(c, t) /\ t.client = c.client
        /\ t.exynos = range /\ t.ret = c.ret
    BY <1>4, <2>1, <2>2 DEF Assignment, SameResources
  <2>4. Steady(kind, t)
    BY <1>4, <2>3, SameSteady DEF Steady
  <2>5. Loose(range)
    BY <1>1, <1>5, <2>2, Numbers DEF Loose
  <2>6. Lets(s, t)
    BY <1>4, <2>3 DEF Lets, SameResources
  <2>7. Settled(s) => Settled(t)
    <3> SUFFICES ASSUME Settled(s) PROVE Settled(t)
      OBVIOUS
    <3>1. Blends(kind, c) /\ ClientHoldsBut(kind, c, {})
      BY <1>3 DEF Fine, Settled
    <3>2. ClientHoldsBut(kind, t, {})
      BY <2>3, <3>1 DEF ClientHoldsBut, SameResources
    <3>3. ASSUME NEW x \in Layer, c.type[x] = "EXYNOS"
          PROVE  In(x, range)
      <4>1. In(x, s.exynos) /\ ~In(x, c.client)
        <5>1. c.type[x] # "CLIENT"
          BY <3>3
        <5> QED
          BY <1>3, <1>7, <3>1, <3>3, <5>1 DEF Blends, ClientHoldsBut
      <4>2. CASE lower
        <5>1. c.client.first <= s.exynos.first
          BY <1>3, <4>2 DEF In
        <5> QED
          BY <1>1, <1>3, <1>5, <2>2, <4>1, <4>2, <5>1, Numbers DEF In
      <4>3. CASE ~lower
        <5>1. s.exynos.last <= c.client.last
          BY <1>3, <4>3 DEF In
        <5> QED
          BY <1>1, <1>3, <1>5, <2>2, <4>1, <4>3, <5>1, Numbers DEF In
      <4> QED
        BY <4>2, <4>3
    <3>4. Blends(kind, t)
      BY <2>3, <3>1, <3>3 DEF Blends, SameResources
    <3> QED
      BY <3>2, <3>4 DEF Settled
  <2> QED
    BY <1>3, <1>7, <2>3, <2>4, <2>5, <2>6, <2>7 DEF Rough, c, t, end
<1> QED
  BY <1>6, <1>7

(* Layers of high priority at the ends of the range do not count.          *)
LEMMA TrimRough ==
  ASSUME Given, NEW s0, NEW s, Rough(s0, s), NEW high,
         \A x \in Layer : x \in high => High(x)
  PROVE  Rough(s0, trimHigh(s, high))
<1> DEFINE W == {t \in Assignment : Rough(s0, t)}
           A == [n \in Int |-> W]
<1>0. kind \in [Layer -> Kind]
  BY DEF Given
<1>1. ASSUME NEW t \in W, NEW i \in Layer
      PROVE  TrimOne(t, i, high) \in W
  <2> DEFINE u == TrimOne(t, i, high)
             range == u.exynos
  <2>1. t \in Assignment /\ Rough(s0, t) /\ t.exynos \in Ranges /\ Steady(kind, t)
    BY DEF Assignment, Rough
  <2>2. CASE u = t
    BY <2>2
  <2>3. CASE u # t
    <3>1. i \in high /\ (i = t.exynos.first \/ i = t.exynos.last)
      BY <2>3 DEF TrimOne
    <3>2. t.exynos.has /\ 0 <= t.exynos.first /\ t.exynos.last <= LayerNum - 1
          /\ t.exynos.first \in Int /\ t.exynos.last \in Int
      BY <2>1, <3>1, Numbers DEF Rough, Loose, NoRange, Ranges
    <3>3. \/ u = [t EXCEPT !.exynos.first = @ + 1] /\ i = t.exynos.first
          \/ u = [t EXCEPT !.exynos.last = @ - 1] /\ i = t.exynos.last
      BY <3>1 DEF TrimOne
    <3>4. \/ u = [t EXCEPT !.exynos = range] /\ i = t.exynos.first
              /\ range = [t.exynos EXCEPT !.first = @ + 1]
          \/ u = [t EXCEPT !.exynos = range] /\ i = t.exynos.last
              /\ range = [t.exynos EXCEPT !.last = @ - 1]
      BY <2>1, <3>3 DEF Assignment
    <3> HIDE DEF u
    <3>5. /\ range \in Ranges /\ Loose(range)
          /\ \A x \in Layer : In(x, t.exynos) /\ x # i => In(x, range)
      BY <2>1, <3>2, <3>4, Numbers DEF Ranges, Loose, In
    <3> HIDE DEF range
    <3>6. u \in Assignment /\ SameResources(t, u) /\ u.client = t.client
          /\ u.exynos = range
      BY <2>1, <3>4, <3>5 DEF Assignment, SameResources
    <3>7. Steady(kind, u)
      BY <1>0, <2>1, <3>6, SameSteady DEF Steady
    <3>8. Lets(s0, u)
      BY <2>1, <3>6 DEF Rough, Lets, SameResources
    <3>9. Settled(t) => Settled(u)
      <4>1. ~(kind[i].priority < PriorityHigh)
        BY <3>1, Priorities
      <4>2. ClientHoldsBut(kind, t, {}) => ClientHoldsBut(kind, u, {})
        BY <3>6 DEF ClientHoldsBut, SameResources
      <4>3. Blends(kind, t) => Blends(kind, u)
        BY <3>5, <3>6, <4>1 DEF Blends, SameResources
      <4> QED
        BY <4>2, <4>3 DEF Settled
    <3> QED
      BY <2>1, <3>5, <3>6, <3>7, <3>8, <3>9 DEF Rough, u
  <2> QED
    BY <2>2, <2>3
<1>2. s \in A[0]
  BY DEF Rough, Steady
<1> HIDE DEF W
<1>3. \A n \in 1 .. LoopTimes(0, LayerNum - 1) : \A t \in A[n - 1] :
        TrimOne(t, 0 + n - 1, high) \in A[n]
  BY <1>1, AllLayers
<1>4. A[LoopTimes(0, LayerNum - 1)] = W
  BY AllLayers
<1> HIDE DEF A
<1>5. trimHigh(s, high) \in W
  BY <1>2, <1>3, <1>4, AllLayers, TrimLoop
<1> QED
  BY <1>5 DEF W

(* A layer of high priority inside: all the others are the client's.       *)
LEMMA SplitFine ==
  ASSUME Given, NEW s, Sound(kind, s), s.exynos.has, NEW high,
         \A x \in Layer : x \in high => High(x)
  PROVE  Fine(s, splitByHigh(s, high))
<1> DEFINE first == s.exynos.first
           last == s.exynos.last
           N == LoopTimes(first, last)
           W(n) == {t \in Assignment :
                      /\ Fine(s, t) /\ Gives(s, t)
                      /\ \A x \in Layer : first <= x /\ x < first + n /\ x \notin high
                           => t.type[x] = "CLIENT"}
           A == [n \in Int |-> W(n)]
           all == GiveAllBut(s, high)
<1>1. first \in Layer /\ last \in Layer /\ first <= last /\ first \in Int /\ last \in Int
      /\ s \in Assignment /\ kind \in [Layer -> Kind]
  BY Numbers DEF Given, Sound, Spanning, NoRange, Steady
<1>2. s \in A[0]
  <2>1. Fine(s, s) /\ Gives(s, s)
    BY DEF Fine, Lets, Gives
  <2>2. \A x \in Layer : ~(first <= x /\ x < first + 0)
    BY <1>1, Numbers
  <2> QED
    BY <1>1, <2>1, <2>2
<1>3. ASSUME NEW n \in 1 .. N, NEW t \in A[n - 1]
      PROVE  GiveBut(t, first + n - 1, high) \in A[n]
  <2> DEFINE i == first + n - 1
             u == GiveBut(t, i, high)
  <2>1. i \in Layer /\ n \in Int
    BY <1>1, LayersBetween
  <2>2. /\ t \in Assignment /\ Fine(s, t) /\ Gives(s, t)
        /\ \A x \in Layer : first <= x /\ x < i /\ x \notin high => t.type[x] = "CLIENT"
    BY <1>1, <2>1
  <2>3. i = first + n - 1 /\ n \in Int
    BY <2>1
  <2> HIDE DEF i, W
  <2>4. ASSUME NEW v \in Assignment, Fine(s, v), Gives(s, v), Gives(t, v),
               i \notin high => v.type[i] = "CLIENT"
        PROVE  v \in A[n]
    <3>1. ASSUME NEW x \in Layer, first <= x, x < first + n, x \notin high
          PROVE  v.type[x] = "CLIENT"
      <4>1. CASE x = i
        BY <2>4, <3>1, <4>1
      <4>2. CASE x # i
        <5>1. x < i
          BY <1>1, <2>1, <2>3, <3>1, <4>2, Numbers
        <5>2. t.type[x] = "CLIENT"
          BY <2>2, <3>1, <5>1
        <5> QED
          BY <2>4, <5>2 DEF Gives
      <4> QED
        BY <4>1, <4>2
    <3> QED
      BY <2>3, <2>4, <3>1 DEF W
  <2>5. CASE i \in high
    <3>1. u = t
      BY <2>5 DEF GiveBut
    <3>2. Gives(t, t)
      BY DEF Gives
    <3> QED
      BY <2>2, <2>4, <2>5, <3>1, <3>2 DEF i
  <2>6. CASE i \notin high
    <3>1. u = GiveLayer(t, i)
      BY <2>6 DEF GiveBut
    <3>2. Fine(t, u) /\ Gives(t, u) /\ u.type[i] = "CLIENT"
      BY <2>1, <2>2, <3>1, GiveLayerFine DEF Fine
    <3>3. Fine(s, u) /\ Gives(s, u) /\ u \in Assignment
      BY <2>2, <3>2, FineAgain, GivesAgain DEF Fine, Sound, Steady
    <3> HIDE DEF u
    <3> QED
      BY <2>4, <3>2, <3>3 DEF i, u
  <2> QED
    BY <2>5, <2>6
<1>4. N \in Nat /\ N \in Int /\ N = last - first + 1
  BY <1>1, Times
<1>5. all \in A[N]
  <2> HIDE DEF A, all, N
  <2> QED
    BY <1>1, <1>2, <1>3, GiveAllButLoop DEF all, N
<1>6. /\ all \in Assignment /\ Fine(s, all) /\ Gives(s, all)
      /\ \A x \in Layer : In(x, s.exynos) /\ x \notin high => all.type[x] = "CLIENT"
  BY <1>1, <1>4, <1>5, Numbers DEF In
<1> DEFINE e == initializeExynos(all)
<1>7. splitByHigh(s, high) = e
  BY DEF splitByHigh, GiveAllBut, GiveBut, GiveLayer
<1> HIDE DEF all
<1>8. /\ Sound(kind, e) /\ e.client = all.client
      /\ e.type = all.type /\ e.m2m = all.m2m /\ Lets(all, e)
  BY <1>1, <1>6, InitializeSteady DEF Fine, Sound
<1> HIDE DEF e
<1>9. Settled(s) => Settled(e)
  <2> SUFFICES ASSUME Settled(s) PROVE Settled(e)
    OBVIOUS
  <2>1. Blends(kind, all) /\ ClientHoldsBut(kind, all, {}) /\ Blends(kind, s)
    BY <1>6 DEF Fine, Settled
  <2>2. ClientHoldsBut(kind, e, {})
    BY <1>8, <2>1 DEF ClientHoldsBut
  <2>3. ASSUME NEW x \in Layer
        PROVE  all.type[x] # "EXYNOS"
    <3> SUFFICES ASSUME all.type[x] = "EXYNOS" PROVE FALSE
      OBVIOUS
    <3>1. s.type[x] = "EXYNOS"
      BY <1>6 DEF Gives
    <3>2. In(x, s.exynos) /\ ~High(x)
      BY <2>1, <3>1, Priorities DEF Blends
    <3> QED
      BY <1>6, <3>2
  <2>4. Blends(kind, e)
    BY <1>8, <2>1, <2>3 DEF Blends
  <2> QED
    BY <2>2, <2>4 DEF Settled
<1> QED
  BY <1>6, <1>7, <1>8, <1>9, LetsAgain DEF Fine

(* Only what was returned changes.                                         *)
LEMMA ReturnFine ==
  ASSUME Given, NEW s, NEW t, Fine(s, t), NEW ret \in Ret
  PROVE  LET u == [t EXCEPT !.ret = ret]
         IN  Fine(s, u) /\ u.ret = ret /\ SameResources(t, u)
             /\ u.client = t.client /\ u.exynos = t.exynos
<1> DEFINE u == [t EXCEPT !.ret = ret]
<1>1. t \in Assignment /\ kind \in [Layer -> Kind]
  BY DEF Given, Fine, Sound, Steady
<1>2. u \in Assignment /\ u.ret = ret /\ SameResources(t, u)
      /\ u.client = t.client /\ u.exynos = t.exynos
  BY <1>1 DEF Assignment, SameResources
<1> HIDE DEF u
<1>3. Sound(kind, u)
  BY <1>1, <1>2, SameSteady DEF Fine, Sound, Steady
<1>4. Lets(t, u)
  BY <1>2 DEF Lets, SameResources
<1>5. Settled(t) => Settled(u)
  BY <1>2 DEF Settled, Blends, ClientHoldsBut, SameResources
<1> QED
  BY <1>2, <1>3, <1>4, <1>5, LetsAgain DEF Fine, u

LEMMA WholeFine ==
  ASSUME Given, NEW s0, NEW s, Rough(s0, s), NEW high, NEW changed \in BOOLEAN,
         \A x \in Layer : x \in high => High(x)
  PROVE  LET t == whole(s, high, changed)
         IN  Fine(s0, t) /\ t.ret \in {"ok", "changed"}
<1> DEFINE t == whole(s, high, changed)
<1>1. s \in Assignment /\ Steady(kind, s) /\ Loose(s.exynos) /\ Lets(s0, s)
      /\ kind \in [Layer -> Kind]
  BY DEF Given, Rough, Steady
<1>2. "ok" \in Ret /\ "changed" \in Ret
  BY DEF Ret
<1>3. CASE EmptyRange(s.exynos)
  <2> DEFINE e == initializeExynos(s)
  <2>1. t = [e EXCEPT !.ret = "changed"]
    BY <1>3 DEF whole
  <2>2. /\ Sound(kind, e) /\ e.client = s.client /\ e.exynos = NoRange
        /\ e.type = s.type /\ e.m2m = s.m2m /\ Lets(s, e)
    BY <1>1, InitializeSteady
  <2> HIDE DEF e
  <2>3. Settled(s) => Settled(e)
    <3> SUFFICES ASSUME Settled(s) PROVE Settled(e)
      OBVIOUS
    <3>1. ASSUME NEW x \in Layer, In(x, s.exynos) PROVE FALSE
      <4>1. s.exynos.has /\ 0 <= s.exynos.first /\ s.exynos.last <= LayerNum - 1
            /\ s.exynos.first <= x /\ x <= s.exynos.last
            /\ s.exynos.first \in Int /\ s.exynos.last \in Int
        BY <1>1, <3>1 DEF In, Loose, NoRange, Assignment, Ranges
      <4>2. s.exynos.first \in Layer /\ s.exynos.last \in Layer
            /\ s.exynos.first <= s.exynos.last
        BY <4>1, Numbers
      <4> QED
        BY <1>3, <4>2 DEF EmptyRange
    <3>2. Blends(kind, s) => Blends(kind, e)
      BY <2>2, <3>1 DEF Blends
    <3>3. ClientHoldsBut(kind, s, {}) => ClientHoldsBut(kind, e, {})
      BY <2>2 DEF ClientHoldsBut
    <3> QED
      BY <3>2, <3>3 DEF Settled
  <2>4. Fine(s0, e)
    BY <1>1, <2>2, <2>3, LetsAgain DEF Fine, Rough
  <2>5. Fine(s0, t) /\ t.ret = "changed"
    BY <1>2, <2>1, <2>4, ReturnFine
  <2> QED
    BY <2>5
<1>4. CASE ~EmptyRange(s.exynos)
  <2>1. s.exynos.has /\ Sound(kind, s)
    <3>1. s.exynos # NoRange
      BY <1>4, Numbers DEF EmptyRange, NoRange
    <3> QED
      BY <1>1, <1>4, <3>1 DEF EmptyRange, Loose, Sound, Spanning
  <2>2. Fine(s0, s)
    BY <2>1 DEF Rough, Fine
  <2>3. CASE \E i \in high : s.exynos.first < i /\ i < s.exynos.last
    <3> DEFINE e == splitByHigh(s, high)
    <3>1. t = [e EXCEPT !.ret = "changed"]
      BY <1>4, <2>3 DEF whole
    <3>2. Fine(s, e)
      BY <2>1, SplitFine
    <3> HIDE DEF e
    <3>3. Fine(s0, e)
      BY <2>2, <3>2, FineAgain
    <3>4. Fine(s0, t) /\ t.ret = "changed"
      BY <1>2, <3>1, <3>3, ReturnFine
    <3> QED
      BY <3>4
  <2>4. CASE ~\E i \in high : s.exynos.first < i /\ i < s.exynos.last
    <3> DEFINE ret == IF changed THEN "changed" ELSE "ok"
    <3>1. t = [s EXCEPT !.ret = ret]
      BY <1>4, <2>4 DEF whole
    <3>2. ret \in Ret /\ ret \in {"ok", "changed"}
      BY <1>2
    <3> HIDE DEF ret
    <3>3. Fine(s0, t) /\ t.ret = ret
      BY <2>2, <3>1, <3>2, ReturnFine
    <3> QED
      BY <3>2, <3>3
  <2> QED
    BY <2>3, <2>4
<1> QED
  BY <1>3, <1>4

LEMMA UnnestRough ==
  ASSUME Given, NEW s0, NEW a \in Walk(s0)
  PROVE  LET b == unnest(a)
         IN  /\ Rough(s0, b.s) /\ (Settled(s0) => ~b.error)
             /\ b.error \in BOOLEAN /\ b.changed \in BOOLEAN
             /\ b.error => Fine(s0, b.s)
<1> DEFINE s == a.s
           lower == s.client.first - s.exynos.first < s.exynos.last - s.client.last
           end == IF lower THEN s.exynos.first ELSE s.exynos.last
           c == besideClient(GiveLayer(s, end), lower)
           b == unnest(a)
           type == [s : Assignment, invalid : BOOLEAN, changed : BOOLEAN, error : BOOLEAN]
<1>1. a \in type /\ Fine(s0, s) /\ (Settled(s0) => ~a.error)
  BY DEF Walk
<1>2. CASE ~a.invalid \/ a.error \/ ~Nests(s)
  <2>1. b = a
    BY <1>2 DEF unnest
  <2> HIDE DEF b
  <2> QED
    BY <1>1, <2>1, FineRough DEF b
<1>3. CASE ~(~a.invalid \/ a.error \/ ~Nests(s))
  <2>1. b = leftToClient(a, c)
    BY <1>3 DEF unnest, GiveLayer
  <2>2. /\ Rough(s, c) /\ (Settled(s) => c.ret # "error")
        /\ c.ret = "error" => Fine(s, c)
    <3>1. lower \in BOOLEAN
      OBVIOUS
    <3>2. Sound(kind, s) /\ Nests(s)
      BY <1>1, <1>3 DEF Fine
    <3> HIDE DEF lower
    <3> QED
      BY <3>1, <3>2, BesideClientRough
  <2> HIDE DEF c, b
  <2>3. c \in Assignment
    BY <2>2 DEF Rough, Steady
  <2>4. b \in type /\ b.s = c /\ (b.error <=> c.ret = "error")
    BY <1>1, <2>1, <2>3, LeftToClient
  <2>5. Rough(s0, c)
    BY <1>1, <2>2, LetsAgain DEF Rough, Fine
  <2>6. Settled(s0) => c.ret # "error"
    BY <1>1, <2>2 DEF Fine
  <2>7. c.ret = "error" => Fine(s0, c)
    BY <1>1, <2>2, FineAgain
  <2> QED
    BY <2>4, <2>5, <2>6, <2>7 DEF b
<1> QED
  BY <1>2, <1>3

LEMMA TrimmedFine ==
  ASSUME Given, NEW s0, NEW a, NEW high, \A x \in Layer : x \in high => High(x),
         Rough(s0, a.s), Settled(s0) => ~a.error,
         a.error \in BOOLEAN, a.changed \in BOOLEAN, a.error => Fine(s0, a.s)
  PROVE  LET t == trimmed(a, high)
         IN  Fine(s0, t) /\ (Settled(s0) => t.ret # "error")
<1>1. CASE a.error
  <2>1. trimmed(a, high) = [a.s EXCEPT !.ret = "error"]
    BY <1>1 DEF trimmed
  <2>2. "error" \in Ret
    BY DEF Ret
  <2> QED
    BY <1>1, <2>1, <2>2, ReturnFine
<1>2. CASE ~a.error
  <2> DEFINE u == trimHigh(a.s, high)
  <2>1. trimmed(a, high) = whole(u, high, a.changed)
    BY <1>2 DEF trimmed
  <2>2. Rough(s0, u)
    BY TrimRough
  <2> HIDE DEF u
  <2>3. /\ Fine(s0, whole(u, high, a.changed))
        /\ whole(u, high, a.changed).ret \in {"ok", "changed"}
    BY <2>2, WholeFine
  <2> QED
    BY <2>1, <2>3
<1> QED
  BY <1>1, <1>2

(* addExynosCompositionLayer() leaves the assignment sound; with a layer   *)
(* that has just become the G2D's, every layer is held again.              *)
SettledBut(s, l) ==
  /\ ClientHoldsBut(kind, s, {})
  /\ \A x \in Layer :
       /\ s.m2m[x] = Blending <=> s.type[x] = "EXYNOS"
       /\ s.type[x] = "EXYNOS" => /\ kind[x].priority < PriorityHigh
                                  /\ x = l \/ In(x, s.exynos)

LEMMA AddExynos ==
  ASSUME Given, NEW s, Sound(kind, s), NEW l \in Layer
  PROVE  LET t == addExynosCompositionLayer(s, l)
         IN  /\ Sound(kind, t) /\ Lets(s, t)
             /\ SettledBut(s, l) => Settled(t) /\ t.ret # "error"
<1> DEFINE range == Widened(s.exynos, l)
           s1 == [s EXCEPT !.exynos = range]
           start == [s |-> s1, invalid |-> FALSE, changed |-> FALSE, error |-> FALSE]
           high == {x \in range.first .. range.last : High(x)}
           t == addExynosCompositionLayer(s, l)
           type == [s : Assignment, invalid : BOOLEAN, changed : BOOLEAN, error : BOOLEAN]
<1>1. s \in Assignment /\ kind \in [Layer -> Kind] /\ s.exynos \in Ranges
      /\ Spanning(s.exynos) /\ Steady(kind, s)
  BY DEF Given, Sound, Steady, Assignment
<1>2. /\ range \in Ranges /\ Spanning(range) /\ range.has /\ In(l, range)
      /\ \A x \in Layer : In(x, s.exynos) => In(x, range)
  BY <1>1, WidenedSpans
<1>3. range.first \in Layer /\ range.last \in Layer /\ range.first \in Int /\ range.last \in Int
  BY <1>2, Numbers DEF Spanning, NoRange
<1>4. \A x \in Layer : x \in high => High(x)
  OBVIOUS
<1> HIDE DEF range, high
<1>5. s1 \in Assignment /\ SameResources(s, s1) /\ s1.client = s.client /\ s1.exynos = range
  BY <1>1, <1>2 DEF Assignment, SameResources
<1>6. t = IF ~s.exynos.has THEN [s1 EXCEPT !.ret = "changed"]
          ELSE trimmed(unnest(Loop(blendSandwiched, start, range.first, range.last)), high)
  BY DEF addExynosCompositionLayer, range, high
<1> HIDE DEF s1, t
<1>7. Sound(kind, s1)
  BY <1>1, <1>2, <1>5, SameSteady DEF Sound, Steady
<1>8. Lets(s, s1)
  BY <1>5 DEF Lets, SameResources
<1>9. SettledBut(s, l) => Settled(s1)
  BY <1>2, <1>5 DEF SettledBut, Settled, Blends, ClientHoldsBut, SameResources
<1>10. Fine(s1, s1)
  BY <1>7 DEF Fine, Lets
<1>11. Fine(s1, t) /\ (Settled(s1) => t.ret # "error")
  <2>1. CASE ~s.exynos.has
    <3>1. t = [s1 EXCEPT !.ret = "changed"] /\ "changed" \in Ret
      BY <1>6, <2>1 DEF Ret
    <3> QED
      BY <1>10, <3>1, ReturnFine
  <2>2. CASE s.exynos.has
    <3> DEFINE W == Walk(s1)
               A == [n \in Int |-> W]
               N == LoopTimes(range.first, range.last)
               a == Loop(blendSandwiched, start, range.first, range.last)
    <3>1. start \in W
      BY <1>5, <1>10 DEF Walk
    <3> HIDE DEF start, W
    <3>2. \A n \in 1 .. N : range.first + n - 1 \in Layer
      BY <1>3, LayersBetween
    <3>3. \A x \in W, i \in Layer : blendSandwiched(x, i) \in W
      BY WalkOn DEF W
    <3>4. N \in Nat
      BY <1>3, LayersBetween
    <3>5. a \in A[N]
      <4>1. start \in A[0] /\ \A n \in 1 .. N : \A x \in A[n - 1] :
              blendSandwiched(x, range.first + n - 1) \in A[n]
        BY <3>1, <3>2, <3>3, <3>4
      <4> HIDE DEF A
      <4> QED
        BY <1>3, <4>1, WalkLoop
    <3>6. a \in Walk(s1)
      BY <3>4, <3>5 DEF W
    <3> HIDE DEF a
    <3> DEFINE b == unnest(a)
    <3>7. /\ Rough(s1, b.s) /\ (Settled(s1) => ~b.error)
          /\ b.error \in BOOLEAN /\ b.changed \in BOOLEAN
          /\ b.error => Fine(s1, b.s)
      BY <3>6, UnnestRough
    <3> HIDE DEF b
    <3>8. t = trimmed(b, high)
      BY <1>6, <2>2 DEF a, b
    <3> QED
      BY <1>4, <3>7, <3>8, TrimmedFine
  <2> QED
    BY <2>1, <2>2
<1> QED
  BY <1>8, <1>9, <1>11, LetsAgain DEF Fine, t

-----------------------------------------------------------------------------
(* The resources for one source.                                           *)

LEMMA FreeOtf ==
  ASSUME NEW s, NEW given
  PROVE  LET o == freeOtf(s, given)
         IN  o # None => o \in Otf /\ o \in given /\ s.users[o] = {}
<1> DEFINE free == {k \in DOMAIN OtfMPPs :
                      OtfMPPs[k] \in given /\ otfAssignable(s, OtfMPPs[k])}
<1>1. OtfMPPs \in Seq(Otf) /\ free \in SUBSET Nat /\ free \subseteq DOMAIN OtfMPPs
  BY ParametersOK
<1>2. CASE free = {}
  BY <1>2 DEF freeOtf
<1>3. CASE free # {}
  <2>1. Min(free) \in free
    BY <1>1, <1>3, LeastOne
  <2>2. freeOtf(s, given) = OtfMPPs[Min(free)]
    BY <1>3 DEF freeOtf
  <2>3. OtfMPPs[Min(free)] \in given /\ s.users[OtfMPPs[Min(free)]] = {}
    BY <2>1 DEF otfAssignable
  <2>4. OtfMPPs[Min(free)] \in Otf
    BY <1>1, <2>1 DEF Otf, Range
  <2> QED
    BY <2>2, <2>3, <2>4
<1> QED
  BY <1>2, <1>3

(* What assignLayer() answers is there to be had.                          *)
Suits(s, l, a) ==
  \/ a = Answer("CLIENT", None, None)
  \/ /\ a.type = "DEVICE" /\ a.otf \in Otf /\ s.users[a.otf] = {}
     /\ \/ a.m2m = None
        \/ a.m2m = Single /\ m2mAssignable(s, Single) /\ hasEnoughCapa(s, l)
  \/ a = Answer("EXYNOS", None, Blending) /\ canBlend(s, l)

LEMMA AssignLayerSuits ==
  ASSUME NEW s, NEW l \in Layer
  PROVE  Suits(s, l, assignLayer(s, l))
<1> DEFINE blocked == Obstacles(s, l)
           supports == kind[l].supports
           direct == freeOtf(s, supports)
           any == freeOtf(s, Otf)
           single == /\ Single \in supports /\ m2mAssignable(s, Single)
                     /\ hasEnoughCapa(s, l) /\ any # None
           a == assignLayer(s, l)
<1>1. direct # None => direct \in Otf /\ s.users[direct] = {}
  BY FreeOtf
<1>2. any # None => any \in Otf /\ s.users[any] = {}
  BY FreeOtf
<1>3. \/ a = Answer("CLIENT", None, None)
      \/ a = Answer("DEVICE", direct, None) /\ direct # None
      \/ a = Answer("DEVICE", any, Single) /\ single
      \/ a = Answer("EXYNOS", None, Blending) /\ canBlend(s, l)
  BY DEF assignLayer
<1> HIDE DEF direct, any, a
<1> QED
  BY <1>1, <1>2, <1>3 DEF Suits, Answer, a

(* assignMPP().                                                            *)
Assigned(s, t, l, a) ==
  /\ Firm(kind, t) /\ t.busy = s.busy
  /\ t.client = s.client /\ t.exynos = s.exynos
  /\ \A x \in Layer : /\ t.type[x] = IF x = l THEN a.type ELSE s.type[x]
                      /\ t.m2m[x] = IF x = l /\ a.m2m # None THEN a.m2m ELSE s.m2m[x]
  /\ \A x \in Source \ {l} : t.otf[x] = s.otf[x]
  /\ t.otf[l] = IF a.otf # None THEN a.otf ELSE s.otf[l]

LEMMA AssignFirm ==
  ASSUME Given, NEW s, Firm(kind, s), NEW l \in Layer, NEW a, Suits(s, l, a)
  PROVE  Assigned(s, assign(s, l, a), l, a)
<1> DEFINE t == IF a.otf = None THEN s ELSE assignOtf(s, a.otf, l)
           u == IF a.m2m = None THEN t ELSE [t EXCEPT !.m2m[l] = a.m2m]
           w == IF a.type = "DEVICE" THEN u.windows + 1 ELSE u.windows
           v == assign(s, l, a)
<1>1. kind \in [Layer -> Kind] /\ s \in Assignment /\ Within(kind, s)
      /\ l \in Source
  BY Numbers DEF Given, Firm
<1>2. /\ a.type \in Types
      /\ a.otf # None => a.otf \in Otf /\ s.users[a.otf] = {}
      /\ a.m2m # None => /\ a.m2m \in M2m /\ m2mAssignable(s, a.m2m)
                         /\ hasEnoughCapa(s, l)
  BY NotMPPs DEF Suits, Answer, Types, canBlend
<1>3. /\ Firm(kind, t) /\ t.type = s.type /\ t.m2m = s.m2m /\ t.busy = s.busy
      /\ t.client = s.client /\ t.exynos = s.exynos
      /\ \A x \in Source \ {l} : t.otf[x] = s.otf[x]
      /\ t.otf[l] = IF a.otf # None THEN a.otf ELSE s.otf[l]
  <2>1. CASE a.otf = None
    BY <1>1, <2>1
  <2>2. CASE a.otf # None
    <3> DEFINE t2 == assignOtf(s, a.otf, l)
    <3>1. t = t2
      BY <2>2
    <3>2. /\ Firm(kind, t2)
          /\ t2.type = s.type /\ t2.m2m = s.m2m /\ t2.busy = s.busy
          /\ t2.client = s.client /\ t2.exynos = s.exynos
          /\ t2.otf[l] = a.otf
      BY <1>1, <1>2, <2>2, AssignOtfFirm
    <3>3. \A x \in Source \ {l} : t2.otf[x] = s.otf[x]
      BY <1>1 DEF assignOtf, Assignment
    <3> HIDE DEF t, t2
    <3> QED
      BY <2>2, <3>1, <3>2, <3>3
  <2> QED
    BY <2>1, <2>2
<1>4. t \in Assignment /\ Owned(t)
  BY <1>3 DEF Firm
<1> HIDE DEF t
<1>5. /\ u \in Assignment /\ u.type = t.type /\ u.busy = t.busy /\ u.otf = t.otf
      /\ u.client = t.client /\ u.exynos = t.exynos /\ u.users = t.users
      /\ \A x \in Layer : u.m2m[x] = IF x = l /\ a.m2m # None THEN a.m2m ELSE t.m2m[x]
  <2>1. CASE a.m2m = None
    BY <1>4, <2>1
  <2>2. CASE a.m2m # None
    <3>1. u = [t EXCEPT !.m2m = [t.m2m EXCEPT ![l] = a.m2m]]
      BY <1>4, <2>2 DEF Assignment
    <3>2. [t.m2m EXCEPT ![l] = a.m2m] \in [Layer -> M2m \cup {None}]
      BY <1>2, <1>4, <2>2 DEF Assignment
    <3> HIDE DEF u
    <3>3. u \in Assignment /\ u.type = t.type /\ u.busy = t.busy /\ u.otf = t.otf
          /\ u.client = t.client /\ u.exynos = t.exynos /\ u.users = t.users
          /\ u.m2m = [t.m2m EXCEPT ![l] = a.m2m]
      BY <1>4, <3>1, <3>2 DEF Assignment
    <3> QED
      BY <1>4, <2>2, <3>3 DEF Assignment
  <2> QED
    BY <2>1, <2>2
<1> HIDE DEF u
<1>6. v = [u EXCEPT !.type = [u.type EXCEPT ![l] = a.type], !.windows = w]
  BY <1>5 DEF assign, Assignment, u, t
<1>7. w \in Int /\ [u.type EXCEPT ![l] = a.type] \in [Layer -> Types]
  BY <1>2, <1>5 DEF Assignment, Types
<1> HIDE DEF v, w
<1>8. /\ v \in Assignment /\ v.busy = u.busy /\ v.otf = u.otf /\ v.m2m = u.m2m
      /\ v.client = u.client /\ v.exynos = u.exynos /\ v.users = u.users
      /\ v.type = [u.type EXCEPT ![l] = a.type]
  BY <1>5, <1>6, <1>7 DEF Assignment, Types
<1>9. \A x \in Layer : v.type[x] = IF x = l THEN a.type ELSE s.type[x]
  BY <1>3, <1>5, <1>8 DEF Assignment
<1>10. Within(kind, v)
  <2>1. v.busy = s.busy /\ \A x \in Layer :
          v.m2m[x] = IF x = l /\ a.m2m # None THEN a.m2m ELSE s.m2m[x]
    BY <1>3, <1>5, <1>8
  <2>2. CASE a.m2m = None
    BY <1>1, <2>1, <2>2, TakenAway
  <2>3. CASE a.m2m # None
    <3>1. a.m2m \in M2m /\ m2mAssignable(s, a.m2m) /\ hasEnoughCapa(s, l)
          /\ v.m2m[l] = a.m2m /\ \A x \in Layer \ {l} : v.m2m[x] \in {s.m2m[x], None}
      BY <1>2, <2>1, <2>3
    <3> QED
      BY <1>1, <2>1, <3>1, OneSourceMore
  <2> QED
    BY <2>2, <2>3
<1>11. Owned(v)
  BY <1>4, <1>5, <1>8 DEF Owned
<1>12. Firm(kind, v)
  BY <1>8, <1>10, <1>11 DEF Firm
<1> QED
  BY <1>3, <1>5, <1>8, <1>9, <1>12 DEF Assigned, v

LEMMA AssignSound ==
  ASSUME Given, NEW s, Sound(kind, s), NEW l \in Layer, NEW a, Suits(s, l, a)
  PROVE  Sound(kind, assign(s, l, a)) /\ Assigned(s, assign(s, l, a), l, a)
<1>1. Firm(kind, s) /\ Spanning(s.client) /\ Spanning(s.exynos)
  BY DEF Sound, Steady, Firm
<1>2. Assigned(s, assign(s, l, a), l, a)
  BY <1>1, AssignFirm
<1> QED
  BY <1>1, <1>2 DEF Sound, Steady, Firm, Assigned

LEMMA TargetSound ==
  ASSUME Given, NEW s, Sound(kind, s), NEW target \in {Client, Exynos}
  PROVE  LET t == assignCompositionTarget(s, target)
             has == IF target = Client THEN s.client.has ELSE s.exynos.has
         IN  /\ Sound(kind, t) /\ t.type = s.type /\ t.m2m = s.m2m /\ t.busy = s.busy
             /\ t.client = s.client /\ t.exynos = s.exynos
             /\ \A x \in Source \ {target} : t.otf[x] = s.otf[x]
             /\ t.ret \in {"ok", "error"}
             /\ t.ret = "ok" /\ has => t.otf[target] # None
             /\ t.ret = "ok" /\ ~has => t.otf = s.otf
<1> DEFINE t == assignCompositionTarget(s, target)
           has == IF target = Client THEN s.client.has ELSE s.exynos.has
           o == freeOtf(s, Otf)
           w == s.windows
<1>1. kind \in [Layer -> Kind] /\ s \in Assignment /\ Steady(kind, s)
      /\ target \in Source /\ Spanning(s.exynos)
  BY Numbers DEF Given, Sound, Steady
<1>2. o # None => o \in Otf /\ s.users[o] = {}
  BY FreeOtf
<1>3. "ok" \in Ret /\ "error" \in Ret
  BY DEF Ret
<1> HIDE DEF o, has
<1>4. CASE ~has \/ o = None
  <2> DEFINE ret == IF ~has THEN "ok" ELSE "error"
  <2>1. t = [s EXCEPT !.ret = ret]
    BY <1>4 DEF assignCompositionTarget, has, o
  <2>2. ret \in Ret
    BY <1>3
  <2> HIDE DEF t
  <2>3. t \in Assignment /\ SameResources(s, t) /\ t.client = s.client
        /\ t.exynos = s.exynos /\ t.ret = ret
    BY <1>1, <2>1, <2>2 DEF Assignment, SameResources
  <2>4. Sound(kind, t)
    BY <1>1, <2>3, SameSteady DEF Sound, Steady
  <2> QED
    BY <2>3, <2>4 DEF SameResources, t, has
<1>5. CASE has /\ o # None
  <2> DEFINE u == assignOtf(s, o, target)
  <2>1. t = [u EXCEPT !.windows = @ + 1, !.ret = "ok"]
    BY <1>5 DEF assignCompositionTarget, has, o
  <2>2. /\ Steady(kind, u)
        /\ u.type = s.type /\ u.m2m = s.m2m /\ u.busy = s.busy
        /\ u.client = s.client /\ u.exynos = s.exynos
        /\ u.otf[target] = o
    BY <1>1, <1>2, <1>5, AssignOtfSteady
  <2>3. \A x \in Source \ {target} : u.otf[x] = s.otf[x]
    BY <1>1 DEF assignOtf, Assignment
  <2> HIDE DEF u, t
  <2>4. u \in Assignment
    BY <2>2 DEF Steady
  <2> DEFINE n == u.windows + 1
  <2>0. n \in Int /\ t = [u EXCEPT !.windows = n, !.ret = "ok"]
    BY <2>1, <2>4 DEF Assignment
  <2> HIDE DEF n
  <2>5. t \in Assignment /\ SameResources(u, t) /\ t.client = u.client
        /\ t.exynos = u.exynos /\ t.ret = "ok"
    BY <1>3, <2>0, <2>4 DEF Assignment, SameResources
  <2>6. Sound(kind, t)
    BY <1>1, <2>2, <2>5, SameSteady DEF Sound, Steady
  <2> QED
    BY <1>5, <2>2, <2>3, <2>5, <2>6 DEF SameResources, t, has
<1> QED
  BY <1>4, <1>5

LEMMA ResetAllFirm ==
  ASSUME Given, NEW s, Firm(kind, s), NEW force \in BOOLEAN
  PROVE  LET t == resetAssignedResources(s, force)
         IN  /\ Firm(kind, t) /\ t.type = s.type /\ t.busy = s.busy
             /\ t.client = s.client /\ t.exynos = s.exynos /\ t.ret = s.ret
             /\ \A x \in Source : t.otf[x] = None
             /\ \A l \in Layer : t.m2m[l] = IF s.m2m[l] = Blending /\ ~force
                                            THEN Blending ELSE None
             /\ \A o \in Otf : t.users[o] = {}
<1> DEFINE t == resetAssignedResources(s, force)
           users == [o \in Otf |-> {}]
           otf == [x \in Source |-> None]
           m2m == [l \in Layer |-> IF s.m2m[l] = Blending /\ ~force THEN Blending ELSE None]
<1>1. kind \in [Layer -> Kind] /\ s \in Assignment /\ Within(kind, s)
  BY DEF Given, Firm
<1>2. t = [s EXCEPT !.users = users, !.otf = otf, !.m2m = m2m, !.windows = 0]
  BY <1>1 DEF resetAssignedResources, Assignment
<1>3. /\ m2m \in [Layer -> M2m \cup {None}] /\ users \in [Otf -> SUBSET Source]
      /\ otf \in [Source -> Otf \cup {None}] /\ 0 \in Int
  BY NotMPPs
<1>4. \A l \in Layer : m2m[l] = IF s.m2m[l] = Blending /\ ~force THEN Blending ELSE None
  OBVIOUS
<1> HIDE DEF t, m2m, users, otf
<1>5. /\ t \in Assignment /\ t.type = s.type /\ t.busy = s.busy
      /\ t.client = s.client /\ t.exynos = s.exynos /\ t.ret = s.ret /\ t.m2m = m2m
      /\ t.users = users /\ t.otf = otf
  BY <1>1, <1>2, <1>3 DEF Assignment
<1>6. Owned(t)
  BY <1>5 DEF Owned, users, otf
<1>7. Within(kind, t)
  BY <1>1, <1>4, <1>5, TakenAway
<1> QED
  BY <1>1, <1>4, <1>5, <1>6, <1>7 DEF Firm, t, users, otf

LEMMA ReassignSound ==
  ASSUME Given, NEW s, Sound(kind, s)
  PROVE  LET t == reassign(s)
         IN  /\ Sound(kind, t) /\ t.ret = "changed" /\ t.busy = s.busy
             /\ t.client = NoRange /\ t.exynos = NoRange
             /\ \A l \in Layer : t.type[l] = "INVALID"
             /\ Blends(kind, s) => \A l \in Layer : t.m2m[l] # Blending
<1> DEFINE c == IF s.client.has /\ s.otf[Client] # None
                THEN resetAssignedState(s, s.otf[Client]) ELSE s
           e == IF s.exynos.has /\ s.otf[Exynos] # None
                THEN resetAssignedState(c, s.otf[Exynos]) ELSE c
           i == initializeClient(e)
           j == initializeExynos(i)
           blended == IF s.exynos.has THEN M2mSources(s, Blending) ELSE {}
           m2m == [l \in Layer |-> IF l \in blended THEN None ELSE j.m2m[l]]
           t == reassign(s)
<1>1. kind \in [Layer -> Kind] /\ s \in Assignment /\ Steady(kind, s)
      /\ Spanning(s.exynos)
  BY DEF Given, Sound, Steady
<1>2. Steady(kind, c) /\ c.m2m = s.m2m /\ c.busy = s.busy
  BY <1>1, ResetStateSteady
<1> HIDE DEF c
<1>3. Steady(kind, e) /\ e.m2m = s.m2m /\ e.busy = s.busy
  BY <1>1, <1>2, ResetStateSteady
<1> HIDE DEF e
<1>4. Steady(kind, i) /\ i.m2m = s.m2m /\ i.busy = s.busy /\ i.client = NoRange
  BY <1>1, <1>3, InitializeSteady
<1> HIDE DEF i
<1>5. Sound(kind, j) /\ j.m2m = s.m2m /\ j.busy = s.busy /\ j.client = NoRange
      /\ j.exynos = NoRange
  BY <1>1, <1>4, InitializeSteady
<1> HIDE DEF j, blended
<1>6. j \in Assignment /\ Owned(j) /\ Within(kind, j) /\ Spanning(j.client)
  BY <1>5 DEF Sound, Steady
<1>7. t = [j EXCEPT !.m2m = m2m, !.type = [l \in Layer |-> "INVALID"], !.ret = "changed"]
  BY <1>6 DEF reassign, Assignment, c, e, i, j, blended
<1>8. m2m \in [Layer -> M2m \cup {None}] /\ [l \in Layer |-> "INVALID"] \in [Layer -> Types]
      /\ "changed" \in Ret
  BY <1>6 DEF Assignment, Types, Ret
<1>9. \A l \in Layer : m2m[l] = IF l \in blended THEN None ELSE s.m2m[l]
  BY <1>5
<1> HIDE DEF t, m2m
<1>10. /\ t \in Assignment /\ t.users = j.users /\ t.otf = j.otf /\ t.busy = j.busy
       /\ t.client = j.client /\ t.exynos = j.exynos /\ t.m2m = m2m
       /\ t.type = [l \in Layer |-> "INVALID"] /\ t.ret = "changed"
  BY <1>6, <1>7, <1>8 DEF Assignment
<1>11. Owned(t)
  BY <1>6, <1>10 DEF Owned
<1>12. Within(kind, t)
  BY <1>1, <1>5, <1>6, <1>9, <1>10, TakenAway
<1>13. Sound(kind, t)
  BY <1>5, <1>6, <1>10, <1>11, <1>12 DEF Sound, Steady, Spanning
<1>14. Blends(kind, s) => \A l \in Layer : t.m2m[l] # Blending
  <2> SUFFICES ASSUME Blends(kind, s), NEW l \in Layer, t.m2m[l] = Blending PROVE FALSE
    OBVIOUS
  <2>1. s.m2m[l] = Blending /\ l \notin blended
    BY <1>9, <1>10, NotMPPs
  <2>2. s.exynos.has
    BY <2>1 DEF Blends, In
  <2> QED
    BY <2>1, <2>2 DEF blended, M2mSources
<1> QED
  BY <1>5, <1>10, <1>13, <1>14 DEF t

(* assignWindow() changes the numbers of the windows only.                 *)
LEMMA WindowsFirm ==
  ASSUME Given, NEW s, Firm(kind, s)
  PROVE  LET t == assignWindow(s)
         IN  /\ Firm(kind, t) /\ SameResources(s, t)
             /\ t.client = s.client /\ t.exynos = s.exynos
<1> DEFINE W == {acc \in [s : Assignment, index : Nat] :
                   /\ SameResources(s, acc.s) /\ acc.s.client = s.client
                   /\ acc.s.exynos = s.exynos}
           A == [n \in Int |-> W]
           start == [s |-> s, index |-> 0]
           end == AllWindows(start, s)
<1>1. kind \in [Layer -> Kind] /\ s \in Assignment 
  BY DEF Given, Firm
<1>2. start \in W
  BY <1>1 DEF SameResources
<1>3. ASSUME NEW a \in W, NEW l \in Layer
      PROVE  WindowOne(a, l, s) \in W
  <2> DEFINE type == s.type[l]
             range == Blended(s, type)
             x == IF type = "DEVICE" THEN l ELSE Target(type)
             b == WindowOne(a, l, s)
             window == [a.s.window EXCEPT ![x] = a.index]
             t == [a.s EXCEPT !.window = window]
  <2>1. a.s \in Assignment /\ a.index \in Nat
    OBVIOUS
  <2>2. \/ b = a
        \/ b = [a EXCEPT !.s.window[x] = a.index, !.index = @ + 1]
    BY DEF WindowOne
  <2>3. x \in Source
    BY Numbers DEF Target
  <2> HIDE DEF x, b
  <2>4. CASE b = a
    BY <2>4 DEF b
  <2>5. CASE b # a
    <3>1. b = [s |-> t, index |-> a.index + 1]
      BY <2>1, <2>2, <2>5 DEF Assignment
    <3>2. window \in [Source -> Int]
      BY <2>1, <2>3 DEF Assignment
    <3> HIDE DEF window
    <3>3. t \in Assignment /\ SameResources(a.s, t) /\ t.client = a.s.client
          /\ t.exynos = a.s.exynos
      BY <2>1, <3>2 DEF Assignment, SameResources
    <3> HIDE DEF t
    <3>4. b \in [s : Assignment, index : Nat] /\ b.s = t
      BY <2>1, <3>1, <3>3
    <3> QED
      BY <3>3, <3>4 DEF SameResources, b
  <2> QED
    BY <2>4, <2>5
<1> HIDE DEF start, W
<1>4. end \in A[LoopTimes(0, LayerNum - 1)]
  <2>1. start \in A[0] /\ \A n \in 1 .. LoopTimes(0, LayerNum - 1) : \A a \in A[n - 1] :
          WindowOne(a, 0 + n - 1, s) \in A[n]
    BY <1>2, <1>3, AllLayers
  <2> HIDE DEF A
  <2> QED
    BY <2>1, AllLayers, WindowLoop
<1>5. end \in W
  BY <1>4, AllLayers
<1>6. assignWindow(s) = end.s
  BY DEF assignWindow, WindowOne, AllWindows, start
<1> HIDE DEF end
<1>7. /\ end.s \in Assignment /\ SameResources(s, end.s) /\ end.s.client = s.client
      /\ end.s.exynos = s.exynos
  BY <1>5 DEF W
<1>8. Firm(kind, end.s)
  BY <1>1, <1>7, SameFirm
<1> QED
  BY <1>6, <1>7, <1>8

-----------------------------------------------------------------------------
(* What follows when all layers have their answer.                         *)

LEMMA ExtendSound ==
  ASSUME Given, NEW a \in Extending, NEW l \in Layer
  PROVE  extend(a, l) \in Extending
<1> DEFINE s == a.s
           can == s.type[l] # "CLIENT" /\ canBlend(s, l)
           u == resetAssignedResource(s, {l})
           t == [u EXCEPT !.m2m[l] = Blending]
           e == addExynosCompositionLayer(t, l)
           f == [e EXCEPT !.type[l] = "EXYNOS"]
           b == extend(a, l)
<1>1. /\ a \in [s : Assignment, left : Int, on : BOOLEAN] /\ Sound(kind, s)
      /\ kind \in [Layer -> Kind] /\ s \in Assignment /\ Steady(kind, s) /\ Within(kind, s)
  BY DEF Extending, Given, Sound, Steady
<1>2. CASE ~a.on
  BY <1>2 DEF extend
<1>3. CASE a.on /\ ~can
  <2>1. b = [a EXCEPT !.on = FALSE]
    BY <1>3 DEF extend
  <2> HIDE DEF b
  <2>2. b \in [s : Assignment, left : Int, on : BOOLEAN] /\ b.s = s
    BY <1>1, <2>1
  <2> QED
    BY <1>1, <2>2 DEF Extending, b
<1>4. CASE a.on /\ can
  <2>1. b = [s |-> f, left |-> a.left - 1, on |-> a.left > 1]
    BY <1>4 DEF extend
  <2>2. /\ Steady(kind, u) /\ u.busy = s.busy
        /\ u.client = s.client /\ u.exynos = s.exynos
        /\ \A x \in Layer : u.m2m[x] = IF x \in {l} THEN None ELSE s.m2m[x]
    BY <1>1, ResetResourceSteady
  <2>3. u \in Assignment /\ Owned(u) /\ Spanning(u.client) /\ Spanning(u.exynos)
    BY <1>1, <2>2 DEF Sound, Steady
  <2> HIDE DEF u
  <2>4. [u.m2m EXCEPT ![l] = Blending] \in [Layer -> M2m \cup {None}]
    BY <2>3, NotMPPs DEF Assignment
  <2>5. t = [u EXCEPT !.m2m = [u.m2m EXCEPT ![l] = Blending]]
    BY <2>3 DEF Assignment
  <2> HIDE DEF t
  <2>6. /\ t \in Assignment /\ t.busy = s.busy /\ t.client = s.client /\ t.exynos = s.exynos
        /\ t.otf = u.otf /\ t.users = u.users /\ t.m2m = [u.m2m EXCEPT ![l] = Blending]
    BY <2>2, <2>3, <2>4, <2>5 DEF Assignment
  <2>7. Within(kind, t)
    <3>1. t.m2m[l] = Blending /\ \A x \in Layer \ {l} : t.m2m[x] \in {s.m2m[x], None}
      BY <2>2, <2>3, <2>6 DEF Assignment
    <3>2. m2mAssignable(s, Blending) /\ hasEnoughCapa(s, l)
      BY <1>4 DEF canBlend
    <3> QED
      BY <1>1, <2>6, <3>1, <3>2, NotMPPs, OneSourceMore
  <2>8. Sound(kind, t)
    BY <2>2, <2>3, <2>6, <2>7 DEF Sound, Steady, Owned
  <2>9. Sound(kind, e)
    BY <2>8, AddExynos
  <2>10. e \in Assignment /\ Firm(kind, e) /\ Spanning(e.client) /\ Spanning(e.exynos)
    BY <2>9 DEF Sound, Steady, Firm
  <2> HIDE DEF e
  <2>11. [e.type EXCEPT ![l] = "EXYNOS"] \in [Layer -> Types]
    BY <2>10 DEF Assignment, Types
  <2>12. f = [e EXCEPT !.type = [e.type EXCEPT ![l] = "EXYNOS"]]
    BY <2>10 DEF Assignment
  <2> HIDE DEF f
  <2>13. /\ f \in Assignment /\ f.busy = e.busy /\ f.client = e.client /\ f.exynos = e.exynos
         /\ f.otf = e.otf /\ f.users = e.users /\ f.m2m = e.m2m
    BY <2>10, <2>11, <2>12 DEF Assignment
  <2>14. Within(kind, f)
    BY <1>1, <2>10, <2>13, TakenAway DEF Firm
  <2>15. Sound(kind, f)
    BY <2>10, <2>13, <2>14 DEF Sound, Steady, Firm, Owned
  <2> HIDE DEF b
  <2>16. b \in [s : Assignment, left : Int, on : BOOLEAN] /\ b.s = f
    BY <1>1, <2>1, <2>13
  <2> QED
    BY <2>15, <2>16 DEF Extending, b
<1> QED
  BY <1>2, <1>3, <1>4

LEMMA ExtendBothSound ==
  ASSUME Given, NEW s, Sound(kind, s), s.exynos.has
  PROVE  Sound(kind, extendBoth(s))
<1> DEFINE first == s.exynos.first
           last == s.exynos.last
           left == MaxSrcLayerNum - (last - first + 1)
           start == [s |-> s, left |-> left, on |-> left > 0]
           A == [n \in Int |-> Extending]
           up == Loop(extend, start, last + 1, LayerNum - 1)
           turn == [up EXCEPT !.on = up.left > 0]
           down == ExtendAllDown(turn, first, 1, first)
<1>1. /\ first \in Layer /\ last \in Layer /\ first \in Int /\ last \in Int
      /\ s \in Assignment /\ MaxSrcLayerNum \in Nat /\ LayerNum \in Nat
  BY Numbers, ParametersOK DEF Sound, Steady, Spanning, NoRange
<1>2. left \in Int /\ start \in Extending
  BY <1>1 DEF Extending
<1> HIDE DEF start
<1>3. up \in Extending
  <2>1. \A n \in 1 .. LoopTimes(last + 1, LayerNum - 1) : last + 1 + n - 1 \in Layer
    <3> TAKE n \in 1 .. LoopTimes(last + 1, LayerNum - 1)
    <3> DEFINE i == last + 1 + n - 1
    <3>1. i \in Int /\ last + 1 <= i /\ i <= LayerNum - 1
      <4>1. last + 1 \in Int /\ LayerNum - 1 \in Int
        BY <1>1
      <4> QED
        BY <4>1, Times
    <3> HIDE DEF i
    <3>2. i \in Layer
      BY <1>1, <3>1, Numbers
    <3> QED
      BY <3>2 DEF i
  <2>2. last + 1 \in Int /\ LayerNum - 1 \in Int /\ LoopTimes(last + 1, LayerNum - 1) \in Nat
    BY <1>1 DEF LoopTimes
  <2>3. start \in A[0] /\ \A n \in 1 .. LoopTimes(last + 1, LayerNum - 1) :
          \A a \in A[n - 1] : extend(a, last + 1 + n - 1) \in A[n]
    BY <1>2, <2>1, <2>2, ExtendSound
  <2>4. A[LoopTimes(last + 1, LayerNum - 1)] = Extending
    BY <2>2
  <2> HIDE DEF A
  <2>5. up \in A[LoopTimes(last + 1, LayerNum - 1)]
    BY <2>2, <2>3, ExtendLoop
  <2> QED
    BY <2>4, <2>5
<1> HIDE DEF up
<1>4. turn \in Extending
  <2>1. up \in [s : Assignment, left : Int, on : BOOLEAN] /\ Sound(kind, up.s)
    BY <1>3 DEF Extending
  <2>2. (up.left > 0) \in BOOLEAN
    OBVIOUS
  <2> DEFINE on == up.left > 0
  <2> HIDE DEF on
  <2>3. /\ [up EXCEPT !.on = on] \in [s : Assignment, left : Int, on : BOOLEAN]
        /\ [up EXCEPT !.on = on].s = up.s
    BY <2>1, <2>2 DEF on
  <2> QED
    BY <2>1, <2>3 DEF Extending, on
<1> HIDE DEF turn
<1>5. down \in Extending
  <2>1. ASSUME NEW n \in 1 .. LoopTimes(1, first)
        PROVE  first - (1 + n - 1) \in Layer
    <3> DEFINE i == 1 + n - 1
    <3>1. i \in Int /\ 1 <= i /\ i <= first
      <4>1. 1 \in Int /\ first \in Int
        BY <1>1
      <4>2. \A m \in 1 .. LoopTimes(1, first) : 1 + m - 1 \in Int /\ 1 <= 1 + m - 1 /\ 1 + m - 1 <= first
        BY <4>1, Times
      <4> QED
        BY <4>2
    <3> HIDE DEF i
    <3>2. first - i \in Layer
      BY <1>1, <3>1, Numbers
    <3> QED
      BY <3>2 DEF i
  <2>2. LoopTimes(1, first) \in Nat
    BY <1>1 DEF LoopTimes
  <2>3. turn \in A[0] /\ \A n \in 1 .. LoopTimes(1, first) :
          \A a \in A[n - 1] : extend(a, first - (1 + n - 1)) \in A[n]
    BY <1>4, <2>1, <2>2, ExtendSound
  <2>4. A[LoopTimes(1, first)] = Extending
    BY <2>2
  <2> HIDE DEF A
  <2>5. down \in A[LoopTimes(1, first)]
    BY <1>1, <2>3, ExtendDownLoop
  <2> QED
    BY <2>4, <2>5
<1>6. extendBoth(s) = down.s
  BY DEF extendBoth, extendDown, ExtendAllDown, up, turn, start
<1> HIDE DEF down
<1> QED
  BY <1>5, <1>6 DEF Extending

(* A range of one layer is undone when its MPP can show the layer.         *)
LEMMA UnblendSound ==
  ASSUME Given, NEW s, Sound(kind, s)
  PROVE  Sound(kind, unblend(s))
<1> DEFINE l == s.exynos.first
           o == s.otf[Exynos]
           u == resetAssignedResource(s, {l})
           e == initializeExynos(u)
           t == [e EXCEPT !.type[l] = "DEVICE"]
           d == resetAssignedState(t, o)
           can == o # None /\ l >= 0 /\ l = s.exynos.last /\ o \in kind[l].supports
<1>1. kind \in [Layer -> Kind] /\ s \in Assignment /\ Steady(kind, s) /\ Spanning(s.exynos)
  BY DEF Given, Sound, Steady
<1>2. CASE ~can
  BY <1>2 DEF unblend
<1>3. CASE can
  <2>1. l \in Layer /\ l \in Source /\ o \in Otf
    <3>1. o \in Otf \cup {None}
      BY <1>1, Numbers DEF Assignment
    <3>2. s.exynos # NoRange
      BY <1>3 DEF NoRange
    <3> QED
      BY <1>1, <1>3, <3>1, <3>2, Numbers DEF Spanning
  <2>2. unblend(s) = assignOtf(d, o, l)
    BY <1>3 DEF unblend
  <2> HIDE DEF l, o
  <2>3. Steady(kind, u)
    BY <1>1, <2>1, ResetResourceSteady
  <2> HIDE DEF u
  <2>4. Sound(kind, e)
    BY <1>1, <2>3, InitializeSteady
  <2>5. e \in Assignment /\ Firm(kind, e) /\ Spanning(e.client) /\ Spanning(e.exynos)
    BY <2>4 DEF Sound, Steady, Firm
  <2> HIDE DEF e
  <2>6. /\ [e.type EXCEPT ![l] = "DEVICE"] \in [Layer -> Types]
        /\ t = [e EXCEPT !.type = [e.type EXCEPT ![l] = "DEVICE"]]
    BY <2>5 DEF Assignment, Types
  <2> HIDE DEF t
  <2>7. /\ t \in Assignment /\ t.busy = e.busy /\ t.client = e.client /\ t.exynos = e.exynos
        /\ t.otf = e.otf /\ t.users = e.users /\ t.m2m = e.m2m
    BY <2>5, <2>6 DEF Assignment
  <2>8. Steady(kind, t)
    <3>1. Within(kind, t)
      BY <1>1, <2>5, <2>7, TakenAway DEF Firm
    <3> QED
      BY <2>5, <2>7, <3>1 DEF Steady, Firm, Owned
  <2>9. Steady(kind, d) /\ d.exynos = t.exynos /\ d.users[o] = {}
    BY <1>1, <2>1, <2>8, ResetStateSteady
  <2> HIDE DEF d
  <2>10. Steady(kind, assignOtf(d, o, l)) /\ assignOtf(d, o, l).exynos = d.exynos
    BY <1>1, <2>1, <2>9, AssignOtfSteady
  <2> QED
    BY <2>2, <2>5, <2>7, <2>9, <2>10 DEF Sound
<1> QED
  BY <1>2, <1>3

LEMMA UpdateExynosSound ==
  ASSUME Given, NEW s, Sound(kind, s)
  PROVE  Sound(kind, updateExynosComposition(s))
<1>1. s.exynos.has => Sound(kind, extendBoth(s))
  BY ExtendBothSound
<1>2. s.exynos.has => Sound(kind, IF useMaxG2DSrc THEN extendBoth(s) ELSE s)
  BY <1>1
<1> QED
  BY <1>2, UnblendSound DEF updateExynosComposition

LEMMA ClientMoved ==
  ASSUME Given, NEW s, Firm(kind, s), NEW range \in Ranges
  PROVE  LET t == [s EXCEPT !.client = range]
         IN  Firm(kind, t) /\ SameResources(s, t) /\ t.client = range /\ t.exynos = s.exynos
<1> DEFINE t == [s EXCEPT !.client = range]
<1>1. s \in Assignment /\ kind \in [Layer -> Kind]
  BY DEF Given, Firm
<1>2. t \in Assignment /\ SameResources(s, t) /\ t.client = range /\ t.exynos = s.exynos
  BY <1>1 DEF Assignment, SameResources
<1> HIDE DEF t
<1>3. Firm(kind, t)
  BY <1>1, <1>2, SameFirm
<1> QED
  BY <1>2, <1>3 DEF t

LEMMA ReturnFirm ==
  ASSUME Given, NEW s, Firm(kind, s), NEW ret \in Ret, NEW w \in Int
  PROVE  LET t == [s EXCEPT !.windows = w, !.ret = ret]
             u == [s EXCEPT !.ret = ret]
         IN  /\ Firm(kind, t) /\ SameResources(s, t)
             /\ t.client = s.client /\ t.exynos = s.exynos
             /\ Firm(kind, u) /\ SameResources(s, u)
             /\ u.client = s.client /\ u.exynos = s.exynos
<1> DEFINE t == [s EXCEPT !.windows = w, !.ret = ret]
           u == [s EXCEPT !.ret = ret]
<1>1. s \in Assignment /\ kind \in [Layer -> Kind]
  BY DEF Given, Firm
<1>2. /\ t \in Assignment /\ SameResources(s, t) /\ t.client = s.client /\ t.exynos = s.exynos
      /\ u \in Assignment /\ SameResources(s, u) /\ u.client = s.client /\ u.exynos = s.exynos
  BY <1>1 DEF Assignment, SameResources
<1> HIDE DEF t, u
<1>3. Firm(kind, t) /\ Firm(kind, u)
  BY <1>1, <1>2, SameFirm
<1> QED
  BY <1>2, <1>3 DEF t, u

LEMMA RemoveFirm ==
  ASSUME Given, NEW s, Firm(kind, s), s.client.last <= LayerNum - 1, NEW l \in Layer
  PROVE  LET t == removeClientCompositionLayer(s, l)
         IN  /\ Firm(kind, t) /\ t.client.last <= LayerNum - 1
             /\ \A o \in Otf : s.users[o] = {} => t.users[o] = {}
<1> DEFINE range == s.client
           target == s.otf[Client]
           t == removeClientCompositionLayer(s, l)
           d == resetAssignedState(s, target)
           c == initializeClient(d)
           w == c.windows - 1
           up == [range EXCEPT !.first = @ + 1]
           down == [range EXCEPT !.last = @ - 1]
           moved(x) == [s EXCEPT !.client = x]
<1>1. /\ kind \in [Layer -> Kind] /\ s \in Assignment /\ range \in Ranges
      /\ range.first \in Int /\ range.last \in Int /\ LayerNum \in Nat \ {0}
      /\ "ok" \in Ret /\ "error" \in Ret
  BY Numbers DEF Given, Firm, Assignment, Ranges, Ret
<1>2. \/ t = [s EXCEPT !.ret = "error"]
      \/ t = [c EXCEPT !.windows = w, !.ret = "ok"]
      \/ t = [moved(up) EXCEPT !.ret = "ok"]
      \/ t = [moved(down) EXCEPT !.ret = "ok"]
  <2>1. /\ [s EXCEPT !.client.first = @ + 1, !.ret = "ok"] = [moved(up) EXCEPT !.ret = "ok"]
        /\ [s EXCEPT !.client.last = @ - 1, !.ret = "ok"] = [moved(down) EXCEPT !.ret = "ok"]
    BY <1>1 DEF Assignment
  <2>2. \/ t = [s EXCEPT !.ret = "error"]
        \/ t = [c EXCEPT !.windows = @ - 1, !.ret = "ok"]
        \/ t = [s EXCEPT !.client.first = @ + 1, !.ret = "ok"]
        \/ t = [s EXCEPT !.client.last = @ - 1, !.ret = "ok"]
    BY DEF removeClientCompositionLayer
  <2> HIDE DEF t, up, down
  <2> QED
    BY <2>1, <2>2
<1>3. /\ Firm(kind, d) /\ \A o \in Otf : s.users[o] = {} => d.users[o] = {}
  BY <1>1, ResetStateFirm
<1> HIDE DEF d
<1>4. Firm(kind, c) /\ c.client = NoRange
  BY <1>1, <1>3, InitializeFirm
<1>5. c.users = d.users /\ w \in Int
  BY <1>3, <1>4 DEF Firm, Assignment, initializeClient
<1>6. /\ up \in Ranges /\ up.last = range.last
      /\ down \in Ranges /\ down.last = range.last - 1
  BY <1>1 DEF Ranges
<1> HIDE DEF t, c, w, up, down
<1>7. CASE t = [s EXCEPT !.ret = "error"]
  <2>1. Firm(kind, t) /\ SameResources(s, t) /\ t.client = s.client
    BY <1>1, <1>7, ReturnFirm
  <2> QED
    BY <2>1 DEF SameResources, t
<1>8. CASE t = [c EXCEPT !.windows = w, !.ret = "ok"]
  <2>1. Firm(kind, t) /\ SameResources(c, t) /\ t.client = NoRange
    BY <1>1, <1>4, <1>5, <1>8, ReturnFirm
  <2>2. t.client.last = -1 /\ -1 <= LayerNum - 1
    BY <1>1, <2>1 DEF NoRange
  <2> QED
    BY <1>3, <1>5, <2>1, <2>2 DEF SameResources, t
<1>9. ASSUME NEW x \in {up, down}, t = [moved(x) EXCEPT !.ret = "ok"]
      PROVE  /\ Firm(kind, t) /\ t.client.last <= LayerNum - 1
             /\ \A o \in Otf : s.users[o] = {} => t.users[o] = {}
  <2>1. x \in Ranges /\ x.last <= LayerNum - 1
    BY <1>1, <1>6
  <2>2. Firm(kind, moved(x)) /\ SameResources(s, moved(x)) /\ moved(x).client = x
    BY <2>1, ClientMoved
  <2> HIDE DEF moved
  <2>3. Firm(kind, t) /\ SameResources(moved(x), t) /\ t.client = x
    BY <1>1, <1>9, <2>2, ReturnFirm
  <2> QED
    BY <2>1, <2>2, <2>3 DEF SameResources
<1> QED
  BY <1>2, <1>7, <1>8, <1>9 DEF t

LEMMA KeepsFirm ==
  ASSUME Given, NEW s, Firm(kind, s), s.client.last <= LayerNum - 1, NEW l \in Layer,
         NEW end \in {"first", "last"}
  PROVE  Keeps(s, l, end) \in Keeping
<1> DEFINE range == s.client
           up == [range EXCEPT !.first = @ + 1]
           down == [range EXCEPT !.last = @ - 1]
           x == IF end = "first" THEN up ELSE down
           t == [s EXCEPT !.client = x]
           answer == assignLayer(s, l)
           removed == removeClientCompositionLayer(s, l)
           k == Keeps(s, l, end)
<1>1. /\ s \in Assignment /\ range \in Ranges /\ range.first \in Int /\ range.last \in Int
      /\ LayerNum \in Nat
  BY Numbers DEF Firm, Assignment, Ranges
<1>2. Keeps(s, l, end) = IF High(l) /\ s.type[l] = "DEVICE" THEN [s |-> t, on |-> TRUE]
                         ELSE KeepsOwn(s, l, answer)
  <2>1. (IF end = "first" THEN [s EXCEPT !.client.first = @ + 1]
                          ELSE [s EXCEPT !.client.last = @ - 1]) = t
    BY <1>1 DEF Assignment
  <2> QED
    BY <2>1 DEF Keeps
<1> HIDE DEF answer
<1>3. \/ k = [s |-> t, on |-> TRUE]
      \/ k = [s |-> s, on |-> FALSE]
      \/ k = [s |-> removed, on |-> FALSE]
      \/ /\ answer.type = "DEVICE" /\ answer.m2m = None
         /\ k = [s |-> assign(removed, l, answer), on |-> TRUE]
  BY <1>2 DEF KeepsOwn
<1>4. x \in Ranges /\ x.last <= LayerNum - 1
  BY <1>1 DEF Ranges
<1> HIDE DEF x, k
<1>5. Firm(kind, t) /\ t.client = x
  BY <1>4, ClientMoved
<1>6. /\ Firm(kind, removed) /\ removed.client.last <= LayerNum - 1
      /\ \A o \in Otf : s.users[o] = {} => removed.users[o] = {}
  BY RemoveFirm
<1> HIDE DEF t, removed
<1>7. CASE k = [s |-> t, on |-> TRUE]
  BY <1>4, <1>5, <1>7 DEF Keeping, Firm, k
<1>8. CASE k = [s |-> s, on |-> FALSE]
  BY <1>1, <1>8 DEF Keeping, k
<1>9. CASE k = [s |-> removed, on |-> FALSE]
  BY <1>6, <1>9 DEF Keeping, Firm, k
<1>10. CASE /\ answer.type = "DEVICE" /\ answer.m2m = None
            /\ k = [s |-> assign(removed, l, answer), on |-> TRUE]
  <2> DEFINE v == assign(removed, l, answer)
  <2>1. Suits(s, l, answer)
    BY AssignLayerSuits DEF answer
  <2>2. answer.otf \in Otf /\ s.users[answer.otf] = {}
    BY <1>10, <2>1, NotMPPs DEF Suits, Answer
  <2>3. Suits(removed, l, answer)
    BY <1>6, <1>10, <2>2 DEF Suits
  <2>4. Firm(kind, v) /\ v.client = removed.client
    BY <1>6, <2>3, AssignFirm DEF Assigned
  <2> HIDE DEF v
  <2>5. v \in Assignment /\ k = [s |-> v, on |-> TRUE]
    BY <1>10, <2>4 DEF Firm, v
  <2> QED
    BY <1>6, <2>4, <2>5 DEF Keeping, k
<1> QED
  BY <1>3, <1>7, <1>8, <1>9, <1>10

(* What each layer leaves in a set of assignments, both loops do.          *)
LEMMA UpdateClientThrough ==
  ASSUME Given, NEW s, s.client.has, Spanning(s.client), NEW K \in SUBSET Keeping,
         [s |-> s, on |-> TRUE] \in K,
         \A a \in K : [s |-> a.s, on |-> TRUE] \in K,
         \A a \in K, l \in Layer, end \in {"first", "last"} : Keeps(a.s, l, end) \in K
  PROVE  \E a \in K : updateClientComposition(s) = a.s
<1> DEFINE first == s.client.first
           last == s.client.last
           A == [n \in Int |-> K]
           start == [s |-> s, on |-> TRUE]
           up == Loop(KeepUp, start, first, last)
           t == up.s
           top == t.client.last
           start2 == [s |-> t, on |-> TRUE]
           down == KeepAllDown(start2, top, 0, top)
           u == updateClientComposition(s)
<1>1. CASE s.client = lowFps
  <2>1. u = start.s
    BY <1>1 DEF updateClientComposition
  <2> QED
    BY <2>1
<1>2. CASE s.client # lowFps
  <2>1. /\ first \in Layer /\ last \in Layer /\ first \in Int /\ last \in Int
        /\ last <= LayerNum - 1 /\ LayerNum \in Nat
    BY Numbers DEF Spanning, NoRange
  <2>2. u = shrinkFromAbove(t)
    <3>1. ~(~s.client.has \/ s.client = lowFps) => u = shrinkFromAbove(t)
      BY DEF updateClientComposition, KeepUp
    <3> QED
      BY <1>2, <3>1
  <2> HIDE DEF u
  <2>3. up \in K
    <3>1. /\ LoopTimes(first, last) \in Nat
          /\ \A n \in 1 .. LoopTimes(first, last) : first + n - 1 \in Layer
      BY <2>1, LayersBetween
    <3>2. ASSUME NEW a \in K, NEW l \in Layer
          PROVE  KeepUp(a, l) \in K
      BY <3>2 DEF KeepUp
    <3>3. start \in A[0] /\ \A n \in 1 .. LoopTimes(first, last) :
            \A a \in A[n - 1] : KeepUp(a, first + n - 1) \in A[n]
      BY <3>1, <3>2
    <3>4. A[LoopTimes(first, last)] = K
      BY <3>1
    <3> HIDE DEF A, start
    <3>5. up \in A[LoopTimes(first, last)]
      BY <2>1, <3>3, KeepUpLoop
    <3> QED
      BY <3>4, <3>5
  <2> HIDE DEF up
  <2>4. top \in Int /\ top <= LayerNum - 1
    BY <2>3 DEF Keeping, Assignment, Ranges
  <2>5. u = IF t.ret = "error" THEN t ELSE down.s
    BY <2>2 DEF shrinkFromAbove, KeepAllDown, KeepDown
  <2>6. start2 \in K
    BY <2>3
  <2>7. down \in K
    <3>1. LoopTimes(0, top) \in Nat
      BY <2>4 DEF LoopTimes
    <3>2. ASSUME NEW n \in 1 .. LoopTimes(0, top)
          PROVE  top - (0 + n - 1) \in Layer
      <4> DEFINE i == 0 + n - 1
      <4>1. i \in Int /\ 0 <= i /\ i <= top
        <5>0. 0 \in Int /\ top \in Int
          BY <2>4
        <5> HIDE DEF top
        <5>1. \A m \in 1 .. LoopTimes(0, top) :
                0 + m - 1 \in Int /\ 0 <= 0 + m - 1 /\ 0 + m - 1 <= top
          BY <5>0, Times
        <5> QED
          BY <5>1
      <4> HIDE DEF i, top
      <4>2. top - i \in Int /\ 0 <= top - i /\ top - i <= LayerNum - 1
        BY <2>1, <2>4, <4>1
      <4>3. top - i \in Layer
        BY <4>2, Numbers
      <4> QED
        BY <4>3 DEF i
    <3>3. ASSUME NEW a \in K, NEW l \in Layer
          PROVE  KeepDown(a, l) \in K
      BY <3>3 DEF KeepDown
    <3> HIDE DEF top
    <3>4. start2 \in A[0] /\ \A n \in 1 .. LoopTimes(0, top) :
            \A a \in A[n - 1] : KeepDown(a, top - (0 + n - 1)) \in A[n]
      BY <2>6, <3>1, <3>2, <3>3
    <3>5. A[LoopTimes(0, top)] = K
      BY <3>1
    <3> HIDE DEF A, start2
    <3>6. down \in A[LoopTimes(0, top)]
      BY <2>4, <3>4, KeepDownLoop
    <3> QED
      BY <3>5, <3>6
  <2> HIDE DEF down
  <2> QED
    BY <2>3, <2>5, <2>7 DEF u
<1> QED
  BY <1>1, <1>2

LEMMA KeepingOn ==
  ASSUME NEW a \in Keeping
  PROVE  [s |-> a.s, on |-> TRUE] \in Keeping
<1> DEFINE b == [s |-> a.s, on |-> TRUE]
<1>1. b \in [s : Assignment, on : BOOLEAN] /\ b.s = a.s
  BY DEF Keeping
<1> HIDE DEF b
<1>2. b \in Keeping
  BY <1>1 DEF Keeping
<1> QED
  BY <1>2 DEF b

LEMMA KeepingStart ==
  ASSUME NEW s, Firm(kind, s), s.client.has, Spanning(s.client)
  PROVE  [s |-> s, on |-> TRUE] \in Keeping
<1> DEFINE start == [s |-> s, on |-> TRUE]
<1>1. start \in [s : Assignment, on : BOOLEAN] /\ start.s = s
  BY DEF Firm
<1>2. s.client.last <= LayerNum - 1
  BY Numbers DEF Spanning, NoRange
<1> HIDE DEF start
<1>3. start \in Keeping
  BY <1>1, <1>2 DEF Keeping
<1> QED
  BY <1>3 DEF start

LEMMA UpdateClientFirm ==
  ASSUME Given, NEW s, Firm(kind, s), Spanning(s.client)
  PROVE  Firm(kind, updateClientComposition(s))
<1>1. CASE ~s.client.has
  BY <1>1 DEF updateClientComposition
<1>2. CASE s.client.has
  <2>1. \A a \in Keeping, l \in Layer, end \in {"first", "last"} : Keeps(a.s, l, end) \in Keeping
    BY KeepsFirm DEF Keeping
  <2>2. [s |-> s, on |-> TRUE] \in Keeping
    BY <1>2, KeepingStart
  <2>3. \A a \in Keeping : [s |-> a.s, on |-> TRUE] \in Keeping
    BY KeepingOn
  <2>4. PICK a \in Keeping : updateClientComposition(s) = a.s
    BY <1>2, <2>1, <2>2, <2>3, UpdateClientThrough
  <2> QED
    BY <2>4 DEF Keeping
<1> QED
  BY <1>1, <1>2

-----------------------------------------------------------------------------
(* What the steps of assignResource() keep up.                             *)

LEMMA HeldBlends ==
  ASSUME Given, NEW s, Sound(kind, s), Held(s)
  PROVE  /\ Blends(kind, s)
         /\ Blending \in s.busy => \A l \in Layer : s.m2m[l] # Blending
<1>1. Blending \in s.busy => \A l \in Layer : s.m2m[l] # Blending
  BY DEF Sound, Steady, Within, M2mSources
<1> QED
  BY <1>1 DEF Held, Settled, Blends

(* A layer that needs nothing becomes the client's.                        *)
LEMMA TypeChanged ==
  ASSUME Given, NEW s, Sound(kind, s), NEW type \in [Layer -> Types]
  PROVE  LET t == [s EXCEPT !.type = type]
         IN  /\ Sound(kind, t) /\ t.type = type /\ t.otf = s.otf /\ t.m2m = s.m2m
             /\ t.users = s.users /\ t.busy = s.busy
             /\ t.client = s.client /\ t.exynos = s.exynos
<1> DEFINE t == [s EXCEPT !.type = type]
<1>1. /\ s \in Assignment /\ Owned(s) /\ Within(kind, s) /\ kind \in [Layer -> Kind]
      /\ Spanning(s.client) /\ Spanning(s.exynos)
  BY DEF Given, Sound, Steady
<1>2. /\ t \in Assignment /\ t.type = type /\ t.otf = s.otf /\ t.m2m = s.m2m
      /\ t.users = s.users /\ t.busy = s.busy
      /\ t.client = s.client /\ t.exynos = s.exynos
  BY <1>1 DEF Assignment
<1> HIDE DEF t
<1>3. Owned(t) /\ Within(kind, t)
  BY <1>1, <1>2, TakenAway DEF Owned
<1> QED
  BY <1>1, <1>2, <1>3 DEF Sound, Steady, t

LEMMA ClientsLayerSound ==
  ASSUME Given, NEW s, Sound(kind, s), NEW l \in Layer
  PROVE  LET c == ClientsLayer(s, l)
         IN  /\ Sound(kind, c) /\ c.busy = s.busy
             /\ \A x \in Layer : c.m2m[x] \in {s.m2m[x], None}
             /\ Held(s) /\ s.type[l] # "EXYNOS" /\ s.m2m[l] = None
                  => Held(c) /\ Lets(s, c) /\ c.ret # "error"
<1> DEFINE type == [s.type EXCEPT ![l] = "CLIENT"]
           t == [s EXCEPT !.type = type]
           c == ClientsLayer(s, l)
<1>1. s \in Assignment /\ type \in [Layer -> Types]
      /\ \A x \in Layer : type[x] = IF x = l THEN "CLIENT" ELSE s.type[x]
  BY DEF Sound, Steady, Assignment, Types
<1>2. ClientsLayer(s, l) = addClientCompositionLayer(t, l)
  BY <1>1 DEF ClientsLayer, Assignment
<1> HIDE DEF type, c
<1>3. /\ Sound(kind, t) /\ t.type = type /\ t.otf = s.otf /\ t.m2m = s.m2m
      /\ t.users = s.users /\ t.busy = s.busy
      /\ t.client = s.client /\ t.exynos = s.exynos
  BY <1>1, TypeChanged
<1> HIDE DEF t
<1>4. AddedToClient(t, c, l)
  BY <1>2, <1>3, AddClient DEF c
<1>5. Sound(kind, c) /\ Gives(t, c) /\ c.busy = s.busy
  BY <1>3, <1>4 DEF AddedToClient, Gives
<1>6. \A x \in Layer : c.m2m[x] \in {s.m2m[x], None}
  BY <1>3, <1>5 DEF Gives
<1>7. ASSUME Held(s), s.type[l] # "EXYNOS", s.m2m[l] = None
      PROVE  Held(c) /\ Lets(s, c) /\ c.ret # "error"
  <2>1. Blends(kind, s)
    BY <1>7, HeldBlends
  <2>2. Blends(kind, t)
    BY <1>1, <1>3, <1>7, <2>1 DEF Blends
  <2>3. Lets(t, c) /\ Lets(s, t)
    BY <1>1, <1>3, <1>5, <1>7, GivesLets, NotMPPs DEF Lets
  <2>4. CASE Blending \in s.busy
    <3>1. \A x \in Layer : t.type[x] # "EXYNOS"
      BY <1>1, <1>3, <1>7, <2>4 DEF Held
    <3>2. \A x \in Layer : c.type[x] # "EXYNOS"
      BY <1>5, <3>1 DEF Gives
    <3> QED
      BY <1>4, <1>5, <2>2, <2>3, <2>4, <3>2, LetsAgain DEF Held, AddedToClient
  <2>5. CASE Blending \notin s.busy
    <3>1. ClientHoldsBut(kind, s, {})
      BY <1>7, <2>5 DEF Held, Settled
    <3>2. ClientHoldsBut(kind, t, {l}) /\ t.type[l] = "CLIENT" /\ t.m2m[l] = None
      BY <1>1, <1>3, <1>7, <3>1 DEF ClientHoldsBut
    <3>3. Settled(c) /\ c.ret # "error"
      BY <1>4, <2>2, <3>2 DEF AddedToClient, Settled
    <3> QED
      BY <1>5, <2>3, <2>5, <3>3, LetsAgain DEF Held
  <2> QED
    BY <2>4, <2>5
<1> QED
  BY <1>5, <1>6, <1>7 DEF c

LEMMA GiveLayerHeld ==
  ASSUME Given, NEW s, Sound(kind, s), Held(s), NEW l \in Layer
  PROVE  LET c == GiveLayer(s, l)
         IN  /\ Sound(kind, c) /\ Held(c) /\ Lets(s, c) /\ Gives(s, c)
             /\ c.type[l] = "CLIENT"
<1> DEFINE c == GiveLayer(s, l)
<1>1. /\ Fine(s, c) /\ Gives(s, c) /\ c.type[l] = "CLIENT"
  BY GiveLayerFine
<1> HIDE DEF c
<1>2. c.busy = s.busy
  BY <1>1 DEF Gives
<1>3. Held(c)
  <2>1. CASE Blending \in s.busy
    BY <1>1, <1>2, <2>1 DEF Held, Gives
  <2>2. CASE Blending \notin s.busy
    BY <1>1, <1>2, <2>2 DEF Held, Fine
  <2> QED
    BY <2>1, <2>2
<1> QED
  BY <1>1, <1>3 DEF Fine, c

(* The layers the client asked for.                                        *)
LEMMA AskedHeld ==
  ASSUME Given, NEW s, Sound(kind, s), Held(s), \A l \in Layer : s.m2m[l] = None
  PROVE  LET t == Loop(askedForClient, s, 0, LayerNum - 1)
         IN  Sound(kind, t) /\ Held(t)
<1> DEFINE W == {t \in Assignment : /\ Sound(kind, t) /\ Held(t)
                                    /\ \A l \in Layer : t.m2m[l] = None}
           A == [n \in Int |-> W]
           all == Loop(askedForClient, s, 0, LayerNum - 1)
<1>1. s \in W
  BY DEF Sound, Steady
<1>2. ASSUME NEW t \in W, NEW l \in Layer
      PROVE  askedForClient(t, l) \in W
  <2>1. Sound(kind, t) /\ Held(t) /\ \A x \in Layer : t.m2m[x] = None
    OBVIOUS
  <2>2. t.type[l] # "EXYNOS"
    BY <2>1, HeldBlends, NotMPPs DEF Blends
  <2>3. ClientsLayer(t, l) \in W
    <3>1. /\ Sound(kind, ClientsLayer(t, l)) /\ Held(ClientsLayer(t, l))
          /\ \A x \in Layer : ClientsLayer(t, l).m2m[x] \in {t.m2m[x], None}
      BY <2>1, <2>2, ClientsLayerSound
    <3> QED
      BY <2>1, <3>1 DEF Sound, Steady
  <2> QED
    BY <2>3 DEF askedForClient, ClientsLayer
<1> HIDE DEF W
<1>3. all \in A[LoopTimes(0, LayerNum - 1)]
  <2>1. s \in A[0] /\ \A n \in 1 .. LoopTimes(0, LayerNum - 1) : \A t \in A[n - 1] :
          askedForClient(t, 0 + n - 1) \in A[n]
    BY <1>1, <1>2, AllLayers
  <2> HIDE DEF A
  <2> QED
    BY <2>1, AllLayers, AskedLoop
<1>4. all \in W
  BY <1>3, AllLayers
<1> QED
  BY <1>4 DEF W

(* validateDisplay() after an error.                                       *)
LEMMA AllClientsSound ==
  ASSUME Given, NEW s, Sound(kind, s)
  PROVE  Sound(kind, Loop(ClientsLayer, s, 0, LayerNum - 1))
<1> DEFINE W == {t \in Assignment : Sound(kind, t)}
           A == [n \in Int |-> W]
           all == Loop(ClientsLayer, s, 0, LayerNum - 1)
<1>1. s \in W
  BY DEF Sound, Steady
<1>2. ASSUME NEW t \in W, NEW l \in Layer
      PROVE  ClientsLayer(t, l) \in W
  <2>1. Sound(kind, ClientsLayer(t, l))
    BY ClientsLayerSound
  <2> QED
    BY <2>1 DEF Sound, Steady
<1> HIDE DEF W
<1>3. all \in A[LoopTimes(0, LayerNum - 1)]
  <2>1. s \in A[0] /\ \A n \in 1 .. LoopTimes(0, LayerNum - 1) : \A t \in A[n - 1] :
          ClientsLayer(t, 0 + n - 1) \in A[n]
    BY <1>1, <1>2, AllLayers
  <2> HIDE DEF A
  <2> QED
    BY <2>1, AllLayers, ClientLoop
<1>4. all \in W
  BY <1>3, AllLayers
<1> QED
  BY <1>4 DEF W

(* Without an MPP for its target the range of the G2D is the client's.     *)
LEMMA GiveExynosHeld ==
  ASSUME Given, NEW s, Sound(kind, s), Held(s), s.exynos.has
  PROVE  LET t == giveExynosToClient(s)
         IN  Sound(kind, t) /\ Lets(s, t) /\ (t.ret # "error" => Held(t))
             /\ t.ret \in {"changed", "error"}
<1> DEFINE first == s.exynos.first
           last == s.exynos.last
           N == LoopTimes(first, last)
           W(n) == {t \in Assignment :
                      /\ Sound(kind, t) /\ Held(t) /\ Lets(s, t) /\ Gives(s, t)
                      /\ t.ret = "error" \/ \A x \in Layer :
                           first <= x /\ x < first + n => t.type[x] = "CLIENT"}
           A == [n \in Int |-> W(n)]
           start == [s EXCEPT !.ret = "ok"]
           all == Loop(GiveUnlessError, start, first, last)
           e == initializeExynos(all)
           t == giveExynosToClient(s)
<1>1. /\ s \in Assignment /\ kind \in [Layer -> Kind]
      /\ first \in Layer /\ last \in Layer /\ first \in Int /\ last \in Int /\ first <= last
      /\ "ok" \in Ret /\ "changed" \in Ret
  BY Numbers DEF Given, Sound, Steady, Spanning, NoRange, Ret
<1>2. start \in A[0]
  <2>1. start \in Assignment /\ SameResources(s, start) /\ start.client = s.client
        /\ start.exynos = s.exynos
    BY <1>1 DEF Assignment, SameResources
  <2> HIDE DEF start
  <2>2. Sound(kind, start)
    BY <1>1, <2>1, SameSteady DEF Sound, Steady
  <2>3. Held(start) /\ Lets(s, start) /\ Gives(s, start)
    BY <2>1 DEF Held, Settled, Blends, ClientHoldsBut, Lets, Gives, SameResources
  <2> QED
    BY <1>1, <2>1, <2>2, <2>3, Numbers
<1>3. N = last - first + 1 /\ N \in Nat /\ \A n \in 1 .. N : first + n - 1 \in Layer
  BY <1>1, Times, LayersBetween
<1>4. ASSUME NEW n \in 1 .. N, NEW a \in A[n - 1]
      PROVE  GiveUnlessError(a, first + n - 1) \in A[n]
  <2> DEFINE l == first + n - 1
             c == GiveLayer(a, l)
  <2>1. /\ l \in Layer /\ a \in Assignment
        /\ Sound(kind, a) /\ Held(a) /\ Lets(s, a) /\ Gives(s, a)
        /\ a.ret = "error" \/ \A x \in Layer : first <= x /\ x < l => a.type[x] = "CLIENT"
    BY <1>1, <1>3
  <2>2. A[n] = W(n)
    BY <1>3
  <2>3. CASE a.ret = "error"
    BY <2>1, <2>2, <2>3 DEF GiveUnlessError
  <2>4. CASE a.ret # "error"
    <3>1. GiveUnlessError(a, l) = c
      BY <2>4 DEF GiveUnlessError
    <3> HIDE DEF l
    <3>2. /\ Sound(kind, c) /\ Held(c) /\ Lets(a, c) /\ Gives(a, c) /\ c.type[l] = "CLIENT"
      BY <2>1, GiveLayerHeld
    <3> HIDE DEF c
    <3>3. Lets(s, c) /\ Gives(s, c) /\ c \in Assignment
      BY <2>1, <3>2, LetsAgain, GivesAgain DEF Sound, Steady
    <3>4. \A x \in Layer : first <= x /\ x < l => c.type[x] = "CLIENT"
      BY <2>1, <2>4, <3>2 DEF Gives
    <3>5. \A x \in Layer : first <= x /\ x < first + n => x < l \/ x = l
      BY <1>1, <1>3, Numbers DEF l
    <3>6. \A x \in Layer : first <= x /\ x < first + n => c.type[x] = "CLIENT"
      BY <3>2, <3>4, <3>5
    <3>7. c \in W(n)
      BY <3>2, <3>3, <3>6
    <3> HIDE DEF A
    <3> QED
      BY <2>2, <3>1, <3>7 DEF l
  <2> QED
    BY <2>3, <2>4
<1>5. all \in W(N)
  <2>1. A[N] = W(N)
    BY <1>3
  <2> HIDE DEF A, start, W
  <2>2. all \in A[N]
    BY <1>1, <1>2, <1>4, GiveLoop DEF N
  <2> QED
    BY <2>1, <2>2
<1>6. t = IF all.ret = "error" THEN all ELSE [e EXCEPT !.ret = "changed"]
  BY DEF giveExynosToClient, givenToClient, GiveUnlessError, GiveLayer
<1> HIDE DEF all, t
<1>7. /\ Sound(kind, all) /\ Held(all) /\ Lets(s, all) /\ Gives(s, all)
      /\ all.ret = "error" \/ \A x \in Layer :
           first <= x /\ x <= last => all.type[x] = "CLIENT"
  <2>1. first + N = last + 1
    BY <1>1, <1>3
  <2> HIDE DEF N
  <2>2. \A x \in Layer : x <= last => x < last + 1
    BY <1>1, Numbers
  <2> QED
    BY <1>5, <2>1, <2>2
<1>8. CASE all.ret = "error"
  BY <1>6, <1>7, <1>8 DEF t
<1>9. CASE all.ret # "error"
  <2>1. /\ e.client = all.client /\ e.exynos = NoRange
        /\ e.type = all.type /\ e.m2m = all.m2m /\ e.busy = all.busy /\ Lets(all, e)
        /\ Sound(kind, e)
    BY <1>1, <1>7, InitializeSteady DEF Sound
  <2> HIDE DEF e
  <2>2. t = [e EXCEPT !.ret = "changed"] /\ e \in Assignment
    BY <1>6, <1>9, <2>1 DEF Sound, Steady
  <2>3. t \in Assignment /\ SameResources(e, t) /\ t.client = e.client
        /\ t.exynos = e.exynos /\ t.ret = "changed"
    BY <1>1, <2>2 DEF Assignment, SameResources
  <2>4. Sound(kind, t)
    BY <1>1, <2>1, <2>3, SameSteady DEF Sound, Steady
  <2>5. Lets(e, t)
    BY <2>3 DEF Lets, SameResources
  <2>6. \A x \in Layer : all.type[x] # "EXYNOS"
    <3>1. Blends(kind, s)
      BY HeldBlends
    <3>2. \A x \in Layer : s.type[x] = "EXYNOS" => first <= x /\ x <= last
      BY <3>1 DEF Blends, In
    <3>3. \A x \in Layer : all.type[x] = "EXYNOS" => s.type[x] = "EXYNOS"
      BY <1>7 DEF Gives
    <3> QED
      BY <1>7, <1>9, <3>2, <3>3
  <2>7. Held(t)
    <3>1. Blends(kind, all)
      BY <1>7, HeldBlends
    <3>2. Blends(kind, t)
      BY <2>1, <2>3, <2>6, <3>1 DEF Blends, SameResources
    <3>3. CASE Blending \in all.busy
      BY <2>1, <2>3, <2>6, <3>3 DEF Held, SameResources
    <3>4. CASE Blending \notin all.busy
      <4>1. ClientHoldsBut(kind, t, {})
        BY <1>7, <2>1, <2>3, <3>4 DEF Held, Settled, ClientHoldsBut, SameResources
      <4> QED
        BY <2>1, <2>3, <3>2, <3>4, <4>1 DEF Held, Settled, SameResources
    <3> QED
      BY <3>3, <3>4
  <2> QED
    BY <1>7, <2>1, <2>3, <2>4, <2>5, <2>7, LetsAgain DEF t
<1> QED
  BY <1>8, <1>9

LEMMA LetsConverts ==
  ASSUME NEW s, NEW t, Lets(s, t), Converts(s)
  PROVE  Converts(t)
BY DEF Lets, Converts

LEMMA LetsPending ==
  ASSUME NEW s, NEW t, NEW lev, NEW n, Lets(s, t), Pending(s, lev, n)
  PROVE  Pending(t, lev, n)
BY DEF Lets, Pending, ToCome

(* The layer that was looked at is no longer to come.                      *)
LEMMA NextPending ==
  ASSUME Given, NEW s, NEW t, NEW lev \in Priority, NEW n \in Nat, NEW l \in Layer, l >= n,
         Pending(s, lev, n), \A x \in Layer \ {l} : t.m2m[x] = Single => s.m2m[x] = Single,
         kind[l].priority = lev
  PROVE  Pending(t, lev, l + 1)
<1> SUFFICES ASSUME NEW x \in ToCome(lev, l + 1) PROVE t.m2m[x] # Single
  BY DEF Pending
<1>1. x \in Layer /\ x \in Int /\ l \in Int /\ lev \in Int /\ kind[x].priority \in Int
  BY Numbers, Priorities DEF ToCome, Priority, PriorityMax
<1>2. x \in ToCome(lev, n) /\ x # l
  BY <1>1 DEF ToCome
<1> QED
  BY <1>1, <1>2 DEF Pending

(* What assignLayers() does with its answer.                               *)
LEMMA DeviceHeld ==
  ASSUME Given, NEW s, Sound(kind, s), Held(s), NEW l \in Layer, NEW a, Suits(s, l, a),
         a.type = "DEVICE", s.type[l] \notin {"CLIENT", "EXYNOS"}, s.m2m[l] # Single,
         Converts(s)
  PROVE  LET t == [assign(s, l, a) EXCEPT !.ret = "ok"]
         IN  Sound(kind, t) /\ Held(t) /\ Converts(t)
             /\ \A x \in Layer \ {l} : t.m2m[x] = s.m2m[x]
<1> DEFINE u == assign(s, l, a)
           t == [u EXCEPT !.ret = "ok"]
<1>1. Sound(kind, u) /\ Assigned(s, u, l, a)
  BY AssignSound
<1> HIDE DEF u
<1>2. u \in Assignment /\ kind \in [Layer -> Kind] /\ "ok" \in Ret
  BY <1>1 DEF Given, Sound, Steady, Ret
<1>3. t \in Assignment /\ SameResources(u, t) /\ t.client = u.client
      /\ t.exynos = u.exynos
  BY <1>2 DEF Assignment, SameResources
<1> HIDE DEF t
<1>4. Sound(kind, t)
  BY <1>1, <1>2, <1>3, SameSteady DEF Sound, Steady
<1>5. /\ t.busy = s.busy /\ t.client = s.client /\ t.exynos = s.exynos
      /\ \A x \in Layer : /\ t.type[x] = IF x = l THEN "DEVICE" ELSE s.type[x]
                          /\ x # l => t.m2m[x] = s.m2m[x]
      /\ t.m2m[l] \in {None, Single} \/ t.m2m[l] = s.m2m[l]
  BY <1>1, <1>3 DEF Assigned, SameResources, Suits, Answer
<1>6. Blends(kind, s)
  BY HeldBlends
<1>7. s.m2m[l] # Blending /\ t.m2m[l] # Blending
  BY <1>5, <1>6, NotMPPs DEF Blends
<1>8. Blends(kind, t)
  BY <1>5, <1>6, <1>7 DEF Blends
<1>9. s.m2m[l] = None /\ t.m2m[l] # Blending
  BY <1>2, <1>7 DEF Sound, Steady, Assignment, M2m
<1>10. Held(t)
  <2>1. CASE Blending \in s.busy
    BY <1>5, <2>1 DEF Held
  <2>2. CASE Blending \notin s.busy
    <3>1. ClientHoldsBut(kind, s, {})
      BY <2>2 DEF Held, Settled
    <3>2. ClientHoldsBut(kind, t, {})
      BY <1>5, <3>1 DEF ClientHoldsBut
    <3> QED
      BY <1>5, <1>8, <2>2, <3>2 DEF Held, Settled
  <2> QED
    BY <2>1, <2>2
<1>11. Converts(t)
  BY <1>5 DEF Converts
<1> QED
  BY <1>4, <1>5, <1>10, <1>11 DEF t, u

LEMMA ExynosHeld ==
  ASSUME Given, NEW s, Sound(kind, s), Held(s), NEW l \in Layer, NEW a, Suits(s, l, a),
         a.type = "EXYNOS", s.type[l] \notin {"CLIENT", "EXYNOS"}, Converts(s)
  PROVE  LET t == addExynosCompositionLayer(assign(s, l, a), l)
         IN  Sound(kind, t) /\ Settled(t) /\ Converts(t) /\ t.ret # "error"
             /\ \A x \in Layer \ {l} : t.m2m[x] = Single => s.m2m[x] = Single
<1> DEFINE u == assign(s, l, a)
           t == addExynosCompositionLayer(u, l)
<1>1. Sound(kind, u) /\ Assigned(s, u, l, a)
  BY AssignSound
<1> HIDE DEF u
<1>2. a = Answer("EXYNOS", None, Blending) /\ canBlend(s, l)
  BY DEF Suits, Answer
<1>3. /\ u.client = s.client /\ u.exynos = s.exynos
      /\ \A x \in Layer : /\ u.type[x] = IF x = l THEN "EXYNOS" ELSE s.type[x]
                          /\ u.m2m[x] = IF x = l THEN Blending ELSE s.m2m[x]
  BY <1>1, <1>2, NotMPPs DEF Assigned, Answer
<1>4. Settled(s)
  BY <1>2 DEF canBlend, m2mAssignable, Held
<1>5. kind[l].priority < PriorityHigh
  BY <1>2, Priorities DEF canBlend
<1>6. SettledBut(u, l)
  <2>1. ClientHoldsBut(kind, u, {})
    BY <1>3, <1>4, <1>5 DEF Settled, ClientHoldsBut
  <2> QED
    BY <1>3, <1>4, <1>5, <2>1 DEF SettledBut, Settled, Blends
<1>7. Sound(kind, t) /\ Lets(u, t) /\ Settled(t) /\ t.ret # "error"
  BY <1>1, <1>6, AddExynos
<1> HIDE DEF t
<1>8. Converts(u)
  BY <1>3, NotMPPs DEF Converts
<1>9. Converts(t)
  BY <1>7, <1>8, LetsConverts
<1>10. \A x \in Layer \ {l} : t.m2m[x] = Single => s.m2m[x] = Single
  BY <1>3, <1>7 DEF Lets
<1> QED
  BY <1>7, <1>9, <1>10 DEF t, u

LEMMA ReassignHeld ==
  ASSUME Given, NEW s, Sound(kind, s), Blends(kind, s)
  PROVE  LET t == reassign(s)
         IN  Sound(kind, t) /\ Held(t) /\ t.ret = "changed"
<1> DEFINE t == reassign(s)
<1>1. /\ Sound(kind, t) /\ t.ret = "changed" /\ t.busy = s.busy
      /\ t.client = NoRange /\ t.exynos = NoRange
      /\ \A l \in Layer : t.type[l] = "INVALID"
      /\ \A l \in Layer : t.m2m[l] # Blending
  BY ReassignSound
<1> HIDE DEF t
<1>2. Held(t)
  BY <1>1 DEF Held, Settled, Blends, ClientHoldsBut, In, NoRange
<1> QED
  BY <1>1, <1>2 DEF t

(* An MPP that was found busy has no sources left.                         *)
Vacated(s, t, L, m) ==
  /\ Sound(kind, t) /\ t.busy = s.busy \cup {m} /\ t.ret = "changed"
  /\ t.client = s.client /\ t.exynos = s.exynos
  /\ \A x \in Layer : /\ t.type[x] = IF x \in L THEN "DEVICE" ELSE s.type[x]
                      /\ t.m2m[x] = IF x \in L THEN None ELSE s.m2m[x]

LEMMA GiveUpSound ==
  ASSUME Given, NEW s, Sound(kind, s), NEW L \in SUBSET Layer, NEW m \in M2m,
         M2mSources(s, m) \subseteq L
  PROVE  Vacated(s, giveUp(s, L, m), L, m)
<1> DEFINE u == resetAssignedResource(s, L)
           type == [x \in Layer |-> IF x \in L THEN "DEVICE" ELSE u.type[x]]
           busy == u.busy \cup {m}
           v == [u EXCEPT !.type = type]
           t == giveUp(s, L, m)
<1>1. kind \in [Layer -> Kind] /\ Steady(kind, s) /\ Spanning(s.exynos)
  BY DEF Given, Sound
<1>2. /\ Steady(kind, u)
      /\ u.type = s.type /\ u.busy = s.busy
      /\ u.client = s.client /\ u.exynos = s.exynos
      /\ \A x \in Layer : u.m2m[x] = IF x \in L THEN None ELSE s.m2m[x]
  BY <1>1, ResetResourceSteady
<1>3. Sound(kind, u) /\ u \in Assignment
  BY <1>1, <1>2 DEF Sound, Steady
<1> HIDE DEF u
<1>4. type \in [Layer -> Types] /\ busy \in SUBSET M2m /\ "changed" \in Ret
  BY <1>3 DEF Assignment, Types, Ret
<1>5. t = [v EXCEPT !.busy = busy, !.ret = "changed"]
  BY <1>3 DEF giveUp, Assignment, u
<1>6. \A x \in Layer : type[x] = IF x \in L THEN "DEVICE" ELSE u.type[x]
  OBVIOUS
<1> HIDE DEF type, busy, t
<1>7. /\ Sound(kind, v) /\ v.type = type /\ v.otf = u.otf /\ v.m2m = u.m2m
      /\ v.users = u.users /\ v.busy = u.busy
      /\ v.client = u.client /\ v.exynos = u.exynos
  BY <1>3, <1>4, TypeChanged
<1> HIDE DEF v
<1>8. v \in Assignment /\ Owned(v) /\ Within(kind, v) /\ Spanning(v.client)
      /\ Spanning(v.exynos)
  BY <1>7 DEF Sound, Steady
<1>9. /\ t \in Assignment /\ t.type = type /\ t.otf = v.otf /\ t.m2m = v.m2m
      /\ t.users = v.users /\ t.busy = busy /\ t.ret = "changed"
      /\ t.client = v.client /\ t.exynos = v.exynos
  <2>1. t = [[v EXCEPT !.busy = busy] EXCEPT !.ret = "changed"]
    BY <1>5, <1>8 DEF Assignment
  <2> DEFINE w == [v EXCEPT !.busy = busy]
  <2>2. /\ w \in Assignment /\ w.type = v.type /\ w.otf = v.otf /\ w.m2m = v.m2m
        /\ w.users = v.users /\ w.busy = busy
        /\ w.client = v.client /\ w.exynos = v.exynos
    BY <1>4, <1>8 DEF Assignment
  <2>3. t = [w EXCEPT !.ret = "changed"]
    BY <2>1
  <2> HIDE DEF w
  <2>4. /\ t \in Assignment /\ t.type = w.type /\ t.otf = w.otf /\ t.m2m = w.m2m
        /\ t.users = w.users /\ t.busy = w.busy /\ t.ret = "changed"
        /\ t.client = w.client /\ t.exynos = w.exynos
    BY <1>4, <2>2, <2>3 DEF Assignment
  <2> QED
    BY <1>7, <2>2, <2>4
<1>10. Within(kind, t)
  <2>1. M2mSources(t, m) = {}
    BY <1>2, <1>7, <1>9, NotMPPs DEF M2mSources
  <2>2. /\ \A n \in M2m : M2mSources(t, n) = M2mSources(v, n)
        /\ G2DSources(t) = G2DSources(v)
    BY <1>9 DEF M2mSources, G2DSources
  <2>3. v.busy \subseteq M2m
    BY <1>8 DEF Assignment
  <2> QED
    BY <1>7, <1>8, <1>9, <2>1, <2>2, <2>3, NotMPPs DEF Within, busy
<1>11. Sound(kind, t)
  BY <1>8, <1>9, <1>10 DEF Sound, Steady, Owned
<1>12. \A x \in Layer : /\ t.type[x] = IF x \in L THEN "DEVICE" ELSE s.type[x]
                        /\ t.m2m[x] = IF x \in L THEN None ELSE s.m2m[x]
  BY <1>2, <1>6, <1>7, <1>9
<1> QED
  BY <1>2, <1>7, <1>9, <1>11, <1>12 DEF Vacated, t, busy, u

(* setResourcePriority().                                                  *)
LEMMA SingleGivenUp ==
  ASSUME Given, NEW s, Sound(kind, s), Held(s), Converts(s)
  PROVE  LET alone == {l \in M2mSources(s, Single) : s.type[l] = "DEVICE"}
             t == giveUp(s, alone, Single)
         IN  Sound(kind, t) /\ Held(t) /\ t.exynos = s.exynos
<1> DEFINE alone == {l \in M2mSources(s, Single) : s.type[l] = "DEVICE"}
           t == giveUp(s, alone, Single)
<1>1. alone \in SUBSET Layer /\ M2mSources(s, Single) \subseteq alone
      /\ \A x \in alone : s.type[x] = "DEVICE" /\ s.m2m[x] = Single
  BY DEF M2mSources, Converts
<1> HIDE DEF alone
<1>a. Vacated(s, t, alone, Single)
  BY <1>1, NotMPPs, GiveUpSound
<1> HIDE DEF t
<1>2. /\ Sound(kind, t) /\ t.busy = s.busy \cup {Single}
      /\ t.client = s.client /\ t.exynos = s.exynos
      /\ \A x \in Layer : /\ t.type[x] = IF x \in alone THEN "DEVICE" ELSE s.type[x]
                          /\ t.m2m[x] = IF x \in alone THEN None ELSE s.m2m[x]
  BY <1>a DEF Vacated
<1>3. /\ t.type = s.type \/ \A x \in Layer : t.type[x] = s.type[x]
      /\ \A x \in Layer : t.m2m[x] = s.m2m[x] \/ (s.m2m[x] = Single /\ t.m2m[x] = None)
  BY <1>1, <1>2
<1>4. Blends(kind, s)
  BY HeldBlends
<1>5. Blends(kind, t)
  BY <1>1, <1>2, <1>4, NotMPPs DEF Blends
<1>6. CASE Blending \in s.busy
  BY <1>1, <1>2, <1>6 DEF Held, t, alone
<1>7. CASE Blending \notin s.busy
  <2>1. ClientHoldsBut(kind, s, {})
    BY <1>7 DEF Held, Settled
  <2>2. ClientHoldsBut(kind, t, {})
    BY <1>1, <1>2, <2>1 DEF ClientHoldsBut
  <2> QED
    BY <1>2, <1>5, <1>7, <2>2, NotMPPs DEF Held, Settled, t, alone
<1> QED
  BY <1>6, <1>7

LEMMA BlendingGivenUp ==
  ASSUME Given, NEW s, Sound(kind, s), Held(s)
  PROVE  LET blended == {l \in Layer : In(l, s.exynos)}
             t == initializeExynos(giveUp(s, blended, Blending))
         IN  Sound(kind, t) /\ Held(t)
<1> DEFINE blended == {l \in Layer : In(l, s.exynos)}
           u == giveUp(s, blended, Blending)
           t == initializeExynos(u)
<1>1. Blends(kind, s) /\ kind \in [Layer -> Kind]
  BY HeldBlends DEF Given
<1>2. blended \in SUBSET Layer /\ M2mSources(s, Blending) \subseteq blended
      /\ \A x \in Layer : s.type[x] = "EXYNOS" => x \in blended
  BY <1>1 DEF M2mSources, Blends
<1> HIDE DEF blended
<1>a. Vacated(s, u, blended, Blending)
  BY <1>2, NotMPPs, GiveUpSound
<1> HIDE DEF u
<1>3. /\ Sound(kind, u) /\ u.busy = s.busy \cup {Blending}
      /\ \A x \in Layer : u.type[x] = IF x \in blended THEN "DEVICE" ELSE s.type[x]
  BY <1>a DEF Vacated
<1>4. Sound(kind, t) /\ t.type = u.type /\ t.busy = u.busy
  BY <1>1, <1>3, InitializeSteady DEF Sound
<1>5. \A x \in Layer : t.type[x] # "EXYNOS"
  BY <1>2, <1>3, <1>4
<1> HIDE DEF t
<1>6. Held(t)
  BY <1>3, <1>4, <1>5 DEF Held
<1> QED
  BY <1>4, <1>6 DEF t, u, blended

-----------------------------------------------------------------------------
(* The invariant.                                                          *)

LEMMA FreshSound ==
  ASSUME NEW k \in [Layer -> Kind]
  PROVE  Sound(k, Fresh) /\ Firm(k, Fresh) /\ (\A l \in Layer : Fresh.m2m[l] = None)
         /\ Blends(k, Fresh) /\ ClientHoldsBut(k, Fresh, {}) /\ Fresh.busy = {}
<1>1. NoRange \in Ranges /\ Spanning(NoRange) /\ ~NoRange.has
  BY DEF NoRange, Ranges, Spanning
<1>2. Fresh \in Assignment
  <2>0. 0 \in Int /\ -1 \in Int
    OBVIOUS
  <2> QED
    BY <1>1, <2>0 DEF Fresh, Assignment, Types, Ret
<1>3. /\ Fresh.busy = {} /\ Fresh.client = NoRange /\ Fresh.exynos = NoRange
      /\ \A l \in Layer : Fresh.m2m[l] = None /\ Fresh.type[l] = "INVALID"
      /\ \A x \in Source : Fresh.otf[x] = None
      /\ \A o \in Otf : Fresh.users[o] = {}
  BY DEF Fresh
<1>4. Owned(Fresh)
  BY <1>3 DEF Owned
<1>5. Within(k, Fresh)
  <2>1. M2mSources(Fresh, Blending) = {} /\ M2mSources(Fresh, Single) = {}
        /\ G2DSources(Fresh) = {}
    BY <1>3, NotMPPs DEF M2mSources, G2DSources
  <2>2. LoadOf(k, {}) = 0
    <3>1. PICK g \in [0 .. LayerNum -> Nat] :
            /\ g[0] = 0
            /\ \A n \in 1 .. LayerNum :
                 g[n] = g[n - 1] + (IF n - 1 \in {} THEN k[n - 1].load ELSE 0)
            /\ LoadOf(k, {}) = g[LayerNum]
      BY LoadSteps
    <3>2. LayerNum \in Nat
      BY ParametersOK
    <3> DEFINE Zero == {n \in 0 .. LayerNum : g[n] = 0}
    <3>3. 0 \in Zero
      BY <3>1, <3>2
    <3>4. \A n \in 1 .. LayerNum : n - 1 \in Zero => n \in Zero
      BY <3>1, <3>2
    <3>5. 0 .. LayerNum \subseteq Zero
      <4> HIDE DEF Zero
      <4> QED
        BY <3>2, <3>3, <3>4, UpTo
    <3> QED
      BY <3>1, <3>2, <3>5
  <2>3. Capacity \in Nat /\ MaxSrcLayerNum \in Nat /\ Cardinality({}) = 0
    BY ParametersOK, FS_EmptySet
  <2> QED
    BY <1>3, <2>1, <2>2, <2>3 DEF Within
<1> QED
  BY <1>1, <1>2, <1>3, <1>4, <1>5, NotMPPs
     DEF Sound, Steady, Firm, Blends, ClientHoldsBut, In

LEMMA InitInv == Init => Inv
<1> SUFFICES ASSUME Init PROVE Inv
  OBVIOUS
<1>1. kind \in [Layer -> Kind]
  BY ParametersOK DEF Init
<1>2. NoRange \in Ranges
  BY DEF NoRange, Ranges
<1>3. LayerNum \in Nat \ {0} /\ TryCount \in Nat \ {0}
  BY ParametersOK
<1>4. Given
  BY <1>1, <1>2, <1>3 DEF Init, Given
<1>5. Firm(kind, r)
  BY <1>1, FreshSound DEF Init
<1> QED
  BY <1>3, <1>4, <1>5 DEF Init, Inv, Trying, Priority, PriorityMax

LEMMA StartInv == Inv /\ StartFrame => Inv'
<1> SUFFICES ASSUME Inv, StartFrame PROVE Inv'
  OBVIOUS
<1>1. kind' \in [Layer -> Kind] /\ r' = Fresh /\ tries' = 0 /\ pc' = "asked"
      /\ level' = level /\ next' = next
  BY DEF StartFrame
<1>2. mBlendingNoneIndex' \in -1 .. LayerNum - 1 /\ lowFps' \in Ranges
  <2>1. BlendingNone(kind') \subseteq Layer /\ NoRange \in Ranges
    BY DEF BlendingNone, NoRange, Ranges
  <2>2. LowFps(kind') \subseteq Ranges
    BY Numbers DEF LowFps, Ranges
  <2>3. \A l \in Layer : l \in -1 .. LayerNum - 1
    BY Numbers
  <2>4. -1 \in -1 .. LayerNum - 1
    BY Numbers
  <2> QED
    BY <2>1, <2>2, <2>3, <2>4 DEF StartFrame
<1>3. Given'
  BY <1>1, <1>2 DEF Given
<1>4. /\ Sound(kind', r') /\ Firm(kind', r') /\ \A l \in Layer : r'.m2m[l] = None
      /\ Blends(kind', r') /\ ClientHoldsBut(kind', r', {}) /\ r'.busy = {}
  BY <1>1, FreshSound
<1>5. Held(r)'
  BY <1>4 DEF Held, Settled
<1>6. TryCount \in Nat \ {0} /\ level' \in Priority /\ next' \in 0 .. LayerNum
  BY <1>1, ParametersOK DEF Inv
<1> QED
  BY <1>1, <1>3, <1>4, <1>5, <1>6 DEF Inv, Trying

LEMMA PresentInv == Inv /\ Present => Inv'
<1> SUFFICES ASSUME Inv, Present PROVE Inv'
  OBVIOUS
<1>1. kind' \in [Layer -> Kind]
  BY ParametersOK DEF Present
<1>2. NoRange \in Ranges
  BY DEF NoRange, Ranges
<1>3. LayerNum \in Nat \ {0} /\ TryCount \in Nat \ {0}
  BY ParametersOK
<1>4. Given'
  BY <1>1, <1>2, <1>3 DEF Present, Given
<1>5. Firm(kind', r')
  BY <1>1, FreshSound DEF Present
<1> QED
  BY <1>3, <1>4, <1>5 DEF Present, Inv, Trying, Priority, PriorityMax

LEMMA AskedInv == Inv /\ AskedForClient => Inv'
<1> SUFFICES ASSUME Inv, AskedForClient PROVE Inv'
  OBVIOUS
<1>1. /\ Given /\ Sound(kind, r) /\ Held(r) /\ \A l \in Layer : r.m2m[l] = None
      /\ tries < TryCount
  BY DEF Inv, AskedForClient, Trying
<1>2. Sound(kind, r') /\ Held(r')
  BY <1>1, AskedHeld DEF AskedForClient
<1>3. Sound(kind', r') /\ Firm(kind', r')
  BY <1>2 DEF AskedForClient, Sound, Steady, Firm
<1>4. Held(r)'
  BY <1>2 DEF Held, Settled, AskedForClient
<1>5. Given' /\ pc' \in {"error", "try"} /\ tries' = tries /\ level' = level /\ next' = next
  BY DEF Inv, Given, AskedForClient
<1> QED
  BY <1>1, <1>3, <1>4, <1>5 DEF Inv, Trying

LEMMA TryInv == Inv /\ Try => Inv'
<1> SUFFICES ASSUME Inv, Try PROVE Inv'
  OBVIOUS
<1> DEFINE t == resetAssignedResources(r, FALSE)
<1>1. Given /\ Sound(kind, r) /\ Held(r) /\ tries < TryCount
  BY DEF Inv, Try, Trying
<1>2. Firm(kind, r) /\ Spanning(r.client) /\ Spanning(r.exynos)
  BY <1>1 DEF Sound, Steady, Firm
<1>3. /\ Firm(kind, t) /\ t.type = r.type /\ t.busy = r.busy
      /\ t.client = r.client /\ t.exynos = r.exynos
      /\ \A l \in Layer : t.m2m[l] = IF r.m2m[l] = Blending THEN Blending ELSE None
  <2>1. FALSE \in BOOLEAN
    OBVIOUS
  <2> HIDE DEF t
  <2>2. /\ Firm(kind, t) /\ t.type = r.type /\ t.busy = r.busy
        /\ t.client = r.client /\ t.exynos = r.exynos
        /\ \A l \in Layer : t.m2m[l] = IF r.m2m[l] = Blending /\ ~FALSE
                                       THEN Blending ELSE None
    BY <1>1, <1>2, <2>1, ResetAllFirm DEF t
  <2> QED
    BY <2>2
<1> HIDE DEF t
<1>4. Sound(kind, t)
  BY <1>2, <1>3 DEF Sound, Steady, Firm
<1>5. r' = assignCompositionTarget(t, Client)
  BY DEF Try, t
<1>6. /\ Sound(kind, r') /\ r'.type = r.type /\ r'.m2m = t.m2m /\ r'.busy = r.busy
      /\ r'.client = r.client /\ r'.exynos = r.exynos
  BY <1>1, <1>3, <1>4, <1>5, TargetSound
<1>7. Blends(kind, r)
  BY <1>1, HeldBlends
<1>8. \A l \in Layer : /\ r'.m2m[l] = Blending <=> r.m2m[l] = Blending
                       /\ r'.m2m[l] # Single
                       /\ r.m2m[l] = None => r'.m2m[l] = None
  BY <1>3, <1>6, NotMPPs
<1>9. Held(r')
  <2>1. CASE Blending \in r.busy
    BY <1>1, <1>6, <2>1 DEF Held
  <2>2. CASE Blending \notin r.busy
    <3>1. ClientHoldsBut(kind, r, {})
      BY <1>1, <2>2 DEF Held, Settled
    <3>2. ClientHoldsBut(kind, r', {})
      BY <1>6, <1>8, <3>1 DEF ClientHoldsBut
    <3>3. Blends(kind, r')
      BY <1>6, <1>7, <1>8 DEF Blends
    <3> QED
      BY <1>6, <2>2, <3>2, <3>3 DEF Held, Settled
  <2> QED
    BY <2>1, <2>2
<1>10. /\ kind' = kind /\ tries' = tries /\ level' = PriorityMax /\ next' = 0
       /\ pc' \in {"error", "layers"} /\ Given'
  BY DEF Try, Inv, Given
<1>11. Held(r)'
  BY <1>9, <1>10 DEF Held, Settled
<1>12. Converts(r') /\ Pending(r, level, next)'
  BY <1>8, <1>10 DEF Converts, Pending, ToCome
<1>13. Sound(kind', r') /\ Firm(kind', r')
  BY <1>6, <1>10 DEF Sound, Steady, Firm
<1>14. PriorityMax \in Priority /\ 0 \in 0 .. LayerNum
  BY ParametersOK DEF Priority, PriorityMax
<1> QED
  BY <1>1, <1>10, <1>11, <1>12, <1>13, <1>14 DEF Inv, Trying

(* One layer has its answer.                                               *)
LEMMA ProceedInv ==
  ASSUME Inv, pc = "layers", NEW l \in Layer, l >= next, kind[l].priority = level,
         NEW s, Sound(kind, s), Held(s), Proceed(s, l),
         s.ret = "ok" =>
           Converts(s) /\ \A x \in Layer \ {l} : s.m2m[x] = Single => r.m2m[x] = Single,
         lowFps' \in {NoRange, lowFps},
         UNCHANGED <<kind, mBlendingNoneIndex, tries, level>>
  PROVE  Inv'
<1>1. /\ Given /\ tries < TryCount /\ Pending(r, level, next) /\ level \in Priority
      /\ next \in 0 .. LayerNum /\ tries \in 0 .. TryCount
  BY DEF Inv, Trying
<1>2. r' = s /\ next' = l + 1
  BY DEF Proceed
<1>3. s.ret \in {"ok", "changed", "error"}
  BY DEF Sound, Steady, Assignment, Ret
<1>4. /\ s.ret = "ok" => pc' = "layers"
      /\ s.ret = "changed" => pc' = "test"
      /\ s.ret = "error" => pc' = "error"
  BY DEF Proceed
<1>5. Given'
  <2>1. NoRange \in Ranges
    BY DEF NoRange, Ranges
  <2> QED
    BY <1>1, <2>1 DEF Given
<1>6. Sound(kind', r') /\ Firm(kind', r')
  BY <1>2 DEF Sound, Steady, Firm
<1>7. Held(r)'
  BY <1>2 DEF Held, Settled
<1>8. next' \in 0 .. LayerNum
  BY <1>2, Numbers
<1>9. s.ret = "ok" => Pending(s, level, l + 1)
  <2>1. next \in Nat
    BY <1>1
  <2> QED
    BY <1>1, <2>1, NextPending
<1>10. s.ret = "ok" => Pending(r, level, next)' /\ Converts(r')
  BY <1>2, <1>9 DEF Pending, ToCome
<1> QED
  BY <1>1, <1>3, <1>4, <1>5, <1>6, <1>7, <1>8, <1>10 DEF Inv, Trying

LEMMA AssignLayerInv == Inv /\ AssignLayer => Inv'
<1> SUFFICES ASSUME Inv, AssignLayer PROVE Inv'
  OBVIOUS
<1> DEFINE l == Min(Waiting)
           answer == assignLayer(r, l)
<1>1. /\ pc = "layers" /\ Given /\ Sound(kind, r) /\ Held(r) /\ Converts(r)
      /\ Pending(r, level, next)
  BY DEF Inv, AssignLayer, Trying
<1>2. /\ l \in Layer /\ l >= next /\ kind[l].priority = level
      /\ r.type[l] \notin {"CLIENT", "EXYNOS"}
  <2>1. Waiting \in SUBSET Layer /\ Waiting # {}
    BY DEF Waiting, AssignLayer
  <2>2. l \in Waiting
    BY <2>1, LeastLayer
  <2> QED
    BY <2>2 DEF Waiting
<1>3. /\ UNCHANGED <<kind, mBlendingNoneIndex, tries, level>>
      /\ AssignDevice(l, answer) \/ AssignExynos(l, answer) \/ AssignClient(l, answer)
  BY DEF AssignLayer
<1> HIDE DEF l
<1>4. Suits(r, l, answer)
  BY <1>2, AssignLayerSuits
<1> HIDE DEF answer
<1>5. r.m2m[l] # Single
  BY <1>1, <1>2 DEF Pending, ToCome
<1>6. Blends(kind, r)
  BY <1>1, HeldBlends
<1>7. CASE AssignDevice(l, answer)
  <2> DEFINE s == [assign(r, l, answer) EXCEPT !.ret = "ok"]
  <2>1. answer.type = "DEVICE" /\ Proceed(s, l) /\ lowFps' = lowFps
    BY <1>7 DEF AssignDevice
  <2>2. /\ Sound(kind, s) /\ Held(s) /\ Converts(s)
        /\ \A x \in Layer \ {l} : s.m2m[x] = r.m2m[x]
    BY <1>1, <1>2, <1>4, <1>5, <2>1, DeviceHeld
  <2> HIDE DEF s
  <2> QED
    BY <1>1, <1>2, <1>3, <2>1, <2>2, ProceedInv
<1>8. CASE AssignExynos(l, answer)
  <2> DEFINE s == addExynosCompositionLayer(assign(r, l, answer), l)
             lost == s.ret = "ok" /\ LowFpsLost(s)
             t == IF lost THEN reassign(s) ELSE s
  <2>1. answer.type = "EXYNOS" /\ Proceed(t, l) /\ lowFps' \in {NoRange, lowFps}
    BY <1>8 DEF AssignExynos, UnlessLowFpsLost
  <2>2. /\ Sound(kind, s) /\ Settled(s) /\ Converts(s)
        /\ \A x \in Layer \ {l} : s.m2m[x] = Single => r.m2m[x] = Single
    BY <1>1, <1>2, <1>4, <2>1, ExynosHeld
  <2> HIDE DEF s, lost
  <2>3. Held(s) /\ Blends(kind, s)
    <3>1. Blending \in s.busy => \A x \in Layer : s.m2m[x] # Blending
      BY <2>2 DEF Sound, Steady, Within, M2mSources
    <3> QED
      BY <2>2, <3>1 DEF Held, Settled, Blends
  <2>4. Sound(kind, reassign(s)) /\ Held(reassign(s)) /\ reassign(s).ret = "changed"
    BY <1>1, <2>2, <2>3, ReassignHeld
  <2>5. /\ Sound(kind, t) /\ Held(t)
        /\ t.ret = "ok" =>
             Converts(t) /\ \A x \in Layer \ {l} : t.m2m[x] = Single => r.m2m[x] = Single
    BY <2>2, <2>3, <2>4
  <2> HIDE DEF t
  <2> QED
    BY <1>1, <1>2, <1>3, <2>1, <2>5, ProceedInv
<1>9. CASE AssignClient(l, answer)
  <2> DEFINE s == ClientsLayer(r, l)
             lost == lowFps.has /\ ~In(l, lowFps)
             t == IF lost THEN reassign(r) ELSE s
  <2>1. Proceed(t, l) /\ lowFps' \in {NoRange, lowFps}
    BY <1>9 DEF AssignClient, ClientsLayer
  <2>2. r.m2m[l] = None
    BY <1>1, <1>2, <1>5, <1>6 DEF Blends, Sound, Steady, Assignment, M2m
  <2>3. Sound(kind, s) /\ Held(s) /\ Lets(r, s)
    BY <1>1, <1>2, <2>2, ClientsLayerSound
  <2> HIDE DEF s, lost
  <2>4. Converts(s) /\ \A x \in Layer \ {l} : s.m2m[x] = Single => r.m2m[x] = Single
    BY <1>1, <2>3, LetsConverts DEF Lets
  <2>5. Sound(kind, reassign(r)) /\ Held(reassign(r)) /\ reassign(r).ret = "changed"
    BY <1>1, <1>6, ReassignHeld
  <2>6. /\ Sound(kind, t) /\ Held(t)
        /\ t.ret = "ok" =>
             Converts(t) /\ \A x \in Layer \ {l} : t.m2m[x] = Single => r.m2m[x] = Single
    BY <2>3, <2>4, <2>5
  <2> HIDE DEF t
  <2> QED
    BY <1>1, <1>2, <1>3, <2>1, <2>6, ProceedInv
<1> QED
  BY <1>3, <1>7, <1>8, <1>9

LEMMA NextLevelInv == Inv /\ NextLevel => Inv'
<1> SUFFICES ASSUME Inv, NextLevel PROVE Inv'
  OBVIOUS
<1>1. /\ Given /\ Sound(kind, r) /\ Held(r) /\ Converts(r) /\ Firm(kind, r)
      /\ Pending(r, level, next) /\ tries < TryCount /\ tries \in 0 .. TryCount
      /\ level \in Priority
  BY DEF Inv, NextLevel, Trying
<1>2. /\ next' = 0 /\ UNCHANGED <<kind, mBlendingNoneIndex, lowFps, r, tries>>
      /\ level' = IF level > 1 THEN level - 1 ELSE level
  BY DEF NextLevel
<1>3. /\ pc' \in {"target", "prioritize", "layers"}
      /\ level = 1 => pc' = "prioritize"
  BY <1>1 DEF NextLevel, Priority, PriorityMax, PriorityHigh
<1>4. Given' /\ Sound(kind', r') /\ Firm(kind', r') /\ Converts(r')
  BY <1>1, <1>2 DEF Given
<1>5. Held(r)'
  BY <1>1, <1>2 DEF Held, Settled
<1>6. level' \in Priority /\ next' \in 0 .. LayerNum
  BY <1>1, <1>2, ParametersOK DEF Priority, PriorityMax
<1>7. level # 1 => Pending(r, level, next)'
  <2> SUFFICES ASSUME level # 1, NEW l \in Layer,
                      kind[l].priority < level' \/ (kind[l].priority = level' /\ l >= next')
               PROVE  r.m2m[l] # Single
    BY <1>2 DEF Pending, ToCome
  <2>1. kind[l].priority \in Priority
    BY <1>1, Priorities
  <2>2. kind[l].priority < level
    BY <1>1, <1>2, <2>1 DEF Priority, PriorityMax
  <2> QED
    BY <1>1, <2>2 DEF Pending, ToCome
<1> QED
  BY <1>1, <1>2, <1>3, <1>4, <1>5, <1>6, <1>7 DEF Inv, Trying

LEMMA TargetInv == Inv /\ AssignExynosTarget => Inv'
<1> SUFFICES ASSUME Inv, AssignExynosTarget PROVE Inv'
  OBVIOUS
<1> DEFINE s == assignCompositionTarget(r, Exynos)
           g == giveExynosToClient(r)
<1>1. /\ Given /\ Sound(kind, r) /\ Held(r) /\ Converts(r)
      /\ Pending(r, level, next) /\ tries < TryCount /\ tries \in 0 .. TryCount
      /\ level \in Priority /\ next \in 0 .. LayerNum
  BY DEF Inv, AssignExynosTarget, Trying
<1>2. /\ r' = IF s.ret = "ok" THEN s ELSE g
      /\ UNCHANGED <<kind, mBlendingNoneIndex, lowFps, tries, level, next>>
      /\ pc' = CASE r'.ret = "ok" -> "layers"
                 [] r'.ret = "changed" -> "test"
                 [] r'.ret = "error" -> "error"
  BY DEF AssignExynosTarget
<1>3. /\ Sound(kind, s) /\ s.type = r.type /\ s.m2m = r.m2m /\ s.busy = r.busy
      /\ s.client = r.client /\ s.exynos = r.exynos
      /\ s.ret \in {"ok", "error"} /\ (s.ret = "error" => r.exynos.has)
  <2>1. Exynos \in {Client, Exynos} /\ Exynos # Client
    BY Numbers
  <2>2. ~r.exynos.has => s.ret = "ok"
    <3>1. ~r.exynos.has => s = [r EXCEPT !.ret = "ok"]
      BY <2>1 DEF assignCompositionTarget
    <3>2. r \in Assignment
      BY <1>1 DEF Sound, Steady
    <3> QED
      BY <3>1, <3>2 DEF Assignment
  <2> QED
    BY <1>1, <2>1, <2>2, TargetSound
<1> HIDE DEF s
<1>4. Held(s) /\ Converts(s) /\ Pending(s, level, next)
  BY <1>1, <1>3 DEF Held, Settled, Blends, ClientHoldsBut, Converts, Pending
<1>5. s.ret # "ok" => /\ Sound(kind, g) /\ (g.ret # "error" => Held(g))
                      /\ g.ret \in {"changed", "error"}
  BY <1>1, <1>3, GiveExynosHeld
<1> HIDE DEF g
<1>6. /\ Sound(kind', r') /\ Firm(kind', r') /\ Given'
  BY <1>1, <1>2, <1>3, <1>5 DEF Given, Sound, Steady, Firm
<1>7. /\ pc' \in {"layers", "test", "error"}
      /\ pc' = "layers" => r' = s
      /\ pc' = "test" => r'.ret = "changed" /\ r' = g /\ s.ret # "ok"
  BY <1>2, <1>3, <1>5
<1>8. pc' # "error" => Held(r)'
  <2>1. pc' # "error" => Held(r')
    BY <1>4, <1>5, <1>7
  <2> QED
    BY <1>2, <2>1 DEF Held, Settled
<1>9. pc' = "layers" => Converts(r') /\ Pending(r, level, next)'
  BY <1>2, <1>4, <1>7 DEF Pending, ToCome
<1> QED
  BY <1>1, <1>2, <1>6, <1>7, <1>8, <1>9 DEF Inv, Trying

LEMMA PrioritizeInv == Inv /\ setResourcePriority => Inv'
<1> SUFFICES ASSUME Inv, setResourcePriority PROVE Inv'
  OBVIOUS
<1>1. /\ Given /\ Sound(kind, r) /\ Held(r) /\ Converts(r)
      /\ tries < TryCount /\ tries \in 0 .. TryCount
      /\ level \in Priority /\ next \in 0 .. LayerNum
  BY DEF Inv, setResourcePriority, Trying
<1> DEFINE alone == {l \in M2mSources(r, Single) : r.type[l] = "DEVICE"}
           one == giveUp(r, alone, Single)
           blended == {l \in Layer : In(l, r.exynos)}
<1>2. PICK singleBusy \in BOOLEAN, blendingBusy \in BOOLEAN :
        LET s == IF singleBusy THEN one ELSE r
        IN r' = IF blendingBusy THEN initializeExynos(giveUp(s, blended, Blending)) ELSE s
  BY DEF setResourcePriority
<1> DEFINE s == IF singleBusy THEN one ELSE r
<1>3. Sound(kind, one) /\ Held(one) /\ one.exynos = r.exynos
  BY <1>1, SingleGivenUp
<1> HIDE DEF one
<1>4. Sound(kind, s) /\ Held(s) /\ s.exynos = r.exynos
  BY <1>1, <1>3
<1>5. r' = IF blendingBusy THEN initializeExynos(giveUp(s, blended, Blending)) ELSE s
  BY <1>2
<1> HIDE DEF s
<1>6. blended = {l \in Layer : In(l, s.exynos)}
  BY <1>4
<1>7. Sound(kind, r') /\ Held(r')
  BY <1>1, <1>4, <1>5, <1>6, BlendingGivenUp
<1>8. pc' = "test" /\ UNCHANGED <<kind, mBlendingNoneIndex, lowFps, tries, level, next>>
  BY DEF setResourcePriority
<1>9. Sound(kind', r') /\ Firm(kind', r') /\ Given'
  BY <1>1, <1>7, <1>8 DEF Given, Sound, Steady, Firm
<1>10. Held(r)'
  BY <1>7, <1>8 DEF Held, Settled
<1> QED
  BY <1>1, <1>8, <1>9, <1>10 DEF Inv, Trying

LEMMA TestAgainInv == Inv /\ TestAgain => Inv'
<1> SUFFICES ASSUME Inv, TestAgain PROVE Inv'
  OBVIOUS
<1>1. /\ Given /\ Sound(kind, r) /\ Held(r) /\ Firm(kind, r)
      /\ tries < TryCount /\ tries \in 0 .. TryCount
      /\ level \in Priority /\ next \in 0 .. LayerNum
  BY DEF Inv, TestAgain, Trying
<1>2. /\ UNCHANGED <<kind, mBlendingNoneIndex, lowFps, r, level, next>>
      /\ tries' = tries + 1
      /\ pc' \in {"try", "error", "update"}
      /\ pc' = "try" => tries' < TryCount
  BY DEF TestAgain
<1>3. Sound(kind', r') /\ Firm(kind', r') /\ Given'
  BY <1>1, <1>2 DEF Given
<1>4. Held(r)'
  BY <1>1, <1>2 DEF Held, Settled
<1>5. tries' \in 0 .. TryCount
  BY <1>1, <1>2, ParametersOK
<1> QED
  BY <1>1, <1>2, <1>3, <1>4, <1>5 DEF Inv, Trying

LEMMA FinishInv == Inv /\ Finish => Inv'
<1> SUFFICES ASSUME Inv, Finish PROVE Inv'
  OBVIOUS
<1> DEFINE e == updateExynosComposition(r)
           c == updateClientComposition(e)
<1>1. Given /\ Sound(kind, r)
  BY DEF Inv, Finish
<1>2. Firm(kind, e) /\ Spanning(e.client)
  BY <1>1, UpdateExynosSound DEF Sound, Steady, Firm
<1> HIDE DEF e
<1>3. Firm(kind, c)
  BY <1>1, <1>2, UpdateClientFirm
<1> HIDE DEF c
<1>4. Firm(kind, assignWindow(c))
  BY <1>1, <1>3, WindowsFirm
<1>5. r' \in {c, assignWindow(c)} /\ pc' \in {"error", "assigned"}
  BY DEF Finish, Updated, c, e
<1>6. UNCHANGED <<kind, mBlendingNoneIndex, lowFps, tries, level, next>>
  BY DEF Finish
<1>7. Firm(kind', r') /\ Given'
  BY <1>1, <1>3, <1>4, <1>5, <1>6 DEF Given
<1> QED
  BY <1>5, <1>6, <1>7 DEF Inv, Trying

LEMMA FallbackInv == Inv /\ Fallback => Inv'
<1> SUFFICES ASSUME Inv, Fallback PROVE Inv'
  OBVIOUS
<1> DEFINE a == resetAssignedResources(r, TRUE)
           b == initializeClient(a)
           cleared == initializeExynos(b)
           given == Loop(ClientsLayer, cleared, 0, LayerNum - 1)
           t == assignCompositionTarget(given, Client)
<1>1. Given /\ Firm(kind, r) /\ kind \in [Layer -> Kind]
  BY DEF Inv, Given
<1>2. Firm(kind, a)
  <2>1. TRUE \in BOOLEAN
    OBVIOUS
  <2> QED
    BY <1>1, <2>1, ResetAllFirm
<1> HIDE DEF a
<1>3. Firm(kind, b) /\ b.client = NoRange
  BY <1>1, <1>2, InitializeFirm
<1> HIDE DEF b
<1>4. Firm(kind, cleared) /\ cleared.client = NoRange /\ cleared.exynos = NoRange
  BY <1>1, <1>3, InitializeFirm
<1> HIDE DEF cleared
<1>5. Sound(kind, cleared)
  BY <1>4 DEF Sound, Steady, Firm, Spanning
<1>6. Sound(kind, given)
  BY <1>1, <1>5, AllClientsSound
<1>7. r' = assignWindow(t)
  <2>1. Client \in {Client, Exynos}
    OBVIOUS
  <2> QED
    BY DEF Fallback, a, b, cleared, ClientsLayer
<1> HIDE DEF given
<1>8. Sound(kind, t)
  <2>1. Client \in {Client, Exynos}
    OBVIOUS
  <2> QED
    BY <1>1, <1>6, <2>1, TargetSound
<1> HIDE DEF t
<1>9. Firm(kind, t)
  BY <1>8 DEF Sound, Steady, Firm
<1>10. Firm(kind, r')
  BY <1>1, <1>7, <1>9, WindowsFirm
<1>11. pc' = "done" /\ UNCHANGED <<kind, mBlendingNoneIndex, lowFps, tries, level, next>>
  BY DEF Fallback
<1> QED
  BY <1>10, <1>11 DEF Inv, Trying, Given

LEMMA NextInv == Inv /\ [Next]_vars => Inv'
<1> SUFFICES ASSUME Inv, [Next]_vars PROVE Inv'
  OBVIOUS
<1>1. CASE startPostProcessing
  BY <1>1 DEF Inv, startPostProcessing, Given, Trying
<1>2. CASE UNCHANGED vars
  BY <1>2 DEF Inv, vars, Given, Trying, Held, Settled, Pending, ToCome
<1> QED
  BY <1>1, <1>2, StartInv, PresentInv, AskedInv, TryInv, AssignLayerInv, NextLevelInv,
     TargetInv, PrioritizeInv, TestAgainInv, FinishInv, FallbackInv
     DEF Next, Assign

LEMMA InvHolds == Spec => []Inv
<1> QED
  BY InitInv, NextInv, PTL DEF Spec

(* The assignment of a display's resources always has its form, whatever   *)
(* layers the client gives and however often it starts over.               *)
THEOREM ResourceTypeCorrect == Spec => []TypeOK
<1>1. Inv => TypeOK
  <2> SUFFICES ASSUME Inv PROVE TypeOK
    OBVIOUS
  <2>1. r \in Assignment
    BY DEF Inv, Firm
  <2>2. ResultOK
    BY <2>1 DEF Assignment, ResultOK, Types
  <2> QED
    BY <2>2 DEF Inv, TypeOK, Given, Trying
<1> QED
  BY <1>1, InvHolds, PTL

LEMMA InvNotOverloaded == Inv => NothingOverloaded
<1> SUFFICES ASSUME Inv PROVE NothingOverloaded
  OBVIOUS
<1>1. Owned(r) /\ Within(kind, r) /\ r \in Assignment
  BY DEF Inv, Firm
<1>2. Load({l \in Layer : r.m2m[l] \in M2m}) <= Capacity
  BY <1>1 DEF Within, Load, LoadOf, G2DSources
<1>3. \A o \in Otf : Cardinality(r.users[o]) <= 1
  <2> TAKE o \in Otf
  <2>1. CASE r.users[o] = {}
    BY <2>1, FS_EmptySet
  <2>2. CASE \E x \in Source : r.users[o] = {x}
    BY <2>2, FS_Singleton
  <2> QED
    BY <1>1, <2>1, <2>2 DEF Owned
<1> QED
  BY <1>1, <1>2, <1>3 DEF Within, NothingOverloaded

(* No MPP is ever asked for more than it can do: not by a layer that is    *)
(* added, moved to the client and back, extended to or kept at the ends of *)
(* a range, in any of the tries.                                           *)
THEOREM NothingEverOverloaded == Spec => []NothingOverloaded
<1> QED
  BY InvNotOverloaded, InvHolds, PTL

-----------------------------------------------------------------------------
(* The ends of the ranges.                                                 *)

LEMMA SameTargetsAgain ==
  ASSUME NEW s, NEW t, NEW u, SameTargets(s, t), SameTargets(t, u)
  PROVE  SameTargets(s, u)
BY DEF SameTargets

(* A range that is there has its ends among the layers.                    *)
LEMMA EndsInside ==
  ASSUME NEW range \in Ranges, Spanning(range), range.has
  PROVE  /\ range.first \in Layer /\ range.last \in Layer /\ range.first <= range.last
         /\ In(range.first, range) /\ In(range.last, range)
         /\ range.first \in Int /\ range.last \in Int
BY Numbers DEF Spanning, NoRange, In, Ranges

LEMMA NeatShape ==
  ASSUME NEW s, Sound(kind, s), Neat(s)
  PROVE  Shape(s)
<1>1. s.exynos \in Ranges /\ Spanning(s.exynos)
  BY DEF Sound, Steady, Assignment
<1> QED
  BY <1>1, EndsInside DEF Neat, Shape, Solid, ExynosEnds

LEMMA NewClientEnds ==
  ASSUME NEW s, NEW l, s.client.has
  PROVE  LET w == NewClient(s, l)
             below == BelowBlendingNone(s, l) \ Sandwiched(s, Widened(s.client, l))
             L == {Min(below), Max(below)}
         IN  /\ below = {} => w.first \in {s.client.first, l} /\ w.last \in {s.client.last, l}
             /\ below # {} => /\ w.first \in {s.client.first, l} \cup L
                              /\ w.last \in {s.client.last, l} \cup L
<1> DEFINE wide == Widened(s.client, l)
           below == BelowBlendingNone(s, l) \ Sandwiched(s, wide)
           wider == Widened(wide, Min(below))
<1>1. wide.has /\ wide.first \in {s.client.first, l} /\ wide.last \in {s.client.last, l}
  BY DEF Widened, Lower, Higher
<1>2. NewClient(s, l) = IF below = {} THEN wide ELSE Widened(wider, Max(below))
  BY DEF NewClient
<1> HIDE DEF wide, below
<1>3. wider.has /\ wider.first \in {wide.first, Min(below)} /\ wider.last \in {wide.last, Min(below)}
  BY <1>1 DEF Widened, Lower, Higher
<1> HIDE DEF wider
<1>4. below # {} => /\ NewClient(s, l).first \in {wider.first, Max(below)}
                    /\ NewClient(s, l).last \in {wider.last, Max(below)}
  BY <1>2, <1>3 DEF Widened, Lower, Higher
<1> QED
  BY <1>1, <1>2, <1>3, <1>4 DEF wide, below

LEMMA ShrinkEnds ==
  ASSUME NEW k \in [Layer -> Kind], NEW s, Steady(k, s), Spanning(s.exynos),
         \A x \in Layer : s.type[x] = "EXYNOS" => In(x, s.exynos)
  PROVE  LET t == shrinkExynos(s)
         IN  /\ t.moved /\ t.exynos.has => ExynosEnds(t)
             /\ \A x \in Layer : In(x, t.exynos) => In(x, s.exynos)
             /\ t.ret # "changed" => (s.exynos.has <=> t.exynos.has) /\ t.otf = s.otf
             /\ t.users = s.users
<1> DEFINE t == shrinkExynos(s)
           left == ExynosLayers(s)
           e == initializeExynos(s)
<1>0. left \in SUBSET Layer /\ \A l \in Layer : l \in left <=> s.type[l] = "EXYNOS"
  BY DEF ExynosLayers
<1>1. s \in Assignment /\ s.exynos \in Ranges
  BY DEF Steady, Assignment
<1>2. CASE s.exynos.first < 0 \/ s.exynos.last < 0
  <2>1. t = [s EXCEPT !.ret = "error", !.moved = FALSE]
    BY <1>2 DEF shrinkExynos
  <2> QED
    BY <1>1, <2>1 DEF Assignment
<1>3. CASE ~(s.exynos.first < 0 \/ s.exynos.last < 0) /\ left = {}
  <2>1. t = [e EXCEPT !.ret = "changed", !.moved = TRUE]
    BY <1>3 DEF shrinkExynos
  <2>2. e \in Assignment /\ e.exynos = NoRange /\ e.users = s.users
    BY <1>1, InitializeSteady DEF Steady, Assignment, initializeExynos
  <2> HIDE DEF t, e
  <2> QED
    BY <2>1, <2>2 DEF Assignment, NoRange, In, t
<1>4. CASE ~(s.exynos.first < 0 \/ s.exynos.last < 0) /\ left # {}
  <2>1. t = [s EXCEPT !.exynos.first = Min(left), !.exynos.last = Max(left),
                      !.ret = "ok", !.moved = TRUE]
    BY <1>4 DEF shrinkExynos
  <2>2. Min(left) \in left /\ Max(left) \in left
    BY <1>0, <1>4, LeastLayer, GreatestLayer
  <2> HIDE DEF left, t
  <2>3. /\ t.exynos.has = s.exynos.has /\ t.exynos.first = Min(left)
        /\ t.exynos.last = Max(left) /\ t.type = s.type /\ t.otf = s.otf
        /\ t.users = s.users
    BY <1>1, <2>1 DEF Assignment, Ranges
  <2>4. ExynosEnds(t)
    BY <1>0, <2>2, <2>3 DEF ExynosEnds
  <2>5. \A x \in Layer : In(x, t.exynos) => In(x, s.exynos)
    <3>1. In(Min(left), s.exynos) /\ In(Max(left), s.exynos)
      BY <1>0, <2>2
    <3>2. Min(left) \in Int /\ Max(left) \in Int
      BY <1>0, <2>2, Numbers
    <3> QED
      BY <1>1, <2>3, <3>1, <3>2, Numbers DEF In, Ranges
  <2> QED
    BY <2>3, <2>4, <2>5 DEF t
<1> QED
  BY <1>2, <1>3, <1>4

(* What addClientCompositionLayer() does to the ends of the ranges.        *)
AddedAtEnds(s, t) ==
  /\ t.busy = s.busy
  /\ ClientEnds(s) => ClientEnds(t)
  /\ t.moved /\ t.exynos.has => ExynosEnds(t)
  /\ \A x \in Layer : In(x, t.exynos) => In(x, s.exynos)
  /\ t.ret # "changed" => SameTargets(s, t)
  /\ \A o \in Otf : s.users[o] = {} => t.users[o] = {}

LEMMA AddClientEnds ==
  ASSUME Given, NEW s, Sound(kind, s), Blends(kind, s), NEW l \in Layer, s.type[l] = "CLIENT"
  PROVE  AddedAtEnds(s, addClientCompositionLayer(s, l))
<1> DEFINE wide == Widened(s.client, l)
           L == Followers(s, l)
           range == NewClient(s, l)
           res == addClientCompositionLayer(s, l)
<1>1. s \in Assignment /\ Steady(kind, s) /\ Spanning(s.client) /\ Spanning(s.exynos)
      /\ s.client \in Ranges /\ kind \in [Layer -> Kind]
  BY DEF Given, Sound, Steady, Assignment
<1>a. AddedToClient(s, res, l)
  BY AddClient
<1>3. CASE ~s.client.has
  <2>1. res = [s EXCEPT !.client = wide, !.ret = "changed", !.moved = FALSE]
    BY <1>3 DEF addClientCompositionLayer
  <2>2. wide = [has |-> TRUE, first |-> l, last |-> l]
    BY <1>3 DEF Widened
  <2> HIDE DEF wide
  <2> QED
    BY <1>1, <1>a, <2>1, <2>2 DEF Assignment, AddedAtEnds, ClientEnds, AddedToClient, Gives
<1>4. CASE s.client.has
  <2> DEFINE s1 == [s EXCEPT !.windows = @ - Cardinality({x \in Sandwiched(s, wide) :
                                                           s.type[x] = "DEVICE"})]
             t == ToClient(s1, L)
             u == [t EXCEPT !.client = range]
             v == [u EXCEPT !.ret = "ok", !.moved = FALSE]
  <2>1. res = IF L \cap ExynosLayers(s) # {} THEN shrinkExynos(u) ELSE v
    <3>1. Sandwiched(s, wide) \cup (BelowBlendingNone(s, l) \ Sandwiched(s, wide)) = L
      BY DEF Followers
    <3> QED
      BY <1>4, <3>1 DEF addClientCompositionLayer, NewClient
  <2>2. L \in SUBSET Layer /\ range \in Ranges /\ Spanning(range) /\ range.has
    BY <1>1, FollowersInside
  <2>e. /\ range.first \in {s.client.first, l} \cup L
        /\ range.last \in {s.client.last, l} \cup L
    <3> DEFINE below == BelowBlendingNone(s, l) \ Sandwiched(s, wide)
    <3>1. /\ below = {} => range.first \in {s.client.first, l} /\ range.last \in {s.client.last, l}
          /\ below # {} => /\ range.first \in {s.client.first, l} \cup {Min(below), Max(below)}
                           /\ range.last \in {s.client.last, l} \cup {Min(below), Max(below)}
      BY <1>4, NewClientEnds
    <3>2. below \in SUBSET L
      BY DEF Followers
    <3> HIDE DEF below, L, range
    <3>3. below # {} => Min(below) \in below /\ Max(below) \in below
      BY <2>2, <3>2, LeastLayer, GreatestLayer
    <3> QED
      BY <3>1, <3>2, <3>3
  <2>3. /\ s1 \in Assignment /\ SameResources(s, s1) /\ s1.client = s.client
        /\ s1.exynos = s.exynos
    <3>1. Cardinality({x \in Sandwiched(s, wide) : s.type[x] = "DEVICE"}) \in Nat
      BY LayersFinite DEF Sandwiched
    <3> HIDE DEF wide
    <3> QED
      BY <1>1, <3>1 DEF Assignment, SameResources
  <2> HIDE DEF s1, L, range
  <2>4. Steady(kind, s1)
    BY <1>1, <2>3, SameSteady
  <2>5. /\ Steady(kind, t) /\ t.client = s.client /\ t.exynos = s.exynos
        /\ \A x \in Layer : t.type[x] = IF x \in L THEN "CLIENT" ELSE s.type[x]
        /\ \A x \in Source \ L : t.otf[x] = s.otf[x]
    BY <1>1, <2>2, <2>3, <2>4, ToClientSteady DEF SameResources
  <2>6. \A o \in Otf : s.users[o] = {} => t.users[o] = {}
    BY <2>3 DEF ToClient, resetAssignedResource, Assignment, SameResources
  <2> HIDE DEF t
  <2>7. t \in Assignment
    BY <2>5 DEF Steady
  <2>8. /\ u \in Assignment /\ SameResources(t, u) /\ u.client = range /\ u.exynos = t.exynos
        /\ v \in Assignment /\ SameResources(t, v) /\ v.client = range /\ v.exynos = t.exynos
        /\ v.ret = "ok" /\ ~v.moved
    BY <2>2, <2>7 DEF Assignment, SameResources, Ret
  <2> HIDE DEF u, v
  <2>9. Steady(kind, u)
    BY <1>1, <2>2, <2>5, <2>8, SameSteady
  <2>10. \A w : w.type = t.type /\ w.client = range => (ClientEnds(s) => ClientEnds(w))
    BY <1>1, <1>4, <2>2, <2>e, <2>5, EndsInside DEF ClientEnds
  <2>11. Exynos \in Source \ L /\ Client \in Source \ L
    BY <2>2, Numbers
  <2>12. CASE L \cap ExynosLayers(s) # {}
    <3>1. res = shrinkExynos(u)
      BY <2>1, <2>12
    <3>2. \A x \in Layer : u.type[x] = "EXYNOS" => In(x, u.exynos)
      BY <2>5, <2>8 DEF Blends, SameResources
    <3>3. /\ res.moved /\ res.exynos.has => ExynosEnds(res)
          /\ \A x \in Layer : In(x, res.exynos) => In(x, u.exynos)
          /\ res.ret # "changed" => (u.exynos.has <=> res.exynos.has) /\ res.otf = u.otf
          /\ res.users = u.users
      BY <1>1, <2>5, <2>8, <2>9, <3>1, <3>2, ShrinkEnds
    <3>4. res.type = u.type /\ res.client = range
      BY <1>1, <2>5, <2>8, <2>9, <3>1, ShrinkExynosSteady DEF SameLayers
    <3> HIDE DEF res
    <3>5. ClientEnds(s) => ClientEnds(res)
      BY <2>8, <2>10, <3>4 DEF SameResources
    <3>6. res.ret # "changed" => SameTargets(s, res)
      BY <1>4, <2>2, <2>5, <2>8, <2>11, <3>3, <3>4 DEF SameTargets, SameResources
    <3> QED
      BY <1>a, <2>5, <2>6, <2>8, <3>3, <3>5, <3>6 DEF AddedAtEnds, SameResources, AddedToClient, Gives, res
  <2>13. CASE L \cap ExynosLayers(s) = {}
    <3>1. res = v
      BY <2>1, <2>13
    <3> HIDE DEF res
    <3>2. ClientEnds(s) => ClientEnds(res)
      BY <2>8, <2>10, <3>1 DEF SameResources
    <3>3. SameTargets(s, res)
      BY <1>4, <2>2, <2>5, <2>8, <2>11, <3>1 DEF SameTargets, SameResources
    <3> QED
      BY <1>a, <2>5, <2>6, <2>8, <3>1, <3>2, <3>3 DEF AddedAtEnds, SameResources, AddedToClient, Gives, res
  <2> QED
    BY <2>12, <2>13
<1> QED
  BY <1>3, <1>4

(* A range of the G2D that holds a layer of the client's is spanned by the *)
(* client's range, ends and all, when that reaches out of it.              *)
LEMMA SolidKept ==
  ASSUME Given, NEW s, Sound(kind, s), Settled(s), ExynosEnds(s),
         NEW l \in Layer, In(l, s.client), ~In(l, s.exynos),
         \A x \in Layer : In(x, s.exynos) => s.type[x] \in {"EXYNOS", "CLIENT"}
  PROVE  Solid(s)
<1> SUFFICES ASSUME NEW x \in Layer, In(x, s.exynos), s.type[x] = "CLIENT" PROVE FALSE
  BY DEF Solid
<1>1. s.exynos \in Ranges /\ Spanning(s.exynos) /\ s.client \in Ranges /\ s.exynos.has
  BY DEF Sound, Steady, Assignment, In
<1>2. In(x, s.client) /\ s.client.first \in Int /\ s.client.last \in Int
  BY <1>1 DEF Settled, ClientHoldsBut, Ranges
<1> DEFINE e == IF l < s.exynos.first THEN s.exynos.first ELSE s.exynos.last
<1>3. e \in Layer /\ s.type[e] = "EXYNOS"
  BY <1>1, EndsInside DEF ExynosEnds
<1>4. In(e, s.client)
  BY <1>1, <1>2, <1>3, Numbers, EndsInside DEF In
<1>5. kind[e].priority < PriorityHigh
  BY <1>3 DEF Settled, Blends
<1> QED
  BY <1>3, <1>4, <1>5 DEF Settled, ClientHoldsBut

(* A layer that has nothing becomes the client's.                          *)
LEMMA ClientsLayerNeat ==
  ASSUME Given, NEW s, Sound(kind, s), Neat(s), NEW l \in Layer,
         s.type[l] # "EXYNOS", s.m2m[l] = None
  PROVE  LET c == ClientsLayer(s, l)
         IN  /\ Sound(kind, c) /\ Neat(c) /\ Lets(s, c) /\ c.ret # "error" /\ c.busy = s.busy
             /\ c.type[l] = "CLIENT"
             /\ c.ret # "changed" => SameTargets(s, c)
             /\ \A o \in Otf : s.users[o] = {} => c.users[o] = {}
<1> DEFINE type == [s.type EXCEPT ![l] = "CLIENT"]
           t == [s EXCEPT !.type = type]
           c == ClientsLayer(s, l)
<1>1. s \in Assignment /\ type \in [Layer -> Types]
      /\ \A x \in Layer : type[x] = IF x = l THEN "CLIENT" ELSE s.type[x]
  BY DEF Sound, Steady, Assignment, Types
<1>2. ClientsLayer(s, l) = addClientCompositionLayer(t, l)
  BY <1>1 DEF ClientsLayer, Assignment
<1> HIDE DEF type, c
<1>3. /\ Sound(kind, t) /\ t.type = type /\ t.otf = s.otf /\ t.m2m = s.m2m
      /\ t.users = s.users /\ t.busy = s.busy
      /\ t.client = s.client /\ t.exynos = s.exynos
  BY <1>1, TypeChanged
<1> HIDE DEF t
<1>4. Blends(kind, t) /\ ClientHoldsBut(kind, t, {l}) /\ t.type[l] = "CLIENT"
      /\ t.m2m[l] = None
  BY <1>1, <1>3, NotMPPs DEF Neat, Settled, Blends, ClientHoldsBut
<1>5. AddedToClient(t, c, l) /\ AddedAtEnds(t, c)
  BY <1>2, <1>3, <1>4, AddClient, AddClientEnds DEF c
<1>6. ClientEnds(t)
  <2>1. s.client \in Ranges /\ Spanning(s.client)
    BY DEF Sound, Steady, Assignment
  <2> QED
    BY <1>1, <1>3, <2>1, EndsInside DEF Neat, ClientEnds
<1>7. Settled(c) /\ ClientEnds(c) /\ c.ret # "error" /\ Sound(kind, c)
  BY <1>4, <1>5, <1>6 DEF AddedToClient, AddedAtEnds, Settled
<1>8. Gives(t, c) /\ Lets(t, c) /\ Lets(s, t)
  BY <1>1, <1>3, <1>5, GivesLets, NotMPPs DEF AddedToClient, Lets
<1>9. Solid(c)
  <2>1. ~In(l, s.exynos)
    BY DEF Neat, Solid
  <2>2. \A x \in Layer : In(x, c.exynos) => t.type[x] = "EXYNOS" /\ x # l
    BY <1>1, <1>3, <1>5, <2>1 DEF Neat, Solid, AddedAtEnds
  <2>3. CASE ~c.moved
    BY <1>4, <1>5, <2>2, <2>3 DEF AddedToClient, Solid
  <2>4. CASE c.moved /\ c.exynos.has
    <3>1. ExynosEnds(c) /\ In(l, c.client) /\ ~In(l, c.exynos)
      BY <1>3, <1>5, <2>1, <2>4 DEF AddedAtEnds, AddedToClient
    <3>2. \A x \in Layer : In(x, c.exynos) => c.type[x] \in {"EXYNOS", "CLIENT"}
      BY <1>8, <2>2 DEF Gives
    <3> QED
      BY <1>7, <3>1, <3>2, SolidKept
  <2>5. CASE ~c.exynos.has
    BY <2>5 DEF Solid, In
  <2> QED
    BY <2>3, <2>4, <2>5
<1>10. c.type[l] = "CLIENT"
  BY <1>4, <1>8 DEF Gives
<1>11. c.busy = s.busy
  BY <1>3, <1>8 DEF Gives
<1> QED
  BY <1>3, <1>5, <1>7, <1>8, <1>9, <1>10, <1>11, LetsAgain
     DEF Neat, AddedAtEnds, SameTargets, c

(* A layer of any kind goes to the client.                                 *)
LEMMA GiveLayerEnds ==
  ASSUME Given, NEW s, Sound(kind, s), Settled(s), NEW l \in Layer
  PROVE  LET c == GiveLayer(s, l)
         IN  /\ AddedAtEnds(s, c)
             /\ ~c.moved => /\ c.exynos = s.exynos
                            /\ \A x \in Layer \ {l} : s.type[x] = "EXYNOS" => c.type[x] = "EXYNOS"
             /\ s.type[l] # "EXYNOS" /\ ExynosEnds(s) => ExynosEnds(c)
<1> DEFINE t == ToClient(s, {l})
           c == GiveLayer(s, l)
<1>1. /\ kind \in [Layer -> Kind] /\ s \in Assignment /\ Steady(kind, s)
      /\ s.client \in Ranges /\ Spanning(s.client) /\ s.exynos \in Ranges /\ Spanning(s.exynos)
  BY DEF Given, Sound, Steady, Assignment
<1>2. /\ Steady(kind, t) /\ Lets(s, t)
      /\ t.busy = s.busy /\ t.client = s.client /\ t.exynos = s.exynos
      /\ \A x \in Layer :
           /\ t.type[x] = IF x \in {l} THEN "CLIENT" ELSE s.type[x]
           /\ t.m2m[x] = IF x \in {l} THEN None ELSE s.m2m[x]
      /\ \A x \in Source \ {l} : t.otf[x] = s.otf[x]
  BY <1>1, ToClientSteady
<1>3. \A o \in Otf : s.users[o] = {} => t.users[o] = {}
  BY <1>1 DEF ToClient, resetAssignedResource, Assignment
<1> HIDE DEF t, c
<1>4. Sound(kind, t) /\ Blends(kind, t) /\ t.type[l] = "CLIENT"
  BY <1>1, <1>2, NotMPPs DEF Sound, Settled, Blends
<1>5. AddedToClient(t, c, l) /\ AddedAtEnds(t, c)
  BY <1>4, AddClient, AddClientEnds DEF c, t, GiveLayer
<1>6. ClientEnds(s) => ClientEnds(t)
  BY <1>1, <1>2, EndsInside DEF ClientEnds
<1>7. SameTargets(s, t)
  BY <1>2, Numbers DEF SameTargets
<1>8. AddedAtEnds(s, c)
  BY <1>2, <1>3, <1>5, <1>6, <1>7, SameTargetsAgain DEF AddedAtEnds
<1>9. ~c.moved => /\ c.exynos = s.exynos
                  /\ \A x \in Layer \ {l} : s.type[x] = "EXYNOS" => c.type[x] = "EXYNOS"
  BY <1>2, <1>4, <1>5 DEF AddedToClient
<1>10. s.type[l] # "EXYNOS" /\ ExynosEnds(s) => ExynosEnds(c)
  BY <1>1, <1>8, <1>9, EndsInside DEF AddedAtEnds, ExynosEnds
<1> QED
  BY <1>8, <1>9, <1>10 DEF c

-----------------------------------------------------------------------------
(* addExynosCompositionLayer(), while no two neighbours have high priority. *)

(* What the walk has seen of a layer of low priority.                      *)
Seen(a, x) == a.s.type[x] = "EXYNOS" \/ (a.s.type[x] = "CLIENT" /\ a.invalid)

LEMMA WalkShape ==
  ASSUME Given, NEW s, Settled(s), s.exynos \in Ranges, NEW a, OnTheWay(s, a),
         NEW i \in Layer, In(i, s.exynos)
  PROVE  LET b == blendSandwiched(a, i)
         IN  /\ OnTheWay(s, b)
             /\ \A x \in Layer : Seen(a, x) \/ (x = i /\ ~High(i)) => Seen(b, x)
<1> DEFINE b == blendSandwiched(a, i)
           aa == [a EXCEPT !.invalid = TRUE]
           type == [s : Assignment, invalid : BOOLEAN, changed : BOOLEAN, error : BOOLEAN]
<1>1. /\ a \in type /\ a \in Walk(s) /\ ~a.error /\ Sound(kind, a.s) /\ a.s \in Assignment
      /\ Settled(a.s) /\ ClientEnds(a.s) /\ ExynosEnds(a.s)
      /\ a.s.exynos \in Ranges /\ Spanning(a.s.exynos)
      /\ a.s.client \in Ranges /\ Spanning(a.s.client)
  BY DEF OnTheWay, Walk, Fine, Shape, Sound, Steady, Assignment
<1>2. aa \in type /\ aa.s = a.s /\ aa.error = a.error /\ aa.changed = a.changed /\ aa.invalid
  BY <1>1
<1>w. b \in Walk(s)
  BY <1>1, WalkOn
<1>3. CASE High(i) \/ a.s.type[i] = "EXYNOS"
  <2>1. b = a
    BY <1>1, <1>3 DEF blendSandwiched
  <2> HIDE DEF b
  <2> QED
    BY <1>3, <2>1 DEF Seen, b
<1>4. CASE ~(High(i) \/ a.s.type[i] = "EXYNOS") /\ a.s.type[i] = "CLIENT"
  <2>1. b = aa
    BY <1>1, <1>4 DEF blendSandwiched
  <2> HIDE DEF b, aa
  <2> QED
    BY <1>2, <1>4, <1>w, <2>1 DEF OnTheWay, Seen, b
<1>5. CASE /\ ~(High(i) \/ a.s.type[i] = "EXYNOS")
           /\ a.s.type[i] # "CLIENT" /\ ~canBlend(a.s, i)
  <2> DEFINE c == GiveLayer(a.s, i)
  <2>1. b = leftToClient(aa, c)
    BY <1>1, <1>5 DEF blendSandwiched, GiveLayer
  <2>2. Fine(a.s, c) /\ Gives(a.s, c) /\ c.type[i] = "CLIENT" /\ c \in Assignment
    BY <1>1, GiveLayerFine DEF Fine, Sound, Steady
  <2>3. AddedAtEnds(a.s, c) /\ ExynosEnds(c)
    BY <1>1, <1>5, GiveLayerEnds
  <2> HIDE DEF c
  <2>4. b \in type /\ b.s = c /\ b.invalid /\ (b.changed <=> a.changed \/ c.ret = "changed")
    BY <1>2, <2>1, <2>2, LeftToClient
  <2> HIDE DEF b, aa
  <2>5. Shape(c)
    BY <1>1, <2>2, <2>3 DEF Shape, Fine, AddedAtEnds
  <2>6. b.changed \/ SameTargets(s, c)
    BY <2>3, <2>4, SameTargetsAgain DEF AddedAtEnds, OnTheWay
  <2>7. \A x \in Layer : In(x, c.exynos) => In(x, s.exynos)
    BY <2>3 DEF AddedAtEnds, OnTheWay
  <2>8. \A x \in Layer : Seen(a, x) \/ x = i => Seen(b, x)
    BY <2>2, <2>4 DEF Seen, Gives
  <2>9. c.busy = s.busy
    BY <2>3 DEF AddedAtEnds, OnTheWay
  <2> QED
    BY <1>w, <2>4, <2>5, <2>6, <2>7, <2>8, <2>9 DEF OnTheWay, b
<1>6. CASE /\ ~(High(i) \/ a.s.type[i] = "EXYNOS")
           /\ a.s.type[i] # "CLIENT" /\ canBlend(a.s, i)
  <2> DEFINE w == a.s.windows - (IF a.s.type[i] = "DEVICE" THEN 1 ELSE 0)
             u == resetAssignedResource(a.s, {i})
             t == [u EXCEPT !.m2m[i] = Blending, !.type[i] = "EXYNOS",
                            !.windows = w, !.exynos = Widened(@, i)]
             wide == Widened(a.s.exynos, i)
  <2>1. w \in Int /\ u.windows = a.s.windows
    BY <1>1 DEF Assignment, resetAssignedResource
  <2>2. b = [a EXCEPT !.s = t]
    <3>1. b = [a EXCEPT !.s =
                 [u EXCEPT !.m2m[i] = Blending, !.type[i] = "EXYNOS",
                           !.windows = @ - (IF a.s.type[i] = "DEVICE" THEN 1 ELSE 0),
                           !.exynos = Widened(@, i)]]
      BY <1>1, <1>6 DEF blendSandwiched
    <3> HIDE DEF u
    <3> QED
      BY <2>1, <3>1
  <2>3. /\ Fine(a.s, t) /\ t.exynos = wide /\ t.client = a.s.client /\ t.busy = s.busy
        /\ \A x \in Layer : t.type[x] = IF x = i THEN "EXYNOS" ELSE a.s.type[x]
        /\ \A x \in Source \ {i} : t.otf[x] = a.s.otf[x]
    <3>1. i \in Layer /\ canBlend(a.s, i) /\ ~High(i) /\ a.s.type[i] \notin {"CLIENT", "EXYNOS"}
          /\ w \in Int
      BY <1>6, <2>1
    <3> HIDE DEF w
    <3>2. Fine(a.s, t) /\ JustBlended(a.s, t, i)
      BY <1>1, <3>1, BlendLayerFine
    <3> HIDE DEF t
    <3> QED
      BY <3>2 DEF JustBlended, OnTheWay
  <2> HIDE DEF t, b
  <2>4. b.s = t /\ b.invalid = a.invalid /\ b.changed = a.changed
    BY <1>1, <2>2
  <2>5. /\ wide.has /\ wide.first \in {a.s.exynos.first, i} /\ wide.last \in {a.s.exynos.last, i}
        /\ ~a.s.exynos.has => wide.first = i /\ wide.last = i
    BY DEF Widened, Lower, Higher
  <2>6. ExynosEnds(t)
    BY <1>1, <2>3, <2>5, EndsInside DEF ExynosEnds
  <2>7. ClientEnds(t)
    BY <1>1, <1>6, <2>3, EndsInside DEF ClientEnds
  <2>8. Shape(t)
    BY <1>1, <2>3, <2>6, <2>7 DEF Shape, Fine
  <2>9. a.changed \/ SameTargets(s, t)
    BY <2>3, <2>5, Numbers DEF OnTheWay, SameTargets, In
  <2>10. \A x \in Layer : In(x, wide) => In(x, s.exynos)
    <3>1. s.exynos.has /\ s.exynos.first <= i /\ i <= s.exynos.last
      BY DEF In
    <3>2. a.s.exynos.has => In(a.s.exynos.first, s.exynos) /\ In(a.s.exynos.last, s.exynos)
      BY <1>1, EndsInside DEF OnTheWay
    <3>3. In(wide.first, s.exynos) /\ In(wide.last, s.exynos)
      BY <2>5, <3>2
    <3>4. wide.first \in Int /\ wide.last \in Int /\ s.exynos.first \in Int /\ s.exynos.last \in Int
      BY <1>1, <2>5, Numbers DEF Ranges
    <3> HIDE DEF wide
    <3> QED
      BY <3>3, <3>4, Numbers DEF In
  <2>11. \A x \in Layer : Seen(a, x) \/ x = i => Seen(b, x)
    BY <2>3, <2>4 DEF Seen
  <2> QED
    BY <1>w, <2>3, <2>4, <2>8, <2>9, <2>10, <2>11 DEF OnTheWay, b
<1> QED
  BY <1>3, <1>4, <1>5, <1>6

(* The whole walk: each layer of low priority that it passes is the G2D's, *)
(* or the client's, and then it has seen that the range is not whole.      *)
LEMMA WalkSeen ==
  ASSUME Given, NEW s, Sound(kind, s), Shape(s), s.exynos.has
  PROVE  LET start == [s |-> s, invalid |-> FALSE, changed |-> FALSE, error |-> FALSE]
             a == Loop(blendSandwiched, start, s.exynos.first, s.exynos.last)
         IN  /\ OnTheWay(s, a)
             /\ \A x \in Layer : In(x, s.exynos) /\ ~High(x) => Seen(a, x)
<1> DEFINE start == [s |-> s, invalid |-> FALSE, changed |-> FALSE, error |-> FALSE]
           first == s.exynos.first
           last == s.exynos.last
           N == LoopTimes(first, last)
           type == [s : Assignment, invalid : BOOLEAN, changed : BOOLEAN, error : BOOLEAN]
           W(n) == {a \in type :
                      /\ OnTheWay(s, a)
                      /\ \A x \in Layer : first <= x /\ x < first + n /\ ~High(x) => Seen(a, x)}
           A == [n \in Int |-> W(n)]
           all == Loop(blendSandwiched, start, first, last)
<1>1. /\ first \in Layer /\ last \in Layer /\ first <= last /\ first \in Int /\ last \in Int
      /\ s \in Assignment /\ s.exynos \in Ranges
  BY EndsInside DEF Sound, Steady, Assignment
<1>2. start \in A[0]
  <2>1. start \in type /\ start.s = s /\ ~start.error
    BY <1>1
  <2> HIDE DEF start
  <2>2. Fine(s, s)
    BY DEF Fine, Lets
  <2>3. OnTheWay(s, start)
    BY <2>1, <2>2 DEF OnTheWay, Walk, SameTargets
  <2>4. \A x \in Layer : ~(first <= x /\ x < first + 0)
    BY <1>1, Numbers
  <2> QED
    BY <2>1, <2>3, <2>4
<1>3. ASSUME NEW n \in 1 .. N, NEW a \in A[n - 1]
      PROVE  blendSandwiched(a, first + n - 1) \in A[n]
  <2> DEFINE i == first + n - 1
             b == blendSandwiched(a, i)
  <2>1. i \in Layer /\ n \in Int /\ i <= last /\ first <= i
    <3>1. i \in Layer /\ n \in Int
      BY <1>1, LayersBetween
    <3> QED
      BY <1>1, <3>1, Times
  <2>2. /\ a \in type /\ OnTheWay(s, a)
        /\ \A x \in Layer : first <= x /\ x < i /\ ~High(x) => Seen(a, x)
    BY <1>1, <2>1
  <2>3. i = first + n - 1 /\ In(i, s.exynos)
    BY <2>1 DEF In
  <2> HIDE DEF i, b
  <2>4. /\ OnTheWay(s, b)
        /\ \A x \in Layer : Seen(a, x) \/ (x = i /\ ~High(i)) => Seen(b, x)
    BY <1>1, <2>1, <2>2, <2>3, WalkShape DEF b, Shape
  <2>5. b \in type
    BY <2>4 DEF OnTheWay, Walk
  <2>6. \A x \in Layer : first <= x /\ x < first + n /\ ~High(x) => Seen(b, x)
    <3> SUFFICES ASSUME NEW x \in Layer, first <= x, x < first + n, ~High(x)
                 PROVE  Seen(b, x)
      OBVIOUS
    <3>1. x = i \/ x < i
      BY <1>1, <2>1, <2>3, Numbers
    <3> QED
      BY <2>2, <2>4, <3>1
  <2> QED
    BY <2>1, <2>4, <2>5, <2>6 DEF b, i
<1>4. N \in Nat /\ N \in Int /\ N = last - first + 1
  <2>1. first \in Int /\ last \in Int /\ first <= last
    BY <1>1
  <2> HIDE DEF first, last
  <2> QED
    BY <2>1, Times
<1>5. all \in A[N]
  <2> HIDE DEF A, all, N, start
  <2> QED
    BY <1>1, <1>2, <1>3, WalkLoop DEF all, N
<1> HIDE DEF all, start
<1>6. /\ OnTheWay(s, all)
      /\ \A x \in Layer : first <= x /\ x < first + N /\ ~High(x) => Seen(all, x)
  BY <1>4, <1>5
<1>7. \A x \in Layer : In(x, s.exynos) => first <= x /\ x < first + N
  BY <1>1, <1>4, Numbers DEF In
<1> QED
  BY <1>6, <1>7 DEF all, start

(* A layer of the client's in a range of the G2D that has its own at the   *)
(* ends: the client's range lies inside.                                   *)
LEMMA ClientInside ==
  ASSUME Given, NEW s, Sound(kind, s), Settled(s), ExynosEnds(s),
         NEW x \in Layer, In(x, s.exynos), s.type[x] = "CLIENT"
  PROVE  Nests(s)
<1>1. s.exynos \in Ranges /\ Spanning(s.exynos) /\ s.client \in Ranges /\ Spanning(s.client)
      /\ s.exynos.has
  BY DEF Sound, Steady, Assignment, In
<1>2. In(x, s.client)
  BY DEF Settled, ClientHoldsBut
<1>3. \A e \in Layer : s.type[e] = "EXYNOS" => ~In(e, s.client)
  BY DEF Settled, ClientHoldsBut, Blends
<1>4. ~In(s.exynos.first, s.client) /\ ~In(s.exynos.last, s.client)
  BY <1>1, <1>3, EndsInside DEF ExynosEnds
<1>5. /\ s.exynos.first \in Int /\ s.exynos.last \in Int
      /\ s.client.first \in Int /\ s.client.last \in Int
      /\ s.client.has
  BY <1>1, <1>2 DEF Ranges, In
<1>6. s.exynos.first <= x /\ x <= s.exynos.last /\ s.client.first <= x /\ x <= s.client.last
      /\ x \in Int
  BY <1>2, Numbers DEF In
<1> QED
  BY <1>4, <1>5, <1>6 DEF Nests, In

(* What is left of the range when the end beside the client's is given     *)
(* away: its layers of low priority are the G2D's.                         *)
LowAre(s) == \A x \in Layer : In(x, s.exynos) /\ ~High(x) => s.type[x] = "EXYNOS"

LEMMA BesideClientEnds ==
  ASSUME Given, NEW s, Sound(kind, s), Shape(s), Nests(s), NEW lower \in BOOLEAN,
         \A x \in Layer : In(x, s.exynos) /\ ~High(x) => s.type[x] \in {"EXYNOS", "CLIENT"}
  PROVE  LET end == IF lower THEN s.exynos.first ELSE s.exynos.last
             t == besideClient(GiveLayer(s, end), lower)
         IN  /\ ClientEnds(t) /\ LowAre(t) /\ t.busy = s.busy
             /\ \A x \in Layer : In(x, t.exynos) => In(x, s.exynos)
             /\ t.ret # "changed" => SameTargets(s, t)
<1> DEFINE end == IF lower THEN s.exynos.first ELSE s.exynos.last
           c == GiveLayer(s, end)
           t == besideClient(c, lower)
<1>0. Settled(s) /\ ClientEnds(s) /\ ExynosEnds(s) /\ s.exynos \in Ranges /\ Spanning(s.exynos)
      /\ s.client \in Ranges /\ Spanning(s.client)
  BY DEF Shape, Sound, Steady, Assignment
<1>1. s.exynos.has
  <2>1. s.client.has /\ s.exynos.first < s.client.first /\ s.client.last < s.exynos.last
    BY DEF Nests
  <2>2. s.client.first \in Layer /\ s.client.last \in Layer /\ s.client.first <= s.client.last
    BY <1>0, <2>1, EndsInside
  <2> QED
    BY <1>0, <2>1, <2>2, Numbers DEF Spanning, NoRange
<1>2. /\ s.exynos.first \in Layer /\ s.exynos.last \in Layer /\ s.exynos.first <= s.exynos.last
      /\ s.exynos.first \in Int /\ s.exynos.last \in Int /\ end \in Layer
      /\ end \in {s.exynos.first, s.exynos.last}
  BY <1>0, <1>1, EndsInside
<1>3. /\ Fine(s, c) /\ Gives(s, c) /\ c.ret # "error"
      /\ c.client.has /\ In(end, c.client)
      /\ AddedAtEnds(s, c)
      /\ ~c.moved => c.exynos = s.exynos
  BY <1>0, <1>2, GiveLayerFine, GiveLayerEnds
<1> HIDE DEF c
<1>4. /\ Sound(kind, c) /\ Settled(c) /\ ClientEnds(c) /\ c \in Assignment
      /\ c.client \in Ranges /\ Spanning(c.client) /\ c.exynos \in Ranges
  BY <1>0, <1>3 DEF Fine, AddedAtEnds, Sound, Steady, Assignment
<1>5. \A x \in Layer : In(x, c.exynos) /\ ~High(x) => c.type[x] \in {"EXYNOS", "CLIENT"}
  BY <1>3 DEF AddedAtEnds, Gives
<1>6. CASE c.moved
  <2>1. t = c
    BY <1>6 DEF besideClient
  <2>2. LowAre(c)
    <3> SUFFICES ASSUME NEW x \in Layer, In(x, c.exynos), c.type[x] = "CLIENT"
                 PROVE  FALSE
      BY <1>5 DEF LowAre
    <3>1. c.exynos.has /\ Spanning(c.exynos)
      BY <1>4 DEF In, Sound
    <3>2. ExynosEnds(c)
      BY <1>3, <1>6, <3>1 DEF AddedAtEnds
    <3>3. Nests(c)
      BY <1>4, <3>2, ClientInside
    <3>4. /\ c.exynos.first \in Layer /\ In(c.exynos.first, c.exynos)
          /\ c.exynos.last \in Layer /\ In(c.exynos.last, c.exynos)
          /\ c.client.first \in Int /\ c.client.last \in Int
      BY <1>4, <3>1, EndsInside DEF Ranges
    <3>5. In(c.exynos.first, s.exynos) /\ In(c.exynos.last, s.exynos)
      BY <1>3, <3>4 DEF AddedAtEnds
    <3>6. c.exynos.first < c.client.first /\ c.client.last < c.exynos.last
          /\ c.client.first <= end /\ end <= c.client.last
      BY <1>3, <3>3 DEF Nests, In
    <3>7. s.exynos.first <= c.exynos.first /\ c.exynos.last <= s.exynos.last
      BY <3>5 DEF In
    <3> QED
      BY <1>2, <3>4, <3>6, <3>7, Numbers
  <2> HIDE DEF t
  <2> QED
    BY <1>3, <1>4, <2>1, <2>2 DEF AddedAtEnds, t, c, end
<1>7. CASE ~c.moved
  <2> DEFINE range == IF lower THEN [s.exynos EXCEPT !.first = c.client.last + 1]
                               ELSE [s.exynos EXCEPT !.last = c.client.first - 1]
  <2>1. t = [c EXCEPT !.exynos = range]
    BY <1>3, <1>4, <1>7 DEF besideClient, Assignment
  <2>2. /\ range.has
        /\ range.first = IF lower THEN c.client.last + 1 ELSE s.exynos.first
        /\ range.last = IF lower THEN s.exynos.last ELSE c.client.first - 1
    BY <1>0, <1>1 DEF Ranges
  <2> HIDE DEF range, t
  <2>3. SameResources(c, t) /\ t.client = c.client /\ t.exynos = range /\ t.ret = c.ret
    BY <1>4, <2>1 DEF Assignment, SameResources
  <2>4. /\ c.client.first \in Int /\ c.client.last \in Int
        /\ c.client.first <= end /\ end <= c.client.last
    BY <1>3, <1>4 DEF Ranges, In
  <2>5. \A x \in Layer : In(x, range) => In(x, s.exynos) /\ ~In(x, c.client)
    BY <1>1, <1>2, <1>3, <2>2, <2>4, Numbers DEF In
  <2>6. LowAre(t)
    <3> SUFFICES ASSUME NEW x \in Layer, In(x, range), ~High(x) PROVE c.type[x] = "EXYNOS"
      BY <2>3 DEF LowAre, SameResources
    <3>1. In(x, c.exynos) /\ ~In(x, c.client)
      BY <1>3, <1>7, <2>5
    <3> QED
      BY <1>4, <1>5, <3>1 DEF Settled, ClientHoldsBut
  <2>7. ClientEnds(t) /\ t.busy = s.busy
    BY <1>3, <1>4, <2>3 DEF ClientEnds, SameResources, AddedAtEnds
  <2>8. t.ret # "changed" => SameTargets(s, t)
    BY <1>1, <1>3, <2>2, <2>3 DEF SameTargets, SameResources, AddedAtEnds
  <2> QED
    BY <2>3, <2>5, <2>6, <2>7, <2>8 DEF t, c, end
<1> QED
  BY <1>6, <1>7

LEMMA UnnestEnds ==
  ASSUME Given, NEW s, Settled(s), NEW a, OnTheWay(s, a),
         \A x \in Layer : In(x, s.exynos) /\ ~High(x) => Seen(a, x)
  PROVE  LET b == unnest(a)
         IN  /\ ClientEnds(b.s) /\ LowAre(b.s) /\ b.s.busy = s.busy
             /\ \A x \in Layer : In(x, b.s.exynos) => In(x, s.exynos)
             /\ b.changed \/ SameTargets(s, b.s)
<1> DEFINE t == a.s
           lower == t.client.first - t.exynos.first < t.exynos.last - t.client.last
           end == IF lower THEN t.exynos.first ELSE t.exynos.last
           c == besideClient(GiveLayer(t, end), lower)
           b == unnest(a)
           type == [s : Assignment, invalid : BOOLEAN, changed : BOOLEAN, error : BOOLEAN]
<1>1. /\ a \in type /\ Sound(kind, t) /\ ~a.error /\ Shape(t) /\ t.busy = s.busy
      /\ Settled(t) /\ ClientEnds(t) /\ ExynosEnds(t)
      /\ \A x \in Layer : In(x, t.exynos) => In(x, s.exynos)
      /\ a.changed \/ SameTargets(s, t)
  BY DEF OnTheWay, Walk, Fine, Shape
<1>2. CASE ~a.invalid \/ ~Nests(t)
  <2>1. b = a
    BY <1>2 DEF unnest
  <2> HIDE DEF b
  <2>2. LowAre(t)
    <3> SUFFICES ASSUME NEW x \in Layer, In(x, t.exynos), ~High(x), t.type[x] # "EXYNOS"
                 PROVE  FALSE
      BY DEF LowAre
    <3>1. t.type[x] = "CLIENT" /\ a.invalid
      BY <1>1 DEF Seen
    <3> QED
      BY <1>1, <1>2, <3>1, ClientInside
  <2> QED
    BY <1>1, <2>1, <2>2 DEF b
<1>3. CASE a.invalid /\ Nests(t)
  <2>1. b = leftToClient(a, c)
    BY <1>1, <1>3 DEF unnest, GiveLayer
  <2>2. lower \in BOOLEAN
    OBVIOUS
  <2>3. \A x \in Layer : In(x, t.exynos) /\ ~High(x) => t.type[x] \in {"EXYNOS", "CLIENT"}
    BY <1>1 DEF Seen
  <2> HIDE DEF lower, b
  <2>4. /\ ClientEnds(c) /\ LowAre(c) /\ c.busy = t.busy
        /\ \A x \in Layer : In(x, c.exynos) => In(x, t.exynos)
        /\ c.ret # "changed" => SameTargets(t, c)
    BY <1>1, <1>3, <2>2, <2>3, BesideClientEnds
  <2>5. c \in Assignment
    <3>1. Rough(t, c)
      BY <1>1, <1>3, <2>2, BesideClientRough
    <3> QED
      BY <3>1 DEF Rough, Steady
  <2> HIDE DEF c
  <2>6. b.s = c /\ (b.changed <=> a.changed \/ c.ret = "changed")
    BY <1>1, <2>1, <2>5, LeftToClient
  <2>7. b.changed \/ SameTargets(s, c)
    BY <1>1, <2>4, <2>6, SameTargetsAgain
  <2> QED
    BY <1>1, <2>4, <2>6, <2>7 DEF b
<1> QED
  BY <1>2, <1>3

(* No two of high are neighbours, so that one step is enough at each end.  *)
Trims(s, t) ==
  /\ t \in Assignment /\ SameResources(s, t) /\ t.client = s.client /\ t.ret = s.ret
  /\ t.exynos.has = s.exynos.has
  /\ s.exynos.first <= t.exynos.first /\ t.exynos.last <= s.exynos.last

LEMMA TrimEnds ==
  ASSUME Given, HighApart, NEW s, s \in Assignment, NEW high \in SUBSET Layer,
         \A x \in high : High(x)
  PROVE  LET t == trimHigh(s, high)
         IN  /\ Trims(s, t)
             /\ ~EmptyRange(t.exynos) => t.exynos.first \notin high /\ t.exynos.last \notin high
<1> DEFINE W(n) == {t \in Assignment :
                      /\ Trims(s, t)
                      /\ t.exynos.first >= n \/ t.exynos.first \notin high
                      /\ \/ t.exynos.last >= n \/ t.exynos.last \notin high
                         \/ t.exynos.first > t.exynos.last}
           A == [n \in Int |-> W(n)]
<1>1. ASSUME NEW n \in 1 .. LayerNum, NEW t \in A[n - 1]
      PROVE  TrimOne(t, 0 + n - 1, high) \in A[n]
  <2> DEFINE i == n - 1
             u == TrimOne(t, i, high)
             range == u.exynos
  <2>1. i \in Layer /\ 0 + n - 1 = i /\ n \in Int /\ i \in Int /\ n = i + 1
    BY AllLayers
  <2>2. /\ t \in Assignment /\ Trims(s, t) /\ t.exynos \in Ranges /\ s.exynos \in Ranges
        /\ t.exynos.first \in Int /\ t.exynos.last \in Int
        /\ s.exynos.first \in Int /\ s.exynos.last \in Int
        /\ t.exynos.first >= i \/ t.exynos.first \notin high
        /\ \/ t.exynos.last >= i \/ t.exynos.last \notin high
           \/ t.exynos.first > t.exynos.last
    BY <2>1 DEF Assignment, Ranges
  <2> HIDE DEF i, W
  <2>3. i \in high => i - 1 \notin high
    BY <2>1, Numbers DEF HighApart
  <2>4. /\ \/ range.first = t.exynos.first /\ (i \in high => i # t.exynos.first)
           \/ range.first = i + 1 /\ range.last = t.exynos.last /\ t.exynos.first = i
        /\ \/ range.last = t.exynos.last /\ (i \in high => i # t.exynos.last \/ t.exynos.first = i)
           \/ range.last = i - 1 /\ range.first = t.exynos.first /\ i \in high /\ t.exynos.last = i
        /\ range.has = t.exynos.has /\ u = [t EXCEPT !.exynos = range] /\ range \in Ranges
    <3>1. CASE i \notin high
      <4>1. u = t
        BY <3>1 DEF TrimOne
      <4> HIDE DEF u
      <4> QED
        BY <2>2, <3>1, <4>1 DEF Assignment
    <3>2. CASE i \in high /\ i = t.exynos.first
      <4>1. u = [t EXCEPT !.exynos.first = @ + 1]
        BY <3>2 DEF TrimOne
      <4> HIDE DEF u
      <4> QED
        BY <2>2, <3>2, <4>1 DEF Assignment, Ranges
    <3>3. CASE i \in high /\ i # t.exynos.first /\ i = t.exynos.last
      <4>1. u = [t EXCEPT !.exynos.last = @ - 1]
        BY <3>3 DEF TrimOne
      <4> HIDE DEF u
      <4> QED
        BY <2>2, <3>3, <4>1 DEF Assignment, Ranges
    <3>4. CASE i \in high /\ i # t.exynos.first /\ i # t.exynos.last
      <4>1. u = t
        BY <3>4 DEF TrimOne
      <4> HIDE DEF u
      <4> QED
        BY <2>2, <3>4, <4>1 DEF Assignment
    <3> QED
      BY <3>1, <3>2, <3>3, <3>4
  <2> HIDE DEF range, u
  <2>5. u \in Assignment /\ SameResources(t, u) /\ u.client = t.client /\ u.ret = t.ret
        /\ u.exynos = range
    BY <2>2, <2>4 DEF Assignment, SameResources, range
  <2>6. range.first \in Int /\ range.last \in Int
    BY <2>4 DEF Ranges
  <2>7. s.exynos.first <= range.first /\ range.last <= s.exynos.last
    BY <2>1, <2>2, <2>4, <2>6 DEF Trims
  <2>8. Trims(s, u)
    BY <2>2, <2>4, <2>5, <2>7 DEF Trims, SameResources
  <2>9. range.first >= n \/ range.first \notin high
    BY <2>1, <2>2, <2>4, <2>6
  <2>10. range.last >= n \/ range.last \notin high \/ range.first > range.last
    BY <2>1, <2>2, <2>3, <2>4, <2>6
  <2> QED
    BY <2>1, <2>5, <2>8, <2>9, <2>10 DEF W, u
<1>2. s \in A[0]
  <2>1. s.exynos.first \in Int /\ s.exynos.last \in Int
    BY DEF Assignment, Ranges
  <2>2. high \subseteq Int /\ \A x \in high : x >= 0
    BY Numbers
  <2> QED
    BY <2>1, <2>2 DEF Trims, SameResources
<1> HIDE DEF W
<1>3. \A n \in 1 .. LoopTimes(0, LayerNum - 1) : \A t \in A[n - 1] :
        TrimOne(t, 0 + n - 1, high) \in A[n]
  BY <1>1, AllLayers
<1>4. LoopTimes(0, LayerNum - 1) = LayerNum /\ LayerNum \in Int
  BY AllLayers
<1> HIDE DEF A
<1>5. trimHigh(s, high) \in A[LayerNum]
  BY <1>2, <1>3, <1>4, AllLayers, TrimLoop
<1> DEFINE t == trimHigh(s, high)
<1>6. /\ t \in Assignment /\ Trims(s, t)
      /\ t.exynos.first >= LayerNum \/ t.exynos.first \notin high
      /\ \/ t.exynos.last >= LayerNum \/ t.exynos.last \notin high
         \/ t.exynos.first > t.exynos.last
  BY <1>4, <1>5 DEF A, W
<1> HIDE DEF t
<1>7. ~EmptyRange(t.exynos) => /\ t.exynos.first \in Layer /\ t.exynos.last \in Layer
                               /\ t.exynos.first <= t.exynos.last
  BY DEF EmptyRange
<1> QED
  BY <1>6, <1>7, Numbers DEF t

LEMMA SplitEnds ==
  ASSUME Given, NEW s, Sound(kind, s), Settled(s), ClientEnds(s), s.exynos.has, NEW high
  PROVE  LET t == splitByHigh(s, high)
         IN  ClientEnds(t) /\ t.exynos = NoRange /\ t.busy = s.busy
<1> DEFINE first == s.exynos.first
           last == s.exynos.last
           N == LoopTimes(first, last)
           W == {t \in Assignment :
                   Sound(kind, t) /\ Settled(t) /\ ClientEnds(t) /\ t.busy = s.busy}
           A == [n \in Int |-> W]
           all == GiveAllBut(s, high)
<1>1. first \in Layer /\ last \in Layer /\ first \in Int /\ last \in Int
      /\ s \in Assignment /\ kind \in [Layer -> Kind]
  BY Numbers DEF Given, Sound, Spanning, NoRange, Steady
<1>2. s \in W
  BY <1>1
<1>3. ASSUME NEW t \in W, NEW i \in Layer
      PROVE  GiveBut(t, i, high) \in W
  <2> DEFINE u == GiveLayer(t, i)
  <2>1. CASE i \in high
    BY <2>1 DEF GiveBut
  <2>2. CASE i \notin high
    <3>1. Fine(t, u) /\ AddedAtEnds(t, u)
      BY GiveLayerFine, GiveLayerEnds
    <3>2. GiveBut(t, i, high) = u
      BY <2>2 DEF GiveBut
    <3> HIDE DEF u
    <3> QED
      BY <3>1, <3>2 DEF Fine, AddedAtEnds, Sound, Steady
  <2> QED
    BY <2>1, <2>2
<1> HIDE DEF W
<1>4. \A n \in 1 .. N : \A t \in A[n - 1] : GiveBut(t, first + n - 1, high) \in A[n]
  <2>1. \A n \in 1 .. N : first + n - 1 \in Layer
    BY <1>1, LayersBetween
  <2> QED
    BY <1>3, <2>1
<1>5. s \in A[0] /\ N \in Int
  <2>1. N \in Nat
    BY <1>1, LayersBetween
  <2> QED
    BY <1>2, <2>1
<1>6. all \in A[N]
  <2> HIDE DEF A, all, N
  <2> QED
    BY <1>1, <1>4, <1>5, GiveAllButLoop DEF all, N
<1>7. all \in Assignment /\ Sound(kind, all) /\ ClientEnds(all) /\ all.busy = s.busy
  BY <1>5, <1>6 DEF W
<1> DEFINE e == initializeExynos(all)
<1>8. splitByHigh(s, high) = e
  BY DEF splitByHigh, GiveAllBut, GiveBut, GiveLayer
<1> HIDE DEF all
<1>9. e.client = all.client /\ e.exynos = NoRange /\ e.type = all.type /\ e.busy = all.busy
  BY <1>1, <1>7, InitializeSteady DEF Sound
<1> HIDE DEF e
<1> QED
  BY <1>7, <1>8, <1>9 DEF ClientEnds

(* All low between two ends that are.                                      *)
LEMMA WholeNeat ==
  ASSUME Given, NEW s0, NEW s, Rough(s0, s), Settled(s), ClientEnds(s), LowAre(s),
         NEW high \in SUBSET Layer, NEW changed \in BOOLEAN, \A x \in high : High(x),
         \A x \in Layer : In(x, s.exynos) /\ High(x) => x \in high,
         ~EmptyRange(s.exynos) => s.exynos.first \notin high /\ s.exynos.last \notin high
  PROVE  LET t == whole(s, high, changed)
         IN  /\ Solid(t) /\ ClientEnds(t) /\ t.busy = s.busy
             /\ t.ret = "ok" => ~changed /\ SameTargets(s, t)
<1> DEFINE t == whole(s, high, changed)
<1>1. s \in Assignment /\ Steady(kind, s) /\ kind \in [Layer -> Kind]
      /\ s.exynos.first \in Int /\ s.exynos.last \in Int
  BY DEF Given, Rough, Steady, Assignment, Ranges
<1>2. \A u : u.exynos = NoRange => Solid(u)
  BY DEF Solid, In, NoRange
<1>3. CASE EmptyRange(s.exynos)
  <2> DEFINE e == initializeExynos(s)
  <2>1. t = [e EXCEPT !.ret = "changed"]
    BY <1>3 DEF whole
  <2>2. e \in Assignment /\ e.client = s.client /\ e.exynos = NoRange
        /\ e.type = s.type /\ e.busy = s.busy
    BY <1>1, InitializeSteady DEF Steady
  <2> HIDE DEF e, t
  <2>3. t.client = s.client /\ t.exynos = NoRange /\ t.type = s.type /\ t.busy = s.busy
        /\ t.ret = "changed"
    BY <2>1, <2>2 DEF Assignment
  <2> QED
    BY <1>2, <2>3 DEF ClientEnds, t
<1>4. CASE ~EmptyRange(s.exynos) /\ \E i \in high : s.exynos.first < i /\ i < s.exynos.last
  <2> DEFINE e == splitByHigh(s, high)
  <2>1. t = [e EXCEPT !.ret = "changed"]
    BY <1>4 DEF whole
  <2>2. s.exynos.has /\ Sound(kind, s)
    <3>1. s.exynos # NoRange
      BY <1>4, Numbers DEF EmptyRange, NoRange
    <3> QED
      BY <1>1, <1>4, <3>1 DEF Rough, EmptyRange, Loose, Sound, Spanning
  <2>3. ClientEnds(e) /\ e.exynos = NoRange /\ e.busy = s.busy
    BY <2>2, SplitEnds
  <2>4. e \in Assignment
    <3>1. Fine(s, e)
      BY <2>2, SplitFine
    <3> QED
      BY <3>1 DEF Fine, Sound, Steady
  <2> HIDE DEF e, t
  <2>5. t.client = e.client /\ t.exynos = NoRange /\ t.type = e.type /\ t.busy = s.busy
        /\ t.ret = "changed"
    BY <2>1, <2>3, <2>4 DEF Assignment
  <2> QED
    BY <1>2, <2>3, <2>5 DEF ClientEnds, t
<1>5. CASE ~EmptyRange(s.exynos) /\ ~\E i \in high : s.exynos.first < i /\ i < s.exynos.last
  <2> DEFINE ret == IF changed THEN "changed" ELSE "ok"
  <2>1. t = [s EXCEPT !.ret = ret]
    BY <1>5 DEF whole
  <2>2. Solid(s)
    <3> SUFFICES ASSUME NEW x \in Layer, In(x, s.exynos) PROVE ~High(x)
      BY DEF Solid, LowAre
    <3>1. s.exynos.first <= x /\ x <= s.exynos.last /\ x \in Int
      BY Numbers DEF In
    <3> QED
      BY <1>1, <1>5, <3>1
  <2> HIDE DEF t, ret
  <2>3. /\ t.client = s.client /\ t.exynos = s.exynos /\ t.type = s.type /\ t.otf = s.otf
        /\ t.busy = s.busy /\ t.ret = ret
    BY <1>1, <2>1 DEF Assignment
  <2>4. t.ret = "ok" => ~changed
    BY <2>3 DEF ret
  <2> QED
    BY <2>2, <2>3, <2>4 DEF ClientEnds, Solid, SameTargets, t
<1> QED
  BY <1>3, <1>4, <1>5

(* The ends of the layers that addExynosCompositionLayer() leaves.         *)
AddedToExynos(s, t) ==
  /\ Sound(kind, t) /\ Lets(s, t) /\ Neat(t) /\ t.busy = s.busy
  /\ t.ret \in {"ok", "changed"}
  /\ t.ret = "ok" => SameTargets(s, t)

LEMMA TrimmedNeat ==
  ASSUME Given, HighApart, NEW s0, Settled(s0), NEW a, NEW high \in SUBSET Layer,
         \A x \in high : High(x),
         Rough(s0, a.s), ClientEnds(a.s), LowAre(a.s), ~a.error, a.changed \in BOOLEAN,
         \A x \in Layer : In(x, a.s.exynos) /\ High(x) => x \in high,
         a.changed \/ SameTargets(s0, a.s), a.s.busy = s0.busy
  PROVE  AddedToExynos(s0, trimmed(a, high))
<1> DEFINE u == trimHigh(a.s, high)
           t == whole(u, high, a.changed)
<1>1. trimmed(a, high) = t
  BY DEF trimmed
<1>2. Rough(s0, u) /\ Settled(u)
  <2>1. Rough(s0, u)
    BY TrimRough
  <2> QED
    BY <2>1 DEF Rough
<1>3. /\ Trims(a.s, u)
      /\ ~EmptyRange(u.exynos) => u.exynos.first \notin high /\ u.exynos.last \notin high
  <2>1. a.s \in Assignment
    BY DEF Rough, Steady
  <2> QED
    BY <2>1, TrimEnds
<1> HIDE DEF u
<1>4. \A x \in Layer : In(x, u.exynos) => In(x, a.s.exynos)
  <2>1. /\ u.exynos.first \in Int /\ u.exynos.last \in Int
        /\ a.s.exynos.first \in Int /\ a.s.exynos.last \in Int
    BY <1>2 DEF Rough, Steady, Assignment, Ranges
  <2> QED
    BY <1>3, <2>1, Numbers DEF Trims, In
<1>5. ClientEnds(u) /\ LowAre(u) /\ SameTargets(a.s, u) /\ u.busy = a.s.busy
  BY <1>3, <1>4 DEF Trims, SameResources, ClientEnds, LowAre, SameTargets
<1>6. Fine(s0, t) /\ t.ret \in {"ok", "changed"}
  BY <1>2, WholeFine
<1>7. /\ Solid(t) /\ ClientEnds(t) /\ t.busy = u.busy
      /\ t.ret = "ok" => ~a.changed /\ SameTargets(u, t)
  BY <1>2, <1>3, <1>4, <1>5, WholeNeat
<1> HIDE DEF t
<1>8. t.ret = "ok" => SameTargets(s0, t)
  BY <1>5, <1>7, SameTargetsAgain
<1> QED
  BY <1>1, <1>5, <1>6, <1>7, <1>8 DEF AddedToExynos, Fine, Neat

LEMMA AddExynosNeat ==
  ASSUME Given, HighApart, NEW s, Sound(kind, s), NEW l \in Layer, SettledBut(s, l),
         ClientEnds(s), Solid(s), s.type[l] = "EXYNOS"
  PROVE  AddedToExynos(s, addExynosCompositionLayer(s, l))
<1> DEFINE range == Widened(s.exynos, l)
           s1 == [s EXCEPT !.exynos = range]
           start(v) == [s |-> v, invalid |-> FALSE, changed |-> FALSE, error |-> FALSE]
           high == {x \in range.first .. range.last : High(x)}
           t == addExynosCompositionLayer(s, l)
<1>1. s \in Assignment /\ kind \in [Layer -> Kind] /\ s.exynos \in Ranges
      /\ Spanning(s.exynos) /\ Steady(kind, s)
  BY DEF Given, Sound, Steady, Assignment
<1>2. /\ range \in Ranges /\ Spanning(range) /\ range.has /\ In(l, range)
      /\ \A x \in Layer : In(x, s.exynos) => In(x, range)
  BY <1>1, WidenedSpans
<1>e. /\ range.first \in {s.exynos.first, l} /\ range.last \in {s.exynos.last, l}
      /\ ~s.exynos.has => range.first = l /\ range.last = l
  BY DEF Widened, Lower, Higher
<1>3. range.first \in Layer /\ range.last \in Layer /\ range.first \in Int /\ range.last \in Int
  BY <1>2, EndsInside
<1>4. /\ high \in SUBSET Layer /\ \A x \in high : High(x)
      /\ \A x \in Layer : In(x, range) /\ High(x) => x \in high
  <2>1. \A x \in Int : range.first <= x /\ x <= range.last => x \in Layer
    BY <1>3, Numbers
  <2> HIDE DEF range
  <2> QED
    BY <1>3, <2>1, Numbers DEF In
<1>t. t = IF ~s.exynos.has THEN [s1 EXCEPT !.ret = "changed"]
          ELSE trimmed(unnest(Loop(blendSandwiched, start(s1), range.first, range.last)), high)
  BY DEF addExynosCompositionLayer
<1> HIDE DEF range, high
<1>5. s1 \in Assignment /\ SameResources(s, s1) /\ s1.client = s.client /\ s1.exynos = range
  BY <1>1, <1>2 DEF Assignment, SameResources
<1> HIDE DEF s1, t
<1>7. Sound(kind, s1)
  BY <1>1, <1>2, <1>5, SameSteady DEF Sound, Steady
<1>8. Lets(s, s1) /\ Settled(s1) /\ ClientEnds(s1) /\ s1.busy = s.busy
  BY <1>2, <1>5 DEF Lets, SettledBut, Settled, Blends, ClientHoldsBut, SameResources, ClientEnds
<1>9. ExynosEnds(s1)
  BY <1>1, <1>5, <1>e, EndsInside DEF ExynosEnds, Solid, SameResources
<1>11. CASE ~s.exynos.has
  <2>1. t = [s1 EXCEPT !.ret = "changed"] /\ "changed" \in Ret
    BY <1>t, <1>11 DEF Ret
  <2>2. Fine(s1, s1)
    BY <1>7 DEF Fine, Lets
  <2>3. Fine(s1, t) /\ t.ret = "changed" /\ SameResources(s1, t)
        /\ t.client = s1.client /\ t.exynos = s1.exynos
    BY <2>1, <2>2, ReturnFine
  <2>4. Solid(t)
    BY <1>3, <1>5, <1>e, <1>11, <2>3, Numbers DEF Solid, In, SameResources
  <2>5. ClientEnds(t) /\ t.busy = s.busy
    BY <1>8, <2>3 DEF ClientEnds, SameResources
  <2> QED
    BY <1>8, <2>3, <2>4, <2>5, LetsAgain DEF AddedToExynos, Neat, Fine, t
<1>12. CASE s.exynos.has
  <2> DEFINE a == Loop(blendSandwiched, start(s1), range.first, range.last)
             b == unnest(a)
  <2>1. OnTheWay(s1, a) /\ \A x \in Layer : In(x, s1.exynos) /\ ~High(x) => Seen(a, x)
    BY <1>2, <1>5, <1>7, <1>8, <1>9, WalkSeen DEF Shape
  <2> HIDE DEF a, start
  <2>2. /\ ClientEnds(b.s) /\ LowAre(b.s) /\ b.s.busy = s1.busy
        /\ \A x \in Layer : In(x, b.s.exynos) => In(x, s1.exynos)
        /\ b.changed \/ SameTargets(s1, b.s)
    BY <1>8, <2>1, UnnestEnds
  <2>3. Rough(s1, b.s) /\ ~b.error /\ b.changed \in BOOLEAN
    BY <1>8, <2>1, UnnestRough DEF OnTheWay
  <2> HIDE DEF b
  <2>4. t = trimmed(b, high)
    BY <1>t, <1>12 DEF a, b
  <2>5. AddedToExynos(s1, t)
    BY <1>4, <1>5, <1>8, <2>2, <2>3, <2>4, TrimmedNeat
  <2>6. SameTargets(s, s1)
    BY <1>2, <1>5, <1>12 DEF SameTargets, SameResources
  <2> QED
    BY <1>8, <2>5, <2>6, SameTargetsAgain, LetsAgain DEF AddedToExynos, t
<1> QED
  BY <1>11, <1>12

-----------------------------------------------------------------------------
(* What the steps of a try find for the layers.                            *)

LEMMA TargetedStill ==
  ASSUME NEW s, NEW t, SameTargets(s, t)
  PROVE  (Targeted(s) => Targeted(t)) /\ (BothTargeted(s) => BothTargeted(t))
BY DEF SameTargets, Targeted, BothTargeted

LEMMA FoundStill ==
  ASSUME NEW s, NEW t \in Assignment, Lets(s, t), NEW l \in Layer, Found(s, l)
  PROVE  Found(t, l)
<1>1. t.type[l] \in Types
  BY DEF Assignment
<1> QED
  BY <1>1 DEF Lets, Found, Types

LEMMA FreshNeat == Neat(Fresh)
<1>1. /\ Fresh.client = NoRange /\ Fresh.exynos = NoRange
      /\ \A l \in Layer : Fresh.m2m[l] = None /\ Fresh.type[l] = "INVALID"
  BY DEF Fresh
<1> QED
  BY <1>1, NotMPPs DEF Neat, Settled, Blends, ClientHoldsBut, ClientEnds, Solid, In, NoRange

(* The layers the client asked for.                                        *)
LEMMA AskedNeat ==
  ASSUME Given, NEW s, Sound(kind, s), Neat(s), \A l \in Layer : s.m2m[l] = None,
         s.ret # "error"
  PROVE  LET t == Loop(askedForClient, s, 0, LayerNum - 1)
         IN  Neat(t) /\ t.ret # "error" /\ Lets(s, t) /\ t.busy = s.busy
<1> DEFINE W == {t \in Assignment : /\ Sound(kind, t) /\ Neat(t) /\ t.ret # "error"
                                    /\ Lets(s, t) /\ t.busy = s.busy
                                    /\ \A l \in Layer : t.m2m[l] = None}
           A == [n \in Int |-> W]
           all == Loop(askedForClient, s, 0, LayerNum - 1)
<1>1. s \in W
  BY DEF Sound, Steady, Lets
<1>2. ASSUME NEW t \in W, NEW l \in Layer
      PROVE  askedForClient(t, l) \in W
  <2> DEFINE c == ClientsLayer(t, l)
  <2>1. /\ Sound(kind, t) /\ Neat(t) /\ Lets(s, t) /\ t.busy = s.busy
        /\ \A x \in Layer : t.m2m[x] = None
    OBVIOUS
  <2>2. t.type[l] # "EXYNOS"
    BY <2>1, NotMPPs DEF Neat, Settled, Blends
  <2>3. /\ Sound(kind, c) /\ Neat(c) /\ Lets(t, c) /\ c.ret # "error" /\ c.busy = t.busy
        /\ \A x \in Layer : c.m2m[x] \in {t.m2m[x], None}
    BY <2>1, <2>2, ClientsLayerNeat, ClientsLayerSound
  <2> HIDE DEF c
  <2>4. c \in W
    BY <2>1, <2>3, LetsAgain DEF Sound, Steady
  <2> QED
    BY <2>4 DEF askedForClient, ClientsLayer, c
<1> HIDE DEF W
<1>3. all \in A[LoopTimes(0, LayerNum - 1)]
  <2>1. s \in A[0] /\ \A n \in 1 .. LoopTimes(0, LayerNum - 1) : \A t \in A[n - 1] :
          askedForClient(t, 0 + n - 1) \in A[n]
    BY <1>1, <1>2, AllLayers
  <2> HIDE DEF A
  <2> QED
    BY <2>1, AllLayers, AskedLoop
<1>4. all \in W
  BY <1>3, AllLayers
<1> QED
  BY <1>4 DEF W

(* A display has an OTF MPP for a target when none of them is taken.       *)
LEMMA OneIsFree ==
  ASSUME NEW s, NEW given, NEW o \in Otf, o \in given, s.users[o] = {}
  PROVE  freeOtf(s, given) # None
<1> DEFINE free == {k \in DOMAIN OtfMPPs :
                      OtfMPPs[k] \in given /\ otfAssignable(s, OtfMPPs[k])}
<1>1. OtfMPPs \in Seq(Otf) /\ None \notin Otf
  BY ParametersOK
<1>2. PICK k \in DOMAIN OtfMPPs : OtfMPPs[k] = o
  BY DEF Otf, Range
<1>3. free # {} /\ free \in SUBSET Nat
  BY <1>1, <1>2 DEF otfAssignable
<1>4. Min(free) \in free
  BY <1>3, LeastOne
<1>5. OtfMPPs[Min(free)] \in Otf
  BY <1>4 DEF Otf, Range
<1> QED
  BY <1>1, <1>3, <1>5 DEF freeOtf

LEMMA TargetFound ==
  ASSUME Given, NEW s, Sound(kind, s), \A o \in Otf : s.users[o] = {}
  PROVE  assignCompositionTarget(s, Client).ret = "ok"
<1> DEFINE o == freeOtf(s, Otf)
           t == assignCompositionTarget(s, Client)
<1>1. o # None
  <2>1. PICK p \in Otf : TRUE
    BY ParametersOK
  <2> QED
    BY <2>1, OneIsFree
<1>2. s \in Assignment
  BY DEF Sound, Steady
<1> HIDE DEF o
<1>3. t = IF ~s.client.has THEN [s EXCEPT !.ret = "ok"]
          ELSE [assignOtf(s, o, Client) EXCEPT !.windows = @ + 1, !.ret = "ok"]
  BY <1>1 DEF assignCompositionTarget, o
<1> HIDE DEF t
<1>4. assignOtf(s, o, Client).ret = s.ret
  BY <1>2 DEF assignOtf, Assignment
<1>5. CASE ~s.client.has
  BY <1>2, <1>3, <1>5 DEF Assignment, t
<1>6. CASE s.client.has
  <2> DEFINE u == [s.users EXCEPT ![o] = @ \cup {Client}]
             f == [s.otf EXCEPT ![Client] = o]
             w == s.windows + 1
  <2>1. t = [s EXCEPT !.users = u, !.otf = f, !.windows = w, !.ret = "ok"]
    BY <1>2, <1>3, <1>6 DEF assignOtf, Assignment
  <2> HIDE DEF u, f, w
  <2> QED
    BY <1>2, <2>1 DEF Assignment, t
<1> QED
  BY <1>5, <1>6

(* A new try begins with nothing but the blended ranges.                   *)
LEMMA TryNeat ==
  ASSUME Given, NEW s, Sound(kind, s), Neat(s)
  PROVE  LET t == assignCompositionTarget(resetAssignedResources(s, FALSE), Client)
         IN  /\ Neat(t) /\ t.ret = "ok" /\ Targeted(t) /\ t.type = s.type /\ t.busy = s.busy
<1> DEFINE u == resetAssignedResources(s, FALSE)
           t == assignCompositionTarget(u, Client)
<1>1. FALSE \in BOOLEAN /\ Client \in {Client, Exynos}
  OBVIOUS
<1>2. /\ Firm(kind, u) /\ u.type = s.type /\ u.busy = s.busy
      /\ u.client = s.client /\ u.exynos = s.exynos
      /\ \A l \in Layer : u.m2m[l] = IF s.m2m[l] = Blending THEN Blending ELSE None
      /\ \A o \in Otf : u.users[o] = {}
  <2> HIDE DEF u
  <2>1. Firm(kind, s)
    BY DEF Sound, Steady, Firm
  <2>2. /\ Firm(kind, u) /\ u.type = s.type /\ u.busy = s.busy
        /\ u.client = s.client /\ u.exynos = s.exynos
        /\ \A l \in Layer : u.m2m[l] = IF s.m2m[l] = Blending /\ ~FALSE THEN Blending ELSE None
        /\ \A o \in Otf : u.users[o] = {}
    BY <1>1, <2>1, ResetAllFirm DEF u
  <2> QED
    BY <2>2
<1> HIDE DEF u
<1>3. Sound(kind, u)
  BY <1>2 DEF Sound, Steady, Firm
<1>4. /\ t.type = u.type /\ t.m2m = u.m2m /\ t.busy = u.busy
      /\ t.client = u.client /\ t.exynos = u.exynos
      /\ t.ret = "ok" /\ u.client.has => t.otf[Client] # None
  BY <1>1, <1>3, TargetSound
<1>5. t.ret = "ok"
  BY <1>2, <1>3, TargetFound
<1> HIDE DEF t
<1>6. Settled(t)
  BY <1>2, <1>4, NotMPPs DEF Neat, Settled, Blends, ClientHoldsBut
<1>7. Neat(t) /\ Targeted(t)
  BY <1>2, <1>4, <1>5, <1>6 DEF Neat, ClientEnds, Solid, Targeted
<1> QED
  BY <1>2, <1>4, <1>5, <1>7 DEF t, u

(* No layer comes back from the client, or from the G2D but to the client. *)
Falls(s, t) ==
  \A l \in Layer :
    /\ s.type[l] = "CLIENT" => t.type[l] = "CLIENT"
    /\ s.type[l] = "EXYNOS" => t.type[l] \in {"CLIENT", "EXYNOS"}

LEMMA LetsFalls ==
  ASSUME NEW s, NEW t \in Assignment, Lets(s, t)
  PROVE  Falls(s, t)
<1> SUFFICES ASSUME NEW l \in Layer
             PROVE  /\ s.type[l] = "CLIENT" => t.type[l] = "CLIENT"
                    /\ s.type[l] = "EXYNOS" => t.type[l] \in {"CLIENT", "EXYNOS"}
  BY DEF Falls
<1>1. t.type[l] \in Types
  BY DEF Assignment
<1> QED
  BY <1>1 DEF Lets, Types

(* What becomes of the layer that was looked at, and of all the others.    *)
Decided(s, t, l) ==
  /\ Sound(kind, t) /\ Neat(t) /\ Falls(s, t) /\ t.busy = s.busy
  /\ Found(t, l) /\ \A x \in Layer : Found(s, x) => Found(t, x)

LEMMA DeviceNeat ==
  ASSUME Given, NEW s, Sound(kind, s), Neat(s), NEW l \in Layer, NEW a, Suits(s, l, a),
         a.type = "DEVICE", s.type[l] \notin {"CLIENT", "EXYNOS"}
  PROVE  LET t == [assign(s, l, a) EXCEPT !.ret = "ok"]
         IN  Decided(s, t, l) /\ t.ret = "ok" /\ SameTargets(s, t)
<1> DEFINE u == assign(s, l, a)
           t == [u EXCEPT !.ret = "ok"]
<1>1. Sound(kind, u) /\ Assigned(s, u, l, a)
  BY AssignSound
<1> HIDE DEF u
<1>2. u \in Assignment /\ kind \in [Layer -> Kind] /\ "ok" \in Ret /\ s \in Assignment
  BY <1>1 DEF Given, Sound, Steady, Ret
<1>3. t \in Assignment /\ SameResources(u, t) /\ t.client = u.client
      /\ t.exynos = u.exynos /\ t.ret = "ok"
  BY <1>2 DEF Assignment, SameResources
<1> HIDE DEF t
<1>4. Sound(kind, t)
  BY <1>1, <1>2, <1>3, SameSteady DEF Sound, Steady
<1>5. /\ t.busy = s.busy /\ t.client = s.client /\ t.exynos = s.exynos
      /\ \A x \in Layer : /\ t.type[x] = IF x = l THEN "DEVICE" ELSE s.type[x]
                          /\ x # l => t.m2m[x] = s.m2m[x]
      /\ t.m2m[l] \in {None, Single} \/ t.m2m[l] = s.m2m[l]
      /\ \A x \in Source \ {l} : t.otf[x] = s.otf[x]
      /\ t.otf[l] = a.otf /\ a.otf # None
  BY <1>1, <1>3, NotMPPs DEF Assigned, SameResources, Suits, Answer
<1>6. Settled(t)
  BY <1>5, NotMPPs DEF Neat, Settled, Blends, ClientHoldsBut
<1>7. ClientEnds(t)
  BY <1>5 DEF Neat, ClientEnds, Sound, Spanning, NoRange, Steady
<1>8. Solid(t)
  BY <1>5 DEF Neat, Solid
<1>9. Falls(s, t) /\ SameTargets(s, t)
  BY <1>5, Numbers DEF Falls, SameTargets
<1>10. Found(t, l) /\ \A x \in Layer : Found(s, x) => Found(t, x)
  BY <1>5, Numbers DEF Found
<1> QED
  BY <1>3, <1>4, <1>5, <1>6, <1>7, <1>8, <1>9, <1>10 DEF Decided, Neat, t, u

LEMMA ExynosNeat ==
  ASSUME Given, HighApart, NEW s, Sound(kind, s), Neat(s), NEW l \in Layer, NEW a,
         Suits(s, l, a), a.type = "EXYNOS", s.type[l] \notin {"CLIENT", "EXYNOS"}
  PROVE  LET t == addExynosCompositionLayer(assign(s, l, a), l)
         IN  /\ Decided(s, t, l) /\ t.type[l] \in {"CLIENT", "EXYNOS"}
             /\ t.ret \in {"ok", "changed"} /\ ~High(l)
             /\ t.ret = "ok" => SameTargets(s, t)
<1> DEFINE u == assign(s, l, a)
           t == addExynosCompositionLayer(u, l)
<1>1. Sound(kind, u) /\ Assigned(s, u, l, a)
  BY AssignSound
<1> HIDE DEF u
<1>2. a = Answer("EXYNOS", None, Blending) /\ canBlend(s, l)
  BY DEF Suits, Answer
<1>3. /\ u.client = s.client /\ u.exynos = s.exynos /\ u.busy = s.busy
      /\ \A x \in Layer : /\ u.type[x] = IF x = l THEN "EXYNOS" ELSE s.type[x]
                          /\ u.m2m[x] = IF x = l THEN Blending ELSE s.m2m[x]
      /\ \A x \in Source : u.otf[x] = s.otf[x]
  BY <1>1, <1>2, NotMPPs DEF Assigned, Answer
<1>4. Settled(s) /\ ClientEnds(s) /\ Solid(s)
  BY DEF Neat
<1>5. kind[l].priority < PriorityHigh /\ ~High(l)
  BY <1>2, Priorities DEF canBlend
<1>6. SettledBut(u, l)
  <2>1. ClientHoldsBut(kind, u, {})
    BY <1>3, <1>4, <1>5 DEF Settled, ClientHoldsBut
  <2> QED
    BY <1>3, <1>4, <1>5, <2>1 DEF SettledBut, Settled, Blends
<1>7. ClientEnds(u) /\ Solid(u) /\ u.type[l] = "EXYNOS"
  <2>1. Spanning(s.client) /\ s.client \in Ranges
    BY DEF Sound, Steady, Assignment
  <2>2. ~In(l, s.exynos)
    BY <1>4 DEF Solid
  <2> QED
    BY <1>3, <1>4, <2>1, <2>2, EndsInside DEF ClientEnds, Solid
<1>8. AddedToExynos(u, t)
  BY <1>1, <1>6, <1>7, AddExynosNeat
<1> HIDE DEF t
<1>9. t \in Assignment /\ u \in Assignment
  BY <1>1, <1>8 DEF AddedToExynos, Sound, Steady
<1>10. Falls(u, t) /\ \A x \in Layer : Found(u, x) => Found(t, x)
  BY <1>8, <1>9, LetsFalls, FoundStill DEF AddedToExynos
<1>11. Falls(s, t) /\ t.type[l] \in {"CLIENT", "EXYNOS"}
  BY <1>3, <1>10 DEF Falls
<1>12. Found(t, l) /\ \A x \in Layer : Found(s, x) => Found(t, x)
  BY <1>3, <1>10, Numbers DEF Found
<1>13. t.ret = "ok" => SameTargets(s, t)
  BY <1>3, <1>8, Numbers DEF AddedToExynos, SameTargets
<1> QED
  BY <1>3, <1>5, <1>8, <1>11, <1>12, <1>13 DEF AddedToExynos, Decided, t, u

LEMMA ClientNeat ==
  ASSUME Given, NEW s, Sound(kind, s), Neat(s), NEW l \in Layer,
         s.type[l] # "EXYNOS", s.m2m[l] = None
  PROVE  LET t == ClientsLayer(s, l)
         IN  /\ Decided(s, t, l) /\ t.type[l] = "CLIENT" /\ t.ret # "error"
             /\ t.ret # "changed" => SameTargets(s, t)
<1> DEFINE t == ClientsLayer(s, l)
<1>1. /\ Sound(kind, t) /\ Neat(t) /\ Lets(s, t) /\ t.ret # "error" /\ t.busy = s.busy
      /\ t.type[l] = "CLIENT"
      /\ t.ret # "changed" => SameTargets(s, t)
  BY ClientsLayerNeat
<1> HIDE DEF t
<1>2. t \in Assignment
  BY <1>1 DEF Sound, Steady
<1>3. Falls(s, t) /\ Found(t, l) /\ \A x \in Layer : Found(s, x) => Found(t, x)
  BY <1>1, <1>2, LetsFalls, FoundStill DEF Found
<1> QED
  BY <1>1, <1>3 DEF Decided, t

LEMMA ReassignNeat ==
  ASSUME Given, NEW s, Sound(kind, s), Blends(kind, s)
  PROVE  LET t == reassign(s)
         IN  Sound(kind, t) /\ Neat(t) /\ t.ret = "changed" /\ t.busy = s.busy
<1> DEFINE t == reassign(s)
<1>1. /\ Sound(kind, t) /\ t.ret = "changed" /\ t.busy = s.busy
      /\ t.client = NoRange /\ t.exynos = NoRange
      /\ \A l \in Layer : t.type[l] = "INVALID"
      /\ \A l \in Layer : t.m2m[l] # Blending
  BY ReassignSound
<1> HIDE DEF t
<1> QED
  BY <1>1 DEF Neat, Settled, Blends, ClientHoldsBut, ClientEnds, Solid, In, NoRange, t

(* Without an MPP for its target the range of the G2D is the client's.     *)
LEMMA GiveExynosNeat ==
  ASSUME Given, NEW s, Sound(kind, s), Neat(s), s.exynos.has
  PROVE  LET t == giveExynosToClient(s)
         IN  /\ Sound(kind, t) /\ Neat(t) /\ Falls(s, t) /\ t.ret = "changed" /\ t.busy = s.busy
             /\ \E l \in Layer : s.type[l] = "EXYNOS" /\ t.type[l] = "CLIENT"
<1> DEFINE first == s.exynos.first
           last == s.exynos.last
           N == LoopTimes(first, last)
           W(n) == {t \in Assignment :
                      /\ Sound(kind, t) /\ Settled(t) /\ ClientEnds(t) /\ Lets(s, t)
                      /\ t.busy = s.busy /\ t.ret # "error" /\ Gives(s, t)
                      /\ \A x \in Layer :
                           first <= x /\ x < first + n => t.type[x] = "CLIENT"}
           A == [n \in Int |-> W(n)]
           start == [s EXCEPT !.ret = "ok"]
           all == Loop(GiveUnlessError, start, first, last)
           e == initializeExynos(all)
           t == giveExynosToClient(s)
<1>1. /\ s \in Assignment /\ kind \in [Layer -> Kind]
      /\ first \in Layer /\ last \in Layer /\ first \in Int /\ last \in Int /\ first <= last
      /\ "ok" \in Ret /\ "changed" \in Ret
      /\ Settled(s) /\ ClientEnds(s) /\ s.type[first] = "EXYNOS"
  <2>1. s.exynos \in Ranges /\ Spanning(s.exynos) /\ s \in Assignment
    BY DEF Sound, Steady, Assignment
  <2> QED
    BY <2>1, EndsInside, Numbers DEF Given, Ret, Neat, Solid
<1>2. start \in A[0]
  <2>1. start \in Assignment /\ SameResources(s, start) /\ start.client = s.client
        /\ start.exynos = s.exynos /\ start.ret = "ok"
    BY <1>1 DEF Assignment, SameResources
  <2> HIDE DEF start
  <2>2. Sound(kind, start)
    BY <1>1, <2>1, SameSteady DEF Sound, Steady
  <2>3. Settled(start) /\ Lets(s, start) /\ ClientEnds(start)
    BY <1>1, <2>1 DEF Settled, Blends, ClientHoldsBut, ClientEnds, Lets, SameResources
  <2>4. Gives(s, start)
    BY <2>1 DEF Gives, SameResources
  <2> QED
    BY <1>1, <2>1, <2>2, <2>3, <2>4, Numbers DEF SameResources
<1>3. N = last - first + 1 /\ N \in Nat /\ \A n \in 1 .. N : first + n - 1 \in Layer
  BY <1>1, Times, LayersBetween
<1>4. ASSUME NEW n \in 1 .. N, NEW a \in A[n - 1]
      PROVE  GiveUnlessError(a, first + n - 1) \in A[n]
  <2> DEFINE l == first + n - 1
             c == GiveLayer(a, l)
  <2>1. /\ l \in Layer /\ a \in Assignment
        /\ Sound(kind, a) /\ Settled(a) /\ ClientEnds(a) /\ Lets(s, a)
        /\ a.busy = s.busy /\ a.ret # "error" /\ Gives(s, a)
        /\ \A x \in Layer : first <= x /\ x < l => a.type[x] = "CLIENT"
    BY <1>1, <1>3
  <2>2. A[n] = W(n)
    BY <1>3
  <2>3. GiveUnlessError(a, l) = c
    BY <2>1 DEF GiveUnlessError
  <2>a. l = first + n - 1 /\ n \in Int /\ first \in Int
    <3> HIDE DEF N, first
    <3>1. n \in Int /\ first \in Int
      BY <1>1, <1>3
    <3> QED
      BY <3>1
  <2> HIDE DEF l
  <2>4. /\ Fine(a, c) /\ c.type[l] = "CLIENT" /\ c.ret # "error" /\ AddedAtEnds(a, c)
        /\ Gives(a, c)
    BY <2>1, GiveLayerFine, GiveLayerEnds
  <2> HIDE DEF c
  <2>5. /\ Sound(kind, c) /\ Settled(c) /\ ClientEnds(c) /\ Lets(s, c) /\ c \in Assignment
        /\ c.busy = s.busy /\ Gives(s, c)
    BY <2>1, <2>4, LetsAgain, GivesAgain DEF Fine, Sound, Steady, AddedAtEnds
  <2>6. \A x \in Layer : first <= x /\ x < l => c.type[x] = "CLIENT"
    BY <2>1, <2>4 DEF Fine, Lets
  <2>7. \A x \in Layer : first <= x /\ x < first + n => x < l \/ x = l
    <3> HIDE DEF first, N
    <3> QED
      BY <2>a, Numbers
  <2>8. \A x \in Layer : first <= x /\ x < first + n => c.type[x] = "CLIENT"
    BY <2>4, <2>6, <2>7
  <2>9. c \in W(n)
    BY <2>4, <2>5, <2>8
  <2> HIDE DEF A
  <2> QED
    BY <2>2, <2>3, <2>9 DEF l
<1>5. all \in W(N)
  <2>1. A[N] = W(N)
    BY <1>3
  <2> HIDE DEF A, start, W
  <2>2. all \in A[N]
    BY <1>1, <1>2, <1>4, GiveLoop DEF N
  <2> QED
    BY <2>1, <2>2
<1>6. t = IF all.ret = "error" THEN all ELSE [e EXCEPT !.ret = "changed"]
  BY DEF giveExynosToClient, givenToClient, GiveUnlessError, GiveLayer
<1> HIDE DEF all, t
<1>7. /\ Sound(kind, all) /\ Settled(all) /\ ClientEnds(all) /\ Lets(s, all)
      /\ all.busy = s.busy /\ all.ret # "error" /\ Gives(s, all)
      /\ \A x \in Layer : first <= x /\ x <= last => all.type[x] = "CLIENT"
  <2>1. first + N = last + 1
    BY <1>1, <1>3
  <2> HIDE DEF N
  <2>2. \A x \in Layer : x <= last => x < last + 1
    BY <1>1, Numbers
  <2> QED
    BY <1>5, <2>1, <2>2
<1>8. /\ e.client = all.client /\ e.exynos = NoRange
      /\ e.type = all.type /\ e.m2m = all.m2m /\ e.busy = all.busy /\ Lets(all, e)
      /\ Sound(kind, e)
  BY <1>1, <1>7, InitializeSteady DEF Sound
<1> HIDE DEF e
<1>9. t = [e EXCEPT !.ret = "changed"] /\ e \in Assignment
  BY <1>6, <1>7, <1>8 DEF Sound, Steady
<1>10. t \in Assignment /\ SameResources(e, t) /\ t.client = e.client
       /\ t.exynos = e.exynos /\ t.ret = "changed"
  BY <1>1, <1>9 DEF Assignment, SameResources
<1>11. Sound(kind, t)
  BY <1>1, <1>8, <1>10, SameSteady DEF Sound, Steady
<1>12. Lets(s, t)
  BY <1>7, <1>8, <1>10, LetsAgain DEF Lets, SameResources
<1>13. \A x \in Layer : all.type[x] # "EXYNOS"
  <2> SUFFICES ASSUME NEW x \in Layer, all.type[x] = "EXYNOS" PROVE FALSE
    OBVIOUS
  <2>1. s.type[x] = "EXYNOS"
    BY <1>7 DEF Gives
  <2>2. first <= x /\ x <= last
    BY <1>1, <2>1 DEF Settled, Blends, In
  <2> QED
    BY <1>7, <2>2
<1>14. Settled(t)
  BY <1>7, <1>8, <1>10, <1>13 DEF Settled, Blends, ClientHoldsBut, SameResources
<1>15. ClientEnds(t) /\ Solid(t)
  BY <1>7, <1>8, <1>10 DEF ClientEnds, Solid, In, NoRange, SameResources
<1>16. Falls(s, t)
  BY <1>10, <1>12, LetsFalls
<1>17. t.type[first] = "CLIENT" /\ first <= first
  BY <1>1, <1>7, <1>8, <1>10 DEF SameResources
<1> QED
  BY <1>1, <1>7, <1>8, <1>10, <1>11, <1>14, <1>15, <1>16, <1>17 DEF Neat, SameResources, t

(* setResourcePriority(): an MPP that is found busy has only layers with a *)
(* window of their own after that.                                         *)
GivenUp(s, t, m) ==
  /\ Sound(kind, t) /\ Neat(t) /\ t.ret = "changed"
  /\ t.busy = s.busy \cup {m} /\ t.exynos = s.exynos
  /\ \A l \in Layer : t.type[l] = s.type[l]

LEMMA GivenUpNeat ==
  ASSUME Given, NEW s, Sound(kind, s), Neat(s), NEW L \in SUBSET Layer, NEW m \in M2m,
         M2mSources(s, m) \subseteq L, \A x \in L : s.type[x] = "DEVICE"
  PROVE  GivenUp(s, giveUp(s, L, m), m)
<1> DEFINE t == giveUp(s, L, m)
<1>a. Vacated(s, t, L, m)
  BY GiveUpSound
<1> HIDE DEF t
<1>1. /\ Sound(kind, t) /\ t.busy = s.busy \cup {m} /\ t.ret = "changed"
      /\ t.client = s.client /\ t.exynos = s.exynos
      /\ \A x \in Layer : /\ t.type[x] = IF x \in L THEN "DEVICE" ELSE s.type[x]
                          /\ t.m2m[x] = IF x \in L THEN None ELSE s.m2m[x]
  BY <1>a DEF Vacated
<1>2. \A x \in Layer : t.type[x] = s.type[x]
  BY <1>1
<1>3. Settled(t)
  BY <1>1, <1>2, NotMPPs DEF Neat, Settled, Blends, ClientHoldsBut
<1>4. ClientEnds(t) /\ Solid(t)
  <2>1. s.client \in Ranges /\ Spanning(s.client)
    BY DEF Sound, Steady, Assignment
  <2> QED
    BY <1>1, <1>2, <2>1, EndsInside DEF Neat, ClientEnds, Solid
<1> QED
  BY <1>1, <1>2, <1>3, <1>4 DEF GivenUp, Neat, t

LEMMA SingleNeat ==
  ASSUME Given, NEW s, Sound(kind, s), Neat(s), Converts(s)
  PROVE  LET alone == {l \in M2mSources(s, Single) : s.type[l] = "DEVICE"}
             t == giveUp(s, alone, Single)
         IN  GivenUp(s, t, Single)
<1>1. PICK L \in SUBSET Layer : L = {l \in M2mSources(s, Single) : s.type[l] = "DEVICE"}
  BY DEF M2mSources
<1>2. PICK m \in M2m : m = Single
  BY NotMPPs
<1>3. M2mSources(s, m) \subseteq L /\ \A x \in L : s.type[x] = "DEVICE"
  BY <1>1, <1>2 DEF M2mSources, Converts
<1>4. GivenUp(s, giveUp(s, L, m), m)
  BY <1>3, GivenUpNeat
<1> QED
  BY <1>1, <1>2, <1>4

LEMMA BlendingNeat ==
  ASSUME Given, NEW s, Sound(kind, s), Neat(s)
  PROVE  LET blended == {l \in Layer : In(l, s.exynos)}
             t == initializeExynos(giveUp(s, blended, Blending))
         IN  /\ Sound(kind, t) /\ Neat(t) /\ t.ret = "changed"
             /\ t.busy = s.busy \cup {Blending}
             /\ \A l \in Layer : s.type[l] = "CLIENT" => t.type[l] = "CLIENT"
<1> DEFINE blended == {l \in Layer : In(l, s.exynos)}
           u == giveUp(s, blended, Blending)
           t == initializeExynos(u)
<1>1. kind \in [Layer -> Kind] /\ \A x \in Layer : x \in blended <=> In(x, s.exynos)
  BY DEF Given
<1>2. /\ blended \in SUBSET Layer /\ M2mSources(s, Blending) \subseteq blended
      /\ \A x \in Layer : s.type[x] = "EXYNOS" <=> x \in blended
  BY <1>1 DEF M2mSources, Neat, Settled, Blends, Solid
<1> HIDE DEF blended
<1>a. Vacated(s, u, blended, Blending)
  BY <1>2, NotMPPs, GiveUpSound
<1> HIDE DEF u
<1>3. /\ Sound(kind, u) /\ u.busy = s.busy \cup {Blending} /\ u.ret = "changed"
      /\ u.client = s.client
      /\ \A x \in Layer : /\ u.type[x] = IF x \in blended THEN "DEVICE" ELSE s.type[x]
                          /\ u.m2m[x] = IF x \in blended THEN None ELSE s.m2m[x]
  BY <1>a DEF Vacated
<1>4. /\ Sound(kind, t) /\ t.type = u.type /\ t.busy = u.busy /\ t.m2m = u.m2m
      /\ t.client = u.client /\ t.exynos = NoRange
  BY <1>1, <1>3, InitializeSteady DEF Sound
<1>5. t.ret = "changed"
  <2>1. u \in Assignment
    BY <1>3 DEF Sound, Steady
  <2> QED
    BY <1>3, <2>1 DEF initializeExynos, Assignment
<1> HIDE DEF t
<1>6. \A x \in Layer : s.type[x] = "CLIENT" <=> t.type[x] = "CLIENT"
  BY <1>2, <1>3, <1>4
<1>7. Settled(t)
  <2>1. Blends(kind, t)
    BY <1>2, <1>3, <1>4, NotMPPs DEF Neat, Settled, Blends
  <2>2. ClientHoldsBut(kind, t, {})
    BY <1>3, <1>4, <1>6 DEF Neat, Settled, ClientHoldsBut
  <2> QED
    BY <2>1, <2>2 DEF Settled
<1>8. ClientEnds(t) /\ Solid(t)
  <2>1. s.client \in Ranges /\ Spanning(s.client)
    BY DEF Sound, Steady, Assignment
  <2> QED
    BY <1>3, <1>4, <1>6, <2>1, EndsInside DEF Neat, ClientEnds, Solid, In, NoRange
<1> QED
  BY <1>3, <1>4, <1>5, <1>6, <1>7, <1>8 DEF Neat, t, u, blended

-----------------------------------------------------------------------------
(* The course of the assignment.                                           *)

(* What a step of assignLayers() does.                                     *)
Answered(l) ==
  /\ l \in Layer /\ l >= next /\ kind[l].priority = level
  /\ r.type[l] \notin {"CLIENT", "EXYNOS"}
  /\ \A x \in Layer : (/\ x >= next /\ kind[x].priority = level
                       /\ r.type[x] \notin {"CLIENT", "EXYNOS"}) => l <= x
  /\ UNCHANGED <<kind, mBlendingNoneIndex, tries, level>>
  /\ next' = l + 1 /\ pc' = IF r'.ret = "ok" THEN "layers" ELSE "test"
  /\ Sound(kind, r') /\ Neat(r') /\ r'.ret \in {"ok", "changed"} /\ r'.busy = r.busy
  /\ \/ /\ Decided(r, r', l) /\ lowFps' \in {lowFps, NoRange}
        /\ r'.ret = "ok" => SameTargets(r, r')
        /\ r'.ret = "changed" => r'.type[l] \in {"CLIENT", "EXYNOS"}
     \/ r'.ret = "changed" /\ lowFps.has /\ lowFps' = NoRange

LEMMA AssignLayerAnswers ==
  ASSUME Inv, HighApart, Neat(r), AssignLayer
  PROVE  \E l \in Layer : Answered(l)
<1> DEFINE l == Min(Waiting)
           answer == assignLayer(r, l)
<1>1. /\ pc = "layers" /\ Given /\ Sound(kind, r) /\ Pending(r, level, next)
  BY DEF Inv, AssignLayer, Trying
<1>2. /\ l \in Layer /\ l >= next /\ kind[l].priority = level
      /\ r.type[l] \notin {"CLIENT", "EXYNOS"}
      /\ \A x \in Layer : (/\ x >= next /\ kind[x].priority = level
                           /\ r.type[x] \notin {"CLIENT", "EXYNOS"}) => l <= x
  <2>1. Waiting \in SUBSET Layer /\ Waiting # {}
    BY DEF Waiting, AssignLayer
  <2>2. l \in Waiting /\ \A x \in Waiting : l <= x
    BY <2>1, LeastLayer
  <2>3. l \in Layer /\ \A x \in Layer : x \in Waiting => l <= x
    BY <2>1, <2>2
  <2> HIDE DEF l
  <2>4. l >= next /\ kind[l].priority = level /\ r.type[l] \notin {"CLIENT", "EXYNOS"}
    BY <2>2 DEF Waiting
  <2>5. \A x \in Layer : (/\ x >= next /\ kind[x].priority = level
                          /\ r.type[x] \notin {"CLIENT", "EXYNOS"}) => x \in Waiting
    BY DEF Waiting
  <2> QED
    BY <2>3, <2>4, <2>5
<1>3. /\ UNCHANGED <<kind, mBlendingNoneIndex, tries, level>>
      /\ AssignDevice(l, answer) \/ AssignExynos(l, answer) \/ AssignClient(l, answer)
  BY DEF AssignLayer
<1> HIDE DEF l
<1>4. Suits(r, l, answer)
  BY <1>2, AssignLayerSuits
<1> HIDE DEF answer
<1>5. r.m2m[l] = None
  BY <1>1, <1>2 DEF Pending, ToCome, Neat, Settled, Blends, Sound, Steady, Assignment, M2m
<1>6. Blends(kind, r)
  BY DEF Neat, Settled
<1>7. CASE AssignDevice(l, answer)
  <2> DEFINE s == [assign(r, l, answer) EXCEPT !.ret = "ok"]
  <2>1. answer.type = "DEVICE" /\ Proceed(s, l) /\ lowFps' = lowFps
    BY <1>7 DEF AssignDevice
  <2>2. Decided(r, s, l) /\ s.ret = "ok" /\ SameTargets(r, s)
    BY <1>1, <1>2, <1>4, <2>1, DeviceNeat
  <2> HIDE DEF s
  <2>3. Answered(l)
    BY <1>2, <1>3, <2>1, <2>2 DEF Answered, Proceed, Decided
  <2> QED
    BY <1>2, <2>3
<1>8. CASE AssignExynos(l, answer)
  <2> DEFINE s == addExynosCompositionLayer(assign(r, l, answer), l)
             lost == s.ret = "ok" /\ LowFpsLost(s)
             t == IF lost THEN reassign(s) ELSE s
  <2>1. answer.type = "EXYNOS" /\ Proceed(t, l) /\ lowFps' = IF lost THEN NoRange ELSE lowFps
    BY <1>8 DEF AssignExynos, UnlessLowFpsLost
  <2>2. /\ Decided(r, s, l) /\ s.type[l] \in {"CLIENT", "EXYNOS"}
        /\ s.ret \in {"ok", "changed"}
        /\ s.ret = "ok" => SameTargets(r, s)
    BY <1>1, <1>2, <1>4, <2>1, ExynosNeat
  <2>3. lost => lowFps.has
    BY DEF LowFpsLost
  <2> HIDE DEF s, lost
  <2>4. Sound(kind, s) /\ Blends(kind, s) /\ s.busy = r.busy
    BY <2>2 DEF Decided, Neat, Settled
  <2>5. Sound(kind, reassign(s)) /\ Neat(reassign(s)) /\ reassign(s).ret = "changed"
        /\ reassign(s).busy = s.busy
    BY <1>1, <2>4, ReassignNeat
  <2>6. CASE lost
    BY <1>2, <1>3, <2>1, <2>3, <2>4, <2>5, <2>6 DEF Answered, Proceed
  <2>7. CASE ~lost
    <3>1. /\ r' = s /\ next' = l + 1 /\ lowFps' = lowFps
          /\ pc' = IF s.ret = "ok" THEN "layers" ELSE "test"
      BY <2>1, <2>2, <2>7 DEF Proceed
    <3>2. Sound(kind, r') /\ Neat(r') /\ r'.busy = r.busy
      BY <2>2, <3>1 DEF Decided
    <3>3. Answered(l)
      BY <1>2, <1>3, <2>2, <3>1, <3>2 DEF Answered
    <3> QED
      BY <1>2, <3>3
  <2> QED
    BY <1>2, <2>6, <2>7
<1>9. CASE AssignClient(l, answer)
  <2> DEFINE s == ClientsLayer(r, l)
             lost == lowFps.has /\ ~In(l, lowFps)
             t == IF lost THEN reassign(r) ELSE s
  <2>1. Proceed(t, l) /\ lowFps' = IF lost THEN NoRange ELSE lowFps
    BY <1>9 DEF AssignClient, ClientsLayer
  <2>2. /\ Decided(r, s, l) /\ s.type[l] = "CLIENT" /\ s.ret # "error"
        /\ s.ret # "changed" => SameTargets(r, s)
    BY <1>1, <1>2, <1>5, ClientNeat
  <2>3. lost => lowFps.has
    OBVIOUS
  <2> HIDE DEF s, lost
  <2>4. s.ret \in {"ok", "changed"}
    BY <2>2 DEF Decided, Sound, Steady, Assignment, Ret
  <2>5. Sound(kind, reassign(r)) /\ Neat(reassign(r)) /\ reassign(r).ret = "changed"
        /\ reassign(r).busy = r.busy
    BY <1>1, <1>6, ReassignNeat
  <2>6. CASE lost
    BY <1>2, <1>3, <2>1, <2>3, <2>5, <2>6 DEF Answered, Proceed
  <2>7. CASE ~lost
    BY <1>2, <1>3, <2>1, <2>2, <2>4, <2>7 DEF Answered, Proceed, Decided
  <2> QED
    BY <1>2, <2>6, <2>7
<1> QED
  BY <1>3, <1>7, <1>8, <1>9

LEMMA NeatNext ==
  ASSUME UNCHANGED kind, Neat(r')
  PROVE  Neat(r)'
BY DEF Neat, Settled, ClientEnds, Solid

LEMMA StartCourse ==
  ASSUME StartFrame
  PROVE  Course'
<1>1. r' = Fresh /\ pc' = "asked"
  BY DEF StartFrame
<1>2. /\ Fresh.client = NoRange /\ Fresh.exynos = NoRange /\ Fresh.ret = "ok"
      /\ \A l \in Layer : Fresh.m2m[l] = None /\ Fresh.type[l] = "INVALID"
  BY DEF Fresh
<1>3. Neat(r)'
  BY <1>1, <1>2, NotMPPs DEF Neat, Settled, Blends, ClientHoldsBut, ClientEnds, Solid, In, NoRange
<1> QED
  BY <1>1, <1>2, <1>3 DEF Course

LEMMA PresentCourse ==
  ASSUME Present
  PROVE  Course'
BY DEF Present, Course, Trying

LEMMA AskedCourse ==
  ASSUME Inv, Course, AskedForClient
  PROVE  Course' /\ pc' # "error" /\ Falls(r, r') /\ r'.busy = r.busy
<1>1. /\ Given /\ Sound(kind, r) /\ Neat(r) /\ r.ret # "error"
      /\ \A l \in Layer : r.m2m[l] = None
  BY DEF Inv, Course, AskedForClient, Trying
<1>2. /\ kind' = kind /\ r' = Loop(askedForClient, r, 0, LayerNum - 1)
      /\ pc' = IF r'.ret = "error" THEN "error" ELSE "try"
  BY DEF AskedForClient
<1>3. Neat(r') /\ r'.ret # "error" /\ Lets(r, r') /\ r'.busy = r.busy
  BY <1>1, <1>2, AskedNeat
<1>4. Sound(kind, r')
  BY <1>1, <1>2, AskedHeld DEF Inv, AskedForClient, Trying
<1>5. Falls(r, r')
  BY <1>3, <1>4, LetsFalls DEF Sound, Steady
<1>6. Neat(r)'
  BY <1>2, <1>3, NeatNext
<1> QED
  BY <1>2, <1>3, <1>5, <1>6 DEF Course

LEMMA TryCourse ==
  ASSUME Inv, Course, Try
  PROVE  Course' /\ pc' = "layers" /\ r'.type = r.type /\ r'.busy = r.busy
<1>1. Given /\ Sound(kind, r) /\ Neat(r)
  BY DEF Inv, Course, Try, Trying
<1>2. /\ kind' = kind /\ level' = PriorityMax /\ next' = 0
      /\ r' = assignCompositionTarget(resetAssignedResources(r, FALSE), Client)
      /\ pc' = IF r'.ret = "error" THEN "error" ELSE "layers"
  BY DEF Try
<1>3. Neat(r') /\ r'.ret = "ok" /\ Targeted(r') /\ r'.type = r.type /\ r'.busy = r.busy
  BY <1>1, <1>2, TryNeat
<1>4. Neat(r)'
  BY <1>2, <1>3, NeatNext
<1>5. \A l \in Layer : l \in ToCome(level, next)'
  BY <1>1, <1>2, Priorities, Numbers DEF ToCome, Priority, PriorityMax
<1>6. level' = 4 /\ ~(level' < PriorityHigh)
  BY <1>2 DEF PriorityMax, PriorityHigh
<1> QED
  BY <1>2, <1>3, <1>4, <1>5, <1>6 DEF Course, Targeted

LEMMA AssignLayerCourse ==
  ASSUME Inv, HighApart, Course, AssignLayer
  PROVE  Course' /\ pc' # "error"
<1>1. /\ pc = "layers" /\ Neat(r) /\ r.ret = "ok" /\ Targeted(r)
      /\ level < PriorityHigh => BothTargeted(r)
      /\ \A l \in Layer \ ToCome(level, next) : Found(r, l)
      /\ Given /\ level \in Priority /\ next \in 0 .. LayerNum
  BY DEF Inv, Course, AssignLayer, Trying
<1>2. PICK l \in Layer : Answered(l)
  BY <1>1, AssignLayerAnswers
<1>3. Neat(r)'
  BY <1>2, NeatNext DEF Answered
<1>4. CASE r'.ret # "ok"
  BY <1>2, <1>3, <1>4 DEF Answered, Course
<1>5. CASE r'.ret = "ok"
  <2>1. /\ Decided(r, r', l) /\ SameTargets(r, r') /\ pc' = "layers"
        /\ level' = level /\ next' = l + 1 /\ kind' = kind
    BY <1>2, <1>5 DEF Answered
  <2>2. Targeted(r') /\ (level' < PriorityHigh => BothTargeted(r'))
    BY <1>1, <2>1, TargetedStill
  <2>3. \A x \in Layer \ ToCome(level, l + 1) : Found(r', x)
    <3> SUFFICES ASSUME NEW x \in Layer, x \notin ToCome(level, l + 1), x # l
                 PROVE  Found(r, x)
      BY <2>1 DEF Decided
    <3>1. CASE x \notin ToCome(level, next)
      BY <1>1, <3>1
    <3>2. CASE x \in ToCome(level, next)
      <4>1. kind[x].priority = level /\ x >= next /\ ~(x >= l + 1)
        BY <3>2 DEF ToCome
      <4>2. ~(l <= x)
        BY <4>1, Numbers
      <4>3. r.type[x] \in {"CLIENT", "EXYNOS"}
        BY <1>2, <4>1, <4>2 DEF Answered
      <4> QED
        BY <4>3 DEF Found
    <3> QED
      BY <3>1, <3>2
  <2>4. \A x \in Layer \ ToCome(level, next)' : Found(r', x)
    BY <2>1, <2>3 DEF ToCome
  <2> QED
    BY <1>3, <1>5, <2>1, <2>2, <2>4 DEF Course, Targeted, BothTargeted, Found
<1> QED
  BY <1>2, <1>4, <1>5 DEF Answered

LEMMA NextLevelCourse ==
  ASSUME Inv, Course, NextLevel
  PROVE  Course' /\ pc' # "error"
<1>1. /\ pc = "layers" /\ Neat(r) /\ r.ret = "ok" /\ Targeted(r)
      /\ level < PriorityHigh => BothTargeted(r)
      /\ \A l \in Layer \ ToCome(level, next) : Found(r, l)
      /\ Given /\ level \in Priority /\ Waiting = {}
  BY DEF Inv, Course, NextLevel, Trying
<1>2. /\ next' = 0 /\ kind' = kind /\ r' = r
      /\ level' = IF level > 1 THEN level - 1 ELSE level
      /\ pc' = CASE level = PriorityHigh -> "target"
                 [] level = 1 -> "prioritize"
                 [] OTHER -> "layers"
  BY DEF NextLevel
<1>3. level \in {1, 2, 3, 4} /\ PriorityHigh = 3
  BY <1>1 DEF Priority, PriorityMax, PriorityHigh
<1>4. Neat(r)'
  BY <1>1, <1>2, NeatNext
<1>5. \A x \in Layer : kind[x].priority >= level => Found(r, x)
  <2> SUFFICES ASSUME NEW x \in Layer, kind[x].priority >= level, ~Found(r, x)
               PROVE  FALSE
    OBVIOUS
  <2>1. kind[x].priority \in Int
    BY <1>1, Priorities DEF Priority, PriorityMax
  <2>2. x \in ToCome(level, next)
    BY <1>1
  <2>3. kind[x].priority = level /\ x >= next
    BY <1>3, <2>1, <2>2 DEF ToCome
  <2> QED
    BY <1>1, <2>3 DEF Waiting, Found
<1>6. level # 1 => \A x \in Layer \ ToCome(level, next)' : Found(r, x)
  <2> SUFFICES ASSUME level # 1, NEW x \in Layer, ~(kind[x].priority < level - 1),
                      ~(kind[x].priority = level - 1 /\ x >= 0)
               PROVE  Found(r, x)
    BY <1>2, <1>3 DEF ToCome
  <2>1. kind[x].priority \in Int /\ x >= 0
    BY <1>1, Priorities, Numbers DEF Priority, PriorityMax
  <2> QED
    BY <1>3, <1>5, <2>1
<1>7. level = 1 => \A x \in Layer : Found(r, x)
  BY <1>1, <1>5, Priorities DEF Priority, PriorityMax
<1>8. /\ level = 1 => pc' = "prioritize"
      /\ level = 3 => pc' = "target"
      /\ level \in {2, 4} => pc' = "layers"
      /\ level = 4 => level' = 3
  BY <1>2, <1>3
<1> QED
  BY <1>1, <1>2, <1>3, <1>4, <1>6, <1>7, <1>8 DEF Course, Targeted, BothTargeted, Found

(* The target of the G2D.                                                  *)
LEMMA TargetCourse ==
  ASSUME Inv, Course, AssignExynosTarget
  PROVE  /\ Course' /\ pc' # "error" /\ Falls(r, r') /\ r'.busy = r.busy
         /\ \/ pc' = "layers" /\ r'.type = r.type
            \/ pc' = "test" /\ \E l \in Layer : r.type[l] = "EXYNOS" /\ r'.type[l] = "CLIENT"
<1> DEFINE s == assignCompositionTarget(r, Exynos)
           g == giveExynosToClient(r)
<1>1. /\ pc = "target" /\ Given /\ Sound(kind, r) /\ Neat(r) /\ Targeted(r)
      /\ \A l \in Layer \ ToCome(level, next) : Found(r, l)
  BY DEF Inv, Course, AssignExynosTarget, Trying
<1>2. /\ r' = IF s.ret = "ok" THEN s ELSE g
      /\ kind' = kind /\ level' = level /\ next' = next
      /\ pc' = CASE r'.ret = "ok" -> "layers"
                 [] r'.ret = "changed" -> "test"
                 [] r'.ret = "error" -> "error"
  BY DEF AssignExynosTarget
<1>3. /\ s.type = r.type /\ s.m2m = r.m2m /\ s.busy = r.busy
      /\ s.client = r.client /\ s.exynos = r.exynos
      /\ \A x \in Source \ {Exynos} : s.otf[x] = r.otf[x]
      /\ s.ret = "ok" /\ r.exynos.has => s.otf[Exynos] # None
      /\ s.ret # "ok" => r.exynos.has
  <2>1. Exynos \in {Client, Exynos} /\ Exynos # Client
    BY Numbers
  <2>2. ~r.exynos.has => s.ret = "ok"
    <3>1. ~r.exynos.has => s = [r EXCEPT !.ret = "ok"]
      BY <2>1 DEF assignCompositionTarget
    <3>2. r \in Assignment
      BY <1>1 DEF Sound, Steady
    <3> QED
      BY <3>1, <3>2 DEF Assignment
  <2> QED
    BY <1>1, <2>1, <2>2, TargetSound
<1> HIDE DEF s
<1>4. CASE s.ret = "ok"
  <2>1. r' = s /\ pc' = "layers"
    BY <1>2, <1>4
  <2>2. Neat(s)
    BY <1>1, <1>3 DEF Neat, Settled, Blends, ClientHoldsBut, ClientEnds, Solid
  <2>3. Targeted(s) /\ BothTargeted(s)
    BY <1>1, <1>3, <1>4, Numbers DEF Targeted, BothTargeted
  <2>4. \A x \in Layer \ ToCome(level, next) : Found(s, x)
    BY <1>1, <1>3, Numbers DEF Found
  <2>5. Neat(r)'
    BY <1>2, <2>1, <2>2, NeatNext
  <2>6. Course'
    BY <1>2, <1>4, <2>1, <2>3, <2>4, <2>5 DEF Course, ToCome, Found, Targeted, BothTargeted
  <2>7. Falls(r, r')
    BY <1>3, <2>1 DEF Falls
  <2> QED
    BY <1>3, <2>1, <2>6, <2>7
<1>5. CASE s.ret # "ok"
  <2>1. r' = g
    BY <1>2, <1>5
  <2>2. /\ Neat(g) /\ Falls(r, g) /\ g.ret = "changed" /\ g.busy = r.busy
        /\ \E l \in Layer : r.type[l] = "EXYNOS" /\ g.type[l] = "CLIENT"
    BY <1>1, <1>3, <1>5, GiveExynosNeat
  <2> HIDE DEF g
  <2>3. pc' = "test" /\ Neat(r)'
    BY <1>2, <2>1, <2>2, NeatNext
  <2> QED
    BY <2>1, <2>2, <2>3 DEF Course
<1> QED
  BY <1>4, <1>5

LEMMA PrioritizeCourse ==
  ASSUME Inv, Course, setResourcePriority
  PROVE  /\ Course' /\ pc' = "test"
         /\ \/ r' = r
            \/ /\ r'.ret = "changed" /\ r'.busy = r.busy \cup {Single} /\ Single \notin r.busy
               /\ \A l \in Layer : r'.type[l] = r.type[l]
            \/ /\ r'.ret = "changed" /\ Blending \notin r.busy
               /\ Blending \in r'.busy /\ r.busy \subseteq r'.busy
               /\ \A l \in Layer : r.type[l] = "CLIENT" => r'.type[l] = "CLIENT"
<1>1. /\ pc = "prioritize" /\ Given /\ Sound(kind, r) /\ Neat(r) /\ Converts(r)
      /\ r.ret = "ok" /\ BothTargeted(r) /\ \A l \in Layer : Found(r, l)
  BY DEF Inv, Course, setResourcePriority, Trying
<1> DEFINE alone == {l \in M2mSources(r, Single) : r.type[l] = "DEVICE"}
           one == giveUp(r, alone, Single)
           blended == {l \in Layer : In(l, r.exynos)}
<1>2. PICK singleBusy \in BOOLEAN, blendingBusy \in BOOLEAN :
        LET s == IF singleBusy THEN one ELSE r
        IN /\ singleBusy => alone # {}
           /\ blendingBusy => r.exynos.has
           /\ r' = IF blendingBusy THEN initializeExynos(giveUp(s, blended, Blending)) ELSE s
  BY DEF setResourcePriority
<1> DEFINE s == IF singleBusy THEN one ELSE r
           both == initializeExynos(giveUp(s, blended, Blending))
<1>3. /\ Sound(kind, one) /\ Neat(one) /\ one.ret = "changed"
      /\ one.busy = r.busy \cup {Single} /\ one.exynos = r.exynos
      /\ \A l \in Layer : one.type[l] = r.type[l]
  BY <1>1, SingleNeat DEF GivenUp
<1>4. singleBusy => Single \notin r.busy
  <2>1. alone \subseteq M2mSources(r, Single) /\ (singleBusy => alone # {})
    BY <1>2
  <2>2. \A m \in r.busy : M2mSources(r, m) = {}
    BY <1>1 DEF Sound, Steady, Within
  <2> HIDE DEF alone
  <2> QED
    BY <2>1, <2>2
<1> HIDE DEF one
<1>5. /\ Sound(kind, s) /\ Neat(s) /\ s.exynos = r.exynos
      /\ s.busy = IF singleBusy THEN r.busy \cup {Single} ELSE r.busy
      /\ \A l \in Layer : s.type[l] = r.type[l]
      /\ s.ret = IF singleBusy THEN "changed" ELSE "ok"
      /\ ~singleBusy => s = r
  BY <1>1, <1>3
<1>6. r' = IF blendingBusy THEN both ELSE s
  BY <1>2
<1>7. blendingBusy => Blending \notin r.busy
  <2>1. r.exynos.has => r.exynos.first \in Layer /\ In(r.exynos.first, r.exynos)
    BY <1>1, EndsInside DEF Sound, Steady, Assignment
  <2>2. r.exynos.has => r.m2m[r.exynos.first] = Blending
    BY <1>1, <2>1 DEF Neat, Solid, Settled, Blends
  <2>3. \A m \in r.busy : M2mSources(r, m) = {}
    BY <1>1 DEF Sound, Steady, Within
  <2> QED
    BY <1>2, <2>1, <2>2, <2>3 DEF M2mSources
<1> HIDE DEF s
<1>8. /\ Sound(kind, both) /\ Neat(both) /\ both.ret = "changed"
      /\ both.busy = s.busy \cup {Blending}
      /\ \A l \in Layer : s.type[l] = "CLIENT" => both.type[l] = "CLIENT"
  <2>1. blended = {l \in Layer : In(l, s.exynos)}
    BY <1>5
  <2> HIDE DEF blended
  <2> QED
    BY <1>1, <1>5, <2>1, BlendingNeat
<1> HIDE DEF both
<1>9. kind' = kind /\ pc' = "test"
  BY DEF setResourcePriority
<1>10. Neat(r') /\ Neat(r)'
  BY <1>5, <1>6, <1>8, <1>9, NeatNext
<1>11. r'.ret = "changed" \/ r' = r
  BY <1>5, <1>6, <1>8
<1>12. Course'
  BY <1>1, <1>9, <1>10, <1>11 DEF Course, Found, BothTargeted, Targeted
<1>13. CASE blendingBusy
  BY <1>5, <1>6, <1>7, <1>8, <1>9, <1>12, <1>13
<1>14. CASE ~blendingBusy
  BY <1>4, <1>5, <1>6, <1>9, <1>12, <1>14
<1> QED
  BY <1>13, <1>14

LEMMA TestAgainCourse ==
  ASSUME Inv, Course, TestAgain
  PROVE  Course'
<1>1. /\ pc = "test" /\ Neat(r)
      /\ r.ret # "changed" => r.ret = "ok" /\ BothTargeted(r) /\ \A l \in Layer : Found(r, l)
  BY DEF Course, TestAgain, Trying
<1>2. kind' = kind /\ r' = r
  BY DEF TestAgain
<1>3. pc' \in {"try", "error", "update"} /\ (pc' = "update" => r.ret # "changed")
  BY ParametersOK DEF TestAgain, Inv
<1>4. Neat(r)'
  BY <1>1, <1>2, NeatNext
<1> QED
  BY <1>1, <1>2, <1>3, <1>4 DEF Course, Found, BothTargeted, Targeted

-----------------------------------------------------------------------------
(* The update of the blended ranges at the end.                            *)

(* A source has an OTF MPP for itself.                                     *)
LEMMA AloneOnOtf ==
  ASSUME NEW s, s \in Assignment, Owned(s), NEW x \in Source, NEW y \in Source,
         s.otf[x] # None, s.otf[x] = s.otf[y]
  PROVE  x = y
<1>1. s.users[s.otf[x]] = {x} /\ s.users[s.otf[x]] = {y}
  BY DEF Owned
<1> QED
  BY <1>1

LEMMA UnblendKept ==
  ASSUME Given, NEW s, Kept(s), ClientEnds(s)
  PROVE  Kept(unblend(s)) /\ ClientEnds(unblend(s))
<1> DEFINE l == s.exynos.first
           o == s.otf[Exynos]
           u == resetAssignedResource(s, {l})
           e == initializeExynos(u)
           t == [e EXCEPT !.type[l] = "DEVICE"]
           d == resetAssignedState(t, o)
           v == assignOtf(d, o, l)
           can == o # None /\ l >= 0 /\ l = s.exynos.last /\ o \in kind[l].supports
<1>1. /\ kind \in [Layer -> Kind] /\ s \in Assignment /\ Steady(kind, s) /\ Spanning(s.exynos)
      /\ Owned(s) /\ Sound(kind, s) /\ Settled(s) /\ Solid(s) /\ s.exynos \in Ranges
      /\ Spanning(s.client) /\ s.client \in Ranges
  BY DEF Given, Sound, Steady, Assignment, Kept
<1>2. CASE ~can
  BY <1>2 DEF unblend
<1>3. CASE can
  <2>1. l \in Layer /\ l \in Source /\ o \in Otf /\ s.exynos.has /\ s.exynos.last = l
    <3>1. o \in Otf \cup {None}
      BY <1>1, Numbers DEF Assignment
    <3>2. s.exynos # NoRange
      BY <1>3 DEF NoRange
    <3> QED
      BY <1>1, <1>3, <3>1, <3>2, Numbers DEF Spanning
  <2>2. unblend(s) = v
    BY <1>3 DEF unblend
  <2>3. Sound(kind, unblend(s))
    BY <1>1, UnblendSound
  <2>4. \A x \in Layer : In(x, s.exynos) <=> x = l
    <3>1. \A x \in Layer : l <= x /\ x <= l <=> x = l
      BY <2>1, Numbers
    <3> HIDE DEF l
    <3> QED
      BY <2>1, <3>1 DEF In, l
  <2>5. l \in Layer /\ s.type[l] = "EXYNOS" /\ \A x \in Layer : s.type[x] = "EXYNOS" => x = l
    BY <1>1, <2>1, <2>4 DEF Solid, Settled, Blends
  <2> HIDE DEF l
  <2>6. /\ Steady(kind, u) /\ u.type = s.type /\ u.client = s.client
        /\ \A x \in Layer : u.m2m[x] = IF x \in {l} THEN None ELSE s.m2m[x]
        /\ \A x \in Source \ {l} : u.otf[x] = s.otf[x]
    BY <1>1, <2>1, ResetResourceSteady
  <2>7. u.ret = s.ret
    BY <1>1 DEF resetAssignedResource, Assignment
  <2> HIDE DEF u
  <2>8. /\ Sound(kind, e) /\ e.exynos = NoRange /\ e.client = u.client
        /\ e.type = u.type /\ e.m2m = u.m2m
    BY <1>1, <2>6, InitializeSteady
  <2>9. /\ \A x \in Source \ {Exynos} : e.otf[x] = u.otf[x]
        /\ e.otf[Exynos] = None /\ e.ret = u.ret
    BY <2>6, Numbers DEF initializeExynos, Steady, Assignment
  <2>10. e \in Assignment
    BY <2>8 DEF Sound, Steady
  <2> HIDE DEF e
  <2>11. /\ t.client = e.client /\ t.exynos = e.exynos /\ t.ret = e.ret
         /\ t.otf = e.otf /\ t.users = e.users /\ t.m2m = e.m2m /\ t \in Assignment
         /\ \A x \in Layer : t.type[x] = IF x = l THEN "DEVICE" ELSE e.type[x]
    BY <2>1, <2>10 DEF Assignment, Types
  <2> HIDE DEF t
  <2>12. /\ d.type = t.type /\ d.m2m = t.m2m /\ d.client = t.client /\ d.exynos = t.exynos
         /\ d.ret = t.ret /\ d \in Assignment
         /\ \A x \in Source : d.otf[x] = IF t.otf[x] = o THEN None ELSE t.otf[x]
    BY <2>11 DEF resetAssignedState, Assignment
  <2> HIDE DEF d, o
  <2>13. /\ v.type = d.type /\ v.m2m = d.m2m /\ v.client = d.client /\ v.exynos = d.exynos
         /\ v.ret = d.ret
         /\ \A x \in Source : v.otf[x] = IF x = l THEN o ELSE d.otf[x]
    BY <2>1, <2>12 DEF assignOtf, Assignment
  <2> HIDE DEF v
  <2>14. \A x \in Source \ {l, Exynos} : v.otf[x] = s.otf[x]
    <3> SUFFICES ASSUME NEW x \in Source, x # l, x # Exynos
                 PROVE  s.otf[x] # o /\ v.otf[x] = s.otf[x]
      OBVIOUS
    <3>1. s.otf[x] # o
      BY <1>1, <1>3, AloneOnOtf, Numbers DEF o
    <3>2. t.otf[x] = s.otf[x]
      BY <2>6, <2>9, <2>11
    <3> QED
      BY <2>12, <2>13, <3>1, <3>2
  <2>15. /\ v.exynos = NoRange /\ v.client = s.client /\ v.ret = s.ret
         /\ \A x \in Layer : /\ v.type[x] = IF x = l THEN "DEVICE" ELSE s.type[x]
                             /\ v.m2m[x] = IF x = l THEN None ELSE s.m2m[x]
    <3>1. v.exynos = NoRange /\ v.client = s.client /\ v.ret = s.ret
      BY <2>6, <2>7, <2>8, <2>9, <2>11, <2>12, <2>13
    <3>2. v.m2m = u.m2m /\ v.type = t.type /\ e.type = s.type
      BY <2>6, <2>8, <2>11, <2>12, <2>13
    <3> QED
      BY <2>6, <2>11, <3>1, <3>2
  <2>16. \A x \in Layer : v.type[x] # "EXYNOS"
    BY <2>5, <2>15
  <2>17. Settled(v)
    <3>1. Blends(kind, v)
      BY <1>1, <2>5, <2>15, <2>16, NotMPPs DEF Settled, Blends
    <3>2. ~In(l, s.client)
      BY <1>1, <2>5 DEF Settled, Blends, ClientHoldsBut
    <3>3. ClientHoldsBut(kind, v, {})
      BY <1>1, <2>15, <3>2 DEF Settled, ClientHoldsBut
    <3> QED
      BY <3>1, <3>3 DEF Settled
  <2>18. Solid(v)
    BY <2>15 DEF Solid, In, NoRange
  <2>19. BothTargeted(v)
    BY <2>1, <2>14, <2>15, Numbers DEF Kept, BothTargeted, Targeted, NoRange
  <2>20. \A x \in Layer : Found(v, x)
    <3> SUFFICES ASSUME NEW x \in Layer PROVE Found(v, x)
      OBVIOUS
    <3>1. CASE x = l
      BY <1>3, <2>1, <2>13, <2>15, <3>1, Numbers DEF Found
    <3>2. CASE x # l
      BY <2>14, <2>15, <3>2, Numbers DEF Kept, Found
    <3> QED
      BY <3>1, <3>2
  <2>21. ClientEnds(v)
    BY <1>1, <2>5, <2>15, EndsInside DEF ClientEnds
  <2> QED
    BY <2>2, <2>3, <2>15, <2>17, <2>18, <2>19, <2>20, <2>21 DEF Kept
<1> QED
  BY <1>2, <1>3

OwnWindow(a) == a.type = "DEVICE" /\ a.m2m = None

LEMMA AnswerOwn ==
  ASSUME NEW s, NEW l \in Layer
  PROVE  OwnWindow(assignLayer(s, l)) <=> ~Blocked(s, l)
<1> DEFINE blocked == Obstacles(s, l)
           supports == kind[l].supports
           direct == freeOtf(s, supports)
           a == assignLayer(s, l)
<1>1. blocked = {} <=> /\ ~kind[l].client /\ ~In(l, lowFps)
                       /\ ~(l <= mBlendingNoneIndex /\ ~High(l))
                       /\ ~NoWindowLeft(s)
  BY DEF Obstacles
<1>2. direct = None <=> \A o \in Otf : o \in supports => s.users[o] # {}
  BY FreeOtf, OneIsFree, NotMPPs
<1>3. ~("client" \in blocked \/ Cardinality(blocked) > 1) \/ blocked # {}
  BY FS_EmptySet
<1> HIDE DEF blocked, direct
<1>4. \/ a = Answer("CLIENT", None, None) /\ blocked # {}
      \/ a = Answer("DEVICE", direct, None) /\ blocked = {} /\ direct # None
      \/ \E o : a = Answer("DEVICE", o, Single) /\ (blocked # {} \/ direct = None)
      \/ a = Answer("EXYNOS", None, Blending) /\ (blocked # {} \/ direct = None)
      \/ a = Answer("CLIENT", None, None) /\ direct = None
  BY <1>3 DEF assignLayer, blocked, direct
<1>5. OwnWindow(a) <=> blocked = {} /\ direct # None
  BY <1>4, NotMPPs DEF Answer, OwnWindow
<1> QED
  BY <1>1, <1>2, <1>5 DEF Blocked

LEMMA StillBlocked ==
  ASSUME NEW s, NEW t, NEW l \in Layer, Blocked(s, l),
         t.windows = s.windows \/ ~NoWindowLeft(s),
         \A o \in Otf : s.users[o] # {} => t.users[o] # {}
  PROVE  Blocked(t, l)
BY DEF Blocked, NoWindowLeft

(* A layer in the client's range is the client's, or is of high priority   *)
(* and has its own window.                                                 *)
LEMMA InTheRange ==
  ASSUME Given, NEW s, Settled(s), NEW l \in Layer, Found(s, l), In(l, s.client)
  PROVE  s.type[l] = "CLIENT" \/ (High(l) /\ s.type[l] = "DEVICE")
BY Priorities DEF Settled, Blends, ClientHoldsBut, Found

(* The range without its first or last layer.                              *)
Rest(range, l) ==
  IF range.first = range.last THEN NoRange
  ELSE IF l = range.first THEN [range EXCEPT !.first = @ + 1]
  ELSE [range EXCEPT !.last = @ - 1]

LEMMA RestSpans ==
  ASSUME NEW range \in Ranges, Spanning(range), range.has,
         NEW l \in {range.first, range.last}
  PROVE  /\ Rest(range, l) \in Ranges /\ Spanning(Rest(range, l))
         /\ \A x \in Layer : In(x, Rest(range, l)) <=> In(x, range) /\ x # l
         /\ range.first # range.last =>
              /\ Rest(range, l).has
              /\ l = range.first => /\ Rest(range, l).first = l + 1
                                    /\ Rest(range, l).last = range.last
              /\ l # range.first => /\ Rest(range, l).first = range.first
                                    /\ Rest(range, l).last = l - 1
<1> DEFINE first == range.first
           last == range.last
           rest == Rest(range, l)
<1>1. /\ first \in Layer /\ last \in Layer /\ first <= last
      /\ first \in Int /\ last \in Int
  BY EndsInside
<1>2. CASE first = last
  <2>1. rest = NoRange
    BY <1>2 DEF Rest
  <2>2. \A x \in Layer : In(x, range) => x = l
    BY <1>1, <1>2, Numbers DEF In
  <2> QED
    BY <1>2, <2>1, <2>2 DEF NoRange, Ranges, Spanning, In
<1>3. CASE first # last /\ l = first
  <2>1. rest = [range EXCEPT !.first = first + 1]
    BY <1>3 DEF Rest
  <2>2. rest \in Ranges /\ rest.has /\ rest.first = first + 1 /\ rest.last = last
    BY <1>1, <2>1 DEF Ranges
  <2>3. first + 1 \in Layer /\ first + 1 <= last
    BY <1>1, <1>3, Numbers
  <2> HIDE DEF rest, first, last
  <2>4. \A x \in Layer : first + 1 <= x /\ x <= last <=> first <= x /\ x <= last /\ x # first
    BY <1>1, Numbers
  <2> QED
    BY <1>1, <1>3, <2>2, <2>3, <2>4 DEF Spanning, In, rest, first, last
<1>4. CASE first # last /\ l = last
  <2>1. rest = [range EXCEPT !.last = last - 1]
    BY <1>4 DEF Rest
  <2>2. rest \in Ranges /\ rest.has /\ rest.first = first /\ rest.last = last - 1
    BY <1>1, <2>1 DEF Ranges
  <2>3. last - 1 \in Layer /\ first <= last - 1
    BY <1>1, <1>4, Numbers
  <2> HIDE DEF rest, first, last
  <2>4. \A x \in Layer : first <= x /\ x <= last - 1 <=> first <= x /\ x <= last /\ x # last
    BY <1>1, Numbers
  <2> QED
    BY <1>1, <1>4, <2>2, <2>3, <2>4 DEF Spanning, In, rest, first, last
<1> QED
  BY <1>2, <1>3, <1>4

LEMMA ClientRemoved ==
  ASSUME Given, NEW s, Kept(s), s.client.has, NEW l \in {s.client.first, s.client.last}
  PROVE  LET u == removeClientCompositionLayer(s, l)
         IN  /\ Firm(kind, u) /\ u.ret = "ok" /\ u.type = s.type /\ u.m2m = s.m2m
             /\ u.exynos = s.exynos /\ u.client = Rest(s.client, l)
             /\ \A x \in Source \ {Client} : u.otf[x] = s.otf[x]
             /\ \A o \in Otf : s.users[o] = {} => u.users[o] = {}
             /\ s.client.first # s.client.last =>
                  u.users = s.users /\ u.otf = s.otf
<1> DEFINE range == s.client
           target == s.otf[Client]
           u == removeClientCompositionLayer(s, l)
           d == resetAssignedState(s, target)
           c == initializeClient(d)
           w == c.windows - 1
<1>1. /\ s \in Assignment /\ Owned(s) /\ range \in Ranges /\ Spanning(range)
      /\ range.first \in Layer /\ range.last \in Layer /\ Firm(kind, s)
      /\ range.first \in Int /\ range.last \in Int /\ l \in Layer
      /\ target # None /\ Client \in Source /\ "ok" \in Ret
  BY EndsInside, Numbers
     DEF Kept, Sound, Steady, Firm, Assignment, BothTargeted, Targeted, Ret
<1>2. /\ Firm(kind, u) /\ \A o \in Otf : s.users[o] = {} => u.users[o] = {}
  <2>1. range.last <= LayerNum - 1
    BY <1>1, Numbers
  <2> QED
    BY <1>1, <2>1, RemoveFirm
<1>3. CASE range.first = range.last
  <2>1. u = [c EXCEPT !.windows = @ - 1, !.ret = "ok"]
    BY <1>1, <1>3 DEF removeClientCompositionLayer
  <2>2. /\ d \in Assignment /\ d.type = s.type /\ d.m2m = s.m2m /\ d.exynos = s.exynos
        /\ \A x \in Source : d.otf[x] = IF s.otf[x] = target THEN None ELSE s.otf[x]
    BY <1>1 DEF resetAssignedState, Assignment
  <2> HIDE DEF d
  <2>3. /\ c \in Assignment /\ c.type = d.type /\ c.m2m = d.m2m /\ c.exynos = d.exynos
        /\ c.client = NoRange
        /\ \A x \in Source \ {Client} : c.otf[x] = d.otf[x]
    <3>1. NoRange \in Ranges /\ Client \in Source /\ -1 \in Int
      BY Numbers DEF NoRange, Ranges
    <3>2. c = [d EXCEPT !.client = NoRange,
                        !.otf = [d.otf EXCEPT ![Client] = None],
                        !.window = [d.window EXCEPT ![Client] = -1]]
      BY DEF initializeClient
    <3>3. /\ [d.otf EXCEPT ![Client] = None] \in [Source -> Otf \cup {None}]
          /\ \A x \in Source \ {Client} : [d.otf EXCEPT ![Client] = None][x] = d.otf[x]
      BY <2>2, <3>1 DEF Assignment
    <3>4. [d.window EXCEPT ![Client] = -1] \in [Source -> Int]
      BY <2>2, <3>1 DEF Assignment
    <3> HIDE DEF c
    <3> QED
      BY <2>2, <3>1, <3>2, <3>3, <3>4 DEF Assignment
  <2> HIDE DEF c, u
  <2>4. /\ u.type = c.type /\ u.m2m = c.m2m /\ u.exynos = c.exynos /\ u.client = c.client
        /\ u.otf = c.otf /\ u.ret = "ok"
    BY <2>1, <2>3 DEF Assignment
  <2>5. \A x \in Source \ {Client} : s.otf[x] # target
    BY <1>1, AloneOnOtf
  <2> QED
    BY <1>2, <1>3, <2>2, <2>3, <2>4, <2>5 DEF Rest, u
<1>4. CASE range.first # range.last
  <2> DEFINE rest == Rest(range, l)
  <2>1. u = [s EXCEPT !.client = rest, !.ret = "ok"]
    <3>1. u = IF l = range.first THEN [s EXCEPT !.client.first = @ + 1, !.ret = "ok"]
                                 ELSE [s EXCEPT !.client.last = @ - 1, !.ret = "ok"]
      BY <1>1, <1>4 DEF removeClientCompositionLayer
    <3> HIDE DEF u
    <3> QED
      BY <1>1, <1>4, <3>1 DEF Rest, Assignment
  <2>2. rest \in Ranges
    BY <1>1, RestSpans
  <2> HIDE DEF rest, u
  <2> QED
    BY <1>1, <1>2, <1>4, <2>1, <2>2 DEF Assignment, rest, u
<1> QED
  BY <1>3, <1>4

(* A layer at an end of the range gets its own window.                     *)
LEMMA OwnKept ==
  ASSUME Given, NEW s, Kept(s), s.client.has, NEW l \in {s.client.first, s.client.last},
         s.type[l] = "CLIENT", ~Blocked(s, l)
  PROVE  LET k == KeepsOwn(s, l, assignLayer(s, l))
         IN  /\ k.on = TRUE /\ Kept(k.s) /\ k.s.client = Rest(s.client, l)
             /\ k = [s |-> k.s, on |-> TRUE]
             /\ \A x \in Layer \ {l} : k.s.type[x] = s.type[x]
             /\ s.client.first # s.client.last =>
                  \A o \in Otf : s.users[o] # {} => k.s.users[o] # {}
<1> DEFINE answer == assignLayer(s, l)
           u == removeClientCompositionLayer(s, l)
           t == assign(u, l, answer)
           k == KeepsOwn(s, l, answer)
           rest == Rest(s.client, l)
<1>1. /\ s \in Assignment /\ s.client \in Ranges /\ Spanning(s.client) /\ l \in Layer
      /\ Sound(kind, s) /\ Settled(s) /\ Solid(s) /\ BothTargeted(s) /\ Spanning(s.exynos)
      /\ l \in Source
  BY EndsInside, Numbers DEF Kept, Sound, Steady, Assignment
<1>2. OwnWindow(answer) /\ Suits(s, l, answer)
  BY <1>1, AnswerOwn, AssignLayerSuits
<1> HIDE DEF answer
<1>3. /\ Firm(kind, u) /\ u.ret = "ok" /\ u.type = s.type /\ u.m2m = s.m2m
      /\ u.exynos = s.exynos /\ u.client = rest
      /\ \A x \in Source \ {Client} : u.otf[x] = s.otf[x]
      /\ \A o \in Otf : s.users[o] = {} => u.users[o] = {}
      /\ s.client.first # s.client.last =>
           u.users = s.users /\ u.otf = s.otf
  BY ClientRemoved
<1> HIDE DEF u
<1>4. k = [s |-> t, on |-> TRUE]
  BY <1>2, <1>3 DEF KeepsOwn, OwnWindow, u
<1>5. Suits(u, l, answer)
  BY <1>2, <1>3, NotMPPs DEF Suits, OwnWindow, Answer
<1>6. Assigned(u, t, l, answer)
  BY <1>1, <1>3, <1>5, AssignFirm
<1>7. answer.otf \in Otf /\ answer.otf # None
  BY <1>2, NotMPPs DEF Suits, OwnWindow, Answer
<1>8. t.ret = "ok" /\ \A o \in Otf : u.users[o] # {} => t.users[o] # {}
  <2>1. u \in Assignment
    BY <1>3 DEF Firm
  <2> DEFINE v == assignOtf(u, answer.otf, l)
             w == v.windows + 1
  <2>2. t = [v EXCEPT !.type[l] = answer.type, !.windows = w]
    BY <1>2, <1>7 DEF assign, OwnWindow
  <2>3. /\ v.ret = u.ret /\ v \in Assignment
        /\ \A o \in Otf : v.users[o] = IF o = answer.otf THEN u.users[o] \cup {l} ELSE u.users[o]
    <3>1. v = [u EXCEPT !.users = [u.users EXCEPT ![answer.otf] = u.users[answer.otf] \cup {l}],
                        !.otf = [u.otf EXCEPT ![l] = answer.otf]]
      BY DEF assignOtf
    <3>2. [u.users EXCEPT ![answer.otf] = u.users[answer.otf] \cup {l}] \in [Otf -> SUBSET Source]
      BY <1>1, <1>7, <2>1 DEF Assignment
    <3>3. [u.otf EXCEPT ![l] = answer.otf] \in [Source -> Otf \cup {None}]
      BY <1>1, <1>7, <2>1 DEF Assignment
    <3> HIDE DEF v
    <3> QED
      BY <2>1, <1>7, <3>1, <3>2, <3>3 DEF Assignment
  <2> HIDE DEF v, w
  <2>4. t.ret = v.ret /\ t.users = v.users
    BY <2>2, <2>3 DEF Assignment
  <2> HIDE DEF t
  <2>5. t.ret = "ok"
    BY <1>3, <2>3, <2>4
  <2>6. \A o \in Otf : u.users[o] # {} => v.users[o] # {}
    BY <2>3
  <2> QED
    BY <2>4, <2>5, <2>6
<1> HIDE DEF t
<1>9. /\ Firm(kind, t) /\ t.client = rest /\ t.exynos = s.exynos
      /\ \A x \in Layer : /\ t.type[x] = IF x = l THEN "DEVICE" ELSE s.type[x]
                          /\ t.m2m[x] = s.m2m[x]
      /\ \A x \in Source \ {l, Client} : t.otf[x] = s.otf[x]
      /\ t.otf[l] # None
      /\ s.client.first # s.client.last => t.otf[Client] = s.otf[Client]
  BY <1>1, <1>2, <1>3, <1>6, <1>7, Numbers DEF Assigned, OwnWindow
<1>10. /\ rest \in Ranges /\ Spanning(rest)
       /\ \A x \in Layer : In(x, rest) <=> In(x, s.client) /\ x # l
       /\ s.client.first = s.client.last => ~rest.has
  <2>1. s.client.first = s.client.last => ~rest.has
    BY DEF Rest, NoRange
  <2> HIDE DEF rest
  <2> QED
    BY <1>1, <2>1, RestSpans DEF rest
<1> HIDE DEF rest
<1>11. Sound(kind, t)
  BY <1>1, <1>9, <1>10 DEF Sound, Steady, Firm
<1>12. Settled(t) /\ Solid(t)
  <2>1. s.m2m[l] = None /\ ~In(l, s.exynos)
    BY <1>1 DEF Settled, ClientHoldsBut, Solid
  <2>2. Blends(kind, t)
    BY <1>1, <1>9, <2>1, NotMPPs DEF Settled, Blends
  <2>3. ClientHoldsBut(kind, t, {})
    BY <1>1, <1>9, <1>10 DEF Settled, ClientHoldsBut
  <2> QED
    BY <1>1, <1>9, <2>1, <2>2, <2>3 DEF Settled, Solid
<1>13. BothTargeted(t)
  BY <1>1, <1>9, <1>10, Numbers DEF BothTargeted, Targeted
<1>14. \A x \in Layer : Found(t, x)
  BY <1>9, Numbers DEF Kept, Found
<1>15. Kept(t)
  BY <1>8, <1>11, <1>12, <1>13, <1>14 DEF Kept
<1>16. k.s = t /\ k.on = TRUE
  BY <1>4
<1> QED
  BY <1>3, <1>4, <1>8, <1>9, <1>15, <1>16 DEF rest, answer

(* A layer of high priority at an end of the range has its own window.     *)
LEMMA HighKept ==
  ASSUME Given, NEW s, Kept(s), s.client.has, NEW l \in {s.client.first, s.client.last},
         s.client.first # s.client.last, s.type[l] = "DEVICE"
  PROVE  LET t == [s EXCEPT !.client = Rest(s.client, l)]
         IN  /\ Kept(t) /\ t.client = Rest(s.client, l) /\ t.type = s.type
             /\ t.users = s.users /\ t.windows = s.windows
<1> DEFINE rest == Rest(s.client, l)
           t == [s EXCEPT !.client = rest]
<1>1. /\ s \in Assignment /\ s.client \in Ranges /\ Spanning(s.client)
      /\ Sound(kind, s) /\ Settled(s) /\ Solid(s) /\ BothTargeted(s)
      /\ kind \in [Layer -> Kind] /\ l \in Layer
  BY EndsInside DEF Kept, Sound, Steady, Assignment, Given
<1>2. /\ rest \in Ranges /\ Spanning(rest)
      /\ \A x \in Layer : In(x, rest) <=> In(x, s.client) /\ x # l
  BY <1>1, RestSpans
<1> HIDE DEF rest
<1>3. /\ t \in Assignment /\ SameResources(s, t) /\ t.client = rest
      /\ t.exynos = s.exynos /\ t.ret = s.ret /\ t.windows = s.windows
  BY <1>1, <1>2 DEF Assignment, SameResources
<1> HIDE DEF t
<1>4. Sound(kind, t)
  BY <1>1, <1>2, <1>3, SameSteady DEF Sound
<1>5. Settled(t) /\ Solid(t)
  BY <1>1, <1>2, <1>3 DEF Settled, Blends, ClientHoldsBut, Solid, SameResources
<1>6. BothTargeted(t) /\ \A x \in Layer : Found(t, x)
  BY <1>1, <1>3 DEF BothTargeted, Targeted, Found, SameResources, Kept
<1> QED
  BY <1>3, <1>4, <1>5, <1>6 DEF Kept, SameResources, t, rest

(* One step of updateClientComposition(), at either end of the range.      *)
LEMMA KeepsFirst ==
  ASSUME Given, NEW s, Kept(s), s.client.has, s.type[s.client.last] = "CLIENT"
  PROVE  LET l == s.client.first
             k == Keeps(s, l, "first")
         IN  /\ k \in [s : Assignment, on : BOOLEAN] /\ Kept(k.s)
             /\ k.on => /\ k.s.client = Rest(s.client, l)
                        /\ s.client.first # s.client.last =>
                             k.s.type[s.client.last] = "CLIENT"
             /\ ~k.on => k.s = s /\ s.type[l] = "CLIENT" /\ Blocked(s, l)
<1> DEFINE l == s.client.first
           t == [s EXCEPT !.client = Rest(s.client, l)]
           k == Keeps(s, l, "first")
           o == KeepsOwn(s, l, assignLayer(s, l))
<1>1. /\ s \in Assignment /\ s.client \in Ranges /\ Spanning(s.client) /\ Settled(s)
      /\ l \in Layer /\ s.client.last \in Layer /\ In(l, s.client) /\ Found(s, l)
  BY EndsInside DEF Kept, Sound, Steady, Assignment
<1>2. CASE High(l) /\ s.type[l] = "DEVICE"
  <2>1. s.client.first # s.client.last
    BY <1>2
  <2>2. k = [s |-> [s EXCEPT !.client.first = @ + 1], on |-> TRUE]
    BY <1>2 DEF Keeps
  <2>3. [s EXCEPT !.client.first = @ + 1] = t
    BY <1>1, <2>1 DEF Rest, Assignment
  <2>4. Kept(t) /\ t.client = Rest(s.client, l) /\ t.type = s.type
    BY <1>2, <2>1, HighKept
  <2> HIDE DEF t
  <2> HIDE DEF k
  <2>5. k \in [s : Assignment, on : BOOLEAN] /\ k.s = t /\ k.on = TRUE
    <3>1. k = [s |-> t, on |-> TRUE] /\ t \in Assignment
      BY <2>2, <2>3, <2>4 DEF Kept, Sound, Steady
    <3> QED
      BY <3>1
  <2> QED
    BY <1>2, <2>4, <2>5 DEF k
<1>3. CASE ~(High(l) /\ s.type[l] = "DEVICE")
  <2>1. k = o
    BY <1>3 DEF Keeps
  <2>2. s.type[l] = "CLIENT"
    BY <1>1, <1>3, InTheRange
  <2>3. CASE Blocked(s, l)
    <3>1. o = [s |-> s, on |-> FALSE]
      BY <1>1, <2>3, AnswerOwn DEF KeepsOwn, OwnWindow
    <3> HIDE DEF o, k
    <3>2. k = [s |-> s, on |-> FALSE]
      BY <2>1, <3>1
    <3>3. k \in [s : Assignment, on : BOOLEAN] /\ k.s = s /\ k.on = FALSE
      BY <1>1, <3>2
    <3> QED
      BY <1>1, <2>2, <2>3, <3>3 DEF k, Kept
  <2>4. CASE ~Blocked(s, l)
    <3>1. /\ o.on = TRUE /\ Kept(o.s) /\ o.s.client = Rest(s.client, l)
          /\ o = [s |-> o.s, on |-> TRUE]
          /\ \A x \in Layer \ {l} : o.s.type[x] = s.type[x]
      BY <1>1, <2>2, <2>4, OwnKept
    <3>2. o \in [s : Assignment, on : BOOLEAN]
      BY <3>1 DEF Kept, Sound, Steady
    <3> HIDE DEF o
    <3>3. k.on = TRUE /\ k.s = o.s
      BY <2>1, <3>1
    <3> QED
      BY <1>1, <2>1, <3>1, <3>2, <3>3
  <2> QED
    BY <2>3, <2>4
<1> QED
  BY <1>2, <1>3

LEMMA KeepsLast ==
  ASSUME Given, NEW s, Kept(s), s.client.has, s.type[s.client.first] = "CLIENT",
         Blocked(s, s.client.first)
  PROVE  LET l == s.client.last
             k == Keeps(s, l, "last")
         IN  /\ k \in [s : Assignment, on : BOOLEAN] /\ Kept(k.s)
             /\ k.on => /\ l # s.client.first
                        /\ k.s.client = Rest(s.client, l)
                        /\ k.s.type[s.client.first] = "CLIENT"
                        /\ Blocked(k.s, s.client.first)
             /\ ~k.on => k.s = s /\ s.type[l] = "CLIENT"
<1> DEFINE l == s.client.last
           first == s.client.first
           t == [s EXCEPT !.client = Rest(s.client, l)]
           k == Keeps(s, l, "last")
           o == KeepsOwn(s, l, assignLayer(s, l))
<1>1. /\ s \in Assignment /\ s.client \in Ranges /\ Spanning(s.client) /\ Settled(s)
      /\ l \in Layer /\ first \in Layer /\ In(l, s.client) /\ Found(s, l)
  BY EndsInside DEF Kept, Sound, Steady, Assignment
<1>2. CASE High(l) /\ s.type[l] = "DEVICE"
  <2>1. first # l
    BY <1>2
  <2>2. k = [s |-> [s EXCEPT !.client.last = @ - 1], on |-> TRUE]
    BY <1>2 DEF Keeps
  <2>3. [s EXCEPT !.client.last = @ - 1] = t
    BY <1>1, <2>1 DEF Rest, Assignment
  <2>4. /\ Kept(t) /\ t.client = Rest(s.client, l) /\ t.type = s.type
        /\ t.users = s.users /\ t.windows = s.windows
    BY <1>2, <2>1, HighKept
  <2> HIDE DEF t
  <2>5. Blocked(t, first)
    BY <1>1, <2>4, StillBlocked
  <2> HIDE DEF k
  <2>6. k \in [s : Assignment, on : BOOLEAN] /\ k.s = t /\ k.on = TRUE
    <3>1. k = [s |-> t, on |-> TRUE] /\ t \in Assignment
      BY <2>2, <2>3, <2>4 DEF Kept, Sound, Steady
    <3> QED
      BY <3>1
  <2> QED
    BY <2>1, <2>4, <2>5, <2>6 DEF k
<1>3. CASE ~(High(l) /\ s.type[l] = "DEVICE")
  <2>1. k = o
    BY <1>3 DEF Keeps
  <2>2. s.type[l] = "CLIENT"
    BY <1>1, <1>3, InTheRange
  <2>3. CASE Blocked(s, l)
    <3>1. o = [s |-> s, on |-> FALSE]
      BY <1>1, <2>3, AnswerOwn DEF KeepsOwn, OwnWindow
    <3> HIDE DEF o, k
    <3>2. k = [s |-> s, on |-> FALSE]
      BY <2>1, <3>1
    <3>3. k \in [s : Assignment, on : BOOLEAN] /\ k.s = s /\ k.on = FALSE
      BY <1>1, <3>2
    <3> QED
      BY <1>1, <2>2, <2>3, <3>3 DEF k, Kept
  <2>4. CASE ~Blocked(s, l)
    <3>0. first # l
      BY <2>4
    <3>1. /\ o.on = TRUE /\ Kept(o.s) /\ o.s.client = Rest(s.client, l)
          /\ o = [s |-> o.s, on |-> TRUE]
          /\ \A x \in Layer \ {l} : o.s.type[x] = s.type[x]
          /\ \A x \in Otf : s.users[x] # {} => o.s.users[x] # {}
      BY <1>1, <2>2, <2>4, <3>0, OwnKept
    <3>2. o \in [s : Assignment, on : BOOLEAN]
      BY <3>1 DEF Kept, Sound, Steady
    <3> HIDE DEF o
    <3>3. ~NoWindowLeft(s)
      BY <2>4 DEF Blocked
    <3>4. Blocked(o.s, first)
      BY <1>1, <3>1, <3>3, StillBlocked
    <3>5. k.on = TRUE /\ k.s = o.s
      BY <2>1, <3>1
    <3> QED
      BY <1>1, <2>1, <3>0, <3>1, <3>2, <3>4, <3>5
  <2> QED
    BY <2>3, <2>4
<1> QED
  BY <1>2, <1>3

LEMMA KeepUpKept ==
  ASSUME Given, NEW first \in Layer, NEW last \in Layer, NEW n \in Nat,
         first + n <= last, NEW a \in FromBelow(first, last, n)
  PROVE  KeepUp(a, first + n) \in FromBelow(first, last, n + 1)
<1> DEFINE l == first + n
           s == a.s
           k == Keeps(s, l, "first")
<1>0. first \in Int /\ last \in Int /\ l \in Int
  BY Numbers
<1>1. a \in [s : Assignment, on : BOOLEAN] /\ Kept(s)
  BY DEF FromBelow
<1>2. CASE ~a.on
  <2>1. KeepUp(a, l) = a
    BY <1>2 DEF KeepUp
  <2> QED
    BY <1>2, <2>1 DEF FromBelow
<1>3. CASE a.on
  <2>1. KeepUp(a, l) = k
    BY <1>3 DEF KeepUp
  <2>2. s.client.has /\ s.client.first = l /\ s.client.last = last /\ s.type[last] = "CLIENT"
    BY <1>3 DEF FromBelow
  <2> HIDE DEF l
  <2>3. /\ k \in [s : Assignment, on : BOOLEAN] /\ Kept(k.s)
        /\ k.on => /\ k.s.client = Rest(s.client, l)
                   /\ l # last => k.s.type[last] = "CLIENT"
        /\ ~k.on => k.s = s /\ s.type[l] = "CLIENT" /\ Blocked(s, l)
    BY <1>1, <2>2, KeepsFirst
  <2>4. /\ s.client \in Ranges /\ Spanning(s.client)
    BY <1>1 DEF Kept, Sound, Steady, Assignment
  <2>5. l # last => /\ Rest(s.client, l).has
                    /\ Rest(s.client, l).first = l + 1 /\ Rest(s.client, l).last = last
    BY <2>2, <2>4, RestSpans
  <2>6. l = last => ~Rest(s.client, l).has
    BY <2>2 DEF Rest, NoRange
  <2> HIDE DEF k
  <2>7. l # last <=> l + 1 <= last
    BY <1>0 DEF l
  <2>8. l + 1 = first + (n + 1)
    BY <1>0 DEF l
  <2>9. k.on => IF l + 1 <= last
                THEN /\ k.s.client.has /\ k.s.client.first = l + 1
                     /\ k.s.client.last = last /\ k.s.type[last] = "CLIENT"
                ELSE ~k.s.client.has
    BY <2>3, <2>5, <2>6, <2>7
  <2>10. k \in FromBelow(first, last, n + 1)
    BY <2>2, <2>3, <2>8, <2>9 DEF FromBelow
  <2> QED
    BY <2>1, <2>10 DEF l
<1> QED
  BY <1>2, <1>3

LEMMA KeepDownKept ==
  ASSUME Given, NEW first \in Layer, NEW top \in Layer, NEW n \in Nat,
         NEW a \in FromAbove(first, top, n)
  PROVE  KeepDown(a, top - n) \in FromAbove(first, top, n + 1)
<1> DEFINE l == top - n
           s == a.s
           k == Keeps(s, l, "last")
<1>0. first \in Int /\ top \in Int /\ l \in Int
  BY Numbers
<1>1. a \in [s : Assignment, on : BOOLEAN] /\ Kept(s) /\ s.client.has
  BY DEF FromAbove
<1>2. CASE ~a.on
  <2>1. KeepDown(a, l) = a
    BY <1>2 DEF KeepDown
  <2> QED
    BY <1>2, <2>1 DEF FromAbove
<1>3. CASE a.on
  <2>1. KeepDown(a, l) = k
    BY <1>3 DEF KeepDown
  <2>2. /\ s.client.has /\ s.client.first = first /\ s.client.last = l
        /\ s.type[first] = "CLIENT" /\ Blocked(s, first)
    BY <1>3 DEF FromAbove
  <2> HIDE DEF l
  <2>3. /\ k \in [s : Assignment, on : BOOLEAN] /\ Kept(k.s)
        /\ k.on => /\ l # first /\ k.s.client = Rest(s.client, l)
                   /\ k.s.type[first] = "CLIENT" /\ Blocked(k.s, first)
        /\ ~k.on => k.s = s /\ s.type[l] = "CLIENT"
    BY <1>1, <2>2, KeepsLast
  <2>4. /\ s.client \in Ranges /\ Spanning(s.client)
    BY <1>1 DEF Kept, Sound, Steady, Assignment
  <2>5. l # first => /\ Rest(s.client, l).has
                     /\ Rest(s.client, l).first = first /\ Rest(s.client, l).last = l - 1
    BY <2>2, <2>4, RestSpans
  <2> HIDE DEF k
  <2>6. l - 1 = top - (n + 1)
    BY <1>0 DEF l
  <2>7. k \in FromAbove(first, top, n + 1)
    BY <2>2, <2>3, <2>5, <2>6 DEF FromAbove
  <2> QED
    BY <2>1, <2>7 DEF l
<1> QED
  BY <1>2, <1>3

LEMMA UpdateClientKept ==
  ASSUME Given, NEW s, Kept(s), ClientEnds(s)
  PROVE  LET t == updateClientComposition(s)
         IN  Kept(t) /\ (t.client.has => t.type[t.client.last] = "CLIENT")
<1> DEFINE first == s.client.first
           last == s.client.last
           start == [s |-> s, on |-> TRUE]
           up == Loop(KeepUp, start, first, last)
           t == up.s
           top == t.client.last
           start2 == [s |-> t, on |-> TRUE]
           down == KeepAllDown(start2, top, 0, top)
           u == updateClientComposition(s)
<1>0. /\ s \in Assignment /\ s.client \in Ranges /\ Spanning(s.client)
  BY DEF Kept, Sound, Steady, Assignment
<1>1. CASE ~s.client.has \/ s.client = lowFps
  BY <1>1 DEF updateClientComposition, ClientEnds
<1>2. CASE ~(~s.client.has \/ s.client = lowFps)
  <2>1. /\ first \in Layer /\ last \in Layer /\ first \in Int /\ last \in Int
        /\ first <= last /\ LayerNum \in Nat /\ s.client.has /\ s.type[last] = "CLIENT"
    BY <1>0, <1>2, EndsInside, Numbers DEF ClientEnds
  <2>2. u = shrinkFromAbove(t)
    <3>1. ~(~s.client.has \/ s.client = lowFps) => u = shrinkFromAbove(t)
      BY DEF updateClientComposition, KeepUp
    <3> QED
      BY <1>2, <3>1
  <2> HIDE DEF u
  <2>3. start \in FromBelow(first, last, 0)
    BY <1>0, <2>1 DEF FromBelow
  <2>4. up \in FromBelow(first, last, last - first + 1)
    <3> DEFINE A == [n \in Int |-> FromBelow(first, last, n)]
    <3>1. /\ LoopTimes(first, last) \in Nat
          /\ LoopTimes(first, last) = last - first + 1
          /\ \A n \in 1 .. LoopTimes(first, last) :
               first + n - 1 \in Int /\ first + n - 1 <= last
      <4> HIDE DEF first, last
      <4> QED
        BY <2>1, Times
    <3>2. ASSUME NEW n \in 1 .. LoopTimes(first, last), NEW a \in A[n - 1]
          PROVE  KeepUp(a, first + n - 1) \in A[n]
      <4> DEFINE m == n - 1
      <4>1. n \in Int /\ 1 <= n /\ m \in Nat /\ m + 1 = n
        BY <3>1
      <4>2. first + m = first + n - 1 /\ first + m <= last
        <5> HIDE DEF first, last
        <5> QED
          BY <2>1, <3>1, <4>1
      <4>3. a \in FromBelow(first, last, m)
        BY <4>1
      <4> HIDE DEF first, last, m
      <4>4. KeepUp(a, first + m) \in FromBelow(first, last, m + 1)
        BY <2>1, <4>1, <4>2, <4>3, KeepUpKept
      <4> QED
        BY <4>1, <4>2, <4>4
    <3>3. start \in A[0] /\ \A n \in 1 .. LoopTimes(first, last) :
            \A a \in A[n - 1] : KeepUp(a, first + n - 1) \in A[n]
      BY <2>3, <3>2
    <3>4. A[LoopTimes(first, last)] = FromBelow(first, last, LoopTimes(first, last))
      BY <3>1
    <3> HIDE DEF A, start
    <3>5. up \in A[LoopTimes(first, last)]
      BY <2>1, <3>3, KeepUpLoop
    <3> HIDE DEF first, last, up
    <3> QED
      BY <3>1, <3>4, <3>5
  <2>5. /\ Kept(t)
        /\ t.client.has => t.type[t.client.first] = "CLIENT" /\ Blocked(t, t.client.first)
    <3> HIDE DEF up, first, last
    <3>1. ~(first + (last - first + 1) <= last)
      BY <2>1
    <3> QED
      BY <2>4, <3>1 DEF FromBelow
  <2> HIDE DEF up
  <2>6. t \in Assignment /\ t.client \in Ranges /\ Spanning(t.client) /\ t.ret # "error"
    BY <2>5 DEF Kept, Sound, Steady, Assignment
  <2>7. u = down.s
    BY <2>2, <2>6 DEF shrinkFromAbove, KeepAllDown, KeepDown
  <2>8. CASE ~t.client.has
    <3> DEFINE A == [n \in Int |-> {start2}]
    <3>1. top = -1 /\ LoopTimes(0, top) = 0 /\ top \in Int
      BY <2>6, <2>8 DEF Spanning, NoRange, LoopTimes
    <3> HIDE DEF top
    <3>2. start2 \in A[0] /\ \A n \in 1 .. LoopTimes(0, top) : \A a \in A[n - 1] :
            KeepDown(a, top - (0 + n - 1)) \in A[n]
      BY <3>1
    <3>3. A[LoopTimes(0, top)] = {start2}
      BY <3>1
    <3> HIDE DEF A, start2
    <3>4. down \in A[LoopTimes(0, top)]
      BY <3>1, <3>2, KeepDownLoop
    <3>5. down = start2
      BY <3>3, <3>4
    <3> HIDE DEF down
    <3>6. u = t
      BY <2>7, <3>5 DEF start2
    <3> QED
      BY <2>5, <2>8, <3>6 DEF u
  <2>9. CASE t.client.has
    <3> DEFINE low == t.client.first
               A == [n \in Int |-> FromAbove(low, top, n)]
    <3>1. low \in Layer /\ top \in Layer /\ top \in Int /\ 0 <= top
      BY <2>6, <2>9, EndsInside, Numbers
    <3>2. start2 \in FromAbove(low, top, 0)
      <4>1. top - 0 = top
        BY <3>1
      <4> QED
        BY <2>5, <2>6, <2>9, <4>1 DEF FromAbove
    <3> HIDE DEF low, top
    <3>3. LoopTimes(0, top) \in Nat /\ LoopTimes(0, top) = top + 1
      BY <3>1 DEF LoopTimes
    <3>4. ASSUME NEW n \in 1 .. LoopTimes(0, top), NEW a \in A[n - 1]
          PROVE  KeepDown(a, top - (0 + n - 1)) \in A[n]
      <4> DEFINE m == n - 1
      <4>1. n \in Int /\ m \in Nat /\ m + 1 = n /\ 0 + n - 1 = m
        BY <3>3
      <4>2. a \in FromAbove(low, top, m)
        BY <4>1
      <4> HIDE DEF m
      <4>3. KeepDown(a, top - m) \in FromAbove(low, top, m + 1)
        BY <3>1, <4>1, <4>2, KeepDownKept
      <4> QED
        BY <4>1, <4>3
    <3>5. start2 \in A[0] /\ \A n \in 1 .. LoopTimes(0, top) : \A a \in A[n - 1] :
            KeepDown(a, top - (0 + n - 1)) \in A[n]
      BY <3>2, <3>4
    <3>6. A[LoopTimes(0, top)] = FromAbove(low, top, top + 1)
      BY <3>1, <3>3
    <3> HIDE DEF A, start2
    <3>7. down \in A[LoopTimes(0, top)]
      BY <3>1, <3>5, KeepDownLoop
    <3> HIDE DEF down
    <3>8. /\ down \in FromAbove(low, top, top + 1) /\ top - (top + 1) = -1
      BY <3>1, <3>6, <3>7
    <3>9. Kept(down.s) /\ down.s.client.has /\ down.on \in BOOLEAN
          /\ (down.on => down.s.client.last = -1)
          /\ (~down.on => down.s.type[down.s.client.last] = "CLIENT")
      BY <3>8 DEF FromAbove
    <3>10. down.s.client.last # -1
      <4>1. down.s.client \in Ranges /\ Spanning(down.s.client)
        BY <3>9 DEF Kept, Sound, Steady, Assignment
      <4> QED
        BY <3>9, <4>1, EndsInside, Numbers
    <3> QED
      BY <2>7, <3>9, <3>10 DEF u
  <2> QED
    BY <2>8, <2>9
<1> QED
  BY <1>1, <1>2

-----------------------------------------------------------------------------
(* The windows.                                                            *)

LastIs(s, type) == Blended(s, type).has => s.type[Blended(s, type).last] = type

LEMMA WindowOneNumbers ==
  ASSUME NEW s \in Assignment, LastIs(s, "CLIENT"), LastIs(s, "EXYNOS"),
         NEW l \in Layer, NEW a \in NumberedTo(s, l)
  PROVE  WindowOne(a, l, s) \in NumberedTo(s, l + 1)
<1> DEFINE type == s.type[l]
           range == Blended(s, type)
           x == IF type = "DEVICE" THEN l ELSE Target(type)
           b == WindowOne(a, l, s)
           window == [a.s.window EXCEPT ![x] = a.index]
           t == [a.s EXCEPT !.window = window]
           none == type = "INVALID" \/ (type # "DEVICE" /\ ~(range.has /\ range.last = l))
<1>1. /\ a.s \in Assignment /\ a.index \in Nat /\ a.s.ret = s.ret /\ type \in Types
      /\ a \in [s : Assignment, index : Nat]
      /\ \A k \in Layer : k < l /\ s.type[k] = "DEVICE" => a.s.window[k] >= 0
      /\ s.client.has /\ s.client.last < l => a.s.window[Client] >= 0
      /\ s.exynos.has /\ s.exynos.last < l => a.s.window[Exynos] >= 0
  BY DEF NumberedTo, Assignment
<1>2. /\ l \in Int /\ \A k \in Int : k < l + 1 <=> k < l \/ k = l
      /\ s.client.last \in Int /\ s.exynos.last \in Int /\ Layer \subseteq Int
  BY Numbers DEF Assignment, Ranges
<1>3. CASE none
  <2>1. b = a
    BY <1>3 DEF WindowOne
  <2>2. type # "DEVICE"
    BY <1>3
  <2>3. ~(s.client.has /\ s.client.last = l) /\ ~(s.exynos.has /\ s.exynos.last = l)
    BY <1>3 DEF LastIs, Blended
  <2> HIDE DEF b
  <2> QED
    BY <1>1, <1>2, <2>1, <2>2, <2>3 DEF NumberedTo, b
<1>4. CASE ~none
  <2>1. b = [a EXCEPT !.s.window[x] = a.index, !.index = @ + 1]
    BY <1>4 DEF WindowOne
  <2>2. /\ x \in Source
        /\ type = "DEVICE" => x = l
        /\ type = "CLIENT" => x = Client
        /\ type = "EXYNOS" => x = Exynos
    BY <1>4, Numbers DEF Target
  <2>3. /\ type \in {"DEVICE", "CLIENT", "EXYNOS"}
        /\ s.client.has /\ s.client.last = l => type = "CLIENT"
        /\ s.exynos.has /\ s.exynos.last = l => type = "EXYNOS"
    BY <1>1, <1>4 DEF Types, LastIs, Blended
  <2> HIDE DEF x, b, type
  <2>4. b = [s |-> t, index |-> a.index + 1]
    BY <1>1, <2>1 DEF Assignment
  <2>5. /\ window \in [Source -> Int] /\ window[x] = a.index
        /\ \A y \in Source : window[y] = a.s.window[y] \/ window[y] = a.index
    <3> DEFINE w == a.s.window
               i == a.index
    <3>1. w \in [Source -> Int] /\ i \in Int /\ x \in Source
      <4>1. a.s \in Assignment /\ a.index \in Nat
        BY <1>1
      <4> HIDE DEF i
      <4>2. w \in [Source -> Int]
        BY <4>1 DEF Assignment
      <4> QED
        BY <2>2, <4>1, <4>2 DEF i
    <3> HIDE DEF w, i
    <3>2. window = [w EXCEPT ![x] = i]
      BY DEF w, i
    <3> HIDE DEF window
    <3>3. /\ window \in [Source -> Int] /\ window[x] = i
          /\ \A y \in Source : window[y] = w[y] \/ window[y] = i
      BY <3>1, <3>2
    <3> QED
      BY <3>3 DEF w, i
  <2> HIDE DEF window
  <2>6. t \in Assignment /\ t.window = window /\ t.ret = a.s.ret
    BY <1>1, <2>5 DEF Assignment
  <2> HIDE DEF t
  <2>7. /\ b \in [s : Assignment, index : Nat] /\ b.s.window = window /\ b.s.ret = s.ret
    BY <1>1, <2>4, <2>6
  <2>8. /\ window[x] >= 0 /\ \A y \in Source : a.s.window[y] >= 0 => window[y] >= 0
    <3>1. a.index >= 0
      BY <1>1
    <3> HIDE DEF window
    <3> QED
      BY <2>5, <3>1
  <2> HIDE DEF window
  <2>9. \A k \in Layer : k < l + 1 /\ s.type[k] = "DEVICE" => window[k] >= 0
    <3> SUFFICES ASSUME NEW k \in Layer, k < l + 1, s.type[k] = "DEVICE"
                 PROVE  window[k] >= 0
      OBVIOUS
    <3>1. CASE k < l
      BY <1>1, <2>8, <3>1, Numbers
    <3>2. CASE k = l
      BY <2>2, <2>8, <3>2 DEF type
    <3> QED
      BY <1>2, <3>1, <3>2
  <2>10. s.client.has /\ s.client.last < l + 1 => window[Client] >= 0
    <3>1. CASE s.client.has /\ s.client.last < l
      BY <1>1, <2>8, <3>1, Numbers
    <3>2. CASE s.client.has /\ s.client.last = l
      BY <2>2, <2>3, <2>8, <3>2
    <3> QED
      BY <1>2, <3>1, <3>2
  <2>11. s.exynos.has /\ s.exynos.last < l + 1 => window[Exynos] >= 0
    <3>1. CASE s.exynos.has /\ s.exynos.last < l
      BY <1>1, <2>8, <3>1, Numbers
    <3>2. CASE s.exynos.has /\ s.exynos.last = l
      BY <2>2, <2>3, <2>8, <3>2
    <3> QED
      BY <1>2, <3>1, <3>2
  <2> QED
    BY <2>7, <2>9, <2>10, <2>11 DEF NumberedTo, b
<1> QED
  BY <1>3, <1>4

LEMMA WindowsPut ==
  ASSUME Given, NEW s, Kept(s), LastIs(s, "CLIENT")
  PROVE  Put(assignWindow(s))
<1> DEFINE A == [n \in Int |-> NumberedTo(s, n)]
           start == [s |-> s, index |-> 0]
           end == AllWindows(start, s)
           t == assignWindow(s)
<1>1. /\ s \in Assignment /\ s.client \in Ranges /\ Spanning(s.client)
      /\ s.exynos \in Ranges /\ Spanning(s.exynos) /\ Solid(s) /\ Firm(kind, s)
      /\ Sound(kind, s) /\ Settled(s) /\ kind \in [Layer -> Kind]
  BY DEF Given, Kept, Sound, Steady, Firm, Assignment
<1>2. LastIs(s, "EXYNOS")
  BY <1>1, EndsInside DEF LastIs, Blended, Solid
<1>3. start \in NumberedTo(s, 0)
  <2>1. \A l \in Layer : ~(l < 0)
    BY Numbers
  <2>2. s.client.has => ~(s.client.last < 0)
    BY <1>1, EndsInside, Numbers
  <2>3. s.exynos.has => ~(s.exynos.last < 0)
    BY <1>1, EndsInside, Numbers
  <2> QED
    BY <1>1, <2>1, <2>2, <2>3 DEF NumberedTo
<1>4. ASSUME NEW n \in 1 .. LayerNum, NEW a \in A[n - 1]
      PROVE  WindowOne(a, 0 + n - 1, s) \in A[n]
  <2> DEFINE l == n - 1
  <2>1. l \in Layer /\ l + 1 = n /\ 0 + n - 1 = l /\ n \in Int /\ l \in Int
    BY AllLayers
  <2>2. a \in NumberedTo(s, l)
    BY <2>1
  <2> HIDE DEF l
  <2>3. WindowOne(a, l, s) \in NumberedTo(s, l + 1)
    BY <1>1, <1>2, <2>1, <2>2, WindowOneNumbers
  <2> QED
    BY <2>1, <2>3
<1>5. A[LoopTimes(0, LayerNum - 1)] = NumberedTo(s, LayerNum)
  BY AllLayers
<1>6. end \in A[LoopTimes(0, LayerNum - 1)]
  <2>1. start \in A[0] /\ \A n \in 1 .. LoopTimes(0, LayerNum - 1) : \A a \in A[n - 1] :
          WindowOne(a, 0 + n - 1, s) \in A[n]
    BY <1>3, <1>4, AllLayers
  <2> HIDE DEF A, start
  <2> QED
    BY <2>1, AllLayers, WindowLoop
<1> HIDE DEF A
<1>7. t = end.s
  BY DEF assignWindow, WindowOne, AllWindows
<1> HIDE DEF start, end
<1>8. /\ end.s.ret = s.ret
      /\ \A l \in Layer : l < LayerNum /\ s.type[l] = "DEVICE" => end.s.window[l] >= 0
      /\ s.client.has /\ s.client.last < LayerNum => end.s.window[Client] >= 0
      /\ s.exynos.has /\ s.exynos.last < LayerNum => end.s.window[Exynos] >= 0
  BY <1>5, <1>6 DEF NumberedTo
<1>9. /\ Firm(kind, t) /\ SameResources(s, t)
      /\ t.client = s.client /\ t.exynos = s.exynos
  BY <1>1, WindowsFirm
<1> HIDE DEF t
<1>10. \A l \in Layer : l < LayerNum
  BY Numbers
<1>11. Numbered(t)
  BY <1>1, <1>7, <1>8, <1>9, <1>10, EndsInside DEF Numbered, SameResources
<1>12. Sound(kind, t)
  BY <1>1, <1>9, SameSteady DEF Sound, Firm
<1>13. Settled(t) /\ Solid(t)
  BY <1>1, <1>9 DEF Settled, Blends, ClientHoldsBut, Solid, SameResources
<1>14. BothTargeted(t) /\ \A x \in Layer : Found(t, x)
  BY <1>1, <1>9 DEF BothTargeted, Targeted, Found, SameResources, Kept
<1> QED
  BY <1>7, <1>8, <1>11, <1>12, <1>13, <1>14 DEF Put, Kept, t

(* What that means for the layers.                                         *)
AllShown ==
  \A l \in Layer :
    \/ r.type[l] = "DEVICE" /\ Displayed(l) /\ r.m2m[l] # Blending
    \/ r.type[l] = "CLIENT" /\ In(l, r.client) /\ Displayed(Client)
    \/ /\ r.type[l] = "EXYNOS" /\ r.m2m[l] = Blending
       /\ In(l, r.exynos) /\ Displayed(Exynos)

Contiguous ==
  \A type \in {"CLIENT", "EXYNOS"}, l \in Layer :
    In(l, Blended(r, type)) /\ r.type[l] # type
      => High(l) /\ r.type[l] = "DEVICE" /\ type = "CLIENT"

LEMMA PutShown ==
  ASSUME Given, Put(r)
  PROVE  AllShown /\ Contiguous
<1>1. /\ r \in Assignment /\ Owned(r) /\ Settled(r) /\ Solid(r) /\ BothTargeted(r)
      /\ Numbered(r) /\ \A l \in Layer : Found(r, l)
  BY DEF Put, Kept, Sound, Steady
<1>2. ASSUME NEW x \in Source, r.otf[x] # None, r.window[x] >= 0
      PROVE  Displayed(x)
  BY <1>1, <1>2 DEF Owned, Displayed
<1>3. AllShown
  <2> SUFFICES ASSUME NEW l \in Layer
               PROVE  \/ r.type[l] = "DEVICE" /\ Displayed(l) /\ r.m2m[l] # Blending
                      \/ r.type[l] = "CLIENT" /\ In(l, r.client) /\ Displayed(Client)
                      \/ /\ r.type[l] = "EXYNOS" /\ r.m2m[l] = Blending
                         /\ In(l, r.exynos) /\ Displayed(Exynos)
    BY DEF AllShown
  <2>1. CASE r.type[l] = "DEVICE"
    BY <1>1, <1>2, <2>1, Numbers DEF Found, Numbered, Settled, Blends
  <2>2. CASE r.type[l] = "CLIENT"
    <3>1. In(l, r.client)
      BY <1>1, <2>2 DEF Settled, ClientHoldsBut
    <3>2. r.client.has
      BY <3>1 DEF In
    <3> QED
      BY <1>1, <1>2, <2>2, <3>1, <3>2, Numbers DEF Numbered, BothTargeted, Targeted
  <2>3. CASE r.type[l] = "EXYNOS"
    <3>1. In(l, r.exynos) /\ r.m2m[l] = Blending
      BY <1>1, <2>3 DEF Settled, Blends
    <3>2. r.exynos.has
      BY <3>1 DEF In
    <3> QED
      BY <1>1, <1>2, <2>3, <3>1, <3>2, Numbers DEF Numbered, BothTargeted
  <2> QED
    BY <1>1, <2>1, <2>2, <2>3 DEF Found
<1>4. Contiguous
  <2> SUFFICES ASSUME NEW type \in {"CLIENT", "EXYNOS"}, NEW l \in Layer,
                      In(l, Blended(r, type)), r.type[l] # type
               PROVE  High(l) /\ r.type[l] = "DEVICE" /\ type = "CLIENT"
    BY DEF Contiguous
  <2>1. type = "CLIENT" /\ In(l, r.client)
    BY <1>1 DEF Blended, Solid
  <2> QED
    BY <1>1, <2>1, InTheRange
<1> QED
  BY <1>3, <1>4

-----------------------------------------------------------------------------
(* The client composes everything.                                         *)
LEMMA AddClientFree ==
  ASSUME Given, NEW s, Sound(kind, s), NEW l \in Layer, \A o \in Otf : s.users[o] = {}
  PROVE  \A o \in Otf : addClientCompositionLayer(s, l).users[o] = {}
<1> DEFINE wide == Widened(s.client, l)
           L == Followers(s, l)
           range == NewClient(s, l)
           res == addClientCompositionLayer(s, l)
<1>1. s \in Assignment
  BY DEF Sound, Steady
<1>2. CASE ~s.client.has
  <2>1. res = [s EXCEPT !.client = wide, !.ret = "changed", !.moved = FALSE]
    BY <1>2 DEF addClientCompositionLayer
  <2> HIDE DEF wide, res
  <2>2. res.users = s.users
    BY <1>1, <2>1 DEF Assignment
  <2> QED
    BY <2>2 DEF res
<1>3. CASE s.client.has
  <2> DEFINE w == s.windows - Cardinality({x \in Sandwiched(s, wide) : s.type[x] = "DEVICE"})
             s1 == [s EXCEPT !.windows = w]
             reset == resetAssignedResource(s1, L)
             t == ToClient(s1, L)
             u == [t EXCEPT !.client = range]
             v == [u EXCEPT !.ret = "ok", !.moved = FALSE]
             e == initializeExynos(u)
  <2>1. res = IF L \cap ExynosLayers(s) # {} THEN shrinkExynos(u) ELSE v
    <3>1. Sandwiched(s, wide) \cup (BelowBlendingNone(s, l) \ Sandwiched(s, wide)) = L
      BY DEF Followers
    <3> QED
      BY <1>3, <3>1 DEF addClientCompositionLayer, NewClient
  <2> HIDE DEF L, w, wide, range, res
  <2>2. s1.users = s.users /\ DOMAIN s1 = DOMAIN s
    BY <1>1 DEF Assignment
  <2> HIDE DEF s1
  <2>3. /\ \A o \in Otf : reset.users[o] = {}
        /\ DOMAIN reset = DOMAIN s1
    BY <1>1, <2>2 DEF resetAssignedResource, Assignment
  <2> HIDE DEF reset
  <2>4. t.users = reset.users /\ DOMAIN t = DOMAIN reset
    BY <1>1, <2>2, <2>3 DEF ToClient, Assignment, reset
  <2> HIDE DEF t
  <2>5. u.users = t.users /\ v.users = t.users /\ DOMAIN u = DOMAIN t
    BY <1>1, <2>2, <2>3, <2>4 DEF Assignment
  <2> HIDE DEF u, v
  <2>6. shrinkExynos(u).users = u.users
    <3>1. e.users = u.users /\ DOMAIN e = DOMAIN u
      BY <1>1, <2>2, <2>3, <2>4, <2>5 DEF initializeExynos, Assignment
    <3>2. \/ shrinkExynos(u) = [u EXCEPT !.ret = "error", !.moved = FALSE]
          \/ shrinkExynos(u) = [e EXCEPT !.ret = "changed", !.moved = TRUE]
          \/ \E a, b : shrinkExynos(u) =
               [u EXCEPT !.exynos.first = a, !.exynos.last = b, !.ret = "ok", !.moved = TRUE]
      BY DEF shrinkExynos
    <3> HIDE DEF e
    <3> QED
      BY <1>1, <2>2, <2>3, <2>4, <2>5, <3>1, <3>2 DEF Assignment
  <2> QED
    BY <2>1, <2>3, <2>4, <2>5, <2>6 DEF res
<1> QED
  BY <1>2, <1>3

LEMMA ClientsLayerGiven ==
  ASSUME Given, NEW l \in Layer, NEW s \in GivenTo(l)
  PROVE  ClientsLayer(s, l) \in GivenTo(l + 1)
<1> DEFINE type == [s.type EXCEPT ![l] = "CLIENT"]
           t == [s EXCEPT !.type = type]
           c == ClientsLayer(s, l)
<1>1. /\ s \in Assignment /\ type \in [Layer -> Types] /\ Sound(kind, s)
      /\ \A x \in Layer : type[x] = IF x = l THEN "CLIENT" ELSE s.type[x]
  BY DEF GivenTo, Assignment, Types
<1>2. c = addClientCompositionLayer(t, l)
  BY <1>1 DEF ClientsLayer, Assignment
<1> HIDE DEF type, c
<1>3. /\ Sound(kind, t) /\ t.type = type /\ t.otf = s.otf /\ t.m2m = s.m2m
      /\ t.users = s.users /\ t.busy = s.busy
      /\ t.client = s.client /\ t.exynos = s.exynos
  BY <1>1, TypeChanged
<1> HIDE DEF t
<1>4. AddedToClient(t, c, l)
  BY <1>2, <1>3, AddClient
<1>5. \A o \in Otf : c.users[o] = {}
  BY <1>2, <1>3, AddClientFree DEF GivenTo
<1>6. /\ Sound(kind, c) /\ c \in Assignment /\ Gives(t, c) /\ In(l, c.client)
      /\ \A x \in Layer : In(x, t.client) => In(x, c.client)
      /\ ~c.exynos.has
  BY <1>3, <1>4 DEF AddedToClient, GivenTo, Sound, Steady
<1>7. \A x \in Layer : c.m2m[x] = None
  BY <1>3, <1>6 DEF Gives, GivenTo
<1>8. \A x \in Layer : x < l + 1 => c.type[x] = "CLIENT" /\ In(x, c.client)
  <2>1. \A x \in Layer : x < l + 1 => x < l \/ x = l
    BY Numbers
  <2> QED
    BY <1>1, <1>3, <1>6, <2>1 DEF Gives, GivenTo
<1> QED
  BY <1>5, <1>6, <1>7, <1>8 DEF GivenTo, c

LEMMA FallbackPut ==
  ASSUME Inv, Fallback
  PROVE  Put(r') /\ \A l \in Layer : r'.otf[l] = None
<1> DEFINE a == resetAssignedResources(r, TRUE)
           b == initializeClient(a)
           cleared == initializeExynos(b)
           given == Loop(ClientsLayer, cleared, 0, LayerNum - 1)
           t == assignCompositionTarget(given, Client)
           A == [n \in Int |-> GivenTo(n)]
<1>1. Given /\ Firm(kind, r) /\ kind \in [Layer -> Kind]
  BY DEF Inv, Given
<1>7. r' = assignWindow(t)
  BY DEF Fallback, ClientsLayer
<1>2. /\ Firm(kind, a) /\ \A l \in Layer : a.m2m[l] = None
      /\ \A o \in Otf : a.users[o] = {}
  <2>1. TRUE \in BOOLEAN
    OBVIOUS
  <2>2. /\ Firm(kind, a)
        /\ \A l \in Layer : a.m2m[l] = IF r.m2m[l] = Blending /\ ~TRUE THEN Blending ELSE None
        /\ \A o \in Otf : a.users[o] = {}
    BY <1>1, <2>1, ResetAllFirm
  <2> HIDE DEF a
  <2> QED
    BY <2>2
<1> HIDE DEF a
<1>3. /\ Firm(kind, b) /\ b.client = NoRange /\ b.m2m = a.m2m /\ b.users = a.users
  <2>1. b.users = a.users
    BY <1>2 DEF initializeClient, Firm, Assignment
  <2> QED
    BY <1>1, <1>2, <2>1, InitializeFirm
<1> HIDE DEF b
<1>4. /\ Firm(kind, cleared) /\ cleared.client = NoRange /\ cleared.exynos = NoRange
      /\ cleared.m2m = b.m2m /\ cleared.users = b.users
  <2>1. cleared.users = b.users
    BY <1>3 DEF initializeExynos, Firm, Assignment
  <2> QED
    BY <1>1, <1>3, <2>1, InitializeFirm
<1> HIDE DEF cleared
<1>5. cleared \in GivenTo(0)
  <2>1. Sound(kind, cleared) /\ cleared \in Assignment
    BY <1>4 DEF Sound, Steady, Firm, Spanning
  <2>2. \A l \in Layer : ~(l < 0)
    BY Numbers
  <2> QED
    BY <1>2, <1>3, <1>4, <2>1, <2>2 DEF GivenTo, NoRange
<1>6. given \in GivenTo(LayerNum)
  <2>1. ASSUME NEW n \in 1 .. LayerNum, NEW s \in A[n - 1]
        PROVE  ClientsLayer(s, 0 + n - 1) \in A[n]
    <3> DEFINE l == n - 1
    <3>1. l \in Layer /\ l + 1 = n /\ 0 + n - 1 = l /\ n \in Int /\ l \in Int
      BY AllLayers
    <3>2. s \in GivenTo(l)
      BY <3>1
    <3> HIDE DEF l
    <3>3. ClientsLayer(s, l) \in GivenTo(l + 1)
      BY <1>1, <3>1, <3>2, ClientsLayerGiven
    <3> QED
      BY <3>1, <3>3
  <2>2. A[LoopTimes(0, LayerNum - 1)] = GivenTo(LayerNum)
    BY AllLayers
  <2>3. cleared \in A[0] /\ \A n \in 1 .. LoopTimes(0, LayerNum - 1) : \A s \in A[n - 1] :
          ClientsLayer(s, 0 + n - 1) \in A[n]
    BY <1>5, <2>1, AllLayers
  <2> HIDE DEF A
  <2>4. given \in A[LoopTimes(0, LayerNum - 1)]
    BY <2>3, AllLayers, ClientLoop
  <2> QED
    BY <2>2, <2>4
<1> HIDE DEF given, A
<1>8. /\ given \in Assignment /\ Sound(kind, given) /\ ~given.exynos.has
      /\ \A o \in Otf : given.users[o] = {}
      /\ \A l \in Layer : given.m2m[l] = None
      /\ \A l \in Layer : given.type[l] = "CLIENT" /\ In(l, given.client)
  BY <1>6, Numbers DEF GivenTo
<1>13. \A l \in Layer : given.otf[l] = None
  BY <1>8 DEF Sound, Steady, Owned, Assignment, Source
<1>9. t.ret = "ok"
  BY <1>1, <1>8, TargetFound
<1>10. /\ Sound(kind, t) /\ t.type = given.type /\ t.m2m = given.m2m
       /\ t.client = given.client /\ t.exynos = given.exynos
       /\ (t.ret = "ok" /\ given.client.has => t.otf[Client] # None)
       /\ \A l \in Layer : t.otf[l] = None
  <2>1. Client \in {Client, Exynos}
    OBVIOUS
  <2>2. /\ Sound(kind, t) /\ t.type = given.type /\ t.m2m = given.m2m
        /\ t.client = given.client /\ t.exynos = given.exynos
        /\ (t.ret = "ok" /\ given.client.has => t.otf[Client] # None)
        /\ \A x \in Source \ {Client} : t.otf[x] = given.otf[x]
    BY <1>1, <1>8, <2>1, TargetSound
  <2>3. \A l \in Layer : l \in Source \ {Client}
    BY Numbers DEF Source
  <2> QED
    BY <1>13, <2>2, <2>3
<1> HIDE DEF t
<1>11. Kept(t)
  <2>1. Settled(t)
    BY <1>8, <1>10, NotMPPs DEF Settled, Blends, ClientHoldsBut
  <2>2. Solid(t) /\ BothTargeted(t) /\ \A l \in Layer : Found(t, l)
    BY <1>8, <1>9, <1>10 DEF Solid, In, BothTargeted, Targeted, Found
  <2> QED
    BY <1>9, <1>10, <2>1, <2>2 DEF Kept
<1>12. LastIs(t, "CLIENT")
  <2>1. t.client \in Ranges /\ Spanning(t.client)
    BY <1>10 DEF Sound, Steady, Assignment
  <2> QED
    BY <1>8, <1>10, <2>1, EndsInside DEF LastIs, Blended
<1>14. r'.otf = t.otf
  <2>1. Firm(kind, t)
    BY <1>10 DEF Sound, Steady, Firm
  <2> QED
    BY <1>1, <1>7, <2>1, WindowsFirm DEF SameResources
<1> QED
  BY <1>1, <1>7, <1>10, <1>11, <1>12, <1>14, WindowsPut

(* The update, at the end of assignResource().                             *)
LEMMA FinishPut ==
  ASSUME Inv, Course, ~useMaxG2DSrc, Finish
  PROVE  Put(r') /\ pc' = "assigned"
<1> DEFINE e == updateExynosComposition(r)
           c == updateClientComposition(e)
<1>1. Given /\ Kept(r) /\ ClientEnds(r)
  BY DEF Inv, Course, Finish, Trying, Neat, Kept
<1>2. Kept(e) /\ ClientEnds(e)
  BY <1>1, UnblendKept DEF updateExynosComposition
<1> HIDE DEF e
<1>3. Kept(c) /\ (c.client.has => c.type[c.client.last] = "CLIENT")
  BY <1>1, <1>2, UpdateClientKept
<1>4. Updated(c)
  BY DEF Finish, e
<1> HIDE DEF c
<1>5. r' = assignWindow(c) /\ pc' = "assigned"
  BY <1>3, <1>4 DEF Updated, Kept
<1>6. LastIs(c, "CLIENT")
  BY <1>3 DEF LastIs, Blended
<1> QED
  BY <1>1, <1>3, <1>5, <1>6, WindowsPut

-----------------------------------------------------------------------------
(* The end of the frame.                                                   *)

LEMMA InitGood == Init => Good
BY DEF Init, Good, Course, Presented, Trying

LEMMA FinishGood ==
  ASSUME Inv, Course, Finish
  PROVE  Course' /\ Presented'
<1>1. pc' \in {"error", "assigned"} /\ kind' = kind
  BY DEF Finish, Updated
<1>2. Course'
  BY <1>1 DEF Course, Trying
<1>3. ~useMaxG2DSrc => Put(r')
  BY FinishPut
<1>4. Put(r') => Put(r)'
  BY <1>1 DEF Put, Kept, Numbered, Settled, Solid, BothTargeted, Targeted, Found
<1> QED
  BY <1>2, <1>3, <1>4 DEF Presented

LEMMA PostGood ==
  ASSUME Inv, Course, Presented, startPostProcessing
  PROVE  Course' /\ Presented'
<1>1. pc = "assigned" /\ pc' \in {"done", "failed"} /\ r' = r /\ kind' = kind
  BY DEF startPostProcessing
<1>2. Course'
  BY <1>1 DEF Course, Trying
<1>3. Put(r) => Put(r)'
  BY <1>1 DEF Put, Kept, Numbered, Settled, Solid, BothTargeted, Targeted, Found
<1> QED
  BY <1>1, <1>2, <1>3 DEF Presented

LEMMA FallbackGood ==
  ASSUME Inv, Fallback
  PROVE  Course' /\ Presented'
<1>1. pc' = "done" /\ kind' = kind /\ Put(r')
  BY FallbackPut DEF Fallback
<1>2. Course'
  BY <1>1 DEF Course, Trying
<1>3. Put(r)'
  BY <1>1 DEF Put, Kept, Numbered, Settled, Solid, BothTargeted, Targeted, Found
<1> QED
  BY <1>1, <1>2, <1>3 DEF Presented

LEMMA NextGood == Inv /\ Good /\ [Next]_vars => Good'
<1> SUFFICES ASSUME Inv, Good, [Next]_vars PROVE Good'
  OBVIOUS
<1>1. CASE StartFrame
  <2>1. pc' = "asked"
    BY <1>1 DEF StartFrame
  <2> QED
    BY <1>1, <2>1, StartCourse DEF Good, Presented
<1>2. CASE Present
  <2>1. pc' = "idle"
    BY <1>2 DEF Present
  <2> QED
    BY <1>2, <2>1, PresentCourse DEF Good, Presented
<1>3. CASE UNCHANGED vars
  BY <1>3 DEF Good, Course, Presented, Put, Kept, Numbered, Neat, Settled, ClientEnds, Solid,
     BothTargeted, Targeted, Found, ToCome, Trying, vars, HighApart, High
<1>4. ASSUME Assign, HighApart, Course, Presented
      PROVE  Course' /\ Presented'
  <2>1. CASE Finish \/ startPostProcessing \/ Fallback
    BY <1>4, <2>1, FinishGood, PostGood, FallbackGood
  <2>2. CASE ~(Finish \/ startPostProcessing \/ Fallback)
    <3>1. Course'
      BY <1>4, <2>2, AskedCourse, TryCourse, AssignLayerCourse, NextLevelCourse,
         TargetCourse, PrioritizeCourse, TestAgainCourse DEF Assign
    <3>2. pc' \notin {"assigned", "done"}
      <4>1. AskedForClient \/ Try \/ setResourcePriority \/ TestAgain
              => pc' \notin {"assigned", "done"}
        BY DEF AskedForClient, Try, setResourcePriority, TestAgain
      <4>2. NextLevel => pc' \in {"target", "prioritize", "layers"}
        BY DEF NextLevel
      <4>3. AssignLayer => pc' \in {"layers", "test"}
        <5> SUFFICES ASSUME AssignLayer PROVE pc' \in {"layers", "test"}
          OBVIOUS
        <5>1. Neat(r)
          BY <1>4 DEF Course, AssignLayer, Trying
        <5>2. PICK l \in Layer : Answered(l)
          BY <1>4, <5>1, AssignLayerAnswers
        <5> QED
          BY <5>2 DEF Answered
      <4>4. AssignExynosTarget => pc' \in {"layers", "test"}
        BY <1>4, TargetCourse
      <4> QED
        BY <1>4, <2>2, <4>1, <4>2, <4>3, <4>4 DEF Assign
    <3> QED
      BY <3>1, <3>2 DEF Presented
  <2> QED
    BY <2>1, <2>2
<1>5. Assign => kind' = kind
  BY DEF Assign, AskedForClient, Try, AssignLayer, NextLevel, AssignExynosTarget,
     setResourcePriority, TestAgain, Finish, startPostProcessing, Fallback
<1>6. CASE Assign
  <2>1. HighApart' => HighApart
    BY <1>5, <1>6 DEF HighApart, High
  <2> QED
    BY <1>4, <1>6, <2>1 DEF Good
<1> QED
  BY <1>1, <1>2, <1>3, <1>6 DEF Next

LEMMA GoodHolds == Spec => [](Inv /\ Good)
<1>1. Init => Inv /\ Good
  BY InitInv, InitGood
<1>2. (Inv /\ Good) /\ [Next]_vars => (Inv /\ Good)'
  BY NextInv, NextGood
<1> QED
  BY <1>1, <1>2, PTL DEF Spec

(* Every layer of a frame reaches the screen, however often the assignment *)
(* started over: by its own MPP and window, or in a blended range that has *)
(* them.  The optimisation useMaxG2DSrc, which is off unless it is asked   *)
(* for, would break it.                                                    *)
THEOREM AllLayersShown ==
  ASSUME ~useMaxG2DSrc
  PROVE  Spec => []EveryLayerShown
<1>1. Inv /\ Good => EveryLayerShown
  <2> SUFFICES ASSUME Inv, Good, Done PROVE EveryLayerShown
    BY DEF EveryLayerShown
  <2>1. NothingOverloaded
    BY InvNotOverloaded
  <2>2. HighApart => AllShown
    BY PutShown DEF Good, Presented, Done, Inv
  <2> QED
    BY <2>1, <2>2 DEF EveryLayerShown, AllShown
<1> QED
  BY <1>1, GoodHolds, PTL

(* What is blended into one window is contiguous in Z order, but for the   *)
(* layers of high priority in the client's range.                          *)
THEOREM BlendedContiguous ==
  ASSUME ~useMaxG2DSrc
  PROVE  Spec => []BlendedIsContiguous
<1>1. Inv /\ Good => BlendedIsContiguous
  <2> SUFFICES ASSUME Inv, Good, Done, HighApart PROVE BlendedIsContiguous
    BY DEF BlendedIsContiguous
  <2>1. Contiguous
    BY PutShown DEF Good, Presented, Done, Inv
  <2> QED
    BY <2>1 DEF BlendedIsContiguous, Contiguous
<1> QED
  BY <1>1, GoodHolds, PTL

-----------------------------------------------------------------------------
(* How often the assignment can start over.                                *)

LEMMA NotCounted ==
  ASSUME NEW s, NEW types
  PROVE  /\ Cardinality(OtherThan(s, types)) \in Nat
         /\ Cardinality(OtherThan(s, types)) <= LayerNum
<1>1. OtherThan(s, types) \in SUBSET Layer
  BY DEF OtherThan
<1>2. IsFiniteSet(Layer) /\ Cardinality(Layer) = LayerNum
  <2>1. 0 \in Int /\ LayerNum - 1 \in Int /\ 0 <= LayerNum - 1
    BY Numbers
  <2>2. Cardinality(0 .. LayerNum - 1) = LayerNum - 1 - 0 + 1
    BY <2>1, FS_Interval
  <2> QED
    BY <2>1, <2>2, FS_Interval, Numbers DEF Layer
<1> QED
  BY <1>1, <1>2, FS_Subset, LayersFinite

LEMMA NotFewer ==
  ASSUME NEW s, NEW t, NEW types, OtherThan(t, types) \subseteq OtherThan(s, types)
  PROVE  /\ Cardinality(OtherThan(t, types)) <= Cardinality(OtherThan(s, types))
         /\ (\E l \in OtherThan(s, types) : l \notin OtherThan(t, types))
              => Cardinality(OtherThan(t, types)) <= Cardinality(OtherThan(s, types)) - 1
<1>1. IsFiniteSet(OtherThan(s, types)) /\ IsFiniteSet(OtherThan(t, types))
  BY LayersFinite DEF OtherThan
<1>2. /\ Cardinality(OtherThan(t, types)) <= Cardinality(OtherThan(s, types))
      /\ Cardinality(OtherThan(t, types)) = Cardinality(OtherThan(s, types))
           => OtherThan(t, types) = OtherThan(s, types)
  BY <1>1, FS_Subset
<1> QED
  BY <1>2, NotCounted

LEMMA SpareBounds ==
  ASSUME NEW busy, NEW low, NEW busier, NEW later,
         busy \subseteq busier, later.has => low.has
  PROVE  /\ Spare(busy, low) \in Nat /\ Spare(busier, later) \in Nat
         /\ Spare(busy, low) <= 3 * LayerNum + 3
         /\ Spare(busier, later) <= Spare(busy, low)
         /\ low.has /\ ~later.has => Spare(busier, later) <= Spare(busy, low) - (2 * LayerNum + 1)
         /\ Blending \in busier /\ Blending \notin busy
              => Spare(busier, later) <= Spare(busy, low) - (LayerNum + 1)
         /\ Single \in busier /\ Single \notin busy
              => Spare(busier, later) <= Spare(busy, low) - 1
<1> DEFINE a == IF low.has THEN 2 * LayerNum + 1 ELSE 0
           b == IF Blending \in busy THEN 0 ELSE LayerNum + 1
           c == IF Single \in busy THEN 0 ELSE 1
           d == IF later.has THEN 2 * LayerNum + 1 ELSE 0
           e == IF Blending \in busier THEN 0 ELSE LayerNum + 1
           f == IF Single \in busier THEN 0 ELSE 1
<1>1. Spare(busy, low) = a + b + c /\ Spare(busier, later) = d + e + f
  BY DEF Spare
<1>2. LayerNum \in Nat
  BY Numbers
<1>3. /\ a \in 0 .. 2 * LayerNum + 1 /\ d \in 0 .. a
      /\ low.has /\ ~later.has => a = 2 * LayerNum + 1 /\ d = 0
  BY <1>2
<1>4. /\ b \in 0 .. LayerNum + 1 /\ e \in 0 .. b
      /\ Blending \in busier /\ Blending \notin busy => b = LayerNum + 1 /\ e = 0
  BY <1>2
<1>5. /\ c \in 0 .. 1 /\ f \in 0 .. c
      /\ Single \in busier /\ Single \notin busy => c = 1 /\ f = 0
  OBVIOUS
<1> HIDE DEF a, b, c, d, e, f
<1> QED
  BY <1>1, <1>2, <1>3, <1>4, <1>5

LEMMA LeftBounds ==
  ASSUME NEW s, NEW low
  PROVE  Left(s, low) \in Nat /\ Left(s, low) <= MostTries
<1>1. Spare(s.busy, low) \in Nat /\ Spare(s.busy, low) <= 3 * LayerNum + 3
  BY SpareBounds
<1>2. \A types : /\ Cardinality(OtherThan(s, types)) \in Nat
                 /\ Cardinality(OtherThan(s, types)) <= LayerNum
  BY NotCounted
<1>3. LayerNum \in Nat
  BY Numbers
<1> QED
  BY <1>1, <1>2, <1>3 DEF Left, MostTries

(* Layers fall, and nothing else comes back.                               *)
LEMMA LeftFalls ==
  ASSUME NEW s, NEW t, NEW low, NEW later, Falls(s, t),
         s.busy \subseteq t.busy, later.has => low.has
  PROVE  /\ Left(t, later) <= Left(s, low)
         /\ (\E l \in Layer :
               \/ s.type[l] # "CLIENT" /\ t.type[l] = "CLIENT"
               \/ s.type[l] \notin {"CLIENT", "EXYNOS"} /\ t.type[l] \in {"CLIENT", "EXYNOS"})
              => Left(t, later) <= Left(s, low) - 1
         /\ Single \in t.busy /\ Single \notin s.busy => Left(t, later) <= Left(s, low) - 1
<1> DEFINE C == {"CLIENT"}
           B == {"CLIENT", "EXYNOS"}
<1>1. OtherThan(t, C) \subseteq OtherThan(s, C) /\ OtherThan(t, B) \subseteq OtherThan(s, B)
  BY DEF OtherThan, Falls
<1>2. /\ Cardinality(OtherThan(t, C)) <= Cardinality(OtherThan(s, C))
      /\ Cardinality(OtherThan(t, B)) <= Cardinality(OtherThan(s, B))
      /\ (\E l \in OtherThan(s, C) : l \notin OtherThan(t, C))
           => Cardinality(OtherThan(t, C)) <= Cardinality(OtherThan(s, C)) - 1
      /\ (\E l \in OtherThan(s, B) : l \notin OtherThan(t, B))
           => Cardinality(OtherThan(t, B)) <= Cardinality(OtherThan(s, B)) - 1
  BY <1>1, NotFewer
<1>3. \A types : /\ Cardinality(OtherThan(s, types)) \in Nat
                 /\ Cardinality(OtherThan(t, types)) \in Nat
  BY NotCounted
<1>4. /\ Spare(s.busy, low) \in Nat /\ Spare(t.busy, later) \in Nat
      /\ Spare(t.busy, later) <= Spare(s.busy, low)
      /\ Single \in t.busy /\ Single \notin s.busy
           => Spare(t.busy, later) <= Spare(s.busy, low) - 1
  BY SpareBounds
<1>5. ASSUME NEW l \in Layer,
             \/ s.type[l] # "CLIENT" /\ t.type[l] = "CLIENT"
             \/ s.type[l] \notin B /\ t.type[l] \in B
      PROVE  \/ \E x \in OtherThan(s, C) : x \notin OtherThan(t, C)
             \/ \E x \in OtherThan(s, B) : x \notin OtherThan(t, B)
  BY <1>5 DEF OtherThan
<1> QED
  BY <1>2, <1>3, <1>4, <1>5 DEF Left

(* The blending MPP is found busy, or low frame rate is given up.          *)
LEMMA LeftDespite ==
  ASSUME NEW s, NEW t, NEW low, NEW later, s.busy \subseteq t.busy, later.has => low.has,
         \/ low.has /\ ~later.has
         \/ /\ Blending \in t.busy /\ Blending \notin s.busy
            /\ \A l \in Layer : s.type[l] = "CLIENT" => t.type[l] = "CLIENT"
  PROVE  Left(t, later) <= Left(s, low) - 1
<1> DEFINE C == {"CLIENT"}
           B == {"CLIENT", "EXYNOS"}
<1>1. /\ Spare(s.busy, low) \in Nat /\ Spare(t.busy, later) \in Nat
      /\ low.has /\ ~later.has
           => Spare(t.busy, later) <= Spare(s.busy, low) - (2 * LayerNum + 1)
      /\ Blending \in t.busy /\ Blending \notin s.busy
           => Spare(t.busy, later) <= Spare(s.busy, low) - (LayerNum + 1)
  BY SpareBounds
<1>2. \A types : /\ Cardinality(OtherThan(s, types)) \in Nat
                 /\ Cardinality(OtherThan(t, types)) \in Nat
                 /\ Cardinality(OtherThan(t, types)) <= LayerNum
  BY NotCounted
<1>3. LayerNum \in Nat
  BY Numbers
<1>4. CASE low.has /\ ~later.has
  BY <1>1, <1>2, <1>3, <1>4 DEF Left
<1>5. CASE /\ Blending \in t.busy /\ Blending \notin s.busy
           /\ \A l \in Layer : s.type[l] = "CLIENT" => t.type[l] = "CLIENT"
  <2>1. OtherThan(t, C) \subseteq OtherThan(s, C)
    BY <1>5 DEF OtherThan
  <2>2. Cardinality(OtherThan(t, C)) <= Cardinality(OtherThan(s, C))
    BY <2>1, NotFewer
  <2> QED
    BY <1>1, <1>2, <1>3, <1>5, <2>2 DEF Left
<1> QED
  BY <1>4, <1>5

LEMMA StartCounted ==
  ASSUME StartFrame
  PROVE  Counted'
<1>1. tries' = 0 /\ pc' = "asked" /\ r' = Fresh /\ lowFps' = lowFps'
  BY DEF StartFrame
<1>2. Left(Fresh, lowFps') \in Nat /\ Left(Fresh, lowFps') <= MostTries
  BY LeftBounds
<1>3. Left(r, lowFps)' = Left(Fresh, lowFps')
  BY <1>1 DEF Left, OtherThan, Spare
<1> QED
  BY <1>1, <1>2, <1>3 DEF Counted, Changed

(* A step that leaves the measure alone, or makes it smaller when it       *)
(* changes something.                                                      *)
LEMMA LessCounted ==
  ASSUME Inv, Counted, pc \in Trying, ~Changed, tries' = tries,
         Left(r', lowFps') <= Left(r, lowFps),
         Changed' => Left(r', lowFps') <= Left(r, lowFps) - 1
  PROVE  Counted'
<1>1. Left(r, lowFps) \in Nat /\ Left(r', lowFps') \in Nat /\ tries \in Int /\ MostTries \in Int
  BY LeftBounds, Numbers DEF Inv, MostTries
<1>2. tries + Left(r, lowFps) <= MostTries
  <2>1. tries + Left(r, lowFps) + 0 <= MostTries
    BY DEF Counted
  <2> QED
    BY <1>1, <2>1
<1>3. Left(r, lowFps)' = Left(r', lowFps')
  BY DEF Left, OtherThan, Spare
<1> QED
  BY <1>2, <1>1, <1>3 DEF Counted

LEMMA AssignLayerCounted ==
  ASSUME Inv, Course, Counted, HighApart, AssignLayer
  PROVE  Counted'
<1>1. pc = "layers" /\ Neat(r) /\ tries' = tries
  BY DEF AssignLayer, Course, Trying
<1>2. PICK l \in Layer : Answered(l)
  BY <1>1, AssignLayerAnswers
<1>3. /\ r.type[l] \notin {"CLIENT", "EXYNOS"} /\ r'.busy = r.busy
      /\ r'.ret = "changed" \/ pc' # "test"
  BY <1>2 DEF Answered
<1>4. Changed' <=> pc' = "test" /\ r'.ret = "changed"
  BY DEF Changed
<1>5. CASE /\ Decided(r, r', l) /\ lowFps' \in {lowFps, NoRange}
           /\ r'.ret = "changed" => r'.type[l] \in {"CLIENT", "EXYNOS"}
  <2>1. Falls(r, r') /\ (lowFps'.has => lowFps.has)
    BY <1>5 DEF Decided, NoRange
  <2>2. /\ Left(r', lowFps') <= Left(r, lowFps)
        /\ (\E x \in Layer :
              \/ r.type[x] # "CLIENT" /\ r'.type[x] = "CLIENT"
              \/ r.type[x] \notin {"CLIENT", "EXYNOS"} /\ r'.type[x] \in {"CLIENT", "EXYNOS"})
             => Left(r', lowFps') <= Left(r, lowFps) - 1
    BY <1>3, <2>1, LeftFalls
  <2>3. Changed' => Left(r', lowFps') <= Left(r, lowFps) - 1
    BY <1>3, <1>4, <1>5, <2>2
  <2> QED
    BY <1>1, <2>2, <2>3, LessCounted DEF Trying, Changed
<1>6. CASE r'.ret = "changed" /\ lowFps.has /\ lowFps' = NoRange
  <2>1. Left(r', lowFps') <= Left(r, lowFps) - 1
    BY <1>3, <1>6, LeftDespite DEF NoRange
  <2>2. Left(r', lowFps') \in Nat /\ Left(r, lowFps) \in Nat
    BY LeftBounds
  <2>3. Left(r', lowFps') <= Left(r, lowFps)
    BY <2>1, <2>2
  <2> QED
    BY <1>1, <2>1, <2>3, LessCounted DEF Trying, Changed
<1> QED
  BY <1>2, <1>5, <1>6 DEF Answered

LEMMA TargetCounted ==
  ASSUME Inv, Course, Counted, AssignExynosTarget
  PROVE  Counted'
<1>1. pc = "target" /\ tries' = tries /\ lowFps' = lowFps
  BY DEF AssignExynosTarget
<1>2. /\ Falls(r, r') /\ r'.busy = r.busy
      /\ \/ pc' = "layers" /\ r'.type = r.type
         \/ pc' = "test" /\ \E l \in Layer : r.type[l] = "EXYNOS" /\ r'.type[l] = "CLIENT"
  BY TargetCourse
<1>3. /\ Left(r', lowFps') <= Left(r, lowFps)
      /\ (\E x \in Layer :
            \/ r.type[x] # "CLIENT" /\ r'.type[x] = "CLIENT"
            \/ r.type[x] \notin {"CLIENT", "EXYNOS"} /\ r'.type[x] \in {"CLIENT", "EXYNOS"})
           => Left(r', lowFps') <= Left(r, lowFps) - 1
  BY <1>1, <1>2, LeftFalls
<1>4. Changed' => Left(r', lowFps') <= Left(r, lowFps) - 1
  BY <1>2, <1>3 DEF Changed
<1> QED
  BY <1>1, <1>3, <1>4, LessCounted DEF Trying, Changed

LEMMA PrioritizeCounted ==
  ASSUME Inv, Course, Counted, setResourcePriority
  PROVE  Counted'
<1>1. /\ pc = "prioritize" /\ tries' = tries /\ lowFps' = lowFps /\ pc' = "test"
      /\ r.ret = "ok"
  BY DEF setResourcePriority, Course
<1>2. Left(r', lowFps') \in Nat /\ Left(r, lowFps) \in Nat
  BY LeftBounds
<1>3. CASE r' = r
  <2>1. ~Changed'
    BY <1>1, <1>3 DEF Changed
  <2> QED
    BY <1>1, <1>2, <1>3, <2>1, LessCounted DEF Trying, Changed
<1>4. ASSUME Left(r', lowFps') <= Left(r, lowFps) - 1
      PROVE  Counted'
  <2>1. Left(r', lowFps') <= Left(r, lowFps)
    BY <1>2, <1>4
  <2> QED
    BY <1>1, <1>4, <2>1, LessCounted DEF Trying, Changed
<1>5. CASE /\ r'.busy = r.busy \cup {Single} /\ Single \notin r.busy
           /\ \A l \in Layer : r'.type[l] = r.type[l]
  <2>1. Falls(r, r') /\ r.busy \subseteq r'.busy /\ Single \in r'.busy
    BY <1>5 DEF Falls
  <2>2. Left(r', lowFps') <= Left(r, lowFps) - 1
    BY <1>1, <1>5, <2>1, LeftFalls
  <2> QED
    BY <1>4, <2>2
<1>6. CASE /\ Blending \notin r.busy
           /\ Blending \in r'.busy /\ r.busy \subseteq r'.busy
           /\ \A l \in Layer : r.type[l] = "CLIENT" => r'.type[l] = "CLIENT"
  <2>1. Left(r', lowFps') <= Left(r, lowFps) - 1
    BY <1>1, <1>6, LeftDespite
  <2> QED
    BY <1>4, <2>1
<1> QED
  BY <1>3, <1>5, <1>6, PrioritizeCourse

LEMMA TestAgainCounted ==
  ASSUME Inv, Counted, TestAgain, TryCount > MostTries + 1
  PROVE  Counted' /\ pc' # "error"
<1>1. /\ pc = "test" /\ tries' = tries + 1 /\ r' = r /\ lowFps' = lowFps
      /\ pc' = IF r.ret = "changed" /\ tries' < TryCount THEN "try"
               ELSE IF tries' = TryCount THEN "error" ELSE "update"
  BY DEF TestAgain
<1>2. /\ Left(r, lowFps) \in Nat /\ tries \in Nat /\ MostTries \in Int /\ TryCount \in Nat
  BY LeftBounds, Numbers, ParametersOK DEF Inv, MostTries
<1>3. tries + Left(r, lowFps) + (IF r.ret = "changed" THEN 1 ELSE 0) <= MostTries
  BY <1>1 DEF Counted, Trying, Changed
<1>4. tries' < TryCount
  BY <1>1, <1>2, <1>3
<1>5. Left(r, lowFps)' = Left(r, lowFps)
  BY <1>1 DEF Left, OtherThan, Spare
<1>6. CASE r.ret = "changed"
  BY <1>1, <1>2, <1>3, <1>4, <1>5, <1>6 DEF Counted, Changed
<1>7. CASE r.ret # "changed"
  BY <1>1, <1>2, <1>4, <1>7 DEF Counted, Trying
<1> QED
  BY <1>6, <1>7

LEMMA NextPatient ==
  ASSUME ~useMaxG2DSrc, TryCount > MostTries + 1
  PROVE  Inv /\ Good /\ Patient /\ [Next]_vars => Patient'
<1> SUFFICES ASSUME Inv, Good, Patient, [Next]_vars PROVE Patient'
  OBVIOUS
<1>1. CASE StartFrame
  BY <1>1, StartCounted DEF StartFrame, Patient
<1>2. CASE Present
  BY <1>2 DEF Present, Patient, Counted, Trying
<1>3. CASE UNCHANGED vars
  BY <1>3 DEF vars, Patient, Counted, Changed, Left, OtherThan, Spare, HighApart, High
<1>4. CASE Assign
  <2>1. kind' = kind
    BY <1>4 DEF Assign, AskedForClient, Try, AssignLayer, NextLevel, AssignExynosTarget,
       setResourcePriority, TestAgain, Finish, startPostProcessing, Fallback
  <2> SUFFICES ASSUME HighApart PROVE Counted' /\ pc' # "error"
    BY <2>1 DEF Patient, HighApart, High
  <2>2. Course /\ Counted /\ pc # "error"
    BY DEF Good, Patient
  <2>3. CASE AskedForClient
    <3>1. /\ pc = "asked" /\ tries' = tries /\ lowFps' = lowFps
          /\ pc' \in {"error", "try"}
      BY <2>3 DEF AskedForClient
    <3>2. pc' # "error" /\ Falls(r, r') /\ r'.busy = r.busy
      BY <2>2, <2>3, AskedCourse
    <3>3. Left(r', lowFps') <= Left(r, lowFps)
      BY <3>1, <3>2, LeftFalls
    <3> QED
      BY <2>2, <3>1, <3>2, <3>3, LessCounted DEF Trying, Changed
  <2>4. CASE Try
    <3>1. pc = "try" /\ tries' = tries /\ lowFps' = lowFps
      BY <2>4 DEF Try
    <3>2. pc' = "layers" /\ r'.type = r.type /\ r'.busy = r.busy
      BY <2>2, <2>4, TryCourse
    <3>3. Falls(r, r')
      BY <3>2 DEF Falls
    <3>4. Left(r', lowFps') <= Left(r, lowFps)
      BY <3>1, <3>2, <3>3, LeftFalls
    <3> QED
      BY <2>2, <3>1, <3>2, <3>4, LessCounted DEF Trying, Changed
  <2>5. CASE AssignLayer
    BY <2>2, <2>5, AssignLayerCounted, AssignLayerCourse
  <2>6. CASE NextLevel
    <3>1. /\ pc = "layers" /\ tries' = tries /\ lowFps' = lowFps /\ r' = r
          /\ pc' \in {"target", "prioritize", "layers"}
      BY <2>6 DEF NextLevel
    <3>2. Left(r', lowFps') <= Left(r, lowFps)
      BY <3>1, LeftBounds
    <3> QED
      BY <2>2, <3>1, <3>2, LessCounted DEF Trying, Changed
  <2>7. CASE AssignExynosTarget
    BY <2>2, <2>7, TargetCounted, TargetCourse
  <2>8. CASE setResourcePriority
    BY <2>2, <2>8, PrioritizeCounted DEF setResourcePriority
  <2>9. CASE TestAgain
    BY <2>2, <2>9, TestAgainCounted
  <2>10. CASE Finish
    BY <2>2, <2>10, FinishPut DEF Counted, Trying
  <2>11. CASE startPostProcessing \/ Fallback
    BY <2>11 DEF startPostProcessing, Fallback, Counted, Trying
  <2> QED
    BY <1>4, <2>3, <2>4, <2>5, <2>6, <2>7, <2>8, <2>9, <2>10, <2>11 DEF Assign
<1> QED
  BY <1>1, <1>2, <1>3, <1>4 DEF Next

(* assignResource() finds an assignment for every frame without two        *)
(* neighbours of high priority, before the tries are used up.  The code    *)
(* allows for a hundred tries: enough for nineteen layers.                 *)
THEOREM NeverGivenUp ==
  ASSUME ~useMaxG2DSrc, TryCount > 5 * LayerNum + 4
  PROVE  Spec => [](HighApart => NeverGivesUp)
<1>0. TryCount > MostTries + 1
  BY Numbers, ParametersOK DEF MostTries
<1>1. Init => Patient
  BY DEF Init, Patient, Counted, Trying
<1>2. Inv /\ Good /\ Patient /\ [Next]_vars => Patient'
  BY <1>0, NextPatient
<1>3. Patient => (HighApart => NeverGivesUp)
  BY DEF Patient, NeverGivesUp
<1> QED
  BY <1>1, <1>2, <1>3, GoodHolds, PTL DEF Spec

-----------------------------------------------------------------------------
(* The first try.  Without a layer of the G2D nothing but layers of low    *)
(* priority follow another one to the client.                              *)
OnlyLowFollow(s, t) ==
  /\ t.exynos = s.exynos
  /\ \A x \in Layer : /\ t.type[x] = s.type[x] \/ (t.type[x] = "CLIENT" /\ ~High(x))
                      /\ t.otf[x] \in {s.otf[x], None}
  /\ \A o \in Otf : t.users[o] = s.users[o] \/ \E x \in Layer : ~High(x) /\ s.otf[x] = o
  /\ (\A x \in Layer : ~High(x) => s.type[x] # "DEVICE") => t.windows = s.windows

LEMMA AddClientLow ==
  ASSUME Given, NEW s, Sound(kind, s), NEW l \in Layer,
         \A x \in Layer : s.type[x] # "EXYNOS"
  PROVE  LET t == addClientCompositionLayer(s, l)
         IN  /\ OnlyLowFollow(s, t)
             /\ t.ret = IF s.client.has THEN "ok" ELSE "changed"
<1> DEFINE wide == Widened(s.client, l)
           L == Followers(s, l)
           range == NewClient(s, l)
           res == addClientCompositionLayer(s, l)
<1>1. s \in Assignment /\ Steady(kind, s) /\ kind \in [Layer -> Kind]
  BY DEF Given, Sound, Steady
<1>2. CASE ~s.client.has
  <2>1. res = [s EXCEPT !.client = wide, !.ret = "changed", !.moved = FALSE]
    BY <1>2 DEF addClientCompositionLayer
  <2> HIDE DEF wide, res
  <2>2. /\ res.type = s.type /\ res.otf = s.otf /\ res.users = s.users
        /\ res.exynos = s.exynos /\ res.windows = s.windows /\ res.ret = "changed"
    BY <1>1, <2>1 DEF Assignment
  <2>3. OnlyLowFollow(s, res)
    BY <2>2 DEF OnlyLowFollow
  <2> QED
    BY <1>2, <2>2, <2>3 DEF res
<1>3. CASE s.client.has
  <2> DEFINE gone == Cardinality({x \in Sandwiched(s, wide) : s.type[x] = "DEVICE"})
             w == s.windows - gone
             s1 == [s EXCEPT !.windows = w]
             reset == resetAssignedResource(s1, L)
             t == ToClient(s1, L)
             u == [t EXCEPT !.client = range]
             v == [u EXCEPT !.ret = "ok", !.moved = FALSE]
             left == {s1.otf[x] : x \in L} \ {None}
  <2>1. res = v
    <3>1. Sandwiched(s, wide) \cup (BelowBlendingNone(s, l) \ Sandwiched(s, wide)) = L
      BY DEF Followers
    <3>2. L \cap ExynosLayers(s) = {}
      BY DEF ExynosLayers
    <3> QED
      BY <1>3, <3>1, <3>2 DEF addClientCompositionLayer, NewClient
  <2>2. L \in SUBSET Layer /\ \A x \in L : ~High(x)
    BY <1>1, FollowersInside
  <2>3. gone \in Nat /\ ((\A x \in Layer : ~High(x) => s.type[x] # "DEVICE") => w = s.windows)
    <3> DEFINE G == {x \in Sandwiched(s, wide) : s.type[x] = "DEVICE"}
    <3>1. G \in SUBSET Layer /\ \A x \in G : ~High(x) /\ s.type[x] = "DEVICE"
      BY DEF Sandwiched
    <3>2. Cardinality(G) \in Nat
      BY <3>1, LayersFinite
    <3>3. (\A x \in Layer : ~High(x) => s.type[x] # "DEVICE") => G = {}
      BY <3>1
    <3>4. G = {} => Cardinality(G) = 0
      BY FS_EmptySet
    <3>5. s.windows \in Int
      BY <1>1 DEF Assignment
    <3> HIDE DEF G
    <3>6. gone = Cardinality(G)
      BY DEF G
    <3> QED
      BY <3>2, <3>3, <3>4, <3>5, <3>6
  <2> HIDE DEF L, gone, wide, range, res
  <2>4. /\ s1 \in Assignment /\ SameResources(s, s1) /\ s1.exynos = s.exynos
        /\ s1.client = s.client /\ s1.windows = w
    BY <1>1, <2>3 DEF Assignment, SameResources
  <2> HIDE DEF s1, w
  <2>5. /\ reset.type = s1.type /\ reset.windows = s1.windows /\ reset.exynos = s1.exynos
        /\ DOMAIN reset = DOMAIN s1
        /\ \A o \in Otf : reset.users[o] = IF o \in left THEN {} ELSE s1.users[o]
        /\ \A x \in Source : reset.otf[x] = IF s1.otf[x] \in left THEN None ELSE s1.otf[x]
    BY <2>4 DEF resetAssignedResource, Assignment
  <2> HIDE DEF reset
  <2>6. /\ t.users = reset.users /\ t.otf = reset.otf /\ t.windows = reset.windows
        /\ t.exynos = reset.exynos /\ DOMAIN t = DOMAIN reset
        /\ \A x \in Layer : t.type[x] = IF x \in L THEN "CLIENT" ELSE s1.type[x]
    BY <2>4, <2>5 DEF ToClient, Assignment, reset
  <2> HIDE DEF t
  <2>7. /\ v.users = t.users /\ v.otf = t.otf /\ v.windows = t.windows
        /\ v.exynos = t.exynos /\ v.type = t.type /\ v.ret = "ok"
    BY <2>4, <2>5, <2>6 DEF Assignment
  <2> HIDE DEF v
  <2>8. \A x \in Layer : /\ v.type[x] = s.type[x] \/ (v.type[x] = "CLIENT" /\ ~High(x))
                         /\ v.otf[x] \in {s.otf[x], None}
    BY <2>2, <2>4, <2>5, <2>6, <2>7, Numbers DEF SameResources
  <2>9. \A o \in Otf : v.users[o] = s.users[o] \/ \E x \in Layer : ~High(x) /\ s.otf[x] = o
    <3> SUFFICES ASSUME NEW o \in Otf, v.users[o] # s.users[o]
                 PROVE  \E x \in Layer : ~High(x) /\ s.otf[x] = o
      OBVIOUS
    <3>1. o \in left
      BY <2>4, <2>5, <2>6, <2>7 DEF SameResources
    <3>2. PICK x \in L : s1.otf[x] = o
      BY <3>1
    <3> QED
      BY <2>2, <2>4, <3>2 DEF SameResources
  <2>10. OnlyLowFollow(s, v)
    BY <2>3, <2>4, <2>5, <2>6, <2>7, <2>8, <2>9 DEF OnlyLowFollow
  <2> QED
    BY <1>3, <2>1, <2>7, <2>10 DEF res
<1> QED
  BY <1>2, <1>3

LEMMA AskedUntried ==
  ASSUME Given
  PROVE  Untried(Loop(askedForClient, Fresh, 0, LayerNum - 1))
<1> DEFINE W == {s \in Assignment : Sound(kind, s) /\ Untried(s)}
           A == [n \in Int |-> W]
           all == Loop(askedForClient, Fresh, 0, LayerNum - 1)
<1>1. Fresh \in W
  <2>1. kind \in [Layer -> Kind]
    BY DEF Given
  <2>2. Sound(kind, Fresh) /\ Fresh \in Assignment
    BY <2>1, FreshSound DEF Sound, Steady
  <2>3. Untried(Fresh)
    BY DEF Untried, Fresh, NoRange
  <2> QED
    BY <2>2, <2>3
<1>2. ASSUME NEW s \in W, NEW l \in Layer
      PROVE  askedForClient(s, l) \in W
  <2> DEFINE type == [s.type EXCEPT ![l] = "CLIENT"]
             t == [s EXCEPT !.type = type]
             c == ClientsLayer(s, l)
  <2>1. /\ s \in Assignment /\ type \in [Layer -> Types] /\ Sound(kind, s) /\ Untried(s)
        /\ \A x \in Layer : type[x] = IF x = l THEN "CLIENT" ELSE s.type[x]
    BY DEF Assignment, Types
  <2>2. CASE ~kind[l].client
    BY <2>2 DEF askedForClient
  <2>3. CASE kind[l].client
    <3>1. askedForClient(s, l) = c
      BY <2>3 DEF askedForClient, ClientsLayer
    <3>2. c = addClientCompositionLayer(t, l)
      BY <2>1 DEF ClientsLayer, Assignment
    <3>3. Sound(kind, c)
      BY <2>1, ClientsLayerSound
    <3> HIDE DEF type, c
    <3>4. Sound(kind, t) /\ t.type = type /\ t.exynos = s.exynos
      BY <2>1, TypeChanged
    <3> HIDE DEF t
    <3>5. \A x \in Layer : t.type[x] # "EXYNOS"
      BY <2>1, <3>4 DEF Untried
    <3>6. OnlyLowFollow(t, c)
      BY <3>2, <3>4, <3>5, AddClientLow
    <3>7. Untried(c)
      BY <2>1, <2>3, <3>4, <3>6 DEF Untried, OnlyLowFollow
    <3> QED
      BY <3>1, <3>3, <3>7 DEF Sound, Steady
  <2> QED
    BY <2>2, <2>3
<1> HIDE DEF W
<1>3. all \in A[LoopTimes(0, LayerNum - 1)]
  <2>1. Fresh \in A[0] /\ \A n \in 1 .. LoopTimes(0, LayerNum - 1) : \A s \in A[n - 1] :
          askedForClient(s, 0 + n - 1) \in A[n]
    BY <1>1, <1>2, AllLayers
  <2> HIDE DEF A
  <2> QED
    BY <2>1, AllLayers, AskedLoop
<1>4. all \in W
  BY <1>3, AllLayers
<1> QED
  BY <1>4 DEF W

-----------------------------------------------------------------------------
(* No inversion in the first try.                                          *)

LEMMA FairRanked ==
  ASSUME Given, NEW s \in Assignment, Fair(s)
  PROVE  Ranked(s)
<1> SUFFICES ASSUME NEW l \in Layer, Lost(s, l), NEW k \in Below(l),
                    s.otf[k] \in kind[l].supports
             PROVE  FALSE
  BY DEF Ranked
<1>1. kind[l].supports \subseteq Otf \cup M2m /\ k \in Source
  BY Priorities, Numbers DEF Below
<1>2. s.otf[k] # None /\ s.otf[k] \in Otf
  BY <1>1, NotMPPs DEF Assignment
<1> QED
  BY <1>2 DEF Fair, NoneFor, AllTaken

(* Who leaves types, MPPs and windows alone keeps it fair.                 *)
LEMMA SameFair ==
  ASSUME NEW s, NEW t, SameResources(s, t)
  PROVE  /\ Ranked(s) => Ranked(t)
         /\ t.windows = s.windows /\ Fair(s) => Fair(t)
BY DEF SameResources, Ranked, Fair, Lost, NoneFor, AllTaken, NoWindowLeft

(* A layer that gets a window and a free OTF MPP of its own.               *)
LEMMA OwnWindowFair ==
  ASSUME Given, NEW s, Fair(s), ~NoWindowLeft(s), NEW t \in Assignment,
         NEW l \in Layer, NEW o \in Otf, s.users[o] = {},
         t.type[l] = "DEVICE", t.otf[l] = o,
         \A x \in Layer \ {l} : t.type[x] = s.type[x] /\ t.otf[x] \in {s.otf[x], None}
  PROVE  /\ Ranked(t)
         /\ (\A p \in Otf : s.users[p] # {} => t.users[p] # {}) => Fair(t)
<1>1. ASSUME NEW x \in Layer, Lost(t, x)
      PROVE  \A p \in Otf \cap kind[x].supports :
               s.users[p] # {} /\ \A k \in Below(x) : t.otf[k] # p
  <2>1. Lost(s, x)
    BY <1>1 DEF Lost
  <2>2. AllTaken(s, x)
    BY <2>1 DEF Fair, NoneFor
  <2> QED
    BY <2>2, NotMPPs DEF AllTaken, Below
<1>2. (\A p \in Otf : s.users[p] # {} => t.users[p] # {}) => Fair(t)
  BY <1>1 DEF Fair, AllTaken
<1>3. Ranked(t)
  <2> SUFFICES ASSUME NEW x \in Layer, Lost(t, x), NEW k \in Below(x),
                      t.otf[k] \in kind[x].supports
               PROVE  FALSE
    BY DEF Ranked
  <2>1. kind[x].supports \subseteq Otf \cup M2m /\ k \in Source
    BY Priorities, Numbers DEF Below
  <2>2. t.otf[k] \in Otf
    BY <2>1, NotMPPs DEF Assignment
  <2> QED
    BY <1>1, <2>2
<1> QED
  BY <1>2, <1>3

(* Who was refused an OTF MPP found none.                                  *)
LEMMA NoneIsFree ==
  ASSUME NEW s, NEW given, freeOtf(s, given) = None, NEW o \in Otf \cap given
  PROVE  s.users[o] # {}
BY OneIsFree

(* Why a layer of high priority is given to the client.                    *)
LEMMA ClientAnswered ==
  ASSUME Given, NEW s, NEW l \in Layer, High(l), ~kind[l].client, ~In(l, lowFps),
         assignLayer(s, l).type = "CLIENT"
  PROVE  NoWindowLeft(s) \/ \A o \in Otf \cap kind[l].supports : s.users[o] # {}
<1> SUFFICES ASSUME ~NoWindowLeft(s), NEW o \in Otf \cap kind[l].supports
             PROVE  s.users[o] # {}
  OBVIOUS
<1>1. Obstacles(s, l) = {}
  BY DEF Obstacles
<1>2. Cardinality(Obstacles(s, l)) = 0
  BY <1>1, FS_EmptySet
<1>3. freeOtf(s, kind[l].supports) = None
  BY <1>1, <1>2 DEF assignLayer, Answer
<1> QED
  BY <1>3, NoneIsFree

(* And when it is given a window of its own.                               *)
LEMMA DeviceAnswered ==
  ASSUME NEW s, NEW l \in Layer, assignLayer(s, l).type = "DEVICE"
  PROVE  /\ ~NoWindowLeft(s)
         /\ assignLayer(s, l).otf \in Otf /\ s.users[assignLayer(s, l).otf] = {}
<1>1. Suits(s, l, assignLayer(s, l))
  BY AssignLayerSuits
<1>2. Obstacles(s, l) = {}
  BY DEF assignLayer, Answer
<1> QED
  BY <1>1, <1>2, NotMPPs DEF Suits, Answer, Obstacles

(* An MPP that is given away keeps the sources of the others.              *)
LEMMA AssignKeepsUsers ==
  ASSUME Given, NEW s, Firm(kind, s), NEW l \in Layer, NEW a, Suits(s, l, a)
  PROVE  \A p \in Otf : s.users[p] # {} => assign(s, l, a).users[p] # {}
<1> DEFINE t == IF a.otf = None THEN s ELSE assignOtf(s, a.otf, l)
           u == IF a.m2m = None THEN t ELSE [t EXCEPT !.m2m[l] = a.m2m]
<1>1. s \in Assignment
  BY DEF Firm
<1>2. t.users = s.users \/ t.users = [s.users EXCEPT ![a.otf] = @ \cup {l}]
  BY <1>1 DEF assignOtf, Assignment
<1>3. u.users = t.users
  <2>1. DOMAIN t = DOMAIN s
    BY <1>1 DEF assignOtf, Assignment
  <2> HIDE DEF t
  <2> QED
    BY <1>1, <2>1 DEF Assignment
<1>4. assign(s, l, a).users = u.users
  <2>1. DOMAIN u = DOMAIN s
    BY <1>1 DEF assignOtf, Assignment
  <2>2. assign(s, l, a) = [u EXCEPT !.type[l] = a.type,
               !.windows = IF a.type = "DEVICE" THEN @ + 1 ELSE @]
    BY DEF assign
  <2> HIDE DEF u
  <2> QED
    BY <1>1, <2>1, <2>2 DEF Assignment
<1> HIDE DEF t, u
<1> QED
  BY <1>1, <1>2, <1>3, <1>4 DEF Assignment

LEMMA FewerToCome ==
  ASSUME Given, NEW lev \in Priority, NEW n \in Nat, NEW l \in Layer, l >= n,
         kind[l].priority = lev
  PROVE  /\ ToCome(lev, l + 1) \subseteq ToCome(lev, n)
         /\ l \notin ToCome(lev, l + 1)
         /\ Below(l) \subseteq ToCome(lev, n)
<1>1. l \in Int /\ n \in Int /\ lev \in Int
      /\ \A x \in Layer : x \in Int /\ kind[x].priority \in Int
  BY Numbers, Priorities DEF Priority, PriorityMax
<1>2. ToCome(lev, l + 1) \subseteq ToCome(lev, n)
  <2> SUFFICES ASSUME NEW x \in ToCome(lev, l + 1) PROVE x \in ToCome(lev, n)
    OBVIOUS
  <2>1. x \in Layer /\ x \in Int
    BY <1>1 DEF ToCome
  <2> QED
    BY <1>1, <2>1 DEF ToCome
<1>3. l \notin ToCome(lev, l + 1)
  BY <1>1 DEF ToCome
<1>4. Below(l) \subseteq ToCome(lev, n)
  BY DEF ToCome, Below
<1> QED
  BY <1>2, <1>3, <1>4

LEMMA DeviceFair ==
  ASSUME Given, NEW s, Sound(kind, s), Fair(s), NEW l \in Layer,
         NEW a, a = assignLayer(s, l), a.type = "DEVICE"
  PROVE  LET t == [assign(s, l, a) EXCEPT !.ret = "ok"]
         IN  /\ Fair(t) /\ t.exynos = s.exynos
             /\ \A x \in Layer \ {l} : t.type[x] = s.type[x] /\ t.otf[x] = s.otf[x]
<1> DEFINE u == assign(s, l, a)
           t == [u EXCEPT !.ret = "ok"]
<1>1. Suits(s, l, a) /\ Firm(kind, s)
  BY AssignLayerSuits DEF Sound, Steady, Firm
<1>2. Assigned(s, u, l, a) /\ \A p \in Otf : s.users[p] # {} => u.users[p] # {}
  BY <1>1, AssignFirm, AssignKeepsUsers
<1>3. ~NoWindowLeft(s) /\ a.otf \in Otf /\ s.users[a.otf] = {}
  BY DeviceAnswered
<1> HIDE DEF u
<1>4. u \in Assignment /\ "ok" \in Ret
  BY <1>2 DEF Assigned, Firm, Ret
<1>5. t \in Assignment /\ SameResources(u, t) /\ t.exynos = u.exynos
  BY <1>4 DEF Assignment, SameResources
<1> HIDE DEF t
<1>6. /\ t.type[l] = "DEVICE" /\ t.otf[l] = a.otf
      /\ \A x \in Layer \ {l} : t.type[x] = s.type[x] /\ t.otf[x] = s.otf[x]
      /\ \A p \in Otf : s.users[p] # {} => t.users[p] # {}
  BY <1>2, <1>3, <1>5, NotMPPs, Numbers DEF Assigned, SameResources
<1>7. Fair(t)
  BY <1>3, <1>5, <1>6, OwnWindowFair
<1> QED
  BY <1>2, <1>5, <1>6, <1>7 DEF Assigned, t, u

(* The layer, and those of low priority that follow it, go to the client.  *)
LEMMA ClientFair ==
  ASSUME Given, NEW s, Sound(kind, s), Fair(s), ~s.exynos.has, Blends(kind, s),
         NEW l \in Layer, ~In(l, lowFps) \/ ~High(l), assignLayer(s, l).type = "CLIENT",
         \A k \in Below(l) : s.otf[k] = None /\ s.type[k] # "DEVICE",
         NEW t, t = ClientsLayer(s, l), t.ret = "ok"
  PROVE  /\ Fair(t) /\ ~t.exynos.has
         /\ \A x \in Layer \ {l} : /\ t.type[x] \in {s.type[x], "CLIENT"}
                                   /\ t.otf[x] \in {s.otf[x], None}
<1> DEFINE type == [s.type EXCEPT ![l] = "CLIENT"]
           u == [s EXCEPT !.type = type]
<1>1. /\ s \in Assignment /\ type \in [Layer -> Types]
      /\ \A x \in Layer : type[x] = IF x = l THEN "CLIENT" ELSE s.type[x]
  BY DEF Sound, Steady, Assignment, Types
<1>2. t = addClientCompositionLayer(u, l)
  BY <1>1 DEF ClientsLayer, Assignment
<1> HIDE DEF type
<1>3. /\ Sound(kind, u) /\ u.type = type /\ u.otf = s.otf /\ u.users = s.users
      /\ u.client = s.client /\ u.exynos = s.exynos
  BY <1>1, TypeChanged
<1>4. u.windows = s.windows
  BY <1>1 DEF Assignment
<1> HIDE DEF u
<1>5. \A x \in Layer : u.type[x] # "EXYNOS"
  BY <1>1, <1>3 DEF Blends, In
<1>6. OnlyLowFollow(u, t)
  BY <1>2, <1>3, <1>5, AddClientLow
<1>7. \A x, y \in Layer : High(x) /\ ~High(y) => y \in Below(x)
  BY Priorities DEF Below, High, Priority, PriorityMax, PriorityHigh
<1>8. \A x \in Layer : Below(x) \subseteq Layer
  BY DEF Below
<1>9. ASSUME NEW x \in Layer, Lost(t, x)
      PROVE  NoneFor(t, x) \/ AllTaken(t, x)
  <2>1. High(x) /\ ~kind[x].client /\ (x = l \/ s.type[x] = "CLIENT")
    BY <1>1, <1>3, <1>6, <1>9 DEF Lost, OnlyLowFollow
  <2>2. NoneFor(s, x) \/ AllTaken(s, x)
    <3>1. CASE x # l
      BY <2>1, <3>1 DEF Fair, Lost
    <3>2. CASE x = l
      <4>1. NoWindowLeft(s) \/ \A o \in Otf \cap kind[l].supports : s.users[o] # {}
        BY <2>1, <3>2, ClientAnswered
      <4> QED
        BY <3>2, <4>1, NotMPPs DEF NoneFor, AllTaken
    <3> QED
      BY <3>1, <3>2
  <2>3. CASE NoneFor(s, x)
    <3>1. \A y \in Layer : ~High(y) => u.type[y] # "DEVICE"
      BY <1>1, <1>3, <1>7, <2>1, <2>3 DEF NoneFor
    <3>2. t.windows = s.windows
      BY <1>4, <1>6, <3>1 DEF OnlyLowFollow
    <3>3. \A k \in Below(x) : t.otf[k] = None /\ t.type[k] # "DEVICE"
      BY <1>1, <1>3, <1>6, <1>8, <2>3 DEF NoneFor, OnlyLowFollow
    <3> QED
      BY <2>3, <3>2, <3>3 DEF NoneFor, NoWindowLeft
  <2>4. CASE AllTaken(s, x)
    <3> SUFFICES ASSUME NEW o \in Otf \cap kind[x].supports
                 PROVE  t.users[o] # {} /\ \A k \in Below(x) : t.otf[k] # o
      BY DEF AllTaken
    <3>1. s.users[o] # {} /\ \A k \in Below(x) : s.otf[k] # o
      BY <2>4 DEF AllTaken
    <3>2. t.users[o] # {}
      BY <1>3, <1>6, <1>7, <2>1, <3>1 DEF OnlyLowFollow
    <3>3. \A k \in Below(x) : t.otf[k] # o
      BY <1>3, <1>6, <1>8, <3>1, NotMPPs DEF OnlyLowFollow
    <3> QED
      BY <3>2, <3>3
  <2> QED
    BY <2>2, <2>3, <2>4
<1>10. \A x \in Layer \ {l} : /\ t.type[x] \in {s.type[x], "CLIENT"}
                              /\ t.otf[x] \in {s.otf[x], None}
  BY <1>1, <1>3, <1>6 DEF OnlyLowFollow
<1> QED
  BY <1>3, <1>6, <1>9, <1>10 DEF Fair, OnlyLowFollow

-----------------------------------------------------------------------------
(* The end of the first try.                                               *)

(* A layer at an end of the client's range goes, or nothing happens.       *)
LEMMA RemoveKeepsTypes ==
  ASSUME Given, NEW s, Firm(kind, s), NEW l \in Layer
  PROVE  LET t == removeClientCompositionLayer(s, l)
         IN  /\ t.ret = "error" => /\ SameResources(s, t) /\ t.windows = s.windows
                                   /\ t.client = s.client
             /\ t.ret # "error" => /\ s.client.has /\ t.type = s.type
                                   /\ \A x \in Layer : t.otf[x] \in {s.otf[x], None}
                                   /\ t.client.has => t.users = s.users
<1> DEFINE range == s.client
           target == s.otf[Client]
           t == removeClientCompositionLayer(s, l)
           d == resetAssignedState(s, target)
           c == initializeClient(d)
<1>1. s \in Assignment /\ kind \in [Layer -> Kind]
  BY DEF Firm, Given
<1>2. \/ t = [s EXCEPT !.ret = "error"]
      \/ /\ s.client.has /\ t = [c EXCEPT !.windows = @ - 1, !.ret = "ok"]
      \/ /\ s.client.has /\ t = [s EXCEPT !.client.first = @ + 1, !.ret = "ok"]
      \/ /\ s.client.has /\ t = [s EXCEPT !.client.last = @ - 1, !.ret = "ok"]
  BY DEF removeClientCompositionLayer
<1>3. /\ c.type = s.type /\ c.client = NoRange
      /\ \A x \in Layer : c.otf[x] \in {s.otf[x], None}
      /\ DOMAIN c = DOMAIN s
  <2>1. Firm(kind, d) /\ d.type = s.type
    BY <1>1, ResetStateFirm
  <2>2. \A x \in Layer : d.otf[x] \in {s.otf[x], None}
    BY <1>1, Numbers DEF resetAssignedState, Assignment
  <2>3. d \in Assignment
    BY <2>1 DEF Firm
  <2> HIDE DEF d
  <2> QED
    BY <1>1, <2>1, <2>2, <2>3, Numbers DEF initializeClient, Assignment
<1> HIDE DEF c, t
<1>4. CASE t = [s EXCEPT !.ret = "error"]
  BY <1>1, <1>4 DEF SameResources, Assignment, t
<1>5. CASE s.client.has /\ t = [c EXCEPT !.windows = @ - 1, !.ret = "ok"]
  <2>1. t.ret = "ok" /\ t.type = c.type /\ t.otf = c.otf /\ t.client = c.client
    BY <1>1, <1>3, <1>5 DEF Assignment
  <2> QED
    BY <1>3, <1>5, <2>1 DEF NoRange, t
<1>6. CASE s.client.has /\ t = [s EXCEPT !.client.first = @ + 1, !.ret = "ok"]
  BY <1>1, <1>6 DEF Assignment, t
<1>7. CASE s.client.has /\ t = [s EXCEPT !.client.last = @ - 1, !.ret = "ok"]
  BY <1>1, <1>7 DEF Assignment, t
<1> QED
  BY <1>2, <1>4, <1>5, <1>6, <1>7

LEMMA KeepsFair ==
  ASSUME Given, NEW a \in KeepingFair, NEW l \in Layer, NEW end \in {"first", "last"}
  PROVE  Keeps(a.s, l, end) \in KeepingFair
<1> DEFINE s == a.s
           range == s.client
           up == [range EXCEPT !.first = @ + 1]
           down == [range EXCEPT !.last = @ - 1]
           x == IF end = "first" THEN up ELSE down
           t == [s EXCEPT !.client = x]
           answer == assignLayer(s, l)
           removed == removeClientCompositionLayer(s, l)
           k == Keeps(s, l, end)
<1>1. /\ s \in Assignment /\ Firm(kind, s) /\ s.client.last <= LayerNum - 1
      /\ range \in Ranges
      /\ Fair(s) \/ (~s.client.has /\ Ranked(s))
  BY DEF KeepingFair, Keeping, Assignment
<1> HIDE DEF s
<1>2. k \in Keeping
  BY <1>1, KeepsFirm
<1>3. Keeps(s, l, end) = IF High(l) /\ s.type[l] = "DEVICE" THEN [s |-> t, on |-> TRUE]
                         ELSE KeepsOwn(s, l, answer)
  <2>1. (IF end = "first" THEN [s EXCEPT !.client.first = @ + 1]
                          ELSE [s EXCEPT !.client.last = @ - 1]) = t
    BY <1>1 DEF Assignment
  <2> QED
    BY <2>1 DEF Keeps
<1> HIDE DEF answer
<1>4. \/ k.s = t
      \/ k.s = s
      \/ k.s = removed /\ removed.ret = "error"
      \/ /\ answer.type = "DEVICE" /\ answer.m2m = None /\ removed.ret # "error"
         /\ k.s = assign(removed, l, answer)
  BY <1>3 DEF KeepsOwn
<1>5. x.has = range.has
  BY <1>1 DEF Ranges
<1> HIDE DEF x, k, removed
<1>6. SameResources(s, t) /\ t.client = x /\ t.windows = s.windows
  BY <1>1, <1>5 DEF SameResources, Assignment
<1> HIDE DEF t
<1>7. CASE k.s = t
  BY <1>1, <1>2, <1>5, <1>6, <1>7, SameFair DEF KeepingFair, k, s
<1>8. CASE k.s = s
  BY <1>1, <1>2, <1>8 DEF KeepingFair, k, s
<1>9. CASE k.s = removed /\ removed.ret = "error"
  <2>1. SameResources(s, removed) /\ removed.windows = s.windows /\ removed.client = s.client
    BY <1>1, <1>9, RemoveKeepsTypes DEF removed
  <2> QED
    BY <1>1, <1>2, <1>9, <2>1, SameFair DEF KeepingFair, k, s
<1>10. CASE /\ answer.type = "DEVICE" /\ answer.m2m = None /\ removed.ret # "error"
            /\ k.s = assign(removed, l, answer)
  <2> DEFINE v == assign(removed, l, answer)
  <2>1. /\ s.client.has /\ removed.type = s.type
        /\ \A y \in Layer : removed.otf[y] \in {s.otf[y], None}
        /\ removed.client.has => removed.users = s.users
    BY <1>1, <1>10, RemoveKeepsTypes DEF removed
  <2>2. Fair(s)
    BY <1>1, <2>1
  <2>3. ~NoWindowLeft(s) /\ answer.otf \in Otf /\ s.users[answer.otf] = {}
    BY <1>10, DeviceAnswered DEF answer
  <2>4. Firm(kind, removed) /\ removed.users[answer.otf] = {}
    BY <1>1, <2>3, RemoveFirm DEF removed
  <2>5. Suits(removed, l, answer)
    BY <1>10, <2>3, <2>4 DEF Suits
  <2>6. /\ Assigned(removed, v, l, answer)
        /\ \A p \in Otf : removed.users[p] # {} => v.users[p] # {}
    BY <2>4, <2>5, AssignFirm, AssignKeepsUsers
  <2> HIDE DEF v
  <2>7. /\ v \in Assignment /\ v.client = removed.client
        /\ v.type[l] = "DEVICE" /\ v.otf[l] = answer.otf
        /\ \A y \in Layer \ {l} : v.type[y] = s.type[y] /\ v.otf[y] \in {s.otf[y], None}
    BY <1>10, <2>1, <2>3, <2>6, NotMPPs, Numbers DEF Assigned, Firm
  <2>8. Ranked(v) /\ (removed.client.has => Fair(v))
    BY <2>1, <2>2, <2>3, <2>6, <2>7, OwnWindowFair
  <2> QED
    BY <1>2, <1>10, <2>7, <2>8 DEF KeepingFair, k, s, v
<1> QED
  BY <1>4, <1>7, <1>8, <1>9, <1>10

LEMMA UpdateClientRanked ==
  ASSUME Given, NEW s, Sound(kind, s), Fair(s)
  PROVE  Ranked(updateClientComposition(s))
<1>1. s \in Assignment /\ Firm(kind, s) /\ Spanning(s.client)
  BY DEF Sound, Steady, Firm
<1>2. CASE ~s.client.has
  BY <1>1, <1>2, FairRanked DEF updateClientComposition
<1>3. CASE s.client.has
  <2>3. [s |-> s, on |-> TRUE] \in KeepingFair
    <3>1. [s |-> s, on |-> TRUE] \in Keeping
      BY <1>1, <1>3, KeepingStart
    <3> QED
      BY <3>1 DEF KeepingFair
  <2>4. \A a \in KeepingFair : [s |-> a.s, on |-> TRUE] \in KeepingFair
    <3> SUFFICES ASSUME NEW a \in KeepingFair PROVE [s |-> a.s, on |-> TRUE] \in KeepingFair
      OBVIOUS
    <3>1. [s |-> a.s, on |-> TRUE] \in Keeping
      BY KeepingOn DEF KeepingFair
    <3> QED
      BY <3>1 DEF KeepingFair
  <2>5. KeepingFair \in SUBSET Keeping
    BY DEF KeepingFair
  <2>6. \A a \in KeepingFair, l \in Layer, end \in {"first", "last"} :
          Keeps(a.s, l, end) \in KeepingFair
    BY KeepsFair
  <2>7. PICK a \in KeepingFair : updateClientComposition(s) = a.s
    BY <1>1, <1>3, <2>3, <2>4, <2>5, <2>6, UpdateClientThrough
  <2> QED
    BY <2>7, FairRanked DEF KeepingFair, Keeping
<1> QED
  BY <1>2, <1>3

-----------------------------------------------------------------------------
(* What is known during the first try.                                     *)

(* An ended try never belongs to a frame that has just begun.              *)
LEMMA InitFirst == Init => FirstTry
BY DEF Init, FirstTry, LowFpsLow, Begun, Ended, NoRange, In

LEMMA StartFirst ==
  ASSUME StartFrame
  PROVE  FirstTry'
<1>1. /\ pc' = "asked" /\ r' = Fresh /\ tries' = 0
      /\ lowFps' \in {NoRange} \cup LowFps(kind')
  BY DEF StartFrame
<1>2. LowFpsLow'
  <2> SUFFICES ASSUME NEW l \in Layer, In(l, lowFps') PROVE ~(kind'[l].priority >= PriorityHigh)
    BY DEF LowFpsLow, High, In
  <2>1. kind'[l].priority \in Int
    BY ParametersOK DEF StartFrame, KindOK, Priority, PriorityMax
  <2>2. lowFps' \in LowFps(kind')
    BY <1>1 DEF NoRange, In
  <2>3. l \in lowFps'.first .. lowFps'.last
    BY <2>2, Numbers DEF LowFps, In
  <2>4. kind'[l].priority < PriorityHigh
    BY <2>2, <2>3 DEF LowFps
  <2> QED
    BY <2>1, <2>4 DEF PriorityHigh
<1> QED
  BY <1>1, <1>2 DEF FirstTry, Begun

LEMMA AskedFirst ==
  ASSUME Inv, FirstTry, AskedForClient
  PROVE  FirstTry'
<1>1. /\ Given /\ pc = "asked" /\ pc' \in {"error", "try"}
      /\ r' = Loop(askedForClient, r, 0, LayerNum - 1)
      /\ UNCHANGED <<kind, mBlendingNoneIndex, lowFps, tries, level, next>>
  BY DEF Inv, AskedForClient
<1>2. LowFpsLow'
  BY <1>1 DEF FirstTry, LowFpsLow, High, In
<1>3. tries = 0 => Untried(r')
  BY <1>1, AskedUntried DEF FirstTry, Begun
<1>4. tries = 0 => Begun'
  BY <1>1, <1>3 DEF Begun, Untried, High
<1> QED
  BY <1>1, <1>2, <1>4 DEF FirstTry, Ended

LEMMA TryFirst ==
  ASSUME Inv, FirstTry, Try
  PROVE  FirstTry'
<1> DEFINE u == resetAssignedResources(r, FALSE)
           t == assignCompositionTarget(u, Client)
<1>1. /\ Given /\ Sound(kind, r) /\ pc = "try" /\ pc' \in {"error", "layers"} /\ r' = t
      /\ level' = PriorityMax /\ next' = 0
      /\ UNCHANGED <<kind, mBlendingNoneIndex, lowFps, tries>>
  BY DEF Inv, Try, Trying
<1>2. LowFpsLow'
  BY <1>1 DEF FirstTry, LowFpsLow, High, In
<1>3. tries = 0 => /\ ~t.exynos.has
                   /\ \A l \in Layer : /\ t.type[l] \in {"INVALID", "CLIENT"} /\ t.otf[l] = None
                                       /\ High(l) /\ t.type[l] = "CLIENT" => kind[l].client
  <2>1. FALSE \in BOOLEAN /\ Client \in {Client, Exynos} /\ Firm(kind, r)
    BY <1>1 DEF Sound, Steady, Firm
  <2>2. /\ Firm(kind, u) /\ u.type = r.type /\ u.client = r.client /\ u.exynos = r.exynos
        /\ \A x \in Source : u.otf[x] = None
    BY <1>1, <2>1, ResetAllFirm
  <2> HIDE DEF u
  <2>3. Sound(kind, u)
    BY <1>1, <2>2 DEF Sound, Steady, Firm
  <2>4. /\ t.type = u.type /\ t.exynos = u.exynos
        /\ \A x \in Source \ {Client} : t.otf[x] = u.otf[x]
    BY <1>1, <2>1, <2>3, TargetSound
  <2> HIDE DEF t
  <2> QED
    BY <1>1, <2>2, <2>4, Numbers DEF FirstTry, Begun, Untried
<1> HIDE DEF t
<1>4. tries = 0 => Begun'
  BY <1>1, <1>3 DEF Begun, Fair, Lost, Unseen, ToCome, High
<1> QED
  BY <1>1, <1>2, <1>4 DEF FirstTry, Ended

LEMMA LayerFirst ==
  ASSUME Inv, FirstTry, AssignLayer
  PROVE  FirstTry'
<1> DEFINE l == Min(Waiting)
           answer == assignLayer(r, l)
<1>1. /\ pc = "layers" /\ Given /\ Sound(kind, r) /\ Held(r) /\ LowFpsLow
      /\ level \in Priority /\ next \in Nat
  BY DEF Inv, AssignLayer, Trying, FirstTry
<1>2. l \in Layer /\ l >= next /\ kind[l].priority = level
  <2>1. Waiting \in SUBSET Layer /\ Waiting # {}
    BY DEF Waiting, AssignLayer
  <2>2. l \in Waiting
    BY <2>1, LeastLayer
  <2> HIDE DEF l
  <2> QED
    BY <2>2 DEF Waiting
<1>3. /\ UNCHANGED <<kind, mBlendingNoneIndex, tries, level>>
      /\ AssignDevice(l, answer) \/ AssignExynos(l, answer) \/ AssignClient(l, answer)
  BY DEF AssignLayer
<1> HIDE DEF l, answer
<1>4. lowFps' \in {lowFps, NoRange}
  BY <1>3 DEF AssignDevice, AssignExynos, AssignClient, UnlessLowFpsLost
<1>5. pc' \in {"layers", "test", "error"} /\ (pc' = "layers" => r'.ret = "ok" /\ next' = l + 1)
      /\ (pc' = "test" => r'.ret = "changed")
  <2>1. r'.ret \in Ret
    BY AssignLayerInv DEF Inv, Firm, Assignment
  <2>2. pc' = CASE r'.ret = "ok" -> "layers"
               [] r'.ret = "changed" -> "test"
               [] r'.ret = "error" -> "error"
    BY <1>3 DEF AssignDevice, AssignExynos, AssignClient, UnlessLowFpsLost, Proceed
  <2>3. next' = l + 1
    BY <1>3 DEF AssignDevice, AssignExynos, AssignClient, UnlessLowFpsLost, Proceed
  <2> QED
    BY <2>1, <2>2, <2>3 DEF Ret
<1>6. LowFpsLow'
  BY <1>1, <1>3, <1>4 DEF LowFpsLow, High, In, NoRange
<1>7. /\ ToCome(level, l + 1) \subseteq ToCome(level, next)
      /\ l \notin ToCome(level, l + 1) /\ Below(l) \subseteq ToCome(level, next)
  BY <1>1, <1>2, FewerToCome
<1>8. ASSUME tries = 0, pc' = "layers"
      PROVE  /\ ~r'.exynos.has /\ Fair(r')
             /\ \A x \in Layer \ {l} : /\ r'.type[x] \in {r.type[x], "CLIENT"}
                                       /\ r'.otf[x] \in {r.otf[x], None}
  <2>1. ~r.exynos.has /\ Fair(r) /\ Unseen(r, level, next)
    BY <1>1, <1>8 DEF FirstTry, Begun
  <2>2. Blends(kind, r)
    BY <1>1, HeldBlends
  <2>3. \A k \in Below(l) : r.otf[k] = None /\ r.type[k] # "DEVICE"
    BY <1>7, <2>1 DEF Unseen
  <2>4. CASE AssignDevice(l, answer)
    <3>1. answer.type = "DEVICE" /\ r' = [assign(r, l, answer) EXCEPT !.ret = "ok"]
      BY <2>4 DEF AssignDevice, Proceed
    <3> QED
      BY <1>1, <1>2, <2>1, <3>1, DeviceFair DEF answer
  <2>5. CASE AssignExynos(l, answer)
    <3> DEFINE u == assign(r, l, answer)
               s == addExynosCompositionLayer(u, l)
    <3>1. answer.type = "EXYNOS" /\ UnlessLowFpsLost(s, l)
      BY <2>5 DEF AssignExynos
    <3>2. Suits(r, l, answer) /\ Firm(kind, r)
      BY <1>1, <1>2, AssignLayerSuits DEF answer, Sound, Steady, Firm
    <3>3. Assigned(r, u, l, answer)
      BY <1>1, <1>2, <3>2, AssignFirm
    <3> HIDE DEF u
    <3>4. u.exynos = r.exynos /\ u \in Assignment
      BY <3>3 DEF Assigned, Firm
    <3>5. s.ret = "changed"
      BY <2>1, <3>4 DEF addExynosCompositionLayer, Assignment
    <3> HIDE DEF s
    <3>6. r'.ret = "changed"
      BY <3>1, <3>5 DEF UnlessLowFpsLost, Proceed
    <3> QED
      BY <1>5, <1>8, <3>6
  <2>6. CASE AssignClient(l, answer)
    <3> DEFINE lost == lowFps.has /\ ~In(l, lowFps)
               s == ClientsLayer(r, l)
    <3>1. answer.type = "CLIENT" /\ Proceed(IF lost THEN reassign(r) ELSE s, l)
      BY <2>6 DEF AssignClient, ClientsLayer
    <3>2. reassign(r).ret = "changed"
      BY <1>1, ReassignSound
    <3>3. r' = s /\ s.ret = "ok"
      BY <1>5, <1>8, <3>1, <3>2 DEF Proceed
    <3> HIDE DEF s
    <3>4. ~In(l, lowFps) \/ ~High(l)
      BY <1>1, <1>2 DEF LowFpsLow
    <3> QED
      BY <1>1, <1>2, <2>1, <2>2, <2>3, <3>1, <3>3, <3>4, ClientFair DEF answer, s
  <2> QED
    BY <1>3, <2>4, <2>5, <2>6
<1>9. tries = 0 /\ pc' = "layers" => Unseen(r', level, l + 1)
  <2> SUFFICES ASSUME tries = 0, pc' = "layers", NEW x \in ToCome(level, l + 1)
               PROVE  r'.otf[x] = None /\ r'.type[x] # "DEVICE"
    BY DEF Unseen
  <2>1. x \in Layer \ {l} /\ r.otf[x] = None /\ r.type[x] # "DEVICE"
    BY <1>1, <1>7 DEF FirstTry, Begun, Unseen, ToCome
  <2> QED
    BY <1>8, <2>1
<1>10. tries = 0 => Begun'
  <2> SUFFICES ASSUME tries = 0, pc' = "layers"
               PROVE  ~r'.exynos.has /\ Fair(r)' /\ Unseen(r, level, next)'
    BY <1>5 DEF Begun
  <2>1. ~r'.exynos.has /\ Fair(r') /\ Unseen(r', level, next')
    BY <1>5, <1>8, <1>9
  <2> QED
    BY <1>3, <2>1 DEF Fair, Lost, NoneFor, AllTaken, Below, NoWindowLeft, High, Unseen, ToCome
<1> QED
  BY <1>3, <1>5, <1>6, <1>10 DEF FirstTry, Ended

LEMMA NextLevelFirst ==
  ASSUME Inv, FirstTry, NextLevel
  PROVE  FirstTry'
<1>1. /\ Given /\ pc = "layers" /\ r' = r /\ level \in Priority
      /\ level' = IF level > 1 THEN level - 1 ELSE level
      /\ pc' = CASE level = PriorityHigh -> "target"
                 [] level = 1 -> "prioritize"
                 [] OTHER -> "layers"
      /\ next' = 0 /\ UNCHANGED <<kind, mBlendingNoneIndex, lowFps, tries>>
  BY DEF Inv, NextLevel
<1>2. LowFpsLow'
  BY <1>1 DEF FirstTry, LowFpsLow, High, In
<1>3. pc' \in {"layers", "target", "prioritize"}
      /\ (pc' # "prioritize" => level' = level - 1)
  BY <1>1 DEF Priority, PriorityMax, PriorityHigh
<1>4. level' = level - 1 => ToCome(level', 0) \subseteq ToCome(level, next)
  BY <1>1, Priorities DEF ToCome, Priority, PriorityMax
<1>5. tries = 0 => /\ ~r.exynos.has /\ Fair(r)
                   /\ pc' # "prioritize" => Unseen(r, level', 0)
  BY <1>1, <1>3, <1>4 DEF FirstTry, Begun, Unseen
<1>6. tries = 0 => Begun'
  BY <1>1, <1>3, <1>5
     DEF Begun, Fair, Lost, NoneFor, AllTaken, Below, NoWindowLeft, High, Unseen, ToCome
<1> QED
  BY <1>1, <1>2, <1>3, <1>6 DEF FirstTry, Ended

LEMMA TargetFirst ==
  ASSUME Inv, FirstTry, AssignExynosTarget
  PROVE  FirstTry'
<1> DEFINE s == assignCompositionTarget(r, Exynos)
<1>1. /\ Given /\ Firm(kind, r) /\ pc = "target"
      /\ r' = IF s.ret = "ok" THEN s ELSE giveExynosToClient(r)
      /\ UNCHANGED <<kind, mBlendingNoneIndex, lowFps, tries, level, next>>
  BY DEF Inv, AssignExynosTarget
<1>2. pc' \in {"layers", "test", "error"} /\ (pc' = "test" => r'.ret = "changed")
  <2>1. r'.ret \in Ret
    BY TargetInv DEF Inv, Firm, Assignment
  <2> QED
    BY <2>1 DEF AssignExynosTarget, Ret
<1>3. LowFpsLow'
  BY <1>1 DEF FirstTry, LowFpsLow, High, In
<1>4. ASSUME tries = 0
      PROVE  /\ ~r.exynos.has /\ SameResources(r, r') /\ r'.windows = r.windows
             /\ r'.exynos = r.exynos
  <2>1. ~r.exynos.has /\ r \in Assignment
    BY <1>1, <1>4 DEF FirstTry, Begun, Firm
  <2>2. s = [r EXCEPT !.ret = "ok"]
    BY <2>1 DEF assignCompositionTarget, Client, Exynos
  <2> HIDE DEF s
  <2>3. s.ret = "ok" /\ SameResources(r, s) /\ s.windows = r.windows /\ s.exynos = r.exynos
    BY <2>1, <2>2 DEF Assignment, SameResources
  <2> QED
    BY <1>1, <2>1, <2>3
<1> HIDE DEF s
<1>5. tries = 0 => Begun'
  <2> SUFFICES ASSUME tries = 0 PROVE Begun'
    OBVIOUS
  <2>1. Fair(r) /\ Unseen(r, level, next)
    BY <1>1 DEF FirstTry, Begun
  <2>2. Fair(r') /\ Unseen(r', level, next)
    BY <1>4, <2>1, SameFair DEF SameResources, Unseen
  <2>3. Fair(r)' /\ Unseen(r, level, next)'
    BY <1>1, <2>2 DEF Fair, Lost, NoneFor, AllTaken, Below, NoWindowLeft, High, Unseen, ToCome
  <2> QED
    BY <1>2, <1>4, <2>3 DEF Begun
<1> QED
  BY <1>1, <1>2, <1>3, <1>5 DEF FirstTry, Ended

LEMMA PrioritizeFirst ==
  ASSUME Inv, FirstTry, setResourcePriority
  PROVE  FirstTry'
<1>1. /\ Given /\ Firm(kind, r) /\ pc = "prioritize" /\ pc' = "test"
      /\ UNCHANGED <<kind, mBlendingNoneIndex, lowFps, tries, level, next>>
  BY DEF Inv, setResourcePriority
<1>2. LowFpsLow'
  BY <1>1 DEF FirstTry, LowFpsLow, High, In
<1>3. ASSUME tries = 0
      PROVE  r' = r \/ r'.ret = "changed"
  <2>1. ~r.exynos.has
    BY <1>1, <1>3 DEF FirstTry, Begun
  <2> DEFINE alone == {l \in M2mSources(r, Single) : r.type[l] = "DEVICE"}
             u == resetAssignedResource(r, alone)
             s == giveUp(r, alone, Single)
  <2>2. r' = r \/ r' = s
    BY <2>1 DEF setResourcePriority
  <2>3. s.ret = "changed"
    <3>1. DOMAIN u = DOMAIN r
      BY <1>1 DEF resetAssignedResource, Firm, Assignment
    <3> DEFINE v == [u EXCEPT !.type = [l \in Layer |-> IF l \in alone THEN "DEVICE" ELSE @[l]],
                              !.busy = @ \cup {Single}]
    <3>2. s = [v EXCEPT !.ret = "changed"]
      BY <1>1, <3>1 DEF giveUp, Firm, Assignment
    <3>3. DOMAIN v = DOMAIN r
      BY <3>1
    <3> HIDE DEF s, v
    <3> QED
      BY <1>1, <3>2, <3>3 DEF Firm, Assignment
  <2> QED
    BY <2>2, <2>3
<1>4. tries = 0 => Begun'
  BY <1>1, <1>3
     DEF FirstTry, Begun, Fair, Lost, NoneFor, AllTaken, Below, NoWindowLeft, High
<1> QED
  BY <1>1, <1>2, <1>4 DEF FirstTry, Ended

LEMMA TestAgainFirst ==
  ASSUME Inv, FirstTry, TestAgain
  PROVE  FirstTry'
<1>1. /\ pc = "test" /\ r' = r /\ tries' = tries + 1 /\ tries \in Nat
      /\ UNCHANGED <<kind, mBlendingNoneIndex, lowFps, level, next>>
  BY ParametersOK DEF Inv, TestAgain
<1>2. LowFpsLow'
  BY <1>1 DEF FirstTry, LowFpsLow, High, In
<1>3. tries' # 0 /\ (tries' = 1 => tries = 0)
  BY <1>1
<1>4. pc' \in {"try", "error", "update"} /\ (pc' = "update" => r.ret # "changed")
  BY ParametersOK DEF TestAgain, Inv
<1>5. tries' = 1 => Ended'
  BY <1>1, <1>3, <1>4
     DEF FirstTry, Begun, Ended, Fair, Lost, NoneFor, AllTaken, Below, NoWindowLeft, High
<1> QED
  BY <1>2, <1>3, <1>5 DEF FirstTry

LEMMA FinishFirst ==
  ASSUME Inv, FirstTry, Finish
  PROVE  FirstTry'
<1> DEFINE s == updateExynosComposition(r)
           t == updateClientComposition(s)
<1>1. /\ Given /\ Sound(kind, r) /\ pc = "update" /\ Updated(t)
      /\ UNCHANGED <<kind, mBlendingNoneIndex, lowFps, tries, level, next>>
  BY DEF Inv, Finish, Trying
<1>2. pc' \in {"error", "assigned"} /\ (pc' = "assigned" => r' = assignWindow(t))
  BY <1>1 DEF Updated
<1>3. LowFpsLow'
  BY <1>1 DEF FirstTry, LowFpsLow, High, In
<1>4. ASSUME tries = 1, pc' = "assigned"
      PROVE  Ranked(r')
  <2>1. ~r.exynos.has /\ Fair(r)
    BY <1>1, <1>4 DEF FirstTry, Ended
  <2>2. s = r
    BY <2>1 DEF updateExynosComposition
  <2>3. Ranked(t)
    BY <1>1, <2>1, <2>2, UpdateClientRanked
  <2>4. Firm(kind, t)
    BY <1>1, <2>2, UpdateClientFirm DEF Sound, Steady, Firm
  <2> HIDE DEF t
  <2>5. SameResources(t, assignWindow(t))
    BY <1>1, <2>4, WindowsFirm
  <2> QED
    BY <1>2, <1>4, <2>3, <2>5, SameFair
<1>5. Ranked(r') => Ranked(r)'
  BY <1>1 DEF Ranked, Lost, Below, High
<1> QED
  BY <1>1, <1>2, <1>3, <1>4, <1>5 DEF FirstTry, Begun, Ended

(* Then all layers are the client's, and none has an MPP.                  *)
LEMMA FallbackFirst ==
  ASSUME Inv, FirstTry, Fallback
  PROVE  FirstTry'
<1>1. /\ Given /\ pc' = "done"
      /\ UNCHANGED <<kind, mBlendingNoneIndex, lowFps, tries, level, next>>
  BY DEF Inv, Fallback
<1>2. LowFpsLow'
  BY <1>1 DEF FirstTry, LowFpsLow, High, In
<1>3. \A l \in Layer : r'.otf[l] = None
  BY FallbackPut
<1>4. Ranked(r)'
  BY <1>1, <1>3, Priorities, NotMPPs DEF Ranked, Below, High, Lost
<1> QED
  BY <1>1, <1>2, <1>4 DEF FirstTry, Begun, Ended

LEMMA NextFirst == Inv /\ FirstTry /\ [Next]_vars => FirstTry'
<1> SUFFICES ASSUME Inv, FirstTry, [Next]_vars PROVE FirstTry'
  OBVIOUS
<1>1. CASE StartFrame
  BY <1>1, StartFirst
<1>2. CASE Present
  BY <1>2 DEF Present, FirstTry, LowFpsLow, Begun, Ended, NoRange, In
<1>3. CASE UNCHANGED vars
  BY <1>3 DEF vars, FirstTry, LowFpsLow, Begun, Ended, Untried, Fair, Ranked, Lost, NoneFor,
     AllTaken, Below, NoWindowLeft, High, Unseen, ToCome, In
<1>4. CASE startPostProcessing
  BY <1>4 DEF startPostProcessing, FirstTry, LowFpsLow, Begun, Ended, Ranked, Lost, Below,
     High, In
<1>5. CASE Assign /\ ~startPostProcessing
  BY <1>5, AskedFirst, TryFirst, LayerFirst, NextLevelFirst, TargetFirst, PrioritizeFirst,
     TestAgainFirst, FinishFirst, FallbackFirst DEF Assign
<1> QED
  BY <1>1, <1>2, <1>3, <1>4, <1>5 DEF Next

(* When the first try works out, no layer of high priority went to the     *)
(* client while one of lower priority has an MPP that supports it.         *)
THEOREM NoneOutranked == Spec => []NoInversion
<1>1. Init => Inv /\ FirstTry
  BY InitInv, InitFirst
<1>2. (Inv /\ FirstTry) /\ [Next]_vars => (Inv /\ FirstTry)'
  BY NextInv, NextFirst
<1>3. Inv /\ FirstTry => NoInversion
  BY DEF FirstTry, Ended, Ranked, Lost, Below, NoInversion, Done
<1> QED
  BY <1>1, <1>2, <1>3, PTL DEF Spec

=============================================================================
