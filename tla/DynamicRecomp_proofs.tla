------------------------ MODULE DynamicRecomp_proofs ------------------------
(***************************************************************************)
(* Theorems about DynamicRecomp.  None assumes anything of the timing of   *)
(* the threads; those about mDRThreadStatus say what it has to hold when   *)
(* the object is made, since nothing initialises it.                       *)
(***************************************************************************)
EXTENDS DynamicRecomp, TLAPS

(* The stages in which a thread has counted itself.                        *)
Counted == {"testing", "sleeping", "leaving"}

(* mDRThread names a thread in one of the stages S.                        *)
NamedIn(S) == mDRThread \in Thread /\ stage[mDRThread] \in S

Going == {"created", "testing", "sleeping"}

NothingBefore == ~constructed => client = "idle" /\ mDREnable = {}

(* Until a thread is overlooked, the one mDRThread names is the only one,  *)
(* and mDRThreadStatus counts it.                                          *)
CountKept ==
  ~overlooked =>
    /\ \A t \in Thread : stage[t] \notin {"none", "ended"} => t = mDRThread
    /\ \E n \in StatusAtStart :
         mDRThreadStatus = n + IF NamedIn(Counted) THEN 1 ELSE 0

(* Until a thread is too fast, the flag is only set for a thread that goes *)
(* on, overlooked or not.                                                  *)
FlagKept ==
  ~tooFast =>
    /\ client = "creating" => NamedIn(Going)
    /\ client # "creating" /\ mDRLoopStatus /\ mDRThread \in Thread =>
         \E t \in Thread : stage[t] \in Going

(* What is joined is counted, or was when it was told to end.              *)
JoinKept ==
  ~overlooked /\ client = "joining" => NamedIn(Counted \cup {"ended"})

(* Until either happens, nothing else than the named thread is left over,  *)
(* and between two calls the flag tells whether that one exists.           *)
NamedKept ==
  ~overlooked /\ ~tooFast =>
    /\ \A t \in Thread : t # mDRThread => stage[t] = "none"
    /\ client = "creating" => NamedIn(Going)
    /\ client = "joining" => ~mDRLoopStatus
    /\ client = "idle" =>
         IF mDRLoopStatus /\ mDRThread \in Thread THEN NamedIn(Going)
         ELSE \A t \in Thread : stage[t] = "none"

CountInv == TypeOK /\ NothingBefore /\ CountKept

FlagInv == TypeOK /\ NothingBefore /\ FlagKept

IInv == CountInv /\ JoinKept /\ NamedKept

-----------------------------------------------------------------------------
(* Every step of the thread, of the client and of the service keeps the    *)
(* types, whatever the members hold at first.                              *)
LEMMA TypeStep == TypeOK /\ [Next]_vars => TypeOK'
<1> SUFFICES ASSUME TypeOK, [Next]_vars PROVE TypeOK'
  OBVIOUS
<1> USE ParametersOK DEF TypeOK, Stage, history, ReadsStatus
<1>1. CASE Construct
  BY <1>1 DEF Construct, dynamicRecompositionThreadCreate, Spawn, SpawnFails,
              NothingToDo
<1>2. ASSUME NEW d \in Display, NEW on \in BOOLEAN, setPowerMode(d, on)
      PROVE TypeOK'
  BY <1>2 DEF setPowerMode, Enabled, checkDynamicRecompositionThread, Destroy,
              dynamicRecompositionThreadCreate, Spawn, SpawnFails, NothingToDo
<1>3. CASE Joined
  BY <1>3 DEF Joined
<1>4. CASE SetLoop
  BY <1>4 DEF SetLoop
<1>5. CASE validateDisplay
  BY <1>5 DEF validateDisplay, dynamicRecompositionThreadCreate, Spawn,
              SpawnFails, NothingToDo
<1>6. ASSUME NEW on \in BOOLEAN, setDynamicRecomposition(on) PROVE TypeOK'
  BY <1>6 DEF setDynamicRecomposition
<1>7. ASSUME NEW t \in Thread, dynamicRecompositionThreadLoop(t) PROVE TypeOK'
  <2>1. CASE Start(t)
    BY <2>1 DEF Start, Move
  <2>2. CASE TestLoop(t)
    BY <2>2 DEF TestLoop, Move
  <2>3. CASE CheckDisplays(t)
    BY <2>3 DEF CheckDisplays, Move
  <2>4. CASE Leave(t)
    BY <2>4 DEF Leave, Move
  <2> QED
    BY <1>7, <2>1, <2>2, <2>3, <2>4 DEF dynamicRecompositionThreadLoop
<1>8. CASE UNCHANGED vars
  BY <1>8 DEF vars
<1> QED
  BY <1>1, <1>2, <1>3, <1>4, <1>5, <1>6, <1>7, <1>8 DEF Next

(* The members keep their types, whatever they hold at first and however   *)
(* fast the threads are.                                                   *)
THEOREM TypesKept == Spec => []TypeOK
<1>1. Init => TypeOK
  BY ParametersOK DEF Init, TypeOK, Stage
<1> QED
  BY <1>1, TypeStep, PTL DEF Spec

-----------------------------------------------------------------------------
(* A call that creates keeps the count: it has seen that nothing is        *)
(* counted, and has overlooked whatever is created but not counted.        *)
LEMMA CreateCounts ==
  ASSUME StatusAtStart \subseteq Nat, CountInv, Idle, ReadsStatus,
         ~isDynamicRecompositionThreadAlive,
         NEW on \in BOOLEAN, dynamicRecompositionThreadCreate(on),
         constructed' = constructed, mDRThreadStatus' = mDRThreadStatus
  PROVE  NothingBefore' /\ CountKept'
<1> USE ParametersOK DEF CountInv, TypeOK, Stage, NothingBefore, CountKept,
    NamedIn, Counted, ReadsStatus, Uncounted, Idle
<1>1. CASE NothingToDo
  BY <1>1 DEF NothingToDo
<1>2. CASE SpawnFails
  BY <1>2 DEF SpawnFails
<1>3. ASSUME NEW t \in Thread, Spawn(t), ~overlooked'
      PROVE  NothingBefore' /\ CountKept'
  <2>1. ~overlooked /\ \A u \in Thread : stage[u] # "created"
    BY <1>3
  <2>2. ~NamedIn(Counted) /\ mDRThreadStatus \in StatusAtStart
    BY <2>1 DEF isDynamicRecompositionThreadAlive
  <2>3. \A u \in Thread : stage[u] \in {"none", "ended"}
    BY <2>1, <2>2
  <2>4. /\ stage' = [stage EXCEPT ![t] = "created"] /\ mDRThread' = t
        /\ stage'[t] = "created"
    BY <1>3 DEF Spawn
  <2>5. ~NamedIn(Counted)'
    BY <2>4
  <2>6. \A u \in Thread : stage'[u] \notin {"none", "ended"} => u = mDRThread'
    BY <2>3, <2>4
  <2>7. mDRThreadStatus' = mDRThreadStatus + 0
    OBVIOUS
  <2> QED
    BY <2>2, <2>5, <2>6, <2>7
<1>4. ASSUME NEW t \in Thread, Spawn(t), overlooked'
      PROVE  NothingBefore' /\ CountKept'
  BY <1>4
<1> QED
  BY <1>1, <1>2, <1>3, <1>4 DEF dynamicRecompositionThreadCreate

(* Every step keeps the count, whatever the timing.                        *)
LEMMA CountStep ==
  ASSUME StatusAtStart \subseteq Nat, CountInv, [Next]_vars PROVE CountInv'
<1>1. TypeOK'
  BY TypeStep DEF CountInv
<1> USE ParametersOK DEF CountInv, TypeOK, Stage, NothingBefore, CountKept,
    NamedIn, Counted, history
<1>2. CASE Construct
  BY <1>1, <1>2 DEF Construct, dynamicRecompositionThreadCreate, NothingToDo
<1>3. ASSUME NEW d \in Display, NEW on \in BOOLEAN, setPowerMode(d, on)
      PROVE  CountInv'
  <2>1. Idle /\ ReadsStatus /\ constructed' = constructed /\ overlooked' \in BOOLEAN
        /\ mDRThreadStatus' = mDRThreadStatus
        /\ (~overlooked' => ~overlooked)
    BY <1>3 DEF setPowerMode, ReadsStatus
  <2>2. CASE ~isDynamicRecompositionThreadAlive /\
             dynamicRecompositionThreadCreate(useDynamicRecomp)
    BY <1>1, <2>1, <2>2, CreateCounts
  <2>3. CASE Destroy
    BY <1>1, <2>1, <2>3 DEF Destroy, Idle
  <2>4. CASE NothingToDo
    BY <1>1, <2>1, <2>4 DEF NothingToDo, Idle
  <2> QED
    BY <1>3, <2>2, <2>3, <2>4 DEF setPowerMode, checkDynamicRecompositionThread
<1>4. CASE Joined
  BY <1>1, <1>4 DEF Joined
<1>5. CASE SetLoop
  BY <1>1, <1>5 DEF SetLoop
<1>6. CASE validateDisplay
  BY <1>1, <1>6, CreateCounts DEF validateDisplay
<1>7. ASSUME NEW on \in BOOLEAN, setDynamicRecomposition(on) PROVE CountInv'
  BY <1>1, <1>7 DEF setDynamicRecomposition
<1>8. ASSUME NEW t \in Thread, dynamicRecompositionThreadLoop(t)
      PROVE  CountInv'
  <2> USE DEF Move
  <2>1. /\ constructed' = constructed /\ client' = client
        /\ mDREnable' = mDREnable /\ mDRThread' = mDRThread
        /\ overlooked' = overlooked
    BY <1>8 DEF dynamicRecompositionThreadLoop, Start, TestLoop, CheckDisplays,
                Leave
  <2>2. CASE overlooked
    BY <1>1, <2>1, <2>2
  <2>3. CASE ~overlooked
    <3>1. t = mDRThread
      BY <1>8, <2>3 DEF dynamicRecompositionThreadLoop, Start, TestLoop,
                        CheckDisplays, Leave
    <3>2. CASE Start(t)
      BY <1>1, <2>1, <3>1, <3>2 DEF Start
    <3>3. CASE TestLoop(t)
      BY <1>1, <2>1, <3>1, <3>3 DEF TestLoop
    <3>4. CASE CheckDisplays(t)
      BY <1>1, <2>1, <3>1, <3>4 DEF CheckDisplays
    <3>5. CASE Leave(t)
      BY <1>1, <2>1, <3>1, <3>5 DEF Leave
    <3> QED
      BY <1>8, <3>2, <3>3, <3>4, <3>5 DEF dynamicRecompositionThreadLoop
  <2> QED
    BY <2>2, <2>3
<1>9. CASE UNCHANGED vars
  BY <1>1, <1>9 DEF vars
<1> QED
  BY <1>2, <1>3, <1>4, <1>5, <1>6, <1>7, <1>8, <1>9 DEF Next

LEMMA CountHolds ==
  ASSUME StatusAtStart \subseteq Nat PROVE Spec => []CountInv
<1>1. Init => CountInv
  <2> SUFFICES ASSUME Init PROVE CountInv
    OBVIOUS
  <2>1. TypeOK /\ NothingBefore /\ ~NamedIn(Counted)
    BY ParametersOK DEF Init, TypeOK, Stage, NothingBefore, NamedIn, Counted
  <2>2. /\ \A t \in Thread : stage[t] = "none"
        /\ mDRThreadStatus \in StatusAtStart /\ mDRThreadStatus = mDRThreadStatus + 0
    BY <2>1 DEF Init, TypeOK
  <2> QED
    BY <2>1, <2>2 DEF CountInv, CountKept
<1>2. CountInv /\ [Next]_vars => CountInv'
  BY CountStep
<1> QED
  BY <1>1, <1>2, PTL DEF Spec

-----------------------------------------------------------------------------
(* Every step keeps what the flag says, whatever the timing and whatever   *)
(* the members held at first.                                              *)
LEMMA FlagStep == ASSUME FlagInv, [Next]_vars PROVE FlagInv'
<1>1. TypeOK'
  BY TypeStep DEF FlagInv
<1> USE ParametersOK DEF FlagInv, TypeOK, Stage, NothingBefore, FlagKept,
    NamedIn, Going, history
<1>2. ASSUME NEW on \in BOOLEAN, dynamicRecompositionThreadCreate(on),
             client = "idle", tooFast' = tooFast
      PROVE  FlagKept' /\ client' \in {"idle", "creating"}
  <2>1. CASE NothingToDo
    BY <1>2, <2>1 DEF NothingToDo
  <2>2. CASE SpawnFails
    BY <1>2, <2>2 DEF SpawnFails
  <2>3. ASSUME NEW t \in Thread, Spawn(t)
        PROVE  FlagKept' /\ client' \in {"idle", "creating"}
    BY <1>2, <2>3 DEF Spawn
  <2> QED
    BY <1>2, <2>1, <2>2, <2>3 DEF dynamicRecompositionThreadCreate
<1>3. CASE Construct
  BY <1>1, <1>2, <1>3 DEF Construct
<1>4. ASSUME NEW d \in Display, NEW on \in BOOLEAN, setPowerMode(d, on)
      PROVE  FlagInv'
  <2>1. Idle /\ constructed' /\ tooFast' = tooFast
    BY <1>4 DEF setPowerMode, ReadsStatus, Idle
  <2>2. CASE dynamicRecompositionThreadCreate(useDynamicRecomp)
    BY <1>1, <1>2, <2>1, <2>2 DEF Idle
  <2>3. CASE Destroy
    BY <1>1, <2>1, <2>3 DEF Destroy
  <2>4. CASE NothingToDo
    BY <1>1, <2>1, <2>4 DEF NothingToDo
  <2> QED
    BY <1>4, <2>2, <2>3, <2>4 DEF setPowerMode, checkDynamicRecompositionThread
<1>5. CASE Joined
  BY <1>1, <1>5 DEF Joined
<1>6. CASE SetLoop
  BY <1>1, <1>6 DEF SetLoop
<1>7. CASE validateDisplay
  BY <1>1, <1>2, <1>7 DEF validateDisplay, Idle, ReadsStatus
<1>8. ASSUME NEW on \in BOOLEAN, setDynamicRecomposition(on) PROVE FlagInv'
  BY <1>1, <1>8 DEF setDynamicRecomposition
<1>9. ASSUME NEW t \in Thread, dynamicRecompositionThreadLoop(t)
      PROVE  FlagInv'
  <2> USE DEF Move
  <2>1. CASE Start(t)
    BY <1>1, <2>1 DEF Start
  <2>2. CASE TestLoop(t)
    BY <1>1, <2>2 DEF TestLoop
  <2>3. CASE CheckDisplays(t)
    BY <1>1, <2>3 DEF CheckDisplays
  <2>4. CASE Leave(t)
    BY <1>1, <2>4 DEF Leave
  <2> QED
    BY <1>9, <2>1, <2>2, <2>3, <2>4 DEF dynamicRecompositionThreadLoop
<1>10. CASE UNCHANGED vars
  BY <1>1, <1>10 DEF vars
<1> QED
  BY <1>3, <1>4, <1>5, <1>6, <1>7, <1>8, <1>9, <1>10 DEF Next

LEMMA FlagHolds == Spec => []FlagInv
<1>1. Init => FlagInv
  BY ParametersOK DEF Init, FlagInv, TypeOK, Stage, NothingBefore, FlagKept,
     NamedIn
<1>2. FlagInv /\ [Next]_vars => FlagInv'
  BY FlagStep
<1> QED
  BY <1>1, <1>2, PTL DEF Spec

-----------------------------------------------------------------------------
(* A call that creates finds no thread left over: nothing is counted, what *)
(* is uncounted is overlooked now, and what has ended was joined.          *)
LEMMA CreateNames ==
  ASSUME StatusAtStart = {0}, IInv, Idle, ReadsStatus,
         ~isDynamicRecompositionThreadAlive,
         NEW on \in BOOLEAN, dynamicRecompositionThreadCreate(on)
  PROVE  JoinKept' /\ NamedKept'
<1> USE ParametersOK DEF IInv, CountInv, TypeOK, Stage, CountKept, JoinKept,
    NamedKept, NamedIn, Counted, Going, ReadsStatus, Uncounted, Idle
<1> SUFFICES ASSUME ~overlooked' PROVE JoinKept' /\ NamedKept'
  OBVIOUS
<1>1. ~overlooked /\ \A u \in Thread : stage[u] # "created"
  OBVIOUS
<1>2. ~NamedIn(Counted)
  BY <1>1 DEF isDynamicRecompositionThreadAlive
<1>3. ~tooFast => \A u \in Thread : stage[u] = "none"
  BY <1>1, <1>2
<1>4. CASE NothingToDo
  BY <1>1, <1>3, <1>4 DEF NothingToDo
<1>5. CASE SpawnFails
  BY <1>1, <1>3, <1>5 DEF SpawnFails
<1>6. ASSUME NEW t \in Thread, Spawn(t) PROVE JoinKept' /\ NamedKept'
  BY <1>1, <1>3, <1>6 DEF Spawn
<1> QED
  BY <1>4, <1>5, <1>6 DEF dynamicRecompositionThreadCreate

(* The thread moves through its stages, and only the one that is joined    *)
(* ends, unless it was too fast.                                           *)
LEMMA ThreadNames ==
  ASSUME StatusAtStart = {0}, IInv, NEW t \in Thread,
         dynamicRecompositionThreadLoop(t)
  PROVE  JoinKept' /\ NamedKept'
<1> USE ParametersOK DEF IInv, CountInv, TypeOK, Stage, CountKept, JoinKept,
    NamedKept, NamedIn, Counted, Going, Move
<1>1. overlooked' = overlooked
  BY DEF dynamicRecompositionThreadLoop, Start, TestLoop, CheckDisplays, Leave
<1> SUFFICES ASSUME ~overlooked PROVE JoinKept' /\ NamedKept'
  BY <1>1
<1>2. t = mDRThread
  BY DEF dynamicRecompositionThreadLoop, Start, TestLoop, CheckDisplays, Leave
<1>3. CASE Start(t)
  BY <1>2, <1>3 DEF Start
<1>4. CASE TestLoop(t)
  BY <1>2, <1>4 DEF TestLoop
<1>5. CASE CheckDisplays(t)
  BY <1>2, <1>5 DEF CheckDisplays
<1>6. CASE Leave(t)
  BY <1>2, <1>6 DEF Leave
<1> QED
  BY <1>3, <1>4, <1>5, <1>6 DEF dynamicRecompositionThreadLoop

LEMMA InvStep == ASSUME StatusAtStart = {0}, IInv, [Next]_vars PROVE IInv'
<1>1. CountInv'
  BY CountStep DEF IInv
<1>2. JoinKept' /\ NamedKept'
  <2> USE ParametersOK DEF IInv, CountInv, TypeOK, Stage, NothingBefore,
      CountKept, JoinKept, NamedKept, NamedIn, Counted, Going, history
  <2>1. CASE Construct
    BY <2>1 DEF Construct, dynamicRecompositionThreadCreate, NothingToDo
  <2>2. ASSUME NEW d \in Display, NEW on \in BOOLEAN, setPowerMode(d, on)
        PROVE  JoinKept' /\ NamedKept'
    <3>1. Idle /\ ReadsStatus
      BY <2>2 DEF setPowerMode
    <3>2. CASE ~isDynamicRecompositionThreadAlive /\
               dynamicRecompositionThreadCreate(useDynamicRecomp)
      BY <3>1, <3>2, CreateNames
    <3>3. CASE isDynamicRecompositionThreadAlive /\ Destroy
      BY <3>1, <3>3 DEF isDynamicRecompositionThreadAlive, Destroy, Idle,
                        ReadsStatus
    <3>4. CASE NothingToDo
      BY <3>1, <3>4 DEF NothingToDo, Idle, ReadsStatus
    <3> QED
      BY <2>2, <3>2, <3>3, <3>4 DEF setPowerMode,
                                    checkDynamicRecompositionThread
  <2>3. CASE Joined
    BY <2>3 DEF Joined
  <2>4. CASE SetLoop
    BY <2>4 DEF SetLoop
  <2>5. CASE validateDisplay
    BY <2>5, CreateNames DEF validateDisplay
  <2>6. CASE \E on \in BOOLEAN : setDynamicRecomposition(on)
    BY <2>6 DEF setDynamicRecomposition
  <2>7. CASE \E t \in Thread : dynamicRecompositionThreadLoop(t)
    BY <2>7, ThreadNames
  <2>8. CASE UNCHANGED vars
    BY <2>8 DEF vars
  <2> QED
    BY <2>1, <2>2, <2>3, <2>4, <2>5, <2>6, <2>7, <2>8 DEF Next
<1> QED
  BY <1>1, <1>2 DEF IInv

LEMMA InvHolds == ASSUME StatusAtStart = {0} PROVE Spec => []IInv
<1>1. CountInv /\ Init => IInv
  BY ParametersOK DEF Init, IInv, CountInv, TypeOK, JoinKept, NamedKept, NamedIn
<1>2. IInv /\ [Next]_vars => IInv'
  BY InvStep
<1>3. Spec => []CountInv
  BY CountHolds
<1> QED
  BY <1>1, <1>2, <1>3, PTL DEF Spec

-----------------------------------------------------------------------------
(* However the threads are scheduled, and whatever number that is not      *)
(* negative mDRThreadStatus holds at first: there are two threads only     *)
(* after a call has read the count between a pthread_create() and the      *)
(* first instructions of its thread.                                       *)
THEOREM NeverTwoThreads ==
  ASSUME StatusAtStart \subseteq Nat PROVE Spec => []TwoOnlyIfOverlooked
<1>1. CountInv => TwoOnlyIfOverlooked
  BY DEF CountInv, CountKept, TwoOnlyIfOverlooked, OneThread, Live, Stage
<1>2. Spec => []CountInv
  BY CountHolds
<1> QED
  BY <1>1, <1>2, PTL

(* However the threads are scheduled, and whatever the members hold at     *)
(* first: validateDisplay() may trust mDRLoopStatus, also when threads     *)
(* were overlooked, unless one left before its creator had set the flag.   *)
THEOREM LoopNeverStale == Spec => []LoopHasThread
<1>1. FlagInv => LoopHasThread
  BY DEF FlagInv, FlagKept, LoopHasThread, Running, Going
<1> QED
  BY <1>1, FlagHolds, PTL

(* However the threads are scheduled, when mDRThreadStatus is zero at      *)
(* first: no thread is lost before one was overlooked or too fast, and     *)
(* pthread_join() is given a created thread that was not joined, before    *)
(* one was overlooked.                                                     *)
THEOREM CreatedIsJoined ==
  ASSUME StatusAtStart = {0} PROVE Spec => []EndedIsJoined
<1>1. IInv => EndedIsJoined
  BY DEF IInv, JoinKept, NamedKept, NamedIn, Counted, EndedIsJoined
<1>2. Spec => []IInv
  BY InvHolds
<1> QED
  BY <1>1, <1>2, PTL

(* However the threads are scheduled, and whatever number that is not      *)
(* negative mDRThreadStatus holds at first: the call that turns off the    *)
(* last display returns without a thread, unless one was overlooked.       *)
THEOREM LastOffLeavesNone ==
  ASSUME StatusAtStart \subseteq Nat PROVE Spec => LastOffDestroys
<1>1. ASSUME CountInv, [Next]_vars,
             client' = "idle", mDREnable' = {},
             client = "joining" \/ mDREnable # {}, ~overlooked'
      PROVE  Live' = {}
  <2> USE ParametersOK DEF CountInv, TypeOK, history
  <2>1. CASE Joined
    BY <1>1, <2>1 DEF Joined, CountKept, Live, Stage
  <2>2. ASSUME NEW d \in Display, NEW on \in BOOLEAN, setPowerMode(d, on)
        PROVE  Live' = {}
    <3>1. ~isDynamicRecompositionThreadAlive /\ NothingToDo
      BY <1>1, <2>2 DEF setPowerMode, checkDynamicRecompositionThread, Destroy,
         Idle
    <3>2. ~overlooked /\ \A t \in Thread : stage[t] # "created"
      BY <1>1, <2>2 DEF setPowerMode, ReadsStatus, Uncounted
    <3>3. ~NamedIn(Counted)
      BY <1>1, <3>1, <3>2 DEF CountKept, isDynamicRecompositionThreadAlive
    <3>4. \A t \in Thread : stage[t] \in {"none", "ended"}
      BY <1>1, <3>2, <3>3 DEF CountKept, NamedIn, Counted, Stage
    <3> QED
      BY <3>1, <3>4 DEF NothingToDo, Live
  <2>3. CASE Construct
    BY <1>1, <2>3 DEF Construct, NothingBefore
  <2>4. CASE SetLoop \/ validateDisplay \/ UNCHANGED vars
    BY <1>1, <2>4 DEF SetLoop, validateDisplay, Idle, vars
  <2>5. CASE \E on \in BOOLEAN : setDynamicRecomposition(on)
    BY <1>1, <2>5 DEF setDynamicRecomposition
  <2>6. CASE \E t \in Thread : dynamicRecompositionThreadLoop(t)
    BY <1>1, <2>6 DEF dynamicRecompositionThreadLoop, Start, TestLoop,
       CheckDisplays, Leave, Move
  <2> QED
    BY <1>1, <2>1, <2>2, <2>3, <2>4, <2>5, <2>6 DEF Next
<1>2. Spec => []CountInv
  BY CountHolds
<1> QED
  BY <1>1, <1>2, PTL DEF Spec, LastOffDestroys
=============================================================================
