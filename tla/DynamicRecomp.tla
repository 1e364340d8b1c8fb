---------------------------- MODULE DynamicRecomp ----------------------------
(***************************************************************************)
(* The life of ExynosDevice's dynamic recomposition thread: who creates    *)
(* it, how it is told to end, and who waits for it.  What the thread does  *)
(* to the frames (it changes the geometry) is an action of FrameProtocol.  *)
(*                                                                         *)
(* A display takes part while mDREnable is set, that is while it is on and *)
(* its panel does not refresh itself.  setPowerMode() creates the thread   *)
(* with the first such display and destroys it with the last, and          *)
(* validateDisplay() creates it when it is missing.  All of these run on   *)
(* the client's thread, one call after the other; setDynamicRecomposition()*)
(* is called by the HWC service's thread.                                  *)
(*                                                                         *)
(* The thread counts itself in mDRThreadStatus, and its creator sets       *)
(* mDRLoopStatus after pthread_create(): how fast the new thread is        *)
(* decides what the next reader finds.  It may be as slow or as fast as it *)
(* likes; two history variables record that a call found it uncounted, or  *)
(* that it found the flag not set yet, and the properties say what goes    *)
(* wrong only then.                                                        *)
(***************************************************************************)
EXTENDS Integers

CONSTANTS
  Display,
  DRDefault,        \* the displays whose panel has no self refresh
  Thread,           \* the threads there can be
  NoThread,         \* the value of mDRThread before the first one
  StatusAtStart,    \* what mDRThreadStatus, never initialised, can hold
  LoopAtStart       \* what mDRLoopStatus, never initialised, can hold

ASSUME ParametersOK ==
  /\ DRDefault \subseteq Display
  /\ NoThread \notin Thread
  /\ StatusAtStart \subseteq Int
  /\ LoopAtStart \subseteq BOOLEAN

VARIABLES
  constructed,       \* the constructor of ExynosDevice has returned
  useDynamicRecomp,  \* exynosHWCControl.useDynamicRecomp
  mDREnable,         \* the displays on which it is set
  mDRLoopStatus,
  mDRThreadStatus,
  mDRThread,
  stage,             \* [Thread -> how far the thread is]
  client,            \* how far the client is in its call
  overlooked,        \* history: a call has read mDRThreadStatus while a
                     \* thread that was created had not counted itself
  tooFast            \* history: a thread has left because its creator had
                     \* not set mDRLoopStatus yet

history == <<overlooked, tooFast>>

vars == <<constructed, useDynamicRecomp, mDREnable, mDRLoopStatus,
          mDRThreadStatus, mDRThread, stage, client, history>>

(***************************************************************************)
(* The stages of a thread: not created; created, but not counted; counted  *)
(* and about to test mDRLoopStatus; in the body of the loop; out of the    *)
(* loop, but still counted; returned, but not joined.                      *)
(***************************************************************************)
Stage == {"none", "created", "testing", "sleeping", "leaving", "ended"}

Live == {t \in Thread : stage[t] \in Stage \ {"none", "ended"}}

Uncounted == {t \in Thread : stage[t] = "created"}

(* The threads that have not found the flag cleared.                       *)
Running == {t \in Thread : stage[t] \in {"created", "testing", "sleeping"}}

TypeOK ==
  /\ {constructed, useDynamicRecomp, mDRLoopStatus} \subseteq BOOLEAN
  /\ {overlooked, tooFast} \subseteq BOOLEAN
  /\ mDREnable \subseteq DRDefault
  /\ mDRThreadStatus \in Int
  /\ mDRThread \in Thread \cup {NoThread}
  /\ stage \in [Thread -> Stage]
  /\ client \in {"idle", "creating", "joining"}

Init ==
  /\ constructed = FALSE
  /\ useDynamicRecomp = FALSE
  /\ mDREnable = {}
  /\ mDRLoopStatus \in LoopAtStart
  /\ mDRThreadStatus \in StatusAtStart
  /\ mDRThread = NoThread
  /\ stage = [t \in Thread |-> "none"]
  /\ client = "idle"
  /\ overlooked = FALSE /\ tooFast = FALSE

(* A mutant: one thread is not enough to be alive.                         *)
aliveAboveOne == mDRThreadStatus > 1

isDynamicRecompositionThreadAlive == mDRThreadStatus > 0

(***************************************************************************)
(* dynamicRecompositionThreadCreate().  When pthread_create() succeeds the *)
(* new thread runs while the creator has yet to set the flag (SetLoop).    *)
(***************************************************************************)
Spawn(t) ==
  /\ stage[t] = "none"
  /\ stage' = [stage EXCEPT ![t] = "created"]
  /\ mDRThread' = t
  /\ client' = "creating"
  /\ UNCHANGED mDRLoopStatus

(* A mutant: a failure is taken for a success.                             *)
SpawnFailureIgnored ==
  /\ mDRLoopStatus' = TRUE
  /\ UNCHANGED <<stage, mDRThread, client>>

SpawnFails ==
  /\ mDRLoopStatus' = FALSE
  /\ UNCHANGED <<stage, mDRThread, client>>

NothingToDo == UNCHANGED <<mDRLoopStatus, stage, mDRThread, client>>

dynamicRecompositionThreadCreate(on) ==
  \/ ~on /\ NothingToDo
  \/ on /\ SpawnFails
  \/ on /\ \E t \in Thread : Spawn(t)

SetLoop ==
  /\ client = "creating"
  /\ mDRLoopStatus' = TRUE
  /\ client' = "idle"
  /\ UNCHANGED <<constructed, useDynamicRecomp, mDREnable, mDRThreadStatus,
                 mDRThread, stage, history>>

(***************************************************************************)
(* The constructor looks at mDREnable before initDeviceInterface() has     *)
(* found out about the panel and set it.                                   *)
(***************************************************************************)
Construct ==
  /\ ~constructed
  /\ constructed' = TRUE
  /\ useDynamicRecomp' = (mDREnable # {})
  /\ dynamicRecompositionThreadCreate(mDREnable # {})
  /\ mDREnable' = DRDefault
  /\ UNCHANGED <<mDRThreadStatus, history>>

(* The client may make its next call.                                      *)
Idle == constructed /\ client = "idle"

ReadsStatus ==
  /\ overlooked' = (overlooked \/ Uncounted # {})
  /\ UNCHANGED tooFast

(* A mutant: the thread is not told to end.                                *)
DestroyUntold ==
  /\ client' = "joining"
  /\ UNCHANGED <<mDRLoopStatus, stage, mDRThread>>

(* A mutant: the thread is told to end, but not waited for.                *)
DestroyUnawaited ==
  /\ mDRLoopStatus' = FALSE
  /\ UNCHANGED <<client, stage, mDRThread>>

(***************************************************************************)
(* checkDynamicRecompositionThread(), for the displays that are now        *)
(* enabled.  pthread_join() is Joined.                                     *)
(***************************************************************************)
Destroy ==
  /\ mDRLoopStatus' = FALSE
  /\ client' = "joining"
  /\ UNCHANGED <<stage, mDRThread>>

checkDynamicRecompositionThread(enabled) ==
  \/ /\ ~isDynamicRecompositionThreadAlive /\ enabled # {}
     /\ dynamicRecompositionThreadCreate(useDynamicRecomp)
  \/ /\ isDynamicRecompositionThreadAlive /\ enabled = {}
     /\ Destroy
  \/ /\ isDynamicRecompositionThreadAlive <=> enabled # {}
     /\ NothingToDo

(* A mutant: the display's panel is not asked.                             *)
EnabledWhenOn(d, on) == IF on THEN mDREnable \cup {d} ELSE mDREnable \ {d}

Enabled(d, on) ==
  IF on THEN mDREnable \cup ({d} \cap DRDefault) ELSE mDREnable \ {d}

setPowerMode(d, on) ==
  /\ Idle
  /\ mDREnable' = Enabled(d, on)
  /\ checkDynamicRecompositionThread(mDREnable')
  /\ ReadsStatus
  /\ UNCHANGED <<constructed, useDynamicRecomp, mDRThreadStatus>>

(***************************************************************************)
(* Joining a thread twice, or thread 0, is undefined: here it returns.     *)
(***************************************************************************)
Joined ==
  /\ client = "joining"
  /\ mDRThread \in Thread => stage[mDRThread] \in {"ended", "none"}
  /\ stage' = [t \in Thread |-> IF t = mDRThread THEN "none" ELSE stage[t]]
  /\ client' = "idle"
  /\ UNCHANGED <<constructed, useDynamicRecomp, mDREnable, mDRLoopStatus,
                 mDRThreadStatus, mDRThread, history>>

(* The part of validateDisplay(), of any display, that looks at the thread.*)
validateDisplay ==
  /\ Idle
  /\ useDynamicRecomp
  /\ ~isDynamicRecompositionThreadAlive
  /\ ~mDRLoopStatus
  /\ dynamicRecompositionThreadCreate(useDynamicRecomp)
  /\ ReadsStatus
  /\ UNCHANGED <<constructed, useDynamicRecomp, mDREnable, mDRThreadStatus>>

setDynamicRecomposition(on) ==
  /\ constructed
  /\ useDynamicRecomp' = on
  /\ UNCHANGED <<constructed, mDREnable, mDRLoopStatus, mDRThreadStatus,
                 mDRThread, stage, client, history>>

(***************************************************************************)
(* dynamicRecompositionThreadLoop()                                        *)
(***************************************************************************)
Move(t, from, to) ==
  /\ stage[t] = from
  /\ stage' = [stage EXCEPT ![t] = to]
  /\ UNCHANGED <<constructed, useDynamicRecomp, mDREnable, mDRLoopStatus,
                 mDRThread, client, overlooked>>

Start(t) ==
  /\ Move(t, "created", "testing")
  /\ mDRThreadStatus' = mDRThreadStatus + 1
  /\ UNCHANGED tooFast

TestLoop(t) ==
  /\ Move(t, "testing", IF mDRLoopStatus THEN "sleeping" ELSE "leaving")
  /\ tooFast' = \/ tooFast
                \/ ~mDRLoopStatus /\ client = "creating" /\ t = mDRThread
  /\ UNCHANGED mDRThreadStatus

CheckDisplays(t) ==
  /\ Move(t, "sleeping", "testing")
  /\ UNCHANGED <<mDRThreadStatus, tooFast>>

Leave(t) ==
  /\ Move(t, "leaving", "ended")
  /\ mDRThreadStatus' = mDRThreadStatus - 1
  /\ UNCHANGED tooFast

dynamicRecompositionThreadLoop(t) ==
  Start(t) \/ TestLoop(t) \/ CheckDisplays(t) \/ Leave(t)

Next ==
  \/ Construct
  \/ \E d \in Display, on \in BOOLEAN : setPowerMode(d, on)
  \/ Joined
  \/ SetLoop
  \/ validateDisplay
  \/ \E on \in BOOLEAN : setDynamicRecomposition(on)
  \/ \E t \in Thread : dynamicRecompositionThreadLoop(t)

(***************************************************************************)
(* The kernel runs every thread that can run: the threads of the loop, and *)
(* the client in the middle of a call.                                     *)
(***************************************************************************)
Fairness ==
  /\ WF_vars(Joined)
  /\ WF_vars(SetLoop)
  /\ \A t \in Thread : WF_vars(dynamicRecompositionThreadLoop(t))

Spec == Init /\ [][Next]_vars

FairSpec == Spec /\ Fairness

-----------------------------------------------------------------------------
(* There is at most one thread.                                            *)
OneThread == \A t, u \in Live : t = u

(* There are two threads only after a power change or a validation read    *)
(* the count between a pthread_create() and the first instructions of that *)
(* thread, in whatever order everything else happens: whoever creates one  *)
(* has seen otherwise that the last one is gone.                           *)
TwoOnlyIfOverlooked == OneThread \/ overlooked

(* Between two calls mDRLoopStatus, once a thread was created, tells that  *)
(* there is one which goes on, unless a thread tested it before its creator *)
(* had set it.  validateDisplay() relies on it: it creates no thread while *)
(* the flag is set.                                                        *)
LoopHasThread ==
  client = "idle" /\ mDRLoopStatus /\ mDRThread \in Thread
    => Running # {} \/ tooFast

(* Every created thread is joined, and once: what has ended is what        *)
(* mDRThread still names, unless a thread was overlooked or too fast; and  *)
(* pthread_join() is only called on a thread that was created and not      *)
(* joined yet, unless one was overlooked.                                  *)
EndedIsJoined ==
  /\ \A t \in Thread :
       stage[t] = "ended" => mDRThread = t \/ overlooked \/ tooFast
  /\ client = "joining" =>
       \/ mDRThread \in Thread /\ stage[mDRThread] # "none"
       \/ overlooked

(* When the setPowerMode() that turns off the last display returns, the    *)
(* thread is gone, and nothing of it runs while the displays are off,      *)
(* unless this call or an earlier one overlooked a thread.                 *)
LastOffDestroys ==
  [][(client' = "idle" /\ mDREnable' = {} /\
        (client = "joining" \/ mDREnable # {}))
       => Live' = {} \/ overlooked']_vars

(* setPowerMode() returns: it waits for a thread that it told to end, and  *)
(* nobody tells the thread otherwise, however slow it was to start.        *)
PowerModeReturns == client = "joining" ~> client # "joining"

(* There is no thread while no display wants one: "If thread is running    *)
(* and all displays turnned off DR, destroy the thread."                   *)
NoThreadWhenOff == client = "idle" /\ mDREnable = {} => Live = {}

(* "If Panel has not self-refresh feature, dynamic recomposition will be   *)
(* enabled."                                                               *)
EnabledByPanel ==
  [][~constructed /\ constructed' => (useDynamicRecomp' <=> DRDefault # {})]_vars
=============================================================================
