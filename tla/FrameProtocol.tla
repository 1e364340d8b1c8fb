---------------------------- MODULE FrameProtocol ----------------------------
(***************************************************************************)
(* The HWC2 entry points (ExynosHWC.cpp) that drive FrameCore, called by   *)
(* one client thread (SurfaceFlinger through the composer service), while  *)
(* the event thread plugs displays in and out and the dynamic              *)
(* recomposition thread changes the geometry.                              *)
(*                                                                         *)
(* The client refreshes the displays it knows to be on one after the       *)
(* other; for each it writes layer state and calls presentDisplay at once  *)
(* (falling back to validateDisplay) or validateDisplay, then              *)
(* acceptDisplayChanges and presentDisplay.                                *)
(*                                                                         *)
(* An entry point reads mPlugState before it takes a display's lock, and   *)
(* validateDisplays() takes one lock after the other; call records how far *)
(* the current entry point has got, and other threads run in between.      *)
(***************************************************************************)
EXTENDS FrameCore

CONSTANT mDisplays   \* the displays in the order ExynosDevice keeps them

ASSUME DisplaysInjective ==
  /\ mDisplays \in Seq(Display)
  /\ \A d \in Display : \E i \in DOMAIN mDisplays : mDisplays[i] = d
  /\ \A i, j \in DOMAIN mDisplays : mDisplays[i] = mDisplays[j] => i = j

VARIABLES
  mHWCRenderingState,  \* what the entry points last did
  call,                \* the entry point in progress
  clientOn,            \* displays the client composes
  refresh,             \* displays still to compose in this refresh
  current,             \* {} or the display being composed
  stage,               \* how far the client is with it
  result               \* what the last presentDisplay of current did

entryVars  == <<mHWCRenderingState, call, result>>
clientVars == <<clientOn, refresh, current, stage>>
vars == <<coreVars, entryVars, clientVars>>

NoCall == [op |-> "none"]
Calls ==
  {NoCall}
    \cup [op : {"forceValidate", "skipValidate", "present", "forcePresent"},
          on : Display]
    \cup [op : {"validateAll"}, on : Display, left : 1 .. Len(mDisplays)]

Stage == {"writing", "mustValidate", "validated", "accepted"}

EntryTypeOK ==
  /\ mHWCRenderingState \in [Display -> RenderingState]
  /\ call \in Calls
  /\ clientOn \subseteq Display
  /\ refresh \subseteq Display
  /\ current \in {{}} \cup {{d} : d \in Display}
  /\ stage \in Stage
  /\ result \in Outcome

TypeOK == CoreTypeOK /\ EntryTypeOK

Init ==
  /\ CoreInit
  /\ mHWCRenderingState = [d \in Display |-> "NONE"]
  /\ call = NoCall
  /\ clientOn = {}
  /\ refresh = {}
  /\ current = {}
  /\ stage = "writing"
  /\ result = "none"

Idle == call = NoCall
Composing(d) == Idle /\ current = {d}
Between == Idle /\ current = {} /\ refresh = {}

SetHWCState(d, s) ==
  mHWCRenderingState' = [mHWCRenderingState EXCEPT ![d] = s]

-----------------------------------------------------------------------------
(* The client between two entry points.                                    *)

StartRefresh ==
  /\ Between
  /\ clientOn # {}
  /\ refresh' = clientOn
  /\ UNCHANGED <<coreVars, entryVars, clientOn, current, stage>>

PickDisplay(d) ==
  /\ Idle /\ current = {}
  /\ d \in refresh
  /\ current' = {d}
  /\ stage' = "writing"
  /\ result' = "none"
  /\ UNCHANGED <<coreVars, mHWCRenderingState, call, clientOn, refresh>>

WriteLayer(d) ==
  /\ Composing(d) /\ stage = "writing"
  /\ ChangeGeometry(d)
  /\ \E some \in BOOLEAN :
        mLayers' = IF some THEN mLayers \cup ({d} \cap Virtual)
                           ELSE mLayers \ {d}
  /\ UNCHANGED <<mRenderingState, validateFlag, presentFlag, mNeedSkipPresent,
                 mNeedSkipValidatePresent, mIsSkipFrame, mSkipStartFrame,
                 powered, mPlugState, mResChanged, entryVars, clientVars>>

WriteDisplayFrame(d) ==
  /\ Composing(d) /\ stage = "writing"
  /\ \E moved \in BOOLEAN : SetDisplayFrame(d, moved)
  /\ UNCHANGED <<mRenderingState, mNeedSkipPresent, mNeedSkipValidatePresent,
                 mIsSkipFrame, mSkipStartFrame, powered, mPlugState, mLayers,
                 mResChanged, entryVars, clientVars>>

(* The client is done with d, or goes on with the given stage.             *)
Done(d) ==
  /\ current' = {}
  /\ refresh' = refresh \ {d}
  /\ stage' = "writing"
  /\ UNCHANGED clientOn

GoOn(s) == stage' = s /\ UNCHANGED <<clientOn, refresh, current>>

-----------------------------------------------------------------------------
(* exynos_validateDisplay                                                  *)

CallValidate(d) ==
  /\ Composing(d) /\ stage \in {"writing", "mustValidate"}
  /\ \/ /\ d \notin mPlugState
        /\ mNeedSkipValidatePresent' = mNeedSkipValidatePresent \cup {d}
        /\ call' = [op |-> "forceValidate", on |-> d]
     \/ /\ d \in mPlugState /\ isFirstValidate
        /\ call' = [op |-> "validateAll", on |-> d, left |-> Len(mDisplays)]
        /\ UNCHANGED mNeedSkipValidatePresent
     \/ /\ d \in mPlugState /\ ~isFirstValidate /\ d \notin validateFlag
        /\ mNeedSkipValidatePresent' = mNeedSkipValidatePresent \cup {d}
        /\ call' = [op |-> "skipValidate", on |-> d]
  /\ UNCHANGED <<mRenderingState, validateFlag, presentFlag, mNeedSkipPresent,
                 mIsSkipFrame, mSkipStartFrame, powered, mPlugState, mLayers,
                 mResChanged, geometryChanged, resources,
                 mHWCRenderingState, result, clientVars>>

(* A mutant: the rendering state is left as the last present left it.      *)
AlreadyValidatedAsIs(d) ==
  /\ Composing(d) /\ stage \in {"writing", "mustValidate"}
  /\ d \in mPlugState /\ ~isFirstValidate /\ d \in validateFlag
  /\ mNeedSkipValidatePresent' = mNeedSkipValidatePresent \ {d}
  /\ SetHWCState(d, "VALIDATED")
  /\ GoOn("validated")
  /\ UNCHANGED <<mRenderingState, validateFlag, presentFlag, mNeedSkipPresent,
                 mIsSkipFrame, mSkipStartFrame, powered, mPlugState, mLayers,
                 mResChanged, geometryChanged, resources, call, result>>

(* Already validated by the first validate of another display.             *)
AlreadyValidated(d) ==
  /\ Composing(d) /\ stage \in {"writing", "mustValidate"}
  /\ d \in mPlugState /\ ~isFirstValidate /\ d \in validateFlag
  /\ mNeedSkipValidatePresent' = mNeedSkipValidatePresent \ {d}
  /\ SetRenderingState(d, "VALIDATED")
  /\ SetHWCState(d, "VALIDATED")
  /\ GoOn("validated")
  /\ UNCHANGED <<validateFlag, presentFlag, mNeedSkipPresent, mIsSkipFrame,
                 mSkipStartFrame, powered, mPlugState, mLayers, mResChanged,
                 geometryChanged, resources, call, result>>

ValidateReturns(d) ==
  /\ call' = NoCall
  /\ SetHWCState(d, "VALIDATED")
  /\ GoOn("validated")
  /\ UNCHANGED result

forceSkipValidateDisplay(d) ==
  /\ call = [op |-> "forceValidate", on |-> d]
  /\ SetRenderingState(d, "VALIDATED")
  /\ validateFlag' = validateFlag \ {d}
  /\ ValidateReturns(d)
  /\ UNCHANGED <<presentFlag, mNeedSkipPresent, mNeedSkipValidatePresent,
                 mIsSkipFrame, mSkipStartFrame, powered, mPlugState, mLayers,
                 mResChanged, geometryChanged, resources>>

(* Powered on after the first validate: skipped in this frame.             *)
SkippedValidate(d) ==
  /\ call = [op |-> "skipValidate", on |-> d]
  /\ ValidateDisplay(d, TRUE)
  /\ ValidateReturns(d)
  /\ UNCHANGED <<mNeedSkipValidatePresent, powered, mPlugState, mLayers>>

(* One turn of the loop of validateDisplays(), which goes from the last    *)
(* display to the first one; first is the display the client asked for.    *)
validateDisplays(first) ==
  /\ call.op = "validateAll" /\ call.on = first
  /\ LET d == mDisplays[call.left]
         skipped == d # first /\ ~Enabled(d)
         presented == d # first /\ d \in mNeedSkipPresent \cap presentFlag
     IN /\ mNeedSkipValidatePresent' = IF skipped THEN mNeedSkipValidatePresent
                                       ELSE mNeedSkipValidatePresent \ {d}
        /\ IF skipped \/ presented
           THEN UNCHANGED <<mRenderingState, validateFlag, presentFlag,
                            mNeedSkipPresent, mIsSkipFrame, mSkipStartFrame,
                            mResChanged, geometryChanged, resources>>
           ELSE ValidateDisplay(d, FALSE)
  /\ IF call.left = 1
     THEN ValidateReturns(first)
     ELSE /\ call' = [call EXCEPT !.left = @ - 1]
          /\ UNCHANGED <<mHWCRenderingState, result, clientVars>>
  /\ UNCHANGED <<powered, mPlugState, mLayers>>

-----------------------------------------------------------------------------
(* exynos_acceptDisplayChanges.  The entry point records the acceptance    *)
(* even when the display refuses it.                                       *)

Accepted(d) ==
  IF mRenderingState[d] = "VALIDATED"
  THEN SetRenderingState(d, "ACCEPTED_CHANGE")
  ELSE UNCHANGED mRenderingState

acceptDisplayChanges(d) ==
  /\ Composing(d) /\ stage = "validated"
  /\ Accepted(d)
  /\ SetHWCState(d, "ACCEPTED_CHANGE")
  /\ GoOn("accepted")
  /\ UNCHANGED <<validateFlag, presentFlag, mNeedSkipPresent,
                 mNeedSkipValidatePresent, mIsSkipFrame, mSkipStartFrame,
                 powered, mPlugState, mLayers, mResChanged, geometryChanged, resources, call, result>>

-----------------------------------------------------------------------------
(* exynos_presentDisplay                                                   *)

CallPresent(d) ==
  /\ Composing(d) /\ stage # "mustValidate"
  /\ IF mHWCRenderingState[d] = "VALIDATED"
     THEN Accepted(d) ELSE UNCHANGED mRenderingState
  /\ IF d \in mPlugState
     THEN /\ call' = [op |-> "present", on |-> d]
          /\ UNCHANGED mNeedSkipValidatePresent
     ELSE /\ mNeedSkipValidatePresent' = mNeedSkipValidatePresent \cup {d}
          /\ call' = [op |-> IF wasRenderingStateFlagsCleared
                             THEN "forcePresent" ELSE "present", on |-> d]
  /\ UNCHANGED <<validateFlag, presentFlag, mNeedSkipPresent, mIsSkipFrame,
                 mSkipStartFrame, powered, mPlugState, mLayers, mResChanged,
                 geometryChanged, resources, mHWCRenderingState,
                 result, clientVars>>

(* After an error of the first present the client validates the display;   *)
(* after an error of the second one it gives the frame up.                 *)
PresentReturns(d, outcome) ==
  /\ call' = NoCall
  /\ SetHWCState(d, "PRESENTED")
  /\ result' = outcome
  /\ IF stage = "writing" /\ outcome \in {"notValidated", "failed"}
     THEN GoOn("mustValidate")
     ELSE Done(d)

presentDisplay(d) ==
  /\ call = [op |-> "present", on |-> d]
  /\ \E outcome \in Outcome :
        PresentDisplay(d, outcome) /\ PresentReturns(d, outcome)
  /\ UNCHANGED <<powered, mPlugState, mLayers>>

forceSkipPresentDisplay(d) ==
  /\ call = [op |-> "forcePresent", on |-> d]
  /\ SetRenderingState(d, "PRESENTED")
  /\ presentFlag' = presentFlag \ {d}
  /\ PresentReturns(d, "skipped")
  /\ UNCHANGED <<validateFlag, mNeedSkipPresent, mNeedSkipValidatePresent,
                 mIsSkipFrame, mSkipStartFrame, powered, mPlugState, mLayers,
                 mResChanged, geometryChanged, resources>>

-----------------------------------------------------------------------------
(* Between two refreshes the client powers displays on and off, changes    *)
(* the resolution, creates and destroys virtual displays, and drops the    *)
(* displays that were unplugged.                                           *)

setPowerModeOff(d) ==
  /\ Between
  /\ \/ PowerOff(d) /\ clientOn' = clientOn \ {d}
     \/ PowerOffFails(d) /\ UNCHANGED clientOn
  /\ UNCHANGED <<entryVars, refresh, current, stage>>

setPowerModeOn(d) ==
  /\ Between
  /\ PowerOn(d)
  /\ clientOn' = clientOn \cup {d}
  /\ UNCHANGED <<entryVars, refresh, current, stage>>

DropUnplugged(d) ==
  /\ Between
  /\ d \in clientOn \cap External
  /\ ~Enabled(d)
  /\ clientOn' = clientOn \ {d}
  /\ UNCHANGED <<coreVars, entryVars, refresh, current, stage>>

setActiveConfig(d) ==
  /\ Between
  /\ ChangeResolution(d)
  /\ UNCHANGED <<entryVars, clientVars>>

StartVirtual(d) ==
  /\ Between
  /\ createVirtualDisplay(d)
  /\ clientOn' = clientOn \cup {d}
  /\ UNCHANGED <<entryVars, refresh, current, stage>>

StopVirtual(d) ==
  /\ Between
  /\ destroyVirtualDisplay(d)
  /\ clientOn' = clientOn \ {d}
  /\ UNCHANGED <<entryVars, refresh, current, stage>>

(* The event thread and the dynamic recomposition thread, at any time.     *)
Hotplug(d) ==
  /\ Plug(d) \/ Unplug(d)
  /\ UNCHANGED <<entryVars, clientVars>>

dynamicRecompositionThreadLoop(d) ==
  /\ d \in Primary \cap mPlugState
  /\ ChangeGeometry(d)
  /\ UNCHANGED <<mRenderingState, validateFlag, presentFlag, mNeedSkipPresent,
                 mNeedSkipValidatePresent, mIsSkipFrame, mSkipStartFrame,
                 powered, mPlugState, mLayers, mResChanged,
                 entryVars, clientVars>>

-----------------------------------------------------------------------------
Compose(d) ==
  \/ PickDisplay(d)
  \/ CallValidate(d) \/ AlreadyValidated(d)
  \/ forceSkipValidateDisplay(d) \/ SkippedValidate(d) \/ validateDisplays(d)
  \/ acceptDisplayChanges(d)
  \/ CallPresent(d) \/ presentDisplay(d) \/ forceSkipPresentDisplay(d)

Write(d) == WriteLayer(d) \/ WriteDisplayFrame(d)

Configure(d) ==
  \/ setPowerModeOff(d) \/ setPowerModeOn(d) \/ DropUnplugged(d)
  \/ setActiveConfig(d) \/ StartVirtual(d) \/ StopVirtual(d)

Next ==
  \/ StartRefresh
  \/ \E d \in Display :
        Compose(d) \/ Write(d) \/ Configure(d) \/ Hotplug(d)
          \/ dynamicRecompositionThreadLoop(d)

Spec == Init /\ [][Next]_vars

-----------------------------------------------------------------------------
(* Properties.                                                             *)

Presents(d, outcome) ==
  call = [op |-> "present", on |-> d] /\ call' = NoCall /\ result' = outcome

HasLayers(d) == d \in Virtual => d \in mLayers

(* A primary or external display that is on is never shown with resources  *)
(* that a later first validate took back (prepareResources()), unless it   *)
(* missed an assignment itself.                                            *)
ShownOwnsResources ==
  [][\A d \in Primary \cup External :
        Presents(d, "shown") /\ Enabled(d) => resources[d] # "none"]_vars

(* When a frame is shown without validation (canSkipValidate()), no        *)
(* display that is on was left without resources by an earlier assignment. *)
SkippedValidateOwnsAll ==
  [][\A d \in Display :
        Presents(d, "shown") /\ Enabled(d) /\ stage = "writing"
          => \A e \in Display :
                Enabled(e) /\ HasLayers(e) => resources[e] # "none"]_vars

(* While an external display that is on skips its frames, the geometry     *)
(* flag stays set between the entry points, so that the first frame it     *)
(* shows is assigned (setGeometryFlagForSkipFrame()).                      *)
SkippedKeepsGeometry ==
  \A d \in External : Idle /\ Enabled(d) /\ d \in Skipping => geometryChanged

(* What a display owes the client in the middle of its frame: once it is   *)
(* its turn in validateDisplays(), and until the client has accepted the   *)
(* result, no other display and no other thread takes its state back, and  *)
(* so it is with the acceptance until it is presented.  A display that is  *)
(* changing its resolution may have dropped the validation.                *)
OwnTurnOver(d) ==
  /\ call.op = "validateAll" /\ call.on = d
  /\ \E k \in DOMAIN mDisplays : mDisplays[k] = d /\ call.left < k

RoundKept ==
  /\ call # NoCall => current = {call.on}
  /\ \A d \in Display \ mResChanged :
        /\ OwnTurnOver(d) => mRenderingState[d] = "VALIDATED"
        /\ Composing(d) /\ stage = "validated" => mRenderingState[d] = "VALIDATED"
        /\ /\ stage = "accepted"
           /\ Composing(d) \/ call = [op |-> "present", on |-> d]
           => mRenderingState[d] = "ACCEPTED_CHANGE"

(* A display that the client has validated and accepted is not sent back   *)
(* for validation (HWC2_ERROR_NOT_VALIDATED), unless it still owes a       *)
(* skipped frame after power off or is changing its resolution.            *)
AcceptedNotRefused ==
  [][\A d \in Display :
        Presents(d, "notValidated") /\ stage = "accepted"
          => d \in mNeedSkipPresent \cup mResChanged]_vars

(* The client contract (FrameContract): a frame the composer has validated *)
(* is not sent back for validation, whatever the other threads do to its   *)
(* display in the meantime.                                                *)
ContractOf == [d \in Display |->
  IF current = {d} /\ stage \in {"validated", "accepted"} THEN stage ELSE "none"]

Client == INSTANCE FrameContract WITH
  promise <- ContractOf,
  excused <- mNeedSkipPresent \cup mResChanged,
  answer <- result

Contract == Client!ContractSpec

(* setPresentAndClearRenderingStatesFlags(): the geometry flag is cleared  *)
(* in the last present "so that present can return                         *)
(* HWC2_ERROR_NOT_VALIDATED if geometry is changed in current frame".      *)
ChangedIsNotShown ==
  [][\A d \in Display :
        Presents(d, "shown") /\ Enabled(d) => resources[d] # "stale"]_vars

(* exynos_validateDisplay(): a display powered on after the first validate *)
(* skips validate and present in this frame.                               *)
LatecomerNotShown ==
  [][\A d \in External :
        Presents(d, "shown") /\ Enabled(d) => resources[d] # "missed"]_vars

(* ... and only in this frame: the first present of the next frame is not  *)
(* skipped any more.                                                       *)
SkipLastsOneFrame ==
  [][\A d \in Display :
        Presents(d, "skipped") /\ Enabled(d) /\ wasRenderingStateFlagsCleared
          => d \notin mNeedSkipValidatePresent]_vars

(* canSkipValidate(): "All display's validateDisplay should be skipped or  *)
(* all display's validateDisplay should not be skipped", so the entry       *)
(* point of one display never validates again a display whose frame was    *)
(* presented without validation in the same refresh.                       *)
SkipAllOrNone ==
  [][\A d \in clientOn \ refresh :
        /\ Enabled(d)
        /\ d \in presentFlag \ (validateFlag \cup Skipping)
        /\ mRenderingState[d] = "PRESENTED"
        => d \notin validateFlag']_vars
=============================================================================
