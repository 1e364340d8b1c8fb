------------------------------ MODULE Hwc3Frame ------------------------------
(***************************************************************************)
(* The composer 3 service (ComposerCommandEngine, ComposerClient, HalImpl) *)
(* as a second front end of FrameCore.  Unlike the entry points of HWC 2.1 *)
(* it calls each display directly: it looks neither at mPlugState nor at   *)
(* the rendering state flags, never validates a display on behalf of       *)
(* another one, and never sets mNeedSkipValidatePresent.                   *)
(*                                                                         *)
(* The service keeps one flag per display of its own, which a refresh       *)
(* callback sets and a validation clears; presentOrValidateDisplay looks   *)
(* at it.  The callback is called by the hotplug and recomposition         *)
(* threads some time after they changed the display, and by a present      *)
(* that was skipped.                                                       *)
(*                                                                         *)
(* The client behaves as in FrameProtocol, whose actions it shares; of     *)
(* the variables of the HWC 2.1 entry points mHWCRenderingState is unused. *)
(***************************************************************************)
EXTENDS FrameProtocol

CONSTANT HWC_SKIP_VALIDATE   \* the build has the capability SKIP_VALIDATE

ASSUME SkipValidateIsBool == HWC_SKIP_VALIDATE \in BOOLEAN

VARIABLES
  mMustValidate,  \* displays that must be validated before a present
  refreshDue      \* a thread has yet to call the refresh callback

serviceVars == <<mMustValidate, refreshDue>>
hwc3Vars == <<vars, serviceVars>>

Hwc3Calls == {NoCall} \cup [op : {"validated", "present"}, on : Display]

Hwc3TypeOK ==
  /\ CoreTypeOK
  /\ mNeedSkipValidatePresent = {}
  /\ call \in Hwc3Calls
  /\ clientOn \subseteq Display
  /\ refresh \subseteq Display
  /\ current \in {{}} \cup {{d} : d \in Display}
  /\ stage \in Stage
  /\ result \in Outcome
  /\ mMustValidate \subseteq Display
  /\ refreshDue \in BOOLEAN

(* The service follows the displays that come and go.  Whether a new one   *)
(* must be validated is up to the resource library of the platform.        *)
FollowDisplays ==
  \E new \in SUBSET (mPlugState' \ mPlugState) :
     mMustValidate' = (mMustValidate \cap mPlugState') \cup new

Hwc3Init ==
  /\ Init
  /\ mMustValidate \in SUBSET Primary
  /\ refreshDue = FALSE

-----------------------------------------------------------------------------
(* Commands of the client.                                                 *)

(* presentOrValidateDisplay has to validate first.                         *)
MustValidateFirst(d) ==
  /\ Composing(d) /\ stage = "writing"
  /\ ~HWC_SKIP_VALIDATE \/ d \in mMustValidate
  /\ GoOn("mustValidate")
  /\ UNCHANGED <<coreVars, entryVars, serviceVars>>

(* validateDisplay, or the second half of presentOrValidateDisplay.        *)
HalValidate(d) ==
  /\ Composing(d) /\ stage \in {"writing", "mustValidate"}
  /\ ValidateDisplay(d, FALSE)
  /\ call' = [op |-> "validated", on |-> d]
  /\ UNCHANGED <<mNeedSkipValidatePresent, powered, mPlugState, mLayers,
                 mHWCRenderingState, result, clientVars, serviceVars>>

(* The service clears its flag when the display has returned.              *)
ClearMustValidate(d) ==
  /\ call = [op |-> "validated", on |-> d]
  /\ call' = NoCall
  /\ mMustValidate' = mMustValidate \ {d}
  /\ GoOn("validated")
  /\ UNCHANGED <<coreVars, mHWCRenderingState, result, refreshDue>>

HalAccept(d) ==
  /\ Composing(d) /\ stage = "validated"
  /\ Accepted(d)
  /\ GoOn("accepted")
  /\ UNCHANGED <<validateFlag, presentFlag, mNeedSkipPresent,
                 mNeedSkipValidatePresent, mIsSkipFrame, mSkipStartFrame,
                 powered, mPlugState, mLayers, mResChanged, geometryChanged,
                 resources, entryVars, serviceVars>>

(* A mutant: a display that was validated is not accepted on the way.      *)
EnterPresentAsIs(d) ==
  /\ Composing(d)
  /\ \/ stage \in {"validated", "accepted"}
     \/ stage = "writing" /\ HWC_SKIP_VALIDATE /\ d \notin mMustValidate
  /\ call' = [op |-> "present", on |-> d]
  /\ UNCHANGED <<coreVars, mHWCRenderingState, result, clientVars, serviceVars>>

(* presentDisplay, or the first half of presentOrValidateDisplay; it       *)
(* accepts the changes the client has not accepted.                        *)
EnterPresent(d) ==
  /\ Composing(d)
  /\ \/ stage \in {"validated", "accepted"}
     \/ stage = "writing" /\ HWC_SKIP_VALIDATE /\ d \notin mMustValidate
  /\ Accepted(d)
  /\ call' = [op |-> "present", on |-> d]
  /\ UNCHANGED <<validateFlag, presentFlag, mNeedSkipPresent,
                 mNeedSkipValidatePresent, mIsSkipFrame, mSkipStartFrame,
                 powered, mPlugState, mLayers, mResChanged, geometryChanged,
                 resources, mHWCRenderingState, result, clientVars, serviceVars>>

(* handleSkipPresent() calls the refresh callback itself, and so does an   *)
(* external display that drops the frame.                                  *)
SkipsPresent(d, outcome) ==
  \/ d \in mResChanged \cup mNeedSkipPresent
  \/ d \in External /\ outcome = "skipped"

HalPresent(d) ==
  /\ call = [op |-> "present", on |-> d]
  /\ \E outcome \in Outcome :
       /\ PresentDisplay(d, outcome)
       /\ result' = outcome
       /\ IF stage = "writing" /\ outcome \in {"notValidated", "failed"}
          THEN GoOn("mustValidate") ELSE Done(d)
       /\ mMustValidate' = IF SkipsPresent(d, outcome)
                           THEN mMustValidate \cup Primary ELSE mMustValidate
  /\ call' = NoCall
  /\ UNCHANGED <<powered, mPlugState, mLayers, mHWCRenderingState, refreshDue>>

-----------------------------------------------------------------------------
(* Other threads, and what the client shares with FrameProtocol.           *)

(* handleHotplugEvent() asks for a refresh after the hotplug callback.     *)
HotplugEvent(d) ==
  /\ Hotplug(d)
  /\ FollowDisplays
  /\ refreshDue' = TRUE

Recompose(d) ==
  /\ dynamicRecompositionThreadLoop(d)
  /\ refreshDue' = TRUE
  /\ UNCHANGED mMustValidate

(* The callback is always about the primary display.                       *)
onRefresh ==
  /\ refreshDue
  /\ refreshDue' = FALSE
  /\ mMustValidate' = mMustValidate \cup Primary
  /\ UNCHANGED vars

SharedClient ==
  /\ \/ StartRefresh
     \/ \E d \in Display : PickDisplay(d) \/ Write(d) \/ Configure(d)
  /\ FollowDisplays
  /\ UNCHANGED refreshDue

Command(d) ==
  \/ MustValidateFirst(d) \/ HalValidate(d) \/ ClearMustValidate(d)
  \/ HalAccept(d) \/ EnterPresent(d) \/ HalPresent(d)

Hwc3Next ==
  \/ SharedClient
  \/ onRefresh
  \/ \E d \in Display :
        Command(d) \/ HotplugEvent(d) \/ Recompose(d)

Hwc3Spec == Hwc3Init /\ [][Hwc3Next]_hwc3Vars

-----------------------------------------------------------------------------
(* Properties.                                                             *)

(* The client contract holds for the composer 3 service as well.           *)
Hwc3Contract == Client!ContractSpec

(* ExynosDevice::canSkipValidate(): "Resource assignment can have problem   *)
(* if validateDisplay is skipped on only some displays", so a display that *)
(* is shown without validation has the resources of its last one.          *)
SkippedOwnsResources ==
  [][\A d \in Primary \cup External :
        Presents(d, "shown") /\ Enabled(d) /\ stage = "writing"
          => resources[d] # "none"]_hwc3Vars

(* ExynosDisplay::validateDisplay(): "isFirstValidate() should be checked  *)
(* only before setting validateFlag".                                      *)
CheckedBeforeFlag ==
  [][\A d \in Display :
        call = NoCall /\ call' = [op |-> "validated", on |-> d]
          => d \notin validateFlag]_hwc3Vars
=============================================================================
