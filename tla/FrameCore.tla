------------------------------ MODULE FrameCore ------------------------------
(***************************************************************************)
(* The part of the HWC 2.1 composer that decides, display by display, when *)
(* a frame is validated, presented or skipped (ExynosDevice, ExynosDisplay *)
(* and its external and virtual subclasses).                               *)
(*                                                                         *)
(* A boolean member of ExynosDisplay is modelled by the set of displays on *)
(* which it is true.  Layers, buffers and fences are abstracted, and so is  *)
(* the resource assignment, of which a history variable keeps what a       *)
(* display holds:                                                          *)
(*   "none"   - nothing since prepareResources() took every resource back, *)
(*   "fresh"  - what it got from its last assignment,                      *)
(*   "stale"  - the same, but its geometry has changed since,              *)
(*   "missed" - it missed an assignment: it came on in the middle of a     *)
(*              round of frames, its validation was dropped, or a failed   *)
(*              power-off dropped the geometry change that would have      *)
(*              caused one.                                                *)
(* The front ends (FrameProtocol, and others to come) say when the         *)
(* operations below are called.                                            *)
(***************************************************************************)
EXTENDS Naturals, Sequences, FiniteSets

CONSTANTS Primary, External, Virtual,  \* the displays, by HWC_DISPLAY_* type
          SkipExternalFrame            \* SKIP_EXTERNAL_FRAME

Display == Primary \cup External \cup Virtual

ASSUME TypesDisjoint ==
  /\ Primary \cap External = {}
  /\ Primary \cap Virtual = {}
  /\ External \cap Virtual = {}

ASSUME SkipIsNat == SkipExternalFrame \in Nat

RenderingState == {"NONE", "VALIDATED", "ACCEPTED_CHANGE", "PRESENTED"}
Holding == {"none", "fresh", "stale", "missed"}

VARIABLES
  mRenderingState,           \* [Display -> RenderingState]
  validateFlag, presentFlag, \* mRenderingStateFlags
  mNeedSkipPresent,
  mNeedSkipValidatePresent,
  mIsSkipFrame,
  mSkipStartFrame,           \* [External -> 0 .. SkipExternalFrame]
  powered,                   \* mPowerModeState is not HWC_POWER_MODE_OFF
  mPlugState,
  mResChanged,
  mLayers,                   \* virtual displays that have a layer
  geometryChanged,           \* ExynosDevice::mGeometryChanged is not 0
  resources

frameVars == <<mRenderingState, validateFlag, presentFlag, mNeedSkipPresent,
               mNeedSkipValidatePresent, mIsSkipFrame, mSkipStartFrame,
               mResChanged, geometryChanged, resources>>
coreVars  == <<frameVars, powered, mPlugState, mLayers>>

CoreTypeOK ==
  /\ mRenderingState \in [Display -> RenderingState]
  /\ validateFlag \subseteq Display
  /\ presentFlag \subseteq Display
  /\ mNeedSkipPresent \subseteq Display
  /\ mNeedSkipValidatePresent \subseteq Display
  /\ mIsSkipFrame \subseteq External \cup Virtual
  /\ mSkipStartFrame \in [External -> 0 .. SkipExternalFrame]
  /\ powered \subseteq Primary \cup External
  /\ mPlugState \subseteq Display
  /\ mResChanged \subseteq Primary
  /\ mLayers \subseteq Virtual
  /\ geometryChanged \in BOOLEAN
  /\ resources \in [Display -> Holding]

(* The primary display is always plugged in; it and the others wait for    *)
(* the client to power them on.                                            *)
CoreInit ==
  /\ mRenderingState = [d \in Display |-> "NONE"]
  /\ validateFlag = {}
  /\ presentFlag = {}
  /\ mNeedSkipPresent = {}
  /\ mNeedSkipValidatePresent = {}
  /\ mIsSkipFrame = {}
  /\ mSkipStartFrame = [d \in External |-> 0]
  /\ powered = {}
  /\ mPlugState = Primary
  /\ mResChanged = {}
  /\ mLayers = {}
  /\ geometryChanged = FALSE
  /\ resources = [d \in Display |-> "none"]

-----------------------------------------------------------------------------
(* The displays that take part in the frame.                               *)
Enabled(d) == d \in mPlugState /\ (d \in Virtual \/ d \in powered)

(* A mutant: as long as any display is left to validate.                   *)
isFirstValidateUntilAll ==
  \E e \in Display : Enabled(e) /\ e \notin validateFlag

isFirstValidate == \A e \in Display : Enabled(e) => e \notin validateFlag

isLastPresent(d) == \A e \in Display \ {d} : Enabled(e) => e \in presentFlag

wasRenderingStateFlagsCleared == validateFlag = {} /\ presentFlag = {}

SetRenderingState(d, s) == mRenderingState' = [mRenderingState EXCEPT ![d] = s]

(* What the displays in ds hold is from now on h.                          *)
Holds(ds, h) ==
  resources' = [e \in Display |-> IF e \in ds THEN h ELSE resources[e]]

GoesStale(ds) == Holds({e \in ds : resources[e] = "fresh"}, "stale")

(* What e holds after prepareResources().                                  *)
TakenBack(e) == IF resources[e] = "missed" THEN "missed" ELSE "none"

(* A mutant: skipped displays do not keep the geometry flag.               *)
ClearFlagsOfSkipped(d, skipping, later) ==
  IF isLastPresent(d)
  THEN validateFlag' = {} /\ presentFlag' = {} /\ geometryChanged' = later
  ELSE /\ presentFlag' = presentFlag \cup {d}
       /\ geometryChanged' = (later \/ geometryChanged)
       /\ UNCHANGED validateFlag

(* setPresentAndClearRenderingStatesFlags() on d.  skipping holds the      *)
(* displays that skip their frame; later tells that the caller sets the    *)
(* geometry flag itself afterwards.                                        *)
SetPresentAndClearFlags(d, skipping, later) ==
  IF isLastPresent(d)
  THEN /\ validateFlag' = {}
       /\ presentFlag' = {}
       /\ geometryChanged' = (later \/ \E e \in skipping : Enabled(e))
  ELSE /\ presentFlag' = presentFlag \cup {d}
       /\ geometryChanged' = (later \/ geometryChanged)
       /\ UNCHANGED validateFlag

Skipping == mIsSkipFrame \cup mNeedSkipPresent \cup mNeedSkipValidatePresent

-----------------------------------------------------------------------------
(* validateDisplay().  g and needSkip are mGeometryChanged and             *)
(* mNeedSkipPresent as the subclass leaves them for ExynosDisplay's own    *)
(* body; skip is mNeedSkipValidatePresent of d when it is called.          *)

(* The frame is dropped until the layers cover the new resolution.         *)
DropValidate(d, g, needSkip) ==
  /\ d \in mResChanged
  /\ geometryChanged' = g
  /\ mNeedSkipPresent' = needSkip
  /\ Holds({d}, "missed")
  /\ UNCHANGED <<mRenderingState, validateFlag, mResChanged>>

SkipValidate(d, g, needSkip) ==
  /\ SetRenderingState(d, "VALIDATED")
  /\ validateFlag' = validateFlag \cup {d}
  /\ mResChanged' = mResChanged \ {d}
  /\ geometryChanged' = g
  /\ mNeedSkipPresent' = needSkip
  /\ UNCHANGED resources

(* changed: preprocessing the layers found a change (priority, fps).       *)
(* failed: some step failed and every layer goes to client composition.    *)
AssignValidate(d, g, needSkip, changed, failed) ==
  LET assigning == g \/ changed
  IN /\ SetRenderingState(d, "VALIDATED")
     /\ validateFlag' = validateFlag \cup {d}
     /\ mResChanged' = mResChanged \ {d}
     /\ mNeedSkipPresent' = needSkip \ {d}
     /\ geometryChanged' = (assigning \/ failed)
     /\ resources' =
          [e \in Display |->
             IF e = d /\ (assigning \/ failed) THEN "fresh"
             ELSE IF e # d /\ assigning /\ isFirstValidate THEN TakenBack(e)
             ELSE resources[e]]

BaseValidate(d, skip, g, needSkip) ==
  \/ DropValidate(d, g, needSkip)
  \/ skip /\ SkipValidate(d, g, needSkip)
  \/ ~skip /\ \E changed, failed \in BOOLEAN :
                  AssignValidate(d, g, needSkip, changed, failed)

PrimaryValidate(d, skip) ==
  /\ d \in Primary
  /\ BaseValidate(d, skip, geometryChanged, mNeedSkipPresent)
  /\ UNCHANGED <<mIsSkipFrame, mSkipStartFrame>>

(* A mutant: one start frame too many is skipped.                          *)
StartingOnceMore(d) == mSkipStartFrame[d] <= SkipExternalFrame

Starting(d) == mSkipStartFrame[d] < SkipExternalFrame

(* The first SkipExternalFrame frames are validated but not shown.         *)
ExternalValidate(d, skip) ==
  /\ d \in External \cap mPlugState
  /\ BaseValidate(d, skip, geometryChanged \/ Starting(d), mNeedSkipPresent \ {d})
  /\ mIsSkipFrame' = IF Starting(d) THEN mIsSkipFrame \cup {d} ELSE mIsSkipFrame \ {d}
  /\ mSkipStartFrame' = IF Starting(d) THEN [mSkipStartFrame EXCEPT ![d] = @ + 1]
                                       ELSE mSkipStartFrame

(* The display was unplugged after the caller had looked at mPlugState.    *)
UnpluggedValidate(d) ==
  /\ d \in External \ mPlugState
  /\ resources' = [e \in Display |-> IF isFirstValidate THEN TakenBack(e)
                                     ELSE resources[e]]
  /\ geometryChanged' = TRUE
  /\ SetRenderingState(d, "VALIDATED")
  /\ validateFlag' = validateFlag \cup {d}
  /\ mNeedSkipPresent' = mNeedSkipPresent \ {d}
  /\ mIsSkipFrame' = mIsSkipFrame \cup {d}
  /\ UNCHANGED <<mSkipStartFrame, mResChanged>>

(* noFrame: no layer, or the Wi-Fi display session is not (or no longer) up. *)
VirtualValidate(d, skip) ==
  /\ d \in Virtual
  /\ BaseValidate(d, skip, geometryChanged, mNeedSkipPresent)
  /\ \E noFrame \in BOOLEAN :
        /\ d \notin mLayers => noFrame
        /\ mIsSkipFrame' = IF noFrame THEN mIsSkipFrame \cup {d}
                                ELSE mIsSkipFrame \ {d}
  /\ UNCHANGED mSkipStartFrame

ValidateDisplay(d, skip) ==
  /\ \/ PrimaryValidate(d, skip)
     \/ ExternalValidate(d, skip)
     \/ UnpluggedValidate(d)
     \/ VirtualValidate(d, skip)
  /\ UNCHANGED presentFlag

-----------------------------------------------------------------------------
(* presentDisplay().  outcome is what the call did:                        *)
(*   "shown"        the frame went to the display driver,                  *)
(*   "skipped"      HWC2_ERROR_NONE, and nothing was shown,                *)
(*   "notValidated" HWC2_ERROR_NOT_VALIDATED,                              *)
(*   "failed"       another error.                                         *)
Outcome == {"none", "shown", "skipped", "notValidated", "failed"}

handleSkipPresent(d, needSkip, outcome) ==
  /\ outcome = IF d \in mNeedSkipValidatePresent \/ mRenderingState[d] = "NONE"
               THEN "skipped" ELSE "notValidated"
  /\ SetRenderingState(d, "PRESENTED")
  /\ IF outcome = "skipped"
     THEN SetPresentAndClearFlags(d, Skipping \cup needSkip, FALSE)
     ELSE UNCHANGED <<validateFlag, presentFlag, geometryChanged>>
  /\ mNeedSkipPresent' = needSkip
  /\ UNCHANGED <<mIsSkipFrame, resources>>

(* A mutant: only the display that is presented is asked.                  *)
canSkipWithoutAsking == ~geometryChanged

(* ExynosDevice::canSkipValidate(), as far as this state decides it.       *)
canSkipValidate ==
  /\ ~geometryChanged
  /\ \A e \in mPlugState :
        /\ mRenderingState[e] # "NONE"
        /\ e \in External => /\ e \notin mIsSkipFrame
                             /\ mSkipStartFrame[e] = SkipExternalFrame
        /\ e \in Virtual => e \in mLayers

(* Client layers, display requests, a missing target buffer, or the        *)
(* preprocessing of a plugged display (which may change the geometry) can  *)
(* refuse to skip validation in any state.                                 *)
NotValidated(d, outcome) ==
  /\ outcome = "notValidated"
  /\ mRenderingState[d] # "ACCEPTED_CHANGE"
  /\ SetRenderingState(d, "NONE")
  /\ \E changed \in SUBSET mPlugState :
        /\ Cardinality(changed) <= 1
        /\ geometryChanged' = (geometryChanged \/ changed # {})
        /\ GoesStale(changed)
  /\ UNCHANGED <<validateFlag, presentFlag, mNeedSkipPresent, mIsSkipFrame>>

MayPresent(d) == mRenderingState[d] = "ACCEPTED_CHANGE" \/ canSkipValidate

(* The frame reaches the driver, or composing it fails on the way, which   *)
(* is marked as an error in the geometry, or the driver refuses it, which  *)
(* is not.                                                                 *)
CommitFrame(d, outcome) ==
  /\ outcome \in {"shown", "failed"}
  /\ MayPresent(d)
  /\ \E error \in BOOLEAN :
       /\ error => outcome = "failed"
       /\ SetPresentAndClearFlags(d, Skipping, error)
  /\ SetRenderingState(d, "PRESENTED")
  /\ UNCHANGED <<mNeedSkipPresent, mIsSkipFrame, resources>>

(* switch: a pending resolution change is applied during the present.      *)
BasePresent(d, outcome) ==
  \/ /\ d \in mResChanged
     /\ handleSkipPresent(d, mNeedSkipPresent \cup {d}, outcome)
     /\ UNCHANGED mResChanged
  \/ /\ d \in mNeedSkipPresent \cup mNeedSkipValidatePresent
     /\ handleSkipPresent(d, mNeedSkipPresent, outcome)
     /\ mResChanged' = mResChanged \ {d}
  \/ /\ d \notin mNeedSkipPresent \cup mNeedSkipValidatePresent
     /\ \/ /\ NotValidated(d, outcome)
           /\ mResChanged' = mResChanged \ {d}
        \/ /\ CommitFrame(d, outcome)
           /\ \E switch \in SUBSET ({d} \cap Primary) :
                 mResChanged' = (mResChanged \ {d}) \cup switch

(* External and virtual displays drop the frame when mIsSkipFrame is set   *)
(* (external: also when unplugged); after that an external display starts  *)
(* over from RENDERING_STATE_NONE.                                         *)
DropPresent(d, outcome) ==
  /\ d \notin mNeedSkipPresent \cup mNeedSkipValidatePresent
  /\ d \in mIsSkipFrame \/ d \in External \ mPlugState
  /\ \/ NotValidated(d, outcome)
     \/ /\ outcome = "skipped"
        /\ MayPresent(d)
        /\ SetPresentAndClearFlags(d, Skipping, FALSE)
        /\ SetRenderingState(d, IF d \in External THEN "NONE" ELSE "PRESENTED")
        /\ mIsSkipFrame' = mIsSkipFrame \ (Virtual \cap {d})
        /\ UNCHANGED <<mNeedSkipPresent, resources>>
  /\ UNCHANGED mResChanged

PresentDisplay(d, outcome) ==
  /\ IF /\ d \in mIsSkipFrame \/ d \in External \ mPlugState
        /\ d \notin mNeedSkipPresent \cup mNeedSkipValidatePresent
     THEN DropPresent(d, outcome)
     ELSE BasePresent(d, outcome)
  /\ UNCHANGED <<mNeedSkipValidatePresent, mSkipStartFrame>>

-----------------------------------------------------------------------------
(* Power, hot plug, resolution and geometry changes.                       *)

PowerOff(d) ==
  /\ d \in Primary \cup External
  /\ SetPresentAndClearFlags(d, Skipping, TRUE)
  /\ powered' = powered \ {d}
  /\ mNeedSkipPresent' = mNeedSkipPresent \cup {d}
  /\ SetRenderingState(d, "NONE")
  /\ UNCHANGED <<mNeedSkipValidatePresent, mIsSkipFrame, mSkipStartFrame,
                 mPlugState, mLayers, mResChanged, resources>>

(* The driver refuses to power an external display down: the flags are     *)
(* already updated, the rest is not.                                       *)
PowerOffFails(d) ==
  /\ d \in External \cap mPlugState
  /\ SetPresentAndClearFlags(d, Skipping, FALSE)
  /\ Holds(IF isLastPresent(d)
           THEN {e \in Display : resources[e] = "none"} ELSE {}, "missed")
  /\ UNCHANGED <<mRenderingState, mNeedSkipPresent, mNeedSkipValidatePresent,
                 mIsSkipFrame, mSkipStartFrame, powered, mPlugState,
                 mLayers, mResChanged>>

ComesOnLate(d) ==
  d \in mPlugState \ powered /\ ~wasRenderingStateFlagsCleared

(* An unplugged external display stays powered off.                        *)
PowerOn(d) ==
  /\ d \in Primary \cup External
  /\ powered' = powered \cup ({d} \cap mPlugState)
  /\ geometryChanged' = TRUE
  /\ Holds(IF ComesOnLate(d) THEN {d} ELSE {}, "missed")
  /\ UNCHANGED <<mRenderingState, validateFlag, presentFlag, mNeedSkipPresent,
                 mNeedSkipValidatePresent, mIsSkipFrame, mSkipStartFrame,
                 mPlugState, mLayers, mResChanged>>

(* handleHotplugEvent(), on the event thread.                              *)
Plug(d) ==
  /\ d \in External \ mPlugState
  /\ mPlugState' = mPlugState \cup {d}
  /\ mSkipStartFrame' = [mSkipStartFrame EXCEPT ![d] = 0]
  /\ UNCHANGED <<mRenderingState, validateFlag, presentFlag, mNeedSkipPresent,
                 mNeedSkipValidatePresent, mIsSkipFrame, powered, mLayers,
                 mResChanged, geometryChanged, resources>>

Unplug(d) ==
  /\ d \in External \cap mPlugState
  /\ mPlugState' = mPlugState \ {d}
  /\ powered' = powered \ {d}
  /\ UNCHANGED <<frameVars, mLayers>>

createVirtualDisplay(d) ==
  /\ d \in Virtual \ mPlugState
  /\ mPlugState' = mPlugState \cup {d}
  /\ SetRenderingState(d, "NONE")
  /\ Holds(IF wasRenderingStateFlagsCleared THEN {} ELSE {d}, "missed")
  /\ UNCHANGED <<validateFlag, presentFlag, mNeedSkipPresent,
                 mNeedSkipValidatePresent, mIsSkipFrame, mSkipStartFrame,
                 powered, mLayers, mResChanged, geometryChanged>>

(* The layers it still has are destroyed without a geometry change.        *)
destroyVirtualDisplay(d) ==
  /\ d \in Virtual \cap mPlugState
  /\ mPlugState' = mPlugState \ {d}
  /\ mLayers' = mLayers \ {d}
  /\ UNCHANGED <<mRenderingState, validateFlag, presentFlag, mNeedSkipPresent,
                 mNeedSkipValidatePresent, mIsSkipFrame, mSkipStartFrame,
                 powered, mResChanged, geometryChanged, resources>>

(* setActiveConfig() to another resolution.                                *)
ChangeResolution(d) ==
  /\ d \in Primary
  /\ SetRenderingState(d, "NONE")
  /\ mResChanged' = mResChanged \cup {d}
  /\ UNCHANGED <<validateFlag, presentFlag, mNeedSkipPresent,
                 mNeedSkipValidatePresent, mIsSkipFrame, mSkipStartFrame,
                 powered, mPlugState, mLayers, geometryChanged, resources>>

(* setGeometryChanged() on d: a layer property, or the dynamic             *)
(* recomposition thread.                                                   *)
ChangeGeometry(d) ==
  /\ geometryChanged' = TRUE
  /\ GoesStale({d})

(* setLayerDisplayFrame() clears the flags of every display, whether or    *)
(* not the frame differs from the one the layer had.                       *)
SetDisplayFrame(d, moved) ==
  /\ validateFlag' = {}
  /\ presentFlag' = {}
  /\ IF moved THEN ChangeGeometry(d) ELSE UNCHANGED <<geometryChanged, resources>>
  /\ d \in Virtual => d \in mLayers
=============================================================================
