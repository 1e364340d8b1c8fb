------------------------ MODULE FrameProtocol_proofs ------------------------
(***************************************************************************)
(* Proofs about FrameProtocol, for any displays and any number of start    *)
(* frames that external displays skip.                                     *)
(***************************************************************************)
EXTENDS FrameProtocol, TLAPS

(* The part of CoreTypeOK about the state that frames change.              *)
FrameTypeOK ==
  /\ mRenderingState \in [Display -> RenderingState]
  /\ validateFlag \subseteq Display
  /\ presentFlag \subseteq Display
  /\ mNeedSkipPresent \subseteq Display
  /\ mIsSkipFrame \subseteq External \cup Virtual
  /\ mSkipStartFrame \in [External -> 0 .. SkipExternalFrame]
  /\ mResChanged \subseteq Primary
  /\ geometryChanged \in BOOLEAN
  /\ resources \in [Display -> Holding]

(* The body that all displays share keeps the types, whatever the subclass *)
(* passes to it, and leaves what other displays are rendering alone.       *)
LEMMA BaseValidateTyped ==
  ASSUME CoreTypeOK, NEW d \in Display, NEW skip \in BOOLEAN,
         NEW g \in BOOLEAN, NEW needSkip \in SUBSET Display,
         BaseValidate(d, skip, g, needSkip)
  PROVE  /\ mRenderingState' \in [Display -> RenderingState]
         /\ validateFlag' \subseteq Display
         /\ mNeedSkipPresent' \subseteq Display
         /\ mResChanged' \subseteq Primary
         /\ geometryChanged' \in BOOLEAN
         /\ resources' \in [Display -> Holding]
         /\ mResChanged' \ {d} = mResChanged \ {d}
         /\ \A e \in Display \ {d} : mRenderingState'[e] = mRenderingState[e]
         /\ d \in mResChanged' \/ mRenderingState'[d] = "VALIDATED"
<1>1. CASE DropValidate(d, g, needSkip)
  BY <1>1 DEF DropValidate, CoreTypeOK, Holds, Holding
<1>2. CASE SkipValidate(d, g, needSkip)
  BY <1>2 DEF SkipValidate, CoreTypeOK, SetRenderingState, RenderingState
<1>3. ASSUME NEW changed \in BOOLEAN, NEW failed \in BOOLEAN,
             AssignValidate(d, g, needSkip, changed, failed)
      PROVE  /\ mRenderingState' \in [Display -> RenderingState]
             /\ validateFlag' \subseteq Display
             /\ mNeedSkipPresent' \subseteq Display
             /\ mResChanged' \subseteq Primary
             /\ geometryChanged' \in BOOLEAN
             /\ resources' \in [Display -> Holding]
             /\ mResChanged' \ {d} = mResChanged \ {d}
             /\ \A e \in Display \ {d} : mRenderingState'[e] = mRenderingState[e]
             /\ d \in mResChanged' \/ mRenderingState'[d] = "VALIDATED"
  BY <1>3 DEF AssignValidate, CoreTypeOK, SetRenderingState, RenderingState,
              TakenBack, Holding
<1> QED
  BY <1>1, <1>2, <1>3 DEF BaseValidate

(* validateDisplay() of any subclass: it validates d or drops the frame    *)
(* because of a resolution change, and leaves the other displays alone.    *)
LEMMA ValidateDisplayEffect ==
  ASSUME CoreTypeOK, NEW d \in Display, NEW skip \in BOOLEAN,
         ValidateDisplay(d, skip)
  PROVE  /\ FrameTypeOK'
         /\ mResChanged' \ {d} = mResChanged \ {d}
         /\ \A e \in Display \ {d} : mRenderingState'[e] = mRenderingState[e]
         /\ d \in mResChanged' \/ mRenderingState'[d] = "VALIDATED"
<1>1. CASE PrimaryValidate(d, skip)
  BY <1>1, BaseValidateTyped
     DEF PrimaryValidate, ValidateDisplay, CoreTypeOK, FrameTypeOK
<1>2. CASE ExternalValidate(d, skip)
  <2>1. BaseValidate(d, skip, geometryChanged \/ Starting(d),
                     mNeedSkipPresent \ {d})
    BY <1>2 DEF ExternalValidate
  <2>2. /\ (geometryChanged \/ Starting(d)) \in BOOLEAN
        /\ mNeedSkipPresent \ {d} \in SUBSET Display
    BY DEF CoreTypeOK
  <2>3. mIsSkipFrame' \subseteq External \cup Virtual
    BY <1>2 DEF ExternalValidate, CoreTypeOK
  <2>4. mSkipStartFrame' \in [External -> 0 .. SkipExternalFrame]
    BY <1>2, SkipIsNat DEF ExternalValidate, Starting, CoreTypeOK
  <2>5. presentFlag' = presentFlag
    BY DEF ValidateDisplay
  <2> QED
    BY <2>1, <2>2, <2>3, <2>4, <2>5, BaseValidateTyped DEF CoreTypeOK, FrameTypeOK
<1>3. CASE UnpluggedValidate(d)
  BY <1>3 DEF UnpluggedValidate, ValidateDisplay, CoreTypeOK, FrameTypeOK,
              SetRenderingState, RenderingState, TakenBack, Holding
<1>4. CASE VirtualValidate(d, skip)
  BY <1>4, BaseValidateTyped
     DEF VirtualValidate, ValidateDisplay, CoreTypeOK, FrameTypeOK
<1> QED
  BY <1>1, <1>2, <1>3, <1>4 DEF ValidateDisplay

(* The flags of the round keep their types at the end of a present.        *)
LEMMA ClearFlagsTyped ==
  ASSUME CoreTypeOK, NEW d \in Display, NEW skipping, NEW later \in BOOLEAN,
         SetPresentAndClearFlags(d, skipping, later)
  PROVE  /\ validateFlag' \subseteq Display
         /\ presentFlag' \subseteq Display
         /\ geometryChanged' \in BOOLEAN
<1>1. CASE isLastPresent(d)
  BY <1>1 DEF SetPresentAndClearFlags
<1>2. CASE ~isLastPresent(d)
  BY <1>2 DEF SetPresentAndClearFlags, CoreTypeOK
<1> QED
  BY <1>1, <1>2

(* What every way to present d has in common.                              *)
PresentEffect(d, outcome) ==
  /\ mRenderingState' \in [Display -> RenderingState]
  /\ \A e \in Display \ {d} : mRenderingState'[e] = mRenderingState[e]
  /\ validateFlag' \subseteq Display
  /\ presentFlag' \subseteq Display
  /\ mNeedSkipPresent' \subseteq Display
  /\ mIsSkipFrame' \subseteq External \cup Virtual
  /\ geometryChanged' \in BOOLEAN
  /\ resources' \in [Display -> Holding]

LEMMA handleSkipPresentEffect ==
  ASSUME CoreTypeOK, NEW d \in Display, NEW needSkip \in SUBSET Display,
         NEW outcome, handleSkipPresent(d, needSkip, outcome)
  PROVE  PresentEffect(d, outcome)
<1>1. /\ mRenderingState' \in [Display -> RenderingState]
      /\ \A e \in Display \ {d} : mRenderingState'[e] = mRenderingState[e]
  BY DEF handleSkipPresent, SetRenderingState, RenderingState, CoreTypeOK
<1>2. /\ validateFlag' \subseteq Display
      /\ presentFlag' \subseteq Display
      /\ geometryChanged' \in BOOLEAN
  <2>1. CASE outcome = "skipped"
    BY <2>1, ClearFlagsTyped DEF handleSkipPresent
  <2>2. CASE outcome # "skipped"
    BY <2>2 DEF handleSkipPresent, CoreTypeOK
  <2> QED
    BY <2>1, <2>2
<1> QED
  BY <1>1, <1>2 DEF handleSkipPresent, CoreTypeOK, PresentEffect

LEMMA NotValidatedEffect ==
  ASSUME CoreTypeOK, NEW d \in Display, NEW outcome, NotValidated(d, outcome)
  PROVE  PresentEffect(d, outcome) /\ mRenderingState[d] # "ACCEPTED_CHANGE"
<1>1. PICK changed \in SUBSET mPlugState :
         /\ geometryChanged' = (geometryChanged \/ changed # {})
         /\ GoesStale(changed)
  BY DEF NotValidated
<1>2. resources' \in [Display -> Holding]
  BY <1>1 DEF GoesStale, Holds, Holding, CoreTypeOK
<1>3. geometryChanged' \in BOOLEAN
  BY <1>1 DEF CoreTypeOK
<1> QED
  BY <1>2, <1>3 DEF NotValidated, SetRenderingState, RenderingState, CoreTypeOK,
                    PresentEffect

LEMMA CommitFrameEffect ==
  ASSUME CoreTypeOK, NEW d \in Display, NEW outcome, CommitFrame(d, outcome)
  PROVE  PresentEffect(d, outcome) /\ outcome # "notValidated"
<1>1. /\ validateFlag' \subseteq Display
      /\ presentFlag' \subseteq Display
      /\ geometryChanged' \in BOOLEAN
  BY ClearFlagsTyped DEF CommitFrame
<1> QED
  BY <1>1 DEF CommitFrame, SetRenderingState, RenderingState, CoreTypeOK,
              PresentEffect

(* presentDisplay() of any subclass: it leaves the other displays alone,   *)
(* and refuses d only when d is not accepted, still owes a skipped frame   *)
(* or is changing its resolution.                                          *)
LEMMA PresentDisplayEffect ==
  ASSUME CoreTypeOK, NEW d \in Display, NEW outcome, PresentDisplay(d, outcome)
  PROVE  /\ FrameTypeOK'
         /\ mNeedSkipValidatePresent' = mNeedSkipValidatePresent
         /\ mResChanged' \ {d} = mResChanged \ {d}
         /\ \A e \in Display \ {d} : mRenderingState'[e] = mRenderingState[e]
         /\ outcome = "notValidated" =>
              \/ mRenderingState[d] # "ACCEPTED_CHANGE"
              \/ d \in mNeedSkipPresent \cup mResChanged
<1> DEFINE Refusal == outcome = "notValidated" =>
                        \/ mRenderingState[d] # "ACCEPTED_CHANGE"
                        \/ d \in mNeedSkipPresent \cup mResChanged
<1>1. ASSUME DropPresent(d, outcome)
      PROVE  PresentEffect(d, outcome) /\ mResChanged' = mResChanged /\ Refusal
  <2>1. CASE NotValidated(d, outcome)
    BY <1>1, <2>1, NotValidatedEffect DEF DropPresent
  <2>2. CASE ~NotValidated(d, outcome)
    <3>1. SetPresentAndClearFlags(d, Skipping, FALSE)
      BY <1>1, <2>2 DEF DropPresent
    <3>2. mRenderingState' \in [Display -> RenderingState]
      BY <1>1, <2>2 DEF DropPresent, SetRenderingState, RenderingState, CoreTypeOK
    <3>3. \A e \in Display \ {d} : mRenderingState'[e] = mRenderingState[e]
      BY <1>1, <2>2 DEF DropPresent, SetRenderingState, CoreTypeOK
    <3> QED
      BY <1>1, <2>2, <3>1, <3>2, <3>3, ClearFlagsTyped
         DEF DropPresent, CoreTypeOK, PresentEffect
  <2> QED
    BY <2>1, <2>2
<1>2. ASSUME BasePresent(d, outcome)
      PROVE  /\ PresentEffect(d, outcome)
             /\ mResChanged' \ {d} = mResChanged \ {d}
             /\ mResChanged' \subseteq Primary
             /\ Refusal
  <2>1. CASE d \in mResChanged /\ UNCHANGED mResChanged
             /\ handleSkipPresent(d, mNeedSkipPresent \cup {d}, outcome)
    BY <2>1, handleSkipPresentEffect DEF CoreTypeOK
  <2>2. CASE /\ d \in mNeedSkipPresent \cup mNeedSkipValidatePresent
             /\ handleSkipPresent(d, mNeedSkipPresent, outcome)
             /\ mResChanged' = mResChanged \ {d}
    <3>1. Refusal
      BY <2>2 DEF handleSkipPresent
    <3>2. PresentEffect(d, outcome)
      BY <2>2, handleSkipPresentEffect DEF CoreTypeOK
    <3> QED
      BY <2>2, <3>1, <3>2 DEF CoreTypeOK
  <2>3. CASE NotValidated(d, outcome) /\ mResChanged' = mResChanged \ {d}
    BY <2>3, NotValidatedEffect DEF CoreTypeOK
  <2>4. CASE /\ CommitFrame(d, outcome)
             /\ \E switch \in SUBSET ({d} \cap Primary) :
                   mResChanged' = (mResChanged \ {d}) \cup switch
    BY <2>4, CommitFrameEffect DEF CoreTypeOK
  <2> QED
    BY <1>2, <2>1, <2>2, <2>3, <2>4 DEF BasePresent
<1> HIDE DEF Refusal
<1>3. /\ PresentEffect(d, outcome)
      /\ mResChanged' \ {d} = mResChanged \ {d}
      /\ mResChanged' \subseteq Primary
      /\ Refusal
  BY <1>1, <1>2 DEF PresentDisplay, CoreTypeOK
<1>4. UNCHANGED <<mNeedSkipValidatePresent, mSkipStartFrame>>
  BY DEF PresentDisplay
<1> QED
  BY <1>3, <1>4 DEF CoreTypeOK, FrameTypeOK, PresentEffect, Refusal

-----------------------------------------------------------------------------
(* Type correctness.                                                       *)

(* Power, hot plug, resolution and geometry changes keep the types.        *)
LEMMA ConfigureTyped ==
  ASSUME CoreTypeOK, NEW d \in Display,
         \/ PowerOff(d) \/ PowerOffFails(d) \/ PowerOn(d)
         \/ Plug(d) \/ Unplug(d)
         \/ createVirtualDisplay(d) \/ destroyVirtualDisplay(d)
         \/ ChangeResolution(d)
  PROVE  CoreTypeOK'
<1>1. CASE PowerOff(d)
  <2>1. /\ validateFlag' \subseteq Display
        /\ presentFlag' \subseteq Display
        /\ geometryChanged' \in BOOLEAN
    BY <1>1, ClearFlagsTyped DEF PowerOff
  <2>2. mRenderingState' \in [Display -> RenderingState]
    BY <1>1 DEF PowerOff, SetRenderingState, RenderingState, CoreTypeOK
  <2> QED
    BY <1>1, <2>1, <2>2 DEF PowerOff, CoreTypeOK
<1>2. CASE PowerOffFails(d)
  <2>1. /\ validateFlag' \subseteq Display
        /\ presentFlag' \subseteq Display
        /\ geometryChanged' \in BOOLEAN
    BY <1>2, ClearFlagsTyped DEF PowerOffFails
  <2>2. resources' \in [Display -> Holding]
    BY <1>2 DEF PowerOffFails, Holds, Holding, CoreTypeOK
  <2> QED
    BY <1>2, <2>1, <2>2 DEF PowerOffFails, CoreTypeOK
<1>3. CASE PowerOn(d)
  BY <1>3 DEF PowerOn, Holds, Holding, CoreTypeOK
<1>4. CASE Plug(d)
  BY <1>4, SkipIsNat DEF Plug, CoreTypeOK, Display
<1>5. CASE Unplug(d)
  BY <1>5 DEF Unplug, frameVars, CoreTypeOK
<1>6. CASE createVirtualDisplay(d)
  BY <1>6 DEF createVirtualDisplay, SetRenderingState, RenderingState, Holds,
              Holding, CoreTypeOK
<1>7. CASE destroyVirtualDisplay(d)
  BY <1>7 DEF destroyVirtualDisplay, CoreTypeOK
<1>8. CASE ChangeResolution(d)
  BY <1>8 DEF ChangeResolution, SetRenderingState, RenderingState, CoreTypeOK
<1> QED
  BY <1>1, <1>2, <1>3, <1>4, <1>5, <1>6, <1>7, <1>8

LEMMA ChangeGeometryTyped ==
  ASSUME CoreTypeOK, NEW d \in Display, ChangeGeometry(d)
  PROVE  geometryChanged' \in BOOLEAN /\ resources' \in [Display -> Holding]
BY DEF ChangeGeometry, GoesStale, Holds, Holding, CoreTypeOK

LEMMA ValidateReturnsTyped ==
  ASSUME TypeOK, NEW d \in Display, ValidateReturns(d)
  PROVE  EntryTypeOK'
BY DEF ValidateReturns, SetHWCState, GoOn, TypeOK, EntryTypeOK, RenderingState,
       Stage, Calls

LEMMA PresentReturnsTyped ==
  ASSUME TypeOK, NEW d \in Display, NEW outcome \in Outcome,
         PresentReturns(d, outcome)
  PROVE  EntryTypeOK'
BY DEF PresentReturns, SetHWCState, GoOn, Done, TypeOK, EntryTypeOK,
       RenderingState, Stage, Calls

LEMMA AcceptedTyped ==
  ASSUME CoreTypeOK, NEW d \in Display, Accepted(d)
  PROVE  mRenderingState' \in [Display -> RenderingState]
BY DEF Accepted, SetRenderingState, RenderingState, CoreTypeOK

LEMMA InitTyped == Init => TypeOK
<1> SUFFICES ASSUME Init PROVE TypeOK
  OBVIOUS
<1>1. mSkipStartFrame \in [External -> 0 .. SkipExternalFrame]
  BY SkipIsNat DEF Init, CoreInit
<1>2. CoreTypeOK
  BY <1>1 DEF Init, CoreInit, CoreTypeOK, RenderingState, Holding, Display
<1>3. EntryTypeOK
  BY DEF Init, EntryTypeOK, RenderingState, Calls, Stage, Outcome
<1> QED
  BY <1>2, <1>3 DEF TypeOK

(* The steps of the client and of the entry points.                        *)
LEMMA ComposeTyped ==
  ASSUME TypeOK, NEW d \in Display, Compose(d)
  PROVE  TypeOK'
<1> USE DEF TypeOK
<1>1. CASE PickDisplay(d)
  BY <1>1 DEF PickDisplay, coreVars, frameVars, CoreTypeOK, EntryTypeOK, Stage,
              Outcome
<1>2. CASE CallValidate(d)
  <2>1. CoreTypeOK'
    BY <1>2 DEF CallValidate, CoreTypeOK
  <2>2. call' \in Calls
    BY <1>2, DisplaysInjective DEF CallValidate, Calls
  <2> QED
    BY <1>2, <2>1, <2>2 DEF CallValidate, clientVars, EntryTypeOK
<1>3. CASE AlreadyValidated(d)
  BY <1>3 DEF AlreadyValidated, SetRenderingState, SetHWCState, GoOn, CoreTypeOK,
              EntryTypeOK, RenderingState, Stage
<1>4. CASE forceSkipValidateDisplay(d)
  <2>1. CoreTypeOK'
    BY <1>4 DEF forceSkipValidateDisplay, SetRenderingState, RenderingState, CoreTypeOK
  <2> QED
    BY <1>4, <2>1, ValidateReturnsTyped DEF forceSkipValidateDisplay
<1>5. CASE SkippedValidate(d)
  <2>1. CoreTypeOK'
    BY <1>5, ValidateDisplayEffect DEF SkippedValidate, CoreTypeOK, FrameTypeOK
  <2> QED
    BY <1>5, <2>1, ValidateReturnsTyped DEF SkippedValidate
<1>6. CASE validateDisplays(d)
  <2> DEFINE e == mDisplays[call.left]
             untouched == \/ e # d /\ ~Enabled(e)
                          \/ e # d /\ e \in mNeedSkipPresent \cap presentFlag
  <2>0. /\ call.op = "validateAll" /\ call.on = d
        /\ call.left \in 1 .. Len(mDisplays)
    BY <1>6 DEF validateDisplays, EntryTypeOK, Calls, NoCall
  <2>1. e \in Display
    BY <2>0, DisplaysInjective
  <2>2. CoreTypeOK'
    <3>1. CASE untouched
      BY <1>6, <3>1 DEF validateDisplays, CoreTypeOK
    <3>2. CASE ~untouched
      BY <1>6, <2>1, <3>2, ValidateDisplayEffect
         DEF validateDisplays, CoreTypeOK, FrameTypeOK
    <3> QED
      BY <3>1, <3>2
  <2>3. EntryTypeOK'
    <3>1. CASE call.left = 1
      BY <1>6, <3>1, ValidateReturnsTyped DEF validateDisplays
    <3>2. CASE call.left # 1
      <4>1. call' = [call EXCEPT !.left = @ - 1]
        BY <1>6, <3>2 DEF validateDisplays
      <4>2. call \in [op : {"validateAll"}, on : Display, left : 1 .. Len(mDisplays)]
        BY <2>0 DEF EntryTypeOK, Calls, NoCall
      <4>3. call' \in Calls
        BY <4>1, <4>2, <3>2, DisplaysInjective DEF Calls
      <4> QED
        BY <1>6, <3>2, <4>3 DEF validateDisplays, clientVars, EntryTypeOK
    <3> QED
      BY <3>1, <3>2
  <2> QED
    BY <2>2, <2>3
<1>7. CASE acceptDisplayChanges(d)
  BY <1>7, AcceptedTyped DEF acceptDisplayChanges, SetHWCState, GoOn, CoreTypeOK,
                             EntryTypeOK, RenderingState, Stage
<1>8. CASE CallPresent(d)
  <2>1. mRenderingState' \in [Display -> RenderingState]
    BY <1>8, AcceptedTyped DEF CallPresent, CoreTypeOK
  <2>2. call' \in Calls
    BY <1>8 DEF CallPresent, Calls
  <2> QED
    BY <1>8, <2>1, <2>2 DEF CallPresent, clientVars, CoreTypeOK, EntryTypeOK
<1>9. CASE presentDisplay(d)
  <2>1. PICK outcome \in Outcome :
           PresentDisplay(d, outcome) /\ PresentReturns(d, outcome)
    BY <1>9 DEF presentDisplay
  <2>2. CoreTypeOK'
    BY <1>9, <2>1, PresentDisplayEffect DEF presentDisplay, CoreTypeOK, FrameTypeOK
  <2> QED
    BY <2>1, <2>2, PresentReturnsTyped
<1>10. CASE forceSkipPresentDisplay(d)
  <2>1. CoreTypeOK'
    BY <1>10 DEF forceSkipPresentDisplay, SetRenderingState, RenderingState, CoreTypeOK
  <2> QED
    BY <1>10, <2>1, PresentReturnsTyped DEF forceSkipPresentDisplay, Outcome
<1> QED
  BY <1>1, <1>2, <1>3, <1>4, <1>5, <1>6, <1>7, <1>8, <1>9, <1>10 DEF Compose

LEMMA StepTyped == TypeOK /\ [Next]_vars => TypeOK'
<1> SUFFICES ASSUME TypeOK, [Next]_vars PROVE TypeOK'
  OBVIOUS
<1> USE DEF TypeOK
<1>1. CASE UNCHANGED vars
  BY <1>1 DEF vars, coreVars, frameVars, entryVars, clientVars, CoreTypeOK, EntryTypeOK
<1>2. CASE StartRefresh
  BY <1>2 DEF StartRefresh, coreVars, frameVars, entryVars, CoreTypeOK, EntryTypeOK
<1>3. ASSUME NEW d \in Display, Compose(d) PROVE TypeOK'
  BY <1>3, ComposeTyped
<1>4. ASSUME NEW d \in Display, Write(d) PROVE TypeOK'
  <2>1. CASE WriteLayer(d)
    BY <2>1, ChangeGeometryTyped
       DEF WriteLayer, entryVars, clientVars, CoreTypeOK, EntryTypeOK
  <2>2. CASE WriteDisplayFrame(d)
    <3>1. geometryChanged' \in BOOLEAN /\ resources' \in [Display -> Holding]
      BY <2>2, ChangeGeometryTyped DEF WriteDisplayFrame, SetDisplayFrame, CoreTypeOK
    <3> QED
      BY <2>2, <3>1 DEF WriteDisplayFrame, SetDisplayFrame, entryVars, clientVars,
                        CoreTypeOK, EntryTypeOK
  <2> QED
    BY <1>4, <2>1, <2>2 DEF Write
<1>5. ASSUME NEW d \in Display, Configure(d) PROVE TypeOK'
  <2>1. CASE DropUnplugged(d)
    BY <2>1 DEF DropUnplugged, coreVars, frameVars, entryVars, CoreTypeOK, EntryTypeOK
  <2>2. CASE ~DropUnplugged(d)
    <3>1. CoreTypeOK'
      BY <1>5, <2>2, ConfigureTyped DEF Configure, setPowerModeOff, setPowerModeOn,
         setActiveConfig, StartVirtual, StopVirtual
    <3>2. EntryTypeOK'
      BY <1>5, <2>2 DEF Configure, setPowerModeOff, setPowerModeOn, setActiveConfig,
         StartVirtual, StopVirtual, entryVars, clientVars, EntryTypeOK
    <3> QED
      BY <3>1, <3>2
  <2> QED
    BY <2>1, <2>2
<1>6. ASSUME NEW d \in Display, Hotplug(d) PROVE TypeOK'
  BY <1>6, ConfigureTyped DEF Hotplug, entryVars, clientVars, EntryTypeOK
<1>7. ASSUME NEW d \in Display, dynamicRecompositionThreadLoop(d) PROVE TypeOK'
  BY <1>7, ChangeGeometryTyped DEF dynamicRecompositionThreadLoop, entryVars,
     clientVars, CoreTypeOK, EntryTypeOK
<1> QED
  BY <1>1, <1>2, <1>3, <1>4, <1>5, <1>6, <1>7 DEF Next

(* Every variable keeps its type in every behaviour of the protocol.       *)
THEOREM TypeCorrect == Spec => []TypeOK
BY InitTyped, StepTyped, PTL DEF Spec

-----------------------------------------------------------------------------
(* An accepted frame is presented.  TypeOK /\ RoundKept is inductive.       *)

USE DEF NoCall, Idle, Composing

LEMMA RoundKeptInit == Init => RoundKept
BY DEF Init, RoundKept, OwnTurnOver

(* Steps that touch neither the client's place in the protocol nor the     *)
(* rendering state.                                                        *)
LEMMA RoundUntouched ==
  ASSUME RoundKept, UNCHANGED <<call, current, stage, mRenderingState>>,
         mResChanged \subseteq mResChanged'
  PROVE  RoundKept'
BY DEF RoundKept, OwnTurnOver

(* Steps between two refreshes: no display is being composed.              *)
LEMMA RoundBetween ==
  ASSUME RoundKept, Between, UNCHANGED <<call, current>>
  PROVE  RoundKept'
BY DEF RoundKept, OwnTurnOver, Between

(* The end of a validate call: d is validated or dropped its frame.        *)
LEMMA RoundValidateReturns ==
  ASSUME RoundKept, NEW d \in Display, call # NoCall, call.on = d,
         ValidateReturns(d),
         d \in mResChanged' \/ mRenderingState'[d] = "VALIDATED"
  PROVE  RoundKept'
BY DEF RoundKept, OwnTurnOver, ValidateReturns, GoOn

(* The end of a present call: d is done, or it has to be validated.        *)
LEMMA RoundPresentReturns ==
  ASSUME RoundKept, NEW d \in Display, call # NoCall, NEW outcome,
         PresentReturns(d, outcome)
  PROVE  RoundKept'
BY DEF RoundKept, OwnTurnOver, PresentReturns, GoOn, Done

(* One turn of validateDisplays(): the turn of the display the client      *)
(* asked for validates it, and the turns of the others leave it alone.     *)
LEMMA RoundValidateDisplays ==
  ASSUME TypeOK, RoundKept, NEW d \in Display, validateDisplays(d)
  PROVE  RoundKept'
<1> DEFINE n == call.left
           e == mDisplays[n]
<1>1. /\ call.op = "validateAll" /\ call.on = d
      /\ n \in 1 .. Len(mDisplays)
      /\ call \in [op : {"validateAll"}, on : Display, left : 1 .. Len(mDisplays)]
      /\ call # NoCall
  BY DEF validateDisplays, TypeOK, EntryTypeOK, Calls
<1>2. e \in Display
  BY <1>1, DisplaysInjective
<1>3. \/ UNCHANGED <<mRenderingState, mResChanged>> /\ e # d
      \/ ValidateDisplay(e, FALSE)
  BY DEF validateDisplays
<1>4. \/ UNCHANGED <<mRenderingState, mResChanged>> /\ e # d
      \/ /\ mResChanged' \ {e} = mResChanged \ {e}
         /\ \A x \in Display \ {e} : mRenderingState'[x] = mRenderingState[x]
         /\ e \in mResChanged' \/ mRenderingState'[e] = "VALIDATED"
  BY <1>2, <1>3, ValidateDisplayEffect DEF TypeOK
<1>5. ASSUME NEW k \in DOMAIN mDisplays, mDisplays[k] = d, n <= k
      PROVE  d \in mResChanged' \/ mRenderingState'[d] = "VALIDATED"
  <2>1. CASE e = d
    BY <2>1, <1>4
  <2>2. CASE e # d
    <3>1. n < k
      BY <1>1, <1>5, <2>2, DisplaysInjective
    <3>2. d \in mResChanged \/ mRenderingState[d] = "VALIDATED"
      BY <1>1, <1>5, <3>1 DEF RoundKept, OwnTurnOver
    <3> QED
      BY <1>2, <1>4, <2>2, <3>2
  <2> QED
    BY <2>1, <2>2
<1>6. PICK k \in DOMAIN mDisplays : mDisplays[k] = d
  BY DisplaysInjective
<1>7. CASE n = 1
  <2>1. k \in 1 .. Len(mDisplays)
    BY DisplaysInjective, <1>6
  <2>2. d \in mResChanged' \/ mRenderingState'[d] = "VALIDATED"
    BY <1>5, <1>6, <1>7, <2>1
  <2> QED
    BY <1>1, <1>7, <2>2, RoundValidateReturns DEF validateDisplays
<1>8. CASE n # 1
  <2>1. /\ call' = [call EXCEPT !.left = n - 1]
        /\ UNCHANGED <<current, stage>>
    BY <1>8 DEF validateDisplays, clientVars
  <2>2. call'.op = "validateAll" /\ call'.on = d /\ call'.left = n - 1 /\ call' # NoCall
    BY <1>1, <2>1
  <2>3. ASSUME NEW x \in Display \ mResChanged', OwnTurnOver(x)'
        PROVE  mRenderingState'[x] = "VALIDATED"
    <3>1. x = d
      BY <2>2, <2>3 DEF OwnTurnOver
    <3>2. PICK j \in DOMAIN mDisplays : mDisplays[j] = d /\ n - 1 < j
      BY <2>2, <2>3, <3>1 DEF OwnTurnOver
    <3>3. n <= j
      BY <3>2, <1>1, DisplaysInjective
    <3> QED
      BY <1>5, <2>3, <3>1, <3>2, <3>3
  <2> QED
    BY <1>1, <2>1, <2>2, <2>3 DEF RoundKept
<1> QED
  BY <1>7, <1>8

LEMMA RoundCompose ==
  ASSUME TypeOK, RoundKept, NEW d \in Display, Compose(d)
  PROVE  RoundKept'
<1>1. CASE PickDisplay(d)
  BY <1>1 DEF PickDisplay, RoundKept, OwnTurnOver
<1>2. CASE CallValidate(d)
  <2>1. /\ call'.on = d /\ call' # NoCall
        /\ call'.op # "present"
        /\ current' = current /\ current = {d}
    BY <1>2 DEF CallValidate, clientVars
  <2>2. ASSUME NEW x \in Display PROVE ~OwnTurnOver(x)'
    <3>1. CASE call'.op = "validateAll"
      BY <1>2, <3>1, DisplaysInjective DEF CallValidate, OwnTurnOver
    <3>2. CASE call'.op # "validateAll"
      BY <3>2 DEF OwnTurnOver
    <3> QED
      BY <3>1, <3>2
  <2> QED
    BY <2>1, <2>2 DEF RoundKept
<1>3. CASE AlreadyValidated(d)
  BY <1>3 DEF AlreadyValidated, GoOn, SetRenderingState, RoundKept, OwnTurnOver,
              TypeOK, CoreTypeOK
<1>4. CASE forceSkipValidateDisplay(d)
  <2>1. mRenderingState'[d] = "VALIDATED"
    BY <1>4 DEF forceSkipValidateDisplay, SetRenderingState, TypeOK, CoreTypeOK
  <2> QED
    BY <1>4, <2>1, RoundValidateReturns DEF forceSkipValidateDisplay
<1>5. CASE SkippedValidate(d)
  <2>1. d \in mResChanged' \/ mRenderingState'[d] = "VALIDATED"
    BY <1>5, ValidateDisplayEffect DEF SkippedValidate, TypeOK
  <2> QED
    BY <1>5, <2>1, RoundValidateReturns DEF SkippedValidate
<1>6. CASE validateDisplays(d)
  BY <1>6, RoundValidateDisplays
<1>7. CASE acceptDisplayChanges(d)
  BY <1>7 DEF acceptDisplayChanges, Accepted, GoOn, SetRenderingState, RoundKept,
              OwnTurnOver, TypeOK, CoreTypeOK
<1>8. CASE CallPresent(d)
  <2>1. /\ call'.on = d /\ call' # NoCall
        /\ call'.op # "validateAll"
        /\ Idle /\ current' = current /\ current = {d}
        /\ stage' = stage /\ mResChanged' = mResChanged
    BY <1>8 DEF CallPresent, clientVars
  <2>2. stage = "accepted" /\ d \notin mResChanged
          => mRenderingState'[d] = "ACCEPTED_CHANGE"
    BY <1>8, <2>1 DEF CallPresent, Accepted, SetRenderingState, RoundKept, TypeOK,
                      CoreTypeOK
  <2> QED
    BY <2>1, <2>2 DEF RoundKept, OwnTurnOver
<1>9. CASE presentDisplay(d)
  BY <1>9, RoundPresentReturns DEF presentDisplay
<1>10. CASE forceSkipPresentDisplay(d)
  BY <1>10, RoundPresentReturns DEF forceSkipPresentDisplay
<1> QED
  BY <1>1, <1>2, <1>3, <1>4, <1>5, <1>6, <1>7, <1>8, <1>9, <1>10 DEF Compose

LEMMA RoundStep == TypeOK /\ RoundKept /\ [Next]_vars => RoundKept'
<1> SUFFICES ASSUME TypeOK, RoundKept, [Next]_vars PROVE RoundKept'
  OBVIOUS
<1>1. CASE UNCHANGED vars
  BY <1>1, RoundUntouched DEF vars, coreVars, frameVars, entryVars, clientVars
<1>2. CASE StartRefresh
  BY <1>2, RoundBetween DEF StartRefresh, entryVars
<1>3. ASSUME NEW d \in Display, Compose(d) PROVE RoundKept'
  BY <1>3, RoundCompose
<1>4. ASSUME NEW d \in Display, Write(d) PROVE RoundKept'
  BY <1>4, RoundUntouched DEF Write, WriteLayer, WriteDisplayFrame, entryVars, clientVars
<1>5. ASSUME NEW d \in Display, Configure(d) PROVE RoundKept'
  BY <1>5, RoundBetween DEF Configure, setPowerModeOff, setPowerModeOn, DropUnplugged,
     setActiveConfig, StartVirtual, StopVirtual, entryVars, clientVars
<1>6. ASSUME NEW d \in Display, Hotplug(d) PROVE RoundKept'
  BY <1>6, RoundUntouched DEF Hotplug, Plug, Unplug, frameVars, entryVars, clientVars
<1>7. ASSUME NEW d \in Display, dynamicRecompositionThreadLoop(d) PROVE RoundKept'
  BY <1>7, RoundUntouched DEF dynamicRecompositionThreadLoop, entryVars, clientVars
<1> QED
  BY <1>1, <1>2, <1>3, <1>4, <1>5, <1>6, <1>7 DEF Next

(* What a display owes the client in the middle of its frame is kept by    *)
(* every other display and thread.                                         *)
THEOREM RoundIsKept == Spec => []RoundKept
BY TypeCorrect, RoundKeptInit, RoundStep, PTL DEF Spec

(* Only presentDisplay(d) ends a present call of d.                        *)
LEMMA OnlyPresentEnds ==
  ASSUME Next, NEW d \in Display, NEW outcome \in Outcome, Presents(d, outcome)
  PROVE  PresentDisplay(d, outcome)
<1>1. call = [op |-> "present", on |-> d] /\ ~Idle /\ call' # call
  BY DEF Presents
<1>2. PICK e \in Display : Compose(e) \/ Hotplug(e) \/ dynamicRecompositionThreadLoop(e)
  BY <1>1 DEF Next, StartRefresh, Between, Write, WriteLayer, WriteDisplayFrame,
     Configure, setPowerModeOff, setPowerModeOn, DropUnplugged, setActiveConfig,
     StartVirtual, StopVirtual
<1>3. Compose(e)
  BY <1>1, <1>2 DEF Hotplug, dynamicRecompositionThreadLoop, entryVars
<1>4. presentDisplay(e)
  BY <1>1, <1>3 DEF Compose, PickDisplay, CallValidate, AlreadyValidated,
     forceSkipValidateDisplay, SkippedValidate, validateDisplays,
     acceptDisplayChanges, CallPresent, forceSkipPresentDisplay
<1>5. e = d
  BY <1>1, <1>4 DEF presentDisplay
<1> QED
  BY <1>4, <1>5 DEF presentDisplay, PresentReturns, Presents

(* A frame that was validated and accepted is presented: the client is not *)
(* sent back to validate it, however hot plug, the recomposition thread    *)
(* and the other displays' frames interleave with it.                      *)
THEOREM AcceptedIsPresented == Spec => AcceptedNotRefused
<1> DEFINE Honoured ==
      \A d \in Display :
        Presents(d, "notValidated") /\ stage = "accepted"
          => d \in mNeedSkipPresent \cup mResChanged
<1>1. TypeOK /\ RoundKept /\ [Next]_vars => [Honoured]_vars
  <2> SUFFICES ASSUME TypeOK, RoundKept, Next, NEW d \in Display,
                      Presents(d, "notValidated"), stage = "accepted"
               PROVE  d \in mNeedSkipPresent \cup mResChanged
    OBVIOUS
  <2>1. PresentDisplay(d, "notValidated")
    BY OnlyPresentEnds DEF Outcome
  <2>2. \/ mRenderingState[d] # "ACCEPTED_CHANGE"
        \/ d \in mNeedSkipPresent \cup mResChanged
    BY <2>1, PresentDisplayEffect DEF TypeOK
  <2>3. d \notin mResChanged => mRenderingState[d] = "ACCEPTED_CHANGE"
    BY DEF RoundKept, Presents
  <2> QED
    BY <2>2, <2>3
<1> QED
  BY <1>1, TypeCorrect, RoundIsKept, PTL DEF Spec, AcceptedNotRefused

-----------------------------------------------------------------------------
(***************************************************************************)
(* FrameProtocol implements FrameContract, for any displays and any number *)
(* of start frames that external displays skip.                            *)
(*                                                                         *)
(* RoundKept says that an accepted frame stays accepted; AutoKept adds     *)
(* what the entry points know of a frame the client presents without       *)
(* having accepted it, and that a validation is only in progress while     *)
(* nothing is promised yet.                                                *)
(***************************************************************************)
USE DEF NoCall, Idle, Composing

Validating == {"forceValidate", "skipValidate", "validateAll"}

AutoKept ==
  /\ call.op \in Validating => stage \in {"writing", "mustValidate"}
  /\ \A d \in Display :
       /\ Composing(d) /\ stage = "validated" => mHWCRenderingState[d] = "VALIDATED"
       /\ stage = "validated" /\ call = [op |-> "present", on |-> d]
            => d \in mResChanged \/ mRenderingState[d] = "ACCEPTED_CHANGE"

LEMMA AutoInit == Init => AutoKept
BY DEF Init, AutoKept, Validating

(* Steps that leave the client's place and the rendering states alone.     *)
LEMMA AutoUntouched ==
  ASSUME AutoKept,
         UNCHANGED <<call, current, stage, mRenderingState, mHWCRenderingState>>,
         mResChanged \subseteq mResChanged'
  PROVE  AutoKept'
BY DEF AutoKept, Validating

(* Steps between two refreshes.                                            *)
LEMMA AutoBetween ==
  ASSUME AutoKept, Between, UNCHANGED <<call, current, stage>>
  PROVE  AutoKept'
BY DEF AutoKept, Between, Validating

LEMMA AutoValidateReturns ==
  ASSUME TypeOK, RoundKept, NEW d \in Display, call # NoCall, call.on = d,
         ValidateReturns(d)
  PROVE  AutoKept'
BY DEF TypeOK, EntryTypeOK, RoundKept, AutoKept, ValidateReturns, GoOn,
       SetHWCState, Validating

LEMMA AutoPresentReturns ==
  ASSUME NEW d \in Display, NEW outcome, PresentReturns(d, outcome),
         RoundKept, call # NoCall, call.on = d
  PROVE  AutoKept'
BY DEF AutoKept, PresentReturns, GoOn, Done, RoundKept, Validating

LEMMA AutoCompose ==
  ASSUME TypeOK, RoundKept, AutoKept, NEW d \in Display, Compose(d)
  PROVE  AutoKept'
<1>1. CASE PickDisplay(d)
  BY <1>1 DEF PickDisplay, AutoKept, Validating
<1>2. CASE CallValidate(d)
  <2>1. /\ call'.op \in Validating /\ call'.op # "none" /\ call' # NoCall
        /\ stage \in {"writing", "mustValidate"} /\ stage' = stage
    BY <1>2 DEF CallValidate, clientVars, Validating
  <2> QED
    BY <2>1 DEF AutoKept
<1>3. CASE AlreadyValidated(d)
  BY <1>3 DEF AlreadyValidated, GoOn, SetHWCState, AutoKept, Validating, TypeOK,
              EntryTypeOK
<1>4. CASE forceSkipValidateDisplay(d)
  BY <1>4, AutoValidateReturns DEF forceSkipValidateDisplay
<1>5. CASE SkippedValidate(d)
  BY <1>5, AutoValidateReturns DEF SkippedValidate
<1>6. CASE validateDisplays(d)
  <2>1. CASE call.left = 1
    <3>1. call # NoCall /\ call.on = d /\ ValidateReturns(d)
      BY <1>6, <2>1 DEF validateDisplays
    <3> QED
      BY <3>1, AutoValidateReturns
  <2>2. CASE call.left # 1
    <3>1. /\ call.op = "validateAll" /\ stage' = stage
          /\ call' = [call EXCEPT !.left = @ - 1]
      BY <1>6, <2>2 DEF validateDisplays, clientVars
    <3>2. call \in [op : {"validateAll"}, on : Display, left : 1 .. Len(mDisplays)]
      BY <3>1 DEF TypeOK, EntryTypeOK, Calls
    <3>3. call'.op = "validateAll"
      BY <3>1, <3>2
    <3> QED
      BY <3>1, <3>3 DEF AutoKept, Validating
  <2> QED
    BY <2>1, <2>2
<1>7. CASE acceptDisplayChanges(d)
  BY <1>7 DEF acceptDisplayChanges, GoOn, AutoKept, Validating
<1>8. CASE CallPresent(d)
  <2>1. /\ call' \in [op : {"present", "forcePresent"}, on : {d}]
        /\ current = {d} /\ Idle /\ stage' = stage /\ mResChanged' = mResChanged
    BY <1>8 DEF CallPresent, clientVars
  <2>2. stage = "validated" /\ d \notin mResChanged
          => mRenderingState'[d] = "ACCEPTED_CHANGE"
    BY <1>8, <2>1 DEF CallPresent, Accepted, SetRenderingState, RoundKept, AutoKept,
                      TypeOK, CoreTypeOK
  <2> QED
    BY <2>1, <2>2 DEF AutoKept, Validating
<1>9. CASE presentDisplay(d)
  BY <1>9, AutoPresentReturns DEF presentDisplay
<1>10. CASE forceSkipPresentDisplay(d)
  BY <1>10, AutoPresentReturns DEF forceSkipPresentDisplay
<1> QED
  BY <1>1, <1>2, <1>3, <1>4, <1>5, <1>6, <1>7, <1>8, <1>9, <1>10 DEF Compose

LEMMA AutoStep == TypeOK /\ RoundKept /\ AutoKept /\ [Next]_vars => AutoKept'
<1> SUFFICES ASSUME TypeOK, RoundKept, AutoKept, [Next]_vars PROVE AutoKept'
  OBVIOUS
<1>1. CASE UNCHANGED vars
  BY <1>1, AutoUntouched DEF vars, coreVars, frameVars, entryVars, clientVars
<1>2. CASE StartRefresh
  BY <1>2, AutoBetween DEF StartRefresh, entryVars
<1>3. ASSUME NEW d \in Display, Compose(d) PROVE AutoKept'
  BY <1>3, AutoCompose
<1>4. ASSUME NEW d \in Display, Write(d) PROVE AutoKept'
  BY <1>4, AutoUntouched DEF Write, WriteLayer, WriteDisplayFrame, entryVars, clientVars
<1>5. ASSUME NEW d \in Display, Configure(d) PROVE AutoKept'
  BY <1>5, AutoBetween DEF Configure, setPowerModeOff, setPowerModeOn, DropUnplugged,
     setActiveConfig, StartVirtual, StopVirtual, entryVars, clientVars
<1>6. ASSUME NEW d \in Display, Hotplug(d) PROVE AutoKept'
  BY <1>6, AutoUntouched DEF Hotplug, Plug, Unplug, frameVars, entryVars, clientVars
<1>7. ASSUME NEW d \in Display, dynamicRecompositionThreadLoop(d) PROVE AutoKept'
  BY <1>7, AutoUntouched DEF dynamicRecompositionThreadLoop, entryVars, clientVars
<1> QED
  BY <1>1, <1>2, <1>3, <1>4, <1>5, <1>6, <1>7 DEF Next

-----------------------------------------------------------------------------
(* Every step is a step of the contract.                                   *)

Promises == {"validated", "accepted"}

(* No promise is made or kept while the client's place does not change.    *)
LEMMA SameContract ==
  ASSUME UNCHANGED <<current, stage>>
  PROVE  ContractOf' = ContractOf
BY DEF ContractOf

(* A step that no display has a promise at is some work of the composer.   *)
LEMMA NothingPromised ==
  ASSUME current = {} \/ stage \notin Promises, UNCHANGED <<current, stage, result>>
  PROVE  Client!Work
BY SameContract DEF Client!Work, Client!NoNewExcuse, ContractOf, Promises

(* So is one that excuses nobody.                                          *)
LEMMA NobodyExcused ==
  ASSUME UNCHANGED <<current, stage, result, mNeedSkipPresent, mResChanged>>
  PROVE  Client!Work
BY SameContract DEF Client!Work, Client!NoNewExcuse

(* The promise of d after its stage becomes s.                             *)
LEMMA ContractGoesOn ==
  ASSUME NEW d \in Display, current = {d}, NEW s, GoOn(s)
  PROVE  ContractOf' = [ContractOf EXCEPT ![d] = IF s \in Promises THEN s ELSE "none"]
BY DEF ContractOf, GoOn, Promises

LEMMA ContractIsDone ==
  ASSUME NEW d \in Display, current = {d}, Done(d)
  PROVE  ContractOf' = [ContractOf EXCEPT ![d] = "none"]
BY DEF ContractOf, Done

LEMMA ValidateIsValidate ==
  ASSUME NEW d \in Display, current = {d}, stage \in {"writing", "mustValidate"},
         GoOn("validated"), result' = result
  PROVE  Client!Validate(d)
<1>1. ContractOf' = [ContractOf EXCEPT ![d] = "validated"]
  BY ContractGoesOn DEF Promises
<1>2. ContractOf[d] = "none"
  BY DEF ContractOf
<1> QED
  BY <1>1, <1>2 DEF Client!Validate, Client!Promise

LEMMA PresentIsAnswer ==
  ASSUME NEW d \in Display, current = {d}, NEW outcome \in Outcome \ {"none"},
         PresentReturns(d, outcome),
         outcome = "notValidated" /\ stage \in Promises
           => d \in mNeedSkipPresent \cup mResChanged
  PROVE  Client!Answer(d)
<1>1. ContractOf' = [ContractOf EXCEPT ![d] = "none"]
  BY ContractGoesOn, ContractIsDone DEF PresentReturns, Promises
<1>2. ContractOf[d] = "none" \/ stage \in Promises
  BY DEF ContractOf, Promises
<1>3. result' = outcome
  BY DEF PresentReturns
<1> QED
  BY <1>1, <1>2, <1>3 DEF Client!Answer, Client!Promise, Client!Answers, Outcome

LEMMA ComposeImplements ==
  ASSUME TypeOK, RoundKept, AutoKept, NEW d \in Display, Compose(d)
  PROVE  [Client!ContractNext]_Client!contractVars
<1>1. CASE PickDisplay(d)
  <2>1. ContractOf' = ContractOf
    BY <1>1 DEF PickDisplay, ContractOf
  <2> QED
    BY <1>1, <2>1 DEF PickDisplay, coreVars, frameVars, Client!ContractNext, Client!Begin
<1>2. CASE CallValidate(d)
  BY <1>2, NobodyExcused DEF CallValidate, clientVars, Client!ContractNext
<1>3. CASE AlreadyValidated(d)
  BY <1>3, ValidateIsValidate DEF AlreadyValidated, Client!ContractNext
<1>4. CASE forceSkipValidateDisplay(d)
  <2>1. current = {d} /\ stage \in {"writing", "mustValidate"}
    BY <1>4 DEF forceSkipValidateDisplay, RoundKept, AutoKept, Validating
  <2> QED
    BY <1>4, <2>1, ValidateIsValidate
       DEF forceSkipValidateDisplay, ValidateReturns, Client!ContractNext
<1>5. CASE SkippedValidate(d)
  <2>1. current = {d} /\ stage \in {"writing", "mustValidate"}
    BY <1>5 DEF SkippedValidate, RoundKept, AutoKept, Validating
  <2> QED
    BY <1>5, <2>1, ValidateIsValidate
       DEF SkippedValidate, ValidateReturns, Client!ContractNext
<1>6. CASE validateDisplays(d)
  <2>1. current = {d} /\ stage \in {"writing", "mustValidate"}
    BY <1>6 DEF validateDisplays, RoundKept, AutoKept, Validating
  <2>2. CASE call.left = 1
    <3>1. ValidateReturns(d)
      BY <1>6, <2>2 DEF validateDisplays
    <3> QED
      BY <2>1, <3>1, ValidateIsValidate DEF ValidateReturns, Client!ContractNext
  <2>3. CASE call.left # 1
    <3>1. UNCHANGED <<current, stage, result>>
      BY <1>6, <2>3 DEF validateDisplays, clientVars
    <3> QED
      BY <2>1, <3>1, NothingPromised DEF Promises, Client!ContractNext
  <2> QED
    BY <2>2, <2>3
<1>7. CASE acceptDisplayChanges(d)
  <2>1. /\ current = {d} /\ stage = "validated" /\ GoOn("accepted")
        /\ UNCHANGED <<result, mNeedSkipPresent, mResChanged>>
    BY <1>7 DEF acceptDisplayChanges
  <2>2. /\ ContractOf' = [ContractOf EXCEPT ![d] = "accepted"]
        /\ ContractOf[d] = "validated"
    BY <2>1, ContractGoesOn DEF Promises, ContractOf
  <2> QED
    BY <2>1, <2>2 DEF Client!Accept, Client!Promise, Client!ContractNext
<1>8. CASE CallPresent(d)
  BY <1>8, NobodyExcused DEF CallPresent, clientVars, Client!ContractNext
<1>9. CASE presentDisplay(d)
  <2>1. PICK outcome \in Outcome :
          PresentDisplay(d, outcome) /\ PresentReturns(d, outcome)
    BY <1>9 DEF presentDisplay
  <2>2. outcome # "none"
    BY <2>1 DEF PresentDisplay, DropPresent, BasePresent, handleSkipPresent,
                NotValidated, CommitFrame
  <2>3. current = {d} /\ call = [op |-> "present", on |-> d]
    BY <1>9 DEF presentDisplay, RoundKept
  <2>4. stage \in Promises /\ d \notin mResChanged
          => mRenderingState[d] = "ACCEPTED_CHANGE"
    BY <2>3 DEF RoundKept, AutoKept, Promises
  <2>5. outcome = "notValidated" /\ stage \in Promises
          => d \in mNeedSkipPresent \cup mResChanged
    BY <2>1, <2>4, PresentDisplayEffect DEF TypeOK
  <2> QED
    BY <2>1, <2>2, <2>3, <2>5, PresentIsAnswer DEF Client!ContractNext
<1>10. CASE forceSkipPresentDisplay(d)
  <2>1. current = {d} /\ PresentReturns(d, "skipped")
    BY <1>10 DEF forceSkipPresentDisplay, RoundKept
  <2> QED
    BY <2>1, PresentIsAnswer DEF Client!ContractNext, Outcome
<1> QED
  BY <1>1, <1>2, <1>3, <1>4, <1>5, <1>6, <1>7, <1>8, <1>9, <1>10 DEF Compose

LEMMA StepImplements ==
  TypeOK /\ RoundKept /\ AutoKept /\ [Next]_vars
    => [Client!ContractNext]_Client!contractVars
<1> SUFFICES ASSUME TypeOK, RoundKept, AutoKept, [Next]_vars
             PROVE  [Client!ContractNext]_Client!contractVars
  OBVIOUS
<1>1. CASE UNCHANGED vars
  BY <1>1, NobodyExcused DEF vars, coreVars, frameVars, entryVars, clientVars,
     Client!ContractNext
<1>2. CASE StartRefresh
  BY <1>2, NobodyExcused DEF StartRefresh, coreVars, frameVars, entryVars,
     Client!ContractNext
<1>3. ASSUME NEW d \in Display, Compose(d)
      PROVE  [Client!ContractNext]_Client!contractVars
  BY <1>3, ComposeImplements
<1>4. ASSUME NEW d \in Display, Write(d)
      PROVE  [Client!ContractNext]_Client!contractVars
  BY <1>4, NobodyExcused DEF Write, WriteLayer, WriteDisplayFrame, entryVars,
     clientVars, Client!ContractNext
<1>5. ASSUME NEW d \in Display, Configure(d)
      PROVE  [Client!ContractNext]_Client!contractVars
  <2>1. current = {} /\ UNCHANGED <<current, stage, result>>
    BY <1>5 DEF Configure, Between, setPowerModeOff, setPowerModeOn, DropUnplugged,
       setActiveConfig, StartVirtual, StopVirtual, entryVars, clientVars
  <2> QED
    BY <2>1, NothingPromised DEF Client!ContractNext
<1>6. ASSUME NEW d \in Display, Hotplug(d)
      PROVE  [Client!ContractNext]_Client!contractVars
  BY <1>6, NobodyExcused DEF Hotplug, Plug, Unplug, frameVars, entryVars, clientVars,
     Client!ContractNext
<1>7. ASSUME NEW d \in Display, dynamicRecompositionThreadLoop(d)
      PROVE  [Client!ContractNext]_Client!contractVars
  BY <1>7, NobodyExcused DEF dynamicRecompositionThreadLoop, entryVars, clientVars,
     Client!ContractNext
<1> QED
  BY <1>1, <1>2, <1>3, <1>4, <1>5, <1>6, <1>7 DEF Next

(* The entry points, with the hotplug and recomposition threads running in *)
(* between, keep the client contract.                                      *)
THEOREM ContractIsKept == Spec => Contract
<1>1. Init => Client!ContractInit
  BY DEF Init, CoreInit, ContractOf, Client!ContractInit
<1> QED
  BY <1>1, TypeCorrect, RoundIsKept, AutoInit, AutoStep, StepImplements, PTL
     DEF Spec, Contract, Client!ContractSpec

-----------------------------------------------------------------------------
(* The frames that are skipped are made up for.  TypeOK /\ SkipInv is      *)
(* inductive.                                                              *)

(* Only plugged displays are powered.  An entry point that found its       *)
(* display unplugged does not find it on again before it returns, and one  *)
(* that came late leaves the validation of the others alone.               *)
PowerKept ==
  /\ powered \subseteq mPlugState
  /\ call.op \in {"forceValidate", "forcePresent"} => ~Enabled(call.on)
  /\ call.op = "skipValidate" => validateFlag # {}

(* At any point of a call an external display that skips its frames keeps  *)
(* the geometry flag set.                                                  *)
SkipsKept ==
  \A d \in External : Enabled(d) /\ d \in Skipping => geometryChanged

(* Its turn in validateDisplays() is still to come.                        *)
Pending(d) ==
  call.op = "validateAll" /\ \E k \in 1 .. call.left : mDisplays[k] = d

(* Once others are validated, an external display that is not was powered  *)
(* on since, and its frame will be skipped.                                *)
LateKept ==
  \A d \in External :
     /\ Enabled(d) /\ d \notin validateFlag /\ ~Pending(d)
     /\ validateFlag # {} \/ call.op = "validateAll"
     => geometryChanged

SkipInv == PowerKept /\ SkipsKept /\ LateKept

LEMMA SkipInvInit == Init => SkipInv
BY DEF Init, CoreInit, SkipInv, PowerKept, SkipsKept, LateKept, Enabled, Skipping

(* A validation never clears the geometry flag, and an external display    *)
(* that has to skip the frame sets it.                                     *)
LEMMA BaseValidateKeeps ==
  ASSUME CoreTypeOK, NEW d \in Display, NEW skip \in BOOLEAN,
         NEW g \in BOOLEAN, NEW needSkip \in SUBSET mNeedSkipPresent,
         BaseValidate(d, skip, g, needSkip)
  PROVE  /\ g => geometryChanged'
         /\ validateFlag' \in {validateFlag, validateFlag \cup {d}}
         /\ d \in External => d \in validateFlag'
         /\ mNeedSkipPresent' \subseteq mNeedSkipPresent
<1>1. CASE DropValidate(d, g, needSkip)
  <2>1. d \notin External
    BY <1>1, TypesDisjoint DEF DropValidate, CoreTypeOK
  <2> QED
    BY <1>1, <2>1 DEF DropValidate
<1>2. CASE SkipValidate(d, g, needSkip)
  BY <1>2 DEF SkipValidate
<1>3. ASSUME NEW changed \in BOOLEAN, NEW failed \in BOOLEAN,
             AssignValidate(d, g, needSkip, changed, failed)
      PROVE  /\ g => geometryChanged'
             /\ validateFlag' \in {validateFlag, validateFlag \cup {d}}
             /\ d \in External => d \in validateFlag'
             /\ mNeedSkipPresent' \subseteq mNeedSkipPresent
  <2>1. /\ geometryChanged' = ((g \/ changed) \/ failed)
        /\ validateFlag' = validateFlag \cup {d}
        /\ mNeedSkipPresent' = needSkip \ {d}
    BY <1>3 DEF AssignValidate
  <2> QED
    BY <2>1
<1> QED
  BY <1>1, <1>2, <1>3 DEF BaseValidate

LEMMA ValidateKeeps ==
  ASSUME CoreTypeOK, NEW d \in Display, NEW skip \in BOOLEAN,
         ValidateDisplay(d, skip)
  PROVE  /\ geometryChanged => geometryChanged'
         /\ validateFlag' \in {validateFlag, validateFlag \cup {d}}
         /\ d \in External => d \in validateFlag'
         /\ mNeedSkipPresent' \subseteq mNeedSkipPresent
         /\ \A e \in External :
               e \in mIsSkipFrame' => e \in mIsSkipFrame \/ geometryChanged'
<1>1. CASE PrimaryValidate(d, skip)
  <2>1. geometryChanged \in BOOLEAN
    BY DEF CoreTypeOK
  <2> QED
    BY <1>1, <2>1, BaseValidateKeeps DEF PrimaryValidate
<1>2. CASE ExternalValidate(d, skip)
  <2> DEFINE g == geometryChanged \/ Starting(d)
  <2>1. BaseValidate(d, skip, g, mNeedSkipPresent \ {d})
    BY <1>2 DEF ExternalValidate
  <2>2. g \in BOOLEAN /\ mNeedSkipPresent \ {d} \in SUBSET mNeedSkipPresent
    BY DEF CoreTypeOK
  <2>3. g => geometryChanged'
    <3> HIDE DEF g
    <3> QED
      BY <2>1, <2>2, BaseValidateKeeps
  <2>4. /\ validateFlag' \in {validateFlag, validateFlag \cup {d}}
        /\ d \in External => d \in validateFlag'
        /\ mNeedSkipPresent' \subseteq mNeedSkipPresent
    <3> HIDE DEF g
    <3> QED
      BY <2>1, <2>2, BaseValidateKeeps
  <2>5. ~Starting(d) => mIsSkipFrame' = mIsSkipFrame \ {d}
    BY <1>2 DEF ExternalValidate
  <2> QED
    BY <2>3, <2>4, <2>5
<1>3. CASE UnpluggedValidate(d)
  BY <1>3 DEF UnpluggedValidate
<1>4. CASE VirtualValidate(d, skip)
  <2>1. geometryChanged \in BOOLEAN /\ d \notin External
    BY <1>4, TypesDisjoint DEF CoreTypeOK, VirtualValidate
  <2>2. \A e \in External : e \in mIsSkipFrame' => e \in mIsSkipFrame
    BY <1>4, <2>1 DEF VirtualValidate
  <2> QED
    BY <1>4, <2>1, <2>2, BaseValidateKeeps DEF VirtualValidate
<1> QED
  BY <1>1, <1>2, <1>3, <1>4 DEF ValidateDisplay

(* The geometry flag is only cleared at the end of a round, and not while  *)
(* a display that is on skips its frames.                                  *)
Cleared(skipping) ==
  \/ validateFlag' = validateFlag /\ (geometryChanged => geometryChanged')
  \/ validateFlag' = {} /\ \A e \in skipping : Enabled(e) => geometryChanged'

LEMMA ClearKeeps ==
  ASSUME CoreTypeOK, NEW d \in Display, NEW skipping, NEW later \in BOOLEAN,
         SetPresentAndClearFlags(d, skipping, later)
  PROVE  Cleared(skipping)
<1>1. CASE isLastPresent(d)
  BY <1>1 DEF SetPresentAndClearFlags, Cleared
<1>2. CASE ~isLastPresent(d)
  BY <1>2 DEF SetPresentAndClearFlags, Cleared, CoreTypeOK
<1> QED
  BY <1>1, <1>2

LEMMA PresentKeeps ==
  ASSUME CoreTypeOK, NEW d \in Display, NEW outcome, PresentDisplay(d, outcome)
  PROVE  /\ Cleared(Skipping)
         /\ \A e \in External : e \in Skipping' => e \in Skipping
<1>1. ASSUME NEW needSkip, handleSkipPresent(d, needSkip, outcome)
      PROVE  Cleared(Skipping)
  <2>1. CASE outcome = "skipped"
    <3>1. SetPresentAndClearFlags(d, Skipping \cup needSkip, FALSE)
      BY <1>1, <2>1 DEF handleSkipPresent
    <3> QED
      BY <3>1, ClearKeeps DEF Cleared
  <2>2. CASE outcome # "skipped"
    BY <1>1, <2>2 DEF handleSkipPresent, Cleared
  <2> QED
    BY <2>1, <2>2
<1>2. ASSUME NotValidated(d, outcome) PROVE Cleared(Skipping)
  <2>1. PICK changed : geometryChanged' = (geometryChanged \/ changed # {})
    BY <1>2 DEF NotValidated
  <2> QED
    BY <1>2, <2>1 DEF NotValidated, Cleared
<1>3. ASSUME NEW later \in BOOLEAN, SetPresentAndClearFlags(d, Skipping, later)
      PROVE  Cleared(Skipping)
  BY <1>3, ClearKeeps
<1>4. CASE BasePresent(d, outcome) /\ UNCHANGED mNeedSkipValidatePresent
  <2>1. CASE d \in mResChanged
             /\ handleSkipPresent(d, mNeedSkipPresent \cup {d}, outcome)
    <3>1. d \notin External
      BY <2>1, TypesDisjoint DEF CoreTypeOK
    <3>2. \A e \in External : e \in Skipping' => e \in Skipping
      BY <1>4, <2>1, <3>1 DEF handleSkipPresent, Skipping
    <3> QED
      BY <1>1, <2>1, <3>2
  <2>2. CASE handleSkipPresent(d, mNeedSkipPresent, outcome)
    BY <1>1, <1>4, <2>2 DEF handleSkipPresent, Skipping
  <2>3. CASE NotValidated(d, outcome)
    BY <1>2, <1>4, <2>3 DEF NotValidated, Skipping
  <2>4. CASE CommitFrame(d, outcome)
    <3>1. PICK error \in BOOLEAN : SetPresentAndClearFlags(d, Skipping, error)
      BY <2>4 DEF CommitFrame
    <3>2. Cleared(Skipping)
      BY <3>1, <1>3
    <3> QED
      BY <1>4, <2>4, <3>2 DEF CommitFrame, Skipping
  <2> QED
    BY <1>4, <2>1, <2>2, <2>3, <2>4 DEF BasePresent
<1>5. CASE DropPresent(d, outcome) /\ UNCHANGED mNeedSkipValidatePresent
  <2>1. CASE NotValidated(d, outcome)
    BY <1>2, <1>5, <2>1 DEF NotValidated, Skipping
  <2>2. CASE ~NotValidated(d, outcome)
    BY <1>3, <1>5, <2>2 DEF DropPresent, Skipping
  <2> QED
    BY <2>1, <2>2
<1> QED
  BY <1>4, <1>5 DEF PresentDisplay

(* Steps of other threads, and of the client outside of the entry points,  *)
(* that switch no external display on.                                     *)
LEMMA SkipsUntouched ==
  ASSUME SkipsKept, LateKept, UNCHANGED <<call, validateFlag>>,
         geometryChanged => geometryChanged',
         \A e \in External : Enabled(e)' => Enabled(e),
         \A e \in External : Enabled(e) /\ e \in Skipping' => e \in Skipping
  PROVE  SkipsKept' /\ LateKept'
BY DEF SkipsKept, LateKept, Pending

(* Steps that set the geometry flag.                                       *)
LEMMA SkipsChanged ==
  ASSUME geometryChanged' PROVE SkipsKept' /\ LateKept'
BY DEF SkipsKept, LateKept

(* Steps after which the flag is as the end of a present leaves it.        *)
LEMMA SkipsCleared ==
  ASSUME SkipsKept, LateKept, Cleared(Skipping),
         call.op # "validateAll", call'.op # "validateAll",
         UNCHANGED <<powered, mPlugState>>,
         \A e \in External : e \in Skipping' => e \in Skipping
  PROVE  SkipsKept' /\ LateKept'
<1>1. \A e \in External : Enabled(e)' = Enabled(e)
  BY DEF Enabled
<1>2. CASE validateFlag' = validateFlag /\ (geometryChanged => geometryChanged')
  BY <1>1, <1>2 DEF SkipsKept, LateKept, Pending
<1>3. CASE validateFlag' = {} /\ \A e \in Skipping : Enabled(e) => geometryChanged'
  BY <1>1, <1>3 DEF SkipsKept, LateKept
<1> QED
  BY <1>2, <1>3 DEF Cleared

(* One turn of validateDisplays().                                         *)
LEMMA SkipsValidateDisplays ==
  ASSUME TypeOK, SkipInv, NEW first \in Display, validateDisplays(first)
  PROVE  SkipsKept' /\ LateKept'
<1> DEFINE n == call.left
           d == mDisplays[n]
<1>1. /\ call.op = "validateAll" /\ call.on = first
      /\ call \in [op : {"validateAll"}, on : Display, left : 1 .. Len(mDisplays)]
  BY DEF validateDisplays, TypeOK, EntryTypeOK, Calls
<1>2. n \in 1 .. Len(mDisplays) /\ d \in Display
  BY <1>1, DisplaysInjective
<1>3. \A e \in External : Enabled(e)' = Enabled(e)
  BY DEF validateDisplays, Enabled
<1>4. /\ geometryChanged => geometryChanged'
      /\ validateFlag \subseteq validateFlag'
      /\ mNeedSkipPresent' \subseteq mNeedSkipPresent
      /\ mNeedSkipValidatePresent' \subseteq mNeedSkipValidatePresent
      /\ \A e \in External :
            e \in mIsSkipFrame' => e \in mIsSkipFrame \/ geometryChanged'
      /\ \/ d \in External => d \in validateFlag'
         \/ ~Enabled(d) \/ d \in mNeedSkipPresent
  <2>1. CASE \/ d # first /\ ~Enabled(d)
             \/ d # first /\ d \in mNeedSkipPresent \cap presentFlag
    BY <2>1 DEF validateDisplays
  <2>2. CASE ValidateDisplay(d, FALSE)
    BY <1>2, <2>2, ValidateKeeps DEF TypeOK, validateDisplays
  <2> QED
    BY <2>1, <2>2 DEF validateDisplays
<1>5. SkipsKept'
  BY <1>3, <1>4 DEF SkipInv, SkipsKept, Skipping
<1>6. LateKept'
  <2> SUFFICES ASSUME NEW e \in External, Enabled(e)', e \notin validateFlag',
                      ~Pending(e)'
               PROVE  geometryChanged'
    BY DEF LateKept
  <2>1. Enabled(e) /\ e \notin validateFlag
    BY <1>3, <1>4
  <2>2. CASE e = d
    BY <1>4, <2>1, <2>2 DEF SkipInv, SkipsKept, Skipping
  <2>3. CASE e # d
    <3>1. ~Pending(e)
      <4> SUFFICES ASSUME NEW k \in 1 .. n, mDisplays[k] = e PROVE FALSE
        BY DEF Pending
      <4>1. k \in 1 .. n - 1
        BY <1>2, <2>3
      <4>2. n # 1 /\ call' = [call EXCEPT !.left = n - 1]
        BY <4>1, <1>2 DEF validateDisplays
      <4>3. call'.op = "validateAll" /\ call'.left = n - 1
        BY <1>1, <4>2
      <4> QED
        BY <4>1, <4>3 DEF Pending
    <3> QED
      BY <1>1, <1>4, <2>1, <3>1 DEF SkipInv, LateKept
  <2> QED
    BY <2>2, <2>3
<1> QED
  BY <1>5, <1>6

LEMMA SkipsCompose ==
  ASSUME TypeOK, SkipInv, NEW d \in Display, Compose(d)
  PROVE  SkipsKept' /\ LateKept'
<1> USE DEF SkipInv
<1>1. CASE PickDisplay(d)
  BY <1>1, SkipsUntouched DEF PickDisplay, coreVars, frameVars, Enabled, Skipping
<1>2. CASE CallValidate(d)
  <2>1. UNCHANGED <<validateFlag, geometryChanged, powered, mPlugState,
                    mIsSkipFrame, mNeedSkipPresent>>
    BY <1>2 DEF CallValidate
  <2>2. \A e \in External : Enabled(e)' = Enabled(e)
    BY <2>1 DEF Enabled
  <2>3. CASE /\ d \notin mPlugState
             /\ mNeedSkipValidatePresent' = mNeedSkipValidatePresent \cup {d}
             /\ call' = [op |-> "forceValidate", on |-> d]
    BY <1>2, <2>1, <2>2, <2>3
       DEF CallValidate, SkipsKept, LateKept, Skipping, Enabled, Pending
  <2>4. CASE /\ isFirstValidate
             /\ call' = [op |-> "validateAll", on |-> d, left |-> Len(mDisplays)]
             /\ UNCHANGED mNeedSkipValidatePresent
    <3>1. SkipsKept'
      BY <2>1, <2>2, <2>4 DEF SkipsKept, Skipping
    <3>2. ASSUME NEW e \in External PROVE Pending(e)'
      <4>1. PICK k \in DOMAIN mDisplays : mDisplays[k] = e
        BY DisplaysInjective DEF Display
      <4>2. k \in 1 .. Len(mDisplays)
        BY <4>1, DisplaysInjective
      <4> QED
        BY <2>4, <4>1, <4>2 DEF Pending
    <3> QED
      BY <3>1, <3>2 DEF LateKept
  <2>5. CASE /\ ~isFirstValidate /\ d \notin validateFlag
             /\ mNeedSkipValidatePresent' = mNeedSkipValidatePresent \cup {d}
             /\ call' = [op |-> "skipValidate", on |-> d]
    <3>1. validateFlag # {}
      BY <2>5 DEF isFirstValidate
    <3>2. call.op = "none"
      BY <1>2 DEF CallValidate
    <3>3. LateKept'
      BY <2>1, <2>2, <2>5, <3>1, <3>2 DEF LateKept, Pending
    <3>4. d \in External /\ Enabled(d) => geometryChanged
      BY <2>5, <3>1, <3>2 DEF LateKept, Pending
    <3> QED
      BY <2>1, <2>2, <2>5, <3>3, <3>4 DEF SkipsKept, Skipping
  <2> QED
    BY <1>2, <2>3, <2>4, <2>5 DEF CallValidate
<1>3. CASE AlreadyValidated(d)
  BY <1>3, SkipsUntouched DEF AlreadyValidated, Enabled, Skipping
<1>4. CASE forceSkipValidateDisplay(d)
  <2>1. /\ ~Enabled(d) /\ call.op = "forceValidate"
        /\ call' = NoCall /\ validateFlag' = validateFlag \ {d}
        /\ UNCHANGED <<geometryChanged, powered, mPlugState, mIsSkipFrame,
                       mNeedSkipPresent, mNeedSkipValidatePresent>>
    BY <1>4 DEF forceSkipValidateDisplay, ValidateReturns, PowerKept
  <2> QED
    BY <2>1 DEF SkipsKept, LateKept, Pending, Enabled, Skipping
<1>5. CASE SkippedValidate(d)
  <2>1. /\ call.op = "skipValidate" /\ call' = NoCall /\ validateFlag # {}
        /\ UNCHANGED <<powered, mPlugState, mNeedSkipValidatePresent>>
    BY <1>5 DEF SkippedValidate, ValidateReturns, PowerKept
  <2>2. /\ geometryChanged => geometryChanged'
        /\ validateFlag \subseteq validateFlag'
        /\ mNeedSkipPresent' \subseteq mNeedSkipPresent
        /\ \A e \in External :
              e \in mIsSkipFrame' => e \in mIsSkipFrame \/ geometryChanged'
    BY <1>5, ValidateKeeps DEF SkippedValidate, TypeOK
  <2>3. \A e \in External : Enabled(e)' = Enabled(e)
    BY <2>1 DEF Enabled
  <2>4. SkipsKept'
    BY <2>1, <2>2, <2>3 DEF SkipsKept, Skipping
  <2>5. LateKept'
    BY <2>1, <2>2, <2>3 DEF LateKept, Pending
  <2> QED
    BY <2>4, <2>5
<1>6. CASE validateDisplays(d)
  BY <1>6, SkipsValidateDisplays
<1>7. CASE acceptDisplayChanges(d)
  BY <1>7, SkipsUntouched DEF acceptDisplayChanges, Enabled, Skipping
<1>8. CASE CallPresent(d)
  <2>1. /\ call = NoCall /\ call'.op # "validateAll"
        /\ UNCHANGED <<validateFlag, geometryChanged, powered, mPlugState,
                       mIsSkipFrame, mNeedSkipPresent>>
        /\ \/ UNCHANGED mNeedSkipValidatePresent
           \/ /\ d \notin mPlugState
              /\ mNeedSkipValidatePresent' = mNeedSkipValidatePresent \cup {d}
    BY <1>8 DEF CallPresent
  <2>2. \A e \in External : Enabled(e)' = Enabled(e)
    BY <2>1 DEF Enabled
  <2> QED
    BY <2>1, <2>2 DEF SkipsKept, LateKept, Pending, Skipping, Enabled
<1>9. CASE presentDisplay(d)
  <2>1. PICK outcome \in Outcome :
          PresentDisplay(d, outcome) /\ PresentReturns(d, outcome)
    BY <1>9 DEF presentDisplay
  <2>2. /\ call.op = "present" /\ call' = NoCall
        /\ UNCHANGED <<powered, mPlugState>>
    BY <1>9, <2>1 DEF presentDisplay, PresentReturns
  <2> QED
    BY <2>1, <2>2, PresentKeeps, SkipsCleared DEF TypeOK
<1>10. CASE forceSkipPresentDisplay(d)
  <2>1. /\ call.op = "forcePresent" /\ call' = NoCall
        /\ UNCHANGED <<powered, mPlugState, validateFlag, geometryChanged,
                       mIsSkipFrame, mNeedSkipPresent, mNeedSkipValidatePresent>>
    BY <1>10 DEF forceSkipPresentDisplay, PresentReturns
  <2> QED
    BY <2>1, SkipsCleared DEF Cleared, Skipping
<1> QED
  BY <1>1, <1>2, <1>3, <1>4, <1>5, <1>6, <1>7, <1>8, <1>9, <1>10 DEF Compose

LEMMA SkipsConfigure ==
  ASSUME TypeOK, SkipInv, NEW d \in Display, Configure(d)
  PROVE  SkipsKept' /\ LateKept'
<1> USE DEF SkipInv
<1>1. CASE setPowerModeOff(d)
  <2>1. CASE PowerOff(d)
    <3>1. geometryChanged'
      BY <2>1 DEF PowerOff, SetPresentAndClearFlags
    <3> QED
      BY <3>1, SkipsChanged
  <2>2. CASE PowerOffFails(d)
    <3>1. Cleared(Skipping)
      BY <2>2, ClearKeeps DEF PowerOffFails, TypeOK
    <3> QED
      BY <1>1, <2>2, <3>1, SkipsCleared
         DEF setPowerModeOff, Between, entryVars, PowerOffFails, Skipping
  <2> QED
    BY <1>1, <2>1, <2>2 DEF setPowerModeOff
<1>2. CASE setPowerModeOn(d)
  BY <1>2, SkipsChanged DEF setPowerModeOn, PowerOn
<1>3. CASE DropUnplugged(d)
  BY <1>3, SkipsUntouched
     DEF DropUnplugged, coreVars, frameVars, entryVars, Enabled, Skipping
<1>4. CASE setActiveConfig(d)
  BY <1>4, SkipsUntouched
     DEF setActiveConfig, ChangeResolution, entryVars, Enabled, Skipping
<1>5. CASE StartVirtual(d)
  BY <1>5, SkipsUntouched, TypesDisjoint
     DEF StartVirtual, createVirtualDisplay, entryVars, Enabled, Skipping
<1>6. CASE StopVirtual(d)
  BY <1>6, SkipsUntouched, TypesDisjoint
     DEF StopVirtual, destroyVirtualDisplay, entryVars, Enabled, Skipping
<1> QED
  BY <1>1, <1>2, <1>3, <1>4, <1>5, <1>6 DEF Configure

LEMMA SkipsStep == TypeOK /\ SkipInv /\ [Next]_vars => SkipsKept' /\ LateKept'
<1> SUFFICES ASSUME TypeOK, SkipInv, [Next]_vars PROVE SkipsKept' /\ LateKept'
  OBVIOUS
<1> USE DEF SkipInv
<1>1. CASE UNCHANGED vars
  BY <1>1, SkipsUntouched
     DEF vars, coreVars, frameVars, entryVars, clientVars, Enabled, Skipping
<1>2. CASE StartRefresh
  BY <1>2, SkipsUntouched
     DEF StartRefresh, coreVars, frameVars, entryVars, Enabled, Skipping
<1>3. ASSUME NEW d \in Display, Compose(d) PROVE SkipsKept' /\ LateKept'
  BY <1>3, SkipsCompose
<1>4. ASSUME NEW d \in Display, Write(d) PROVE SkipsKept' /\ LateKept'
  <2>1. CASE WriteLayer(d)
    BY <2>1, SkipsChanged DEF WriteLayer, ChangeGeometry
  <2>2. CASE WriteDisplayFrame(d)
    <3>1. /\ validateFlag' = {} /\ call = NoCall
          /\ geometryChanged => geometryChanged'
          /\ UNCHANGED <<call, powered, mPlugState, mIsSkipFrame,
                         mNeedSkipPresent, mNeedSkipValidatePresent>>
      BY <2>2 DEF WriteDisplayFrame, SetDisplayFrame, ChangeGeometry, entryVars
    <3> QED
      BY <3>1 DEF SkipsKept, LateKept, Skipping, Enabled
  <2> QED
    BY <1>4, <2>1, <2>2 DEF Write
<1>5. ASSUME NEW d \in Display, Configure(d) PROVE SkipsKept' /\ LateKept'
  BY <1>5, SkipsConfigure
<1>6. ASSUME NEW d \in Display, Hotplug(d) PROVE SkipsKept' /\ LateKept'
  <2>1. CASE Plug(d)
    <3>1. d \notin powered /\ d \notin Virtual
      BY <2>1, TypesDisjoint DEF Plug, PowerKept
    <3>2. \A e \in External : Enabled(e)' => Enabled(e)
      BY <2>1, <3>1 DEF Plug, Enabled
    <3> QED
      BY <1>6, <2>1, <3>2, SkipsUntouched DEF Hotplug, Plug, entryVars, Skipping
  <2>2. CASE Unplug(d)
    <3>1. \A e \in External : Enabled(e)' => Enabled(e)
      BY <2>2 DEF Unplug, Enabled
    <3> QED
      BY <1>6, <2>2, <3>1, SkipsUntouched
         DEF Hotplug, Unplug, frameVars, entryVars, Skipping
  <2> QED
    BY <1>6, <2>1, <2>2 DEF Hotplug
<1>7. ASSUME NEW d \in Display, dynamicRecompositionThreadLoop(d)
      PROVE  SkipsKept' /\ LateKept'
  BY <1>7, SkipsChanged DEF dynamicRecompositionThreadLoop, ChangeGeometry
<1> QED
  BY <1>1, <1>2, <1>3, <1>4, <1>5, <1>6, <1>7 DEF Next

(* What the entry points found when they were called is still true.        *)
LEMMA PowerStep == TypeOK /\ PowerKept /\ [Next]_vars => PowerKept'
<1> SUFFICES ASSUME TypeOK, PowerKept, [Next]_vars PROVE PowerKept'
  OBVIOUS
<1>1. ASSUME UNCHANGED <<call, validateFlag, powered, mPlugState>> PROVE PowerKept'
  BY <1>1 DEF PowerKept, Enabled
<1>2. ASSUME NEW d \in Display, Compose(d) PROVE PowerKept'
  <2>1. CASE PickDisplay(d) \/ AlreadyValidated(d) \/ acceptDisplayChanges(d)
    BY <1>1, <2>1 DEF PickDisplay, AlreadyValidated, acceptDisplayChanges,
                      coreVars, frameVars
  <2>2. CASE CallValidate(d)
    <3>1. UNCHANGED <<powered, mPlugState, validateFlag>>
      BY <2>2 DEF CallValidate
    <3>2. ~isFirstValidate => validateFlag # {}
      BY DEF isFirstValidate
    <3> QED
      BY <2>2, <3>1, <3>2 DEF CallValidate, PowerKept, Enabled
  <2>3. CASE CallPresent(d)
    BY <2>3 DEF CallPresent, PowerKept, Enabled
  <2>4. CASE forceSkipValidateDisplay(d) \/ SkippedValidate(d)
    <3>1. UNCHANGED <<powered, mPlugState>> /\ call'.op = "none"
      <4>1. CASE forceSkipValidateDisplay(d)
        BY <4>1 DEF forceSkipValidateDisplay, ValidateReturns
      <4>2. CASE SkippedValidate(d)
        BY <4>2 DEF SkippedValidate, ValidateReturns
      <4> QED
        BY <2>4, <4>1, <4>2
    <3> QED
      BY <3>1 DEF PowerKept
  <2>5. CASE validateDisplays(d)
    <3>1. UNCHANGED <<powered, mPlugState>> /\ call'.op \in {"none", "validateAll"}
      BY <2>5 DEF validateDisplays, ValidateReturns, TypeOK, EntryTypeOK, Calls
    <3> QED
      BY <3>1 DEF PowerKept
  <2>6. CASE presentDisplay(d) \/ forceSkipPresentDisplay(d)
    BY <2>6 DEF presentDisplay, forceSkipPresentDisplay, PresentReturns, PowerKept
  <2> QED
    BY <1>2, <2>1, <2>2, <2>3, <2>4, <2>5, <2>6 DEF Compose
<1>3. ASSUME NEW d \in Display, Configure(d) PROVE PowerKept'
  <2>1. call = NoCall /\ call' = NoCall
    BY <1>3 DEF Configure, Between, setPowerModeOff, setPowerModeOn, DropUnplugged,
       setActiveConfig, StartVirtual, StopVirtual, entryVars
  <2>2. powered' \subseteq mPlugState'
    <3>1. powered \cap Virtual = {}
      BY TypesDisjoint DEF TypeOK, CoreTypeOK
    <3> QED
      BY <1>3, <3>1 DEF Configure, setPowerModeOff, setPowerModeOn, DropUnplugged,
         setActiveConfig, StartVirtual, StopVirtual, PowerOff, PowerOffFails,
         PowerOn, ChangeResolution, createVirtualDisplay, destroyVirtualDisplay,
         coreVars, frameVars, PowerKept
  <2> QED
    BY <2>1, <2>2 DEF PowerKept
<1>4. ASSUME NEW d \in Display, Hotplug(d) PROVE PowerKept'
  <2>1. /\ UNCHANGED <<call, validateFlag>> /\ powered' \subseteq mPlugState'
        /\ \A e \in Display : Enabled(e)' => Enabled(e)
    <3>1. CASE Plug(d)
      <4>1. d \notin powered /\ d \notin Virtual
        BY <3>1, TypesDisjoint DEF Plug, PowerKept
      <4> QED
        BY <1>4, <3>1, <4>1 DEF Hotplug, Plug, entryVars, Enabled, PowerKept
    <3>2. CASE Unplug(d)
      BY <1>4, <3>2 DEF Hotplug, Unplug, frameVars, entryVars, Enabled, PowerKept
    <3> QED
      BY <1>4, <3>1, <3>2 DEF Hotplug
  <2>2. call.op \in {"forceValidate", "forcePresent"} => call.on \in Display
    BY DEF TypeOK, EntryTypeOK, Calls
  <2> QED
    BY <2>1, <2>2 DEF PowerKept, Enabled
<1>5. CASE UNCHANGED vars
  BY <1>1, <1>5 DEF vars, coreVars, frameVars, entryVars
<1>6. CASE StartRefresh
  BY <1>1, <1>6 DEF StartRefresh, coreVars, frameVars, entryVars
<1>7. ASSUME NEW d \in Display, Write(d) PROVE PowerKept'
  <2>1. CASE WriteLayer(d)
    BY <1>1, <2>1 DEF WriteLayer, entryVars
  <2>2. CASE WriteDisplayFrame(d)
    BY <2>2 DEF WriteDisplayFrame, entryVars, PowerKept
  <2> QED
    BY <1>7, <2>1, <2>2 DEF Write
<1>8. ASSUME NEW d \in Display, dynamicRecompositionThreadLoop(d) PROVE PowerKept'
  BY <1>1, <1>8 DEF dynamicRecompositionThreadLoop, entryVars
<1> QED
  BY <1>2, <1>3, <1>4, <1>5, <1>6, <1>7, <1>8 DEF Next

(* The geometry flag stays set between the entry points while an external  *)
(* display that is on skips its frames, so the first frame it shows is     *)
(* assigned.                                                               *)
THEOREM SkippedAreAssigned == Spec => []SkippedKeepsGeometry
<1>1. SkipInv => SkippedKeepsGeometry
  BY DEF SkipInv, SkipsKept, SkippedKeepsGeometry
<1>2. TypeOK /\ SkipInv /\ [Next]_vars => SkipInv'
  BY SkipsStep, PowerStep DEF SkipInv
<1> QED
  BY <1>1, <1>2, TypeCorrect, SkipInvInit, PTL DEF Spec

-----------------------------------------------------------------------------
(***************************************************************************)
(* A display is shown with resources of its own.                           *)
(*                                                                         *)
(* A later first validate takes the resources of the other displays back.  *)
(* The frame in hand of such a display would then be shown with none; that *)
(* it is not rests on the round, which outlasts a refresh: the flags       *)
(* validateFlag and presentFlag are cleared only by the last display that  *)
(* is presented, and what a display skips in one refresh can be owed in    *)
(* the next.  OwedKept says what a display without resources is owed,      *)
(* MadeUp that the refresh which shows its skipped frame ends the round,   *)
(* and RefusedOnce, EarlyKept and PassedOver say which displays a round    *)
(* can leave out.  With TypeOK and the invariants above ShownInv is        *)
(* inductive in the settled steps.                                         *)
(***************************************************************************)

(* No display is changing its resolution, and no power-off of an external  *)
(* display that is on is refused.  Without the first, a primary display    *)
(* that drops its frames keeps the round open over two refreshes while an  *)
(* external one has skipped its own; without the second, the display that  *)
(* is still on has missed the assignment that the client thinks it gave    *)
(* up.  Either way a display is then shown without resources.              *)
SettledStep ==
  /\ mResChanged = {} /\ mResChanged' = {}
  /\ \A d \in External : setPowerModeOff(d) => d \notin powered'

(* The client is past the validation of the display it composes.           *)
Told == stage \in {"validated", "accepted"}

(* Where the client and its entry points are.                              *)
PlaceKept ==
  /\ \A d \in Display : Enabled(d) => d \in clientOn
  /\ current \subseteq refresh
  /\ call.op \in {"present", "forcePresent"} => stage # "mustValidate"
  /\ call.op \in {"forceValidate", "skipValidate"}
       => call.on \in mNeedSkipValidatePresent
  /\ call.op = "forcePresent" => wasRenderingStateFlagsCleared
  /\ call.op = "validateAll" /\ ~Pending(call.on) => call.on \in validateFlag

(* validateDisplays() only begins while no display that is on is validated. *)
PendingKept == \A d \in Display : Enabled(d) /\ Pending(d) => d \notin validateFlag

(* Only the display that the client composes and has validated is accepted *)
(* or can be accepted on the way to its present.                           *)
AcceptedNow ==
  \A d \in Display :
    /\ mRenderingState[d] = "ACCEPTED_CHANGE" => current = {d} /\ Told
    /\ mHWCRenderingState[d] = "VALIDATED" => current = {d} /\ stage = "validated"

(* A validated display that still owes a skipped frame after power off has *)
(* been presented in this round, or skips the frame it is in.              *)
RefusedOnce ==
  \A d \in mNeedSkipPresent :
    /\ \/ d \notin validateFlag \/ d \in presentFlag
       \/ d \in mNeedSkipValidatePresent /\ current = {d} /\ Told
    /\ current = {d} /\ Told => d \in presentFlag \cup mNeedSkipValidatePresent

(* Every display that is on is presented, or its turn in the refresh is    *)
(* not over.                                                               *)
InRound == \A e \in Display : Enabled(e) => e \in refresh \cup presentFlag

(* A display that owes a skipped frame and was presented before its turn   *)
(* in this refresh was presented in a round that goes on.                  *)
EarlyKept ==
  \A d \in Display :
    Enabled(d) /\ d \in refresh \cap mNeedSkipPresent \cap presentFlag => InRound

Screen == Primary \cup External

(* Once others are validated, a display that is not has missed it, or was  *)
(* presented already and still owes a skipped frame.                       *)
PassedOver ==
  \A d \in Screen :
    /\ Enabled(d) /\ d \notin validateFlag /\ ~Pending(d)
    /\ resources[d] # "missed"
    /\ validateFlag # {} \/ call.op = "validateAll"
    => d \in presentFlag \cap mNeedSkipPresent

(* It is on and has no resources.                                          *)
Owed(d) == Enabled(d) /\ resources[d] = "none"

(* Its frame is skipped in this refresh, and the round ends with it.       *)
MadeUp(d) ==
  /\ InRound
  /\ d \in refresh => current = {d} /\ Told
  /\ d \in refresh \/ \E y \in refresh : y \notin presentFlag

(* The geometry flag is set until it is assigned, and it skips its frame.  *)
OwedKept ==
  \A d \in Screen : Owed(d) =>
    /\ geometryChanged
    /\ d \in presentFlag /\ ~Pending(d)
         => d \in mNeedSkipPresent \cup mNeedSkipValidatePresent
    /\ current = {d} /\ Told => d \in mNeedSkipValidatePresent
    /\ d \in validateFlag => d \in mNeedSkipValidatePresent /\ MadeUp(d)

RoundInv == RefusedOnce /\ EarlyKept /\ PassedOver /\ OwedKept

ShownInv == PlaceKept /\ AcceptedNow /\ PendingKept /\ RoundInv

LEMMA ShownInvInit == Init => ShownInv
<1> SUFFICES ASSUME Init PROVE ShownInv
  OBVIOUS
<1>1. \A d \in Display : ~Enabled(d)
  BY TypesDisjoint DEF Init, CoreInit, Enabled
<1> QED
  BY <1>1 DEF Init, CoreInit, ShownInv, RoundInv, PlaceKept, AcceptedNow, PendingKept,
     RefusedOnce, EarlyKept, PassedOver, OwedKept, Owed, Pending, Screen, Display

(* validateDisplay() while no display changes its resolution.              *)
LEMMA BaseValidateSettled ==
  ASSUME CoreTypeOK, mResChanged = {}, NEW d \in Display, NEW skip \in BOOLEAN,
         NEW g \in BOOLEAN, NEW needSkip, BaseValidate(d, skip, g, needSkip)
  PROVE  /\ validateFlag' = validateFlag \cup {d}
         /\ mNeedSkipPresent' = IF skip THEN needSkip ELSE needSkip \ {d}
         /\ g => geometryChanged'
         /\ \A e \in Display :
              \/ resources'[e] = resources[e]
              \/ /\ e # d /\ isFirstValidate /\ geometryChanged'
                 /\ resources'[e] = TakenBack(e)
              \/ e = d /\ resources'[e] = "fresh"
         /\ ~skip /\ g => resources'[d] = "fresh"
<1>1. ~DropValidate(d, g, needSkip)
  BY DEF DropValidate
<1>2. CASE skip /\ SkipValidate(d, g, needSkip)
  BY <1>2 DEF SkipValidate
<1>3. ASSUME ~skip, NEW changed \in BOOLEAN, NEW failed \in BOOLEAN,
             AssignValidate(d, g, needSkip, changed, failed)
      PROVE  /\ validateFlag' = validateFlag \cup {d}
             /\ mNeedSkipPresent' = needSkip \ {d}
             /\ g => geometryChanged'
             /\ \A e \in Display :
                  \/ resources'[e] = resources[e]
                  \/ /\ e # d /\ isFirstValidate /\ geometryChanged'
                     /\ resources'[e] = TakenBack(e)
                  \/ e = d /\ resources'[e] = "fresh"
             /\ g => resources'[d] = "fresh"
  <2> DEFINE assigning == g \/ changed
  <2>1. /\ validateFlag' = validateFlag \cup {d}
        /\ mNeedSkipPresent' = needSkip \ {d}
        /\ geometryChanged' = (assigning \/ failed)
        /\ resources' =
             [e \in Display |->
                IF e = d /\ (assigning \/ failed) THEN "fresh"
                ELSE IF e # d /\ assigning /\ isFirstValidate THEN TakenBack(e)
                ELSE resources[e]]
    BY <1>3 DEF AssignValidate
  <2> QED
    BY <2>1
<1> QED
  BY <1>1, <1>2, <1>3 DEF BaseValidate

Validated(d, skip) ==
  /\ validateFlag' = validateFlag \cup {d}
  /\ presentFlag' = presentFlag
  /\ mNeedSkipPresent' \subseteq mNeedSkipPresent
  /\ mNeedSkipPresent' \ {d} = mNeedSkipPresent \ {d}
  /\ ~skip => d \notin mNeedSkipPresent'
  /\ geometryChanged => geometryChanged'
  /\ \A e \in Display :
       \/ resources'[e] = resources[e]
       \/ /\ e # d \/ ~Enabled(d)
          /\ isFirstValidate /\ geometryChanged'
          /\ resources'[e] = TakenBack(e)
       \/ e = d /\ resources'[e] = "fresh"
  /\ ~skip /\ Enabled(d) /\ geometryChanged => resources'[d] = "fresh"

LEMMA ValidateSettled ==
  ASSUME CoreTypeOK, mResChanged = {}, NEW d \in Display, NEW skip \in BOOLEAN,
         ValidateDisplay(d, skip)
  PROVE  Validated(d, skip)
<1>1. CASE PrimaryValidate(d, skip) \/ VirtualValidate(d, skip)
  <2>1. BaseValidate(d, skip, geometryChanged, mNeedSkipPresent)
    BY <1>1 DEF PrimaryValidate, VirtualValidate
  <2>2. geometryChanged \in BOOLEAN
    BY DEF CoreTypeOK
  <2>3. presentFlag' = presentFlag
    BY DEF ValidateDisplay
  <2> QED
    BY <2>1, <2>2, <2>3, BaseValidateSettled DEF Validated
<1>2. CASE ExternalValidate(d, skip)
  <2> DEFINE g == geometryChanged \/ Starting(d)
  <2>1. BaseValidate(d, skip, g, mNeedSkipPresent \ {d})
    BY <1>2 DEF ExternalValidate
  <2>2. g \in BOOLEAN /\ (geometryChanged => g)
    BY DEF CoreTypeOK
  <2>3. presentFlag' = presentFlag
    BY DEF ValidateDisplay
  <2> HIDE DEF g
  <2> QED
    BY <2>1, <2>2, <2>3, BaseValidateSettled DEF Validated
<1>3. CASE UnpluggedValidate(d)
  <2>1. ~Enabled(d)
    BY <1>3 DEF UnpluggedValidate, Enabled
  <2> QED
    BY <1>3, <2>1 DEF UnpluggedValidate, ValidateDisplay, Validated
<1> QED
  BY <1>1, <1>2, <1>3 DEF ValidateDisplay

(* What the end of a frame, shown or skipped, does to the round.           *)
Ends(d) ==
  \/ /\ isLastPresent(d)
     /\ validateFlag' = {} /\ presentFlag' = {}
     /\ (\E e \in Skipping : Enabled(e)) => geometryChanged'
  \/ /\ ~isLastPresent(d)
     /\ validateFlag' = validateFlag
     /\ presentFlag' = presentFlag \cup {d}
     /\ geometryChanged => geometryChanged'

LEMMA ClearEnds ==
  ASSUME CoreTypeOK, NEW d \in Display, NEW skipping, NEW later \in BOOLEAN,
         Skipping \subseteq skipping,
         SetPresentAndClearFlags(d, skipping, later)
  PROVE  Ends(d)
<1>1. CASE isLastPresent(d)
  BY <1>1 DEF SetPresentAndClearFlags, Ends
<1>2. CASE ~isLastPresent(d)
  BY <1>2 DEF SetPresentAndClearFlags, Ends, CoreTypeOK
<1> QED
  BY <1>1, <1>2

(* presentDisplay() while no display changes its resolution: the frame is  *)
(* refused or it ends.  Without a skip flag it only ends when it was       *)
(* accepted or needs no validation.                                        *)
Refused(d, outcome) ==
  /\ outcome = "notValidated"
  /\ UNCHANGED <<validateFlag, presentFlag>>
  /\ geometryChanged => geometryChanged'
  /\ \A e \in Display : \/ resources'[e] = resources[e]
                        \/ resources[e] = "fresh" /\ resources'[e] = "stale"
  /\ d \notin mNeedSkipValidatePresent
  /\ mRenderingState[d] = "ACCEPTED_CHANGE" => d \in mNeedSkipPresent

Ended(d, outcome) ==
  /\ outcome # "notValidated"
  /\ Ends(d)
  /\ resources' = resources
  /\ \/ d \in mNeedSkipPresent \cup mNeedSkipValidatePresent
     \/ mRenderingState[d] = "ACCEPTED_CHANGE"
     \/ ~geometryChanged
  /\ outcome \in {"shown", "failed"}
       => d \notin mNeedSkipPresent \cup mNeedSkipValidatePresent

LEMMA SkipPresentSettled ==
  ASSUME CoreTypeOK, NEW d \in Display, NEW outcome,
         d \in mNeedSkipPresent \cup mNeedSkipValidatePresent,
         handleSkipPresent(d, mNeedSkipPresent, outcome)
  PROVE  /\ mNeedSkipPresent' = mNeedSkipPresent
         /\ mRenderingState'[d] # "ACCEPTED_CHANGE"
         /\ Refused(d, outcome) \/ Ended(d, outcome)
<1>1. mNeedSkipPresent' = mNeedSkipPresent
  BY DEF handleSkipPresent
<1>2. mRenderingState'[d] # "ACCEPTED_CHANGE"
  BY DEF handleSkipPresent, SetRenderingState, CoreTypeOK
<1>3. CASE outcome = "skipped"
  <2>1. SetPresentAndClearFlags(d, Skipping \cup mNeedSkipPresent, FALSE)
    BY <1>3 DEF handleSkipPresent
  <2>2. Ends(d)
    BY <2>1, ClearEnds
  <2> QED
    BY <1>1, <1>2, <1>3, <2>2 DEF handleSkipPresent, Ended
<1>4. CASE outcome # "skipped"
  <2>1. /\ outcome = "notValidated" /\ d \notin mNeedSkipValidatePresent
        /\ UNCHANGED <<validateFlag, presentFlag, geometryChanged, resources>>
    BY <1>4 DEF handleSkipPresent
  <2> QED
    BY <1>1, <1>2, <2>1 DEF Refused
<1> QED
  BY <1>3, <1>4

LEMMA NotValidatedSettled ==
  ASSUME CoreTypeOK, NEW d \in Display, NEW outcome, NotValidated(d, outcome),
         d \notin mNeedSkipPresent \cup mNeedSkipValidatePresent
  PROVE  /\ mNeedSkipPresent' = mNeedSkipPresent
         /\ mRenderingState'[d] # "ACCEPTED_CHANGE"
         /\ Refused(d, outcome)
<1>1. PICK changed \in SUBSET mPlugState :
         /\ geometryChanged' = (geometryChanged \/ changed # {})
         /\ GoesStale(changed)
  BY DEF NotValidated
<1>2. \A e \in Display : \/ resources'[e] = resources[e]
                         \/ resources[e] = "fresh" /\ resources'[e] = "stale"
  BY <1>1 DEF GoesStale, Holds
<1> QED
  BY <1>1, <1>2 DEF NotValidated, Refused, SetRenderingState, CoreTypeOK

LEMMA PresentSettled ==
  ASSUME CoreTypeOK, mResChanged = {}, NEW d \in Display, NEW outcome,
         PresentDisplay(d, outcome)
  PROVE  /\ mNeedSkipPresent' = mNeedSkipPresent
         /\ mNeedSkipValidatePresent' = mNeedSkipValidatePresent
         /\ mRenderingState'[d] # "ACCEPTED_CHANGE"
         /\ Refused(d, outcome) \/ Ended(d, outcome)
<1>1. mNeedSkipValidatePresent' = mNeedSkipValidatePresent
  BY DEF PresentDisplay
<1>2. canSkipValidate => ~geometryChanged
  BY DEF canSkipValidate
<1>3. CASE DropPresent(d, outcome) /\ (d \in mIsSkipFrame \/ d \in External \ mPlugState)
  <2>1. CASE NotValidated(d, outcome)
    BY <1>1, <1>3, <2>1, NotValidatedSettled DEF DropPresent
  <2>2. CASE ~NotValidated(d, outcome)
    <3>1. /\ SetPresentAndClearFlags(d, Skipping, FALSE)
          /\ outcome = "skipped" /\ MayPresent(d)
          /\ UNCHANGED <<mNeedSkipPresent, resources>>
      BY <1>3, <2>2 DEF DropPresent
    <3>2. mRenderingState'[d] # "ACCEPTED_CHANGE"
      BY <1>3, <2>2 DEF DropPresent, SetRenderingState, CoreTypeOK
    <3>3. Ends(d)
      BY <3>1, ClearEnds
    <3> QED
      BY <1>1, <1>2, <3>1, <3>2, <3>3 DEF Ended, MayPresent
  <2> QED
    BY <2>1, <2>2
<1>4. CASE BasePresent(d, outcome)
  <2>1. CASE /\ d \in mNeedSkipPresent \cup mNeedSkipValidatePresent
             /\ handleSkipPresent(d, mNeedSkipPresent, outcome)
    BY <1>1, <2>1, SkipPresentSettled
  <2>2. CASE /\ d \notin mNeedSkipPresent \cup mNeedSkipValidatePresent
             /\ NotValidated(d, outcome)
    BY <1>1, <2>2, NotValidatedSettled
  <2>3. CASE /\ d \notin mNeedSkipPresent \cup mNeedSkipValidatePresent
             /\ CommitFrame(d, outcome)
    <3>1. /\ outcome \in {"shown", "failed"} /\ MayPresent(d)
          /\ UNCHANGED <<mNeedSkipPresent, resources>>
      BY <2>3 DEF CommitFrame
    <3>2. mRenderingState'[d] # "ACCEPTED_CHANGE"
      BY <2>3 DEF CommitFrame, SetRenderingState, CoreTypeOK
    <3>3. PICK error \in BOOLEAN : SetPresentAndClearFlags(d, Skipping, error)
      BY <2>3 DEF CommitFrame
    <3>4. Ends(d)
      BY <3>3, ClearEnds
    <3> QED
      BY <1>1, <1>2, <2>3, <3>1, <3>2, <3>4 DEF Ended, MayPresent
  <2> QED
    BY <1>4, <2>1, <2>2, <2>3 DEF BasePresent
<1> QED
  BY <1>3, <1>4 DEF PresentDisplay

(* Where the client is: steps outside of the entry points.                 *)
LEMMA PlaceUntouched ==
  ASSUME TypeOK, PlaceKept, AcceptedNow, UNCHANGED <<call, current, stage>>,
         current \subseteq refresh', mNeedSkipValidatePresent' = mNeedSkipValidatePresent,
         \A e \in Display : Enabled(e)' => Enabled(e) /\ e \in clientOn',
         \/ UNCHANGED <<validateFlag, presentFlag>>
         \/ call = NoCall,
         mHWCRenderingState' = mHWCRenderingState,
         \A e \in Display : \/ mRenderingState'[e] = mRenderingState[e]
                            \/ mRenderingState'[e] # "ACCEPTED_CHANGE"
  PROVE  PlaceKept' /\ AcceptedNow'
<1>1. PlaceKept'
  BY DEF PlaceKept, Pending, wasRenderingStateFlagsCleared
<1>2. AcceptedNow'
  BY DEF AcceptedNow, Told
<1> QED
  BY <1>1, <1>2

LEMMA PlaceStep ==
  ASSUME TypeOK, RoundKept, PowerKept, PlaceKept, AcceptedNow, AutoKept, SettledStep,
         [Next]_vars
  PROVE  PlaceKept' /\ AcceptedNow'
<1> USE DEF TypeOK
<1>1. CASE UNCHANGED vars
  BY <1>1, PlaceUntouched
     DEF vars, coreVars, frameVars, entryVars, clientVars, Enabled, PlaceKept
<1>2. CASE StartRefresh
  <2>1. current \subseteq refresh'
    BY <1>2 DEF StartRefresh, Between
  <2> QED
    BY <1>2, <2>1, PlaceUntouched
       DEF StartRefresh, coreVars, frameVars, entryVars, Enabled, PlaceKept
<1>3. ASSUME NEW d \in Display, Write(d) PROVE PlaceKept' /\ AcceptedNow'
  <2>1. CASE WriteLayer(d)
    BY <2>1, PlaceUntouched DEF WriteLayer, entryVars, clientVars, Enabled, PlaceKept
  <2>2. CASE WriteDisplayFrame(d)
    BY <2>2, PlaceUntouched
       DEF WriteDisplayFrame, entryVars, clientVars, Enabled, PlaceKept
  <2> QED
    BY <1>3, <2>1, <2>2 DEF Write
<1>4. ASSUME NEW d \in Display, Hotplug(d) PROVE PlaceKept' /\ AcceptedNow'
  <2>1. CASE Plug(d)
    <3>1. d \notin powered /\ d \notin Virtual
      BY <2>1, TypesDisjoint DEF Plug, PowerKept
    <3>2. \A e \in Display : Enabled(e)' => Enabled(e)
      BY <2>1, <3>1 DEF Plug, Enabled
    <3> QED
      BY <1>4, <2>1, <3>2, PlaceUntouched DEF Hotplug, Plug, entryVars, clientVars,
         PlaceKept
  <2>2. CASE Unplug(d)
    BY <1>4, <2>2, PlaceUntouched
       DEF Hotplug, Unplug, frameVars, entryVars, clientVars, Enabled, PlaceKept
  <2> QED
    BY <1>4, <2>1, <2>2 DEF Hotplug
<1>5. ASSUME NEW d \in Display, dynamicRecompositionThreadLoop(d)
      PROVE  PlaceKept' /\ AcceptedNow'
  BY <1>5, PlaceUntouched
     DEF dynamicRecompositionThreadLoop, entryVars, clientVars, Enabled, PlaceKept
<1>6. ASSUME NEW d \in Display, Configure(d) PROVE PlaceKept' /\ AcceptedNow'
  <2>1. /\ Between /\ UNCHANGED <<call, mHWCRenderingState, refresh, current, stage>>
    BY <1>6 DEF Configure, setPowerModeOff, setPowerModeOn, DropUnplugged,
       setActiveConfig, StartVirtual, StopVirtual, entryVars, clientVars
  <2>2. \A e \in Display : \/ mRenderingState'[e] = mRenderingState[e]
                           \/ mRenderingState'[e] # "ACCEPTED_CHANGE"
    BY <1>6 DEF Configure, setPowerModeOff, setPowerModeOn, DropUnplugged,
       setActiveConfig, StartVirtual, StopVirtual, coreVars, frameVars, PowerOff,
       PowerOffFails, PowerOn, createVirtualDisplay, destroyVirtualDisplay,
       ChangeResolution, SetRenderingState, CoreTypeOK
  <2>3. \A e \in Display : Enabled(e)' => e \in clientOn'
    <3>1. powered \cap Virtual = {}
      BY TypesDisjoint DEF CoreTypeOK
    <3>2. CASE setPowerModeOff(d)
      BY <3>1, <3>2, TypesDisjoint
         DEF setPowerModeOff, PowerOff, PowerOffFails, Enabled, PlaceKept
    <3>3. CASE setPowerModeOn(d)
      BY <3>3 DEF setPowerModeOn, PowerOn, Enabled, PlaceKept
    <3>4. CASE DropUnplugged(d)
      BY <3>4 DEF DropUnplugged, coreVars, Enabled, PlaceKept
    <3>5. CASE setActiveConfig(d)
      BY <3>5 DEF setActiveConfig, ChangeResolution, clientVars, Enabled, PlaceKept
    <3>6. CASE StartVirtual(d)
      BY <3>1, <3>6 DEF StartVirtual, createVirtualDisplay, Enabled, PlaceKept
    <3>7. CASE StopVirtual(d)
      BY <3>1, <3>7 DEF StopVirtual, destroyVirtualDisplay, Enabled, PlaceKept
    <3> QED
      BY <1>6, <3>2, <3>3, <3>4, <3>5, <3>6, <3>7 DEF Configure
  <2>4. PlaceKept'
    BY <2>1, <2>3 DEF PlaceKept, Between
  <2>5. AcceptedNow'
    BY <2>1, <2>2 DEF AcceptedNow, Told
  <2> QED
    BY <2>4, <2>5
<1>7. ASSUME NEW d \in Display, Compose(d) PROVE PlaceKept' /\ AcceptedNow'
  <2>1. CASE PickDisplay(d)
    <3>1. PlaceKept'
      BY <2>1 DEF PickDisplay, coreVars, frameVars, Enabled, PlaceKept
    <3>2. AcceptedNow'
      BY <2>1 DEF PickDisplay, coreVars, frameVars, AcceptedNow
    <3> QED
      BY <3>1, <3>2
  <2>2. CASE CallValidate(d)
    <3>1. AcceptedNow'
      BY <2>2 DEF CallValidate, clientVars, AcceptedNow, Told
    <3>2. \A e \in Display : Enabled(e)' = Enabled(e)
      BY <2>2 DEF CallValidate, Enabled
    <3>3. CASE call'.op = "validateAll"
      <4>1. /\ call'.on = d /\ call'.left = Len(mDisplays)
            /\ UNCHANGED <<clientOn, current, refresh, mNeedSkipValidatePresent>>
        BY <2>2, <3>3 DEF CallValidate, clientVars
      <4>2. Pending(d)'
        BY <3>3, <4>1, DisplaysInjective DEF Pending
      <4> QED
        BY <3>1, <3>2, <3>3, <4>1, <4>2 DEF PlaceKept
    <3>4. CASE call'.op # "validateAll"
      BY <2>2, <3>1, <3>2, <3>4 DEF CallValidate, clientVars, PlaceKept
    <3> QED
      BY <3>3, <3>4
  <2>3. CASE AlreadyValidated(d)
    <3>1. PlaceKept'
      BY <2>3 DEF AlreadyValidated, GoOn, Enabled, PlaceKept
    <3>2. AcceptedNow'
      BY <2>3 DEF AlreadyValidated, GoOn, SetRenderingState, SetHWCState, AcceptedNow,
                  Told, CoreTypeOK, EntryTypeOK
    <3> QED
      BY <3>1, <3>2
  <2>4. ASSUME ValidateReturns(d), call.op \in Validating, call.on = d,
               UNCHANGED <<powered, mPlugState>>,
               \A e \in Display \ {d} : mRenderingState'[e] = mRenderingState[e],
               mRenderingState'[d] # "ACCEPTED_CHANGE"
        PROVE  PlaceKept' /\ AcceptedNow'
    <3>1. current = {d} /\ call # NoCall
      BY <2>4 DEF RoundKept, Validating
    <3>2. PlaceKept'
      BY <2>4 DEF ValidateReturns, GoOn, Enabled, PlaceKept
    <3>3. \A e \in Display \ {d} : /\ mRenderingState'[e] # "ACCEPTED_CHANGE"
                                   /\ mHWCRenderingState[e] # "VALIDATED"
      BY <2>4, <3>1 DEF AcceptedNow
    <3>4. AcceptedNow'
      BY <2>4, <3>1, <3>3 DEF ValidateReturns, GoOn, SetHWCState, AcceptedNow, Told,
                              EntryTypeOK
    <3> QED
      BY <3>2, <3>4
  <2>5. CASE forceSkipValidateDisplay(d)
    BY <2>4, <2>5 DEF forceSkipValidateDisplay, SetRenderingState, Validating,
                      CoreTypeOK
  <2>6. CASE SkippedValidate(d)
    <3>1. /\ \A e \in Display \ {d} : mRenderingState'[e] = mRenderingState[e]
          /\ mRenderingState'[d] = "VALIDATED"
      BY <2>6, ValidateDisplayEffect DEF SkippedValidate, SettledStep
    <3> QED
      BY <2>4, <2>6, <3>1 DEF SkippedValidate, Validating
  <2>7. CASE validateDisplays(d)
    <3> DEFINE n == call.left
               x == mDisplays[n]
    <3>1. /\ call.op = "validateAll" /\ call.on = d
          /\ n \in 1 .. Len(mDisplays) /\ x \in Display
          /\ call \in [op : {"validateAll"}, on : Display, left : 1 .. Len(mDisplays)]
      BY <2>7, DisplaysInjective DEF validateDisplays, EntryTypeOK, Calls
    <3>2. /\ \A e \in Display : \/ mRenderingState'[e] = mRenderingState[e]
                                \/ mRenderingState'[e] # "ACCEPTED_CHANGE"
          /\ validateFlag \subseteq validateFlag'
          /\ x = d => d \in validateFlag' /\ mRenderingState'[d] = "VALIDATED"
      <4>1. CASE ValidateDisplay(x, FALSE)
        <5>1. ASSUME NEW e \in Display, ValidateDisplay(e, FALSE)
              PROVE  /\ \A y \in Display \ {e} : mRenderingState'[y] = mRenderingState[y]
                     /\ mRenderingState'[e] = "VALIDATED"
                     /\ validateFlag' = validateFlag \cup {e}
          BY <5>1, ValidateDisplayEffect, ValidateSettled DEF SettledStep, Validated
        <5> QED
          BY <3>1, <4>1, <5>1
      <4>2. CASE ~ValidateDisplay(x, FALSE)
        BY <2>7, <4>2 DEF validateDisplays
      <4> QED
        BY <4>1, <4>2
    <3>3. ~Pending(d)' /\ n # 1 => d \in validateFlag'
      <4>1. ASSUME n # 1, Pending(d), x # d PROVE Pending(d)'
        <5>1. PICK k \in 1 .. n : mDisplays[k] = d
          BY <4>1 DEF Pending
        <5>2. k \in 1 .. n - 1
          BY <3>1, <4>1, <5>1
        <5>3. call' = [call EXCEPT !.left = n - 1]
          BY <2>7, <4>1 DEF validateDisplays
        <5>4. call'.op = "validateAll" /\ call'.left = n - 1
          BY <3>1, <5>3
        <5> QED
          BY <5>1, <5>2, <5>4 DEF Pending
      <4> QED
        BY <3>1, <3>2, <4>1 DEF PlaceKept
    <3>4. CASE n = 1
      <4>1. ValidateReturns(d) /\ UNCHANGED <<powered, mPlugState>>
        BY <2>7, <3>4 DEF validateDisplays
      <4>2. stage \in {"writing", "mustValidate"}
        BY <3>1 DEF AutoKept, Validating
      <4>3. \A e \in Display : mRenderingState[e] # "ACCEPTED_CHANGE"
        BY <4>2 DEF AcceptedNow, Told
      <4>4. /\ mRenderingState'[d] # "ACCEPTED_CHANGE"
            /\ \A e \in Display : mRenderingState'[e] # "ACCEPTED_CHANGE"
        BY <3>2, <4>3
      <4>5. current = {d}
        BY <3>1 DEF RoundKept
      <4>6. PlaceKept'
        BY <4>1 DEF ValidateReturns, GoOn, Enabled, PlaceKept
      <4>7. AcceptedNow'
        BY <4>1, <4>4, <4>5 DEF ValidateReturns, GoOn, SetHWCState, AcceptedNow, Told,
                                EntryTypeOK
      <4> QED
        BY <4>6, <4>7
    <3>5. CASE n # 1
      <4>1. /\ call' = [call EXCEPT !.left = n - 1]
            /\ UNCHANGED <<mHWCRenderingState, clientOn, refresh, current, stage>>
            /\ UNCHANGED <<powered, mPlugState>>
        BY <2>7, <3>5 DEF validateDisplays, clientVars
      <4>2. call'.op = "validateAll" /\ call'.on = d
        BY <3>1, <4>1
      <4>3. PlaceKept'
        BY <3>3, <3>5, <4>1, <4>2 DEF PlaceKept, Enabled
      <4>4. AcceptedNow'
        BY <3>2, <4>1 DEF AcceptedNow, Told
      <4> QED
        BY <4>3, <4>4
    <3> QED
      BY <3>4, <3>5
  <2>8. CASE acceptDisplayChanges(d)
    <3>1. PlaceKept'
      BY <2>8 DEF acceptDisplayChanges, GoOn, Enabled, PlaceKept
    <3>2. AcceptedNow'
      BY <2>8 DEF acceptDisplayChanges, Accepted, GoOn, SetRenderingState, SetHWCState,
                  AcceptedNow, Told, CoreTypeOK, EntryTypeOK
    <3> QED
      BY <3>1, <3>2
  <2>9. CASE CallPresent(d)
    <3>1. PlaceKept'
      BY <2>9 DEF CallPresent, clientVars, Enabled, PlaceKept,
                  wasRenderingStateFlagsCleared
    <3>2. AcceptedNow'
      BY <2>9 DEF CallPresent, clientVars, Accepted, SetRenderingState, AcceptedNow,
                  Told, CoreTypeOK
    <3> QED
      BY <3>1, <3>2
  <2>10. ASSUME NEW outcome \in Outcome, PresentReturns(d, outcome),
                call # NoCall, call.on = d, UNCHANGED <<powered, mPlugState>>,
                \A e \in Display \ {d} : mRenderingState'[e] = mRenderingState[e],
                mRenderingState'[d] # "ACCEPTED_CHANGE"
         PROVE  PlaceKept' /\ AcceptedNow'
    <3>1. current = {d}
      BY <2>10 DEF RoundKept
    <3>2. PlaceKept'
      BY <2>10, <3>1 DEF PresentReturns, GoOn, Done, Enabled, PlaceKept
    <3>3. \A e \in Display \ {d} : /\ mRenderingState'[e] # "ACCEPTED_CHANGE"
                                   /\ mHWCRenderingState[e] # "VALIDATED"
      BY <2>10, <3>1 DEF AcceptedNow
    <3>4. AcceptedNow'
      BY <2>10, <3>3 DEF PresentReturns, SetHWCState, AcceptedNow, EntryTypeOK
    <3> QED
      BY <3>2, <3>4
  <2>11. CASE presentDisplay(d)
    <3>1. PICK outcome \in Outcome :
            PresentDisplay(d, outcome) /\ PresentReturns(d, outcome)
      BY <2>11 DEF presentDisplay
    <3>2. /\ \A e \in Display \ {d} : mRenderingState'[e] = mRenderingState[e]
          /\ mRenderingState'[d] # "ACCEPTED_CHANGE"
      BY <3>1, PresentDisplayEffect, PresentSettled DEF SettledStep
    <3> QED
      BY <2>10, <2>11, <3>1, <3>2 DEF presentDisplay
  <2>12. CASE forceSkipPresentDisplay(d)
    BY <2>10, <2>12 DEF forceSkipPresentDisplay, SetRenderingState, Outcome,
                        CoreTypeOK
  <2> QED
    BY <1>7, <2>1, <2>2, <2>3, <2>5, <2>6, <2>7, <2>8, <2>9, <2>11, <2>12
       DEF Compose
<1> QED
  BY <1>1, <1>2, <1>3, <1>4, <1>5, <1>6, <1>7 DEF Next

(* Steps that neither validate nor present, nor switch a display on.  A    *)
(* call may begin, and its display be told to skip the frame.              *)
LEMMA OwedUntouched ==
  ASSUME TypeOK, RoundInv,
         UNCHANGED <<current, refresh, validateFlag, presentFlag, mNeedSkipPresent>>,
         Told' = Told,
         mNeedSkipValidatePresent \subseteq mNeedSkipValidatePresent',
         geometryChanged => geometryChanged',
         \A e \in Display : Enabled(e)' => Enabled(e),
         \A e \in Display : \/ resources'[e] = resources[e]
                            \/ resources[e] = "fresh" /\ resources'[e] = "stale",
         \/ call' = call
         \/ call.op # "validateAll" /\ call'.op # "validateAll"
         \/ \A e \in Display : Pending(e)'
  PROVE  RoundInv'
<1>1. InRound => InRound'
  BY DEF InRound
<1>2. RefusedOnce' /\ EarlyKept'
  BY <1>1 DEF RoundInv, RefusedOnce, EarlyKept
<1>3. \A e \in Display : Pending(e)' \/ ~Pending(e)
  BY DEF Pending
<1>4. Screen \subseteq Display
  BY DEF Screen, Display
<1>5. PassedOver'
  <2> SUFFICES ASSUME NEW e \in Screen, Enabled(e)', e \notin validateFlag', ~Pending(e)',
                      resources'[e] # "missed",
                      validateFlag' # {} \/ call'.op = "validateAll"
               PROVE  e \in presentFlag' \cap mNeedSkipPresent'
    BY DEF PassedOver
  <2>1. resources[e] # "missed" /\ Enabled(e) /\ ~Pending(e)
    BY <1>3, <1>4
  <2>2. validateFlag # {} \/ call.op = "validateAll"
    BY <1>4
  <2> QED
    BY <2>1, <2>2 DEF RoundInv, PassedOver
<1>6. ASSUME NEW e \in Screen, Owed(e)' PROVE Owed(e)
  BY <1>4, <1>6 DEF Owed
<1>7. ASSUME NEW e \in Screen, MadeUp(e) PROVE MadeUp(e)'
  BY <1>1, <1>7 DEF MadeUp
<1>8. OwedKept'
  BY <1>3, <1>4, <1>6, <1>7 DEF RoundInv, OwedKept
<1> QED
  BY <1>2, <1>5, <1>8 DEF RoundInv

(* Between two refreshes no display that is on and validated is owed.      *)
LEMMA NothingOwedBetween ==
  ASSUME RoundInv, refresh = {}, NEW d \in Screen, Owed(d)
  PROVE  d \notin validateFlag
BY DEF RoundInv, OwedKept, MadeUp

(* Steps that give up the flags of the round.                              *)
LEMMA OwedFlagsGone ==
  ASSUME TypeOK, RoundInv, UNCHANGED <<call, current, refresh, stage>>,
         call = NoCall, ~Told,
         validateFlag' = {} /\ presentFlag' = {},
         geometryChanged => geometryChanged',
         \A e \in Display : Enabled(e)' => Enabled(e),
         \A e \in Display : \/ resources'[e] = resources[e]
                            \/ resources[e] = "fresh" /\ resources'[e] = "stale"
  PROVE  RoundInv'
<1>1. RefusedOnce' /\ EarlyKept' /\ PassedOver'
  BY DEF RefusedOnce, EarlyKept, PassedOver, Told
<1>2. \A e \in Screen : Owed(e)' => Owed(e)
  BY DEF Owed, Screen, Display
<1>3. OwedKept'
  BY <1>2 DEF RoundInv, OwedKept, Told
<1> QED
  BY <1>1, <1>3 DEF RoundInv

(* The client takes the next display, or begins a refresh.                 *)
LEMMA OwedRefresh ==
  ASSUME TypeOK, PlaceKept, RoundInv, NEW d \in Display,
         StartRefresh \/ PickDisplay(d)
  PROVE  RoundInv'
<1>1. /\ UNCHANGED <<coreVars, call>> /\ call = NoCall /\ current = {}
      /\ UNCHANGED <<validateFlag, presentFlag, mNeedSkipPresent, resources,
                     mNeedSkipValidatePresent, geometryChanged>>
      /\ \A e \in Display : Enabled(e)' = Enabled(e)
  BY DEF StartRefresh, PickDisplay, Between, coreVars, frameVars, entryVars, Enabled
<1>2. Screen \subseteq Display
  BY DEF Screen, Display
<1>3. RefusedOnce'
  <2>1. \/ current' = {}
        \/ ~Told'
    BY <1>1 DEF StartRefresh, PickDisplay, Told
  <2> QED
    BY <1>1, <2>1 DEF RoundInv, RefusedOnce
<1>4. PassedOver'
  BY <1>1, <1>2 DEF RoundInv, PassedOver, Pending
<1>5. CASE StartRefresh
  <2>1. /\ refresh = {} /\ refresh' = clientOn /\ current' = {}
    BY <1>5 DEF StartRefresh, Between
  <2>2. EarlyKept'
    BY <1>1, <2>1 DEF EarlyKept, InRound, PlaceKept
  <2>3. \A e \in Screen : Owed(e)' => Owed(e) /\ e \notin validateFlag
    BY <1>1, <1>2, <2>1, NothingOwedBetween DEF Owed
  <2>4. OwedKept'
    BY <1>1, <2>1, <2>3 DEF RoundInv, OwedKept, Pending
  <2> QED
    BY <1>3, <1>4, <2>2, <2>4 DEF RoundInv
<1>6. CASE PickDisplay(d)
  <2>1. /\ d \in refresh /\ refresh' = refresh /\ current' = {d} /\ ~Told'
    BY <1>6 DEF PickDisplay, Told
  <2>2. EarlyKept'
    BY <1>1, <2>1 DEF RoundInv, EarlyKept, InRound
  <2>3. \A e \in Screen : Owed(e)' => Owed(e)
    BY <1>1, <1>2 DEF Owed
  <2>4. ASSUME NEW e \in Screen, MadeUp(e) PROVE MadeUp(e)'
    BY <1>1, <2>1, <2>4 DEF MadeUp, InRound
  <2>5. OwedKept'
    BY <1>1, <2>1, <2>3, <2>4 DEF RoundInv, OwedKept, Pending
  <2> QED
    BY <1>3, <1>4, <2>2, <2>5 DEF RoundInv
<1> QED
  BY <1>5, <1>6

(* Power-off, refused or not.                                              *)
LEMMA OwedPowerOff ==
  ASSUME TypeOK, SettledStep, RoundInv, NEW d \in Display, setPowerModeOff(d)
  PROVE  RoundInv'
<1> USE DEF TypeOK
<1>1. /\ call = NoCall /\ call' = call /\ refresh = {} /\ refresh' = refresh
      /\ current = {} /\ current' = current
  BY DEF setPowerModeOff, Between, entryVars
<1>2. /\ Ends(d)
      /\ mNeedSkipPresent \subseteq mNeedSkipPresent'
      /\ mNeedSkipPresent' \subseteq mNeedSkipPresent \cup {d}
      /\ mNeedSkipValidatePresent' = mNeedSkipValidatePresent
      /\ ~Enabled(d)' /\ d \in Screen
      /\ \A e \in Display : Enabled(e)' => Enabled(e) /\ e # d
      /\ \A e \in Display : \/ resources'[e] = resources[e]
                            \/ resources'[e] = "missed" /\ validateFlag' = {}
      /\ d \in mNeedSkipPresent' => d \in mNeedSkipPresent \/ geometryChanged'
  <2>1. CASE PowerOff(d)
    <3>1. Ends(d)
      BY <2>1, ClearEnds DEF PowerOff
    <3>2. d \notin Virtual
      BY <2>1, TypesDisjoint DEF PowerOff
    <3>3. ~Enabled(d)' /\ \A e \in Display : Enabled(e)' => Enabled(e) /\ e # d
      BY <2>1, <3>2 DEF PowerOff, Enabled
    <3>4. geometryChanged'
      BY <2>1 DEF PowerOff, SetPresentAndClearFlags
    <3> QED
      BY <2>1, <3>1, <3>3, <3>4 DEF PowerOff, Screen
  <2>2. CASE PowerOffFails(d)
    <3>1. Ends(d)
      BY <2>2, ClearEnds DEF PowerOffFails
    <3>2. d \notin powered /\ d \notin Virtual /\ d \in External
      BY <2>2, TypesDisjoint DEF PowerOffFails, SettledStep
    <3>3. ~Enabled(d)' /\ \A e \in Display : Enabled(e)' => Enabled(e) /\ e # d
      BY <2>2, <3>2 DEF PowerOffFails, Enabled
    <3>4. \A e \in Display : \/ resources'[e] = resources[e]
                             \/ resources'[e] = "missed" /\ isLastPresent(d)
      BY <2>2 DEF PowerOffFails, Holds
    <3>5. isLastPresent(d) => validateFlag' = {}
      BY <3>1 DEF Ends
    <3> QED
      BY <2>2, <3>1, <3>2, <3>3, <3>4, <3>5 DEF PowerOffFails, Screen
  <2> QED
    BY <2>1, <2>2 DEF setPowerModeOff
<1>3. Screen \subseteq Display
  BY DEF Screen, Display
<1>4. RefusedOnce' /\ EarlyKept'
  BY <1>1, <1>2 DEF Ends, RoundInv, RefusedOnce, EarlyKept
<1>5. PassedOver'
  BY <1>1, <1>2, <1>3 DEF Ends, RoundInv, PassedOver, Pending
<1>6. ASSUME NEW e \in Screen, Owed(e)'
      PROVE  /\ Owed(e) /\ e # d /\ e \notin validateFlag'
             /\ geometryChanged'
             /\ e \in presentFlag' => e \in presentFlag
  <2>1. Owed(e) /\ e # d
    BY <1>2, <1>3, <1>6 DEF Owed
  <2>2. e \notin validateFlag
    BY <1>1, <2>1, NothingOwedBetween
  <2>3. geometryChanged
    BY <2>1 DEF RoundInv, OwedKept
  <2>4. CASE isLastPresent(d)
    <3>1. e \in presentFlag
      BY <1>3, <2>1, <2>4 DEF isLastPresent, Owed
    <3>2. e \in Skipping
      BY <1>1, <2>1, <3>1 DEF RoundInv, OwedKept, Pending, Skipping
    <3> QED
      BY <1>2, <2>1, <2>4, <3>2 DEF Ends, Owed
  <2>5. CASE ~isLastPresent(d)
    BY <1>2, <2>1, <2>2, <2>3, <2>5 DEF Ends
  <2> QED
    BY <2>4, <2>5
<1>7. OwedKept'
  BY <1>1, <1>2, <1>6 DEF RoundInv, OwedKept, Pending
<1> QED
  BY <1>4, <1>5, <1>7 DEF RoundInv

(* A display comes on between two refreshes: in the middle of a round it   *)
(* misses its assignment.                                                  *)
LEMMA OwedComesOn ==
  ASSUME TypeOK, RoundInv, NEW d \in Display, setPowerModeOn(d) \/ StartVirtual(d)
  PROVE  RoundInv'
<1>1. /\ call = NoCall /\ call' = call /\ refresh = {} /\ refresh' = refresh
      /\ current = {} /\ current' = current
      /\ UNCHANGED <<validateFlag, presentFlag, mNeedSkipPresent,
                     mNeedSkipValidatePresent>>
      /\ geometryChanged => geometryChanged'
  BY DEF setPowerModeOn, StartVirtual, Between, entryVars, PowerOn,
         createVirtualDisplay
<1>2. RefusedOnce' /\ EarlyKept'
  BY <1>1 DEF RoundInv, RefusedOnce, EarlyKept
<1>3. ASSUME NEW e \in Screen, Enabled(e)', resources'[e] # "missed"
      PROVE  \/ Enabled(e) /\ resources'[e] = resources[e]
             \/ validateFlag = {} /\ presentFlag = {} /\ geometryChanged'
  <2>1. e \in Display /\ e \notin Virtual
    BY TypesDisjoint DEF Screen, Display
  <2>2. CASE setPowerModeOn(d)
    <3>1. resources'[e] = IF e = d /\ ComesOnLate(d) THEN "missed" ELSE resources[e]
      BY <2>1, <2>2 DEF setPowerModeOn, PowerOn, Holds
    <3>2. geometryChanged' /\ mPlugState' = mPlugState
          /\ powered' = powered \cup ({d} \cap mPlugState)
      BY <2>2 DEF setPowerModeOn, PowerOn
    <3> QED
      BY <1>3, <2>1, <3>1, <3>2
         DEF ComesOnLate, wasRenderingStateFlagsCleared, Enabled
  <2>3. CASE StartVirtual(d)
    <3>1. e # d
      BY <2>1, <2>3 DEF StartVirtual, createVirtualDisplay
    <3>2. resources'[e] = resources[e]
      BY <2>1, <2>3, <3>1 DEF StartVirtual, createVirtualDisplay, Holds
    <3> QED
      BY <1>3, <2>3, <3>1, <3>2 DEF StartVirtual, createVirtualDisplay, Enabled
  <2> QED
    BY <2>2, <2>3
<1>4. PassedOver'
  BY <1>1, <1>3 DEF RoundInv, PassedOver, Pending
<1>5. ASSUME NEW e \in Screen, Owed(e)'
      PROVE  /\ geometryChanged'
             /\ e \notin validateFlag
             /\ e \in presentFlag
                  => e \in mNeedSkipPresent \cup mNeedSkipValidatePresent
  <2>1. CASE Owed(e)
    <3>1. e \notin validateFlag
      BY <1>1, <2>1, NothingOwedBetween
    <3> QED
      BY <1>1, <2>1, <3>1 DEF RoundInv, OwedKept, Pending
  <2>2. CASE ~Owed(e)
    BY <1>3, <1>5, <2>2 DEF Owed
  <2> QED
    BY <2>1, <2>2
<1>6. OwedKept'
  BY <1>1, <1>5 DEF OwedKept
<1> QED
  BY <1>2, <1>4, <1>6 DEF RoundInv

(* The entry point answers for a display that is validated already, or was *)
(* unplugged when it was called.                                           *)
LEMMA OwedAnswered ==
  ASSUME TypeOK, PowerKept, PlaceKept, RoundKept, AutoKept, RoundInv,
         NEW d \in Display,
         AlreadyValidated(d) \/ forceSkipValidateDisplay(d)
  PROVE  RoundInv'
<1>1. /\ current = {d} /\ current' = {d} /\ d \in refresh /\ refresh' = refresh
      /\ ~Told /\ Told'
      /\ call.op # "validateAll" /\ call'.op # "validateAll"
      /\ UNCHANGED <<presentFlag, mNeedSkipPresent, geometryChanged, resources>>
      /\ \A e \in Display : Enabled(e)' = Enabled(e)
      /\ validateFlag' \ {d} = validateFlag \ {d}
      /\ mNeedSkipValidatePresent' \ {d} = mNeedSkipValidatePresent \ {d}
  <2>1. CASE AlreadyValidated(d)
    BY <2>1 DEF AlreadyValidated, GoOn, Told, Enabled, PlaceKept
  <2>2. CASE forceSkipValidateDisplay(d)
    <3>1. call.op \in Validating /\ call.on = d /\ call # NoCall
      BY <2>2 DEF forceSkipValidateDisplay, Validating
    <3>2. current = {d} /\ ~Told
      BY <3>1 DEF RoundKept, AutoKept, Told
    <3> QED
      BY <2>2, <3>2 DEF forceSkipValidateDisplay, ValidateReturns, GoOn, Told, Enabled,
                        PlaceKept
  <2> QED
    BY <2>1, <2>2
<1>2. \/ /\ d \in validateFlag /\ validateFlag' = validateFlag
      \/ /\ ~Enabled(d) /\ d \in mNeedSkipValidatePresent'
         /\ d \notin validateFlag'
  <2>1. CASE AlreadyValidated(d)
    BY <2>1 DEF AlreadyValidated
  <2>2. CASE forceSkipValidateDisplay(d)
    BY <2>2 DEF forceSkipValidateDisplay, PowerKept, PlaceKept
  <2> QED
    BY <2>1, <2>2
<1>3. Screen \subseteq Display
  BY DEF Screen, Display
<1>4. RefusedOnce'
  BY <1>1, <1>2 DEF RoundInv, RefusedOnce
<1>5. EarlyKept' /\ (InRound => InRound')
  BY <1>1 DEF RoundInv, EarlyKept, InRound
<1>6. PassedOver'
  BY <1>1, <1>2, <1>3 DEF RoundInv, PassedOver, Pending
<1>7. ASSUME NEW e \in Screen, Owed(e)'
      PROVE  Owed(e) /\ e # d
  <2>1. Owed(e)
    BY <1>1, <1>3, <1>7 DEF Owed
  <2>2. Owed(d) /\ d \in Screen => d \notin validateFlag
    BY <1>1 DEF RoundInv, OwedKept, MadeUp
  <2> QED
    BY <1>2, <2>1, <2>2 DEF Owed
<1>8. ASSUME NEW e \in Screen, e # d, MadeUp(e) PROVE MadeUp(e)'
  BY <1>1, <1>5, <1>8 DEF MadeUp
<1>9. OwedKept'
  BY <1>1, <1>3, <1>7, <1>8 DEF RoundInv, OwedKept, Pending
<1> QED
  BY <1>4, <1>5, <1>6, <1>9 DEF RoundInv

(* A display that came late is validated to be skipped.                    *)
LEMMA OwedSkippedValidate ==
  ASSUME TypeOK, SettledStep, PowerKept, PlaceKept, RoundKept, AutoKept, RoundInv,
         NEW d \in Display, SkippedValidate(d)
  PROVE  RoundInv'
<1>1. /\ call.op = "skipValidate" /\ call' = NoCall /\ validateFlag # {}
      /\ current = {d} /\ current' = {d} /\ d \in refresh /\ refresh' = refresh
      /\ ~Told /\ Told'
      /\ d \in mNeedSkipValidatePresent
      /\ mNeedSkipValidatePresent' = mNeedSkipValidatePresent
      /\ \A e \in Display : Enabled(e)' = Enabled(e)
  <2>1. call.op = "skipValidate" /\ call.on = d /\ call # NoCall
    BY DEF SkippedValidate
  <2>2. current = {d} /\ ~Told
    BY <2>1 DEF RoundKept, AutoKept, Told, Validating
  <2> QED
    BY <2>1, <2>2 DEF SkippedValidate, ValidateReturns, GoOn, Told, Enabled, PlaceKept,
                      PowerKept
<1>2. Validated(d, TRUE)
  BY ValidateSettled DEF SkippedValidate, SettledStep, TypeOK
<1>3. Screen \subseteq Display
  BY DEF Screen, Display
<1>4. RefusedOnce'
  BY <1>1, <1>2 DEF Validated, RoundInv, RefusedOnce
<1>5. EarlyKept' /\ (InRound => InRound')
  BY <1>1, <1>2 DEF Validated, RoundInv, EarlyKept, InRound
<1>6. PassedOver'
  <2> SUFFICES ASSUME NEW e \in Screen, Enabled(e)', e \notin validateFlag',
                      resources'[e] # "missed"
               PROVE  e \in presentFlag' \cap mNeedSkipPresent'
    BY DEF PassedOver
  <2>1. e # d /\ Enabled(e) /\ e \notin validateFlag
    BY <1>1, <1>2, <1>3 DEF Validated
  <2>2. resources[e] # "missed"
    BY <1>2, <1>3, <2>1 DEF Validated, TakenBack
  <2>3. e \in presentFlag \cap mNeedSkipPresent
    BY <1>1, <2>1, <2>2 DEF RoundInv, PassedOver, Pending
  <2> QED
    BY <1>2, <2>1, <2>3 DEF Validated
<1>7. ASSUME NEW e \in Screen, Owed(e)', e # d
      PROVE  /\ geometryChanged'
             /\ e \in presentFlag
                  => e \in mNeedSkipPresent \cup mNeedSkipValidatePresent
             /\ e \in validateFlag
                  => e \in mNeedSkipValidatePresent /\ MadeUp(e)
  <2>1. CASE Owed(e)
    BY <1>1, <1>2, <1>7, <2>1 DEF Validated, RoundInv, OwedKept, Pending
  <2>2. CASE ~Owed(e)
    <3>1. /\ isFirstValidate /\ geometryChanged' /\ Enabled(e)
          /\ resources[e] # "missed"
      BY <1>1, <1>2, <1>3, <1>7, <2>2 DEF Validated, Owed, TakenBack
    <3>2. e \notin validateFlag
      BY <1>3, <3>1 DEF isFirstValidate
    <3>3. e \in mNeedSkipPresent
      BY <1>1, <3>1, <3>2 DEF RoundInv, PassedOver, Pending
    <3> QED
      BY <3>1, <3>2, <3>3
  <2> QED
    BY <2>1, <2>2
<1>8. ASSUME NEW e \in Screen, e # d, MadeUp(e) PROVE MadeUp(e)'
  BY <1>1, <1>2, <1>5, <1>8 DEF MadeUp, Validated
<1>9. ASSUME d \in Screen, Owed(d)'
      PROVE  geometryChanged' /\ InRound
  <2>1. Owed(d)
    BY <1>1, <1>2, <1>9 DEF Validated, Owed
  <2>2. d \notin validateFlag
    BY <1>1, <1>9, <2>1 DEF RoundInv, OwedKept, MadeUp
  <2>3. d \in presentFlag \cap mNeedSkipPresent
    BY <1>1, <1>9, <2>1, <2>2 DEF RoundInv, PassedOver, Pending, Owed
  <2>4. InRound
    BY <1>1, <2>1, <2>3 DEF RoundInv, EarlyKept, Owed
  <2> QED
    BY <1>2, <1>9, <2>1, <2>4 DEF RoundInv, OwedKept, Validated
<1>10. OwedKept'
  <2>1. ASSUME NEW e \in Screen, Owed(e)', e # d
        PROVE  /\ geometryChanged'
               /\ e \in presentFlag'
                    => e \in mNeedSkipPresent' \cup mNeedSkipValidatePresent'
               /\ current' # {e}
               /\ e \in validateFlag'
                    => e \in mNeedSkipValidatePresent' /\ MadeUp(e)'
    BY <1>1, <1>2, <1>7, <1>8, <2>1 DEF Validated
  <2>2. ASSUME d \in Screen, Owed(d)'
        PROVE  geometryChanged' /\ MadeUp(d)'
    BY <1>1, <1>5, <1>9, <2>2 DEF MadeUp
  <2> QED
    BY <1>1, <2>1, <2>2 DEF OwedKept
<1> QED
  BY <1>4, <1>5, <1>6, <1>10 DEF RoundInv

(* A turn of validateDisplays() is over; those of the displays before it   *)
(* in the list are still to come.                                          *)
LEMMA TurnOver ==
  ASSUME TypeOK, NEW first \in Display, validateDisplays(first)
  PROVE  LET n == call.left
             x == mDisplays[n]
         IN /\ call.op = "validateAll" /\ call.on = first
            /\ n \in 1 .. Len(mDisplays) /\ x \in Display /\ Pending(x)
            /\ \A e \in Display : Pending(e) /\ e # x => Pending(e)'
            /\ \A e \in Display : Pending(e)' => Pending(e) /\ e # x
            /\ n = 1 => \A e \in Display : Pending(e) => e = x
            /\ n # 1 => call'.op = "validateAll" /\ call'.on = first
<1> DEFINE n == call.left
           x == mDisplays[n]
<1>1. /\ call.op = "validateAll" /\ call.on = first
      /\ n \in 1 .. Len(mDisplays) /\ n \in Nat
      /\ call \in [op : {"validateAll"}, on : Display, left : 1 .. Len(mDisplays)]
  BY DisplaysInjective DEF validateDisplays, TypeOK, EntryTypeOK, Calls
<1>2. x \in Display
  BY <1>1, DisplaysInjective
<1>3. Pending(x)
  BY <1>1 DEF Pending
<1>4. CASE n = 1
  <2>1. call'.op = "none"
    BY <1>4 DEF validateDisplays, ValidateReturns
  <2>2. \A e \in Display : Pending(e) => e = x
    BY <1>4 DEF Pending
  <2> QED
    BY <1>1, <1>2, <1>3, <1>4, <2>1, <2>2 DEF Pending
<1>5. CASE n # 1
  <2>1. call' = [call EXCEPT !.left = n - 1]
    BY <1>5 DEF validateDisplays
  <2>2. call'.op = "validateAll" /\ call'.on = first /\ call'.left = n - 1
    BY <1>1, <2>1
  <2>3. ASSUME NEW e \in Display, Pending(e), e # x PROVE Pending(e)'
    <3>1. PICK k \in 1 .. n : mDisplays[k] = e
      BY <2>3 DEF Pending
    <3>2. k \in 1 .. n - 1
      BY <1>1, <2>3, <3>1
    <3> QED
      BY <2>2, <3>1, <3>2 DEF Pending
  <2>4. ASSUME NEW e \in Display, Pending(e)' PROVE Pending(e) /\ e # x
    <3>1. PICK k \in 1 .. n - 1 : mDisplays[k] = e
      BY <2>2, <2>4 DEF Pending
    <3>2. k \in 1 .. n /\ k # n /\ k \in DOMAIN mDisplays /\ n \in DOMAIN mDisplays
      BY <1>1, <3>1, DisplaysInjective
    <3> QED
      BY <1>1, <3>1, <3>2, DisplaysInjective DEF Pending
  <2> QED
    BY <1>1, <1>2, <1>3, <1>5, <2>2, <2>3, <2>4
<1> QED
  BY <1>4, <1>5

LEMMA PendingStep ==
  ASSUME TypeOK, PowerKept, PendingKept, SettledStep, [Next]_vars
  PROVE  PendingKept'
<1>1. ASSUME call'.op # "validateAll" PROVE PendingKept'
  BY <1>1 DEF PendingKept, Pending
<1>2. ASSUME UNCHANGED <<call, validateFlag>>,
             \A e \in Display : Enabled(e)' => Enabled(e)
      PROVE  PendingKept'
  BY <1>2 DEF PendingKept, Pending
<1>3. CASE UNCHANGED vars
  BY <1>2, <1>3 DEF vars, coreVars, frameVars, entryVars, Enabled
<1>4. CASE StartRefresh
  BY <1>1, <1>4 DEF StartRefresh, Between, entryVars
<1>5. ASSUME NEW d \in Display, Write(d) PROVE PendingKept'
  BY <1>1, <1>5 DEF Write, WriteLayer, WriteDisplayFrame, entryVars
<1>6. ASSUME NEW d \in Display, Configure(d) PROVE PendingKept'
  BY <1>1, <1>6 DEF Configure, setPowerModeOff, setPowerModeOn, DropUnplugged,
     setActiveConfig, StartVirtual, StopVirtual, entryVars, Between
<1>7. ASSUME NEW d \in Display, Hotplug(d) PROVE PendingKept'
  <2>1. CASE Plug(d)
    <3>1. d \notin powered /\ d \notin Virtual
      BY <2>1, TypesDisjoint DEF Plug, PowerKept
    <3>2. \A e \in Display : Enabled(e)' => Enabled(e)
      BY <2>1, <3>1 DEF Plug, Enabled
    <3> QED
      BY <1>2, <1>7, <2>1, <3>2 DEF Hotplug, Plug, entryVars
  <2>2. CASE Unplug(d)
    BY <1>2, <1>7, <2>2 DEF Hotplug, Unplug, frameVars, entryVars, Enabled
  <2> QED
    BY <1>7, <2>1, <2>2 DEF Hotplug
<1>8. ASSUME NEW d \in Display, dynamicRecompositionThreadLoop(d) PROVE PendingKept'
  BY <1>2, <1>8 DEF dynamicRecompositionThreadLoop, entryVars, Enabled
<1>9. ASSUME NEW d \in Display, Compose(d) PROVE PendingKept'
  <2>1. CASE CallValidate(d)
    <3>1. CASE call'.op = "validateAll"
      <4>1. isFirstValidate /\ UNCHANGED <<validateFlag, powered, mPlugState>>
        BY <2>1, <3>1 DEF CallValidate
      <4> QED
        BY <4>1 DEF PendingKept, isFirstValidate, Enabled
    <3> QED
      BY <1>1, <3>1
  <2>2. CASE validateDisplays(d)
    <3> DEFINE x == mDisplays[call.left]
    <3>1. validateFlag' \ {x} = validateFlag \ {x}
      <4>1. CASE ValidateDisplay(x, FALSE)
        <5>1. ASSUME NEW e \in Display, ValidateDisplay(e, FALSE)
              PROVE  validateFlag' = validateFlag \cup {e}
          BY <5>1, ValidateSettled DEF SettledStep, TypeOK, Validated
        <5>2. x \in Display
          BY <2>2, TurnOver
        <5> QED
          BY <4>1, <5>1, <5>2
      <4>2. CASE ~ValidateDisplay(x, FALSE)
        BY <2>2, <4>2 DEF validateDisplays
      <4> QED
        BY <4>1, <4>2
    <3>2. \A e \in Display : Pending(e)' => Pending(e) /\ e # x
      BY <2>2, TurnOver
    <3>3. \A e \in Display : Enabled(e)' = Enabled(e)
      BY <2>2 DEF validateDisplays, Enabled
    <3> QED
      BY <3>1, <3>2, <3>3 DEF PendingKept
  <2>3. CASE PickDisplay(d) \/ AlreadyValidated(d) \/ acceptDisplayChanges(d)
    BY <1>1, <2>3 DEF PickDisplay, AlreadyValidated, acceptDisplayChanges
  <2>4. CASE forceSkipValidateDisplay(d) \/ SkippedValidate(d)
    <3>1. call' = NoCall
      <4>1. ValidateReturns(d)
        BY <2>4 DEF forceSkipValidateDisplay, SkippedValidate
      <4> QED
        BY <4>1 DEF ValidateReturns
    <3> QED
      BY <1>1, <3>1
  <2>5. CASE CallPresent(d)
    <3>1. call'.op # "validateAll"
      BY <2>5 DEF CallPresent
    <3> QED
      BY <1>1, <3>1
  <2>6. CASE presentDisplay(d) \/ forceSkipPresentDisplay(d)
    BY <1>1, <2>6 DEF presentDisplay, forceSkipPresentDisplay, PresentReturns
  <2> QED
    BY <1>9, <2>1, <2>2, <2>3, <2>4, <2>5, <2>6 DEF Compose
<1> QED
  BY <1>3, <1>4, <1>5, <1>6, <1>7, <1>8, <1>9 DEF Next

(* One turn of validateDisplays().                                         *)
LEMMA OwedTurn ==
  ASSUME TypeOK, SettledStep, PlaceKept, PendingKept, RoundKept, AutoKept, RoundInv,
         NEW first \in Display, validateDisplays(first)
  PROVE  RoundInv'
<1> DEFINE x == mDisplays[call.left]
<1>1. /\ call.op = "validateAll" /\ call.on = first /\ x \in Display
      /\ \A e \in Display : Pending(e)' => Pending(e) /\ e # x
      /\ \A e \in Display : Pending(e) /\ e # x => Pending(e)'
      /\ call.left = 1 => \A e \in Display : Pending(e) => e = x
  BY TurnOver
<1>2. /\ current = {first} /\ current' = {first} /\ first \in refresh
      /\ refresh' = refresh /\ presentFlag' = presentFlag
      /\ ~Told
      /\ \A e \in Display : Enabled(e)' = Enabled(e)
  <2>1. current = {first} /\ ~Told /\ first \in refresh
    BY <1>1 DEF RoundKept, AutoKept, Told, Validating, PlaceKept
  <2>2. UNCHANGED <<current, refresh, powered, mPlugState, presentFlag>>
    BY DEF validateDisplays, ValidateReturns, GoOn, clientVars, ValidateDisplay
  <2> QED
    BY <2>1, <2>2 DEF Enabled
<1>3. Told' => call.left = 1
  BY <1>2 DEF validateDisplays, clientVars, Told
<1>4. \/ Validated(x, FALSE)
      \/ /\ x # first
         /\ ~Enabled(x) \/ x \in mNeedSkipPresent \cap presentFlag
         /\ UNCHANGED <<validateFlag, mNeedSkipPresent, geometryChanged, resources>>
  <2>1. CASE ValidateDisplay(x, FALSE)
    <3>1. ASSUME NEW e \in Display, ValidateDisplay(e, FALSE) PROVE Validated(e, FALSE)
      BY <3>1, ValidateSettled DEF SettledStep, TypeOK
    <3> QED
      BY <1>1, <2>1, <3>1
  <2>2. CASE ~ValidateDisplay(x, FALSE)
    BY <2>2 DEF validateDisplays
  <2> QED
    BY <2>1, <2>2
<1>5. /\ mNeedSkipValidatePresent' \subseteq mNeedSkipValidatePresent
      /\ mNeedSkipValidatePresent \ {x} \subseteq mNeedSkipValidatePresent'
  BY DEF validateDisplays
<1> HIDE DEF x
<1>6. /\ validateFlag \subseteq validateFlag'
      /\ validateFlag' \subseteq validateFlag \cup {x}
      /\ mNeedSkipPresent' \subseteq mNeedSkipPresent
      /\ mNeedSkipPresent \ {x} \subseteq mNeedSkipPresent'
      /\ geometryChanged => geometryChanged'
      /\ \A e \in Display :
           \/ resources'[e] = resources[e]
           \/ /\ e # x \/ ~Enabled(x)
              /\ isFirstValidate /\ geometryChanged'
              /\ resources'[e] = TakenBack(e)
           \/ e = x /\ resources'[e] = "fresh"
  BY <1>4 DEF Validated
<1>7. Screen \subseteq Display
  BY DEF Screen, Display
<1>8. Told' /\ x # first => first \in validateFlag
  BY <1>1, <1>3 DEF PlaceKept
<1>9. RefusedOnce'
  <2> SUFFICES ASSUME NEW d \in mNeedSkipPresent'
               PROVE  /\ d \notin validateFlag' \/ d \in presentFlag'
                      /\ current' = {d} /\ Told' => d \in presentFlag'
    BY DEF RefusedOnce
  <2>1. d \in mNeedSkipPresent /\ (d \notin validateFlag \/ d \in presentFlag)
    BY <1>2, <1>6 DEF RoundInv, RefusedOnce
  <2>2. CASE d = x
    <3>1. x # first /\ validateFlag' = validateFlag
      BY <1>4, <2>2 DEF Validated
    <3> QED
      BY <1>2, <2>1, <2>2, <3>1
  <2>3. CASE d # x
    BY <1>2, <1>6, <1>8, <2>1, <2>3
  <2> QED
    BY <2>2, <2>3
<1>10. EarlyKept' /\ (InRound => InRound')
  BY <1>2, <1>6 DEF RoundInv, EarlyKept, InRound
<1>11. PassedOver'
  <2> SUFFICES ASSUME NEW e \in Screen, Enabled(e)', e \notin validateFlag', ~Pending(e)',
                      resources'[e] # "missed"
               PROVE  e \in presentFlag' \cap mNeedSkipPresent'
    BY DEF PassedOver
  <2>1. CASE e = x
    BY <1>1, <1>2, <1>4, <2>1 DEF Validated
  <2>2. CASE e # x
    <3>1. Enabled(e) /\ e \notin validateFlag /\ ~Pending(e)
      BY <1>1, <1>2, <1>6, <1>7, <2>2
    <3>2. resources[e] # "missed"
      BY <1>6, <1>7, <2>2 DEF TakenBack
    <3>3. e \in presentFlag \cap mNeedSkipPresent
      BY <1>1, <3>1, <3>2 DEF RoundInv, PassedOver
    <3> QED
      BY <1>2, <1>6, <2>2, <3>3
  <2> QED
    BY <2>1, <2>2
<1>12. ASSUME NEW e \in Screen, Owed(e)'
       PROVE  /\ geometryChanged'
              /\ e \in presentFlag' /\ ~Pending(e)'
                   => e \in mNeedSkipPresent' \cup mNeedSkipValidatePresent'
              /\ current' = {e} /\ Told' => e \in mNeedSkipValidatePresent'
              /\ e \in validateFlag' => e \in mNeedSkipValidatePresent' /\ MadeUp(e)'
  <2>1. e \in Display /\ Enabled(e) /\ resources'[e] = "none"
    BY <1>2, <1>7, <1>12 DEF Owed
  <2>2. CASE Owed(e)
    <3>1. /\ geometryChanged
          /\ e \in validateFlag => e \in mNeedSkipValidatePresent /\ MadeUp(e)
      BY <2>2 DEF RoundInv, OwedKept
    <3>2. CASE e = x
      <4>1. ~Validated(x, FALSE)
        BY <2>1, <3>1, <3>2 DEF Validated
      <4>2. /\ x # first /\ x \in mNeedSkipPresent \cap presentFlag
            /\ mNeedSkipPresent' = mNeedSkipPresent /\ validateFlag' = validateFlag
        BY <1>4, <2>1, <3>2, <4>1
      <4>3. x \notin validateFlag
        <5>1. Pending(x)
          BY TurnOver DEF x
        <5> QED
          BY <2>1, <3>2, <5>1 DEF PendingKept
      <4> QED
        BY <1>2, <1>6, <3>1, <3>2, <4>2, <4>3
    <3>3. CASE e # x
      <4>1. e \in presentFlag' /\ ~Pending(e)'
              => e \in mNeedSkipPresent' \cup mNeedSkipValidatePresent'
        BY <1>1, <1>2, <1>5, <1>6, <2>1, <2>2, <3>3 DEF RoundInv, OwedKept
      <4>2. e \in validateFlag => e # first /\ MadeUp(e)'
        BY <1>2, <1>10, <3>1 DEF MadeUp
      <4>3. current' = {e} /\ Told' => FALSE
        BY <1>2, <1>8, <3>3, <4>2
      <4>4. e \in validateFlag' => e \in validateFlag
        BY <1>6, <3>3
      <4> QED
        BY <1>5, <1>6, <3>1, <3>3, <4>1, <4>2, <4>3, <4>4
    <3> QED
      BY <3>2, <3>3
  <2>3. CASE ~Owed(e)
    <3>1. /\ e # x /\ isFirstValidate /\ geometryChanged'
          /\ resources[e] # "missed"
      BY <1>6, <2>1, <2>3 DEF Owed, TakenBack
    <3>2. e \notin validateFlag /\ e \notin validateFlag'
      BY <1>6, <2>1, <3>1 DEF isFirstValidate
    <3>3. ~Pending(e)' => e \in presentFlag \cap mNeedSkipPresent
      BY <1>1, <2>1, <3>1, <3>2 DEF RoundInv, PassedOver
    <3>4. current' = {e} /\ Told' => FALSE
      BY <1>2, <1>8, <3>1, <3>2
    <3> QED
      BY <1>6, <3>1, <3>2, <3>3, <3>4
  <2> QED
    BY <2>2, <2>3
<1>13. OwedKept'
  BY <1>12 DEF OwedKept
<1> QED
  BY <1>9, <1>10, <1>11, <1>13 DEF RoundInv

(* A present is refused, or the frame of the display ends.                 *)
LEMMA OwedPresent ==
  ASSUME TypeOK, SettledStep, PlaceKept, AcceptedNow, RoundKept, AutoKept, RoundInv,
         NEW d \in Display, presentDisplay(d)
  PROVE  RoundInv'
<1>1. /\ call.op # "validateAll" /\ call'.op # "validateAll"
      /\ current = {d} /\ d \in refresh /\ stage # "mustValidate"
      /\ \A e \in Display : Enabled(e)' = Enabled(e)
  <2>1. call.op = "present" /\ call # NoCall /\ call.on = d
    BY DEF presentDisplay
  <2>2. call' = NoCall /\ UNCHANGED <<powered, mPlugState>>
    BY DEF presentDisplay, PresentReturns
  <2>3. call'.op # "validateAll"
    BY <2>2
  <2> QED
    BY <2>1, <2>2, <2>3 DEF RoundKept, PlaceKept, Enabled
<1>2. PICK outcome : PresentDisplay(d, outcome) /\ PresentReturns(d, outcome)
  BY DEF presentDisplay
<1>3. /\ mNeedSkipPresent' = mNeedSkipPresent
      /\ mNeedSkipValidatePresent' = mNeedSkipValidatePresent
      /\ Refused(d, outcome) \/ Ended(d, outcome)
  BY <1>2, PresentSettled DEF SettledStep, TypeOK
<1>4. Screen \subseteq Display
  BY DEF Screen, Display
<1>5. \A e \in Display : ~Pending(e) /\ ~Pending(e)'
  BY <1>1 DEF Pending
<1>6. \/ /\ refresh' = refresh /\ current' = current /\ ~Told /\ ~Told'
         /\ outcome \in {"notValidated", "failed"}
      \/ /\ refresh' = refresh \ {d} /\ current' = {}
         /\ Told \/ outcome \notin {"notValidated", "failed"}
  <2>1. stage = "writing" \/ Told
    BY <1>1 DEF TypeOK, EntryTypeOK, Stage, Told
  <2> QED
    BY <1>2, <2>1 DEF PresentReturns, GoOn, Done, Told
<1>7. Told => mRenderingState[d] = "ACCEPTED_CHANGE"
  <2>1. call = [op |-> "present", on |-> d]
    BY DEF presentDisplay
  <2>2. d \notin mResChanged
    BY DEF SettledStep
  <2> QED
    BY <2>1, <2>2 DEF Told, RoundKept, AutoKept
<1>8. mRenderingState[d] = "ACCEPTED_CHANGE" => Told
  BY DEF AcceptedNow
<1>9. CASE Refused(d, outcome) /\ ~Told
  <2>1. UNCHANGED <<current, refresh>> /\ Told' = Told
    BY <1>6, <1>9 DEF Refused, Told
  <2> QED
    BY <1>1, <1>3, <1>9, <2>1, OwedUntouched DEF Refused
<1>10. CASE Refused(d, outcome) /\ Told
  <2>1. /\ refresh' = refresh \ {d} /\ current' = {}
        /\ UNCHANGED <<validateFlag, presentFlag>>
        /\ geometryChanged => geometryChanged'
        /\ \A e \in Display : \/ resources'[e] = resources[e]
                              \/ resources[e] = "fresh" /\ resources'[e] = "stale"
        /\ d \in mNeedSkipPresent /\ d \notin mNeedSkipValidatePresent
    BY <1>6, <1>7, <1>10 DEF Refused
  <2>2. d \in presentFlag
    BY <1>1, <1>10, <2>1 DEF RoundInv, RefusedOnce
  <2>3. InRound => InRound'
    BY <1>1, <2>1, <2>2 DEF InRound
  <2>4. RefusedOnce' /\ EarlyKept'
    BY <1>1, <1>3, <2>1, <2>2, <2>3 DEF RoundInv, RefusedOnce, EarlyKept
  <2>5. PassedOver'
    BY <1>1, <1>3, <1>4, <1>5, <2>1 DEF RoundInv, PassedOver
  <2>6. ASSUME NEW e \in Screen, Owed(e)'
        PROVE  /\ geometryChanged'
               /\ e \in presentFlag => e \in mNeedSkipPresent \cup mNeedSkipValidatePresent
               /\ e \in validateFlag => e \in mNeedSkipValidatePresent /\ MadeUp(e)'
    <3>1. Owed(e) /\ e \in Display
      BY <1>1, <1>4, <2>1, <2>6 DEF Owed
    <3>2. /\ geometryChanged'
          /\ e \in presentFlag => e \in mNeedSkipPresent \cup mNeedSkipValidatePresent
          /\ e \in validateFlag => e \in mNeedSkipValidatePresent /\ MadeUp(e)
      BY <1>5, <2>1, <3>1 DEF RoundInv, OwedKept
    <3>3. ASSUME e \in validateFlag PROVE MadeUp(e)'
      <4>1. e # d
        BY <2>1, <3>2, <3>3
      <4>2. e \notin refresh
        BY <1>1, <3>2, <3>3, <4>1 DEF MadeUp
      <4>3. PICK y \in refresh : y \notin presentFlag
        BY <3>2, <3>3, <4>2 DEF MadeUp
      <4>4. y \in refresh' /\ y \notin presentFlag' /\ e \notin refresh'
        BY <2>1, <2>2, <4>2, <4>3
      <4> QED
        BY <2>3, <3>2, <3>3, <4>4 DEF MadeUp
    <3> QED
      BY <3>2, <3>3
  <2>7. OwedKept'
    BY <1>3, <2>1, <2>6 DEF OwedKept
  <2> QED
    BY <2>4, <2>5, <2>7 DEF RoundInv
<1>11. CASE Ended(d, outcome)
  <2>1. /\ current' = {} \/ (current' = {d} /\ ~Told')
        /\ refresh' \subseteq refresh /\ refresh \subseteq refresh' \cup {d}
        /\ d \in refresh' => d \notin mNeedSkipPresent \cup mNeedSkipValidatePresent
    <3>1. CASE /\ refresh' = refresh /\ current' = current /\ ~Told'
               /\ outcome \in {"notValidated", "failed"}
      <4>1. d \notin mNeedSkipPresent \cup mNeedSkipValidatePresent
        BY <1>11, <3>1 DEF Ended
      <4> QED
        BY <1>1, <3>1, <4>1
    <3>2. CASE refresh' = refresh \ {d} /\ current' = {}
      BY <3>2
    <3> QED
      BY <1>6, <3>1, <3>2
  <2>2. Ends(d) /\ resources' = resources
    BY <1>11 DEF Ended
  <2>3. d \in Screen /\ Owed(d) => d \in mNeedSkipPresent \cup mNeedSkipValidatePresent
    BY <1>1, <1>8, <1>11 DEF Ended, RoundInv, OwedKept
  <2>4. \A e \in Screen : Owed(e)' = Owed(e)
    BY <1>1, <1>4, <2>2 DEF Owed
  <2>5. CASE isLastPresent(d)
    <3>1. validateFlag' = {} /\ presentFlag' = {}
      BY <2>2, <2>5 DEF Ends
    <3>2. RefusedOnce' /\ EarlyKept' /\ PassedOver'
      BY <1>1, <2>1, <3>1 DEF RefusedOnce, EarlyKept, PassedOver
    <3>3. ASSUME NEW e \in Screen, Owed(e) PROVE geometryChanged'
      <4>1. e \in Display /\ Enabled(e)
        BY <1>4, <3>3 DEF Owed
      <4>2. e # d => e \in presentFlag
        BY <2>5, <4>1 DEF isLastPresent
      <4>3. e \in Skipping
        BY <1>5, <2>3, <3>3, <4>1, <4>2 DEF RoundInv, OwedKept, Skipping
      <4> QED
        BY <2>2, <2>5, <4>1, <4>3 DEF Ends
    <3>4. OwedKept'
      BY <2>1, <2>4, <3>1, <3>3 DEF OwedKept
    <3> QED
      BY <3>2, <3>4 DEF RoundInv
  <2>6. CASE ~isLastPresent(d)
    <3>1. /\ validateFlag' = validateFlag /\ presentFlag' = presentFlag \cup {d}
          /\ geometryChanged => geometryChanged'
      BY <2>2, <2>6 DEF Ends
    <3>2. PICK y \in Display \ {d} : Enabled(y) /\ y \notin presentFlag
      BY <2>6 DEF isLastPresent
    <3>3. InRound => InRound'
      BY <1>1, <2>1, <3>1 DEF InRound
    <3>4. RefusedOnce'
      BY <1>1, <1>3, <2>1, <3>1 DEF RoundInv, RefusedOnce
    <3>5. EarlyKept'
      BY <1>1, <1>3, <2>1, <3>1, <3>3 DEF RoundInv, EarlyKept
    <3>6. PassedOver'
      BY <1>1, <1>3, <1>4, <1>5, <2>2, <3>1 DEF RoundInv, PassedOver
    <3>7. ASSUME NEW e \in Screen, Owed(e)
          PROVE  /\ geometryChanged'
                 /\ e \in presentFlag'
                      => e \in mNeedSkipPresent \cup mNeedSkipValidatePresent
                 /\ e \in validateFlag => e \in mNeedSkipValidatePresent /\ MadeUp(e)'
      <4>1. /\ geometryChanged'
            /\ e \in presentFlag'
                 => e \in mNeedSkipPresent \cup mNeedSkipValidatePresent
            /\ e \in validateFlag => e \in mNeedSkipValidatePresent /\ MadeUp(e)
        BY <1>4, <1>5, <2>3, <3>1, <3>7 DEF RoundInv, OwedKept
      <4>2. ASSUME e \in validateFlag PROVE MadeUp(e)'
        <5>1. InRound' /\ y \in refresh
          BY <3>2, <3>3, <4>1, <4>2 DEF MadeUp, InRound
        <5>2. y \in refresh' /\ y \notin presentFlag'
          BY <2>1, <3>1, <3>2, <5>1
        <5>3. e \notin refresh'
          BY <1>1, <2>1, <4>1, <4>2 DEF MadeUp
        <5> QED
          BY <5>1, <5>2, <5>3 DEF MadeUp
      <4> QED
        BY <4>1, <4>2
    <3>8. OwedKept'
      BY <1>3, <2>1, <2>4, <3>1, <3>7 DEF OwedKept
    <3> QED
      BY <3>4, <3>5, <3>6, <3>8 DEF RoundInv
  <2> QED
    BY <2>5, <2>6
<1> QED
  BY <1>3, <1>9, <1>10, <1>11

(* The present of a display that was unplugged before the round began.     *)
LEMMA OwedForcedPresent ==
  ASSUME TypeOK, PlaceKept, RoundInv, NEW d \in Display, forceSkipPresentDisplay(d)
  PROVE  RoundInv'
<1>1. /\ validateFlag = {} /\ validateFlag' = {} /\ presentFlag' = {}
      /\ current' = {} /\ call'.op # "validateAll"
      /\ UNCHANGED <<mNeedSkipPresent, geometryChanged, resources>>
      /\ \A e \in Display : Enabled(e)' = Enabled(e)
  <2>1. call.op = "forcePresent"
    BY DEF forceSkipPresentDisplay
  <2>2. call' = NoCall /\ current' = {}
    BY DEF forceSkipPresentDisplay, PresentReturns, Done
  <2>3. call'.op # "validateAll"
    BY <2>2
  <2>4. validateFlag = {} /\ presentFlag = {}
    BY <2>1 DEF PlaceKept, wasRenderingStateFlagsCleared
  <2> QED
    BY <2>2, <2>3, <2>4 DEF forceSkipPresentDisplay, Enabled
<1>2. RefusedOnce' /\ EarlyKept' /\ PassedOver'
  BY <1>1 DEF RefusedOnce, EarlyKept, PassedOver
<1>3. \A e \in Screen : Owed(e)' => Owed(e)
  BY <1>1 DEF Owed, Screen, Display
<1>4. OwedKept'
  BY <1>1, <1>3 DEF RoundInv, OwedKept
<1> QED
  BY <1>2, <1>4 DEF RoundInv

(* An entry point begins: validate, or present.                            *)
LEMMA OwedCalled ==
  ASSUME TypeOK, RoundInv, NEW d \in Display, CallValidate(d) \/ CallPresent(d)
  PROVE  RoundInv'
<1>1. /\ UNCHANGED <<current, refresh, validateFlag, presentFlag, mNeedSkipPresent,
                     geometryChanged, resources>>
      /\ Told' = Told
      /\ mNeedSkipValidatePresent \subseteq mNeedSkipValidatePresent'
      /\ \A e \in Display : Enabled(e)' = Enabled(e)
  BY DEF CallValidate, CallPresent, clientVars, Told, Enabled
<1>2. call.op # "validateAll"
  BY DEF CallValidate, CallPresent
<1>3. call'.op # "validateAll" \/ \A e \in Display : Pending(e)'
  <2>1. CASE CallValidate(d) /\ call'.op = "validateAll"
    <3>1. call'.op = "validateAll" /\ call'.left = Len(mDisplays)
      BY <2>1 DEF CallValidate
    <3> QED
      BY <3>1, DisplaysInjective DEF Pending
  <2>2. CASE CallPresent(d)
    BY <2>2 DEF CallPresent
  <2> QED
    BY <2>1, <2>2
<1> QED
  BY <1>1, <1>2, <1>3, OwedUntouched

LEMMA RoundInvStep ==
  ASSUME TypeOK, PowerKept, RoundKept, AutoKept, ShownInv, SettledStep, [Next]_vars
  PROVE  RoundInv'
<1> USE DEF ShownInv
<1>1. CASE UNCHANGED vars
  BY <1>1, OwedUntouched
     DEF vars, coreVars, frameVars, entryVars, clientVars, Told, Enabled
<1>2. CASE StartRefresh
  <2> PICK d \in Display : TRUE
    BY <1>2 DEF StartRefresh, TypeOK, EntryTypeOK
  <2> QED
    BY <1>2, OwedRefresh
<1>3. ASSUME NEW d \in Display, Compose(d) PROVE RoundInv'
  <2>1. CASE PickDisplay(d)
    BY <2>1, OwedRefresh
  <2>2. CASE CallValidate(d) \/ CallPresent(d)
    BY <2>2, OwedCalled
  <2>3. CASE AlreadyValidated(d) \/ forceSkipValidateDisplay(d)
    BY <2>3, OwedAnswered
  <2>4. CASE SkippedValidate(d)
    BY <2>4, OwedSkippedValidate
  <2>5. CASE validateDisplays(d)
    BY <2>5, OwedTurn
  <2>6. CASE acceptDisplayChanges(d)
    <3>1. stage = "validated" /\ stage' = "accepted" /\ UNCHANGED <<refresh, current>>
      BY <2>6 DEF acceptDisplayChanges, GoOn
    <3> QED
      BY <2>6, <3>1, OwedUntouched DEF acceptDisplayChanges, Told, Enabled
  <2>7. CASE presentDisplay(d)
    BY <2>7, OwedPresent
  <2>8. CASE forceSkipPresentDisplay(d)
    BY <2>8, OwedForcedPresent
  <2> QED
    BY <1>3, <2>1, <2>2, <2>3, <2>4, <2>5, <2>6, <2>7, <2>8 DEF Compose
<1>4. ASSUME NEW d \in Display, ChangeGeometry(d)
      PROVE  /\ geometryChanged'
             /\ \A e \in Display : \/ resources'[e] = resources[e]
                                   \/ resources[e] = "fresh" /\ resources'[e] = "stale"
  BY <1>4 DEF ChangeGeometry, GoesStale, Holds
<1>5. ASSUME NEW d \in Display, Write(d) PROVE RoundInv'
  <2>1. CASE WriteLayer(d)
    BY <1>4, <2>1, OwedUntouched DEF WriteLayer, entryVars, clientVars, Told, Enabled
  <2>2. CASE WriteDisplayFrame(d)
    <3>1. PICK moved \in BOOLEAN : SetDisplayFrame(d, moved)
      BY <2>2 DEF WriteDisplayFrame
    <3>2. /\ geometryChanged => geometryChanged'
          /\ \A e \in Display : \/ resources'[e] = resources[e]
                                \/ resources[e] = "fresh" /\ resources'[e] = "stale"
      BY <1>4, <3>1 DEF SetDisplayFrame
    <3> QED
      BY <2>2, <3>1, <3>2, OwedFlagsGone
         DEF WriteDisplayFrame, SetDisplayFrame, entryVars, clientVars, Told, Enabled
  <2> QED
    BY <1>5, <2>1, <2>2 DEF Write
<1>6. ASSUME NEW d \in Display, Configure(d) PROVE RoundInv'
  <2>1. CASE setPowerModeOff(d)
    BY <2>1, OwedPowerOff
  <2>2. CASE setPowerModeOn(d) \/ StartVirtual(d)
    BY <2>2, OwedComesOn
  <2>3. CASE DropUnplugged(d)
    BY <2>3, OwedUntouched DEF DropUnplugged, coreVars, frameVars, entryVars, Told,
                               Enabled
  <2>4. CASE setActiveConfig(d)
    BY <2>4, OwedUntouched DEF setActiveConfig, ChangeResolution, entryVars,
                               clientVars, Told, Enabled
  <2>5. CASE StopVirtual(d)
    BY <2>5, OwedUntouched DEF StopVirtual, destroyVirtualDisplay, entryVars, Told,
                               Enabled
  <2> QED
    BY <1>6, <2>1, <2>2, <2>3, <2>4, <2>5 DEF Configure
<1>7. ASSUME NEW d \in Display, Hotplug(d) PROVE RoundInv'
  <2>1. CASE Plug(d)
    <3>1. d \notin powered /\ d \notin Virtual
      BY <2>1, TypesDisjoint DEF Plug, PowerKept
    <3>2. \A e \in Display : Enabled(e)' => Enabled(e)
      BY <2>1, <3>1 DEF Plug, Enabled
    <3> QED
      BY <1>7, <2>1, <3>2, OwedUntouched DEF Hotplug, Plug, entryVars, clientVars, Told
  <2>2. CASE Unplug(d)
    BY <1>7, <2>2, OwedUntouched
       DEF Hotplug, Unplug, frameVars, entryVars, clientVars, Told, Enabled
  <2> QED
    BY <1>7, <2>1, <2>2 DEF Hotplug
<1>8. ASSUME NEW d \in Display, dynamicRecompositionThreadLoop(d) PROVE RoundInv'
  BY <1>4, <1>8, OwedUntouched
     DEF dynamicRecompositionThreadLoop, entryVars, clientVars, Told, Enabled
<1> QED
  BY <1>1, <1>2, <1>3, <1>5, <1>6, <1>7, <1>8 DEF Next

LEMMA ShownInvStep ==
  ASSUME TypeOK, PowerKept, RoundKept, AutoKept, ShownInv, [SettledStep]_vars,
         [Next]_vars
  PROVE  ShownInv'
<1>1. CASE SettledStep
  <2>1. PlaceKept' /\ AcceptedNow'
    BY <1>1, PlaceStep DEF ShownInv
  <2>2. PendingKept'
    BY <1>1, PendingStep DEF ShownInv
  <2>3. RoundInv'
    BY <1>1, RoundInvStep
  <2> QED
    BY <2>1, <2>2, <2>3 DEF ShownInv
<1>2. CASE UNCHANGED vars
  <2>1. PlaceKept' /\ AcceptedNow'
    BY <1>2, PlaceUntouched
       DEF vars, coreVars, frameVars, entryVars, clientVars, Enabled, ShownInv, PlaceKept
  <2>2. PendingKept'
    BY <1>2 DEF vars, coreVars, frameVars, entryVars, Enabled, Pending, ShownInv,
                PendingKept
  <2>3. RoundInv'
    BY <1>2, OwedUntouched
       DEF vars, coreVars, frameVars, entryVars, clientVars, Told, Enabled, ShownInv
  <2> QED
    BY <2>1, <2>2, <2>3 DEF ShownInv
<1> QED
  BY <1>1, <1>2

LEMMA ShownInvKept == Spec /\ [][SettledStep]_vars => []ShownInv
<1>1. TypeOK /\ PowerKept /\ RoundKept /\ AutoKept /\ ShownInv /\ [SettledStep]_vars
        /\ [Next]_vars => ShownInv'
  BY ShownInvStep
<1>2. Init => PowerKept
  BY SkipInvInit DEF SkipInv
<1> QED
  BY <1>1, <1>2, TypeCorrect, RoundIsKept, AutoInit, AutoStep, PowerStep,
     ShownInvInit, PTL DEF Spec

(* While no display changes its resolution and no power-off is refused, a  *)
(* primary or external display that is on is never shown with resources a  *)
(* later first validate took back (prepareResources()), whatever displays  *)
(* there are.                                                              *)
THEOREM ShownOwnTheirs == Spec /\ [][SettledStep]_vars => ShownOwnsResources
<1> DEFINE Owns ==
      \A d \in Primary \cup External :
        Presents(d, "shown") /\ Enabled(d) => resources[d] # "none"
<1>1. TypeOK /\ ShownInv /\ [SettledStep]_vars /\ [Next]_vars => [Owns]_vars
  <2> SUFFICES ASSUME TypeOK, ShownInv, SettledStep, Next,
                      NEW d \in Primary \cup External, Presents(d, "shown"), Enabled(d), resources[d] = "none"
               PROVE  FALSE
    OBVIOUS
  <2>1. d \in Display /\ d \in Screen /\ Owed(d)
    BY DEF Screen, Display, Owed
  <2>2. PresentDisplay(d, "shown")
    BY <2>1, OnlyPresentEnds DEF Outcome
  <2>3. /\ d \notin mNeedSkipPresent \cup mNeedSkipValidatePresent
        /\ mRenderingState[d] = "ACCEPTED_CHANGE" \/ ~geometryChanged
    <3>1. Refused(d, "shown") \/ Ended(d, "shown")
      BY <2>1, <2>2, PresentSettled DEF SettledStep, TypeOK
    <3> QED
      BY <3>1 DEF Refused, Ended
  <2>4. /\ geometryChanged
        /\ current = {d} /\ Told => d \in mNeedSkipValidatePresent
    BY <2>1 DEF ShownInv, RoundInv, OwedKept
  <2>5. current = {d} /\ Told
    BY <2>1, <2>3, <2>4 DEF ShownInv, AcceptedNow
  <2> QED
    BY <2>3, <2>4, <2>5
<1> QED
  BY <1>1, ShownInvKept, TypeCorrect, PTL DEF Spec, ShownOwnsResources

(* A frame is shown without validation (canSkipValidate()) only when no    *)
(* primary or external display that is on was left without resources, by   *)
(* this assignment or an earlier one.  The layers of a virtual display may *)
(* come between its validation and its present and are not covered.        *)
SkippedValidateOwnsScreen ==
  [][\A d \in Display :
        Presents(d, "shown") /\ Enabled(d) /\ stage = "writing"
          => \A e \in Screen : Enabled(e) => resources[e] # "none"]_vars

THEOREM SkippedOwnTheirs == Spec /\ [][SettledStep]_vars => SkippedValidateOwnsScreen
<1> DEFINE Owns ==
      \A d \in Display :
        Presents(d, "shown") /\ Enabled(d) /\ stage = "writing"
          => \A e \in Screen : Enabled(e) => resources[e] # "none"
<1>1. TypeOK /\ ShownInv /\ [SettledStep]_vars /\ [Next]_vars => [Owns]_vars
  <2> SUFFICES ASSUME TypeOK, ShownInv, SettledStep, Next, NEW d \in Display,
                      Presents(d, "shown"), stage = "writing",
                      NEW e \in Screen, Enabled(e), resources[e] = "none"
               PROVE  FALSE
    OBVIOUS
  <2>1. PresentDisplay(d, "shown")
    BY OnlyPresentEnds DEF Outcome
  <2>2. mRenderingState[d] = "ACCEPTED_CHANGE" \/ ~geometryChanged
    <3>1. Refused(d, "shown") \/ Ended(d, "shown")
      BY <2>1, PresentSettled DEF SettledStep, TypeOK
    <3> QED
      BY <3>1 DEF Refused, Ended
  <2>3. geometryChanged
    BY DEF ShownInv, RoundInv, OwedKept, Owed
  <2> QED
    BY <2>2, <2>3 DEF ShownInv, AcceptedNow, Told
<1> QED
  BY <1>1, ShownInvKept, TypeCorrect, PTL DEF Spec, SkippedValidateOwnsScreen
=============================================================================
