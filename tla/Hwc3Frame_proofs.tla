-------------------------- MODULE Hwc3Frame_proofs --------------------------
(***************************************************************************)
(* The composer 3 service implements FrameContract too, for any displays   *)
(* and any number of skipped start frames.  What validateDisplay() and     *)
(* presentDisplay() do to the displays is taken from the lemmas about      *)
(* FrameCore in FrameProtocol_proofs.                                      *)
(***************************************************************************)
EXTENDS Hwc3Frame, FrameProtocol_proofs

USE DEF NoCall, Idle, Composing

Hwc3Typed ==
  Hwc3TypeOK /\ mHWCRenderingState \in [Display -> RenderingState]

(* The place of the client, and the state of the display it is composing.  *)
Hwc3Place ==
  /\ call # NoCall => current = {call.on}
  /\ call.op = "validated" => stage \in {"writing", "mustValidate"}

Hwc3Round ==
  \A d \in Display \ mResChanged :
    /\ call = [op |-> "validated", on |-> d] => mRenderingState[d] = "VALIDATED"
    /\ Composing(d) /\ stage = "validated" => mRenderingState[d] = "VALIDATED"
    /\ Composing(d) /\ stage = "accepted" => mRenderingState[d] = "ACCEPTED_CHANGE"
    /\ call = [op |-> "present", on |-> d] /\ stage \in Promises
         => mRenderingState[d] = "ACCEPTED_CHANGE"

Hwc3Inv == Hwc3Typed /\ Hwc3Place /\ Hwc3Round

LEMMA Hwc3InitInv == Hwc3Init => Hwc3Inv
<1> SUFFICES ASSUME Hwc3Init PROVE Hwc3Inv
  OBVIOUS
<1>1. TypeOK
  BY InitTyped DEF Hwc3Init
<1>2. Hwc3Typed
  BY <1>1 DEF Hwc3Init, Init, CoreInit, Hwc3Typed, Hwc3TypeOK, TypeOK, EntryTypeOK,
              Hwc3Calls, Display
<1>3. Hwc3Place /\ Hwc3Round
  BY DEF Hwc3Init, Init, CoreInit, Hwc3Place, Hwc3Round
<1> QED
  BY <1>2, <1>3 DEF Hwc3Inv

(* The flags of the service are those of displays.                         *)
LEMMA FollowTyped ==
  ASSUME mMustValidate \subseteq Display, mPlugState' \subseteq Display,
         FollowDisplays
  PROVE  mMustValidate' \subseteq Display
BY DEF FollowDisplays

(* The client between two commands, on the types FrameProtocol proves.     *)
LEMMA SharedTyped ==
  ASSUME Hwc3Typed, SharedClient
  PROVE  Hwc3Typed'
<1>1. \/ StartRefresh
      \/ \E d \in Display : PickDisplay(d) \/ Write(d) \/ Configure(d)
  BY DEF SharedClient
<1>2. /\ call = NoCall /\ call' = call
      /\ mHWCRenderingState' = mHWCRenderingState
      /\ mNeedSkipValidatePresent' = mNeedSkipValidatePresent
  BY <1>1 DEF StartRefresh, Between, PickDisplay, Write, WriteLayer,
     WriteDisplayFrame, Configure, setPowerModeOff, setPowerModeOn, DropUnplugged,
     setActiveConfig, StartVirtual, StopVirtual, PowerOff, PowerOffFails, PowerOn,
     ChangeResolution, createVirtualDisplay, destroyVirtualDisplay, coreVars,
     frameVars, entryVars
<1>3. TypeOK
  BY <1>2 DEF Hwc3Typed, Hwc3TypeOK, TypeOK, EntryTypeOK, Calls
<1>4. Next
  BY <1>1 DEF Next, Compose
<1>5. TypeOK'
  BY <1>3, <1>4, StepTyped
<1>6. mMustValidate' \subseteq Display
  BY <1>5, FollowTyped DEF SharedClient, Hwc3Typed, Hwc3TypeOK, TypeOK, CoreTypeOK
<1> QED
  BY <1>2, <1>5, <1>6 DEF SharedClient, Hwc3Typed, Hwc3TypeOK, TypeOK, EntryTypeOK,
     Hwc3Calls

LEMMA SharedRound ==
  ASSUME Hwc3Place, Hwc3Round, SharedClient
  PROVE  (Hwc3Place /\ Hwc3Round)'
<1>1. CASE StartRefresh
  BY <1>1 DEF StartRefresh, Between, Hwc3Place, Hwc3Round, entryVars
<1>2. ASSUME NEW d \in Display, PickDisplay(d) PROVE (Hwc3Place /\ Hwc3Round)'
  BY <1>2 DEF PickDisplay, Hwc3Place, Hwc3Round, Promises
<1>3. ASSUME NEW d \in Display, Write(d) PROVE (Hwc3Place /\ Hwc3Round)'
  BY <1>3 DEF Write, WriteLayer, WriteDisplayFrame, Hwc3Place, Hwc3Round, entryVars,
     clientVars
<1>4. ASSUME NEW d \in Display, Configure(d) PROVE (Hwc3Place /\ Hwc3Round)'
  <2>1. call = NoCall /\ current = {} /\ UNCHANGED <<call, current, stage>>
    BY <1>4 DEF Configure, Between, setPowerModeOff, setPowerModeOn, DropUnplugged,
       setActiveConfig, StartVirtual, StopVirtual, entryVars, clientVars
  <2> QED
    BY <2>1 DEF Hwc3Place, Hwc3Round
<1> QED
  BY <1>1, <1>2, <1>3, <1>4 DEF SharedClient

(* The commands of the client.                                             *)
LEMMA CommandInv ==
  ASSUME Hwc3Inv, NEW d \in Display, Command(d)
  PROVE  Hwc3Inv'
<1> USE DEF Hwc3Inv, Hwc3Typed, Hwc3TypeOK
<1>1. CASE MustValidateFirst(d)
  BY <1>1 DEF MustValidateFirst, GoOn, coreVars, frameVars, entryVars, serviceVars,
     CoreTypeOK, Stage, Hwc3Place, Hwc3Round, Promises
<1>2. CASE HalValidate(d)
  <2>1. CoreTypeOK'
    BY <1>2, ValidateDisplayEffect DEF HalValidate, CoreTypeOK, FrameTypeOK
  <2>2. d \in mResChanged' \/ mRenderingState'[d] = "VALIDATED"
    BY <1>2, ValidateDisplayEffect DEF HalValidate
  <2>3. /\ call' = [op |-> "validated", on |-> d] /\ call'.op = "validated"
        /\ call'.on = d /\ call' # NoCall
        /\ current' = {d} /\ stage' \in {"writing", "mustValidate"}
        /\ UNCHANGED <<clientVars, result, serviceVars, mHWCRenderingState,
                       mNeedSkipValidatePresent>>
    BY <1>2 DEF HalValidate, clientVars
  <2>4. call' \in Hwc3Calls
    BY <2>3 DEF Hwc3Calls
  <2>5. (Hwc3Place /\ Hwc3Round)'
    BY <2>2, <2>3 DEF Hwc3Place, Hwc3Round, Promises
  <2> QED
    BY <2>1, <2>3, <2>4, <2>5 DEF clientVars, serviceVars
<1>3. CASE ClearMustValidate(d)
  BY <1>3 DEF ClearMustValidate, GoOn, coreVars, frameVars, CoreTypeOK, Stage,
     Hwc3Calls, Hwc3Place, Hwc3Round
<1>4. CASE HalAccept(d)
  <2>1. CoreTypeOK'
    BY <1>4, AcceptedTyped DEF HalAccept, CoreTypeOK
  <2>2. (Hwc3Place /\ Hwc3Round)'
    BY <1>4 DEF HalAccept, Accepted, SetRenderingState, GoOn, entryVars, CoreTypeOK,
       Hwc3Place, Hwc3Round
  <2> QED
    BY <1>4, <2>1, <2>2 DEF HalAccept, GoOn, entryVars, serviceVars, Stage
<1>5. CASE EnterPresent(d)
  <2>1. CoreTypeOK'
    BY <1>5, AcceptedTyped DEF EnterPresent, CoreTypeOK
  <2>2. /\ call' = [op |-> "present", on |-> d] /\ call'.op = "present"
        /\ call'.on = d /\ call' # NoCall
        /\ current = {d} /\ UNCHANGED <<current, stage, mResChanged>>
    BY <1>5 DEF EnterPresent, clientVars
  <2>3. stage \in Promises /\ d \notin mResChanged
          => mRenderingState'[d] = "ACCEPTED_CHANGE"
    BY <1>5 DEF EnterPresent, Accepted, SetRenderingState, CoreTypeOK, Hwc3Round,
       Promises
  <2>4. (Hwc3Place /\ Hwc3Round)'
    BY <2>2, <2>3 DEF Hwc3Place, Hwc3Round
  <2> QED
    BY <1>5, <2>1, <2>2, <2>4 DEF EnterPresent, clientVars, serviceVars, Hwc3Calls
<1>6. CASE HalPresent(d)
  <2>1. PICK outcome \in Outcome :
          /\ PresentDisplay(d, outcome)
          /\ result' = outcome
          /\ GoOn("mustValidate") \/ Done(d)
    BY <1>6 DEF HalPresent
  <2>2. CoreTypeOK'
    BY <1>6, <2>1, PresentDisplayEffect DEF HalPresent, CoreTypeOK, FrameTypeOK
  <2>3. call' = NoCall /\ stage' \in {"writing", "mustValidate"}
    BY <1>6, <2>1 DEF HalPresent, GoOn, Done
  <2>4. (Hwc3Place /\ Hwc3Round)'
    BY <2>3 DEF Hwc3Place, Hwc3Round
  <2>5. /\ clientOn' \subseteq Display /\ refresh' \subseteq Display
        /\ current' \in {{}} \cup {{e} : e \in Display} /\ stage' \in Stage
    BY <2>1 DEF GoOn, Done, Stage
  <2>6. mMustValidate' \subseteq Display
    BY <1>6 DEF HalPresent, Display
  <2> QED
    BY <1>6, <2>1, <2>2, <2>3, <2>4, <2>5, <2>6, PresentDisplayEffect
       DEF HalPresent, Hwc3Calls
<1> QED
  BY <1>1, <1>2, <1>3, <1>4, <1>5, <1>6 DEF Command

LEMMA Hwc3StepInv == Hwc3Inv /\ [Hwc3Next]_hwc3Vars => Hwc3Inv'
<1> SUFFICES ASSUME Hwc3Inv, [Hwc3Next]_hwc3Vars PROVE Hwc3Inv'
  OBVIOUS
<1> USE DEF Hwc3Inv
<1>1. CASE UNCHANGED hwc3Vars
  BY <1>1 DEF hwc3Vars, vars, coreVars, frameVars, entryVars, clientVars, serviceVars,
     Hwc3Typed, Hwc3TypeOK, CoreTypeOK, Hwc3Place, Hwc3Round
<1>2. CASE SharedClient
  BY <1>2, SharedTyped, SharedRound
<1>3. CASE onRefresh
  BY <1>3 DEF onRefresh, vars, coreVars, frameVars, entryVars, clientVars, Display,
     Hwc3Typed, Hwc3TypeOK, CoreTypeOK, Hwc3Place, Hwc3Round
<1>4. ASSUME NEW d \in Display, Command(d) PROVE Hwc3Inv'
  BY <1>4, CommandInv
<1>5. ASSUME NEW d \in Display, HotplugEvent(d) PROVE Hwc3Inv'
  <2>1. CoreTypeOK'
    BY <1>5, ConfigureTyped DEF HotplugEvent, Hotplug, Hwc3Typed, Hwc3TypeOK
  <2>2. mMustValidate' \subseteq Display
    BY <1>5, <2>1, FollowTyped DEF HotplugEvent, Hwc3Typed, Hwc3TypeOK, CoreTypeOK
  <2>3. UNCHANGED <<entryVars, clientVars, mRenderingState, mResChanged,
                    mNeedSkipValidatePresent>>
    BY <1>5 DEF HotplugEvent, Hotplug, Plug, Unplug, frameVars
  <2> QED
    BY <1>5, <2>1, <2>2, <2>3 DEF HotplugEvent, entryVars, clientVars, Hwc3Typed,
       Hwc3TypeOK, Hwc3Place, Hwc3Round
<1>6. ASSUME NEW d \in Display, Recompose(d) PROVE Hwc3Inv'
  <2>1. CoreTypeOK'
    BY <1>6, ChangeGeometryTyped DEF Recompose, dynamicRecompositionThreadLoop,
       Hwc3Typed, Hwc3TypeOK, CoreTypeOK
  <2> QED
    BY <1>6, <2>1 DEF Recompose, dynamicRecompositionThreadLoop, entryVars, clientVars,
       Hwc3Typed, Hwc3TypeOK, Hwc3Place, Hwc3Round
<1> QED
  BY <1>1, <1>2, <1>3, <1>4, <1>5, <1>6 DEF Hwc3Next

(* Every variable of the service keeps its type, and the displays never    *)
(* have mNeedSkipValidatePresent set.                                      *)
THEOREM Hwc3TypeCorrect == Hwc3Spec => []Hwc3TypeOK
<1>1. Hwc3Inv => Hwc3TypeOK
  BY DEF Hwc3Inv, Hwc3Typed
<1> QED
  BY <1>1, Hwc3InitInv, Hwc3StepInv, PTL DEF Hwc3Spec

-----------------------------------------------------------------------------
(* Every step is a step of the contract.                                   *)

LEMMA CommandImplements ==
  ASSUME Hwc3Inv, NEW d \in Display, Command(d)
  PROVE  [Client!ContractNext]_Client!contractVars
<1> USE DEF Hwc3Inv
<1>1. CASE MustValidateFirst(d)
  <2>1. ContractOf' = ContractOf
    BY <1>1 DEF MustValidateFirst, GoOn, ContractOf
  <2> QED
    BY <1>1, <2>1 DEF MustValidateFirst, coreVars, frameVars, entryVars,
       Client!contractVars
<1>2. CASE HalValidate(d)
  BY <1>2, NothingPromised DEF HalValidate, clientVars, Promises,
     Client!ContractNext
<1>3. CASE ClearMustValidate(d)
  <2>1. current = {d} /\ stage \in {"writing", "mustValidate"}
    BY <1>3 DEF ClearMustValidate, Hwc3Place
  <2> QED
    BY <1>3, <2>1, ValidateIsValidate DEF ClearMustValidate, Client!ContractNext
<1>4. CASE HalAccept(d)
  <2>1. /\ current = {d} /\ stage = "validated" /\ GoOn("accepted")
        /\ UNCHANGED <<result, mNeedSkipPresent, mResChanged>>
    BY <1>4 DEF HalAccept, entryVars
  <2>2. /\ ContractOf' = [ContractOf EXCEPT ![d] = "accepted"]
        /\ ContractOf[d] = "validated"
    BY <2>1, ContractGoesOn DEF Promises, ContractOf
  <2> QED
    BY <2>1, <2>2 DEF Client!Accept, Client!Promise, Client!ContractNext
<1>5. CASE EnterPresent(d)
  BY <1>5, NobodyExcused DEF EnterPresent, clientVars, Client!ContractNext
<1>6. CASE HalPresent(d)
  <2>1. PICK outcome \in Outcome :
          /\ PresentDisplay(d, outcome)
          /\ result' = outcome
          /\ GoOn("mustValidate") \/ Done(d)
    BY <1>6 DEF HalPresent
  <2>2. outcome # "none"
    BY <2>1 DEF PresentDisplay, DropPresent, BasePresent, handleSkipPresent,
                NotValidated, CommitFrame
  <2>3. current = {d} /\ call = [op |-> "present", on |-> d]
    BY <1>6 DEF HalPresent, Hwc3Place
  <2>4. stage \in Promises /\ d \notin mResChanged
          => mRenderingState[d] = "ACCEPTED_CHANGE"
    BY <2>3 DEF Hwc3Round
  <2>5. outcome = "notValidated" /\ stage \in Promises
          => d \in mNeedSkipPresent \cup mResChanged
    BY <2>1, <2>4, PresentDisplayEffect DEF Hwc3Typed, Hwc3TypeOK
  <2>6. /\ ContractOf' = [ContractOf EXCEPT ![d] = "none"]
        /\ ContractOf[d] = "none" \/ stage \in Promises
    BY <2>1, <2>3, ContractGoesOn, ContractIsDone DEF Promises, ContractOf
  <2> QED
    BY <2>1, <2>2, <2>5, <2>6 DEF Client!Answer, Client!Promise, Client!Answers,
       Outcome, Client!ContractNext
<1> QED
  BY <1>1, <1>2, <1>3, <1>4, <1>5, <1>6 DEF Command

LEMMA SharedImplements ==
  ASSUME SharedClient
  PROVE  [Client!ContractNext]_Client!contractVars
<1>1. CASE StartRefresh
  BY <1>1, NobodyExcused DEF StartRefresh, coreVars, frameVars, entryVars,
     Client!ContractNext
<1>2. ASSUME NEW d \in Display, PickDisplay(d)
      PROVE  [Client!ContractNext]_Client!contractVars
  <2>1. ContractOf' = ContractOf
    BY <1>2 DEF PickDisplay, ContractOf
  <2> QED
    BY <1>2, <2>1 DEF PickDisplay, coreVars, frameVars, Client!ContractNext, Client!Begin
<1>3. ASSUME NEW d \in Display, Write(d)
      PROVE  [Client!ContractNext]_Client!contractVars
  BY <1>3, NobodyExcused DEF Write, WriteLayer, WriteDisplayFrame, entryVars,
     clientVars, Client!ContractNext
<1>4. ASSUME NEW d \in Display, Configure(d)
      PROVE  [Client!ContractNext]_Client!contractVars
  <2>1. current = {} /\ UNCHANGED <<current, stage, result>>
    BY <1>4 DEF Configure, Between, setPowerModeOff, setPowerModeOn, DropUnplugged,
       setActiveConfig, StartVirtual, StopVirtual, entryVars, clientVars
  <2> QED
    BY <2>1, NothingPromised DEF Client!ContractNext
<1> QED
  BY <1>1, <1>2, <1>3, <1>4 DEF SharedClient

LEMMA Hwc3StepImplements ==
  Hwc3Inv /\ [Hwc3Next]_hwc3Vars => [Client!ContractNext]_Client!contractVars
<1> SUFFICES ASSUME Hwc3Inv, [Hwc3Next]_hwc3Vars
             PROVE  [Client!ContractNext]_Client!contractVars
  OBVIOUS
<1>1. CASE UNCHANGED vars
  BY <1>1, NobodyExcused DEF vars, coreVars, frameVars, entryVars, clientVars,
     Client!ContractNext
<1>2. CASE SharedClient
  BY <1>2, SharedImplements
<1>3. ASSUME NEW d \in Display, Command(d)
      PROVE  [Client!ContractNext]_Client!contractVars
  BY <1>3, CommandImplements
<1>4. ASSUME NEW d \in Display, HotplugEvent(d)
      PROVE  [Client!ContractNext]_Client!contractVars
  BY <1>4, NobodyExcused DEF HotplugEvent, Hotplug, Plug, Unplug, frameVars, entryVars,
     clientVars, Client!ContractNext
<1>5. ASSUME NEW d \in Display, Recompose(d)
      PROVE  [Client!ContractNext]_Client!contractVars
  BY <1>5, NobodyExcused DEF Recompose, dynamicRecompositionThreadLoop, entryVars,
     clientVars, Client!ContractNext
<1> QED
  BY <1>1, <1>2, <1>3, <1>4, <1>5 DEF Hwc3Next, onRefresh, hwc3Vars

(* The composer 3 service keeps the client contract as well, although it   *)
(* validates each display on its own.                                      *)
THEOREM Hwc3ContractIsKept == Hwc3Spec => Hwc3Contract
<1>1. Hwc3Init => Client!ContractInit
  BY DEF Hwc3Init, Init, CoreInit, ContractOf, Client!ContractInit
<1> QED
  BY <1>1, Hwc3InitInv, Hwc3StepInv, Hwc3StepImplements, PTL
     DEF Hwc3Spec, Hwc3Contract, Client!ContractSpec
=============================================================================
