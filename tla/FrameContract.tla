---------------------------- MODULE FrameContract ----------------------------
(***************************************************************************)
(* What the composer promises its client about one frame of one display:   *)
(* once it has validated the frame it does not answer the present with     *)
(* HWC2_ERROR_NOT_VALIDATED.  The only displays it may refuse are the      *)
(* excused ones (they still owe a skipped frame after power off, or are     *)
(* changing their resolution), and a display is not excused behind the     *)
(* client's back while a promise stands.                                   *)
(*                                                                         *)
(* FrameProtocol (HWC 2.1 entry points) and Hwc3Frame (composer 3          *)
(* service) implement it.                                                  *)
(***************************************************************************)
CONSTANT Display

VARIABLES
  promise,  \* [Display -> {"none", "validated", "accepted"}]
  excused,  \* displays whose frame may be refused all the same
  answer    \* what the last present answered

contractVars == <<promise, excused, answer>>

Answers == {"none", "shown", "skipped", "notValidated", "failed"}

ContractTypeOK ==
  /\ promise \in [Display -> {"none", "validated", "accepted"}]
  /\ excused \subseteq Display
  /\ answer \in Answers

ContractInit ==
  /\ promise = [d \in Display |-> "none"]
  /\ excused = {}
  /\ answer = "none"

Promise(d, p) == promise' = [promise EXCEPT ![d] = p]

(* Nobody is excused while a promise to him stands.                        *)
NoNewExcuse ==
  \A d \in Display : promise[d] # "none" /\ d \in excused' => d \in excused

(* The client turns to the next display.                                   *)
Begin ==
  /\ answer' = "none"
  /\ UNCHANGED <<promise, excused>>

Validate(d) ==
  /\ promise[d] = "none"
  /\ Promise(d, "validated")
  /\ UNCHANGED answer

Accept(d) ==
  /\ promise[d] = "validated"
  /\ Promise(d, "accepted")
  /\ UNCHANGED <<excused, answer>>

(* The present is answered; with that the promise is off.                  *)
Answer(d) ==
  /\ Promise(d, "none")
  /\ answer' \in Answers \ {"none"}
  /\ answer' = "notValidated" => promise[d] = "none" \/ d \in excused

(* Anything else that happens inside the composer.                         *)
Work ==
  /\ NoNewExcuse
  /\ UNCHANGED <<promise, answer>>

ContractNext ==
  \/ Begin
  \/ Work
  \/ \E d \in Display : Validate(d) \/ Accept(d) \/ Answer(d)

ContractSpec == ContractInit /\ [][ContractNext]_contractVars
=============================================================================
