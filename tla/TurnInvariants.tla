--------------------------- MODULE TurnInvariants ---------------------------
(***************************************************************************)
(* What holds in every state of a turn in which no act that the policy     *)
(* asks about belongs to a concurrent_safe tool (SequentialAsks): the      *)
(* inductive invariant behind OnePromptAtATime, EveryCallRecordedOnce,     *)
(* NoStrayFuture and RunsOnlyWithLeave.                                    *)
(***************************************************************************)
EXTENDS AgentLoop

SequentialAsks == Asked \cap Concurrent = {}

Begun == {"asking", "running", "done"}

Idle(r) == ~ prompt[r] /\ future[r] = "none"

Yes(r) == future[r] \in {"approve", "always"}

(* A used slot has a call of the model in it. *)
SlotsFilled == \A s \in Slots : Used(s) => calls[s].act \in Acts /\ calls[s].id \in CallIds

(* Nobody waits but the call that asks and the review that is open. *)
OnlyAskersWait ==
  /\ phase # "reviewing" => Idle(Reviewer)
  /\ \A s \in Slots : calls[s].phase # "asking" => Idle(s)

(* A call that begins waits for those before it; all are done or unused    *)
(* when the next message comes.                                            *)
InOrder ==
  /\ phase # "calling" => \A s \in Slots : calls[s].phase \notin Begun
  /\ ~ AllConcurrent =>
       \A s, t \in Slots : s < t /\ Used(s) /\ calls[t].phase \in Begun
                             => calls[s].phase = "done"

(* A call that asks is registered under its id, and its prompt is open     *)
(* exactly as long as its future waits.                                    *)
AskerIsRegistered ==
  \A s \in Slots : calls[s].phase = "asking" =>
    /\ calls[s].act \in Asked
    /\ pending[calls[s].id] = s
    /\ prompt[s] => future[s] = "waiting"

(* Whoever is registered is one of these, or the open review.              *)
NoStranger ==
  /\ \A i \in CallIds : pending[i] # Nobody =>
       pending[i] \in Slots /\ calls[pending[i]].phase = "asking" /\ calls[pending[i]].id = i
  /\ pending[BatchId] # Nobody => phase = "reviewing"

(* The yes that a future holds has not been used.                          *)
AskerHasLeave ==
  \A s \in Slots : calls[s].phase = "asking" /\ Yes(s) =>
    leave[<<calls[s].act, calls[s].shown>>] > 0

(* Nor has the yes of a batch answer, which is another one, and no other   *)
(* answer is about its act.                                                *)
BatchHasLeave ==
  \A i \in CallIds : batch[i].decision = "approve" =>
    /\ batch[i].act \in Acts
    /\ leave[<<batch[i].act, batch[i].shown>>] > 0
    /\ \A s \in Slots :
         calls[s].phase = "asking" /\ Yes(s)
         /\ calls[s].act = batch[i].act /\ calls[s].shown = batch[i].shown
           => leave[<<batch[i].act, batch[i].shown>>] > 1
    /\ \A j \in CallIds : batch[j].decision = "approve" /\ batch[j].act = batch[i].act => j = i

(* The screen shows each act once, and what was approved on it is not used *)
(* before the review is over.                                              *)
ReviewHasLeave ==
  phase = "reviewing" =>
    /\ \A i \in CallIds : batch[i] = NoAnswer
    /\ review.yes \subseteq review.items
    /\ prompt[Reviewer] => review.yes = {}
    /\ \A s \in review.items : calls[s].phase = "queued"
    /\ \A s, t \in review.items : calls[s].act = calls[t].act => s = t
    /\ \A s \in review.yes : leave[<<calls[s].act, review.shown[s]>>] > 0

(* Between two messages there is no call. *)
NoCallBetween == phase \in {"over", "model"} => \A s \in Slots : calls[s] = NoCall

TurnInv ==
  /\ BusTypeOK
  /\ GatewayTypeOK
  /\ EveryCallRecordedOnce
  /\ SlotsFilled
  /\ OnlyAskersWait
  /\ InOrder
  /\ AskerIsRegistered
  /\ NoStranger
  /\ AskerHasLeave
  /\ BatchHasLeave
  /\ ReviewHasLeave
=============================================================================
