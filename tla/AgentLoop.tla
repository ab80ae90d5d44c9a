----------------------------- MODULE AgentLoop -----------------------------
(***************************************************************************)
(* core/agent_loop.py over the gateway: the model is asked, its calls are  *)
(* run, their results are counted, until it answers or a bound is hit.     *)
(* A message carries its calls in slots 1, 2, ...                          *)
(***************************************************************************)
EXTENDS ToolGateway

CONSTANTS
  MaxTurns       (* bound: turns in the session                            *)

ASSUME LoopAssumption == MaxTurns \in Nat

VARIABLES
  phase,         (* where run() is                                         *)
  reason,        (* LoopOutcome.reason of the last turn                    *)
  tracker,       (* the turn's StepTracker                                 *)
  stopped,       (* call ids whose nudge is a STOP                         *)
  turns          (* turns begun                                            *)

loopVars == <<phase, reason, tracker, stopped, turns>>

vars == <<busVars, gatewayVars, loopVars>>

Phases == {"over", "model", "batching", "reviewing", "calling"}

Reasons == {"none", "answered", "error", "limit", "loop_detected"}

LoopTypeOK ==
  /\ phase \in Phases
  /\ reason \in Reasons
  /\ tracker \in Tracker
  /\ stopped \subseteq CallIds
  /\ turns \in 0 .. MaxTurns

TypeOK == BusTypeOK /\ GatewayTypeOK /\ LoopTypeOK

Init ==
  /\ BusInit
  /\ GatewayInit
  /\ phase = "over"
  /\ reason = "none"
  /\ tracker = NewTracker
  /\ stopped = {}
  /\ turns = 0

-----------------------------------------------------------------------------
UsedSlots == {s \in Slots : Used(s)}

AllConcurrent == \A s \in UsedSlots : calls[s].act \in Concurrent

BeginTurn ==
  /\ phase = "over"
  /\ turns < MaxTurns
  /\ turns' = turns + 1
  /\ phase' = "model"
  /\ reason' = "none"
  /\ tracker' = BeginStep(NewTracker)
  /\ aborted' = FALSE
  /\ calls' = [s \in Slots |-> NoCall]
  /\ UNCHANGED <<stopped, busVars, batch, review, preview, grants, leave>>

End(why) ==
  /\ phase' = "over"
  /\ reason' = why

(* No tool call in the message, or the request fails. *)
ModelAnswers ==
  /\ phase = "model"
  /\ End("answered") \/ End("error")
  /\ UNCHANGED <<tracker, stopped, turns, busVars, gatewayVars>>

(* A message with calls, and a bound is hit: the calls are dropped and the *)
(* wrap-up request, without tools, ends the turn.                          *)
StopAtLimit ==
  /\ phase = "model"
  /\ Exhausted(tracker)
  /\ End("limit")
  /\ UNCHANGED <<tracker, stopped, turns, busVars, gatewayVars>>

(* _run_calls looks at the calls in order before any of them runs; `nudges`*)
(* is keyed by call id, so of calls with one id the last is remembered.    *)
RecentAfter(acts) ==
  LET after[k \in 0 .. Len(acts)] ==
        IF k = 0 THEN tracker.recent ELSE Observe(after[k - 1], acts[k])
  IN  after

LastWithId(ids, k) == \A j \in DOMAIN ids : ids[j] = ids[k] => j <= k

ModelCalls ==
  /\ phase = "model"
  /\ ~ Exhausted(tracker)
  /\ \E n \in Slots : \E acts \in [1 .. n -> Acts], ids \in [1 .. n -> CallIds] :
       /\ calls' = [s \in Slots |->
            IF s <= n THEN [NoCall EXCEPT !.id = ids[s], !.act = acts[s], !.phase = "queued"]
            ELSE NoCall]
       /\ tracker' = [tracker EXCEPT !.recent = RecentAfter(acts)[n]]
       /\ stopped' = {ids[k] : k \in {j \in 1 .. n :
            LastWithId(ids, j) /\ Repeats(RecentAfter(acts)[j], acts[j])}}
       /\ phase' = IF n = 1 \/ \A k \in 1 .. n : acts[k] \in Concurrent
                   THEN "calling" ELSE "batching"
  /\ UNCHANGED <<reason, turns, busVars, batch, review, preview, grants, leave, aborted>>

-----------------------------------------------------------------------------
(* The pre-pass over several calls that are not all reads. *)

SkipReview ==
  /\ phase = "batching"
  /\ \E prepared \in SUBSET UsedSlots : Cardinality(Batchable(prepared)) < 2
  /\ ClearBatch
  /\ phase' = "calling"
  /\ UNCHANGED <<reason, tracker, stopped, turns, busVars,
                 calls, review, preview, grants, leave, aborted>>

BeginReview ==
  /\ phase = "batching"
  /\ \E prepared \in SUBSET UsedSlots :
       /\ Cardinality(Batchable(prepared)) >= 2
       /\ Review(Batchable(prepared))
  /\ ClearBatch
  /\ phase' = "reviewing"
  /\ UNCHANGED <<reason, tracker, stopped, turns, calls, preview, grants, leave, aborted>>

EndReview ==
  /\ phase = "reviewing"
  /\ TakeReview
  /\ phase' = "calling"
  /\ UNCHANGED <<reason, tracker, stopped, turns>>

\* A slip: the calls of a step always run together.
AnyTurn(s) == phase = "calling"

(* Reads run together; anything else one after the other, in order. *)
MyTurn(s) ==
  /\ phase = "calling"
  /\ AllConcurrent \/ \A t \in UsedSlots : t < s => calls[t].phase = "done"

Enter(s) ==
  /\ MyTurn(s)
  /\ Refuse(s) \/ Deny(s) \/ Allow(s) \/ ApprovedInReview(s) \/ RejectedInReview(s) \/ Ask(s)
  /\ UNCHANGED loopVars

Continue(s) ==
  /\ TakeApproval(s) \/ TakeRefusal(s) \/ TakeEdit(s) \/ Finish(s)
  /\ UNCHANGED loopVars

(* The results are counted in the order of the calls. *)
Counted ==
  LET after[k \in 0 .. MaxBatch] ==
        IF k = 0 THEN tracker
        ELSE IF Used(k) THEN RecordResult(after[k - 1], calls[k].result) ELSE after[k - 1]
  IN  after[MaxBatch]

StepDone ==
  /\ phase = "calling"
  /\ \A s \in UsedSlots : calls[s].phase = "done"
  /\ IF \E s \in UsedSlots : calls[s].id \in stopped
     THEN /\ End("loop_detected")
          /\ tracker' = Counted
     ELSE /\ phase' = "model"
          /\ tracker' = BeginStep(Counted)
          /\ UNCHANGED reason
  /\ calls' = [s \in Slots |-> NoCall]
  /\ stopped' = {}
  /\ UNCHANGED <<turns, busVars, batch, review, preview, grants, leave, aborted>>

-----------------------------------------------------------------------------
Program ==
  \/ ModelAnswers \/ StopAtLimit \/ ModelCalls
  \/ SkipReview \/ BeginReview \/ EndReview
  \/ \E s \in Slots : Enter(s) \/ Continue(s)
  \/ StepDone

User ==
  /\ (\E s \in Slots : Answer(s)) \/ AnswerReview
  /\ UNCHANGED loopVars

PromptFails ==
  /\ \E r \in Requesters : SubscriberRaises(r)
  /\ UNCHANGED <<gatewayVars, loopVars>>

OtherEdits ==
  /\ \E a \in Writes : EditOutside(a)
  /\ UNCHANGED loopVars

Next == BeginTurn \/ Program \/ User \/ PromptFails \/ OtherEdits

Spec == Init /\ [][Next]_vars

(* The event loop runs what is ready, the model's stream ends, and whoever *)
(* sits at the prompt answers it.                                          *)
FairSpec == Spec /\ WF_vars(Program) /\ WF_vars(User)

-----------------------------------------------------------------------------
(* What runs, runs with leave.                                             *)

Starts(s) == calls[s].phase # "running" /\ calls'[s].phase = "running"

(* A call starts only if policy allows it, or the user approved this act   *)
(* with the preview it has now, and no approval is used twice; a denied act*)
(* never starts, whatever was edited, batched or granted (gateway.py "An   *)
(* answer binds to the preview it was given for", docs/safety-and-tool-use *)
(* principles 1 and 3).                                                    *)
RunsOnlyWithLeave ==
  [][\A s \in Slots : Starts(s) =>
       LET a == calls'[s].act
       IN  /\ a \notin Denied
           /\ MustAsk(a) => leave[<<a, calls'[s].shown>>] > 0]_vars

(* The terminal shows one question at a time: a second prompt would read   *)
(* the answer to the first (agent_loop.py "the gateway's approval flow is  *)
(* sequential by design").                                                 *)
OnePromptAtATime == \A r, q \in Requesters : prompt[r] /\ prompt[q] => r = q

(* Every call that has ended is in the audit log once, refused and edited  *)
(* ones too ("Every terminal state is recorded"), and no other call is.    *)
EveryCallRecordedOnce ==
  \A s \in Slots : calls[s].records = IF calls[s].phase = "done" THEN 1 ELSE 0

(* Between steps nobody waits: a future left behind would take the answer  *)
(* of a later call with the same id.                                       *)
NoStrayFuture ==
  phase \in {"over", "model"} =>
    /\ \A i \in RequestIds : pending[i] = Nobody
    /\ \A r \in Requesters : ~ prompt[r] /\ future[r] = "none"

(* A turn ends, whatever the model calls: every step counts towards the    *)
(* limit, and nothing a call waits for is left unanswered (agent_loop.py   *)
(* run(), limits.py stop_reason).                                          *)
TurnEnds == phase # "over" ~> phase = "over"

(* "Abort the whole turn; stop the loop": nothing starts after it and the  *)
(* model is not asked again.                                               *)
AbortEndsTurn ==
  [][(aborted /\ aborted') =>
       /\ \A s \in Slots : ~ Starts(s)
       /\ tracker'.steps = tracker.steps]_vars

(* The calls of a message as ApprovedExecution sees them.                  *)
Stage(s) ==
  CASE calls[s].phase = "unused" -> "none"
    [] calls[s].phase \in {"queued", "asking"} -> "proposed"
    [] calls[s].phase \in {"running", "done"} -> calls[s].phase

Outline(s) ==
  [act |-> calls[s].act, stage |-> Stage(s), records |-> calls[s].records,
   shown |-> IF calls[s].phase = "running" THEN calls[s].shown ELSE 0]

Abstract == INSTANCE ApprovedExecution
  WITH book <- [s \in Slots |-> Outline(s)], consents <- leave, granted <- grants

(* Prompts, reviews, stored answers and edits come to no more than this:   *)
(* what is asked about runs once for each yes to what is shown, only reads *)
(* run together, and every call ends once and on record ("nothing changes  *)
(* ... unless a rule you wrote or a person looking at an exact preview     *)
(* allowed it ... and all of them are logged", docs/safety-and-tool-use).  *)
OnlyApprovedExecution == Abstract!Spec
=============================================================================
