----------------------------- MODULE TurnLimits -----------------------------
(***************************************************************************)
(* core/limits.py: what bounds one turn.  A call is identified by its      *)
(* fingerprint, the tool with its arguments; the nudge on a second repeat  *)
(* is text for the model and is left out.                                  *)
(***************************************************************************)
EXTENDS Naturals, Sequences, FiniteSets

CONSTANTS
  Acts,          (* fingerprints: a tool with its arguments                *)
  MaxSteps,      (* TurnLimits.max_steps                                   *)
  MaxRetries,    (* TurnLimits.max_retries                                 *)
  MaxFailures,   (* TurnLimits.max_consecutive_failures                    *)
  StopAt,        (* LOOP_STOP_THRESHOLD                                    *)
  Window         (* _HISTORY_WINDOW                                        *)

ASSUME LimitsAssumption ==
  /\ MaxSteps \in Nat \ {0}
  /\ MaxRetries \in Nat \ {0}
  /\ MaxFailures \in Nat \ {0}
  /\ StopAt \in Nat \ {0}
  /\ Window \in Nat \ {0}

(* How a call ends: success, a failure worth another try (bad arguments,   *)
(* not found, stale), any other failure (denied, rejected, failed).        *)
Results == {"ok", "retryable", "failed"}

Tracker ==
  [steps : 0 .. MaxSteps, retries : Nat, failures : Nat, recent : Seq(Acts)]

NewTracker == [steps |-> 0, retries |-> 0, failures |-> 0, recent |-> <<>>]

\* A slip: nobody counts the steps.
BeginStepUncounted(t) == t

BeginStep(t) == [t EXCEPT !.steps = @ + 1]

(* observe_call, without the message: the call joins the recent ones. *)
Observe(recent, act) ==
  LET grown == Append(recent, act)
  IN  IF Len(grown) > Window THEN Tail(grown) ELSE grown

Repeats(recent, act) ==
  Cardinality({k \in DOMAIN recent : recent[k] = act}) >= StopAt

(* record_result: a success forgets the failures before it. *)
RecordResult(t, result) ==
  CASE result = "ok"        -> [t EXCEPT !.failures = 0]
    [] result = "retryable" -> [t EXCEPT !.failures = @ + 1, !.retries = @ + 1]
    [] result = "failed"    -> [t EXCEPT !.failures = @ + 1]

\* A slip: the step limit is noticed one step late.
ExhaustedLate(t) ==
  \/ t.steps > MaxSteps
  \/ t.retries >= MaxRetries
  \/ t.failures >= MaxFailures

(* stop_reason() is not None. *)
Exhausted(t) ==
  \/ t.steps >= MaxSteps
  \/ t.retries >= MaxRetries
  \/ t.failures >= MaxFailures
=============================================================================
