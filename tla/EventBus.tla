------------------------------ MODULE EventBus ------------------------------
(***************************************************************************)
(* core/bus.py, approvals only: a request registers a future under its id, *)
(* is published to the terminal prompt, and waits for the future.  The     *)
(* prompt runs inside publish(): the requester goes on only when its own   *)
(* prompt is over and its own future is resolved.                          *)
(***************************************************************************)
EXTENDS Naturals

CONSTANTS
  MaxBatch,      (* bound: tool calls in one message of the model          *)
  CallIds,       (* what calls are named with                              *)
  BatchId,       (* the request id of a batch review, fresh every time     *)
  Nobody,        (* no future registered under an id                       *)
  PromptRaises   (* the prompt may raise, as input() does at end of file   *)

ASSUME BusAssumption ==
  /\ MaxBatch \in Nat \ {0}
  /\ BatchId \notin CallIds
  /\ PromptRaises \in BOOLEAN

VARIABLES
  pending,       (* EventBus._pending: request id -> requester             *)
  future,        (* requester -> its future                                *)
  prompt         (* requester -> its prompt is on the screen               *)

busVars == <<pending, future, prompt>>

Slots == 1 .. MaxBatch
Reviewer == 0                          \* the batch review, as a requester
Requesters == Slots \union {Reviewer}
RequestIds == CallIds \union {BatchId}

Decisions == {"approve", "always", "edit", "reject", "abort"}
Futures == Decisions \union {"none", "waiting"}

BusTypeOK ==
  /\ pending \in [RequestIds -> Requesters \union {Nobody}]
  /\ future \in [Requesters -> Futures]
  /\ prompt \in [Requesters -> BOOLEAN]

BusInit ==
  /\ pending = [i \in RequestIds |-> Nobody]
  /\ future = [r \in Requesters |-> "none"]
  /\ prompt = [r \in Requesters |-> FALSE]

(* request_approval up to the subscriber's own await: an id in use loses   *)
(* the future registered before.                                           *)
RequestApproval(r, id) ==
  /\ pending' = [pending EXCEPT ![id] = r]
  /\ future' = [future EXCEPT ![r] = "waiting"]
  /\ prompt' = [prompt EXCEPT ![r] = TRUE]

(* The user answers r's prompt; resolve_approval finds the future by id,   *)
(* and ignores the answer when nobody waits.                               *)
Resolve(r, id, decision) ==
  /\ prompt[r]
  /\ prompt' = [prompt EXCEPT ![r] = FALSE]
  /\ future' = IF pending[id] # Nobody /\ future[pending[id]] = "waiting"
               THEN [future EXCEPT ![pending[id]] = decision]
               ELSE future
  /\ UNCHANGED pending

(* publish() logs what a subscriber raises and goes on. *)
SubscriberRaises(r) ==
  /\ PromptRaises
  /\ prompt[r]
  /\ prompt' = [prompt EXCEPT ![r] = FALSE]
  /\ UNCHANGED <<pending, future>>

(* The await returns. *)
Answered(r) == ~ prompt[r] /\ future[r] \in Decisions

\* A slip: the entry stays registered when the await returns.
CollectKeepsEntry(r, id) ==
  /\ Answered(r)
  /\ future' = [future EXCEPT ![r] = "none"]
  /\ UNCHANGED <<pending, prompt>>

(* The finally clause: whatever is registered under the id is removed. *)
Collect(r, id) ==
  /\ Answered(r)
  /\ pending' = [pending EXCEPT ![id] = Nobody]
  /\ future' = [future EXCEPT ![r] = "none"]
  /\ UNCHANGED prompt
=============================================================================
