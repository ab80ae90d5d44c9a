---------------------------- MODULE ToolGateway ----------------------------
(***************************************************************************)
(* tools/gateway.py: one tool call from proposal to audit record, and the  *)
(* batch review that may answer for several writes at once.  The policy's  *)
(* verdict on an act is a constant, except that a session grant turns an   *)
(* `ask` into an `allow`.                                                  *)
(*                                                                         *)
(* An act's preview is one of two versions.  It moves on when the act is   *)
(* carried out and when somebody edits the file outside Hearth.  What the  *)
(* preview binds inside execute() is the subject of WriteTools.            *)
(***************************************************************************)
EXTENDS EventBus, TurnLimits

CONSTANTS
  Concurrent,    (* acts of concurrent_safe tools                          *)
  Writes,        (* acts of risk WRITE, each on a path of its own          *)
  Denied,        (* acts the policy denies                                 *)
  Asked,         (* acts it asks about                                     *)
  Ungrantable,   (* acts it asks about every time: destructive ones        *)
  NoAct,         (* an unused slot                                         *)
  NoId,          (* its call id                                            *)
  MaxEdits       (* bound: times the user edits one call's arguments       *)

ASSUME GatewayAssumption ==
  /\ Concurrent \subseteq Acts
  /\ Writes \subseteq Acts \ Concurrent
  /\ Denied \subseteq Acts
  /\ Asked \subseteq Acts \ Denied
  /\ Ungrantable \subseteq Asked
  /\ NoAct \notin Acts
  /\ NoId \notin CallIds
  /\ MaxEdits \in Nat

VARIABLES
  calls,         (* slot -> the call the model put there in this step      *)
  batch,         (* _batch: call id -> an answer, bound to its preview     *)
  review,        (* the batch screen: its items, their previews, the yeses *)
  preview,       (* act -> what prepare() shows now                        *)
  grants,        (* acts granted for the session                           *)
  leave,         (* history: <<act, preview>> -> approvals not yet used    *)
  aborted        (* history: the user has chosen "abort task"              *)

gatewayVars == <<calls, batch, review, preview, grants, leave, aborted>>

Versions == {0, 1}

Call ==
  [id : CallIds \union {NoId}, act : Acts \union {NoAct},
   phase : {"unused", "queued", "asking", "running", "done"},
   shown : Versions, result : Results, records : Nat, edits : 0 .. MaxEdits]

NoCall ==
  [id |-> NoId, act |-> NoAct, phase |-> "unused", shown |-> 0,
   result |-> "ok", records |-> 0, edits |-> 0]

BatchAnswer ==
  [decision : {"none", "approve", "reject"},
   act : Acts \union {NoAct}, shown : Versions]     \* whose preview, and which

NoAnswer == [decision |-> "none", act |-> NoAct, shown |-> 0]

NoReview == [items |-> {}, shown |-> [s \in Slots |-> 0], yes |-> {}]

GatewayTypeOK ==
  /\ calls \in [Slots -> Call]
  /\ batch \in [CallIds -> BatchAnswer]
  /\ review \in [items : SUBSET Slots, shown : [Slots -> Versions], yes : SUBSET Slots]
  /\ preview \in [Acts -> Versions]
  /\ grants \subseteq Acts
  /\ leave \in [Acts \X Versions -> Nat]
  /\ aborted \in BOOLEAN

GatewayInit ==
  /\ calls = [s \in Slots |-> NoCall]
  /\ batch = [i \in CallIds |-> NoAnswer]
  /\ review = NoReview
  /\ preview = [a \in Acts |-> 0]
  /\ grants = {}
  /\ leave = [x \in Acts \X Versions |-> 0]
  /\ aborted = FALSE

Used(s) == calls[s].phase # "unused"

MustAsk(a) == a \in Asked /\ a \notin grants

-----------------------------------------------------------------------------
(* How a call moves on.  _record writes the audit record of every end.     *)

Done(s, result) ==
  calls' = [calls EXCEPT ![s] = [@ EXCEPT !.phase = "done", !.result = result,
                                          !.records = calls[s].records + 1]]

Run(s) ==
  calls' = [calls EXCEPT ![s] = [@ EXCEPT !.phase = "running", !.shown = preview[calls[s].act]]]

(* An approval is used up by the call it lets through. *)
Spend(a, v) == leave' = [leave EXCEPT ![<<a, v>>] = IF @ > 0 THEN @ - 1 ELSE 0]

-----------------------------------------------------------------------------
(* call(), up to its first wait. *)

(* An unknown tool, invalid arguments, or prepare() refuses. *)
Refuse(s) ==
  /\ calls[s].phase = "queued"
  /\ \E result \in {"retryable", "failed"} : Done(s, result)
  /\ UNCHANGED <<batch, review, preview, grants, leave, aborted, busVars>>

Deny(s) ==
  /\ calls[s].phase = "queued"
  /\ calls[s].act \in Denied
  /\ Done(s, "failed")
  /\ UNCHANGED <<batch, review, preview, grants, leave, aborted, busVars>>

Allow(s) ==
  /\ calls[s].phase = "queued"
  /\ calls[s].act \notin Denied
  /\ ~ MustAsk(calls[s].act)
  /\ Run(s)
  /\ UNCHANGED <<batch, review, preview, grants, leave, aborted, busVars>>

\* A slip: the answer stands for whatever the call would do now.
BatchAnswerAnyPreview(s) == batch[calls[s].id].decision

(* _batch_answer: only for the preview it was given for. *)
BatchAnswerFor(s) ==
  LET answer == batch[calls[s].id]
  IN  IF answer.act = calls[s].act /\ answer.shown = preview[calls[s].act]
      THEN answer.decision ELSE "none"

\* A slip: the answer stays, for the next call with its id.
Keep(s) == UNCHANGED batch

(* The stored answer is consumed, whether or not it still applies. *)
Consume(s) == batch' = [batch EXCEPT ![calls[s].id] = NoAnswer]

ApprovedInReview(s) ==
  /\ calls[s].phase = "queued"
  /\ MustAsk(calls[s].act)
  /\ BatchAnswerFor(s) = "approve"
  /\ Consume(s)
  /\ Run(s)
  /\ Spend(calls[s].act, preview[calls[s].act])
  /\ UNCHANGED <<review, preview, grants, aborted, busVars>>

RejectedInReview(s) ==
  /\ calls[s].phase = "queued"
  /\ MustAsk(calls[s].act)
  /\ BatchAnswerFor(s) = "reject"
  /\ Consume(s)
  /\ Done(s, "failed")
  /\ UNCHANGED <<review, preview, grants, leave, aborted, busVars>>

Ask(s) ==
  /\ calls[s].phase = "queued"
  /\ MustAsk(calls[s].act)
  /\ BatchAnswerFor(s) = "none"
  /\ Consume(s)
  /\ RequestApproval(s, calls[s].id)
  /\ calls' = [calls EXCEPT ![s] = [@ EXCEPT !.phase = "asking", !.shown = preview[calls[s].act]]]
  /\ UNCHANGED <<review, preview, grants, leave, aborted>>

-----------------------------------------------------------------------------
(* The user at the prompt (cli/approval.py), and what the call makes of    *)
(* the answer its future was given.                                        *)

Answer(s) ==
  /\ calls[s].phase = "asking"
  /\ \E d \in Decisions :
       /\ d = "always" => calls[s].act \notin Ungrantable
       /\ d = "edit" => calls[s].edits < MaxEdits
       /\ Resolve(s, calls[s].id, d)
       /\ leave' = IF d \in {"approve", "always"}
                   THEN [leave EXCEPT ![<<calls[s].act, calls[s].shown>>] = @ + 1]
                   ELSE leave
       /\ aborted' = (aborted \/ d = "abort")
  /\ UNCHANGED <<calls, batch, review, preview, grants>>

TakeApproval(s) ==
  /\ calls[s].phase = "asking"
  /\ future[s] \in {"approve", "always"}
  /\ Collect(s, calls[s].id)
  /\ calls' = [calls EXCEPT ![s].phase = "running"]
  /\ Spend(calls[s].act, calls[s].shown)
  /\ grants' = IF future[s] = "always" /\ calls[s].act \notin Ungrantable
               THEN grants \union {calls[s].act} ELSE grants
  /\ UNCHANGED <<batch, review, preview, aborted>>

(* "abort" is handled as a rejection. *)
TakeRefusal(s) ==
  /\ calls[s].phase = "asking"
  /\ future[s] \in {"reject", "abort"}
  /\ Collect(s, calls[s].id)
  /\ Done(s, "failed")
  /\ UNCHANGED <<batch, review, preview, grants, leave, aborted>>

SameTool(a) == {b \in Acts : (b \in Concurrent) = (a \in Concurrent) /\ (b \in Writes) = (a \in Writes)}

\* A slip: edited arguments go straight to execution.
RunEdited(s) ==
  /\ calls[s].phase = "asking"
  /\ future[s] = "edit"
  /\ Collect(s, calls[s].id)
  /\ \E a \in SameTool(calls[s].act) :
       calls' = [calls EXCEPT ![s] = [@ EXCEPT !.act = a, !.phase = "running"]]
  /\ UNCHANGED <<batch, review, preview, grants, leave, aborted>>

Edited(c, a) ==
  [c EXCEPT !.act = a, !.phase = "queued",
            !.edits = IF c.edits < MaxEdits THEN c.edits + 1 ELSE MaxEdits]

(* Edited arguments, of the same tool, enter the gateway again at the top. *)
TakeEdit(s) ==
  /\ calls[s].phase = "asking"
  /\ future[s] = "edit"
  /\ Collect(s, calls[s].id)
  /\ \E a \in SameTool(calls[s].act) :
       calls' = [calls EXCEPT ![s] = Edited(calls[s], a)]
  /\ UNCHANGED <<batch, review, preview, grants, leave, aborted>>

(* execute() and the audit record.  A write that succeeds moves its preview. *)
Finish(s) ==
  /\ calls[s].phase = "running"
  /\ \E result \in Results :
       /\ Done(s, result)
       /\ preview' = IF result = "ok" /\ calls[s].act \in Writes
                     THEN [preview EXCEPT ![calls[s].act] = 1 - @] ELSE preview
  /\ UNCHANGED <<batch, review, grants, leave, aborted, busVars>>

-----------------------------------------------------------------------------
(* review_batch. *)

ClearBatch == batch' = [i \in CallIds |-> NoAnswer]

(* _batchable keeps writes the policy asks about, of those that prepare;   *)
(* not the destructive ones, and no two on one path.                       *)
Batchable(prepared) ==
  {s \in prepared :
     /\ calls[s].act \in Writes \ Ungrantable
     /\ MustAsk(calls[s].act)
     /\ \A t \in prepared \ {s} : calls[t].act # calls[s].act}

Review(items) ==
  /\ review' = [items |-> items, yes |-> {},
                shown |-> [s \in Slots |-> IF s \in items THEN preview[calls[s].act] ELSE 0]]
  /\ RequestApproval(Reviewer, BatchId)

(* Approve all, one by one, reject all: a set of approved items.  `abort`  *)
(* drops the approvals given before it.                                    *)
AnswerReview ==
  /\ \/ \E yes \in SUBSET review.items :
          /\ Resolve(Reviewer, BatchId, "approve")
          /\ review' = [review EXCEPT !.yes = yes]
          /\ leave' = [x \in Acts \X Versions |->
               leave[x] + Cardinality({s \in yes : x = <<calls[s].act, review.shown[s]>>})]
          /\ UNCHANGED aborted
     \/ /\ Resolve(Reviewer, BatchId, "abort")
        /\ aborted' = TRUE
        /\ UNCHANGED <<review, leave>>
  /\ UNCHANGED <<calls, batch, preview, grants>>

(* Of items that share a call id the last one's answer counts for all, and *)
(* is bound to the last one's preview.                                     *)
LastItem(i, s) ==
  /\ s \in review.items
  /\ calls[s].id = i
  /\ \A t \in review.items : calls[t].id = i => t <= s

TakeReview ==
  /\ Collect(Reviewer, BatchId)
  /\ batch' = [i \in CallIds |->
       IF \E s \in Slots : LastItem(i, s)
       THEN LET s == CHOOSE t \in Slots : LastItem(i, t)
            IN  [decision |-> IF s \in review.yes THEN "approve" ELSE "reject",
                 act |-> calls[s].act, shown |-> review.shown[s]]
       ELSE batch[i]]
  /\ review' = NoReview
  /\ UNCHANGED <<calls, preview, grants, leave, aborted>>

-----------------------------------------------------------------------------
(* Somebody else edits the file of a write. *)
EditOutside(a) ==
  /\ a \in Writes
  /\ preview' = [preview EXCEPT ![a] = 1 - @]
  /\ UNCHANGED <<calls, batch, review, grants, leave, aborted, busVars>>
=============================================================================
