----------------------------- MODULE Permissions -----------------------------
(***************************************************************************)
(* Who may permit what, over the life of sessions: rules from the user's   *)
(* and the project's configuration, `hearth trust`, the mode, the plan and *)
(* its grants, and the answers to the questions the policy asks.           *)
(***************************************************************************)
EXTENDS CommandClassifier, FiniteSets

CONSTANTS
    Requests,        \* the prepared calls that are made
    UserRules,       \* what the user's own configuration may say
    ProjectRules,    \* what a repository's configuration may say
    NoConfig,        \* the repository has none
    Plans,           \* the sets of paths a plan may name, none of them empty
    MaxSessions,     \* bound
    MaxCalls         \* bound: calls in one session

ASSUME PermissionsAssumption ==
    /\ Requests \subseteq PolicyRequest
    /\ \A rs \in UserRules : rs \subseteq Rule /\ \A rule \in rs : rule.source = "global"
    /\ \A rs \in ProjectRules : rs \subseteq Rule
    /\ NoConfig \notin ProjectRules
    /\ Plans \subseteq SUBSET Paths

VARIABLES
    user,            \* the user's configuration
    project,         \* the repository's, as it is on disk
    trusted,         \* the fingerprints recorded as trusted
    trust,           \* `hearth trust` waiting for its answer: what it has shown
    session,         \* the running session, or off
    plan,            \* the plan under review, and the one that was approved
    ask,             \* the call the policy asks about
    last,            \* history: the call that ran last, and why it might
    consent,         \* history: keys granted by an answer, and with the live plan
    count            \* sessions and calls so far

vars == <<user, project, trusted, trust, session, plan, ask, last, consent, count>>

Nothing == [pc |-> "none"]

\* --allow-edits, --allow-tests, --allow-commit.
Flag == {"edits", "tests", "commit"}

Off == [on |-> FALSE, mode |-> "chat", headless |-> FALSE, grants |-> {}, rules |-> {},
        flags |-> {}]

NoPlan == [pending |-> {}, approved |-> {}, question |-> FALSE]

Init ==
    /\ user \in UserRules /\ project \in ProjectRules \cup {NoConfig}
    /\ trusted = {} /\ trust = Nothing /\ session = Off /\ plan = NoPlan
    /\ ask = Nothing /\ last = Nothing
    /\ consent = [always |-> {}, plan |-> {}]
    /\ count = [sessions |-> 0, calls |-> 0]

----------------------------------------------------------------------------
(* Configuration. *)

Stripped(rules) == {r \in rules : ~Relaxing(r)}

\* A slip: the project's layer is merged as it is.
MergedWhole(u, p, isTrusted) == IF p = NoConfig THEN u ELSE u \cup p

\* load_config: tables merge and lists append; an untrusted layer loses its allow rules.
LoadConfig(u, p, isTrusted) ==
    IF p = NoConfig THEN u ELSE u \cup (IF isTrusted THEN p ELSE Stripped(p))

\* A session loads its configuration once, and never says that the project is trusted;
\* whatever is left is compiled as if it were all the user's.
SessionRules(u, p) == {[r EXCEPT !.source = "global"] : r \in LoadConfig(u, p, FALSE)}

\* An editor, or a pull, writes the project's configuration at any time.
EditProject(rules) ==
    /\ project' = rules /\ rules # project
    /\ UNCHANGED <<user, trusted, trust, session, plan, ask, last, consent, count>>

\* `hearth trust` shows the project's rules and asks, unless these bytes are trusted.
TrustShow ==
    /\ trust = Nothing /\ project # NoConfig /\ project \notin trusted
    /\ trust' = [pc |-> "asking", shown |-> project]
    /\ UNCHANGED <<user, project, trusted, session, plan, ask, last, consent, count>>

\* The file is read again when the answer is yes.
TrustAnswer(yes) ==
    /\ trust # Nothing
    /\ trust' = Nothing
    /\ trusted' = IF yes /\ project # NoConfig THEN trusted \cup {project} ELSE trusted
    /\ UNCHANGED <<user, project, session, plan, ask, last, consent, count>>

TrustRevoke ==
    /\ trust = Nothing /\ project \in trusted
    /\ trusted' = trusted \ {project}
    /\ UNCHANGED <<user, project, trust, session, plan, ask, last, consent, count>>

----------------------------------------------------------------------------
(* A session. *)

StartSession(mode, headless, flags) ==
    /\ ~session.on /\ count.sessions < MaxSessions
    /\ flags # {} => headless
    /\ headless => mode = "agent"
    /\ session' = [on |-> TRUE, mode |-> mode, headless |-> headless, grants |-> {},
                   rules |-> SessionRules(user, project), flags |-> flags]
    /\ count' = [sessions |-> count.sessions + 1, calls |-> 0]
    /\ UNCHANGED <<user, project, trusted, trust, plan, ask, last, consent>>

\* The prompt is waiting: no turn, no review, no question is open.
AtPrompt == session.on /\ ~session.headless /\ ask = Nothing /\ plan.pending = {} /\ ~plan.question

\* /mode, and the switch /plan and /execute make.
SwitchMode(mode) ==
    /\ AtPrompt /\ mode # session.mode
    /\ session' = [session EXCEPT !.mode = mode]
    /\ UNCHANGED <<user, project, trusted, trust, plan, ask, last, consent, count>>

EndSession ==
    /\ session.on /\ ask = Nothing
    /\ session' = Off /\ plan' = NoPlan /\ last' = Nothing
    /\ consent' = [always |-> {}, plan |-> {}]
    /\ UNCHANGED <<user, project, trusted, trust, ask, count>>

View == [mode |-> session.mode, level |-> "supervised", headless |-> session.headless,
         grants |-> session.grants]

Config(rules) == [rules |-> rules, trusted |-> FALSE, edits |-> "edits" \in session.flags,
                  tests |-> "tests" \in session.flags, commit |-> "commit" \in session.flags]

Verdict(r) == Evaluate(r, View, Config(session.rules))

Ran(r, answer, n) == [pc |-> "ran", request |-> r, answer |-> answer, call |-> n]

\* The gateway asks the policy about a prepared call.
Call(r) ==
    /\ session.on /\ ask = Nothing /\ plan.pending = {} /\ ~plan.question
    /\ count.calls < MaxCalls
    /\ count' = [count EXCEPT !.calls = @ + 1]
    /\ last' = IF Verdict(r) = "allow" THEN Ran(r, "none", count.calls + 1) ELSE last
    /\ ask' = IF Verdict(r) = "ask" THEN [pc |-> "asking", request |-> r] ELSE Nothing
    /\ UNCHANGED <<user, project, trusted, trust, session, plan, consent>>

\* The key that goes with the question.  An ask by the overlay, or about a read, has none.
OfferedKey == Grantable(ask.request)

\* approve; a destructive call takes the word typed as well.
Approve ==
    /\ ask # Nothing
    /\ last' = Ran(ask.request, IF ask.request.facts.destructive THEN "typed" ELSE "once",
                 count.calls)
    /\ ask' = Nothing
    /\ UNCHANGED <<user, project, trusted, trust, session, plan, consent, count>>

ApproveForSession ==
    /\ ask # Nothing /\ OfferedKey # None
    /\ session' = [session EXCEPT !.grants = @ \cup {OfferedKey}]
    /\ consent' = [consent EXCEPT !.always = @ \cup {OfferedKey}]
    /\ last' = Ran(ask.request, "always", count.calls)
    /\ ask' = Nothing
    /\ UNCHANGED <<user, project, trusted, trust, plan, count>>

\* A rejection, an abort, or a word typed wrong.
Reject ==
    /\ ask # Nothing
    /\ ask' = Nothing
    /\ UNCHANGED <<user, project, trusted, trust, session, plan, last, consent, count>>

----------------------------------------------------------------------------
(* Plans. *)

\* scope_grants: what a plan may pre-authorise.
Granted(paths) == paths \ (Outside \cup Protected)

PlanKeys(paths) == {EditKey[p] : p \in Granted(paths)}

\* A slip: the store is cleared first, and then there is no plan whose keys to take.
ClearedFirst == session.grants \ PlanKeys({})

\* _revoke_plan_grants.
Revoked == session.grants \ PlanKeys(plan.approved)

\* /plan: the earlier plan's grants go before the new plan is made.  The turn that makes
\* it may fail; then there is none to review.
Propose(paths) ==
    /\ AtPrompt
    /\ session' = [session EXCEPT !.mode = "plan", !.grants = Revoked]
    /\ plan' = [NoPlan EXCEPT !.pending = paths]
    /\ consent' = [consent EXCEPT !.plan = {}]
    /\ UNCHANGED <<user, project, trusted, trust, ask, last, count>>

\* The user edits the plan under review.
EditPlan(paths) ==
    /\ plan.pending # {} /\ paths \notin {{}, plan.pending}
    /\ plan' = [plan EXCEPT !.pending = paths]
    /\ UNCHANGED <<user, project, trusted, trust, session, ask, last, consent, count>>

RejectPlan ==
    /\ plan.pending # {}
    /\ plan' = [plan EXCEPT !.pending = {}]
    /\ UNCHANGED <<user, project, trusted, trust, session, ask, last, consent, count>>

\* Approved; a second question is about its grants, if it has any.
ApprovePlan ==
    /\ plan.pending # {}
    /\ plan' = [pending |-> {}, approved |-> plan.pending, question |-> Granted(plan.pending) # {}]
    /\ UNCHANGED <<user, project, trusted, trust, session, ask, last, consent, count>>

GrantPlan(yes) ==
    /\ plan.question
    /\ plan' = [plan EXCEPT !.question = FALSE]
    /\ session' = IF yes THEN [session EXCEPT !.grants = @ \cup PlanKeys(plan.approved)] ELSE session
    /\ consent' = IF yes THEN [consent EXCEPT !.plan = PlanKeys(plan.approved)] ELSE consent
    /\ UNCHANGED <<user, project, trusted, trust, ask, last, count>>

\* /clear takes the plan and its grants with the history.
Clear ==
    /\ AtPrompt
    /\ session' = [session EXCEPT !.grants = Revoked]
    /\ plan' = NoPlan
    /\ consent' = [consent EXCEPT !.plan = {}]
    /\ UNCHANGED <<user, project, trusted, trust, ask, last, count>>

\* /execute switches to agent mode when a plan was approved.
Execute ==
    /\ AtPrompt /\ plan.approved # {} /\ session.mode # "agent"
    /\ session' = [session EXCEPT !.mode = "agent"]
    /\ UNCHANGED <<user, project, trusted, trust, plan, ask, last, consent, count>>

----------------------------------------------------------------------------
Next ==
    \/ \E rules \in ProjectRules \cup {NoConfig} : EditProject(rules)
    \/ TrustShow \/ TrustRevoke \/ \E yes \in BOOLEAN : TrustAnswer(yes)
    \/ \E mode \in Mode, headless \in BOOLEAN, flags \in SUBSET Flag :
          StartSession(mode, headless, flags)
    \/ EndSession \/ \E mode \in Mode : SwitchMode(mode)
    \/ \E r \in Requests : Call(r)
    \/ Approve \/ ApproveForSession \/ Reject
    \/ \E paths \in Plans \cup {{}} : Propose(paths) \/ EditPlan(paths)
    \/ RejectPlan \/ ApprovePlan \/ \E yes \in BOOLEAN : GrantPlan(yes)
    \/ Clear \/ Execute

Spec == Init /\ [][Next]_vars

----------------------------------------------------------------------------
(* Properties. *)

TypeOK ==
    /\ user \in UserRules /\ project \in ProjectRules \cup {NoConfig}
    /\ session \in [on : BOOLEAN, mode : Mode, headless : BOOLEAN, grants : SUBSET Keys,
                     rules : SUBSET Rule, flags : SUBSET Flag]
    /\ plan \in [pending : SUBSET Paths, approved : SUBSET Paths, question : BOOLEAN]
    /\ consent \in [always : SUBSET Keys, plan : SUBSET Keys]
    /\ ask # Nothing => ask.request \in Requests

\* What may stand behind a call that ran without a question: it changes nothing, its
\* key was granted by an answer or with the plan that is still live, a rule of the
\* user's own allows it, or a flag of the headless run does.
Licensed(r) ==
    \/ r.risk \in SideEffectFree
    \/ r.facts.key \in consent.always \cup consent.plan
    \/ Match(user, r, "allow", TRUE)
    \/ session.headless /\ Permits(r.risk, Config({}))

\* Nothing runs against a hard invariant, the mode or a deny rule; nothing destructive
\* without the word typed, whatever was granted or allowed before; and nothing with an
\* effect unasked that is not licensed.
OnlyLicensedRuns ==
    [][\A r \in Requests :
          last' # last /\ last' # Nothing /\ last'.request = r =>
             /\ ~Violates(r) /\ ModeAllows(r, View)
             /\ ~Match(session.rules, r, "deny", TRUE)
             /\ r.facts.destructive => last'.answer = "typed"
             /\ last'.answer = "none" => Licensed(r)]_vars

\* A repository's configuration only tightens: whatever a session allows unasked it
\* would allow without the project's rules as well.
ProjectOnlyTightens ==
    session.on =>
        \A r \in Requests :
            Verdict(r) = "allow" => Evaluate(r, View, Config(user)) = "allow"

\* Every grant a session holds was given by an answer of the user's in this session, or
\* with the plan approved last: a plan that was superseded or cleared leaves none behind.
GrantsConsented == session.grants \subseteq consent.always \cup consent.plan

\* A headless run never waits for an answer nobody can give.
HeadlessNeverAsks == ask # Nothing => ~session.headless

----------------------------------------------------------------------------
(* What makes them inductive. *)

\* The rules of a session are those of its start.
Loaded ==
    session.on => \E p \in ProjectRules \cup {NoConfig} : session.rules = SessionRules(user, p)

\* The grants of a plan are those of the plan approved last; a plan under review has none.
PlanGrants ==
    /\ consent.plan \subseteq PlanKeys(plan.approved)
    /\ plan.pending # {} => consent.plan = {} /\ ~plan.question

\* While a question is open nothing changes that its verdict was made from.
StillAsked ==
    ask # Nothing =>
        session.on /\ plan.pending = {} /\ ~plan.question /\ Verdict(ask.request) = "ask"

PermissionsInv == TypeOK /\ Loaded /\ GrantsConsented /\ PlanGrants /\ StillAsked

=============================================================================
