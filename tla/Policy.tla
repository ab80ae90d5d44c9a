-------------------------------- MODULE Policy --------------------------------
(***************************************************************************)
(* safety/policy.py, rules.py and invariants.py: the pure function that    *)
(* decides whether one prepared call may run.                              *)
(*                                                                         *)
(* It is asked in eight stages, and the first that has an opinion decides. *)
(***************************************************************************)
EXTENDS Integers, Sequences

CONSTANTS
    Tools, Paths, Argvs, Keys,      \* names
    None,                           \* no path, no argv, no key
    AskPaths                        \* paths auto-edit still asks about

ASSUME PolicyAssumption ==
    None \notin Paths \cup Argvs \cup Keys /\ AskPaths \subseteq Paths

Risk == {"READ", "META", "WRITE", "EXEC", "VCS_WRITE"}
SideEffectFree == {"READ", "META"}
AgentOnly == {"WRITE", "EXEC", "VCS_WRITE"}

Mode == {"chat", "plan", "agent"}
Level == {"supervised", "auto-edit"}

\* `resolved`: there is an absolute path.  `protected`: it is repository metadata.
\* `own`: it is Hearth's own configuration or data.  `prefixed`: VAR=value comes first.
\* `denied`: the classifier refuses the command for good.  `badged`: one of the badges
\* is among UNGRANTABLE_BADGES.
PolicyFacts ==
    [path : Paths \cup {None}, resolved : BOOLEAN, inside : BOOLEAN, protected : BOOLEAN,
     own : BOOLEAN, sensitive : BOOLEAN, argv : Argvs \cup {None}, prefixed : BOOLEAN,
     shell : BOOLEAN, destructive : BOOLEAN, network : BOOLEAN, denied : BOOLEAN,
     badged : BOOLEAN, key : Keys \cup {None}]

PolicyRequest == [tool : Tools, risk : Risk, facts : PolicyFacts]

SessionView ==
    [mode : Mode, level : Level, headless : BOOLEAN, grants : SUBSET Keys]

\* A rule that states no path covers every path and none; the same for its argv.
Rule ==
    [effect : {"allow", "ask", "deny"}, tools : SUBSET Tools,
     paths : SUBSET Paths \cup {Paths \cup {None}},
     argvs : SUBSET Argvs \cup {Argvs \cup {None}},
     env : BOOLEAN, source : {"global", "project"}]

\* Which rule of an effect comes first shows only in the reason that is given.
ConfigView ==
    [rules : SUBSET Rule, trusted : BOOLEAN,
     edits : BOOLEAN, tests : BOOLEAN, commit : BOOLEAN]

----------------------------------------------------------------------------
(* Rules. *)

\* Conditions narrow.  A call that has no path or no argv satisfies none on them, and
\* a leading assignment satisfies no condition on the argv unless the rule says so.
Covers(rule, r) ==
    /\ r.tool \in rule.tools
    /\ r.facts.path \in rule.paths
    /\ r.facts.argv \in rule.argvs
    /\ None \in rule.argvs \/ rule.env \/ ~r.facts.prefixed

Relaxing(rule) == rule.effect = "allow"

Match(rules, r, effect, trusted) ==
    \E rule \in rules :
        /\ rule.effect = effect
        /\ Relaxing(rule) /\ rule.source = "project" => trusted
        /\ Covers(rule, r)

----------------------------------------------------------------------------
(* The stages.  "none" passes the question on. *)

CheckWritePath(f) == ~f.inside \/ f.protected \/ f.own

\* The hard invariants; a write that did not resolve violates them as well.
Violates(r) ==
    \/ r.facts.denied
    \/ r.risk = "READ" /\ r.facts.sensitive
    \/ r.risk = "WRITE" /\ (~r.facts.resolved \/ CheckWritePath(r.facts))

Invariants(r) == IF Violates(r) THEN "deny" ELSE "none"

ModeAllows(r, s) == r.risk \in AgentOnly => s.mode = "agent"

Modes(r, s) == IF ModeAllows(r, s) THEN "none" ELSE "deny"

DenyRules(r, c) == IF Match(c.rules, r, "deny", TRUE) THEN "deny" ELSE "none"

Overlay(r, s) ==
    IF ~r.facts.destructive THEN "none" ELSE IF s.headless THEN "deny" ELSE "ask"

Grants(r, s) == IF r.facts.key # None /\ r.facts.key \in s.grants THEN "allow" ELSE "none"

AllowRules(r, c) == IF Match(c.rules, r, "allow", c.trusted) THEN "allow" ELSE "none"

Permits(risk, c) ==
    CASE risk = "WRITE" -> c.edits [] risk = "EXEC" -> c.tests
      [] risk = "VCS_WRITE" -> c.commit [] OTHER -> FALSE

\* Nobody can be asked in headless mode.
MaybeHeadless(action, r, s, c) ==
    IF ~s.headless \/ action # "ask" THEN action
    ELSE IF Permits(r.risk, c) THEN "allow" ELSE "deny"

AskRules(r, s, c) ==
    IF Match(c.rules, r, "ask", TRUE) THEN MaybeHeadless("ask", r, s, c) ELSE "none"

DefaultDecision(r, s) ==
    CASE r.risk \in SideEffectFree ->
           IF r.risk = "META" \/ r.facts.inside THEN "allow"
           ELSE IF s.mode = "agent" THEN "ask" ELSE "deny"
      [] r.risk = "WRITE" ->
           IF s.level = "auto-edit" /\ r.facts.path \notin AskPaths THEN "allow" ELSE "ask"
      [] OTHER -> "ask"

Default(r, s, c) == MaybeHeadless(DefaultDecision(r, s), r, s, c)

\* The opinion of the first stage that has one.
First(opinions) ==
    opinions[CHOOSE i \in DOMAIN opinions :
                /\ opinions[i] # "none"
                /\ \A j \in DOMAIN opinions : j < i => opinions[j] = "none"]

\* A slip: what was granted is not questioned again.
GrantsFirst(r, s, c) ==
    First(<<Invariants(r), Modes(r, s), Grants(r, s), DenyRules(r, c), Overlay(r, s),
            AllowRules(r, c), AskRules(r, s, c), Default(r, s, c)>>)

Evaluate(r, s, c) ==
    First(<<Invariants(r), Modes(r, s), DenyRules(r, c), Overlay(r, s), Grants(r, s),
            AllowRules(r, c), AskRules(r, s, c), Default(r, s, c)>>)

\* What "always for this session" would grant, if it is offered at all: never for
\* destructive calls, for those that need a shell, or that may reach the network.
Grantable(r) ==
    IF r.facts.badged \/ r.facts.destructive \/ r.facts.shell \/ r.facts.network
         \/ r.risk = "READ"
    THEN None ELSE r.facts.key

=============================================================================
