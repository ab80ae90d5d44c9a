--------------------------- MODULE Permissions_proofs ---------------------------
(***************************************************************************)
(* Proofs about what may run and what was run.  Policy and Permissions, for*)
(* every set of calls, rules, plans and keys; and the workflows that run   *)
(* commands: that /test calls a round passed only when what it ran passed, *)
(* and that /commit commits what it showed, for any number of test files,  *)
(* rounds and files run, whatever the commands do, whatever others edit    *)
(* and stage, and wherever the task is cancelled.                          *)
(***************************************************************************)
EXTENDS Permissions, Workflows, FiniteSetTheorems, WellFoundedInduction, TLAPS

(* The first opinion that is one decides. *)
LEMMA FirstDecides ==
  ASSUME NEW o, DOMAIN o \subseteq Int,
         NEW i \in DOMAIN o, o[i] # "none", \A j \in DOMAIN o : j < i => o[j] = "none"
  PROVE  First(o) = o[i]
<1> DEFINE D(k) == o[k] # "none" /\ \A j \in DOMAIN o : j < k => o[j] = "none"
<1>1. \A k \in DOMAIN o : D(k) => k = i
  OBVIOUS
<1>2. (CHOOSE k \in DOMAIN o : D(k)) = i
  BY <1>1
<1> QED
  BY <1>2 DEF First

LEMMA FirstOfEight ==
  ASSUME NEW a, NEW b, NEW c, NEW d, NEW e, NEW f, NEW g, NEW h, h # "none"
  PROVE  First(<<a, b, c, d, e, f, g, h>>) =
           IF a # "none" THEN a ELSE IF b # "none" THEN b ELSE IF c # "none" THEN c
           ELSE IF d # "none" THEN d ELSE IF e # "none" THEN e ELSE IF f # "none" THEN f
           ELSE IF g # "none" THEN g ELSE h
<1> DEFINE o == <<a, b, c, d, e, f, g, h>>
<1>1. DOMAIN o = 1 .. 8 /\ o[1] = a /\ o[2] = b /\ o[3] = c /\ o[4] = d /\ o[5] = e /\ o[6] = f /\ o[7] = g /\ o[8] = h
  OBVIOUS
<1> HIDE DEF o
<1>2. DOMAIN o \subseteq Int
  BY <1>1
<1>3. ASSUME NEW i \in 1 .. 8, o[i] # "none", \A j \in 1 .. 8 : j < i => o[j] = "none"
      PROVE  First(o) = o[i]
  BY <1>1, <1>2, <1>3, FirstDecides
<1>4. First(o) = IF a # "none" THEN a ELSE IF b # "none" THEN b ELSE IF c # "none" THEN c
           ELSE IF d # "none" THEN d ELSE IF e # "none" THEN e ELSE IF f # "none" THEN f
           ELSE IF g # "none" THEN g ELSE h
  <2>1. CASE a # "none"
    BY <1>1, <1>3, <2>1
  <2>2. CASE a = "none" /\ b # "none"
    BY <1>1, <1>3, <2>2
  <2>3. CASE a = "none" /\ b = "none" /\ c # "none"
    BY <1>1, <1>3, <2>3
  <2>4. CASE a = "none" /\ b = "none" /\ c = "none" /\ d # "none"
    BY <1>1, <1>3, <2>4
  <2>5. CASE a = "none" /\ b = "none" /\ c = "none" /\ d = "none" /\ e # "none"
    BY <1>1, <1>3, <2>5
  <2>6. CASE a = "none" /\ b = "none" /\ c = "none" /\ d = "none" /\ e = "none" /\ f # "none"
    BY <1>1, <1>3, <2>6
  <2>7. CASE a = "none" /\ b = "none" /\ c = "none" /\ d = "none" /\ e = "none" /\ f = "none"
             /\ g # "none"
    BY <1>1, <1>3, <2>7
  <2>8. CASE a = "none" /\ b = "none" /\ c = "none" /\ d = "none" /\ e = "none" /\ f = "none"
             /\ g = "none"
    BY <1>1, <1>3, <2>8
  <2> QED
    BY <2>1, <2>2, <2>3, <2>4, <2>5, <2>6, <2>7, <2>8
<1> QED
  BY <1>4 DEF o

-----------------------------------------------------------------------------
(* The ladder of stages. *)

Verdicts == {"allow", "ask", "deny"}

LEMMA DefaultType ==
  ASSUME NEW r \in PolicyRequest, NEW s \in SessionView, NEW c
  PROVE  Default(r, s, c) \in Verdicts
<1>1. r.risk \in Risk
  BY DEF PolicyRequest
<1>2. DefaultDecision(r, s) \in Verdicts
  BY <1>1 DEF DefaultDecision, SideEffectFree, Risk, Verdicts
<1> QED
  BY <1>2 DEF Default, MaybeHeadless, Verdicts

LEMMA StagesOfEvaluate ==
  ASSUME NEW r \in PolicyRequest, NEW s \in SessionView, NEW c
  PROVE  Evaluate(r, s, c) =
           IF Violates(r) \/ ~ModeAllows(r, s) \/ Match(c.rules, r, "deny", TRUE) THEN "deny"
           ELSE IF r.facts.destructive THEN IF s.headless THEN "deny" ELSE "ask"
           ELSE IF r.facts.key # None /\ r.facts.key \in s.grants THEN "allow"
           ELSE IF Match(c.rules, r, "allow", c.trusted) THEN "allow"
           ELSE IF Match(c.rules, r, "ask", TRUE) THEN MaybeHeadless("ask", r, s, c)
           ELSE Default(r, s, c)
<1>1. Default(r, s, c) # "none"
  BY DefaultType DEF Verdicts
<1>2. MaybeHeadless("ask", r, s, c) # "none"
  BY DEF MaybeHeadless
<1>3. Evaluate(r, s, c) =
        IF Invariants(r) # "none" THEN Invariants(r)
        ELSE IF Modes(r, s) # "none" THEN Modes(r, s)
        ELSE IF DenyRules(r, c) # "none" THEN DenyRules(r, c)
        ELSE IF Overlay(r, s) # "none" THEN Overlay(r, s)
        ELSE IF Grants(r, s) # "none" THEN Grants(r, s)
        ELSE IF AllowRules(r, c) # "none" THEN AllowRules(r, c)
        ELSE IF AskRules(r, s, c) # "none" THEN AskRules(r, s, c)
        ELSE Default(r, s, c)
  BY ONLY <1>1, FirstOfEight DEF Evaluate
<1>4. Invariants(r) = IF Violates(r) THEN "deny" ELSE "none"
  BY DEF Invariants
<1>5. Modes(r, s) = IF ModeAllows(r, s) THEN "none" ELSE "deny"
  BY DEF Modes
<1>6. DenyRules(r, c) = IF Match(c.rules, r, "deny", TRUE) THEN "deny" ELSE "none"
  BY DEF DenyRules
<1>7. AskRules(r, s, c) = IF Match(c.rules, r, "ask", TRUE) THEN MaybeHeadless("ask", r, s, c) ELSE "none"
  BY DEF AskRules
<1>8. AllowRules(r, c) = IF Match(c.rules, r, "allow", c.trusted) THEN "allow" ELSE "none"
  BY DEF AllowRules
<1> QED
  BY <1>2, <1>3, <1>4, <1>5, <1>6, <1>7, <1>8 DEF Overlay, Grants

(* What is allowed violates no invariant, no mode and no deny rule, and is *)
(* not destructive: no grant, rule, flag or level gets past those          *)
(* (policy.py, the order of evaluate).                                     *)
THEOREM AllowedIsLawful ==
  ASSUME NEW r \in PolicyRequest, NEW s \in SessionView, NEW c, Evaluate(r, s, c) = "allow"
  PROVE  /\ ~Violates(r) /\ ModeAllows(r, s) /\ ~Match(c.rules, r, "deny", TRUE)
         /\ ~r.facts.destructive
BY StagesOfEvaluate

(* The same of what is asked about, except that it may be destructive.     *)
THEOREM AskedIsLawful ==
  ASSUME NEW r \in PolicyRequest, NEW s \in SessionView, NEW c, Evaluate(r, s, c) = "ask"
  PROVE  ~Violates(r) /\ ModeAllows(r, s) /\ ~Match(c.rules, r, "deny", TRUE)
BY StagesOfEvaluate

(* In headless mode nothing is ever asked (policy.py, "an Ask that         *)
(* survived would either hang or be read as consent").                     *)
THEOREM HeadlessIsNeverAsked ==
  ASSUME NEW r \in PolicyRequest, NEW s \in SessionView, NEW c, s.headless
  PROVE  Evaluate(r, s, c) # "ask"
<1>1. MaybeHeadless("ask", r, s, c) # "ask" /\ Default(r, s, c) # "ask"
  BY DEF Default, MaybeHeadless
<1> QED
  BY <1>1, StagesOfEvaluate

(* A rule in an untrusted project's file that relaxes is as good as absent.*)
THEOREM UntrustedAllowIsAbsent ==
  ASSUME NEW r \in PolicyRequest, NEW s \in SessionView,
         NEW c \in ConfigView, NEW rule \in Rule,
         rule.effect = "allow", rule.source = "project", ~c.trusted
  PROVE  Evaluate(r, s, [c EXCEPT !.rules = @ \cup {rule}]) = Evaluate(r, s, c)
<1> DEFINE d == [c EXCEPT !.rules = @ \cup {rule}]
<1>1. /\ d.rules = c.rules \cup {rule} /\ d.trusted = c.trusted
      /\ d.edits = c.edits /\ d.tests = c.tests /\ d.commit = c.commit
  BY DEF ConfigView
<1>2. c.trusted = FALSE
  BY DEF ConfigView
<1>3. ~(rule.source = "project" => FALSE) /\ rule.effect = "allow"
  OBVIOUS
<1>4. MaybeHeadless("ask", r, s, d) = MaybeHeadless("ask", r, s, c) /\ Default(r, s, d) = Default(r, s, c)
  BY <1>1 DEF MaybeHeadless, Default, Permits
<1>5. /\ Match(d.rules, r, "deny", TRUE) <=> Match(c.rules, r, "deny", TRUE)
      /\ Match(d.rules, r, "ask", TRUE) <=> Match(c.rules, r, "ask", TRUE)
      /\ Match(d.rules, r, "allow", FALSE) <=> Match(c.rules, r, "allow", FALSE)
  BY <1>1, <1>3 DEF Match, Relaxing
<1>6. d.trusted = FALSE
  BY <1>1, <1>2
<1>7. Evaluate(r, s, d) = Evaluate(r, s, c)
  <2> HIDE DEF d
  <2> QED
    BY <1>2, <1>4, <1>5, <1>6, StagesOfEvaluate
<1> QED
  BY <1>7

-----------------------------------------------------------------------------
(* The invariant. *)

LEMMA ViewType ==
  ASSUME TypeOK
  PROVE  View \in SessionView
BY DEF TypeOK, View, SessionView, Level, Mode

LEMMA SessionRulesType ==
  ASSUME NEW u \in UserRules, NEW p \in ProjectRules \cup {NoConfig}
  PROVE  SessionRules(u, p) \subseteq Rule
<1>1. LoadConfig(u, p, FALSE) \subseteq Rule
  BY PermissionsAssumption DEF LoadConfig, Stripped
<1>2. \A r \in Rule : [r EXCEPT !.source = "global"] \in Rule
  BY DEF Rule
<1> QED
  BY <1>1, <1>2 DEF SessionRules

LEMMA PlanKeysType ==
  ASSUME NEW paths \in SUBSET Paths
  PROVE  PlanKeys(paths) \subseteq Keys
BY ClassifierAssumption DEF PlanKeys, Granted

LEMMA PlanKeysOfNone == PlanKeys({}) = {}
BY DEF PlanKeys, Granted

(* A key that is offered is a key. *)
LEMMA OfferedType ==
  ASSUME TypeOK, ask # Nothing, OfferedKey # None
  PROVE  OfferedKey \in Keys
<1>1. ask.request \in PolicyRequest
  BY PermissionsAssumption DEF TypeOK
<1>2. ask.request.facts.key \in Keys \cup {None}
  BY <1>1 DEF PolicyRequest, PolicyFacts
<1> QED
  BY <1>2 DEF OfferedKey, Grantable

LEMMA InitPermissions == Init => PermissionsInv
<1> SUFFICES ASSUME Init PROVE PermissionsInv
  OBVIOUS
<1>1. TypeOK
  BY DEF Init, TypeOK, Off, NoPlan, Mode
<1>2. Loaded /\ GrantsConsented /\ PlanGrants /\ StillAsked
  BY DEF Init, Loaded, GrantsConsented, PlanGrants, StillAsked, Off, NoPlan
<1> QED
  BY <1>1, <1>2 DEF PermissionsInv

(* A step that leaves the session, the plan, the question and the consent  *)
(* as they are. *)
LEMMA TrustPreserves ==
  ASSUME PermissionsInv, project' \in ProjectRules \cup {NoConfig},
         UNCHANGED <<user, session, plan, ask, consent>>
  PROVE  PermissionsInv'
<1>1. TypeOK'
  BY DEF PermissionsInv, TypeOK
<1>2. Loaded' /\ GrantsConsented' /\ PlanGrants'
  BY DEF PermissionsInv, Loaded, GrantsConsented, PlanGrants
<1>3. StillAsked'
  BY DEF PermissionsInv, StillAsked, Verdict, View, Config
<1> QED
  BY <1>1, <1>2, <1>3 DEF PermissionsInv

LEMMA SessionPreserves ==
  ASSUME PermissionsInv,
         \/ \E mode \in Mode, headless \in BOOLEAN, flags \in SUBSET Flag :
               StartSession(mode, headless, flags)
         \/ EndSession
         \/ \E mode \in Mode : SwitchMode(mode)
         \/ Execute
  PROVE  PermissionsInv'
<1> USE DEF PermissionsInv
<1>1. ASSUME NEW mode \in Mode, NEW headless \in BOOLEAN, NEW flags \in SUBSET Flag,
             StartSession(mode, headless, flags)
      PROVE  PermissionsInv'
  <2>1. SessionRules(user, project) \subseteq Rule
    BY SessionRulesType DEF TypeOK
  <2>2. ask = Nothing
    BY <1>1 DEF StartSession, StillAsked
  <2>3. TypeOK'
    BY <1>1, <2>1 DEF StartSession, TypeOK
  <2>4. Loaded'
    BY <1>1 DEF StartSession, Loaded, TypeOK
  <2>5. GrantsConsented' /\ PlanGrants' /\ StillAsked'
    BY <1>1, <2>2 DEF StartSession, GrantsConsented, PlanGrants, StillAsked
  <2> QED
    BY <2>3, <2>4, <2>5
<1>2. CASE EndSession
  <2>1. TypeOK'
    BY <1>2 DEF EndSession, TypeOK, Off, NoPlan, Mode
  <2> QED
    BY <1>2, <2>1 DEF EndSession, Loaded, GrantsConsented, PlanGrants, StillAsked, Off, NoPlan
<1>3. ASSUME NEW mode \in Mode, ask = Nothing, session' = [session EXCEPT !.mode = mode],
             UNCHANGED <<user, project, plan, ask, consent>>
      PROVE  PermissionsInv'
  <2>1. TypeOK'
    BY <1>3 DEF TypeOK
  <2>2. session'.on = session.on /\ session'.rules = session.rules /\ session'.grants = session.grants
    BY <1>3 DEF TypeOK
  <2> QED
    BY <1>3, <2>1, <2>2 DEF Loaded, GrantsConsented, PlanGrants, StillAsked
<1> QED
  BY <1>1, <1>2, <1>3 DEF SwitchMode, Execute, AtPrompt, Mode

LEMMA CallPreserves ==
  ASSUME PermissionsInv,
         \/ \E r \in Requests : Call(r)
         \/ Approve \/ ApproveForSession \/ Reject
  PROVE  PermissionsInv'
<1> USE DEF PermissionsInv
<1>1. ASSUME NEW r \in Requests, Call(r)
      PROVE  PermissionsInv'
  <2>1. TypeOK'
    BY <1>1 DEF Call, TypeOK
  <2>2. Loaded' /\ GrantsConsented' /\ PlanGrants'
    BY <1>1 DEF Call, Loaded, GrantsConsented, PlanGrants
  <2>3. StillAsked'
    BY <1>1 DEF Call, StillAsked, Verdict, View, Config
  <2> QED
    BY <2>1, <2>2, <2>3
<1>2. CASE Approve \/ Reject
  <2>1. TypeOK' /\ Loaded' /\ GrantsConsented' /\ PlanGrants' /\ StillAsked'
    BY <1>2 DEF Approve, Reject, TypeOK, Loaded, GrantsConsented, PlanGrants, StillAsked
  <2> QED
    BY <2>1
<1>3. CASE ApproveForSession
  <2>1. OfferedKey \in Keys
    BY <1>3, OfferedType DEF ApproveForSession
  <2>2. TypeOK'
    BY <1>3, <2>1 DEF ApproveForSession, TypeOK
  <2>3. /\ session'.on = session.on /\ session'.rules = session.rules
        /\ session'.grants = session.grants \cup {OfferedKey}
        /\ consent'.always = consent.always \cup {OfferedKey} /\ consent'.plan = consent.plan
    BY <1>3 DEF ApproveForSession, TypeOK
  <2>4. Loaded' /\ GrantsConsented' /\ PlanGrants' /\ StillAsked'
    BY <1>3, <2>3 DEF ApproveForSession, Loaded, GrantsConsented, PlanGrants, StillAsked
  <2> QED
    BY <2>2, <2>4
<1> QED
  BY <1>1, <1>2, <1>3

(* Revoking takes exactly the grants of the plan approved last, so what is *)
(* left was granted by an answer.                                          *)
LEMMA RevokedConsented ==
  ASSUME GrantsConsented, PlanGrants
  PROVE  Revoked \subseteq consent.always
BY DEF Revoked, GrantsConsented, PlanGrants

LEMMA PlansPreserve ==
  ASSUME PermissionsInv,
         \/ \E paths \in Plans \cup {{}} : Propose(paths) \/ EditPlan(paths)
         \/ RejectPlan \/ ApprovePlan \/ \E yes \in BOOLEAN : GrantPlan(yes)
         \/ Clear
  PROVE  PermissionsInv'
<1> USE DEF PermissionsInv
<1>1. \A paths \in Plans \cup {{}} : paths \in SUBSET Paths
  BY PermissionsAssumption
<1>2. ASSUME NEW paths \in SUBSET Paths, NEW mode \in Mode, ask = Nothing, ask' = Nothing,
             session' = [session EXCEPT !.mode = mode, !.grants = Revoked],
             plan' = [NoPlan EXCEPT !.pending = paths],
             consent' = [consent EXCEPT !.plan = {}],
             UNCHANGED <<user, project>>
      PROVE  PermissionsInv'
  <2>1. Revoked \subseteq consent.always
    BY RevokedConsented
  <2>2. TypeOK'
    BY <1>2, <2>1 DEF TypeOK, NoPlan
  <2>3. /\ session'.on = session.on /\ session'.rules = session.rules /\ session'.grants = Revoked
        /\ consent'.always = consent.always /\ consent'.plan = {}
    BY <1>2 DEF TypeOK
  <2>4. Loaded' /\ GrantsConsented' /\ PlanGrants' /\ StillAsked'
    BY <1>2, <2>1, <2>3 DEF Loaded, GrantsConsented, PlanGrants, StillAsked, NoPlan
  <2> QED
    BY <2>2, <2>4
<1>3. ASSUME NEW paths \in Plans \cup {{}}, Propose(paths)
      PROVE  PermissionsInv'
  BY <1>1, <1>2, <1>3 DEF Propose, AtPrompt, Mode
<1>4. CASE Clear
  <2>1. session.mode \in Mode /\ session' = [session EXCEPT !.mode = session.mode, !.grants = Revoked]
    BY <1>4 DEF Clear, TypeOK
  <2>2. plan' = [NoPlan EXCEPT !.pending = {}]
    BY <1>4 DEF Clear, NoPlan
  <2> QED
    BY <1>2, <1>4, <2>1, <2>2 DEF Clear, AtPrompt
<1>5. ASSUME NEW paths \in Plans \cup {{}}, EditPlan(paths)
      PROVE  PermissionsInv'
  <2>1. plan'.pending = paths /\ plan'.approved = plan.approved /\ plan'.question = plan.question
    BY <1>5 DEF EditPlan, TypeOK
  <2>2. TypeOK'
    BY <1>1, <1>5 DEF EditPlan, TypeOK
  <2>3. Loaded' /\ GrantsConsented' /\ PlanGrants' /\ StillAsked'
    BY <1>5, <2>1 DEF EditPlan, Loaded, GrantsConsented, PlanGrants, StillAsked
  <2> QED
    BY <2>2, <2>3
<1>6. CASE RejectPlan
  <2>1. plan'.pending = {} /\ plan'.approved = plan.approved /\ plan'.question = plan.question
    BY <1>6 DEF RejectPlan, TypeOK
  <2>2. TypeOK'
    BY <1>6 DEF RejectPlan, TypeOK
  <2>3. Loaded' /\ GrantsConsented' /\ PlanGrants' /\ StillAsked'
    BY <1>6, <2>1 DEF RejectPlan, Loaded, GrantsConsented, PlanGrants, StillAsked
  <2> QED
    BY <2>2, <2>3
<1>7. CASE ApprovePlan
  <2>1. TypeOK'
    BY <1>7 DEF ApprovePlan, TypeOK
  <2>2. Loaded' /\ GrantsConsented' /\ PlanGrants' /\ StillAsked'
    BY <1>7 DEF ApprovePlan, Loaded, GrantsConsented, PlanGrants, StillAsked
  <2> QED
    BY <2>1, <2>2
<1>8. ASSUME NEW yes \in BOOLEAN, GrantPlan(yes)
      PROVE  PermissionsInv'
  <2> DEFINE keys == IF yes THEN PlanKeys(plan.approved) ELSE {}
  <2>1. PlanKeys(plan.approved) \subseteq Keys
    BY PlanKeysType DEF TypeOK
  <2>2. /\ session' \in [on : BOOLEAN, mode : Mode, headless : BOOLEAN, grants : SUBSET Keys,
                         rules : SUBSET Rule, flags : SUBSET Flag]
        /\ session'.on = session.on /\ session'.rules = session.rules
        /\ session'.grants = session.grants \cup keys
    BY <1>8, <2>1 DEF GrantPlan, TypeOK
  <2>3. /\ consent' \in [always : SUBSET Keys, plan : SUBSET Keys]
        /\ consent'.always = consent.always
        /\ consent'.plan = IF yes THEN PlanKeys(plan.approved) ELSE consent.plan
    BY <1>8, <2>1 DEF GrantPlan, TypeOK
  <2>4. /\ plan' \in [pending : SUBSET Paths, approved : SUBSET Paths, question : BOOLEAN]
        /\ plan'.pending = plan.pending /\ plan'.approved = plan.approved
    BY <1>8 DEF GrantPlan, TypeOK
  <2>5. ask = Nothing /\ ask' = Nothing
    BY <1>8 DEF GrantPlan, StillAsked
  <2>6. TypeOK'
    BY <1>8, <2>2, <2>3, <2>4, <2>5 DEF GrantPlan, TypeOK
  <2>7. Loaded' /\ StillAsked'
    BY <1>8, <2>2, <2>5 DEF GrantPlan, Loaded, StillAsked
  <2>8. GrantsConsented' /\ PlanGrants'
    <3>1. plan.pending = {}
      BY <1>8 DEF GrantPlan, PlanGrants
    <3> QED
      BY <2>2, <2>3, <2>4, <3>1 DEF GrantsConsented, PlanGrants
  <2> QED
    BY <2>6, <2>7, <2>8
<1> QED
  BY <1>3, <1>4, <1>5, <1>6, <1>7, <1>8

LEMMA NextPermissions == PermissionsInv /\ [Next]_vars => PermissionsInv'
<1> SUFFICES ASSUME PermissionsInv, [Next]_vars PROVE PermissionsInv'
  OBVIOUS
<1>1. project \in ProjectRules \cup {NoConfig}
  BY DEF PermissionsInv, TypeOK
<1>2. CASE \/ \E rules \in ProjectRules \cup {NoConfig} : EditProject(rules)
           \/ TrustShow \/ TrustRevoke \/ \E yes \in BOOLEAN : TrustAnswer(yes)
           \/ UNCHANGED vars
  BY <1>1, <1>2, TrustPreserves DEF EditProject, TrustShow, TrustRevoke, TrustAnswer, vars
<1>3. CASE \/ \E mode \in Mode, headless \in BOOLEAN, flags \in SUBSET Flag :
                StartSession(mode, headless, flags)
           \/ EndSession \/ \E mode \in Mode : SwitchMode(mode)
           \/ Execute
  BY <1>3, SessionPreserves
<1>4. CASE (\E r \in Requests : Call(r)) \/ Approve \/ ApproveForSession \/ Reject
  BY <1>4, CallPreserves
<1>5. CASE \/ \E paths \in Plans \cup {{}} : Propose(paths) \/ EditPlan(paths)
           \/ RejectPlan \/ ApprovePlan \/ \E yes \in BOOLEAN : GrantPlan(yes)
           \/ Clear
  BY <1>5, PlansPreserve
<1> QED
  BY <1>2, <1>3, <1>4, <1>5 DEF Next

(* The types, where the rules of a session come from, whose the grants are *)
(* and what an open question rests on hold in every state.                 *)
THEOREM PermissionsTheorem == Spec => []PermissionsInv
BY InitPermissions, NextPermissions, PTL DEF Spec

(* No grant outlives the plan it came with: what a session holds was given *)
(* by an answer in it, or with the plan approved last (repl.py,            *)
(* _revoke_plan_grants and the two questions of a plan).                   *)
THEOREM ConsentTheorem == Spec => []GrantsConsented
<1>1. PermissionsInv => GrantsConsented
  BY DEF PermissionsInv
<1> QED
  BY <1>1, PermissionsTheorem, PTL

-----------------------------------------------------------------------------
(* What the project's configuration can do. *)

(* The user's rules come through the merge as they are, and no others that *)
(* relax do.                                                               *)
LEMMA RulesOfSession ==
  ASSUME NEW p \in ProjectRules \cup {NoConfig}, TypeOK
  PROVE  /\ user \subseteq SessionRules(user, p)
         /\ \A rule \in SessionRules(user, p) : Relaxing(rule) => rule \in user
<1>1. user \subseteq Rule /\ \A q \in user : q.source = "global"
  BY PermissionsAssumption DEF TypeOK
<1>2. \A q \in Rule : q.source = "global" => [q EXCEPT !.source = "global"] = q
  BY DEF Rule
<1>3. \A q \in user : [q EXCEPT !.source = "global"] = q
  BY <1>1, <1>2
<1>4. LoadConfig(user, p, FALSE) \subseteq Rule
  BY <1>1, PermissionsAssumption DEF LoadConfig, Stripped
<1>5. \A q \in LoadConfig(user, p, FALSE) : Relaxing(q) => q \in user
  BY DEF LoadConfig, Stripped
<1>6. \A q \in Rule : Relaxing([q EXCEPT !.source = "global"]) <=> Relaxing(q)
  BY DEF Rule, Relaxing
<1>7. user \subseteq LoadConfig(user, p, FALSE)
  BY DEF LoadConfig
<1>8. user \subseteq SessionRules(user, p)
  BY <1>3, <1>7 DEF SessionRules
<1>9. ASSUME NEW rule \in SessionRules(user, p), Relaxing(rule)
      PROVE  rule \in user
  <2>1. PICK q \in LoadConfig(user, p, FALSE) : rule = [q EXCEPT !.source = "global"]
    BY DEF SessionRules
  <2>2. q \in user
    BY <1>4, <1>5, <1>6, <1>9, <2>1
  <2> QED
    BY <1>3, <2>1, <2>2
<1> QED
  BY <1>8, <1>9

LEMMA MatchesOfSession ==
  ASSUME PermissionsInv, session.on, NEW r
  PROVE  /\ Match(user, r, "deny", TRUE) => Match(session.rules, r, "deny", TRUE)
         /\ Match(user, r, "ask", TRUE) => Match(session.rules, r, "ask", TRUE)
         /\ Match(session.rules, r, "allow", FALSE) => Match(user, r, "allow", FALSE)
         /\ Match(session.rules, r, "allow", FALSE) => Match(user, r, "allow", TRUE)
<1>1. PICK p \in ProjectRules \cup {NoConfig} : session.rules = SessionRules(user, p)
  BY DEF PermissionsInv, Loaded
<1>2. /\ user \subseteq session.rules
      /\ \A rule \in session.rules : rule.effect = "allow" => rule \in user
  BY <1>1, RulesOfSession DEF PermissionsInv, Relaxing
<1>3. ASSUME NEW effect \in {"deny", "ask"}, Match(user, r, effect, TRUE)
      PROVE  Match(session.rules, r, effect, TRUE)
  BY <1>2, <1>3 DEF Match
<1>4. ASSUME Match(session.rules, r, "allow", FALSE)
      PROVE  Match(user, r, "allow", FALSE) /\ Match(user, r, "allow", TRUE)
  BY <1>2, <1>4 DEF Match
<1> QED
  BY <1>3, <1>4

(* Of the settings behind a verdict only the rules differ. *)
LEMMA FlagsAlone ==
  ASSUME NEW r, NEW s, NEW rules, NEW others
  PROVE  /\ Permits(r.risk, Config(rules)) = Permits(r.risk, Config(others))
         /\ MaybeHeadless("ask", r, s, Config(rules)) = MaybeHeadless("ask", r, s, Config(others))
         /\ Default(r, s, Config(rules)) = Default(r, s, Config(others))
BY DEF Permits, MaybeHeadless, Default, Config

(* Where the flags of a headless run permit what would be asked, the       *)
(* default is at least to ask.                                             *)
LEMMA PermittedByDefault ==
  ASSUME NEW r \in PolicyRequest, NEW s \in SessionView, NEW c,
         MaybeHeadless("ask", r, s, c) = "allow"
  PROVE  Default(r, s, c) = "allow" /\ s.headless /\ Permits(r.risk, c)
<1>1. s.headless /\ Permits(r.risk, c)
  BY DEF MaybeHeadless
<1>2. r.risk \notin SideEffectFree
  BY <1>1 DEF Permits, SideEffectFree
<1>3. DefaultDecision(r, s) \in {"allow", "ask"}
  BY <1>2 DEF DefaultDecision
<1> QED
  BY <1>1, <1>3 DEF Default, MaybeHeadless

(* A repository's configuration only tightens: what a session allows       *)
(* unasked it would allow without the project's rules too (loader.py,      *)
(* "allow rules from an untrusted layer are dropped"; rules.py, match).    *)
THEOREM TightensTheorem == Spec => []ProjectOnlyTightens
<1>1. ASSUME PermissionsInv, session.on, NEW r \in Requests, Verdict(r) = "allow"
      PROVE  Evaluate(r, View, Config(user)) = "allow"
  <2> DEFINE S == Config(session.rules)
             U == Config(user)
  <2>1. r \in PolicyRequest /\ View \in SessionView
    BY <1>1, PermissionsAssumption, ViewType DEF PermissionsInv
  <2>2. S.rules = session.rules /\ U.rules = user /\ S.trusted = FALSE /\ U.trusted = FALSE
    BY DEF Config
  <2>3. /\ MaybeHeadless("ask", r, View, S) = MaybeHeadless("ask", r, View, U)
        /\ Default(r, View, S) = Default(r, View, U)
    BY FlagsAlone
  <2>4. /\ Match(U.rules, r, "deny", TRUE) => Match(S.rules, r, "deny", TRUE)
        /\ Match(U.rules, r, "ask", TRUE) => Match(S.rules, r, "ask", TRUE)
        /\ Match(S.rules, r, "allow", FALSE) => Match(U.rules, r, "allow", FALSE)
    BY <1>1, <2>2, MatchesOfSession
  <2>5. MaybeHeadless("ask", r, View, U) = "allow" => Default(r, View, U) = "allow"
    BY <2>1, PermittedByDefault
  <2>6. Evaluate(r, View, S) = "allow"
    BY <1>1 DEF Verdict
  <2>0. SUFFICES Evaluate(r, View, U) = "allow"
    BY DEF U
  <2> HIDE DEF S, U
  <2>7. ~Violates(r) /\ ModeAllows(r, View) /\ ~Match(U.rules, r, "deny", TRUE)
        /\ ~r.facts.destructive
    BY <2>1, <2>4, <2>6, AllowedIsLawful
  <2>8. CASE r.facts.key # None /\ r.facts.key \in View.grants
    BY <2>1, <2>7, <2>8, StagesOfEvaluate
  <2>9. CASE ~(r.facts.key # None /\ r.facts.key \in View.grants) /\ Match(S.rules, r, "allow", FALSE)
    BY <2>1, <2>2, <2>4, <2>7, <2>9, StagesOfEvaluate
  <2>10. CASE ~(r.facts.key # None /\ r.facts.key \in View.grants) /\ ~Match(S.rules, r, "allow", FALSE)
    <3>1. IF Match(S.rules, r, "ask", TRUE) THEN MaybeHeadless("ask", r, View, S) = "allow"
          ELSE Default(r, View, S) = "allow"
      BY <2>1, <2>2, <2>6, <2>7, <2>10, StagesOfEvaluate
    <3>2. /\ Default(r, View, U) = "allow"
          /\ Match(U.rules, r, "ask", TRUE) => MaybeHeadless("ask", r, View, U) = "allow"
      BY <2>3, <2>4, <2>5, <3>1
    <3> QED
      BY <2>1, <2>2, <2>7, <2>10, <3>2, StagesOfEvaluate
  <2> QED
    BY <2>8, <2>9, <2>10
<1>2. PermissionsInv => ProjectOnlyTightens
  BY <1>1 DEF ProjectOnlyTightens
<1> QED
  BY <1>2, PermissionsTheorem, PTL

-----------------------------------------------------------------------------
(* What may run. *)

LEMMA AllowedIsLicensed ==
  ASSUME PermissionsInv, session.on, NEW r \in Requests, Verdict(r) = "allow"
  PROVE  Licensed(r)
<1> DEFINE S == Config(session.rules)
<1>1. r \in PolicyRequest /\ View \in SessionView
  BY PermissionsAssumption, ViewType DEF PermissionsInv
<1>2. S.rules = session.rules /\ S.trusted = FALSE
  BY DEF Config
<1>3. /\ View.grants = session.grants /\ View.headless = session.headless
      /\ View.level = "supervised"
  BY DEF View
<1>4. Permits(r.risk, S) = Permits(r.risk, Config({}))
  BY FlagsAlone
<1>5. Evaluate(r, View, S) = "allow"
  BY DEF Verdict
<1> HIDE DEF S
<1>6. \/ r.facts.key \in View.grants
      \/ Match(S.rules, r, "allow", FALSE)
      \/ MaybeHeadless("ask", r, View, S) = "allow"
      \/ Default(r, View, S) = "allow"
  BY <1>1, <1>2, <1>5, StagesOfEvaluate
<1>7. CASE r.facts.key \in View.grants
  BY <1>3, <1>7 DEF PermissionsInv, GrantsConsented, Licensed
<1>8. CASE Match(S.rules, r, "allow", FALSE)
  BY <1>2, <1>8, MatchesOfSession DEF Licensed
<1>9. CASE MaybeHeadless("ask", r, View, S) = "allow"
  BY <1>3, <1>4, <1>9 DEF MaybeHeadless, Licensed
<1>10. CASE Default(r, View, S) = "allow"
  <2>1. CASE r.risk \in SideEffectFree
    BY <2>1 DEF Licensed
  <2>2. CASE r.risk \notin SideEffectFree
    <3>1. DefaultDecision(r, View) = "ask"
      BY <1>3, <2>2 DEF DefaultDecision
    <3> QED
      BY <1>3, <1>4, <1>10, <3>1 DEF Default, MaybeHeadless, Licensed
  <2> QED
    BY <2>1, <2>2
<1> QED
  BY <1>6, <1>7, <1>8, <1>9, <1>10

(* Nothing runs against an invariant, the mode or a deny rule, nothing     *)
(* destructive without the word typed, and nothing with an effect unasked  *)
(* unless an answer, a live plan, the user's own rules or the flags of the *)
(* headless run stand behind it (policy.py evaluate, gateway.py            *)
(* _decide_and_run, prompts.py).                                           *)
THEOREM LicenceTheorem == Spec => OnlyLicensedRuns
<1> DEFINE Lawful(r) ==
             /\ ~Violates(r) /\ ModeAllows(r, View)
             /\ ~Match(session.rules, r, "deny", TRUE)
             /\ r.facts.destructive => last'.answer = "typed"
             /\ last'.answer = "none" => Licensed(r)
<1>1. ASSUME PermissionsInv, [Next]_vars, NEW r \in Requests,
             last' # last, last' # Nothing, last'.request = r
      PROVE  Lawful(r)
  <2>1. Config(session.rules).rules = session.rules
    BY DEF Config
  <2>2. View \in SessionView
    BY <1>1, ViewType DEF PermissionsInv
  <2>3. \A q \in Requests : q \in PolicyRequest
    BY PermissionsAssumption
  <2>4. ASSUME NEW q \in Requests, Call(q)
        PROVE  Lawful(r)
    <3>1. session.on /\ Verdict(q) = "allow" /\ last' = Ran(q, "none", count.calls + 1)
      BY <1>1, <2>4 DEF Call
    <3>2. r = q /\ last'.answer = "none"
      BY <1>1, <3>1 DEF Ran
    <3>3. Licensed(r)
      BY <1>1, <3>1, <3>2, AllowedIsLicensed
    <3>4. /\ ~Violates(r) /\ ModeAllows(r, View) /\ ~Match(session.rules, r, "deny", TRUE)
          /\ ~r.facts.destructive
      BY <2>1, <2>2, <2>3, <3>1, <3>2, AllowedIsLawful DEF Verdict
    <3> QED
      BY <3>3, <3>4
  <2>5. CASE Approve \/ ApproveForSession
    <3>1. ask # Nothing /\ ask.request \in Requests /\ Verdict(ask.request) = "ask"
      BY <1>1, <2>5 DEF Approve, ApproveForSession, PermissionsInv, TypeOK, StillAsked
    <3>2. /\ ~Violates(ask.request) /\ ModeAllows(ask.request, View)
          /\ ~Match(session.rules, ask.request, "deny", TRUE)
      BY <2>1, <2>2, <2>3, <3>1, AskedIsLawful DEF Verdict
    <3>3. last'.request = ask.request /\ last'.answer # "none"
      BY <2>5 DEF Approve, ApproveForSession, Ran
    <3>4. ask.request.facts.destructive => last'.answer = "typed"
      BY <2>5 DEF Approve, ApproveForSession, Ran, OfferedKey, Grantable
    <3> QED
      BY <1>1, <3>2, <3>3, <3>4
  <2>6. ASSUME last' = last \/ last' = Nothing
        PROVE  Lawful(r)
    BY <1>1, <2>6
  <2> HIDE DEF Lawful
  <2>7. CASE Next
    <3>1. CASE \E rules \in ProjectRules \cup {NoConfig} : EditProject(rules)
      BY <2>6, <3>1 DEF EditProject
    <3>2. CASE TrustShow \/ TrustRevoke \/ \E yes \in BOOLEAN : TrustAnswer(yes)
      BY <2>6, <3>2 DEF TrustShow, TrustRevoke, TrustAnswer
    <3>3. CASE \E mode \in Mode, headless \in BOOLEAN, flags \in SUBSET Flag :
                  StartSession(mode, headless, flags)
      BY <2>6, <3>3 DEF StartSession
    <3>4. CASE EndSession \/ \E mode \in Mode : SwitchMode(mode)
      BY <2>6, <3>4 DEF EndSession, SwitchMode
    <3>5. CASE \E q \in Requests : Call(q)
      BY <2>4, <3>5
    <3>6. CASE Reject
      BY <2>6, <3>6 DEF Reject
    <3>7. CASE \E paths \in Plans \cup {{}} : Propose(paths) \/ EditPlan(paths)
      BY <2>6, <3>7 DEF Propose, EditPlan
    <3>8. CASE RejectPlan \/ ApprovePlan \/ \E yes \in BOOLEAN : GrantPlan(yes)
      BY <2>6, <3>8 DEF RejectPlan, ApprovePlan, GrantPlan
    <3>9. CASE Clear \/ Execute
      BY <2>6, <3>9 DEF Clear, Execute
    <3> QED
      BY <2>5, <2>7, <3>1, <3>2, <3>3, <3>4, <3>5, <3>6, <3>7, <3>8, <3>9 DEF Next
  <2>8. CASE UNCHANGED vars
    BY <2>6, <2>8 DEF vars
  <2> QED
    BY <1>1, <2>7, <2>8
<1> DEFINE Good == \A r \in Requests :
             last' # last /\ last' # Nothing /\ last'.request = r => Lawful(r)
<1>2. PermissionsInv /\ [Next]_vars => [Good]_vars
  BY <1>1
<1>3. Spec => [][Good]_vars
  <2> HIDE DEF Good
  <2> QED
    BY <1>2, PermissionsTheorem, PTL DEF Spec
<1> QED
  BY <1>3 DEF OnlyLicensedRuns

-----------------------------------------------------------------------------
(* The first few of a set of places. *)

LEMMA LeastPlace ==
  ASSUME NEW S \in SUBSET DOMAIN TestFiles, S # {}
  PROVE  \E k \in S : \A j \in S : k <= j
<1>1. S \subseteq Nat
  BY WorkflowsAssumption
<1>2. PICK k \in S : \A j \in S : ~ (<<j, k>> \in OpToRel(<, Nat))
  BY <1>1, NatLessThanWellFounded, WFMin
<1>3. ASSUME NEW j \in S
      PROVE  k <= j
  <2>1. <<j, k>> \notin OpToRel(<, Nat)
    BY <1>2
  <2>2. <<j, k>> \notin {ss \in Nat \X Nat : ss[1] < ss[2]}
    BY <2>1, Zenon DEF OpToRel
  <2> QED
    BY <1>1, <2>2
<1> QED
  BY <1>3

LEMMA ForemostIn ==
  ASSUME NEW S \in SUBSET DOMAIN TestFiles, S # {}
  PROVE  Foremost(S) \in S
  BY LeastPlace DEF Foremost

LEMMA SomeAreRun ==
  ASSUME NEW S \in SUBSET DOMAIN TestFiles, S # {}
  PROVE  FirstFew(S) \in SUBSET S /\ FirstFew(S) # {}
<1>1. PICK k \in S : \A j \in S : k <= j
  BY LeastPlace
<1>2. S \subseteq Nat
  BY WorkflowsAssumption
<1>3. {j \in S : j < k} = {}
  BY <1>1, <1>2
<1>4. Cardinality({j \in S : j < k}) < MaxFilesRun
  <2>1. Cardinality({j \in S : j < k}) = 0
    BY <1>3, FS_EmptySet
  <2> QED
    BY <2>1, WorkflowsAssumption
<1>5. k \in FirstFew(S)
  BY <1>4 DEF FirstFew
<1> QED
  BY <1>5 DEF FirstFew

-----------------------------------------------------------------------------
LEMMA InitJob ==
  ASSUME JobInit
  PROVE  JobInv
  BY DEF JobInit, JobInv, JobTypeOK, RoundInv, Compared, PassedMeansRun, Prompt, NotRan, At

-----------------------------------------------------------------------------
(* /test *)

LEMMA TestStarted ==
  ASSUME JobInv, StartTest
  PROVE  JobInv'
<1>1. job' \in TestJob /\ job'.pc = "turn" /\ job'.status = "none" /\ job'.kind = "test"
  BY WorkflowsAssumption DEF StartTest, JobInv, JobTypeOK, TestJob
<1> QED
  BY <1>1 DEF StartTest, JobInv, JobTypeOK, RoundInv, Compared, PassedMeansRun, NotRan, At

(* A step of the test job, by its place. *)
LEMMA TestFields ==
  ASSUME JobInv, job.kind = "test"
  PROVE  job \in TestJob
  BY DEF JobInv, JobTypeOK, Prompt, CommitJob

LEMMA CommitFields ==
  ASSUME JobInv, job.kind = "commit"
  PROVE  job \in CommitJob
  BY DEF JobInv, JobTypeOK, Prompt, TestJob

LEMMA TurnTaken ==
  ASSUME JobInv, NEW written \in [Files -> 0 .. 1], Turn(written)
  PROVE  JobInv'
<1>1. job \in TestJob
  BY TestFields DEF Turn, At
<1>2. job' \in TestJob /\ job'.pc = "look" /\ job'.status = job.status /\ job'.kind = "test"
  BY <1>1 DEF Turn, Goto, TestJob
<1> QED
  BY <1>1, <1>2 DEF Turn, At, JobInv, JobTypeOK, RoundInv, Compared, PassedMeansRun

LEMMA Looked ==
  ASSUME JobInv, Look
  PROVE  JobInv'
<1>1. job \in TestJob /\ job.pc = "look" /\ ran = NotRan
  BY TestFields DEF Look, At, JobInv, RoundInv
<1>2. UNCHANGED <<text, staged, ran, moved>>
  BY DEF Look
<1>3. CASE Changed(job.before) = {}
  <2>1. job' \in TestJob /\ job'.pc = "over" /\ job'.status = "no_tests_written" /\ job'.kind = "test"
    BY <1>1, <1>3 DEF Look, End, TestJob
  <2> QED
    BY <1>2, <2>1 DEF JobInv, JobTypeOK, RoundInv, Compared, PassedMeansRun, At
<1>4. CASE Changed(job.before) # {}
  <2>1. FirstFew(Changed(job.before)) \in SUBSET DOMAIN TestFiles /\ FirstFew(Changed(job.before)) # {}
    BY <1>4, SomeAreRun DEF Changed
  <2>2. job' = [job EXCEPT !.pc = "ask", !.queue = FirstFew(Changed(job.before)), !.ok = TRUE]
    BY <1>4 DEF Look
  <2>3. /\ job' \in TestJob /\ job'.pc = "ask" /\ job'.status = job.status /\ job'.kind = "test"
        /\ job'.queue # {}
    BY <1>1, <2>1, <2>2 DEF TestJob
  <2>4. job.status # "passed"
    BY <1>1 DEF JobInv, RoundInv, TestJob
  <2> QED
    BY <1>1, <1>2, <2>3, <2>4 DEF JobInv, JobTypeOK, RoundInv, Compared, PassedMeansRun, At, NotRan
<1> QED
  BY <1>3, <1>4

LEMMA RunStarted ==
  ASSUME JobInv, NEW started, RunFile(started)
  PROVE  JobInv'
<1>1. job \in TestJob /\ job.pc = "ask" /\ job.queue # {}
  BY TestFields DEF RunFile, At
<1>2. /\ job' \in TestJob /\ job'.pc = "run" /\ job'.status = job.status /\ job'.kind = "test"
      /\ job'.queue = job.queue /\ job'.ok = job.ok
  BY <1>1 DEF RunFile, Goto, TestJob
<1> QED
  BY <1>1, <1>2 DEF RunFile, TestJob, JobInv, JobTypeOK, RoundInv, Compared, PassedMeansRun, At

LEMMA RunRead ==
  ASSUME JobInv, NEW summary \in Summary, HasRun(summary)
  PROVE  JobInv'
<1> DEFINE k == Foremost(job.queue)
<1>1. job \in TestJob /\ job.pc = "run" /\ job.queue # {}
  BY TestFields DEF HasRun, At, JobInv, RoundInv
<1>2. k \in job.queue /\ k \in DOMAIN TestFiles /\ TestFiles[k] \in Files
  BY <1>1, ForemostIn DEF TestJob, Files
<1>3. ran' = [ran EXCEPT ![TestFiles[k]] = summary] /\ UNCHANGED <<text, staged, moved>>
  BY DEF HasRun
<1>4. ran' \in [Files -> Summary \cup {"none"}]
  BY <1>2, <1>3 DEF JobInv, JobTypeOK
<1>5. job' = [job EXCEPT !.pc = "ask", !.queue = @ \ {k}, !.ok = @ /\ FileOk(summary)]
  BY DEF HasRun
<1> HIDE DEF k
<1>6. /\ job' \in TestJob /\ job'.pc = "ask" /\ job'.status = job.status /\ job'.kind = "test"
      /\ job'.ok = (job.ok /\ FileOk(summary))
  BY <1>1, <1>5 DEF TestJob, FileOk
<1>7. job'.ok => /\ \A f \in Files : ran'[f] \in {"passed", "none"}
                 /\ \E f \in Files : ran'[f] = "passed"
  BY <1>1, <1>2, <1>3, <1>6 DEF FileOk, JobInv, JobTypeOK, RoundInv, TestJob
<1>8. job.status # "passed"
  BY <1>1 DEF JobInv, RoundInv, TestJob
<1> QED
  BY <1>3, <1>4, <1>6, <1>7, <1>8 DEF JobInv, JobTypeOK, RoundInv, Compared, PassedMeansRun, At

LEMMA Judged ==
  ASSUME JobInv, Judge
  PROVE  JobInv'
<1>1. job \in TestJob /\ job.kind = "test" /\ job.pc = "ask" /\ job.queue = {} /\ job.status # "passed"
  BY TestFields DEF Judge, At, JobInv, RoundInv, TestJob
<1>2. UNCHANGED <<text, staged, moved>>
  BY DEF Judge
<1>3. CASE job.ok
  <2>1. job' = End("passed")
    BY <1>3 DEF Judge
  <2>2. job' \in TestJob /\ job'.pc = "over" /\ job'.status = "passed" /\ job'.kind = "test"
    BY <1>1, <2>1 DEF End, TestJob
  <2>3. ran' = ran
    BY <2>2 DEF Judge
  <2>4. PassedMeansRun'
    BY <1>1, <1>3, <2>3 DEF JobInv, RoundInv, PassedMeansRun
  <2> QED
    BY <1>2, <2>2, <2>3, <2>4 DEF JobInv, JobTypeOK, RoundInv, Compared, At
<1>4. CASE ~ job.ok /\ job.round = MaxRounds
  <2>1. job' = End("failed")
    BY <1>4 DEF Judge
  <2>2. job' \in TestJob /\ job'.pc = "over" /\ job'.status = "failed" /\ job'.kind = "test"
    BY <1>1, <2>1 DEF End, TestJob
  <2>3. ran' = ran
    BY <2>2 DEF Judge
  <2> QED
    BY <1>2, <2>2, <2>3 DEF JobInv, JobTypeOK, RoundInv, Compared, PassedMeansRun, At
<1>5. CASE ~ job.ok /\ job.round # MaxRounds
  <2>1. job' = [job EXCEPT !.pc = "turn", !.round = @ + 1]
    BY <1>5 DEF Judge
  <2>2. job.round + 1 \in 1 .. MaxRounds
    BY <1>1, <1>5, WorkflowsAssumption DEF TestJob
  <2>3. job' \in TestJob /\ job'.pc = "turn" /\ job'.status = job.status /\ job'.kind = "test"
    BY <1>1, <2>1, <2>2 DEF TestJob
  <2>4. ran' = NotRan
    BY <2>3 DEF Judge
  <2> QED
    BY <1>1, <1>2, <2>3, <2>4 DEF JobInv, JobTypeOK, RoundInv, Compared, PassedMeansRun, At, NotRan
<1> QED
  BY <1>3, <1>4, <1>5

-----------------------------------------------------------------------------
(* Wherever a job ends. *)

LEMMA Over ==
  ASSUME JobInv, job.kind \in {"test", "commit"},
         NEW status \in {"tests_not_run", "failed", "rejected", "committed", "cancelled"},
         job.kind = "test" => status \in {"tests_not_run", "cancelled"},
         job.kind = "commit" => status # "tests_not_run",
         job' = End(status), UNCHANGED <<text, staged, ran>>
  PROVE  JobInv'
<1>1. CASE job.kind = "test"
  <2>1. job' \in TestJob /\ job'.pc = "over" /\ job'.status # "passed" /\ job'.kind = "test"
    BY <1>1, TestFields DEF End, TestJob
  <2> QED
    BY <2>1 DEF JobInv, JobTypeOK, RoundInv, Compared, PassedMeansRun, At
<1>2. CASE job.kind = "commit"
  <2>1. job' \in CommitJob /\ job'.pc = "over" /\ job'.kind = "commit"
    BY <1>2, CommitFields DEF End, CommitJob
  <2> QED
    BY <2>1 DEF JobInv, JobTypeOK, RoundInv, Compared, PassedMeansRun, At
<1> QED
  BY <1>1, <1>2

LEMMA Interrupted ==
  ASSUME JobInv, Interrupt
  PROVE  JobInv'
<1>1. job.kind \in {"test", "commit"}
  BY DEF Interrupt, JobInv, JobTypeOK, TestJob, CommitJob, Prompt
<1> QED
  BY <1>1, Over DEF Interrupt

-----------------------------------------------------------------------------
(* /commit *)

LEMMA CommitStarted ==
  ASSUME JobInv, StartCommit
  PROVE  JobInv'
<1>1. job' \in CommitJob /\ job'.pc \in {"message", "over"} /\ job'.kind = "commit"
  BY DEF StartCommit, CommitJob
<1>2. UNCHANGED <<text, staged, ran>>
  BY DEF StartCommit
<1> QED
  BY <1>1, <1>2 DEF JobInv, JobTypeOK, RoundInv, Compared, PassedMeansRun, At

LEMMA CommitMoves ==
  ASSUME JobInv, NEW pc \in {"ask", "check", "git", "made"}, NEW shown \in Diffs \cup {NoDiff},
         job.kind = "commit", job' = [job EXCEPT !.pc = pc, !.shown = shown],
         UNCHANGED <<text, ran>>, staged' \in Diffs \cup {NoDiff},
         pc = "git" => staged' = shown
  PROVE  JobInv'
<1>1. job' \in CommitJob /\ job'.pc = pc /\ job'.shown = shown /\ job'.kind = "commit"
  BY CommitFields DEF CommitJob
<1> QED
  BY <1>1 DEF JobInv, JobTypeOK, RoundInv, Compared, PassedMeansRun, At

LEMMA CommitPrepared ==
  ASSUME JobInv, PrepareCommit
  PROVE  JobInv'
<1>1. job.kind = "commit" /\ UNCHANGED <<text, staged, ran>> /\ staged \in Diffs \cup {NoDiff}
  BY DEF PrepareCommit, At, JobInv, JobTypeOK
<1>2. CASE staged = NoDiff
  BY <1>1, <1>2, Over DEF PrepareCommit
<1>3. CASE staged # NoDiff
  BY <1>1, <1>3, CommitMoves DEF PrepareCommit
<1> QED
  BY <1>2, <1>3

LEMMA CommitApproved ==
  ASSUME JobInv, ApproveCommit
  PROVE  JobInv'
<1>1. job \in CommitJob /\ job.kind = "commit" /\ staged \in Diffs \cup {NoDiff}
  BY CommitFields DEF ApproveCommit, At, JobInv, JobTypeOK
<1>2. job' = [job EXCEPT !.pc = "check", !.shown = job.shown]
  BY <1>1 DEF ApproveCommit, Goto, CommitJob
<1>3. UNCHANGED <<text, staged, ran>> /\ job.shown \in Diffs \cup {NoDiff}
  BY <1>1 DEF ApproveCommit, CommitJob
<1> QED
  BY <1>1, <1>2, <1>3, CommitMoves

LEMMA StagedChecked ==
  ASSUME JobInv, CheckStaged
  PROVE  JobInv'
<1>1. /\ job \in CommitJob /\ job.kind = "commit" /\ staged \in Diffs \cup {NoDiff}
      /\ UNCHANGED <<text, staged, ran>>
  BY CommitFields DEF CheckStaged, At, JobInv, JobTypeOK
<1>2. CASE AsShown
  <2>1. job' = [job EXCEPT !.pc = "git", !.shown = job.shown]
    BY <1>1, <1>2 DEF CheckStaged, CommitJob
  <2>2. job.shown \in Diffs \cup {NoDiff} /\ staged' = job.shown
    BY <1>1, <1>2 DEF AsShown
  <2> QED
    BY <1>1, <2>1, <2>2, CommitMoves
<1>3. CASE ~ AsShown
  BY <1>1, <1>3, Over DEF CheckStaged
<1> QED
  BY <1>2, <1>3

LEMMA Committed ==
  ASSUME JobInv, GitCommits
  PROVE  JobInv'
<1>1. job \in CommitJob /\ job.kind = "commit"
  BY CommitFields DEF GitCommits, At
<1>2. job' = [job EXCEPT !.pc = "made", !.shown = job.shown] /\ job.shown \in Diffs \cup {NoDiff}
  BY <1>1 DEF GitCommits, Goto, CommitJob
<1>3. UNCHANGED <<text, ran>> /\ staged' \in Diffs \cup {NoDiff}
  BY DEF GitCommits
<1> QED
  BY <1>1, <1>2, <1>3, CommitMoves

LEMMA CommitEnded ==
  ASSUME JobInv,
         NoMessage \/ RejectCommit \/ GitFails \/ \E status \in {"committed", "failed"} : GitEnds(status)
  PROVE  JobInv'
<1>1. job.kind = "commit" /\ UNCHANGED <<text, staged, ran>>
  BY DEF NoMessage, RejectCommit, GitFails, GitEnds, At
<1>2. \E status \in {"failed", "rejected", "committed"} : job' = End(status)
  BY DEF NoMessage, RejectCommit, GitFails, GitEnds
<1> QED
  BY <1>1, <1>2, Over

-----------------------------------------------------------------------------
(* What others do. *)

LEMMA IndexMoved ==
  ASSUME JobInv, NEW d \in Diffs \cup {NoDiff}, Stage(d)
  PROVE  JobInv'
  BY DEF Stage, JobInv, JobTypeOK, RoundInv, Compared, PassedMeansRun, At

LEMMA TestEdited ==
  ASSUME JobInv, NEW f \in Files, NEW c \in 0 .. 1, EditTest(f, c)
  PROVE  JobInv'
  BY DEF EditTest, JobInv, JobTypeOK, RoundInv, Compared, PassedMeansRun, At

LEMMA CommandMoves ==
  ASSUME JobInv, UNCHANGED <<job, text, staged, moved, ran>>
  PROVE  JobInv'
  BY DEF JobInv, JobTypeOK, RoundInv, Compared, PassedMeansRun, At

-----------------------------------------------------------------------------
LEMMA JobStep ==
  ASSUME JobInv, [JobNext]_jobVars
  PROVE  JobInv'
<1>1. CASE StartTest \/ \E written \in [Files -> 0 .. 1] : Turn(written)
  BY <1>1, TestStarted, TurnTaken
<1>2. CASE Look \/ Judge
  BY <1>2, Looked, Judged
<1>3. CASE RunFile(NotSpawned) \/ \E resist \in Resistances : RunFile(Spawned(resist))
  BY <1>3, RunStarted
<1>4. CASE \E summary \in Summary : HasRun(summary)
  BY <1>4, RunRead
<1>5. CASE Declined \/ RunRaised
  <2>1. job.kind = "test" /\ UNCHANGED <<text, staged, ran>>
    BY <1>5 DEF Declined, RunRaised, At
  <2>2. \E status \in {"tests_not_run", "cancelled"} : job' = End(status)
    BY <1>5 DEF Declined, RunRaised
  <2> QED
    BY <2>1, <2>2, Over
<1>6. CASE StartCommit \/ PrepareCommit \/ ApproveCommit \/ CheckStaged \/ GitCommits
  BY <1>6, CommitStarted, CommitPrepared, CommitApproved, StagedChecked, Committed
<1>7. CASE NoMessage \/ RejectCommit \/ GitFails \/ \E status \in {"committed", "failed"} : GitEnds(status)
  BY <1>7, CommitEnded
<1>8. CASE Interrupt
  BY <1>8, Interrupted
<1>9. CASE InterruptRun \/ Group \/ Runner \/ UNCHANGED jobVars
  BY <1>9, CommandMoves DEF InterruptRun, Group, Runner, jobVars
<1>10. CASE \E d \in Diffs \cup {NoDiff} : Stage(d)
  BY <1>10, IndexMoved
<1>11. CASE \E f \in Files, c \in 0 .. 1 : EditTest(f, c)
  BY <1>11, TestEdited
<1> QED
  BY <1>1, <1>2, <1>3, <1>4, <1>5, <1>6, <1>7, <1>8, <1>9, <1>10, <1>11 DEF JobNext

(* Where a workflow is and what it has seen, in every behaviour.           *)
THEOREM JobTheorem == JobSpec => []JobInv
<1>1. JobInit => JobInv
  BY InitJob
<1>2. JobInv /\ [JobNext]_jobVars => JobInv'
  BY JobStep
<1> QED
  BY <1>1, <1>2, PTL DEF JobSpec

(* /test says "passed" only of a round in which what it ran was read and   *)
(* passed, and something was run.                                          *)
THEOREM PassedTheorem == JobSpec => []PassedMeansRun
<1>1. JobInv => PassedMeansRun
  BY DEF JobInv
<1> QED
  BY <1>1, JobTheorem, PTL

(* A commit is what the panel showed, unless the index changed between the *)
(* last look at it and git's own.                                          *)
THEOREM ShownTheorem == JobSpec => CommitsWhatWasShown
<1>1. JobInv /\ [JobNext]_jobVars => [commit' # commit => commit' = job.shown \/ moved]_jobVars
  <2> SUFFICES ASSUME JobInv, JobNext, commit' # commit
               PROVE  commit' = job.shown \/ moved
    BY DEF jobVars
  <2>1. GitCommits
    BY DEF JobNext, StartTest, Turn, Look, Declined, RunFile, HasRun, Judge, StartCommit, PrepareCommit,
           NoMessage, RejectCommit, ApproveCommit, CheckStaged, GitFails, GitEnds, Interrupt,
           InterruptRun, RunRaised, Stage, EditTest, Group, Runner
  <2> QED
    BY <2>1 DEF GitCommits, JobInv, Compared
<1> QED
  BY <1>1, JobTheorem, PTL DEF JobSpec, CommitsWhatWasShown

=============================================================================
