-------------------------------- MODULE Context --------------------------------
(***************************************************************************)
(* core/context: how a history is folded into a summary, and what of it    *)
(* and of the retrieved chunks goes into one request.                      *)
(***************************************************************************)
EXTENDS Integers, SequencesExt

CONSTANTS
    KeepRecent,      \* turns compaction keeps: KEEP_RECENT_TURNS_*
    Limits,          \* the budget table's row: tokens for each segment
    MessageCost,     \* what one message is estimated to cost
    FrameCost        \* what the frame around the retrieved chunks costs

Segment == {"system", "project", "map", "history", "retrieval"}

ASSUME ContextAssumption ==
    /\ KeepRecent \in Nat \ {0} /\ MessageCost \in Nat \ {0} /\ FrameCost \in Nat
    /\ Limits \in [Segment -> Nat]
    /\ FrameCost <= Limits.retrieval

\* A message of a turn, or the summary that replaced some.
Said(role, t) == [role |-> role, turn |-> t]
SummaryOf(S) == [role |-> "summary", folds |-> S]

\* What a message accounts for: a summary stands for all that was put into its prompt.
Content(m) == IF m.role = "summary" THEN m.folds ELSE {m}

ContentOf(h) == UNION {Content(h[i]) : i \in DOMAIN h}

----------------------------------------------------------------------------
(* Compaction. *)

\* Where turns begin; an earlier summary does not begin one, so that it is folded again.
Boundaries(h) == {i \in DOMAIN h : h[i].role = "user"}

From(h, i) == Cardinality({j \in Boundaries(h) : j >= i})

\* How many of the oldest messages are folded.
Cut(h) ==
    IF Cardinality(Boundaries(h)) <= KeepRecent THEN 0
    ELSE Max({i \in Boundaries(h) : From(h, i) >= KeepRecent}) - 1

\* A slip: the prompt is made of the turns alone, without the summary before them.
TurnsOnly(h) ==
    <<SummaryOf({h[i] : i \in {j \in 1 .. Cut(h) : h[j].role # "summary"}})>>
        \o SubSeq(h, Cut(h) + 1, Len(h))

Compacted(h) == <<SummaryOf(ContentOf(SubSeq(h, 1, Cut(h))))>> \o SubSeq(h, Cut(h) + 1, Len(h))

----------------------------------------------------------------------------
(* One request. *)

\* The most recent messages that fit.
Fit(h) ==
    LET room == Limits.history \div MessageCost
    IN  IF Len(h) <= room THEN h ELSE SubSeq(h, Len(h) - room + 1, Len(h))

Spare(segment, used) == IF used < Limits[segment] THEN Limits[segment] - used ELSE 0

\* What the stable part leaves unused; nothing fills the segment for the project's
\* instructions.
Slack(system, mapped) == Spare("system", system) + Spare("project", 0) + Spare("map", mapped)

\* A slip: what is spare goes to retrieval as a whole, and to the history as well.
AllSlack(system, mapped) == Limits.retrieval + 2 * Slack(system, mapped)

\* with_slack_from: six tenths of it go to retrieval, the rest to the history's limit,
\* which the history has been fitted to already.
RetrievalLimit(system, mapped) == Limits.retrieval + (Slack(system, mapped) * 6) \div 10

\* Best first; a chunk that does not fit is passed over for a smaller one.
Block(costs, limit) ==
    IF costs = <<>> THEN 0
    ELSE FoldLeft(LAMBDA spent, cost : IF spent + cost > limit THEN spent ELSE spent + cost,
                  FrameCost, costs)

\* The parts of a request that are measured.
Used(system, mapped, h, costs) ==
    system + mapped + Len(Fit(h)) * MessageCost + Block(costs, RetrievalLimit(system, mapped))

InputBudget ==
    Limits.system + Limits.project + Limits.map + Limits.history + Limits.retrieval

=============================================================================
