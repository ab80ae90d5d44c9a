-------------------------------- MODULE Sessions --------------------------------
(***************************************************************************)
(* One chat session: the history in memory and the rows in state.db, the   *)
(* turns and workflows the prompt runs, compaction, cancellation and       *)
(* `hearth resume` (cli/repl.py, core/runner.py, core/session.py).         *)
(*                                                                         *)
(* Everything runs on one event loop: a step is what happens between two   *)
(* awaits.  A cancellation that arrives as CancelledError leaves the       *)
(* shielded task running behind the prompt.                                *)
(***************************************************************************)
EXTENDS Context

CONSTANTS
    SystemCost, MapCosts,    \* the system prompt's and a repo map's size
    Retrieved,               \* the sizes of what retrieval may find, best first
    MaxTurns,                \* bound: turns of the model
    MaxRounds,               \* MAX_FIX_ITERATIONS + 1
    MaxEpoch,                \* bound
    MaxStops                 \* bound: ends of the process

ASSUME SessionsAssumption ==
    /\ SystemCost \in 0 .. Limits.system
    /\ MapCosts \subseteq 0 .. Limits.map
    /\ Retrieved \subseteq Seq(Nat)

VARIABLES
    db,          \* rows of the messages table, in order
    session,     \* the session in memory, or Off
    tasks,       \* what runs in the foreground, and what a cancellation left behind
    index,       \* the map the index would give now; another process may change it
    sent,        \* the request made last in this process, or NoRequest
    told,        \* history: the messages the session has to account for
    count        \* turns made, ends of the process, and whether a task was ever left behind

vars == <<db, session, tasks, index, sent, told, count>>

Idle == [kind |-> "none", pc |-> "idle"]
NoRequest == [epoch |-> -1]
NoMap == [epoch |-> -1]

Fresh == [on |-> TRUE, history |-> <<>>, epoch |-> 0, mode |-> "chat", map |-> NoMap,
          overlapped |-> FALSE]
Off == [Fresh EXCEPT !.on = FALSE]

Slot == {"front", "behind"}
NoTasks == [s \in Slot |-> Idle]

Init ==
    /\ db = <<>> /\ session = Fresh /\ tasks = NoTasks
    /\ index \in MapCosts /\ sent = NoRequest /\ told = {}
    /\ count = [turns |-> 0, stops |-> 0, left |-> FALSE]

front == tasks["front"]

AtPrompt == session.on /\ front.pc = "idle"

\* The two rows of a turn, or those of a workflow, are written without an await.
Blocked == front.pc = "saving"

MayRun(s) == session.on /\ (Blocked => s = "front")

Turns(n) == [count EXCEPT !.turns = @ + n]

InMode(mode) ==
    IF session.mode = mode THEN session
    ELSE [session EXCEPT !.mode = mode, !.epoch = @ + 1]

----------------------------------------------------------------------------
(* What the prompt starts. *)

NewTask(kind) ==
    [kind |-> kind, pc |-> "check", turn |-> count.turns + 1, round |-> 1, ok |-> FALSE,
     start |-> Len(session.history), seen |-> <<>>, save |-> <<>>]

\* A question, or the message /execute sends.
Ask ==
    /\ AtPrompt /\ count.turns < MaxTurns
    /\ tasks' = [tasks EXCEPT !["front"] = NewTask("ask")]
    /\ count' = Turns(1)
    /\ UNCHANGED <<db, session, index, sent, told>>

\* /plan and /test switch the mode first.
Workflow(kind, mode) ==
    /\ AtPrompt /\ count.turns < MaxTurns
    /\ session.mode # mode => session.epoch < MaxEpoch
    /\ tasks' = [tasks EXCEPT !["front"] = NewTask(kind)]
    /\ session' = InMode(mode)
    /\ count' = Turns(1)
    /\ UNCHANGED <<db, index, sent, told>>

CompactNow ==
    /\ AtPrompt
    /\ tasks' = [tasks EXCEPT !["front"] = [NewTask("compact") EXCEPT !.turn = 0]]
    /\ UNCHANGED <<db, session, index, sent, told, count>>

\* /mode, /model: a new epoch, in memory only.
SwitchMode(mode) ==
    /\ AtPrompt /\ mode # session.mode /\ session.epoch < MaxEpoch
    /\ session' = InMode(mode)
    /\ UNCHANGED <<db, tasks, index, sent, told, count>>

Clear ==
    /\ AtPrompt /\ session.epoch < MaxEpoch
    /\ db' = <<>>
    /\ session' = [session EXCEPT !.history = <<>>, !.epoch = @ + 1]
    /\ told' = {}
    /\ UNCHANGED <<tasks, index, sent, count>>

----------------------------------------------------------------------------
(* A turn: compact, retrieve, build, stream. *)

\* maybe_compact.  Whether the history is large enough to fold is left open; when
\* there is nothing older than the turns to keep, nothing is folded.
SkipCompaction(s) ==
    /\ MayRun(s) /\ tasks[s].pc = "check"
    /\ tasks' = [tasks EXCEPT ![s] =
                    IF @.kind = "compact" THEN Idle ELSE [@ EXCEPT !.pc = "request"]]
    /\ UNCHANGED <<db, session, index, sent, told, count>>

StartCompaction(s) ==
    /\ MayRun(s) /\ tasks[s].pc = "check"
    /\ Cut(session.history) > 0 /\ session.epoch < MaxEpoch
    /\ tasks' = [tasks EXCEPT ![s] = [@ EXCEPT !.pc = "summarising", !.seen = session.history]]
    /\ UNCHANGED <<db, session, index, sent, told, count>>

AfterSummary(task) ==
    IF task.kind = "compact" THEN Idle ELSE [task EXCEPT !.pc = "request", !.seen = <<>>]

\* A slip: the epoch goes on.
SameEpoch(s) == [session EXCEPT !.history = Compacted(tasks[s].seen)]

\* replace_history, with what was made of the history as it was before the model was asked.
ReplaceHistory(s) == [session EXCEPT !.history = Compacted(tasks[s].seen), !.epoch = @ + 1]

Summarised(s) ==
    /\ MayRun(s) /\ tasks[s].pc = "summarising" /\ session.epoch < MaxEpoch
    /\ session' = ReplaceHistory(s)
    /\ tasks' = [tasks EXCEPT ![s] = AfterSummary(@)]
    /\ UNCHANGED <<db, index, sent, told, count>>

\* The model failed, said nothing, or its summary is no shorter.
NotSummarised(s) ==
    /\ MayRun(s) /\ tasks[s].pc = "summarising"
    /\ tasks' = [tasks EXCEPT ![s] = AfterSummary(@)]
    /\ UNCHANGED <<db, session, index, sent, told, count>>

\* A slip: the map is built for every request.
MapOfNow == [epoch |-> session.epoch, cost |-> index]

\* The map is built once in an epoch.
MapOfEpoch ==
    IF session.map.epoch = session.epoch THEN session.map
    ELSE [epoch |-> session.epoch, cost |-> index]

\* The context is built and the stream is opened.
Request(s, costs) ==
    /\ MayRun(s) /\ tasks[s].pc = "request"
    /\ session' = [session EXCEPT !.map = MapOfEpoch]
    /\ sent' = [epoch |-> session.epoch, mode |-> session.mode, map |-> MapOfEpoch.cost,
                history |-> Fit(session.history), whole |-> Fit(session.history) = session.history,
                used |-> Used(SystemCost, MapOfEpoch.cost, session.history, costs)]
    /\ tasks' = [tasks EXCEPT ![s] = [@ EXCEPT !.pc = "streaming"]]
    /\ UNCHANGED <<db, index, told, count>>

\* The turn's two messages enter the history; a plan's answer is the plan.  An agent turn
\* that stopped at a limit enters it too, and is not ok.
Answer(s, ok) ==
    /\ MayRun(s) /\ tasks[s].pc = "streaming"
    /\ session' = [session EXCEPT !.history =
                      @ \o <<Said("user", tasks[s].turn), Said("assistant", tasks[s].turn)>>]
    /\ told' = told \cup {Said("user", tasks[s].turn), Said("assistant", tasks[s].turn)}
    /\ tasks' = [tasks EXCEPT ![s] = [@ EXCEPT !.pc = "ended", !.ok = ok]]
    /\ UNCHANGED <<db, index, sent, count>>

\* An error of the provider, at any of its requests; or a plan that does not parse.
Fail(s) ==
    /\ MayRun(s) /\ tasks[s].pc \in {"request", "streaming"}
    /\ tasks' = [tasks EXCEPT ![s] = [@ EXCEPT !.pc = "ended", !.ok = FALSE]]
    /\ UNCHANGED <<db, session, index, sent, told, count>>

----------------------------------------------------------------------------
(* What is kept of it. *)

\* A slip: the workflow's messages are counted from one too early.
SinceOneBefore(task) ==
    SubSeq(session.history, IF task.start = 0 THEN 1 ELSE task.start, Len(session.history))

\* _persist_history_since.
Since(task) == SubSeq(session.history, task.start + 1, Len(session.history))

Saving(task, rows) == [task EXCEPT !.pc = "saving", !.save = rows]

\* _ask saves a turn that is ok; /plan saves nothing.  Behind the prompt nobody does.
EndTurn(s) ==
    /\ MayRun(s) /\ tasks[s].pc = "ended" /\ tasks[s].kind \in {"ask", "plan"}
    /\ tasks' = [tasks EXCEPT ![s] =
                    IF s = "front" /\ @.kind = "ask" /\ @.ok
                    THEN Saving(@, <<Said("user", @.turn), Said("assistant", @.turn)>>)
                    ELSE Idle]
    /\ UNCHANGED <<db, session, index, sent, told, count>>

\* run_test_workflow: the tests failed, and the model is shown how.
NextRound(s) ==
    /\ MayRun(s) /\ tasks[s].pc = "ended" /\ tasks[s].kind = "test"
    /\ tasks[s].round < MaxRounds /\ count.turns < MaxTurns
    /\ tasks' = [tasks EXCEPT ![s] =
                    [@ EXCEPT !.pc = "check", !.round = tasks[s].round + 1, !.turn = count.turns + 1, !.ok = FALSE]]
    /\ count' = Turns(1)
    /\ UNCHANGED <<db, session, index, sent, told>>

\* They passed, none was written, none could be run, or no round is left.
EndTests(s) ==
    /\ MayRun(s) /\ tasks[s].pc = "ended" /\ tasks[s].kind = "test"
    /\ tasks' = [tasks EXCEPT ![s] = IF s = "front" THEN Saving(@, Since(@)) ELSE Idle]
    /\ UNCHANGED <<db, session, index, sent, told, count>>

\* append_message: one transaction each.
SaveRow ==
    /\ session.on /\ Blocked /\ front.save # <<>>
    /\ db' = Append(db, [message |-> Head(front.save), epoch |-> session.epoch])
    /\ tasks' = [tasks EXCEPT !["front"].save = Tail(@)]
    /\ UNCHANGED <<session, index, sent, told, count>>

Saved ==
    /\ session.on /\ Blocked /\ front.save = <<>>
    /\ tasks' = [tasks EXCEPT !["front"] = Idle]
    /\ UNCHANGED <<db, session, index, sent, told, count>>

----------------------------------------------------------------------------
(* Ctrl+C, and the end of the process. *)

Cancellable == session.on /\ front.kind \in {"ask", "test"} /\ ~Blocked

AfterCancel == IF front.kind = "test" THEN Saving(front, Since(front)) ELSE Idle

\* KeyboardInterrupt: the task is cancelled and awaited.
Interrupt ==
    /\ Cancellable
    /\ tasks' = [tasks EXCEPT !["front"] = AfterCancel]
    /\ UNCHANGED <<db, session, index, sent, told, count>>

\* CancelledError: the shield lets the task go on, and the prompt returns.
Leave ==
    /\ Cancellable /\ tasks["behind"].pc = "idle"
    /\ tasks' = [front |-> AfterCancel, behind |-> front]
    /\ session' = [session EXCEPT !.overlapped = TRUE]
    /\ count' = [count EXCEPT !.left = TRUE]
    /\ UNCHANGED <<db, index, sent, told>>

\* /exit, a crash, or a Ctrl+C nothing shields: every task ends with the process.
Stop ==
    /\ session.on /\ count.stops < MaxStops
    /\ session' = Off /\ tasks' = NoTasks /\ sent' = NoRequest /\ told' = {}
    /\ count' = [count EXCEPT !.stops = @ + 1]
    /\ UNCHANGED <<db, index>>

Messages == [i \in DOMAIN db |-> db[i].message]

CurrentEpoch == IF db = <<>> THEN 0 ELSE CHOOSE e \in {db[i].epoch : i \in DOMAIN db} :
                                             \A i \in DOMAIN db : db[i].epoch <= e

\* `hearth resume`: every row, whatever its epoch; the mode is the one it was made with.
Resume ==
    /\ ~session.on
    /\ session' = [Fresh EXCEPT !.history = Messages, !.epoch = CurrentEpoch]
    /\ told' = ContentOf(Messages)
    /\ UNCHANGED <<db, tasks, index, sent, count>>

Reindex(cost) ==
    /\ cost # index
    /\ index' = cost
    /\ UNCHANGED <<db, session, tasks, sent, told, count>>

----------------------------------------------------------------------------
Next ==
    \/ Ask \/ Workflow("plan", "plan") \/ Workflow("test", "agent") \/ CompactNow
    \/ \E mode \in {"chat", "plan", "agent"} : SwitchMode(mode)
    \/ Clear
    \/ \E s \in Slot :
          \/ SkipCompaction(s) \/ StartCompaction(s) \/ Summarised(s) \/ NotSummarised(s)
          \/ \E costs \in Retrieved : Request(s, costs)
          \/ \E ok \in BOOLEAN : Answer(s, ok)
          \/ Fail(s) \/ EndTurn(s) \/ NextRound(s) \/ EndTests(s)
    \/ SaveRow \/ Saved \/ Interrupt \/ Leave \/ Stop \/ Resume
    \/ \E cost \in MapCosts : Reindex(cost)

Spec == Init /\ [][Next]_vars

----------------------------------------------------------------------------
(* Properties. *)

\* The rows of the session implement a transcript: they are only added to, no message is
\* written twice, whatever was cancelled, compacted or resumed between, and /clear takes
\* them all.  A summary a workflow's own turns were folded into is a row like any other.
\* Once a task has gone on behind the prompt nothing more is promised: it may put an
\* older history back under a workflow that counts its messages from where they began.
Rows == INSTANCE Transcript WITH rows <- IF count.left THEN <<>> ELSE Messages

SavedAsTranscript == Rows!Spec

\* As long as no cancelled task went on behind the prompt, the history accounts for every
\* message the session knows: it is there as it was, or a summary was made from it.
NothingForgotten == session.on /\ ~session.overlapped => told \subseteq ContentOf(session.history)

\* Within an epoch a request begins as the one before it did: the system prompt, the map,
\* and, while the history fits, every message of it in its place.
PrefixStable ==
    [][sent' # sent /\ sent'.epoch = sent.epoch =>
          /\ sent'.mode = sent.mode /\ sent'.map = sent.map
          /\ sent.whole /\ sent'.whole => IsPrefix(sent.history, sent'.history)]_vars

\* What is measured of a request fits beside the output reserve.
FitsWindow == sent # NoRequest => sent.used <= InputBudget

----------------------------------------------------------------------------
(* The inductive invariant behind SavedAsTranscript, NothingForgotten and PrefixStable. *)

Spoken == [role : {"user", "assistant"}, turn : Nat]
Message == Spoken \cup [role : {"summary"}, folds : SUBSET Spoken]

Running ==
    [kind : {"ask", "plan", "test", "compact"},
     pc : {"check", "summarising", "request", "streaming", "ended", "saving"},
     turn : Nat, round : Nat, ok : BOOLEAN, start : Nat, seen : Seq(Message), save : Seq(Message)]

Row == [message : Message, epoch : Nat]

ChatSession ==
    [on : BOOLEAN, history : Seq(Message), epoch : Nat, mode : {"chat", "plan", "agent"},
     map : {NoMap} \cup [epoch : Nat, cost : MapCosts], overlapped : BOOLEAN]

TypeOK ==
    /\ db \in Seq(Row)
    /\ session \in ChatSession
    /\ tasks \in [Slot -> {Idle} \cup Running]
    /\ \A s \in Slot : tasks[s].pc = "summarising" => Cut(tasks[s].seen) > 0
    /\ index \in MapCosts
    /\ told \subseteq Spoken
    /\ count \in [turns : Nat, stops : Nat, left : BOOLEAN]
    /\ ~session.on => tasks = NoTasks /\ sent = NoRequest /\ told = {} /\ ~session.overlapped

\* Rows carry the epochs they were saved in, which never fall.
EpochsRise ==
    /\ \A j \in DOMAIN db : \A i \in 1 .. j : db[i].epoch <= db[j].epoch
    /\ session.on => \A i \in DOMAIN db : db[i].epoch <= session.epoch

\* What the last request was made from is as it was, or grew, while its epoch lasts.
RequestKept ==
    sent # NoRequest =>
        /\ sent.epoch \in Nat /\ sent.epoch <= session.epoch
        /\ sent.whole => sent.history \in Seq(Message)
        /\ sent.epoch = session.epoch =>
             /\ sent.mode = session.mode
             /\ session.map = [epoch |-> sent.epoch, cost |-> sent.map]
             /\ sent.whole => IsPrefix(sent.history, session.history)

\* Without a task behind the prompt, a summary is made from the whole history.
Alone ==
    /\ session.overlapped => count.left
    /\ session.on /\ ~session.overlapped =>
         /\ tasks["behind"] = Idle
         /\ front.pc = "summarising" => front.seen = session.history
         /\ told \subseteq ContentOf(session.history)

\* No two elements of a sequence are the same.
Distinct(s) == \A i, j \in DOMAIN s : s[i] = s[j] => i = j

SummaryFirst(s) == \A i \in DOMAIN s : s[i].role = "summary" => i = 1

Before(s, t) == \A i \in DOMAIN s : s[i].role # "summary" => s[i].turn < t

\* A sequence of messages whose turns were all begun.
Settled(s, turns) == Distinct(s) /\ SummaryFirst(s) /\ Before(s, turns + 1)

\* While a task runs, what it will save is in no row yet.
Unsaved(task, rows, h) ==
    /\ Before(rows, task.turn)
    /\ task.pc # "ended" => Before(h, task.turn)
    /\ task.pc = "ended" /\ task.ok => h # <<>>
    /\ task.kind = "test" =>
         /\ \A i \in DOMAIN h : i > task.start => h[i] \notin ToSet(rows)
         /\ task.start = 0 => rows = <<>>

ToSave(save, rows, h, turns) ==
    /\ Settled(save, turns)
    /\ \A i \in DOMAIN save : save[i] \notin ToSet(rows)
    /\ \A i \in DOMAIN save : save[i].role = "summary" => rows = <<>>
    /\ save # <<>> => h # <<>>

Owed(task, rows, h, turns) ==
    /\ task.kind = "compact" => task.pc \in {"check", "summarising"}
    /\ task.pc \notin {"idle", "saving"} /\ task.kind # "compact" =>
         task.turn = turns /\ Unsaved(task, rows, h)
    /\ task.pc = "saving" => ToSave(task.save, rows, h, turns)

\* The rows are distinct, and so are they with what is still to be saved.
SavingInv ==
    ~count.left =>
        /\ Settled(Messages, count.turns)
        /\ session.on =>
             /\ Settled(session.history, count.turns)
             /\ session.history = <<>> => Messages = <<>>
        /\ Owed(front, Messages, session.history, count.turns)

SessionInv == TypeOK /\ EpochsRise /\ RequestKept /\ Alone /\ SavingInv

=============================================================================
