------------------------------- MODULE Workflows -------------------------------
(***************************************************************************)
(* /test or /commit, once: what workflows/test_writer.py and workflows/    *)
(* commit.py do around the model, through the gateway, with the run_tests  *)
(* and git_commit tools and the runner of commands.                        *)
(***************************************************************************)
EXTENDS Sandbox, FiniteSets

CONSTANTS
    TestFiles,       \* the test files of the tree, in their order
    MaxRounds,       \* MAX_FIX_ITERATIONS + 1
    MaxFilesRun,     \* MAX_FILES_RUN
    Diffs, NoDiff,   \* what may be staged, and nothing
    Resistances,     \* how the processes of a command resist signals
    MaxEdits         \* bound: changes by others

ASSUME WorkflowsAssumption ==
    /\ TestFiles \in Seq({TestFiles[k] : k \in DOMAIN TestFiles})
    /\ MaxRounds \in Nat \ {0} /\ MaxFilesRun \in Nat \ {0}
    /\ NoDiff \notin Diffs
    /\ Resistances \subseteq [Process -> 0 .. Rungs - 1]

VARIABLES
    job,         \* the workflow at the prompt
    text,        \* what each test file holds: 0, or something newer
    staged,      \* git's index against HEAD
    commit,      \* what was committed last
    moved,       \* history: the index changed after it was checked
    ran,         \* history: what the run of each file said in this round
    edits        \* changes by others so far

jobVars == <<proc, job, text, staged, commit, moved, ran, edits>>

Files == {TestFiles[k] : k \in DOMAIN TestFiles}

NotRan == [f \in Files |-> "none"]

Prompt == [kind |-> "none", pc |-> "prompt", status |-> "none"]

JobInit ==
    /\ proc = NotRun /\ job = Prompt
    /\ text = [f \in Files |-> 0] /\ staged \in Diffs \cup {NoDiff} /\ commit = NoDiff
    /\ moved = FALSE /\ ran = NotRan /\ edits = 0

At(kind, pc) == job.kind = kind /\ job.pc = pc

Goto(pc) == job' = [job EXCEPT !.pc = pc]

End(status) == [job EXCEPT !.pc = "over", !.status = status]

----------------------------------------------------------------------------
(* /test. *)

StartTest ==
    /\ job = Prompt
    /\ job' = [kind |-> "test", pc |-> "turn", status |-> "none", round |-> 1,
               before |-> text, queue |-> {}, ok |-> TRUE]
    /\ ran' = NotRan
    /\ UNCHANGED <<proc, text, staged, commit, moved, edits>>

\* changed_test_files: the places of those new or different since the workflow began.
Changed(before) == {k \in DOMAIN TestFiles : text[TestFiles[k]] # before[TestFiles[k]]}

FirstFew(S) == {k \in S : Cardinality({j \in S : j < k}) < MaxFilesRun}

Foremost(S) == CHOOSE k \in S : \A j \in S : k <= j

\* The model's turn, however it ended, wrote what it wrote.
Turn(written) ==
    /\ At("test", "turn")
    /\ text' = written
    /\ Goto("look")
    /\ UNCHANGED <<proc, staged, commit, moved, ran, edits>>

Look ==
    /\ At("test", "look")
    /\ job' = IF Changed(job.before) = {} THEN End("no_tests_written")
              ELSE [job EXCEPT !.pc = "ask", !.queue = FirstFew(Changed(job.before)), !.ok = TRUE]
    /\ UNCHANGED <<proc, text, staged, commit, moved, ran, edits>>

\* run_tests is asked about like any command.
Declined ==
    /\ At("test", "ask") /\ job.queue # {}
    /\ job' = End("tests_not_run")
    /\ UNCHANGED <<proc, text, staged, commit, moved, ran, edits>>

RunFile(started) ==
    /\ At("test", "ask") /\ job.queue # {}
    /\ proc' = started
    /\ Goto("run")
    /\ UNCHANGED <<text, staged, commit, moved, ran, edits>>

Summary == {"passed", "failed", "empty", "unreadable"}

\* What the output of a run may look like: that of one that never started says nothing.
SummaryOf(exit) == IF exit = "error" THEN {"unreadable"} ELSE Summary

\* A slip: a file nothing was collected from is as good as one that passed.
EmptyIsOk(summary) == summary \in {"passed", "empty"}

\* It passed when its output was read and something in it ran and nothing failed; the
\* exit code and the timeout are not looked at.
FileOk(summary) == summary = "passed"

HasRun(summary) ==
    /\ At("test", "run") /\ proc.pc = "done"
    /\ summary \in SummaryOf(proc.exit)
    /\ proc' = NotRun
    /\ ran' = [ran EXCEPT ![TestFiles[Foremost(job.queue)]] = summary]
    /\ job' = [job EXCEPT !.pc = "ask", !.queue = @ \ {Foremost(@)}, !.ok = @ /\ FileOk(summary)]
    /\ UNCHANGED <<text, staged, commit, moved, edits>>

Judge ==
    /\ At("test", "ask") /\ job.queue = {}
    /\ job' = IF job.ok THEN End("passed")
              ELSE IF job.round = MaxRounds THEN End("failed")
              ELSE [job EXCEPT !.pc = "turn", !.round = @ + 1]
    /\ ran' = IF job'.pc = "turn" THEN NotRan ELSE ran
    /\ UNCHANGED <<proc, text, staged, commit, moved, edits>>

----------------------------------------------------------------------------
(* /commit. *)

\* prepare_commit: with nothing staged it goes no further.
StartCommit ==
    /\ job = Prompt
    /\ job' = [kind |-> "commit", pc |-> IF staged = NoDiff THEN "over" ELSE "message",
               status |-> IF staged = NoDiff THEN "refused" ELSE "none", shown |-> NoDiff]
    /\ UNCHANGED <<proc, text, staged, commit, moved, ran, edits>>

\* The model words the message, or returns nothing; then the tool prepares on its own.
PrepareCommit ==
    /\ At("commit", "message")
    /\ job' = IF staged = NoDiff THEN End("failed")
              ELSE [job EXCEPT !.pc = "ask", !.shown = staged]
    /\ UNCHANGED <<proc, text, staged, commit, moved, ran, edits>>

NoMessage ==
    /\ At("commit", "message")
    /\ job' = End("failed")
    /\ UNCHANGED <<proc, text, staged, commit, moved, ran, edits>>

RejectCommit ==
    /\ At("commit", "ask")
    /\ job' = End("rejected")
    /\ UNCHANGED <<proc, text, staged, commit, moved, ran, edits>>

ApproveCommit ==
    /\ At("commit", "ask")
    /\ Goto("check")
    /\ UNCHANGED <<proc, text, staged, commit, moved, ran, edits>>

\* A slip: it is enough that something is staged.
SomethingStaged == staged # NoDiff

AsShown == staged = job.shown

\* execute reads the staged diff again before it commits.
CheckStaged ==
    /\ At("commit", "check")
    /\ job' = IF AsShown THEN [job EXCEPT !.pc = "git"] ELSE End("failed")
    /\ moved' = FALSE
    /\ UNCHANGED <<proc, text, staged, commit, ran, edits>>

\* git commit with the project's hooks.
GitCommits ==
    /\ At("commit", "git") /\ staged # NoDiff
    /\ commit' = staged /\ staged' = NoDiff
    /\ Goto("made")
    /\ UNCHANGED <<proc, text, moved, ran, edits>>

\* A hook refuses, or it takes too long.
GitFails ==
    /\ At("commit", "git")
    /\ job' = End("failed")
    /\ UNCHANGED <<proc, text, staged, commit, moved, ran, edits>>

\* The commit is made; the hooks after it may still take too long.
GitEnds(status) ==
    /\ At("commit", "made")
    /\ job' = End(status)
    /\ UNCHANGED <<proc, text, staged, commit, moved, ran, edits>>

----------------------------------------------------------------------------
(* Ctrl+C, and what others do. *)

\* The task is cancelled where it waits: for the model, for an answer, or for a command,
\* and then the job is over when the call has raised.  A task the prompt merely left goes
\* on as if nothing had happened.
Interrupt ==
    /\ job.pc \in {"turn", "message", "ask"}
    /\ job' = End("cancelled")
    /\ UNCHANGED <<proc, text, staged, commit, moved, ran, edits>>

InterruptRun ==
    /\ At("test", "run") /\ Cancel
    /\ UNCHANGED <<job, text, staged, commit, moved, ran, edits>>

RunRaised ==
    /\ At("test", "run") /\ proc.pc = "raised"
    /\ job' = End("cancelled")
    /\ UNCHANGED <<proc, text, staged, commit, moved, ran, edits>>

Stage(d) ==
    /\ edits < MaxEdits /\ d # staged
    /\ staged' = d /\ moved' = TRUE /\ edits' = edits + 1
    /\ UNCHANGED <<proc, job, text, commit, ran>>

EditTest(f, c) ==
    /\ edits < MaxEdits /\ c # text[f]
    /\ text' = [text EXCEPT ![f] = c] /\ edits' = edits + 1
    /\ UNCHANGED <<proc, job, staged, commit, moved, ran>>

Group == GroupSteps /\ UNCHANGED <<job, text, staged, commit, moved, ran, edits>>
Runner == RunnerSteps /\ UNCHANGED <<job, text, staged, commit, moved, ran, edits>>

----------------------------------------------------------------------------
JobNext ==
    \/ StartTest \/ \E written \in [Files -> 0 .. 1] : Turn(written)
    \/ Look \/ Declined \/ RunFile(NotSpawned)
    \/ \E resist \in Resistances : RunFile(Spawned(resist))
    \/ \E summary \in Summary : HasRun(summary)
    \/ Judge
    \/ StartCommit \/ PrepareCommit \/ NoMessage \/ RejectCommit \/ ApproveCommit \/ CheckStaged
    \/ GitCommits \/ GitFails \/ \E status \in {"committed", "failed"} : GitEnds(status)
    \/ Interrupt \/ InterruptRun \/ RunRaised
    \/ \E d \in Diffs \cup {NoDiff} : Stage(d)
    \/ \E f \in Files, c \in 0 .. 1 : EditTest(f, c)
    \/ Group \/ Runner

JobSpec == JobInit /\ [][JobNext]_jobVars

\* The runner's clocks go on, and what is killed dies.
FairSpec ==
    JobSpec /\ WF_jobVars(Runner)
         /\ \A p \in Process : WF_jobVars(Die(p) /\ UNCHANGED <<job, text, staged, commit, moved, ran, edits>>)

----------------------------------------------------------------------------
(* Properties. *)

\* /test says "passed" only of a round in which every file it has to run was run, its
\* output was read, something in it was collected, and nothing failed.
PassedMeansRun ==
    job.kind = "test" /\ job.status = "passed" =>
        /\ \E f \in Files : ran[f] = "passed"
        /\ \A f \in Files : ran[f] \in {"passed", "none"}

\* A commit is exactly what the panel showed, unless the index changed in the moment
\* between the last look at it and git's own.
CommitsWhatWasShown == [][commit' # commit => commit' = job.shown \/ moved]_jobVars

\* Somebody keeps the output open whom the ladder did not reach, or the output is closed
\* and the process goes on: then nothing ends the wait.
Held ==
    \/ proc.pc = "draining" /\ "child" \in proc.holds
    \/ proc.pc = "waiting" /\ "leader" \in proc.alive

\* Every command comes to an end, by itself or at its timeout, however it resists the
\* signals, unless it is held.
CommandEnds == Running ~> (~Running \/ Held)

\* When a run is over nothing of its process group is left.
NoOrphans == proc.pc \in {"done", "raised"} => proc.alive = {}

-----------------------------------------------------------------------------
(* The inductive invariant behind PassedMeansRun and CommitsWhatWasShown. *)

TestJob ==
    [kind : {"test"}, pc : {"turn", "look", "ask", "run", "over"},
     status : {"none", "no_tests_written", "tests_not_run", "passed", "failed", "cancelled"},
     round : 1 .. MaxRounds, before : [Files -> 0 .. 1], queue : SUBSET DOMAIN TestFiles,
     ok : BOOLEAN]

CommitJob ==
    [kind : {"commit"}, pc : {"message", "ask", "check", "git", "made", "over"},
     status : {"none", "refused", "rejected", "failed", "committed", "cancelled"},
     shown : Diffs \cup {NoDiff}]

JobTypeOK ==
    /\ job \in {Prompt} \cup TestJob \cup CommitJob
    /\ text \in [Files -> 0 .. 1] /\ staged \in Diffs \cup {NoDiff}
    /\ ran \in [Files -> Summary \cup {"none"}]

\* A round begins with no file run; as long as all is well only passing runs were seen,
\* and when nothing is left to run there was one.
RoundInv ==
    job.kind = "test" =>
        /\ job.pc \in {"turn", "look"} => ran = NotRan
        /\ job.pc = "run" => job.queue # {}
        /\ job.pc \in {"ask", "run"} /\ job.ok =>
             /\ \A f \in Files : ran[f] \in {"passed", "none"}
             /\ job.queue = {} => \E f \in Files : ran[f] = "passed"
        /\ job.status = "passed" => job.pc = "over"

\* What git is going to commit was compared with what was shown.
Compared == At("commit", "git") => staged = job.shown \/ moved

JobInv == JobTypeOK /\ RoundInv /\ Compared /\ PassedMeansRun

=============================================================================
