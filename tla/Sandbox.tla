-------------------------------- MODULE Sandbox --------------------------------
(***************************************************************************)
(* safety/sandbox/subprocess_runner.py: one command, the process group it  *)
(* starts, the pipe its output comes through, and the ladder of signals    *)
(* that follows a timeout or a cancellation.                               *)
(*                                                                         *)
(* The group is the process Hearth started and one it may have started in  *)
(* turn.  A process resists the first signals of the ladder, or does not.  *)
(***************************************************************************)
EXTENDS Integers, Sequences

VARIABLE proc    \* the run: where the runner is, and what the group is doing

Process == {"leader", "child"}

\* SIGINT, SIGTERM, SIGKILL.
Rungs == 3

\* `level`: the signals sent to the group so far.  `exit`: how the leader ended, by itself or by a signal.
NotRun == [pc |-> "none", alive |-> {}, forked |-> FALSE, holds |-> {},
           resist |-> [p \in Process |-> 0], level |-> 0, exit |-> "none",
           timedout |-> FALSE, cancelled |-> FALSE]

Running == proc.pc \in {"reading", "waiting", "ladder", "grace", "draining"}

----------------------------------------------------------------------------
(* The group. *)

\* _spawn: a session of its own, so that signals reach the group.
Spawned(resist) ==
    [NotRun EXCEPT !.pc = "reading", !.alive = {"leader"}, !.holds = {"leader"}, !.resist = resist]

\* There is no such program, or it may not be run.
NotSpawned == [NotRun EXCEPT !.pc = "done", !.exit = "error"]

\* The child inherits the leader's output.
Fork ==
    /\ Running /\ "leader" \in proc.alive /\ ~proc.forked
    /\ proc' = [proc EXCEPT !.forked = TRUE, !.alive = @ \cup {"child"},
                            !.holds = IF "leader" \in @ THEN @ \cup {"child"} ELSE @]

CloseOutput(p) ==
    /\ p \in proc.holds
    /\ proc' = [proc EXCEPT !.holds = @ \ {p}]

Dead(p, how) ==
    [proc EXCEPT !.alive = @ \ {p}, !.holds = @ \ {p},
                 !.exit = IF p = "leader" THEN how ELSE @]

Exit(p) ==
    /\ p \in proc.alive
    /\ proc' = Dead(p, "code")

\* A signal that was sent, and is not resisted.
Die(p) ==
    /\ p \in proc.alive /\ proc.resist[p] < proc.level
    /\ proc' = Dead(p, "signal")

----------------------------------------------------------------------------
(* The runner. *)

Returned == [proc EXCEPT !.pc = "done"]
Raised == [proc EXCEPT !.pc = "raised"]

\* End of file: nobody holds the pipe any more.
ReadAll ==
    /\ proc.pc = "reading" /\ proc.holds = {}
    /\ proc' = [proc EXCEPT !.pc = "waiting"]

\* There is no limit on this wait.
Waited ==
    /\ proc.pc = "waiting" /\ "leader" \notin proc.alive
    /\ proc' = Returned

Timeout ==
    /\ proc.pc = "reading"
    /\ proc' = [proc EXCEPT !.pc = "ladder", !.timedout = TRUE]

\* The turn was cancelled.  Only while it reads does the runner clean up.
Cancel ==
    /\ Running
    /\ proc' = IF proc.pc = "reading" THEN [proc EXCEPT !.pc = "ladder", !.cancelled = TRUE]
                                      ELSE Raised

\* After the ladder: a cancelled run raises, one that timed out reads on to the end.
AfterLadder == IF proc.cancelled THEN Raised ELSE [proc EXCEPT !.pc = "draining"]

\* A slip: the ladder has no last rung.
TwoRungs(level) == level + 1 = Rungs

LastRung(level) == level = Rungs

\* _terminate_group: nothing is sent, or no more is, once the leader has ended.
Signal ==
    /\ proc.pc = "ladder"
    /\ proc' = IF "leader" \notin proc.alive THEN AfterLadder
               ELSE [proc EXCEPT !.pc = "grace", !.level = @ + 1]

LeaderGone ==
    /\ proc.pc = "grace" /\ "leader" \notin proc.alive
    /\ proc' = AfterLadder

\* The grace is over: the next rung, or no more waiting after the last.
GraceOver ==
    /\ proc.pc = "grace"
    /\ proc' = IF LastRung(proc.level) THEN AfterLadder ELSE [proc EXCEPT !.pc = "ladder"]

\* What was read so far is not returned before the pipe is closed by everyone.
Drained ==
    /\ proc.pc = "draining" /\ proc.holds = {}
    /\ proc' = Returned

----------------------------------------------------------------------------
GroupSteps ==
    \/ Fork
    \/ \E p \in Process : CloseOutput(p) \/ Exit(p) \/ Die(p)

RunnerSteps == ReadAll \/ Waited \/ Timeout \/ Signal \/ LeaderGone \/ GraceOver \/ Drained

=============================================================================
