--------------------------- MODULE CommandClassifier ---------------------------
(***************************************************************************)
(* safety/command_classifier.py, and the facts the tools derive from a     *)
(* call before the policy is asked.                                        *)
(*                                                                         *)
(* A command is what scanning its characters finds; the tables of words    *)
(* behind a segment's facts are not told apart.                            *)
(***************************************************************************)
EXTENDS Policy

CONSTANTS
    Outside, Protected, Own, Sensitive,   \* paths the jail and the invariants know
    EditKey, RunKey, TestKey              \* a path's, an argv's grant keys

ASSUME ClassifierAssumption ==
    /\ Outside \cup Protected \cup Own \cup Sensitive \subseteq Paths
    /\ EditKey \in [Paths -> Keys] /\ RunKey \in [Argvs -> Keys] /\ TestKey \in [Argvs -> Keys]

\* One simple command within a command line.
Segment ==
    [argv : Argvs, destructive : BOOLEAN, network : BOOLEAN, inline : BOOLEAN,
     interop : BOOLEAN, denied : BOOLEAN]

\* `unread`: a NUL byte, too long, or empty.  `unbalanced`: a quote is open at the end.
\* `shell`: a metacharacter, an expansion or a glob stands outside the quotes that
\* would disarm it.  `raw`: one of the patterns over the whole string matches.
Command ==
    [unread : BOOLEAN, unbalanced : BOOLEAN, shell : BOOLEAN, prefixed : BOOLEAN,
     raw : BOOLEAN, segments : Seq(Segment)]

Any(cmd, P(_)) == \E i \in DOMAIN cmd.segments : P(cmd.segments[i])

\* Every segment is looked at, not only the first.
HardDenied(cmd) == cmd.raw \/ Any(cmd, LAMBDA s : s.denied)

Inline(cmd) == Any(cmd, LAMBDA s : s.inline)

Simple(cmd) == ~cmd.shell /\ Len(cmd.segments) = 1 /\ ~Inline(cmd)

\* What could not be parsed has no argv, so that no rule and no grant can match it.
Classify(cmd) ==
    IF cmd.unread \/ cmd.unbalanced
    THEN [refused |-> TRUE, argv |-> None, prefixed |-> FALSE, shell |-> TRUE,
          destructive |-> FALSE, network |-> FALSE, badged |-> TRUE,
          denied |-> ~cmd.unread /\ HardDenied(cmd)]
    ELSE [refused |-> FALSE,
          argv |-> IF Simple(cmd) THEN cmd.segments[1].argv ELSE None,
          prefixed |-> cmd.prefixed,
          shell |-> cmd.shell,
          destructive |-> Any(cmd, LAMBDA s : s.destructive),
          network |-> Any(cmd, LAMBDA s : s.network),
          badged |-> cmd.shell \/ Any(cmd, LAMBDA s : s.destructive \/ s.network
                                                       \/ s.inline \/ s.interop),
          denied |-> HardDenied(cmd)]

----------------------------------------------------------------------------
(* prepare() of the tools, as far as the policy sees it. *)

\* The facts of a call that states none.
NoFacts ==
    [path |-> None, resolved |-> FALSE, inside |-> TRUE, protected |-> FALSE, own |-> FALSE,
     sensitive |-> FALSE, argv |-> None, prefixed |-> FALSE, shell |-> FALSE,
     destructive |-> FALSE, network |-> FALSE, denied |-> FALSE, badged |-> FALSE,
     key |-> None]

Request(tool, risk, facts) == [tool |-> tool, risk |-> risk, facts |-> facts]

\* read_file: the jail refuses credentials.  The path is not among the facts, so that
\* every other read is judged as one inside the workspace, and no path rule covers it.
ReadRequests(p) ==
    IF p \in Sensitive THEN {} ELSE {Request("read_file", "READ", NoFacts)}

\* The tools that change a file share one key for each path.
WriteRequests(tool, p, destructive) ==
    IF p \in Outside \cup Protected \cup Sensitive THEN {}
    ELSE {Request(tool, "WRITE",
            [NoFacts EXCEPT !.path = p, !.resolved = TRUE, !.own = p \in Own,
                            !.destructive = destructive, !.badged = destructive,
                            !.key = EditKey[p]])}

CommandFacts(found, key) ==
    [NoFacts EXCEPT !.argv = found.argv, !.prefixed = found.prefixed, !.shell = found.shell,
                    !.destructive = found.destructive, !.network = found.network,
                    !.denied = found.denied, !.badged = found.badged,
                    !.key = IF found.argv = None THEN None ELSE key[found.argv]]

\* run_command and run_tests: a command that cannot be parsed is the tool's refusal.
CommandRequests(tool, cmd, key) ==
    IF Classify(cmd).refused THEN {}
    ELSE {Request(tool, "EXEC", CommandFacts(Classify(cmd), key))}

\* git_commit is never granted; todo_write touches the session only.
CommitRequest == Request("git_commit", "VCS_WRITE", NoFacts)
TodoRequest == Request("todo_write", "META", NoFacts)

=============================================================================
