----------------------------- MODULE MCPermissions -----------------------------
(* Small instances of Permissions for TLC. *)
EXTENDS Permissions

CONSTANTS src, lock, meta, pytest, rm

MCEditKey == [p \in Paths |-> <<"edit", p>>]
MCRunKey == [a \in Argvs |-> <<"run", a>>]
MCTestKey == [a \in Argvs |-> <<"test", a>>]
MCKeys == {MCEditKey[p] : p \in Paths} \cup {MCRunKey[a] : a \in Argvs} \cup {MCTestKey[a] : a \in Argvs}

Plain(a) == [argv |-> a, destructive |-> FALSE, network |-> FALSE, inline |-> FALSE,
             interop |-> FALSE, denied |-> FALSE]
Removal == [Plain(rm) EXCEPT !.destructive = TRUE]

Line(segments) == [unread |-> FALSE, unbalanced |-> FALSE, shell |-> FALSE, prefixed |-> FALSE,
                   raw |-> FALSE, segments |-> segments]

\* `pytest`; `X=1 pytest`; `pytest; rm -rf .`; `rm -rf .`; `pytest && sudo ...`; an open quote.
MCCommands ==
    {Line(<<Plain(pytest)>>),
     [Line(<<Plain(pytest)>>) EXCEPT !.prefixed = TRUE],
     [Line(<<Plain(pytest), Removal>>) EXCEPT !.shell = TRUE],
     Line(<<Removal>>),
     [Line(<<Plain(pytest), [Plain(rm) EXCEPT !.denied = TRUE]>>) EXCEPT !.shell = TRUE],
     [Line(<<Plain(pytest)>>) EXCEPT !.unbalanced = TRUE]}

MCRequests ==
    UNION {ReadRequests(p) : p \in Paths}
        \cup UNION {WriteRequests("write_file", p, FALSE) : p \in Paths}
        \cup WriteRequests("delete_file", src, TRUE)
        \cup UNION {CommandRequests("run_command", c, RunKey) : c \in MCCommands}
        \cup CommandRequests("run_tests", Line(<<Plain(pytest)>>), TestKey)
        \cup {CommitRequest, TodoRequest}

RuleOf(effect, tools, paths, argvs, source) ==
    [effect |-> effect, tools |-> tools, paths |-> paths, argvs |-> argvs, env |-> FALSE,
     source |-> source]

AnyPath == Paths \cup {None}
AnyArgv == Argvs \cup {None}

MCUserRules ==
    {{},
     {RuleOf("allow", {"run_command"}, AnyPath, {pytest}, "global"),
      RuleOf("deny", {"write_file", "delete_file"}, {lock}, AnyArgv, "global")},
     {RuleOf("ask", {"read_file"}, AnyPath, AnyArgv, "global"),
      RuleOf("allow", {"write_file", "delete_file"}, {src}, AnyArgv, "global")}}

MCProjectRules ==
    {{RuleOf("allow", Tools, AnyPath, AnyArgv, "project"),
      RuleOf("deny", {"delete_file"}, AnyPath, AnyArgv, "project")}}

MCPlans == {{src}, {src, lock, meta}}

=============================================================================
