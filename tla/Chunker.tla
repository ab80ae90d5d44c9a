------------------------------- MODULE Chunker -------------------------------
(***************************************************************************)
(* indexing/chunker.py: how one file is cut into the chunks that retrieval *)
(* may return.  Markdown is cut at headings, a data file at its top-level  *)
(* keys, a parsed file along its tree, everything else by a sliding window.*)
(*                                                                         *)
(* A file is a sequence of lines.  A parsed file also has a tree: node n   *)
(* starts on line n, its header, and spans the lines n to last[n].  One    *)
(* line that is not blank weighs one token.                                *)
(***************************************************************************)
EXTENDS Naturals, Sequences, FiniteSets

CONSTANTS
    WindowLines, Overlap, LookAhead,    \* _WINDOW_LINES, _WINDOW_OVERLAP_LINES, look_ahead
    Target, SoftMax, HardMax,           \* TARGET_TOKENS, SOFT_MAX_TOKENS, HARD_MAX_TOKENS
    StructuredMin,                      \* STRUCTURED_MIN_TOKENS
    None,                               \* no stretch
    Files                               \* bound: the files that are cut

Language == {"markdown", "data", "code"}
Line == {"text", "blank", "head"}

\* What a tree node is: a definition with a body, a decorated or exported one (its
\* own node has no body field), a plain statement, a statement with a body.
NodeType == {"class", "function", "wrapped", "stmt", "loop"}

Laminar(last) ==
    \A n \in DOMAIN last :
        /\ n <= last[n] /\ last[n] <= Len(last)
        /\ \A m \in n .. last[n] : last[m] <= last[n]

WellFormed(f) ==
    /\ f.language \in Language
    /\ f.lines \in Seq(Line)
    /\ f.type \in Seq(NodeType) /\ f.last \in Seq(Nat)
    /\ Len(f.type) = Len(f.last) /\ Len(f.last) \in {0, Len(f.lines)}
    /\ Laminar(f.last)
    /\ \A n \in DOMAIN f.last : f.lines[n] = "text"

ASSUME ChunkerAssumption ==
    /\ Overlap \in Nat /\ LookAhead \in Nat /\ WindowLines \in Nat
    /\ Overlap < WindowLines
    /\ Target \in Nat /\ SoftMax \in Nat /\ HardMax \in Nat /\ StructuredMin \in Nat
    /\ None \notin [from : Nat, to : Nat, lead : Nat]
    /\ \A f \in Files : WellFormed(f)

VARIABLES
    file,        \* the file being cut
    pc,          \* "start", "tree", "window" or "done"
    chunks,      \* what has been cut so far
    queue,       \* stretches of lines still to be windowed
    span,        \* the one being windowed, or None
    at,          \* the window loop's index in it
    stack        \* the tree walk: a frame for each node being split, innermost first

vars == <<file, pc, chunks, queue, span, at, stack>>

\* `first` and `last` are the lines a chunk claims, `holds` those whose text it has.
Chunk ==
    [kind : {"section", "preamble", "window", "node", "group", "skeleton"},
     first : Nat, last : Nat, holds : SUBSET Nat]

Init ==
    /\ file \in Files
    /\ pc = "start" /\ chunks = {} /\ queue = {} /\ span = None /\ at = 0 /\ stack = <<>>

----------------------------------------------------------------------------
(* Lines. *)

Blank(i) == file.lines[i] = "blank"
FileLines == 1 .. Len(file.lines)
Nonblank(ls) == {i \in ls : ~Blank(i)}
Weight(ls) == Cardinality(Nonblank(ls))

\* The stretch a..b without its blank ends: what `strip` leaves of a body.
Stripped(a, b) ==
    {i \in a .. b : \E j, k \in Nonblank(a .. b) : j <= i /\ i <= k}

\* The lines that begin a section, and the last line of the section begun on s.
Heads == {i \in FileLines : file.lines[i] = "head"}
EndOf(s, starts) ==
    CHOOSE e \in s .. Len(file.lines) :
        /\ e = Len(file.lines) \/ e + 1 \in starts
        /\ \A i \in s + 1 .. e : i \notin starts

Section(kind, s, starts) ==
    [kind |-> kind, first |-> s, last |-> EndOf(s, starts), holds |-> Stripped(s, EndOf(s, starts))]

----------------------------------------------------------------------------
(* Windows. *)

\* A stretch of lines; its windows claim line numbers that are `lead` too small.
Stretch(a, b, lead) == [from |-> a, to |-> b, lead |-> lead]

Least(S) == CHOOSE x \in S : \A y \in S : x <= y

\* The end is moved forward to the next blank line before `top`, if one is near.
Extended(end, top) ==
    LET near == {c \in end .. end + LookAhead - 1 : c < top /\ Blank(c)}
    IN  IF near = {} THEN end ELSE Least(near)

\* The first line after the window that begins on i.
WindowEnd(i, s) ==
    Extended(IF i + WindowLines < s.to + 1 THEN i + WindowLines ELSE s.to + 1, s.to + 1)

\* A slip: the line after the window is claimed as well.
WindowChunkOneMore(i, s) ==
    [kind |-> "window", first |-> i - s.lead, last |-> WindowEnd(i, s) - s.lead,
     holds |-> i .. WindowEnd(i, s) - 1]

WindowChunk(i, s) ==
    [kind |-> "window", first |-> i - s.lead, last |-> WindowEnd(i, s) - 1 - s.lead,
     holds |-> i .. WindowEnd(i, s) - 1]

NextIndex(i, s) ==
    IF WindowEnd(i, s) > i + Overlap + 1 THEN WindowEnd(i, s) - Overlap ELSE i + 1

\* _split_oversized takes one section after another; the order is not told apart.
TakeStretch ==
    /\ pc = "window" /\ span = None /\ queue # {}
    /\ \E s \in queue : span' = s /\ at' = s.from /\ queue' = queue \ {s}
    /\ UNCHANGED <<file, pc, chunks, stack>>

\* One pass of the loop in _chunk_windows.
Window ==
    /\ pc = "window" /\ span # None
    /\ chunks' = IF Nonblank(at .. WindowEnd(at, span) - 1) = {} THEN chunks
                 ELSE chunks \cup {WindowChunk(at, span)}
    /\ IF WindowEnd(at, span) > span.to
       THEN span' = None /\ UNCHANGED at
       ELSE at' = NextIndex(at, span) /\ UNCHANGED span
    /\ UNCHANGED <<file, pc, queue, stack>>

Windowed ==
    /\ pc = "window" /\ span = None /\ queue = {}
    /\ pc' = "done"
    /\ UNCHANGED <<file, chunks, queue, span, at, stack>>

WholeFile == IF file.lines = <<>> THEN {} ELSE {Stretch(1, Len(file.lines), 0)}

\* The last resort of chunk_file.
UseWindows ==
    /\ pc' = "window" /\ queue' = WholeFile
    /\ UNCHANGED <<file, chunks, span, at, stack>>

----------------------------------------------------------------------------
(* Markdown and data files. *)

\* Sections of a markdown file; the lines before the first heading are one as well.
Sections ==
    IF file.lines = <<>> THEN {}
    ELSE {c \in {Section("section", s, {1} \cup Heads) : s \in {1} \cup Heads} : c.holds # {}}

Oversized(c) == Weight(c.holds) > HardMax

\* An oversized section is windowed without its blank ends, but its windows are
\* numbered from the line it began on.
ToSplit(c) ==
    LET a == Least(c.holds) IN Stretch(a, a + Cardinality(c.holds) - 1, a - c.first)

CutMarkdown ==
    /\ pc = "start" /\ file.language = "markdown"
    /\ chunks' = {c \in Sections : ~Oversized(c)}
    /\ queue' = {ToSplit(c) : c \in {k \in Sections : Oversized(k)}}
    /\ pc' = "window"
    /\ UNCHANGED <<file, span, at, stack>>

\* A slip: the lines before the first section belong to none and are dropped.
NoPreamble == {Section("section", s, Heads) : s \in Heads}

\* chunk_structured: the top-level sections, and what comes before the first.
DataSections ==
    LET preamble == IF 1 \in Heads THEN {} ELSE {Section("preamble", 1, {1} \cup Heads)}
    IN  {c \in preamble \cup {Section("section", s, Heads) : s \in Heads} : c.holds # {}}

Structured ==
    /\ file.language = "data"
    /\ Weight(FileLines) >= StructuredMin
    /\ Cardinality(Heads) >= 2

CutData ==
    /\ pc = "start" /\ Structured
    /\ chunks' = DataSections
    /\ pc' = "done"
    /\ UNCHANGED <<file, queue, span, at, stack>>

\* No grammar, or a tree that could not be used.
CutPlain ==
    /\ pc = "start" /\ file.language # "markdown" /\ ~Structured
    /\ file.last = <<>>
    /\ UseWindows

----------------------------------------------------------------------------
(* The tree. *)

Nodes == DOMAIN file.last
Span(n) == n .. file.last[n]
Size(n) == file.last[n] - n + 1

\* The outermost nodes among those that start on the lines a..b.
Outermost(a, b) == {m \in a .. b \cap Nodes : \A k \in a .. m - 1 : file.last[k] < m}

\* The members of a node's body, none where the node has no body field.
Members(n) ==
    IF file.type[n] \in {"class", "function", "loop"} THEN Outermost(n + 1, file.last[n]) ELSE {}

IsDefinition(n) == file.type[n] \in {"class", "function", "wrapped"}

NodeChunk(n) == [kind |-> "node", first |-> n, last |-> file.last[n], holds |-> Span(n)]

\* A class's header and its members' signatures.
Skeleton(n) ==
    [kind |-> "skeleton", first |-> n, last |-> file.last[n], holds |-> {n} \cup Members(n)]

\* A run of siblings from a to b, with all that lies between them.
GroupChunk(a, b) ==
    [kind |-> "group", first |-> a, last |-> file.last[b], holds |-> a .. file.last[b]]

\* A frame: the siblings not looked at yet, and the group being gathered.
Frame(left, top) == [left |-> left, group |-> {}, top |-> top]

CutTree ==
    /\ pc = "start" /\ file.language = "code" /\ file.last # <<>>
    /\ pc' = "tree"
    /\ stack' = <<Frame(Outermost(1, Len(file.last)), TRUE)>>
    /\ UNCHANGED <<file, chunks, queue, span, at>>

This == Head(stack)
Coming == Least(This.left)
Last(S) == CHOOSE x \in S : \A y \in S : y <= x
GroupSize(S) == Cardinality(UNION {Span(n) : n \in S})

\* A slip: the group is measured without the sibling that is to join it.
ClosedTooLate ==
    This.left # {} =>
        \/ This.group # {} /\ GroupSize(This.group) > Target
        \/ This.top /\ IsDefinition(Coming)

\* Nothing may join the group: no sibling is left, the next would make it too large,
\* or at the top level the next is a definition.
Closed ==
    This.left # {} =>
        \/ This.group # {} /\ GroupSize(This.group) + Size(Coming) > Target
        \/ This.top /\ IsDefinition(Coming)

Join ==
    /\ pc = "tree" /\ stack # <<>> /\ This.left # {} /\ ~Closed
    /\ stack' = <<[This EXCEPT !.left = @ \ {Coming}, !.group = @ \cup {Coming}]>> \o Tail(stack)
    /\ UNCHANGED <<file, pc, chunks, queue, span, at>>

\* _chunk_definition: whole when it is small or has no members to split into.
Splits(n) == Size(n) > SoftMax /\ Members(n) # {}

Define(n, rest) ==
    IF Splits(n)
    THEN /\ chunks' = IF file.type[n] = "class" THEN chunks \cup {Skeleton(n)} ELSE chunks
         /\ stack' = <<Frame(Members(n), FALSE)>> \o rest
    ELSE /\ chunks' = chunks \cup {NodeChunk(n)}
         /\ stack' = rest

\* A group of one oversized member is split in its turn.
Close ==
    /\ pc = "tree" /\ stack # <<>> /\ This.group # {} /\ Closed
    /\ LET rest == <<[This EXCEPT !.group = {}]>> \o Tail(stack)
       IN  IF ~This.top /\ \E n \in This.group : This.group = {n} /\ Size(n) > SoftMax
           THEN Define(Least(This.group), rest)
           ELSE /\ chunks' = chunks \cup {GroupChunk(Least(This.group), Last(This.group))}
                /\ stack' = rest
    /\ UNCHANGED <<file, pc, queue, span, at>>

\* A definition at the top level.
TakeDefinition ==
    /\ pc = "tree" /\ stack # <<>> /\ This.group = {}
    /\ This.left # {} /\ This.top /\ IsDefinition(Coming)
    /\ Define(Coming, <<[This EXCEPT !.left = @ \ {Coming}]>> \o Tail(stack))
    /\ UNCHANGED <<file, pc, queue, span, at>>

Leave ==
    /\ pc = "tree" /\ stack # <<>> /\ This.left = {} /\ This.group = {}
    /\ stack' = Tail(stack)
    /\ UNCHANGED <<file, pc, chunks, queue, span, at>>

\* The module's skeleton of imports and signatures comes first; it claims the whole
\* file and is left out.
TreeCut ==
    /\ pc = "tree" /\ stack = <<>>
    /\ pc' = "done"
    /\ UNCHANGED <<file, chunks, queue, span, at, stack>>

Done == pc = "done" /\ UNCHANGED vars

----------------------------------------------------------------------------
Next ==
    \/ CutMarkdown \/ CutData \/ CutPlain \/ TakeStretch \/ Window \/ Windowed
    \/ CutTree \/ Join \/ Close \/ TakeDefinition \/ Leave \/ TreeCut
    \/ Done

Spec == Init /\ [][Next]_vars

----------------------------------------------------------------------------
(* Properties. *)

Whole == {c \in chunks : c.kind # "skeleton"}

TypeOK ==
    /\ WellFormed(file)
    /\ pc \in {"start", "tree", "window", "done"}
    /\ chunks \subseteq Chunk
    /\ queue \subseteq [from : Nat, to : Nat, lead : Nat]
    /\ span \in [from : Nat, to : Nat, lead : Nat] \cup {None}
    /\ at \in Nat
    /\ stack \in Seq([left : SUBSET Nat, group : SUBSET Nat, top : BOOLEAN])

\* A file loses no line: what is not blank can be retrieved from some chunk, whatever
\* strategy was taken.  Only the header of a node that was split is not among the
\* chunks of its body.
EveryLineKept ==
    pc = "done" =>
        \A i \in Nonblank(FileLines) :
            \/ \E c \in Whole : i \in c.holds
            \/ i \in Nodes /\ Splits(i)

\* A citation resolves: the lines a chunk claims are lines of the file, and its text
\* is theirs.  The exception is a markdown file that begins with blank lines and a
\* section too large for one chunk: its windows are numbered from line one.
CitationsHold ==
    \A c \in chunks :
        /\ 1 <= c.first /\ c.last <= Len(file.lines)
        /\ c.holds \subseteq c.first .. c.last \/ (file.language = "markdown" /\ Blank(1))

----------------------------------------------------------------------------
(* The inductive invariant behind EveryLineKept and CitationsHold: a line not in a *)
(* chunk yet is on the way into one, and what is still to be cut lies in the file. *)

Held == UNION {c.holds : c \in Whole}

\* Lines that some stretch still to be windowed contains.
AheadOfWindows ==
    (UNION {s.from .. s.to : s \in queue}) \cup (IF span = None THEN {} ELSE at .. span.to)

\* Lines below the siblings of the frames.
AheadOfTree == UNION {UNION {Span(n) : n \in stack[k].left \cup stack[k].group} : k \in DOMAIN stack}

\* Windows are numbered as the lines they hold are, or, in one case, too low.
InFile(s) ==
    /\ s.lead < s.from /\ s.from <= s.to /\ s.to <= Len(file.lines)
    /\ s.lead = 0 \/ (file.language = "markdown" /\ Blank(1))

\* Siblings follow one another, and those gathered come first.
Siblings(S) == \A m, n \in S : m < n => file.last[m] < n

Ahead ==
    CASE pc = "start" -> FileLines
      [] pc = "window" -> AheadOfWindows
      [] pc = "tree" -> AheadOfTree
      [] OTHER -> {}

\* A strategy uses only what is its own.
Apart ==
    /\ pc # "window" => queue = {} /\ span = None
    /\ pc # "tree" => stack = <<>>
    /\ pc = "tree" => file.last # <<>>

StretchesInFile ==
    /\ \A s \in queue : InFile(s)
    /\ span # None => InFile(span) /\ span.from <= at /\ at <= span.to

FramesInTree ==
    \A k \in DOMAIN stack :
        /\ stack[k].left \cup stack[k].group \subseteq Nodes
        /\ Siblings(stack[k].left \cup stack[k].group)

NoLineLost ==
    \A i \in Nonblank(FileLines) : i \in Held \cup Ahead \/ (i \in Nodes /\ Splits(i))

ChunkInv == TypeOK /\ CitationsHold /\ Apart /\ StretchesInFile /\ FramesInTree /\ NoLineLost

=============================================================================
