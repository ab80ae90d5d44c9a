------------------------------ MODULE ModelReply ------------------------------
(***************************************************************************)
(* What a model's reply becomes: the stream of chunks is gathered          *)
(* (core/agent_loop.py, llm/ollama_provider.py) and read for tool calls    *)
(* (llm/tool_call_parser.py).  Calls the server has parsed come first; in  *)
(* their absence the text is searched with three patterns in turn.  A reply*)
(* without a call is the answer and ends the turn.                         *)
(*                                                                         *)
(* A text is a sequence of marks; an object of JSON is one mark.           *)
(***************************************************************************)
EXTENDS Places

CONSTANTS
    Known,       \* the tools that are registered
    Unknown,     \* a name that is not
    ReplyTexts,  \* bound: the texts of replies
    NativeCalls  \* bound: the calls the server parsed, chunk by chunk

\* A call on one line, or laid out over several; an object that names no tool; an object
\* cut short behind its name.
CallMark == [layout : {"line", "tall"}, tool : Known \cup {Unknown}]
Data == [layout |-> "line"]
Half == [layout |-> "cut"]
Signs == {"tag", "endtag", "fence", "newline", "word"}
Sign(s) == [sign |-> s]
ReplyMark == CallMark \cup {Data, Half} \cup {Sign(s) : s \in Signs}

ASSUME ReplyAssumption ==
    /\ Unknown \notin Known
    /\ ReplyTexts \subseteq Seq(ReplyMark) /\ NativeCalls \subseteq Seq(Seq(Known \cup {Unknown}))

Is(m, s) == m = Sign(s)
Opens(m) == "layout" \in DOMAIN m
Complete(m) == Opens(m) /\ m # Half
IsCall(m) == "tool" \in DOMAIN m

VARIABLES
    reply,       \* what the model sends
    arrived,     \* chunks that have arrived
    native,      \* their calls, each with the id the provider gives it
    phase,       \* "streaming", "reading", "calls", "answer", "raised"
    pattern,     \* the pattern tried next
    malformed,   \* matches that were no JSON
    calls        \* the calls found

replyVars == <<reply, arrived, native, phase, pattern, malformed, calls>>

Patterns == <<"tagged", "fenced", "bare">>

ReplyInit ==
    /\ reply \in [text : ReplyTexts, native : NativeCalls]
    /\ arrived = 0 /\ native = <<>> /\ phase = "streaming"
    /\ pattern = 1 /\ malformed = 0 /\ calls = <<>>

----------------------------------------------------------------------------
(* The stream.  How the text is cut into chunks makes no difference, only which  *)
(* calls share a chunk: their ids are numbered within it.                        *)

Batch(n) == [k \in DOMAIN reply.native[n] |-> [id |-> <<"native", k>>, tool |-> reply.native[n][k]]]

Receive ==
    /\ phase = "streaming" /\ arrived < Len(reply.native)
    /\ arrived' = arrived + 1 /\ native' = native \o Batch(arrived + 1)
    /\ UNCHANGED <<reply, phase, pattern, malformed, calls>>

\* The exception passes through run: nothing of the reply is kept.
StreamFails ==
    /\ phase = "streaming" /\ phase' = "raised"
    /\ UNCHANGED <<reply, arrived, native, pattern, malformed, calls>>

StreamEnds ==
    /\ phase = "streaming" /\ arrived = Len(reply.native)
    /\ \/ native # <<>> /\ calls' = native /\ phase' = "calls"
       \/ native = <<>> /\ calls' = calls /\ phase' = "reading"
    /\ UNCHANGED <<reply, arrived, native, pattern, malformed>>

----------------------------------------------------------------------------
(* The patterns, as the marks from..to that a match takes for its object. *)

\* The first place from i on that is no line break.
SkipBreaks(t, i) == Sets!Min({j \in i .. Len(t) + 1 : j > Len(t) \/ ~Is(t[j], "newline")})

\* Braces with the closing sign right behind them.
Ends(t, from, close) ==
    {to \in from .. Len(t) :
        Complete(t[to]) /\ LET j == SkipBreaks(t, to + 1) IN j <= Len(t) /\ Is(t[j], close)}

\* A slip: the longest match.
Longest(tos) == Sets!Max(tos)

Shortest(tos) == Sets!Min(tos)

\* An object that begins right behind the opening sign at i, up to the first such brace.
Enclosed(t, i, open, close) ==
    LET from == SkipBreaks(t, i + 1)
    IN  IF Is(t[i], open) /\ from <= Len(t) /\ Opens(t[from]) /\ Ends(t, from, close) # {}
          THEN LET to == Shortest(Ends(t, from, close))
               IN  {[from |-> from, to |-> to, next |-> SkipBreaks(t, to + 1) + 1]}
          ELSE {}

\* The longest match: an object that begins a line and names a tool on it, up to the last
\* brace that ends a line.
LineStart(t, i) == i = 1 \/ Is(t[i - 1], "newline")
\* An object over several lines has a brace at the end of one of them in any case.
LineEnd(t, i) == i = Len(t) \/ Is(t[i + 1], "newline") \/ (Opens(t[i]) /\ t[i].layout = "tall")
\* Objects that name a tool on the line that begins at i.
NamedOn(t, i) ==
    {j \in i .. Len(t) :
        /\ t[j] = Half \/ (IsCall(t[j]) /\ t[j].layout = "line")
        /\ \A k \in i .. j - 1 : ~Is(t[k], "newline") /\ (Opens(t[k]) => t[k].layout # "tall")}

Bare(t, i) ==
    LET from == SkipBreaks(t, i)
        tos == {to \in from .. Len(t) :
                  Complete(t[to]) /\ LineEnd(t, to) /\ \E j \in NamedOn(t, from) : j <= to}
    IN  IF LineStart(t, i) /\ from <= Len(t) /\ Opens(t[from]) /\ tos # {}
          THEN {[from |-> from, to |-> Sets!Max(tos), next |-> Sets!Max(tos) + 1]}
          ELSE {}

MatchAt(name, t, i) ==
    CASE name = "tagged" -> Enclosed(t, i, "tag", "endtag")
      [] name = "fenced" -> Enclosed(t, i, "fence", "fence")
      [] name = "bare" -> Bare(t, i)

\* finditer: matches from left to right that do not overlap.
Matches(name, t) ==
    LET found[i \in 0 .. Len(t)] ==
          IF i = 0 THEN {}
          ELSE LET past == found[i - 1]
               IN  past \cup IF \A m \in past : m.next <= i THEN MatchAt(name, t, i) ELSE {}
    IN  found[Len(t)]

\* One object is JSON; what lies between two of them is not.
IsJson(m) == m.from = m.to
ToolNamed(t, m) == IsJson(m) /\ IsCall(t[m.from]) /\ t[m.from].tool \in Known

\* _extract; each call has an id of its own.
Extracted(t, name) ==
    LET marks == Taken(t, {m.from : m \in {one \in Matches(name, t) : ToolNamed(t, one)}})
    IN  [k \in DOMAIN marks |-> [id |-> <<"text", k>>, tool |-> marks[k].tool]]
Malformed(t, name) == Cardinality({m \in Matches(name, t) : ~IsJson(m)})

\* A pattern that finds a call ends the search; what others would find is not looked for.
Try ==
    /\ phase = "reading" /\ pattern <= Len(Patterns)
    /\ LET found == Extracted(reply.text, Patterns[pattern])
       IN  IF found # <<>>
             THEN calls' = found /\ phase' = "calls" /\ UNCHANGED <<pattern, malformed>>
             ELSE /\ pattern' = pattern + 1
                  /\ malformed' = malformed + Malformed(reply.text, Patterns[pattern])
                  /\ UNCHANGED <<calls, phase>>
    /\ UNCHANGED <<reply, arrived, native>>

\* What was malformed is counted and not used: the text as it stands is the answer.
Answer ==
    /\ phase = "reading" /\ pattern > Len(Patterns) /\ phase' = "answer"
    /\ UNCHANGED <<reply, arrived, native, pattern, malformed, calls>>

ReplyNext == Receive \/ StreamFails \/ StreamEnds \/ Try \/ Answer

ReplySpec == ReplyInit /\ [][ReplyNext]_replyVars

----------------------------------------------------------------------------
(* Properties. *)

Tools == [k \in DOMAIN calls |-> calls[k].tool]
\* The registered tools called at these places, in their order.
CalledAt(t, places) ==
    LET marks == Taken(t, {i \in places \cap DOMAIN t : IsCall(t[i]) /\ t[i].tool \in Known})
    IN  [k \in DOMAIN marks |-> marks[k].tool]

\* The next mark that is no line break.
Behind(t, i) == SkipBreaks(t, i + 1)
Signed(t, s) == {i \in DOMAIN t : Is(t[i], s)}
\* The sign at i is followed by one object and then by another sign.
Encloses(t, i, close) ==
    /\ Behind(t, i) <= Len(t) /\ Complete(t[Behind(t, i)])
    /\ Behind(t, Behind(t, i)) \in Signed(t, close)

\* Each tag encloses one object; fences come in pairs, and an object right behind a fence
\* is all that its pair encloses.
First(t, i) == Cardinality({j \in Signed(t, "fence") : j <= i}) % 2 = 1
WellTagged(t) == \A i \in Signed(t, "tag") : Encloses(t, i, "endtag")
WellFenced(t) ==
    \A i \in Signed(t, "fence") :
        Behind(t, i) <= Len(t) /\ Opens(t[Behind(t, i)]) => First(t, i) /\ Encloses(t, i, "fence")

TaggedTools(t) == CalledAt(t, {Behind(t, i) : i \in Signed(t, "tag")})
FencedTools(t) == CalledAt(t, {Behind(t, i) : i \in {j \in Signed(t, "fence") : First(t, j)}})
\* A single object, alone on its line.
LoneTool(t) ==
    LET objects == {i \in DOMAIN t : Opens(t[i])}
    IN  CalledAt(t, {i \in objects :
            objects = {i} /\ t[i].layout = "line" /\ LineStart(t, i) /\ LineEnd(t, i)})

\* Text runs a tool only where it marks a call, and every call it marks well is run, in
\* the order of the text: the tagged ones, else those in fences, else one alone on its
\* line.  Calls the server has parsed are taken as they are, and then text runs nothing.
MarkedCallsRun ==
    LET t == reply.text
    IN  /\ phase = "calls" /\ native # <<>> => calls = native
        /\ phase = "calls" /\ native = <<>> =>
             /\ \A k \in DOMAIN calls : calls[k].tool \in Known
             /\ pattern = 1 /\ WellTagged(t) => Tools = TaggedTools(t)
             /\ pattern = 2 /\ WellFenced(t) => Tools = FencedTools(t)
             /\ pattern = 3 => Len(calls) = 1
        /\ phase = "answer" =>
             /\ WellTagged(t) => TaggedTools(t) = <<>>
             /\ WellFenced(t) => FencedTools(t) = <<>>
             /\ LoneTool(t) = <<>>

=============================================================================
