------------------------------ MODULE EditEngine ------------------------------
(***************************************************************************)
(* tools/edit_engine.py, and what edit_file and multi_edit make of it: the *)
(* bytes of a file are decoded, each edit of the request is matched by the *)
(* first strategy that finds anything and spliced in back to front, and the*)
(* text is encoded the way the file was.                                   *)
(*                                                                         *)
(* A text is a sequence of marks: words, spaces and line ends.             *)
(***************************************************************************)
EXTENDS Places

CONSTANTS
    Word,            \* what is not white space
    Sp, NL, CR,      \* a space, the two line-end bytes
    BOM, Nul,        \* a byte order mark, a byte no text file has
    Raws,            \* bound: the files that are edited
    EditLists        \* bound: the edits that are asked for together

Mark == Word \cup {Sp, NL, CR, BOM, Nul}

\* An edit: the text to replace (the schema of the arguments refuses an empty one), its
\* replacement, and whether every match is replaced or the only one.
Edit == [old : Seq(Mark) \ {<<>>}, new : Seq(Mark), all : BOOLEAN]

ASSUME EditAssumption ==
    /\ Cardinality({Sp, NL, CR, BOM, Nul}) = 5 /\ Word \cap {Sp, NL, CR, BOM, Nul} = {}
    /\ Raws \subseteq Seq(Mark) /\ EditLists \subseteq Seq(Edit) \ {<<>>}

\* What edit_file and multi_edit are called with.
Requests ==
    {r \in [raw : Raws, multi : BOOLEAN, edits : EditLists] : r.multi \/ Len(r.edits) = 1}

VARIABLES
    request,     \* the file as it was read, the edits asked for, and by which tool
    stage,       \* "asked", "matching", "splicing", "spliced", "written", "refused"
    text,        \* the text so far, with one mark for a line end
    left,        \* the edits still to be applied, the current one first
    strategy,    \* which strategy is tried: exact, normalized, indent
    before,      \* the text when the current edit was matched
    spans,       \* where it matched
    todo,        \* the matches not replaced yet
    written      \* the new bytes of the file

editVars == <<request, stage, text, left, strategy, before, spans, todo, written>>

EditInit ==
    /\ request \in Requests /\ stage = "asked" /\ left = request.edits
    /\ text = <<>> /\ before = <<>> /\ written = <<>>
    /\ strategy = 1 /\ spans = <<>> /\ todo = <<>>

----------------------------------------------------------------------------
(* How a file is encoded. *)

PairsIn(s) == {i \in 1 .. Len(s) - 1 : s[i] = CR /\ s[i + 1] = NL}
Count(s, m) == Cardinality({i \in DOMAIN s : s[i] = m})

\* dominant_line_ending
LineEnding(s) ==
    LET crlf == Cardinality(PairsIn(s))
        lf == Count(s, NL) - crlf
        cr == Count(s, CR) - crlf
    IN  IF crlf >= lf /\ crlf >= cr /\ crlf > 0 THEN <<CR, NL>>
        ELSE IF cr > lf THEN <<CR>> ELSE <<NL>>

HasBom(s) == s # <<>> /\ s[1] = BOM
Form(s) == [bom |-> HasBom(s), ending |-> LineEnding(s)]

\* One line end for each of the three; the codec drops a mark, and decode another.
Decode(s) ==
    LET drop == IF ~HasBom(s) THEN 0 ELSE IF HasBom(Tail(s)) THEN 2 ELSE 1
        Read(i) == IF i <= drop \/ i - 1 \in PairsIn(s) THEN <<>>
                   ELSE IF s[i] = CR THEN <<NL>> ELSE <<s[i]>>
    IN  Seqs!FlattenSeq([i \in DOMAIN s |-> Read(i)])

WithEnding(t, ending) ==
    Seqs!FlattenSeq([i \in DOMAIN t |-> IF t[i] = NL THEN ending ELSE <<t[i]>>])

\* A slip: the byte order mark is not put back.
EncodePlain(t, form) == WithEnding(t, form.ending)

Encode(t, form) == (IF form.bom THEN <<BOM>> ELSE <<>>) \o WithEnding(t, form.ending)

----------------------------------------------------------------------------
(* Lines. *)

\* Where the lines of a text begin, and the mark after the line that begins at i.
Starts(t) == {1} \cup {i + 1 : i \in {j \in DOMAIN t : t[j] = NL}}
PastLine(t, i) == Sets!Min({j \in i .. Len(t) + 1 : j = Len(t) + 1 \/ t[j] = NL})
StartsOf(t) == Ascending(Starts(t))
Lines(t) == LET at == StartsOf(t) IN [k \in DOMAIN at |-> SubSeq(t, at[k], PastLine(t, at[k]) - 1)]

\* The lines looked for: an empty one after the last line end does not count.
NeedleLines(old) == LET ls == Lines(old) IN IF Seqs!Last(ls) = <<>> THEN Seqs!Front(ls) ELSE ls

Ink(line) == {i \in DOMAIN line : line[i] \notin {Sp, CR}}
TrimRight(line) == IF Ink(line) = {} THEN <<>> ELSE SubSeq(line, 1, Sets!Max(Ink(line)))
IndentOf(line) == IF Ink(line) = {} THEN line ELSE SubSeq(line, 1, Sets!Min(Ink(line)) - 1)
Trimmed(line) == IF Ink(line) = {} THEN <<>> ELSE SubSeq(line, Sets!Min(Ink(line)), Sets!Max(Ink(line)))

----------------------------------------------------------------------------
(* The strategies.  Each finds spans from .. to - 1, in order. *)

\* str.find, again after each match.
MatchExact(t, old) ==
    LET found[i \in 0 .. Len(t)] ==
          IF i = 0 THEN <<>>
          ELSE IF /\ i + Len(old) <= Len(t) + 1 /\ SubSeq(t, i, i + Len(old) - 1) = old
                  /\ found[i - 1] # <<>> => Seqs!Last(found[i - 1]).to <= i
               THEN Append(found[i - 1], [from |-> i, to |-> i + Len(old)])
               ELSE found[i - 1]
    IN  found[Len(t)]

\* Windows of whole lines, overlapping ones too, that Agree with the lines looked for.
MatchLines(t, old, Agree(_, _)) ==
    LET lines == Lines(t)
        needle == NeedleLines(old)
        Window(k) == SubSeq(lines, k, k + Len(needle) - 1)
        hits == {k \in 1 .. Len(lines) - Len(needle) + 1 : needle # <<>> /\ Agree(Window(k), needle)}
        SpanOf(k) == [from |-> StartsOf(t)[k], to |-> PastLine(t, StartsOf(t)[k + Len(needle) - 1])]
    IN  [n \in DOMAIN Ascending(hits) |-> SpanOf(Ascending(hits)[n])]

SameButTail(ls, needle) == \A k \in DOMAIN needle : TrimRight(ls[k]) = TrimRight(needle[k])

\* The same words, each line indented alike against the first.
SameButDepth(ls, needle) ==
    \A k \in DOMAIN needle :
        /\ Trimmed(ls[k]) = Trimmed(needle[k])
        /\ Len(IndentOf(ls[k])) - Len(IndentOf(ls[1])) = Len(IndentOf(needle[k])) - Len(IndentOf(needle[1]))

SpansOf(n, t, old) ==
    CASE n = 1 -> MatchExact(t, old)
      [] n = 2 -> MatchLines(t, old, SameButTail)
      [] OTHER -> MatchLines(t, old, SameButDepth)

----------------------------------------------------------------------------
(* Splicing. *)

\* The replacement at the depth of what it replaces; a blank line gets no indent.
Reindented(new, old, matched) ==
    LET oldBase == IndentOf(Lines(old)[1])
        base == IndentOf(Lines(matched)[1])
        Extra(indent) == IF Seqs!IsPrefix(oldBase, indent) THEN SubSeq(indent, Len(oldBase) + 1, Len(indent)) ELSE <<>>
        Moved(line) == IF Trimmed(line) = <<>> THEN <<>>
                       ELSE base \o Extra(IndentOf(line)) \o SubSeq(line, Len(IndentOf(line)) + 1, Len(line))
        lines == Lines(new)
    IN  Seqs!FlattenSeq([k \in DOMAIN lines |-> (IF k = 1 THEN <<>> ELSE <<NL>>) \o Moved(lines[k])])

Matched(s) == SubSeq(before, s.from, s.to - 1)

ReplacementFor(edit, s) ==
    IF strategy = 3 THEN Reindented(edit.new, edit.old, Matched(s)) ELSE edit.new

Replaced(t, s, by) == SubSeq(t, 1, s.from - 1) \o by \o SubSeq(t, s.to, Len(t))

----------------------------------------------------------------------------
(* The steps. *)

Refuse == stage' = "refused" /\ UNCHANGED <<request, text, left, strategy, before, spans, todo, written>>

\* A file that looks binary is refused.
Open ==
    /\ stage = "asked"
    /\ IF Count(request.raw, Nul) > 0
       THEN Refuse
       ELSE /\ stage' = "matching" /\ text' = Decode(request.raw)
            /\ UNCHANGED <<request, left, strategy, before, spans, todo, written>>

ThisEdit == Head(left)
Found == SpansOf(strategy, text, ThisEdit.old)
Pointless == ThisEdit.old = ThisEdit.new
Ambiguous == Len(Found) > 1 /\ ~ThisEdit.all

RefuseEdit ==
    /\ stage = "matching"
    /\ Pointless \/ Ambiguous \/ (Found = <<>> /\ strategy = 3)
    /\ Refuse

NextStrategy ==
    /\ stage = "matching" /\ ~Pointless
    /\ Found = <<>> /\ strategy < 3
    /\ strategy' = strategy + 1
    /\ UNCHANGED <<request, stage, text, left, before, spans, todo, written>>

Match ==
    /\ stage = "matching" /\ ~Pointless
    /\ Found # <<>> /\ ~Ambiguous
    /\ spans' = Found /\ todo' = Found
    /\ before' = text /\ stage' = "splicing"
    /\ UNCHANGED <<request, text, left, strategy, written>>

\* A slip: the matches are replaced front to back.
SpliceForward ==
    /\ stage = "splicing" /\ todo # <<>>
    /\ text' = Replaced(text, Head(todo), ReplacementFor(ThisEdit, Head(todo)))
    /\ todo' = Tail(todo)
    /\ stage' = IF todo' = <<>> THEN "spliced" ELSE stage
    /\ UNCHANGED <<request, left, strategy, before, spans, written>>

\* Back to front, so that a replacement moves no match that is still to be replaced.
Splice ==
    /\ stage = "splicing" /\ todo # <<>>
    /\ text' = Replaced(text, Seqs!Last(todo), ReplacementFor(ThisEdit, Seqs!Last(todo)))
    /\ todo' = Seqs!Front(todo)
    /\ stage' = IF todo' = <<>> THEN "spliced" ELSE stage
    /\ UNCHANGED <<request, left, strategy, before, spans, written>>

NextEdit ==
    /\ stage = "spliced" /\ Len(left) > 1
    /\ left' = Tail(left) /\ strategy' = 1 /\ stage' = "matching"
    /\ UNCHANGED <<request, text, before, spans, todo, written>>

\* After the last edit; several edits that leave the text as it was are refused.
Write ==
    /\ stage = "spliced" /\ Len(left) = 1
    /\ IF request.multi /\ text = Decode(request.raw)
       THEN Refuse
       ELSE /\ stage' = "written" /\ written' = Encode(text, Form(request.raw))
            /\ UNCHANGED <<request, text, left, strategy, before, spans, todo>>

EditNext ==
    \/ Open \/ RefuseEdit \/ NextStrategy \/ Match \/ Splice \/ NextEdit \/ Write

EditSpec == EditInit /\ [][EditNext]_editVars

----------------------------------------------------------------------------
(* Properties. *)

EditTypeOK ==
    /\ request \in Requests
    /\ stage \in {"asked", "matching", "splicing", "spliced", "written", "refused"}
    /\ text \in Seq(Mark) /\ before \in Seq(Mark) /\ written \in Seq(Mark)
    /\ left \in Seq(Edit) /\ strategy \in 1 .. 3
    /\ {spans, todo} \subseteq Seq([from : Nat, to : Nat]) /\ Seqs!IsPrefix(todo, spans)

\* What the edit ought to have made of the text when the spans N are replaced: each where
\* it stands, every other mark kept.
Expected(N) ==
    LET covered == UNION {spans[n].from .. spans[n].to - 1 : n \in N}
        at(i) == {n \in N : spans[n].from = i}
        put(i) == IF at(i) = {} THEN <<>> ELSE ReplacementFor(ThisEdit, spans[CHOOSE n \in at(i) : TRUE])
        kept(i) == IF i > Len(before) \/ i \in covered THEN <<>> ELSE <<before[i]>>
    IN  Seqs!FlattenSeq([i \in 1 .. Len(before) + 1 |-> put(i) \o kept(i)])

Overlapping == \E m, n \in DOMAIN spans : m < n /\ spans[n].from < spans[m].to

\* The text asked for, or its lines but for white space at their ends.
Alike(s, old) ==
    \/ s = old
    \/ LET ls == Lines(s)  needle == NeedleLines(old)
       IN  Len(ls) = Len(needle) /\ \A k \in DOMAIN ls : Trimmed(ls[k]) = Trimmed(needle[k])

\* An edit lands where its text stands and nowhere else: what is replaced is what was
\* asked for, up to the white space of its lines, and every other mark of the file is
\* kept.  The exception is replacing all of several matches that share lines.
EditLandsOnItsText ==
    stage = "spliced" =>
        /\ \A n \in DOMAIN spans : Alike(Matched(spans[n]), ThisEdit.old)
        /\ ~Overlapping => text = Expected(DOMAIN spans)

\* All line ends are of one kind, and a byte order mark only comes first.
Uniform(s) ==
    /\ \/ \A i \in DOMAIN s : s[i] # CR
       \/ \A i \in DOMAIN s : s[i] # NL
       \/ \A i \in DOMAIN s : (s[i] = CR => i \in PairsIn(s)) /\ (s[i] = NL => i - 1 \in PairsIn(s))
    /\ \A i \in DOMAIN s : s[i] = BOM => i = 1

\* Replacements of words, spaces and line feeds.
PlainEdits == \A n \in DOMAIN request.edits : request.edits[n].new \in Seq(Mark \ {CR, BOM})

\* The bytes written are the text that was previewed, in the file's own form: read again
\* they give that text, and where line ends were of one kind they stay so, the mark is
\* kept, and decoding and encoding alone would have changed no byte.  The exception is a
\* text that begins with a mark, as only a file with marks further on can have one.
WrittenAsPreviewed ==
    stage = "written" /\ PlainEdits =>
        /\ ~HasBom(text) => Decode(written) = text
        /\ Uniform(request.raw) =>
             /\ ~HasBom(text) /\ Uniform(written) /\ HasBom(written) = HasBom(request.raw)
             /\ Encode(Decode(request.raw), Form(request.raw)) = request.raw

----------------------------------------------------------------------------
(* The inductive invariants behind both.  For the bytes: what an edit is made of holds   *)
(* only line feeds, and a splice finds its place.                                        *)

\* The edits still to come are of the request.
LeftOfRequest ==
    /\ \A n \in DOMAIN left : \E m \in DOMAIN request.edits : left[n] = request.edits[m]
    /\ left # <<>>

\* Matches follow one another in the text.
MatchesFollow ==
    stage \in {"splicing", "spliced"} =>
        \A n \in DOMAIN spans :
            /\ 1 <= spans[n].from /\ spans[n].from <= spans[n].to /\ spans[n].to <= Len(before) + 1
            /\ \A m \in 1 .. n - 1 : spans[m].from < spans[n].from

\* The text before the matches still to be replaced is there.
RoomToSplice ==
    /\ stage = "splicing" => todo # <<>> /\ Len(text) >= Seqs!Last(todo).from - 1
    /\ stage = "spliced" => todo = <<>>

\* Of the text and what was matched.
OnlyLineFeeds ==
    stage \in {"matching", "splicing", "spliced", "written"} /\ PlainEdits =>
        LET marks == IF Uniform(request.raw) THEN Mark \ {CR, BOM} ELSE Mark \ {CR}
        IN  text \in Seq(marks) /\ (stage = "splicing" => before \in Seq(marks))

PreviewInv ==
    EditTypeOK /\ LeftOfRequest /\ MatchesFollow /\ RoomToSplice /\ OnlyLineFeeds /\ WrittenAsPreviewed

(* For the place: each match is what was asked for, and the last ones are replaced.     *)

MatchesStand ==
    stage \in {"splicing", "spliced"} => \A n \in DOMAIN spans : Alike(Matched(spans[n]), ThisEdit.old)

SplicedSoFar ==
    stage \in {"splicing", "spliced"} /\ ~Overlapping => text = Expected(Len(todo) + 1 .. Len(spans))

LandInv == PreviewInv /\ MatchesStand /\ SplicedSoFar

=============================================================================
