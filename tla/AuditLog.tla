------------------------------- MODULE AuditLog -------------------------------
(***************************************************************************)
(* safety/audit.py: several processes append records to the file of the    *)
(* month, one write to a line; a process may be killed and a disk may fill *)
(* in the middle of one.  read_records reads a month back and skips what it*)
(* cannot parse.                                                           *)
(*                                                                         *)
(* A file is the sequence of its lines as the reader splits it, the last   *)
(* one still open.  A line is a sequence of pieces of records.             *)
(***************************************************************************)
EXTENDS Integers, Sequences, FiniteSets

CONSTANTS
    Writers,       \* processes of Hearth
    MaxRecords,    \* bound: records made
    MaxMonth,      \* bound: months that begin
    MaxTorn        \* bound: writes that stop half-way

ASSUME AuditAssumption == MaxRecords \in Nat /\ MaxMonth \in Nat \ {0} /\ MaxTorn \in Nat

\* What is written: text that stays on one line; text with a character that the reader,
\* and only the reader, takes for a line end; text that UTF-8 cannot encode.
TextKinds == {"plain", "broken", "lone"}

VARIABLES
    month,      \* the month it is
    book,       \* the file of each month
    writing,    \* what each process is about to append, with the month of its stamp
    made,       \* the text of each record made so far
    told,       \* for each record: what write came to
    torn        \* records whose write stopped half-way

auditVars == <<month, book, writing, made, told, torn>>

Months == 1 .. MaxMonth
Records == 1 .. MaxRecords
Made == DOMAIN made
Nothing == [record |-> 0, month |-> 0]

AuditInit ==
    /\ month = 1 /\ book = [m \in Months |-> << <<>> >>]
    /\ writing = [w \in Writers |-> Nothing]
    /\ made = <<>> /\ told = <<>> /\ torn = {}

----------------------------------------------------------------------------
(* A record as the reader sees it. *)

Piece(r, part) == [record |-> r, part |-> part]

\* The lines a record's text makes, the last one open.
TextOf(r) ==
    IF made[r] = "broken" THEN << <<Piece(r, "head")>>, <<Piece(r, "tail")>> >>
                          ELSE << <<Piece(r, "all")>> >>
\* A slip: the line end is forgotten.
Unended(r) == TextOf(r)

LineOf(r) == Append(TextOf(r), <<>>)

\* What a write that stops half-way leaves: nothing, a piece, or all but the line end.
Fragments(r) == {<< <<>> >>, << <<Piece(r, "cut")>> >>, TextOf(r)}

\* O_APPEND: the text goes behind whatever is there, in one piece.
Appended(file, text) ==
    [file EXCEPT ![Len(file)] = @ \o text[1]] \o Tail(text)

----------------------------------------------------------------------------
(* Writing. *)

Told(r, what) == told' = [told EXCEPT ![r] = what]
Free(w) == writing' = [writing EXCEPT ![w] = Nothing]

\* to_json stamps the record; path_for looks at the clock again, so the file is that of
\* the month in which the line is appended.
Stamp(w, text) ==
    /\ writing[w] = Nothing /\ Len(made) < MaxRecords
    /\ made' = Append(made, text) /\ told' = Append(told, "pending")
    /\ writing' = [writing EXCEPT ![w] = [record |-> Len(made) + 1, month |-> month]]
    /\ UNCHANGED <<month, book, torn>>

Encodable(r) == made[r] # "lone"

\* The encoding error is no OSError: it passes through write and through the call.
EncodingFails(w) ==
    /\ writing[w] # Nothing /\ ~Encodable(writing[w].record)
    /\ Told(writing[w].record, "raised") /\ Free(w)
    /\ UNCHANGED <<month, book, made, torn>>

\* The line is appended; a failing fsync is reported as a failed write all the same.
AppendLine(w) ==
    LET r == writing[w].record
    IN  /\ writing[w] # Nothing /\ Encodable(r)
        /\ book' = [book EXCEPT ![month] = Appended(@, LineOf(r))]
        /\ \E what \in {"written", "failed"} : Told(r, what)
        /\ Free(w) /\ UNCHANGED <<month, made, torn>>

OpenFails(w) ==
    /\ writing[w] # Nothing
    /\ Told(writing[w].record, "failed") /\ Free(w)
    /\ UNCHANGED <<month, book, made, torn>>

\* The process dies in the write, or the disk is full: os.write then returns how much it
\* wrote, which nobody looks at.
WriteStops(w) ==
    LET r == writing[w].record
    IN  /\ writing[w] # Nothing /\ Encodable(r) /\ Cardinality(torn) < MaxTorn
        /\ \E text \in Fragments(r) : book' = [book EXCEPT ![month] = Appended(@, text)]
        /\ \E what \in {"written", "pending"} : Told(r, what)
        /\ torn' = torn \cup {r}
        /\ Free(w) /\ UNCHANGED <<month, made>>

NewMonth == month < MaxMonth /\ month' = month + 1 /\ UNCHANGED <<book, writing, made, told, torn>>

AuditNext ==
    \/ NewMonth
    \/ \E w \in Writers :
         \/ \E text \in TextKinds : Stamp(w, text)
         \/ EncodingFails(w) \/ AppendLine(w) \/ OpenFails(w) \/ WriteStops(w)

AuditSpec == AuditInit /\ [][AuditNext]_auditVars

----------------------------------------------------------------------------
(* Reading. *)

\* A line is parsed only if one whole record is all it holds.
Parsed(line) == Len(line) = 1 /\ line[1].part = "all"

\* The lines of a month's file that are yielded, and the record of each.
ReadRecords(m) == {k \in DOMAIN book[m] : Parsed(book[m][k])}
RecordOf(m, k) == book[m][k][1].record

----------------------------------------------------------------------------
(* Properties. *)

Readable == {r \in Made : told[r] = "written" /\ made[r] = "plain" /\ r \notin torn}
ReadBack == UNION {{RecordOf(m, k) : k \in ReadRecords(m)} : m \in Months}

\* A line that was torn costs at most one record besides its own: the one appended to it.
\* All others that were written are read back, whoever wrote in between, each of them once
\* and only in one month.
TornLineCostsOne ==
    /\ Cardinality(Readable \ ReadBack) <= Cardinality(torn)
    /\ \A m, n \in Months : \A j \in ReadRecords(m), k \in ReadRecords(n) :
         <<m, j>> # <<n, k>> => RecordOf(m, j) # RecordOf(n, k)

----------------------------------------------------------------------------
(* The inductive invariant behind TornLineCostsOne. *)

Part == {"all", "head", "tail", "cut"}

AuditTypeOK ==
    /\ month \in Months
    /\ made \in Seq(TextKinds)
    /\ told \in Seq({"pending", "written", "failed", "raised"}) /\ Len(told) = Len(made)
    /\ writing \in [Writers -> {Nothing} \cup [record : Made, month : Months]]
    /\ book \in [Months -> Seq(Seq([record : Made, part : Part]))]
    /\ \A m \in Months : book[m] # <<>>
    /\ torn \subseteq Made

\* A place: a month, a line of its file and a piece of that line.
Places == UNION {UNION {{<<m, k, i>> : i \in DOMAIN book[m][k]} : k \in DOMAIN book[m]} : m \in Months}
PieceAt(p) == book[p[1]][p[2]][p[3]]

\* What ends a line: its last piece, once another line follows.
Closes(p) == p[2] < Len(book[p[1]]) /\ p[3] = Len(book[p[1]][p[2]])

\* What a process holds is held by no other, and none of it is written yet.
Unwritten ==
    \A w \in Writers : writing[w] # Nothing =>
        /\ writing[w].record \notin torn /\ told[writing[w].record] = "pending"
        /\ \A v \in Writers : writing[v] # Nothing /\ v # w => writing[v].record # writing[w].record
        /\ \A p \in Places : PieceAt(p).record # writing[w].record

IsHead(p) == PieceAt(p).part = "head"

\* A record is in one place, or in two when a line ends inside it.
WrittenOnce ==
    \A p, q \in Places : PieceAt(p).record = PieceAt(q).record /\ (IsHead(p) <=> IsHead(q)) => p = q

\* What does not end its line was torn.
TornInside == \A p \in Places : ~Closes(p) => PieceAt(p).record \in torn /\ ~IsHead(p)

\* What was written and not torn ends a line.
ReadableEnds == \A r \in Readable : \E p \in Places : Closes(p) /\ PieceAt(p) = Piece(r, "all")

AuditInv == AuditTypeOK /\ Unwritten /\ WrittenOnce /\ TornInside /\ ReadableEnds

=============================================================================
