------------------------------- MODULE Documents -------------------------------
(***************************************************************************)
(* workflows/docs.py: /doc gathers facts from the index, asks the model for*)
(* an overview and for the role of each component, cleans what it says,    *)
(* renders a template, verifies the result and offers it for writing.      *)
(*                                                                         *)
(* What the model says is a sequence of marks, a document a sequence of    *)
(* lines.                                                                  *)
(***************************************************************************)
EXTENDS Places

CONSTANTS
    Alphabet,      \* the names of directories, modules and symbols, in their order
    Projects,      \* bound: the source files the index holds, see SourceFile
    NonSource,     \* directories that hold no components, such as tests
    Overviews,     \* bound: what the model says of the project
    Roles,         \* bound: what it says of a component
    MaxOverview,   \* MAX_OVERVIEW_CHARS, in marks
    MaxRole        \* MAX_ROLE_CHARS, in marks

\* A fence; what makes a line a heading; a list's bullet; a full stop; two braces; and two
\* marks the cleaning does not know, a line under a heading and a fence of tildes.
ProseMark == {"word", "stop", "newline", "fence", "hash", "bullet", "brace", "rule", "tilde"}
Kinds == {"architecture", "readme", "api"}

\* `init` is an __init__.py; the symbols are those of the top level.
SourceFile(f) ==
    /\ DOMAIN f = {"dirs", "stem", "init", "defines", "public", "refers"}
    /\ f.dirs \in Seq(Seqs!ToSet(Alphabet)) /\ f.stem \in Seqs!ToSet(Alphabet) /\ f.init \in BOOLEAN
    /\ f.public \subseteq f.defines

ASSUME DocumentAssumption ==
    /\ \A p \in Projects : IsFiniteSet(p) /\ \A f \in p : SourceFile(f)
    /\ Alphabet \in Seq(Seqs!ToSet(Alphabet)) /\ Seqs!ToSet(Alphabet) \cap {"overview", "other"} = {}
    /\ Overviews \subseteq Seq(ProseMark) /\ Roles \subseteq Seq(ProseMark)
    /\ MaxOverview \in Nat \ {0} /\ MaxRole \in Nat \ {0}

VARIABLES
    kind,        \* the document asked for
    project,     \* the source files the index holds
    docStage,    \* "asked", "overview", "roles", "checked", or how the command ended
    unasked,     \* the components whose role is still to be asked for
    overview,    \* what the document says of the project
    roles,       \* and of each component
    document     \* the lines of the document

docVars == <<kind, project, docStage, unasked, overview, roles, document>>

DocInit ==
    /\ kind \in Kinds /\ project \in Projects /\ docStage = "asked"
    /\ unasked = <<>> /\ overview = <<>> /\ roles = <<>> /\ document = <<>>

----------------------------------------------------------------------------
(* Facts. *)

Sources(files) == {f \in files : \A d \in DOMAIN f.dirs : f.dirs[d] \notin NonSource}
Under(files, dir) == {f \in files : Seqs!IsPrefix(dir, f.dirs)}
Direct(files, dir) == {f \in files : f.dirs = dir /\ ~f.init}
Subdirs(files, dir) == {f.dirs[Len(dir) + 1] : f \in {f \in Under(files, dir) : f.dirs # dir}}

\* The first directory that branches or holds a file itself.
Root(files) ==
    LET one(dir) == Direct(files, dir) = {} /\ Cardinality(Subdirs(files, dir)) = 1
        deep == UNION {{SubSeq(f.dirs, 1, n) : n \in 0 .. Len(f.dirs)} : f \in files}
    IN  CHOOSE dir \in deep : ~one(dir) /\ \A n \in 0 .. Len(dir) - 1 : one(SubSeq(dir, 1, n))

\* Each directory in the root is a component, or else each module in it.
Components(files) ==
    LET root == Root(files)
        packages == {[name |-> d, files |-> Under(files, Append(root, d))] : d \in Subdirs(files, root)}
        modules == {[name |-> f.stem, files |-> {f}] : f \in Direct(files, root)}
    IN  IF files = {} THEN {} ELSE IF packages # {} THEN packages ELSE modules

Parts == Components(Sources(project))
InOrder(names) == Taken(Alphabet, {i \in DOMAIN Alphabet : Alphabet[i] \in names})
NamesOf(parts) == {c.name : c \in parts}
Definers(n) == NamesOf({c \in Parts : \E f \in c.files : n \in f.defines})

\* An arrow for a name that one component refers to and that only the other defines.
Arrows ==
    {a \in NamesOf(Parts) \X NamesOf(Parts) :
        /\ a[1] # a[2]
        /\ \E c \in Parts : c.name = a[1] /\ \E f \in c.files : \E n \in f.refers : Definers(n) = {a[2]}}

----------------------------------------------------------------------------
(* Cleaning. *)

Fences(t) == {i \in DOMAIN t : t[i] = "fence"}

\* Blocks between two fences go, from left to right; a last odd fence stays.
WithoutFences(t) ==
    LET upTo(i) == Cardinality({f \in Fences(t) : f <= i})
        all == Cardinality(Fences(t))
        left(i) == upTo(i) = all /\ all % 2 = 1
    IN  Taken(t, {i \in DOMAIN t : left(i) \/ (upTo(i) % 2 = 0 /\ t[i] # "fence")})

\* A heading goes with the end of its line.
WithoutHeadings(t) ==
    LET begin(i) == Sets!Max({j \in 1 .. i : j = 1 \/ t[j - 1] = "newline"})
    IN  Taken(t, {i \in DOMAIN t : t[begin(i)] # "hash"})

\* Of three line ends or more two are left, and none at either end.
Tidied(t) ==
    LET third(i) == i > 2 /\ \A j \in i - 2 .. i : t[j] = "newline"
        ink == {i \in DOMAIN t : t[i] # "newline"}
    IN  Taken(t, {i \in DOMAIN t : ~third(i) /\ \E first, last \in ink : first <= i /\ i <= last})

\* Too long a text ends at its last full stop if that is in its second half, else in an
\* ellipsis.
Shortened(t, max) ==
    LET cut == SubSeq(t, 1, max)
        stop == Sets!Max({0} \cup {i \in DOMAIN cut : cut[i] = "stop"})
    IN  IF Len(t) <= max THEN t
        ELSE IF stop > max \div 2 THEN SubSeq(cut, 1, stop)
        ELSE Append(Tidied(cut), "word")

\* A slip: headings are looked for while there still are blocks.
HeadingsFirst(t, max) == Shortened(Tidied(WithoutFences(WithoutHeadings(t))), max)

Cleaned(t, max) == Shortened(Tidied(WithoutHeadings(WithoutFences(t))), max)

\* The first line that is neither empty nor a heading, without its bullets.
RoleOf(t) ==
    LET starts == {i \in DOMAIN t : i = 1 \/ t[i - 1] = "newline"}
        ends(i) == Sets!Min({j \in i .. Len(t) + 1 : j > Len(t) \/ t[j] = "newline"})
        line(i) == SubSeq(t, i, ends(i) - 1)
        bare(i) == LET ink == {j \in DOMAIN line(i) : line(i)[j] # "bullet"}
                   IN  IF ink = {} THEN <<>> ELSE SubSeq(line(i), Sets!Min(ink), Len(line(i)))
        says == {i \in starts : bare(i) # <<>> /\ bare(i)[1] # "hash"}
    IN  IF says = {} THEN <<>> ELSE Cleaned(bare(Sets!Min(says)), MaxRole)

----------------------------------------------------------------------------
(* The templates: what a line is, of which section or component, and what it says. *)

Heading(s) == [is |-> "heading", of |-> s, says |-> <<"hash">>]
Row(name, role) == [is |-> "row", of |-> name, says |-> IF role = <<>> THEN <<"word">> ELSE role]
Text(marks) == [is |-> "text", of |-> "nothing", says |-> marks]
EmptyLine == Text(<<>>)
\* A diagram, a command or a tree; the facts it shows are words.
Block == <<Text(<<"fence", "word">>), Text(<<"word">>), Text(<<"fence">>)>>
\* Its lines.
Said(prose) ==
    LET lines[i \in 0 .. Len(prose)] ==
          IF i = 0 THEN <<EmptyLine>>
          ELSE LET before == lines[i - 1]
               IN  IF prose[i] = "newline" THEN Append(before, EmptyLine)
                   ELSE Append(Seqs!Front(before), Text(Append(Seqs!Last(before).says, prose[i])))
    IN  IF prose = <<>> THEN <<Text(<<"word">>)>> ELSE lines[Len(prose)]

\* One row for each component; two modules of one name have one role.
Rows(said) ==
    LET rows(n) == [k \in 1 .. Cardinality({c \in Parts : c.name = n}) |-> Row(n, said[n])]
        names == InOrder(NamesOf(Parts))
    IN  Seqs!FlattenSeq([k \in DOMAIN names |-> rows(names[k])])
Roleless == [n \in NamesOf(Parts) |-> <<>>]

Required ==
    CASE kind = "architecture" -> <<"overview", "components", "arrows", "entries", "settings", "layout">>
      [] kind = "readme" -> <<"overview", "usage", "tests", "layout">>
      [] kind = "api" -> <<>>

\* A reference has a section for each component with public symbols, then the rest.
Contents ==
    LET parts == {c \in Parts : \E f \in c.files : f.public # {}}
        rest == {f \in project : f.public # {} /\ \A c \in Parts : f \notin c.files}
    IN  IF kind # "api" THEN Required
        ELSE InOrder(NamesOf(parts)) \o IF rest = {} THEN <<>> ELSE <<"other">>

\* The test section has a block if a command is known; it makes no difference here.
Body(s) ==
    CASE s = "overview" -> Said(overview)
      [] s = "components" -> Rows(roles)
      [] s = "arrows" /\ Arrows # {} -> Block
      [] s = "tests" \/ (s = "layout" /\ kind = "architecture") -> Block
      [] s = "layout" /\ kind = "readme" -> Rows(Roleless)
      [] OTHER -> <<Text(<<"word">>)>>

SectionLines(s) == <<Heading(s), EmptyLine>> \o Body(s) \o <<EmptyLine>>
Rendered == Seqs!FlattenSeq([k \in DOMAIN Contents |-> SectionLines(Contents[k])])

\* verify_document: the sections are there, and the components, no brace is left, and the
\* number of fences is even, wherever in their lines they are.
Verified(doc) ==
    LET marks == Seqs!FlattenSeq([i \in DOMAIN doc |-> doc[i].says])
    IN  /\ \A k \in DOMAIN Required : \E i \in DOMAIN doc : doc[i] = Heading(Required[k])
        /\ Cardinality(Fences(marks)) % 2 = 0
        /\ \A i \in DOMAIN marks : marks[i] # "brace"
        /\ kind = "architecture" =>
             \A c \in Parts : \E i \in DOMAIN doc : doc[i].is = "row" /\ doc[i].of = c.name

----------------------------------------------------------------------------
(* The command. *)

Gather ==
    /\ docStage = "asked"
    /\ docStage' = IF Parts = {} /\ kind # "readme" THEN "refused"
                   ELSE IF kind = "api" THEN "roles" ELSE "overview"
    /\ roles' = Roleless
    /\ unasked' = IF kind # "architecture" THEN <<>>
                  ELSE InOrder(NamesOf({c \in Parts : \E f \in c.files : f.public # {}}))
    /\ UNCHANGED <<kind, project, overview, document>>

AskOverview ==
    /\ docStage = "overview" /\ docStage' = "roles"
    /\ \E t \in Overviews : overview' = Cleaned(t, MaxOverview)
    /\ UNCHANGED <<kind, project, unasked, roles, document>>

\* A component of which no symbol is known is not asked about.
AskRole ==
    /\ docStage = "roles" /\ unasked # <<>>
    /\ \E t \in Roles : roles' = [roles EXCEPT ![Head(unasked)] = RoleOf(t)]
    /\ unasked' = Tail(unasked)
    /\ UNCHANGED <<kind, project, docStage, overview, document>>

ModelFails ==
    /\ docStage = "overview" \/ (docStage = "roles" /\ unasked # <<>>)
    /\ docStage' = "raised"
    /\ UNCHANGED <<kind, project, unasked, overview, roles, document>>

Render ==
    /\ docStage = "roles" /\ unasked = <<>>
    /\ document' = Rendered
    /\ docStage' = IF Verified(Rendered) THEN "checked" ELSE "failed"
    /\ UNCHANGED <<kind, project, unasked, overview, roles>>

\* A call of write_file like any other (ToolGateway, WriteTools), after a read of the file
\* it replaces.
Offer ==
    /\ docStage = "checked" /\ docStage' \in {"written", "rejected", "failed"}
    /\ UNCHANGED <<kind, project, unasked, overview, roles, document>>

DocNext == Gather \/ AskOverview \/ AskRole \/ ModelFails \/ Render \/ Offer

DocSpec == DocInit /\ [][DocNext]_docVars

----------------------------------------------------------------------------
(* Properties. *)

\* A document as Markdown is read, line by line: the headings and rows outside blocks.  A
\* fence opens a block only where a line begins, and only a bare one closes it.
Reads(seen, line) ==
    LET first == IF line.says = <<>> THEN "nothing" ELSE line.says[1]
        outside == [seen EXCEPT !.under = line.is = "text" /\ first \notin {"nothing", "rule"}]
    IN  CASE seen.open # "no" -> [seen EXCEPT !.open = IF line.says = <<@>> THEN "no" ELSE @]
          [] seen.open = "no" /\ line.is # "text" ->
               [outside EXCEPT !.shape = Append(@, <<line.is, line.of>>)]
          [] seen.open = "no" /\ line.is = "text" /\ first \in {"fence", "tilde"} ->
               [outside EXCEPT !.open = first]
          [] seen.open = "no" /\ line.is = "text" /\ (first = "hash" \/ (first = "rule" /\ seen.under)) ->
               [outside EXCEPT !.shape = Append(@, <<"heading", "new">>)]
          [] OTHER -> outside
Readers(lines) ==
    LET upTo[i \in 0 .. Len(lines)] ==
          IF i = 0 THEN [open |-> "no", under |-> FALSE, shape |-> <<>>] ELSE Reads(upTo[i - 1], lines[i])
    IN  upTo[Len(lines)].shape

\* The shape the template has, whatever the model said.
ShapeOf(s) ==
    LET rows == IF s = "components" \/ (s = "layout" /\ kind = "readme") THEN Rows(Roleless) ELSE <<>>
    IN  <<<<"heading", s>>>> \o [k \in DOMAIN rows |-> <<"row", rows[k].of>>]
Shape == Seqs!FlattenSeq([k \in DOMAIN Contents |-> ShapeOf(Contents[k])])

\* A document that is offered for writing has the headings and rows of its template and no
\* others, and none of them is inside a block, whatever the model answered.  Left out, as
\* the code does not guard against them: lines under a heading, fences of tildes, and a
\* stray fence in the overview that one in a role makes even.
ShapeIsTheTemplates ==
    /\ docStage \in {"checked", "written", "rejected"}
    /\ \A i \in DOMAIN overview : overview[i] \notin {"rule", "tilde"}
    /\ Fences(overview) = {} \/ \A n \in DOMAIN roles : Fences(roles[n]) = {}
    => Readers(document) = Shape

=============================================================================
