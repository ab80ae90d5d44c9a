-------------------------------- MODULE MCText --------------------------------
(* Small instances for TLC of what is done to text: a file's is cut into chunks for *)
(* the index (Chunker) or edited (EditEngine), a model's reply is read for calls    *)
(* (ModelReply) or cleaned for a document (Documents), and records become lines of  *)
(* the audit log (AuditLog).  The five have nothing in common, and a behaviour is   *)
(* one of one of them.                                                              *)
EXTENDS Chunker, EditEngine, ModelReply, AuditLog, Documents

CONSTANTS MaxLines, MaxNodes, w, v, k1, k2, no, alpha, beta, gamma, src, tests

TextFiles ==
    [language : Language, lines : UNION {[1 .. n -> Line] : n \in {0, 1, MaxLines}},
     type : {<<>>}, last : {<<>>}]

\* Trees of MaxNodes nodes, one on each line; shorter files are prefixes of these.
Lasts == {l \in [1 .. MaxNodes -> 1 .. MaxNodes] : Laminar(l)}
Trees ==
    {t \in Lasts \X [1 .. MaxNodes -> NodeType] :
        \A n \in 1 .. MaxNodes : t[1][n] = n => t[2][n] \in {"stmt", "wrapped"}}
TreeFiles ==
    {[language |-> "code", lines |-> [i \in 1 .. MaxNodes |-> "text"],
      type |-> t[2], last |-> t[1]] : t \in Trees}

MCFiles == TextFiles \cup TreeFiles

----------------------------------------------------------------------------
(* Edits: every file of up to three lines against every needle of up to three. *)

\* Texts of one to n lines, each line one of ls.
Texts(n, ls) ==
    LET of[k \in 1 .. n] ==
          IF k = 1 THEN ls ELSE ls \cup {l \o <<NL>> \o t : l \in ls, t \in of[k - 1]}
    IN  of[n]

Needles == Texts(3, {<<>>, <<w>>, <<Sp, w>>}) \ {<<>>}
News == {<<>>, <<v>>, <<v, NL>>, <<v, NL, Sp, v>>}
LineEnds == {<<NL>>, <<CR, NL>>, <<CR>>}

\* Plain files; files of every form; files whose line ends are mixed; files with marks
\* further on; no text.
MCRaws ==
    Texts(3, {<<>>, <<w>>, <<w, Sp>>, <<Sp, w>>})
    \cup {b \o WithEnding(t, e) : b \in {<<>>, <<BOM>>}, e \in LineEnds, t \in Texts(3, {<<>>, <<w>>})}
    \cup [1 .. 4 -> {w, NL, CR}] \cup [1 .. 3 -> {w, BOM}] \cup {<<BOM, BOM, BOM, w>>, <<w, Nul>>}

\* A pointless edit; two edits, of which the second meets what the first has made.
MCEditLists ==
    {<<[old |-> <<w>>, new |-> <<w>>, all |-> TRUE]>>}
    \cup {<<e>> : e \in [old : Needles, new : News, all : BOOLEAN]}
    \cup {<<[old |-> o, new |-> n, all |-> TRUE], [old |-> <<v>>, new |-> <<w>>, all |-> FALSE]>> :
              o \in {<<w>>, <<w, NL>>}, n \in News}

----------------------------------------------------------------------------
(* Replies: every text of up to three marks, and every one of up to three pieces such *)
(* as templates produce, with the calls of up to two chunks.                          *)

Tagged(m) == <<Sign("tag"), m, Sign("endtag")>>
Fenced(m) == <<Sign("fence"), Sign("newline"), m, Sign("newline"), Sign("fence")>>
OnLine(m) == <<Sign("newline"), m, Sign("newline")>>
OneLine(t) == [layout |-> "line", tool |-> t]

ReplyMarks ==
    {OneLine(t) : t \in {k1, k2, no}} \cup {[layout |-> "tall", tool |-> k1], Data, Half}
    \cup {Sign(s) : s \in Signs}
ReplyPieces ==
    {<<>>, <<Sign("word")>>, Tagged(Half), Fenced(Sign("word")), Fenced(OneLine(k1)), Tagged(OneLine(no))}
    \cup {Tagged(OneLine(t)) : t \in {k1, k2}} \cup {OnLine(OneLine(t)) : t \in {k1, k2}}
    \cup {<<Sign("tag"), OneLine(k1), Sign("word"), Sign("endtag")>>}

MCReplyTexts ==
    UNION {[1 .. n -> ReplyMarks] : n \in 0 .. 3}
    \cup {a \o b \o c : a, b, c \in ReplyPieces}
MCNativeCalls == {<<>>, << <<k1>> >>, << <<k1, no>> >>, << <<k1>>, <<k2>> >>}

----------------------------------------------------------------------------
(* Documents: no files, none that count, packages with files beside them, and modules of *)
(* which two have one name.                                                              *)

MCAlphabet == <<alpha, beta, gamma, src, tests>>

\* The symbol gamma is private.
Module(dirs, stem, defines, refers) ==
    [dirs |-> dirs, stem |-> stem, init |-> FALSE,
     defines |-> defines, public |-> defines \ {gamma}, refers |-> refers]
Package(dirs) == [Module(dirs, src, {}, {}) EXCEPT !.init = TRUE]

\* Each of these uses a name of the other; one of them may define both.
Two(both) ==
    {Module(<<src, alpha>>, alpha, {alpha}, {beta}),
     Module(<<src, beta>>, beta, IF both THEN {alpha, beta, gamma} ELSE {beta}, {alpha, gamma})}

MCProjects ==
    {{}, {Package(<<src>>)}, {Module(<<tests>>, alpha, {alpha}, {})},
     Two(FALSE) \cup {Package(<<src>>), Module(<<tests>>, gamma, {alpha}, {beta})},
     Two(TRUE) \cup {Module(<<src>>, gamma, {gamma}, {alpha, beta})},
     {Module(<<alpha>>, beta, {alpha}, {beta}), Module(<<alpha>>, beta, {}, {alpha}),
      Module(<<alpha>>, gamma, {beta}, {alpha})}}

MCOverviews ==
    UNION {[1 .. n -> ProseMark] : n \in 0 .. 3} \cup [1 .. 4 -> {"word", "newline", "fence", "hash"}]
    \cup {<<"newline", "word", "newline", "newline", "newline", "newline", "stop", "word">>}
MCRoles ==
    {<<>>, <<"word">>, <<"fence">>, <<"bullet", "hash", "word">>, <<"fence", "word", "fence">>,
     <<"hash", "newline", "bullet", "word">>, <<"word", "stop", "word", "word">>}

----------------------------------------------------------------------------
NothingCut ==
    /\ file = [language |-> "code", lines |-> <<>>, type |-> <<>>, last |-> <<>>]
    /\ pc = "done" /\ chunks = {} /\ queue = {} /\ span = None /\ at = 0 /\ stack = <<>>

NothingEdited ==
    /\ request = None /\ stage = "refused" /\ left = <<>> /\ text = <<>> /\ before = <<>>
    /\ written = <<>> /\ strategy = 1 /\ spans = <<>> /\ todo = <<>>

NothingRead ==
    /\ reply = None /\ arrived = 0 /\ native = <<>> /\ phase = "raised"
    /\ pattern = 1 /\ malformed = 0 /\ calls = <<>>

NothingKept ==
    /\ month = 0 /\ book = [m \in Months |-> << <<>> >>] /\ writing = <<>> /\ made = <<>> /\ told = <<>> /\ torn = {}

NothingDocumented ==
    /\ kind = "api" /\ project = {} /\ docStage = "refused" /\ unasked = <<>>
    /\ overview = <<>> /\ roles = <<>> /\ document = <<>>

TextInit ==
    \/ Init /\ NothingEdited /\ NothingRead /\ NothingKept /\ NothingDocumented
    \/ EditInit /\ NothingCut /\ NothingRead /\ NothingKept /\ NothingDocumented
    \/ ReplyInit /\ NothingCut /\ NothingEdited /\ NothingKept /\ NothingDocumented
    \/ AuditInit /\ NothingCut /\ NothingEdited /\ NothingRead /\ NothingDocumented
    \/ DocInit /\ NothingCut /\ NothingEdited /\ NothingRead /\ NothingKept

TextNext ==
    \/ Next /\ UNCHANGED <<editVars, replyVars, auditVars, docVars>>
    \/ EditNext /\ UNCHANGED <<vars, replyVars, auditVars, docVars>>
    \/ ReplyNext /\ UNCHANGED <<vars, editVars, auditVars, docVars>>
    \/ month # 0 /\ AuditNext /\ UNCHANGED <<vars, editVars, replyVars, docVars>>
    \/ DocNext /\ UNCHANGED <<vars, editVars, replyVars, auditVars>>

TextSpec == TextInit /\ [][TextNext]_<<vars, editVars, replyVars, auditVars, docVars>>

=============================================================================
