------------------------------ MODULE Text_proofs ------------------------------
(***************************************************************************)
(* Proofs about what is done to text.  A file cut into chunks, for every   *)
(* file, tree and size (Chunker).  Records that become lines of the audit  *)
(* log, for any number of writers, months and torn writes (AuditLog).  A   *)
(* document put together from what a model says, for every project and     *)
(* every answer: what cleaning leaves, how a reader meets the lines, and   *)
(* that a stray fence is counted (Documents).  A reply read for calls, for *)
(* every text: which matches a pattern has, and that the marked calls are  *)
(* the ones extracted (ModelReply).                                        *)
(***************************************************************************)
EXTENDS Chunker, AuditLog, Documents, ModelReply, EditEngine_proofs

-----------------------------------------------------------------------------
(* Numbers. *)

LEMMA LeastNatural ==
  ASSUME NEW T \in SUBSET Nat, T # {}
  PROVE  Least(T) \in T /\ \A y \in T : Least(T) <= y
<1>1. PICK x \in T : \A y \in T : ~ (<<y, x>> \in OpToRel(<, Nat))
  BY WFMin, NatLessThanWellFounded
<1>2. \A y \in T : ~ (y < x)
  BY <1>1 DEF OpToRel
<1>3. \E z \in T : \A y \in T : z <= y
  BY <1>2
<1> QED
  BY <1>3 DEF Least

LEMMA LargestNatural ==
  ASSUME NEW n \in Nat, NEW T \in SUBSET (0 .. n), T # {}
  PROVE  Last(T) \in T /\ \A y \in T : y <= Last(T)
<1> DEFINE U == {n - t : t \in T}
<1>1. U \in SUBSET Nat /\ U # {}
  <2>1. \A t \in T : t \in 0 .. n /\ n - t \in Nat
    OBVIOUS
  <2> QED
    BY <2>1
<1>2. PICK u \in U : \A v \in U : u <= v
  BY <1>1, LeastNatural
<1>3. PICK x \in T : u = n - x
  BY <1>2
<1>4. \A y \in T : y <= x
  <2>1. ASSUME NEW y \in T
        PROVE  y <= x
    <3>1. n - y \in U
      OBVIOUS
    <3>2. n - x <= n - y /\ x \in 0 .. n /\ y \in 0 .. n
      BY <1>2, <1>3, <3>1
    <3> QED
      BY <3>2
  <2> QED
    BY <2>1
<1>5. \E z \in T : \A y \in T : y <= z
  BY <1>4
<1> QED
  BY <1>5 DEF Last

-----------------------------------------------------------------------------
(* Files and their lines. *)

LEMMA FileType ==
  ASSUME TypeOK
  PROVE  /\ file.lines \in Seq(Line) /\ Len(file.lines) \in Nat
         /\ FileLines = 1 .. Len(file.lines) /\ FileLines = DOMAIN file.lines
         /\ FileLines \in SUBSET Nat
         /\ Heads \in SUBSET FileLines /\ \A i \in Heads : ~Blank(i)
BY DEF TypeOK, WellFormed, FileLines, Heads, Blank

LEMMA LinesNonblank ==
  ASSUME NEW ls
  PROVE  \A i : i \in Nonblank(ls) <=> i \in ls /\ ~Blank(i)
BY DEF Nonblank

LEMMA StrippedHolds ==
  ASSUME NEW a \in Nat, NEW b \in Nat
  PROVE  /\ Stripped(a, b) \in SUBSET (a .. b)
         /\ Nonblank(a .. b) \in SUBSET Stripped(a, b)
         /\ Stripped(a, b) # {} =>
              /\ Least(Stripped(a, b)) \in a .. b
              /\ Stripped(a, b) =
                   Least(Stripped(a, b)) .. Least(Stripped(a, b)) + Cardinality(Stripped(a, b)) - 1
              /\ Least(Stripped(a, b)) <= Least(Stripped(a, b)) + Cardinality(Stripped(a, b)) - 1
              /\ Least(Stripped(a, b)) + Cardinality(Stripped(a, b)) - 1 \in a .. b
<1> DEFINE S == Stripped(a, b)
<1>1. S \in SUBSET (a .. b)
  BY DEF Stripped
<1>2. Nonblank(a .. b) \in SUBSET S
  BY DEF Stripped, Nonblank
<1>3. ASSUME S # {}
      PROVE  /\ Least(S) \in a .. b /\ S = Least(S) .. Least(S) + Cardinality(S) - 1
             /\ Least(S) <= Least(S) + Cardinality(S) - 1
             /\ Least(S) + Cardinality(S) - 1 \in a .. b
  <2> DEFINE p == Least(S)
  <2> DEFINE q == Last(S)
  <2>1. p \in S /\ \A y \in S : p <= y
    BY <1>1, <1>3, LeastNatural
  <2>2. q \in S /\ \A y \in S : y <= q
    <3>1. S \in SUBSET (0 .. b)
      BY <1>1
    <3> QED
      BY <1>3, <3>1, LargestNatural
  <2>3. p \in a .. b /\ q \in a .. b /\ p <= q
    BY <1>1, <2>1, <2>2
  <2>4. S \in SUBSET (p .. q)
    BY <1>1, <2>1, <2>2, <2>3
  <2>5. p .. q \in SUBSET S
    <3>1. PICK j \in Nonblank(a .. b) : j <= p
      BY <2>1 DEF Stripped
    <3>2. PICK k \in Nonblank(a .. b) : q <= k
      BY <2>2 DEF Stripped
    <3>3. j \in a .. b /\ k \in a .. b
      BY LinesNonblank
    <3>4. ASSUME NEW x \in p .. q
          PROVE  x \in a .. b /\ j <= x /\ x <= k
      BY <2>3, <3>1, <3>2, <3>3
    <3> QED
      BY <3>4 DEF Stripped
  <2>6. S = p .. q
    BY <2>4, <2>5
  <2> HIDE DEF p, q, S
  <2>7. Cardinality(p .. q) = q - p + 1
    BY <2>3, FS_Interval
  <2>8. p + Cardinality(S) - 1 = q
    BY <2>3, <2>6, <2>7
  <2> QED
    BY <2>3, <2>6, <2>8 DEF p
<1> QED
  BY <1>1, <1>2, <1>3

(* A section ends before the next one begins. *)
LEMMA EndOfSection ==
  ASSUME TypeOK, NEW s \in FileLines, NEW starts
  PROVE  /\ EndOf(s, starts) \in s .. Len(file.lines)
         /\ EndOf(s, starts) = Len(file.lines) \/ EndOf(s, starts) + 1 \in starts
<1> DEFINE top == Len(file.lines)
<1> DEFINE E == {e \in s .. top : e = top \/ e + 1 \in starts}
<1>1. top \in Nat /\ s \in Nat /\ s <= top
  BY FileType
<1>2. E \in SUBSET Nat /\ E # {}
  <2>1. top \in E
    BY <1>1
  <2> QED
    BY <1>1, <2>1
<1>3. Least(E) \in E /\ \A y \in E : Least(E) <= y
  BY <1>2, LeastNatural
<1> DEFINE e == Least(E)
<1>4. \A i \in s + 1 .. e : i \notin starts
  <2>1. ASSUME NEW i \in s + 1 .. e, i \in starts
        PROVE  FALSE
    <3>1. i - 1 \in s .. top /\ (i - 1) + 1 = i /\ i - 1 < e
      BY <1>1, <1>3
    <3>2. i - 1 \in E
      BY <2>1, <3>1
    <3> QED
      BY <1>3, <3>1, <3>2
  <2> QED
    BY <2>1
<1>5. \E d \in s .. top : /\ (d = top \/ d + 1 \in starts)
                           /\ \A i \in s + 1 .. d : i \notin starts
  BY <1>3, <1>4
<1> QED
  BY <1>5 DEF EndOf

(* A line belongs to the section that began last. *)
LEMMA SectionOf ==
  ASSUME TypeOK, NEW starts, starts \in SUBSET FileLines,
         NEW i \in FileLines, NEW h \in starts, h <= i
  PROVE  \E s \in starts : i \in s .. EndOf(s, starts)
<1> DEFINE S == {s \in starts : s <= i}
<1>1. S \in SUBSET (0 .. Len(file.lines)) /\ S # {}
  BY FileType
<1>2. Last(S) \in S /\ \A y \in S : y <= Last(S)
  BY <1>1, FileType, LargestNatural
<1> DEFINE s == Last(S)
<1>3. /\ EndOf(s, starts) \in s .. Len(file.lines)
      /\ EndOf(s, starts) = Len(file.lines) \/ EndOf(s, starts) + 1 \in starts
  BY <1>2, EndOfSection
<1>4. i <= EndOf(s, starts)
  <2> SUFFICES ASSUME EndOf(s, starts) < i
               PROVE  FALSE
    BY <1>2, <1>3, FileType
  <2>1. EndOf(s, starts) + 1 \in starts /\ EndOf(s, starts) + 1 <= i
    BY <1>3, FileType
  <2>2. EndOf(s, starts) + 1 \in S
    BY <2>1
  <2> QED
    <3>1. s \in Nat /\ EndOf(s, starts) \in Nat /\ s <= EndOf(s, starts)
      BY <1>2, <1>3, FileType
    <3>2. EndOf(s, starts) + 1 <= s
      BY <1>2, <2>2
    <3> HIDE DEF s
    <3> QED
      BY <3>1, <3>2
<1> QED
  BY <1>2, <1>3, <1>4, FileType

-----------------------------------------------------------------------------
(* Windows. *)

LEMMA WindowBounds ==
  ASSUME TypeOK, NEW s, InFile(s), s.from \in Nat, s.to \in Nat, NEW i \in s.from .. s.to
  PROVE  /\ WindowEnd(i, s) \in i + 1 .. s.to + 1
         /\ NextIndex(i, s) \in i + 1 .. WindowEnd(i, s)
<1> DEFINE end == IF i + WindowLines < s.to + 1 THEN i + WindowLines ELSE s.to + 1
<1> DEFINE near == {c \in end .. end + LookAhead - 1 : c < s.to + 1 /\ Blank(c)}
<1>1. WindowLines \in Nat /\ WindowLines > 0 /\ Overlap \in Nat /\ LookAhead \in Nat
  BY ChunkerAssumption
<1>2. end \in i + 1 .. s.to + 1
  BY <1>1
<1>3. near # {} => Least(near) \in near
  <2>1. near \in SUBSET Nat
    BY <1>1, <1>2
  <2> QED
    BY <2>1, LeastNatural
<1>4. WindowEnd(i, s) = IF near = {} THEN end ELSE Least(near)
  BY DEF WindowEnd, Extended
<1>5. WindowEnd(i, s) \in i + 1 .. s.to + 1
  BY <1>1, <1>2, <1>3, <1>4
<1>6. NextIndex(i, s) \in i + 1 .. WindowEnd(i, s)
  BY <1>1, <1>5 DEF NextIndex
<1> QED
  BY <1>5, <1>6

-----------------------------------------------------------------------------
(* The tree. *)

LEMMA TreeType ==
  ASSUME TypeOK
  PROVE  /\ file.last \in Seq(Nat) /\ Len(file.last) \in Nat /\ Nodes = 1 .. Len(file.last)
         /\ Len(file.last) # 0 => Len(file.last) = Len(file.lines)
         /\ Nodes \in SUBSET FileLines
         /\ \A n \in Nodes :
              /\ file.last[n] \in n .. Len(file.last) /\ file.last[n] <= Len(file.lines)
              /\ \A m \in n .. file.last[n] : file.last[m] <= file.last[n]
<1>1. /\ file.last \in Seq(Nat) /\ Len(file.last) \in Nat /\ Nodes = 1 .. Len(file.last)
      /\ Len(file.last) # 0 => Len(file.last) = Len(file.lines)
      /\ Laminar(file.last)
  BY DEF TypeOK, WellFormed, Nodes
<1>2. Nodes \in SUBSET FileLines
  BY <1>1 DEF FileLines
<1>3. ASSUME NEW n \in Nodes
      PROVE  /\ file.last[n] \in n .. Len(file.last) /\ file.last[n] <= Len(file.lines)
             /\ \A m \in n .. file.last[n] : file.last[m] <= file.last[n]
  <2>1. file.last[n] \in Nat /\ n \in Nat
    BY <1>1
  <2> QED
    BY <1>1, <2>1 DEF Laminar, Nodes
<1> QED
  BY <1>1, <1>2, <1>3

LEMMA NodeEnd ==
  ASSUME TypeOK, NEW n \in Nodes
  PROVE  file.last[n] \in n .. Len(file.last) /\ n \in Nat /\ Len(file.last) \in Nat
<1>1. Nodes = 1 .. Len(file.last) /\ Len(file.last) \in Nat
  BY TreeType
<1> QED
  BY <1>1, TreeType

(* The outermost nodes of a run of lines follow one another, and the lines *)
(* are theirs.                                                             *)
LEMMA OutermostCover ==
  ASSUME TypeOK, NEW a \in Nat, NEW b \in Nat, a >= 1, b <= Len(file.last)
  PROVE  /\ Outermost(a, b) \in SUBSET Nodes /\ Outermost(a, b) \in SUBSET (a .. b)
         /\ Siblings(Outermost(a, b))
         /\ \A i \in a .. b : \E n \in Outermost(a, b) : i \in Span(n)
<1>1. a .. b \in SUBSET Nodes
  BY TreeType
<1>2. Outermost(a, b) \in SUBSET (a .. b)
  BY <1>1 DEF Outermost
<1>3. Siblings(Outermost(a, b))
  <2>1. ASSUME NEW m \in Outermost(a, b), NEW n \in Outermost(a, b), m < n
        PROVE  file.last[m] < n
    <3>1. m \in a .. n - 1
      BY <1>2, <2>1
    <3> QED
      BY <3>1 DEF Outermost
  <2> QED
    BY <2>1 DEF Siblings
<1>4. ASSUME NEW i \in a .. b
      PROVE  \E n \in Outermost(a, b) : i \in Span(n)
  <2> DEFINE S == {m \in a .. i : i <= file.last[m]}
  <2>1. i \in S
    <3>1. i \in Nodes /\ i \in a .. i
      BY <1>1
    <3>2. file.last[i] \in i .. Len(file.last)
      BY <3>1, TreeType
    <3> QED
      BY <3>1, <3>2
  <2>2. Least(S) \in S /\ \A y \in S : Least(S) <= y
    <3>1. S \in SUBSET Nat /\ S # {}
      BY <2>1
    <3> QED
      BY <3>1, LeastNatural
  <2> DEFINE n == Least(S)
  <2>3. n \in a .. i /\ i <= file.last[n] /\ n \in Nodes
    BY <1>1, <2>2
  <2>4. ASSUME NEW k \in a .. n - 1
        PROVE  file.last[k] < n
    <3>1. k \in a .. i /\ k \in Nodes /\ k < n
      BY <1>1, <2>3
    <3>2. k \notin S
      BY <2>2, <3>1
    <3>3. file.last[k] < i /\ file.last[k] \in Nat
      BY <3>1, <3>2, TreeType
    <3> SUFFICES ASSUME n <= file.last[k]
                 PROVE  FALSE
      BY <2>3, <3>3
    <3>4. n \in k .. file.last[k]
      BY <2>3, <3>1, <3>3
    <3>5. file.last[n] <= file.last[k]
      BY <3>1, <3>4, TreeType
    <3> HIDE DEF n
    <3>6. file.last[n] \in n .. Len(file.last) /\ n \in Nat /\ Len(file.last) \in Nat
      BY <2>3, NodeEnd
    <3> QED
      BY <2>3, <3>3, <3>5, <3>6
  <2>5. n \in Outermost(a, b)
    <3>1. n \in (a .. b) \cap Nodes
      BY <2>3
    <3> HIDE DEF n
    <3> QED
      BY <2>4, <3>1 DEF Outermost
  <2>6. i \in Span(n)
    BY <2>3, TreeType DEF Span
  <2> QED
    BY <2>5, <2>6
<1> QED
  BY <1>1, <1>2, <1>3, <1>4

(* Below a node that has members every line but its own is a member's. *)
LEMMA MembersCover ==
  ASSUME TypeOK, NEW n \in Nodes
  PROVE  /\ Members(n) \in SUBSET Nodes /\ Members(n) \in SUBSET (n + 1 .. file.last[n])
         /\ Siblings(Members(n))
         /\ Members(n) # {} => \A i \in Span(n) : i = n \/ \E m \in Members(n) : i \in Span(m)
<1>1. n \in Nat /\ file.last[n] \in Nat /\ file.last[n] <= Len(file.last) /\ n + 1 >= 1
  BY TreeType
<1>2. CASE Members(n) = Outermost(n + 1, file.last[n])
  BY <1>1, <1>2, OutermostCover DEF Span
<1>3. CASE Members(n) = {}
  BY <1>3 DEF Siblings
<1> QED
  BY <1>2, <1>3 DEF Members

-----------------------------------------------------------------------------
(* The steps of the cutting. *)

(* The file stays as it is, and so does all that is read from it. *)
LEMMA SameFile ==
  ASSUME file' = file
  PROVE  /\ FileLines' = FileLines /\ Nodes' = Nodes /\ WellFormed(file)' = WellFormed(file)
         /\ \A i : Blank(i)' = Blank(i)
         /\ \A ls : Nonblank(ls)' = Nonblank(ls)
         /\ \A n : Splits(n)' = Splits(n) /\ Span(n)' = Span(n)
         /\ \A S : Siblings(S)' = Siblings(S)
         /\ \A s : InFile(s)' = InFile(s)
BY DEF FileLines, Nodes, WellFormed, Blank, Nonblank, Splits, Size, Members, Outermost, Span, Siblings, InFile

LEMMA HeldGrows ==
  ASSUME chunks \subseteq chunks'
  PROVE  Held \subseteq Held'
BY DEF Held, Whole

LEMMA HeldBy ==
  ASSUME NEW c \in chunks, c.kind # "skeleton"
  PROVE  c.holds \subseteq Held
BY DEF Held, Whole

LEMMA LinesKeptBy ==
  ASSUME NoLineLost, file' = file, Held \subseteq Held',
         \A i \in Ahead : i \in FileLines /\ ~Blank(i) =>
            i \in Held' \cup Ahead' \/ (i \in Nodes /\ Splits(i))
  PROVE  NoLineLost'
<1>1. ASSUME NEW i \in Nonblank(FileLines)'
      PROVE  (i \in Held \cup Ahead \/ (i \in Nodes /\ Splits(i)))'
  <2>1. i \in Nonblank(FileLines)
    BY SameFile
  <2>2. i \in FileLines /\ ~Blank(i)
    BY <2>1, LinesNonblank
  <2>3. i \in Held \cup Ahead \/ (i \in Nodes /\ Splits(i))
    BY <2>1 DEF NoLineLost
  <2>4. i \in Held' \cup Ahead' \/ (i \in Nodes /\ Splits(i))
    BY <2>2, <2>3
  <2> QED
    BY <2>4, SameFile
<1> QED
  BY <1>1 DEF NoLineLost

LEMMA CitedBy ==
  ASSUME file' = file, CitationsHold,
         \A c \in chunks' : c \in chunks \/
            /\ 1 <= c.first /\ c.last <= Len(file.lines)
            /\ c.holds \subseteq c.first .. c.last \/ (file.language = "markdown" /\ Blank(1))
  PROVE  CitationsHold'
BY DEF CitationsHold, Blank

LEMMA InitChunk ==
  ASSUME Init
  PROVE  ChunkInv
<1>1. TypeOK
  <2>1. WellFormed(file)
    BY ChunkerAssumption DEF Init
  <2> QED
    BY <2>1 DEF Init, TypeOK
<1>2. CitationsHold /\ Apart /\ StretchesInFile
  BY DEF Init, CitationsHold, Apart, StretchesInFile
<1>3. FramesInTree
  BY DEF Init, FramesInTree
<1>4. NoLineLost
  <2>1. Ahead = FileLines
    BY DEF Init, Ahead
  <2> QED
    BY <2>1 DEF NoLineLost, Nonblank
<1> QED
  BY <1>1, <1>2, <1>3, <1>4 DEF ChunkInv

(* A section holds its lines without its blank ends. *)
LEMMA SectionHolds ==
  ASSUME TypeOK, NEW name \in {"section", "preamble"}, NEW s \in FileLines, NEW starts
  PROVE  LET c == Section(name, s, starts)
         IN  /\ c \in Chunk /\ c.kind = name /\ c.first = s
             /\ 1 <= c.first /\ c.last <= Len(file.lines) /\ c.last \in Nat
             /\ c.holds = Stripped(s, c.last)
             /\ c.holds \subseteq c.first .. c.last
             /\ \A i \in s .. EndOf(s, starts) : ~Blank(i) => i \in c.holds
<1> DEFINE c == Section(name, s, starts)
<1>1. s \in Nat /\ 1 <= s /\ Len(file.lines) \in Nat
  BY FileType
<1>2. EndOf(s, starts) \in s .. Len(file.lines)
  BY EndOfSection
<1>3. EndOf(s, starts) \in Nat /\ EndOf(s, starts) <= Len(file.lines)
  BY <1>1, <1>2
<1>4. Stripped(s, EndOf(s, starts)) \in SUBSET (s .. EndOf(s, starts))
  BY <1>1, <1>3, StrippedHolds
<1>5. Nonblank(s .. EndOf(s, starts)) \in SUBSET Stripped(s, EndOf(s, starts))
  BY <1>1, <1>3, StrippedHolds
<1>6. c = [kind |-> name, first |-> s, last |-> EndOf(s, starts), holds |-> Stripped(s, EndOf(s, starts))]
  BY DEF Section
<1>7. Stripped(s, EndOf(s, starts)) \in SUBSET Nat
  BY <1>1, <1>3, <1>4
<1>8. c \in Chunk
  BY <1>1, <1>3, <1>6, <1>7 DEF Chunk
<1> QED
  BY <1>1, <1>3, <1>4, <1>5, <1>6, <1>8, LinesNonblank

LEMMA MarkdownKept ==
  ASSUME ChunkInv, CutMarkdown
  PROVE  ChunkInv'
<1> USE DEF ChunkInv
<1> DEFINE starts == {1} \cup Heads
<1>0. /\ TypeOK /\ file' = file /\ pc' = "window" /\ span' = span /\ at' = at /\ stack' = stack
      /\ pc = "start" /\ file.language = "markdown"
      /\ chunks' = {c \in Sections : ~Oversized(c)}
      /\ queue' = {ToSplit(c) : c \in {k \in Sections : Oversized(k)}}
      /\ span = None /\ stack = <<>>
  BY DEF CutMarkdown, Apart
<1>1. ASSUME NEW c \in Sections
      PROVE  /\ file.lines # <<>> /\ 1 \in FileLines
             /\ \E s \in starts : s \in FileLines /\ c = Section("section", s, starts)
             /\ c.holds # {}
  <2>1. file.lines # <<>> /\ c.holds # {} /\ \E s \in starts : c = Section("section", s, starts)
    BY DEF Sections
  <2>2. 1 \in FileLines
    BY <2>1, FileType
  <2> QED
    BY <2>1, <2>2, FileType
<1>2. ASSUME NEW c \in Sections
      PROVE  /\ c \in Chunk /\ 1 <= c.first /\ c.last <= Len(file.lines)
             /\ c.holds \subseteq c.first .. c.last /\ c.kind = "section"
  BY <1>0, <1>1, SectionHolds
<1>3. ASSUME NEW c \in Sections
      PROVE  /\ ToSplit(c) \in [from : Nat, to : Nat, lead : Nat] /\ InFile(ToSplit(c))
             /\ c.holds = ToSplit(c).from .. ToSplit(c).to
  <2>1. PICK s \in starts : s \in FileLines /\ c = Section("section", s, starts)
    BY <1>1
  <2>2. c.first = s /\ c.holds = Stripped(s, c.last) /\ c.holds # {} /\ c.last \in Nat
    <3>1. Section("section", s, starts).holds # {}
      BY <1>1, <2>1
    <3> HIDE DEF starts
    <3> QED
      BY <1>0, <2>1, <3>1, SectionHolds
  <2> DEFINE a == Least(c.holds)
  <2> DEFINE z == Least(c.holds) + Cardinality(c.holds) - 1
  <2>3. s \in Nat /\ 1 <= s /\ c.last <= Len(file.lines) /\ Len(file.lines) \in Nat
    BY <1>0, <1>2, <2>1, FileType
  <2>4. a \in s .. c.last /\ c.holds = a .. z /\ a <= z /\ z \in s .. c.last
    BY <2>2, <2>3, StrippedHolds
  <2>5. ToSplit(c) = [from |-> a, to |-> z, lead |-> a - s]
    BY <2>2 DEF ToSplit, Stretch
  <2>6. a - s = 0 \/ Blank(1)
    <3>1. CASE Blank(s)
      BY <1>0, <2>1, <3>1, FileType
    <3>2. CASE ~Blank(s)
      <4>1. EndOf(s, starts) \in s .. Len(file.lines)
        BY <1>0, <2>1, EndOfSection
      <4>2. s \in c.holds
        BY <1>0, <2>1, <2>3, <3>2, <4>1, SectionHolds
      <4> HIDE DEF a, z
      <4> QED
        BY <2>3, <2>4, <4>2
    <3> QED
      BY <3>1, <3>2
  <2> HIDE DEF a, z
  <2>7. a \in Nat /\ z \in Nat /\ a - s \in Nat /\ a - s < a /\ z <= Len(file.lines)
    BY <2>2, <2>3, <2>4
  <2> QED
    BY <1>0, <2>4, <2>5, <2>6, <2>7 DEF InFile
<1>4. TypeOK'
  <2>1. chunks' \subseteq Chunk
    BY <1>0, <1>2
  <2>2. queue' \subseteq [from : Nat, to : Nat, lead : Nat]
    BY <1>0, <1>3
  <2> QED
    BY <1>0, <2>1, <2>2, SameFile DEF TypeOK
<1>5. CitationsHold'
  BY <1>0, <1>2, CitedBy
<1>6. Apart' /\ FramesInTree'
  BY <1>0 DEF Apart, FramesInTree
<1>7. StretchesInFile'
  BY <1>0, <1>3, SameFile DEF StretchesInFile
<1>8. NoLineLost'
  <2>1. ASSUME NEW i \in FileLines, ~Blank(i)
        PROVE  i \in Held' \cup Ahead'
    <3>1. file.lines # <<>> /\ 1 \in starts /\ 1 <= i /\ starts \in SUBSET FileLines
      BY <1>0, FileType
    <3>2. PICK s \in starts : i \in s .. EndOf(s, starts)
      BY <1>0, <3>1, SectionOf
    <3> DEFINE c == Section("section", s, starts)
    <3>3. i \in c.holds
      BY <1>0, <2>1, <3>1, <3>2, SectionHolds
    <3>4. c \in Sections
      BY <3>1, <3>3 DEF Sections
    <3>5. CASE ~Oversized(c)
      <4>1. c \in chunks' /\ c.kind # "skeleton"
        BY <1>0, <1>2, <3>4, <3>5
      <4> QED
        BY <3>3, <4>1 DEF Held, Whole
    <3>6. CASE Oversized(c)
      <4>1. ToSplit(c) \in queue' /\ i \in ToSplit(c).from .. ToSplit(c).to
        BY <1>0, <1>3, <3>3, <3>4, <3>6
      <4> QED
        BY <1>0, <4>1 DEF Ahead, AheadOfWindows
    <3> QED
      BY <3>5, <3>6
  <2>2. ASSUME NEW i \in Nonblank(FileLines)'
        PROVE  i \in Held' \cup Ahead'
    BY <1>0, <2>1, <2>2, SameFile, LinesNonblank
  <2> QED
    BY <2>2 DEF NoLineLost
<1> QED
  BY <1>4, <1>5, <1>6, <1>7, <1>8

LEMMA DataKept ==
  ASSUME ChunkInv, CutData
  PROVE  ChunkInv'
<1> DEFINE starts == {1} \cup Heads
<1>0. /\ TypeOK /\ file' = file /\ pc' = "done" /\ span' = None /\ at' = at /\ stack' = <<>>
      /\ chunks' = DataSections /\ queue' = {} /\ Cardinality(Heads) >= 2
  BY DEF ChunkInv, CutData, Structured, Apart
<1>1. Heads # {} /\ Heads \in SUBSET FileLines /\ 1 \in FileLines /\ starts \in SUBSET FileLines
  <2>1. Heads # {}
    BY <1>0, FS_EmptySet
  <2> QED
    BY <1>0, <2>1, FileType
<1>2. ASSUME NEW c \in DataSections
      PROVE  \/ c = Section("preamble", 1, starts)
             \/ \E s \in Heads : c = Section("section", s, Heads)
  BY DEF DataSections
<1>3. ASSUME NEW c \in DataSections
      PROVE  /\ c \in Chunk /\ 1 <= c.first /\ c.last <= Len(file.lines)
             /\ c.holds \subseteq c.first .. c.last /\ c.kind # "skeleton"
  <2>1. CASE c = Section("preamble", 1, starts)
    BY <1>0, <1>1, <2>1, SectionHolds
  <2>2. CASE \E s \in Heads : c = Section("section", s, Heads)
    BY <1>0, <1>1, <2>2, SectionHolds
  <2> QED
    BY <1>2, <2>1, <2>2
<1>4. TypeOK'
  <2>1. chunks' \subseteq Chunk
    BY <1>0, <1>3
  <2> QED
    BY <1>0, <2>1, SameFile DEF TypeOK
<1>5. CitationsHold'
  BY <1>0, <1>3, CitedBy DEF ChunkInv
<1>6. Apart' /\ FramesInTree' /\ StretchesInFile'
  BY <1>0 DEF Apart, FramesInTree, StretchesInFile
<1>7. ASSUME NEW i \in FileLines, ~Blank(i)
      PROVE  i \in Held'
  <2>1. \E c \in DataSections : i \in c.holds
    <3>1. CASE \E h \in Heads : h <= i
      <4>1. PICK s \in Heads : i \in s .. EndOf(s, Heads)
        BY <1>0, <1>1, <3>1, SectionOf
      <4>2. i \in Section("section", s, Heads).holds
        BY <1>0, <1>1, <1>7, <4>1, SectionHolds
      <4> QED
        BY <4>2 DEF DataSections
    <3>2. CASE \A h \in Heads : ~(h <= i)
      <4>1. 1 <= i /\ 1 \in starts
        BY <1>0, FileType
      <4>2. PICK s \in starts : i \in s .. EndOf(s, starts)
        <5> HIDE DEF starts
        <5> QED
          BY <1>0, <1>1, <4>1, SectionOf
      <4>3. s = 1 /\ 1 \notin Heads
        <5>1. s \in Nat /\ i \in Nat
          BY <1>0, <1>1, FileType
        <5>2. s <= i
          BY <4>2, <5>1
        <5> QED
          BY <3>2, <4>1, <5>2
      <4>4. i \in Section("preamble", 1, starts).holds
        BY <1>0, <1>1, <1>7, <4>2, <4>3, SectionHolds
      <4> QED
        BY <4>3, <4>4 DEF DataSections
    <3> QED
      BY <3>1, <3>2
  <2> QED
    BY <1>0, <1>3, <2>1 DEF Held, Whole
<1>8. NoLineLost'
  <2>1. ASSUME NEW i \in Nonblank(FileLines)'
        PROVE  i \in Held'
    BY <1>0, <1>7, <2>1, SameFile, LinesNonblank
  <2> QED
    BY <2>1 DEF NoLineLost
<1> QED
  BY <1>4, <1>5, <1>6, <1>8 DEF ChunkInv

LEMMA PlainKept ==
  ASSUME ChunkInv, CutPlain
  PROVE  ChunkInv'
<1>0. /\ TypeOK /\ file' = file /\ pc' = "window" /\ span' = None /\ at' = at /\ stack' = <<>>
      /\ chunks' = chunks /\ queue' = WholeFile /\ pc = "start" /\ span = None
  BY DEF ChunkInv, CutPlain, UseWindows, Apart
<1>1. \A s \in WholeFile : /\ s = [from |-> 1, to |-> Len(file.lines), lead |-> 0] /\ Len(file.lines) \in Nat
                           /\ 1 <= Len(file.lines)
  BY <1>0, FileType DEF WholeFile, Stretch
<1>2. TypeOK'
  <2>1. queue' \subseteq [from : Nat, to : Nat, lead : Nat]
    BY <1>0, <1>1
  <2> QED
    BY <1>0, <2>1, SameFile DEF TypeOK
<1>3. CitationsHold' /\ Apart' /\ FramesInTree'
  BY <1>0, CitedBy DEF ChunkInv, Apart, FramesInTree
<1>4. StretchesInFile'
  <2>1. \A s \in WholeFile : InFile(s)
    BY <1>1 DEF InFile
  <2> QED
    BY <1>0, <2>1, SameFile DEF StretchesInFile
<1>5. NoLineLost'
  <2>1. \A i \in FileLines : i \in Ahead'
    <3>1. ASSUME NEW i \in FileLines
          PROVE  i \in UNION {s.from .. s.to : s \in WholeFile}
      <4>1. WholeFile = {Stretch(1, Len(file.lines), 0)}
        BY <1>0, FileType DEF WholeFile
      <4>2. i \in Stretch(1, Len(file.lines), 0).from .. Stretch(1, Len(file.lines), 0).to
        BY <1>0, FileType DEF Stretch
      <4> QED
        BY <4>1, <4>2
    <3> QED
      BY <1>0, <3>1 DEF Ahead, AheadOfWindows
  <2> QED
    BY <1>0, <2>1, LinesKeptBy, HeldGrows DEF ChunkInv, Ahead
<1> QED
  BY <1>2, <1>3, <1>4, <1>5 DEF ChunkInv

LEMMA WindowsAhead ==
  /\ pc = "window" => \A i : i \in Ahead <=>
       (\E s \in queue : i \in s.from .. s.to) \/ (span # None /\ i \in at .. span.to)
  /\ pc' = "window" => \A i : i \in Ahead' <=>
       (\E s \in queue' : i \in s.from .. s.to) \/ (span' # None /\ i \in at' .. span'.to)
<1>1. pc' = "window" => Ahead' = AheadOfWindows'
  BY DEF Ahead
<1>2. AheadOfWindows' = (UNION {s.from .. s.to : s \in queue'})
                          \cup (IF span' = None THEN {} ELSE at' .. span'.to)
  BY DEF AheadOfWindows
<1>3. pc = "window" => Ahead = AheadOfWindows
  BY DEF Ahead
<1>4. AheadOfWindows = (UNION {s.from .. s.to : s \in queue})
                         \cup (IF span = None THEN {} ELSE at .. span.to)
  BY DEF AheadOfWindows
<1>5. ASSUME NEW i
      PROVE  i \in AheadOfWindows' <=>
               (\E s \in queue' : i \in s.from .. s.to) \/ (span' # None /\ i \in at' .. span'.to)
  <2>1. i \in (IF span' = None THEN {} ELSE at' .. span'.to) <=> span' # None /\ i \in at' .. span'.to
    OBVIOUS
  <2>2. i \in UNION {s.from .. s.to : s \in queue'} <=> \E s \in queue' : i \in s.from .. s.to
    OBVIOUS
  <2> QED
    BY <1>2, <2>1, <2>2, Zenon
<1>6. ASSUME NEW i
      PROVE  i \in AheadOfWindows <=>
               (\E s \in queue : i \in s.from .. s.to) \/ (span # None /\ i \in at .. span.to)
  <2>1. i \in (IF span = None THEN {} ELSE at .. span.to) <=> span # None /\ i \in at .. span.to
    OBVIOUS
  <2>2. i \in UNION {s.from .. s.to : s \in queue} <=> \E s \in queue : i \in s.from .. s.to
    OBVIOUS
  <2> QED
    BY <1>4, <2>1, <2>2, Zenon
<1> QED
  BY ONLY <1>1, <1>3, <1>5, <1>6

LEMMA TakeKept ==
  ASSUME ChunkInv, TakeStretch
  PROVE  ChunkInv'
<1>1. PICK s \in queue : span' = s /\ at' = s.from /\ queue' = queue \ {s}
  BY DEF TakeStretch
<1>0. /\ TypeOK /\ file' = file /\ pc' = "window" /\ stack' = <<>> /\ chunks' = chunks
      /\ pc = "window" /\ span = None /\ s \in [from : Nat, to : Nat, lead : Nat] /\ s # None
  BY ChunkerAssumption DEF ChunkInv, TakeStretch, Apart, TypeOK
<1>2. TypeOK'
  BY <1>0, <1>1, SameFile DEF TypeOK
<1>3. CitationsHold' /\ Apart' /\ FramesInTree'
  BY <1>0, CitedBy DEF ChunkInv, Apart, FramesInTree
<1>4. InFile(s) /\ \A q \in queue : InFile(q)
  BY DEF ChunkInv, StretchesInFile
<1>5. StretchesInFile'
  <2>1. \A q \in queue' : InFile(q)'
    BY <1>0, <1>1, <1>4, SameFile
  <2>2. InFile(span)' /\ s.from <= s.to
    BY <1>0, <1>1, <1>4, SameFile DEF InFile
  <2> QED
    BY <1>0, <1>1, <2>1, <2>2 DEF StretchesInFile
<1>6. NoLineLost'
  <2>1. \A i \in Ahead : i \in Ahead'
    BY <1>0, <1>1, WindowsAhead
  <2> QED
    BY <1>0, <2>1, LinesKeptBy, HeldGrows DEF ChunkInv
<1> QED
  BY <1>2, <1>3, <1>5, <1>6 DEF ChunkInv

LEMMA WindowKept ==
  ASSUME ChunkInv, Window
  PROVE  ChunkInv'
<1> DEFINE end == WindowEnd(at, span)
<1> DEFINE c == WindowChunk(at, span)
<1>0. /\ TypeOK /\ file' = file /\ pc' = "window" /\ stack' = <<>> /\ queue' = queue
      /\ pc = "window" /\ span # None /\ span \in [from : Nat, to : Nat, lead : Nat]
      /\ InFile(span) /\ span.from <= at /\ at <= span.to /\ at \in Nat
      /\ chunks' = IF Nonblank(at .. end - 1) = {} THEN chunks ELSE chunks \cup {c}
  BY DEF ChunkInv, Window, Apart, TypeOK, StretchesInFile
<1>1. at \in span.from .. span.to /\ span.from \in Nat /\ span.to \in Nat /\ span.lead \in Nat
  BY <1>0
<1>2. end \in at + 1 .. span.to + 1 /\ NextIndex(at, span) \in at + 1 .. end
  BY <1>0, <1>1, WindowBounds
<1> HIDE DEF end
<1>3. /\ c.kind = "window" /\ c.first = at - span.lead /\ c.last = end - 1 - span.lead
      /\ c.holds = at .. end - 1
      /\ c = [kind |-> "window", first |-> at - span.lead, last |-> end - 1 - span.lead,
              holds |-> at .. end - 1]
  BY DEF WindowChunk, end
<1>4. /\ span.lead < at /\ span.lead < span.from /\ span.to <= Len(file.lines) /\ Len(file.lines) \in Nat
      /\ span.lead = 0 \/ (file.language = "markdown" /\ Blank(1))
  BY <1>0, <1>1, FileType DEF InFile
<1> HIDE DEF c
<1>5. c \in Chunk
  <2>1. at - span.lead \in Nat /\ end - 1 - span.lead \in Nat /\ at .. end - 1 \in SUBSET Nat
    BY <1>0, <1>1, <1>2, <1>4
  <2> QED
    BY <1>3, <2>1 DEF Chunk
<1>6. /\ 1 <= c.first /\ c.last <= Len(file.lines)
      /\ c.holds \subseteq c.first .. c.last \/ (file.language = "markdown" /\ Blank(1))
  <2>1. 1 <= c.first /\ c.last <= Len(file.lines)
    BY <1>0, <1>1, <1>2, <1>3, <1>4
  <2>2. span.lead = 0 => c.holds = c.first .. c.last
    BY <1>0, <1>2, <1>3
  <2> QED
    BY <1>4, <2>1, <2>2
<1>7. \/ end > span.to /\ span' = None /\ at' = at
      \/ end <= span.to /\ at' = NextIndex(at, span) /\ span' = span
  BY <1>1, <1>2 DEF Window, end
<1>8. TypeOK'
  <2>1. chunks' \subseteq Chunk
    BY <1>0, <1>5 DEF TypeOK
  <2>2. at' \in Nat
    BY <1>0, <1>2, <1>7
  <2> QED
    BY <1>0, <1>7, <2>1, <2>2, SameFile DEF TypeOK
<1>9. CitationsHold'
  BY <1>0, <1>6, CitedBy DEF ChunkInv
<1>10. Apart' /\ FramesInTree'
  BY <1>0 DEF Apart, FramesInTree
<1>11. StretchesInFile'
  <2>1. \A q \in queue' : InFile(q)'
    BY <1>0, SameFile DEF ChunkInv, StretchesInFile
  <2>2. span' # None => InFile(span') /\ span'.from <= at' /\ at' <= span'.to
    BY <1>0, <1>1, <1>2, <1>7
  <2>3. InFile(span)' = InFile(span')
    BY <1>0 DEF InFile, Blank
  <2> QED
    BY <2>1, <2>2, <2>3 DEF StretchesInFile
<1>12. NoLineLost'
  <2>1. Held \subseteq Held'
    BY <1>0, HeldGrows
  <2>2. ASSUME NEW i \in Ahead, ~Blank(i)
        PROVE  i \in Held' \cup Ahead'
    <3>1. CASE \E s \in queue : i \in s.from .. s.to
      BY <1>0, <3>1, WindowsAhead
    <3>2. CASE i \in at .. span.to
      <4>1. CASE i < end
        <5>1. i \in at .. end - 1
          BY <1>0, <1>2, <3>2, <4>1
        <5>2. c \in chunks' /\ c.kind # "skeleton"
          BY <1>0, <1>3, <2>2, <5>1, LinesNonblank
        <5> QED
          BY <1>3, <5>1, <5>2 DEF Held, Whole
      <4>2. CASE end <= i
        <5>1. span' = span /\ at' <= i
          BY <1>0, <1>1, <1>2, <1>7, <3>2, <4>2
        <5>2. i \in at' .. span'.to
          BY <1>0, <1>2, <1>7, <3>2, <5>1
        <5> QED
          BY <1>0, <5>1, <5>2, WindowsAhead
      <4> QED
        BY <1>0, <1>2, <3>2, <4>1, <4>2
    <3> QED
      BY <1>0, <3>1, <3>2, WindowsAhead
  <2> QED
    BY <1>0, <2>1, <2>2, LinesKeptBy DEF ChunkInv
<1> QED
  BY <1>8, <1>9, <1>10, <1>11, <1>12 DEF ChunkInv

LEMMA DoneKept ==
  ASSUME ChunkInv, Windowed \/ TreeCut
  PROVE  ChunkInv'
<1>0. /\ TypeOK /\ file' = file /\ pc' = "done" /\ stack' = <<>> /\ queue' = {} /\ chunks' = chunks
      /\ span' = None /\ at' = at /\ Ahead = {}
  BY DEF ChunkInv, Windowed, TreeCut, Apart, Ahead, AheadOfWindows, AheadOfTree
<1>1. TypeOK' /\ CitationsHold' /\ Apart' /\ FramesInTree' /\ StretchesInFile'
  BY <1>0, SameFile, CitedBy DEF ChunkInv, TypeOK, Apart, FramesInTree, StretchesInFile
<1>2. NoLineLost'
  BY <1>0, LinesKeptBy, HeldGrows DEF ChunkInv
<1> QED
  BY <1>1, <1>2 DEF ChunkInv

LEMMA TreeAhead ==
  /\ pc = "tree" => \A i : i \in Ahead <=>
       \E k \in DOMAIN stack : \E n \in stack[k].left \cup stack[k].group : i \in Span(n)
  /\ pc' = "tree" => \A i : i \in Ahead' <=>
       \E k \in DOMAIN stack' : \E n \in stack'[k].left \cup stack'[k].group : i \in Span(n)'
BY DEF Ahead, AheadOfTree

FrameType == [left : SUBSET Nat, group : SUBSET Nat, top : BOOLEAN]

FrameHolds(f) == f.left \cup f.group \subseteq Nodes /\ Siblings(f.left \cup f.group)

LEMMA FramesAre ==
  ASSUME ChunkInv, pc = "tree", stack # <<>>
  PROVE  /\ This \in FrameType /\ FrameHolds(This) /\ Tail(stack) \in Seq(FrameType)
         /\ This = stack[1] /\ 1 \in DOMAIN stack
         /\ \A k \in DOMAIN Tail(stack) :
              k + 1 \in DOMAIN stack /\ Tail(stack)[k] = stack[k + 1] /\ FrameHolds(Tail(stack)[k])
         /\ \A k \in DOMAIN stack : k = 1 \/ (k - 1 \in DOMAIN Tail(stack) /\ Tail(stack)[k - 1] = stack[k])
         /\ file.last # <<>> /\ queue = {} /\ span = None /\ TypeOK
<1>1. stack \in Seq(FrameType)
  BY DEF ChunkInv, TypeOK, FrameType
<1>2. \A k \in DOMAIN stack : FrameHolds(stack[k])
  BY DEF ChunkInv, FramesInTree, FrameHolds
<1> QED
  BY <1>1, <1>2 DEF ChunkInv, Apart, This

(* A step of the walk puts frames on the rest of the stack and adds chunks. *)
LEMMA TreeStep ==
  ASSUME ChunkInv, pc = "tree", stack # <<>>,
         NEW frames, frames \in Seq(FrameType), stack' = frames \o Tail(stack),
         \A k \in DOMAIN frames : FrameHolds(frames[k]),
         UNCHANGED <<file, pc, queue, span, at>>,
         NEW more, more \in SUBSET Chunk, chunks' = chunks \cup more,
         \A c \in more : 1 <= c.first /\ c.last <= Len(file.lines) /\ c.holds \subseteq c.first .. c.last,
         \A n \in This.left \cup This.group : \A i \in Span(n) :
            \/ \E k \in DOMAIN frames : \E m \in frames[k].left \cup frames[k].group : i \in Span(m)
            \/ \E c \in more : c.kind # "skeleton" /\ i \in c.holds
            \/ i \in Nodes /\ Splits(i)
  PROVE  ChunkInv'
<1> PICK rest : rest = Tail(stack)
  OBVIOUS
<1>0. /\ rest \in Seq(FrameType) /\ stack' = frames \o rest /\ pc' = "tree" /\ file' = file
      /\ queue' = {} /\ span' = None /\ at' = at
      /\ file.last # <<>> /\ TypeOK
      /\ \A k \in DOMAIN rest : FrameHolds(rest[k])
  BY FramesAre
<1>1. /\ stack' \in Seq(FrameType)
      /\ \A k \in DOMAIN frames : k \in DOMAIN stack' /\ stack'[k] = frames[k]
      /\ \A k \in DOMAIN rest : Len(frames) + k \in DOMAIN stack' /\ stack'[Len(frames) + k] = rest[k]
      /\ \A k \in DOMAIN stack' : \/ k \in DOMAIN frames /\ stack'[k] = frames[k]
                                  \/ k - Len(frames) \in DOMAIN rest /\ stack'[k] = rest[k - Len(frames)]
  BY <1>0
<1>2. TypeOK'
  BY <1>0, <1>1, SameFile DEF TypeOK, FrameType
<1>3. CitationsHold'
  BY <1>0, CitedBy DEF ChunkInv
<1>4. Apart' /\ StretchesInFile'
  BY <1>0 DEF Apart, StretchesInFile
<1>5. FramesInTree'
  <2>1. \A k \in DOMAIN stack' : FrameHolds(stack'[k])
    BY <1>0, <1>1
  <2> QED
    BY <1>0, <2>1, SameFile DEF FramesInTree, FrameHolds
<1>6. NoLineLost'
  <2>1. ASSUME NEW i \in Ahead
        PROVE  i \in Held' \cup Ahead' \/ (i \in Nodes /\ Splits(i))
    <3>0. PICK k \in DOMAIN stack : \E n \in stack[k].left \cup stack[k].group : i \in Span(n)
      BY TreeAhead
    <3>1. PICK n \in stack[k].left \cup stack[k].group : i \in Span(n)
      BY <3>0
    <3>2. CASE k = 1
      <4>1. n \in This.left \cup This.group
        BY <3>1, <3>2, FramesAre
      <4>2. CASE \E j \in DOMAIN frames : \E m \in frames[j].left \cup frames[j].group : i \in Span(m)
        <5>1. \E j \in DOMAIN stack' : \E m \in stack'[j].left \cup stack'[j].group : i \in Span(m)'
          BY <1>0, <1>1, <4>2, SameFile
        <5> QED
          BY <1>0, <5>1, TreeAhead
      <4>3. CASE \E c \in more : c.kind # "skeleton" /\ i \in c.holds
        BY <4>3 DEF Held, Whole
      <4> QED
        BY <3>1, <4>1, <4>2, <4>3
    <3>3. CASE k # 1
      <4>1. k - 1 \in DOMAIN rest /\ rest[k - 1] = stack[k]
        BY <3>1, <3>3, FramesAre
      <4>2. \E j \in DOMAIN stack' : \E m \in stack'[j].left \cup stack'[j].group : i \in Span(m)'
        <5>1. Len(frames) + (k - 1) \in DOMAIN stack' /\ stack'[Len(frames) + (k - 1)] = stack[k]
          BY <1>1, <4>1
        <5> QED
          BY <1>0, <3>1, <5>1, SameFile
      <4> QED
        BY <1>0, <4>2, TreeAhead
    <3> QED
      BY <3>2, <3>3
  <2>2. Held \subseteq Held'
    BY HeldGrows
  <2> QED
    BY <1>0, <2>1, <2>2, LinesKeptBy DEF ChunkInv
<1> QED
  BY <1>2, <1>3, <1>4, <1>5, <1>6 DEF ChunkInv

LEMMA TreeKept ==
  ASSUME ChunkInv, CutTree
  PROVE  ChunkInv'
<1> DEFINE top == Outermost(1, Len(file.last))
<1>0. /\ TypeOK /\ file' = file /\ pc' = "tree" /\ queue' = {} /\ span' = None /\ at' = at
      /\ chunks' = chunks /\ stack' = <<Frame(top, TRUE)>> /\ file.last # <<>>
  BY DEF ChunkInv, CutTree, Apart
<1>1. Len(file.last) \in Nat /\ Nodes = 1 .. Len(file.last) /\ Nodes = FileLines
  BY <1>0, TreeType, FileType
<1>2. /\ top \in SUBSET Nodes /\ Siblings(top)
      /\ \A i \in 1 .. Len(file.last) : \E n \in top : i \in Span(n)
  BY <1>0, <1>1, OutermostCover
<1> HIDE DEF top
<1>3. Frame(top, TRUE) = [left |-> top, group |-> {}, top |-> TRUE] /\ Frame(top, TRUE) \in FrameType
  BY <1>1, <1>2 DEF Frame, FrameType
<1>4. TypeOK'
  <2>1. \A x \in FrameType : <<x>> \in Seq(FrameType)
    OBVIOUS
  <2>2. stack' \in Seq(FrameType)
    BY <1>0, <1>3, <2>1
  <2> QED
    BY <1>0, <2>2, SameFile DEF TypeOK, FrameType
<1>5. CitationsHold' /\ Apart' /\ StretchesInFile'
  BY <1>0, CitedBy DEF ChunkInv, Apart, StretchesInFile
<1>6. stack'[1].left = top /\ stack'[1].group = {} /\ DOMAIN stack' = {1}
  <2>1. \A x : <<x>>[1] = x /\ DOMAIN <<x>> = {1}
    OBVIOUS
  <2>2. stack'[1] = Frame(top, TRUE) /\ DOMAIN stack' = {1}
    BY <1>0, <2>1
  <2>3. Frame(top, TRUE).left = top /\ Frame(top, TRUE).group = {}
    BY DEF Frame
  <2> QED
    BY <2>2, <2>3
<1>7. FramesInTree'
  <2>1. FrameHolds(stack'[1])
    <3>1. stack'[1].left \cup stack'[1].group = top
      BY <1>6
    <3> QED
      BY <1>2, <3>1 DEF FrameHolds
  <2> QED
    BY <1>0, <1>6, <2>1, SameFile DEF FramesInTree, FrameHolds
<1>8. NoLineLost'
  <2>1. \A i \in FileLines : i \in Ahead'
    <3>1. ASSUME NEW i \in FileLines
          PROVE  \E n \in stack'[1].left \cup stack'[1].group : i \in Span(n)'
      <4>1. PICK n \in top : i \in Span(n)
        BY <1>1, <1>2
      <4> QED
        BY <1>0, <1>6, <4>1, SameFile
    <3>2. 1 \in DOMAIN stack'
      BY <1>6
    <3> QED
      BY <1>0, <3>1, <3>2, TreeAhead
  <2> QED
    BY <1>0, <2>1, LinesKeptBy, HeldGrows DEF ChunkInv, CutTree, Ahead
<1> QED
  BY <1>4, <1>5, <1>7, <1>8 DEF ChunkInv

LEMMA ComingIs ==
  ASSUME ChunkInv, pc = "tree", stack # <<>>, This.left # {}
  PROVE  Coming \in This.left /\ Coming \in Nodes
<1>1. This.left \in SUBSET Nat /\ This.left # {} /\ This.left \subseteq Nodes
  BY FramesAre DEF FrameType, FrameHolds
<1> QED
  BY <1>1, LeastNatural DEF Coming

LEMMA JoinKept ==
  ASSUME ChunkInv, Join
  PROVE  ChunkInv'
<1> DEFINE f == [This EXCEPT !.left = @ \ {Coming}, !.group = @ \cup {Coming}]
<1>0. pc = "tree" /\ stack # <<>> /\ This.left # {} /\ stack' = <<f>> \o Tail(stack)
      /\ UNCHANGED <<file, pc, chunks, queue, span, at>>
  BY DEF Join
<1>1. This \in FrameType /\ FrameHolds(This) /\ Coming \in This.left
  BY <1>0, FramesAre, ComingIs
<1>2. f \in FrameType /\ f.left \cup f.group = This.left \cup This.group
  BY <1>1 DEF FrameType
<1>3. FrameHolds(f)
  BY <1>1, <1>2 DEF FrameHolds
<1> HIDE DEF f
<1> PICK frames : frames = <<f>>
  OBVIOUS
<1>4. frames \in Seq(FrameType) /\ \A k \in DOMAIN frames : FrameHolds(frames[k])
  BY <1>2, <1>3
<1>5. \A n \in This.left \cup This.group : \A i \in Span(n) :
        \E k \in DOMAIN frames : \E m \in frames[k].left \cup frames[k].group : i \in Span(m)
  <2>1. 1 \in DOMAIN frames /\ frames[1] = f
    OBVIOUS
  <2> QED
    BY <1>2, <2>1
<1> PICK more : more = {}
  OBVIOUS
<1>6. chunks' = chunks \cup more /\ more \in SUBSET Chunk /\ \A c : c \notin more
  BY <1>0
<1>7. stack' = frames \o Tail(stack)
  BY <1>0
<1> QED
  BY ONLY ChunkInv, <1>0, <1>7, <1>4, <1>5, <1>6, TreeStep

LEMMA LeaveKept ==
  ASSUME ChunkInv, Leave
  PROVE  ChunkInv'
<1>0. pc = "tree" /\ stack # <<>> /\ This.left = {} /\ This.group = {} /\ stack' = Tail(stack)
      /\ UNCHANGED <<file, pc, chunks, queue, span, at>>
  BY DEF Leave
<1>1. <<>> \in Seq(FrameType) /\ stack' = <<>> \o Tail(stack) /\ DOMAIN <<>> = {} /\ chunks' = chunks \cup {}
  BY <1>0, FramesAre
<1> QED
  BY <1>0, <1>1, TreeStep

(* A node that is split puts a frame of its members on the stack, and another *)
(* becomes one chunk; the frame beside it is less the node.                   *)
LEMMA DefineKept ==
  ASSUME ChunkInv, pc = "tree", stack # <<>>, NEW n \in This.left \cup This.group,
         NEW f \in FrameType, FrameHolds(f), This.left \cup This.group \subseteq f.left \cup f.group \cup {n},
         Define(n, <<f>> \o Tail(stack)), UNCHANGED <<file, pc, queue, span, at>>
  PROVE  ChunkInv'
<1>1. n \in Nodes /\ TypeOK
  BY FramesAre DEF FrameHolds
<1>2. /\ Members(n) \in SUBSET Nodes /\ Members(n) \in SUBSET (n + 1 .. file.last[n])
      /\ Siblings(Members(n))
      /\ Members(n) # {} => \A i \in Span(n) : i = n \/ \E m \in Members(n) : i \in Span(m)
  BY <1>1, MembersCover
<1>3. /\ n \in Nat /\ 1 <= n /\ file.last[n] \in Nat /\ n <= file.last[n] /\ file.last[n] <= Len(file.lines)
      /\ Nodes \in SUBSET Nat
  BY <1>1, TreeType
<1>4. Span(n) = n .. file.last[n]
  BY DEF Span
<1>5. CASE Splits(n)
  <2> DEFINE g == Frame(Members(n), FALSE)
  <2> DEFINE more == IF file.type[n] = "class" THEN {Skeleton(n)} ELSE {}
  <2>1. stack' = <<g>> \o (<<f>> \o Tail(stack)) /\ chunks' = chunks \cup more
    BY <1>5 DEF Define
  <2>2. g = [left |-> Members(n), group |-> {}, top |-> FALSE] /\ g \in FrameType /\ g.left \cup g.group = Members(n)
    BY <1>2, <1>3 DEF Frame, FrameType
  <2>3. FrameHolds(g)
    BY <1>2, <2>2 DEF FrameHolds
  <2> HIDE DEF g
  <2>4. <<g, f>> \in Seq(FrameType) /\ DOMAIN <<g, f>> = {1, 2} /\ <<g, f>>[1] = g /\ <<g, f>>[2] = f
    BY <2>2
  <2>5. stack' = <<g, f>> \o Tail(stack)
    <3>1. \A r \in Seq(FrameType) : <<g>> \o (<<f>> \o r) = <<g, f>> \o r
      <4>1. <<g>> \in Seq(FrameType) /\ <<f>> \in Seq(FrameType) /\ <<g>> \o <<f>> = <<g, f>>
        <5>1. <<g>> \o <<f>> = <<g, f>>
          <6> DEFINE l == <<g>> \o <<f>>
          <6>1. <<g>> \in Seq(FrameType) /\ <<f>> \in Seq(FrameType) /\ Len(<<g>>) = 1 /\ Len(<<f>>) = 1
            BY <2>2
          <6>2. l \in Seq(FrameType) /\ Len(l) = 2 /\ l[1] = g /\ l[2] = f
            BY <6>1
          <6> HIDE DEF l
          <6>3. l = <<l[1], l[2]>>
            BY <6>2
          <6> QED
            BY <6>2, <6>3 DEF l
        <5>2. <<g>> \in Seq(FrameType) /\ <<f>> \in Seq(FrameType)
          BY <2>2
        <5> QED
          BY <5>1, <5>2
      <4> QED
        BY <4>1, ConcatAssociative
    <3> QED
      BY <2>1, <3>1, FramesAre
  <2>6. /\ more \in SUBSET Chunk
        /\ \A c \in more : 1 <= c.first /\ c.last <= Len(file.lines) /\ c.holds \subseteq c.first .. c.last
    <3>1. Skeleton(n) = [kind |-> "skeleton", first |-> n, last |-> file.last[n], holds |-> {n} \cup Members(n)]
      BY DEF Skeleton
    <3>2. {n} \cup Members(n) \in SUBSET Nat /\ {n} \cup Members(n) \in SUBSET (n .. file.last[n])
      BY <1>2, <1>3
    <3> QED
      BY <1>3, <3>1, <3>2 DEF Chunk
  <2> HIDE DEF more
  <2>7. ASSUME NEW m \in This.left \cup This.group, NEW i \in Span(m)
        PROVE  \/ \E k \in DOMAIN <<g, f>> : \E l \in <<g, f>>[k].left \cup <<g, f>>[k].group : i \in Span(l)
               \/ i \in Nodes /\ Splits(i)
    <3>1. CASE m # n
      BY <2>4, <3>1
    <3>2. CASE m = n
      BY <1>1, <1>2, <1>5, <2>2, <2>4, <3>2 DEF Splits
    <3> QED
      BY <3>1, <3>2
  <2>8. \A k \in DOMAIN <<g, f>> : FrameHolds(<<g, f>>[k])
    BY <2>3, <2>4
  <2> QED
    BY <2>1, <2>4, <2>5, <2>6, <2>7, <2>8, TreeStep
<1>6. CASE ~Splits(n)
  <2>1. stack' = <<f>> \o Tail(stack) /\ chunks' = chunks \cup {NodeChunk(n)}
    BY <1>6 DEF Define
  <2>2. NodeChunk(n) = [kind |-> "node", first |-> n, last |-> file.last[n], holds |-> n .. file.last[n]]
    BY <1>4 DEF NodeChunk
  <2>3. n .. file.last[n] \in SUBSET Nat
    BY <1>3
  <2>4. \A c \in {NodeChunk(n)} :
          /\ c \in Chunk /\ 1 <= c.first /\ c.last <= Len(file.lines) /\ c.holds \subseteq c.first .. c.last
          /\ c.kind # "skeleton" /\ c.holds = Span(n)
    BY <1>3, <1>4, <2>2, <2>3 DEF Chunk
  <2> PICK frames : frames = <<f>>
    OBVIOUS
  <2> PICK more : more = {NodeChunk(n)}
    OBVIOUS
  <2>5. /\ frames \in Seq(FrameType) /\ 1 \in DOMAIN frames /\ frames[1] = f
        /\ \A k \in DOMAIN frames : FrameHolds(frames[k])
    OBVIOUS
  <2>6. \A m \in This.left \cup This.group : \A i \in Span(m) :
          \/ \E k \in DOMAIN frames : \E l \in frames[k].left \cup frames[k].group : i \in Span(l)
          \/ \E c \in more : c.kind # "skeleton" /\ i \in c.holds
    BY <2>4, <2>5
  <2>7. /\ more \in SUBSET Chunk /\ chunks' = chunks \cup more /\ stack' = frames \o Tail(stack)
        /\ \A c \in more : 1 <= c.first /\ c.last <= Len(file.lines) /\ c.holds \subseteq c.first .. c.last
    BY <2>1, <2>4
  <2>8. ChunkInv /\ pc = "tree" /\ stack # <<>> /\ UNCHANGED <<file, pc, queue, span, at>>
    OBVIOUS
  <2> QED
    BY ONLY <2>5, <2>6, <2>7, <2>8, TreeStep
<1> QED
  BY <1>5, <1>6

LEMMA DefinitionKept ==
  ASSUME ChunkInv, TakeDefinition
  PROVE  ChunkInv'
<1> DEFINE f == [This EXCEPT !.left = @ \ {Coming}]
<1>0. pc = "tree" /\ stack # <<>> /\ This.left # {} /\ Define(Coming, <<f>> \o Tail(stack))
      /\ UNCHANGED <<file, pc, queue, span, at>>
  BY DEF TakeDefinition
<1>1. This \in FrameType /\ FrameHolds(This) /\ Coming \in This.left
  BY <1>0, FramesAre, ComingIs
<1>2. /\ f \in FrameType /\ f.left = This.left \ {Coming} /\ f.group = This.group
  BY <1>1 DEF FrameType
<1>3. FrameHolds(f)
  BY <1>1, <1>2 DEF FrameHolds, Siblings
<1> HIDE DEF f
<1>4. This.left \cup This.group \subseteq f.left \cup f.group \cup {Coming}
  BY <1>2
<1> QED
  BY <1>0, <1>1, <1>2, <1>3, <1>4, DefineKept

(* What lies between siblings that follow one another is in their group. *)
LEMMA GroupCovers ==
  ASSUME TypeOK, NEW S, S \in SUBSET Nodes, S # {}, Siblings(S)
  PROVE  /\ Least(S) \in S /\ Last(S) \in S
         /\ GroupChunk(Least(S), Last(S)) \in Chunk
         /\ GroupChunk(Least(S), Last(S)).first = Least(S)
         /\ GroupChunk(Least(S), Last(S)).last = file.last[Last(S)]
         /\ GroupChunk(Least(S), Last(S)).kind = "group"
         /\ GroupChunk(Least(S), Last(S)).holds = Least(S) .. file.last[Last(S)]
         /\ \A n \in S : Span(n) \subseteq GroupChunk(Least(S), Last(S)).holds
<1>1. S \in SUBSET Nat /\ S \in SUBSET (0 .. Len(file.last)) /\ Len(file.last) \in Nat
  BY TreeType
<1>2. Least(S) \in S /\ \A y \in S : Least(S) <= y
  BY <1>1, LeastNatural
<1>3. Last(S) \in S /\ \A y \in S : y <= Last(S)
  BY <1>1, LargestNatural
<1>4. \A n \in S : n \in Nat /\ file.last[n] \in Nat /\ n <= file.last[n]
  BY <1>1, TreeType
<1>5. /\ GroupChunk(Least(S), Last(S)) =
           [kind |-> "group", first |-> Least(S), last |-> file.last[Last(S)],
            holds |-> Least(S) .. file.last[Last(S)]]
      /\ Least(S) .. file.last[Last(S)] \in SUBSET Nat
  BY <1>2, <1>3, <1>4 DEF GroupChunk
<1>6. ASSUME NEW n \in S
      PROVE  Span(n) \subseteq Least(S) .. file.last[Last(S)]
  <2>1. file.last[n] <= file.last[Last(S)]
    <3>1. CASE n = Last(S)
      BY <1>4, <3>1
    <3>2. CASE n # Last(S)
      <4>1. n < Last(S)
        BY <1>3, <1>4, <3>2
      <4>2. file.last[n] < Last(S)
        BY <1>3, <4>1 DEF Siblings
      <4> QED
        BY <1>3, <1>4, <4>2
    <3> QED
      BY <3>1, <3>2
  <2> QED
    BY <1>2, <1>3, <1>4, <2>1 DEF Span
<1>7. GroupChunk(Least(S), Last(S)) \in Chunk
  BY <1>2, <1>3, <1>4, <1>5 DEF Chunk
<1> QED
  BY <1>2, <1>3, <1>5, <1>6, <1>7

LEMMA CloseKept ==
  ASSUME ChunkInv, Close
  PROVE  ChunkInv'
<1> DEFINE f == [This EXCEPT !.group = {}]
<1> DEFINE S == This.group
<1>0. pc = "tree" /\ stack # <<>> /\ S # {} /\ UNCHANGED <<file, pc, queue, span, at>>
  BY DEF Close
<1>1. This \in FrameType /\ FrameHolds(This) /\ TypeOK
  BY <1>0, FramesAre
<1>2. f \in FrameType /\ f.left = This.left /\ f.group = {}
  BY <1>1 DEF FrameType
<1>3. FrameHolds(f)
  BY <1>1, <1>2 DEF FrameHolds, Siblings
<1>4. S \in SUBSET Nodes /\ Siblings(S)
  BY <1>1 DEF FrameHolds, Siblings
<1>5. CASE ~This.top /\ \E n \in S : S = {n} /\ Size(n) > SoftMax
  <2>1. Define(Least(S), <<f>> \o Tail(stack))
    BY <1>5 DEF Close
  <2>2. PICK n : S = {n}
    BY <1>5
  <2>3. Least(S) = n
    BY <1>0, <1>1, <1>4, <2>2, GroupCovers
  <2> HIDE DEF f
  <2>4. This.left \cup This.group \subseteq f.left \cup f.group \cup {n} /\ n \in This.left \cup This.group
    BY <1>2, <2>2
  <2> QED
    BY <1>0, <1>2, <1>3, <2>1, <2>3, <2>4, DefineKept
<1>6. CASE ~(~This.top /\ \E n \in S : S = {n} /\ Size(n) > SoftMax)
  <2>0. Least(S) \in Nodes /\ Last(S) \in Nodes
    BY <1>0, <1>1, <1>4, GroupCovers
  <2> DEFINE c == GroupChunk(Least(S), Last(S))
  <2>1. chunks' = chunks \cup {c} /\ stack' = <<f>> \o Tail(stack)
    BY <1>6 DEF Close
  <2>2. c \in Chunk /\ c.kind = "group" /\ c.first = Least(S) /\ c.last = file.last[Last(S)]
        /\ c.holds = Least(S) .. file.last[Last(S)] /\ \A n \in S : Span(n) \subseteq c.holds
        /\ Least(S) \in S /\ Last(S) \in S
    BY <1>0, <1>1, <1>4, GroupCovers
  <2>3. 1 <= c.first /\ c.last <= Len(file.lines) /\ c.holds \subseteq c.first .. c.last
    <3> HIDE DEF c, S
    <3>2. 1 <= Least(S) /\ file.last[Last(S)] <= Len(file.lines)
      BY <1>1, <2>0, TreeType
    <3> QED
      BY <2>2, <3>2
  <2> HIDE DEF c, f
  <2> PICK frames : frames = <<f>>
    OBVIOUS
  <2> PICK more : more = {c}
    OBVIOUS
  <2>4. /\ frames \in Seq(FrameType) /\ 1 \in DOMAIN frames /\ frames[1] = f
        /\ \A k \in DOMAIN frames : FrameHolds(frames[k])
    BY <1>2, <1>3
  <2>5. \A n \in This.left \cup This.group : \A i \in Span(n) :
          \/ \E k \in DOMAIN frames : \E m \in frames[k].left \cup frames[k].group : i \in Span(m)
          \/ \E d \in more : d.kind # "skeleton" /\ i \in d.holds
    BY <1>2, <2>2, <2>4
  <2>6. /\ more \in SUBSET Chunk /\ chunks' = chunks \cup more /\ stack' = frames \o Tail(stack)
        /\ \A d \in more : 1 <= d.first /\ d.last <= Len(file.lines) /\ d.holds \subseteq d.first .. d.last
    BY <2>1, <2>2, <2>3
  <2> QED
    BY ONLY ChunkInv, <1>0, <2>4, <2>5, <2>6, TreeStep
<1> QED
  BY <1>5, <1>6

LEMMA NextChunk == ChunkInv /\ [Next]_vars => ChunkInv'
<1> SUFFICES ASSUME ChunkInv, [Next]_vars
             PROVE  ChunkInv'
  OBVIOUS
<1>1. CASE UNCHANGED vars
  <2>1. /\ Held' = Held /\ Ahead' = Ahead
    BY <1>1 DEF vars, Held, Whole, Ahead, AheadOfWindows, AheadOfTree, FileLines, Span
  <2>2. TypeOK' /\ CitationsHold' /\ Apart' /\ StretchesInFile' /\ FramesInTree'
    BY <1>1, SameFile
    DEF ChunkInv, vars, TypeOK, CitationsHold, Apart, StretchesInFile, FramesInTree, Blank
  <2>3. NoLineLost'
    BY <1>1, <2>1, SameFile DEF ChunkInv, NoLineLost, vars
  <2> QED
    BY <2>2, <2>3 DEF ChunkInv
<1>2. CASE Next
  BY <1>1, <1>2, MarkdownKept, DataKept, PlainKept, TakeKept, WindowKept, DoneKept, TreeKept, JoinKept,
     CloseKept, DefinitionKept, LeaveKept
  DEF Next, Done
<1> QED
  BY <1>1, <1>2

(* The chunks cut so far, the stretches and the frames together hold every *)
(* line, whatever the file and the sizes.                                  *)
THEOREM ChunkTheorem == Spec => []ChunkInv
<1> QED
  BY InitChunk, NextChunk, PTL DEF Spec

(* Every line that is not blank can be retrieved from some chunk; only the *)
(* header of a node that was split may be in none.                         *)
THEOREM LineTheorem == Spec => []EveryLineKept
<1>1. ChunkInv => EveryLineKept
  <2> SUFFICES ASSUME ChunkInv, pc = "done", NEW i \in Nonblank(FileLines)
               PROVE  \/ \E c \in Whole : i \in c.holds
                      \/ i \in Nodes /\ Splits(i)
    BY DEF EveryLineKept
  <2> QED
    BY DEF ChunkInv, NoLineLost, Ahead, Held
<1> QED
  BY <1>1, ChunkTheorem, PTL

(* The lines a chunk claims are lines of the file, and hold its text.      *)
THEOREM CitationTheorem == Spec => []CitationsHold
<1>1. ChunkInv => CitationsHold
  BY DEF ChunkInv
<1> QED
  BY <1>1, ChunkTheorem, PTL

-----------------------------------------------------------------------------
(* The audit log: the places of its pieces. *)

PieceType == [record : Made, part : Part]

LEMMA PlacesAre ==
  \A p : p \in Places <=>
    \E m \in Months : \E k \in DOMAIN book[m] : \E i \in DOMAIN book[m][k] : p = <<m, k, i>>
BY DEF Places

LEMMA PlaceOf ==
  ASSUME AuditTypeOK, NEW p \in Places
  PROVE  /\ p = <<p[1], p[2], p[3]>>
         /\ p[1] \in Months /\ p[2] \in 1 .. Len(book[p[1]]) /\ p[3] \in 1 .. Len(book[p[1]][p[2]])
         /\ book[p[1]] \in Seq(Seq(PieceType)) /\ book[p[1]][p[2]] \in Seq(PieceType)
         /\ PieceAt(p) \in PieceType
<1>1. PICK m \in Months : \E k \in DOMAIN book[m] : \E i \in DOMAIN book[m][k] : p = <<m, k, i>>
  BY PlacesAre
<1>2. PICK k \in DOMAIN book[m] : \E i \in DOMAIN book[m][k] : p = <<m, k, i>>
  BY <1>1
<1>3. PICK i \in DOMAIN book[m][k] : p = <<m, k, i>>
  BY <1>2
<1>4. p[1] = m /\ p[2] = k /\ p[3] = i
  BY <1>3
<1>5. book[m] \in Seq(Seq(PieceType)) /\ book[m][k] \in Seq(PieceType) /\ book[m][k][i] \in PieceType
  <2>1. book[m] \in Seq(Seq(PieceType))
    BY <1>1 DEF AuditTypeOK, PieceType
  <2>2. book[m][k] \in Seq(PieceType)
    BY <1>2, <2>1
  <2> QED
    BY <1>3, <2>1, <2>2
<1> QED
  BY <1>3, <1>4, <1>5 DEF PieceAt

LEMMA AppendedIs ==
  ASSUME NEW D, NEW f \in Seq(Seq(D)), f # <<>>, NEW added \in Seq(Seq(D)), added # <<>>
  PROVE  LET g == Appended(f, added)
         IN  /\ g \in Seq(Seq(D)) /\ g # <<>> /\ Len(g) = Len(f) + Len(added) - 1
             /\ \A k \in 1 .. Len(f) - 1 : g[k] = f[k]
             /\ g[Len(f)] = f[Len(f)] \o added[1]
             /\ \A j \in 2 .. Len(added) : g[Len(f) + j - 1] = added[j]
<1> DEFINE n == Len(f)
<1> DEFINE h == [f EXCEPT ![n] = @ \o added[1]]
<1>1. n \in Nat /\ n >= 1 /\ f[n] \in Seq(D) /\ added[1] \in Seq(D) /\ Len(added) \in Nat /\ Len(added) >= 1
  OBVIOUS
<1>2. f[n] \o added[1] \in Seq(D)
  BY <1>1
<1>3. h \in Seq(Seq(D)) /\ Len(h) = n /\ h[n] = f[n] \o added[1] /\ \A k \in 1 .. n - 1 : h[k] = f[k]
  <2> PICK S : S = Seq(D)
    OBVIOUS
  <2>1. f \in Seq(S) /\ f[n] \o added[1] \in S
    BY <1>2
  <2> PICK e : e = f[n] \o added[1]
    OBVIOUS
  <2>2. h = [f EXCEPT ![n] = e] /\ e \in S
    BY <2>1
  <2>3. h \in Seq(S) /\ Len(h) = n /\ h[n] = e /\ \A k \in 1 .. n - 1 : h[k] = f[k]
    <3>1. n \in 1 .. Len(f) /\ \A k \in 1 .. Len(f) : f[k] \in S
      BY <1>1, <2>1
    <3> HIDE DEF h, n
    <3>2. h \in Seq(S) /\ Len(h) = Len(f)
      BY <2>1, <2>2, <3>1
    <3>3. h[n] = e /\ \A k \in 1 .. n - 1 : h[k] = f[k]
      <4>1. \A k \in 1 .. n - 1 : k \in 1 .. Len(f) /\ k # n
        BY <1>1, <3>1
      <4>2. \A k \in 1 .. Len(f) : h[k] = IF k = n THEN e ELSE f[k]
        BY <2>1, <2>2
      <4> QED
        BY <3>1, <4>1, <4>2
    <3> QED
      BY <3>2, <3>3 DEF n
  <2> QED
    BY <2>3
<1> HIDE DEF h
<1>4. Tail(added) \in Seq(Seq(D)) /\ Len(Tail(added)) = Len(added) - 1
      /\ \A j \in 1 .. Len(added) - 1 : Tail(added)[j] = added[j + 1]
  OBVIOUS
<1> PICK t : t = Tail(added)
  OBVIOUS
<1> PICK S : S = Seq(D)
  OBVIOUS
<1>5. h \in Seq(S) /\ t \in Seq(S) /\ Len(t) = Len(added) - 1 /\ n \in Nat /\ n >= 1 /\ Len(h) = n
      /\ Len(added) \in Nat /\ Len(added) >= 1
  BY <1>1, <1>3, <1>4
<1> PICK g : g = h \o t
  OBVIOUS
<1>6. Appended(f, added) = g
  BY DEF Appended, h
<1> HIDE DEF n
<1>7. g \in Seq(S) /\ Len(g) = n + (Len(added) - 1)
      /\ \A k \in 1 .. n + (Len(added) - 1) : g[k] = IF k <= n THEN h[k] ELSE t[k - n]
  <2>1. h \o t \in Seq(S) /\ Len(h \o t) = Len(h) + Len(t)
        /\ \A i \in 1 .. Len(h) + Len(t) : (h \o t)[i] = IF i <= Len(h) THEN h[i] ELSE t[i - Len(h)]
    BY ONLY <1>5, ConcatProperties
  <2> QED
    BY <1>5, <2>1
<1>8. \A k \in 1 .. n : g[k] = h[k]
  BY <1>5, <1>7
<1>9. ASSUME NEW j \in 2 .. Len(added)
      PROVE  g[n + j - 1] = added[j]
  <2>1. /\ n + j - 1 \in 1 .. n + (Len(added) - 1) /\ ~(n + j - 1 <= n)
        /\ (n + j - 1) - n = j - 1 /\ j - 1 \in 1 .. Len(added) - 1 /\ (j - 1) + 1 = j
    BY <1>5
  <2>2. g[n + j - 1] = t[(n + j - 1) - n]
    BY <1>7, <2>1
  <2> QED
    BY <1>4, <2>1, <2>2
<1>10. g # <<>> /\ Len(g) = n + Len(added) - 1
  BY <1>5, <1>7
<1>11. \A k \in 1 .. n - 1 : g[k] = f[k]
  BY <1>3, <1>5, <1>8
<1>12. g[n] = f[n] \o added[1]
  <2>1. n \in 1 .. n /\ h[n] = f[n] \o added[1]
    BY <1>3, <1>5
  <2> QED
    BY <1>8, <2>1
<1> QED
  BY <1>6, <1>7, <1>9, <1>10, <1>11, <1>12 DEF n

(* What one write appends: at most one piece to a line, and no part twice. *)
Written(r, added) ==
  /\ added \in Seq(Seq([record : {r}, part : Part])) /\ added # <<>>
  /\ \A j \in DOMAIN added : Len(added[j]) \in {0, 1}
  /\ \A i, j \in DOMAIN added : added[i] # <<>> /\ added[j] # <<>> /\ i # j =>
       (added[i][1].part = "head") # (added[j][1].part = "head")
  /\ \A j \in DOMAIN added : added[j] # <<>> /\ added[j][1].part = "head" => j < Len(added)

LEMMA TextIsWritten ==
  ASSUME AuditTypeOK, NEW r \in Made
  PROVE  /\ \A added \in Fragments(r) : Written(r, added)
         /\ Written(r, LineOf(r)) /\ LineOf(r)[Len(LineOf(r))] = <<>>
         /\ made[r] = "plain" => LineOf(r)[1] = <<Piece(r, "all")>> /\ Len(LineOf(r)) > 1
<1> DEFINE P == [record : {r}, part : Part]
<1>1. \A part \in Part : Piece(r, part) \in P /\ Piece(r, part).part = part
  BY DEF Piece
<1>2. "all" \in Part /\ "head" \in Part /\ "tail" \in Part /\ "cut" \in Part
  BY DEF Part
<1>3. Written(r, << <<>> >>) /\ Written(r, << <<Piece(r, "cut")>> >>) /\ Written(r, << <<Piece(r, "all")>> >>)
  BY <1>1, <1>2 DEF Written
<1>4. Written(r, << <<Piece(r, "all")>>, <<>> >>)
  BY <1>1, <1>2 DEF Written
<1>5. Written(r, << <<Piece(r, "head")>>, <<Piece(r, "tail")>> >>)
  BY <1>1, <1>2 DEF Written
<1>6. Written(r, << <<Piece(r, "head")>>, <<Piece(r, "tail")>>, <<>> >>)
  BY <1>1, <1>2 DEF Written
<1>7. TextOf(r) = IF made[r] = "broken" THEN << <<Piece(r, "head")>>, <<Piece(r, "tail")>> >>
                                        ELSE << <<Piece(r, "all")>> >>
  BY DEF TextOf
<1>8. LineOf(r) = IF made[r] = "broken" THEN << <<Piece(r, "head")>>, <<Piece(r, "tail")>>, <<>> >>
                                        ELSE << <<Piece(r, "all")>>, <<>> >>
  <2>1. ASSUME NEW x \in Seq(P), NEW y \in Seq(P)
        PROVE  Append(<<x>>, <<>>) = <<x, <<>> >> /\ Append(<<x, y>>, <<>>) = <<x, y, <<>> >>
    <3> PICK S : S = Seq(P)
      OBVIOUS
    <3> PICK z : z = <<>>
      OBVIOUS
    <3>1. x \in S /\ y \in S /\ z \in S /\ <<x>> \in Seq(S) /\ <<x, y>> \in Seq(S)
      OBVIOUS
    <3> DEFINE l == Append(<<x>>, z)
    <3>2. l \in Seq(S) /\ Len(l) = 2 /\ l[1] = x /\ l[2] = z
      BY <3>1
    <3> DEFINE q == Append(<<x, y>>, z)
    <3>3. q \in Seq(S) /\ Len(q) = 3 /\ q[1] = x /\ q[2] = y /\ q[3] = z
      BY <3>1
    <3> HIDE DEF l, q
    <3>4. l = <<l[1], l[2]>> /\ q = <<q[1], q[2], q[3]>>
      BY <3>2, <3>3
    <3> QED
      BY <3>2, <3>3, <3>4 DEF l, q
  <2>2. <<Piece(r, "head")>> \in Seq(P) /\ <<Piece(r, "tail")>> \in Seq(P) /\ <<Piece(r, "all")>> \in Seq(P)
    BY <1>1, <1>2
  <2> QED
    BY <1>7, <2>1, <2>2 DEF LineOf
<1> QED
  BY <1>3, <1>4, <1>5, <1>6, <1>7, <1>8 DEF Fragments

(* Where the piece on line j of an appended text comes to stand. *)
PutDown(added, j) ==
  <<month, Len(book[month]) + j - 1, IF j = 1 THEN Len(book[month][Len(book[month])]) + 1 ELSE 1>>

LEMMA ConcatShort ==
  ASSUME NEW D, NEW a \in Seq(D), NEW b \in Seq(D), Len(b) \in {0, 1}
  PROVE  /\ Len(a \o b) = Len(a) + Len(b)
         /\ \A i \in 1 .. Len(a) : i \in DOMAIN (a \o b) /\ (a \o b)[i] = a[i]
         /\ \A i \in DOMAIN (a \o b) : i \in 1 .. Len(a) \/ (i = Len(a) + 1 /\ b # <<>>)
         /\ b # <<>> => /\ Len(a) + 1 \in DOMAIN (a \o b) /\ (a \o b)[Len(a) + 1] = b[1]
                       /\ Len(a \o b) = Len(a) + 1
<1>1. /\ a \o b \in Seq(D) /\ Len(a \o b) = Len(a) + Len(b)
      /\ \A i \in 1 .. Len(a) + Len(b) : (a \o b)[i] = IF i <= Len(a) THEN a[i] ELSE b[i - Len(a)]
  BY ConcatProperties
<1> PICK c : c = a \o b
  OBVIOUS
<1>2. Len(a) \in Nat /\ Len(b) \in Nat /\ DOMAIN c = 1 .. Len(c) /\ Len(c) = Len(a) + Len(b)
  BY <1>1
<1>3. b # <<>> => Len(b) = 1
  OBVIOUS
<1>4. Len(b) = 1 => b # <<>>
  <2>1. b = <<>> => Len(b) = 0
    OBVIOUS
  <2> QED
    BY <2>1
<1>5. \A i \in 1 .. Len(a) : i \in DOMAIN c /\ c[i] = a[i]
  BY <1>1, <1>2
<1>6. \A i \in DOMAIN c : i \in 1 .. Len(a) \/ (i = Len(a) + 1 /\ b # <<>>)
  <2>1. \A i \in 1 .. Len(a) + Len(b) : i \in 1 .. Len(a) \/ (i = Len(a) + 1 /\ Len(b) = 1)
    BY <1>2
  <2> QED
    BY <1>2, <1>4, <2>1
<1>7. b # <<>> => Len(a) + 1 \in DOMAIN c /\ c[Len(a) + 1] = b[1] /\ Len(c) = Len(a) + 1
  <2>1. Len(b) = 1 => Len(a) + 1 \in 1 .. Len(a) + Len(b) /\ (Len(a) + 1) - Len(a) = 1 /\ ~(Len(a) + 1 <= Len(a))
    BY <1>2
  <2> QED
    BY <1>1, <1>2, <1>3, <2>1
<1> QED
  BY <1>1, <1>5, <1>6, <1>7

LEMMA PlacesAppended ==
  ASSUME AuditTypeOK, NEW r \in Made, NEW added, Written(r, added), made' = made,
         book' = [book EXCEPT ![month] = Appended(@, added)]
  PROVE  /\ book' \in [Months -> Seq(Seq(PieceType))] /\ \A m \in Months : book'[m] # <<>>
         /\ \A p \in Places : /\ p \in Places' /\ PieceAt(p)' = PieceAt(p)
                              /\ Closes(p) => Closes(p)'
         /\ \A j \in DOMAIN added : \A p : added[j] # <<>> /\ p = PutDown(added, j) =>
              /\ p \in Places' /\ PieceAt(p)' = added[j][1]
              /\ j < Len(added) => Closes(p)'
         /\ \A p \in Places' : \/ p \in Places
                               \/ \E j \in DOMAIN added : added[j] # <<>> /\ p = PutDown(added, j)
<1> DEFINE f == book[month]
<1> DEFINE g == Appended(f, added)
<1> DEFINE n == Len(f)
<1>1. month \in Months /\ book \in [Months -> Seq(Seq(PieceType))] /\ f \in Seq(Seq(PieceType)) /\ f # <<>>
  BY DEF AuditTypeOK, PieceType
<1>2. added \in Seq(Seq(PieceType)) /\ added # <<>> /\ \A j \in DOMAIN added : Len(added[j]) \in {0, 1}
  <2>1. [record : {r}, part : Part] \subseteq PieceType
    BY DEF PieceType
  <2> PICK P : P = [record : {r}, part : Part]
    OBVIOUS
  <2>2. Seq(P) \subseteq Seq(PieceType)
    BY <2>1, SeqMonotonic
  <2> PICK S : S = Seq(P)
    OBVIOUS
  <2> PICK T : T = Seq(PieceType)
    OBVIOUS
  <2>3. Seq(S) \subseteq Seq(T)
    BY <2>2, SeqMonotonic
  <2>4. added \in Seq(S)
    BY DEF Written
  <2>5. added \in Seq(Seq(PieceType))
    BY <2>3, <2>4
  <2> QED
    BY <2>5 DEF Written
<1>3. /\ g \in Seq(Seq(PieceType)) /\ g # <<>> /\ Len(g) = n + Len(added) - 1
      /\ \A k \in 1 .. n - 1 : g[k] = f[k]
      /\ g[n] = f[n] \o added[1]
      /\ \A j \in 2 .. Len(added) : g[n + j - 1] = added[j]
  <2>1. f \in Seq(Seq(PieceType)) /\ f # <<>> /\ added \in Seq(Seq(PieceType)) /\ added # <<>>
    BY <1>1, <1>2
  <2> PICK F : F = f
    OBVIOUS
  <2> PICK T : T = added
    OBVIOUS
  <2> PICK P : P = PieceType
    OBVIOUS
  <2>2. F \in Seq(Seq(P)) /\ F # <<>> /\ T \in Seq(Seq(P)) /\ T # <<>>
    BY <2>1
  <2> DEFINE h == Appended(F, T)
  <2>3. /\ h \in Seq(Seq(P)) /\ h # <<>> /\ Len(h) = Len(F) + Len(T) - 1
        /\ \A k \in 1 .. Len(F) - 1 : h[k] = F[k]
        /\ h[Len(F)] = F[Len(F)] \o T[1]
        /\ \A j \in 2 .. Len(T) : h[Len(F) + j - 1] = T[j]
    BY ONLY <2>2, AppendedIs
  <2> HIDE DEF h
  <2>4. h = g
    BY DEF h
  <2> QED
    BY <2>3, <2>4
<1>4. book' = [m \in Months |-> IF m = month THEN g ELSE book[m]]
  BY <1>1
<1>0. book[month] = f /\ Len(f) = n
  OBVIOUS
<1> HIDE DEF f, g, n
<1>5. n \in Nat /\ n >= 1 /\ Len(added) \in Nat /\ Len(added) >= 1 /\ f[n] \in Seq(PieceType)
      /\ added[1] \in Seq(PieceType) /\ DOMAIN added = 1 .. Len(added) /\ DOMAIN f = 1 .. n
      /\ DOMAIN g = 1 .. Len(g)
  BY <1>0, <1>1, <1>2, <1>3
<1>12. \A j \in 1 .. n - 1 : j \in DOMAIN f /\ g[j] = f[j]
  BY <1>3, <1>5
<1>6. book' \in [Months -> Seq(Seq(PieceType))] /\ \A m \in Months : book'[m] # <<>>
  BY <1>1, <1>3, <1>4 DEF AuditTypeOK
<1>7. Months' = Months
  BY DEF Months
<1>8. /\ Len(g[n]) = Len(f[n]) + Len(added[1])
      /\ \A i \in 1 .. Len(f[n]) : i \in DOMAIN g[n] /\ g[n][i] = f[n][i]
      /\ \A i \in DOMAIN g[n] : i \in 1 .. Len(f[n]) \/ (i = Len(f[n]) + 1 /\ added[1] # <<>>)
      /\ added[1] # <<>> => /\ Len(f[n]) + 1 \in DOMAIN g[n] /\ g[n][Len(f[n]) + 1] = added[1][1]
                           /\ Len(g[n]) = Len(f[n]) + 1
  <2>1. Len(added[1]) \in {0, 1} /\ g[n] = f[n] \o added[1]
    <3>1. 1 \in DOMAIN added
      BY <1>5
    <3> QED
      BY <1>2, <1>3, <3>1
  <2> PICK a : a = f[n]
    OBVIOUS
  <2> PICK b : b = added[1]
    OBVIOUS
  <2>2. a \in Seq(PieceType) /\ b \in Seq(PieceType) /\ Len(b) \in {0, 1}
    BY <1>5, <2>1
  <2>3. /\ Len(a \o b) = Len(a) + Len(b)
        /\ \A i \in 1 .. Len(a) : i \in DOMAIN (a \o b) /\ (a \o b)[i] = a[i]
        /\ \A i \in DOMAIN (a \o b) : i \in 1 .. Len(a) \/ (i = Len(a) + 1 /\ b # <<>>)
        /\ b # <<>> => /\ Len(a) + 1 \in DOMAIN (a \o b) /\ (a \o b)[Len(a) + 1] = b[1]
                      /\ Len(a \o b) = Len(a) + 1
    BY ONLY <2>2, ConcatShort
  <2> QED
    BY <2>1, <2>3
<1>9. ASSUME NEW p \in Places
      PROVE  p \in Places' /\ PieceAt(p)' = PieceAt(p) /\ (Closes(p) => Closes(p)')
  <2>1. /\ p = <<p[1], p[2], p[3]>> /\ p[1] \in Months
        /\ p[2] \in 1 .. Len(book[p[1]]) /\ p[3] \in 1 .. Len(book[p[1]][p[2]])
    BY PlaceOf
  <2>2. /\ p[2] \in 1 .. Len(book'[p[1]]) /\ p[3] \in DOMAIN book'[p[1]][p[2]]
        /\ book'[p[1]][p[2]][p[3]] = book[p[1]][p[2]][p[3]]
        /\ Closes(p) => p[2] < Len(book'[p[1]]) /\ p[3] = Len(book'[p[1]][p[2]])
    <3>1. CASE p[1] # month
      BY <1>1, <1>4, <2>1, <3>1 DEF Closes
    <3>2. CASE p[1] = month /\ p[2] # n
      <4>1. p[2] \in 1 .. n - 1 /\ p[2] \in 1 .. Len(g)
        <5>1. p[2] \in 1 .. n /\ p[2] # n
          BY <1>0, <2>1, <3>2
        <5>2. Len(g) \in Nat /\ n <= Len(g)
          BY <1>3, <1>5
        <5> QED
          BY <1>5, <5>1, <5>2
      <4>2. book'[p[1]] = g /\ g[p[2]] = f[p[2]] /\ book[p[1]] = f
        BY <1>0, <1>1, <1>3, <1>4, <3>2, <4>1
      <4>3. p[2] < Len(g)
        BY <1>3, <1>5, <4>1
      <4>4. p[3] \in DOMAIN f[p[2]]
        <5>1. f[p[2]] \in Seq(PieceType)
          BY <1>1, <1>5, <4>1
        <5> QED
          BY <2>1, <4>2, <5>1
      <4> QED
        BY <4>1, <4>2, <4>3, <4>4 DEF Closes
    <3>3. CASE p[1] = month /\ p[2] = n
      <4>1. n \in 1 .. Len(g)
        BY <1>3, <1>5
      <4>2. book'[p[1]] = g /\ book[p[1]] = f /\ p[3] \in 1 .. Len(f[n])
        BY <1>0, <1>1, <1>4, <2>1, <3>3
      <4>3. ~Closes(p)
        BY <1>0, <3>3, <4>2 DEF Closes
      <4> QED
        BY <1>8, <3>3, <4>1, <4>2, <4>3
    <3> QED
      BY <3>1, <3>2, <3>3
  <2>3. p[2] \in DOMAIN book'[p[1]]
    BY <1>6, <2>1, <2>2
  <2>4. p \in Places'
    BY <1>7, <2>1, <2>2, <2>3 DEF Places
  <2> QED
    BY <2>2, <2>4 DEF PieceAt, Closes
<1>10. ASSUME NEW j \in DOMAIN added, added[j] # <<>>, NEW p, p = PutDown(added, j)
       PROVE  /\ p \in Places' /\ PieceAt(p)' = added[j][1]
              /\ j < Len(added) => Closes(p)'
  <2> DEFINE k == n + j - 1
  <2> DEFINE i == IF j = 1 THEN Len(f[n]) + 1 ELSE 1
  <2>1. p = <<month, k, i>>
    BY <1>0, <1>10 DEF PutDown
  <2>2. k \in 1 .. Len(g) /\ (j < Len(added) => k < Len(g))
    <3>1. j \in 1 .. Len(added) /\ Len(g) = n + Len(added) - 1
      BY <1>3, <1>5
    <3> HIDE DEF i
    <3> QED
      BY <1>5, <3>1
  <2>3. /\ i \in DOMAIN g[k] /\ g[k][i] = added[j][1] /\ i = Len(g[k])
    <3>1. CASE j = 1
      <4>1. k = n /\ i = Len(f[n]) + 1
        BY <1>5, <3>1
      <4> HIDE DEF k, i
      <4> QED
        BY <1>8, <1>10, <3>1, <4>1
    <3>2. CASE j # 1
      <4>1. j \in 2 .. Len(added) /\ i = 1
        BY <1>5, <3>2
      <4>2. g[k] = added[j] /\ added[j] \in Seq(PieceType) /\ Len(added[j]) = 1
        BY <1>2, <1>3, <1>10, <4>1
      <4> QED
        BY <4>1, <4>2
    <3> QED
      BY <3>1, <3>2
  <2> HIDE DEF k, i
  <2>4. book'[month] = g /\ k \in DOMAIN book'[month]
    BY <1>1, <1>4, <1>5, <2>2
  <2>5. <<month, k, i>> \in Places'
    BY <1>1, <1>7, <2>3, <2>4 DEF Places
  <2>6. /\ book'[p[1]][p[2]][p[3]] = added[j][1]
        /\ j < Len(added) => /\ p[2] < Len(book'[p[1]])
                            /\ p[3] = Len(book'[p[1]][p[2]])
    BY <2>1, <2>2, <2>3, <2>4
  <2>8. PieceAt(p)' = book'[p[1]][p[2]][p[3]] /\ Closes(p)' = (p[2] < Len(book'[p[1]]) /\ p[3] = Len(book'[p[1]][p[2]]))
    BY DEF PieceAt, Closes
  <2> QED
    BY <2>1, <2>5, <2>6, <2>8
<1>11. ASSUME NEW p \in Places'
       PROVE  p \in Places \/ \E j \in DOMAIN added : added[j] # <<>> /\ p = PutDown(added, j)
  <2>1. PICK m \in Months : \E k \in DOMAIN book'[m] : \E i \in DOMAIN book'[m][k] : p = <<m, k, i>>
    BY <1>7 DEF Places
  <2>2. PICK k \in DOMAIN book'[m] : \E i \in DOMAIN book'[m][k] : p = <<m, k, i>>
    BY <2>1
  <2>3. PICK i \in DOMAIN book'[m][k] : p = <<m, k, i>>
    BY <2>2
  <2>4. CASE m # month
    <3>1. book'[m] = book[m]
      BY <1>4, <2>4
    <3> QED
      BY <2>2, <2>3, <3>1, PlacesAre
  <2>5. CASE m = month /\ k < n
    <3>1. book'[m] = g /\ k \in 1 .. n - 1
      BY <1>1, <1>4, <1>5, <2>2, <2>5
    <3>2. book'[m][k] = f[k] /\ k \in DOMAIN f
      BY <1>12, <3>1
    <3> QED
      BY <1>0, <1>1, <2>3, <2>5, <3>1, <3>2, PlacesAre
  <2>6. CASE m = month /\ k = n
    <3>1. book'[m] = g /\ n \in DOMAIN f
      BY <1>1, <1>4, <1>5, <2>6
    <3>2. CASE i \in 1 .. Len(f[n])
      <4>1. i \in DOMAIN f[n]
        BY <1>5, <3>2
      <4> QED
        BY <1>0, <1>1, <2>3, <2>6, <3>1, <4>1, PlacesAre
    <3>3. CASE i = Len(f[n]) + 1 /\ added[1] # <<>>
      <4>1. n + 1 - 1 = n /\ 1 \in DOMAIN added
        BY <1>5
      <4>2. p = PutDown(added, 1)
        BY <1>0, <2>3, <2>6, <3>3, <4>1 DEF PutDown
      <4> QED
        BY <3>3, <4>1, <4>2
    <3> QED
      BY <1>8, <2>3, <2>6, <3>1, <3>2, <3>3
  <2>7. CASE m = month /\ k > n
    <3>1. book'[m] = g /\ k \in 1 .. n + Len(added) - 1 /\ k > n
      BY <1>1, <1>3, <1>4, <1>5, <2>2, <2>7
    <3> DEFINE j == k - n + 1
    <3>2. j \in 2 .. Len(added) /\ n + j - 1 = k
      BY <1>5, <3>1
    <3> HIDE DEF j
    <3>3. g[k] = added[j] /\ j \in DOMAIN added /\ j # 1
      BY <1>3, <1>5, <3>2
    <3>4. Len(added[j]) \in {0, 1} /\ added[j] \in Seq(PieceType)
      BY <1>2, <3>3
    <3>5. i \in DOMAIN added[j]
      BY <2>3, <3>1, <3>3
    <3>6. i = 1 /\ added[j] # <<>>
      BY <3>4, <3>5
    <3>7. p = PutDown(added, j)
      BY <1>0, <2>3, <2>7, <3>2, <3>3, <3>6 DEF PutDown
    <3> QED
      BY <3>3, <3>6, <3>7
  <2>8. m = month => k \in Nat
    <3>1. m = month => DOMAIN book'[m] = 1 .. Len(g)
      BY <1>1, <1>4, <1>5
    <3> QED
      BY <2>2, <3>1
  <2> QED
    BY <1>5, <2>4, <2>5, <2>6, <2>7, <2>8
<1> QED
  BY <1>6, <1>9, <1>10, <1>11

LEMMA InitAudit == AuditInit => AuditInv
<1> SUFFICES ASSUME AuditInit
             PROVE  AuditInv
  OBVIOUS
<1>1. Made = {}
  BY DEF AuditInit, Made
<1>2. book \in [Months -> Seq(Seq(PieceType))] /\ \A m \in Months : book[m] = << <<>> >> /\ book[m] # <<>>
  BY DEF AuditInit
<1>3. AuditTypeOK
  BY <1>1, <1>2, AuditAssumption DEF AuditInit, AuditTypeOK, Months, PieceType, Nothing
<1>4. Places = {}
  BY <1>2 DEF Places
<1>5. Unwritten
  BY DEF AuditInit, Unwritten
<1>6. Readable = {}
  BY <1>1 DEF Readable
<1> QED
  BY <1>3, <1>4, <1>5, <1>6 DEF AuditInv, WrittenOnce, TornInside, ReadableEnds

(* While no file changes, the places and what they hold are the same. *)
LEMMA SameBook ==
  ASSUME book' = book
  PROVE  Places' = Places /\ \A p : PieceAt(p)' = PieceAt(p) /\ Closes(p)' = Closes(p) /\ IsHead(p)' = IsHead(p)
BY DEF Places, PieceAt, Closes, IsHead, Months

LEMMA SameBookKept ==
  ASSUME AuditInv, book' = book, torn' = torn, Readable' \subseteq Readable
  PROVE  WrittenOnce' /\ TornInside' /\ ReadableEnds'
BY SameBook DEF AuditInv, WrittenOnce, TornInside, ReadableEnds

LEMMA StampKept ==
  ASSUME AuditInv, NEW w \in Writers, NEW added \in TextKinds, Stamp(w, added)
  PROVE  AuditInv'
<1> DEFINE new == Len(made) + 1
<1>1. /\ made \in Seq(TextKinds) /\ told \in Seq({"pending", "written", "failed", "raised"}) /\ Len(told) = Len(made)
      /\ made' = Append(made, added) /\ told' = Append(told, "pending")
      /\ writing' = [writing EXCEPT ![w] = [record |-> new, month |-> month]]
      /\ month' = month /\ book' = book /\ torn' = torn /\ AuditTypeOK
  BY DEF Stamp, AuditInv, AuditTypeOK
<1>2. /\ made' \in Seq(TextKinds) /\ told' \in Seq({"pending", "written", "failed", "raised"})
      /\ Len(told') = Len(made') /\ Len(made) \in Nat /\ Made = 1 .. Len(made) /\ Made' = 1 .. new
      /\ \A r \in Made : made'[r] = made[r] /\ told'[r] = told[r]
      /\ told'[new] = "pending"
  BY <1>1 DEF Made
<1> HIDE DEF new
<1>3. Made \subseteq Made' /\ new \in Made' /\ new \notin Made /\ Months' = Months
  BY <1>2 DEF new, Months
<1>4. AuditTypeOK'
  <2>1. [record : Made, part : Part] \subseteq [record : Made', part : Part]
    BY <1>3
  <2>2. book \in [Months -> Seq(Seq([record : Made', part : Part]))]
    <3> PICK P : P = [record : Made, part : Part]
      OBVIOUS
    <3> PICK Q : Q = [record : Made', part : Part]
      OBVIOUS
    <3>1. Seq(P) \subseteq Seq(Q)
      BY <2>1, SeqMonotonic
    <3> PICK S : S = Seq(P)
      OBVIOUS
    <3> PICK T : T = Seq(Q)
      OBVIOUS
    <3>2. Seq(S) \subseteq Seq(T)
      BY <3>1, SeqMonotonic
    <3>3. book \in [Months -> Seq(S)]
      BY <1>1 DEF AuditTypeOK
    <3>4. book \in [Months -> Seq(T)]
      BY <3>2, <3>3
    <3> QED
      BY <3>4
  <2>3. writing' \in [Writers -> {Nothing} \cup [record : Made', month : Months]]
    BY <1>1, <1>3 DEF AuditTypeOK
  <2> QED
    BY <1>1, <1>2, <1>3, <2>2, <2>3 DEF AuditTypeOK
<1>5. ASSUME NEW p \in Places
      PROVE  PieceAt(p).record \in Made
  BY <1>1, PlaceOf DEF PieceType
<1>6. \A v \in Writers : v # w => writing'[v] = writing[v]
  BY <1>1 DEF AuditTypeOK
<1>7. writing'[w].record = new
  BY <1>1 DEF AuditTypeOK
<1>8. \A v \in Writers : writing[v] # Nothing => writing[v].record \in Made
  BY <1>1 DEF AuditTypeOK
<1>9. Unwritten'
  <2>1. ASSUME NEW v \in Writers, writing'[v] # Nothing
        PROVE  /\ writing'[v].record \notin torn' /\ told'[writing'[v].record] = "pending"
               /\ \A u \in Writers : writing'[u] # Nothing /\ u # v => writing'[u].record # writing'[v].record
               /\ \A p \in Places' : PieceAt(p)'.record # writing'[v].record
    <3>1. CASE v = w
      <4>1. new \notin torn
        BY <1>1, <1>3 DEF AuditTypeOK
      <4> QED
        <5>1. writing'[v].record = new /\ told'[new] = "pending" /\ new \notin torn'
          BY <1>1, <1>2, <1>7, <3>1, <4>1
        <5>2. \A p \in Places' : PieceAt(p)'.record # new
          BY <1>1, <1>3, <1>5, SameBook
        <5>3. \A u \in Writers : writing'[u] # Nothing /\ u # v => writing'[u].record # new
          <6>1. ASSUME NEW u \in Writers, writing'[u] # Nothing, u # w
                PROVE  writing'[u].record \in Made
            <7>1. writing'[u] = writing[u]
              BY <1>6, <6>1
            <7> QED
              BY <1>8, <6>1, <7>1
          <6> QED
            BY <1>3, <3>1, <6>1 DEF Nothing
        <5> QED
          BY <5>1, <5>2, <5>3
    <3>2. CASE v # w
      <4>1. writing'[v] = writing[v] /\ writing[v].record \in Made /\ writing[v] # Nothing
        BY <1>6, <1>8, <2>1, <3>2
      <4>2. /\ writing[v].record \notin torn /\ told[writing[v].record] = "pending"
            /\ \A u \in Writers : writing[u] # Nothing /\ u # v => writing[u].record # writing[v].record
            /\ \A p \in Places : PieceAt(p).record # writing[v].record
        BY <4>1 DEF AuditInv, Unwritten
      <4> QED
        BY <1>1, <1>2, <1>3, <1>6, <1>7, <4>1, <4>2, SameBook
    <3> QED
      BY <3>1, <3>2
  <2> QED
    BY <2>1 DEF Unwritten, Nothing
<1>10. Readable' \subseteq Readable
  <2>1. \A r \in Made' : r = new \/ r \in Made
    BY <1>2 DEF new
  <2> QED
    BY <1>1, <1>2, <2>1 DEF Readable
<1> QED
  BY <1>1, <1>4, <1>9, <1>10, SameBookKept DEF AuditInv

(* A process lets go of its record. *)
LEMMA LetGo ==
  ASSUME AuditInv, NEW w \in Writers, writing[w] # Nothing, Free(w), NEW what \in {"written", "failed", "raised", "pending"},
         Told(writing[w].record, what), made' = made, month' = month
  PROVE  /\ writing' \in [Writers -> {Nothing} \cup [record : Made, month : Months]]
         /\ told' \in Seq({"pending", "written", "failed", "raised"}) /\ Len(told') = Len(made)
         /\ Made' = Made /\ Months' = Months /\ writing[w].record \in Made
         /\ \A r \in Made : r # writing[w].record => told'[r] = told[r]
         /\ told'[writing[w].record] = what
         /\ \A v \in Writers : writing'[v] # Nothing =>
              /\ v # w /\ writing'[v] = writing[v] /\ writing[v].record # writing[w].record
              /\ writing[v].record \in Made
<1>1. AuditTypeOK /\ Unwritten
  BY DEF AuditInv
<1>2. writing[w].record \in Made /\ Made = DOMAIN told
  BY <1>1 DEF AuditTypeOK, Made
<1>3. /\ told' \in Seq({"pending", "written", "failed", "raised"}) /\ Len(told') = Len(told)
      /\ told'[writing[w].record] = what
      /\ \A r \in Made : r # writing[w].record => told'[r] = told[r]
  <2> PICK k : k = writing[w].record
    OBVIOUS
  <2>1. told' = [told EXCEPT ![k] = what] /\ k \in DOMAIN told
    BY <1>2 DEF Told
  <2> QED
    BY <1>1, <1>2, <2>1 DEF AuditTypeOK
<1>4. writing' = [writing EXCEPT ![w] = Nothing]
  BY DEF Free
<1> QED
  BY <1>1, <1>2, <1>3, <1>4 DEF AuditTypeOK, Unwritten, Made, Months

LEMMA NotWrittenKept ==
  ASSUME AuditInv, NEW w \in Writers, EncodingFails(w) \/ OpenFails(w)
  PROVE  AuditInv'
<1>1. PICK what \in {"failed", "raised"} :
        /\ writing[w] # Nothing /\ Told(writing[w].record, what) /\ Free(w)
        /\ month' = month /\ book' = book /\ made' = made /\ torn' = torn
  BY DEF EncodingFails, OpenFails
<1>2. /\ writing' \in [Writers -> {Nothing} \cup [record : Made, month : Months]]
      /\ told' \in Seq({"pending", "written", "failed", "raised"}) /\ Len(told') = Len(made)
      /\ Made' = Made /\ Months' = Months /\ writing[w].record \in Made
      /\ \A r \in Made : r # writing[w].record => told'[r] = told[r]
      /\ told'[writing[w].record] = what
      /\ \A v \in Writers : writing'[v] # Nothing =>
           /\ v # w /\ writing'[v] = writing[v] /\ writing[v].record # writing[w].record
           /\ writing[v].record \in Made
  BY <1>1, LetGo
<1>3. AuditTypeOK'
  BY <1>1, <1>2 DEF AuditInv, AuditTypeOK
<1>4. Unwritten'
  BY <1>1, <1>2, SameBook DEF AuditInv, Unwritten, Nothing
<1>5. Readable' \subseteq Readable
  BY <1>1, <1>2 DEF Readable
<1> QED
  BY <1>1, <1>3, <1>4, <1>5, SameBookKept DEF AuditInv

(* A write of a whole line, or of what is left of one. *)
LEMMA WriteKept ==
  ASSUME AuditInv, NEW w \in Writers, writing[w] # Nothing, Free(w),
         NEW what \in {"written", "failed", "pending"}, Told(writing[w].record, what),
         made' = made, month' = month,
         NEW added, Written(writing[w].record, added),
         book' = [book EXCEPT ![month] = Appended(@, added)],
         \/ torn' = torn /\ added[Len(added)] = <<>>
            /\ (made[writing[w].record] = "plain" =>
                  added[1] = <<Piece(writing[w].record, "all")>> /\ Len(added) > 1)
         \/ torn' = torn \cup {writing[w].record}
  PROVE  AuditInv'
<1> PICK r : r = writing[w].record
  OBVIOUS
<1>0. AuditTypeOK /\ Unwritten
  BY DEF AuditInv
<1>1. /\ writing' \in [Writers -> {Nothing} \cup [record : Made, month : Months]]
      /\ told' \in Seq({"pending", "written", "failed", "raised"}) /\ Len(told') = Len(made)
      /\ Made' = Made /\ Months' = Months /\ r \in Made
      /\ \A x \in Made : x # r => told'[x] = told[x]
      /\ told'[r] = what
      /\ \A v \in Writers : writing'[v] # Nothing =>
           /\ v # w /\ writing'[v] = writing[v] /\ writing[v].record # r
           /\ writing[v].record \in Made
  BY LetGo
<1>2. /\ book' \in [Months -> Seq(Seq(PieceType))] /\ \A m \in Months : book'[m] # <<>>
      /\ \A p \in Places : /\ p \in Places' /\ PieceAt(p)' = PieceAt(p)
                           /\ Closes(p) => Closes(p)'
      /\ \A j \in DOMAIN added : \A p : added[j] # <<>> /\ p = PutDown(added, j) =>
           /\ p \in Places' /\ PieceAt(p)' = added[j][1]
           /\ j < Len(added) => Closes(p)'
      /\ \A p \in Places' : \/ p \in Places
                            \/ \E j \in DOMAIN added : added[j] # <<>> /\ p = PutDown(added, j)
  <2>1. r \in Made /\ Written(r, added) /\ made' = made /\ book' = [book EXCEPT ![month] = Appended(@, added)]
    BY <1>1
  <2> QED
    BY ONLY <1>0, <2>1, PlacesAppended
<1>3. /\ Len(added) \in Nat /\ Len(added) >= 1 /\ DOMAIN added = 1 .. Len(added)
      /\ \A i, j \in DOMAIN added : added[i] # <<>> /\ added[j] # <<>> /\ i # j =>
           (added[i][1].part = "head") # (added[j][1].part = "head")
      /\ \A j \in DOMAIN added : added[j] # <<>> /\ added[j][1].part = "head" => j < Len(added)
      /\ \A j \in DOMAIN added : added[j] # <<>> => added[j][1].record = r
  <2> PICK P : P = [record : {r}, part : Part]
    OBVIOUS
  <2>1. added \in Seq(Seq(P)) /\ added # <<>>
    BY DEF Written
  <2>2. \A j \in DOMAIN added : added[j] \in Seq(P)
    BY <2>1
  <2>3. ASSUME NEW s \in Seq(P), s # <<>>
        PROVE  s[1] \in P
    <3>1. 1 \in 1 .. Len(s)
      BY <2>3
    <3> QED
      BY <3>1, ElementOfSeq
  <2>4. \A j \in DOMAIN added : added[j] # <<>> => added[j][1].record = r
    BY <2>2, <2>3
  <2>5. Len(added) \in Nat /\ Len(added) >= 1 /\ DOMAIN added = 1 .. Len(added)
    BY <2>1
  <2> QED
    BY <2>4, <2>5 DEF Written
<1>4. \A p \in Places : PieceAt(p).record # r
  BY <1>0 DEF Unwritten
<1>5. torn' = torn \/ torn' = torn \cup {r}
  OBVIOUS
<1>6. AuditTypeOK'
  BY <1>0, <1>1, <1>2, <1>5 DEF AuditTypeOK, PieceType
<1>7. Unwritten'
  <2>1. ASSUME NEW v \in Writers, writing'[v] # Nothing
        PROVE  /\ writing'[v].record \notin torn' /\ told'[writing'[v].record] = "pending"
               /\ \A u \in Writers : writing'[u] # Nothing /\ u # v => writing'[u].record # writing'[v].record
               /\ \A p \in Places' : PieceAt(p)'.record # writing'[v].record
    <3>1. v # w /\ writing'[v] = writing[v] /\ writing[v].record # r /\ writing[v].record \in Made
      BY <1>1, <2>1
    <3>2. /\ writing[v].record \notin torn /\ told[writing[v].record] = "pending"
          /\ \A u \in Writers : writing[u] # Nothing /\ u # v => writing[u].record # writing[v].record
          /\ \A p \in Places : PieceAt(p).record # writing[v].record
      BY <1>0, <2>1, <3>1 DEF Unwritten
    <3>3. \A u \in Writers : writing'[u] # Nothing /\ u # v => writing'[u].record # writing'[v].record
      BY <1>1, <3>1, <3>2
    <3>4. \A p \in Places' : PieceAt(p)'.record # writing'[v].record
      <4>1. ASSUME NEW p \in Places'
            PROVE  PieceAt(p)'.record # writing[v].record
        <5>1. CASE p \in Places
          BY <1>2, <3>2, <5>1
        <5>2. CASE p \notin Places
          <6>1. PICK j \in DOMAIN added : added[j] # <<>> /\ p = PutDown(added, j)
            BY <1>2, <5>2
          <6>2. PieceAt(p)' = added[j][1] /\ added[j][1].record = r
            BY <1>2, <1>3, <6>1
          <6> QED
            BY <3>1, <6>2
        <5> QED
          BY <5>1, <5>2
      <4> QED
        BY <3>1, <4>1
    <3> QED
      BY <1>1, <1>5, <3>1, <3>2, <3>3, <3>4
  <2> QED
    BY <2>1 DEF Unwritten, Nothing
<1>8. ASSUME NEW p \in Places', p \notin Places
      PROVE  \E j \in DOMAIN added : /\ added[j] # <<>> /\ p = PutDown(added, j) /\ PieceAt(p)' = added[j][1]
                                    /\ PieceAt(p)'.record = r /\ (j < Len(added) => Closes(p)')
  BY <1>2, <1>3, <1>8
<1>9. WrittenOnce'
  <2>1. ASSUME NEW p \in Places', NEW q \in Places', PieceAt(p)'.record = PieceAt(q)'.record,
               (PieceAt(p)'.part = "head") = (PieceAt(q)'.part = "head")
        PROVE  p = q
    <3>1. CASE p \in Places /\ q \in Places
      <4>1. PieceAt(p).record = PieceAt(q).record /\ (IsHead(p) <=> IsHead(q))
        BY <1>2, <2>1, <3>1 DEF IsHead
      <4> QED
        BY <3>1, <4>1 DEF AuditInv, WrittenOnce
    <3>2. CASE p \in Places /\ q \notin Places
      BY <1>2, <1>4, <1>8, <2>1, <3>2
    <3>3. CASE p \notin Places /\ q \in Places
      BY <1>2, <1>4, <1>8, <2>1, <3>3
    <3>4. CASE p \notin Places /\ q \notin Places
      <4>1. PICK i \in DOMAIN added : added[i] # <<>> /\ p = PutDown(added, i) /\ PieceAt(p)' = added[i][1]
        BY <1>8, <3>4
      <4>2. PICK j \in DOMAIN added : added[j] # <<>> /\ q = PutDown(added, j) /\ PieceAt(q)' = added[j][1]
        BY <1>8, <3>4
      <4>3. i = j
        BY <1>3, <2>1, <4>1, <4>2
      <4> QED
        BY <4>1, <4>2, <4>3
    <3> QED
      BY <3>1, <3>2, <3>3, <3>4
  <2> QED
    BY <2>1 DEF WrittenOnce, IsHead
<1>10. TornInside'
  <2>1. ASSUME NEW p \in Places', ~Closes(p)'
        PROVE  PieceAt(p)'.record \in torn' /\ PieceAt(p)'.part # "head"
    <3>1. CASE p \in Places
      <4>1. ~Closes(p) /\ PieceAt(p)' = PieceAt(p)
        BY <1>2, <2>1, <3>1
      <4>2. PieceAt(p).record \in torn /\ ~IsHead(p)
        BY <3>1, <4>1 DEF AuditInv, TornInside
      <4> QED
        BY <1>5, <4>1, <4>2 DEF IsHead
    <3>2. CASE p \notin Places
      <4>1. PICK j \in DOMAIN added : /\ added[j] # <<>> /\ PieceAt(p)' = added[j][1]
                                     /\ PieceAt(p)'.record = r /\ (j < Len(added) => Closes(p)')
        BY <1>8, <3>2
      <4>2. j = Len(added)
        BY <1>3, <2>1, <4>1
      <4>3. r \in torn'
        BY <4>1, <4>2
      <4> QED
        BY <1>3, <4>1, <4>2, <4>3
    <3> QED
      BY <3>1, <3>2
  <2> QED
    BY <2>1 DEF TornInside, IsHead
<1>11. ReadableEnds'
  <2>1. ASSUME NEW x \in Readable'
        PROVE  \E p \in Places' : Closes(p)' /\ PieceAt(p)' = Piece(x, "all")
    <3>1. x \in Made /\ told'[x] = "written" /\ made[x] = "plain" /\ x \notin torn'
      BY <1>1, <2>1 DEF Readable
    <3>2. CASE x # r
      <4>1. x \in Readable
        BY <1>1, <1>5, <3>1, <3>2 DEF Readable
      <4>2. PICK p \in Places : Closes(p) /\ PieceAt(p) = Piece(x, "all")
        BY <4>1 DEF AuditInv, ReadableEnds
      <4> QED
        BY <1>2, <4>2
    <3>3. CASE x = r
      <4>1. added[1] = <<Piece(r, "all")>> /\ Len(added) > 1
        BY <3>1, <3>3
      <4>2. 1 \in DOMAIN added /\ added[1] # <<>> /\ added[1][1] = Piece(r, "all")
        BY <1>3, <4>1
      <4>3. \A p : p = PutDown(added, 1) => p \in Places' /\ PieceAt(p)' = Piece(r, "all") /\ Closes(p)'
        BY <1>2, <4>1, <4>2
      <4> QED
        BY <3>3, <4>3
    <3> QED
      BY <3>2, <3>3
  <2> QED
    BY <2>1 DEF ReadableEnds, Piece
<1> QED
  BY <1>6, <1>7, <1>9, <1>10, <1>11 DEF AuditInv

LEMMA AppendKept ==
  ASSUME AuditInv, NEW w \in Writers, AppendLine(w)
  PROVE  AuditInv'
<1> DEFINE r == writing[w].record
<1>1. PICK what \in {"written", "failed"} : Told(r, what)
  BY DEF AppendLine
<1>2. /\ writing[w] # Nothing /\ Free(w) /\ made' = made /\ month' = month /\ torn' = torn
      /\ book' = [book EXCEPT ![month] = Appended(@, LineOf(r))]
  BY DEF AppendLine
<1>3. r \in Made /\ AuditTypeOK
  BY <1>2 DEF AuditInv, AuditTypeOK
<1>4. /\ Written(r, LineOf(r)) /\ LineOf(r)[Len(LineOf(r))] = <<>>
      /\ made[r] = "plain" => LineOf(r)[1] = <<Piece(r, "all")>> /\ Len(LineOf(r)) > 1
  BY <1>3, TextIsWritten
<1> QED
  BY <1>1, <1>2, <1>4, WriteKept

LEMMA StopsKept ==
  ASSUME AuditInv, NEW w \in Writers, WriteStops(w)
  PROVE  AuditInv'
<1> DEFINE r == writing[w].record
<1>1. PICK what \in {"written", "pending"} : Told(r, what)
  BY DEF WriteStops
<1>2. /\ writing[w] # Nothing /\ Free(w) /\ made' = made /\ month' = month /\ torn' = torn \cup {r}
  BY DEF WriteStops
<1>3. PICK added \in Fragments(r) : book' = [book EXCEPT ![month] = Appended(@, added)]
  BY DEF WriteStops
<1>4. r \in Made /\ AuditTypeOK
  BY <1>2 DEF AuditInv, AuditTypeOK
<1>5. Written(r, added)
  BY <1>4, TextIsWritten
<1> QED
  BY <1>1, <1>2, <1>3, <1>5, WriteKept

LEMMA NextAudit == AuditInv /\ [AuditNext]_auditVars => AuditInv'
<1> SUFFICES ASSUME AuditInv, [AuditNext]_auditVars
             PROVE  AuditInv'
  OBVIOUS
<1>1. CASE NewMonth \/ UNCHANGED auditVars
  <2>1. book' = book /\ made' = made /\ told' = told /\ torn' = torn /\ writing' = writing
        /\ month' \in Months
    BY <1>1, AuditAssumption DEF NewMonth, auditVars, AuditInv, AuditTypeOK, Months
  <2>2. AuditTypeOK' /\ Unwritten'
    BY <2>1, SameBook DEF AuditInv, AuditTypeOK, Unwritten, Made, Months
  <2>3. Readable' \subseteq Readable
    BY <2>1 DEF Readable, Made
  <2> QED
    BY <2>1, <2>2, <2>3, SameBookKept DEF AuditInv
<1>2. CASE \E w \in Writers : \E added \in TextKinds : Stamp(w, added)
  BY <1>2, StampKept
<1>3. CASE \E w \in Writers : EncodingFails(w) \/ OpenFails(w)
  BY <1>3, NotWrittenKept
<1>4. CASE \E w \in Writers : AppendLine(w) \/ WriteStops(w)
  BY <1>4, AppendKept, StopsKept
<1> QED
  BY <1>1, <1>2, <1>3, <1>4 DEF AuditNext

(* Every file of the log is made of whole records, one to a line, but for  *)
(* what was torn, whoever writes and whenever the month changes.           *)
THEOREM AuditTheorem == AuditSpec => []AuditInv
<1> QED
  BY InitAudit, NextAudit, PTL DEF AuditSpec

(* A record that is lost ends a line that a torn one began. *)
LEMMA LostBehindTorn ==
  ASSUME AuditInv, NEW r \in Readable, r \notin ReadBack
  PROVE  \E p, q \in Places : /\ p = <<q[1], q[2], 1>> /\ Closes(q) /\ PieceAt(q) = Piece(r, "all")
                              /\ PieceAt(p).record \in torn /\ ~IsHead(p)
<1>0. AuditTypeOK
  BY DEF AuditInv
<1>1. PICK q \in Places : Closes(q) /\ PieceAt(q) = Piece(r, "all")
  BY DEF AuditInv, ReadableEnds
<1>2. /\ q = <<q[1], q[2], q[3]>> /\ q[1] \in Months /\ q[2] \in 1 .. Len(book[q[1]])
      /\ q[3] \in 1 .. Len(book[q[1]][q[2]])
      /\ book[q[1]] \in Seq(Seq(PieceType)) /\ book[q[1]][q[2]] \in Seq(PieceType)
  BY <1>0, PlaceOf
<1>3. q[2] \in DOMAIN book[q[1]] /\ 1 \in DOMAIN book[q[1]][q[2]] /\ Len(book[q[1]][q[2]]) \in Nat
  BY <1>2
<1> PICK p : p = <<q[1], q[2], 1>>
  OBVIOUS
<1>4. p \in Places
  BY <1>2, <1>3, PlacesAre
<1>5. q[3] # 1
  <2> SUFFICES ASSUME q[3] = 1
               PROVE  FALSE
    OBVIOUS
  <2>1. Len(book[q[1]][q[2]]) = 1 /\ book[q[1]][q[2]][1] = Piece(r, "all")
    BY <1>1 DEF Closes, PieceAt
  <2>2. q[2] \in ReadRecords(q[1]) /\ RecordOf(q[1], q[2]) = r
    BY <1>3, <2>1 DEF ReadRecords, RecordOf, Parsed, Piece
  <2> QED
    BY <1>2, <2>2 DEF ReadBack
<1>6. p[1] = q[1] /\ p[2] = q[2] /\ p[3] = 1 /\ ~Closes(p)
  BY <1>1, <1>5 DEF Closes
<1>7. PieceAt(p).record \in torn /\ ~IsHead(p)
  BY <1>4, <1>6 DEF AuditInv, TornInside
<1> QED
  BY <1>1, <1>4, <1>7

(* Each torn write costs at most one record besides its own, and no record *)
(* is read back twice.                                                     *)
THEOREM TornTheorem == AuditSpec => []TornLineCostsOne
<1>1. AuditInv => TornLineCostsOne
  <2> SUFFICES ASSUME AuditInv
               PROVE  TornLineCostsOne
    OBVIOUS
  <2>0. AuditTypeOK /\ WrittenOnce
    BY DEF AuditInv
  <2> DEFINE Lost == Readable \ ReadBack
  <2> DEFINE Follows(r, t) == \E p, q \in Places : /\ p = <<q[1], q[2], 1>> /\ Closes(q) /\ PieceAt(q) = Piece(r, "all")
                                                  /\ PieceAt(p).record = t /\ ~IsHead(p)
  <2> DEFINE f == [r \in Lost |-> CHOOSE t \in torn : Follows(r, t)]
  <2>1. \A r \in Lost : f[r] \in torn /\ Follows(r, f[r])
    <3>1. ASSUME NEW r \in Lost
          PROVE  \E t \in torn : Follows(r, t)
      BY LostBehindTorn
    <3> HIDE DEF Follows, Lost
    <3> QED
      BY <3>1
  <2>2. \A r, s \in Lost : f[r] = f[s] => r = s
    <3> HIDE DEF f
    <3>1. ASSUME NEW r \in Lost, NEW s \in Lost, f[r] = f[s]
          PROVE  r = s
      <4>1. PICK p, q \in Places : /\ p = <<q[1], q[2], 1>> /\ Closes(q) /\ PieceAt(q) = Piece(r, "all")
                                   /\ PieceAt(p).record = f[r] /\ ~IsHead(p)
        BY <2>1
      <4>2. PICK u, v \in Places : /\ u = <<v[1], v[2], 1>> /\ Closes(v) /\ PieceAt(v) = Piece(s, "all")
                                   /\ PieceAt(u).record = f[s] /\ ~IsHead(u)
        BY <2>1
      <4>3. p = u
        BY <2>0, <3>1, <4>1, <4>2 DEF WrittenOnce
      <4>4. q[1] = v[1] /\ q[2] = v[2]
        BY <4>1, <4>2, <4>3
      <4>5. PieceAt(q) = PieceAt(v)
        BY <4>1, <4>2, <4>4 DEF Closes, PieceAt
      <4> QED
        BY <4>1, <4>2, <4>5 DEF Piece
    <3> QED
      BY <3>1
  <2>3. IsFiniteSet(torn)
    <3>1. Made = 1 .. Len(made) /\ Len(made) \in Nat /\ torn \in SUBSET Made
      BY <2>0 DEF AuditTypeOK, Made
    <3>2. IsFiniteSet(1 .. Len(made))
      BY <3>1, FS_Interval
    <3> QED
      BY <3>1, <3>2, FS_Subset
  <2>4. Cardinality(Lost) <= Cardinality(torn)
    <3>1. f \in [Lost -> torn]
      BY <2>1
    <3> HIDE DEF f, Lost
    <3>2. f \in Injection(Lost, torn)
      BY <2>2, <3>1 DEF Injection, IsInjective
    <3> QED
      BY <2>3, <3>2, FS_Injection
  <2>5. ASSUME NEW m \in Months, NEW n \in Months, NEW j \in ReadRecords(m), NEW k \in ReadRecords(n),
               RecordOf(m, j) = RecordOf(n, k)
        PROVE  m = n /\ j = k
    <3>1. /\ j \in DOMAIN book[m] /\ Len(book[m][j]) = 1 /\ book[m][j][1].part = "all"
          /\ k \in DOMAIN book[n] /\ Len(book[n][k]) = 1 /\ book[n][k][1].part = "all"
      BY DEF ReadRecords, Parsed
    <3>2. 1 \in DOMAIN book[m][j] /\ 1 \in DOMAIN book[n][k]
      <4>1. book[m] \in Seq(Seq(PieceType)) /\ book[n] \in Seq(Seq(PieceType))
        BY <2>0 DEF AuditTypeOK, PieceType
      <4>2. book[m][j] \in Seq(PieceType) /\ book[n][k] \in Seq(PieceType)
        BY <3>1, <4>1
      <4> QED
        BY <3>1, <4>2
    <3> PICK p : p = <<m, j, 1>>
      OBVIOUS
    <3> PICK q : q = <<n, k, 1>>
      OBVIOUS
    <3>3. p \in Places /\ q \in Places
      BY <3>1, <3>2, PlacesAre
    <3>4. /\ PieceAt(p) = book[m][j][1] /\ PieceAt(q) = book[n][k][1]
      BY DEF PieceAt
    <3>5. PieceAt(p).record = PieceAt(q).record /\ ~IsHead(p) /\ ~IsHead(q)
      BY <2>5, <3>1, <3>4 DEF RecordOf, IsHead
    <3>6. p = q
      BY <2>0, <3>3, <3>5 DEF WrittenOnce
    <3> QED
      BY <3>6
  <2>6. \A m, n \in Months : \A j \in ReadRecords(m), k \in ReadRecords(n) :
          <<m, j>> # <<n, k>> => RecordOf(m, j) # RecordOf(n, k)
    BY <2>5
  <2> QED
    BY <2>4, <2>6 DEF TornLineCostsOne
<1> QED
  BY <1>1, AuditTheorem, PTL

-----------------------------------------------------------------------------
(* Documents: what cleaning leaves. *)

\* Taken(t, places) are the marks at n places of t, which ascend and are all of them.
Picks(t, places, n, pl) ==
  /\ n \in Nat /\ pl \in [1 .. n -> places]
  /\ Taken(t, places) = [k \in 1 .. n |-> t[pl[k]]]
  /\ \A i, j \in 1 .. n : i < j => pl[i] < pl[j]
  /\ \A x \in places : \E k \in 1 .. n : pl[k] = x

LEMMA TakenIs ==
  ASSUME NEW T, NEW t, NEW P, t \in Seq(T), P \in SUBSET DOMAIN t
  PROVE  \E n, pl : Picks(t, P, n, pl)
<1>1. P \in SUBSET Nat /\ P \in SUBSET (1 .. Len(t)) /\ Len(t) \in Nat
  OBVIOUS
<1>2. IsFiniteSet(P)
  <2>1. IsFiniteSet(1 .. Len(t))
    BY ONLY <1>1, FS_Interval
  <2> QED
    BY ONLY <1>1, <2>1, FS_Subset
<1> PICK n : n = Cardinality(P)
  OBVIOUS
<1> PICK pl : pl = Ascending(P)
  OBVIOUS
<1>3. /\ n \in Nat /\ pl \in [1 .. n -> P]
      /\ \A j \in 1 .. n : \A i \in 1 .. j - 1 : pl[i] < pl[j]
      /\ \A x \in P : \E k \in 1 .. n : pl[k] = x
  BY ONLY <1>1, <1>2, n = Cardinality(P), pl = Ascending(P), AscendingIs
<1>4. DOMAIN pl = 1 .. n
  BY <1>3
<1>5. Taken(t, P) = [k \in 1 .. n |-> t[pl[k]]]
  BY ONLY <1>4, pl = Ascending(P) DEF Taken
<1>6. \A i, j \in 1 .. n : i < j => pl[i] < pl[j]
  BY ONLY <1>3
<1> QED
  BY <1>3, <1>5, <1>6 DEF Picks

LEMMA TakenType ==
  ASSUME NEW T, NEW t, NEW P, t \in Seq(T), P \in SUBSET DOMAIN t
  PROVE  Taken(t, P) \in Seq(T)
<1>1. PICK n, pl : Picks(t, P, n, pl)
  BY TakenIs
<1>2. \A x \in P : t[x] \in T
  OBVIOUS
<1>3. n \in Nat /\ Taken(t, P) = [k \in 1 .. n |-> t[pl[k]]] /\ \A k \in 1 .. n : t[pl[k]] \in T
  BY ONLY <1>1, <1>2 DEF Picks
<1> QED
  BY ONLY <1>3

OneFence(t) == \A i, j \in DOMAIN t : t[i] = "fence" /\ t[j] = "fence" => i = j

LEMMA TakenFence ==
  ASSUME NEW T, NEW t, NEW P, t \in Seq(T), P \in SUBSET DOMAIN t,
         \A i, j \in P : t[i] = "fence" /\ t[j] = "fence" => i = j
  PROVE  OneFence(Taken(t, P))
<1>1. PICK n, pl : Picks(t, P, n, pl)
  BY TakenIs
<1> PICK r : r = Taken(t, P)
  OBVIOUS
<1>2. /\ n \in Nat /\ DOMAIN r = 1 .. n /\ \A k \in 1 .. n : r[k] = t[pl[k]] /\ pl[k] \in P
      /\ \A i, j \in 1 .. n : i < j => pl[i] < pl[j]
  BY ONLY <1>1, r = Taken(t, P) DEF Picks
<1>3. \A k \in 1 .. n : pl[k] \in Nat
  BY ONLY <1>2, P \in SUBSET DOMAIN t, t \in Seq(T)
<1>4. ASSUME NEW i \in 1 .. n, NEW j \in 1 .. n, r[i] = "fence", r[j] = "fence"
      PROVE  i = j
  <2>1. pl[i] = pl[j]
    BY <1>2, <1>4
  <2>2. ~(pl[i] < pl[j]) /\ ~(pl[j] < pl[i])
    BY ONLY <2>1, <1>3, i \in 1 .. n, j \in 1 .. n
  <2>3. ~(i < j) /\ ~(j < i)
    BY ONLY <1>2, <2>2, i \in 1 .. n, j \in 1 .. n
  <2> QED
    BY ONLY <2>3, i \in 1 .. n, j \in 1 .. n
<1> QED
  BY ONLY <1>2, <1>4, r = Taken(t, P) DEF OneFence

\* A heading's mark is never the first of its line.
NoHeading(t) == \A i \in DOMAIN t : t[i] = "hash" => i > 1 /\ t[i - 1] # "newline"

LEMMA TakenHeading ==
  ASSUME NEW T, NEW t, NEW P, t \in Seq(T), P \in SUBSET DOMAIN t,
         \A p \in P : t[p] = "hash" => p - 1 \in P /\ t[p - 1] # "newline"
  PROVE  NoHeading(Taken(t, P))
<1>1. PICK n, pl : Picks(t, P, n, pl)
  BY TakenIs
<1> PICK r : r = Taken(t, P)
  OBVIOUS
<1>2. /\ n \in Nat /\ DOMAIN r = 1 .. n /\ \A k \in 1 .. n : r[k] = t[pl[k]] /\ pl[k] \in P
      /\ \A i, j \in 1 .. n : i < j => pl[i] < pl[j]
      /\ \A x \in P : \E k \in 1 .. n : pl[k] = x
  BY ONLY <1>1, r = Taken(t, P) DEF Picks
<1>3. \A k \in 1 .. n : pl[k] \in Nat
  BY ONLY <1>2, P \in SUBSET DOMAIN t, t \in Seq(T)
<1>4. ASSUME NEW j \in 1 .. n, r[j] = "hash"
      PROVE  j > 1 /\ r[j - 1] # "newline"
  <2>1. pl[j] - 1 \in P /\ t[pl[j] - 1] # "newline"
    BY <1>2, <1>4
  <2>2. PICK k \in 1 .. n : pl[k] = pl[j] - 1
    BY <1>2, <2>1
  <2>3. pl[k] < pl[j]
    BY ONLY <1>3, <2>2, j \in 1 .. n
  <2>4. k < j
    <3>1. ~(pl[j] < pl[k]) /\ pl[j] # pl[k]
      BY ONLY <1>3, <2>3, k \in 1 .. n, j \in 1 .. n
    <3>2. ~(j < k) /\ j # k
      BY ONLY <1>2, <3>1, k \in 1 .. n, j \in 1 .. n
    <3> QED
      BY ONLY <3>2, k \in 1 .. n, j \in 1 .. n
  <2>5. k = j - 1
    <3>0. k \in Nat /\ j \in Nat /\ 1 <= k /\ j <= n /\ n \in Nat
      BY <1>2
    <3>1. SUFFICES ASSUME k < j - 1
                   PROVE  FALSE
      BY <2>4, <3>0
    <3>2. j - 1 \in 1 .. n /\ j - 1 < j
      BY ONLY <3>0, <3>1
    <3>3. pl[k] < pl[j - 1] /\ pl[j - 1] < pl[j]
      BY ONLY <1>2, <3>1, <3>2, k \in 1 .. n, j \in 1 .. n
    <3> QED
      BY ONLY <1>3, <2>2, <3>2, <3>3, k \in 1 .. n, j \in 1 .. n
  <2> QED
    BY ONLY <1>2, <2>1, <2>2, <2>4, <2>5, k \in 1 .. n, j \in 1 .. n
<1> QED
  BY ONLY <1>2, <1>4, r = Taken(t, P) DEF NoHeading

\* Of places up to i and up to a later one.
LEMMA WithoutFencesIs ==
  ASSUME NEW t, t \in Seq(ProseMark)
  PROVE  WithoutFences(t) \in Seq(ProseMark) /\ OneFence(WithoutFences(t))
<1> DEFINE upTo(i) == Cardinality({f \in Fences(t) : f <= i})
           all == Cardinality(Fences(t))
           rest(i) == upTo(i) = all /\ all % 2 = 1
           P == {i \in DOMAIN t : rest(i) \/ (upTo(i) % 2 = 0 /\ t[i] # "fence")}
<1>1. WithoutFences(t) = Taken(t, P)
  BY Zenon DEF WithoutFences
<1>2. P \in SUBSET DOMAIN t
  OBVIOUS
<1>3. Fences(t) \in SUBSET (1 .. Len(t)) /\ Len(t) \in Nat /\ Fences(t) \in SUBSET Nat
  BY DEF Fences
<1>4. IsFiniteSet(Fences(t))
  <2>1. IsFiniteSet(1 .. Len(t))
    BY ONLY <1>3, FS_Interval
  <2> QED
    BY ONLY <1>3, <2>1, FS_Subset
<1>5. ASSUME NEW i \in P, NEW j \in P, t[i] = "fence", t[j] = "fence", i < j
      PROVE  FALSE
  <2>1. i \in Fences(t) /\ j \in Fences(t)
    BY <1>5 DEF Fences
  <2>2. upTo(i) = all
    BY <1>5
  <2> DEFINE F == {f \in Fences(t) : f <= i}
  <2>3. F \in SUBSET Fences(t) /\ j \notin F
    BY <1>3, <1>5, <2>1
  <2> HIDE DEF F
  <2>4. F # Fences(t)
    BY <2>1, <2>3
  <2>5. Cardinality(F) < Cardinality(Fences(t))
    BY ONLY <1>4, <2>3, <2>4, FS_Subset, FS_CardinalityType
  <2>6. Cardinality(F) = Cardinality(Fences(t))
    BY <2>2 DEF F
  <2>7. Cardinality(Fences(t)) \in Nat
    BY ONLY <1>4, FS_CardinalityType
  <2> QED
    BY ONLY <2>5, <2>6, <2>7
<1>6. ASSUME NEW i \in P, NEW j \in P, t[i] = "fence", t[j] = "fence"
      PROVE  i = j
  <2>1. i \in Nat /\ j \in Nat
    OBVIOUS
  <2> QED
    BY ONLY <1>5, <1>6, <2>1
<1> HIDE DEF P
<1>7. Taken(t, P) \in Seq(ProseMark)
  BY ONLY t \in Seq(ProseMark), <1>2, TakenType
<1>8. OneFence(Taken(t, P))
  BY ONLY t \in Seq(ProseMark), <1>2, <1>6, TakenFence
<1> QED
  BY ONLY <1>1, <1>7, <1>8

LEMMA WithoutHeadingsIs ==
  ASSUME NEW t, t \in Seq(ProseMark), OneFence(t)
  PROVE  /\ WithoutHeadings(t) \in Seq(ProseMark) /\ OneFence(WithoutHeadings(t))
         /\ NoHeading(WithoutHeadings(t))
<1> DEFINE B(i) == {j \in 1 .. i : j = 1 \/ t[j - 1] = "newline"}
           begin(i) == Sets!Max(B(i))
           P == {i \in DOMAIN t : t[begin(i)] # "hash"}
<1>1. WithoutHeadings(t) = Taken(t, P)
  BY DEF WithoutHeadings
<1>2. P \in SUBSET DOMAIN t /\ DOMAIN t = 1 .. Len(t) /\ Len(t) \in Nat
  OBVIOUS
<1>3. ASSUME NEW i \in 1 .. Len(t)
      PROVE  begin(i) \in B(i) /\ \A y \in B(i) : y <= begin(i)
  <2>1. i \in Nat /\ B(i) \in SUBSET (0 .. i) /\ 1 \in B(i)
    OBVIOUS
  <2> HIDE DEF B
  <2>2. B(i) # {}
    BY <2>1
  <2> QED
    BY ONLY <2>1, <2>2, MaxIs
<1>4. ASSUME NEW p \in P, t[p] = "hash"
      PROVE  p - 1 \in P /\ t[p - 1] # "newline"
  <2>1. p \in 1 .. Len(t) /\ t[begin(p)] # "hash"
    OBVIOUS
  <2>2. begin(p) \in B(p) /\ begin(p) # p
    BY <1>3, <1>4, <2>1
  <2>3. p \notin B(p)
    <3>1. p \in B(p) => p <= begin(p)
      BY <1>3, <2>1
    <3>2. begin(p) \in 1 .. p
      BY <2>2
    <3> HIDE DEF begin, B
    <3> QED
      BY ONLY <2>1, <2>2, <3>1, <3>2
  <2>4. p # 1 /\ t[p - 1] # "newline" /\ p - 1 \in 1 .. Len(t)
    BY <2>1, <2>3
  <2>5. B(p) = B(p - 1)
    <3>1. \A j : j \in 1 .. p /\ j # p <=> j \in 1 .. p - 1
      BY <2>1, <2>4
    <3>2. \A j : j \in B(p) <=> j \in 1 .. p /\ (j = 1 \/ t[j - 1] = "newline")
      OBVIOUS
    <3>3. \A j : j \in B(p - 1) <=> j \in 1 .. p - 1 /\ (j = 1 \/ t[j - 1] = "newline")
      OBVIOUS
    <3> HIDE DEF B
    <3> QED
      BY ONLY <2>3, <3>1, <3>2, <3>3
  <2>6. p - 1 \in P
    <3>1. begin(p - 1) = begin(p)
      BY <2>5
    <3> HIDE DEF begin
    <3> QED
      BY <2>1, <2>4, <3>1
  <2> QED
    BY <2>4, <2>6
<1> HIDE DEF P
<1>5. \A i, j \in P : t[i] = "fence" /\ t[j] = "fence" => i = j
  BY ONLY <1>2, OneFence(t) DEF OneFence
<1>6. Taken(t, P) \in Seq(ProseMark)
  BY ONLY t \in Seq(ProseMark), <1>2, TakenType
<1>7. OneFence(Taken(t, P))
  BY ONLY t \in Seq(ProseMark), <1>2, <1>5, TakenFence
<1>8. NoHeading(Taken(t, P))
  BY ONLY t \in Seq(ProseMark), <1>2, <1>4, TakenHeading
<1> QED
  BY ONLY <1>1, <1>6, <1>7, <1>8

\* What the rest of the cleaning keeps.
Clean(t) == t \in Seq(ProseMark) /\ OneFence(t) /\ NoHeading(t)

LEMMA TidiedIs ==
  ASSUME NEW t, Clean(t)
  PROVE  Clean(Tidied(t))
<1> DEFINE third(i) == i > 2 /\ \A j \in i - 2 .. i : t[j] = "newline"
           ink == {i \in DOMAIN t : t[i] # "newline"}
           P == {i \in DOMAIN t : ~third(i) /\ \E first, last \in ink : first <= i /\ i <= last}
<1>0. t \in Seq(ProseMark) /\ OneFence(t) /\ NoHeading(t)
  BY DEF Clean
<1>1. Tidied(t) = Taken(t, P)
  BY DEF Tidied
<1>2. P \in SUBSET DOMAIN t /\ DOMAIN t = 1 .. Len(t) /\ Len(t) \in Nat
  BY <1>0
<1>4. ASSUME NEW p \in P, t[p] = "hash"
      PROVE  p - 1 \in P /\ t[p - 1] # "newline"
  <2>1. p \in 1 .. Len(t) /\ p > 1 /\ t[p - 1] # "newline"
    BY <1>0, <1>2, <1>4 DEF NoHeading
  <2>2. p - 1 \in DOMAIN t /\ p - 1 \in ink /\ p - 1 <= p - 1
    BY <1>2, <2>1
  <2>3. ~third(p - 1)
    <3>1. p - 1 \in (p - 1) - 2 .. p - 1
      BY <2>1
    <3> QED
      BY <2>1, <3>1
  <2> HIDE DEF third, ink
  <2>4. p - 1 \in P
    BY <2>2, <2>3
  <2> QED
    BY <2>1, <2>4
<1> HIDE DEF P
<1>5. \A i, j \in P : t[i] = "fence" /\ t[j] = "fence" => i = j
  BY ONLY <1>0, <1>2 DEF OneFence
<1>6. Taken(t, P) \in Seq(ProseMark)
  BY ONLY <1>0, <1>2, TakenType
<1>7. OneFence(Taken(t, P))
  BY ONLY <1>0, <1>2, <1>5, TakenFence
<1>8. NoHeading(Taken(t, P))
  BY ONLY <1>0, <1>2, <1>4, TakenHeading
<1> QED
  BY ONLY <1>1, <1>6, <1>7, <1>8 DEF Clean

LEMMA FrontClean ==
  ASSUME NEW t, Clean(t), NEW n \in 0 .. Len(t)
  PROVE  Clean(SubSeq(t, 1, n))
<1>0. t \in Seq(ProseMark) /\ OneFence(t) /\ NoHeading(t)
  BY DEF Clean
<1> PICK r : r = SubSeq(t, 1, n)
  OBVIOUS
<1>1. r \in Seq(ProseMark) /\ DOMAIN r = 1 .. n /\ \A i \in 1 .. n : r[i] = t[i] /\ i \in DOMAIN t
  BY <1>0
<1>2. OneFence(r)
  BY ONLY <1>0, <1>1 DEF OneFence
<1>3. NoHeading(r)
  <2>1. ASSUME NEW i \in 1 .. n, r[i] = "hash"
        PROVE  i > 1 /\ r[i - 1] # "newline"
    <3>1. i > 1 /\ t[i - 1] # "newline"
      BY ONLY <1>0, <1>1, <2>1 DEF NoHeading
    <3>2. i - 1 \in 1 .. n
      BY <3>1
    <3> QED
      BY ONLY <1>1, <3>1, <3>2
  <2> QED
    BY ONLY <1>1, <2>1 DEF NoHeading
<1> QED
  BY ONLY <1>1, <1>2, <1>3, r = SubSeq(t, 1, n) DEF Clean

LEMMA WordClean ==
  ASSUME NEW t, Clean(t)
  PROVE  Clean(Append(t, "word"))
<1>0. t \in Seq(ProseMark) /\ OneFence(t) /\ NoHeading(t)
  BY DEF Clean
<1> PICK n : n = Len(t)
  OBVIOUS
<1> PICK r : r = Append(t, "word")
  OBVIOUS
<1>1. /\ n \in Nat /\ DOMAIN t = 1 .. n /\ r \in Seq(ProseMark) /\ DOMAIN r = 1 .. n + 1
      /\ r[n + 1] = "word" /\ \A i \in 1 .. n : r[i] = t[i]
  BY <1>0 DEF ProseMark
<1>2. \A i \in 1 .. n + 1 : r[i] # "word" => i \in 1 .. n
  BY ONLY <1>1
<1>3. OneFence(r)
  BY ONLY <1>0, <1>1, <1>2 DEF OneFence
<1>4. NoHeading(r)
  <2>1. ASSUME NEW i \in 1 .. n + 1, r[i] = "hash"
        PROVE  i > 1 /\ r[i - 1] # "newline"
    <3>1. i \in 1 .. n /\ t[i] = "hash"
      BY ONLY <1>1, <1>2, <2>1
    <3>2. i > 1 /\ t[i - 1] # "newline"
      BY ONLY <1>0, <1>1, <3>1 DEF NoHeading
    <3>3. i - 1 \in 1 .. n
      BY ONLY <1>1, <3>1, <3>2
    <3> QED
      BY ONLY <1>1, <3>2, <3>3
  <2> QED
    BY ONLY <1>1, <2>1 DEF NoHeading
<1> QED
  BY ONLY <1>1, <1>3, <1>4, r = Append(t, "word") DEF Clean

\* Whatever is said, at most one fence of it is left, and no heading.
LEMMA CleanedIs ==
  ASSUME NEW t, t \in Seq(ProseMark), NEW max \in Nat
  PROVE  Clean(Cleaned(t, max))
<1> PICK s : s = Tidied(WithoutHeadings(WithoutFences(t)))
  OBVIOUS
<1>1. Clean(s)
  <2>1. WithoutFences(t) \in Seq(ProseMark) /\ OneFence(WithoutFences(t))
    BY WithoutFencesIs
  <2>2. Clean(WithoutHeadings(WithoutFences(t)))
    BY <2>1, WithoutHeadingsIs DEF Clean
  <2> QED
    BY <2>2, TidiedIs
<1>2. s \in Seq(ProseMark) /\ Len(s) \in Nat
  BY <1>1 DEF Clean
<1> DEFINE cut == SubSeq(s, 1, max)
           stop == Sets!Max({0} \cup {i \in DOMAIN cut : cut[i] = "stop"})
<1>3. CASE Len(s) <= max
  BY <1>1, <1>3 DEF Cleaned, Shortened
<1>4. CASE ~(Len(s) <= max)
  <2>1. max \in 0 .. Len(s)
    BY <1>2, <1>4
  <2>2. Clean(cut)
    BY ONLY <1>1, <2>1, FrontClean
  <2>3. Len(cut) = max /\ DOMAIN cut = 1 .. max
    BY <1>2, <2>1
  <2>4. stop \in 0 .. Len(cut)
    <3> DEFINE S == {0} \cup {i \in DOMAIN cut : cut[i] = "stop"}
    <3>1. S \in SUBSET (0 .. max) /\ S # {}
      BY <2>3
    <3> HIDE DEF S
    <3>2. Sets!Max(S) \in S
      BY ONLY <3>1, max \in Nat, MaxIs
    <3> HIDE DEF cut
    <3> QED
      BY <2>3, <3>1, <3>2 DEF S
  <2> HIDE DEF cut, stop
  <2>5. Clean(SubSeq(cut, 1, stop))
    BY ONLY <2>2, <2>4, FrontClean
  <2>6. Clean(Append(Tidied(cut), "word"))
    BY ONLY <2>2, TidiedIs, WordClean
  <2> QED
    BY <1>4, <2>5, <2>6 DEF Cleaned, Shortened, cut, stop
<1> QED
  BY <1>3, <1>4

LEMMA TakenMarks ==
  ASSUME NEW T, NEW t, NEW P, NEW U, t \in Seq(T), P \in SUBSET DOMAIN t, \A x \in P : t[x] \in U
  PROVE  Taken(t, P) \in Seq(U)
<1>1. PICK n, pl : Picks(t, P, n, pl)
  BY TakenIs
<1>2. n \in Nat /\ Taken(t, P) = [k \in 1 .. n |-> t[pl[k]]] /\ \A k \in 1 .. n : t[pl[k]] \in U
  BY ONLY <1>1, \A x \in P : t[x] \in U DEF Picks
<1> QED
  BY ONLY <1>2

LEMMA RoleType ==
  ASSUME NEW t, t \in Seq(ProseMark)
  PROVE  RoleOf(t) \in Seq(ProseMark)
<1> DEFINE starts == {i \in DOMAIN t : i = 1 \/ t[i - 1] = "newline"}
           ends(i) == Sets!Min({j \in i .. Len(t) + 1 : j > Len(t) \/ t[j] = "newline"})
           line(i) == SubSeq(t, i, ends(i) - 1)
           ink(i) == {j \in DOMAIN line(i) : line(i)[j] # "bullet"}
           bare(i) == IF ink(i) = {} THEN <<>> ELSE SubSeq(line(i), Sets!Min(ink(i)), Len(line(i)))
           says == {i \in starts : bare(i) # <<>> /\ bare(i)[1] # "hash"}
<1>1. RoleOf(t) = IF says = {} THEN <<>> ELSE Cleaned(bare(Sets!Min(says)), MaxRole)
  BY DEF RoleOf
<1>2. <<>> \in Seq(ProseMark) /\ MaxRole \in Nat /\ Len(t) \in Nat /\ DOMAIN t = 1 .. Len(t)
  BY DocumentAssumption
<1>3. ASSUME NEW i \in 1 .. Len(t)
      PROVE  bare(i) \in Seq(ProseMark)
  <2>1. ends(i) \in i .. Len(t) + 1
    <3> DEFINE S == {j \in i .. Len(t) + 1 : j > Len(t) \/ t[j] = "newline"}
    <3>1. S \in SUBSET Nat /\ Len(t) + 1 \in S /\ S \in SUBSET (i .. Len(t) + 1)
      BY <1>2
    <3>2. S # {}
      BY <3>1
    <3> HIDE DEF S
    <3>3. Sets!Min(S) \in S
      BY ONLY <3>1, <3>2, MinIs
    <3> QED
      BY <3>1, <3>3 DEF S
  <2> HIDE DEF ends
  <2>2. line(i) \in Seq(ProseMark)
    BY <1>2, <2>1
  <2> HIDE DEF line
  <2>3. ASSUME ink(i) # {}
        PROVE  Sets!Min(ink(i)) \in 1 .. Len(line(i))
    <3>1. ink(i) \in SUBSET (1 .. Len(line(i))) /\ ink(i) \in SUBSET Nat
      BY <2>2
    <3>2. Sets!Min(ink(i)) \in ink(i)
      BY ONLY <2>3, <3>1, MinIs
    <3> QED
      BY ONLY <3>1, <3>2
  <2> HIDE DEF ink
  <2> PICK u : u = line(i)
    OBVIOUS
  <2> PICK k : k = Sets!Min(ink(i))
    OBVIOUS
  <2>4. u \in Seq(ProseMark) /\ (ink(i) # {} => k \in 1 .. Len(u))
    BY ONLY <2>2, <2>3, u = line(i), k = Sets!Min(ink(i))
  <2>5. ink(i) # {} => SubSeq(u, k, Len(u)) \in Seq(ProseMark)
    BY ONLY <2>4
  <2> QED
    BY <1>2, <2>5
<1> HIDE DEF bare
<1>4. ASSUME says # {}
      PROVE  Cleaned(bare(Sets!Min(says)), MaxRole) \in Seq(ProseMark)
  <2>1. says \in SUBSET Nat /\ says \in SUBSET (1 .. Len(t))
    BY <1>2
  <2>2. Sets!Min(says) \in says
    BY ONLY <1>4, <2>1, MinIs
  <2>3. Sets!Min(says) \in 1 .. Len(t)
    BY ONLY <2>1, <2>2
  <2> HIDE DEF says
  <2> PICK b : b = bare(Sets!Min(says))
    OBVIOUS
  <2>4. b \in Seq(ProseMark)
    BY <1>3, <2>3
  <2>5. Clean(Cleaned(b, MaxRole))
    BY ONLY <1>2, <2>4, CleanedIs
  <2> QED
    BY <2>5 DEF Clean
<1> HIDE DEF says
<1> QED
  BY <1>1, <1>2, <1>4

-----------------------------------------------------------------------------
(* Documents: fences counted. *)

FenceCount(t) == Cardinality(Fences(t))

LEMMA FenceAppend ==
  ASSUME NEW t, NEW m, t \in Seq(ProseMark), m \in ProseMark
  PROVE  /\ FenceCount(t) \in Nat
         /\ FenceCount(Append(t, m)) = FenceCount(t) + IF m = "fence" THEN 1 ELSE 0
<1> PICK n : n = Len(t)
  OBVIOUS
<1> PICK F : F = Fences(t)
  OBVIOUS
<1>1. n \in Nat /\ F \in SUBSET (1 .. n)
  BY DEF Fences
<1>2. IsFiniteSet(F) /\ Cardinality(F) \in Nat /\ n + 1 \notin F
  <2>1. IsFiniteSet(1 .. n)
    BY ONLY <1>1, FS_Interval
  <2>2. IsFiniteSet(F)
    BY ONLY <1>1, <2>1, FS_Subset
  <2>3. Cardinality(F) \in Nat
    BY ONLY <2>2, FS_CardinalityType
  <2> QED
    BY ONLY <1>1, <2>2, <2>3
<1>3. Fences(Append(t, m)) = IF m = "fence" THEN F \cup {n + 1} ELSE F
  BY DEF Fences
<1>4. Cardinality(F \cup {n + 1}) = Cardinality(F) + 1
  BY ONLY <1>2, FS_AddElement
<1> QED
  BY <1>2, <1>3, <1>4 DEF FenceCount

LEMMA NoFences == FenceCount(<<>>) = 0
<1>1. Fences(<<>>) = {}
  BY DEF Fences
<1> QED
  BY <1>1, FS_EmptySet DEF FenceCount

LEMMA FenceConcat ==
  ASSUME NEW a, NEW b, a \in Seq(ProseMark), b \in Seq(ProseMark)
  PROVE  FenceCount(a \o b) = FenceCount(a) + FenceCount(b)
<1> DEFINE upTo(k) == SubSeq(b, 1, k)
           S == {k \in 0 .. Len(b) : FenceCount(a \o upTo(k)) = FenceCount(a) + FenceCount(upTo(k))}
<1>1. FenceCount(a) \in Nat /\ Len(b) \in Nat
  BY FenceAppend DEF ProseMark
<1>2. 0 \in S
  <2>1. upTo(0) = <<>> /\ a \o <<>> = a
    OBVIOUS
  <2> HIDE DEF upTo
  <2>2. FenceCount(a \o upTo(0)) = FenceCount(a) + FenceCount(upTo(0)) /\ FenceCount(upTo(0)) \in Nat
    <3>1. a \o upTo(0) = a
      BY <2>1
    <3>2. FenceCount(upTo(0)) = 0
      BY <2>1, NoFences, Zenon
    <3>3. FenceCount(a \o upTo(0)) = FenceCount(a)
      BY <3>1, Zenon
    <3> QED
      BY ONLY <1>1, <3>2, <3>3
  <2>3. 0 \in 0 .. Len(b)
    BY <1>1
  <2> QED
    BY <2>2, <2>3
<1>3. ASSUME NEW k \in 0 .. Len(b) - 1, k \in S
      PROVE  k + 1 \in S
  <2> PICK u : u = upTo(k)
    OBVIOUS
  <2> PICK m : m = b[k + 1]
    OBVIOUS
  <2>1. /\ u \in Seq(ProseMark) /\ m \in ProseMark /\ upTo(k + 1) = Append(u, m)
        /\ k + 1 \in 0 .. Len(b)
    BY <1>1, <1>3
  <2> PICK v : v = a \o u
    OBVIOUS
  <2>2. v \in Seq(ProseMark) /\ a \o Append(u, m) = Append(v, m)
    BY <2>1
  <2>3. FenceCount(v) = FenceCount(a) + FenceCount(u)
    BY <1>3
  <2> HIDE DEF upTo
  <2>4. /\ FenceCount(u) \in Nat /\ FenceCount(Append(u, m)) = FenceCount(u) + IF m = "fence" THEN 1 ELSE 0
        /\ FenceCount(Append(v, m)) = FenceCount(v) + IF m = "fence" THEN 1 ELSE 0
    BY ONLY <2>1, <2>2, FenceAppend
  <2>5. FenceCount(a \o upTo(k + 1)) = FenceCount(a) + FenceCount(upTo(k + 1))
    <3>1. FenceCount(Append(v, m)) = FenceCount(a) + FenceCount(Append(u, m))
      BY ONLY <1>1, <2>3, <2>4
    <3> QED
      BY ONLY <2>1, <2>2, <3>1
  <2> QED
    BY <2>1, <2>5
<1> HIDE DEF S
<1>4. Len(b) \in S
  <2> PICK n : n = Len(b)
    OBVIOUS
  <2>1. \A k \in 0 .. n - 1 : k \in S => k + 1 \in S
    BY <1>3
  <2>2. n \in S
    BY ONLY n = Len(b), <1>1, <1>2, <2>1, UpTo
  <2> QED
    BY <2>2
<1>5. upTo(Len(b)) = b
  OBVIOUS
<1> QED
  BY <1>4, <1>5 DEF S

\* Of a document's lines.
\* The owners of lines: components, sections, and none.
Titles == {"overview", "components", "arrows", "entries", "settings", "layout", "usage", "tests", "other"}
Owners == Seqs!ToSet(Alphabet) \cup Titles \cup {"nothing"}
DocLine == [is : {"heading", "row", "text"}, of : Owners, says : Seq(ProseMark)]
Saying(doc) == Seqs!FlattenSeq([i \in DOMAIN doc |-> doc[i].says])
Fenced(doc) == FenceCount(Saying(doc))

LEMMA SayingAppend ==
  ASSUME NEW d, NEW l, d \in Seq(DocLine), l \in DocLine
  PROVE  /\ Saying(d) \in Seq(ProseMark) /\ Saying(Append(d, l)) = Saying(d) \o l.says
         /\ Fenced(d) \in Nat /\ Fenced(Append(d, l)) = Fenced(d) + FenceCount(l.says)
<1> PICK ss : ss = [i \in DOMAIN d |-> d[i].says]
  OBVIOUS
<1> PICK n : n = Len(d)
  OBVIOUS
<1>1. n \in Nat /\ DOMAIN d = 1 .. n /\ \A i \in 1 .. n : d[i].says \in Seq(ProseMark)
  <2>1. \A x \in DocLine : x.says \in Seq(ProseMark)
    BY DEF DocLine
  <2>2. n \in Nat /\ DOMAIN d = 1 .. n /\ \A i \in 1 .. n : d[i] \in DocLine
    OBVIOUS
  <2> QED
    BY ONLY <2>1, <2>2
<1>2. ss \in Seq(Seq(ProseMark)) /\ l.says \in Seq(ProseMark) /\ Len(ss) = n
  BY <1>1 DEF DocLine
<1>3. [i \in DOMAIN Append(d, l) |-> Append(d, l)[i].says] = Append(ss, l.says)
  <2> PICK e : e = Append(d, l)
    OBVIOUS
  <2>1. DOMAIN e = 1 .. n + 1 /\ e[n + 1] = l /\ \A i \in 1 .. n : e[i] = d[i]
    BY <1>1
  <2>2. Append(ss, l.says) = [i \in 1 .. n + 1 |-> IF i = n + 1 THEN l.says ELSE ss[i]]
    BY <1>1, <1>2
  <2>3. \A i \in 1 .. n + 1 : e[i].says = IF i = n + 1 THEN l.says ELSE ss[i]
    <3>1. \A i \in 1 .. n + 1 : i # n + 1 => i \in 1 .. n
      BY <1>1
    <3> QED
      BY <1>1, <2>1, <3>1
  <2> QED
    BY ONLY <2>1, <2>2, <2>3, e = Append(d, l)
<1>4. Seqs!FlattenSeq(ss) \in Seq(ProseMark) /\ Seqs!FlattenSeq(Append(ss, l.says)) = Seqs!FlattenSeq(ss) \o l.says
  BY ONLY <1>2, FlattenAppend
<1>5. Saying(d) \in Seq(ProseMark) /\ Saying(Append(d, l)) = Saying(d) \o l.says
  BY ONLY <1>3, <1>4, ss = [i \in DOMAIN d |-> d[i].says] DEF Saying
<1>6. FenceCount(Saying(d)) \in Nat
  BY <1>5, FenceAppend DEF ProseMark
<1>7. FenceCount(Saying(d) \o l.says) = FenceCount(Saying(d)) + FenceCount(l.says)
  BY ONLY <1>2, <1>5, FenceConcat
<1> QED
  BY ONLY <1>5, <1>6, <1>7 DEF Fenced

LEMMA FencedNone == Fenced(<<>>) = 0
<1>1. [i \in DOMAIN <<>> |-> <<>>[i].says] = <<>>
  OBVIOUS
<1>2. Saying(<<>>) = <<>>
  BY <1>1, FlattenEmpty DEF Saying
<1> QED
  BY <1>2, NoFences DEF Fenced

LEMMA FencedConcat ==
  ASSUME NEW a, NEW b, a \in Seq(DocLine), b \in Seq(DocLine)
  PROVE  Fenced(a \o b) = Fenced(a) + Fenced(b) /\ Fenced(a) \in Nat /\ Fenced(b) \in Nat
<1> DEFINE upTo(k) == SubSeq(b, 1, k)
           S == {k \in 0 .. Len(b) : Fenced(a \o upTo(k)) = Fenced(a) + Fenced(upTo(k)) /\ Fenced(upTo(k)) \in Nat}
<1>1. Fenced(a) \in Nat /\ Len(b) \in Nat
  <2>1. [is |-> "text", of |-> "nothing", says |-> <<>>] \in DocLine
    <3>2. "nothing" \in Owners
      BY Zenon DEF Owners
    <3>3. <<>> \in Seq(ProseMark)
      OBVIOUS
    <3> QED
      BY <3>2, <3>3 DEF DocLine
  <2> PICK l : l = [is |-> "text", of |-> "nothing", says |-> <<>>]
    OBVIOUS
  <2>2. Fenced(a) \in Nat
    BY <2>1, SayingAppend
  <2> QED
    BY <2>2
<1>2. 0 \in S
  <2>1. upTo(0) = <<>> /\ a \o <<>> = a
    OBVIOUS
  <2> HIDE DEF upTo
  <2>2. Fenced(a \o upTo(0)) = Fenced(a) + Fenced(upTo(0)) /\ Fenced(upTo(0)) \in Nat
    <3>1. a \o upTo(0) = a
      BY <2>1
    <3>2. Fenced(upTo(0)) = 0
      BY <2>1, FencedNone, Zenon
    <3>3. Fenced(a \o upTo(0)) = Fenced(a)
      BY <3>1, Zenon
    <3> QED
      BY ONLY <1>1, <3>2, <3>3
  <2>3. 0 \in 0 .. Len(b)
    BY <1>1
  <2> QED
    BY <2>2, <2>3
<1>3. ASSUME NEW k \in 0 .. Len(b) - 1, k \in S
      PROVE  k + 1 \in S
  <2> PICK u : u = upTo(k)
    OBVIOUS
  <2> PICK l : l = b[k + 1]
    OBVIOUS
  <2>1. /\ u \in Seq(DocLine) /\ l \in DocLine /\ upTo(k + 1) = Append(u, l)
        /\ k + 1 \in 0 .. Len(b)
    BY <1>1, <1>3
  <2> PICK v : v = a \o u
    OBVIOUS
  <2>2. v \in Seq(DocLine) /\ a \o Append(u, l) = Append(v, l)
    BY <2>1
  <2>3. Fenced(v) = Fenced(a) + Fenced(u)
    BY <1>3
  <2> HIDE DEF upTo
  <2>4. /\ Fenced(u) \in Nat /\ Fenced(Append(u, l)) = Fenced(u) + FenceCount(l.says)
        /\ Fenced(Append(v, l)) = Fenced(v) + FenceCount(l.says)
    BY ONLY <2>1, <2>2, SayingAppend
  <2>5. FenceCount(l.says) \in Nat
    <3>1. l.says \in Seq(ProseMark) /\ "word" \in ProseMark
      BY <2>1 DEF DocLine, ProseMark
    <3> QED
      BY <3>1, FenceAppend
  <2>6. Fenced(a \o upTo(k + 1)) = Fenced(a) + Fenced(upTo(k + 1)) /\ Fenced(upTo(k + 1)) \in Nat
    <3>1. Fenced(Append(v, l)) = Fenced(a) + Fenced(Append(u, l)) /\ Fenced(Append(u, l)) \in Nat
      BY ONLY <1>1, <2>3, <2>4, <2>5
    <3> QED
      BY ONLY <2>1, <2>2, <3>1
  <2> QED
    BY <2>1, <2>6
<1> HIDE DEF S
<1>4. Len(b) \in S
  <2> PICK n : n = Len(b)
    OBVIOUS
  <2>1. \A k \in 0 .. n - 1 : k \in S => k + 1 \in S
    BY <1>3
  <2>2. n \in S
    BY ONLY n = Len(b), <1>1, <1>2, <2>1, UpTo
  <2> QED
    BY <2>2
<1>5. upTo(Len(b)) = b
  OBVIOUS
<1> QED
  BY <1>1, <1>4, <1>5 DEF S

-----------------------------------------------------------------------------
(* Documents: how lines are read. *)

Entry == {"heading", "row"} \X (Owners \cup {"new"})
Seen == [open : {"no", "fence", "tilde"}, under : BOOLEAN, shape : Seq(Entry)]
Unread == [open |-> "no", under |-> FALSE, shape |-> <<>>]

\* The lines of d lead from one state of reading to the other.
Reading(r, s, d, z) ==
  /\ r \in [0 .. Len(d) -> Seen] /\ r[0] = s /\ r[Len(d)] = z
  /\ \A i \in 1 .. Len(d) : r[i] = Reads(r[i - 1], d[i])
Runs(s, d, z) == \E r : Reading(r, s, d, z)

LEMMA ReadersAre ==
  ASSUME NEW d, NEW z, d \in Seq(DocLine), Runs(Unread, d, z)
  PROVE  Readers(d) = z.shape
<1> PICK n : n = Len(d)
  OBVIOUS
<1> PICK r : Reading(r, Unread, d, z)
  BY DEF Runs
<1>1. /\ n \in Nat /\ r \in [0 .. n -> Seen] /\ r[0] = Unread /\ r[n] = z
      /\ \A i \in 1 .. n : r[i] = Reads(r[i - 1], d[i])
  BY DEF Reading
<1>2. r = [i \in 0 .. n |-> IF i = 0 THEN Unread ELSE Reads(r[i - 1], d[i])]
  <2>1. ASSUME NEW i \in 0 .. n
        PROVE  r[i] = IF i = 0 THEN Unread ELSE Reads(r[i - 1], d[i])
    <3>1. i # 0 => i \in 1 .. n
      BY <1>1
    <3> QED
      BY <1>1, <3>1
  <2>2. r = [i \in 0 .. n |-> r[i]]
    BY <1>1
  <2> QED
    BY ONLY <2>1, <2>2
<1>3. \E h : /\ h = [i \in 0 .. n |-> IF i = 0 THEN Unread ELSE Reads(h[i - 1], d[i])]
             /\ Readers(d) = h[n].shape
  BY <1>2, Zenon DEF Readers, Unread
<1>4. PICK h : /\ h = [i \in 0 .. n |-> IF i = 0 THEN Unread ELSE Reads(h[i - 1], d[i])]
               /\ Readers(d) = h[n].shape
  BY <1>3
<1>5. h[0] = Unread /\ \A i \in 1 .. n : h[i] = Reads(h[i - 1], d[i])
  <2>1. \A i \in 0 .. n : h[i] = IF i = 0 THEN Unread ELSE Reads(h[i - 1], d[i])
    BY <1>4, Zenon
  <2>2. 0 \in 0 .. n /\ \A i \in 1 .. n : i \in 0 .. n /\ i # 0
    BY <1>1
  <2> QED
    BY ONLY <2>1, <2>2
<1> DEFINE S == {k \in 0 .. n : h[k] = r[k]}
<1>6. 0 \in S
  BY <1>1, <1>5
<1>7. ASSUME NEW k \in 0 .. n - 1, k \in S
      PROVE  k + 1 \in S
  <2>1. k + 1 \in 1 .. n /\ k + 1 \in 0 .. n /\ (k + 1) - 1 = k
    BY <1>1
  <2>2. h[k + 1] = Reads(h[k], d[k + 1]) /\ r[k + 1] = Reads(r[k], d[k + 1])
    BY ONLY <1>1, <1>5, <2>1
  <2>3. h[k] = r[k]
    BY <1>7
  <2> QED
    BY <2>1, <2>2, <2>3
<1> HIDE DEF S
<1>8. n \in S
  <2>1. \A k \in 0 .. n - 1 : k \in S => k + 1 \in S
    BY <1>7
  <2>2. \A k \in 0 .. n : k \in S
    BY ONLY <1>1, <1>6, <2>1, UpTo
  <2> QED
    BY <1>1, <2>2
<1> QED
  BY <1>1, <1>4, <1>8 DEF S

LEMMA RunsOn ==
  ASSUME NEW a, NEW b, NEW c, NEW d, NEW e, d \in Seq(DocLine), e \in Seq(DocLine),
         Runs(a, d, b), Runs(b, e, c)
  PROVE  Runs(a, d \o e, c)
<1> PICK n : n = Len(d)
  OBVIOUS
<1> PICK m : m = Len(e)
  OBVIOUS
<1> PICK w : w = d \o e
  OBVIOUS
<1>1. /\ n \in Nat /\ m \in Nat /\ Len(w) = n + m /\ \A i \in 1 .. n : w[i] = d[i]
      /\ \A i \in n + 1 .. n + m : w[i] = e[i - n]
  OBVIOUS
<1> PICK r : Reading(r, a, d, b)
  BY DEF Runs
<1> PICK q : Reading(q, b, e, c)
  BY DEF Runs
<1>2. /\ r \in [0 .. n -> Seen] /\ r[0] = a /\ r[n] = b
      /\ \A i \in 1 .. n : r[i] = Reads(r[i - 1], d[i])
  BY DEF Reading
<1>3. /\ q \in [0 .. m -> Seen] /\ q[0] = b /\ q[m] = c
      /\ \A i \in 1 .. m : q[i] = Reads(q[i - 1], e[i])
  BY DEF Reading
<1> PICK h : h = [i \in 0 .. n + m |-> IF i <= n THEN r[i] ELSE q[i - n]]
  OBVIOUS
<1>4. /\ \A i \in 0 .. n : h[i] = r[i]
      /\ \A i \in n .. n + m : h[i] = q[i - n]
  <2>1. \A i \in 0 .. n + m : h[i] = IF i <= n THEN r[i] ELSE q[i - n]
    OBVIOUS
  <2>2. \A i \in 0 .. n : i \in 0 .. n + m /\ i <= n
    BY <1>1
  <2>3. \A i \in n .. n + m : i \in 0 .. n + m /\ (i <= n => i = n) /\ n - n = 0
    BY <1>1
  <2> QED
    BY ONLY <1>2, <1>3, <2>1, <2>2, <2>3
<1>5. h \in [0 .. n + m -> Seen]
  <2>1. ASSUME NEW i \in 0 .. n + m
        PROVE  (IF i <= n THEN r[i] ELSE q[i - n]) \in Seen
    <3>1. i <= n => i \in 0 .. n
      BY <1>1
    <3>2. ~(i <= n) => i - n \in 0 .. m
      BY <1>1
    <3> QED
      BY ONLY <1>2, <1>3, <3>1, <3>2
  <2> QED
    BY <2>1
<1>6. h[0] = a /\ h[n + m] = c
  <2>1. 0 \in 0 .. n /\ n + m \in n .. n + m /\ (n + m) - n = m
    BY <1>1
  <2> QED
    BY ONLY <1>2, <1>3, <1>4, <2>1
<1>7. ASSUME NEW i \in 1 .. n + m
      PROVE  h[i] = Reads(h[i - 1], w[i])
  <2>1. CASE i <= n
    <3>1. i \in 1 .. n /\ i \in 0 .. n /\ i - 1 \in 0 .. n
      BY <1>1, <2>1
    <3> QED
      BY ONLY <1>1, <1>2, <1>4, <3>1
  <2>2. CASE ~(i <= n)
    <3>1. i \in n + 1 .. n + m /\ i \in n .. n + m /\ i - 1 \in n .. n + m
          /\ (i - 1) - n = (i - n) - 1 /\ i - n \in 1 .. m
      BY <1>1, <2>2
    <3>2. h[i] = q[i - n] /\ h[i - 1] = q[(i - n) - 1] /\ w[i] = e[i - n]
      BY ONLY <1>1, <1>4, <3>1
    <3> QED
      BY ONLY <1>3, <3>1, <3>2
  <2> QED
    BY <2>1, <2>2
<1>8. Reading(h, a, w, c)
  BY ONLY <1>1, <1>5, <1>6, <1>7 DEF Reading
<1> QED
  BY ONLY <1>8, w = d \o e DEF Runs

\* Read outside blocks, these lines add these entries, and no block is left open.
Adds(d, out) ==
  /\ d \in Seq(DocLine) /\ out \in Seq(Entry)
  /\ \A s \in Seen : s.open = "no" =>
        \E z \in Seen : z.open = "no" /\ z.shape = s.shape \o out /\ Runs(s, d, z)

LEMMA AddsConcat ==
  ASSUME NEW d, NEW e, NEW x, NEW y, Adds(d, x), Adds(e, y)
  PROVE  Adds(d \o e, x \o y)
<1>1. d \in Seq(DocLine) /\ e \in Seq(DocLine) /\ x \in Seq(Entry) /\ y \in Seq(Entry)
  BY DEF Adds
<1>2. d \o e \in Seq(DocLine) /\ x \o y \in Seq(Entry)
  BY <1>1
<1>3. ASSUME NEW s \in Seen, s.open = "no"
      PROVE  \E z \in Seen : z.open = "no" /\ z.shape = s.shape \o (x \o y) /\ Runs(s, d \o e, z)
  <2>1. PICK u \in Seen : u.open = "no" /\ u.shape = s.shape \o x /\ Runs(s, d, u)
    BY <1>3 DEF Adds
  <2>2. PICK z \in Seen : z.open = "no" /\ z.shape = u.shape \o y /\ Runs(u, e, z)
    BY <2>1 DEF Adds
  <2> PICK h : h = s.shape
    OBVIOUS
  <2>3. h \in Seq(Entry)
    BY <1>3 DEF Seen
  <2>4. (h \o x) \o y = h \o (x \o y)
    <3>1. h \in Seq(Entry) /\ x \in Seq(Entry) /\ y \in Seq(Entry)
      BY ONLY <1>1, <2>3
    <3> QED
      BY ONLY <3>1, ConcatAssoc
  <2>5. Runs(s, d \o e, z)
    BY ONLY <1>1, <2>1, <2>2, RunsOn
  <2> QED
    BY <2>1, <2>2, <2>4, <2>5
<1> QED
  BY ONLY <1>2, <1>3 DEF Adds

LEMMA AddsNone == Adds(<<>>, <<>>)
<1>1. ASSUME NEW s \in Seen
      PROVE  s.shape \o <<>> = s.shape /\ Runs(s, <<>>, s)
  <2> PICK h : h = s.shape
    OBVIOUS
  <2>1. h \in Seq(Entry)
    BY DEF Seen
  <2>2. h \o <<>> = h
    BY ONLY <2>1
  <2> PICK r : r = [i \in 0 .. 0 |-> s]
    OBVIOUS
  <2>3. Len(<<>>) = 0 /\ r \in [0 .. 0 -> Seen] /\ r[0] = s
    OBVIOUS
  <2>4. Reading(r, s, <<>>, s)
    BY ONLY <2>3 DEF Reading
  <2> QED
    BY <2>2, <2>4 DEF Runs
<1>2. <<>> \in Seq(DocLine) /\ <<>> \in Seq(Entry)
  OBVIOUS
<1> QED
  BY ONLY <1>1, <1>2 DEF Adds

LEMMA RunsOne ==
  ASSUME NEW s \in Seen, NEW l \in DocLine, Reads(s, l) \in Seen
  PROVE  Runs(s, <<l>>, Reads(s, l))
<1> PICK z : z = Reads(s, l)
  OBVIOUS
<1> PICK r : r = [i \in 0 .. 1 |-> IF i = 0 THEN s ELSE z]
  OBVIOUS
<1>1. z \in Seen
  OBVIOUS
<1>2. r \in [0 .. 1 -> Seen] /\ r[0] = s /\ r[1] = z
  BY ONLY <1>1, s \in Seen, r = [i \in 0 .. 1 |-> IF i = 0 THEN s ELSE z]
<1>3. Len(<<l>>) = 1 /\ <<l>>[1] = l
  OBVIOUS
<1>4. \A i \in 1 .. 1 : i = 1 /\ i - 1 = 0
  OBVIOUS
<1>5. \A i \in 1 .. 1 : r[i] = Reads(r[i - 1], <<l>>[i])
  BY ONLY <1>2, <1>3, <1>4, z = Reads(s, l)
<1>6. Reading(r, s, <<l>>, z)
  BY ONLY <1>2, <1>3, <1>5 DEF Reading
<1> QED
  BY ONLY <1>6, z = Reads(s, l) DEF Runs

\* A heading or a row; a line of text that opens nothing.
LEMMA AddsMark ==
  ASSUME NEW l \in DocLine, l.is # "text"
  PROVE  Adds(<<l>>, << <<l.is, l.of>> >>)
<1>1. <<l.is, l.of>> \in Entry
  <2>1. l.is \in {"heading", "row"} /\ l.of \in Owners
    BY DEF DocLine
  <2> QED
    BY <2>1 DEF Entry
<1>2. <<l>> \in Seq(DocLine) /\ << <<l.is, l.of>> >> \in Seq(Entry)
  BY <1>1
<1>3. ASSUME NEW s \in Seen, s.open = "no"
      PROVE  \E z \in Seen : z.open = "no" /\ z.shape = s.shape \o << <<l.is, l.of>> >> /\ Runs(s, <<l>>, z)
  <2> PICK e : e = <<l.is, l.of>>
    OBVIOUS
  <2> PICK z : z = [open |-> "no", under |-> FALSE, shape |-> Append(s.shape, e)]
    OBVIOUS
  <2>1. s.shape \in Seq(Entry) /\ s = [open |-> "no", under |-> s.under, shape |-> s.shape]
    BY <1>3 DEF Seen
  <2>2. Append(s.shape, e) \in Seq(Entry) /\ Append(s.shape, e) = s.shape \o <<e>>
    BY <1>1, <2>1
  <2>3. z \in Seen
    BY <2>2 DEF Seen
  <2>4. Reads(s, l) = z
    BY <1>3, <2>1 DEF Reads
  <2>5. Runs(s, <<l>>, z)
    BY ONLY s \in Seen, l \in DocLine, <2>3, <2>4, RunsOne
  <2>6. z.open = "no" /\ z.shape = s.shape \o <<e>>
    BY <2>2
  <2> QED
    BY ONLY <2>3, <2>5, <2>6, e = <<l.is, l.of>>
<1> QED
  BY ONLY <1>2, <1>3 DEF Adds

Quiet(l) ==
  l \in DocLine /\ l.is = "text" /\ (l.says # <<>> => l.says[1] \notin {"hash", "rule", "fence", "tilde"})

LEMMA AddsQuiet ==
  ASSUME NEW l, Quiet(l)
  PROVE  Adds(<<l>>, <<>>)
<1>1. <<l>> \in Seq(DocLine) /\ <<>> \in Seq(Entry) /\ l \in DocLine
  BY DEF Quiet
<1>2. ASSUME NEW s \in Seen, s.open = "no"
      PROVE  \E z \in Seen : z.open = "no" /\ z.shape = s.shape \o <<>> /\ Runs(s, <<l>>, z)
  <2> PICK first : first = IF l.says = <<>> THEN "nothing" ELSE l.says[1]
    OBVIOUS
  <2> PICK z : z = [s EXCEPT !.under = l.is = "text" /\ first \notin {"nothing", "rule"}]
    OBVIOUS
  <2>1. l.is = "text" /\ first \notin {"hash", "rule", "fence", "tilde"}
    BY DEF Quiet
  <2>2. z \in Seen /\ z.open = "no" /\ z.shape = s.shape /\ s.shape \in Seq(Entry)
    BY <1>2 DEF Seen
  <2>3. Reads(s, l) = z
    BY <1>2, <2>1 DEF Reads
  <2>4. Runs(s, <<l>>, z)
    BY ONLY s \in Seen, <1>1, <2>2, <2>3, RunsOne
  <2> PICK h : h = s.shape
    OBVIOUS
  <2>5. h \o <<>> = h
    BY <2>2
  <2> QED
    BY ONLY <2>2, <2>4, <2>5, h = s.shape
<1> QED
  BY ONLY <1>1, <1>2 DEF Adds

LEMMA AddsBlock == Adds(Block, <<>>) /\ Fenced(Block) = 2
<1> PICK a : a = Text(<<"fence", "word">>)
  OBVIOUS
<1> PICK b : b = Text(<<"word">>)
  OBVIOUS
<1> PICK c : c = Text(<<"fence">>)
  OBVIOUS
<1>1. a \in DocLine /\ b \in DocLine /\ c \in DocLine /\ <<>> \in Seq(Entry)
  <2>1. "nothing" \in Owners
    BY Zenon DEF Owners
  <2>2. <<"fence", "word">> \in Seq(ProseMark) /\ <<"word">> \in Seq(ProseMark) /\ <<"fence">> \in Seq(ProseMark)
    BY DEF ProseMark
  <2> QED
    BY <2>1, <2>2 DEF Text, DocLine
<1>2. <<a>> \in Seq(DocLine) /\ <<b>> \in Seq(DocLine) /\ <<c>> \in Seq(DocLine)
  BY <1>1
<1>3. Block = (<<a>> \o <<b>>) \o <<c>>
  BY DEF Block
<1>4. ASSUME NEW s \in Seen, s.open = "no"
      PROVE  \E z \in Seen : z.open = "no" /\ z.shape = s.shape \o <<>> /\ Runs(s, Block, z)
  <2> PICK u : u = [open |-> "fence", under |-> TRUE, shape |-> s.shape]
    OBVIOUS
  <2> PICK z : z = [open |-> "no", under |-> TRUE, shape |-> s.shape]
    OBVIOUS
  <2> PICK h : h = s.shape
    OBVIOUS
  <2>1. h \in Seq(Entry) /\ u \in Seen /\ z \in Seen /\ s.under \in BOOLEAN
        /\ s = [open |-> "no", under |-> s.under, shape |-> s.shape]
    BY <1>4 DEF Seen
  <2>2. Reads(s, a) = u
    BY <1>4, <2>1 DEF Reads, Text
  <2>3. Reads(u, b) = u
    BY <1>4 DEF Reads, Text
  <2>4. Reads(u, c) = z
    BY <1>4 DEF Reads, Text
  <2>5. Runs(s, <<a>>, u) /\ Runs(u, <<b>>, u) /\ Runs(u, <<c>>, z)
    BY ONLY s \in Seen, <1>1, <2>1, <2>2, <2>3, <2>4, RunsOne
  <2>6. Runs(s, <<a>> \o <<b>>, u)
    BY ONLY <1>2, <2>5, RunsOn
  <2>7. Runs(s, (<<a>> \o <<b>>) \o <<c>>, z)
    <3>1. <<a>> \o <<b>> \in Seq(DocLine)
      BY ONLY <1>2
    <3> QED
      BY ONLY <1>2, <2>5, <2>6, <3>1, RunsOn
  <2>8. h \o <<>> = h
    BY ONLY <2>1
  <2>9. z.open = "no" /\ z.shape = s.shape \o <<>>
    BY <2>8
  <2> QED
    BY ONLY <1>3, <2>1, <2>7, <2>9
<1>5. Block \in Seq(DocLine)
  BY ONLY <1>2, <1>3
<1>6. Adds(Block, <<>>)
  BY ONLY <1>1, <1>4, <1>5 DEF Adds
<1>7. Fenced(<<a>>) = 1 /\ Fenced(<<b>>) = 0 /\ Fenced(<<c>>) = 1
  <2>1. ASSUME NEW l \in DocLine
        PROVE  Fenced(<<l>>) = FenceCount(l.says)
    <3>1. <<>> \in Seq(DocLine) /\ Append(<<>>, l) = <<l>>
      OBVIOUS
    <3>2. Fenced(Append(<<>>, l)) = Fenced(<<>>) + FenceCount(l.says)
      BY ONLY <3>1, l \in DocLine, SayingAppend
    <3>3. FenceCount(l.says) \in Nat
      <4>1. l.says \in Seq(ProseMark) /\ "word" \in ProseMark
        BY DEF DocLine, ProseMark
      <4> QED
        BY <4>1, FenceAppend
    <3> QED
      BY ONLY <3>1, <3>2, <3>3, FencedNone
  <2>2. Fences(<<"fence", "word">>) = {1} /\ Fences(<<"word">>) = {} /\ Fences(<<"fence">>) = {1}
    BY DEF Fences
  <2>3. FenceCount(<<"fence", "word">>) = 1 /\ FenceCount(<<"word">>) = 0 /\ FenceCount(<<"fence">>) = 1
    BY ONLY <2>2, FS_Singleton, FS_EmptySet DEF FenceCount
  <2>4. a.says = <<"fence", "word">> /\ b.says = <<"word">> /\ c.says = <<"fence">>
    BY DEF Text
  <2> QED
    BY ONLY <1>1, <2>1, <2>3, <2>4
<1>8. Fenced((<<a>> \o <<b>>) \o <<c>>) = 2
  <2>1. <<a>> \o <<b>> \in Seq(DocLine)
    BY ONLY <1>2
  <2>2. Fenced(<<a>> \o <<b>>) = Fenced(<<a>>) + Fenced(<<b>>)
    BY ONLY <1>2, FencedConcat
  <2>3. Fenced((<<a>> \o <<b>>) \o <<c>>) = Fenced(<<a>> \o <<b>>) + Fenced(<<c>>)
    BY ONLY <1>2, <2>1, FencedConcat
  <2> QED
    BY ONLY <1>7, <2>2, <2>3
<1> QED
  BY ONLY <1>3, <1>6, <1>8

LEMMA FencedOne ==
  ASSUME NEW l \in DocLine
  PROVE  Fenced(<<l>>) = FenceCount(l.says) /\ FenceCount(l.says) \in Nat
<1>1. <<>> \in Seq(DocLine) /\ Append(<<>>, l) = <<l>>
  OBVIOUS
<1>2. Fenced(Append(<<>>, l)) = Fenced(<<>>) + FenceCount(l.says)
  BY ONLY <1>1, l \in DocLine, SayingAppend
<1>3. FenceCount(l.says) \in Nat
  <2>1. l.says \in Seq(ProseMark) /\ "word" \in ProseMark
    BY DEF DocLine, ProseMark
  <2> QED
    BY <2>1, FenceAppend
<1> QED
  BY ONLY <1>1, <1>2, <1>3, FencedNone

\* Quiet lines add nothing; rows add themselves.
LEMMA AddsQuietLines ==
  ASSUME NEW d, d \in Seq(DocLine), \A k \in DOMAIN d : Quiet(d[k])
  PROVE  Adds(d, <<>>)
<1> PICK n : n = Len(d)
  OBVIOUS
<1> DEFINE upTo(k) == SubSeq(d, 1, k)
           S == {k \in 0 .. n : Adds(upTo(k), <<>>)}
<1>1. n \in Nat /\ upTo(0) = <<>> /\ upTo(n) = d /\ 0 \in 0 .. n /\ DOMAIN d = 1 .. n
  OBVIOUS
<1>2. ASSUME NEW k \in 0 .. n - 1
      PROVE  k + 1 \in 0 .. n /\ upTo(k + 1) = upTo(k) \o <<d[k + 1]>> /\ Quiet(d[k + 1])
  <2>1. k + 1 \in 1 .. n /\ k + 1 \in 0 .. n
    BY <1>1
  <2> QED
    BY <1>1, <2>1
<1> HIDE DEF upTo
<1>3. 0 \in S
  BY <1>1, AddsNone
<1>4. ASSUME NEW k \in 0 .. n - 1, k \in S
      PROVE  k + 1 \in S
  <2>1. Adds(upTo(k), <<>>)
    BY <1>4
  <2>2. Adds(<<d[k + 1]>>, <<>>)
    BY <1>2, AddsQuiet
  <2>3. Adds(upTo(k) \o <<d[k + 1]>>, <<>> \o <<>>)
    BY ONLY <2>1, <2>2, AddsConcat
  <2>4. <<>> \o <<>> = <<>>
    OBVIOUS
  <2> QED
    BY <1>2, <2>3, <2>4
<1> HIDE DEF S
<1>5. n \in S
  <2>1. \A k \in 0 .. n - 1 : k \in S => k + 1 \in S
    BY <1>4
  <2>2. \A k \in 0 .. n : k \in S
    BY ONLY <1>1, <1>3, <2>1, UpTo
  <2> QED
    BY <1>1, <2>2
<1> QED
  BY <1>1, <1>5 DEF S

Entries(d) == [k \in DOMAIN d |-> <<"row", d[k].of>>]

LEMMA AddsRows ==
  ASSUME NEW d, d \in Seq(DocLine), \A k \in DOMAIN d : d[k].is = "row"
  PROVE  Adds(d, Entries(d))
<1> PICK n : n = Len(d)
  OBVIOUS
<1> DEFINE upTo(k) == SubSeq(d, 1, k)
           S == {k \in 0 .. n : Adds(upTo(k), Entries(upTo(k)))}
<1>1. n \in Nat /\ upTo(0) = <<>> /\ upTo(n) = d /\ 0 \in 0 .. n /\ DOMAIN d = 1 .. n
  OBVIOUS
<1>2. ASSUME NEW k \in 0 .. n - 1
      PROVE  /\ k + 1 \in 0 .. n /\ upTo(k + 1) = upTo(k) \o <<d[k + 1]>> /\ d[k + 1] \in DocLine
             /\ d[k + 1].is = "row" /\ upTo(k) \in Seq(DocLine)
  <2>1. k + 1 \in 1 .. n /\ k + 1 \in 0 .. n
    BY <1>1
  <2> QED
    BY <1>1, <2>1
<1> HIDE DEF upTo
<1>3. 0 \in S
  <2>1. Entries(<<>>) = <<>>
    BY DEF Entries
  <2> QED
    BY <1>1, <2>1, AddsNone
<1>4. ASSUME NEW k \in 0 .. n - 1, k \in S
      PROVE  k + 1 \in S
  <2> PICK u : u = upTo(k)
    OBVIOUS
  <2> PICK l : l = d[k + 1]
    OBVIOUS
  <2>0. /\ u \in Seq(DocLine) /\ l \in DocLine /\ l.is = "row" /\ upTo(k + 1) = u \o <<l>>
        /\ k + 1 \in 0 .. n
    BY <1>2
  <2>1. Adds(u, Entries(u))
    BY <1>4
  <2>2. Adds(<<l>>, << <<l.is, l.of>> >>)
    <3>1. l.is # "text"
      BY <2>0
    <3> QED
      BY ONLY <2>0, <3>1, AddsMark
  <2>3. Adds(u \o <<l>>, Entries(u) \o << <<l.is, l.of>> >>)
    BY ONLY <2>1, <2>2, AddsConcat
  <2>4. Entries(u \o <<l>>) = Entries(u) \o << <<l.is, l.of>> >>
    <3> PICK m : m = Len(u)
      OBVIOUS
    <3> PICK w : w = u \o <<l>>
      OBVIOUS
    <3> PICK e : e = Entries(u)
      OBVIOUS
    <3> PICK x : x = <<"row", l.of>>
      OBVIOUS
    <3>1. /\ m \in Nat /\ DOMAIN w = 1 .. m + 1 /\ w[m + 1] = l /\ \A i \in 1 .. m : w[i] = u[i]
          /\ DOMAIN u = 1 .. m
      BY <2>0
    <3>2. e = [i \in 1 .. m |-> <<"row", u[i].of>>]
      BY <3>1 DEF Entries
    <3>3. e \o <<x>> = [i \in 1 .. m + 1 |-> IF i = m + 1 THEN x ELSE e[i]]
      BY ONLY <3>1, <3>2
    <3>4. \A i \in 1 .. m + 1 : <<"row", w[i].of>> = IF i = m + 1 THEN x ELSE e[i]
      <4>1. \A i \in 1 .. m + 1 : i # m + 1 => i \in 1 .. m
        BY ONLY <3>1
      <4> QED
        BY ONLY <3>1, <3>2, <4>1, x = <<"row", l.of>>
    <3>5. Entries(w) = [i \in 1 .. m + 1 |-> <<"row", w[i].of>>]
      BY ONLY <3>1 DEF Entries
    <3> QED
      BY ONLY <2>0, <3>3, <3>4, <3>5, w = u \o <<l>>, e = Entries(u), x = <<"row", l.of>>
  <2> QED
    BY <2>0, <2>3, <2>4
<1> HIDE DEF S
<1>5. n \in S
  <2>1. \A k \in 0 .. n - 1 : k \in S => k + 1 \in S
    BY <1>4
  <2>2. \A k \in 0 .. n : k \in S
    BY ONLY <1>1, <1>3, <2>1, UpTo
  <2> QED
    BY <1>1, <2>2
<1> QED
  BY <1>1, <1>5 DEF S

\* Parts that each add what they should.
LEMMA AddsFlat ==
  ASSUME NEW n \in Nat, NEW p, NEW q, \A k \in 1 .. n : Adds(p[k], q[k])
  PROVE  Adds(Seqs!FlattenSeq([k \in 1 .. n |-> p[k]]), Seqs!FlattenSeq([k \in 1 .. n |-> q[k]]))
<1> DEFINE P(k) == Seqs!FlattenSeq([i \in 1 .. k |-> p[i]])
           Q(k) == Seqs!FlattenSeq([i \in 1 .. k |-> q[i]])
           S == {k \in 0 .. n : Adds(P(k), Q(k))}
<1>1. P(0) = <<>> /\ Q(0) = <<>>
  BY FlattenNone
<1>2. ASSUME NEW k \in 0 .. n - 1
      PROVE  /\ k + 1 \in 0 .. n /\ Adds(p[k + 1], q[k + 1])
             /\ P(k + 1) = P(k) \o p[k + 1] /\ Q(k + 1) = Q(k) \o q[k + 1]
  <2>1. k \in Nat /\ k + 1 \in 1 .. n /\ k + 1 \in 0 .. n /\ \A i \in 1 .. k + 1 : i \in 1 .. n
    OBVIOUS
  <2>2. \A i \in 1 .. k + 1 : p[i] \in Seq(DocLine) /\ q[i] \in Seq(Entry)
    BY <2>1 DEF Adds
  <2>3. P(k + 1) = P(k) \o p[k + 1]
    BY ONLY <2>1, <2>2, FlattenNext
  <2>4. Q(k + 1) = Q(k) \o q[k + 1]
    BY ONLY <2>1, <2>2, FlattenNext
  <2> HIDE DEF P, Q
  <2> QED
    BY <2>1, <2>3, <2>4
<1> HIDE DEF P, Q
<1>3. 0 \in S
  BY <1>1, AddsNone
<1>4. ASSUME NEW k \in 0 .. n - 1, k \in S
      PROVE  k + 1 \in S
  <2>1. Adds(P(k), Q(k))
    BY <1>4
  <2>2. Adds(P(k) \o p[k + 1], Q(k) \o q[k + 1])
    BY ONLY <1>2, <2>1, AddsConcat, k \in 0 .. n - 1
  <2> QED
    BY <1>2, <2>2
<1> HIDE DEF S
<1>5. n \in S
  <2>1. \A k \in 0 .. n - 1 : k \in S => k + 1 \in S
    BY <1>4
  <2>2. \A k \in 0 .. n : k \in S
    BY ONLY <1>3, <2>1, UpTo, n \in Nat
  <2> QED
    BY <2>2
<1> QED
  BY <1>5 DEF S, P, Q

-----------------------------------------------------------------------------
(* Documents: what the model said, line by line. *)

SaidNext(d, m) ==
  IF m = "newline" THEN Append(d, EmptyLine)
  ELSE Append(Seqs!Front(d), Text(Append(Seqs!Last(d).says, m)))

LEMMA FrontLast ==
  ASSUME NEW T, NEW e, NEW l, e \in Seq(T), l \in T
  PROVE  Seqs!Front(Append(e, l)) = e /\ Seqs!Last(Append(e, l)) = l
<1> PICK d : d = Append(e, l)
  OBVIOUS
<1> PICK n : n = Len(e)
  OBVIOUS
<1>1. d \in Seq(T) /\ n \in Nat /\ Len(d) = n + 1 /\ d[n + 1] = l /\ \A i \in 1 .. n : d[i] = e[i]
  OBVIOUS
<1>2. SubSeq(d, 1, n) = e
  BY <1>1
<1>3. Len(d) - 1 = n
  BY <1>1
<1> QED
  BY <1>1, <1>2, <1>3 DEF Seqs!Front, Seqs!Last

LEMMA SaidParts ==
  ASSUME NEW p, p \in Seq(ProseMark), p # <<>>
  PROVE  \E f : /\ f[0] = <<EmptyLine>> /\ Said(p) = f[Len(p)]
                /\ \A i \in 1 .. Len(p) : f[i] = SaidNext(f[i - 1], p[i])
<1> PICK n : n = Len(p)
  OBVIOUS
<1> PICK e : e = <<EmptyLine>>
  OBVIOUS
<1> DEFINE V == {d \in Seq(DocLine) : d # <<>>}
           step == [x \in (1 .. n) \X V |-> SaidNext(x[2], p[x[1]])]
<1>0. EmptyLine \in DocLine
  <2>1. "nothing" \in Owners
    BY Zenon DEF Owners
  <2>2. <<>> \in Seq(ProseMark)
    OBVIOUS
  <2> QED
    BY <2>1, <2>2 DEF EmptyLine, Text, DocLine
<1>1. n \in Nat /\ e \in V /\ \A i \in 1 .. n : p[i] \in ProseMark
  BY <1>0
<1>2. step \in [(1 .. n) \X V -> V]
  <2>1. ASSUME NEW m \in ProseMark, NEW d \in V
        PROVE  SaidNext(d, m) \in V
    <3>1. Append(d, EmptyLine) \in V
      BY <1>0
    <3>2. Seqs!Last(d) \in DocLine /\ Seqs!Front(d) \in Seq(DocLine)
      BY DEF Seqs!Front, Seqs!Last
    <3> PICK l : l = Seqs!Last(d)
      OBVIOUS
    <3> PICK g : g = Seqs!Front(d)
      OBVIOUS
    <3>3. l.says \in Seq(ProseMark)
      BY <3>2 DEF DocLine
    <3>4. Append(l.says, m) \in Seq(ProseMark)
      BY <3>3
    <3>5. Text(Append(l.says, m)) \in DocLine
      <4>1. "nothing" \in Owners
        BY Zenon DEF Owners
      <4> QED
        BY <3>4, <4>1 DEF Text, DocLine
    <3>6. Append(g, Text(Append(l.says, m))) \in V
      <4> PICK r : r = Text(Append(l.says, m))
        OBVIOUS
      <4>1. r \in DocLine /\ g \in Seq(DocLine)
        BY ONLY <3>2, <3>5, g = Seqs!Front(d), r = Text(Append(l.says, m))
      <4>2. Append(g, r) \in Seq(DocLine) /\ Append(g, r) # <<>>
        BY ONLY <4>1
      <4> QED
        BY ONLY <4>2, r = Text(Append(l.says, m)) DEF V
    <3> QED
      BY <3>1, <3>6 DEF SaidNext
  <2> HIDE DEF V
  <2> QED
    BY <1>1, <2>1
<1>3. \A i \in 1 .. n, d \in V : step[<<i, d>>] = SaidNext(d, p[i])
  OBVIOUS
<1> HIDE DEF step, V
<1>4. PICK g : Recursive(g, n, V, e, step)
  BY ONLY <1>1, <1>2, Recursion
<1>5. g \in [0 .. n -> V] /\ g[0] = e /\ \A i \in 1 .. n : g[i] = SaidNext(g[i - 1], p[i])
  <2>1. g \in [0 .. n -> V] /\ g[0] = e /\ \A i \in 1 .. n : g[i] = step[<<i, g[i - 1]>>]
    BY <1>4 DEF Recursive
  <2>2. \A i \in 1 .. n : i - 1 \in 0 .. n
    BY <1>1
  <2> QED
    BY ONLY <1>3, <2>1, <2>2
<1>6. g = [i \in 0 .. n |-> IF i = 0 THEN <<EmptyLine>> ELSE SaidNext(g[i - 1], p[i])]
  <2>1. ASSUME NEW i \in 0 .. n
        PROVE  g[i] = IF i = 0 THEN <<EmptyLine>> ELSE SaidNext(g[i - 1], p[i])
    <3>1. i # 0 => i \in 1 .. n
      BY <1>1
    <3> QED
      BY <1>5, <3>1
  <2>2. g = [i \in 0 .. n |-> g[i]]
    BY <1>5
  <2> QED
    BY ONLY <2>1, <2>2
<1>7. \E h : /\ h = [i \in 0 .. n |-> IF i = 0 THEN <<EmptyLine>> ELSE SaidNext(h[i - 1], p[i])]
             /\ Said(p) = h[n]
  BY <1>6, Zenon DEF Said, SaidNext
<1>8. PICK h : /\ h = [i \in 0 .. n |-> IF i = 0 THEN <<EmptyLine>> ELSE SaidNext(h[i - 1], p[i])]
               /\ Said(p) = h[n]
  BY <1>7
<1>9. h[0] = <<EmptyLine>> /\ \A i \in 1 .. n : h[i] = SaidNext(h[i - 1], p[i])
  <2>1. \A i \in 0 .. n : h[i] = IF i = 0 THEN <<EmptyLine>> ELSE SaidNext(h[i - 1], p[i])
    BY <1>8, Zenon
  <2>2. 0 \in 0 .. n /\ \A i \in 1 .. n : i \in 0 .. n /\ i # 0
    BY <1>1
  <2> QED
    BY ONLY <2>1, <2>2
<1> QED
  BY <1>8, <1>9

\* A line of what is said under p: it opens no heading, and no block if there is no fence.
Loose(l, p) ==
  /\ l \in DocLine /\ l.is = "text"
  /\ l.says # <<>> => l.says[1] \notin {"hash", "rule", "tilde"}
  /\ l.says # <<>> /\ l.says[1] = "fence" => Fences(p) # {}

\* The lines of the first k marks: whole ones, and the one still being written.
SaidTo(d, p, k, e, x) ==
  /\ d = Append(e, Text(x)) /\ e \in Seq(DocLine) /\ x \in Seq(ProseMark)
  /\ \A j \in DOMAIN e : Loose(e[j], p)
  /\ Loose(Text(x), p)
  /\ x = <<>> => k = 0 \/ p[k] = "newline"
  /\ Fenced(e) + FenceCount(x) = FenceCount(SubSeq(p, 1, k))

LEMMA SaidIs ==
  ASSUME NEW p, Clean(p), p # <<>>, \A i \in DOMAIN p : p[i] \notin {"rule", "tilde"}
  PROVE  /\ Said(p) \in Seq(DocLine) /\ \A k \in DOMAIN Said(p) : Loose(Said(p)[k], p)
         /\ Fenced(Said(p)) = FenceCount(p)
<1> PICK n : n = Len(p)
  OBVIOUS
<1>0. p \in Seq(ProseMark) /\ NoHeading(p) /\ n \in Nat /\ DOMAIN p = 1 .. n
  BY DEF Clean
<1>1. PICK f : /\ f[0] = <<EmptyLine>> /\ Said(p) = f[n]
               /\ \A i \in 1 .. n : f[i] = SaidNext(f[i - 1], p[i])
  BY <1>0, SaidParts
<1>2. /\ EmptyLine \in DocLine /\ EmptyLine = Text(<<>>) /\ "word" \in ProseMark
      /\ \A x \in Seq(ProseMark) : Text(x) \in DocLine
      /\ <<>> \in Seq(ProseMark) /\ <<>> \in Seq(DocLine)
  <2>1. "nothing" \in Owners
    BY Zenon DEF Owners
  <2>2. <<>> \in Seq(ProseMark)
    OBVIOUS
  <2> QED
    BY <2>1, <2>2 DEF EmptyLine, Text, DocLine, ProseMark
<1>3. Loose(Text(<<>>), p)
  BY <1>2 DEF Loose, Text
<1> DEFINE S == {k \in 0 .. n : \E e, x : SaidTo(f[k], p, k, e, x)}
<1>4. 0 \in S
  <2>1. f[0] = Append(<<>>, Text(<<>>))
    BY <1>1, <1>2
  <2>2. SubSeq(p, 1, 0) = <<>> /\ DOMAIN <<>> = {}
    BY <1>0
  <2>3. Fenced(<<>>) + FenceCount(<<>>) = FenceCount(SubSeq(p, 1, 0))
    <3>1. FenceCount(SubSeq(p, 1, 0)) = 0
      BY <2>2, NoFences, Zenon
    <3> QED
      BY ONLY <3>1, NoFences, FencedNone
  <2>4. SaidTo(f[0], p, 0, <<>>, <<>>)
    BY ONLY <1>2, <1>3, <2>1, <2>2, <2>3 DEF SaidTo
  <2> QED
    BY <1>0, <2>4
<1>5. ASSUME NEW k \in 0 .. n - 1, k \in S
      PROVE  k + 1 \in S
  <2>1. PICK e, x : SaidTo(f[k], p, k, e, x)
    BY <1>5
  <2> PICK m : m = p[k + 1]
    OBVIOUS
  <2> PICK u : u = SubSeq(p, 1, k)
    OBVIOUS
  <2>2. /\ k + 1 \in 1 .. n /\ k + 1 \in 0 .. n /\ (k + 1) - 1 = k /\ m \in ProseMark
        /\ u \in Seq(ProseMark) /\ SubSeq(p, 1, k + 1) = Append(u, m) /\ m \notin {"rule", "tilde"}
    BY <1>0
  <2>3. f[k + 1] = SaidNext(f[k], m)
    BY ONLY <1>1, <2>2, m = p[k + 1]
  <2>4. /\ f[k] = Append(e, Text(x)) /\ e \in Seq(DocLine) /\ x \in Seq(ProseMark)
        /\ \A j \in DOMAIN e : Loose(e[j], p)
        /\ Loose(Text(x), p)
        /\ x = <<>> => k = 0 \/ p[k] = "newline"
        /\ Fenced(e) + FenceCount(x) = FenceCount(u)
    BY <2>1 DEF SaidTo
  <2> PICK l : l = Text(x)
    OBVIOUS
  <2>5. l \in DocLine /\ l.says = x
    BY <1>2, <2>4 DEF Text
  <2>6. /\ FenceCount(u) \in Nat /\ FenceCount(Append(u, m)) = FenceCount(u) + IF m = "fence" THEN 1 ELSE 0
        /\ FenceCount(x) \in Nat /\ FenceCount(Append(x, m)) = FenceCount(x) + IF m = "fence" THEN 1 ELSE 0
    BY ONLY <2>2, <2>4, FenceAppend
  <2>7. Fenced(e) \in Nat /\ Fenced(Append(e, l)) = Fenced(e) + FenceCount(x)
    <3>1. Fenced(e) \in Nat /\ Fenced(Append(e, l)) = Fenced(e) + FenceCount(l.says)
      BY ONLY <2>4, <2>5, SayingAppend
    <3> QED
      BY ONLY <2>5, <3>1
  <2>8. CASE m = "newline"
    <3> PICK d : d = Append(e, l)
      OBVIOUS
    <3>1. f[k + 1] = Append(d, Text(<<>>))
      BY <1>2, <2>3, <2>4, <2>8 DEF SaidNext
    <3>2. d \in Seq(DocLine)
      BY <2>4, <2>5
    <3>3. \A j \in DOMAIN d : Loose(d[j], p)
      <4> PICK c : c = Len(e)
        OBVIOUS
      <4>1. /\ DOMAIN d = 1 .. c + 1 /\ DOMAIN e = 1 .. c /\ d[c + 1] = l /\ \A j \in 1 .. c : d[j] = e[j]
            /\ c \in Nat
        BY <2>4
      <4>2. \A j \in 1 .. c + 1 : j = c + 1 \/ j \in 1 .. c
        BY ONLY <4>1
      <4> QED
        BY ONLY <2>4, <4>1, <4>2, l = Text(x)
    <3>4. Fenced(d) + FenceCount(<<>>) = FenceCount(SubSeq(p, 1, k + 1))
      <4>1. FenceCount(SubSeq(p, 1, k + 1)) = FenceCount(Append(u, m))
        BY <2>2
      <4> QED
        BY ONLY <2>4, <2>6, <2>7, <2>8, <4>1, NoFences, d = Append(e, l)
    <3>5. SaidTo(f[k + 1], p, k + 1, d, <<>>)
      BY ONLY <1>2, <1>3, <2>8, <3>1, <3>2, <3>3, <3>4, m = p[k + 1] DEF SaidTo
    <3> QED
      BY <2>2, <3>5
  <2>9. CASE m # "newline"
    <3> PICK y : y = Append(x, m)
      OBVIOUS
    <3>1. f[k + 1] = Append(e, Text(y))
      <4>1. Seqs!Front(Append(e, l)) = e /\ Seqs!Last(Append(e, l)) = l
        BY ONLY <2>4, <2>5, FrontLast
      <4> QED
        BY <2>3, <2>4, <2>5, <2>9, <4>1 DEF SaidNext
    <3>2. y \in Seq(ProseMark) /\ y # <<>> /\ (x = <<>> => y[1] = m) /\ (x # <<>> => y[1] = x[1])
      <4>1. x \in Seq(ProseMark) /\ m \in ProseMark
        BY <2>2, <2>4
      <4> QED
        BY ONLY <4>1, y = Append(x, m)
    <3>3. m = "hash" => x # <<>>
      <4>1. m = "hash" => k + 1 > 1 /\ p[(k + 1) - 1] # "newline"
        BY <1>0, <2>2 DEF NoHeading
      <4> QED
        BY ONLY <2>2, <2>4, <4>1, k \in 0 .. n - 1, <1>0
    <3>4. m = "fence" => Fences(p) # {}
      BY <1>0, <2>2 DEF Fences
    <3>5. Loose(Text(y), p)
      <4>1. Text(y) \in DocLine /\ Text(y).is = "text" /\ Text(y).says = y
        BY <1>2, <3>2 DEF Text
      <4>2. /\ x # <<>> => x[1] \notin {"hash", "rule", "tilde"}
            /\ x # <<>> /\ x[1] = "fence" => Fences(p) # {}
        BY <2>4, <2>5 DEF Loose
      <4>3. y[1] \notin {"hash", "rule", "tilde"} /\ (y[1] = "fence" => Fences(p) # {})
        BY ONLY <2>2, <3>2, <3>3, <3>4, <4>2
      <4> QED
        BY ONLY <4>1, <4>3 DEF Loose
    <3>6. Fenced(e) + FenceCount(y) = FenceCount(SubSeq(p, 1, k + 1))
      <4>1. FenceCount(SubSeq(p, 1, k + 1)) = FenceCount(Append(u, m))
        BY <2>2
      <4> QED
        BY ONLY <2>4, <2>6, <2>7, <4>1, y = Append(x, m)
    <3>7. SaidTo(f[k + 1], p, k + 1, e, y)
      BY ONLY <2>4, <3>1, <3>2, <3>5, <3>6 DEF SaidTo
    <3> QED
      BY <2>2, <3>7
  <2> QED
    BY <2>8, <2>9
<1> HIDE DEF S
<1>6. n \in S
  <2>1. \A k \in 0 .. n - 1 : k \in S => k + 1 \in S
    BY <1>5
  <2>2. \A k \in 0 .. n : k \in S
    BY ONLY <1>0, <1>4, <2>1, UpTo
  <2> QED
    BY <1>0, <2>2
<1>7. PICK e, x : SaidTo(f[n], p, n, e, x)
  BY <1>6 DEF S
<1> PICK l : l = Text(x)
  OBVIOUS
<1> PICK d : d = Said(p)
  OBVIOUS
<1>8. /\ d = Append(e, l) /\ e \in Seq(DocLine) /\ x \in Seq(ProseMark)
      /\ \A j \in DOMAIN e : Loose(e[j], p)
      /\ Loose(l, p) /\ Fenced(e) + FenceCount(x) = FenceCount(SubSeq(p, 1, n))
  BY <1>1, <1>7 DEF SaidTo
<1>9. l \in DocLine /\ l.says = x
  BY <1>2, <1>8 DEF Text
<1>10. d \in Seq(DocLine)
  BY ONLY <1>8, <1>9
<1>11. \A j \in DOMAIN d : Loose(d[j], p)
  <2> PICK c : c = Len(e)
    OBVIOUS
  <2>1. /\ DOMAIN d = 1 .. c + 1 /\ DOMAIN e = 1 .. c /\ d[c + 1] = l /\ \A j \in 1 .. c : d[j] = e[j]
        /\ c \in Nat
    BY <1>8, <1>9
  <2>2. \A j \in 1 .. c + 1 : j = c + 1 \/ j \in 1 .. c
    BY ONLY <2>1
  <2> QED
    BY ONLY <1>8, <2>1, <2>2
<1>12. Fenced(d) = FenceCount(p)
  <2>1. Fenced(Append(e, l)) = Fenced(e) + FenceCount(l.says)
    BY ONLY <1>8, <1>9, SayingAppend
  <2>2. SubSeq(p, 1, n) = p
    BY <1>0
  <2> QED
    BY ONLY <1>8, <1>9, <2>1, <2>2
<1> QED
  BY ONLY <1>10, <1>11, <1>12, d = Said(p)

-----------------------------------------------------------------------------
(* Documents: the rows of the components. *)

LEMMA ImageFinite ==
  ASSUME NEW U, IsFiniteSet(U), NEW T, NEW h, h \in [U -> T], \A y \in T : \E x \in U : h[x] = y
  PROVE  IsFiniteSet(T)
<1>1. h \in Surjection(U, T)
  BY DEF Surjection
<1> QED
  BY <1>1, FS_Surjection

LEMMA PartsFinite ==
  ASSUME project \in Projects
  PROVE  IsFiniteSet(Parts)
<1> PICK fs : fs = Sources(project)
  OBVIOUS
<1> PICK r : r = Root(fs)
  OBVIOUS
<1>1. IsFiniteSet(fs)
  <2>1. IsFiniteSet(project)
    BY DocumentAssumption
  <2>2. fs \subseteq project
    BY DEF Sources
  <2> QED
    BY ONLY <2>1, <2>2, FS_Subset
<1>2. IsFiniteSet(Direct(fs, r))
  <2>1. Direct(fs, r) \subseteq fs
    BY DEF Direct
  <2> QED
    BY ONLY <1>1, <2>1, FS_Subset
<1>3. IsFiniteSet(Subdirs(fs, r))
  <2> PICK U : U = {f \in Under(fs, r) : f.dirs # r}
    OBVIOUS
  <2> DEFINE g(f) == f.dirs[Len(r) + 1]
  <2>1. U \subseteq fs
    BY DEF Under
  <2>2. IsFiniteSet(U)
    BY ONLY <1>1, <2>1, FS_Subset
  <2>3. Subdirs(fs, r) = {g(f) : f \in U}
    BY DEF Subdirs
  <2> PICK T : T = {g(x) : x \in U}
    OBVIOUS
  <2> PICK h : h = [x \in U |-> g(x)]
    OBVIOUS
  <2>8. h \in [U -> T] /\ \A y \in T : \E x \in U : h[x] = y
    <3> HIDE DEF g
    <3> QED
      OBVIOUS
  <2>4. IsFiniteSet(T)
    BY ONLY <2>2, <2>8, ImageFinite
  <2> QED
    BY <2>3, <2>4
<1> DEFINE pk(d) == [name |-> d, files |-> Under(fs, Append(r, d))]
           md(f) == [name |-> f.stem, files |-> {f}]
<1>4. IsFiniteSet({pk(d) : d \in Subdirs(fs, r)})
  <2> PICK U : U = Subdirs(fs, r)
    OBVIOUS
  <2>1. IsFiniteSet(U)
    BY <1>3
  <2> PICK T : T = {pk(x) : x \in U}
    OBVIOUS
  <2> PICK h : h = [x \in U |-> pk(x)]
    OBVIOUS
  <2>8. h \in [U -> T] /\ \A y \in T : \E x \in U : h[x] = y
    <3> HIDE DEF pk
    <3> QED
      OBVIOUS
  <2>2. IsFiniteSet(T)
    BY ONLY <2>1, <2>8, ImageFinite
  <2> QED
    BY <2>2
<1>5. IsFiniteSet({md(f) : f \in Direct(fs, r)})
  <2> PICK U : U = Direct(fs, r)
    OBVIOUS
  <2>1. IsFiniteSet(U)
    BY <1>2
  <2> PICK T : T = {md(x) : x \in U}
    OBVIOUS
  <2> PICK h : h = [x \in U |-> md(x)]
    OBVIOUS
  <2>8. h \in [U -> T] /\ \A y \in T : \E x \in U : h[x] = y
    <3> HIDE DEF md
    <3> QED
      OBVIOUS
  <2>2. IsFiniteSet(T)
    BY ONLY <2>1, <2>8, ImageFinite
  <2> QED
    BY <2>2
<1>6. Parts \in {{}, {pk(d) : d \in Subdirs(fs, r)}, {md(f) : f \in Direct(fs, r)}}
  BY DEF Parts, Components
<1> QED
  BY <1>4, <1>5, <1>6, FS_EmptySet

Letters == Seqs!ToSet(Alphabet)

LEMMA InOrderIs ==
  ASSUME NEW N
  PROVE  InOrder(N) \in Seq(Letters \cap N)
<1> PICK P : P = {i \in DOMAIN Alphabet : Alphabet[i] \in N}
  OBVIOUS
<1> PICK U : U = Letters \cap N
  OBVIOUS
<1>1. Alphabet \in Seq(Letters)
  BY DocumentAssumption DEF Letters
<1>2. P \in SUBSET DOMAIN Alphabet
  OBVIOUS
<1>3. \A x \in P : Alphabet[x] \in U
  BY <1>1
<1>4. Taken(Alphabet, P) \in Seq(U)
  BY ONLY <1>1, <1>2, <1>3, TakenMarks
<1> QED
  BY <1>4 DEF InOrder

\* Lines that are rows of the same components.
Ledger == {l \in DocLine : l.is = "row"}
Same(a, b) == /\ a \in Seq(Ledger) /\ b \in Seq(Ledger) /\ Len(a) = Len(b)
              /\ \A k \in DOMAIN a : a[k].of = b[k].of

LEMMA SameConcat ==
  ASSUME NEW a, NEW b, NEW c, NEW d, Same(a, b), Same(c, d)
  PROVE  Same(a \o c, b \o d)
<1>1. /\ a \in Seq(Ledger) /\ b \in Seq(Ledger) /\ Len(a) = Len(b) /\ \A k \in 1 .. Len(a) : a[k].of = b[k].of
      /\ c \in Seq(Ledger) /\ d \in Seq(Ledger) /\ Len(c) = Len(d) /\ \A k \in 1 .. Len(c) : c[k].of = d[k].of
  BY DEF Same
<1> PICK x : x = a \o c
  OBVIOUS
<1> PICK y : y = b \o d
  OBVIOUS
<1>2. x \in Seq(Ledger) /\ y \in Seq(Ledger) /\ Len(x) = Len(a) + Len(c) /\ Len(y) = Len(x)
  <2> PICK L : L = Ledger
    OBVIOUS
  <2>1. a \in Seq(L) /\ b \in Seq(L) /\ c \in Seq(L) /\ d \in Seq(L) /\ Len(a) = Len(b) /\ Len(c) = Len(d)
    BY <1>1
  <2>2. x \in Seq(L) /\ Len(x) = Len(a) + Len(c)
    BY ONLY <2>1, x = a \o c, ConcatProperties
  <2>3. y \in Seq(L) /\ Len(y) = Len(b) + Len(d)
    BY ONLY <2>1, y = b \o d
  <2> QED
    BY ONLY <2>1, <2>2, <2>3, L = Ledger
<1>3. ASSUME NEW k \in 1 .. Len(x)
      PROVE  x[k].of = y[k].of
  <2>1. CASE k <= Len(a)
    <3>1. k \in 1 .. Len(a) /\ x[k] = a[k] /\ y[k] = b[k]
      BY <1>1, <1>2, <2>1
    <3> QED
      BY ONLY <1>1, <3>1
  <2>2. CASE k > Len(a)
    <3>1. k - Len(a) \in 1 .. Len(c) /\ x[k] = c[k - Len(a)] /\ y[k] = d[k - Len(a)]
      BY <1>1, <1>2, <2>2
    <3> QED
      BY ONLY <1>1, <3>1
  <2> QED
    BY <1>1, <2>1, <2>2
<1>4. DOMAIN x = 1 .. Len(x)
  BY <1>2
<1> QED
  BY ONLY <1>2, <1>3, <1>4, x = a \o c, y = b \o d DEF Same

LEMMA SameEntries ==
  ASSUME NEW a, NEW b, Same(a, b)
  PROVE  Entries(a) = Entries(b) /\ Adds(a, Entries(b))
<1>1. a \in Seq(Ledger) /\ b \in Seq(Ledger) /\ DOMAIN a = DOMAIN b /\ \A k \in DOMAIN a : a[k].of = b[k].of
  BY DEF Same
<1>2. Entries(a) = Entries(b)
  BY <1>1 DEF Entries
<1>3. a \in Seq(DocLine) /\ \A k \in DOMAIN a : a[k].is = "row"
  BY <1>1 DEF Ledger
<1>4. Adds(a, Entries(a))
  BY ONLY <1>3, AddsRows
<1> QED
  BY ONLY <1>2, <1>4

LEMMA SameFlat ==
  ASSUME NEW n \in Nat, NEW p, NEW q, \A k \in 1 .. n : Same(p[k], q[k])
  PROVE  Same(Seqs!FlattenSeq([k \in 1 .. n |-> p[k]]), Seqs!FlattenSeq([k \in 1 .. n |-> q[k]]))
<1> DEFINE A(k) == Seqs!FlattenSeq([j \in 1 .. k |-> p[j]])
           B(k) == Seqs!FlattenSeq([j \in 1 .. k |-> q[j]])
           S == {k \in 0 .. n : Same(A(k), B(k))}
<1>1. 0 \in S
  <2>1. A(0) = <<>> /\ B(0) = <<>>
    BY FlattenNone
  <2>2. Same(<<>>, <<>>)
    BY DEF Same
  <2> HIDE DEF A, B
  <2> QED
    BY <2>1, <2>2
<1>2. \A k \in 0 .. n - 1 : k \in S => k + 1 \in S
  <2> SUFFICES ASSUME NEW k \in 0 .. n - 1, k \in S
               PROVE  k + 1 \in S
    BY Zenon
  <2>1. k \in Nat /\ k + 1 \in 1 .. n /\ k + 1 \in 0 .. n /\ \A i \in 1 .. k + 1 : i \in 1 .. n
    OBVIOUS
  <2>2. \A i \in 1 .. k + 1 : p[i] \in Seq(Ledger) /\ q[i] \in Seq(Ledger)
    BY <2>1 DEF Same
  <2>3. A(k + 1) = A(k) \o p[k + 1] /\ B(k + 1) = B(k) \o q[k + 1]
    BY ONLY <2>1, <2>2, FlattenNext
  <2> HIDE DEF A, B
  <2>4. Same(A(k) \o p[k + 1], B(k) \o q[k + 1])
    BY <2>1, SameConcat
  <2> QED
    BY <2>1, <2>3, <2>4
<1> HIDE DEF S
<1>3. \A k \in 0 .. n : k \in S
  BY ONLY n \in Nat, <1>1, <1>2, UpTo
<1> QED
  BY <1>3 DEF S

\* Lines without a fence have none together.
LEMMA FencedBare ==
  ASSUME NEW d, d \in Seq(DocLine), \A k \in DOMAIN d : FenceCount(d[k].says) = 0
  PROVE  Fenced(d) = 0
<1> PICK n : n = Len(d)
  OBVIOUS
<1> DEFINE upTo(k) == SubSeq(d, 1, k)
           S == {k \in 0 .. n : Fenced(upTo(k)) = 0}
<1>1. n \in Nat /\ upTo(0) = <<>> /\ upTo(n) = d /\ 0 \in 0 .. n /\ DOMAIN d = 1 .. n
  OBVIOUS
<1>2. ASSUME NEW k \in 0 .. n - 1
      PROVE  /\ k + 1 \in 0 .. n /\ k + 1 \in DOMAIN d /\ upTo(k + 1) = Append(upTo(k), d[k + 1])
             /\ d[k + 1] \in DocLine /\ upTo(k) \in Seq(DocLine)
  <2>1. k + 1 \in 1 .. n /\ k + 1 \in 0 .. n
    BY <1>1
  <2> QED
    BY <1>1, <2>1
<1> HIDE DEF upTo
<1>3. 0 \in S
  BY <1>1, FencedNone
<1>4. ASSUME NEW k \in 0 .. n - 1, k \in S
      PROVE  k + 1 \in S
  <2>1. Fenced(upTo(k)) = 0 /\ FenceCount(d[k + 1].says) = 0
    BY <1>2, <1>4
  <2>2. Fenced(Append(upTo(k), d[k + 1])) = Fenced(upTo(k)) + FenceCount(d[k + 1].says)
    BY ONLY <1>2, k \in 0 .. n - 1, SayingAppend
  <2>3. Fenced(upTo(k + 1)) = 0
    <3>1. upTo(k + 1) = Append(upTo(k), d[k + 1])
      BY <1>2
    <3>2. Fenced(Append(upTo(k), d[k + 1])) = 0
      BY ONLY <2>1, <2>2
    <3> QED
      BY ONLY <3>1, <3>2
  <2>4. k + 1 \in 0 .. n
    BY <1>2
  <2> QED
    BY ONLY <2>3, <2>4 DEF S
<1> HIDE DEF S
<1>5. n \in S
  <2>1. \A k \in 0 .. n - 1 : k \in S => k + 1 \in S
    BY <1>4
  <2>2. \A k \in 0 .. n : k \in S
    BY ONLY <1>1, <1>3, <2>1, UpTo
  <2> QED
    BY <1>1, <2>2
<1> QED
  BY <1>1, <1>5 DEF S

\* What is said of each component; nothing of it a fence; rows without one.
Sayings == [NamesOf(Parts) -> Seq(ProseMark)]
Mute(said) == \A n \in DOMAIN said : Fences(said[n]) = {}
Unfenced == {l \in DocLine : l.is = "row" /\ FenceCount(l.says) = 0}

LEMMA WordLine == /\ <<"word">> \in Seq(ProseMark) /\ Fences(<<"word">>) = {} /\ Fences(<<>>) = {}
                  /\ \A t : Fences(t) = {} => FenceCount(t) = 0
<1>1. \A t : Fences(t) = {} => FenceCount(t) = 0
  BY FS_EmptySet DEF FenceCount
<1>2. "word" \in ProseMark
  BY DEF ProseMark
<1> QED
  BY <1>1, <1>2 DEF Fences

LEMMA RowIs ==
  ASSUME NEW n \in Letters, NEW t, t \in Seq(ProseMark)
  PROVE  /\ Row(n, t) \in Ledger /\ Row(n, t).of = n
         /\ Fences(t) = {} => Row(n, t) \in Unfenced
<1> PICK z : z = IF t = <<>> THEN <<"word">> ELSE t
  OBVIOUS
<1>1. z \in Seq(ProseMark) /\ (Fences(t) = {} => FenceCount(z) = 0)
  BY WordLine
<1>2. n \in Owners
  BY DEF Owners, Letters
<1>3. Row(n, t) = [is |-> "row", of |-> n, says |-> z]
  BY DEF Row
<1> QED
  BY <1>1, <1>2, <1>3 DEF Ledger, Unfenced, DocLine

RowsOf(n, t) == [k \in 1 .. Cardinality({c \in Parts : c.name = n}) |-> Row(n, t)]

LEMMA RowsOfIs ==
  ASSUME project \in Projects, NEW n \in Letters, NEW t, t \in Seq(ProseMark)
  PROVE  /\ Same(RowsOf(n, t), RowsOf(n, <<>>))
         /\ Fences(t) = {} => RowsOf(n, t) \in Seq(Unfenced)
<1> PICK P : P = {c \in Parts : c.name = n}
  OBVIOUS
<1> PICK w : w = Cardinality(P)
  OBVIOUS
<1>1. w \in Nat
  <2>1. IsFiniteSet(P)
    <3>1. P \subseteq Parts
      OBVIOUS
    <3> QED
      BY ONLY <3>1, project \in Projects, PartsFinite, FS_Subset
  <2> QED
    BY ONLY <2>1, w = Cardinality(P), FS_CardinalityType
<1>2. <<>> \in Seq(ProseMark)
  OBVIOUS
<1> PICK r : r = Row(n, t)
  OBVIOUS
<1> PICK q : q = Row(n, <<>>)
  OBVIOUS
<1>3. r \in Ledger /\ q \in Ledger /\ r.of = q.of /\ (Fences(t) = {} => r \in Unfenced)
  BY <1>2, RowIs
<1>4. RowsOf(n, t) = [k \in 1 .. w |-> r] /\ RowsOf(n, <<>>) = [k \in 1 .. w |-> q]
  BY DEF RowsOf
<1>5. [k \in 1 .. w |-> r] \in Seq(Ledger) /\ [k \in 1 .. w |-> q] \in Seq(Ledger)
  BY ONLY <1>1, <1>3
<1>6. Fences(t) = {} => [k \in 1 .. w |-> r] \in Seq(Unfenced)
  BY ONLY <1>1, <1>3
<1>7. Same([k \in 1 .. w |-> r], [k \in 1 .. w |-> q])
  <2>1. Len([k \in 1 .. w |-> r]) = w /\ Len([k \in 1 .. w |-> q]) = w
    BY ONLY <1>1
  <2> QED
    BY ONLY <1>3, <1>5, <2>1 DEF Same
<1> QED
  BY ONLY <1>4, <1>6, <1>7

LEMMA RowsIs ==
  ASSUME project \in Projects, NEW said, said \in Sayings
  PROVE  /\ Same(Rows(said), Rows(Roleless))
         /\ Mute(said) => Rows(said) \in Seq(Unfenced)
<1> PICK ns : ns = InOrder(NamesOf(Parts))
  OBVIOUS
<1> PICK m : m = Len(ns)
  OBVIOUS
<1> DEFINE p == [k \in 1 .. m |-> RowsOf(ns[k], said[ns[k]])]
           q == [k \in 1 .. m |-> RowsOf(ns[k], <<>>)]
<1>1. m \in Nat /\ DOMAIN ns = 1 .. m /\ \A k \in 1 .. m : ns[k] \in Letters /\ ns[k] \in NamesOf(Parts)
  <2> PICK N : N = NamesOf(Parts)
    OBVIOUS
  <2>1. ns \in Seq(Letters \cap N)
    BY InOrderIs
  <2>2. m \in Nat /\ DOMAIN ns = 1 .. m /\ \A k \in 1 .. m : ns[k] \in Letters \cap N
    BY ONLY <2>1, m = Len(ns)
  <2> QED
    BY ONLY <2>2, N = NamesOf(Parts)
<1>2. Rows(said) = Seqs!FlattenSeq(p)
  BY <1>1 DEF Rows, RowsOf
<1>3. Rows(Roleless) = Seqs!FlattenSeq(q)
  <2>1. \A k \in 1 .. m : Roleless[ns[k]] = <<>>
    BY <1>1 DEF Roleless
  <2>2. Rows(Roleless) = Seqs!FlattenSeq([k \in 1 .. m |-> RowsOf(ns[k], Roleless[ns[k]])])
    BY <1>1 DEF Rows, RowsOf
  <2>3. q = [k \in 1 .. m |-> RowsOf(ns[k], Roleless[ns[k]])]
    BY <2>1
  <2> QED
    BY ONLY <2>2, <2>3
<1>4. \A k \in 1 .. m : said[ns[k]] \in Seq(ProseMark)
  BY <1>1 DEF Sayings
<1>5. \A k \in 1 .. m : Same(p[k], q[k])
  BY <1>1, <1>4, RowsOfIs
<1>6. p = [k \in 1 .. m |-> p[k]] /\ q = [k \in 1 .. m |-> q[k]]
  OBVIOUS
<1>7. Mute(said) => Rows(said) \in Seq(Unfenced)
  <2>1. SUFFICES ASSUME Mute(said) PROVE Rows(said) \in Seq(Unfenced)
    OBVIOUS
  <2>2. \A k \in 1 .. m : p[k] \in Seq(Unfenced)
    <3>1. \A k \in 1 .. m : Fences(said[ns[k]]) = {}
      BY <1>1, <2>1 DEF Mute, Sayings
    <3> QED
      BY <1>1, <1>4, <3>1, RowsOfIs
  <2>3. p \in Seq(Seq(Unfenced))
    <3>1. p \in [1 .. m -> Seq(Unfenced)]
      BY <2>2
    <3> HIDE DEF p
    <3> QED
      BY ONLY <1>1, <3>1
  <2> HIDE DEF p
  <2> QED
    BY ONLY <1>2, <2>3, FlattenType
<1> HIDE DEF p, q
<1>8. Same(Seqs!FlattenSeq([k \in 1 .. m |-> p[k]]), Seqs!FlattenSeq([k \in 1 .. m |-> q[k]]))
  BY ONLY <1>1, <1>5, SameFlat
<1> QED
  BY ONLY <1>2, <1>3, <1>6, <1>7, <1>8

LEMMA RolelessIs == Roleless \in Sayings /\ Mute(Roleless)
<1>1. <<>> \in Seq(ProseMark)
  OBVIOUS
<1> QED
  BY <1>1, WordLine DEF Roleless, Sayings, Mute

LEMMA UnfencedIs ==
  ASSUME NEW d, d \in Seq(Unfenced)
  PROVE  d \in Seq(DocLine) /\ Fenced(d) = 0
<1>1. d \in Seq(DocLine) /\ \A k \in DOMAIN d : FenceCount(d[k].says) = 0
  BY DEF Unfenced
<1> QED
  BY ONLY <1>1, FencedBare

-----------------------------------------------------------------------------
(* Documents: the sections. *)

\* No line under a heading and no fence of tildes.
Plain(t) == \A i \in DOMAIN t : t[i] \notin {"rule", "tilde"}

LEMMA WordIs == /\ <<Text(<<"word">>)>> \in Seq(DocLine) /\ Adds(<<Text(<<"word">>)>>, <<>>)
                /\ Fenced(<<Text(<<"word">>)>>) = 0
<1> PICK l : l = Text(<<"word">>)
  OBVIOUS
<1>1. l \in DocLine /\ l.is = "text" /\ l.says = <<"word">>
  <2>1. "nothing" \in Owners
    BY Zenon DEF Owners
  <2> QED
    BY <2>1, WordLine DEF Text, DocLine
<1>2. Quiet(l)
  <2>1. <<"word">>[1] = "word"
    OBVIOUS
  <2>2. l.says[1] = "word"
    BY ONLY <1>1, <2>1
  <2> QED
    BY <1>1, <2>2 DEF Quiet
<1>3. Adds(<<l>>, <<>>)
  BY <1>2, AddsQuiet
<1>4. Fenced(<<l>>) = 0
  BY <1>1, FencedOne, WordLine
<1>5. <<l>> \in Seq(DocLine)
  BY <1>1
<1> QED
  BY <1>3, <1>4, <1>5

LEMMA OverviewIs ==
  ASSUME NEW p, Clean(p), Plain(p)
  PROVE  /\ Said(p) \in Seq(DocLine) /\ Fenced(Said(p)) = FenceCount(p)
         /\ Fences(p) = {} => Adds(Said(p), <<>>)
<1>1. CASE p = <<>>
  <2>1. Said(p) = <<Text(<<"word">>)>>
    BY <1>1 DEF Said
  <2>2. FenceCount(p) = 0
    BY <1>1, NoFences
  <2> QED
    BY ONLY <2>1, <2>2, WordIs
<1>2. CASE p # <<>>
  <2> PICK d : d = Said(p)
    OBVIOUS
  <2>1. d \in Seq(DocLine) /\ Fenced(d) = FenceCount(p) /\ \A k \in DOMAIN d : Loose(d[k], p)
    BY <1>2, SaidIs DEF Plain
  <2>2. Fences(p) = {} => Adds(d, <<>>)
    <3>1. SUFFICES ASSUME Fences(p) = {} PROVE Adds(d, <<>>)
      OBVIOUS
    <3>2. \A l : Loose(l, p) => Quiet(l)
      BY <3>1 DEF Loose, Quiet
    <3>3. \A k \in DOMAIN d : Quiet(d[k])
      BY <2>1, <3>2
    <3> QED
      BY ONLY <2>1, <3>3, AddsQuietLines
  <2> QED
    BY <2>1, <2>2
<1> QED
  BY <1>1, <1>2

\* The names of sections, those with a table, and the entries a reader meets in them.
Chapters == Letters \cup Titles
Tabled(s) == s = "components" \/ (s = "layout" /\ kind = "readme")
Tabular(s) == IF Tabled(s) THEN Entries(Rows(Roleless)) ELSE <<>>

LEMMA BodyIs ==
  ASSUME project \in Projects, roles \in Sayings, NEW s, s # "overview"
  PROVE  /\ Body(s) \in Seq(DocLine) /\ Adds(Body(s), Tabular(s))
         /\ Mute(roles) => Fenced(Body(s)) \in {0, 2}
<1>1. CASE s = "components"
  <2>1. Body(s) = Rows(roles)
    BY <1>1 DEF Body
  <2>2. Tabular(s) = Entries(Rows(Roleless))
    BY <1>1 DEF Tabular, Tabled
  <2> PICK d : d = Rows(roles)
    OBVIOUS
  <2>3. Same(d, Rows(Roleless)) /\ (Mute(roles) => d \in Seq(Unfenced))
    BY RowsIs
  <2>4. Adds(d, Entries(Rows(Roleless)))
    BY ONLY <2>3, SameEntries
  <2>5. Mute(roles) => Fenced(d) = 0
    BY ONLY <2>3, UnfencedIs
  <2>6. d \in Seq(DocLine)
    BY <2>4 DEF Adds
  <2> QED
    BY <2>1, <2>2, <2>4, <2>5, <2>6
<1>2. CASE s = "layout" /\ kind = "readme"
  <2>1. Body(s) = Rows(Roleless)
    BY <1>2 DEF Body
  <2>2. Tabular(s) = Entries(Rows(Roleless))
    BY <1>2 DEF Tabular, Tabled
  <2> PICK d : d = Rows(Roleless)
    OBVIOUS
  <2>3. Same(d, Rows(Roleless)) /\ d \in Seq(Unfenced)
    BY RowsIs, RolelessIs
  <2>4. Adds(d, Entries(Rows(Roleless)))
    BY ONLY <2>3, SameEntries
  <2>5. Fenced(d) = 0 /\ d \in Seq(DocLine)
    BY ONLY <2>3, UnfencedIs
  <2> QED
    BY <2>1, <2>2, <2>4, <2>5
<1>3. CASE s # "components" /\ ~(s = "layout" /\ kind = "readme")
  <2>1. Body(s) = Block \/ Body(s) = <<Text(<<"word">>)>>
    BY <1>3 DEF Body
  <2>2. Tabular(s) = <<>>
    BY <1>3 DEF Tabular, Tabled
  <2>3. Adds(Block, <<>>) /\ Fenced(Block) = 2 /\ Block \in Seq(DocLine)
    BY AddsBlock DEF Adds
  <2> QED
    BY ONLY <2>1, <2>2, <2>3, WordIs
<1> QED
  BY <1>1, <1>2, <1>3

LEMMA EdgesAre ==
  ASSUME NEW s \in Chapters
  PROVE  /\ Adds(<<Heading(s)>>, << <<"heading", s>> >>) /\ Adds(<<EmptyLine>>, <<>>)
         /\ <<Heading(s)>> \in Seq(DocLine) /\ <<EmptyLine>> \in Seq(DocLine)
         /\ Fenced(<<Heading(s)>>) = 0 /\ Fenced(<<EmptyLine>>) = 0
<1> PICK h : h = Heading(s)
  OBVIOUS
<1> PICK l : l = EmptyLine
  OBVIOUS
<1>1. h \in DocLine /\ h.is = "heading" /\ h.of = s /\ h.says = <<"hash">>
  <2>1. s \in Owners /\ <<"hash">> \in Seq(ProseMark)
    BY DEF Owners, Chapters, Letters, ProseMark
  <2> QED
    BY <2>1 DEF Heading, DocLine
<1>2. l \in DocLine /\ l.is = "text" /\ l.says = <<>>
  <2>1. "nothing" \in Owners
    BY Zenon DEF Owners
  <2>2. <<>> \in Seq(ProseMark)
    OBVIOUS
  <2> QED
    BY <2>1, <2>2 DEF EmptyLine, Text, DocLine
<1>3. Adds(<<h>>, << <<h.is, h.of>> >>)
  <2>1. h.is # "text"
    BY <1>1
  <2> QED
    BY ONLY <1>1, <2>1, AddsMark
<1>4. Adds(<<l>>, <<>>)
  <2>1. Quiet(l)
    BY <1>2 DEF Quiet
  <2> QED
    BY ONLY <2>1, AddsQuiet
<1>5. Fenced(<<h>>) = 0
  <2>1. Fences(<<"hash">>) = {}
    BY DEF Fences
  <2>2. FenceCount(h.says) = 0
    BY <1>1, <2>1, WordLine
  <2> QED
    BY <1>1, <2>2, FencedOne
<1>6. Fenced(<<l>>) = 0
  <2>1. FenceCount(l.says) = 0
    BY <1>2, WordLine
  <2> QED
    BY <1>2, <2>1, FencedOne
<1>7. <<h>> \in Seq(DocLine) /\ <<l>> \in Seq(DocLine)
  BY <1>1, <1>2
<1> QED
  BY ONLY <1>1, <1>3, <1>4, <1>5, <1>6, <1>7, h = Heading(s), l = EmptyLine

LEMMA PairIs ==
  ASSUME NEW a, NEW b
  PROVE  <<a>> \o <<b>> = <<a, b>>
<1>1. <<a>> \in Seq({a, b}) /\ <<b>> \in Seq({a, b})
  OBVIOUS
<1> PICK z : z = <<a>> \o <<b>>
  OBVIOUS
<1>2. z \in Seq({a, b}) /\ Len(z) = 2 /\ z[1] = a /\ z[2] = b
  BY <1>1
<1>3. z = <<a, b>>
  BY ONLY <1>2
<1> QED
  BY <1>3

LEMMA SectionIs ==
  ASSUME NEW s \in Chapters, Body(s) \in Seq(DocLine)
  PROVE  /\ SectionLines(s) \in Seq(DocLine) /\ Fenced(SectionLines(s)) = Fenced(Body(s))
         /\ Adds(Body(s), Tabular(s)) => Adds(SectionLines(s), ShapeOf(s))
<1> PICK h : h = <<Heading(s)>>
  OBVIOUS
<1> PICK l : l = <<EmptyLine>>
  OBVIOUS
<1> PICK b : b = Body(s)
  OBVIOUS
<1> PICK x : x = << <<"heading", s>> >>
  OBVIOUS
<1>1. /\ h \in Seq(DocLine) /\ l \in Seq(DocLine) /\ b \in Seq(DocLine)
      /\ Fenced(h) = 0 /\ Fenced(l) = 0 /\ Adds(h, x) /\ Adds(l, <<>>)
  BY EdgesAre
<1>2. SectionLines(s) = ((h \o l) \o b) \o l
  <2>1. h \o l = <<Heading(s), EmptyLine>>
    BY PairIs
  <2> QED
    BY <2>1 DEF SectionLines
<1>3. h \o l \in Seq(DocLine) /\ (h \o l) \o b \in Seq(DocLine) /\ ((h \o l) \o b) \o l \in Seq(DocLine)
  BY ONLY <1>1, ConcatProperties
<1>4. Fenced(((h \o l) \o b) \o l) = Fenced(b)
  <2>1. Fenced(h \o l) = Fenced(h) + Fenced(l)
    BY ONLY <1>1, FencedConcat
  <2>2. Fenced((h \o l) \o b) = Fenced(h \o l) + Fenced(b) /\ Fenced(b) \in Nat
    BY ONLY <1>1, <1>3, FencedConcat
  <2>3. Fenced(((h \o l) \o b) \o l) = Fenced((h \o l) \o b) + Fenced(l)
    BY ONLY <1>1, <1>3, FencedConcat
  <2> QED
    BY ONLY <1>1, <2>1, <2>2, <2>3
<1>5. Adds(b, Tabular(s)) => Adds(((h \o l) \o b) \o l, ShapeOf(s))
  <2>1. SUFFICES ASSUME Adds(b, Tabular(s)) PROVE Adds(((h \o l) \o b) \o l, ShapeOf(s))
    OBVIOUS
  <2> PICK y : y = Tabular(s)
    OBVIOUS
  <2>2. x \in Seq(Entry) /\ y \in Seq(Entry)
    BY <1>1, <2>1 DEF Adds
  <2>3. Adds(((h \o l) \o b) \o l, ((x \o <<>>) \o y) \o <<>>)
    <3>1. Adds(h \o l, x \o <<>>)
      BY ONLY <1>1, AddsConcat
    <3>2. Adds((h \o l) \o b, (x \o <<>>) \o y)
      BY ONLY <2>1, <3>1, y = Tabular(s), AddsConcat
    <3> QED
      BY ONLY <1>1, <3>2, AddsConcat
  <2>4. ((x \o <<>>) \o y) \o <<>> = x \o y
    <3>1. x \o <<>> = x
      BY ONLY <2>2, ConcatEmpty
    <3>2. x \o y \in Seq(Entry)
      BY ONLY <2>2, ConcatProperties
    <3>3. (x \o y) \o <<>> = x \o y
      BY ONLY <3>2, ConcatEmpty
    <3> QED
      BY ONLY <3>1, <3>3
  <2>5. ShapeOf(s) = x \o y
    <3>1. CASE Tabled(s)
      BY <3>1 DEF ShapeOf, Tabled, Tabular, Entries
    <3>2. CASE ~Tabled(s)
      <4>1. y = <<>>
        BY <3>2 DEF Tabular
      <4>2. [k \in DOMAIN <<>> |-> <<"row", <<>>[k].of>>] = <<>>
        OBVIOUS
      <4> QED
        BY <3>2, <4>1, <4>2 DEF ShapeOf, Tabled
    <3> QED
      BY <3>1, <3>2
  <2> QED
    BY ONLY <2>3, <2>4, <2>5
<1> QED
  BY ONLY <1>2, <1>3, <1>4, <1>5, b = Body(s)

LEMMA ContentsIs ==
  ASSUME kind \in Kinds
  PROVE  /\ Contents \in Seq(Chapters)
         /\ kind = "api" => \A k \in DOMAIN Contents : Contents[k] # "overview"
         /\ kind # "api" => /\ Len(Contents) >= 1 /\ Contents[1] = "overview"
                            /\ \A k \in 2 .. Len(Contents) : Contents[k] # "overview"
<1> PICK c : c = Contents
  OBVIOUS
<1>0. Titles \subseteq Chapters
  BY DEF Chapters
<1>1. CASE kind = "api"
  <2> PICK U : U = Chapters \ {"overview"}
    OBVIOUS
  <2>1. PICK N, z : c = InOrder(N) \o z /\ z \in {<<>>, <<"other">>}
    BY <1>1 DEF Contents
  <2>2. InOrder(N) \in Seq(U)
    <3> PICK e : e = InOrder(N)
      OBVIOUS
    <3>1. e \in Seq(Letters \cap N)
      BY InOrderIs
    <3>2. Letters \cap N \subseteq U
      BY DocumentAssumption DEF Chapters, Letters
    <3>3. e \in Seq(U)
      BY ONLY <3>1, <3>2
    <3> QED
      BY <3>3
  <2>3. z \in Seq(U)
    <3>1. "other" \in U
      BY DEF Chapters, Titles
    <3>2. <<>> \in Seq(U) /\ <<"other">> \in Seq(U)
      BY <3>1
    <3> QED
      BY <2>1, <3>2
  <2>4. c \in Seq(U)
    BY ONLY <2>1, <2>2, <2>3, ConcatProperties
  <2>5. c \in Seq(Chapters) /\ \A k \in DOMAIN c : c[k] # "overview"
    BY ONLY <2>4, U = Chapters \ {"overview"}
  <2> QED
    BY <1>1, <2>5
<1>2. CASE kind = "architecture"
  <2>1. c = <<"overview", "components", "arrows", "entries", "settings", "layout">>
    BY <1>2 DEF Contents, Required
  <2>2. c \in Seq(Titles) /\ Len(c) = 6
    BY <2>1 DEF Titles
  <2>3. /\ c[1] = "overview" /\ c[2] # "overview" /\ c[3] # "overview" /\ c[4] # "overview"
        /\ c[5] # "overview" /\ c[6] # "overview"
    BY <2>1
  <2>4. \A k \in 2 .. Len(c) : c[k] # "overview"
    BY <2>2, <2>3
  <2>5. c \in Seq(Chapters)
    BY <1>0, <2>2
  <2> QED
    BY <1>2, <2>2, <2>3, <2>4, <2>5
<1>3. CASE kind = "readme"
  <2>1. c = <<"overview", "usage", "tests", "layout">>
    BY <1>3 DEF Contents, Required
  <2>2. c \in Seq(Titles) /\ Len(c) = 4
    BY <2>1 DEF Titles
  <2>3. c[1] = "overview" /\ c[2] # "overview" /\ c[3] # "overview" /\ c[4] # "overview"
    BY <2>1
  <2>4. \A k \in 2 .. Len(c) : c[k] # "overview"
    BY <2>2, <2>3
  <2>5. c \in Seq(Chapters)
    BY <1>0, <2>2
  <2> QED
    BY <1>3, <2>2, <2>3, <2>4, <2>5
<1> QED
  BY <1>1, <1>2, <1>3 DEF Kinds

\* What is known of the parts of a document.
Gathered ==
  /\ kind \in Kinds /\ project \in Projects /\ roles \in Sayings /\ Clean(overview)
  /\ kind = "api" => overview = <<>>

\* Without a fence in the overview the headings and rows are read as they are.
LEMMA ReadAsWritten ==
  ASSUME Gathered, Plain(overview), Fences(overview) = {}
  PROVE  Readers(Rendered) = Shape
<1> PICK c : c = Contents
  OBVIOUS
<1> PICK n : n = Len(c)
  OBVIOUS
<1> DEFINE p == [k \in 1 .. n |-> SectionLines(c[k])]
           q == [k \in 1 .. n |-> ShapeOf(c[k])]
<1>1. n \in Nat /\ DOMAIN c = 1 .. n /\ \A k \in 1 .. n : c[k] \in Chapters
  BY ContentsIs DEF Gathered
<1>2. Rendered = Seqs!FlattenSeq(p) /\ Shape = Seqs!FlattenSeq(q)
  BY <1>1 DEF Rendered, Shape
<1>3. ASSUME NEW s \in Chapters
      PROVE  Adds(SectionLines(s), ShapeOf(s))
  <2>1. Body(s) \in Seq(DocLine) /\ Adds(Body(s), Tabular(s))
    <3>1. CASE s = "overview"
      <4>1. Body(s) = Said(overview)
        BY <3>1 DEF Body
      <4>2. Tabular(s) = <<>>
        BY <3>1 DEF Tabular, Tabled
      <4>3. Said(overview) \in Seq(DocLine) /\ Adds(Said(overview), <<>>)
        BY OverviewIs DEF Gathered
      <4> QED
        BY ONLY <4>1, <4>2, <4>3
    <3>2. CASE s # "overview"
      BY <3>2, BodyIs DEF Gathered
    <3> QED
      BY <3>1, <3>2
  <2> QED
    BY <2>1, SectionIs
<1>4. p = [k \in 1 .. n |-> p[k]] /\ q = [k \in 1 .. n |-> q[k]]
  OBVIOUS
<1>5. \A k \in 1 .. n : Adds(p[k], q[k])
  BY <1>1, <1>3
<1> HIDE DEF p, q
<1>6. Adds(Seqs!FlattenSeq([k \in 1 .. n |-> p[k]]), Seqs!FlattenSeq([k \in 1 .. n |-> q[k]]))
  BY ONLY <1>1, <1>5, AddsFlat
<1> PICK d : d = Rendered
  OBVIOUS
<1> PICK x : x = Shape
  OBVIOUS
<1>7. Adds(d, x)
  BY ONLY <1>2, <1>4, <1>6, d = Rendered, x = Shape
<1>8. Unread \in Seen /\ Unread.open = "no" /\ Unread.shape = <<>>
  <2>1. <<>> \in Seq(Entry)
    OBVIOUS
  <2> QED
    BY <2>1 DEF Unread, Seen
<1>9. PICK z \in Seen : z.shape = Unread.shape \o x /\ Runs(Unread, d, z)
  BY <1>7, <1>8, Zenon DEF Adds
<1>10. d \in Seq(DocLine) /\ x \in Seq(Entry)
  BY <1>7, Zenon DEF Adds
<1>11. Readers(d) = z.shape
  BY ONLY <1>9, <1>10, ReadersAre
<1>12. <<>> \o x = x
  BY ONLY <1>10, ConcatEmpty
<1> QED
  BY ONLY <1>8, <1>9, <1>11, <1>12, d = Rendered, x = Shape

\* A stray fence that no role makes even is found out.
LEMMA OddRefused ==
  ASSUME Gathered, Plain(overview), Fences(overview) # {}, Mute(roles)
  PROVE  ~ Verified(Rendered)
<1> PICK c : c = Contents
  OBVIOUS
<1> PICK n : n = Len(c)
  OBVIOUS
<1> DEFINE p == [k \in 1 .. n |-> SectionLines(c[k])]
           A(k) == Seqs!FlattenSeq([j \in 1 .. k |-> p[j]])
           S == {k \in 0 .. n : Fenced(A(k)) \in Nat /\ Fenced(A(k)) % 2 = IF k = 0 THEN 0 ELSE 1}
<1>0. kind # "api"
  BY DEF Gathered, Fences
<1>1. /\ n \in Nat /\ DOMAIN c = 1 .. n /\ \A k \in 1 .. n : c[k] \in Chapters
      /\ n >= 1 /\ c[1] = "overview" /\ \A k \in 2 .. n : c[k] # "overview"
  BY <1>0, ContentsIs DEF Gathered
<1>2. Rendered = Seqs!FlattenSeq(p) /\ p = [k \in 1 .. n |-> p[k]]
  BY <1>1 DEF Rendered
<1>3. SectionLines("overview") \in Seq(DocLine) /\ Fenced(SectionLines("overview")) = 1
  <2>1. FenceCount(overview) = 1
    <3>1. PICK i : i \in Fences(overview)
      OBVIOUS
    <3>2. Fences(overview) = {i}
      BY <3>1 DEF Gathered, Clean, OneFence, Fences
    <3> QED
      BY <3>2, FS_Singleton DEF FenceCount
  <2>2. Body("overview") = Said(overview)
    BY DEF Body
  <2>3. Said(overview) \in Seq(DocLine) /\ Fenced(Said(overview)) = 1
    BY <2>1, OverviewIs DEF Gathered
  <2>4. "overview" \in Chapters
    BY <1>1
  <2> QED
    BY <2>2, <2>3, <2>4, SectionIs
<1>4. ASSUME NEW s \in Chapters, s # "overview"
      PROVE  SectionLines(s) \in Seq(DocLine) /\ Fenced(SectionLines(s)) \in {0, 2}
  <2>1. Body(s) \in Seq(DocLine) /\ Fenced(Body(s)) \in {0, 2}
    BY <1>4, BodyIs DEF Gathered
  <2> QED
    BY <2>1, SectionIs
<1>5. /\ \A k \in 1 .. n : p[k] \in Seq(DocLine)
      /\ Fenced(p[1]) = 1 /\ \A k \in 2 .. n : Fenced(p[k]) \in {0, 2}
  <2>1. \A k \in 1 .. n : p[k] = SectionLines(c[k])
    OBVIOUS
  <2>2. \A k \in 1 .. n : k = 1 \/ k \in 2 .. n
    BY <1>1
  <2>3. 1 \in 1 .. n /\ \A k \in 2 .. n : k \in 1 .. n
    BY <1>1
  <2> HIDE DEF p
  <2> QED
    BY ONLY <1>1, <1>3, <1>4, <2>1, <2>2, <2>3
<1> HIDE DEF p
<1>6. 0 \in S
  <2>1. A(0) = <<>>
    BY FlattenNone
  <2>2. Fenced(A(0)) = 0
    BY <2>1, FencedNone
  <2> HIDE DEF A
  <2> QED
    BY <1>1, <2>2
<1>7. \A k \in 0 .. n - 1 : k \in S => k + 1 \in S
  <2> SUFFICES ASSUME NEW k \in 0 .. n - 1, k \in S
               PROVE  k + 1 \in S
    BY Zenon
  <2>1. k \in Nat /\ k + 1 \in 1 .. n /\ k + 1 \in 0 .. n /\ \A i \in 1 .. k + 1 : i \in 1 .. n
    BY <1>1
  <2>2. \A i \in 1 .. k + 1 : p[i] \in Seq(DocLine)
    BY <1>5, <2>1
  <2>3. A(k) \in Seq(DocLine) /\ A(k + 1) = A(k) \o p[k + 1]
    BY ONLY <2>1, <2>2, FlattenNext
  <2> HIDE DEF A
  <2>4. p[k + 1] \in Seq(DocLine)
    BY ONLY <2>1, <1>5
  <2>5. Fenced(A(k) \o p[k + 1]) = Fenced(A(k)) + Fenced(p[k + 1])
    BY ONLY <2>3, <2>4, FencedConcat
  <2>6. Fenced(A(k)) \in Nat /\ Fenced(A(k)) % 2 = IF k = 0 THEN 0 ELSE 1
    OBVIOUS
  <2>7. IF k = 0 THEN Fenced(p[k + 1]) = 1 ELSE Fenced(p[k + 1]) \in {0, 2}
    BY <1>1, <1>5, <2>1
  <2> PICK a : a = Fenced(A(k))
    OBVIOUS
  <2> PICK b : b = Fenced(p[k + 1])
    OBVIOUS
  <2>8. a + b \in Nat /\ (a + b) % 2 = 1
    BY ONLY <2>6, <2>7, <2>1, a = Fenced(A(k)), b = Fenced(p[k + 1])
  <2>9. Fenced(A(k + 1)) = a + b
    BY ONLY <2>3, <2>5, a = Fenced(A(k)), b = Fenced(p[k + 1])
  <2> QED
    BY <2>1, <2>8, <2>9
<1> HIDE DEF S
<1>8. n \in S
  <2>1. \A k \in 0 .. n : k \in S
    BY ONLY <1>1, <1>6, <1>7, UpTo
  <2> QED
    BY <1>1, <2>1
<1>9. Fenced(Rendered) % 2 = 1
  <2>1. A(n) = Rendered
    BY <1>2
  <2> HIDE DEF A
  <2> QED
    BY <1>1, <1>8, <2>1 DEF S
<1>10. Verified(Rendered) => Fenced(Rendered) % 2 = 0
  BY DEF Verified, Fenced, Saying, FenceCount
<1> QED
  BY <1>9, <1>10

-----------------------------------------------------------------------------
(* Documents: the command. *)

LEMMA CleanNothing == Clean(<<>>)
<1>1. <<>> \in Seq(ProseMark)
  OBVIOUS
<1> QED
  BY <1>1 DEF Clean, OneFence, NoHeading

LEMMA PartsStay == UNCHANGED project => Parts' = Parts
BY DEF Parts

LEMMA SayingsStay == UNCHANGED project => Sayings' = Sayings /\ NamesOf(Parts)' = NamesOf(Parts)
BY PartsStay DEF Sayings, NamesOf

\* What a document is made of decides what it is.
LEMMA RenderedStays ==
  ASSUME UNCHANGED <<kind, project, overview, roles>>
  PROVE  Rendered' = Rendered /\ \A d : Verified(d)' = Verified(d)
<1>1. /\ kind' = kind /\ project' = project /\ overview' = overview /\ roles' = roles
      /\ Parts' = Parts
  BY PartsStay
<1>2. Roleless' = Roleless
  BY <1>1 DEF Roleless, NamesOf
<1>3. Rows(roles)' = Rows(roles) /\ Rows(Roleless)' = Rows(Roleless)
  BY <1>1, <1>2 DEF Rows, InOrder, NamesOf
<1>4. Arrows' = Arrows
  BY <1>1 DEF Arrows, Definers, NamesOf
<1>5. Required' = Required
  BY <1>1 DEF Required
<1>6. Contents' = Contents
  BY <1>1, <1>5 DEF Contents, NamesOf, InOrder
<1>7. ASSUME NEW s
      PROVE  Body(s)' = Body(s)
  BY <1>1, <1>3, <1>4 DEF Body, Said, Block, Text
<1>8. ASSUME NEW s
      PROVE  SectionLines(s)' = SectionLines(s)
  BY <1>7 DEF SectionLines, Heading, EmptyLine, Text
<1>9. Rendered' = Rendered
  BY <1>6, <1>8 DEF Rendered
<1>10. ASSUME NEW d
       PROVE  Verified(d)' = Verified(d)
  BY <1>1, <1>5 DEF Verified, Heading, Fences
<1> QED
  BY <1>9, <1>10

DocInv ==
  /\ kind \in Kinds /\ project \in Projects /\ Clean(overview)
  /\ kind = "api" => overview = <<>> /\ docStage # "overview"
  /\ docStage # "asked" => roles \in Sayings /\ unasked \in Seq(NamesOf(Parts))
  /\ docStage \in {"checked", "written", "rejected"} => document = Rendered /\ Verified(document)

LEMMA InitDoc == DocInit => DocInv
BY CleanNothing DEF DocInit, DocInv

LEMMA GatherKept ==
  ASSUME DocInv, Gather
  PROVE  DocInv'
<1>1. /\ UNCHANGED <<kind, project, overview, document>>
      /\ docStage' \in {"refused", "roles", "overview"} /\ (kind = "api" => docStage' # "overview")
  BY DEF Gather
<1>2. roles' \in Sayings
  BY RolelessIs DEF Gather
<1>3. unasked' \in Seq(NamesOf(Parts))
  <2>1. <<>> \in Seq(NamesOf(Parts))
    OBVIOUS
  <2> PICK Q : Q = {c \in Parts : \E f \in c.files : f.public # {}}
    OBVIOUS
  <2> PICK N : N = NamesOf(Parts)
    OBVIOUS
  <2> PICK e : e = InOrder(NamesOf(Q))
    OBVIOUS
  <2>2. NamesOf(Q) \subseteq N
    BY DEF NamesOf
  <2>3. e \in Seq(Letters \cap NamesOf(Q))
    BY InOrderIs
  <2>4. e \in Seq(N)
    BY ONLY <2>2, <2>3
  <2>5. unasked' \in {<<>>, e}
    BY DEF Gather
  <2> QED
    BY <2>1, <2>4, <2>5
<1> QED
  BY <1>1, <1>2, <1>3, SayingsStay DEF DocInv

LEMMA AskKept ==
  ASSUME DocInv, AskOverview \/ AskRole
  PROVE  DocInv'
<1>1. CASE AskOverview
  <2>1. Clean(overview')
    <3>1. PICK t \in Overviews : overview' = Cleaned(t, MaxOverview)
      BY <1>1 DEF AskOverview
    <3>2. t \in Seq(ProseMark) /\ MaxOverview \in Nat
      BY DocumentAssumption
    <3> QED
      BY <3>1, <3>2, CleanedIs
  <2>2. UNCHANGED <<kind, project, unasked, roles>> /\ docStage = "overview" /\ docStage' = "roles"
    BY <1>1 DEF AskOverview
  <2> QED
    BY <2>1, <2>2, SayingsStay DEF DocInv
<1>2. CASE AskRole
  <2>1. /\ UNCHANGED <<kind, project, docStage, overview>> /\ docStage = "roles" /\ unasked # <<>>
        /\ unasked' = Tail(unasked)
    BY <1>2 DEF AskRole
  <2>2. roles \in Sayings /\ unasked \in Seq(NamesOf(Parts))
    BY <2>1 DEF DocInv
  <2>3. Tail(unasked) \in Seq(NamesOf(Parts)) /\ Head(unasked) \in NamesOf(Parts)
    BY <2>1, <2>2
  <2>4. roles' \in Sayings
    <3>1. PICK t \in Roles : roles' = [roles EXCEPT ![Head(unasked)] = RoleOf(t)]
      BY <1>2 DEF AskRole
    <3>2. RoleOf(t) \in Seq(ProseMark)
      BY DocumentAssumption, RoleType
    <3> QED
      BY <2>2, <3>1, <3>2 DEF Sayings
  <2> QED
    BY <2>1, <2>3, <2>4, SayingsStay DEF DocInv
<1> QED
  BY <1>1, <1>2

LEMMA RenderKept ==
  ASSUME DocInv, Render \/ Offer \/ ModelFails
  PROVE  DocInv'
<1>0. UNCHANGED <<kind, project, unasked, overview, roles>> /\ docStage # "asked"
  BY DEF Render, Offer, ModelFails
<1>1. /\ (kind \in Kinds /\ project \in Projects /\ Clean(overview))'
      /\ (docStage # "asked" => roles \in Sayings /\ unasked \in Seq(NamesOf(Parts)))'
  BY <1>0, SayingsStay DEF DocInv
<1>2. (kind = "api" => overview = <<>> /\ docStage # "overview")'
  BY <1>0 DEF DocInv, Render, Offer, ModelFails
<1>3. (docStage \in {"checked", "written", "rejected"} => document = Rendered /\ Verified(document))'
  <2>1. CASE Render
    <3>1. document' = Rendered /\ (docStage' \in {"checked", "written", "rejected"} => Verified(Rendered))
      BY <2>1 DEF Render
    <3>2. Rendered' = Rendered
      BY <1>0, <2>1, RenderedStays
    <3>3. Verified(Rendered)' = Verified(Rendered)
      BY <1>0, <3>2, RenderedStays
    <3> QED
      BY <3>1, <3>2, <3>3
  <2>2. CASE Offer
    <3>1. docStage = "checked" /\ UNCHANGED <<kind, project, overview, roles, document>>
      BY <2>2 DEF Offer
    <3> QED
      BY <3>1, RenderedStays DEF DocInv
  <2>3. CASE ModelFails
    BY <2>3 DEF ModelFails
  <2> QED
    BY <2>1, <2>2, <2>3
<1> QED
  BY <1>1, <1>2, <1>3 DEF DocInv

LEMMA NextDoc == DocInv /\ [DocNext]_docVars => DocInv'
<1> SUFFICES ASSUME DocInv, [DocNext]_docVars
             PROVE  DocInv'
  OBVIOUS
<1>1. CASE UNCHANGED docVars
  BY <1>1, SayingsStay, RenderedStays DEF DocInv, docVars
<1> QED
  BY <1>1, GatherKept, AskKept, RenderKept DEF DocNext

LEMMA DocShape == DocInv => ShapeIsTheTemplates
<1> SUFFICES ASSUME DocInv, docStage \in {"checked", "written", "rejected"}, Plain(overview),
                    Fences(overview) = {} \/ \A n \in DOMAIN roles : Fences(roles[n]) = {}
             PROVE  Readers(document) = Shape
  BY DEF ShapeIsTheTemplates, Plain
<1>1. Gathered /\ document = Rendered /\ Verified(Rendered)
  BY DEF DocInv, Gathered
<1>2. Fences(overview) = {} \/ Mute(roles)
  BY DEF Mute
<1>3. Fences(overview) = {}
  BY <1>1, <1>2, OddRefused
<1> QED
  BY <1>1, <1>3, ReadAsWritten

\* The invariant of a document: what is asked for, cleaned and put together.
THEOREM DocTheorem == DocSpec => []DocInv
<1> QED
  BY InitDoc, NextDoc, PTL DEF DocSpec

\* A document offered for writing has the headings and rows of its template and no others,
\* none of them in a block, whatever the model said of the project and its components.
THEOREM ShapeTheorem == DocSpec => []ShapeIsTheTemplates
<1> QED
  BY DocTheorem, DocShape, PTL

-----------------------------------------------------------------------------
(* Replies: which matches a pattern has. *)

\* The matches found up to place i, from those found before it.
Widened(name, t, past, i) ==
  past \cup IF \A m \in past : m.next <= i THEN MatchAt(name, t, i) ELSE {}
Scan(name, t, f) ==
  /\ Matches(name, t) = f[Len(t)] /\ f[0] = {}
  /\ \A i \in 1 .. Len(t) : f[i] = Widened(name, t, f[i - 1], i)

LEMMA MatchesAre ==
  ASSUME NEW name, NEW t, t \in Seq(ReplyMark)
  PROVE  \E f : Scan(name, t, f)
<1> PICK n : n = Len(t)
  OBVIOUS
<1> DEFINE V == SUBSET UNION {MatchAt(name, t, i) : i \in 1 .. n}
           step == [x \in (1 .. n) \X V |-> Widened(name, t, x[2], x[1])]
<1>1. n \in Nat /\ {} \in V
  OBVIOUS
<1>2. step \in [(1 .. n) \X V -> V]
  <2>1. ASSUME NEW i \in 1 .. n, NEW past \in V
        PROVE  Widened(name, t, past, i) \in V
    BY DEF Widened
  <2> QED
    BY <2>1
<1>3. \A i \in 1 .. n, past \in V : step[<<i, past>>] = Widened(name, t, past, i)
  OBVIOUS
<1> HIDE DEF step, V
<1>4. PICK g : Recursive(g, n, V, {}, step)
  BY ONLY <1>1, <1>2, Recursion
<1>5. g \in [0 .. n -> V] /\ g[0] = {} /\ \A i \in 1 .. n : g[i] = Widened(name, t, g[i - 1], i)
  <2>1. g \in [0 .. n -> V] /\ g[0] = {} /\ \A i \in 1 .. n : g[i] = step[<<i, g[i - 1]>>]
    BY <1>4 DEF Recursive
  <2>2. \A i \in 1 .. n : i - 1 \in 0 .. n
    BY <1>1
  <2> QED
    BY ONLY <1>3, <2>1, <2>2
<1>6. g = [i \in 0 .. n |-> IF i = 0 THEN {} ELSE Widened(name, t, g[i - 1], i)]
  <2>1. ASSUME NEW i \in 0 .. n
        PROVE  g[i] = IF i = 0 THEN {} ELSE Widened(name, t, g[i - 1], i)
    <3>1. i # 0 => i \in 1 .. n
      BY <1>1
    <3> QED
      BY <1>5, <3>1
  <2>2. g = [i \in 0 .. n |-> g[i]]
    BY <1>5
  <2> QED
    BY ONLY <2>1, <2>2
<1>7. \E h : /\ h = [i \in 0 .. n |-> IF i = 0 THEN {} ELSE Widened(name, t, h[i - 1], i)]
             /\ Matches(name, t) = h[n]
  BY <1>6, Zenon DEF Matches, Widened
<1>8. PICK h : /\ h = [i \in 0 .. n |-> IF i = 0 THEN {} ELSE Widened(name, t, h[i - 1], i)]
               /\ Matches(name, t) = h[n]
  BY <1>7
<1>9. h[0] = {} /\ \A i \in 1 .. n : h[i] = Widened(name, t, h[i - 1], i)
  <2>1. \A i \in 0 .. n : h[i] = IF i = 0 THEN {} ELSE Widened(name, t, h[i - 1], i)
    BY <1>8, Zenon
  <2>2. 0 \in 0 .. n /\ \A i \in 1 .. n : i \in 0 .. n /\ i # 0
    BY <1>1
  <2> QED
    BY ONLY <2>1, <2>2
<1>10. Scan(name, t, h)
  BY <1>8, <1>9 DEF Scan
<1> QED
  BY ONLY <1>10

\* Every match is one at some place.
LEMMA MatchesOnly ==
  ASSUME NEW name, NEW t, t \in Seq(ReplyMark)
  PROVE  \A m \in Matches(name, t) : \E i \in 1 .. Len(t) : m \in MatchAt(name, t, i)
<1> PICK n : n = Len(t)
  OBVIOUS
<1>1. PICK f : Scan(name, t, f)
  BY MatchesAre
<1> DEFINE S == {k \in 0 .. n : \A m \in f[k] : \E i \in 1 .. n : m \in MatchAt(name, t, i)}
<1>2. n \in Nat /\ 0 \in S
  BY <1>1 DEF Scan
<1>3. \A k \in 0 .. n - 1 : k \in S => k + 1 \in S
  <2> SUFFICES ASSUME NEW k \in 0 .. n - 1, k \in S
               PROVE  k + 1 \in S
    BY Zenon
  <2>1. k + 1 \in 1 .. n /\ k + 1 \in 0 .. n /\ (k + 1) - 1 = k
    BY <1>2
  <2>2. f[k + 1] = Widened(name, t, f[k], k + 1)
    BY <1>1, <2>1 DEF Scan
  <2>3. \A m \in f[k + 1] : m \in f[k] \/ m \in MatchAt(name, t, k + 1)
    BY <2>2 DEF Widened
  <2> QED
    BY <2>1, <2>3
<1> HIDE DEF S
<1>4. \A k \in 0 .. n : k \in S
  BY ONLY <1>2, <1>3, UpTo
<1> QED
  BY <1>1, <1>2, <1>4 DEF S, Scan

\* Where no two overlap, every match is taken.
Disjoint(name, t, F, M) ==
  /\ F \in SUBSET (1 .. Len(t))
  /\ \A i \in 1 .. Len(t) : MatchAt(name, t, i) = IF i \in F THEN {M[i]} ELSE {}
  /\ \A i, j \in F : i < j => M[i].next <= j

LEMMA MatchesAll ==
  ASSUME NEW name, NEW t, t \in Seq(ReplyMark), NEW F, NEW M, Disjoint(name, t, F, M)
  PROVE  Matches(name, t) = {M[i] : i \in F}
<1> PICK n : n = Len(t)
  OBVIOUS
<1>0. /\ F \in SUBSET (1 .. Len(t))
      /\ \A i \in 1 .. Len(t) : MatchAt(name, t, i) = IF i \in F THEN {M[i]} ELSE {}
      /\ \A i, j \in F : i < j => M[i].next <= j
  BY DEF Disjoint
<1>1. PICK f : Scan(name, t, f)
  BY MatchesAre
<1> DEFINE S == {k \in 0 .. n : f[k] = {M[i] : i \in {j \in F : j <= k}}}
<1>2. n \in Nat /\ \A j \in F : j \in Nat /\ 1 <= j /\ j <= n
  BY <1>0
<1>3. 0 \in S
  <2>1. {j \in F : j <= 0} = {}
    BY ONLY <1>2
  <2> QED
    BY <1>1, <1>2, <2>1 DEF Scan
<1>4. \A k \in 0 .. n - 1 : k \in S => k + 1 \in S
  <2> SUFFICES ASSUME NEW k \in 0 .. n - 1, k \in S
               PROVE  k + 1 \in S
    BY Zenon
  <2>1. k + 1 \in 1 .. n /\ k + 1 \in 0 .. n /\ (k + 1) - 1 = k
    BY <1>2
  <2>2. f[k + 1] = Widened(name, t, f[k], k + 1)
    BY <1>1, <2>1 DEF Scan
  <2>3. f[k] = {M[i] : i \in {j \in F : j <= k}}
    OBVIOUS
  <2>4. CASE k + 1 \in F
    <3>1. \A m \in f[k] : m.next <= k + 1
      <4>1. \A j \in F : j <= k => j < k + 1
        BY <1>2, <2>1
      <4> QED
        BY <1>0, <2>3, <2>4, <4>1
    <3>2. f[k + 1] = f[k] \cup {M[k + 1]}
      BY <1>0, <2>1, <2>2, <2>4, <3>1 DEF Widened
    <3>3. {j \in F : j <= k + 1} = {j \in F : j <= k} \cup {k + 1}
      BY ONLY <1>2, k \in 0 .. n - 1, <2>4
    <3>4. f[k + 1] = {M[i] : i \in {j \in F : j <= k + 1}}
      BY ONLY <2>3, <3>2, <3>3
    <3> QED
      BY <2>1, <3>4
  <2>5. CASE k + 1 \notin F
    <3>1. f[k + 1] = f[k]
      BY <1>0, <2>1, <2>2, <2>5 DEF Widened
    <3>2. {j \in F : j <= k + 1} = {j \in F : j <= k}
      BY ONLY <1>2, k \in 0 .. n - 1, <2>5
    <3> QED
      BY <2>1, <2>3, <3>1, <3>2
  <2> QED
    BY <2>4, <2>5
<1> HIDE DEF S
<1>5. n \in S
  <2>1. \A k \in 0 .. n : k \in S
    BY ONLY <1>2, <1>3, <1>4, UpTo
  <2> QED
    BY <1>2, <2>1
<1>6. {j \in F : j <= n} = F
  BY <1>2
<1> QED
  BY <1>1, <1>5, <1>6 DEF S, Scan

LEMMA MarkIs ==
  ASSUME NEW m \in ReplyMark
  PROVE  /\ IsCall(m) => Opens(m) /\ m # Half
         /\ \A s \in Signs : Is(m, s) => ~ Opens(m)
<1>1. \A s \in Signs : Is(m, s) => ~ Opens(m)
  BY DEF Is, Sign, Opens
<1>2. IsCall(m) => Opens(m) /\ m # Half
  <2>1. CASE m \in CallMark
    BY <2>1 DEF CallMark, Opens, IsCall, Half
  <2>2. CASE m \in {Data, Half} \cup {Sign(s) : s \in Signs}
    BY <2>2 DEF Data, Half, Sign, IsCall
  <2> QED
    BY <2>1, <2>2 DEF ReplyMark
<1> QED
  BY <1>1, <1>2

LEMMA SignsDiffer ==
  ASSUME NEW m, NEW s, NEW z, Is(m, s), Is(m, z)
  PROVE  s = z
BY DEF Is, Sign

LEMMA SkipIs ==
  ASSUME NEW t, NEW i, t \in Seq(ReplyMark), i \in 1 .. Len(t) + 1
  PROVE  /\ SkipBreaks(t, i) \in i .. Len(t) + 1
         /\ \A k \in i .. SkipBreaks(t, i) - 1 : Is(t[k], "newline")
         /\ SkipBreaks(t, i) <= Len(t) => ~ Is(t[SkipBreaks(t, i)], "newline")
<1> PICK n : n = Len(t)
  OBVIOUS
<1> PICK T : T = {j \in i .. n + 1 : j > n \/ ~Is(t[j], "newline")}
  OBVIOUS
<1>1. n \in Nat /\ i \in Nat /\ i >= 1
  OBVIOUS
<1>2. T \in SUBSET Nat /\ n + 1 \in T
  BY <1>1
<1> PICK s : s = Sets!Min(T)
  OBVIOUS
<1>3. s \in T /\ \A y \in T : s <= y
  BY <1>2, MinIs
<1>4. SkipBreaks(t, i) = s
  BY DEF SkipBreaks
<1>5. s \in i .. n + 1 /\ (s <= n => ~Is(t[s], "newline"))
  BY <1>1, <1>3
<1>6. ASSUME NEW k \in i .. s - 1
      PROVE  Is(t[k], "newline")
  <2>1. k \notin T /\ k \in i .. n + 1
    BY <1>1, <1>3, <1>5
  <2> QED
    BY <2>1
<1> QED
  BY <1>4, <1>5, <1>6

\* A match of the one object that two signs enclose.
One(t, i) == [from |-> Behind(t, i), to |-> Behind(t, i), next |-> Behind(t, Behind(t, i)) + 1]

LEMMA OneIs ==
  ASSUME NEW t, NEW i, NEW open, NEW close, t \in Seq(ReplyMark), i \in 1 .. Len(t),
         Is(t[i], open), Encloses(t, i, close)
  PROVE  /\ Behind(t, i) \in i + 1 .. Len(t) /\ Complete(t[Behind(t, i)])
         /\ Behind(t, Behind(t, i)) \in Behind(t, i) + 1 .. Len(t)
         /\ Is(t[Behind(t, Behind(t, i))], close)
         /\ \A k \in i + 1 .. Behind(t, Behind(t, i)) - 1 : Is(t[k], "newline") \/ k = Behind(t, i)
         /\ Enclosed(t, i, open, close) = {One(t, i)}
<1> PICK n : n = Len(t)
  OBVIOUS
<1> PICK b : b = Behind(t, i)
  OBVIOUS
<1> PICK e : e = Behind(t, b)
  OBVIOUS
<1>1. /\ n \in Nat /\ i \in 1 .. n /\ b = SkipBreaks(t, i + 1) /\ e = SkipBreaks(t, b + 1)
      /\ b <= n /\ Complete(t[b]) /\ e \in 1 .. n /\ Is(t[e], close)
  BY DEF Encloses, Behind, Signed
<1>2. b \in i + 1 .. n /\ \A k \in i + 1 .. b - 1 : Is(t[k], "newline")
  <2> PICK y : y = i + 1
    OBVIOUS
  <2>1. y \in 1 .. Len(t) + 1 /\ b = SkipBreaks(t, y)
    BY <1>1
  <2>2. b \in y .. Len(t) + 1 /\ \A k \in y .. b - 1 : Is(t[k], "newline")
    BY ONLY t \in Seq(ReplyMark), <2>1, SkipIs
  <2>3. b \in i + 1 .. n
    BY <1>1, <2>2
  <2> QED
    BY <2>2, <2>3
<1>3. e \in b + 1 .. n /\ \A k \in b + 1 .. e - 1 : Is(t[k], "newline")
  <2>1. b + 1 \in 1 .. n + 1
    BY <1>1, <1>2
  <2> QED
    BY <1>1, <2>1, SkipIs
<1>4. \A k \in i + 1 .. e - 1 : Is(t[k], "newline") \/ k = b
  <2>1. \A k \in i + 1 .. e - 1 : k \in i + 1 .. b - 1 \/ k = b \/ k \in b + 1 .. e - 1
    BY ONLY <1>1, <1>2, <1>3
  <2> QED
    BY ONLY <1>2, <1>3, <2>1
<1> PICK T : T = Ends(t, b, close)
  OBVIOUS
<1>5. b \in T /\ T \in SUBSET (b .. n)
  BY <1>1, <1>2 DEF Ends
<1>6. Sets!Min(T) = b
  <2>1. T \in SUBSET Nat /\ T # {}
    BY <1>2, <1>5
  <2>2. Sets!Min(T) \in T /\ \A y \in T : Sets!Min(T) <= y
    BY ONLY <2>1, MinIs
  <2> QED
    BY <1>2, <1>5, <2>2
<1>7. Opens(t[b])
  BY <1>1 DEF Complete
<1>8. Enclosed(t, i, open, close) = {[from |-> b, to |-> b, next |-> e + 1]}
  BY <1>1, <1>5, <1>6, <1>7 DEF Enclosed, Shortest
<1> QED
  BY <1>1, <1>2, <1>3, <1>4, <1>8 DEF One

LEMMA NotEnclosed ==
  ASSUME NEW t, NEW i, NEW open, NEW close,
         ~ (Is(t[i], open) /\ Behind(t, i) <= Len(t) /\ Opens(t[Behind(t, i)]))
  PROVE  Enclosed(t, i, open, close) = {}
BY DEF Enclosed, Behind

\* The calls extracted are those of the objects.
LEMMA ExtractedIs ==
  ASSUME NEW t, NEW name, NEW F, t \in Seq(ReplyMark), \A i \in F : Behind(t, i) \in DOMAIN t,
         Matches(name, t) = {One(t, i) : i \in F}
  PROVE  [k \in DOMAIN Extracted(t, name) |-> Extracted(t, name)[k].tool] = CalledAt(t, {Behind(t, i) : i \in F})
<1> PICK P : P = {m.from : m \in {one \in Matches(name, t) : ToolNamed(t, one)}}
  OBVIOUS
<1>1. P = {x \in {Behind(t, i) : i \in F} \cap DOMAIN t : IsCall(t[x]) /\ t[x].tool \in Known}
  <2>1. \A i \in F : One(t, i).from = Behind(t, i) /\ IsJson(One(t, i))
    BY DEF One, IsJson
  <2> QED
    BY <2>1 DEF ToolNamed
<1> PICK marks : marks = Taken(t, P)
  OBVIOUS
<1>2. Extracted(t, name) = [k \in DOMAIN marks |-> [id |-> <<"text", k>>, tool |-> marks[k].tool]]
  BY DEF Extracted
<1>3. CalledAt(t, {Behind(t, i) : i \in F}) = [k \in DOMAIN marks |-> marks[k].tool]
  BY <1>1 DEF CalledAt
<1> PICK x : x = Extracted(t, name)
  OBVIOUS
<1> PICK D : D = DOMAIN marks
  OBVIOUS
<1>4. DOMAIN x = D /\ \A k \in D : x[k].tool = marks[k].tool
  <2>1. x = [k \in D |-> [id |-> <<"text", k>>, tool |-> marks[k].tool]]
    BY <1>2
  <2>2. \A k \in D : x[k] = [id |-> <<"text", k>>, tool |-> marks[k].tool]
    BY ONLY <2>1, Zenon
  <2>3. DOMAIN x = D
    BY ONLY <2>1, Zenon
  <2> QED
    BY ONLY <2>2, <2>3
<1>5. [k \in DOMAIN x |-> x[k].tool] = [k \in DOMAIN marks |-> marks[k].tool]
  BY ONLY <1>4, D = DOMAIN marks
<1> QED
  BY <1>3, <1>5

LEMMA TaggedAre ==
  ASSUME NEW t, t \in Seq(ReplyMark), WellTagged(t)
  PROVE  [k \in DOMAIN Extracted(t, "tagged") |-> Extracted(t, "tagged")[k].tool] = TaggedTools(t)
<1> PICK n : n = Len(t)
  OBVIOUS
<1> PICK F : F = Signed(t, "tag")
  OBVIOUS
<1> DEFINE M == [i \in 1 .. n |-> One(t, i)]
<1>1. n \in Nat /\ DOMAIN t = 1 .. n /\ F \in SUBSET (1 .. n) /\ \A i \in 1 .. n : i \in F <=> Is(t[i], "tag")
  BY DEF Signed
<1>2. \A i \in F : Encloses(t, i, "endtag")
  BY DEF WellTagged
<1>3. ASSUME NEW i \in F
      PROVE  /\ Behind(t, i) \in i + 1 .. n /\ Behind(t, Behind(t, i)) \in Behind(t, i) + 1 .. n
             /\ Complete(t[Behind(t, i)]) /\ Is(t[Behind(t, Behind(t, i))], "endtag")
             /\ \A k \in i + 1 .. Behind(t, Behind(t, i)) - 1 : Is(t[k], "newline") \/ k = Behind(t, i)
             /\ Enclosed(t, i, "tag", "endtag") = {One(t, i)}
  <2>1. i \in 1 .. Len(t) /\ Is(t[i], "tag") /\ Encloses(t, i, "endtag")
    BY <1>1, <1>2
  <2> QED
    BY <2>1, OneIs
<1>4. \A i \in 1 .. n : MatchAt("tagged", t, i) = IF i \in F THEN {M[i]} ELSE {}
  <2>1. ASSUME NEW i \in 1 .. n
        PROVE  MatchAt("tagged", t, i) = IF i \in F THEN {One(t, i)} ELSE {}
    <3>1. MatchAt("tagged", t, i) = Enclosed(t, i, "tag", "endtag")
      BY DEF MatchAt
    <3>2. i \notin F => Enclosed(t, i, "tag", "endtag") = {}
      BY <1>1, NotEnclosed
    <3> QED
      BY <1>3, <3>1, <3>2
  <2> QED
    BY <2>1
<1>5. ASSUME NEW i \in F, NEW j \in F, i < j
      PROVE  M[i].next <= j
  <2> PICK b : b = Behind(t, i)
    OBVIOUS
  <2> PICK e : e = Behind(t, b)
    OBVIOUS
  <2>1. /\ b \in i + 1 .. n /\ e \in b + 1 .. n /\ Complete(t[b]) /\ Is(t[e], "endtag")
        /\ \A k \in i + 1 .. e - 1 : Is(t[k], "newline") \/ k = b
    BY <1>3
  <2>2. j \in 1 .. n /\ i \in 1 .. n /\ Is(t[j], "tag")
    BY <1>1
  <2>3. ~ Is(t[j], "newline") /\ ~ Is(t[j], "endtag") /\ j # b
    <3>1. \A s \in {"newline", "endtag"} : ~ Is(t[j], s)
      BY <2>2, SignsDiffer
    <3>2. ~ Opens(t[j])
      BY <2>2, MarkIs DEF Signs
    <3> QED
      BY <2>1, <3>1, <3>2 DEF Complete
  <2>4. j >= e + 1
    <3>1. ~ (j \in i + 1 .. e - 1) /\ j # e
      BY <2>1, <2>3
    <3> QED
      BY ONLY <1>1, <1>5, <2>1, <2>2, <3>1
  <2>5. M[i].next = e + 1
    BY <2>2 DEF One
  <2> QED
    BY <2>4, <2>5
<1> HIDE DEF M
<1>6. Matches("tagged", t) = {M[i] : i \in F}
  <2>1. F \in SUBSET (1 .. Len(t)) /\ \A i \in 1 .. Len(t) : MatchAt("tagged", t, i) = IF i \in F THEN {M[i]} ELSE {}
    BY <1>1, <1>4
  <2>2. \A i, j \in F : i < j => M[i].next <= j
    BY <1>5
  <2>3. Disjoint("tagged", t, F, M)
    BY ONLY <2>1, <2>2 DEF Disjoint
  <2> QED
    BY ONLY t \in Seq(ReplyMark), <2>3, MatchesAll
<1>7. {M[i] : i \in F} = {One(t, i) : i \in F}
  BY <1>1 DEF M
<1>8. \A i \in F : Behind(t, i) \in DOMAIN t
  <2>1. \A i \in F : Behind(t, i) \in i + 1 .. n
    BY <1>3
  <2> QED
    BY <1>1, <2>1
<1>9. Matches("tagged", t) = {One(t, i) : i \in F}
  BY <1>6, <1>7
<1> QED
  BY <1>8, <1>9, ExtractedIs DEF TaggedTools

\* The next sign of fences closes what an odd one opens.
LEMMA NextFence ==
  ASSUME NEW t, NEW i, NEW e, t \in Seq(ReplyMark), i \in Signed(t, "fence"), e \in Signed(t, "fence"), i < e,
         \A k \in i + 1 .. e - 1 : k \notin Signed(t, "fence"), First(t, i)
  PROVE  ~ First(t, e)
<1> PICK n : n = Len(t)
  OBVIOUS
<1> PICK S : S = Signed(t, "fence")
  OBVIOUS
<1> PICK A : A = {j \in S : j <= i}
  OBVIOUS
<1> PICK B : B = {j \in S : j <= e}
  OBVIOUS
<1>1. n \in Nat /\ S \in SUBSET (1 .. n) /\ i \in S /\ e \in S /\ \A k \in i + 1 .. e - 1 : k \notin S
  BY DEF Signed
<1>2. B = A \cup {e} /\ e \notin A
  <2>1. i \in Nat /\ e \in Nat /\ \A j \in S : j \in Nat
    BY <1>1
  <2>2. \A j \in S : j <= e <=> (j <= i \/ j = e)
    <3>1. ASSUME NEW j \in S
          PROVE  j <= e <=> (j <= i \/ j = e)
      <4>1. ~ (j \in i + 1 .. e - 1)
        BY <1>1
      <4> QED
        BY <2>1, <4>1
    <3> QED
      BY <3>1
  <2>3. B = A \cup {e}
    BY <1>1, <2>2
  <2>4. e \notin A
    BY <2>1
  <2> QED
    BY <2>3, <2>4
<1>3. IsFiniteSet(A) /\ Cardinality(A) \in Nat
  <2>1. IsFiniteSet(1 .. n)
    BY ONLY <1>1, FS_Interval
  <2>2. A \subseteq 1 .. n
    BY <1>1
  <2>3. IsFiniteSet(A)
    BY ONLY <2>1, <2>2, FS_Subset
  <2> QED
    BY ONLY <2>3, FS_CardinalityType
<1>4. Cardinality(B) = Cardinality(A) + 1
  BY ONLY <1>2, <1>3, FS_AddElement
<1>5. Cardinality(A) % 2 = 1
  BY DEF First
<1>6. Cardinality(B) % 2 # 1
  <2> PICK a : a = Cardinality(A)
    OBVIOUS
  <2>1. a \in Nat /\ a % 2 = 1
    BY <1>3, <1>5
  <2>2. (a + 1) % 2 # 1
    BY ONLY <2>1
  <2> QED
    BY <1>4, <2>2
<1> QED
  BY <1>6 DEF First

LEMMA FencedAre ==
  ASSUME NEW t, t \in Seq(ReplyMark), WellFenced(t)
  PROVE  [k \in DOMAIN Extracted(t, "fenced") |-> Extracted(t, "fenced")[k].tool] = FencedTools(t)
<1> PICK n : n = Len(t)
  OBVIOUS
<1> PICK S : S = Signed(t, "fence")
  OBVIOUS
<1> PICK F : F = {i \in S : Behind(t, i) <= n /\ Opens(t[Behind(t, i)])}
  OBVIOUS
<1> DEFINE M == [i \in 1 .. n |-> One(t, i)]
<1>1. /\ n \in Nat /\ DOMAIN t = 1 .. n /\ S \in SUBSET (1 .. n) /\ F \in SUBSET (1 .. n)
      /\ \A i \in 1 .. n : i \in S <=> Is(t[i], "fence")
  BY DEF Signed
<1>2. \A i \in F : First(t, i) /\ Encloses(t, i, "fence") /\ i \in S
  BY DEF WellFenced
<1>3. ASSUME NEW i \in F
      PROVE  /\ Behind(t, i) \in i + 1 .. n /\ Behind(t, Behind(t, i)) \in Behind(t, i) + 1 .. n
             /\ Complete(t[Behind(t, i)]) /\ Is(t[Behind(t, Behind(t, i))], "fence")
             /\ \A k \in i + 1 .. Behind(t, Behind(t, i)) - 1 : Is(t[k], "newline") \/ k = Behind(t, i)
             /\ Enclosed(t, i, "fence", "fence") = {One(t, i)}
  <2>1. i \in 1 .. Len(t) /\ Is(t[i], "fence") /\ Encloses(t, i, "fence")
    BY <1>1, <1>2
  <2> QED
    BY <2>1, OneIs
<1>4. \A i \in 1 .. n : MatchAt("fenced", t, i) = IF i \in F THEN {M[i]} ELSE {}
  <2>1. ASSUME NEW i \in 1 .. n
        PROVE  MatchAt("fenced", t, i) = IF i \in F THEN {One(t, i)} ELSE {}
    <3>1. MatchAt("fenced", t, i) = Enclosed(t, i, "fence", "fence")
      BY DEF MatchAt
    <3>2. i \notin F => Enclosed(t, i, "fence", "fence") = {}
      BY <1>1, NotEnclosed
    <3> QED
      BY <1>3, <3>1, <3>2
  <2> QED
    BY <2>1
<1>5. ASSUME NEW i \in F, NEW j \in F, i < j
      PROVE  M[i].next <= j
  <2> PICK b : b = Behind(t, i)
    OBVIOUS
  <2> PICK e : e = Behind(t, b)
    OBVIOUS
  <2>1. /\ b \in i + 1 .. n /\ e \in b + 1 .. n /\ Complete(t[b]) /\ Is(t[e], "fence")
        /\ \A k \in i + 1 .. e - 1 : Is(t[k], "newline") \/ k = b
    BY <1>3
  <2>2. j \in 1 .. n /\ i \in 1 .. n /\ Is(t[j], "fence")
    BY <1>1, <1>2
  <2>3. \A k \in i + 1 .. e - 1 : k \notin S
    <3>1. ASSUME NEW k \in i + 1 .. e - 1
          PROVE  k \notin S
      <4>1. k \in 1 .. n
        BY <1>1, <2>1, <2>2
      <4>2. Is(t[k], "newline") \/ Opens(t[k])
        BY <2>1 DEF Complete
      <4>3. Is(t[k], "newline") => ~ Is(t[k], "fence")
        BY SignsDiffer
      <4>4. t[k] \in ReplyMark
        BY <1>1, <4>1
      <4>5. Opens(t[k]) => ~ Is(t[k], "fence")
        BY <4>4, MarkIs DEF Signs
      <4> QED
        BY <1>1, <4>1, <4>2, <4>3, <4>5
    <3> QED
      BY <3>1
  <2>4. e \in S /\ i \in S /\ i < e
    BY <1>1, <1>2, <2>1, <2>2
  <2>5. ~ First(t, e)
    BY <1>2, <2>3, <2>4, NextFence
  <2>6. j # e /\ ~ (j \in i + 1 .. e - 1)
    BY <1>2, <2>3, <2>5
  <2>7. j >= e + 1
    BY ONLY <1>1, <1>5, <2>1, <2>2, <2>6
  <2>8. M[i].next = e + 1
    BY <2>2 DEF One
  <2> QED
    BY <2>7, <2>8
<1> HIDE DEF M
<1>6. Matches("fenced", t) = {M[i] : i \in F}
  <2>1. F \in SUBSET (1 .. Len(t)) /\ \A i \in 1 .. Len(t) : MatchAt("fenced", t, i) = IF i \in F THEN {M[i]} ELSE {}
    BY <1>1, <1>4
  <2>2. \A i, j \in F : i < j => M[i].next <= j
    BY <1>5
  <2>3. Disjoint("fenced", t, F, M)
    BY ONLY <2>1, <2>2 DEF Disjoint
  <2> QED
    BY ONLY t \in Seq(ReplyMark), <2>3, MatchesAll
<1>7. {M[i] : i \in F} = {One(t, i) : i \in F}
  BY <1>1 DEF M
<1>8. \A i \in F : Behind(t, i) \in DOMAIN t
  <2>1. \A i \in F : Behind(t, i) \in i + 1 .. n
    BY <1>3
  <2> QED
    BY <1>1, <2>1
<1>9. Matches("fenced", t) = {One(t, i) : i \in F}
  BY <1>6, <1>7
<1>10. FencedTools(t) = CalledAt(t, {Behind(t, i) : i \in F})
  <2> PICK G : G = {j \in S : First(t, j)}
    OBVIOUS
  <2>1. F \subseteq G
    BY <1>2
  <2>2. \A i \in G : Behind(t, i) \in DOMAIN t /\ IsCall(t[Behind(t, i)]) => i \in F
    <3>1. ASSUME NEW i \in G, Behind(t, i) \in DOMAIN t, IsCall(t[Behind(t, i)])
          PROVE  i \in F
      <4>1. t[Behind(t, i)] \in ReplyMark /\ Behind(t, i) <= n
        BY <1>1, <3>1
      <4>2. Opens(t[Behind(t, i)])
        BY <3>1, <4>1, MarkIs
      <4> QED
        BY <4>1, <4>2
    <3> QED
      BY <3>1
  <2>3. {x \in {Behind(t, i) : i \in G} \cap DOMAIN t : IsCall(t[x]) /\ t[x].tool \in Known}
          = {x \in {Behind(t, i) : i \in F} \cap DOMAIN t : IsCall(t[x]) /\ t[x].tool \in Known}
    BY ONLY <2>1, <2>2
  <2>4. CalledAt(t, {Behind(t, i) : i \in G}) = CalledAt(t, {Behind(t, i) : i \in F})
    BY <2>3 DEF CalledAt
  <2> QED
    BY <2>4 DEF FencedTools
<1> QED
  BY <1>8, <1>9, <1>10, ExtractedIs

LEMMA TakenNone ==
  ASSUME NEW T, NEW t, t \in Seq(T)
  PROVE  Taken(t, {}) = <<>>
<1>1. PICK n, pl : Picks(t, {}, n, pl)
  BY TakenIs
<1>2. n \in Nat /\ pl \in [1 .. n -> {}] /\ Taken(t, {}) = [k \in 1 .. n |-> t[pl[k]]]
  BY <1>1 DEF Picks
<1>3. n = 0
  BY <1>2
<1> QED
  BY <1>2, <1>3

LEMMA TakenSome ==
  ASSUME NEW T, NEW t, NEW P, NEW i, t \in Seq(T), P \in SUBSET DOMAIN t, i \in P
  PROVE  /\ Taken(t, P) # <<>>
         /\ P = {i} => Len(Taken(t, P)) = 1
<1>1. PICK n, pl : Picks(t, P, n, pl)
  BY TakenIs
<1> PICK r : r = Taken(t, P)
  OBVIOUS
<1>2. /\ n \in Nat /\ pl \in [1 .. n -> P] /\ r = [k \in 1 .. n |-> t[pl[k]]]
      /\ \A x, y \in 1 .. n : x < y => pl[x] < pl[y]
      /\ \A x \in P : \E k \in 1 .. n : pl[k] = x
  BY <1>1 DEF Picks
<1>3. n >= 1
  BY <1>2
<1>4. P = {i} => n = 1
  <2>1. SUFFICES ASSUME P = {i}, n # 1 PROVE FALSE
    OBVIOUS
  <2>2. 1 \in 1 .. n /\ 2 \in 1 .. n
    BY <1>2, <1>3, <2>1
  <2>3. pl[1] = i /\ pl[2] = i /\ pl[1] < pl[2]
    BY <1>2, <2>1, <2>2
  <2>4. i \in Nat
    OBVIOUS
  <2> QED
    BY <2>3, <2>4
<1>5. Len(r) = n
  BY <1>2
<1> QED
  BY <1>3, <1>4, <1>5

\* The lines an object at a may end on.
Closings(t, a) ==
  {to \in a .. Len(t) : Complete(t[to]) /\ LineEnd(t, to) /\ \E j \in NamedOn(t, a) : j <= to}

LEMMA BareIs ==
  ASSUME NEW t, NEW i, NEW m, t \in Seq(ReplyMark), i \in 1 .. Len(t), m \in Bare(t, i)
  PROVE  /\ m.from = SkipBreaks(t, i) /\ m.from \in i .. Len(t) /\ Opens(t[m.from])
         /\ m.to \in Closings(t, m.from) /\ \A y \in Closings(t, m.from) : y <= m.to
         /\ m = [from |-> m.from, to |-> m.to, next |-> m.to + 1]
<1> PICK n : n = Len(t)
  OBVIOUS
<1> PICK a : a = SkipBreaks(t, i)
  OBVIOUS
<1> PICK T : T = Closings(t, a)
  OBVIOUS
<1>1. n \in Nat /\ i \in 1 .. n /\ i \in 1 .. n + 1
  OBVIOUS
<1>2. a \in i .. n + 1
  BY <1>1, SkipIs
<1>3. LineStart(t, i) /\ a <= n /\ Opens(t[a]) /\ T # {} /\ m = [from |-> a, to |-> Sets!Max(T), next |-> Sets!Max(T) + 1]
  BY DEF Bare, Closings
<1>4. T \in SUBSET (0 .. n)
  BY <1>1, <1>2 DEF Closings
<1>5. Sets!Max(T) \in T /\ \A y \in T : y <= Sets!Max(T)
  BY ONLY <1>1, <1>3, <1>4, MaxIs
<1> QED
  BY <1>1, <1>2, <1>3, <1>5

\* No two objects are each a match of their own: the second would have ended the first.
LEMMA BareNotAhead ==
  ASSUME NEW t, NEW i, NEW m, NEW k, NEW z, t \in Seq(ReplyMark), i \in 1 .. Len(t), k \in 1 .. Len(t),
         m \in Bare(t, i), z \in Bare(t, k), IsJson(m), IsJson(z)
  PROVE  ~ (m.from < z.from)
<1> PICK n : n = Len(t)
  OBVIOUS
<1>1. /\ m.from \in i .. n /\ m.to \in Closings(t, m.from) /\ \A y \in Closings(t, m.from) : y <= m.to
      /\ z.from \in k .. n /\ z.to \in Closings(t, z.from) /\ m.from = m.to /\ z.from = z.to
  BY BareIs DEF IsJson
<1>2. n \in Nat /\ m.from \in 1 .. n /\ z.from \in 1 .. n
  BY <1>1
<1>3. SUFFICES ASSUME m.from < z.from PROVE FALSE
  OBVIOUS
<1>4. z.to \in m.from .. n /\ Complete(t[z.to]) /\ LineEnd(t, z.to)
  BY <1>1, <1>2, <1>3 DEF Closings
<1>5. PICK j \in NamedOn(t, m.from) : j <= m.to
  BY <1>1 DEF Closings
<1>6. j \in Nat
  BY <1>2 DEF NamedOn
<1>7. j <= z.to
  BY ONLY <1>1, <1>2, <1>3, <1>5, <1>6
<1>8. z.to \in Closings(t, m.from)
  BY <1>4, <1>5, <1>7 DEF Closings
<1> QED
  BY ONLY <1>1, <1>2, <1>3, <1>8

LEMMA BareOne ==
  ASSUME NEW t, t \in Seq(ReplyMark), NEW m, NEW z, m \in Matches("bare", t), z \in Matches("bare", t),
         IsJson(m), IsJson(z)
  PROVE  m = z
<1>0. \A i : MatchAt("bare", t, i) = Bare(t, i)
  BY DEF MatchAt
<1>1. PICK i \in 1 .. Len(t) : m \in Bare(t, i)
  BY <1>0, MatchesOnly
<1>2. PICK k \in 1 .. Len(t) : z \in Bare(t, k)
  BY <1>0, MatchesOnly
<1>3. ~ (m.from < z.from) /\ ~ (z.from < m.from)
  BY <1>1, <1>2, BareNotAhead
<1>4. /\ m.from \in i .. Len(t) /\ m = [from |-> m.from, to |-> m.to, next |-> m.to + 1]
      /\ z.from \in k .. Len(t) /\ z = [from |-> z.from, to |-> z.to, next |-> z.to + 1]
  BY <1>1, <1>2, BareIs
<1>5. m.from = z.from
  BY <1>3, <1>4
<1>6. m.to = z.to
  BY <1>5 DEF IsJson
<1> QED
  BY ONLY <1>4, <1>5, <1>6

\* What is extracted is as long as the places of the tools named, and names known ones.
Named(t, name) == {m.from : m \in {one \in Matches(name, t) : ToolNamed(t, one)}}

LEMMA NamedIs ==
  ASSUME NEW t, t \in Seq(ReplyMark), NEW name \in {"tagged", "fenced", "bare"}
  PROVE  Named(t, name) \in SUBSET DOMAIN t
<1> PICK n : n = Len(t)
  OBVIOUS
<1>1. n \in Nat /\ DOMAIN t = 1 .. n
  OBVIOUS
<1>2. ASSUME NEW i \in 1 .. n, NEW m \in MatchAt(name, t, i)
      PROVE  m.from \in 1 .. n
  <2>1. i \in 1 .. Len(t) /\ i + 1 \in 1 .. Len(t) + 1
    BY <1>1
  <2>2. CASE name = "bare"
    <3>1. m \in Bare(t, i)
      BY <2>2 DEF MatchAt
    <3>2. m.from \in i .. Len(t)
      BY ONLY t \in Seq(ReplyMark), <2>1, <3>1, BareIs
    <3> QED
      BY <1>1, <3>2
  <2>3. CASE name # "bare"
    <3>1. PICK open, close : m \in Enclosed(t, i, open, close)
      BY <2>3 DEF MatchAt
    <3>2. m.from = SkipBreaks(t, i + 1) /\ m.from <= Len(t)
      BY <3>1 DEF Enclosed
    <3> PICK y : y = i + 1
      OBVIOUS
    <3>3. SkipBreaks(t, y) \in y .. Len(t) + 1
      BY ONLY t \in Seq(ReplyMark), <2>1, y = i + 1, SkipIs
    <3> QED
      BY <1>1, <3>2, <3>3
  <2> QED
    BY <2>2, <2>3
<1>3. \A m \in Matches(name, t) : m.from \in 1 .. n
  BY <1>2, MatchesOnly
<1> QED
  BY <1>1, <1>3 DEF Named

LEMMA ExtractedType ==
  ASSUME NEW t, t \in Seq(ReplyMark), NEW name \in {"tagged", "fenced", "bare"}
  PROVE  /\ DOMAIN Extracted(t, name) = DOMAIN Taken(t, Named(t, name))
         /\ Extracted(t, name) = <<>> <=> Taken(t, Named(t, name)) = <<>>
         /\ Len(Extracted(t, name)) = Len(Taken(t, Named(t, name)))
         /\ \A k \in DOMAIN Extracted(t, name) : Extracted(t, name)[k].tool \in Known
<1> PICK P : P = Named(t, name)
  OBVIOUS
<1> PICK marks : marks = Taken(t, P)
  OBVIOUS
<1> PICK x : x = Extracted(t, name)
  OBVIOUS
<1> DEFINE U == {m \in ReplyMark : m.tool \in Known}
<1>1. marks \in Seq(U)
  <2>1. P \in SUBSET DOMAIN t
    BY NamedIs
  <2>2. \A p \in P : t[p] \in U
    <3>1. \A p \in P : t[p].tool \in Known
      BY DEF Named, ToolNamed
    <3> QED
      BY <2>1, <3>1
  <2> HIDE DEF U
  <2> QED
    BY ONLY t \in Seq(ReplyMark), marks = Taken(t, P), <2>1, <2>2, TakenMarks
<1>2. x = [k \in DOMAIN marks |-> [id |-> <<"text", k>>, tool |-> marks[k].tool]]
  BY DEF Extracted, Named
<1> PICK n : n = Len(marks)
  OBVIOUS
<1>3. n \in Nat /\ DOMAIN marks = 1 .. n /\ \A k \in 1 .. n : marks[k].tool \in Known
  BY <1>1
<1>4. x = [k \in 1 .. n |-> [id |-> <<"text", k>>, tool |-> marks[k].tool]]
  BY <1>2, <1>3
<1>5. \A k \in 1 .. n : x[k] = [id |-> <<"text", k>>, tool |-> marks[k].tool]
  BY ONLY <1>4, Zenon
<1>6. DOMAIN x = 1 .. n
  BY ONLY <1>4, Zenon
<1>7. \A k \in 1 .. n : x[k].tool = marks[k].tool
  <2> PICK D : D = 1 .. n
    OBVIOUS
  <2>1. \A k \in D : x[k] = [id |-> <<"text", k>>, tool |-> marks[k].tool]
    BY <1>5
  <2>2. ASSUME NEW k \in D
        PROVE  x[k].tool = marks[k].tool
    <3> PICK u : u = <<"text", k>>
      OBVIOUS
    <3> PICK c : c = marks[k].tool
      OBVIOUS
    <3>1. x[k] = [id |-> u, tool |-> c]
      BY <2>1
    <3>2. x[k].tool = c
      BY ONLY <3>1
    <3> QED
      BY <3>2
  <2> QED
    BY <2>2
<1>8. Len(x) = n /\ (x = <<>> <=> n = 0) /\ (marks = <<>> <=> n = 0)
  <2>1. Len(x) = n
    BY ONLY <1>3, <1>4
  <2>2. x = <<>> <=> n = 0
    <3> PICK V : V = {x[k] : k \in 1 .. n}
      OBVIOUS
    <3>1. x = [k \in 1 .. n |-> x[k]]
      BY ONLY <1>4, <1>6
    <3>2. \A k \in 1 .. n : x[k] \in V
      OBVIOUS
    <3>3. x \in Seq(V)
      BY ONLY <1>3, <3>1, <3>2
    <3> QED
      BY ONLY <1>3, <2>1, <3>3
  <2>3. marks = <<>> <=> n = 0
    BY <1>1, n = Len(marks)
  <2> QED
    BY <2>1, <2>2, <2>3
<1> QED
  BY <1>3, <1>6, <1>7, <1>8

LEMMA BareLength ==
  ASSUME NEW t, t \in Seq(ReplyMark), Extracted(t, "bare") # <<>>
  PROVE  Len(Extracted(t, "bare")) = 1
<1> PICK P : P = Named(t, "bare")
  OBVIOUS
<1>1. P \in SUBSET DOMAIN t
  BY NamedIs
<1>2. Taken(t, P) # <<>>
  BY ExtractedType
<1>3. PICK i : i \in P
  BY <1>2, TakenNone
<1>4. P = {i}
  <2>1. ASSUME NEW j \in P
        PROVE  j = i
    <3>1. PICK m \in Matches("bare", t) : IsJson(m) /\ m.from = i
      BY <1>3 DEF Named, ToolNamed
    <3>2. PICK z \in Matches("bare", t) : IsJson(z) /\ z.from = j
      BY DEF Named, ToolNamed
    <3>3. m = z
      BY <3>1, <3>2, BareOne
    <3> QED
      BY <3>1, <3>2, <3>3
  <2> QED
    BY <1>3, <2>1
<1>5. Len(Taken(t, P)) = 1
  BY ONLY t \in Seq(ReplyMark), <1>1, <1>3, <1>4, TakenSome
<1> QED
  BY <1>5, ExtractedType

\* One object alone on its line is found, from whatever line break before it.
LEMMA LoneFound ==
  ASSUME NEW t, t \in Seq(ReplyMark), LoneTool(t) # <<>>
  PROVE  Extracted(t, "bare") # <<>>
<1> PICK n : n = Len(t)
  OBVIOUS
<1> PICK O : O = {i \in DOMAIN t : Opens(t[i])}
  OBVIOUS
<1>1. n \in Nat /\ DOMAIN t = 1 .. n
  OBVIOUS
<1>2. PICK i \in 1 .. n : /\ O = {i} /\ t[i].layout = "line" /\ LineStart(t, i) /\ LineEnd(t, i)
                          /\ IsCall(t[i]) /\ t[i].tool \in Known
  <2> PICK Q : Q = {x \in {y \in O : O = {y} /\ t[y].layout = "line" /\ LineStart(t, y) /\ LineEnd(t, y)} \cap DOMAIN t :
                     IsCall(t[x]) /\ t[x].tool \in Known}
    OBVIOUS
  <2> PICK marks : marks = Taken(t, Q)
    OBVIOUS
  <2>1. LoneTool(t) = [k \in DOMAIN marks |-> marks[k].tool]
    BY DEF LoneTool, CalledAt
  <2>2. Q # {}
    <3>1. SUFFICES ASSUME Q = {} PROVE FALSE
      OBVIOUS
    <3>2. marks = <<>>
      BY <3>1, TakenNone
    <3>3. [k \in DOMAIN <<>> |-> <<>>[k].tool] = <<>>
      OBVIOUS
    <3> QED
      BY <2>1, <3>2, <3>3
  <2> QED
    BY <1>1, <2>2
<1>3. Opens(t[i]) /\ Complete(t[i])
  <2>1. t[i] \in ReplyMark
    BY <1>1
  <2> QED
    BY <1>2, <2>1, MarkIs DEF Complete
<1> PICK r : r = [from |-> i, to |-> i, next |-> i + 1]
  OBVIOUS
<1>4. \A a \in 1 .. n : Complete(t[a]) => a = i
  BY <1>1, <1>2 DEF Complete
<1>5. ASSUME NEW k \in 1 .. n, NEW m \in MatchAt("bare", t, k)
      PROVE  m = r
  <2>1. m \in Bare(t, k) /\ k \in 1 .. Len(t)
    BY DEF MatchAt
  <2>2. /\ m.from \in k .. n /\ Opens(t[m.from]) /\ m.to \in Closings(t, m.from)
        /\ m = [from |-> m.from, to |-> m.to, next |-> m.to + 1]
    BY <2>1, BareIs
  <2>3. m.from = i
    BY <1>1, <1>2, <2>2
  <2>4. m.to = i
    BY <1>1, <1>4, <2>2, <2>3 DEF Closings
  <2> QED
    BY <2>2, <2>3, <2>4
<1>6. r \in MatchAt("bare", t, i)
  <2>1. SkipBreaks(t, i) = i
    <3>1. ~ Is(t[i], "newline")
      BY <1>1, <1>3, MarkIs DEF Signs
    <3>2. i \in 1 .. Len(t) + 1
      BY <1>1
    <3>3. /\ SkipBreaks(t, i) \in i .. Len(t) + 1
          /\ \A k \in i .. SkipBreaks(t, i) - 1 : Is(t[k], "newline")
      BY ONLY t \in Seq(ReplyMark), <3>2, SkipIs
    <3> QED
      BY <1>1, <3>1, <3>3
  <2> PICK T : T = Closings(t, i)
    OBVIOUS
  <2>2. T = {i}
    <3>1. i \in NamedOn(t, i)
      BY <1>1, <1>2 DEF NamedOn
    <3>2. i \in T
      BY <1>1, <1>2, <1>3, <3>1 DEF Closings
    <3>3. \A a \in T : a = i
      BY <1>1, <1>4 DEF Closings
    <3> QED
      BY <3>2, <3>3
  <2>3. Sets!Max(T) = i
    <3>1. T \in SUBSET (0 .. n) /\ T # {}
      BY <1>1, <2>2
    <3>2. Sets!Max(T) \in T
      BY ONLY <1>1, <3>1, MaxIs
    <3> QED
      BY <2>2, <3>2
  <2>4. Bare(t, i) = {r}
    <3>1. Bare(t, i) = IF LineStart(t, i) /\ i <= Len(t) /\ Opens(t[i]) /\ T # {}
                         THEN {[from |-> i, to |-> Sets!Max(T), next |-> Sets!Max(T) + 1]} ELSE {}
      BY <2>1 DEF Bare, Closings
    <3> QED
      BY <1>1, <1>2, <1>3, <2>2, <2>3, <3>1
  <2> QED
    BY <2>4 DEF MatchAt
<1>7. r \in Matches("bare", t)
  <2>1. PICK f : Scan("bare", t, f)
    BY MatchesAre
  <2>2. i \in 1 .. Len(t) /\ f[i] = Widened("bare", t, f[i - 1], i) /\ Matches("bare", t) = f[n]
    BY <1>1, <2>1 DEF Scan
  <2> DEFINE S == {k \in 0 .. n : f[k] \subseteq {r} /\ (k >= i => r \in f[k])}
  <2>3. 0 \in S
    BY <1>1, <1>2, <2>1 DEF Scan
  <2>4. \A k \in 0 .. n - 1 : k \in S => k + 1 \in S
    <3> SUFFICES ASSUME NEW k \in 0 .. n - 1, k \in S
                 PROVE  k + 1 \in S
      BY Zenon
    <3>1. k + 1 \in 1 .. n /\ k + 1 \in 0 .. n /\ (k + 1) - 1 = k
      BY <1>1
    <3>2. f[k + 1] = Widened("bare", t, f[k], k + 1)
      BY <2>1, <3>1 DEF Scan
    <3>3. f[k + 1] \subseteq {r}
      BY <1>5, <3>1, <3>2 DEF Widened
    <3>4. k + 1 >= i => r \in f[k + 1]
      <4>1. CASE k + 1 > i
        <5>1. r \in f[k]
          BY <1>1, <4>1
        <5> QED
          BY <3>2, <5>1 DEF Widened
      <4>2. CASE k + 1 = i
        <5>1. CASE f[k] = {}
          BY <1>6, <3>2, <4>2, <5>1 DEF Widened
        <5>2. CASE f[k] # {}
          <6>1. r \in f[k]
            BY <5>2
          <6> QED
            BY <3>2, <6>1 DEF Widened
        <5> QED
          BY <5>1, <5>2
      <4> QED
        BY <1>1, <4>1, <4>2
    <3> QED
      BY <3>1, <3>3, <3>4
  <2> HIDE DEF S
  <2>5. \A k \in 0 .. n : k \in S
    BY ONLY <1>1, <2>3, <2>4, UpTo
  <2>6. n \in S
    BY <1>1, <2>5
  <2> QED
    BY <1>1, <2>2, <2>6 DEF S
<1>8. i \in Named(t, "bare")
  <2>1. ToolNamed(t, r) /\ r.from = i
    BY <1>2 DEF ToolNamed, IsJson
  <2> QED
    BY <1>7, <2>1 DEF Named
<1>9. Taken(t, Named(t, "bare")) # <<>>
  BY <1>8, NamedIs, TakenSome
<1> QED
  BY <1>9, ExtractedType

-----------------------------------------------------------------------------
(* Replies: what is read for calls, and what runs. *)

ReplyInv ==
  /\ reply.text \in ReplyTexts /\ pattern \in 1 .. 4
  /\ phase = "streaming" => pattern = 1
  /\ phase = "reading" => native = <<>>
  /\ phase = "answer" => pattern = 4
  /\ phase \in {"reading", "answer"} =>
       \A p \in 1 .. pattern - 1 : Extracted(reply.text, Patterns[p]) = <<>>
  /\ phase = "calls" /\ native # <<>> => calls = native
  /\ phase = "calls" /\ native = <<>> =>
       pattern \in 1 .. 3 /\ calls = Extracted(reply.text, Patterns[pattern]) /\ calls # <<>>

LEMMA PatternsAre == /\ Patterns[1] = "tagged" /\ Patterns[2] = "fenced" /\ Patterns[3] = "bare" /\ Len(Patterns) = 3
                     /\ \A p \in 1 .. 3 : Patterns[p] \in {"tagged", "fenced", "bare"}
<1>1. Patterns[1] = "tagged" /\ Patterns[2] = "fenced" /\ Patterns[3] = "bare" /\ Len(Patterns) = 3
  BY DEF Patterns
<1>2. \A p \in 1 .. 3 : p = 1 \/ p = 2 \/ p = 3
  OBVIOUS
<1> QED
  BY ONLY <1>1, <1>2

LEMMA InitReply == ReplyInit => ReplyInv
BY DEF ReplyInit, ReplyInv

LEMMA NextReply == ReplyInv /\ [ReplyNext]_replyVars => ReplyInv'
<1> SUFFICES ASSUME ReplyInv, [ReplyNext]_replyVars
             PROVE  ReplyInv'
  OBVIOUS
<1>1. CASE Receive
  BY <1>1 DEF Receive, ReplyInv
<1>2. CASE StreamFails
  BY <1>2 DEF StreamFails, ReplyInv
<1>3. CASE StreamEnds
  BY <1>3 DEF StreamEnds, ReplyInv
<1>4. CASE Try
  <2> PICK c : c = Extracted(reply.text, Patterns[pattern])
    OBVIOUS
  <2>1. /\ phase = "reading" /\ pattern <= 3 /\ UNCHANGED <<reply, arrived, native>>
        /\ c # <<>> => calls' = c /\ phase' = "calls" /\ pattern' = pattern
        /\ c = <<>> => pattern' = pattern + 1 /\ calls' = calls /\ phase' = phase
    BY <1>4, PatternsAre DEF Try
  <2>2. pattern \in 1 .. 3 /\ native = <<>> /\ \A p \in 1 .. pattern - 1 : Extracted(reply.text, Patterns[p]) = <<>>
    BY <2>1 DEF ReplyInv
  <2>3. CASE c # <<>>
    BY <2>1, <2>2, <2>3 DEF ReplyInv
  <2>4. CASE c = <<>>
    <3>1. pattern + 1 \in 1 .. 4 /\ \A p \in 1 .. (pattern + 1) - 1 : p = pattern \/ p \in 1 .. pattern - 1
      BY <2>2
    <3>2. \A p \in 1 .. (pattern + 1) - 1 : Extracted(reply.text, Patterns[p]) = <<>>
      BY <2>2, <2>4, <3>1
    <3> QED
      BY <2>1, <2>2, <2>4, <3>1, <3>2 DEF ReplyInv
  <2> QED
    BY <2>3, <2>4
<1>5. CASE Answer
  BY <1>5, PatternsAre DEF Answer, ReplyInv
<1>6. CASE UNCHANGED replyVars
  BY <1>6 DEF replyVars, ReplyInv
<1> QED
  BY <1>1, <1>2, <1>3, <1>4, <1>5, <1>6 DEF ReplyNext

LEMMA MarkedCalls == ReplyInv => MarkedCallsRun
<1> SUFFICES ASSUME ReplyInv PROVE MarkedCallsRun
  OBVIOUS
<1> PICK t : t = reply.text
  OBVIOUS
<1>1. t \in Seq(ReplyMark)
  BY ReplyAssumption DEF ReplyInv
<1>2. phase = "calls" /\ native # <<>> => calls = native
  BY DEF ReplyInv
<1>3. ASSUME phase = "calls", native = <<>>
      PROVE  /\ \A k \in DOMAIN calls : calls[k].tool \in Known
             /\ pattern = 1 /\ WellTagged(t) => Tools = TaggedTools(t)
             /\ pattern = 2 /\ WellFenced(t) => Tools = FencedTools(t)
             /\ pattern = 3 => Len(calls) = 1
  <2>1. pattern \in 1 .. 3 /\ calls = Extracted(t, Patterns[pattern]) /\ calls # <<>>
    BY <1>3 DEF ReplyInv
  <2>2. \A k \in DOMAIN calls : calls[k].tool \in Known
    BY <1>1, <2>1, PatternsAre, ExtractedType
  <2>3. pattern = 1 /\ WellTagged(t) => Tools = TaggedTools(t)
    BY <1>1, <2>1, PatternsAre, TaggedAre DEF Tools
  <2>4. pattern = 2 /\ WellFenced(t) => Tools = FencedTools(t)
    BY <1>1, <2>1, PatternsAre, FencedAre DEF Tools
  <2>5. pattern = 3 => Len(calls) = 1
    BY <1>1, <2>1, PatternsAre, BareLength
  <2> QED
    BY <2>2, <2>3, <2>4, <2>5
<1>4. ASSUME phase = "answer"
      PROVE  /\ WellTagged(t) => TaggedTools(t) = <<>>
             /\ WellFenced(t) => FencedTools(t) = <<>>
             /\ LoneTool(t) = <<>>
  <2>1. pattern = 4
    BY <1>4 DEF ReplyInv
  <2>2. \A p \in 1 .. 3 : Extracted(t, Patterns[p]) = <<>>
    BY <1>4, <2>1 DEF ReplyInv
  <2>3. Extracted(t, "tagged") = <<>> /\ Extracted(t, "fenced") = <<>> /\ Extracted(t, "bare") = <<>>
    BY <2>2, PatternsAre
  <2>4. [k \in DOMAIN <<>> |-> <<>>[k].tool] = <<>>
    OBVIOUS
  <2>5. WellTagged(t) => TaggedTools(t) = <<>>
    BY <1>1, <2>3, <2>4, TaggedAre
  <2>6. WellFenced(t) => FencedTools(t) = <<>>
    BY <1>1, <2>3, <2>4, FencedAre
  <2>7. LoneTool(t) = <<>>
    BY <1>1, <2>3, LoneFound
  <2> QED
    BY <2>5, <2>6, <2>7
<1> QED
  BY <1>2, <1>3, <1>4 DEF MarkedCallsRun

\* The invariant of a reply: which patterns have found nothing so far, and where calls are from.
THEOREM ReplyTheorem == ReplySpec => []ReplyInv
<1> QED
  BY InitReply, NextReply, PTL DEF ReplySpec

\* Text runs a tool only where it marks a call, and every call it marks well is run, for
\* every text and every batch of calls the server has parsed.
THEOREM MarkedCallsTheorem == ReplySpec => []MarkedCallsRun
<1> QED
  BY ReplyTheorem, MarkedCalls, PTL

=============================================================================
