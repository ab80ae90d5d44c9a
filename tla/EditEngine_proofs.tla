---------------------------- MODULE EditEngine_proofs ----------------------------
(***************************************************************************)
(* Proofs about what an edit makes of a file, for every file, edit and     *)
(* request (EditEngine).  That the bytes written are the text previewed, in*)
(* the file's own form: what decoding and encoding do to marks, and that   *)
(* only line feeds come into the text.  That an edit lands where its text  *)
(* stands and nowhere else: how matches follow one another, that a match is*)
(* what was asked for, and that splicing the last one moves none before it.*)
(***************************************************************************)
EXTENDS EditEngine, FiniteSetTheorems, SequenceTheorems, WellFoundedInduction, TLAPS

-----------------------------------------------------------------------------
(* Sequences of sequences. *)

\* What holds of 0 and of each next number holds up to n.
LEMMA UpTo ==
  ASSUME NEW n \in Nat, NEW S, 0 \in S, \A k \in 0 .. n - 1 : k \in S => k + 1 \in S
  PROVE  \A k \in 0 .. n : k \in S
<1> DEFINE U == {k \in 0 .. n : k \notin S}
<1>1. SUFFICES ASSUME U # {}
               PROVE  FALSE
  OBVIOUS
<1>2. PICK k \in U : \A y \in U : ~ (<<y, k>> \in OpToRel(<, Nat))
  <2>1. U \in SUBSET Nat
    OBVIOUS
  <2> QED
    BY <1>1, <2>1, WFMin, NatLessThanWellFounded
<1>3. \A y \in U : ~ (y < k)
  <2>1. \A y \in U : y \in Nat /\ k \in Nat
    OBVIOUS
  <2> HIDE DEF U
  <2> QED
    BY <1>2, <2>1 DEF OpToRel
<1>4. k # 0 /\ k \in 0 .. n /\ k \notin S
  OBVIOUS
<1>5. k - 1 \in 0 .. n - 1 /\ k - 1 \in 0 .. n /\ k - 1 < k /\ (k - 1) + 1 = k
  BY <1>4
<1>6. k - 1 \in S
  BY <1>3, <1>5
<1> QED
  BY <1>4, <1>5, <1>6

\* A function may be defined by its value at 0 and its step.
Recursive(g, n, V, v, step) ==
  g \in [0 .. n -> V] /\ g[0] = v /\ \A i \in 1 .. n : g[i] = step[<<i, g[i - 1]>>]

LEMMA Recursion ==
  ASSUME NEW n \in Nat, NEW V, NEW v \in V, NEW step \in [(1 .. n) \X V -> V]
  PROVE  \E g : Recursive(g, n, V, v, step)
<1> DEFINE Made(k) == \E g \in [0 .. k -> V] : g[0] = v /\ \A i \in 1 .. k : g[i] = step[<<i, g[i - 1]>>]
           S == {k \in 0 .. n : Made(k)}
<1>1. 0 \in S
  <2> DEFINE g == [i \in 0 .. 0 |-> v]
  <2>1. g \in [0 .. 0 -> V] /\ g[0] = v /\ \A i \in 1 .. 0 : g[i] = step[<<i, g[i - 1]>>]
    OBVIOUS
  <2>2. Made(0)
    BY <2>1
  <2> QED
    BY <2>2
<1>2. ASSUME NEW k \in 0 .. n - 1, k \in S
      PROVE  k + 1 \in S
  <2>1. PICK g \in [0 .. k -> V] : g[0] = v /\ \A i \in 1 .. k : g[i] = step[<<i, g[i - 1]>>]
    BY <1>2
  <2> DEFINE h == [i \in 0 .. k + 1 |-> IF i = k + 1 THEN step[<<k + 1, g[k]>>] ELSE g[i]]
  <2>2. k + 1 \in 1 .. n /\ k \in 0 .. k /\ g[k] \in V /\ k + 1 \in 0 .. n
    BY <1>2
  <2>3. step[<<k + 1, g[k]>>] \in V
    BY <2>2
  <2>4. h \in [0 .. k + 1 -> V]
    <3>1. \A i \in 0 .. k + 1 : i # k + 1 => i \in 0 .. k
      BY <1>2
    <3> QED
      BY <2>3, <3>1
  <2>5. h[0] = v
    BY <1>2, <2>1
  <2>6. ASSUME NEW i \in 1 .. k + 1
        PROVE  h[i] = step[<<i, h[i - 1]>>]
    <3>1. i - 1 \in 0 .. k /\ i \in 0 .. k + 1 /\ i - 1 \in 0 .. k + 1 /\ i - 1 # k + 1 /\ h[i - 1] = g[i - 1]
      BY <1>2
    <3>2. CASE i = k + 1
      BY <1>2, <3>1, <3>2
    <3>3. CASE i # k + 1
      <4>1. i \in 1 .. k /\ h[i] = g[i]
        BY <1>2, <3>1, <3>3
      <4> QED
        BY <2>1, <3>1, <4>1
    <3> QED
      BY <3>2, <3>3
  <2> HIDE DEF h
  <2>7. Made(k + 1)
    BY <2>4, <2>5, <2>6
  <2> QED
    BY <2>2, <2>7
<1> HIDE DEF S
<1>3. n \in S
  BY <1>1, <1>2, UpTo
<1> QED
  BY <1>3 DEF S, Recursive

LEMMA ConcatAssoc ==
  ASSUME NEW T, NEW a \in Seq(T), NEW b \in Seq(T), NEW c \in Seq(T)
  PROVE  (a \o b) \o c = a \o (b \o c)
OBVIOUS

LEMMA ConcatEmpty ==
  ASSUME NEW T, NEW a \in Seq(T)
  PROVE  a \o <<>> = a /\ <<>> \o a = a
OBVIOUS

\* Two functions with one beginning and one step are one.
Joins(f, ss, a, n) == f[1] = a /\ \A i \in 2 .. n : f[i] = f[i - 1] \o ss[i]

LEMMA OneRecursion ==
  ASSUME NEW n \in Nat, NEW m \in Nat, n <= m, NEW ss, NEW f, NEW h, NEW a,
         Joins(f, ss, a, n), Joins(h, ss, a, m)
  PROVE  \A i \in 1 .. n : f[i] = h[i]
<1> DEFINE Agree == {k \in 0 .. n : k = 0 \/ f[k] = h[k]}
<1>1. ASSUME NEW k \in 0 .. n - 1, k \in Agree
      PROVE  k + 1 \in Agree
  <2>1. k \in Nat /\ k + 1 \in 0 .. n
    BY <1>1
  <2>2. CASE k = 0
    BY <2>1, <2>2 DEF Joins
  <2>3. CASE k # 0
    <3>1. k + 1 \in 2 .. n /\ k + 1 \in 2 .. m /\ (k + 1) - 1 = k
      BY <1>1, <2>1, <2>3
    <3>2. f[k] = h[k]
      BY <1>1, <2>3
    <3>3. f[k + 1] = f[k] \o ss[k + 1] /\ h[k + 1] = h[k] \o ss[k + 1]
      <4> PICK j : j = k + 1
        OBVIOUS
      <4>1. j \in 2 .. n /\ j \in 2 .. m /\ j - 1 = k
        BY <3>1
      <4>2. f[j] = f[j - 1] \o ss[j] /\ h[j] = h[j - 1] \o ss[j]
        BY <4>1, Zenon DEF Joins
      <4> QED
        BY <4>1, <4>2, Zenon
    <3>4. f[k + 1] = h[k + 1]
      BY ONLY <3>2, <3>3, Zenon
    <3> QED
      BY <2>1, <3>4
  <2> QED
    BY <2>2, <2>3
<1>2. 0 \in Agree
  OBVIOUS
<1> HIDE DEF Agree
<1>3. \A k \in 0 .. n : k \in Agree
  BY <1>1, <1>2, UpTo
<1> QED
  BY <1>3 DEF Agree

\* What the definition of FlattenSeq says.
LEMMA FlattenIs ==
  ASSUME NEW T, NEW ss \in Seq(Seq(T)), NEW n \in Nat, Len(ss) = n, n # 0
  PROVE  \E g : /\ g \in [1 .. n -> Seq(T)] /\ Seqs!FlattenSeq(ss) = g[n]
                /\ Joins(g, ss, ss[1], n)
<1> DEFINE step == [x \in (1 .. n) \X Seq(T) |-> x[2] \o ss[x[1]]]
<1>1. \A i \in 1 .. n : ss[i] \in Seq(T)
  OBVIOUS
<1>2. step \in [(1 .. n) \X Seq(T) -> Seq(T)] /\ <<>> \in Seq(T)
  <2>1. ASSUME NEW x \in (1 .. n) \X Seq(T)
        PROVE  x[2] \o ss[x[1]] \in Seq(T)
    <3>1. x[1] \in 1 .. n /\ x[2] \in Seq(T)
      BY <2>1
    <3>2. ss[x[1]] \in Seq(T)
      BY <1>1, <3>1
    <3> QED
      BY <3>1, <3>2
  <2> QED
    BY <2>1
<1>3. \A i \in 1 .. n, y \in Seq(T) : step[<<i, y>>] = y \o ss[i]
  OBVIOUS
<1> HIDE DEF step
<1>4. PICK f \in [0 .. n -> Seq(T)] : f[0] = <<>> /\ \A i \in 1 .. n : f[i] = step[<<i, f[i - 1]>>]
  <2>1. \E f : Recursive(f, n, Seq(T), <<>>, step)
    BY ONLY <1>2, n \in Nat, Recursion
  <2> QED
    BY <2>1 DEF Recursive
<1>5. ASSUME NEW i \in 1 .. n
      PROVE  i \in 0 .. n /\ i - 1 \in 0 .. n /\ f[i] = f[i - 1] \o ss[i] /\ f[i] \in Seq(T)
  <2>1. i \in 0 .. n /\ i - 1 \in 0 .. n
    BY ONLY i \in 1 .. n, n \in Nat
  <2>2. f[i - 1] \in Seq(T) /\ f[i] \in Seq(T)
    BY ONLY <2>1, f \in [0 .. n -> Seq(T)]
  <2> QED
    BY <1>3, <1>4, <2>1, <2>2
<1>6. f[1] = ss[1]
  <2>1. 1 \in 1 .. n /\ 1 - 1 = 0
    OBVIOUS
  <2>2. f[1] = f[0] \o ss[1] /\ ss[1] \in Seq(T)
    BY ONLY <1>1, <1>5, <2>1
  <2> QED
    BY ONLY <1>4, <2>2, ConcatEmpty
<1> DEFINE g == [i \in 1 .. n |-> f[i]]
<1>7. g = [i \in 1 .. n |-> IF i = 1 THEN ss[i] ELSE g[i - 1] \o ss[i]]
  <2>1. ASSUME NEW i \in 1 .. n
        PROVE  g[i] = IF i = 1 THEN ss[i] ELSE g[i - 1] \o ss[i]
    <3>1. CASE i = 1
      BY <1>6, <3>1
    <3>2. CASE i # 1
      <4>1. i - 1 \in 1 .. n
        BY <3>2
      <4>2. g[i - 1] = f[i - 1] /\ g[i] = f[i]
        BY <4>1
      <4> QED
        BY <1>5, <3>2, <4>2, Zenon
    <3> QED
      BY <3>1, <3>2
  <2> QED
    BY <2>1
<1> HIDE DEF g
<1>8. \E h : h = [i \in 1 .. Len(ss) |-> IF i = 1 THEN ss[i] ELSE h[i - 1] \o ss[i]] /\ Seqs!FlattenSeq(ss) = h[Len(ss)]
  BY <1>7, Zenon DEF Seqs!FlattenSeq
<1>9. PICK h : h = [i \in 1 .. n |-> IF i = 1 THEN ss[i] ELSE h[i - 1] \o ss[i]] /\ Seqs!FlattenSeq(ss) = h[n]
  BY <1>8
<1>10. Joins(h, ss, ss[1], n)
  <2>1. ASSUME NEW i \in 1 .. n
        PROVE  h[i] = IF i = 1 THEN ss[i] ELSE h[i - 1] \o ss[i]
    BY <1>9, Zenon
  <2>2. 1 \in 1 .. n /\ \A i \in 2 .. n : i \in 1 .. n /\ i # 1
    OBVIOUS
  <2> QED
    BY <2>1, <2>2, Zenon DEF Joins
<1>11. \A k \in 1 .. n : f[k] = h[k]
  <2>1. Joins(f, ss, ss[1], n)
    <3>1. \A i \in 2 .. n : i \in 1 .. n
      OBVIOUS
    <3> QED
      BY <1>5, <1>6, <3>1, Zenon DEF Joins
  <2>2. n <= n
    OBVIOUS
  <2> QED
    BY ONLY n \in Nat, <1>10, <2>1, <2>2, OneRecursion
<1>12. h \in [1 .. n -> Seq(T)]
  <2>1. \A k \in 1 .. n : h[k] \in Seq(T)
    BY <1>5, <1>11
  <2>2. h = [i \in 1 .. n |-> h[i]]
    BY <1>9
  <2> QED
    BY ONLY <2>1, <2>2
<1> QED
  BY <1>9, <1>10, <1>12

LEMMA FlattenEmpty == Seqs!FlattenSeq(<<>>) = <<>>
BY DEF Seqs!FlattenSeq

LEMMA FlattenAppend ==
  ASSUME NEW T, NEW ss \in Seq(Seq(T)), NEW x \in Seq(T)
  PROVE  Seqs!FlattenSeq(ss) \in Seq(T) /\ Seqs!FlattenSeq(Append(ss, x)) = Seqs!FlattenSeq(ss) \o x
<1> PICK n : n = Len(ss)
  OBVIOUS
<1> PICK more : more = Append(ss, x)
  OBVIOUS
<1>1. n \in Nat /\ n + 1 \in Nat /\ n + 1 # 0 /\ n <= n + 1
  OBVIOUS
<1>2. more \in Seq(Seq(T)) /\ Len(more) = n + 1 /\ more[n + 1] = x /\ \A i \in 1 .. n : more[i] = ss[i]
  OBVIOUS
<1>3. PICK h : /\ h \in [1 .. n + 1 -> Seq(T)] /\ Seqs!FlattenSeq(more) = h[n + 1]
               /\ Joins(h, more, more[1], n + 1)
  BY ONLY <1>1, <1>2, FlattenIs
<1>4. CASE n = 0
  <2>1. ss = <<>> /\ n + 1 = 1
    <3>1. Len(ss) = 0
      BY <1>4
    <3> QED
      BY <1>4, <3>1
  <2>2. Seqs!FlattenSeq(more) = x
    BY ONLY <1>2, <1>3, <2>1 DEF Joins
  <2> QED
    <3>1. Seqs!FlattenSeq(ss) = <<>> /\ <<>> \in Seq(T) /\ x = <<>> \o x
      BY <2>1, FlattenEmpty
    <3> QED
      BY <2>2, <3>1, Zenon
<1>5. CASE n # 0
  <2>1. PICK g : /\ g \in [1 .. n -> Seq(T)] /\ Seqs!FlattenSeq(ss) = g[n]
                 /\ Joins(g, ss, ss[1], n)
    BY <1>1, <1>5, FlattenIs
  <2>2. 1 \in 1 .. n /\ \A i \in 2 .. n : i \in 1 .. n /\ i \in 2 .. n + 1
    BY <1>1, <1>5
  <2>3. Joins(g, more, more[1], n)
    BY ONLY <1>2, <1>3, <2>1, <2>2 DEF Joins
  <2>4. \A i \in 1 .. n : g[i] = h[i]
    BY ONLY <1>1, <1>3, <2>3, OneRecursion
  <2>5. n + 1 \in 2 .. n + 1 /\ (n + 1) - 1 = n /\ n \in 1 .. n
    BY <1>1, <1>5
  <2>6. h[n + 1] = h[n] \o more[n + 1]
    BY ONLY <1>3, <2>5 DEF Joins
  <2>7. Seqs!FlattenSeq(more) = Seqs!FlattenSeq(ss) \o x /\ g[n] \in Seq(T)
    BY ONLY <1>2, <1>3, <2>1, <2>4, <2>5, <2>6
  <2> QED
    BY <2>1, <2>7
<1> QED
  BY <1>4, <1>5

LEMMA FlattenType ==
  ASSUME NEW T, NEW ss \in Seq(Seq(T))
  PROVE  Seqs!FlattenSeq(ss) \in Seq(T)
<1>1. <<>> \in Seq(T)
  OBVIOUS
<1> QED
  BY <1>1, FlattenAppend

\* The pieces p[1], p[2], ... one behind the other.
LEMMA FlattenNext ==
  ASSUME NEW T, NEW p, NEW k \in Nat, \A i \in 1 .. k + 1 : p[i] \in Seq(T)
  PROVE  /\ Seqs!FlattenSeq([i \in 1 .. k |-> p[i]]) \in Seq(T)
         /\ Seqs!FlattenSeq([i \in 1 .. k + 1 |-> p[i]]) = Seqs!FlattenSeq([i \in 1 .. k |-> p[i]]) \o p[k + 1]
<1> DEFINE ss == [i \in 1 .. k |-> p[i]]
<1>1. ss \in Seq(Seq(T)) /\ p[k + 1] \in Seq(T) /\ Len(ss) = k
  OBVIOUS
<1>2. [i \in 1 .. k + 1 |-> p[i]] = Append(ss, p[k + 1])
  OBVIOUS
<1> HIDE DEF ss
<1>3. Seqs!FlattenSeq(ss) \in Seq(T) /\ Seqs!FlattenSeq(Append(ss, p[k + 1])) = Seqs!FlattenSeq(ss) \o p[k + 1]
  BY ONLY <1>1, FlattenAppend
<1> QED
  BY <1>2, <1>3 DEF ss

LEMMA FlattenNone ==
  ASSUME NEW p
  PROVE  Seqs!FlattenSeq([i \in 1 .. 0 |-> p[i]]) = <<>>
<1>1. [i \in 1 .. 0 |-> p[i]] = <<>>
  OBVIOUS
<1> QED
  BY <1>1, FlattenEmpty

AtMost(S, k) == IsFiniteSet(S) /\ Cardinality(S) \in Nat /\ Cardinality(S) <= k

LEMMA OneMore ==
  ASSUME NEW S, NEW T, NEW x, NEW k, k \in Nat, AtMost(S, k), T = S \cup {x}
  PROVE  AtMost(T, k + 1)
<1>1. IsFiniteSet(S) /\ Cardinality(S) \in Nat /\ Cardinality(S) <= k
  BY DEF AtMost
<1>2. IsFiniteSet(S \cup {x}) /\ Cardinality(S \cup {x}) = IF x \in S THEN Cardinality(S) ELSE Cardinality(S) + 1
  BY ONLY <1>1, FS_AddElement
<1> PICK n : n = Cardinality(S)
  OBVIOUS
<1> PICK m : m = Cardinality(T)
  OBVIOUS
<1>3. m = n \/ m = n + 1
  BY ONLY <1>2, T = S \cup {x}, n = Cardinality(S), m = Cardinality(T)
<1>4. m \in Nat /\ m <= k + 1
  BY ONLY <1>1, <1>3, k \in Nat, n = Cardinality(S)
<1> QED
  BY ONLY <1>2, <1>4, T = S \cup {x}, m = Cardinality(T) DEF AtMost

\* Of five that are five the first two differ.
LEMMA FiveDiffer ==
  ASSUME NEW a, NEW b, NEW c, NEW d, NEW e, Cardinality({a, b, c, d, e}) = 5
  PROVE  a # b
<1> SUFFICES ASSUME a = b
             PROVE  FALSE
  OBVIOUS
<1>1. AtMost({}, 0)
  BY FS_EmptySet DEF AtMost
<1>2. AtMost({e}, 0 + 1)
  <2>1. {e} = {} \cup {e}
    OBVIOUS
  <2> QED
    BY ONLY <1>1, <2>1, OneMore
<1>3. AtMost({d, e}, (0 + 1) + 1)
  <2>1. {d, e} = {e} \cup {d} /\ 0 + 1 \in Nat
    OBVIOUS
  <2> QED
    BY ONLY <1>2, <2>1, OneMore
<1>4. AtMost({c, d, e}, ((0 + 1) + 1) + 1)
  <2>1. {c, d, e} = {d, e} \cup {c} /\ (0 + 1) + 1 \in Nat
    OBVIOUS
  <2> QED
    BY ONLY <1>3, <2>1, OneMore
<1>5. AtMost({a, b, c, d, e}, (((0 + 1) + 1) + 1) + 1)
  <2>1. {a, b, c, d, e} = {c, d, e} \cup {b} /\ ((0 + 1) + 1) + 1 \in Nat
    OBVIOUS
  <2> QED
    BY ONLY <1>4, <2>1, OneMore
<1>6. Cardinality({a, b, c, d, e}) <= 4
  BY ONLY <1>5 DEF AtMost
<1> QED
  BY ONLY <1>6, Cardinality({a, b, c, d, e}) = 5

LEMMA MarksDiffer ==
  /\ NL # CR /\ NL # BOM /\ CR # BOM /\ NL # Sp
  /\ NL \in Mark /\ CR \in Mark /\ BOM \in Mark /\ Sp \in Mark
<1>1. Cardinality({Sp, NL, CR, BOM, Nul}) = 5
  BY EditAssumption
<1>2. /\ {Sp, NL, CR, BOM, Nul} = {NL, CR, Sp, BOM, Nul} /\ {Sp, NL, CR, BOM, Nul} = {NL, BOM, Sp, CR, Nul}
      /\ {Sp, NL, CR, BOM, Nul} = {CR, BOM, Sp, NL, Nul} /\ {Sp, NL, CR, BOM, Nul} = {NL, Sp, CR, BOM, Nul}
  OBVIOUS
<1>3. /\ Cardinality({NL, CR, Sp, BOM, Nul}) = 5 /\ Cardinality({NL, BOM, Sp, CR, Nul}) = 5
      /\ Cardinality({CR, BOM, Sp, NL, Nul}) = 5 /\ Cardinality({NL, Sp, CR, BOM, Nul}) = 5
  BY ONLY <1>1, <1>2
<1>4. NL # CR
  BY ONLY <1>3, FiveDiffer
<1>5. NL # BOM
  BY ONLY <1>3, FiveDiffer
<1>6. CR # BOM
  BY ONLY <1>3, FiveDiffer
<1>7. NL # Sp
  BY ONLY <1>3, FiveDiffer
<1> QED
  BY <1>4, <1>5, <1>6, <1>7 DEF Mark

-----------------------------------------------------------------------------
(* Encoding. *)

Endings == {<<NL>>, <<CR>>, <<CR, NL>>}

LEMMA EndingType ==
  ASSUME NEW T, NEW M, NEW t \in Seq(M), NEW e \in Seq(T), \A i \in DOMAIN t : t[i] # NL => t[i] \in T
  PROVE  WithEnding(t, e) \in Seq(T)
<1> DEFINE ss == [i \in DOMAIN t |-> IF t[i] = NL THEN e ELSE <<t[i]>>]
<1>1. ss \in Seq(Seq(T))
  <2>1. \A i \in DOMAIN t : (IF t[i] = NL THEN e ELSE <<t[i]>>) \in Seq(T)
    <3>1. ASSUME NEW i \in DOMAIN t
          PROVE  (IF t[i] = NL THEN e ELSE <<t[i]>>) \in Seq(T)
      BY <3>1
    <3> QED
      BY <3>1
  <2>2. DOMAIN t = 1 .. Len(t) /\ Len(t) \in Nat
    OBVIOUS
  <2> QED
    BY <2>1, <2>2
<1> HIDE DEF ss
<1>2. Seqs!FlattenSeq(ss) \in Seq(T)
  BY ONLY <1>1, FlattenType
<1> QED
  BY <1>2 DEF WithEnding, ss

\* What a mark becomes under an ending, and what it adds to the text before it.
MarkUnder(m, e) == IF m = NL THEN e ELSE <<m>>
EndsOn(t, m, e) == /\ WithEnding(t, e) \in Seq(Mark)
                   /\ WithEnding(Append(t, m), e) = WithEnding(t, e) \o MarkUnder(m, e)

LEMMA EndingAppend ==
  ASSUME NEW t \in Seq(Mark), NEW e \in Seq(Mark), NEW m \in Mark
  PROVE  EndsOn(t, m, e)
<1> DEFINE piece == IF m = NL THEN e ELSE <<m>>
           ss == [i \in DOMAIN t |-> IF t[i] = NL THEN e ELSE <<t[i]>>]
           more == [i \in DOMAIN Append(t, m) |-> IF Append(t, m)[i] = NL THEN e ELSE <<Append(t, m)[i]>>]
<1>1. piece \in Seq(Mark)
  OBVIOUS
<1>2. ss \in Seq(Seq(Mark)) /\ Len(ss) = Len(t)
  <2>1. ASSUME NEW i \in DOMAIN t
        PROVE  (IF t[i] = NL THEN e ELSE <<t[i]>>) \in Seq(Mark)
    OBVIOUS
  <2>2. DOMAIN t = 1 .. Len(t) /\ Len(t) \in Nat
    OBVIOUS
  <2> QED
    BY <2>1, <2>2
<1>3. more = Append(ss, piece)
  <2>1. DOMAIN Append(t, m) = 1 .. Len(t) + 1 /\ Len(t) \in Nat /\ Append(t, m)[Len(t) + 1] = m
        /\ \A i \in 1 .. Len(t) : Append(t, m)[i] = t[i] /\ i \in DOMAIN t
    OBVIOUS
  <2> PICK u : u = Append(t, m)
    OBVIOUS
  <2>2. more = [i \in 1 .. Len(t) + 1 |-> IF u[i] = NL THEN e ELSE <<u[i]>>]
    BY <2>1
  <2>3. Append(ss, piece) = [i \in 1 .. Len(t) + 1 |-> IF i = Len(t) + 1 THEN piece ELSE ss[i]]
    BY <1>1, <1>2, <2>1
  <2>4. ASSUME NEW i \in 1 .. Len(t) + 1
        PROVE  (IF u[i] = NL THEN e ELSE <<u[i]>>) = IF i = Len(t) + 1 THEN piece ELSE ss[i]
    <3>1. CASE i = Len(t) + 1
      BY <2>1, <3>1
    <3>2. CASE i # Len(t) + 1
      <4>1. i \in 1 .. Len(t)
        BY <2>1, <3>2
      <4>2. u[i] = t[i] /\ i \in DOMAIN t
        BY <2>1, <4>1
      <4> QED
        BY <3>2, <4>2
    <3> QED
      BY <3>1, <3>2
  <2> HIDE DEF ss, piece, more
  <2> QED
    BY <2>2, <2>3, <2>4
<1> HIDE DEF ss, piece, more
<1>4. Seqs!FlattenSeq(ss) \in Seq(Mark) /\ Seqs!FlattenSeq(Append(ss, piece)) = Seqs!FlattenSeq(ss) \o piece
  BY ONLY <1>1, <1>2, FlattenAppend
<1>5. WithEnding(t, e) = Seqs!FlattenSeq(ss) /\ WithEnding(Append(t, m), e) = Seqs!FlattenSeq(more)
  BY DEF WithEnding, ss, more
<1>6. piece = MarkUnder(m, e)
  BY DEF piece, MarkUnder
<1> QED
  BY ONLY <1>3, <1>4, <1>5, <1>6 DEF EndsOn

LEMMA EndingEmpty ==
  ASSUME NEW e
  PROVE  WithEnding(<<>>, e) = <<>>
<1>1. [i \in DOMAIN <<>> |-> IF <<>>[i] = NL THEN e ELSE << <<>>[i] >>] = <<>>
  OBVIOUS
<1> QED
  BY <1>1, FlattenEmpty DEF WithEnding

\* What is decoded but for the first d marks.
Unfolded(s, d) ==
  Seqs!FlattenSeq([i \in DOMAIN s |-> IF i <= d \/ i - 1 \in PairsIn(s) THEN <<>>
                                      ELSE IF s[i] = CR THEN <<NL>> ELSE <<s[i]>>])

Drop(s) == IF ~HasBom(s) THEN 0 ELSE IF HasBom(Tail(s)) THEN 2 ELSE 1

LEMMA DecodeIs ==
  ASSUME NEW s
  PROVE  Decode(s) = Unfolded(s, Drop(s))
BY DEF Decode, Unfolded, Drop

LEMMA UnfoldType ==
  ASSUME NEW T, NL \in T, NEW M, NEW s \in Seq(M), NEW d \in Nat,
         \A i \in DOMAIN s : i > d /\ s[i] # CR => s[i] \in T
  PROVE  Unfolded(s, d) \in Seq(T)
<1> DEFINE piece(i) == IF i <= d \/ i - 1 \in PairsIn(s) THEN <<>>
                       ELSE IF s[i] = CR THEN <<NL>> ELSE <<s[i]>>
           ss == [i \in DOMAIN s |-> piece(i)]
<1>1. DOMAIN s = 1 .. Len(s) /\ Len(s) \in Nat
  OBVIOUS
<1>2. ASSUME NEW i \in DOMAIN s
      PROVE  piece(i) \in Seq(T)
  <2>1. <<>> \in Seq(T) /\ <<NL>> \in Seq(T)
    OBVIOUS
  <2>2. CASE i <= d \/ i - 1 \in PairsIn(s)
    <3>1. piece(i) = <<>>
      BY <2>2
    <3> QED
      BY <2>1, <3>1
  <2>3. CASE ~(i <= d \/ i - 1 \in PairsIn(s)) /\ s[i] = CR
    <3>1. piece(i) = <<NL>>
      BY <2>3
    <3> QED
      BY <2>1, <3>1
  <2>4. CASE ~(i <= d \/ i - 1 \in PairsIn(s)) /\ s[i] # CR
    <3>1. piece(i) = <<s[i]>>
      BY <2>4
    <3>2. s[i] \in T
      BY <1>1, <2>4
    <3> QED
      BY <3>1, <3>2
  <2> QED
    BY <2>2, <2>3, <2>4
<1>3. ss \in Seq(Seq(T))
  <2> HIDE DEF piece
  <2> QED
    BY <1>1, <1>2
<1>4. Unfolded(s, d) = Seqs!FlattenSeq(ss)
  BY DEF Unfolded
<1> HIDE DEF ss
<1>5. Seqs!FlattenSeq(ss) \in Seq(T)
  BY ONLY <1>3, FlattenType
<1> QED
  BY <1>4, <1>5

LEMMA UnfoldAppend ==
  ASSUME NEW s \in Seq(Mark), NEW m \in Mark, NEW d \in Nat
  PROVE  /\ Unfolded(s, d) \in Seq(Mark)
         /\ Unfolded(Append(s, m), d) =
              Unfolded(s, d) \o (IF Len(s) + 1 <= d \/ (m = NL /\ Len(s) # 0 /\ s[Len(s)] = CR) THEN <<>>
                                 ELSE IF m = CR THEN <<NL>> ELSE <<m>>)
<1> PICK u : u = Append(s, m)
  OBVIOUS
<1> PICK n : n = Len(s)
  OBVIOUS
<1> DEFINE piece(r, i) == IF i <= d \/ i - 1 \in PairsIn(r) THEN <<>>
                          ELSE IF r[i] = CR THEN <<NL>> ELSE <<r[i]>>
           last == IF n + 1 <= d \/ (m = NL /\ n # 0 /\ s[n] = CR) THEN <<>>
                   ELSE IF m = CR THEN <<NL>> ELSE <<m>>
           ss == [i \in 1 .. n |-> piece(s, i)]
           more == [i \in 1 .. n + 1 |-> piece(u, i)]
<1>1. /\ n \in Nat /\ DOMAIN s = 1 .. n /\ Len(u) = n + 1 /\ DOMAIN u = 1 .. n + 1 /\ u[n + 1] = m
      /\ \A i \in 1 .. n : u[i] = s[i] /\ s[i] \in Mark
  OBVIOUS
<1>2. NL \in Mark /\ NL # CR
  BY MarksDiffer
<1>3. last \in Seq(Mark)
  BY <1>2
<1>4. ASSUME NEW r, NEW i
      PROVE  /\ i <= d \/ i - 1 \in PairsIn(r) => piece(r, i) = <<>>
             /\ ~(i <= d \/ i - 1 \in PairsIn(r)) /\ r[i] = CR => piece(r, i) = <<NL>>
             /\ ~(i <= d \/ i - 1 \in PairsIn(r)) /\ r[i] # CR => piece(r, i) = <<r[i]>>
  OBVIOUS
<1>5. ASSUME NEW i \in 1 .. n
      PROVE  piece(u, i) = piece(s, i) /\ piece(s, i) \in Seq(Mark)
  <2>1. u[i] = s[i] /\ s[i] \in Mark
    BY <1>1
  <2>2. i - 1 \in PairsIn(u) <=> i - 1 \in PairsIn(s)
    <3>1. i - 1 \in 1 .. Len(u) - 1 <=> i - 1 \in 1 .. n
      BY <1>1
    <3>2. i - 1 \in 1 .. n => (i - 1) + 1 = i /\ u[i - 1] = s[i - 1] /\ i - 1 \in 1 .. n - 1
      BY <1>1
    <3>3. i - 1 \in 1 .. n - 1 => i - 1 \in 1 .. n
      BY <1>1
    <3> QED
      BY <1>1, <2>1, <3>1, <3>2, <3>3 DEF PairsIn
  <2> HIDE DEF piece
  <2>3. <<>> \in Seq(Mark) /\ <<NL>> \in Seq(Mark) /\ <<s[i]>> \in Seq(Mark)
    BY <1>2, <2>1
  <2> QED
    BY <1>4, <2>1, <2>2, <2>3
<1>6. piece(u, n + 1) = last
  <2>1. (n + 1) - 1 = n
    BY <1>1
  <2>2. n \in PairsIn(u) <=> m = NL /\ n # 0 /\ s[n] = CR
    <3>1. n \in 1 .. Len(u) - 1 <=> n # 0
      BY <1>1
    <3>2. n # 0 => u[n] = s[n]
      BY <1>1
    <3> QED
      BY <1>1, <3>1, <3>2 DEF PairsIn
  <2> HIDE DEF piece
  <2>3. /\ (n + 1 <= d \/ n \in PairsIn(u)) => piece(u, n + 1) = <<>>
        /\ ~(n + 1 <= d \/ n \in PairsIn(u)) /\ m = CR => piece(u, n + 1) = <<NL>>
        /\ ~(n + 1 <= d \/ n \in PairsIn(u)) /\ m # CR => piece(u, n + 1) = <<m>>
    <3> PICK j : j = n + 1
      OBVIOUS
    <3>1. j - 1 = n /\ u[j] = m
      BY <1>1, <2>1
    <3> QED
      BY <1>4, <3>1
  <2> QED
    BY <2>2, <2>3
<1>7. Unfolded(s, d) = Seqs!FlattenSeq(ss) /\ Unfolded(u, d) = Seqs!FlattenSeq(more)
  BY <1>1 DEF Unfolded
<1> HIDE DEF piece, last
<1>8. ss \in Seq(Seq(Mark))
  BY <1>1, <1>5
<1>9. more = Append(ss, last)
  <2>1. Append(ss, last) = [i \in 1 .. n + 1 |-> IF i = n + 1 THEN last ELSE ss[i]]
    BY <1>1
  <2>2. ASSUME NEW i \in 1 .. n + 1
        PROVE  piece(u, i) = IF i = n + 1 THEN last ELSE ss[i]
    <3>1. CASE i = n + 1
      BY <1>6, <3>1
    <3>2. CASE i # n + 1
      <4>1. i \in 1 .. n
        BY <1>1, <3>2
      <4> QED
        BY <1>5, <3>2, <4>1
    <3> QED
      BY <3>1, <3>2
  <2> QED
    BY <2>1, <2>2
<1> HIDE DEF ss, more
<1>10. Seqs!FlattenSeq(ss) \in Seq(Mark) /\ Seqs!FlattenSeq(Append(ss, last)) = Seqs!FlattenSeq(ss) \o last
  BY ONLY <1>3, <1>8, FlattenAppend
<1> QED
  BY <1>7, <1>9, <1>10 DEF last

LEMMA UnfoldEmpty ==
  ASSUME NEW d
  PROVE  Unfolded(<<>>, d) = <<>>
<1>1. Unfolded(<<>>, d) = Seqs!FlattenSeq(<<>>)
  BY DEF Unfolded
<1> QED
  BY <1>1, FlattenEmpty

LEMMA EndingsAre ==
  ASSUME NEW e \in Endings
  PROVE  e \in Seq(Mark) /\ e # <<>> /\ e[1] # BOM
<1>1. <<NL>> \in Seq(Mark) /\ <<CR>> \in Seq(Mark) /\ <<CR, NL>> \in Seq(Mark)
  BY MarksDiffer
<1>2. <<NL>>[1] # BOM /\ <<CR>>[1] # BOM /\ <<CR, NL>>[1] # BOM
  BY MarksDiffer
<1>3. <<NL>> # <<>> /\ <<CR>> # <<>> /\ <<CR, NL>> # <<>>
  OBVIOUS
<1> QED
  BY <1>1, <1>2, <1>3 DEF Endings

LEMMA AppendIs ==
  ASSUME NEW T, NEW u \in Seq(T), NEW m \in T
  PROVE  u \o <<m>> = Append(u, m)
OBVIOUS

LEMMA TwoMore ==
  ASSUME NEW T, NEW w, NEW a, NEW b, w \in Seq(T), a \in T, b \in T
  PROVE  w \o <<a, b>> = Append(Append(w, a), b)
<1> PICK x : x = w \o <<a, b>>
  OBVIOUS
<1> PICK y : y = Append(Append(w, a), b)
  OBVIOUS
<1> PICK n : n = Len(w)
  OBVIOUS
<1>1. n \in Nat /\ x \in Seq(T) /\ Len(x) = n + 2 /\ x[n + 1] = a /\ x[n + 2] = b /\ \A i \in 1 .. n : x[i] = w[i]
  OBVIOUS
<1>2. y \in Seq(T) /\ Len(y) = n + 2 /\ y[n + 1] = a /\ y[n + 2] = b /\ \A i \in 1 .. n : y[i] = w[i]
  OBVIOUS
<1>3. \A i \in 1 .. n + 2 : i \in 1 .. n \/ i = n + 1 \/ i = n + 2
  BY ONLY <1>1
<1>4. \A i \in 1 .. n + 2 : x[i] = y[i]
  BY ONLY <1>1, <1>2, <1>3
<1>5. x = y
  BY ONLY <1>1, <1>2, <1>4
<1> QED
  BY ONLY <1>5, x = w \o <<a, b>>, y = Append(Append(w, a), b)

LEMMA FirstEnding ==
  ASSUME NEW t \in Seq(Mark), NEW e \in Endings
  PROVE  HasBom(WithEnding(t, e)) <=> HasBom(t)
<1> DEFINE upTo(k) == SubSeq(t, 1, k)
           S == {k \in 0 .. Len(t) : /\ k = 0 => WithEnding(upTo(k), e) = <<>>
                                     /\ k > 0 => /\ WithEnding(upTo(k), e) # <<>>
                                                 /\ WithEnding(upTo(k), e)[1] = BOM <=> t[1] = BOM}
<1>1. e \in Seq(Mark) /\ Len(t) \in Nat
  BY EndingsAre
<1>2. 0 \in S
  <2>1. upTo(0) = <<>>
    OBVIOUS
  <2>2. WithEnding(upTo(0), e) = <<>>
    BY <2>1, EndingEmpty, Zenon
  <2>3. 0 \in 0 .. Len(t) /\ ~(0 > 0)
    BY <1>1
  <2> HIDE DEF upTo
  <2> QED
    BY <2>2, <2>3
<1>3. ASSUME NEW k \in 0 .. Len(t) - 1, k \in S
      PROVE  k + 1 \in S
  <2> DEFINE u == upTo(k)
             m == t[k + 1]
             piece == IF m = NL THEN e ELSE <<m>>
  <2>1. k \in Nat /\ k + 1 \in 0 .. Len(t) /\ k + 1 > 0
    BY <1>1, <1>3
  <2>2. u \in Seq(Mark) /\ m \in Mark /\ upTo(k + 1) = Append(u, m)
    BY <1>1, <1>3
  <2>3. piece \in Seq(Mark) /\ piece # <<>> /\ (piece[1] = BOM <=> m = BOM)
    <3>1. <<m>> \in Seq(Mark) /\ <<m>> # <<>> /\ <<m>>[1] = m
      BY <2>2
    <3> HIDE DEF m
    <3> QED
      BY <2>2, <3>1, EndingsAre, MarksDiffer
  <2> HIDE DEF u, m
  <2>4. WithEnding(u, e) \in Seq(Mark) /\ WithEnding(upTo(k + 1), e) = WithEnding(u, e) \o piece
    <3>1. /\ WithEnding(u, e) \in Seq(Mark)
          /\ WithEnding(Append(u, m), e) = WithEnding(u, e) \o (IF m = NL THEN e ELSE <<m>>)
      <4>1. EndsOn(u, m, e)
        BY <1>1, <2>2, EndingAppend, Zenon
      <4> QED
        BY ONLY <4>1 DEF EndsOn, MarkUnder
    <3> HIDE DEF upTo
    <3> QED
      BY <2>2, <3>1
  <2> HIDE DEF piece
  <2> PICK w : w = WithEnding(u, e)
    OBVIOUS
  <2>5. w \in Seq(Mark) /\ piece \in Seq(Mark) /\ piece # <<>>
    BY <2>3, <2>4
  <2>6. w \o piece # <<>> /\ (w = <<>> => (w \o piece)[1] = piece[1]) /\ (w # <<>> => (w \o piece)[1] = w[1])
    BY ONLY <2>5
  <2>7. CASE k = 0
    <3>1. w = <<>> /\ m = t[1]
      BY <1>3, <2>7 DEF u, m
    <3> QED
      BY <2>1, <2>3, <2>4, <2>6, <3>1
  <2>8. CASE k # 0
    <3>1. w # <<>> /\ (w[1] = BOM <=> t[1] = BOM)
      BY <1>3, <2>1, <2>8 DEF u
    <3> QED
      BY <2>1, <2>4, <2>6, <3>1
  <2> QED
    BY <2>7, <2>8
<1> HIDE DEF S
<1>4. Len(t) \in S
  <2>1. \A k \in 0 .. Len(t) : k \in S
    BY ONLY <1>1, <1>2, <1>3, UpTo
  <2> QED
    BY <1>1, <2>1
<1>5. upTo(Len(t)) = t
  OBVIOUS
<1>6. CASE Len(t) = 0
  <2>1. t = <<>>
    BY <1>6
  <2> QED
    BY <1>4, <1>5, <1>6, <2>1 DEF S, HasBom
<1>7. CASE Len(t) # 0
  <2>1. t # <<>> /\ Len(t) > 0
    BY <1>1, <1>7
  <2> QED
    BY <1>4, <1>5, <2>1 DEF S, HasBom
<1> QED
  BY <1>6, <1>7

\* A text encoded and unfolded is the text.
LEMMA Unfolds ==
  ASSUME NEW t \in Seq(Mark \ {CR}), NEW e \in Endings, NEW b \in {<<>>, <<BOM>>}
  PROVE  Unfolded(b \o WithEnding(t, e), Len(b)) = t
<1> DEFINE upTo(k) == SubSeq(t, 1, k)
           S == {k \in 0 .. Len(t) : Unfolded(b \o WithEnding(upTo(k), e), Len(b)) = upTo(k)}
<1> PICK d : d = Len(b)
  OBVIOUS
<1>1. /\ e \in Seq(Mark) /\ Len(t) \in Nat /\ b \in Seq(Mark) /\ t \in Seq(Mark) /\ d \in Nat
      /\ <<>> \in Seq(Mark)
  <2>1. <<>> \in Seq(Mark) /\ <<BOM>> \in Seq(Mark)
    BY MarksDiffer
  <2>2. t \in Seq(Mark) /\ Len(t) \in Nat
    OBVIOUS
  <2> QED
    BY <2>1, <2>2, EndingsAre
<1>2. 0 \in S
  <2>1. upTo(0) = <<>>
    OBVIOUS
  <2>2. b \o <<>> = b
    BY <1>1
  <2>3. Unfolded(b, d) = <<>>
    <3>1. CASE b = <<>>
      BY <3>1, UnfoldEmpty
    <3>2. CASE b = <<BOM>>
      <4>1. b = Append(<<>>, BOM) /\ Len(<<>>) = 0 /\ d = 1 /\ BOM \in Mark
        BY <3>2, MarksDiffer
      <4>2. Unfolded(b, 1) = Unfolded(<<>>, 1) \o (IF Len(<<>>) + 1 <= 1 \/ (BOM = NL /\ Len(<<>>) # 0 /\ <<>>[Len(<<>>)] = CR)
                                                   THEN <<>> ELSE IF BOM = CR THEN <<NL>> ELSE <<BOM>>)
        BY <1>1, <4>1, UnfoldAppend
      <4>3. Unfolded(b, 1) = <<>> \o <<>>
        BY <4>1, <4>2, UnfoldEmpty
      <4> QED
        BY <4>1, <4>3
    <3> QED
      BY <3>1, <3>2
  <2>4. WithEnding(upTo(0), e) = <<>>
    BY <2>1, EndingEmpty, Zenon
  <2>5. 0 \in 0 .. Len(t)
    BY <1>1
  <2> HIDE DEF upTo
  <2> QED
    BY <2>1, <2>2, <2>3, <2>4, <2>5
<1>3. ASSUME NEW k \in 0 .. Len(t) - 1, k \in S
      PROVE  k + 1 \in S
  <2> PICK u : u = upTo(k)
    OBVIOUS
  <2> PICK m : m = t[k + 1]
    OBVIOUS
  <2>1. k \in Nat /\ k + 1 \in 0 .. Len(t)
    BY <1>1, <1>3
  <2>2. u \in Seq(Mark \ {CR}) /\ u \in Seq(Mark) /\ m \in Mark /\ m # CR /\ upTo(k + 1) = Append(u, m)
    BY <1>1, <1>3
  <2> DEFINE v == WithEnding(u, e)
             piece == IF m = NL THEN e ELSE <<m>>
  <2>3. v \in Seq(Mark) /\ WithEnding(Append(u, m), e) = v \o piece
    <3>1. /\ WithEnding(u, e) \in Seq(Mark)
          /\ WithEnding(Append(u, m), e) = WithEnding(u, e) \o (IF m = NL THEN e ELSE <<m>>)
      <4>1. EndsOn(u, m, e)
        BY <1>1, <2>2, EndingAppend, Zenon
      <4> QED
        BY ONLY <4>1 DEF EndsOn, MarkUnder
    <3> QED
      BY <3>1
  <2>4. e = <<NL>> => v \in Seq(Mark \ {CR})
    <3>1. ASSUME e = <<NL>>
          PROVE  v \in Seq(Mark \ {CR})
      <4>1. e \in Seq(Mark \ {CR})
        BY <3>1, MarksDiffer
      <4>2. \A i \in DOMAIN u : u[i] # NL => u[i] \in Mark \ {CR}
        BY <2>2
      <4> QED
        BY <2>2, <4>1, <4>2, EndingType
    <3> QED
      BY <3>1
  <2> HIDE DEF v
  <2> PICK w : w = b \o v
    OBVIOUS
  <2>5. w \in Seq(Mark) /\ Len(w) \in Nat /\ Len(w) + 1 > d
    BY <1>1, <2>3
  <2>6. Unfolded(w, d) = u /\ u \in Seq(Mark)
    BY <1>3, <2>2 DEF v
  <2>7. ASSUME NEW x \in Mark
        PROVE  Unfolded(Append(w, x), d) =
                 u \o (IF x = NL /\ Len(w) # 0 /\ w[Len(w)] = CR THEN <<>> ELSE IF x = CR THEN <<NL>> ELSE <<x>>)
    <3>1. ~(Len(w) + 1 <= d)
      BY <1>1, <2>5
    <3>2. Unfolded(Append(w, x), d) =
            Unfolded(w, d) \o (IF Len(w) + 1 <= d \/ (x = NL /\ Len(w) # 0 /\ w[Len(w)] = CR) THEN <<>>
                               ELSE IF x = CR THEN <<NL>> ELSE <<x>>)
      BY ONLY <1>1, <2>5, x \in Mark, UnfoldAppend
    <3> QED
      BY ONLY <2>6, <3>1, <3>2
  <2>8. Unfolded(w \o piece, d) = Append(u, m)
    <3>1. CASE m # NL
      <4>1. w \o piece = Append(w, m)
        BY <2>5, <3>1
      <4>2. Unfolded(Append(w, m), d) = u \o <<m>>
        BY <2>2, <2>7, <3>1
      <4>3. u \o <<m>> = Append(u, m)
        BY <2>2, AppendIs
      <4> QED
        BY ONLY <4>1, <4>2, <4>3
    <3>2. CASE m = NL /\ e = <<NL>>
      <4>1. w \o piece = Append(w, NL)
        BY <2>5, <3>2
      <4>2. Len(w) # 0 => w[Len(w)] # CR
        <5>1. v \in Seq(Mark \ {CR}) /\ b \in Seq(Mark \ {CR})
          <6>1. <<BOM>> \in Seq(Mark \ {CR}) /\ <<>> \in Seq(Mark \ {CR})
            BY MarksDiffer
          <6> QED
            BY <2>4, <3>2, <6>1
        <5>2. w \in Seq(Mark \ {CR})
          BY <5>1
        <5> QED
          BY <5>2
      <4>3. Unfolded(Append(w, NL), d) = u \o <<NL>>
        BY <2>7, <4>2, MarksDiffer
      <4> QED
        BY ONLY <2>2, <3>2, <4>1, <4>3, AppendIs
    <3>3. CASE m = NL /\ e = <<CR>>
      <4>1. w \o piece = Append(w, CR)
        BY <2>5, <3>3
      <4>2. Unfolded(Append(w, CR), d) = u \o <<NL>>
        BY <2>7, MarksDiffer
      <4> QED
        BY ONLY <2>2, <3>3, <4>1, <4>2, AppendIs
    <3>4. CASE m = NL /\ e = <<CR, NL>>
      <4> PICK x : x = Append(w, CR)
        OBVIOUS
      <4>1. w \o piece = Append(x, NL)
        <5>1. NL \in Mark /\ CR \in Mark /\ w \in Seq(Mark)
          BY <2>5, MarksDiffer
        <5>2. w \o <<CR, NL>> = Append(Append(w, CR), NL)
          BY ONLY <5>1, TwoMore
        <5> QED
          BY <3>4, <5>2
      <4>2. Unfolded(x, d) = u \o <<NL>>
        BY <2>7, MarksDiffer
      <4>3. x \in Seq(Mark) /\ Len(x) # 0 /\ x[Len(x)] = CR /\ u \o <<NL>> \in Seq(Mark)
        BY <2>2, <2>5, MarksDiffer
      <4>4. Unfolded(Append(x, NL), d) = Unfolded(x, d) \o <<>>
        <5>1. Unfolded(Append(x, NL), d) =
                Unfolded(x, d) \o (IF Len(x) + 1 <= d \/ (NL = NL /\ Len(x) # 0 /\ x[Len(x)] = CR) THEN <<>>
                                   ELSE IF NL = CR THEN <<NL>> ELSE <<NL>>)
          BY <1>1, <4>3, MarksDiffer, UnfoldAppend
        <5> QED
          BY <4>3, <5>1
      <4>5. Unfolded(Append(x, NL), d) = u \o <<NL>>
        BY <4>2, <4>3, <4>4, ConcatEmpty
      <4> QED
        BY ONLY <2>2, <3>4, <4>1, <4>5, AppendIs
    <3> QED
      BY <3>1, <3>2, <3>3, <3>4 DEF Endings
  <2>9. b \o (v \o piece) = w \o piece
    <3>1. piece \in Seq(Mark)
      BY <1>1, <2>2
    <3>2. ASSUME NEW p \in Seq(Mark), NEW x \in Seq(Mark)
          PROVE  (b \o x) \o p = b \o (x \o p)
      <4>1. b \in Seq(Mark)
        BY <1>1
      <4> PICK a : a = b
        OBVIOUS
      <4>2. a \in Seq(Mark)
        BY <4>1
      <4>3. (a \o x) \o p = a \o (x \o p)
        BY ONLY <4>2, x \in Seq(Mark), p \in Seq(Mark), ConcatAssoc
      <4> QED
        BY ONLY <4>3, a = b
    <3> HIDE DEF piece
    <3> QED
      BY ONLY <2>3, <3>1, <3>2, w = b \o v
  <2> QED
    BY <2>1, <2>2, <2>3, <2>8, <2>9
<1> HIDE DEF S
<1>4. Len(t) \in S
  <2>1. \A k \in 0 .. Len(t) : k \in S
    BY ONLY <1>1, <1>2, <1>3, UpTo
  <2> QED
    BY <1>1, <2>1
<1>5. upTo(Len(t)) = t
  OBVIOUS
<1> QED
  BY <1>4, <1>5 DEF S

\* What is read back is what was encoded.
LEMMA RoundTrip ==
  ASSUME NEW t \in Seq(Mark \ {CR}), NEW form, form.ending \in Endings, form.bom \in BOOLEAN, ~HasBom(t)
  PROVE  Decode(Encode(t, form)) = t /\ (HasBom(Encode(t, form)) <=> form.bom)
<1> PICK w : w = WithEnding(t, form.ending)
  OBVIOUS
<1>1. t \in Seq(Mark) /\ form.ending \in Seq(Mark) /\ ~HasBom(w)
  <2>1. t \in Seq(Mark)
    OBVIOUS
  <2> QED
    BY <2>1, FirstEnding, EndingsAre
<1>2. w \in Seq(Mark)
  BY <1>1, EndingType
<1>3. CASE form.bom
  <2>1. Encode(t, form) = <<BOM>> \o w
    BY <1>3 DEF Encode
  <2>2. <<BOM>> \o w # <<>> /\ (<<BOM>> \o w)[1] = BOM /\ Tail(<<BOM>> \o w) = w
    BY <1>2, MarksDiffer
  <2>3. HasBom(<<BOM>> \o w) /\ Drop(<<BOM>> \o w) = 1
    BY <1>1, <2>2 DEF HasBom, Drop
  <2>4. Unfolded(<<BOM>> \o w, 1) = t
    <3>1. Len(<<BOM>>) = 1 /\ <<BOM>> \in {<<>>, <<BOM>>}
      OBVIOUS
    <3> QED
      BY <3>1, Unfolds
  <2> QED
    BY <1>3, <2>1, <2>3, <2>4, DecodeIs
<1>4. CASE ~form.bom
  <2>1. Encode(t, form) = w
    <3>1. Encode(t, form) = <<>> \o w
      BY <1>4 DEF Encode
    <3> QED
      BY <1>2, <3>1, ConcatEmpty
  <2>2. Drop(w) = 0
    BY <1>1 DEF Drop
  <2>3. Unfolded(w, 0) = t
    <3>1. Len(<<>>) = 0 /\ <<>> \in {<<>>, <<BOM>>} /\ <<>> \o w = w
      BY <1>2, ConcatEmpty
    <3> QED
      BY <3>1, Unfolds
  <2> QED
    BY <1>1, <1>4, <2>1, <2>2, <2>3, DecodeIs
<1> QED
  BY <1>3, <1>4

LEMMA CountIs ==
  ASSUME NEW s \in Seq(Mark), NEW m
  PROVE  /\ Count(s, m) \in Nat /\ IsFiniteSet({i \in DOMAIN s : s[i] = m})
         /\ (\A i \in DOMAIN s : s[i] # m) => Count(s, m) = 0
         /\ Count(s, m) = 0 => \A i \in DOMAIN s : s[i] # m
<1> DEFINE I == {i \in DOMAIN s : s[i] = m}
<1>1. IsFiniteSet(DOMAIN s)
  <2>1. DOMAIN s = 1 .. Len(s) /\ Len(s) \in Nat
    OBVIOUS
  <2> QED
    BY <2>1, FS_Interval
<1>2. IsFiniteSet(I) /\ Cardinality(I) \in Nat
  <2>1. I \in SUBSET DOMAIN s
    OBVIOUS
  <2>2. IsFiniteSet(I)
    BY ONLY <1>1, <2>1, FS_Subset
  <2> QED
    BY ONLY <2>2, FS_CardinalityType
<1>3. Cardinality(I) = 0 <=> I = {}
  BY ONLY <1>2, FS_EmptySet
<1> QED
  BY <1>2, <1>3 DEF Count

LEMMA PairsAre ==
  ASSUME NEW s \in Seq(Mark)
  PROVE  /\ IsFiniteSet(PairsIn(s)) /\ Cardinality(PairsIn(s)) \in Nat
         /\ Cardinality(PairsIn(s)) = 0 <=> PairsIn(s) = {}
<1>1. Len(s) \in Nat
  OBVIOUS
<1>2. IsFiniteSet(1 .. Len(s) - 1)
  BY <1>1, FS_Interval
<1>3. PairsIn(s) \in SUBSET (1 .. Len(s) - 1)
  BY DEF PairsIn
<1>4. IsFiniteSet(PairsIn(s))
  BY ONLY <1>2, <1>3, FS_Subset
<1> QED
  BY ONLY <1>4, FS_CardinalityType, FS_EmptySet

\* Where every line feed stands behind a carriage return there are no more of them.
LEMMA PairsCount ==
  ASSUME NEW s \in Seq(Mark),
         \A i \in DOMAIN s : (s[i] = CR => i \in PairsIn(s)) /\ (s[i] = NL => i - 1 \in PairsIn(s))
  PROVE  Count(s, CR) = Cardinality(PairsIn(s)) /\ Count(s, NL) = Cardinality(PairsIn(s))
<1> DEFINE P == PairsIn(s)
           F == {i \in DOMAIN s : s[i] = NL}
           back == [i \in F |-> i - 1]
<1>1. DOMAIN s = 1 .. Len(s) /\ Len(s) \in Nat
  OBVIOUS
<1>2. P = {i \in DOMAIN s : s[i] = CR}
  <2>1. \A i \in DOMAIN s : s[i] = CR => i \in P
    OBVIOUS
  <2>2. \A i \in P : i \in DOMAIN s /\ s[i] = CR
    BY <1>1 DEF PairsIn
  <2> HIDE DEF P
  <2> QED
    BY ONLY <2>1, <2>2
<1>3. IsFiniteSet(P)
  BY PairsAre
<1>4. back \in Surjection(F, P)
  <2>1. back \in [F -> P]
    OBVIOUS
  <2>2. ASSUME NEW p \in P
        PROVE  \E i \in F : back[i] = p
    <3>1. p + 1 \in F /\ (p + 1) - 1 = p
      BY <1>1, <2>2 DEF PairsIn
    <3> QED
      BY <3>1
  <2> QED
    BY <2>1, <2>2 DEF Surjection
<1>5. back \in Injection(F, P)
  <2>1. back \in [F -> P]
    OBVIOUS
  <2>2. ASSUME NEW i \in F, NEW j \in F, back[i] = back[j]
        PROVE  i = j
    <3>1. i \in Nat /\ j \in Nat /\ i - 1 = j - 1
      BY <1>1, <2>2
    <3> QED
      BY <3>1
  <2> HIDE DEF F, P, back
  <2>3. IsInjective(back)
    <3>1. DOMAIN back = F
      BY <2>1
    <3> QED
      BY <2>2, <3>1 DEF IsInjective
  <2> QED
    BY <2>1, <2>3 DEF Injection
<1> HIDE DEF F, P, back
<1>6. Cardinality(F) = Cardinality(P)
  BY ONLY <1>3, <1>4, <1>5, FS_Injection
<1> QED
  BY <1>2, <1>6 DEF Count, F, P

LEMMA EndingKnown ==
  ASSUME NEW s
  PROVE  LineEnding(s) \in Endings
BY DEF LineEnding, Endings

LEMMA UniformForm ==
  ASSUME NEW s \in Seq(Mark), Uniform(s)
  PROVE  \/ LineEnding(s) = <<NL>> /\ \A i \in DOMAIN s : s[i] # CR
         \/ LineEnding(s) = <<CR>> /\ \A i \in DOMAIN s : s[i] # NL
         \/ /\ LineEnding(s) = <<CR, NL>>
            /\ \A i \in DOMAIN s : (s[i] = CR => i \in PairsIn(s)) /\ (s[i] = NL => i - 1 \in PairsIn(s))
<1> PICK p : p = Cardinality(PairsIn(s))
  OBVIOUS
<1> PICK f : f = Count(s, NL)
  OBVIOUS
<1> PICK c : c = Count(s, CR)
  OBVIOUS
<1>1. p \in Nat /\ f \in Nat /\ c \in Nat /\ (p = 0 <=> PairsIn(s) = {})
  BY PairsAre, CountIs
<1>2. LineEnding(s) = IF p >= f - p /\ p >= c - p /\ p > 0 THEN <<CR, NL>>
                      ELSE IF c - p > f - p THEN <<CR>> ELSE <<NL>>
  BY DEF LineEnding
<1>3. (c = 0 => \A i \in DOMAIN s : s[i] # CR) /\ ((\A i \in DOMAIN s : s[i] # CR) => c = 0)
      /\ ((\A i \in DOMAIN s : s[i] # NL) => f = 0)
  BY CountIs
<1>4. (\A i \in DOMAIN s : s[i] # CR) => PairsIn(s) = {}
  <2>1. \A i \in 1 .. Len(s) - 1 : i \in DOMAIN s
    OBVIOUS
  <2> QED
    BY <2>1 DEF PairsIn
<1>5. (\A i \in DOMAIN s : s[i] # NL) => PairsIn(s) = {}
  <2>1. \A i \in 1 .. Len(s) - 1 : i + 1 \in DOMAIN s
    OBVIOUS
  <2> QED
    BY <2>1 DEF PairsIn
<1>6. CASE \A i \in DOMAIN s : s[i] # CR
  <2>1. p = 0 /\ c = 0
    BY <1>1, <1>3, <1>4, <1>6
  <2>2. LineEnding(s) = <<NL>>
    BY ONLY <1>1, <1>2, <2>1
  <2> QED
    BY <1>6, <2>2
<1>7. CASE \A i \in DOMAIN s : s[i] # NL
  <2>1. p = 0 /\ f = 0
    BY <1>1, <1>3, <1>5, <1>7
  <2>2. (c > 0 => LineEnding(s) = <<CR>>) /\ (c = 0 => LineEnding(s) = <<NL>>)
    BY ONLY <1>1, <1>2, <2>1
  <2> QED
    BY <1>1, <1>3, <1>7, <2>2
<1>8. CASE \A i \in DOMAIN s : (s[i] = CR => i \in PairsIn(s)) /\ (s[i] = NL => i - 1 \in PairsIn(s))
  <2>1. c = p /\ f = p
    BY <1>8, PairsCount
  <2>2. (p > 0 => LineEnding(s) = <<CR, NL>>) /\ (p = 0 => LineEnding(s) = <<NL>>)
    BY ONLY <1>1, <1>2, <2>1
  <2> QED
    BY <1>1, <1>3, <1>8, <2>1, <2>2
<1> QED
  BY <1>6, <1>7, <1>8 DEF Uniform

\* Where the marks but for a first one need no byte order mark, none is left.
LEMMA DecodedPlain ==
  ASSUME NEW s \in Seq(Mark)
  PROVE  /\ Decode(s) \in Seq(Mark \ {CR})
         /\ Uniform(s) => Decode(s) \in Seq(Mark \ {CR, BOM})
<1>1. NL \in Mark \ {CR} /\ NL \in Mark \ {CR, BOM} /\ Drop(s) \in Nat
  BY MarksDiffer DEF Drop
<1>2. Decode(s) \in Seq(Mark \ {CR})
  <2>1. \A i \in DOMAIN s : i > Drop(s) /\ s[i] # CR => s[i] \in Mark \ {CR}
    OBVIOUS
  <2> QED
    BY <1>1, <2>1, DecodeIs, UnfoldType
<1>3. ASSUME Uniform(s)
      PROVE  Decode(s) \in Seq(Mark \ {CR, BOM})
  <2>1. \A i \in DOMAIN s : s[i] = BOM => i = 1
    BY <1>3 DEF Uniform
  <2>2. ASSUME NEW i \in DOMAIN s, i > Drop(s), s[i] # CR
        PROVE  s[i] \in Mark \ {CR, BOM}
    <3>1. s[i] \in Mark
      OBVIOUS
    <3>2. ASSUME s[i] = BOM
          PROVE  FALSE
      <4>1. i = 1 /\ s[1] = BOM /\ s # <<>>
        BY <2>1, <2>2, <3>2
      <4>2. HasBom(s)
        BY <4>1 DEF HasBom
      <4>3. Drop(s) \in {1, 2}
        BY <4>2 DEF Drop
      <4> QED
        BY <2>2, <4>1, <4>3
    <3> QED
      BY <2>2, <3>1, <3>2
  <2> QED
    BY <1>1, <2>2, DecodeIs, UnfoldType
<1> QED
  BY <1>2, <1>3

\* Every line end of s is a pair.
Paired(s) == \A i \in DOMAIN s : (s[i] = CR => i \in PairsIn(s)) /\ (s[i] = NL => i - 1 \in PairsIn(s))

LEMMA PairedMark ==
  ASSUME NEW s \in Seq(Mark), Paired(s), NEW m \in Mark \ {CR, NL}
  PROVE  Paired(Append(s, m))
<1> PICK u : u = Append(s, m)
  OBVIOUS
<1> PICK n : n = Len(s)
  OBVIOUS
<1>1. /\ n \in Nat /\ DOMAIN s = 1 .. n /\ Len(u) = n + 1 /\ DOMAIN u = 1 .. n + 1 /\ u[n + 1] = m
      /\ \A i \in 1 .. n : u[i] = s[i]
  OBVIOUS
<1>2. \A i \in PairsIn(s) : i \in PairsIn(u)
  BY <1>1 DEF PairsIn
<1>3. ASSUME NEW i \in DOMAIN u
      PROVE  (u[i] = CR => i \in PairsIn(u)) /\ (u[i] = NL => i - 1 \in PairsIn(u))
  <2>1. CASE i = n + 1
    BY <1>1, <2>1
  <2>2. CASE i # n + 1
    <3>1. i \in 1 .. n
      BY <1>1, <2>2
    <3> QED
      BY <1>1, <1>2, <3>1 DEF Paired
  <2> QED
    BY <2>1, <2>2
<1> QED
  BY <1>3 DEF Paired

LEMMA PairedEnding ==
  ASSUME NEW s \in Seq(Mark), Paired(s)
  PROVE  Paired(s \o <<CR, NL>>)
<1> PICK u : u = s \o <<CR, NL>>
  OBVIOUS
<1> PICK n : n = Len(s)
  OBVIOUS
<1>1. /\ n \in Nat /\ DOMAIN s = 1 .. n /\ Len(u) = n + 2 /\ DOMAIN u = 1 .. n + 2
      /\ u[n + 1] = CR /\ u[n + 2] = NL /\ \A i \in 1 .. n : u[i] = s[i]
  OBVIOUS
<1>2. \A i \in PairsIn(s) : i \in PairsIn(u)
  BY <1>1 DEF PairsIn
<1>3. n + 1 \in PairsIn(u)
  BY <1>1 DEF PairsIn
<1>4. ASSUME NEW i \in DOMAIN u
      PROVE  (u[i] = CR => i \in PairsIn(u)) /\ (u[i] = NL => i - 1 \in PairsIn(u))
  <2>1. CASE i = n + 1
    BY <1>1, <1>3, <2>1, MarksDiffer
  <2>2. CASE i = n + 2
    <3>1. i - 1 = n + 1
      BY <1>1, <2>2
    <3> QED
      BY <1>1, <1>3, <2>2, <3>1, MarksDiffer
  <2>3. CASE i # n + 1 /\ i # n + 2
    <3>1. i \in 1 .. n
      BY <1>1, <2>3
    <3> QED
      BY <1>1, <1>2, <3>1 DEF Paired
  <2> QED
    BY <2>1, <2>2, <2>3
<1> QED
  BY <1>4 DEF Paired

\* A text encoded behind what stands before it, and what the next mark of it adds.
Encoded(b, t, e) == b \o WithEnding(t, e)

LEMMA EncodedNext ==
  ASSUME NEW b \in Seq(Mark), NEW t \in Seq(Mark), NEW e \in Seq(Mark), NEW m \in Mark
  PROVE  /\ Encoded(b, t, e) \in Seq(Mark) /\ MarkUnder(m, e) \in Seq(Mark)
         /\ Encoded(b, Append(t, m), e) = Encoded(b, t, e) \o MarkUnder(m, e)
<1> PICK w : w = WithEnding(t, e)
  OBVIOUS
<1> PICK p : p = MarkUnder(m, e)
  OBVIOUS
<1>1. w \in Seq(Mark) /\ WithEnding(Append(t, m), e) = w \o p
  <2>1. EndsOn(t, m, e)
    BY EndingAppend, Zenon
  <2> QED
    BY ONLY <2>1, w = WithEnding(t, e), p = MarkUnder(m, e) DEF EndsOn
<1>2. p \in Seq(Mark)
  BY DEF MarkUnder
<1>3. b \in Seq(Mark) /\ w \in Seq(Mark) /\ p \in Seq(Mark)
  BY <1>1, <1>2
<1>4. (b \o w) \o p = b \o (w \o p)
  BY ONLY <1>3, ConcatAssoc
<1>5. b \o w \in Seq(Mark)
  BY ONLY <1>3
<1> QED
  BY <1>1, <1>2, <1>4, <1>5 DEF Encoded

LEMMA PairedEncoded ==
  ASSUME NEW t, NEW b, t \in Seq(Mark \ {CR}), b \in {<<>>, <<BOM>>}
  PROVE  Paired(b \o WithEnding(t, <<CR, NL>>))
<1> PICK e : e = <<CR, NL>>
  OBVIOUS
<1> DEFINE upTo(k) == SubSeq(t, 1, k)
           S == {k \in 0 .. Len(t) : Paired(Encoded(b, upTo(k), e))}
<1>1. e \in Seq(Mark) /\ Len(t) \in Nat /\ b \in Seq(Mark) /\ t \in Seq(Mark)
  <2>1. <<>> \in Seq(Mark) /\ <<BOM>> \in Seq(Mark) /\ <<CR, NL>> \in Seq(Mark)
    BY MarksDiffer
  <2>2. t \in Seq(Mark) /\ Len(t) \in Nat
    OBVIOUS
  <2> QED
    BY <2>1, <2>2
<1>2. 0 \in S
  <2>1. upTo(0) = <<>>
    OBVIOUS
  <2>2. b \o <<>> = b
    BY <1>1
  <2>3. Paired(b)
    <3>1. \A i \in DOMAIN b : b[i] # CR /\ b[i] # NL
      BY MarksDiffer
    <3> QED
      BY <3>1 DEF Paired
  <2>4. WithEnding(upTo(0), e) = <<>>
    BY <2>1, EndingEmpty, Zenon
  <2>5. 0 \in 0 .. Len(t)
    BY <1>1
  <2> HIDE DEF upTo
  <2> QED
    BY <2>2, <2>3, <2>4, <2>5 DEF Encoded
<1>3. ASSUME NEW k \in 0 .. Len(t) - 1, k \in S
      PROVE  k + 1 \in S
  <2> PICK u : u = upTo(k)
    OBVIOUS
  <2> PICK m : m = t[k + 1]
    OBVIOUS
  <2> PICK w : w = Encoded(b, u, e)
    OBVIOUS
  <2>1. k + 1 \in 0 .. Len(t)
    BY <1>1, <1>3
  <2>2. u \in Seq(Mark) /\ m \in Mark /\ m # CR /\ upTo(k + 1) = Append(u, m)
    BY <1>1, <1>3
  <2>3. w \in Seq(Mark) /\ Encoded(b, Append(u, m), e) = w \o MarkUnder(m, e)
    <3> HIDE DEF upTo
    <3>1. u \in Seq(Mark) /\ m \in Mark /\ b \in Seq(Mark) /\ e \in Seq(Mark)
      BY <1>1, <2>2
    <3>2. Encoded(b, Append(u, m), e) = Encoded(b, u, e) \o MarkUnder(m, e)
      BY ONLY <3>1, EncodedNext
    <3>3. Encoded(b, u, e) \in Seq(Mark)
      BY ONLY <3>1, EncodedNext
    <3> QED
      BY ONLY <3>2, <3>3, w = Encoded(b, u, e)
  <2>4. Paired(w)
    BY <1>3
  <2>5. Paired(Encoded(b, Append(u, m), e))
    <3>1. CASE m = NL
      <4>1. Paired(w \o <<CR, NL>>)
        BY ONLY <2>3, <2>4, PairedEnding
      <4> QED
        BY <2>3, <3>1, <4>1 DEF MarkUnder
    <3>2. CASE m # NL
      <4>1. Paired(Append(w, m))
        BY <2>2, <2>3, <2>4, <3>2, PairedMark
      <4>2. Append(w, m) = w \o <<m>>
        BY <2>2, <2>3
      <4> QED
        BY <2>3, <3>2, <4>1, <4>2 DEF MarkUnder
    <3> QED
      BY <3>1, <3>2
  <2> QED
    BY <2>1, <2>2, <2>5
<1> HIDE DEF S
<1>4. Len(t) \in S
  <2>1. \A k \in 0 .. Len(t) : k \in S
    BY ONLY <1>1, <1>2, <1>3, UpTo
  <2> QED
    BY <1>1, <2>1
<1>5. upTo(Len(t)) = t
  OBVIOUS
<1> QED
  BY <1>4, <1>5 DEF S, Encoded

\* A text of words, spaces and line feeds is encoded with line ends of one kind.
LEMMA UniformEncoded ==
  ASSUME NEW t \in Seq(Mark \ {CR, BOM}), NEW e \in Endings, NEW b \in {<<>>, <<BOM>>}
  PROVE  Uniform(b \o WithEnding(t, e))
<1> PICK w : w = WithEnding(t, e)
  OBVIOUS
<1> PICK s : s = b \o w
  OBVIOUS
<1>1. ASSUME NEW x, e \in Seq(Mark \ {x}), \A i \in DOMAIN t : t[i] # NL => t[i] # x
      PROVE  w \in Seq(Mark \ {x})
  <2>1. \A i \in DOMAIN t : t[i] # NL => t[i] \in Mark \ {x}
    BY <1>1
  <2> QED
    BY <1>1, <2>1, EndingType
<1>2. w \in Seq(Mark \ {BOM})
  <2>1. e \in Seq(Mark \ {BOM})
    <3>1. <<NL>> \in Seq(Mark \ {BOM}) /\ <<CR>> \in Seq(Mark \ {BOM}) /\ <<CR, NL>> \in Seq(Mark \ {BOM})
      BY MarksDiffer
    <3> QED
      BY <3>1 DEF Endings
  <2>2. \A i \in DOMAIN t : t[i] # NL => t[i] # BOM
    OBVIOUS
  <2> QED
    BY <1>1, <2>1, <2>2
<1>3. \A i \in DOMAIN s : s[i] = BOM => i = 1
  <2>1. CASE b = <<>>
    <3>1. s = w
      BY <1>2, <2>1, ConcatEmpty
    <3> QED
      BY <1>2, <3>1
  <2>2. CASE b = <<BOM>>
    <3>1. \A i \in DOMAIN s : i # 1 => i - 1 \in DOMAIN w /\ s[i] = w[i - 1]
      BY <1>2, <2>2
    <3>2. \A i \in DOMAIN w : w[i] # BOM
      BY <1>2
    <3> QED
      BY <3>1, <3>2
  <2> QED
    BY <2>1, <2>2
<1>4. CASE e = <<NL>>
  <2>1. w \in Seq(Mark \ {CR})
    <3>1. e \in Seq(Mark \ {CR})
      BY <1>4, MarksDiffer
    <3>2. \A i \in DOMAIN t : t[i] # NL => t[i] # CR
      OBVIOUS
    <3> QED
      BY <1>1, <3>1, <3>2
  <2>2. b \in Seq(Mark \ {CR})
    <3>1. <<>> \in Seq(Mark \ {CR}) /\ <<BOM>> \in Seq(Mark \ {CR})
      BY MarksDiffer
    <3> QED
      BY <3>1
  <2>3. s \in Seq(Mark \ {CR})
    BY <2>1, <2>2
  <2>4. \A i \in DOMAIN s : s[i] # CR
    BY <2>3
  <2> QED
    BY <1>3, <2>4 DEF Uniform
<1>5. CASE e = <<CR>>
  <2>1. w \in Seq(Mark \ {NL})
    <3>1. e \in Seq(Mark \ {NL})
      BY <1>5, MarksDiffer
    <3>2. \A i \in DOMAIN t : t[i] # NL => t[i] # NL
      OBVIOUS
    <3> QED
      BY <1>1, <3>1, <3>2
  <2>2. b \in Seq(Mark \ {NL})
    <3>1. <<>> \in Seq(Mark \ {NL}) /\ <<BOM>> \in Seq(Mark \ {NL})
      BY MarksDiffer
    <3> QED
      BY <3>1
  <2>3. s \in Seq(Mark \ {NL})
    BY <2>1, <2>2
  <2>4. \A i \in DOMAIN s : s[i] # NL
    BY <2>3
  <2> QED
    BY <1>3, <2>4 DEF Uniform
<1>6. CASE e = <<CR, NL>>
  <2>1. t \in Seq(Mark \ {CR})
    OBVIOUS
  <2>2. Paired(s)
    BY <1>6, <2>1, PairedEncoded
  <2> QED
    BY <1>3, <2>2 DEF Uniform, Paired
<1> QED
  BY <1>4, <1>5, <1>6 DEF Endings

\* What the next mark of a file adds when it is decoded and encoded again.
Again(b, s, d, e) == Encoded(b, Unfolded(s, d), e)
Addition(s, m, e) == IF m = NL /\ Len(s) # 0 /\ s[Len(s)] = CR THEN <<>>
                     ELSE IF m = CR \/ m = NL THEN e ELSE <<m>>

LEMMA AgainNext ==
  ASSUME NEW b, NEW s, NEW d, NEW e, NEW m,
         b \in Seq(Mark), s \in Seq(Mark), d \in Nat, d <= Len(s), e \in Seq(Mark), m \in Mark
  PROVE  /\ Again(b, s, d, e) \in Seq(Mark)
         /\ Again(b, Append(s, m), d, e) = Again(b, s, d, e) \o Addition(s, m, e)
<1> PICK t : t = Unfolded(s, d)
  OBVIOUS
<1> PICK more : more = Unfolded(Append(s, m), d)
  OBVIOUS
<1>1. /\ Unfolded(s, d) \in Seq(Mark)
      /\ Unfolded(Append(s, m), d) =
           Unfolded(s, d) \o (IF Len(s) + 1 <= d \/ (m = NL /\ Len(s) # 0 /\ s[Len(s)] = CR) THEN <<>>
                              ELSE IF m = CR THEN <<NL>> ELSE <<m>>)
  BY ONLY s \in Seq(Mark), d \in Nat, m \in Mark, UnfoldAppend
<1>2. ~(Len(s) + 1 <= d)
  OBVIOUS
<1>3. t \in Seq(Mark) /\ more = t \o (IF m = NL /\ Len(s) # 0 /\ s[Len(s)] = CR THEN <<>>
                                      ELSE IF m = CR THEN <<NL>> ELSE <<m>>)
  BY ONLY <1>1, <1>2, t = Unfolded(s, d), more = Unfolded(Append(s, m), d)
<1>4. ASSUME NEW x \in Mark
      PROVE  /\ Encoded(b, t, e) \in Seq(Mark) /\ Encoded(b, Append(t, x), e) = Encoded(b, t, e) \o MarkUnder(x, e)
             /\ t \o <<x>> = Append(t, x)
  <2>1. x \in Mark /\ t \in Seq(Mark)
    BY <1>3
  <2>2. t \o <<x>> = Append(t, x)
    BY <2>1
  <2> QED
    BY ONLY <2>1, <2>2, b \in Seq(Mark), e \in Seq(Mark), EncodedNext
<1>5. Encoded(b, t, e) \in Seq(Mark)
  BY <1>4
<1>6. Encoded(b, more, e) = Encoded(b, t, e) \o Addition(s, m, e)
  <2>1. CASE m = NL /\ Len(s) # 0 /\ s[Len(s)] = CR
    <3>1. more = t /\ Addition(s, m, e) = <<>>
      BY <1>3, <2>1, ConcatEmpty DEF Addition
    <3> QED
      BY <1>5, <3>1, ConcatEmpty
  <2>2. CASE ~(m = NL /\ Len(s) # 0 /\ s[Len(s)] = CR) /\ m = CR
    <3>1. more = t \o <<NL>> /\ Addition(s, m, e) = e /\ MarkUnder(NL, e) = e
      BY <1>3, <2>2, MarksDiffer DEF Addition, MarkUnder
    <3> QED
      BY <1>4, <3>1, MarksDiffer
  <2>3. CASE ~(m = NL /\ Len(s) # 0 /\ s[Len(s)] = CR) /\ m # CR
    <3>1. more = t \o <<m>> /\ Addition(s, m, e) = MarkUnder(m, e)
      BY <1>3, <2>3 DEF Addition, MarkUnder
    <3> QED
      BY <1>4, <3>1
  <2> QED
    BY <2>1, <2>2, <2>3
<1> QED
  BY <1>5, <1>6 DEF Again

LEMMA AgainHead ==
  ASSUME NEW b, NEW e, b \in {<<>>, <<BOM>>}, e \in Endings
  PROVE  Again(b, b, Len(b), e) = b
<1>1. b \in Seq(Mark) /\ <<>> \in Seq(Mark \ {CR}) /\ WithEnding(<<>>, e) = <<>>
  <2>1. <<>> \in Seq(Mark) /\ <<BOM>> \in Seq(Mark)
    BY MarksDiffer
  <2>2. <<>> \in Seq(Mark \ {CR})
    OBVIOUS
  <2>3. WithEnding(<<>>, e) = <<>>
    BY EndingEmpty, Zenon
  <2> QED
    BY <2>1, <2>2, <2>3
<1>2. b \o <<>> = b
  BY ONLY <1>1, ConcatEmpty
<1>3. Unfolded(b \o WithEnding(<<>>, e), Len(b)) = <<>>
  BY <1>1, Unfolds
<1> QED
  BY <1>1, <1>2, <1>3 DEF Again, Encoded

\* A file in a form of its own is restored when it is decoded and encoded again.
LEMMA Restored ==
  ASSUME NEW s, s \in Seq(Mark), Uniform(s)
  PROVE  Encode(Decode(s), Form(s)) = s
<1> PICK d : d = Drop(s)
  OBVIOUS
<1> PICK b : b = IF HasBom(s) THEN <<BOM>> ELSE <<>>
  OBVIOUS
<1> PICK e : e = LineEnding(s)
  OBVIOUS
<1> DEFINE upTo(k) == SubSeq(s, 1, k)
           Waits(k) == e = <<CR, NL>> /\ k > d /\ s[k] = CR
           Kept(k) == Again(b, upTo(k), d, e) = IF Waits(k) THEN Append(upTo(k), NL) ELSE upTo(k)
           S == {k \in 0 .. Len(s) : k >= d => Kept(k)}
<1>1. e \in Endings /\ e \in Seq(Mark) /\ Len(s) \in Nat /\ b \in Seq(Mark) /\ b \in {<<>>, <<BOM>>}
  <2>1. <<>> \in Seq(Mark) /\ <<BOM>> \in Seq(Mark)
    BY MarksDiffer
  <2> QED
    BY <2>1, EndingKnown, EndingsAre
<1>2. d \in {0, 1} /\ Len(b) = d /\ d \in 0 .. Len(s) /\ upTo(d) = b /\ (d = 1 => s[1] = BOM)
  <2>1. CASE HasBom(s)
    <3>1. s # <<>> /\ s[1] = BOM /\ Len(s) >= 1
      BY <2>1 DEF HasBom
    <3>2. ~HasBom(Tail(s))
      <4>1. ASSUME Tail(s) # <<>>
            PROVE  Tail(s)[1] # BOM
        <5>1. 2 \in DOMAIN s /\ Tail(s)[1] = s[2]
          BY <3>1, <4>1
        <5> QED
          BY <5>1 DEF Uniform
      <4> QED
        BY <4>1 DEF HasBom
    <3>3. d = 1 /\ b = <<BOM>>
      BY <2>1, <3>2 DEF Drop
    <3> PICK p : p = SubSeq(s, 1, 1)
      OBVIOUS
    <3>4. p \in Seq(Mark) /\ Len(p) = 1 /\ p[1] = BOM
      BY ONLY s \in Seq(Mark), <3>1, p = SubSeq(s, 1, 1)
    <3>5. p = <<BOM>>
      BY ONLY <3>4
    <3>6. Len(b) = 1 /\ d \in 0 .. Len(s)
      BY ONLY <1>1, <3>1, <3>3
    <3>7. upTo(d) = b
      BY ONLY <3>3, <3>5, p = SubSeq(s, 1, 1)
    <3> QED
      BY ONLY <3>1, <3>3, <3>6, <3>7
  <2>2. CASE ~HasBom(s)
    <3>1. d = 0 /\ b = <<>>
      BY <2>2 DEF Drop
    <3>2. SubSeq(s, 1, 0) = <<>>
      OBVIOUS
    <3> QED
      BY ONLY <1>1, <3>1, <3>2
  <2> QED
    BY <2>1, <2>2
<1>3. Kept(d)
  <2>1. Again(b, b, Len(b), e) = b
    BY ONLY <1>1, AgainHead
  <2>2. ~Waits(d)
    BY <1>2
  <2> HIDE DEF Waits, upTo
  <2> QED
    BY ONLY <1>2, <2>1, <2>2
<1>4. 0 \in S
  <2>1. 0 \in 0 .. Len(s) /\ (0 >= d => 0 = d)
    BY ONLY <1>1, <1>2
  <2> HIDE DEF Kept
  <2> QED
    BY <1>3, <2>1
<1>5. ASSUME NEW k, k \in 0 .. Len(s) - 1, k \in S
      PROVE  k + 1 \in S
  <2> PICK j : j = k + 1
    OBVIOUS
  <2> PICK q : q = upTo(k)
    OBVIOUS
  <2> PICK m : m = s[j]
    OBVIOUS
  <2>1. j \in 0 .. Len(s) /\ j \in DOMAIN s /\ k \in Nat /\ j \in Nat /\ j - 1 = k /\ d \in Nat
    BY <1>1, <1>2, <1>5
  <2>2. q \in Seq(Mark) /\ Len(q) = k /\ m \in Mark /\ upTo(j) = Append(q, m) /\ (k # 0 => q[k] = s[k])
    BY <1>5
  <2>3. ASSUME k >= d
        PROVE  Kept(j)
    <3>1. Again(b, q, d, e) = IF Waits(k) THEN Append(q, NL) ELSE q
      BY <1>5, <2>3
    <3>2. Again(b, Append(q, m), d, e) = Again(b, q, d, e) \o Addition(q, m, e)
      <4>1. /\ b \in Seq(Mark) /\ q \in Seq(Mark) /\ d \in Nat /\ d <= Len(q) /\ e \in Seq(Mark)
            /\ m \in Mark
        BY <1>1, <2>1, <2>2, <2>3
      <4> QED
        BY ONLY <4>1, AgainNext
    <3>3. q \o <<m>> = Append(q, m)
      BY ONLY <2>2, AppendIs
    <3>4. k # 0 /\ s[k] = CR => k > d
      <4>1. CASE k = d /\ k # 0
        BY <1>2, <4>1, MarksDiffer
      <4> QED
        BY <2>1, <2>3, <4>1
    <3>5. k # 0 /\ s[k] = CR => k \in DOMAIN s
      BY <1>5
    <3>6. CASE e = <<NL>> /\ \A i \in DOMAIN s : s[i] # CR
      <4>1. ~Waits(k) /\ ~Waits(j) /\ m # CR /\ ~(k # 0 /\ s[k] = CR)
        BY <2>1, <3>5, <3>6
      <4>2. Addition(q, m, e) = <<m>>
        BY <2>2, <3>6, <4>1 DEF Addition
      <4> HIDE DEF Waits, upTo
      <4> QED
        BY ONLY <2>2, <3>1, <3>2, <3>3, <4>1, <4>2
    <3>7. CASE e = <<CR>> /\ \A i \in DOMAIN s : s[i] # NL
      <4>1. ~Waits(k) /\ ~Waits(j) /\ m # NL
        BY <2>1, <3>7
      <4>2. Addition(q, m, e) = <<m>>
        BY <2>2, <3>7, <4>1 DEF Addition
      <4> HIDE DEF Waits, upTo
      <4> QED
        BY ONLY <2>2, <3>1, <3>2, <3>3, <4>1, <4>2
    <3>8. CASE /\ e = <<CR, NL>>
               /\ \A i \in DOMAIN s : (s[i] = CR => i \in PairsIn(s)) /\ (s[i] = NL => i - 1 \in PairsIn(s))
      <4>1. m = NL <=> k # 0 /\ s[k] = CR
        <5>1. ASSUME m = NL
              PROVE  k # 0 /\ s[k] = CR
          <6>1. j - 1 \in PairsIn(s)
            BY <2>1, <3>8, <5>1
          <6> QED
            BY <2>1, <6>1 DEF PairsIn
        <5>2. ASSUME k # 0, s[k] = CR
              PROVE  m = NL
          <6>1. k \in PairsIn(s)
            BY <3>5, <3>8, <5>2
          <6> QED
            BY <6>1 DEF PairsIn
        <5> QED
          BY <5>1, <5>2
      <4>2. CASE m = NL
        <5>1. Waits(k) /\ ~Waits(j)
          BY <3>4, <3>8, <4>1, <4>2, MarksDiffer
        <5>2. Addition(q, m, e) = <<>>
          BY <2>2, <4>1, <4>2 DEF Addition
        <5>3. Append(q, NL) \o <<>> = Append(q, m)
          BY ONLY <2>2, <4>2
        <5> HIDE DEF Waits, upTo
        <5> QED
          BY ONLY <2>2, <3>1, <3>2, <5>1, <5>2, <5>3
      <4>3. CASE m = CR
        <5>1. ~Waits(k) /\ Waits(j)
          <6>1. m # NL
            BY <4>3, MarksDiffer
          <6>2. j > d
            BY <2>1, <2>3
          <6>3. ~(k # 0 /\ s[k] = CR) /\ (k > d => k # 0)
            BY <2>1, <4>1, <6>1
          <6> QED
            BY <3>8, <4>3, <6>2, <6>3
        <5>2. Addition(q, m, e) = <<CR, NL>>
          BY <3>8, <4>3, MarksDiffer DEF Addition
        <5>3. q \o <<CR, NL>> = Append(Append(q, m), NL)
          BY ONLY <2>2, <4>3
        <5> HIDE DEF Waits, upTo
        <5> QED
          BY ONLY <2>2, <3>1, <3>2, <5>1, <5>2, <5>3
      <4>4. CASE m # NL /\ m # CR
        <5>1. ~Waits(k) /\ ~Waits(j)
          <6>1. k > d => k # 0
            BY <2>1
          <6> QED
            BY <4>1, <4>4, <6>1
        <5>2. Addition(q, m, e) = <<m>>
          BY <4>4 DEF Addition
        <5> HIDE DEF Waits, upTo
        <5> QED
          BY ONLY <2>2, <3>1, <3>2, <3>3, <5>1, <5>2
      <4> QED
        BY <4>2, <4>3, <4>4
    <3> QED
      BY <3>6, <3>7, <3>8, UniformForm
  <2>4. j >= d => k >= d \/ j = d
    BY <1>2, <2>1
  <2> HIDE DEF Kept
  <2> QED
    BY <1>3, <2>1, <2>3, <2>4
<1> HIDE DEF S
<1>6. Len(s) \in S
  <2>1. \A k \in 0 .. Len(s) : k \in S
    BY ONLY <1>1, <1>4, <1>5, UpTo
  <2> QED
    BY <1>1, <2>1
<1>7. upTo(Len(s)) = s
  OBVIOUS
<1>8. ~Waits(Len(s))
  <2>1. CASE e = <<CR, NL>> /\ Len(s) # 0 /\ s[Len(s)] = CR
    <3>1. Len(s) \in DOMAIN s /\ Len(s) \notin PairsIn(s) /\ e # <<NL>> /\ e # <<CR>>
      BY <1>1, <2>1 DEF PairsIn
    <3> QED
      BY <2>1, <3>1, UniformForm
  <2> QED
    BY <1>1, <1>2, <2>1
<1>9. Again(b, s, d, e) = s
  <2>1. Kept(Len(s))
    BY <1>1, <1>2, <1>6 DEF S
  <2> HIDE DEF Waits, upTo
  <2> QED
    BY ONLY <1>7, <1>8, <2>1
<1>10. Encode(Decode(s), Form(s)) = Again(b, s, d, e)
  BY DecodeIs DEF Encode, Again, Encoded, Form
<1> QED
  BY <1>9, <1>10

-----------------------------------------------------------------------------
(* Numbers in order. *)

\* The least and the largest of some numbers.
LEMMA MinIs ==
  ASSUME NEW T, T \in SUBSET Nat, T # {}
  PROVE  Sets!Min(T) \in T /\ \A y \in T : Sets!Min(T) <= y
<1>1. PICK x \in T : \A y \in T : ~ (<<y, x>> \in OpToRel(<, Nat))
  BY WFMin, NatLessThanWellFounded
<1>2. \A y \in T : ~ (y < x)
  BY <1>1 DEF OpToRel
<1>3. \E z \in T : \A y \in T : z =< y
  BY <1>2
<1> QED
  BY <1>3 DEF Sets!Min

LEMMA MaxIs ==
  ASSUME NEW n, NEW T, n \in Nat, T \in SUBSET (0 .. n), T # {}
  PROVE  Sets!Max(T) \in T /\ \A y \in T : y <= Sets!Max(T)
<1> DEFINE U == {n - x : x \in T}
           u == Sets!Min(U)
<1>1. U \in SUBSET Nat /\ U # {}
  <2>1. \A x \in T : n - x \in Nat
    OBVIOUS
  <2> QED
    BY <2>1
<1> HIDE DEF U
<1>2. u \in U /\ \A y \in U : u <= y
  BY <1>1, MinIs
<1> HIDE DEF u
<1>3. PICK x \in T : u = n - x
  BY <1>2 DEF U
<1>4. \A y \in T : y <= x
  <2>1. ASSUME NEW y \in T
        PROVE  y <= x
    <3>1. n - y \in U
      BY DEF U
    <3>2. n - x <= n - y /\ x \in 0 .. n /\ y \in 0 .. n
      BY <1>2, <1>3, <3>1
    <3> QED
      BY <3>2
  <2> QED
    BY <2>1
<1>5. \E z \in T : \A y \in T : z >= y
  <2>1. \A y \in T : x >= y
    BY <1>4
  <2> QED
    BY <2>1
<1>6. Sets!Max(T) \in T /\ \A y \in T : Sets!Max(T) >= y
  BY ONLY <1>5, Zenon DEF Sets!Max
<1>7. \A y \in T : y \in Nat
  OBVIOUS
<1> QED
  BY <1>6, <1>7

\* How many members of S are below x.
Rank(S, x) == Cardinality({y \in S : y < x})

LEMMA RankIs ==
  ASSUME NEW S, NEW x, NEW z, S \in SUBSET Nat, IsFiniteSet(S), x \in S, z \in S
  PROVE  /\ Rank(S, x) \in 0 .. Cardinality(S) - 1
         /\ x < z => Rank(S, x) < Rank(S, z)
<1> DEFINE B == {y \in S : y < x}
           D == {y \in S : y < z}
<1>1. IsFiniteSet(B) /\ Cardinality(B) \in Nat /\ IsFiniteSet(D) /\ Cardinality(D) \in Nat /\ Cardinality(S) \in Nat
  <2>1. B \in SUBSET S /\ D \in SUBSET S
    OBVIOUS
  <2> HIDE DEF B, D
  <2>2. IsFiniteSet(B) /\ IsFiniteSet(D)
    BY ONLY IsFiniteSet(S), <2>1, FS_Subset
  <2> QED
    BY ONLY IsFiniteSet(S), <2>2, FS_CardinalityType
<1>2. x \notin B
  OBVIOUS
<1>3. B \cup {x} \in SUBSET S /\ (x < z => B \cup {x} \in SUBSET D)
  <2>1. x \in Nat /\ z \in Nat /\ \A y \in S : y \in Nat
    OBVIOUS
  <2>2. x < z => \A y \in B \cup {x} : y < z /\ y \in S
    BY <2>1
  <2> QED
    BY <2>2
<1> HIDE DEF B, D
<1>4. IsFiniteSet(B \cup {x}) /\ Cardinality(B \cup {x}) = Cardinality(B) + 1
  BY ONLY <1>1, <1>2, FS_AddElement
<1>5. Cardinality(B) + 1 <= Cardinality(S) /\ (x < z => Cardinality(B) + 1 <= Cardinality(D))
  BY ONLY IsFiniteSet(S), <1>1, <1>3, <1>4, FS_Subset
<1>6. Rank(S, x) = Cardinality(B) /\ Rank(S, z) = Cardinality(D)
  BY DEF Rank, B, D
<1> QED
  BY ONLY <1>1, <1>5, <1>6

\* Every rank is some member's, and so a set has a list that ascends.
LEMMA RankHeld ==
  ASSUME NEW S, S \in SUBSET Nat, IsFiniteSet(S), S # {}
  PROVE  \A k \in 0 .. Cardinality(S) - 1 : \E x \in S : Rank(S, x) = k
<1> PICK n : n = Cardinality(S)
  OBVIOUS
<1> DEFINE Held == {k \in 0 .. n - 1 : \E x \in S : Rank(S, x) = k}
<1>1. n \in Nat /\ n # 0 /\ n - 1 \in Nat /\ 0 \in 0 .. n - 1
  <2>1. n \in Nat /\ n # 0
    BY FS_CardinalityType, FS_EmptySet
  <2> QED
    BY <2>1
<1>2. 0 \in Held
  <2>1. PICK x : x = Sets!Min(S)
    OBVIOUS
  <2>2. x \in S /\ \A y \in S : x <= y
    BY <2>1, MinIs
  <2>3. {y \in S : y < x} = {}
    <3>1. \A y \in S : y \in Nat /\ x \in Nat /\ x <= y
      BY <2>2
    <3>2. \A y \in S : ~(y < x)
      BY <3>1
    <3> QED
      BY <3>2
  <2>4. Rank(S, x) = 0
    BY <2>3, FS_EmptySet DEF Rank
  <2> QED
    BY <1>1, <2>2, <2>4
<1>3. ASSUME NEW k \in 0 .. (n - 1) - 1, k \in Held
      PROVE  k + 1 \in Held
  <2>1. PICK x : x \in S /\ Rank(S, x) = k
    BY <1>3
  <2> DEFINE B == {y \in S : y < x}
             U == {y \in S : y > x}
  <2>2. IsFiniteSet(B) /\ Cardinality(B) = k /\ x \notin B
    <3>1. B \in SUBSET S /\ x \notin B
      BY <2>1
    <3>2. Cardinality(B) = k
      BY <2>1 DEF Rank
    <3> HIDE DEF B
    <3> QED
      BY <3>1, <3>2, FS_Subset
  <2>3. Cardinality(B \cup {x}) = k + 1
    <3> HIDE DEF B
    <3> QED
      BY ONLY <2>2, FS_AddElement
  <2>4. U # {}
    <3>1. ASSUME U = {}
          PROVE  FALSE
      <4>1. S = B \cup {x}
        <5>1. \A y \in S : y \in Nat /\ x \in Nat /\ ~(y > x)
          BY <2>1, <3>1
        <5>2. \A y \in S : y < x \/ y = x
          BY <5>1
        <5> QED
          BY <2>1, <5>2
      <4>2. k + 1 = n
        BY <2>3, <4>1
      <4> QED
        BY <1>1, <1>3, <4>2
    <3> QED
      BY <3>1
  <2>5. PICK z : z = Sets!Min(U)
    OBVIOUS
  <2>6. z \in U /\ \A y \in U : z <= y
    <3>1. U \in SUBSET Nat
      OBVIOUS
    <3> HIDE DEF U
    <3> QED
      BY <2>4, <2>5, <3>1, MinIs
  <2>7. {y \in S : y < z} = B \cup {x}
    <3>1. x \in Nat /\ z \in Nat /\ x < z /\ z \in S
      BY <2>1, <2>6
    <3>2. ASSUME NEW y \in S
          PROVE  y < z <=> y \in B \cup {x}
      <4>1. y \in Nat
        OBVIOUS
      <4>2. y > x => z <= y
        BY <2>6
      <4> QED
        BY ONLY <3>1, <3>2, <4>1, <4>2
    <3>3. B \cup {x} \in SUBSET S
      BY <2>1
    <3> HIDE DEF B
    <3> QED
      BY <3>2, <3>3
  <2>8. z \in S /\ Rank(S, z) = k + 1
    BY <2>3, <2>6, <2>7 DEF Rank
  <2>9. k + 1 \in 0 .. n - 1
    BY <1>1, <1>3
  <2> QED
    BY <2>8, <2>9
<1> HIDE DEF Held
<1>4. \A k \in 0 .. n - 1 : k \in Held
  BY ONLY <1>1, <1>2, <1>3, UpTo
<1> QED
  BY <1>4 DEF Held

LEMMA AscendingIs ==
  ASSUME NEW S, S \in SUBSET Nat, IsFiniteSet(S)
  PROVE  /\ Cardinality(S) \in Nat
         /\ Ascending(S) \in [1 .. Cardinality(S) -> S]
         /\ \A n \in 1 .. Cardinality(S) : \A m \in 1 .. n - 1 : Ascending(S)[m] < Ascending(S)[n]
         /\ \A x \in S : \E n \in 1 .. Cardinality(S) : Ascending(S)[n] = x
<1> PICK c : c = Cardinality(S)
  OBVIOUS
<1> PICK a : a = Ascending(S)
  OBVIOUS
<1>1. c \in Nat
  BY FS_CardinalityType
<1>2. ASSUME NEW k \in 1 .. c
      PROVE  a[k] \in S /\ Rank(S, a[k]) = k - 1
  <2>1. k - 1 \in 0 .. c - 1 /\ S # {}
    BY <1>1, FS_EmptySet
  <2>2. \E x \in S : Cardinality({y \in S : y < x}) = k - 1
    BY <2>1, RankHeld DEF Rank
  <2>3. a[k] = CHOOSE x \in S : Cardinality({y \in S : y < x}) = k - 1
    BY Zenon DEF Ascending
  <2> QED
    BY <2>2, <2>3, Zenon DEF Rank
<1>3. a \in [1 .. c -> S]
  <2>1. a = [k \in 1 .. c |-> a[k]]
    <3>1. a = [k \in 1 .. c |-> CHOOSE x \in S : Cardinality({y \in S : y < x}) = k - 1]
      BY DEF Ascending
    <3> QED
      BY <3>1, Zenon
  <2> QED
    BY ONLY <1>2, <2>1
<1>4. ASSUME NEW n \in 1 .. c, NEW m \in 1 .. n - 1
      PROVE  a[m] < a[n]
  <2> PICK x : x = a[m]
    OBVIOUS
  <2> PICK y : y = a[n]
    OBVIOUS
  <2>1. m \in 1 .. c
    BY <1>1
  <2>2. x \in S /\ y \in S /\ Rank(S, x) = m - 1 /\ Rank(S, y) = n - 1 /\ x \in Nat /\ y \in Nat
    BY <1>2, <2>1
  <2>3. y < x => Rank(S, y) < Rank(S, x)
    BY ONLY S \in SUBSET Nat, IsFiniteSet(S), <2>2, RankIs
  <2>4. x = y => m = n
    BY <1>1, <2>1, <2>2
  <2>5. m < n /\ m \in Nat /\ n \in Nat
    BY <1>1
  <2>6. x < y
    BY ONLY <2>2, <2>3, <2>4, <2>5
  <2> QED
    BY <2>6
<1>5. ASSUME NEW x \in S
      PROVE  \E n \in 1 .. c : a[n] = x
  <2> PICK n : n = Rank(S, x) + 1
    OBVIOUS
  <2>1. Rank(S, x) \in 0 .. c - 1
    BY ONLY S \in SUBSET Nat, IsFiniteSet(S), x \in S, c = Cardinality(S), RankIs
  <2>2. n \in 1 .. c /\ n - 1 = Rank(S, x)
    BY <1>1, <2>1
  <2> PICK z : z = a[n]
    OBVIOUS
  <2>3. z \in S /\ Rank(S, z) = Rank(S, x)
    BY <1>2, <2>2
  <2>4. x \in Nat /\ z \in Nat /\ ~(x < z) /\ ~(z < x)
    <3>1. x \in Nat /\ z \in Nat
      BY <2>3
    <3>2. (x < z => Rank(S, x) < Rank(S, z)) /\ (z < x => Rank(S, z) < Rank(S, x))
      BY ONLY S \in SUBSET Nat, IsFiniteSet(S), x \in S, <2>3, RankIs
    <3>3. ~(Rank(S, x) < Rank(S, x))
      BY <2>1
    <3> QED
      BY <2>3, <3>1, <3>2, <3>3
  <2>5. z = x
    BY <2>4
  <2> QED
    BY <2>2, <2>5
<1> QED
  BY <1>1, <1>3, <1>4, <1>5

-----------------------------------------------------------------------------
(* Lines. *)

LEMMA StartsAre ==
  ASSUME NEW M, NEW t, t \in Seq(M)
  PROVE  /\ 1 \in Starts(t) /\ Starts(t) \in SUBSET (1 .. Len(t) + 1) /\ Starts(t) \in SUBSET Nat
         /\ IsFiniteSet(Starts(t)) /\ Cardinality(Starts(t)) \in Nat /\ Cardinality(Starts(t)) # 0
<1>1. Len(t) \in Nat /\ DOMAIN t = 1 .. Len(t)
  OBVIOUS
<1>2. 1 \in Starts(t) /\ Starts(t) \in SUBSET (1 .. Len(t) + 1)
  <2>1. 1 \in 1 .. Len(t) + 1 /\ \A j \in DOMAIN t : j + 1 \in 1 .. Len(t) + 1
    BY <1>1
  <2> QED
    BY <2>1 DEF Starts
<1>3. Starts(t) \in SUBSET Nat
  BY <1>1, <1>2
<1>4. IsFiniteSet(1 .. Len(t) + 1)
  BY <1>1, FS_Interval
<1>5. IsFiniteSet(Starts(t))
  BY ONLY <1>2, <1>4, FS_Subset
<1>6. Cardinality(Starts(t)) \in Nat /\ Cardinality(Starts(t)) # 0
  BY ONLY <1>2, <1>5, FS_CardinalityType, FS_EmptySet
<1> QED
  BY <1>2, <1>3, <1>5, <1>6

LEMMA StartsOfIs ==
  ASSUME NEW M, NEW t, t \in Seq(M)
  PROVE  /\ StartsOf(t) \in [1 .. Cardinality(Starts(t)) -> Starts(t)]
         /\ StartsOf(t) \in [1 .. Cardinality(Starts(t)) -> 1 .. Len(t) + 1]
         /\ \A n \in 1 .. Cardinality(Starts(t)) : \A m \in 1 .. n - 1 : StartsOf(t)[m] < StartsOf(t)[n]
         /\ \A x \in Starts(t) : \E n \in 1 .. Cardinality(Starts(t)) : StartsOf(t)[n] = x
<1> PICK S : S = Starts(t)
  OBVIOUS
<1>1. S \in SUBSET Nat /\ IsFiniteSet(S) /\ S \in SUBSET (1 .. Len(t) + 1)
  BY StartsAre
<1>2. /\ Ascending(S) \in [1 .. Cardinality(S) -> S]
      /\ \A n \in 1 .. Cardinality(S) : \A m \in 1 .. n - 1 : Ascending(S)[m] < Ascending(S)[n]
      /\ \A x \in S : \E n \in 1 .. Cardinality(S) : Ascending(S)[n] = x
  BY ONLY <1>1, AscendingIs
<1>3. Ascending(S) \in [1 .. Cardinality(S) -> 1 .. Len(t) + 1]
  BY ONLY <1>1, <1>2
<1> QED
  BY ONLY S = Starts(t), <1>2, <1>3 DEF StartsOf

LEMMA PastIs ==
  ASSUME NEW M, NEW t, NEW i, t \in Seq(M), i \in 1 .. Len(t) + 1
  PROVE  /\ PastLine(t, i) \in i .. Len(t) + 1
         /\ PastLine(t, i) = Len(t) + 1 \/ t[PastLine(t, i)] = NL
         /\ \A j \in i .. PastLine(t, i) - 1 : t[j] # NL
<1> DEFINE T == {j \in i .. Len(t) + 1 : j = Len(t) + 1 \/ t[j] = NL}
<1> PICK p : p = PastLine(t, i)
  OBVIOUS
<1>1. Len(t) \in Nat /\ i \in Nat
  OBVIOUS
<1>2. T \in SUBSET Nat /\ Len(t) + 1 \in T
  BY <1>1
<1>3. p \in T /\ \A j \in T : p <= j
  <2>1. p = Sets!Min(T)
    BY DEF PastLine
  <2> HIDE DEF T
  <2>2. T \in SUBSET Nat /\ T # {}
    BY <1>2
  <2>3. Sets!Min(T) \in T /\ \A j \in T : Sets!Min(T) <= j
    BY ONLY <2>2, MinIs
  <2> QED
    BY ONLY <2>1, <2>3
<1>4. ASSUME NEW j \in i .. p - 1
      PROVE  t[j] # NL
  <2>1. j \in i .. Len(t) + 1 /\ ~(p <= j)
    BY <1>1, <1>3
  <2> QED
    BY <1>3, <2>1
<1> QED
  BY <1>3, <1>4

LEMMA LinesAre ==
  ASSUME NEW M, NEW t, t \in Seq(M)
  PROVE  /\ Lines(t) \in Seq(Seq(M)) /\ Len(Lines(t)) = Cardinality(Starts(t)) /\ Len(Lines(t)) # 0
         /\ Lines(t)[1] \in Seq(M)
         /\ \A k \in 1 .. Len(Lines(t)) :
              Lines(t)[k] = SubSeq(t, StartsOf(t)[k], PastLine(t, StartsOf(t)[k]) - 1)
<1> PICK c : c = Cardinality(Starts(t))
  OBVIOUS
<1> PICK at : at = StartsOf(t)
  OBVIOUS
<1>1. c \in Nat /\ c # 0 /\ at \in [1 .. c -> 1 .. Len(t) + 1]
  BY StartsAre, StartsOfIs
<1>2. ASSUME NEW k \in 1 .. c
      PROVE  SubSeq(t, at[k], PastLine(t, at[k]) - 1) \in Seq(M)
  <2> PICK i : i = at[k]
    OBVIOUS
  <2> PICK j : j = PastLine(t, i)
    OBVIOUS
  <2>1. i \in 1 .. Len(t) + 1
    BY <1>1
  <2>2. j \in i .. Len(t) + 1
    BY <2>1, PastIs
  <2>3. SubSeq(t, i, j - 1) \in Seq(M)
    BY <2>1, <2>2
  <2> QED
    BY <2>3
<1>3. Lines(t) = [k \in 1 .. c |-> SubSeq(t, at[k], PastLine(t, at[k]) - 1)]
  <2>1. DOMAIN at = 1 .. c
    BY <1>1
  <2> QED
    BY <2>1 DEF Lines
<1> PICK ls : ls = Lines(t)
  OBVIOUS
<1>4. ls \in Seq(Seq(M)) /\ Len(ls) = c
  BY ONLY <1>1, <1>2, <1>3, ls = Lines(t)
<1>5. 1 \in 1 .. c
  BY <1>1
<1>6. ls[1] \in Seq(M)
  BY <1>4, <1>5
<1>7. \A k \in 1 .. c : ls[k] = SubSeq(t, at[k], PastLine(t, at[k]) - 1)
  BY ONLY <1>3, ls = Lines(t)
<1> QED
  BY <1>1, <1>4, <1>6, <1>7

LEMMA InkIs ==
  ASSUME NEW M, NEW line, line \in Seq(M), Ink(line) # {}
  PROVE  /\ Sets!Min(Ink(line)) \in Ink(line) /\ Sets!Max(Ink(line)) \in Ink(line)
         /\ Sets!Min(Ink(line)) \in 1 .. Len(line) /\ Sets!Max(Ink(line)) \in 1 .. Len(line)
         /\ \A i \in Ink(line) : Sets!Min(Ink(line)) <= i /\ i <= Sets!Max(Ink(line))
<1>1. Len(line) \in Nat /\ Ink(line) \in SUBSET (1 .. Len(line))
  BY DEF Ink
<1>2. Ink(line) \in SUBSET Nat /\ Ink(line) \in SUBSET (0 .. Len(line))
  BY <1>1
<1>3. Sets!Min(Ink(line)) \in Ink(line) /\ \A i \in Ink(line) : Sets!Min(Ink(line)) <= i
  BY ONLY Ink(line) # {}, <1>2, MinIs
<1>4. Sets!Max(Ink(line)) \in Ink(line) /\ \A i \in Ink(line) : i <= Sets!Max(Ink(line))
  BY ONLY Ink(line) # {}, <1>1, <1>2, MaxIs
<1> QED
  BY ONLY <1>1, <1>3, <1>4

LEMMA IndentIs ==
  ASSUME NEW M, NEW line, line \in Seq(M)
  PROVE  IndentOf(line) \in Seq(M) /\ Len(IndentOf(line)) \in 0 .. Len(line)
<1>1. CASE Ink(line) = {}
  BY <1>1 DEF IndentOf
<1>2. CASE Ink(line) # {}
  <2> PICK i : i = Sets!Min(Ink(line))
    OBVIOUS
  <2>1. i \in 1 .. Len(line)
    BY <1>2, InkIs
  <2>2. SubSeq(line, 1, i - 1) \in Seq(M) /\ Len(SubSeq(line, 1, i - 1)) = i - 1
    BY <2>1
  <2>3. IndentOf(line) = SubSeq(line, 1, i - 1)
    BY <1>2 DEF IndentOf
  <2> QED
    BY ONLY <2>1, <2>2, <2>3, line \in Seq(M)
<1> QED
  BY <1>1, <1>2

\* What an indented replacement is made of.
LEMMA ReindentedMarks ==
  ASSUME NEW M, NEW new, NEW old, NEW matched,
         NL \in M, new \in Seq(M), matched \in Seq(M), old \in Seq(Mark)
  PROVE  Reindented(new, old, matched) \in Seq(M)
<1> PICK ob : ob = IndentOf(Lines(old)[1])
  OBVIOUS
<1> PICK base : base = IndentOf(Lines(matched)[1])
  OBVIOUS
<1> PICK lines : lines = Lines(new)
  OBVIOUS
<1> DEFINE Extra(indent) == IF Seqs!IsPrefix(ob, indent) THEN SubSeq(indent, Len(ob) + 1, Len(indent)) ELSE <<>>
           Moved(line) == IF Trimmed(line) = <<>> THEN <<>>
                          ELSE base \o Extra(IndentOf(line)) \o SubSeq(line, Len(IndentOf(line)) + 1, Len(line))
           piece(k) == (IF k = 1 THEN <<>> ELSE <<NL>>) \o Moved(lines[k])
           ss == [k \in DOMAIN lines |-> piece(k)]
<1>1. ob \in Seq(Mark) /\ base \in Seq(M)
  <2>1. Lines(old)[1] \in Seq(Mark)
    BY ONLY old \in Seq(Mark), LinesAre
  <2>2. Lines(matched)[1] \in Seq(M)
    BY ONLY matched \in Seq(M), LinesAre
  <2>3. IndentOf(Lines(old)[1]) \in Seq(Mark)
    BY ONLY <2>1, IndentIs
  <2>4. IndentOf(Lines(matched)[1]) \in Seq(M)
    BY ONLY <2>2, IndentIs
  <2> QED
    BY <2>3, <2>4
<1>2. lines \in Seq(Seq(M))
  BY ONLY new \in Seq(M), lines = Lines(new), LinesAre
<1>3. ASSUME NEW x, x \in Seq(M)
      PROVE  Extra(x) \in Seq(M)
  BY <1>1, <1>3 DEF Seqs!IsPrefix
<1>4. ASSUME NEW line, line \in Seq(M)
      PROVE  Moved(line) \in Seq(M)
  <2> PICK x : x = IndentOf(line)
    OBVIOUS
  <2>1. x \in Seq(M) /\ Len(x) \in 0 .. Len(line)
    BY ONLY <1>4, x = IndentOf(line), IndentIs
  <2>2. Extra(x) \in Seq(M)
    BY <1>3, <2>1
  <2>3. SubSeq(line, Len(x) + 1, Len(line)) \in Seq(M)
    BY ONLY <1>4, <2>1
  <2> HIDE DEF Extra
  <2>4. base \o Extra(x) \o SubSeq(line, Len(x) + 1, Len(line)) \in Seq(M)
    BY ONLY <1>1, <2>2, <2>3
  <2>5. <<>> \in Seq(M)
    OBVIOUS
  <2> QED
    BY <2>4, <2>5
<1> HIDE DEF Moved
<1>5. ASSUME NEW k \in DOMAIN lines
      PROVE  piece(k) \in Seq(M)
  <2> PICK y : y = Moved(lines[k])
    OBVIOUS
  <2>1. y \in Seq(M)
    <3>1. lines[k] \in Seq(M)
      BY <1>2
    <3> QED
      BY <1>4, <3>1
  <2>2. <<>> \o y \in Seq(M) /\ <<NL>> \o y \in Seq(M)
    BY <2>1
  <2> QED
    BY <2>2
<1>6. ss \in Seq(Seq(M))
  <2> HIDE DEF piece
  <2>1. DOMAIN lines = 1 .. Len(lines) /\ Len(lines) \in Nat
    BY <1>2
  <2> QED
    BY ONLY <1>5, <2>1
<1>7. Reindented(new, old, matched) = Seqs!FlattenSeq(ss)
  BY DEF Reindented, Moved
<1> HIDE DEF ss
<1> QED
  BY ONLY <1>6, <1>7, FlattenType

-----------------------------------------------------------------------------
(* Matching. *)

SpanType == [from : Nat, to : Nat]

\* Matches in the order they stand in.
Ordered(ss, t) ==
  /\ ss \in Seq(SpanType)
  /\ \A n \in DOMAIN ss : /\ 1 <= ss[n].from /\ ss[n].from <= ss[n].to /\ ss[n].to <= Len(t) + 1
                          /\ \A m \in 1 .. n - 1 : ss[m].from < ss[n].from

\* What MatchExact has found up to i.
Hit(t, old, ss, i) ==
  /\ i + Len(old) <= Len(t) + 1 /\ SubSeq(t, i, i + Len(old) - 1) = old
  /\ ss # <<>> => Seqs!Last(ss).to <= i
HitsNext(t, old, ss, i) == IF Hit(t, old, ss, i) THEN Append(ss, [from |-> i, to |-> i + Len(old)]) ELSE ss

LEMMA ExactIs ==
  ASSUME NEW t, NEW old, t \in Seq(Mark), old \in Seq(Mark)
  PROVE  \E f : /\ MatchExact(t, old) = f[Len(t)] /\ f[0] = <<>>
                /\ \A i \in 1 .. Len(t) : f[i] = HitsNext(t, old, f[i - 1], i)
<1> PICK n : n = Len(t)
  OBVIOUS
<1> DEFINE V == Seq(SpanType)
           step == [x \in (1 .. n) \X V |-> HitsNext(t, old, x[2], x[1])]
<1>1. n \in Nat /\ Len(old) \in Nat /\ <<>> \in V
  OBVIOUS
<1>2. step \in [(1 .. n) \X V -> V]
  <2>1. ASSUME NEW i \in 1 .. n, NEW ss \in V
        PROVE  HitsNext(t, old, ss, i) \in V
    <3>1. [from |-> i, to |-> i + Len(old)] \in SpanType
      BY <1>1 DEF SpanType
    <3>2. Append(ss, [from |-> i, to |-> i + Len(old)]) \in Seq(SpanType)
      BY <3>1
    <3> QED
      BY <3>2 DEF HitsNext
  <2> QED
    BY <2>1
<1>3. \A i \in 1 .. n, ss \in V : step[<<i, ss>>] = HitsNext(t, old, ss, i)
  OBVIOUS
<1> HIDE DEF step, V
<1>4. PICK g : Recursive(g, n, V, <<>>, step)
  BY ONLY <1>1, <1>2, Recursion
<1>5. g \in [0 .. n -> V] /\ g[0] = <<>> /\ \A i \in 1 .. n : g[i] = HitsNext(t, old, g[i - 1], i)
  <2>1. g \in [0 .. n -> V] /\ g[0] = <<>> /\ \A i \in 1 .. n : g[i] = step[<<i, g[i - 1]>>]
    BY <1>4 DEF Recursive
  <2>2. \A i \in 1 .. n : i - 1 \in 0 .. n
    BY <1>1
  <2> QED
    BY ONLY <1>3, <2>1, <2>2
<1>6. g = [i \in 0 .. n |-> IF i = 0 THEN <<>> ELSE HitsNext(t, old, g[i - 1], i)]
  <2>1. ASSUME NEW i \in 0 .. n
        PROVE  g[i] = IF i = 0 THEN <<>> ELSE HitsNext(t, old, g[i - 1], i)
    <3>1. i # 0 => i \in 1 .. n
      BY <1>1
    <3> QED
      BY <1>5, <3>1
  <2>2. g = [i \in 0 .. n |-> g[i]]
    BY <1>5
  <2> QED
    BY ONLY <2>1, <2>2
<1>7. \E h : /\ h = [i \in 0 .. n |-> IF i = 0 THEN <<>> ELSE HitsNext(t, old, h[i - 1], i)]
             /\ MatchExact(t, old) = h[n]
  BY <1>6, Zenon DEF MatchExact, HitsNext, Hit
<1>8. PICK h : /\ h = [i \in 0 .. n |-> IF i = 0 THEN <<>> ELSE HitsNext(t, old, h[i - 1], i)]
               /\ MatchExact(t, old) = h[n]
  BY <1>7
<1>9. h[0] = <<>> /\ \A i \in 1 .. n : h[i] = HitsNext(t, old, h[i - 1], i)
  <2>1. \A i \in 0 .. n : h[i] = IF i = 0 THEN <<>> ELSE HitsNext(t, old, h[i - 1], i)
    BY <1>8, Zenon
  <2>2. 0 \in 0 .. n /\ \A i \in 1 .. n : i \in 0 .. n /\ i # 0
    BY <1>1
  <2> QED
    BY ONLY <2>1, <2>2
<1> QED
  BY <1>8, <1>9

\* Each match is the text looked for, and begins where the one before it ends or later.
Standing(ss, t, old, i) ==
  /\ ss \in Seq(SpanType)
  /\ \A n \in DOMAIN ss : /\ 1 <= ss[n].from /\ ss[n].from <= i /\ ss[n].to = ss[n].from + Len(old)
                          /\ ss[n].to <= Len(t) + 1 /\ SubSeq(t, ss[n].from, ss[n].to - 1) = old
                          /\ \A m \in 1 .. n - 1 : ss[m].to <= ss[n].from

LEMMA StandingNext ==
  ASSUME NEW t, NEW old, NEW ss, NEW i, t \in Seq(Mark), old \in Seq(Mark), old # <<>>,
         i \in 1 .. Len(t), Standing(ss, t, old, i - 1)
  PROVE  Standing(HitsNext(t, old, ss, i), t, old, i)
<1> PICK c : c = Len(ss)
  OBVIOUS
<1>1. ss \in Seq(SpanType) /\ c \in Nat /\ DOMAIN ss = 1 .. c /\ i \in Nat /\ Len(old) \in Nat /\ Len(old) > 0
      /\ Len(t) \in Nat
  BY DEF Standing
<1>2. \A n \in 1 .. c : ss[n].from \in Nat /\ ss[n].to \in Nat
  <2>1. \A n \in 1 .. c : ss[n] \in SpanType
    BY ONLY <1>1
  <2> QED
    BY ONLY <2>1 DEF SpanType
<1>3. \A n \in 1 .. c : /\ 1 <= ss[n].from /\ ss[n].from <= i - 1 /\ ss[n].to = ss[n].from + Len(old)
                        /\ ss[n].to <= Len(t) + 1 /\ SubSeq(t, ss[n].from, ss[n].to - 1) = old
                        /\ \A m \in 1 .. n - 1 : ss[m].to <= ss[n].from
  BY ONLY <1>1, Standing(ss, t, old, i - 1) DEF Standing
<1>4. CASE ~Hit(t, old, ss, i)
  <2>1. \A n \in 1 .. c : ss[n].from <= i
    BY ONLY <1>1, <1>2, <1>3
  <2>2. HitsNext(t, old, ss, i) = ss
    BY <1>4 DEF HitsNext
  <2>3. Standing(ss, t, old, i)
    BY ONLY <1>1, <1>3, <2>1 DEF Standing
  <2> QED
    BY <2>2, <2>3
<1>5. CASE Hit(t, old, ss, i)
  <2> PICK x : x = [from |-> i, to |-> i + Len(old)]
    OBVIOUS
  <2> PICK more : more = Append(ss, x)
    OBVIOUS
  <2>1. x \in SpanType /\ x.from = i /\ x.to = i + Len(old)
    BY <1>1 DEF SpanType
  <2>2. /\ more \in Seq(SpanType) /\ DOMAIN more = 1 .. c + 1 /\ more[c + 1] = x
        /\ \A n \in 1 .. c : more[n] = ss[n]
    BY <1>1, <2>1
  <2>3. x.to <= Len(t) + 1 /\ SubSeq(t, x.from, x.to - 1) = old /\ (c # 0 => ss[c].to <= i)
    BY <1>1, <1>5, <2>1 DEF Hit, Seqs!Last
  <2>4. \A m \in 1 .. c : ss[m].to <= i
    <3>1. ASSUME NEW m \in 1 .. c
          PROVE  ss[m].to <= i
      <4>1. CASE m = c
        BY <1>1, <2>3, <4>1
      <4>2. CASE m # c
        <5>1. c \in 1 .. c /\ m \in 1 .. c - 1 /\ c # 0
          BY <1>1, <4>2
        <5>2. ss[m].to <= ss[c].from
          BY <1>3, <5>1
        <5>3. ss[c].from <= i - 1
          BY <1>3, <5>1
        <5> QED
          BY ONLY <1>1, <1>2, <5>1, <5>2, <5>3, m \in 1 .. c
      <4> QED
        BY <4>1, <4>2
    <3> QED
      BY <3>1
  <2>5. ASSUME NEW n \in 1 .. c + 1
        PROVE  /\ 1 <= more[n].from /\ more[n].from <= i /\ more[n].to = more[n].from + Len(old)
               /\ more[n].to <= Len(t) + 1 /\ SubSeq(t, more[n].from, more[n].to - 1) = old
               /\ \A m \in 1 .. n - 1 : more[m].to <= more[n].from
    <3>1. CASE n = c + 1
      <4>1. \A m \in 1 .. n - 1 : m \in 1 .. c
        BY <1>1, <3>1
      <4>2. \A m \in 1 .. n - 1 : more[m].to <= x.from
        BY <2>1, <2>2, <2>4, <4>1
      <4>3. more[n] = x /\ 1 <= i /\ i <= i
        BY <1>1, <2>2, <3>1
      <4> QED
        BY ONLY <2>1, <2>3, <4>2, <4>3
    <3>2. CASE n # c + 1
      <4>1. n \in 1 .. c /\ \A m \in 1 .. n - 1 : m \in 1 .. c
        BY <1>1, <3>2
      <4>2. more[n] = ss[n] /\ \A m \in 1 .. n - 1 : more[m] = ss[m]
        BY <2>2, <4>1
      <4>3. ss[n].from <= i
        BY ONLY <1>1, <1>2, <1>3, <4>1
      <4> QED
        BY ONLY <1>3, <4>1, <4>2, <4>3
    <3> QED
      BY <3>1, <3>2
  <2>6. Standing(more, t, old, i)
    BY ONLY <2>2, <2>5 DEF Standing
  <2>7. HitsNext(t, old, ss, i) = more
    BY <1>5 DEF HitsNext
  <2> QED
    BY <2>6, <2>7
<1> QED
  BY <1>4, <1>5

LEMMA ExactStands ==
  ASSUME NEW t, NEW old, t \in Seq(Mark), old \in Seq(Mark), old # <<>>
  PROVE  Standing(MatchExact(t, old), t, old, Len(t))
<1>1. PICK f : /\ MatchExact(t, old) = f[Len(t)] /\ f[0] = <<>>
               /\ \A i \in 1 .. Len(t) : f[i] = HitsNext(t, old, f[i - 1], i)
  BY ExactIs
<1> DEFINE S == {i \in 0 .. Len(t) : Standing(f[i], t, old, i)}
<1>2. Len(t) \in Nat
  OBVIOUS
<1>3. 0 \in S
  <2>1. Standing(<<>>, t, old, 0)
    BY DEF Standing
  <2> QED
    BY <1>1, <1>2, <2>1
<1>4. ASSUME NEW k, k \in 0 .. Len(t) - 1, k \in S
      PROVE  k + 1 \in S
  <2> PICK i : i = k + 1
    OBVIOUS
  <2>1. i \in 1 .. Len(t) /\ i \in 0 .. Len(t) /\ i - 1 = k
    BY <1>2, <1>4
  <2>2. Standing(f[i - 1], t, old, i - 1)
    BY <1>4, <2>1
  <2>3. Standing(HitsNext(t, old, f[i - 1], i), t, old, i)
    BY ONLY t \in Seq(Mark), old \in Seq(Mark), old # <<>>, <2>1, <2>2, StandingNext
  <2> QED
    BY <1>1, <2>1, <2>3
<1> HIDE DEF S
<1>5. \A k \in 0 .. Len(t) : k \in S
  BY ONLY <1>2, <1>3, <1>4, UpTo
<1>6. Len(t) \in S
  BY <1>2, <1>5
<1> QED
  BY <1>1, <1>6 DEF S

LEMMA ExactOrdered ==
  ASSUME NEW t, NEW old, NEW ss, NEW i, t \in Seq(Mark), old \in Seq(Mark), old # <<>>, i \in Nat,
         Standing(ss, t, old, i)
  PROVE  Ordered(ss, t)
<1>1. ss \in Seq(SpanType) /\ Len(old) \in Nat /\ Len(old) > 0
  BY DEF Standing
<1>2. \A n \in DOMAIN ss : ss[n].from \in Nat /\ ss[n].to \in Nat
  <2>1. \A n \in DOMAIN ss : ss[n] \in SpanType
    BY ONLY <1>1
  <2> QED
    BY ONLY <2>1 DEF SpanType
<1>3. DOMAIN ss = 1 .. Len(ss) /\ Len(ss) \in Nat
  BY <1>1
<1>4. ASSUME NEW n \in DOMAIN ss
      PROVE  /\ 1 <= ss[n].from /\ ss[n].from <= ss[n].to /\ ss[n].to <= Len(t) + 1
             /\ \A m \in 1 .. n - 1 : ss[m].from < ss[n].from
  <2>1. \A m \in 1 .. n - 1 : m \in DOMAIN ss
    BY <1>3
  <2>2. /\ 1 <= ss[n].from /\ ss[n].to = ss[n].from + Len(old) /\ ss[n].to <= Len(t) + 1
        /\ \A m \in 1 .. n - 1 : ss[m].to <= ss[n].from
    BY DEF Standing
  <2>3. \A m \in 1 .. n - 1 : ss[m].to = ss[m].from + Len(old)
    BY <2>1 DEF Standing
  <2>4. \A m \in 1 .. n - 1 : ss[m].from < ss[n].from
    BY ONLY <1>1, <1>2, <2>1, <2>2, <2>3, n \in DOMAIN ss
  <2> QED
    BY ONLY <1>1, <1>2, <2>2, <2>4, n \in DOMAIN ss
<1> QED
  BY <1>1, <1>4 DEF Ordered

\* The spans of the windows of w lines that begin at the lines of hits.
WindowAt(t, w, k) == [from |-> StartsOf(t)[k], to |-> PastLine(t, StartsOf(t)[k + w - 1])]
WindowsOf(t, w, hits) == [n \in DOMAIN Ascending(hits) |-> WindowAt(t, w, Ascending(hits)[n])]

LEMMA WindowIs ==
  ASSUME NEW t, NEW w, NEW k, t \in Seq(Mark), w \in Nat, w # 0, k \in 1 .. Cardinality(Starts(t)) - w + 1
  PROVE  /\ WindowAt(t, w, k) \in SpanType
         /\ 1 <= WindowAt(t, w, k).from /\ WindowAt(t, w, k).from <= WindowAt(t, w, k).to
         /\ WindowAt(t, w, k).to <= Len(t) + 1 /\ WindowAt(t, w, k).from = StartsOf(t)[k]
<1> PICK c : c = Cardinality(Starts(t))
  OBVIOUS
<1> PICK at : at = StartsOf(t)
  OBVIOUS
<1> PICK j : j = k + w - 1
  OBVIOUS
<1>1. c \in Nat /\ at \in [1 .. c -> 1 .. Len(t) + 1] /\ \A n \in 1 .. c : \A m \in 1 .. n - 1 : at[m] < at[n]
  BY ONLY t \in Seq(Mark), c = Cardinality(Starts(t)), at = StartsOf(t), StartsAre, StartsOfIs
<1>2. j \in 1 .. c /\ k \in 1 .. c /\ (j = k \/ k \in 1 .. j - 1)
  BY <1>1
<1> PICK a : a = at[k]
  OBVIOUS
<1> PICK b : b = at[j]
  OBVIOUS
<1>3. a \in 1 .. Len(t) + 1 /\ b \in 1 .. Len(t) + 1 /\ a <= b /\ Len(t) \in Nat
  <2>1. a \in 1 .. Len(t) + 1 /\ b \in 1 .. Len(t) + 1 /\ Len(t) \in Nat
    <3>1. Len(t) \in Nat
      OBVIOUS
    <3> QED
      BY ONLY <1>1, <1>2, <3>1, a = at[k], b = at[j]
  <2>2. a = b \/ a < b
    BY ONLY <1>1, <1>2, a = at[k], b = at[j]
  <2> QED
    BY <2>1, <2>2
<1> PICK p : p = PastLine(t, b)
  OBVIOUS
<1>4. p \in b .. Len(t) + 1
  BY ONLY t \in Seq(Mark), <1>3, p = PastLine(t, b), PastIs
<1>5. WindowAt(t, w, k) = [from |-> a, to |-> p]
  BY ONLY at = StartsOf(t), a = at[k], b = at[j], p = PastLine(t, b), j = k + w - 1 DEF WindowAt
<1> QED
  BY ONLY <1>3, <1>4, <1>5, a = at[k], at = StartsOf(t) DEF SpanType

LEMMA WindowsOrdered ==
  ASSUME NEW t, NEW w, NEW hits, t \in Seq(Mark), w \in Nat, w # 0,
         hits \in SUBSET (1 .. Cardinality(Starts(t)) - w + 1)
  PROVE  /\ Ordered(WindowsOf(t, w, hits), t)
         /\ \A n \in DOMAIN WindowsOf(t, w, hits) : \E k \in hits : WindowsOf(t, w, hits)[n] = WindowAt(t, w, k)
         /\ hits = {} <=> WindowsOf(t, w, hits) = <<>>
<1> PICK c : c = Cardinality(Starts(t))
  OBVIOUS
<1> PICK at : at = StartsOf(t)
  OBVIOUS
<1> PICK h : h = Ascending(hits)
  OBVIOUS
<1> PICK d : d = Cardinality(hits)
  OBVIOUS
<1> PICK ss : ss = WindowsOf(t, w, hits)
  OBVIOUS
<1>1. c \in Nat /\ at \in [1 .. c -> 1 .. Len(t) + 1] /\ \A n \in 1 .. c : \A m \in 1 .. n - 1 : at[m] < at[n]
  BY ONLY t \in Seq(Mark), c = Cardinality(Starts(t)), at = StartsOf(t), StartsAre, StartsOfIs
<1>2. hits \in SUBSET (1 .. c) /\ hits \in SUBSET Nat /\ IsFiniteSet(hits)
  <2>1. hits \in SUBSET (1 .. c) /\ hits \in SUBSET Nat
    BY <1>1
  <2>2. IsFiniteSet(1 .. c)
    BY <1>1, FS_Interval
  <2> QED
    BY ONLY <2>1, <2>2, FS_Subset
<1>3. /\ d \in Nat /\ h \in [1 .. d -> hits] /\ \A n \in 1 .. d : \A m \in 1 .. n - 1 : h[m] < h[n]
  BY ONLY <1>2, h = Ascending(hits), d = Cardinality(hits), AscendingIs
<1>4. \A k \in hits : /\ WindowAt(t, w, k) \in SpanType
                      /\ 1 <= WindowAt(t, w, k).from /\ WindowAt(t, w, k).from <= WindowAt(t, w, k).to
                      /\ WindowAt(t, w, k).to <= Len(t) + 1 /\ WindowAt(t, w, k).from = at[k]
  <2>1. \A k \in hits : k \in 1 .. Cardinality(Starts(t)) - w + 1
    OBVIOUS
  <2> QED
    BY ONLY t \in Seq(Mark), w \in Nat, w # 0, <2>1, at = StartsOf(t), WindowIs
<1>5. ss = [n \in 1 .. d |-> WindowAt(t, w, h[n])]
  <2>1. DOMAIN h = 1 .. d
    BY <1>3
  <2> QED
    BY ONLY <2>1, ss = WindowsOf(t, w, hits), h = Ascending(hits) DEF WindowsOf
<1>6. \A n \in 1 .. d : h[n] \in hits /\ ss[n] = WindowAt(t, w, h[n])
  BY ONLY <1>3, <1>5
<1>7. ss \in Seq(SpanType) /\ DOMAIN ss = 1 .. d
  BY ONLY <1>3, <1>4, <1>5, <1>6
<1>8. ASSUME NEW n \in 1 .. d, NEW m \in 1 .. n - 1
      PROVE  ss[m].from < ss[n].from
  <2>1. m \in 1 .. d /\ h[m] < h[n] /\ h[m] \in 1 .. c /\ h[n] \in 1 .. c
    <3>1. m \in 1 .. d
      BY ONLY <1>3, n \in 1 .. d, m \in 1 .. n - 1
    <3>2. h[m] \in hits /\ h[n] \in hits
      BY <1>6, <3>1
    <3> QED
      BY <1>2, <1>3, <3>1, <3>2
  <2>2. h[m] \in 1 .. h[n] - 1
    BY ONLY <2>1, <1>1
  <2>3. at[h[m]] < at[h[n]]
    BY ONLY <1>1, <2>1, <2>2
  <2>4. ss[m].from = at[h[m]] /\ ss[n].from = at[h[n]]
    BY ONLY <1>4, <1>6, <2>1, n \in 1 .. d
  <2> QED
    BY ONLY <2>3, <2>4
<1>9. Ordered(ss, t)
  <2>1. \A n \in 1 .. d : 1 <= ss[n].from /\ ss[n].from <= ss[n].to /\ ss[n].to <= Len(t) + 1
    BY ONLY <1>4, <1>6
  <2> QED
    BY ONLY <1>7, <1>8, <2>1 DEF Ordered
<1>10. hits = {} <=> ss = <<>>
  <2>1. hits = {} <=> d = 0
    BY ONLY <1>2, d = Cardinality(hits), FS_EmptySet
  <2>2. ss = <<>> <=> d = 0
    BY ONLY <1>3, <1>7
  <2> QED
    BY <2>1, <2>2
<1> QED
  BY <1>6, <1>7, <1>9, <1>10

LEMMA NeedleIs ==
  ASSUME NEW old, old \in Seq(Mark)
  PROVE  NeedleLines(old) \in Seq(Seq(Mark)) /\ Len(NeedleLines(old)) \in Nat
<1> PICK ls : ls = Lines(old)
  OBVIOUS
<1>1. ls \in Seq(Seq(Mark)) /\ Len(ls) # 0
  BY LinesAre
<1>2. Seqs!Front(ls) \in Seq(Seq(Mark))
  BY <1>1 DEF Seqs!Front
<1>3. NeedleLines(old) \in Seq(Seq(Mark))
  BY <1>1, <1>2 DEF NeedleLines
<1> QED
  BY <1>3

\* Where lines alike stand.
Windows(ss, t, old, alike(_, _)) ==
  \/ ss = <<>>
  \/ /\ NeedleLines(old) # <<>> /\ Len(NeedleLines(old)) # 0
     /\ \E hits \in SUBSET (1 .. Cardinality(Starts(t)) - Len(NeedleLines(old)) + 1) :
          /\ ss = WindowsOf(t, Len(NeedleLines(old)), hits)
          /\ \A k \in hits : alike(SubSeq(Lines(t), k, k + Len(NeedleLines(old)) - 1), NeedleLines(old))

LEMMA TailWindows ==
  ASSUME NEW t, NEW old, t \in Seq(Mark), old \in Seq(Mark)
  PROVE  Windows(MatchLines(t, old, SameButTail), t, old, SameButTail)
<1> PICK needle : needle = NeedleLines(old)
  OBVIOUS
<1> PICK lines : lines = Lines(t)
  OBVIOUS
<1> PICK ss : ss = MatchLines(t, old, SameButTail)
  OBVIOUS
<1> PICK hits : hits = {k \in 1 .. Len(lines) - Len(needle) + 1 :
                          needle # <<>> /\ SameButTail(SubSeq(lines, k, k + Len(needle) - 1), needle)}
  OBVIOUS
<1>1. needle \in Seq(Seq(Mark)) /\ Len(needle) \in Nat /\ Len(lines) = Cardinality(Starts(t))
  BY NeedleIs, LinesAre
<1>2. ss = WindowsOf(t, Len(needle), hits)
  BY DEF MatchLines, WindowsOf, WindowAt
<1>3. CASE needle = <<>>
  <2>1. hits = {}
    BY <1>3
  <2>2. ss = <<>>
    <3>1. Cardinality(hits) = 0 /\ IsFiniteSet(hits) /\ hits \in SUBSET Nat
      BY ONLY <2>1, FS_EmptySet
    <3>2. Ascending(hits) \in [1 .. 0 -> hits]
      BY ONLY <3>1, AscendingIs
    <3>3. DOMAIN Ascending(hits) = 1 .. 0
      BY <3>2
    <3> QED
      BY <1>2, <3>3 DEF WindowsOf
  <2> QED
    BY <2>2 DEF Windows
<1>4. CASE needle # <<>>
  <2>1. Len(needle) # 0
    BY <1>1, <1>4
  <2>2. hits \in SUBSET (1 .. Cardinality(Starts(t)) - Len(needle) + 1)
    BY <1>1
  <2>3. \A k \in hits : SameButTail(SubSeq(lines, k, k + Len(needle) - 1), needle)
    OBVIOUS
  <2> QED
    BY ONLY <1>2, <1>4, <2>1, <2>2, <2>3, needle = NeedleLines(old), lines = Lines(t),
            ss = MatchLines(t, old, SameButTail) DEF Windows
<1> QED
  BY <1>3, <1>4

LEMMA DepthWindows ==
  ASSUME NEW t, NEW old, t \in Seq(Mark), old \in Seq(Mark)
  PROVE  Windows(MatchLines(t, old, SameButDepth), t, old, SameButDepth)
<1> PICK needle : needle = NeedleLines(old)
  OBVIOUS
<1> PICK lines : lines = Lines(t)
  OBVIOUS
<1> PICK ss : ss = MatchLines(t, old, SameButDepth)
  OBVIOUS
<1> PICK hits : hits = {k \in 1 .. Len(lines) - Len(needle) + 1 :
                          needle # <<>> /\ SameButDepth(SubSeq(lines, k, k + Len(needle) - 1), needle)}
  OBVIOUS
<1>1. needle \in Seq(Seq(Mark)) /\ Len(needle) \in Nat /\ Len(lines) = Cardinality(Starts(t))
  BY NeedleIs, LinesAre
<1>2. ss = WindowsOf(t, Len(needle), hits)
  BY DEF MatchLines, WindowsOf, WindowAt
<1>3. CASE needle = <<>>
  <2>1. hits = {}
    BY <1>3
  <2>2. ss = <<>>
    <3>1. Cardinality(hits) = 0 /\ IsFiniteSet(hits) /\ hits \in SUBSET Nat
      BY ONLY <2>1, FS_EmptySet
    <3>2. Ascending(hits) \in [1 .. 0 -> hits]
      BY ONLY <3>1, AscendingIs
    <3>3. DOMAIN Ascending(hits) = 1 .. 0
      BY <3>2
    <3> QED
      BY <1>2, <3>3 DEF WindowsOf
  <2> QED
    BY <2>2 DEF Windows
<1>4. CASE needle # <<>>
  <2>1. Len(needle) # 0
    BY <1>1, <1>4
  <2>2. hits \in SUBSET (1 .. Cardinality(Starts(t)) - Len(needle) + 1)
    BY <1>1
  <2>3. \A k \in hits : SameButDepth(SubSeq(lines, k, k + Len(needle) - 1), needle)
    OBVIOUS
  <2> QED
    BY ONLY <1>2, <1>4, <2>1, <2>2, <2>3, needle = NeedleLines(old), lines = Lines(t),
            ss = MatchLines(t, old, SameButDepth) DEF Windows
<1> QED
  BY <1>3, <1>4

LEMMA SpansOrdered ==
  ASSUME NEW t, NEW old, NEW n, t \in Seq(Mark), old \in Seq(Mark), old # <<>>, n \in 1 .. 3
  PROVE  Ordered(SpansOf(n, t, old), t)
<1>1. ASSUME NEW ss, NEW alike(_, _), Windows(ss, t, old, alike)
      PROVE  Ordered(ss, t)
  <2>1. Len(NeedleLines(old)) \in Nat
    BY NeedleIs
  <2>2. CASE ss = <<>>
    BY <2>2 DEF Ordered
  <2>3. CASE ss # <<>>
    <3> PICK w : w = Len(NeedleLines(old))
      OBVIOUS
    <3>1. PICK hits : w # 0 /\ hits \in SUBSET (1 .. Cardinality(Starts(t)) - w + 1) /\ ss = WindowsOf(t, w, hits)
      BY <1>1, <2>3 DEF Windows
    <3>2. w \in Nat
      BY <2>1
    <3> QED
      BY ONLY t \in Seq(Mark), <3>1, <3>2, WindowsOrdered
  <2> QED
    BY <2>2, <2>3
<1>2. CASE n = 1
  <2>1. Standing(MatchExact(t, old), t, old, Len(t)) /\ Len(t) \in Nat
    BY ExactStands
  <2>2. Ordered(MatchExact(t, old), t)
    BY ONLY t \in Seq(Mark), old \in Seq(Mark), old # <<>>, <2>1, ExactOrdered
  <2> QED
    BY <1>2, <2>2 DEF SpansOf
<1>3. CASE n = 2
  <2>1. SpansOf(n, t, old) = MatchLines(t, old, SameButTail)
    BY <1>3 DEF SpansOf
  <2> QED
    BY <1>1, <2>1, TailWindows
<1>4. CASE n = 3
  <2>1. SpansOf(n, t, old) = MatchLines(t, old, SameButDepth)
    BY <1>4 DEF SpansOf
  <2> QED
    BY <1>1, <2>1, DepthWindows
<1> QED
  BY <1>2, <1>3, <1>4

-----------------------------------------------------------------------------
(* The steps of an edit. *)

LEMMA ReplacedIs ==
  ASSUME NEW M, NEW t, NEW by, NEW s, t \in Seq(M), by \in Seq(M), s \in SpanType,
         1 <= s.from, s.from <= s.to, s.from - 1 <= Len(t)
  PROVE  Replaced(t, s, by) \in Seq(M) /\ Len(Replaced(t, s, by)) >= s.from - 1
<1> PICK a : a = s.from
  OBVIOUS
<1> PICK b : b = s.to
  OBVIOUS
<1>1. a \in Nat /\ b \in Nat /\ 1 <= a /\ a <= b /\ a - 1 <= Len(t) /\ Len(t) \in Nat
  BY DEF SpanType
<1> PICK head : head = SubSeq(t, 1, a - 1)
  OBVIOUS
<1> PICK tail : tail = SubSeq(t, b, Len(t))
  OBVIOUS
<1>2. head \in Seq(M) /\ Len(head) = a - 1
  BY ONLY <1>1, t \in Seq(M), head = SubSeq(t, 1, a - 1)
<1>3. tail \in Seq(M)
  BY ONLY <1>1, t \in Seq(M), tail = SubSeq(t, b, Len(t))
<1>4. head \o by \o tail \in Seq(M) /\ Len(head \o by \o tail) >= a - 1
  BY ONLY <1>1, <1>2, <1>3, by \in Seq(M)
<1> QED
  BY ONLY <1>4, head = SubSeq(t, 1, a - 1), tail = SubSeq(t, b, Len(t)), a = s.from, b = s.to DEF Replaced

LEMMA ReplacementMarks ==
  ASSUME NEW M, NEW edit, NEW s, NL \in M, edit.new \in Seq(M), edit.old \in Seq(Mark), before \in Seq(M),
         s \in SpanType, 1 <= s.from, s.to <= Len(before) + 1
  PROVE  ReplacementFor(edit, s) \in Seq(M)
<1> PICK matched : matched = Matched(s)
  OBVIOUS
<1>1. matched \in Seq(M)
  <2> PICK a : a = s.from
    OBVIOUS
  <2> PICK b : b = s.to
    OBVIOUS
  <2>1. a \in Nat /\ b \in Nat /\ 1 <= a /\ b <= Len(before) + 1 /\ Len(before) \in Nat
    BY DEF SpanType
  <2>2. SubSeq(before, a, b - 1) \in Seq(M)
    BY ONLY <2>1, before \in Seq(M)
  <2> QED
    BY ONLY <2>2, matched = Matched(s), a = s.from, b = s.to DEF Matched
<1>2. Reindented(edit.new, edit.old, matched) \in Seq(M)
  BY ONLY <1>1, NL \in M, edit.new \in Seq(M), edit.old \in Seq(Mark), ReindentedMarks
<1> QED
  BY <1>2 DEF ReplacementFor

\* The bytes that are written when the text holds only line feeds.
LEMMA WrittenIs ==
  ASSUME NEW t, NEW raw, NEW bytes, raw \in Seq(Mark), bytes = Encode(t, Form(raw)),
         t \in Seq(IF Uniform(raw) THEN Mark \ {CR, BOM} ELSE Mark \ {CR})
  PROVE  /\ ~HasBom(t) => Decode(bytes) = t
         /\ Uniform(raw) => /\ ~HasBom(t) /\ Uniform(bytes) /\ HasBom(bytes) = HasBom(raw)
                            /\ Encode(Decode(raw), Form(raw)) = raw
<1> PICK form : form = Form(raw)
  OBVIOUS
<1>1. form.ending \in Endings /\ form.bom \in BOOLEAN /\ form.bom = HasBom(raw)
  BY EndingKnown DEF Form, HasBom
<1>2. t \in Seq(Mark \ {CR})
  <2>1. CASE Uniform(raw)
    <3>1. t \in Seq(Mark \ {CR, BOM})
      BY <2>1
    <3> QED
      BY <3>1
  <2> QED
    BY <2>1
<1>3. ASSUME ~HasBom(t)
      PROVE  Decode(bytes) = t /\ (HasBom(bytes) <=> form.bom)
  <2>1. Decode(Encode(t, form)) = t /\ (HasBom(Encode(t, form)) <=> form.bom)
    BY ONLY <1>1, <1>2, <1>3, RoundTrip
  <2> QED
    BY <2>1
<1>4. ASSUME Uniform(raw)
      PROVE  ~HasBom(t) /\ Uniform(bytes)
  <2>1. t \in Seq(Mark \ {CR, BOM})
    BY <1>4
  <2>2. ~HasBom(t)
    BY <2>1 DEF HasBom
  <2> PICK b : b = IF form.bom THEN <<BOM>> ELSE <<>>
    OBVIOUS
  <2>3. b \in {<<>>, <<BOM>>} /\ bytes = b \o WithEnding(t, form.ending)
    BY DEF Encode
  <2>4. Uniform(b \o WithEnding(t, form.ending))
    BY ONLY <1>1, <2>1, <2>3, UniformEncoded
  <2> QED
    BY <2>2, <2>3, <2>4
<1>5. Uniform(raw) => Encode(Decode(raw), Form(raw)) = raw
  BY Restored
<1>6. HasBom(bytes) \in BOOLEAN /\ HasBom(raw) \in BOOLEAN
  BY DEF HasBom
<1> QED
  BY <1>1, <1>3, <1>4, <1>5, <1>6

\* What is asked for, and the edit at hand.
LEMMA RequestIs ==
  ASSUME request \in Requests
  PROVE  /\ request.raw \in Seq(Mark) /\ request.edits \in Seq(Edit) /\ request.edits # <<>>
BY EditAssumption DEF Requests

LEMMA ThisEditIs ==
  ASSUME left \in Seq(Edit), left # <<>>
  PROVE  /\ ThisEdit = left[1] /\ ThisEdit \in Edit /\ 1 \in DOMAIN left
         /\ ThisEdit.old \in Seq(Mark) /\ ThisEdit.old # <<>> /\ ThisEdit.new \in Seq(Mark)
<1>1. ThisEdit = left[1] /\ 1 \in DOMAIN left
  BY DEF ThisEdit
<1>2. ThisEdit \in Edit
  BY ONLY <1>1, left \in Seq(Edit)
<1> QED
  BY ONLY <1>1, <1>2 DEF Edit

LEMMA PlainThis ==
  ASSUME left \in Seq(Edit), LeftOfRequest, PlainEdits
  PROVE  ThisEdit.new \in Seq(Mark \ {CR, BOM})
<1>1. ThisEdit = left[1] /\ 1 \in DOMAIN left
  BY ThisEditIs DEF LeftOfRequest
<1>2. PICK m \in DOMAIN request.edits : left[1] = request.edits[m]
  BY <1>1 DEF LeftOfRequest
<1> QED
  BY <1>1, <1>2 DEF PlainEdits

\* The marks of a text of the request.
Marks == IF Uniform(request.raw) THEN Mark \ {CR, BOM} ELSE Mark \ {CR}

LEMMA MarksAre ==
  /\ NL \in Marks /\ Marks \subseteq Mark /\ Mark \ {CR, BOM} \subseteq Marks
BY MarksDiffer DEF Marks

LEMMA InitPreview == EditInit => PreviewInv
<1> SUFFICES ASSUME EditInit
             PROVE  PreviewInv
  OBVIOUS
<1> USE DEF EditInit
<1>1. request.edits \in Seq(Edit) /\ request.edits # <<>>
  BY RequestIs
<1>2. EditTypeOK
  <2>1. Seqs!IsPrefix(todo, spans)
    BY DEF Seqs!IsPrefix
  <2>2. 1 \in 1 .. 3 /\ <<>> \in Seq(Mark) /\ <<>> \in Seq([from : Nat, to : Nat])
    OBVIOUS
  <2> QED
    BY <1>1, <2>1, <2>2 DEF EditTypeOK
<1>3. LeftOfRequest
  BY <1>1 DEF LeftOfRequest
<1>4. MatchesFollow /\ RoomToSplice /\ OnlyLineFeeds /\ WrittenAsPreviewed
  BY DEF MatchesFollow, RoomToSplice, OnlyLineFeeds, WrittenAsPreviewed
<1> QED
  BY <1>2, <1>3, <1>4 DEF PreviewInv

LEMMA PrefixIs ==
  ASSUME NEW T, NEW p, NEW s, p \in Seq(T), s \in Seq(T), Seqs!IsPrefix(p, s)
  PROVE  /\ Len(p) \in Nat /\ Len(s) \in Nat /\ Len(p) <= Len(s) /\ DOMAIN s = 1 .. Len(s)
         /\ \A i \in 1 .. Len(p) : p[i] = s[i]
<1>1. Len(p) \in Nat /\ Len(s) \in Nat /\ Len(p) <= Len(s)
  BY DEF Seqs!IsPrefix
<1>2. ASSUME NEW i \in 1 .. Len(p)
      PROVE  p[i] = s[i]
  <2> PICK a : a = SubSeq(p, 1, Len(p))
    OBVIOUS
  <2> PICK b : b = SubSeq(s, 1, Len(p))
    OBVIOUS
  <2>1. a[i] = p[i] /\ b[i] = s[i]
    BY <1>1
  <2>2. a = b
    BY DEF Seqs!IsPrefix
  <2> QED
    BY <2>1, <2>2
<1> QED
  BY <1>1, <1>2

\* All but the last of what is left to do.
LEMMA FrontIs ==
  ASSUME NEW T, NEW p, NEW s, p \in Seq(T), s \in Seq(T), p # <<>>, Seqs!IsPrefix(p, s)
  PROVE  /\ Seqs!Front(p) \in Seq(T) /\ Len(Seqs!Front(p)) = Len(p) - 1 /\ Seqs!IsPrefix(Seqs!Front(p), s)
         /\ Len(p) \in 1 .. Len(s) /\ Seqs!Last(p) = s[Len(p)]
         /\ Seqs!Front(p) # <<>> => Len(p) - 1 \in 1 .. Len(s) /\ Seqs!Last(Seqs!Front(p)) = s[Len(p) - 1]
<1> PICK n : n = Len(p)
  OBVIOUS
<1> PICK q : q = Seqs!Front(p)
  OBVIOUS
<1>1. n \in Nat /\ n # 0 /\ Len(s) \in Nat /\ n <= Len(s) /\ \A i \in 1 .. n : p[i] = s[i]
  BY PrefixIs
<1>2. q \in Seq(T) /\ Len(q) = n - 1 /\ \A i \in 1 .. n - 1 : q[i] = p[i]
  BY <1>1 DEF Seqs!Front
<1>3. Seqs!IsPrefix(q, s)
  <2>1. SubSeq(q, 1, n - 1) = SubSeq(s, 1, n - 1)
    <3>1. \A i \in 1 .. n - 1 : q[i] = s[i]
      BY <1>1, <1>2
    <3> QED
      BY ONLY <1>1, <1>2, <3>1, s \in Seq(T)
  <2> QED
    BY <1>1, <1>2, <2>1 DEF Seqs!IsPrefix
<1>4. Seqs!Last(p) = s[n]
  BY <1>1 DEF Seqs!Last
<1>5. ASSUME q # <<>>
      PROVE  n - 1 \in 1 .. Len(s) /\ Seqs!Last(q) = s[n - 1]
  <2>1. n - 1 # 0
    BY <1>2, <1>5
  <2>2. n - 1 \in 1 .. n - 1 /\ n - 1 \in 1 .. n
    BY <1>1, <2>1
  <2>3. q[n - 1] = s[n - 1]
    BY <1>1, <1>2, <2>2
  <2> QED
    BY <1>1, <1>2, <2>2, <2>3 DEF Seqs!Last
<1> QED
  BY <1>1, <1>2, <1>3, <1>4, <1>5

\* Nothing changes but the stage, and no match is at hand.
LEMMA RefuseKept ==
  ASSUME PreviewInv, Refuse
  PROVE  PreviewInv'
<1> USE DEF Refuse
<1>1. EditTypeOK'
  BY DEF PreviewInv, EditTypeOK
<1>2. LeftOfRequest'
  BY DEF PreviewInv, LeftOfRequest
<1>3. MatchesFollow' /\ RoomToSplice' /\ OnlyLineFeeds' /\ WrittenAsPreviewed'
  BY DEF MatchesFollow, RoomToSplice, OnlyLineFeeds, WrittenAsPreviewed
<1> QED
  BY <1>1, <1>2, <1>3 DEF PreviewInv

LEMMA OpenKept ==
  ASSUME PreviewInv, Open
  PROVE  PreviewInv'
<1>1. CASE Refuse
  BY <1>1, RefuseKept
<1>2. CASE stage' = "matching" /\ text' = Decode(request.raw)
           /\ UNCHANGED <<request, left, strategy, before, spans, todo, written>>
  <2>1. request.raw \in Seq(Mark)
    BY RequestIs DEF PreviewInv, EditTypeOK
  <2>2. text' \in Seq(Marks) /\ text' \in Seq(Mark)
    <3>1. text' \in Seq(Marks)
      BY <1>2, <2>1, DecodedPlain DEF Marks
    <3>2. Marks \subseteq Mark
      BY MarksAre
    <3> QED
      BY <3>1, <3>2
  <2>3. EditTypeOK'
    BY <1>2, <2>2 DEF PreviewInv, EditTypeOK
  <2>4. LeftOfRequest'
    BY <1>2 DEF PreviewInv, LeftOfRequest
  <2>5. OnlyLineFeeds'
    BY <1>2, <2>2 DEF OnlyLineFeeds, Marks
  <2>6. MatchesFollow' /\ RoomToSplice' /\ WrittenAsPreviewed'
    BY <1>2 DEF MatchesFollow, RoomToSplice, WrittenAsPreviewed
  <2> QED
    BY <2>3, <2>4, <2>5, <2>6 DEF PreviewInv
<1> QED
  BY <1>1, <1>2 DEF Open

LEMMA NextStrategyKept ==
  ASSUME PreviewInv, NextStrategy
  PROVE  PreviewInv'
<1> USE DEF NextStrategy
<1>1. strategy' \in 1 .. 3
  BY DEF PreviewInv, EditTypeOK
<1>2. EditTypeOK'
  BY <1>1 DEF PreviewInv, EditTypeOK
<1>3. LeftOfRequest'
  BY DEF PreviewInv, LeftOfRequest
<1>4. OnlyLineFeeds'
  BY DEF PreviewInv, OnlyLineFeeds, PlainEdits
<1>5. MatchesFollow' /\ RoomToSplice' /\ WrittenAsPreviewed'
  BY DEF MatchesFollow, RoomToSplice, WrittenAsPreviewed
<1> QED
  BY <1>2, <1>3, <1>4, <1>5 DEF PreviewInv

LEMMA FoundIs ==
  ASSUME EditTypeOK, LeftOfRequest
  PROVE  Ordered(Found, text)
<1>1. /\ text \in Seq(Mark) /\ strategy \in 1 .. 3 /\ ThisEdit.old \in Seq(Mark) /\ ThisEdit.old # <<>>
  BY ThisEditIs DEF EditTypeOK, LeftOfRequest
<1> QED
  BY ONLY <1>1, SpansOrdered DEF Found

LEMMA MatchKept ==
  ASSUME PreviewInv, Match
  PROVE  PreviewInv'
<1> PICK ss : ss = Found
  OBVIOUS
<1> PICK n : n = Len(ss)
  OBVIOUS
<1>1. ss \in Seq(SpanType) /\ n \in Nat /\ n # 0 /\ n \in DOMAIN ss /\ text \in Seq(Mark)
      /\ \A i \in DOMAIN ss : /\ 1 <= ss[i].from /\ ss[i].from <= ss[i].to /\ ss[i].to <= Len(text) + 1
                              /\ \A m \in 1 .. i - 1 : ss[m].from < ss[i].from
  <2>1. ss # <<>> /\ Ordered(ss, text) /\ text \in Seq(Mark)
    BY FoundIs DEF Match, PreviewInv, EditTypeOK
  <2>2. ss \in Seq(SpanType)
    BY <2>1 DEF Ordered
  <2>3. n \in Nat /\ n # 0 /\ n \in DOMAIN ss
    BY <2>1, <2>2
  <2> QED
    BY ONLY <2>1, <2>2, <2>3 DEF Ordered
<1>2. /\ spans' = ss /\ todo' = ss /\ before' = text /\ stage = "matching" /\ stage' = "splicing"
      /\ UNCHANGED <<request, text, left, strategy, written>>
  BY DEF Match
<1>3. EditTypeOK'
  <2>1. Seqs!IsPrefix(ss, ss)
    BY <1>1 DEF Seqs!IsPrefix
  <2> QED
    BY <1>1, <1>2, <2>1 DEF PreviewInv, EditTypeOK, SpanType
<1>4. LeftOfRequest'
  BY <1>2 DEF PreviewInv, LeftOfRequest
<1>5. MatchesFollow'
  BY ONLY <1>1, <1>2 DEF MatchesFollow
<1>6. RoomToSplice'
  <2> PICK s : s = ss[n]
    OBVIOUS
  <2>1. s \in SpanType /\ s.from <= s.to /\ s.to <= Len(text) + 1
    BY <1>1
  <2>2. Len(text) >= s.from - 1
    BY <1>1, <2>1 DEF SpanType
  <2>3. ss # <<>> /\ Seqs!Last(ss) = s
    BY <1>1 DEF Seqs!Last
  <2> QED
    BY <1>2, <2>2, <2>3 DEF RoomToSplice
<1>7. OnlyLineFeeds'
  BY <1>2 DEF PreviewInv, OnlyLineFeeds, PlainEdits
<1>8. WrittenAsPreviewed'
  BY <1>2 DEF WrittenAsPreviewed
<1> QED
  BY <1>3, <1>4, <1>5, <1>6, <1>7, <1>8 DEF PreviewInv

\* The replacement holds only line feeds too, and the match before it keeps its place.
LEMMA SpliceKept ==
  ASSUME PreviewInv, Splice
  PROVE  PreviewInv'
<1> PICK n : n = Len(todo)
  OBVIOUS
<1> PICK s : s = Seqs!Last(todo)
  OBVIOUS
<1> PICK q : q = Seqs!Front(todo)
  OBVIOUS
<1> PICK by : by = ReplacementFor(ThisEdit, s)
  OBVIOUS
<1>1. /\ todo \in Seq(SpanType) /\ spans \in Seq(SpanType) /\ todo # <<>> /\ Seqs!IsPrefix(todo, spans)
      /\ text \in Seq(Mark) /\ before \in Seq(Mark) /\ stage = "splicing"
      /\ DOMAIN spans = 1 .. Len(spans) /\ Len(spans) \in Nat /\ Len(todo) \in Nat /\ Len(text) \in Nat
  BY DEF PreviewInv, EditTypeOK, Splice, SpanType
<1>2. /\ q \in Seq(SpanType) /\ Seqs!IsPrefix(q, spans) /\ n \in 1 .. Len(spans) /\ s = spans[n]
      /\ q # <<>> => n - 1 \in 1 .. Len(spans) /\ Seqs!Last(q) = spans[n - 1]
  BY ONLY <1>1, n = Len(todo), s = Seqs!Last(todo), q = Seqs!Front(todo), FrontIs
<1>3. \A i \in 1 .. Len(spans) :
        /\ 1 <= spans[i].from /\ spans[i].from <= spans[i].to /\ spans[i].to <= Len(before) + 1
        /\ \A m \in 1 .. i - 1 : spans[m].from < spans[i].from
  BY <1>1 DEF PreviewInv, MatchesFollow
<1>4. /\ s \in SpanType /\ 1 <= s.from /\ s.from <= s.to /\ s.to <= Len(before) + 1 /\ s.from - 1 <= Len(text)
  <2>1. s \in SpanType
    BY <1>1, <1>2
  <2>2. Len(text) >= s.from - 1
    BY <1>1 DEF PreviewInv, RoomToSplice
  <2>3. s.from - 1 <= Len(text)
    BY <1>1, <2>1, <2>2 DEF SpanType
  <2> QED
    BY ONLY <1>2, <1>3, <2>1, <2>3
<1>5. /\ text' = Replaced(text, s, by) /\ todo' = q /\ stage' = IF q = <<>> THEN "spliced" ELSE "splicing"
      /\ UNCHANGED <<request, left, strategy, before, spans, written>>
  BY <1>1 DEF Splice
<1>6. ThisEdit.old \in Seq(Mark) /\ ThisEdit.new \in Seq(Mark)
  BY ThisEditIs DEF PreviewInv, EditTypeOK, LeftOfRequest
<1>7. ASSUME NEW M, NL \in M, ThisEdit.new \in Seq(M), before \in Seq(M), text \in Seq(M)
      PROVE  text' \in Seq(M) /\ Len(text') >= s.from - 1
  <2>1. by \in Seq(M)
    BY ONLY <1>4, <1>6, <1>7, by = ReplacementFor(ThisEdit, s), ReplacementMarks
  <2>2. Replaced(text, s, by) \in Seq(M) /\ Len(Replaced(text, s, by)) >= s.from - 1
    BY ONLY <1>4, <1>7, <2>1, ReplacedIs
  <2> QED
    BY <1>5, <2>2
<1>8. text' \in Seq(Mark) /\ Len(text') >= s.from - 1
  BY <1>1, <1>6, <1>7, MarksDiffer
<1>9. EditTypeOK'
  <2>1. stage' \in {"asked", "matching", "splicing", "spliced", "written", "refused"}
    BY <1>5
  <2> QED
    BY <1>2, <1>5, <1>8, <2>1 DEF PreviewInv, EditTypeOK, SpanType
<1>10. LeftOfRequest'
  BY <1>5 DEF PreviewInv, LeftOfRequest
<1>11. MatchesFollow'
  BY ONLY <1>1, <1>3, <1>5 DEF MatchesFollow
<1>12. RoomToSplice'
  <2>1. ASSUME q # <<>>
        PROVE  Len(text') >= Seqs!Last(q).from - 1
    <3> PICK r : r = spans[n - 1]
      OBVIOUS
    <3>1. n - 1 \in 1 .. Len(spans) /\ Seqs!Last(q) = r
      BY <1>2, <2>1
    <3>2. r \in SpanType /\ r.from < s.from
      <4>1. n - 1 \in 1 .. n - 1
        BY <1>1, <1>2, <3>1
      <4> QED
        BY <1>1, <1>2, <1>3, <3>1, <4>1
    <3>3. Len(text') \in Nat
      BY <1>8
    <3> QED
      BY <1>4, <1>8, <3>1, <3>2, <3>3 DEF SpanType
  <2> QED
    BY <1>5, <2>1 DEF RoomToSplice
<1>13. OnlyLineFeeds'
  <2>1. ASSUME PlainEdits
        PROVE  text' \in Seq(Marks) /\ before \in Seq(Marks)
    <3>1. text \in Seq(Marks) /\ before \in Seq(Marks)
      BY <1>1, <2>1 DEF PreviewInv, OnlyLineFeeds, Marks
    <3>2. ThisEdit.new \in Seq(Marks)
      <4>1. ThisEdit.new \in Seq(Mark \ {CR, BOM})
        BY <2>1, PlainThis DEF PreviewInv, EditTypeOK
      <4> QED
        BY <4>1, MarksAre
    <3> QED
      BY <1>7, <3>1, <3>2, MarksAre
  <2>2. PlainEdits' => PlainEdits
    BY <1>5 DEF PlainEdits
  <2> QED
    BY <1>5, <2>1, <2>2 DEF OnlyLineFeeds, Marks
<1>14. WrittenAsPreviewed'
  BY <1>5 DEF WrittenAsPreviewed
<1> QED
  BY <1>9, <1>10, <1>11, <1>12, <1>13, <1>14 DEF PreviewInv

LEMMA NextEditKept ==
  ASSUME PreviewInv, NextEdit
  PROVE  PreviewInv'
<1> USE DEF NextEdit
<1>1. left \in Seq(Edit) /\ Len(left) > 1
  BY DEF PreviewInv, EditTypeOK
<1>2. /\ Tail(left) \in Seq(Edit) /\ Tail(left) # <<>>
      /\ \A i \in DOMAIN Tail(left) : i + 1 \in DOMAIN left /\ Tail(left)[i] = left[i + 1]
  BY <1>1
<1>3. EditTypeOK'
  BY <1>2 DEF PreviewInv, EditTypeOK
<1>4. LeftOfRequest'
  BY <1>2 DEF PreviewInv, LeftOfRequest
<1>5. OnlyLineFeeds'
  BY DEF PreviewInv, OnlyLineFeeds, PlainEdits
<1>6. MatchesFollow' /\ RoomToSplice' /\ WrittenAsPreviewed'
  BY DEF MatchesFollow, RoomToSplice, WrittenAsPreviewed
<1> QED
  BY <1>3, <1>4, <1>5, <1>6 DEF PreviewInv

LEMMA WriteTextKept ==
  ASSUME PreviewInv, Write
  PROVE  PreviewInv'
<1>1. CASE Refuse
  BY <1>1, RefuseKept
<1>2. CASE /\ stage' = "written" /\ written' = Encode(text, Form(request.raw))
           /\ UNCHANGED <<request, text, left, strategy, before, spans, todo>>
  <2>1. text \in Seq(Mark) /\ request.raw \in Seq(Mark)
    BY RequestIs DEF PreviewInv, EditTypeOK
  <2>2. written' \in Seq(Mark)
    <3> PICK w : w = WithEnding(text, LineEnding(request.raw))
      OBVIOUS
    <3>1. w \in Seq(Mark)
      <4>1. LineEnding(request.raw) \in Seq(Mark)
        BY EndingKnown, EndingsAre
      <4>2. \A i \in DOMAIN text : text[i] # NL => text[i] \in Mark
        BY <2>1
      <4> QED
        BY <2>1, <4>1, <4>2, EndingType
    <3>2. <<>> \o w \in Seq(Mark) /\ <<BOM>> \o w \in Seq(Mark)
      BY <3>1, MarksDiffer
    <3> QED
      BY <1>2, <3>2 DEF Encode, Form
  <2>3. EditTypeOK'
    BY <1>2, <2>2 DEF PreviewInv, EditTypeOK
  <2>4. LeftOfRequest'
    BY <1>2 DEF PreviewInv, LeftOfRequest
  <2>5. PlainEdits => text \in Seq(Marks)
    BY DEF PreviewInv, OnlyLineFeeds, Write, Marks
  <2>6. OnlyLineFeeds'
    BY <1>2, <2>5 DEF OnlyLineFeeds, PlainEdits, Marks
  <2>7. WrittenAsPreviewed'
    <3>1. ASSUME PlainEdits
          PROVE  /\ ~HasBom(text) => Decode(written') = text
                 /\ Uniform(request.raw) =>
                      /\ ~HasBom(text) /\ Uniform(written') /\ HasBom(written') = HasBom(request.raw)
                      /\ Encode(Decode(request.raw), Form(request.raw)) = request.raw
      <4>1. text \in Seq(IF Uniform(request.raw) THEN Mark \ {CR, BOM} ELSE Mark \ {CR})
        BY <2>5, <3>1 DEF Marks
      <4>2. written' = Encode(text, Form(request.raw))
        BY <1>2
      <4> QED
        BY ONLY <2>1, <4>1, <4>2, WrittenIs
    <3> QED
      BY <1>2, <3>1 DEF WrittenAsPreviewed, PlainEdits
  <2>8. MatchesFollow' /\ RoomToSplice'
    BY <1>2 DEF MatchesFollow, RoomToSplice
  <2> QED
    BY <2>3, <2>4, <2>6, <2>7, <2>8 DEF PreviewInv
<1> QED
  BY <1>1, <1>2 DEF Write

LEMMA NextPreview == PreviewInv /\ [EditNext]_editVars => PreviewInv'
<1> SUFFICES ASSUME PreviewInv, [EditNext]_editVars
             PROVE  PreviewInv'
  OBVIOUS
<1>1. CASE Open
  BY <1>1, OpenKept
<1>2. CASE RefuseEdit
  BY <1>2, RefuseKept DEF RefuseEdit
<1>3. CASE NextStrategy
  BY <1>3, NextStrategyKept
<1>4. CASE Match
  BY <1>4, MatchKept
<1>5. CASE Splice
  BY <1>5, SpliceKept
<1>6. CASE NextEdit
  BY <1>6, NextEditKept
<1>7. CASE Write
  BY <1>7, WriteTextKept
<1>8. CASE UNCHANGED editVars
  <2> USE <1>8 DEF editVars
  <2>1. EditTypeOK' /\ LeftOfRequest' /\ MatchesFollow' /\ RoomToSplice'
    BY DEF PreviewInv, EditTypeOK, LeftOfRequest, MatchesFollow, RoomToSplice
  <2>2. OnlyLineFeeds' /\ WrittenAsPreviewed'
    BY DEF PreviewInv, OnlyLineFeeds, WrittenAsPreviewed, PlainEdits
  <2> QED
    BY <2>1, <2>2 DEF PreviewInv
<1> QED
  BY <1>1, <1>2, <1>3, <1>4, <1>5, <1>6, <1>7, <1>8 DEF EditNext

(* What is written is what was previewed: whatever the edits, which of them match and  *)
(* how they are spliced, the bytes are the text in the file's own form, read again they *)
(* give that text, and where line ends were of one kind no other mark changed.          *)
THEOREM WrittenTheorem == EditSpec => []WrittenAsPreviewed
<1>1. PreviewInv => WrittenAsPreviewed
  BY DEF PreviewInv
<1> QED
  BY <1>1, InitPreview, NextPreview, PTL DEF EditSpec

-----------------------------------------------------------------------------
(* Splicing. *)

\* What Expected puts at the place of each mark.
At(N, i) == {n \in N : spans[n].from = i}
Covered(N) == UNION {spans[n].from .. spans[n].to - 1 : n \in N}
PutFor(ns) == IF ns = {} THEN <<>> ELSE ReplacementFor(ThisEdit, spans[CHOOSE n \in ns : TRUE])
Put(N, i) == PutFor(At(N, i))
Kept(N, i) == IF i > Len(before) \/ i \in Covered(N) THEN <<>> ELSE <<before[i]>>
Laid(N) == [i \in 1 .. Len(before) + 1 |-> Put(N, i) \o Kept(N, i)]
LaidTo(N, k) == Seqs!FlattenSeq([i \in 1 .. k |-> Laid(N)[i]])

LEMMA ExpectedIs ==
  ASSUME NEW N
  PROVE  Expected(N) = LaidTo(N, Len(before) + 1)
<1>1. Laid(N) = [i \in 1 .. Len(before) + 1 |-> Laid(N)[i]]
  BY DEF Laid
<1>2. Expected(N) = Seqs!FlattenSeq(Laid(N))
  BY DEF Expected, Laid, Put, PutFor, Kept, At, Covered
<1> QED
  BY ONLY <1>1, <1>2 DEF LaidTo

\* The matches of an edit in hand.
InHand ==
  /\ before \in Seq(Mark) /\ spans \in Seq(SpanType) /\ ThisEdit.old \in Seq(Mark) /\ ThisEdit.new \in Seq(Mark)
  /\ \A n \in DOMAIN spans :
       /\ 1 <= spans[n].from /\ spans[n].from <= spans[n].to /\ spans[n].to <= Len(before) + 1
       /\ \A m \in 1 .. n - 1 : spans[m].from < spans[n].from

LEMMA SpanIs ==
  ASSUME InHand, NEW n, n \in DOMAIN spans
  PROVE  /\ spans[n] \in SpanType /\ spans[n].from \in Nat /\ spans[n].to \in Nat /\ 1 <= spans[n].from
         /\ spans[n].from <= spans[n].to /\ spans[n].to <= Len(before) + 1
         /\ ReplacementFor(ThisEdit, spans[n]) \in Seq(Mark)
<1> PICK s : s = spans[n]
  OBVIOUS
<1>1. s \in SpanType /\ 1 <= s.from /\ s.from <= s.to /\ s.to <= Len(before) + 1
  BY DEF InHand
<1>2. s.from \in Nat /\ s.to \in Nat
  BY ONLY <1>1 DEF SpanType
<1>3. NL \in Mark /\ ThisEdit.new \in Seq(Mark) /\ ThisEdit.old \in Seq(Mark) /\ before \in Seq(Mark)
  BY MarksDiffer DEF InHand
<1>4. ReplacementFor(ThisEdit, s) \in Seq(Mark)
  BY ONLY <1>1, <1>3, ReplacementMarks
<1> QED
  BY <1>1, <1>2, <1>4

LEMMA LaidType ==
  ASSUME InHand, NEW N, N \in SUBSET DOMAIN spans
  PROVE  \A i \in 1 .. Len(before) + 1 :
           Put(N, i) \in Seq(Mark) /\ Kept(N, i) \in Seq(Mark)
           /\ Laid(N)[i] = Put(N, i) \o Kept(N, i) /\ Laid(N)[i] \in Seq(Mark)
<1> SUFFICES ASSUME NEW i \in 1 .. Len(before) + 1
             PROVE  Put(N, i) \in Seq(Mark) /\ Kept(N, i) \in Seq(Mark)
                    /\ Laid(N)[i] = Put(N, i) \o Kept(N, i) /\ Laid(N)[i] \in Seq(Mark)
  OBVIOUS
<1>1. <<>> \in Seq(Mark)
  OBVIOUS
<1>2. Put(N, i) \in Seq(Mark)
  <2>1. CASE At(N, i) = {}
    BY <1>1, <2>1 DEF Put, PutFor
  <2>2. CASE At(N, i) # {}
    <3> PICK n : n = CHOOSE m \in At(N, i) : TRUE
      OBVIOUS
    <3>1. n \in At(N, i)
      BY <2>2
    <3>2. n \in DOMAIN spans
      BY <3>1 DEF At
    <3>3. ReplacementFor(ThisEdit, spans[n]) \in Seq(Mark)
      BY ONLY InHand, <3>2, SpanIs
    <3> QED
      BY <2>2, <3>3 DEF Put, PutFor
  <2> QED
    BY <2>1, <2>2
<1>3. Kept(N, i) \in Seq(Mark)
  <2>1. CASE i > Len(before) \/ i \in Covered(N)
    BY <1>1, <2>1 DEF Kept
  <2>2. CASE ~(i > Len(before) \/ i \in Covered(N))
    <3>1. before \in Seq(Mark) /\ Len(before) \in Nat
      BY DEF InHand
    <3>2. before[i] \in Mark
      BY <2>2, <3>1
    <3>3. <<before[i]>> \in Seq(Mark)
      BY <3>2
    <3> QED
      BY <2>2, <3>3 DEF Kept
  <2> QED
    BY <2>1, <2>2
<1>4. Laid(N)[i] = Put(N, i) \o Kept(N, i)
  BY DEF Laid
<1> QED
  BY <1>2, <1>3, <1>4

LEMMA LaidNext ==
  ASSUME InHand, NEW N, N \in SUBSET DOMAIN spans, NEW k, k \in 0 .. Len(before)
  PROVE  /\ LaidTo(N, 0) = <<>> /\ LaidTo(N, k) \in Seq(Mark)
         /\ LaidTo(N, k + 1) = LaidTo(N, k) \o Laid(N)[k + 1]
<1> PICK p : p = Laid(N)
  OBVIOUS
<1>1. k \in Nat /\ \A i \in 1 .. k + 1 : i \in 1 .. Len(before) + 1
  BY DEF InHand
<1>2. \A i \in 1 .. k + 1 : p[i] \in Seq(Mark)
  BY <1>1, LaidType
<1>3. /\ Seqs!FlattenSeq([i \in 1 .. k |-> p[i]]) \in Seq(Mark)
      /\ Seqs!FlattenSeq([i \in 1 .. k + 1 |-> p[i]]) = Seqs!FlattenSeq([i \in 1 .. k |-> p[i]]) \o p[k + 1]
  BY ONLY <1>1, <1>2, FlattenNext
<1>4. Seqs!FlattenSeq([i \in 1 .. 0 |-> p[i]]) = <<>>
  BY ONLY FlattenNone
<1> QED
  BY <1>3, <1>4 DEF LaidTo

\* Up to the first of some matches the text is as it was.
LEMMA LaidBefore ==
  ASSUME InHand, NEW N, N \in SUBSET DOMAIN spans, NEW k, k \in 0 .. Len(before),
         \A n \in N : k < spans[n].from
  PROVE  LaidTo(N, k) = SubSeq(before, 1, k)
<1> DEFINE S == {i \in 0 .. k : LaidTo(N, i) = SubSeq(before, 1, i)}
<1>1. k \in Nat /\ before \in Seq(Mark) /\ Len(before) \in Nat
  BY DEF InHand
<1>2. 0 \in S
  <2>1. LaidTo(N, 0) = <<>>
    BY LaidNext
  <2>2. SubSeq(before, 1, 0) = <<>>
    BY <1>1
  <2>3. LaidTo(N, 0) = SubSeq(before, 1, 0)
    BY ONLY <2>1, <2>2, Zenon
  <2>4. 0 \in 0 .. k
    BY <1>1
  <2> QED
    BY ONLY <2>3, <2>4
<1>3. ASSUME NEW j, j \in 0 .. k - 1, j \in S
      PROVE  j + 1 \in S
  <2> PICK i : i = j + 1
    OBVIOUS
  <2>1. i \in 1 .. k /\ i \in 0 .. k /\ j \in 0 .. Len(before) /\ i \in 1 .. Len(before) + 1 /\ i <= Len(before)
    BY <1>1, <1>3
  <2>2. At(N, i) = {}
    <3>1. ASSUME NEW n \in N
          PROVE  spans[n].from # i
      <4>1. spans[n].from \in Nat
        BY SpanIs
      <4> QED
        BY <1>1, <2>1, <4>1
    <3> QED
      BY <3>1 DEF At
  <2>3. i \notin Covered(N)
    <3>1. ASSUME NEW n \in N
          PROVE  i \notin spans[n].from .. spans[n].to - 1
      <4>1. spans[n].from \in Nat /\ spans[n].to \in Nat
        BY SpanIs
      <4> QED
        BY <1>1, <2>1, <4>1
    <3> QED
      BY <3>1 DEF Covered
  <2>4. Laid(N)[i] = <<before[i]>>
    <3>1. Put(N, i) = <<>> /\ Kept(N, i) = <<before[i]>>
      BY <1>1, <2>1, <2>2, <2>3 DEF Put, PutFor, Kept
    <3>2. Laid(N)[i] = <<>> \o <<before[i]>>
      BY <2>1, <3>1, LaidType
    <3> QED
      BY <3>2
  <2>5. LaidTo(N, j + 1) = LaidTo(N, j) \o Laid(N)[j + 1]
    BY ONLY InHand, N \in SUBSET DOMAIN spans, <2>1, LaidNext
  <2>6. SubSeq(before, 1, i) = SubSeq(before, 1, j) \o <<before[i]>>
    BY ONLY <1>1, <2>1, i = j + 1
  <2> QED
    BY <1>3, <2>1, <2>4, <2>5, <2>6
<1> HIDE DEF S
<1>4. \A i \in 0 .. k : i \in S
  BY ONLY <1>1, <1>2, <1>3, UpTo
<1> QED
  BY <1>1, <1>4 DEF S

LEMMA NothingReplaced ==
  ASSUME InHand
  PROVE  Expected({}) = before
<1>1. before \in Seq(Mark) /\ Len(before) \in Nat /\ Len(before) \in 0 .. Len(before) /\ {} \in SUBSET DOMAIN spans
      /\ Len(before) + 1 \in 1 .. Len(before) + 1 /\ Len(before) + 1 > Len(before)
  BY DEF InHand
<1>2. LaidTo({}, Len(before)) = SubSeq(before, 1, Len(before))
  BY <1>1, LaidBefore
<1>3. SubSeq(before, 1, Len(before)) = before
  BY <1>1
<1>4. Laid({})[Len(before) + 1] = <<>>
  <2>1. Put({}, Len(before) + 1) = <<>> /\ Kept({}, Len(before) + 1) = <<>>
    BY <1>1 DEF Put, PutFor, Kept, At
  <2>2. Laid({})[Len(before) + 1] = <<>> \o <<>>
    BY <1>1, <2>1, LaidType
  <2> QED
    BY <2>2
<1>5. LaidTo({}, Len(before) + 1) = LaidTo({}, Len(before)) \o Laid({})[Len(before) + 1]
  BY ONLY InHand, <1>1, LaidNext
<1>6. LaidTo({}, Len(before) + 1) = before
  BY ONLY <1>1, <1>2, <1>3, <1>4, <1>5, ConcatEmpty
<1> QED
  BY <1>6, ExpectedIs

Joined(z, x, y) == z = x \o y

\* A sequence that is two, one after the other, and what it has.
JoinedParts(T, z, x, y) ==
  /\ z \in Seq(T) /\ Len(z) = Len(x) + Len(y) /\ Len(y) \in Nat
  /\ \A i \in 1 .. Len(x) : z[i] = x[i]
  /\ \A i \in 1 .. Len(y) : z[Len(x) + i] = y[i]

LEMMA ConcatIs ==
  ASSUME NEW T, NEW x, NEW y, NEW z, x \in Seq(T), y \in Seq(T), Joined(z, x, y)
  PROVE  JoinedParts(T, z, x, y)
<1> USE DEF Joined
<1>1. Len(x) \in Nat /\ Len(y) \in Nat /\ z \in Seq(T) /\ Len(z) = Len(x) + Len(y)
  OBVIOUS
<1>2. \A i \in 1 .. Len(x) : z[i] = x[i]
  OBVIOUS
<1>3. ASSUME NEW i \in 1 .. Len(y)
      PROVE  z[Len(x) + i] = y[i]
  OBVIOUS
<1> QED
  BY ONLY <1>1, <1>2, <1>3 DEF JoinedParts

\* Where no two matches overlap, a match is replaced without moving those before it.
LEMMA SpliceOne ==
  ASSUME InHand, ~Overlapping, NEW n, n \in DOMAIN spans, text = Expected(n + 1 .. Len(spans))
  PROVE  Replaced(text, spans[n], ReplacementFor(ThisEdit, spans[n])) = Expected(n .. Len(spans))
<1> PICK R : R = ReplacementFor(ThisEdit, spans[n])
  OBVIOUS
<1> PICK L : L = Len(before)
  OBVIOUS
<1> PICK a : a = spans[n].from
  OBVIOUS
<1> PICK b : b = spans[n].to
  OBVIOUS
<1> PICK N1 : N1 = n + 1 .. Len(spans)
  OBVIOUS
<1> PICK N0 : N0 = n .. Len(spans)
  OBVIOUS
<1>1. /\ before \in Seq(Mark) /\ L \in Nat /\ DOMAIN spans = 1 .. Len(spans) /\ Len(spans) \in Nat /\ n \in Nat
      /\ N1 \in SUBSET DOMAIN spans /\ N0 \in SUBSET DOMAIN spans /\ n \notin N1 /\ N0 = N1 \cup {n}
  BY DEF InHand
<1>2. a \in Nat /\ b \in Nat /\ 1 <= a /\ a <= b /\ b <= L + 1 /\ R \in Seq(Mark)
  BY ONLY InHand, n \in DOMAIN spans, R = ReplacementFor(ThisEdit, spans[n]), L = Len(before),
          a = spans[n].from, b = spans[n].to, SpanIs
<1>3. ASSUME NEW m, m \in N1
      PROVE  spans[m].from \in Nat /\ spans[m].to \in Nat /\ a < spans[m].from /\ b <= spans[m].from
  <2>1. m \in DOMAIN spans /\ n \in 1 .. m - 1 /\ n < m
    BY <1>1, <1>3
  <2>2. spans[m].from \in Nat /\ spans[m].to \in Nat
    BY ONLY InHand, <2>1, SpanIs
  <2>3. a < spans[m].from
    BY <2>1 DEF InHand
  <2>4. ~(spans[m].from < b)
    BY <2>1 DEF Overlapping
  <2> QED
    BY ONLY <1>2, <2>2, <2>3, <2>4
<1>4. ASSUME NEW i, i \in 1 .. L + 1, i < b \/ i <= a
      PROVE  At(N1, i) = {} /\ i \notin Covered(N1)
  <2>1. ASSUME NEW m \in N1
        PROVE  spans[m].from # i /\ i \notin spans[m].from .. spans[m].to - 1
    BY ONLY <1>1, <1>2, <1>3, <1>4, <2>1
  <2> QED
    BY <2>1 DEF At, Covered
<1>5. ASSUME NEW i, i \in 1 .. L + 1, i # a
      PROVE  At(N0, i) = At(N1, i) /\ Put(N0, i) = Put(N1, i)
  <2>1. At(N0, i) = At(N1, i)
    BY <1>1, <1>5 DEF At
  <2> QED
    BY ONLY <2>1, Zenon DEF Put
<1>6. Put(N0, a) = R /\ Put(N1, a) = <<>>
  <2>1. At(N0, a) = {n}
    <3>1. \A m \in N1 : spans[m].from # a
      BY ONLY <1>2, <1>3
    <3> QED
      BY <1>1, <3>1 DEF At
  <2>2. At(N1, a) = {}
    BY <1>2, <1>4
  <2>3. (CHOOSE m \in {n} : TRUE) = n
    OBVIOUS
  <2> QED
    BY <2>1, <2>2, <2>3 DEF Put, PutFor
<1>7. \A i \in 1 .. L + 1 : i \in Covered(N0) <=> i \in Covered(N1) \/ i \in a .. b - 1
  BY <1>1 DEF Covered
<1> DEFINE f == Laid(N1)
           g == Laid(N0)
<1>8. ASSUME NEW i, i \in 1 .. L + 1
      PROVE  /\ f[i] \in Seq(Mark) /\ g[i] \in Seq(Mark)
             /\ i \in a .. b - 1 => f[i] = <<before[i]>> /\ g[i] = IF i = a THEN R ELSE <<>>
             /\ i = a /\ a = b => g[i] = R \o f[i]
             /\ i > a /\ i >= b => g[i] = f[i]
  <2>1. /\ f[i] = Put(N1, i) \o Kept(N1, i) /\ f[i] \in Seq(Mark)
        /\ g[i] = Put(N0, i) \o Kept(N0, i) /\ g[i] \in Seq(Mark)
        /\ Kept(N1, i) \in Seq(Mark)
    BY ONLY InHand, <1>1, <1>8, L = Len(before), LaidType
  <2>2. ASSUME i \in a .. b - 1
        PROVE  f[i] = <<before[i]>> /\ g[i] = IF i = a THEN R ELSE <<>>
    <3>1. At(N1, i) = {} /\ i \notin Covered(N1) /\ i <= L /\ i \in Covered(N0)
      BY <1>2, <1>4, <1>7, <1>8, <2>2
    <3>2. Put(N1, i) = <<>> /\ Kept(N1, i) = <<before[i]>> /\ Kept(N0, i) = <<>>
      BY <1>1, <1>8, <3>1 DEF Put, PutFor, Kept
    <3>3. Put(N0, i) = IF i = a THEN R ELSE <<>>
      BY <1>5, <1>6, <1>8, <3>2
    <3>4. f[i] = <<>> \o <<before[i]>> /\ g[i] = (IF i = a THEN R ELSE <<>>) \o <<>>
      BY <2>1, <3>2, <3>3
    <3> HIDE DEF f, g
    <3> QED
      BY ONLY <1>2, <3>4, ConcatEmpty
  <2>3. ASSUME i = a, a = b
        PROVE  g[i] = R \o f[i]
    <3>1. Kept(N0, i) = Kept(N1, i)
      <4>1. i \in Covered(N0) <=> i \in Covered(N1)
        BY <1>2, <1>7, <1>8, <2>3
      <4> QED
        BY <4>1 DEF Kept
    <3>2. f[i] = <<>> \o Kept(N1, i) /\ g[i] = R \o Kept(N1, i)
      BY <1>6, <2>1, <2>3, <3>1
    <3> HIDE DEF f, g
    <3> QED
      BY ONLY <2>1, <3>2, ConcatEmpty
  <2>4. ASSUME i > a, i >= b
        PROVE  g[i] = f[i]
    <3>1. i \in Covered(N0) <=> i \in Covered(N1)
      BY <1>2, <1>7, <1>8, <2>4
    <3>2. Kept(N0, i) = Kept(N1, i)
      BY <3>1 DEF Kept
    <3>3. Put(N0, i) = Put(N1, i)
      BY <1>2, <1>5, <1>8, <2>4
    <3> QED
      BY <2>1, <3>2, <3>3
  <2> QED
    BY <2>1, <2>2, <2>3, <2>4
<1> HIDE DEF f, g
<1>9. ASSUME NEW k, k \in 0 .. L
      PROVE  /\ LaidTo(N1, k) \in Seq(Mark) /\ LaidTo(N1, k + 1) = LaidTo(N1, k) \o f[k + 1]
             /\ LaidTo(N0, k) \in Seq(Mark) /\ LaidTo(N0, k + 1) = LaidTo(N0, k) \o g[k + 1]
  BY ONLY InHand, <1>1, <1>9, L = Len(before), LaidNext DEF f, g
<1> PICK head : head = SubSeq(before, 1, a - 1)
  OBVIOUS
<1>10. head \in Seq(Mark) /\ Len(head) = a - 1
  BY ONLY <1>1, <1>2, L = Len(before), head = SubSeq(before, 1, a - 1)
<1>11. LaidTo(N1, a - 1) = head /\ LaidTo(N0, a - 1) = head
  <2>1. a - 1 \in 0 .. Len(before) /\ \A m \in N1 : a - 1 < spans[m].from
    BY ONLY <1>1, <1>2, <1>3, L = Len(before)
  <2>2. \A m \in N0 : a - 1 < spans[m].from
    BY <1>1, <1>2, <2>1
  <2> QED
    BY ONLY InHand, <1>1, <2>1, <2>2, head = SubSeq(before, 1, a - 1), LaidBefore
\* There the replacement comes in, and from there on the two have the same marks.
<1> PICK past : past = SubSeq(before, 1, b - 1)
  OBVIOUS
<1> PICK c : c = IF a = b THEN a ELSE b - 1
  OBVIOUS
<1>12. past \in Seq(Mark) /\ Len(past) = b - 1 /\ SubSeq(past, 1, a - 1) = head /\ (a = b => past = head)
  <2>1. past \in Seq(Mark) /\ Len(past) = b - 1 /\ \A i \in 1 .. b - 1 : past[i] = before[i]
    BY ONLY <1>1, <1>2, L = Len(before), past = SubSeq(before, 1, b - 1)
  <2>2. \A i \in 1 .. a - 1 : head[i] = before[i] /\ i \in 1 .. b - 1
    BY ONLY <1>1, <1>2, L = Len(before), head = SubSeq(before, 1, a - 1)
  <2> PICK h : h = SubSeq(past, 1, a - 1)
    OBVIOUS
  <2>3. h \in Seq(Mark) /\ Len(h) = a - 1 /\ \A i \in 1 .. a - 1 : h[i] = past[i]
    BY ONLY <1>2, <2>1, h = SubSeq(past, 1, a - 1)
  <2>4. \A i \in 1 .. a - 1 : h[i] = head[i]
    BY ONLY <2>1, <2>2, <2>3
  <2>5. h = head
    BY ONLY <1>10, <2>3, <2>4
  <2> QED
    BY <2>1, <2>5
<1>13. c \in 0 .. L + 1 /\ c \in Nat /\ c >= a /\ c >= b - 1 /\ (a # b => c \in a .. b - 1)
  BY ONLY <1>1, <1>2, c = IF a = b THEN a ELSE b - 1
<1>14. ASSUME a # b
       PROVE  LaidTo(N1, b - 1) = past /\ LaidTo(N0, b - 1) = head \o R
  <2> DEFINE S == {j \in 0 .. b - 1 - a : LaidTo(N0, a + j) = head \o R}
  <2>1. LaidTo(N1, b - 1) = past
    <3>1. b - 1 \in 0 .. Len(before) /\ \A m \in N1 : b - 1 < spans[m].from
      BY ONLY <1>1, <1>2, <1>3, L = Len(before)
    <3> QED
      BY ONLY InHand, <1>1, <3>1, past = SubSeq(before, 1, b - 1), LaidBefore
  <2>2. b - 1 - a \in Nat
    BY ONLY <1>2, <1>14
  <2>3. 0 \in S
    <3>1. a \in a .. b - 1 /\ a \in 1 .. L + 1 /\ a - 1 \in 0 .. L /\ (a - 1) + 1 = a /\ a + 0 = a
      BY ONLY <1>1, <1>2, <1>14
    <3>2. g[a] = R
      BY <1>8, <3>1
    <3>3. LaidTo(N0, (a - 1) + 1) = LaidTo(N0, a - 1) \o g[(a - 1) + 1]
      BY <1>9, <3>1
    <3>4. LaidTo(N0, a + 0) = head \o R
      BY ONLY <1>11, <3>1, <3>2, <3>3
    <3>5. 0 \in 0 .. b - 1 - a
      BY <2>2
    <3> QED
      BY ONLY <3>4, <3>5
  <2>4. ASSUME NEW j, j \in 0 .. (b - 1 - a) - 1, j \in S
        PROVE  j + 1 \in S
    <3> PICK i : i = a + j
      OBVIOUS
    <3>1. i \in 0 .. L /\ i + 1 \in a .. b - 1 /\ i + 1 \in 1 .. L + 1 /\ i + 1 # a /\ j + 1 \in 0 .. b - 1 - a
          /\ a + (j + 1) = i + 1
      BY ONLY <1>1, <1>2, <2>4, i = a + j
    <3>2. g[i + 1] = <<>>
      BY <1>8, <3>1
    <3>3. LaidTo(N0, i + 1) = LaidTo(N0, i) \o g[i + 1]
      BY <1>9, <3>1
    <3>4. LaidTo(N0, i) = head \o R
      BY <2>4
    <3>5. head \o R \in Seq(Mark)
      BY ONLY <1>2, <1>10
    <3>6. LaidTo(N0, a + (j + 1)) = head \o R
      BY ONLY <3>1, <3>2, <3>3, <3>4, <3>5, ConcatEmpty
    <3> QED
      BY ONLY <3>1, <3>6
  <2> HIDE DEF S
  <2>5. \A j \in 0 .. b - 1 - a : j \in S
    BY ONLY <2>2, <2>3, <2>4, UpTo
  <2>6. b - 1 - a \in S /\ a + (b - 1 - a) = b - 1
    <3>1. b - 1 - a \in 0 .. b - 1 - a /\ a + (b - 1 - a) = b - 1
      BY ONLY <1>2, <2>2
    <3> QED
      BY ONLY <2>5, <3>1
  <2>7. LaidTo(N0, a + (b - 1 - a)) = head \o R
    BY <2>6 DEF S
  <2> QED
    BY ONLY <2>1, <2>6, <2>7
<1> DEFINE Same(k) == \E X \in Seq(Mark) : LaidTo(N1, k) = past \o X /\ LaidTo(N0, k) = (head \o R) \o X
           S == {j \in 0 .. L + 1 - c : Same(c + j)}
<1>15. head \o R \in Seq(Mark)
  BY ONLY <1>2, <1>10
<1>16. Same(c)
  <2>1. CASE a # b
    <3>1. c = b - 1 /\ past \o <<>> = past /\ (head \o R) \o <<>> = head \o R /\ <<>> \in Seq(Mark)
      BY ONLY <1>12, <1>15, <2>1, c = IF a = b THEN a ELSE b - 1, ConcatEmpty
    <3> QED
      BY <1>14, <2>1, <3>1
  <2>2. CASE a = b
    <3>1. c = a /\ a \in 1 .. L + 1 /\ a - 1 \in 0 .. L /\ (a - 1) + 1 = a
      BY ONLY <1>1, <1>2, <2>2, c = IF a = b THEN a ELSE b - 1
    <3>2. f[a] \in Seq(Mark) /\ g[a] = R \o f[a]
      BY <1>8, <2>2, <3>1
    <3>3. LaidTo(N1, (a - 1) + 1) = LaidTo(N1, a - 1) \o f[(a - 1) + 1]
          /\ LaidTo(N0, (a - 1) + 1) = LaidTo(N0, a - 1) \o g[(a - 1) + 1]
      BY <1>9, <3>1
    <3>4. LaidTo(N1, a) = past \o f[a] /\ LaidTo(N0, a) = head \o (R \o f[a])
      BY ONLY <1>11, <1>12, <2>2, <3>1, <3>2, <3>3
    <3> PICK y : y = f[a]
      OBVIOUS
    <3>5. head \o (R \o y) = (head \o R) \o y
      <4>1. head \in Seq(Mark) /\ R \in Seq(Mark) /\ y \in Seq(Mark)
        BY ONLY <1>2, <1>10, <3>2, y = f[a]
      <4> QED
        BY ONLY <4>1, ConcatAssoc
    <3> QED
      BY ONLY <3>1, <3>2, <3>4, <3>5, y = f[a]
  <2> QED
    BY <2>1, <2>2
<1>17. 0 \in S
  <2>1. 0 \in 0 .. L + 1 - c /\ c + 0 = c
    BY ONLY <1>1, <1>13
  <2> HIDE DEF Same
  <2> QED
    BY ONLY <1>16, <2>1
<1>18. ASSUME NEW j, j \in 0 .. (L + 1 - c) - 1, j \in S
       PROVE  j + 1 \in S
  <2> PICK k : k = c + j
    OBVIOUS
  <2>1. k \in 0 .. L /\ k + 1 \in 1 .. L + 1 /\ k + 1 > a /\ k + 1 >= b /\ j + 1 \in 0 .. L + 1 - c
        /\ c + (j + 1) = k + 1
    BY ONLY <1>1, <1>2, <1>13, <1>18, k = c + j
  <2>2. PICK X : X \in Seq(Mark) /\ LaidTo(N1, k) = past \o X /\ LaidTo(N0, k) = (head \o R) \o X
    BY <1>18
  <2> PICK hr : hr = head \o R
    OBVIOUS
  <2> PICK y : y = f[k + 1]
    OBVIOUS
  <2>3. y \in Seq(Mark) /\ g[k + 1] = y
    BY <1>8, <2>1
  <2>4. LaidTo(N1, k + 1) = (past \o X) \o y /\ LaidTo(N0, k + 1) = (hr \o X) \o y
    BY <1>9, <2>1, <2>2, <2>3
  <2>5. past \in Seq(Mark) /\ hr \in Seq(Mark) /\ X \in Seq(Mark) /\ y \in Seq(Mark)
    BY ONLY <1>12, <1>15, <2>2, <2>3, hr = head \o R
  <2>6. (past \o X) \o y = past \o (X \o y)
    BY ONLY <2>5, ConcatAssoc
  <2>7. (hr \o X) \o y = hr \o (X \o y)
    BY ONLY <2>5, ConcatAssoc
  <2>8. X \o y \in Seq(Mark)
    BY ONLY <2>5
  <2>9. Same(k + 1)
    <3> PICK z : z = X \o y
      OBVIOUS
    <3>1. z \in Seq(Mark) /\ LaidTo(N1, k + 1) = past \o z /\ LaidTo(N0, k + 1) = hr \o z
      BY ONLY <2>4, <2>6, <2>7, <2>8, z = X \o y
    <3> QED
      BY ONLY <3>1, hr = head \o R
  <2> HIDE DEF Same
  <2> QED
    BY ONLY <2>1, <2>9
<1> HIDE DEF S
<1>19. L + 1 - c \in S
  <2>1. L + 1 - c \in Nat
    BY ONLY <1>1, <1>13
  <2>2. \A j \in 0 .. L + 1 - c : j \in S
    BY ONLY <1>17, <1>18, <2>1, UpTo
  <2> QED
    BY <2>1, <2>2
<1>20. Same(L + 1)
  <2>1. c + (L + 1 - c) = L + 1
    BY ONLY <1>1, <1>13
  <2> HIDE DEF Same
  <2>2. Same(c + (L + 1 - c))
    BY <1>19 DEF S
  <2> QED
    BY ONLY <2>1, <2>2
<1>21. PICK X : X \in Seq(Mark) /\ LaidTo(N1, L + 1) = past \o X /\ LaidTo(N0, L + 1) = (head \o R) \o X
  BY <1>20
<1>22. text = past \o X /\ Expected(N0) = (head \o R) \o X
  BY <1>21, ExpectedIs
<1> PICK t : t = past \o X
  OBVIOUS
<1>23. SubSeq(t, 1, a - 1) = head /\ SubSeq(t, b, Len(t)) = X
  <2>1. t \in Seq(Mark) /\ Len(t) = (b - 1) + Len(X) /\ Len(X) \in Nat
        /\ (\A i \in 1 .. b - 1 : t[i] = past[i]) /\ (\A i \in 1 .. Len(X) : t[(b - 1) + i] = X[i])
    <3>1. past \in Seq(Mark) /\ Len(past) = b - 1 /\ X \in Seq(Mark) /\ b \in Nat /\ 1 <= b
      BY ONLY <1>2, <1>12, <1>21
    <3>2. /\ t \in Seq(Mark) /\ Len(t) = Len(past) + Len(X) /\ Len(X) \in Nat
          /\ (\A i \in 1 .. Len(past) : t[i] = past[i])
          /\ \A i \in 1 .. Len(X) : t[Len(past) + i] = X[i]
      <4>1. Joined(t, past, X)
        BY ONLY t = past \o X, Zenon DEF Joined
      <4>2. past \in Seq(Mark) /\ X \in Seq(Mark)
        BY ONLY <3>1
      <4>3. JoinedParts(Mark, t, past, X)
        BY ONLY <4>1, <4>2, ConcatIs, Zenon
      <4> QED
        BY ONLY <4>3, Zenon DEF JoinedParts
    <3> QED
      BY ONLY <3>1, <3>2
  <2> PICK h : h = SubSeq(t, 1, a - 1)
    OBVIOUS
  <2> PICK x : x = SubSeq(t, b, Len(t))
    OBVIOUS
  <2>2. h \in Seq(Mark) /\ Len(h) = a - 1 /\ \A i \in 1 .. a - 1 : h[i] = t[i] /\ i \in 1 .. b - 1
    BY ONLY <1>2, <2>1, h = SubSeq(t, 1, a - 1)
  <2>3. \A i \in 1 .. a - 1 : head[i] = past[i]
    <3> PICK z : z = SubSeq(past, 1, a - 1)
      OBVIOUS
    <3>1. \A i \in 1 .. a - 1 : z[i] = past[i]
      BY ONLY <1>2, <1>12, z = SubSeq(past, 1, a - 1)
    <3> QED
      BY <1>12, <3>1
  <2>4. h = head
    <3>1. \A i \in 1 .. a - 1 : h[i] = head[i]
      BY ONLY <2>1, <2>2, <2>3
    <3> QED
      BY ONLY <1>10, <2>2, <3>1
  <2>5. x \in Seq(Mark) /\ Len(x) = Len(X) /\ \A i \in 1 .. Len(X) : x[i] = t[(b - 1) + i]
    BY ONLY <1>2, <2>1, x = SubSeq(t, b, Len(t))
  <2>6. x = X
    <3>0. X \in Seq(Mark)
      BY ONLY <1>21
    <3>1. \A i \in 1 .. Len(X) : x[i] = X[i]
      BY ONLY <2>1, <2>5
    <3> QED
      BY ONLY <2>5, <3>0, <3>1
  <2> QED
    BY <2>4, <2>6
<1>24. Replaced(t, spans[n], R) = head \o R \o X
  BY <1>23 DEF Replaced
<1> QED
  BY <1>22, <1>24

-----------------------------------------------------------------------------
(* What is matched is what was asked for. *)

\* A set has one list that ascends.
LEMMA AscendingOnly ==
  ASSUME NEW S, NEW w, NEW f, S \in SUBSET Nat, IsFiniteSet(S), w \in Nat, f \in [1 .. w -> S],
         \A n \in 1 .. w : \A m \in 1 .. n - 1 : f[m] < f[n],
         \A x \in S : \E n \in 1 .. w : f[n] = x
  PROVE  w = Cardinality(S) /\ Ascending(S) = f
<1>1. \A m, n \in 1 .. w : m < n => f[m] < f[n]
  OBVIOUS
<1>2. \A n \in 1 .. w : f[n] \in S /\ f[n] \in Nat
  OBVIOUS
<1>3. w = Cardinality(S)
  <2>1. f \in Bijection(1 .. w, S)
    <3>1. f \in Injection(1 .. w, S)
      <4>1. \A m, n \in 1 .. w : f[m] = f[n] => m = n
        BY <1>1, <1>2
      <4> QED
        BY <4>1 DEF Injection, IsInjective
    <3>2. f \in Surjection(1 .. w, S)
      BY DEF Surjection
    <3> QED
      BY <3>1, <3>2 DEF Bijection
  <2>2. ExistsBijection(1 .. w, S)
    BY ONLY <2>1, Zenon DEF ExistsBijection
  <2> QED
    BY ONLY <2>2, w \in Nat, IsFiniteSet(S), FS_CountingElements
<1>4. ASSUME NEW n, n \in 1 .. w
      PROVE  Rank(S, f[n]) = n - 1
  <2> PICK T : T = {y \in S : y < f[n]}
    OBVIOUS
  <2> PICK g : g = [m \in 1 .. n - 1 |-> f[m]]
    OBVIOUS
  <2>1. n - 1 \in Nat /\ \A m \in 1 .. n - 1 : m \in 1 .. w /\ f[m] \in T /\ g[m] = f[m]
    BY <1>1, <1>2, <1>4
  <2>2. \A x \in T : \E m \in 1 .. n - 1 : g[m] = x
    <3> SUFFICES ASSUME NEW x, x \in T
                 PROVE  \E m \in 1 .. n - 1 : g[m] = x
      OBVIOUS
    <3>1. PICK m : m \in 1 .. w /\ f[m] = x
      OBVIOUS
    <3>2. f[m] < f[n]
      BY <3>1
    <3>3. m < n
      BY ONLY <1>1, <1>2, <1>4, <3>1, <3>2
    <3>4. m \in 1 .. n - 1
      BY ONLY <1>4, <3>1, <3>3
    <3> QED
      BY <2>1, <3>1, <3>4
  <2>3. g \in Bijection(1 .. n - 1, T)
    <3>0. g \in [1 .. n - 1 -> T]
      BY <2>1
    <3>1. \A m, k \in 1 .. n - 1 : g[m] = g[k] => m = k
      BY ONLY <1>1, <1>2, <1>4, <2>1
    <3> QED
      BY ONLY <2>2, <3>0, <3>1 DEF Bijection, Injection, IsInjective, Surjection
  <2>4. ExistsBijection(1 .. n - 1, T)
    BY ONLY <2>3, Zenon DEF ExistsBijection
  <2>5. IsFiniteSet(T)
    BY FS_Subset
  <2>6. Cardinality(T) = n - 1
    BY ONLY <2>1, <2>4, <2>5, FS_CountingElements
  <2> QED
    BY <2>6 DEF Rank
<1>5. ASSUME NEW n, n \in 1 .. w
      PROVE  Ascending(S)[n] = f[n]
  <2>1. Ascending(S)[n] = CHOOSE z \in S : Rank(S, z) = n - 1
    BY <1>3, <1>5 DEF Ascending, Rank
  <2> PICK x : x = CHOOSE z \in S : Rank(S, z) = n - 1
    OBVIOUS
  <2>2. f[n] \in S /\ Rank(S, f[n]) = n - 1
    BY <1>2, <1>4, <1>5
  <2>3. x \in S /\ Rank(S, x) = n - 1
    BY <2>2
  <2>4. x \in Nat /\ f[n] \in Nat
    BY <2>2, <2>3
  <2>5. ~(x < f[n]) /\ ~(f[n] < x)
    <3>1. x < f[n] => Rank(S, x) < Rank(S, f[n])
      BY ONLY S \in SUBSET Nat, IsFiniteSet(S), <2>2, <2>3, RankIs
    <3>2. f[n] < x => Rank(S, f[n]) < Rank(S, x)
      BY ONLY S \in SUBSET Nat, IsFiniteSet(S), <2>2, <2>3, RankIs
    <3>3. n - 1 \in Int
      BY <1>5
    <3> QED
      BY ONLY <2>2, <2>3, <3>1, <3>2, <3>3
  <2> QED
    BY ONLY <2>1, <2>4, <2>5, x = CHOOSE z \in S : Rank(S, z) = n - 1
<1>6. Ascending(S) = [n \in 1 .. w |-> Ascending(S)[n]]
  <2>1. Ascending(S) \in [1 .. w -> S]
    BY <1>3, AscendingIs
  <2> QED
    BY ONLY <2>1
<1>7. f = [n \in 1 .. w |-> f[n]]
  OBVIOUS
<1>8. Ascending(S) = f
  BY ONLY <1>5, <1>6, <1>7
<1> QED
  BY <1>3, <1>8

LEMMA PastOnly ==
  ASSUME NEW M, NEW t, NEW i, NEW q, t \in Seq(M), i \in 1 .. Len(t) + 1, q \in i .. Len(t) + 1,
         q = Len(t) + 1 \/ t[q] = NL, \A j \in i .. q - 1 : t[j] # NL
  PROVE  PastLine(t, i) = q
<1> PICK p : p = PastLine(t, i)
  OBVIOUS
<1>1. p \in i .. Len(t) + 1 /\ (p = Len(t) + 1 \/ t[p] = NL) /\ \A j \in i .. p - 1 : t[j] # NL
  BY PastIs
<1>2. Len(t) \in Nat
  OBVIOUS
<1>3. ~(p < q)
  <2>1. p < q => p \in i .. q - 1 /\ p # Len(t) + 1
    BY ONLY <1>1, <1>2, i \in 1 .. Len(t) + 1, q \in i .. Len(t) + 1
  <2> QED
    BY <1>1, <2>1
<1>4. ~(q < p)
  <2>1. q < p => q \in i .. p - 1 /\ q # Len(t) + 1
    BY ONLY <1>1, <1>2, i \in 1 .. Len(t) + 1, q \in i .. Len(t) + 1
  <2> QED
    BY <1>1, <2>1
<1> QED
  BY ONLY <1>1, <1>2, <1>3, <1>4, p = PastLine(t, i), i \in 1 .. Len(t) + 1, q \in i .. Len(t) + 1

\* What follows a line end is a line.
LEMMA StartIs ==
  ASSUME NEW M, NEW t, NEW x, t \in Seq(M), x \in Nat
  PROVE  x \in Starts(t) <=> x = 1 \/ (x - 1 \in 1 .. Len(t) /\ t[x - 1] = NL)
<1>1. x \in Starts(t) <=> x = 1 \/ \E j \in DOMAIN t : t[j] = NL /\ x = j + 1
  BY DEF Starts
<1>2. ASSUME x - 1 \in 1 .. Len(t), t[x - 1] = NL
      PROVE  \E j \in DOMAIN t : t[j] = NL /\ x = j + 1
  <2>1. x - 1 \in DOMAIN t /\ x = (x - 1) + 1
    BY <1>2
  <2> QED
    BY ONLY <1>2, <2>1
<1>3. ASSUME NEW j, j \in DOMAIN t, t[j] = NL, x = j + 1
      PROVE  x - 1 \in 1 .. Len(t) /\ t[x - 1] = NL
  <2>1. j \in 1 .. Len(t) /\ x - 1 = j
    BY <1>3
  <2> QED
    BY ONLY <1>3, <2>1
<1> QED
  BY ONLY <1>1, <1>2, <1>3

\* The lines k to j of a text, from the first mark of k up to the mark after j.
Cut(s, t, k, j) ==
  /\ t \in Seq(Mark) /\ s \in Seq(Mark)
  /\ k \in 1 .. Cardinality(Starts(t)) /\ j \in k .. Cardinality(Starts(t))
  /\ s = SubSeq(t, StartsOf(t)[k], PastLine(t, StartsOf(t)[j]) - 1)

\* Where it begins and ends, and that its lines begin where those of the text do.
CutPlaces(s, t, a, p, k, j) ==
  /\ a \in 1 .. Len(t) + 1 /\ p \in a .. Len(t) + 1 /\ StartsOf(t)[k] = a
  /\ StartsOf(t)[j] \in a .. p /\ \A i \in StartsOf(t)[j] .. p - 1 : t[i] # NL
  /\ p = PastLine(t, StartsOf(t)[j])
  /\ Len(s) = p - a /\ \A i \in 1 .. p - a : s[i] = t[a + i - 1]

LEMMA CutIs ==
  ASSUME NEW s, NEW t, NEW k, NEW j, Cut(s, t, k, j)
  PROVE  \E a, p : CutPlaces(s, t, a, p, k, j)
<1> PICK c : c = Cardinality(Starts(t))
  OBVIOUS
<1> PICK st : st = StartsOf(t)
  OBVIOUS
<1>1. t \in Seq(Mark) /\ k \in 1 .. c /\ j \in k .. c /\ c \in Nat /\ Len(t) \in Nat
  BY StartsAre DEF Cut
<1>2. (\A n \in 1 .. c : st[n] \in 1 .. Len(t) + 1) /\ \A n \in 1 .. c : \A m \in 1 .. n - 1 : st[m] < st[n]
  <2>1. st \in [1 .. c -> 1 .. Len(t) + 1] /\ \A n \in 1 .. c : \A m \in 1 .. n - 1 : st[m] < st[n]
    BY <1>1, StartsOfIs
  <2> QED
    BY ONLY <2>1
<1> PICK a : a = st[k]
  OBVIOUS
<1> PICK b : b = st[j]
  OBVIOUS
<1> PICK p : p = PastLine(t, b)
  OBVIOUS
<1>3. a \in 1 .. Len(t) + 1 /\ b \in 1 .. Len(t) + 1 /\ a <= b
  BY ONLY <1>1, <1>2, a = st[k], b = st[j]
<1>4. p \in b .. Len(t) + 1 /\ \A i \in b .. p - 1 : t[i] # NL
  BY <1>1, <1>3, PastIs
<1>5. s = SubSeq(t, a, p - 1)
  BY DEF Cut
<1>6. Len(s) = p - a /\ \A i \in 1 .. p - a : s[i] = t[a + i - 1]
  BY ONLY <1>1, <1>3, <1>4, <1>5
<1>7. p \in a .. Len(t) + 1 /\ b \in a .. p
  BY ONLY <1>1, <1>3, <1>4
<1>8. CutPlaces(s, t, a, p, k, j)
  BY <1>3, <1>4, <1>6, <1>7 DEF CutPlaces
<1> QED
  BY <1>8

\* A cut's lines begin where the text's do.
LEMMA CutStarts ==
  ASSUME NEW s, NEW t, NEW k, NEW j, NEW a, NEW p, Cut(s, t, k, j), CutPlaces(s, t, a, p, k, j)
  PROVE  /\ Cardinality(Starts(s)) = j - k + 1
         /\ \A m \in 1 .. j - k + 1 : StartsOf(s)[m] = StartsOf(t)[k + m - 1] - a + 1
<1> PICK c : c = Cardinality(Starts(t))
  OBVIOUS
<1> PICK st : st = StartsOf(t)
  OBVIOUS
<1> PICK b : b = st[j]
  OBVIOUS
<1> PICK w : w = j - k + 1
  OBVIOUS
<1> PICK f : f = [m \in 1 .. w |-> st[k + m - 1] - a + 1]
  OBVIOUS
<1>1. /\ t \in Seq(Mark) /\ s \in Seq(Mark) /\ k \in 1 .. c /\ j \in k .. c /\ c \in Nat /\ Len(t) \in Nat
      /\ w \in Nat /\ Len(s) \in Nat
  <2>1. t \in Seq(Mark) /\ s \in Seq(Mark) /\ k \in 1 .. c /\ j \in k .. c
    BY DEF Cut
  <2>2. c \in Nat /\ Len(t) \in Nat /\ Len(s) \in Nat
    BY <2>1, StartsAre
  <2> QED
    BY ONLY <2>1, <2>2, w = j - k + 1
<1>2. st \in [1 .. c -> Starts(t)] /\ (\A n \in 1 .. c : \A m \in 1 .. n - 1 : st[m] < st[n])
      /\ \A x \in Starts(t) : \E n \in 1 .. c : st[n] = x
  BY <1>1, StartsOfIs
<1>3. /\ a \in 1 .. Len(t) + 1 /\ p \in a .. Len(t) + 1 /\ st[k] = a
      /\ b \in a .. p /\ (\A i \in b .. p - 1 : t[i] # NL)
      /\ Len(s) = p - a /\ \A i \in 1 .. p - a : s[i] = t[a + i - 1]
  BY DEF CutPlaces
<1>4. \A n \in 1 .. c : st[n] \in Starts(t) /\ st[n] \in Nat
  <2>1. Starts(t) \in SUBSET Nat
    BY <1>1, StartsAre
  <2> QED
    BY ONLY <1>2, <2>1
\* A line of the cut begins at its place there.
<1>5. ASSUME NEW m, m \in 1 .. w
      PROVE  /\ k + m - 1 \in 1 .. c /\ st[k + m - 1] \in a .. b /\ f[m] = st[k + m - 1] - a + 1
             /\ f[m] \in Nat /\ f[m] \in Starts(s)
  <2> PICK n : n = k + m - 1
    OBVIOUS
  <2>1. n \in 1 .. c /\ n \in k .. j
    BY ONLY <1>1, <1>5, n = k + m - 1, w = j - k + 1
  <2> PICK x : x = st[n]
    OBVIOUS
  <2>2. x \in a .. b
    <3>1. n # k => a < x
      BY ONLY <1>1, <1>2, <1>3, <2>1, x = st[n]
    <3>2. n # j => x < b
      BY ONLY <1>1, <1>2, <2>1, x = st[n], b = st[j]
    <3>3. x \in Nat /\ b \in Nat /\ a \in Nat
      BY ONLY <1>3, <1>4, <2>1, x = st[n]
    <3>4. n = k => x = a
      BY ONLY <1>3, x = st[n]
    <3>5. n = j => x = b
      BY ONLY x = st[n], b = st[j]
    <3>6. a <= b
      BY ONLY <1>3
    <3> QED
      BY ONLY <3>1, <3>2, <3>3, <3>4, <3>5, <3>6
  <2>3. x - a + 1 \in Nat /\ f[m] = x - a + 1
    BY ONLY <1>3, <1>5, <2>2, n = k + m - 1, x = st[n], f = [i \in 1 .. w |-> st[k + i - 1] - a + 1]
  <2>4. x - a + 1 \in Starts(s)
    <3> PICK y : y = x - a + 1
      OBVIOUS
    <3>1. y = 1 \/ (y - 1 \in 1 .. Len(s) /\ s[y - 1] = NL)
      <4>1. x \in Starts(t) /\ x \in Nat
        BY <1>4, <2>1
      <4>2. x = 1 \/ (x - 1 \in 1 .. Len(t) /\ t[x - 1] = NL)
        BY ONLY <1>1, <4>1, StartIs
      <4>3. CASE x = a
        BY ONLY <1>3, <4>3, y = x - a + 1
      <4>4. CASE x # a
        <5>1. t[x - 1] = NL /\ y - 1 \in 1 .. p - a /\ a + (y - 1) - 1 = x - 1
          BY ONLY <1>1, <1>3, <2>2, <4>2, <4>4, y = x - a + 1
        <5>2. s[y - 1] = t[a + (y - 1) - 1]
          BY ONLY <1>3, <5>1
        <5> QED
          BY ONLY <1>3, <5>1, <5>2
      <4> QED
        BY <4>3, <4>4
    <3> QED
      BY <1>1, <2>3, <3>1, StartIs
  <2> QED
    BY <2>1, <2>2, <2>3, <2>4
\* And no other line begins in it.
<1>6. ASSUME NEW y, y \in Starts(s)
      PROVE  \E m \in 1 .. w : f[m] = y
  <2>1. y \in Nat /\ (y = 1 \/ (y - 1 \in 1 .. Len(s) /\ s[y - 1] = NL))
    <3>1. Starts(s) \in SUBSET Nat
      BY <1>1, StartsAre
    <3>2. y \in Nat
      BY <1>6, <3>1
    <3> QED
      BY ONLY <1>1, <1>6, <3>2, StartIs
  <2> PICK x : x = y + a - 1
    OBVIOUS
  <2>2. x \in a .. p /\ x \in Nat /\ y = x - a + 1 /\ 1 <= x
    BY ONLY <1>3, <2>1, x = y + a - 1
  <2>3. x = a \/ (x > a /\ x - 1 \in 1 .. Len(t) /\ t[x - 1] = NL)
    <3>1. CASE y = 1
      BY ONLY <1>3, <3>1, x = y + a - 1
    <3>2. CASE y # 1
      <4>0. a \in Nat /\ p \in Nat /\ Len(s) = p - a
        BY ONLY <1>3
      <4>1. y - 1 \in 1 .. p - a /\ s[y - 1] = NL /\ a + (y - 1) - 1 = x - 1 /\ x > a
        BY ONLY <2>1, <3>2, <4>0, x = y + a - 1
      <4>2. t[x - 1] = NL
        BY ONLY <1>3, <4>1
      <4> QED
        BY ONLY <1>1, <1>3, <2>2, <4>1, <4>2
    <3> QED
      BY <3>1, <3>2
  <2>4. x \in Starts(t)
    <3>1. CASE x = a
      BY <1>1, <1>3, <1>4, <3>1
    <3>2. CASE x # a
      BY ONLY <1>1, <2>2, <2>3, <3>2, StartIs
    <3> QED
      BY <3>1, <3>2
  <2>5. x \in a .. b
    <3>1. ~(x > b)
      <4> SUFFICES ASSUME x > b
                   PROVE  FALSE
        OBVIOUS
      <4>1. x - 1 \in b .. p - 1 /\ x # a
        BY ONLY <1>3, <2>2, x > b
      <4> QED
        BY ONLY <1>3, <2>3, <4>1
    <3> QED
      BY ONLY <1>3, <2>2, <3>1
  <2>6. PICK n : n \in 1 .. c /\ st[n] = x
    BY <1>2, <2>4
  <2>7. n \in k .. j
    <3>1. ~(n < k)
      <4>1. n < k => st[n] < st[k]
        BY ONLY <1>1, <1>2, <2>6
      <4> QED
        BY ONLY <1>3, <2>5, <2>6, <4>1
    <3>2. ~(n > j)
      <4>1. n > j => st[j] < st[n]
        BY ONLY <1>1, <1>2, <2>6
      <4> QED
        BY ONLY <1>3, <2>5, <2>6, <4>1, b = st[j]
    <3> QED
      BY ONLY <1>1, <2>6, <3>1, <3>2
  <2> PICK m : m = n - k + 1
    OBVIOUS
  <2>8. m \in 1 .. w /\ k + m - 1 = n
    BY ONLY <1>1, <2>7, m = n - k + 1, w = j - k + 1
  <2>9. f[m] = y
    BY <1>5, <2>2, <2>6, <2>8
  <2> QED
    BY <2>8, <2>9
<1>7. \A n \in 1 .. w : \A m \in 1 .. n - 1 : f[m] < f[n]
  <2> SUFFICES ASSUME NEW n, n \in 1 .. w, NEW m, m \in 1 .. n - 1
               PROVE  f[m] < f[n]
    OBVIOUS
  <2> PICK u : u = k + n - 1
    OBVIOUS
  <2> PICK v : v = k + m - 1
    OBVIOUS
  <2>1. m \in 1 .. w /\ v \in 1 .. u - 1
    BY ONLY <1>1, n \in 1 .. w, m \in 1 .. n - 1, u = k + n - 1, v = k + m - 1
  <2>2. u \in 1 .. c /\ f[n] = st[u] - a + 1 /\ f[m] = st[v] - a + 1 /\ st[u] \in a .. b /\ st[v] \in a .. b
    BY <1>5, <2>1
  <2>3. st[v] < st[u]
    BY ONLY <1>2, <2>1, <2>2
  <2> QED
    BY ONLY <1>3, <2>2, <2>3
<1>8. w = Cardinality(Starts(s)) /\ Ascending(Starts(s)) = f
  <2>1. Starts(s) \in SUBSET Nat /\ IsFiniteSet(Starts(s))
    BY <1>1, StartsAre
  <2>2. f \in [1 .. w -> Starts(s)]
    BY ONLY <1>5, f = [m \in 1 .. w |-> st[k + m - 1] - a + 1]
  <2>3. \A x \in Starts(s) : \E n \in 1 .. w : f[n] = x
    BY ONLY <1>6
  <2> QED
    BY ONLY <1>1, <1>7, <2>1, <2>2, <2>3, AscendingOnly
<1> QED
  BY <1>5, <1>8 DEF StartsOf

\* A cut has the lines it was cut at.
SameLines(s, t, k, j) ==
  /\ Len(Lines(s)) = j - k + 1
  /\ \A m \in 1 .. j - k + 1 : Lines(s)[m] = Lines(t)[k + m - 1]

LEMMA CutLines ==
  ASSUME NEW s, NEW t, NEW k, NEW j, Cut(s, t, k, j)
  PROVE  SameLines(s, t, k, j)
<1> PICK c : c = Cardinality(Starts(t))
  OBVIOUS
<1> PICK st : st = StartsOf(t)
  OBVIOUS
<1> PICK b : b = st[j]
  OBVIOUS
<1> PICK w : w = j - k + 1
  OBVIOUS
<1>1. /\ t \in Seq(Mark) /\ s \in Seq(Mark) /\ k \in 1 .. c /\ j \in k .. c /\ c \in Nat /\ Len(t) \in Nat
      /\ w \in Nat /\ Len(s) \in Nat
  <2>1. t \in Seq(Mark) /\ s \in Seq(Mark) /\ k \in 1 .. c /\ j \in k .. c
    BY DEF Cut
  <2>2. c \in Nat /\ Len(t) \in Nat /\ Len(s) \in Nat
    BY <2>1, StartsAre
  <2> QED
    BY ONLY <2>1, <2>2, w = j - k + 1
<1> PICK a, p : CutPlaces(s, t, a, p, k, j)
  BY CutIs
<1>2. Cardinality(Starts(s)) = w /\ \A m \in 1 .. w : StartsOf(s)[m] = st[k + m - 1] - a + 1
  BY CutStarts
<1>3. /\ a \in 1 .. Len(t) + 1 /\ p \in a .. Len(t) + 1 /\ st[k] = a /\ p = PastLine(t, b)
      /\ b \in a .. p /\ (\A i \in b .. p - 1 : t[i] # NL)
      /\ Len(s) = p - a /\ \A i \in 1 .. p - a : s[i] = t[a + i - 1]
  BY DEF CutPlaces
<1>4. (\A n \in 1 .. c : st[n] \in 1 .. Len(t) + 1 /\ st[n] \in Starts(t))
      /\ \A n \in 1 .. c : \A m \in 1 .. n - 1 : st[m] < st[n]
  <2>1. st \in [1 .. c -> 1 .. Len(t) + 1] /\ st \in [1 .. c -> Starts(t)]
        /\ \A n \in 1 .. c : \A m \in 1 .. n - 1 : st[m] < st[n]
    BY <1>1, StartsOfIs
  <2> QED
    BY ONLY <2>1
<1>5. Len(Lines(s)) = w /\ Len(Lines(t)) = c
  BY <1>1, <1>2, LinesAre
<1>6. ASSUME NEW m, m \in 1 .. w
      PROVE  Lines(s)[m] = Lines(t)[k + m - 1]
  <2> PICK n : n = k + m - 1
    OBVIOUS
  <2>1. n \in 1 .. c /\ n \in k .. j
    BY ONLY <1>1, <1>6, n = k + m - 1, w = j - k + 1
  <2> PICK x : x = st[n]
    OBVIOUS
  <2> PICK q : q = PastLine(t, x)
    OBVIOUS
  <2>2. x \in a .. b
    <3>1. n # k => a < x
      BY ONLY <1>1, <1>3, <1>4, <2>1, x = st[n]
    <3>2. n # j => x < b
      BY ONLY <1>1, <1>4, <2>1, x = st[n], b = st[j]
    <3>3. x \in Nat /\ b \in Nat /\ a \in Nat /\ a <= b
      BY ONLY <1>3, <1>4, <2>1, x = st[n]
    <3>4. (n = k => x = a) /\ (n = j => x = b)
      BY ONLY <1>3, x = st[n], b = st[j]
    <3> QED
      BY ONLY <3>1, <3>2, <3>3, <3>4
  <2>3. q \in x .. Len(t) + 1 /\ (q = Len(t) + 1 \/ t[q] = NL) /\ \A i \in x .. q - 1 : t[i] # NL
    <3>1. x \in 1 .. Len(t) + 1
      BY ONLY <1>4, <2>1, x = st[n]
    <3> QED
      BY <1>1, <3>1, PastIs
  <2>4. q <= p
    <3>1. CASE x = b
      BY ONLY <1>3, <2>3, <3>1, q = PastLine(t, x)
    <3>2. CASE x # b
      <4>1. b \in Starts(t) /\ b \in Nat /\ b # 1
        BY ONLY <1>1, <1>3, <1>4, <2>2, <3>2, b = st[j]
      <4>2. b - 1 \in 1 .. Len(t) /\ t[b - 1] = NL
        BY ONLY <1>1, <4>1, StartIs
      <4>3. ~(b - 1 < q)
        <5> SUFFICES ASSUME b - 1 < q
                     PROVE  FALSE
          OBVIOUS
        <5>1. b - 1 \in x .. q - 1
          BY ONLY <1>3, <2>2, <2>3, <3>2, b - 1 < q
        <5> QED
          BY ONLY <2>3, <4>2, <5>1
      <4> QED
        BY ONLY <1>3, <2>2, <2>3, <4>3
    <3> QED
      BY <3>1, <3>2
  <2> PICK y : y = x - a + 1
    OBVIOUS
  <2> PICK r : r = q - a + 1
    OBVIOUS
  <2>5. y \in 1 .. Len(s) + 1 /\ r \in y .. Len(s) + 1 /\ y + a - 1 = x /\ r + a - 1 = q
    <3>1. a \in Nat /\ p \in Nat /\ Len(s) = p - a /\ x \in Nat /\ q \in Nat /\ a <= x /\ x <= q
      BY ONLY <1>3, <2>2, <2>3
    <3> QED
      BY ONLY <2>4, <3>1, y = x - a + 1, r = q - a + 1
  <2>6. PastLine(s, y) = r
    <3>1. r = Len(s) + 1 \/ s[r] = NL
      <4>1. CASE q = p
        BY ONLY <1>3, <4>1, r = q - a + 1
      <4>2. CASE q # p
        <5>1. q # Len(t) + 1 /\ r \in 1 .. p - a /\ a + r - 1 = q
          BY ONLY <1>1, <1>3, <2>2, <2>3, <2>4, <4>2, r = q - a + 1
        <5> QED
          BY ONLY <1>3, <2>3, <5>1
      <4> QED
        BY <4>1, <4>2
    <3>2. ASSUME NEW i, i \in y .. r - 1
          PROVE  s[i] # NL
      <4>1. i \in 1 .. p - a /\ a + i - 1 \in x .. q - 1
        <5>1. a \in Nat /\ p \in Nat /\ Len(s) = p - a /\ x \in Nat /\ q \in Nat /\ a <= x /\ x <= q
          BY ONLY <1>3, <2>2, <2>3
        <5> QED
          BY ONLY <2>4, <2>5, <3>2, <5>1, y = x - a + 1, r = q - a + 1
      <4>2. s[i] = t[a + i - 1]
        BY ONLY <1>3, <4>1
      <4> QED
        BY ONLY <2>3, <4>1, <4>2
    <3> QED
      BY ONLY <1>1, <2>5, <3>1, <3>2, PastOnly
  <2>7. Lines(s)[m] = SubSeq(s, y, r - 1)
    <3>1. m \in 1 .. Len(Lines(s)) /\ StartsOf(s)[m] = y
      BY <1>2, <1>5, <1>6
    <3>2. Lines(s)[m] = SubSeq(s, StartsOf(s)[m], PastLine(s, StartsOf(s)[m]) - 1)
      BY <1>1, <3>1, LinesAre
    <3> QED
      BY ONLY <2>6, <3>1, <3>2
  <2>8. Lines(t)[n] = SubSeq(t, x, q - 1)
    <3>1. n \in 1 .. Len(Lines(t))
      BY <1>5, <2>1
    <3> QED
      BY <1>1, <3>1, LinesAre
  <2>9. SubSeq(s, y, r - 1) = SubSeq(t, x, q - 1)
    <3> PICK u : u = SubSeq(s, y, r - 1)
      OBVIOUS
    <3> PICK v : v = SubSeq(t, x, q - 1)
      OBVIOUS
    <3>0. /\ a \in Nat /\ p \in Nat /\ Len(s) = p - a /\ x \in Nat /\ q \in Nat /\ a <= x /\ x <= q /\ 1 <= a
          /\ q <= Len(t) + 1 /\ y \in Nat /\ r \in Nat /\ 1 <= y /\ y <= r /\ r <= Len(s) + 1 /\ r - y = q - x
      BY ONLY <1>3, <2>2, <2>3, <2>5, y = x - a + 1, r = q - a + 1
    <3>1. u \in Seq(Mark) /\ Len(u) = q - x /\ \A i \in 1 .. q - x : u[i] = s[y + i - 1]
      BY ONLY <1>1, <3>0, u = SubSeq(s, y, r - 1)
    <3>2. v \in Seq(Mark) /\ Len(v) = q - x /\ \A i \in 1 .. q - x : v[i] = t[x + i - 1]
      BY ONLY <1>1, <3>0, v = SubSeq(t, x, q - 1)
    <3>3. ASSUME NEW i, i \in 1 .. q - x
          PROVE  u[i] = v[i]
      <4> PICK l : l = y + i - 1
        OBVIOUS
      <4>1. l \in 1 .. p - a /\ a + l - 1 = x + i - 1
        BY ONLY <2>4, <2>5, <3>0, <3>3, l = y + i - 1
      <4>2. s[l] = t[a + l - 1]
        BY ONLY <1>3, <4>1
      <4> QED
        BY ONLY <3>1, <3>2, <3>3, <4>1, <4>2, l = y + i - 1
    <3>4. u = v
      <4>1. q - x \in Nat /\ \A i \in 1 .. q - x : u[i] = v[i]
        BY ONLY <3>0, <3>3
      <4> QED
        BY ONLY <3>1, <3>2, <4>1
    <3> QED
      BY ONLY <3>4, u = SubSeq(s, y, r - 1), v = SubSeq(t, x, q - 1)
  <2> QED
    BY ONLY <2>7, <2>8, <2>9, n = k + m - 1
<1> QED
  BY ONLY <1>5, <1>6, w = j - k + 1 DEF SameLines

\* What is trimmed at its end is trimmed as it was.
LEMMA TrimmedIs ==
  ASSUME NEW M, NEW line, line \in Seq(M)
  PROVE  Trimmed(TrimRight(line)) = Trimmed(line)
<1> PICK h : h = TrimRight(line)
  OBVIOUS
<1>1. CASE Ink(line) = {}
  <2>1. h = <<>> /\ Trimmed(line) = <<>>
    BY <1>1 DEF TrimRight, Trimmed
  <2>2. Ink(<<>>) = {}
    BY DEF Ink
  <2>3. Trimmed(<<>>) = <<>>
    BY <2>2 DEF Trimmed
  <2> QED
    BY <2>1, <2>3
<1>2. CASE Ink(line) # {}
  <2> PICK x : x = Sets!Max(Ink(line))
    OBVIOUS
  <2> PICK m : m = Sets!Min(Ink(line))
    OBVIOUS
  <2>1. /\ x \in Ink(line) /\ x \in 1 .. Len(line) /\ m \in Ink(line) /\ m \in 1 .. Len(line)
        /\ \A i \in Ink(line) : m <= i /\ i <= x
    BY <1>2, InkIs
  <2>2. h = SubSeq(line, 1, x) /\ Trimmed(line) = SubSeq(line, m, x)
    BY <1>2 DEF TrimRight, Trimmed
  <2>3. h \in Seq(M) /\ Len(h) = x /\ \A i \in 1 .. x : h[i] = line[i]
    BY ONLY <2>1, <2>2, line \in Seq(M)
  <2>4. Ink(h) = Ink(line)
    <3>1. \A i : i \in Ink(line) => i \in 1 .. x /\ line[i] \notin {Sp, CR}
      <4>1. \A i \in Ink(line) : i \in 1 .. Len(line) /\ line[i] \notin {Sp, CR}
        BY ONLY line \in Seq(M) DEF Ink
      <4> QED
        BY ONLY <2>1, <4>1
    <3>2. \A i : i \in Ink(h) <=> i \in 1 .. x /\ h[i] \notin {Sp, CR}
      BY ONLY <2>3 DEF Ink
    <3>3. \A i : i \in 1 .. x /\ line[i] \notin {Sp, CR} => i \in Ink(line)
      <4>1. \A i \in 1 .. x : i \in DOMAIN line
        BY ONLY <2>1, line \in Seq(M)
      <4> QED
        BY ONLY <4>1 DEF Ink
    <3> QED
      BY ONLY <2>3, <3>1, <3>2, <3>3
  <2>5. Trimmed(h) = SubSeq(h, m, x)
    BY <1>2, <2>4 DEF Trimmed
  <2>6. SubSeq(h, m, x) = SubSeq(line, m, x)
    <3> PICK u : u = SubSeq(h, m, x)
      OBVIOUS
    <3> PICK v : v = SubSeq(line, m, x)
      OBVIOUS
    <3>1. m \in Nat /\ x \in Nat /\ 1 <= m /\ m <= x /\ x <= Len(line)
      BY ONLY <2>1
    <3>2. u \in Seq(M) /\ Len(u) = x - m + 1 /\ \A i \in 1 .. x - m + 1 : u[i] = h[m + i - 1]
      BY ONLY <2>3, <3>1, u = SubSeq(h, m, x)
    <3>3. v \in Seq(M) /\ Len(v) = x - m + 1 /\ \A i \in 1 .. x - m + 1 : v[i] = line[m + i - 1]
      BY ONLY line \in Seq(M), <3>1, v = SubSeq(line, m, x)
    <3>4. \A i \in 1 .. x - m + 1 : m + i - 1 \in 1 .. x
      BY ONLY <3>1
    <3>5. \A i \in 1 .. x - m + 1 : u[i] = v[i]
      BY ONLY <2>3, <3>2, <3>3, <3>4
    <3> QED
      BY ONLY <3>2, <3>3, <3>5, u = SubSeq(h, m, x), v = SubSeq(line, m, x)
  <2> QED
    BY ONLY <2>2, <2>5, <2>6, h = TrimRight(line)
<1> QED
  BY <1>1, <1>2

Fits(s, old) ==
  /\ Len(Lines(s)) = Len(NeedleLines(old))
  /\ \A m \in 1 .. Len(Lines(s)) : Trimmed(Lines(s)[m]) = Trimmed(NeedleLines(old)[m])

\* The windows found have the lines looked for, but for white space.
LEMMA WindowFits ==
  ASSUME NEW t, NEW old, NEW k, t \in Seq(Mark), old \in Seq(Mark), Len(NeedleLines(old)) # 0,
         k \in 1 .. Cardinality(Starts(t)) - Len(NeedleLines(old)) + 1,
         \/ SameButTail(SubSeq(Lines(t), k, k + Len(NeedleLines(old)) - 1), NeedleLines(old))
         \/ SameButDepth(SubSeq(Lines(t), k, k + Len(NeedleLines(old)) - 1), NeedleLines(old))
  PROVE  Fits(SubSeq(t, WindowAt(t, Len(NeedleLines(old)), k).from,
                     WindowAt(t, Len(NeedleLines(old)), k).to - 1), old)
<1> PICK needle : needle = NeedleLines(old)
  OBVIOUS
<1> PICK w : w = Len(needle)
  OBVIOUS
<1> PICK c : c = Cardinality(Starts(t))
  OBVIOUS
<1> PICK ls : ls = Lines(t)
  OBVIOUS
<1> PICK win : win = SubSeq(ls, k, k + w - 1)
  OBVIOUS
<1> PICK j : j = k + w - 1
  OBVIOUS
<1>1. w \in Nat /\ w # 0 /\ c \in Nat /\ k \in 1 .. c /\ j \in k .. c /\ j - k + 1 = w /\ needle \in Seq(Seq(Mark))
      /\ ls \in Seq(Seq(Mark)) /\ Len(ls) = c
  <2>1. w \in Nat /\ w # 0 /\ c \in Nat /\ needle \in Seq(Seq(Mark)) /\ ls \in Seq(Seq(Mark)) /\ Len(ls) = c
    BY NeedleIs, StartsAre, LinesAre
  <2>2. k \in 1 .. c - w + 1
    OBVIOUS
  <2> QED
    BY ONLY <2>1, <2>2, j = k + w - 1
<1> PICK s : s = SubSeq(t, WindowAt(t, w, k).from, WindowAt(t, w, k).to - 1)
  OBVIOUS
<1>2. Cut(s, t, k, j)
  <2>1. s = SubSeq(t, StartsOf(t)[k], PastLine(t, StartsOf(t)[j]) - 1)
    BY DEF WindowAt
  <2>2. s \in Seq(Mark)
    <3> PICK a : a = WindowAt(t, w, k).from
      OBVIOUS
    <3> PICK p : p = WindowAt(t, w, k).to
      OBVIOUS
    <3>1. WindowAt(t, w, k) \in SpanType /\ 1 <= a /\ a <= p /\ p <= Len(t) + 1
      BY <1>1, WindowIs
    <3>2. a \in Nat /\ p \in Nat
      BY <3>1 DEF SpanType
    <3> QED
      BY ONLY <3>1, <3>2, t \in Seq(Mark), s = SubSeq(t, WindowAt(t, w, k).from, WindowAt(t, w, k).to - 1),
              a = WindowAt(t, w, k).from, p = WindowAt(t, w, k).to
  <2> QED
    BY <1>1, <2>1, <2>2 DEF Cut
<1>3. Len(Lines(s)) = w /\ \A m \in 1 .. w : Lines(s)[m] = ls[k + m - 1]
  <2>1. SameLines(s, t, k, j)
    BY <1>2, CutLines
  <2> QED
    BY <1>1, <2>1 DEF SameLines
<1>4. ASSUME NEW m, m \in 1 .. w
      PROVE  win[m] = ls[k + m - 1] /\ m \in DOMAIN needle /\ ls[k + m - 1] \in Seq(Mark) /\ needle[m] \in Seq(Mark)
  <2>1. win[m] = ls[k + m - 1] /\ m \in DOMAIN needle /\ k + m - 1 \in 1 .. Len(ls)
    BY ONLY <1>1, <1>4, win = SubSeq(ls, k, k + w - 1), w = Len(needle), j = k + w - 1
  <2> QED
    BY ONLY <1>1, <1>4, <2>1, w = Len(needle)
<1>5. SameButTail(win, needle) \/ SameButDepth(win, needle)
  OBVIOUS
<1>6. ASSUME NEW m, m \in 1 .. w
      PROVE  Trimmed(Lines(s)[m]) = Trimmed(needle[m])
  <2>1. CASE SameButDepth(win, needle)
    <3>1. Trimmed(win[m]) = Trimmed(needle[m])
      BY <1>4, <1>6, <2>1 DEF SameButDepth
    <3> QED
      BY <1>3, <1>4, <1>6, <3>1
  <2>2. CASE SameButTail(win, needle)
    <3>1. TrimRight(win[m]) = TrimRight(needle[m])
      BY <1>4, <1>6, <2>2 DEF SameButTail
    <3>2. Trimmed(TrimRight(win[m])) = Trimmed(win[m])
      BY <1>4, <1>6, TrimmedIs
    <3>3. Trimmed(TrimRight(needle[m])) = Trimmed(needle[m])
      BY <1>4, <1>6, TrimmedIs
    <3>4. win[m] = Lines(s)[m]
      BY <1>3, <1>4, <1>6
    <3> QED
      BY ONLY <3>1, <3>2, <3>3, <3>4
  <2> QED
    BY <1>5, <2>1, <2>2
<1>7. Fits(s, old)
  BY <1>3, <1>6 DEF Fits
<1> QED
  BY <1>7

LooselyAlike(r, needle) == SameButTail(r, needle) \/ SameButDepth(r, needle)

\* Whatever the strategy, a match is what was asked for.
LEMMA SpansAlike ==
  ASSUME NEW t, NEW old, NEW n, t \in Seq(Mark), old \in Seq(Mark), old # <<>>, n \in 1 .. 3
  PROVE  \A i \in DOMAIN SpansOf(n, t, old) :
           Alike(SubSeq(t, SpansOf(n, t, old)[i].from, SpansOf(n, t, old)[i].to - 1), old)
<1> PICK ss : ss = SpansOf(n, t, old)
  OBVIOUS
<1> SUFFICES ASSUME NEW i, i \in DOMAIN ss
             PROVE  Alike(SubSeq(t, ss[i].from, ss[i].to - 1), old)
  OBVIOUS
<1>1. CASE n = 1
  <2>1. Standing(ss, t, old, Len(t))
    BY <1>1, ExactStands DEF SpansOf
  <2>2. SubSeq(t, ss[i].from, ss[i].to - 1) = old
    BY <2>1 DEF Standing
  <2> QED
    BY <2>2 DEF Alike
<1>2. ASSUME Windows(ss, t, old, LooselyAlike)
      PROVE  Alike(SubSeq(t, ss[i].from, ss[i].to - 1), old)
  <2> PICK w : w = Len(NeedleLines(old))
    OBVIOUS
  <2>0. ss # <<>>
    OBVIOUS
  <2>1. w # 0 /\ w \in Nat
    BY <1>2, <2>0, NeedleIs DEF Windows
  <2>2. PICK hits : hits \in SUBSET (1 .. Cardinality(Starts(t)) - w + 1) /\ ss = WindowsOf(t, w, hits)
                    /\ \A k \in hits : LooselyAlike(SubSeq(Lines(t), k, k + w - 1), NeedleLines(old))
    BY <1>2, <2>0 DEF Windows
  <2>3. PICK k : k \in hits /\ ss[i] = WindowAt(t, w, k)
    <3>1. \A m \in DOMAIN WindowsOf(t, w, hits) : \E k \in hits : WindowsOf(t, w, hits)[m] = WindowAt(t, w, k)
      BY ONLY t \in Seq(Mark), <2>1, <2>2, WindowsOrdered
    <3> QED
      BY <2>2, <3>1
  <2>4. Fits(SubSeq(t, ss[i].from, ss[i].to - 1), old)
    <3>1. k \in 1 .. Cardinality(Starts(t)) - w + 1
      BY <2>2, <2>3
    <3>2. SameButTail(SubSeq(Lines(t), k, k + w - 1), NeedleLines(old))
          \/ SameButDepth(SubSeq(Lines(t), k, k + w - 1), NeedleLines(old))
      BY <2>2, <2>3 DEF LooselyAlike
    <3>3. Fits(SubSeq(t, WindowAt(t, w, k).from, WindowAt(t, w, k).to - 1), old)
      BY <2>1, <3>1, <3>2, WindowFits
    <3> QED
      BY ONLY <2>3, <3>3
  <2> QED
    BY <2>4, LinesAre DEF Alike, Fits
<1>3. CASE n = 2
  <2>1. Windows(ss, t, old, SameButTail)
    BY <1>3, TailWindows DEF SpansOf
  <2>2. Windows(ss, t, old, LooselyAlike)
    BY <2>1 DEF Windows, LooselyAlike
  <2> QED
    BY <1>2, <2>2
<1>4. CASE n = 3
  <2>1. Windows(ss, t, old, SameButDepth)
    BY <1>4, DepthWindows DEF SpansOf
  <2>2. Windows(ss, t, old, LooselyAlike)
    BY <2>1 DEF Windows, LooselyAlike
  <2> QED
    BY <1>2, <2>2
<1> QED
  BY <1>1, <1>3, <1>4

-----------------------------------------------------------------------------
(* Edits land on their text. *)

LEMMA HandHeld ==
  ASSUME PreviewInv, stage \in {"splicing", "spliced"}
  PROVE  InHand
<1>1. before \in Seq(Mark) /\ spans \in Seq(SpanType) /\ ThisEdit.old \in Seq(Mark) /\ ThisEdit.new \in Seq(Mark)
  BY ThisEditIs DEF PreviewInv, EditTypeOK, LeftOfRequest, SpanType
<1> QED
  BY <1>1 DEF PreviewInv, MatchesFollow, InHand

LEMMA InitLand == EditInit => LandInv
<1> SUFFICES ASSUME EditInit
             PROVE  LandInv
  OBVIOUS
<1>1. PreviewInv
  BY InitPreview
<1>2. MatchesStand /\ SplicedSoFar
  BY DEF EditInit, MatchesStand, SplicedSoFar
<1> QED
  BY <1>1, <1>2 DEF LandInv

LEMMA NothingYet == InHand => Expected({}) = before
BY NothingReplaced

LEMMA NothingNext == InHand' => Expected({})' = before'
<1>1. (InHand => Expected({}) = before)'
  BY NothingYet, PTL
<1> QED
  BY <1>1

LEMMA HandNext == PreviewInv' /\ (stage \in {"splicing", "spliced"})' => InHand'
<1>1. PreviewInv /\ stage \in {"splicing", "spliced"} => InHand
  BY HandHeld
<1> QED
  BY <1>1, PTL

LEMMA MatchLands ==
  ASSUME PreviewInv, PreviewInv', Match
  PROVE  MatchesStand' /\ SplicedSoFar'
<1>1. /\ spans' = Found /\ todo' = Found /\ before' = text /\ stage' = "splicing"
      /\ text' = text /\ left' = left
  BY DEF Match
<1>2. MatchesStand'
  <2>1. /\ text \in Seq(Mark) /\ strategy \in 1 .. 3 /\ ThisEdit.old \in Seq(Mark) /\ ThisEdit.old # <<>>
    BY ThisEditIs DEF PreviewInv, EditTypeOK, LeftOfRequest
  <2>2. \A i \in DOMAIN Found : Alike(SubSeq(text, Found[i].from, Found[i].to - 1), ThisEdit.old)
    BY <2>1, SpansAlike DEF Found
  <2> QED
    BY <1>1, <2>2 DEF MatchesStand, Matched, ThisEdit
<1>3. SplicedSoFar'
  <2>1. InHand'
    BY <1>1, HandNext
  <2>2. Expected({})' = before'
    BY <2>1, NothingNext
  <2>3. Len(todo') + 1 .. Len(spans') = {}
    <3>1. spans' \in Seq(SpanType)
      BY <2>1 DEF InHand
    <3>2. Len(spans') \in Nat
      BY ONLY <3>1
    <3> QED
      BY <1>1, <3>2
  <2> QED
    BY <1>1, <2>2, <2>3 DEF SplicedSoFar
<1> QED
  BY <1>2, <1>3

LEMMA SpliceLands ==
  ASSUME PreviewInv, MatchesStand, SplicedSoFar, Splice
  PROVE  MatchesStand' /\ SplicedSoFar'
<1> PICK n : n = Len(todo)
  OBVIOUS
<1>1. /\ todo \in Seq(SpanType) /\ spans \in Seq(SpanType) /\ todo # <<>> /\ Seqs!IsPrefix(todo, spans)
      /\ stage = "splicing"
  BY DEF PreviewInv, EditTypeOK, Splice, SpanType
<1> PICK s : s = Seqs!Last(todo)
  OBVIOUS
<1> PICK q : q = Seqs!Front(todo)
  OBVIOUS
<1>2. n \in 1 .. Len(spans) /\ s = spans[n]
  BY ONLY <1>1, n = Len(todo), s = Seqs!Last(todo), q = Seqs!Front(todo), FrontIs
<1>3. Len(q) = n - 1
  BY ONLY <1>1, n = Len(todo), q = Seqs!Front(todo), FrontIs
<1>4. /\ text' = Replaced(text, s, ReplacementFor(ThisEdit, s)) /\ todo' = q
      /\ UNCHANGED <<request, left, strategy, before, spans>>
  BY <1>1 DEF Splice
<1>5. MatchesStand'
  BY <1>1, <1>4 DEF MatchesStand, Matched, ThisEdit
<1>6. ASSUME ~Overlapping
      PROVE  text' = Expected(n .. Len(spans))
  <2>1. text = Expected(n + 1 .. Len(spans))
    BY <1>1, <1>6 DEF SplicedSoFar
  <2>2. InHand /\ n \in DOMAIN spans
    BY <1>1, <1>2, HandHeld
  <2>3. Replaced(text, spans[n], ReplacementFor(ThisEdit, spans[n])) = Expected(n .. Len(spans))
    BY ONLY <1>6, <2>1, <2>2, SpliceOne
  <2> QED
    BY <1>2, <1>4, <2>3
<1>7. SplicedSoFar'
  <2>1. ~Overlapping' => ~Overlapping
    BY <1>4 DEF Overlapping
  <2>2. Len(todo') + 1 .. Len(spans') = n .. Len(spans)
    BY <1>2, <1>3, <1>4
  <2> PICK N : N = n .. Len(spans)
    OBVIOUS
  <2>3. Expected(N)' = Expected(N)
    BY <1>4 DEF Expected, ReplacementFor, Matched, ThisEdit
  <2>4. ~Overlapping' => text' = Expected(Len(todo) + 1 .. Len(spans))'
    <3>1. Expected(Len(todo) + 1 .. Len(spans))' = Expected(N)'
      <4> PICK Q : Q = Len(todo') + 1 .. Len(spans')
        OBVIOUS
      <4>1. Q = N
        BY <2>2
      <4>2. Expected(Len(todo) + 1 .. Len(spans))' = Expected(Q)'
        BY DEF Expected
      <4> QED
        BY <4>1, <4>2
    <3> QED
      BY <1>6, <2>1, <2>3, <3>1
  <2> QED
    BY <2>4 DEF SplicedSoFar
<1> QED
  BY <1>5, <1>7

LEMMA NextLand == LandInv /\ [EditNext]_editVars => LandInv'
<1> SUFFICES ASSUME LandInv, [EditNext]_editVars
             PROVE  LandInv'
  OBVIOUS
<1> USE DEF LandInv
<1>1. PreviewInv'
  BY NextPreview
<1>2. CASE Match
  BY <1>1, <1>2, MatchLands
<1>3. CASE Splice
  BY <1>1, <1>3, SpliceLands
<1>4. CASE UNCHANGED editVars
  <2>1. MatchesStand'
    BY <1>4 DEF editVars, MatchesStand, Matched, ThisEdit
  <2>2. SplicedSoFar'
    BY <1>4 DEF editVars, SplicedSoFar, Overlapping, Expected, ReplacementFor, Matched, ThisEdit
  <2> QED
    BY <1>1, <2>1, <2>2
<1>5. CASE Open \/ RefuseEdit \/ NextStrategy \/ NextEdit \/ Write
  <2>1. stage' \notin {"splicing", "spliced"}
    BY <1>5 DEF Open, RefuseEdit, NextStrategy, NextEdit, Write, Refuse
  <2> QED
    BY <1>1, <2>1 DEF MatchesStand, SplicedSoFar
<1> QED
  BY <1>2, <1>3, <1>4, <1>5 DEF EditNext

(* At every step the matches are what was asked for, in order, and of them the last are *)
(* replaced, each where it stands.                                                       *)
THEOREM LandTheorem == EditSpec => []LandInv
BY InitLand, NextLand, PTL DEF EditSpec

(* An edit lands where its text stands and nowhere else: by whichever strategy it was   *)
(* found, what it replaces is what was asked for, but for white space, and every mark    *)
(* outside the matches is kept in its place.                                             *)
THEOREM LandsTheorem == EditSpec => []EditLandsOnItsText
<1>1. LandInv => EditLandsOnItsText
  <2> SUFFICES ASSUME LandInv, stage = "spliced"
               PROVE  /\ \A n \in DOMAIN spans : Alike(Matched(spans[n]), ThisEdit.old)
                      /\ ~Overlapping => text = Expected(DOMAIN spans)
    BY DEF EditLandsOnItsText
  <2>1. Len(todo) + 1 .. Len(spans) = DOMAIN spans
    <3>1. todo = <<>> /\ spans \in Seq(SpanType)
      BY HandHeld DEF LandInv, PreviewInv, RoomToSplice, InHand
    <3> QED
      BY ONLY <3>1
  <2> QED
    BY <2>1 DEF LandInv, MatchesStand, SplicedSoFar
<1> QED
  BY <1>1, LandTheorem, PTL

=============================================================================
