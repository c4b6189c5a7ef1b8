--------------------------- MODULE DataLemmas -----------------------------
(***************************************************************************)
(* Induction over numbers, sequences and finite sets, stated with a set in *)
(* the place of a predicate, and the laws of the loops, of Filter, of      *)
(* comprehensions and of SumFunction that follow from it.                  *)
(***************************************************************************)
EXTENDS Loops, SequencesExt, FiniteSets, TLAPS, SequenceTheorems, FiniteSetTheorems,
        WellFoundedInduction

\* A set of natural numbers that is not empty has a least element.
LEMMA LeastNatural ==
    ASSUME NEW W \in SUBSET Nat, W # {}
    PROVE  \E m \in W : \A i \in W : m <= i
<1>1. PICK m \in W : \A i \in W : ~(<<i, m>> \in OpToRel(<, Nat))
  BY NatLessThanWellFounded, WFMin
<1>2. ASSUME NEW i \in W, i < m
      PROVE  FALSE
  <2>1. <<i, m>> \in Nat \X Nat /\ <<i, m>>[1] < <<i, m>>[2]
    BY <1>2
  <2>2. <<i, m>> \in OpToRel(<, Nat)
    BY <2>1, Zenon DEF OpToRel
  <2> QED
    BY <1>1, <2>2
<1>3. \A i \in W : m <= i
  BY <1>2
<1> QED
  BY <1>3

\* A set with zero and, up to n, with every successor holds all up to n.
LEMMA InductionUpTo ==
    ASSUME NEW n \in Nat, NEW W, 0 \in W, \A i \in 0..(n - 1) : i \in W => i + 1 \in W
    PROVE  \A i \in 0..n : i \in W
<1> DEFINE Missing == {i \in 0..n : i \notin W}
<1>1. CASE Missing = {}
  BY <1>1
<1>2. CASE Missing # {}
  <2>1. PICK m \in Missing : \A i \in Missing : m <= i
    <3>1. Missing \in SUBSET Nat
      OBVIOUS
    <3> HIDE DEF Missing
    <3> QED
      BY <1>2, <3>1, LeastNatural
  <2>2. m \in 0..n /\ m \notin W /\ m # 0
    BY <2>1
  <2>3. m - 1 \in 0..(n - 1) /\ (m - 1) + 1 = m
    BY <2>2
  <2>4. m - 1 \notin Missing
    BY <2>1, <2>3
  <2>5. m - 1 \in W
    BY <2>3, <2>4
  <2> QED
    BY <2>2, <2>3, <2>5
<1> QED
  BY <1>1, <1>2

\* A set with the empty sequence and with every extension of its elements
\* holds all the sequences.
LEMMA SequenceInduction ==
    ASSUME NEW R, NEW W, <<>> \in W,
           \A s \in Seq(R), x \in R : s \in W => Append(s, x) \in W
    PROVE  \A s \in Seq(R) : s \in W
<1> SUFFICES ASSUME NEW s \in Seq(R) PROVE s \in W
  OBVIOUS
<1> DEFINE L == {i \in 0..Len(s) : SubSeq(s, 1, i) \in W}
<1>0. Len(s) \in Nat
  BY LenProperties
<1>1. 0 \in L
  <2>1. SubSeq(s, 1, 0) = <<>>
    BY <1>0, SubSeqEmpty
  <2>2. SubSeq(s, 1, 0) \in W
    BY <2>1, Zenon
  <2>3. 0 \in 0..Len(s)
    BY <1>0
  <2> QED
    BY <2>2, <2>3, Zenon
<1>2. ASSUME NEW i \in 0..(Len(s) - 1), i \in L
      PROVE  i + 1 \in L
  <2>1. i + 1 \in 1..Len(s) /\ i \in 0..Len(s) /\ (i + 1) - 1 = i
    BY <1>0
  <2>2. SubSeq(s, 1, i + 1) = SubSeq(s, 1, i) \o <<s[i + 1]>>
    BY <1>0, <2>1, SubSeqRecursiveSecond
  <2>3. \A j \in 1..i : s[j] \in R
    BY <1>0, <2>1, ElementOfSeq
  <2>4. s[i + 1] \in R /\ SubSeq(s, 1, i) \in Seq(R)
    BY <2>1, <2>3, ElementOfSeq, SubSeqProperties
  <2>5. Append(SubSeq(s, 1, i), s[i + 1]) = SubSeq(s, 1, i + 1)
    BY <2>2, <2>4, AppendIsConcat
  <2>6. SubSeq(s, 1, i) \in W
    BY <1>2
  <2>7. Append(SubSeq(s, 1, i), s[i + 1]) \in W
    BY <2>4, <2>6
  <2>8. SubSeq(s, 1, i + 1) \in W
    BY <2>5, <2>7
  <2>9. i + 1 \in 0..Len(s)
    BY <1>0, <2>1
  <2> QED
    BY <2>8, <2>9, Zenon
<1>3. \A i \in 0..Len(s) : i \in L
  <2> HIDE DEF L
  <2> QED
    BY <1>0, <1>1, <1>2, InductionUpTo
<1>4. SubSeq(s, 1, Len(s)) \in W
  BY <1>0, <1>3
<1> QED
  BY <1>4, SubSeqFull

\* A set with the empty set and with every one more element holds every
\* finite set.
LEMMA FiniteSetInduction ==
    ASSUME NEW T, IsFiniteSet(T), NEW W, {} \in W,
           \A A \in SUBSET T : \A x \in T \ A : A \in W => A \cup {x} \in W
    PROVE  \A A \in SUBSET T : A \in W
<1> DEFINE L == {i \in 0..Cardinality(T) : \A A \in SUBSET T : Cardinality(A) = i => A \in W}
<1>0. /\ Cardinality(T) \in Nat
      /\ \A A \in SUBSET T : IsFiniteSet(A) /\ Cardinality(A) \in 0..Cardinality(T)
  BY FS_CardinalityType, FS_Subset
<1>1. 0 \in L
  <2>1. \A A \in SUBSET T : Cardinality(A) = 0 => A = {}
    BY <1>0, FS_EmptySet
  <2>2. 0 \in 0..Cardinality(T)
    BY <1>0
  <2> QED
    BY <2>1, <2>2, Zenon
<1>2. ASSUME NEW i \in 0..(Cardinality(T) - 1), i \in L
      PROVE  i + 1 \in L
  <2>1. ASSUME NEW A \in SUBSET T, Cardinality(A) = i + 1
        PROVE  A \in W
    <3>1. PICK x \in A : TRUE
      <4>1. A # {}
        BY <1>0, <2>1, FS_EmptySet
      <4> QED
        BY <4>1
    <3>2. A \ {x} \in SUBSET T /\ Cardinality(A \ {x}) = i
      BY <1>0, <2>1, <3>1, FS_RemoveElement
    <3>3. A \ {x} \in W
      BY <1>2, <3>2
    <3>4. x \in T \ (A \ {x}) /\ (A \ {x}) \cup {x} = A
      BY <3>1
    <3> QED
      BY <3>2, <3>3, <3>4
  <2> QED
    BY <1>0, <2>1
<1>3. \A i \in 0..Cardinality(T) : i \in L
  <2> HIDE DEF L
  <2> QED
    BY <1>0, <1>1, <1>2, InductionUpTo
<1> QED
  BY <1>0, <1>3
-----------------------------------------------------------------------------
(* Concatenation.  The law of associativity bears a name, so that a proof  *)
(* chooses the sequences it is used for.                                   *)

Assoc(x, y, z) == (x \o y) \o z = x \o (y \o z)

LEMMA ConcatType ==
    ASSUME NEW R, NEW x \in Seq(R), NEW y \in Seq(R)
    PROVE  x \o y \in Seq(R)
  BY ConcatProperties

LEMMA AssocHolds ==
    ASSUME NEW R, NEW x \in Seq(R), NEW y \in Seq(R), NEW z \in Seq(R)
    PROVE  Assoc(x, y, z)
  BY ConcatAssociative DEF Assoc

LEMMA AppendToConcat ==
    ASSUME NEW R, NEW x \in Seq(R), NEW q \in Seq(R), NEW r \in R
    PROVE  x \o Append(q, r) = Append(x \o q, r)
<1>1. <<r>> \in Seq(R) /\ x \o q \in Seq(R)
  BY ConcatType
<1>2. Assoc(x, q, <<r>>)
  BY <1>1, AssocHolds
<1>3. Append(q, r) = q \o <<r>> /\ Append(x \o q, r) = (x \o q) \o <<r>>
  BY <1>1, AppendIsConcat
<1> QED
  BY <1>2, <1>3 DEF Assoc

\* The front of a sequence.
LEMMA PrefixOfConcat ==
    ASSUME NEW R, NEW a \in Seq(R), NEW x \in Seq(R)
    PROVE  IsPrefix(a, a \o x)
<1>1. /\ Len(a) \in Nat /\ Len(x) \in Nat /\ Len(a \o x) = Len(a) + Len(x) /\ a \o x \in Seq(R)
      /\ \A i \in 1..Len(a) + Len(x) : (a \o x)[i] = IF i <= Len(a) THEN a[i] ELSE x[i - Len(a)]
  BY LenProperties, ConcatProperties
<1>2. SubSeq(a, 1, Len(a)) = a
  BY SubSeqFull
<1>3. /\ SubSeq(a \o x, 1, Len(a)) \in Seq(R)
      /\ Len(SubSeq(a \o x, 1, Len(a))) = Len(a)
      /\ \A i \in 1..Len(a) : SubSeq(a \o x, 1, Len(a))[i] = a[i]
  <2>1. \A i \in 1..Len(a) : (a \o x)[i] \in R
    BY <1>1, ElementOfSeq
  <2>2. /\ SubSeq(a \o x, 1, Len(a)) \in Seq(R)
        /\ Len(SubSeq(a \o x, 1, Len(a))) = IF 1 <= Len(a) THEN Len(a) - 1 + 1 ELSE 0
        /\ \A i \in 1..(Len(a) - 1 + 1) : SubSeq(a \o x, 1, Len(a))[i] = (a \o x)[1 + i - 1]
    BY <1>1, <2>1, SubSeqProperties
  <2>3. \A i \in 1..Len(a) : 1 + i - 1 = i /\ (a \o x)[i] = a[i]
    BY <1>1
  <2> QED
    BY <1>1, <2>2, <2>3
<1>4. SubSeq(a \o x, 1, Len(a)) = a
  BY <1>1, <1>3, SeqEqual
<1> QED
  BY <1>1, <1>2, <1>4 DEF IsPrefix

\* A sequence comes apart at any point.
LEMMA SequenceSplits ==
    ASSUME NEW R, NEW q \in Seq(R), NEW n \in 0..Len(q)
    PROVE  /\ SubSeq(q, 1, n) \in Seq(R) /\ SubSeq(q, n + 1, Len(q)) \in Seq(R)
           /\ q = SubSeq(q, 1, n) \o SubSeq(q, n + 1, Len(q))
           /\ Len(SubSeq(q, n + 1, Len(q))) <= Len(q)
<1>0. Len(q) \in Nat
  BY LenProperties
<1>1. \A i \in 1..n : q[i] \in R
  BY <1>0, ElementOfSeq
<1>2. \A i \in (n + 1)..Len(q) : q[i] \in R
  BY <1>0, ElementOfSeq
<1>3. SubSeq(q, 1, n) \in Seq(R)
  BY <1>0, <1>1, SubSeqProperties
<1>4. /\ SubSeq(q, n + 1, Len(q)) \in Seq(R)
      /\ Len(SubSeq(q, n + 1, Len(q))) = IF n + 1 <= Len(q) THEN Len(q) - (n + 1) + 1 ELSE 0
  BY <1>0, <1>2, SubSeqProperties
<1>6. Len(SubSeq(q, n + 1, Len(q))) <= Len(q)
  BY <1>0, <1>4
<1>5. SubSeq(q, 1, n) \o SubSeq(q, n + 1, Len(q)) = SubSeq(q, 1, Len(q))
  <2>1. 1 \in 1..Len(q) + 1 /\ n \in 1 - 1..Len(q) /\ Len(q) \in n..Len(q)
    BY <1>0
  <2> QED
    BY <2>1, ConcatAdjacentSubSeq
<1> QED
  BY <1>3, <1>4, <1>5, <1>6, SubSeqFull


\* What is appended leaves the front as it was.
LEMMA PrefixOfAppend ==
    ASSUME NEW R, NEW a \in Seq(R), NEW g \in Seq(R), NEW r \in R, IsPrefix(a, g)
    PROVE  IsPrefix(a, Append(g, r))
<1>1. Len(a) \in 0..Len(g) /\ SubSeq(a, 1, Len(a)) = SubSeq(g, 1, Len(a))
  BY LenProperties DEF IsPrefix
<1> DEFINE x == SubSeq(g, Len(a) + 1, Len(g))
<1>2. g = SubSeq(g, 1, Len(a)) \o x /\ x \in Seq(R)
  BY <1>1, SequenceSplits
<1>3. SubSeq(a, 1, Len(a)) = a
  BY SubSeqFull
<1> HIDE DEF x
<1>4. g = a \o x
  BY <1>1, <1>2, <1>3
<1>5. a \o Append(x, r) = Append(a \o x, r) /\ Append(x, r) \in Seq(R)
  BY <1>2, AppendToConcat, AppendProperties
<1>6. IsPrefix(a, a \o Append(x, r))
  BY <1>5, PrefixOfConcat
<1> QED
  BY <1>4, <1>5, <1>6

\* A head and the rest, the same way.
LEMMA SequenceHead ==
    ASSUME NEW R, NEW q \in Seq(R), q # <<>>
    PROVE  /\ <<Head(q)>> \in Seq(R) /\ Tail(q) \in Seq(R)
           /\ q = <<Head(q)>> \o Tail(q) /\ Len(Tail(q)) <= Len(q)
<1>1. Len(q) \in Nat /\ 1 \in 1..Len(q) /\ Len(q) \in 1..Len(q)
  BY EmptySeq, LenProperties
<1>2. Head(q) \in R /\ Tail(q) \in Seq(R) /\ Len(Tail(q)) = Len(q) - 1
  BY HeadTailProperties
<1>3. SubSeq(q, 1, Len(q)) = <<q[1]>> \o SubSeq(q, 1 + 1, Len(q))
  BY <1>1, SubSeqRecursiveFirst
<1>4. Head(SubSeq(q, 1, Len(q))) = q[1]
  BY <1>1, HeadTailOfSubSeq
<1>5. SubSeq(q, 1, Len(q)) = q /\ Tail(q) = SubSeq(q, 2, Len(q))
  BY SubSeqFull, TailIsSubSeq
<1>6. <<Head(q)>> \in Seq(R) /\ Len(Tail(q)) <= Len(q)
  BY <1>1, <1>2
<1>7. q = <<Head(q)>> \o Tail(q)
  BY <1>3, <1>4, <1>5
<1> QED
  BY <1>2, <1>6, <1>7
-----------------------------------------------------------------------------
(* Through.                                                                *)

\* A loop over elements of R, with states in S.
Loop(step, from, S, R) == step \in [S -> [R -> S]] /\ from \in S

ThroughRun(f, step, from, s, n) == f[0] = from /\ \A i \in 1..n : f[i] = step[f[i - 1]][s[i]]

\* The recursion of Through is well defined, and its values are states.
LEMMA ThroughSteps ==
    ASSUME NEW S, NEW R, NEW step, NEW from, Loop(step, from, S, R), NEW s \in Seq(R)
    PROVE  \E f : /\ ThroughRun(f, step, from, s, Len(s)) /\ Through(step, from, s) = f[Len(s)]
                 /\ \A i \in 0..Len(s) : f[i] \in S
<1> DEFINE Fixed(f, n) ==
             f = [i \in 0..n |-> IF i = 0 THEN from ELSE step[f[i - 1]][s[i]]]
           W == {n \in 0..Len(s) : \E f : Fixed(f, n)}
<1>0. Len(s) \in Nat
  BY LenProperties
<1>1. 0 \in W
  <2> DEFINE g == [i \in 0..0 |-> from]
  <2>1. Fixed(g, 0)
    OBVIOUS
  <2>2. 0 \in 0..Len(s)
    BY <1>0
  <2> HIDE DEF Fixed, g
  <2> QED
    BY <2>1, <2>2, Zenon
<1>2. ASSUME NEW n \in 0..(Len(s) - 1), n \in W
      PROVE  n + 1 \in W
  <2>1. PICK f : Fixed(f, n)
    BY <1>2
  <2>2. /\ n \in Nat /\ n + 1 \in 0..Len(s)
        /\ \A i \in 0..(n + 1) : i # n + 1 => i \in 0..n
        /\ \A i \in 0..n : i # 0 => i - 1 \in 0..n /\ i - 1 # n + 1
        /\ (n + 1) - 1 = n /\ n + 1 # 0 /\ n # n + 1
    BY <1>0
  <2> DEFINE g == [i \in 0..(n + 1) |-> IF i = n + 1 THEN step[f[n]][s[n + 1]] ELSE f[i]]
             rhs(h, i) == IF i = 0 THEN from ELSE step[h[i - 1]][s[i]]
  <2>3. ASSUME NEW i \in 0..(n + 1)
        PROVE  g[i] = rhs(g, i)
    <3>1. CASE i = n + 1
      <4>1. g[i - 1] = f[n] /\ i - 1 = n
        BY <2>2, <3>1
      <4> QED
        BY <2>2, <3>1, <4>1
    <3>2. CASE i # n + 1
      <4>1. i \in 0..n /\ g[i] = f[i]
        BY <2>2, <3>2
      <4>2. i # 0 => g[i - 1] = f[i - 1]
        BY <2>2, <4>1
      <4>3. f[i] = rhs(f, i)
        BY <2>1, <4>1
      <4>4. rhs(f, i) = rhs(g, i)
        BY <4>2
      <4> QED
        BY <4>1, <4>3, <4>4
    <3> QED
      BY <3>1, <3>2
  <2>4. Fixed(g, n + 1)
    <3> DEFINE h == [i \in 0..(n + 1) |-> rhs(g, i)]
    <3>1. \A i \in 0..(n + 1) : h[i] = g[i]
      BY <2>3
    <3>2. g = [i \in 0..(n + 1) |-> g[i]] /\ h = [i \in 0..(n + 1) |-> h[i]]
      OBVIOUS
    <3>3. g = h
      <4> HIDE DEF g, h
      <4> QED
        BY <3>1, <3>2
    <3> QED
      BY <3>3
  <2> HIDE DEF Fixed, g
  <2> QED
    BY <2>2, <2>4
<1>3. Len(s) \in W
  <2> HIDE DEF W
  <2>1. \A n \in 0..Len(s) : n \in W
    BY <1>0, <1>1, <1>2, InductionUpTo
  <2> QED
    BY <1>0, <2>1
<1> DEFINE F == CHOOSE f : Fixed(f, Len(s))
<1>4. Fixed(F, Len(s)) /\ Through(step, from, s) = F[Len(s)]
  <2>1. \E f : Fixed(f, Len(s))
    BY <1>3
  <2>2. Fixed(F, Len(s))
    <3> HIDE DEF Fixed
    <3> QED
      BY <2>1
  <2>3. Through(step, from, s) = F[Len(s)]
    BY DEF Through
  <2> QED
    BY <2>2, <2>3
<1> HIDE DEF F
<1>5. ThroughRun(F, step, from, s, Len(s))
  <2>1. 0 \in 0..Len(s)
    BY <1>0
  <2>2. F[0] = from
    BY <1>4, <2>1
  <2>3. ASSUME NEW i \in 1..Len(s)
        PROVE  F[i] = step[F[i - 1]][s[i]]
    <3>1. i \in 0..Len(s) /\ i # 0
      BY <1>0
    <3> QED
      BY <1>4, <3>1
  <2> QED
    BY <2>2, <2>3 DEF ThroughRun
<1> HIDE DEF Fixed
<1>6. \A i \in 0..Len(s) : F[i] \in S
  <2> DEFINE V == {i \in 0..Len(s) : F[i] \in S}
  <2>1. 0 \in V
    BY <1>0, <1>5 DEF ThroughRun, Loop
  <2>2. ASSUME NEW i \in 0..(Len(s) - 1), i \in V
        PROVE  i + 1 \in V
    <3>1. i + 1 \in 1..Len(s) /\ (i + 1) - 1 = i /\ i + 1 \in 0..Len(s)
      BY <1>0
    <3>2. F[i + 1] = step[F[i]][s[i + 1]] /\ s[i + 1] \in R /\ F[i] \in S
      BY <1>5, <2>2, <3>1, ElementOfSeq DEF ThroughRun
    <3> QED
      BY <3>1, <3>2 DEF Loop
  <2>3. \A i \in 0..Len(s) : i \in V
    <3> HIDE DEF V
    <3> QED
      BY <1>0, <2>1, <2>2, InductionUpTo
  <2> QED
    BY <2>3
<1> QED
  BY <1>4, <1>5, <1>6

\* The states of a prefix do not depend on what comes after it.
LEMMA ThroughAgree ==
    ASSUME NEW n \in Nat, NEW s, NEW t, NEW step, NEW from, NEW f, NEW g,
           ThroughRun(f, step, from, s, n), ThroughRun(g, step, from, t, n), \A i \in 1..n : s[i] = t[i]
    PROVE  f[n] = g[n]
<1> DEFINE W == {i \in 0..n : f[i] = g[i]}
<1>1. 0 \in W
  BY DEF ThroughRun
<1>2. ASSUME NEW i \in 0..(n - 1), i \in W
      PROVE  i + 1 \in W
  <2>1. i + 1 \in 1..n /\ (i + 1) - 1 = i /\ i + 1 \in 0..n /\ f[i] = g[i]
    BY <1>2
  <2>2. f[i + 1] = g[i + 1]
    BY <2>1 DEF ThroughRun
  <2> QED
    BY <2>1, <2>2
<1>3. \A i \in 0..n : i \in W
  <2> HIDE DEF W
  <2> QED
    BY <1>1, <1>2, InductionUpTo
<1> QED
  BY <1>3

LEMMA ThroughType ==
    ASSUME NEW S, NEW R, NEW step, NEW from, Loop(step, from, S, R), NEW s \in Seq(R)
    PROVE  Through(step, from, s) \in S
<1>1. Len(s) \in 0..Len(s)
  BY LenProperties
<1> QED
  BY <1>1, ThroughSteps

LEMMA ThroughEmpty ==
    ASSUME NEW S, NEW R, NEW step, NEW from, Loop(step, from, S, R)
    PROVE  Through(step, from, <<>>) = from
<1> DEFINE Stays(s) == s = <<>> => Through(step, from, s) = from
<1>1. ASSUME NEW s \in Seq(R)
      PROVE  Stays(s)
  <2>1. PICK f : ThroughRun(f, step, from, s, Len(s)) /\ Through(step, from, s) = f[Len(s)]
    BY ThroughSteps
  <2> QED
    BY <2>1, EmptySeq DEF ThroughRun
<1>2. <<>> \in Seq(R)
  BY EmptySeq
<1>3. Stays(<<>>)
  <2> HIDE DEF Stays
  <2> QED
    BY <1>1, <1>2
<1> QED
  BY <1>3

LEMMA ThroughAppend ==
    ASSUME NEW S, NEW R, NEW step, NEW from, Loop(step, from, S, R), NEW s \in Seq(R), NEW x \in R
    PROVE  Through(step, from, Append(s, x)) = step[Through(step, from, s)][x]
<1> DEFINE n == Len(s)
           t == Append(s, x)
<1>1. /\ n \in Nat /\ t \in Seq(R) /\ Len(t) = n + 1 /\ t[n + 1] = x
      /\ \A i \in 1..n : t[i] = s[i]
  BY LenProperties, AppendProperties
<1>2. PICK f : ThroughRun(f, step, from, s, n) /\ Through(step, from, s) = f[n]
  BY ThroughSteps
<1> HIDE DEF t
<1>3. PICK g : ThroughRun(g, step, from, t, n + 1) /\ Through(step, from, t) = g[n + 1]
  BY <1>1, ThroughSteps
<1>4. ThroughRun(g, step, from, t, n)
  BY <1>1, <1>3 DEF ThroughRun
<1>5. f[n] = g[n]
  BY <1>1, <1>2, <1>4, ThroughAgree
<1>6. n + 1 \in 1..(n + 1) /\ (n + 1) - 1 = n
  BY <1>1
<1>7. g[n + 1] = step[g[n]][x]
  BY <1>1, <1>3, <1>6 DEF ThroughRun
<1> QED
  BY <1>2, <1>3, <1>5, <1>7 DEF t

LEMMA ThroughConcat ==
    ASSUME NEW S, NEW R, NEW step, NEW from, Loop(step, from, S, R), NEW a \in Seq(R), NEW b \in Seq(R)
    PROVE  Through(step, from, a \o b) = Through(step, Through(step, from, a), b)
<1> DEFINE mid == Through(step, from, a)
           W == {s \in Seq(R) : Through(step, from, a \o s) = Through(step, mid, s)}
<1>0. Loop(step, mid, S, R)
  BY ThroughType DEF Loop
<1> HIDE DEF mid
<1>1. <<>> \in W
  <2>1. <<>> \in Seq(R) /\ a \o <<>> = a
    BY EmptySeq, ConcatEmptySeq
  <2>2. Through(step, mid, <<>>) = mid
    BY <1>0, ThroughEmpty
  <2> QED
    BY <2>1, <2>2 DEF mid
<1>2. ASSUME NEW s \in Seq(R), NEW x \in R, s \in W
      PROVE  Append(s, x) \in W
  <2>1. a \o s \in Seq(R) /\ Append(s, x) \in Seq(R) /\ a \o Append(s, x) = Append(a \o s, x)
    BY ConcatType, AppendProperties, AppendToConcat
  <2>2. Through(step, from, Append(a \o s, x)) = step[Through(step, from, a \o s)][x]
    <3> DEFINE y == a \o s
    <3>1. y \in Seq(R)
      BY <2>1
    <3> HIDE DEF y
    <3>2. Through(step, from, Append(y, x)) = step[Through(step, from, y)][x]
      BY <3>1, ThroughAppend
    <3> QED
      BY <3>2 DEF y
  <2>3. Through(step, mid, Append(s, x)) = step[Through(step, mid, s)][x]
    BY <1>0, ThroughAppend
  <2>4. Through(step, from, a \o s) = Through(step, mid, s)
    BY <1>2
  <2>5. Through(step, from, a \o Append(s, x)) = Through(step, mid, Append(s, x))
    BY <2>1, <2>2, <2>3, <2>4, Zenon
  <2> QED
    BY <2>1, <2>5
<1>3. b \in W
  <2> HIDE DEF W
  <2> QED
    BY <1>1, <1>2, SequenceInduction
<1> QED
  BY <1>3 DEF mid
-----------------------------------------------------------------------------
(* Filter.                                                                 *)

\* What the recursion of Filter makes of a prefix of s and the next element.
FilterStep(kept, sofar, x) == IF x \in kept THEN Append(sofar, x) ELSE sofar

FilterRun(f, s, kept, n) == f[0] = <<>> /\ \A i \in 1..n : f[i] = FilterStep(kept, f[i - 1], s[i])

\* The recursion of Filter is well defined, and its values are sequences.
LEMMA FilterSteps ==
    ASSUME NEW R, NEW s \in Seq(R), NEW kept
    PROVE  \E f : /\ FilterRun(f, s, kept, Len(s)) /\ Filter(s, kept) = f[Len(s)]
                 /\ \A i \in 0..Len(s) : f[i] \in Seq(R)
<1> DEFINE Fixed(f, n) ==
             f = [i \in 0..n |-> IF i = 0 THEN <<>>
                                ELSE IF s[i] \in kept THEN Append(f[i - 1], s[i]) ELSE f[i - 1]]
           W == {n \in 0..Len(s) : \E f : Fixed(f, n)}
<1>0. Len(s) \in Nat
  BY LenProperties
<1>1. 0 \in W
  <2> DEFINE g == [i \in 0..0 |-> <<>>]
  <2>1. Fixed(g, 0)
    OBVIOUS
  <2>2. 0 \in 0..Len(s)
    BY <1>0
  <2> HIDE DEF Fixed, g
  <2> QED
    BY <2>1, <2>2, Zenon
<1>2. ASSUME NEW n \in 0..(Len(s) - 1), n \in W
      PROVE  n + 1 \in W
  <2>1. PICK f : Fixed(f, n)
    BY <1>2
  <2>2. /\ n \in Nat /\ n + 1 \in 0..Len(s)
        /\ \A i \in 0..(n + 1) : i # n + 1 => i \in 0..n
        /\ \A i \in 0..n : i # 0 => i - 1 \in 0..n /\ i - 1 # n + 1
        /\ (n + 1) - 1 = n /\ n + 1 # 0 /\ n # n + 1
    BY <1>0
  <2> DEFINE g == [i \in 0..(n + 1) |-> IF i = n + 1
                     THEN (IF s[n + 1] \in kept THEN Append(f[n], s[n + 1]) ELSE f[n]) ELSE f[i]]
             rhs(h, i) == IF i = 0 THEN <<>>
                          ELSE IF s[i] \in kept THEN Append(h[i - 1], s[i]) ELSE h[i - 1]
  <2>3. ASSUME NEW i \in 0..(n + 1)
        PROVE  g[i] = rhs(g, i)
    <3>1. CASE i = n + 1
      <4>1. g[i - 1] = f[n] /\ i - 1 = n
        BY <2>2, <3>1
      <4> QED
        BY <2>2, <3>1, <4>1
    <3>2. CASE i # n + 1
      <4>1. i \in 0..n /\ g[i] = f[i]
        BY <2>2, <3>2
      <4>2. i # 0 => g[i - 1] = f[i - 1]
        BY <2>2, <4>1
      <4>3. f[i] = rhs(f, i)
        BY <2>1, <4>1
      <4>4. rhs(f, i) = rhs(g, i)
        BY <4>2
      <4> QED
        BY <4>1, <4>3, <4>4
    <3> QED
      BY <3>1, <3>2
  <2>4. Fixed(g, n + 1)
    <3>1. g = [i \in 0..(n + 1) |-> rhs(g, i)]
      <4> DEFINE h == [i \in 0..(n + 1) |-> rhs(g, i)]
      <4>1. \A i \in 0..(n + 1) : h[i] = g[i]
        BY <2>3
      <4>2. g = [i \in 0..(n + 1) |-> g[i]] /\ h = [i \in 0..(n + 1) |-> h[i]]
        OBVIOUS
      <4> HIDE DEF g, h
      <4>3. g = h
        BY <4>1, <4>2
      <4> QED
        BY <4>3 DEF h
    <3> QED
      BY <3>1
  <2> HIDE DEF Fixed, g
  <2> QED
    BY <2>2, <2>4
<1>3. Len(s) \in W
  <2> HIDE DEF W
  <2>1. \A n \in 0..Len(s) : n \in W
    BY <1>0, <1>1, <1>2, InductionUpTo
  <2> QED
    BY <1>0, <2>1
<1> DEFINE F == CHOOSE f : Fixed(f, Len(s))
<1>4. Fixed(F, Len(s)) /\ Filter(s, kept) = F[Len(s)]
  <2>1. \E f : Fixed(f, Len(s))
    BY <1>3
  <2>2. Fixed(F, Len(s))
    <3> HIDE DEF Fixed
    <3> QED
      BY <2>1
  <2>3. Filter(s, kept) = F[Len(s)]
    BY DEF Filter
  <2> QED
    BY <2>2, <2>3
<1> HIDE DEF F
<1>5. FilterRun(F, s, kept, Len(s))
  <2>1. 0 \in 0..Len(s)
    BY <1>0
  <2>2. F[0] = <<>>
    BY <1>4, <2>1
  <2>3. ASSUME NEW i \in 1..Len(s)
        PROVE  F[i] = FilterStep(kept, F[i - 1], s[i])
    <3>1. i \in 0..Len(s) /\ i # 0
      BY <1>0
    <3> QED
      BY <1>4, <3>1 DEF FilterStep
  <2> QED
    BY <2>2, <2>3 DEF FilterRun
<1> HIDE DEF Fixed
<1>6. \A i \in 0..Len(s) : F[i] \in Seq(R)
  <2> DEFINE V == {i \in 0..Len(s) : F[i] \in Seq(R)}
  <2>1. 0 \in V
    <3>1. F[0] \in Seq(R)
      BY <1>5, EmptySeq DEF FilterRun
    <3> QED
      BY <1>0, <3>1
  <2>2. ASSUME NEW i \in 0..(Len(s) - 1), i \in V
        PROVE  i + 1 \in V
    <3>1. i + 1 \in 1..Len(s) /\ (i + 1) - 1 = i /\ i + 1 \in 0..Len(s)
      BY <1>0
    <3>2. F[i + 1] = FilterStep(kept, F[i], s[i + 1]) /\ s[i + 1] \in R /\ F[i] \in Seq(R)
      BY <1>5, <2>2, <3>1, ElementOfSeq DEF FilterRun
    <3>3. F[i + 1] \in Seq(R)
      BY <3>2, AppendProperties DEF FilterStep
    <3> QED
      BY <3>1, <3>3
  <2>3. \A i \in 0..Len(s) : i \in V
    <3> HIDE DEF V
    <3> QED
      BY <1>0, <2>1, <2>2, InductionUpTo
  <2> QED
    BY <2>3
<1> QED
  BY <1>4, <1>5, <1>6

\* What is kept of a prefix does not depend on what comes after it.
LEMMA StepsAgree ==
    ASSUME NEW n \in Nat, NEW s, NEW t, NEW kept, NEW f, NEW g,
           FilterRun(f, s, kept, n), FilterRun(g, t, kept, n), \A i \in 1..n : s[i] = t[i]
    PROVE  f[n] = g[n]
<1> DEFINE W == {i \in 0..n : f[i] = g[i]}
<1>1. 0 \in W
  BY DEF FilterRun
<1>2. ASSUME NEW i \in 0..(n - 1), i \in W
      PROVE  i + 1 \in W
  <2>1. i + 1 \in 1..n /\ (i + 1) - 1 = i /\ i + 1 \in 0..n /\ f[i] = g[i]
    BY <1>2
  <2>2. f[i + 1] = g[i + 1]
    BY <2>1 DEF FilterRun
  <2> QED
    BY <2>1, <2>2
<1>3. \A i \in 0..n : i \in W
  <2> HIDE DEF W
  <2> QED
    BY <1>1, <1>2, InductionUpTo
<1> QED
  BY <1>3

LEMMA FilterType ==
    ASSUME NEW R, NEW s \in Seq(R), NEW kept
    PROVE  Filter(s, kept) \in Seq(R)
<1>1. Len(s) \in 0..Len(s)
  BY LenProperties
<1> QED
  BY <1>1, FilterSteps

LEMMA FilterEmpty ==
    ASSUME NEW kept
    PROVE  Filter(<<>>, kept) = <<>>
<1>1. <<>> \in Seq({}) /\ Len(<<>>) = 0
  BY EmptySeq
<1>2. PICK f : FilterRun(f, <<>>, kept, 0) /\ Filter(<<>>, kept) = f[0]
  BY <1>1, FilterSteps
<1> QED
  BY <1>2 DEF FilterRun

LEMMA FilterAppend ==
    ASSUME NEW R, NEW s \in Seq(R), NEW x \in R, NEW kept
    PROVE  Filter(Append(s, x), kept) =
             IF x \in kept THEN Append(Filter(s, kept), x) ELSE Filter(s, kept)
<1> DEFINE n == Len(s)
           t == Append(s, x)
<1>1. /\ n \in Nat /\ t \in Seq(R) /\ Len(t) = n + 1 /\ t[n + 1] = x
      /\ \A i \in 1..n : t[i] = s[i]
  BY LenProperties, AppendProperties
<1>2. PICK f : FilterRun(f, s, kept, n) /\ Filter(s, kept) = f[n]
  BY FilterSteps
<1> HIDE DEF t
<1>3. PICK g : FilterRun(g, t, kept, n + 1) /\ Filter(t, kept) = g[n + 1]
  BY <1>1, FilterSteps
<1> HIDE DEF n
<1>4. FilterRun(g, t, kept, n)
  BY <1>1, <1>3 DEF FilterRun
<1>5. g[n] = f[n]
  BY <1>1, <1>2, <1>4, StepsAgree
<1>6. n + 1 \in 1..(n + 1) /\ (n + 1) - 1 = n
  BY <1>1
<1>7. g[n + 1] = FilterStep(kept, g[n], x)
  BY <1>1, <1>3, <1>6 DEF FilterRun
<1> QED
  BY <1>2, <1>3, <1>5, <1>7 DEF FilterStep, t

LEMMA FilterConcat ==
    ASSUME NEW R, NEW a \in Seq(R), NEW b \in Seq(R), NEW kept
    PROVE  Filter(a \o b, kept) = Filter(a, kept) \o Filter(b, kept)
<1> DEFINE W == {s \in Seq(R) : Filter(a \o s, kept) = Filter(a, kept) \o Filter(s, kept)}
<1>1. <<>> \in W
  <2>1. <<>> \in Seq(R) /\ a \o <<>> = a /\ Filter(<<>>, kept) = <<>>
    BY EmptySeq, ConcatEmptySeq, FilterEmpty
  <2>2. Filter(a, kept) \o <<>> = Filter(a, kept)
    BY FilterType, ConcatEmptySeq
  <2>3. Filter(a \o <<>>, kept) = Filter(a, kept) \o Filter(<<>>, kept)
    BY <2>1, <2>2
  <2> QED
    BY <2>1, <2>3, Zenon
<1>2. ASSUME NEW s \in Seq(R), NEW x \in R, s \in W
      PROVE  Append(s, x) \in W
  <2> DEFINE fa == Filter(a, kept)
             fs == Filter(s, kept)
  <2>1. /\ fa \in Seq(R) /\ fs \in Seq(R) /\ a \o s \in Seq(R) /\ <<x>> \in Seq(R)
        /\ Append(s, x) \in Seq(R) /\ fa \o fs \in Seq(R)
    BY FilterType, ConcatProperties, AppendProperties
  <2>2. a \o Append(s, x) = Append(a \o s, x)
    <3>1. a \o (s \o <<x>>) = (a \o s) \o <<x>>
      BY <2>1, ConcatAssociative
    <3> QED
      BY <2>1, <3>1, AppendIsConcat
  <2>3. Append(fa \o fs, x) = fa \o Append(fs, x)
    <3>1. fa \o (fs \o <<x>>) = (fa \o fs) \o <<x>>
      BY <2>1, ConcatAssociative
    <3> QED
      BY <2>1, <3>1, AppendIsConcat
  <2>4. Filter(a \o s, kept) = fa \o fs
    BY <1>2
  <2>5. /\ Filter(Append(a \o s, x), kept) =
             IF x \in kept THEN Append(Filter(a \o s, kept), x) ELSE Filter(a \o s, kept)
        /\ Filter(Append(s, x), kept) = IF x \in kept THEN Append(fs, x) ELSE fs
    BY <2>1, FilterAppend
  <2> HIDE DEF fa, fs
  <2>6. Filter(a \o Append(s, x), kept) = fa \o Filter(Append(s, x), kept)
    BY <2>2, <2>3, <2>4, <2>5
  <2> QED
    BY <2>1, <2>6, Zenon DEF fa
<1>3. b \in W
  <2> HIDE DEF W
  <2> QED
    BY <1>1, <1>2, SequenceInduction
<1> QED
  BY <1>3

\* Filtered twice, a list keeps what both filters keep.
LEMMA FilterFilter ==
    ASSUME NEW R, NEW s \in Seq(R), NEW kept, NEW wanted
    PROVE  Filter(Filter(s, kept), wanted) = Filter(s, {x \in R : x \in kept /\ x \in wanted})
<1> DEFINE both == {x \in R : x \in kept /\ x \in wanted}
           W == {q \in Seq(R) : Filter(Filter(q, kept), wanted) = Filter(q, both)}
<1>1. <<>> \in W
  <2>1. <<>> \in Seq(R)
    BY EmptySeq
  <2>2. Filter(Filter(<<>>, kept), wanted) = Filter(<<>>, both)
    BY FilterEmpty
  <2> QED
    BY <2>1, <2>2, Zenon
<1>2. ASSUME NEW q \in Seq(R), NEW x \in R, q \in W
      PROVE  Append(q, x) \in W
  <2>1. Filter(Filter(q, kept), wanted) = Filter(q, both)
    BY <1>2
  <2>2. Append(q, x) \in Seq(R)
    BY AppendProperties
  <2>3. Filter(q, kept) \in Seq(R)
    BY FilterType
  <2>4. x \in both <=> (x \in kept /\ x \in wanted)
    OBVIOUS
  <2>5. Filter(Append(q, x), kept) = IF x \in kept THEN Append(Filter(q, kept), x) ELSE Filter(q, kept)
    BY FilterAppend
  <2>6. Filter(Append(Filter(q, kept), x), wanted) =
          IF x \in wanted THEN Append(Filter(Filter(q, kept), wanted), x) ELSE Filter(Filter(q, kept), wanted)
    BY <2>3, FilterAppend
  <2> HIDE DEF both
  <2>7. Filter(Append(q, x), both) = IF x \in both THEN Append(Filter(q, both), x) ELSE Filter(q, both)
    BY FilterAppend
  <2>8. Filter(Filter(Append(q, x), kept), wanted) = Filter(Append(q, x), both)
    <3>1. CASE x \in kept
      BY <2>1, <2>4, <2>5, <2>6, <2>7, <3>1
    <3>2. CASE x \notin kept
      BY <2>1, <2>4, <2>5, <2>7, <3>2
    <3> QED
      BY <3>1, <3>2
  <2> QED
    BY <2>2, <2>8, Zenon
<1> HIDE DEF W
<1>3. \A q \in Seq(R) : q \in W
  BY <1>1, <1>2, SequenceInduction
<1> QED
  BY <1>3 DEF W

\* What is kept is in the set, and is no more than there was.
LEMMA FilterKeeps ==
    ASSUME NEW R, NEW s \in Seq(R), NEW kept
    PROVE  /\ Len(Filter(s, kept)) \in 0..Len(s)
           /\ \A i \in 1..Len(Filter(s, kept)) : Filter(s, kept)[i] \in kept
<1> DEFINE Good(q) == /\ Len(Filter(q, kept)) \in 0..Len(q)
                      /\ \A i \in 1..Len(Filter(q, kept)) : Filter(q, kept)[i] \in kept
           W == {q \in Seq(R) : Good(q)}
<1>1. <<>> \in W
  <2>1. <<>> \in Seq(R) /\ Len(<<>>) = 0 /\ Filter(<<>>, kept) = <<>>
    BY EmptySeq, FilterEmpty
  <2>2. Good(<<>>)
    BY <2>1
  <2> QED
    BY <2>1, <2>2, Zenon
<1>2. ASSUME NEW q \in Seq(R), NEW x \in R, q \in W
      PROVE  Append(q, x) \in W
  <2> DEFINE f == Filter(q, kept)
             F == Filter(Append(q, x), kept)
  <2>1. /\ f \in Seq(R) /\ Append(q, x) \in Seq(R) /\ Len(Append(q, x)) = Len(q) + 1
        /\ Len(q) \in Nat /\ Good(q)
        /\ F = IF x \in kept THEN Append(f, x) ELSE f
    BY <1>2, FilterType, FilterAppend, AppendProperties, LenProperties
  <2>2. Len(f) \in 0..Len(q) /\ \A i \in 1..Len(f) : f[i] \in kept
    BY <2>1
  <2>3. /\ Len(Append(f, x)) = Len(f) + 1 /\ Append(f, x)[Len(f) + 1] = x
        /\ \A i \in 1..Len(f) : Append(f, x)[i] = f[i]
    BY <2>1, AppendProperties
  <2> HIDE DEF f, F
  <2>4. Len(F) \in 0..Len(Append(q, x)) /\ \A i \in 1..Len(F) : F[i] \in kept
    <3>1. CASE x \in kept
      <4>1. F = Append(f, x) /\ Len(F) = Len(f) + 1 /\ Len(F) \in 0..(Len(q) + 1)
        BY <2>1, <2>2, <2>3, <3>1
      <4>2. ASSUME NEW i \in 1..Len(F) PROVE F[i] \in kept
        <5>1. i \in 1..Len(f) \/ i = Len(f) + 1
          BY <2>2, <4>1
        <5> QED
          BY <2>2, <2>3, <3>1, <4>1, <5>1
      <4> QED
        BY <2>1, <4>1, <4>2
    <3>2. CASE x \notin kept
      BY <2>1, <2>2, <3>2
    <3> QED
      BY <3>1, <3>2
  <2>5. Good(Append(q, x))
    BY <2>4 DEF F
  <2> QED
    BY <2>1, <2>5, Zenon
<1>3. s \in W
  <2> HIDE DEF W
  <2> QED
    BY <1>1, <1>2, SequenceInduction
<1> QED
  BY <1>3
\* What is kept stays in its order.
InOrderOf(f, q) ==
    \A j \in 1..Len(f) :
        \E b \in 1..Len(q) :
            /\ f[j] = q[b]
            /\ \A i \in 1..(j - 1) : \E a \in 1..(b - 1) : f[i] = q[a]

LEMMA FilterOrder ==
    ASSUME NEW R, NEW s \in Seq(R), NEW kept
    PROVE  InOrderOf(Filter(s, kept), s)
<1> DEFINE W == {q \in Seq(R) : InOrderOf(Filter(q, kept), q)}
<1>1. <<>> \in W
  <2>1. <<>> \in Seq(R) /\ Len(<<>>) = 0 /\ Filter(<<>>, kept) = <<>>
    BY EmptySeq, FilterEmpty
  <2>2. InOrderOf(<<>>, <<>>)
    BY <2>1 DEF InOrderOf
  <2> QED
    BY <2>1, <2>2, Zenon
<1>2. ASSUME NEW q \in Seq(R), NEW x \in R, q \in W
      PROVE  Append(q, x) \in W
  <2> DEFINE f == Filter(q, kept)
             F == Filter(Append(q, x), kept)
             t == Append(q, x)
  <2>1. /\ f \in Seq(R) /\ t \in Seq(R) /\ Len(t) = Len(q) + 1 /\ t[Len(q) + 1] = x
        /\ \A a \in 1..Len(q) : t[a] = q[a]
        /\ Len(q) \in Nat /\ Len(f) \in Nat
        /\ F = IF x \in kept THEN Append(f, x) ELSE f
    BY FilterType, FilterAppend, AppendProperties, LenProperties
  <2>2. InOrderOf(f, q)
    BY <1>2
  <2>3. /\ Len(Append(f, x)) = Len(f) + 1 /\ Append(f, x)[Len(f) + 1] = x
        /\ \A i \in 1..Len(f) : Append(f, x)[i] = f[i]
    BY <2>1, AppendProperties
  <2> HIDE DEF f, F, t
  <2>4. ASSUME NEW j \in 1..Len(f)
        PROVE  \E b \in 1..Len(t) :
                   /\ f[j] = t[b]
                   /\ \A i \in 1..(j - 1) : \E a \in 1..(b - 1) : f[i] = t[a]
    <3>1. PICK b \in 1..Len(q) :
              /\ f[j] = q[b]
              /\ \A i \in 1..(j - 1) : \E a \in 1..(b - 1) : f[i] = q[a]
      BY <2>2 DEF InOrderOf
    <3>2. b \in 1..Len(t) /\ t[b] = q[b] /\ \A a \in 1..(b - 1) : t[a] = q[a]
      BY <2>1, <3>1
    <3> QED
      BY <3>1, <3>2
  <2>5. InOrderOf(F, t)
    <3>1. CASE x \notin kept
      BY <2>1, <2>4, <3>1 DEF InOrderOf
    <3>2. CASE x \in kept
      <4>1. /\ Len(F) = Len(f) + 1 /\ F[Len(f) + 1] = x /\ \A i \in 1..Len(f) : F[i] = f[i]
        BY <2>1, <2>3, <3>2
      <4>2. \A i \in 1..Len(f) : \E a \in 1..Len(q) : F[i] = t[a]
        BY <2>1, <2>2, <4>1 DEF InOrderOf
      <4>3. ASSUME NEW j \in 1..Len(F)
            PROVE  \E b \in 1..Len(t) :
                       /\ F[j] = t[b]
                       /\ \A i \in 1..(j - 1) : \E a \in 1..(b - 1) : F[i] = t[a]
        <5>1. CASE j \in 1..Len(f)
          <6>1. F[j] = f[j] /\ \A i \in 1..(j - 1) : F[i] = f[i]
            BY <2>1, <4>1, <5>1
          <6>2. PICK b \in 1..Len(t) :
                    /\ f[j] = t[b]
                    /\ \A i \in 1..(j - 1) : \E a \in 1..(b - 1) : f[i] = t[a]
            BY <2>4, <5>1
          <6>3. /\ F[j] = t[b]
                /\ \A i \in 1..(j - 1) : \E a \in 1..(b - 1) : F[i] = t[a]
            BY <6>1, <6>2
          <6> QED
            BY <6>3, Zenon
        <5>2. CASE j = Len(f) + 1
          <6>1. Len(q) + 1 \in 1..Len(t) /\ F[j] = t[Len(q) + 1]
            BY <2>1, <4>1, <5>2
          <6>2. j - 1 = Len(f) /\ (Len(q) + 1) - 1 = Len(q)
            BY <2>1, <5>2
          <6>3. \A i \in 1..(j - 1) : \E a \in 1..((Len(q) + 1) - 1) : F[i] = t[a]
            BY <4>2, <6>2
          <6> DEFINE e == Len(q) + 1
          <6>4. /\ e \in 1..Len(t) /\ F[j] = t[e]
                /\ \A i \in 1..(j - 1) : \E a \in 1..(e - 1) : F[i] = t[a]
            BY <6>1, <6>3
          <6> HIDE DEF e
          <6> QED
            BY <6>4, Zenon
        <5>3. j \in 1..Len(f) \/ j = Len(f) + 1
          BY <2>1, <4>1
        <5> QED
          BY <5>1, <5>2, <5>3, Zenon
      <4> QED
        BY <4>3 DEF InOrderOf
    <3> QED
      BY <3>1, <3>2
  <2>6. InOrderOf(Filter(Append(q, x), kept), Append(q, x))
    BY <2>5 DEF F, t
  <2> QED
    BY <2>1, <2>6, Zenon DEF t
<1>3. s \in W
  <2> HIDE DEF W
  <2> QED
    BY <1>1, <1>2, SequenceInduction
<1> QED
  BY <1>3
-----------------------------------------------------------------------------
(* SumFunction.                                                            *)

\* What the fold makes of a set from the sums of the smaller ones.
SumStep(f, g, A) == IF A = {} THEN 0 ELSE LET x == CHOOSE x \in A : TRUE IN f[x] + g[A \ {x}]

LEMMA SumSteps ==
    ASSUME NEW T, IsFiniteSet(T), NEW f, DOMAIN f = T
    PROVE  \E g : SumFunction(f) = g[T] /\ \A A \in SUBSET T : g[A] = SumStep(f, g, A)
<1> DEFINE Small(n) == {A \in SUBSET T : Cardinality(A) <= n}
           W == {n \in 0..Cardinality(T) : \E g : \A A \in Small(n) : g[A] = SumStep(f, g, A)}
           c(A) == CHOOSE x \in A : TRUE
<1>0. /\ Cardinality(T) \in Nat
      /\ \A A \in SUBSET T : IsFiniteSet(A) /\ Cardinality(A) \in 0..Cardinality(T)
  BY FS_CardinalityType, FS_Subset
<1>1. \A A \in SUBSET T : A # {} =>
        c(A) \in A /\ A \ {c(A)} \in SUBSET T /\ Cardinality(A \ {c(A)}) = Cardinality(A) - 1
  <2>1. ASSUME NEW A \in SUBSET T, A # {}
        PROVE  c(A) \in A /\ A \ {c(A)} \in SUBSET T /\ Cardinality(A \ {c(A)}) = Cardinality(A) - 1
    <3>1. c(A) \in A
      BY <2>1
    <3>2. Cardinality(A \ {c(A)}) = Cardinality(A) - 1
      BY <1>0, <3>1, FS_RemoveElement
    <3> QED
      BY <3>1, <3>2
  <2> QED
    BY <2>1
<1>2. \A g : \A A \in SUBSET T : SumStep(f, g, A) = IF A = {} THEN 0 ELSE f[c(A)] + g[A \ {c(A)}]
  BY DEF SumStep
<1> HIDE DEF c
<1>3. 0 \in W
  <2> DEFINE g == [A \in SUBSET T |-> 0]
  <2>1. \A A \in Small(0) : A = {}
    BY <1>0, FS_EmptySet
  <2>2. \A A \in Small(0) : g[A] = SumStep(f, g, A)
    BY <1>2, <2>1
  <2>3. 0 \in 0..Cardinality(T)
    BY <1>0
  <2> HIDE DEF g, Small
  <2> QED
    BY <2>2, <2>3, Zenon
<1>4. ASSUME NEW n \in 0..(Cardinality(T) - 1), n \in W
      PROVE  n + 1 \in W
  <2>1. PICK h : \A A \in Small(n) : h[A] = SumStep(f, h, A)
    BY <1>4
  <2> DEFINE g == [A \in SUBSET T |-> IF A \in Small(n) THEN h[A] ELSE SumStep(f, h, A)]
  <2>2. ASSUME NEW A \in Small(n + 1)
        PROVE  g[A] = SumStep(f, g, A)
    <3>1. g[A] = SumStep(f, h, A)
      BY <2>1
    <3>2. A # {} => g[A \ {c(A)}] = h[A \ {c(A)}]
      <4>1. A # {} => A \ {c(A)} \in SUBSET T /\ Cardinality(A \ {c(A)}) <= n
        BY <1>0, <1>1, <1>4
      <4> QED
        BY <4>1
    <3> HIDE DEF g
    <3> QED
      BY <1>2, <3>1, <3>2
  <2>3. n + 1 \in 0..Cardinality(T)
    BY <1>0
  <2> HIDE DEF g, Small
  <2> QED
    BY <2>2, <2>3, Zenon
<1>5. PICK h : \A A \in SUBSET T : h[A] = SumStep(f, h, A)
  <2>1. \A n \in 0..Cardinality(T) : n \in W
    <3> HIDE DEF W
    <3> QED
      BY <1>0, <1>3, <1>4, InductionUpTo
  <2>2. PICK h : \A A \in Small(Cardinality(T)) : h[A] = SumStep(f, h, A)
    BY <1>0, <2>1
  <2>3. Small(Cardinality(T)) = SUBSET T
    BY <1>0
  <2> QED
    BY <2>2, <2>3
<1> DEFINE Fixed(g) == g = [A \in SUBSET DOMAIN f |->
                              IF A = {} THEN 0
                              ELSE LET x == CHOOSE x \in A : TRUE IN f[x] + g[A \ {x}]]
           G == CHOOSE g : Fixed(g)
<1>6. \E g : Fixed(g)
  <2> DEFINE g == [A \in SUBSET T |-> h[A]]
  <2>1. \A A \in SUBSET T : g[A] = SumStep(f, g, A)
    <3>1. ASSUME NEW A \in SUBSET T
          PROVE  SumStep(f, h, A) = SumStep(f, g, A)
      BY <1>1, <1>2
    <3> QED
      BY <1>5, <3>1
  <2>2. Fixed(g)
    BY <2>1 DEF SumStep
  <2> QED
    BY <2>2
<1>7. Fixed(G)
  <2> HIDE DEF Fixed
  <2> QED
    BY <1>6
<1>8. SumFunction(f) = G[T]
  BY DEF SumFunction, SumFunctionOnSet, FoldFunctionOnSet, MapThenFoldSet
<1> HIDE DEF G
<1>9. \A A \in SUBSET T : G[A] = SumStep(f, G, A)
  BY <1>7 DEF SumStep
<1> QED
  BY <1>8, <1>9

LEMMA SumNatural ==
    ASSUME NEW T, IsFiniteSet(T), NEW f \in [T -> Nat]
    PROVE  SumFunction(f) \in Nat
<1>1. PICK g : SumFunction(f) = g[T] /\ \A A \in SUBSET T : g[A] = SumStep(f, g, A)
  BY SumSteps
<1> DEFINE W == {n \in 0..Cardinality(T) : \A A \in SUBSET T : Cardinality(A) = n => g[A] \in Nat}
<1>0. /\ Cardinality(T) \in Nat
      /\ \A A \in SUBSET T : IsFiniteSet(A) /\ Cardinality(A) \in 0..Cardinality(T)
  BY FS_CardinalityType, FS_Subset
<1>2. 0 \in W
  <2>1. \A A \in SUBSET T : Cardinality(A) = 0 => A = {}
    BY <1>0, FS_EmptySet
  <2>2. \A A \in SUBSET T : Cardinality(A) = 0 => g[A] = 0
    BY <1>1, <2>1 DEF SumStep
  <2>3. 0 \in 0..Cardinality(T)
    BY <1>0
  <2> QED
    BY <2>2, <2>3
<1>3. ASSUME NEW n \in 0..(Cardinality(T) - 1), n \in W
      PROVE  n + 1 \in W
  <2>1. ASSUME NEW A \in SUBSET T, Cardinality(A) = n + 1
        PROVE  g[A] \in Nat
    <3>1. A # {}
      BY <1>0, <2>1, FS_EmptySet
    <3>2. PICK x \in A : g[A] = f[x] + g[A \ {x}]
      BY <1>1, <3>1 DEF SumStep
    <3>3. A \ {x} \in SUBSET T /\ Cardinality(A \ {x}) = n
      <4>1. IsFiniteSet(A) /\ x \in A
        BY <1>0, <3>2
      <4>2. Cardinality(A \ {x}) = Cardinality(A) - 1
        BY <4>1, FS_RemoveElement
      <4> QED
        BY <1>0, <2>1, <4>2
    <3> QED
      BY <1>3, <3>2, <3>3
  <2> QED
    BY <1>0, <2>1
<1>4. \A n \in 0..Cardinality(T) : n \in W
  <2> HIDE DEF W
  <2> QED
    BY <1>0, <1>2, <1>3, InductionUpTo
<1>5. g[T] \in Nat
  BY <1>0, <1>4
<1> QED
  BY <1>1, <1>5

\* Two functions that differ in one place differ by that much in their sums.
LEMMA SumChange ==
    ASSUME NEW T, IsFiniteSet(T), NEW f \in [T -> Nat], NEW h \in [T -> Nat],
           NEW t \in T, \A x \in T : x # t => h[x] = f[x]
    PROVE  SumFunction(h) + f[t] = SumFunction(f) + h[t]
<1>1. PICK g : SumFunction(f) = g[T] /\ \A A \in SUBSET T : g[A] = SumStep(f, g, A)
  BY SumSteps
<1>2. PICK k : SumFunction(h) = k[T] /\ \A A \in SUBSET T : k[A] = SumStep(h, k, A)
  BY SumSteps
<1> DEFINE Alike(A) == /\ g[A] \in Nat /\ k[A] \in Nat
                       /\ t \in A => k[A] + f[t] = g[A] + h[t]
                       /\ t \notin A => k[A] = g[A]
           W == {n \in 0..Cardinality(T) : \A A \in SUBSET T : Cardinality(A) = n => Alike(A)}
<1>0. /\ Cardinality(T) \in Nat
      /\ \A A \in SUBSET T : IsFiniteSet(A) /\ Cardinality(A) \in 0..Cardinality(T)
  BY FS_CardinalityType, FS_Subset
<1>3. 0 \in W
  <2>1. \A A \in SUBSET T : Cardinality(A) = 0 => A = {}
    BY <1>0, FS_EmptySet
  <2>2. \A A \in SUBSET T : Cardinality(A) = 0 => g[A] = 0 /\ k[A] = 0
    BY <1>1, <1>2, <2>1 DEF SumStep
  <2>3. 0 \in 0..Cardinality(T)
    BY <1>0
  <2> QED
    BY <2>1, <2>2, <2>3
<1>4. ASSUME NEW n \in 0..(Cardinality(T) - 1), n \in W
      PROVE  n + 1 \in W
  <2>1. ASSUME NEW A \in SUBSET T, Cardinality(A) = n + 1
        PROVE  Alike(A)
    <3> DEFINE x == CHOOSE x \in A : TRUE
    <3>1. x \in A
      BY <1>0, <2>1, FS_EmptySet
    <3>2. g[A] = f[x] + g[A \ {x}] /\ k[A] = h[x] + k[A \ {x}]
      BY <1>1, <1>2, <3>1 DEF SumStep
    <3> HIDE DEF x
    <3>3. A \ {x} \in SUBSET T /\ Cardinality(A \ {x}) = n
      <4>1. IsFiniteSet(A)
        BY <1>0
      <4>2. Cardinality(A \ {x}) = Cardinality(A) - 1
        BY <3>1, <4>1, FS_RemoveElement
      <4> QED
        BY <1>0, <2>1, <4>2
    <3>4. Alike(A \ {x})
      BY <1>4, <3>3
    <3>5. f[x] \in Nat /\ h[x] \in Nat /\ f[t] \in Nat /\ h[t] \in Nat
      BY <3>1
    <3>6. CASE x = t
      BY <3>1, <3>2, <3>4, <3>5, <3>6
    <3>7. CASE x # t
      <4>1. h[x] = f[x] /\ (t \in A <=> t \in A \ {x})
        BY <3>1, <3>7
      <4> QED
        BY <3>2, <3>4, <3>5, <4>1
    <3> QED
      BY <3>6, <3>7
  <2>2. n + 1 \in 0..Cardinality(T)
    BY <1>0
  <2> HIDE DEF Alike
  <2> QED
    BY <2>1, <2>2
<1>5. \A n \in 0..Cardinality(T) : n \in W
  <2> HIDE DEF W
  <2> QED
    BY <1>0, <1>3, <1>4, InductionUpTo
<1>6. Alike(T)
  <2>1. Cardinality(T) \in W /\ T \in SUBSET T
    BY <1>0, <1>5
  <2> HIDE DEF Alike
  <2> QED
    BY <2>1
<1> QED
  BY <1>1, <1>2, <1>6

LEMMA SumOfZeroes ==
    ASSUME NEW T, IsFiniteSet(T), NEW f \in [T -> Nat], \A x \in T : f[x] = 0
    PROVE  SumFunction(f) = 0
<1>1. PICK g : SumFunction(f) = g[T] /\ \A A \in SUBSET T : g[A] = SumStep(f, g, A)
  BY SumSteps
<1> DEFINE W == {n \in 0..Cardinality(T) : \A A \in SUBSET T : Cardinality(A) = n => g[A] = 0}
<1>0. /\ Cardinality(T) \in Nat
      /\ \A A \in SUBSET T : IsFiniteSet(A) /\ Cardinality(A) \in 0..Cardinality(T)
  BY FS_CardinalityType, FS_Subset
<1>2. 0 \in W
  <2>1. \A A \in SUBSET T : Cardinality(A) = 0 => A = {}
    BY <1>0, FS_EmptySet
  <2>2. \A A \in SUBSET T : Cardinality(A) = 0 => g[A] = 0
    BY <1>1, <2>1 DEF SumStep
  <2>3. 0 \in 0..Cardinality(T)
    BY <1>0
  <2> QED
    BY <2>2, <2>3
<1>3. ASSUME NEW n \in 0..(Cardinality(T) - 1), n \in W
      PROVE  n + 1 \in W
  <2>1. ASSUME NEW A \in SUBSET T, Cardinality(A) = n + 1
        PROVE  g[A] = 0
    <3>1. A # {}
      BY <1>0, <2>1, FS_EmptySet
    <3>2. PICK x \in A : g[A] = f[x] + g[A \ {x}]
      BY <1>1, <3>1 DEF SumStep
    <3>3. A \ {x} \in SUBSET T /\ Cardinality(A \ {x}) = n
      <4>1. IsFiniteSet(A) /\ x \in A
        BY <1>0, <3>2
      <4>2. Cardinality(A \ {x}) = Cardinality(A) - 1
        BY <4>1, FS_RemoveElement
      <4> QED
        BY <1>0, <2>1, <4>2
    <3> QED
      BY <1>3, <3>2, <3>3
  <2> QED
    BY <1>0, <2>1
<1>4. \A n \in 0..Cardinality(T) : n \in W
  <2> HIDE DEF W
  <2> QED
    BY <1>0, <1>2, <1>3, InductionUpTo
<1>5. g[T] = 0
  BY <1>0, <1>4
<1> QED
  BY <1>1, <1>5

-----------------------------------------------------------------------------
(* Comprehensions: [f(x) for x in s].                                      *)

\* f is opaque to the provers where it is only mapped.
Maps(f, A, B) == f \in [A -> B]

Mapped(f, s) == [i \in DOMAIN s |-> f[s[i]]]

LEMMA MappedType ==
    ASSUME NEW A, NEW B, NEW f, Maps(f, A, B), NEW s \in Seq(A)
    PROVE  /\ Mapped(f, s) \in Seq(B) /\ Len(Mapped(f, s)) = Len(s)
           /\ \A i \in 1..Len(s) : Mapped(f, s)[i] = f[s[i]]
<1> DEFINE n == Len(s)
           m == [i \in 1..n |-> f[s[i]]]
<1>1. n \in Nat /\ DOMAIN s = 1..n /\ \A i \in 1..n : s[i] \in A
  BY LenProperties, ElementOfSeq
<1>2. Mapped(f, s) = m
  BY <1>1 DEF Mapped
<1>3. m \in [1..n -> B]
  BY <1>1 DEF Maps
<1>4. m \in Seq(B)
  <2> HIDE DEF m, n
  <2> QED
    BY <1>1, <1>3, SeqDef
<1>5. Len(m) = n
  <2> HIDE DEF n
  <2> QED
    BY <1>1
<1> QED
  BY <1>2, <1>4, <1>5

LEMMA MappedEmpty ==
    ASSUME NEW A, NEW B, NEW f, Maps(f, A, B)
    PROVE  Mapped(f, <<>>) = <<>>
<1> DEFINE Empties(s) == s = <<>> => Mapped(f, s) = <<>>
<1>1. ASSUME NEW s \in Seq(A)
      PROVE  Empties(s)
  <2>1. Mapped(f, s) \in Seq(B) /\ Len(Mapped(f, s)) = Len(s)
    BY MappedType
  <2>2. Len(s) = 0 => Mapped(f, s) = <<>>
    BY <2>1, EmptySeq
  <2> QED
    BY <2>2, EmptySeq
<1>2. <<>> \in Seq(A)
  BY EmptySeq
<1>3. Empties(<<>>)
  <2> HIDE DEF Empties
  <2> QED
    BY <1>1, <1>2
<1> QED
  BY <1>3

LEMMA MappedAppend ==
    ASSUME NEW A, NEW B, NEW f, Maps(f, A, B), NEW s \in Seq(A), NEW x \in A
    PROVE  Mapped(f, Append(s, x)) = Append(Mapped(f, s), f[x])
<1> DEFINE n == Len(s)
           t == Append(s, x)
           m == Mapped(f, s)
           left == Mapped(f, t)
           right == Append(m, f[x])
<1>1. /\ n \in Nat /\ t \in Seq(A) /\ Len(t) = n + 1 /\ t[n + 1] = x
      /\ \A i \in 1..n : t[i] = s[i]
  BY LenProperties, AppendProperties
<1>2. m \in Seq(B) /\ Len(m) = n /\ \A i \in 1..n : m[i] = f[s[i]]
  BY MappedType
<1>3. left \in Seq(B) /\ Len(left) = n + 1 /\ \A i \in 1..(n + 1) : left[i] = f[t[i]]
  <2> HIDE DEF t, n
  <2> QED
    BY <1>1, MappedType
<1>4. /\ right \in Seq(B) /\ Len(right) = n + 1 /\ right[n + 1] = f[x]
      /\ \A i \in 1..n : right[i] = m[i]
  <2>1. f[x] \in B
    BY DEF Maps
  <2> HIDE DEF m, n
  <2> QED
    BY <1>2, <2>1, AppendProperties
<1> HIDE DEF n, t, m, left, right
<1>5. \A i \in 1..(n + 1) : i \in 1..n \/ i = n + 1
  BY <1>1
<1>6. \A i \in 1..(n + 1) : left[i] = right[i]
  BY <1>1, <1>2, <1>3, <1>4, <1>5
<1>7. left = right
  BY <1>3, <1>4, <1>6, SeqEqual
<1> QED
  BY <1>7 DEF left, right, t, m

\* A filter that everything passes.
LEMMA FilterAll ==
    ASSUME NEW R, NEW s \in Seq(R), NEW kept, \A i \in 1..Len(s) : s[i] \in kept
    PROVE  Filter(s, kept) = s
<1> DEFINE Passes(q) == (\A i \in 1..Len(q) : q[i] \in kept) => Filter(q, kept) = q
           W == {q \in Seq(R) : Passes(q)}
<1>1. <<>> \in W
  BY EmptySeq, FilterEmpty
<1>2. ASSUME NEW q \in Seq(R), NEW x \in R, q \in W
      PROVE  Append(q, x) \in W
  <2> DEFINE t == Append(q, x)
             n == Len(q)
  <2>1. /\ n \in Nat /\ t \in Seq(R) /\ Len(t) = n + 1 /\ t[n + 1] = x
        /\ \A i \in 1..n : t[i] = q[i]
    BY LenProperties, AppendProperties
  <2>2. Filter(t, kept) = IF x \in kept THEN Append(Filter(q, kept), x) ELSE Filter(q, kept)
    BY FilterAppend
  <2>3. ASSUME \A i \in 1..Len(t) : t[i] \in kept
        PROVE  Filter(t, kept) = t
    <3> HIDE DEF t
    <3>1. (\A i \in 1..n : q[i] \in kept) /\ x \in kept
      <4> HIDE DEF n
      <4>1. n + 1 \in 1..Len(t) /\ \A i \in 1..n : i \in 1..Len(t)
        BY <2>1
      <4> QED
        BY <2>1, <2>3, <4>1
    <3>2. Filter(q, kept) = q
      BY <1>2, <3>1
    <3> QED
      BY <2>2, <3>1, <3>2 DEF t
  <2> QED
    BY <2>1, <2>3
<1>3. s \in W
  <2> HIDE DEF W
  <2> QED
    BY <1>1, <1>2, SequenceInduction
<1> QED
  BY <1>3

-----------------------------------------------------------------------------
(* The end of a sequence, and the sum of a function along it. *)

Slid(q, x, size) == IF Len(q) = size THEN Append(Tail(q), x) ELSE Append(q, x)

\* One more element, seen from the end.
LEMMA WindowMoves ==
    ASSUME NEW R, NEW s \in Seq(R), NEW x \in R, NEW size \in Nat, size > 0
    PROVE  /\ LastN(s, size) \in Seq(R)
           /\ LastN(Append(s, x), size) = Slid(LastN(s, size), x, size)
<1> DEFINE n == Len(s)
           t == Append(s, x)
<1>0. size \in Nat /\ size > 0
  OBVIOUS
<1>1. /\ n \in Nat /\ t \in Seq(R) /\ Len(t) = n + 1 /\ t[n + 1] = x
      /\ \A i \in 1..n : t[i] = s[i] /\ s[i] \in R
  BY LenProperties, AppendProperties, ElementOfSeq
<1>2. CASE n < size
  <2>1. LastN(s, size) = s /\ LastN(t, size) = t
    BY <1>0, <1>1, <1>2 DEF LastN
  <2> QED
    BY <1>0, <1>2, <2>1 DEF Slid
<1>3. CASE n >= size
  <2> DEFINE u == SubSeq(s, n - size + 1, n)
             v == SubSeq(t, n + 1 - size + 1, n + 1)
             w == Append(Tail(u), x)
  <2>1. LastN(t, size) = v
    <3>1. Len(t) = n + 1 /\ n + 1 > size
      BY <1>0, <1>1, <1>3
    <3>2. LastN(t, size) = SubSeq(t, Len(t) - size + 1, Len(t))
      <4> HIDE DEF n, t
      <4> QED
        BY <3>1 DEF LastN
    <3>3. n + 1 = Len(t)
      BY <3>1
    <3>4. SubSeq(t, Len(t) - size + 1, Len(t)) = SubSeq(t, n + 1 - size + 1, n + 1)
      <4> DEFINE k == Len(t)
                 m == n + 1
      <4>1. k = m
        BY <3>3
      <4> HIDE DEF k, m, t
      <4>2. SubSeq(t, k - size + 1, k) = SubSeq(t, m - size + 1, m)
        BY <4>1
      <4> QED
        BY <4>2 DEF k, m
    <3> QED
      BY <3>2, <3>4
  <2>2. LastN(s, size) = u
    <3>1. CASE n > size
      BY <3>1 DEF LastN
    <3>2. CASE ~(n > size)
      <4>1. n - size + 1 = 1
        BY <1>0, <1>1, <1>3, <3>2
      <4>2. u = SubSeq(s, 1, Len(s))
        BY <4>1
      <4>3. u = s
        BY <4>2, SubSeqFull
      <4> HIDE DEF u
      <4> QED
        BY <3>2, <4>3 DEF LastN
    <3> QED
      BY <3>1, <3>2
  <2>3. /\ u \in Seq(R) /\ Len(u) = size
        /\ \A i \in 1..size : u[i] = s[n - size + i]
    <3> HIDE DEF n
    <3>1. \A i \in (n - size + 1)..n : s[i] \in R
      BY <1>0, <1>1, <1>3
    <3>2. u = [i \in 1..(n - (n - size + 1) + 1) |-> s[(n - size + 1) + i - 1]]
      BY <1>0, <1>1, <1>3
    <3>3. n - (n - size + 1) + 1 = size /\ \A i \in 1..size : (n - size + 1) + i - 1 = n - size + i
      BY <1>0, <1>1
    <3>4. u = [i \in 1..size |-> s[n - size + i]]
      BY <3>2, <3>3
    <3>5. \A i \in 1..size : n - size + i \in (n - size + 1)..n
      BY <1>0, <1>1, <1>3
    <3> HIDE DEF u
    <3>6. u \in [1..size -> R]
      BY <3>1, <3>4, <3>5
    <3> QED
      BY <1>0, <3>4, <3>6, SeqDef
  <2>4. /\ v \in Seq(R) /\ Len(v) = size
        /\ \A i \in 1..size : v[i] = t[n + 1 - size + i]
    <3> HIDE DEF n, t
    <3>1. \A i \in (n + 1 - size + 1)..(n + 1) : t[i] \in R
      <4>1. \A i \in (n + 1 - size + 1)..(n + 1) : i \in 1..Len(t)
        BY <1>0, <1>1, <1>3
      <4> QED
        BY <1>1, <4>1, ElementOfSeq
    <3>2. v = [i \in 1..((n + 1) - (n + 1 - size + 1) + 1) |-> t[(n + 1 - size + 1) + i - 1]]
      BY <1>0, <1>1, <1>3
    <3>3. /\ (n + 1) - (n + 1 - size + 1) + 1 = size
          /\ \A i \in 1..size : (n + 1 - size + 1) + i - 1 = n + 1 - size + i
      BY <1>0, <1>1
    <3>4. v = [i \in 1..size |-> t[n + 1 - size + i]]
      BY <3>2, <3>3
    <3>5. \A i \in 1..size : n + 1 - size + i \in (n + 1 - size + 1)..(n + 1)
      BY <1>0, <1>1, <1>3
    <3> HIDE DEF v
    <3>6. v \in [1..size -> R]
      BY <3>1, <3>4, <3>5
    <3> QED
      BY <1>0, <3>4, <3>6, SeqDef
  <2>5. /\ w \in Seq(R) /\ Len(w) = size /\ w[size] = x
        /\ \A i \in 1..(size - 1) : w[i] = u[i + 1]
    <3> HIDE DEF u, n
    <3>1. u # <<>>
      BY <1>0, <2>3, EmptySeq
    <3>2. Tail(u) \in Seq(R) /\ Len(Tail(u)) = size - 1 /\ \A i \in 1..(size - 1) : Tail(u)[i] = u[i + 1]
      BY <2>3, <3>1, HeadTailProperties
    <3> DEFINE r == Tail(u)
    <3> HIDE DEF r
    <3>3. /\ Append(r, x) \in Seq(R) /\ Len(Append(r, x)) = Len(r) + 1 /\ Append(r, x)[Len(r) + 1] = x
          /\ \A i \in 1..Len(r) : Append(r, x)[i] = r[i]
      BY <3>2, AppendProperties DEF r
    <3>4. size - 1 + 1 = size
      BY <1>0
    <3> QED
      BY <3>2, <3>3, <3>4 DEF r
  <2> HIDE DEF n, t, u, v, w
  <2>6. \A i \in 1..size : v[i] = w[i]
    <3> TAKE i \in 1..size
    <3>1. CASE i = size
      <4>1. n + 1 - size + i = n + 1
        BY <1>0, <1>1, <3>1
      <4> QED
        BY <1>1, <2>4, <2>5, <3>1, <4>1
    <3>2. CASE i # size
      <4>1. i \in 1..(size - 1) /\ i + 1 \in 1..size /\ n - size + (i + 1) = n + 1 - size + i
            /\ n + 1 - size + i \in 1..n
        BY <1>0, <1>1, <1>3, <3>2
      <4> QED
        BY <1>1, <2>3, <2>4, <2>5, <4>1
    <3> QED
      BY <3>1, <3>2
  <2>7. v = w
    BY <2>4, <2>5, <2>6, SeqEqual
  <2>8. Slid(u, x, size) = w
    BY <2>3 DEF Slid, w
  <2> QED
    BY <2>1, <2>2, <2>3, <2>7, <2>8 DEF t
<1>4. LastN(s, size) \in Seq(R)
  <2>1. n > size => \A i \in (n - size + 1)..n : s[i] \in R
    <3> HIDE DEF n
    <3> QED
      BY <1>0, <1>1
  <2>2. n > size => SubSeq(s, n - size + 1, n) \in Seq(R)
    <3>1. n > size => n - size + 1 \in Int /\ n \in Int
      BY <1>0, <1>1
    <3> QED
      BY <1>0, <1>1, <2>1, SubSeqProperties
  <2> QED
    BY <2>2 DEF LastN
<1> QED
  BY <1>0, <1>1, <1>2, <1>3, <1>4

\* The end of a sequence is one, and no longer than asked for.
LEMMA LastNShort ==
    ASSUME NEW R, NEW s \in Seq(R), NEW n \in Nat, n > 0
    PROVE  LastN(s, n) \in Seq(R) /\ Len(LastN(s, n)) \in Nat /\ Len(LastN(s, n)) <= n
<1>0. Len(s) \in Nat
  BY LenProperties
<1>1. CASE Len(s) > n
  <2>1. LastN(s, n) = SubSeq(s, Len(s) - n + 1, Len(s))
    BY <1>1 DEF LastN
  <2>2. \A i \in (Len(s) - n + 1)..Len(s) : s[i] \in R
    <3>1. \A i \in (Len(s) - n + 1)..Len(s) : i \in 1..Len(s)
      BY <1>0, <1>1
    <3> QED
      BY <3>1, ElementOfSeq
  <2>3. Len(s) - n + 1 \in Int /\ Len(s) \in Int /\ Len(s) - n + 1 <= Len(s)
    BY <1>0, <1>1
  <2>4. /\ SubSeq(s, Len(s) - n + 1, Len(s)) \in Seq(R)
        /\ Len(SubSeq(s, Len(s) - n + 1, Len(s))) = Len(s) - (Len(s) - n + 1) + 1
    BY <2>2, <2>3, SubSeqProperties
  <2> QED
    BY <1>0, <2>1, <2>4
<1>2. CASE Len(s) <= n
  <2>1. LastN(s, n) = s
    BY <1>0, <1>2 DEF LastN
  <2> QED
    BY <1>0, <1>2, <2>1
<1> QED
  BY <1>0, <1>1, <1>2

\* The sum of a function along a sequence.
LEMMA SumLoop ==
    ASSUME NEW R, NEW f, Maps(f, R, Int)
    PROVE  Loop([sum \in Int |-> [x \in DOMAIN f |-> sum + f[x]]], 0, Int, R)
<1>1. DOMAIN f = R /\ \A x \in R : f[x] \in Int
  BY DEF Maps
<1> QED
  BY <1>1 DEF Loop

LEMMA SumOverLaws ==
    ASSUME NEW R, NEW f, Maps(f, R, Int)
    PROVE  /\ SumOver(f, <<>>) = 0
           /\ \A s \in Seq(R) : /\ SumOver(f, s) \in Int
                                /\ \A x \in R : SumOver(f, Append(s, x)) = SumOver(f, s) + f[x]
<1> DEFINE step == [sum \in Int |-> [x \in DOMAIN f |-> sum + f[x]]]
<1>1. Loop(step, 0, Int, R) /\ \A sum \in Int, x \in R : step[sum][x] = sum + f[x]
  <2>1. DOMAIN f = R
    BY DEF Maps
  <2> QED
    BY <2>1, SumLoop
<1>2. \A s : SumOver(f, s) = Through(step, 0, s)
  BY DEF SumOver
<1> HIDE DEF step
<1>3. SumOver(f, <<>>) = 0
  BY <1>1, <1>2, ThroughEmpty
<1>4. ASSUME NEW s \in Seq(R)
      PROVE  SumOver(f, s) \in Int
  BY <1>1, <1>2, ThroughType
<1>5. ASSUME NEW s \in Seq(R), NEW x \in R
      PROVE  SumOver(f, Append(s, x)) = SumOver(f, s) + f[x]
  <2>1. Through(step, 0, Append(s, x)) = step[Through(step, 0, s)][x]
    BY <1>1, ThroughAppend
  <2>2. Through(step, 0, s) \in Int
    BY <1>2, <1>4
  <2> QED
    BY <1>1, <1>2, <2>1, <2>2
<1> QED
  BY <1>3, <1>4, <1>5, Zenon

MeanIs(unit, n, mean, sum) == mean * n = unit * sum
MeanGrows(unit, n, mean, sum, size) ==
    LET k == (unit * size - mean) \div (n + 1)
    IN  k \in Int /\ MeanIs(unit, n + 1, mean + k, sum + size)

\* A running mean, in units that a mean of n + 1 numbers is whole in, is exact.
LEMMA MeanExact ==
    ASSUME NEW n \in Nat, NEW mean \in Int, NEW sum \in Int, NEW size \in Int, NEW unit \in Nat, unit > 0,
           unit % (n + 1) = 0, MeanIs(unit, n, mean, sum)
    PROVE  MeanGrows(unit, n, mean, sum, size)
<1>0. mean * n = unit * sum
  BY DEF MeanIs
<1> DEFINE m == n + 1
           c == unit \div m
           k == (unit * size - mean) \div m
<1>1. m \in Nat /\ m > 0 /\ unit \in Int /\ c \in Int /\ unit = m * c
  <2>1. unit \in Int /\ m \in Nat /\ m > 0
    OBVIOUS
  <2> HIDE DEF m
  <2>2. unit \div m \in Int /\ (unit % m = 0 => unit = m * (unit \div m))
    BY <2>1
  <2> QED
    BY <2>1, <2>2 DEF m
<1>2. mean * m = mean * n + mean
  OBVIOUS
<1> HIDE DEF m, c
<1> DEFINE j == c * size - mean + c * sum
<1>3. j \in Int /\ unit * size - mean = m * j
  <2>1. m * j = m * (c * size) - m * mean + m * (c * sum)
    BY <1>1
  <2>2. m * (c * size) = unit * size /\ m * (c * sum) = unit * sum
    BY <1>1
  <2>3. m * mean = unit * sum + mean
    BY <1>0, <1>1, <1>2
  <2> DEFINE a == unit * size
             b == unit * sum
             d == m * mean
             e == m * j
  <2>4. a \in Int /\ b \in Int /\ d \in Int /\ e \in Int
    BY <1>1
  <2>5. j \in Int
    BY <1>1
  <2>6. e = a - d + b /\ d = b + mean
    BY <2>1, <2>2, <2>3
  <2> HIDE DEF a, b, d, e, j
  <2>7. a - mean = e
    BY <2>4, <2>6
  <2> QED
    BY <2>5, <2>7 DEF a, e
<1> HIDE DEF j
<1>4. k = j
  BY <1>1, <1>3
<1>5. (mean + j) * m = unit * (sum + size)
  <2>1. (mean + j) * m = mean * m + m * j /\ unit * (sum + size) = unit * sum + unit * size
    BY <1>1, <1>3
  <2> DEFINE a == unit * size
             b == unit * sum
             d == mean * m
             e == m * j
             f == mean * n
  <2>2. a \in Int /\ b \in Int /\ d \in Int /\ e \in Int /\ f \in Int
    BY <1>1, <1>3
  <2>3. a - mean = e /\ d = f + mean /\ f = b
    BY <1>0, <1>2, <1>3
  <2> HIDE DEF a, b, d, e, f
  <2>4. d + e = b + a
    BY <2>2, <2>3
  <2> QED
    BY <2>1, <2>4 DEF a, b, d, e
<1>6. k \in Int /\ (mean + k) * (n + 1) = unit * (sum + size)
  BY <1>3, <1>4, <1>5 DEF m
<1> QED
  BY <1>6 DEF MeanGrows, MeanIs, m

\* The sum from the front.
LEMMA SumFromHead ==
    ASSUME NEW R, NEW f, Maps(f, R, Int), NEW s \in Seq(R), s # <<>>
    PROVE  SumOver(f, s) = f[Head(s)] + SumOver(f, Tail(s))
<1> DEFINE Splits(q) == q # <<>> => SumOver(f, q) = f[Head(q)] + SumOver(f, Tail(q))
           W == {q \in Seq(R) : Splits(q)}
<1>1. <<>> \in W
  BY EmptySeq
<1>2. ASSUME NEW q \in Seq(R), NEW x \in R, q \in W
      PROVE  Append(q, x) \in W
  <2> DEFINE t == Append(q, x)
  <2>1. t \in Seq(R) /\ SumOver(f, t) = SumOver(f, q) + f[x] /\ SumOver(f, q) \in Int /\ f[x] \in Int
    BY AppendProperties, SumOverLaws DEF Maps
  <2>2. CASE q = <<>>
    <3>1. Head(t) = x /\ Tail(t) = <<>>
      BY <2>2
    <3>2. SumOver(f, q) = 0 /\ SumOver(f, <<>>) = 0
      BY <2>2, SumOverLaws
    <3>3. f[Head(t)] = f[x] /\ SumOver(f, Tail(t)) = SumOver(f, <<>>)
      BY <3>1, Zenon
    <3> DEFINE a == f[Head(t)]
               b == SumOver(f, Tail(t))
    <3>4. a = f[x] /\ b = 0
      BY <3>2, <3>3
    <3> HIDE DEF a, b, t
    <3>5. SumOver(f, t) = a + b
      BY <2>1, <3>2, <3>4
    <3> QED
      BY <2>1, <3>5 DEF a, b, t
  <2>3. CASE q # <<>>
    <3>1. Head(q) \in R /\ Tail(q) \in Seq(R)
      BY <2>3, HeadTailProperties
    <3>2. Head(t) = Head(q) /\ Tail(t) = Append(Tail(q), x)
      BY <2>3, HeadTailAppend
    <3>3. /\ SumOver(f, Append(Tail(q), x)) = SumOver(f, Tail(q)) + f[x]
          /\ SumOver(f, Tail(q)) \in Int /\ f[Head(q)] \in Int
      BY <3>1, SumOverLaws DEF Maps
    <3>4. SumOver(f, q) = f[Head(q)] + SumOver(f, Tail(q))
      BY <1>2, <2>3
    <3>5. f[Head(t)] = f[Head(q)] /\ SumOver(f, Tail(t)) = SumOver(f, Append(Tail(q), x))
      BY <3>2, Zenon
    <3> DEFINE a == f[Head(t)]
               b == SumOver(f, Tail(t))
               c == f[Head(q)]
               d == SumOver(f, Tail(q))
    <3>6. a = c /\ b = d + f[x] /\ c \in Int /\ d \in Int /\ SumOver(f, q) = c + d
      BY <3>3, <3>4, <3>5
    <3> HIDE DEF a, b, c, d, t
    <3>7. SumOver(f, t) = a + b
      BY <2>1, <3>6
    <3> QED
      BY <2>1, <3>7 DEF a, b, t
  <2> QED
    BY <2>2, <2>3
<1>3. s \in W
  <2> HIDE DEF W
  <2> QED
    BY <1>1, <1>2, SequenceInduction
<1> QED
  BY <1>3
=============================================================================
