----------------------------- MODULE BasicLemmas -----------------------------
(***************************************************************************)
(* Facts about numbers, finite sets, sequences and folds that the proofs of  *)
(* several components cite.  Inductions are by the least counterexample: a   *)
(* non-empty set of naturals has a least element.                            *)
(*                                                                          *)
(* Then theorems about two modules of operators.  Shards: whatever the       *)
(* number of rows and of workers, the shards partition the rows, none is     *)
(* empty and there are at most workers of them; this is what makes "rows are *)
(* written to disjoint slots" true.  Patterns: the rows samplePositions      *)
(* picks are in order, all different, the first and the last row among them, *)
(* and each is a row nearest to its share of the cluster: the two            *)
(* corrections in its loop never change anything, however a product that     *)
(* lies halfway between two rows rounds.                                     *)
(***************************************************************************)
EXTENDS Integers, SequencesExt, SortedLists, Shards, Patterns,
        FiniteSetTheorems, WellFoundedInduction, TLAPS

\* A set of naturals that is not empty has a least element.
LEMMA LeastNat ==
    ASSUME NEW S \in SUBSET Nat, S # {}
    PROVE  \E i \in S : \A j \in S : i <= j
<1>1. PICK i \in S : \A j \in S : ~(<<j, i>> \in OpToRel(<, Nat))
  BY WFMin, NatLessThanWellFounded
<1>2. \A j \in S : ~(j < i)
  BY <1>1 DEF OpToRel
<1> QED
  BY <1>2

\* Numbers reached one by one from 0: induction, the property as a set.
LEMMA OneByOne ==
    ASSUME NEW G, NEW n \in Nat, 0 \in G,
           \A i \in 0 .. n - 1 : i \in G => i + 1 \in G
    PROVE  \A i \in 0 .. n : i \in G
<1> DEFINE bad == {i \in 0 .. n : i \notin G}
<1> SUFFICES ASSUME bad # {}
             PROVE  FALSE
  OBVIOUS
<1>1. bad \in SUBSET Nat
  OBVIOUS
<1>2. PICK i \in bad : \A j \in bad : i <= j
  BY <1>1, LeastNat
<1>3. i \in 0 .. n /\ i \notin G /\ i # 0
  OBVIOUS
<1>4. i - 1 \in 0 .. n - 1 /\ i - 1 \in 0 .. n /\ (i - 1) + 1 = i /\ ~(i <= i - 1)
  BY <1>3
<1> QED
  BY <1>2, <1>3, <1>4

\* Min is that element.
LEMMA MinIsLeast ==
    ASSUME NEW S \in SUBSET Nat, S # {}
    PROVE  Min(S) \in S /\ \A j \in S : Min(S) <= j
  BY LeastNat, Zenon DEF Min

\* Max is the greatest of numbers that have a bound.
LEMMA MaxIsGreatest ==
    ASSUME NEW n \in Nat, NEW S \in SUBSET (1 .. n), S # {}
    PROVE  Max(S) \in S /\ \A j \in S : j <= Max(S)
<1> DEFINE D == {n - k : k \in S}
<1>1. D \in SUBSET Nat /\ D # {} /\ S \in SUBSET Nat
  <2>1. \A k \in S : n - k \in Nat /\ k \in Nat
    OBVIOUS
  <2> QED
    BY <2>1, Zenon
<1>2. PICK d \in D : \A e \in D : d <= e
  <2> HIDE DEF D
  <2> QED
    BY <1>1, LeastNat
<1>3. PICK k \in S : d = n - k
  OBVIOUS
<1>4. \A j \in S : k >= j
  <2> TAKE j \in S
  <2>1. n - j \in D
    BY Zenon
  <2>2. n - k <= n - j /\ j \in Nat /\ k \in Nat
    BY <1>1, <1>2, <1>3, <2>1, Zenon
  <2> QED
    BY <2>2
<1>5. Max(S) \in S /\ \A j \in S : Max(S) >= j
  BY <1>4, Zenon DEF Max
<1> QED
  BY <1>5

\* Counting from one.
LEMMA CountFromOne ==
    ASSUME NEW n \in Nat
    PROVE  IsFiniteSet(1 .. n) /\ Cardinality(1 .. n) = n
<1>1. /\ IsFiniteSet(1 .. n)
      /\ Cardinality(1 .. n) = IF 1 > n THEN 0 ELSE n - 1 + 1
  BY FS_Interval
<1> QED
  BY <1>1

\* An interval one longer has one number more.
LEMMA IntervalNext ==
    ASSUME NEW n \in Nat
    PROVE  /\ n + 1 \notin 1 .. n
           /\ \A k : k \in 1 .. n + 1 <=> (k \in 1 .. n \/ k = n + 1)
  OBVIOUS

\* A function takes at most as many values as it has arguments.
LEMMA RangeBound ==
    ASSUME NEW S, IsFiniteSet(S), NEW f, DOMAIN f = S
    PROVE  /\ IsFiniteSet({f[x] : x \in S})
           /\ Cardinality({f[x] : x \in S}) <= Cardinality(S)
<1> DEFINE T == {f[x] : x \in S}
           g == [x \in S |-> f[x]]
<1>1. g \in Surjection(S, T)
  BY Zenon DEF Surjection
<1> QED
  BY <1>1, FS_Surjection

\* A union is no larger than its parts together.
LEMMA UnionBound ==
    ASSUME NEW S, IsFiniteSet(S), NEW T, IsFiniteSet(T)
    PROVE  /\ IsFiniteSet(S \cup T)
           /\ Cardinality(S) \in Nat /\ Cardinality(T) \in Nat
           /\ Cardinality(S \cup T) \in Nat
           /\ Cardinality(S \cup T) <= Cardinality(S) + Cardinality(T)
<1>1. IsFiniteSet(S \cap T) /\ IsFiniteSet(S \cup T)
  BY FS_Subset, FS_Union
<1>2. /\ Cardinality(S) \in Nat /\ Cardinality(T) \in Nat /\ Cardinality(S \cap T) \in Nat
      /\ Cardinality(S \cup T) \in Nat
  BY <1>1, FS_CardinalityType
<1>3. Cardinality(S \cup T) = Cardinality(S) + Cardinality(T) - Cardinality(S \cap T)
  BY FS_Union
<1> DEFINE a == Cardinality(S)
           b == Cardinality(T)
           c == Cardinality(S \cap T)
           d == Cardinality(S \cup T)
<1>4. a \in Nat /\ b \in Nat /\ c \in Nat /\ d \in Nat /\ d = a + b - c
  BY <1>2, <1>3, Zenon
<1> HIDE DEF a, b, c, d
<1>5. d <= a + b
  BY <1>4
<1> QED
  BY <1>1, <1>4, <1>5, Zenon DEF a, b, c, d
-----------------------------------------------------------------------------
\* A sequence over a set is one over every larger set.
LEMMA SeqLarger ==
    ASSUME NEW S, NEW T, S \subseteq T, NEW s \in Seq(S)
    PROVE  s \in Seq(T)
  OBVIOUS

\* A sequence is a function on the numbers up to its length.
LEMMA SeqIsFunction ==
    ASSUME NEW S, NEW s \in Seq(S)
    PROVE  /\ Len(s) \in Nat /\ DOMAIN s = 1 .. Len(s)
           /\ \A i \in 1 .. Len(s) : s[i] \in S
           /\ s \in [1 .. Len(s) -> S]
  OBVIOUS

\* And such a function is a sequence.
LEMMA FunctionIsSeq ==
    ASSUME NEW S, NEW n \in Nat, NEW s \in [1 .. n -> S]
    PROVE  s \in Seq(S) /\ Len(s) = n /\ DOMAIN s = 1 .. n
  OBVIOUS

\* A prefix keeps its elements.
LEMMA PrefixIsFunction ==
    ASSUME NEW S, NEW s \in Seq(S), NEW n \in Nat, n <= Len(s)
    PROVE  SubSeq(s, 1, n) = [i \in 1 .. n |-> s[i]]
  OBVIOUS

\* Replacing an element keeps a sequence over its set, and its length.
LEMMA SeqReplace ==
    ASSUME NEW S, NEW s \in Seq(S), NEW i \in Nat, NEW x \in S
    PROVE  /\ [s EXCEPT ![i] = x] \in Seq(S)
           /\ Len([s EXCEPT ![i] = x]) = Len(s)
<1> DEFINE n == Len(s)
           t == [s EXCEPT ![i] = x]
<1>1. n \in Nat /\ DOMAIN s = 1 .. n /\ \A j \in 1 .. n : s[j] \in S
  OBVIOUS
<1>2. /\ t = [j \in 1 .. n |-> t[j]]
      /\ \A j \in 1 .. n : t[j] = IF j = i THEN x ELSE s[j]
  BY <1>1
<1> HIDE DEF t, n
<1>3. \A j \in 1 .. n : t[j] \in S
  BY <1>1, <1>2
<1>4. t \in Seq(S) /\ Len(t) = n
  BY <1>1, <1>2, <1>3
<1> QED
  BY <1>4 DEF t, n

\* The prefix of length i is the prefix of length i - 1 and one element more.
LEMMA PrefixStep ==
    ASSUME NEW S, NEW s \in Seq(S), NEW i \in 1 .. Len(s)
    PROVE  /\ SubSeq(s, 1, i - 1) \in Seq(S) /\ Len(SubSeq(s, 1, i - 1)) = i - 1
           /\ SubSeq(s, 1, i) = Append(SubSeq(s, 1, i - 1), s[i])
  OBVIOUS

\* f is the function FlattenSeq computes, over the first n of ss.
IsFlatten(ss, n, f) ==
    f = [i \in 1 .. n |-> IF i = 1 THEN ss[i] ELSE f[i - 1] \o ss[i]]

\* One more sequence extends it.
LEMMA FlattenExtends ==
    ASSUME NEW ss, NEW n \in Nat, NEW f, n = 0 \/ IsFlatten(ss, n, f)
    PROVE  \E g : IsFlatten(ss, n + 1, g)
<1> DEFINE last == IF n = 0 THEN ss[1] ELSE f[n] \o ss[n + 1]
           g == [i \in 1 .. n + 1 |-> IF i = n + 1 THEN last ELSE f[i]]
<1>1. ASSUME NEW i \in 1 .. n + 1
      PROVE  g[i] = IF i = 1 THEN ss[i] ELSE g[i - 1] \o ss[i]
  <2>1. CASE i = n + 1 /\ n = 0
    BY <2>1
  <2>2. CASE i = n + 1 /\ n # 0
    <3>1. i - 1 \in 1 .. n + 1 /\ i - 1 # n + 1 /\ i # 1 /\ i - 1 = n
      BY <2>2
    <3> HIDE DEF last
    <3>2. g[i - 1] = f[n] /\ g[i] = last
      BY <2>2, <3>1
    <3> QED
      BY <2>2, <3>1, <3>2 DEF last
  <2>3. CASE i # n + 1
    <3>1. i \in 1 .. n /\ n # 0 /\ g[i] = f[i]
      BY <2>3
    <3>2. f[i] = IF i = 1 THEN ss[i] ELSE f[i - 1] \o ss[i]
      BY <3>1 DEF IsFlatten
    <3>3. i # 1 => i - 1 \in 1 .. n + 1 /\ i - 1 # n + 1
      BY <3>1
    <3> HIDE DEF last
    <3>4. i # 1 => g[i - 1] = f[i - 1]
      BY <3>3
    <3> QED
      BY <3>1, <3>2, <3>4
  <2> QED
    BY <2>1, <2>2, <2>3
<1>2. IsFlatten(ss, n + 1, g)
  BY <1>1, Zenon DEF IsFlatten
<1> QED
  BY <1>2

\* So it exists, however many sequences there are.
LEMMA FlattenExists ==
    ASSUME NEW ss, NEW n \in Nat \ {0}
    PROVE  \E f : IsFlatten(ss, n, f)
<1> DEFINE bad == {m \in Nat \ {0} : ~\E f : IsFlatten(ss, m, f)}
<1>1. SUFFICES ASSUME bad # {}
               PROVE  FALSE
  BY Zenon
<1>2. bad \in SUBSET Nat
  BY Zenon
<1>3. PICK m \in bad : \A k \in bad : m <= k
  BY <1>1, <1>2, LeastNat
<1>4. m \in Nat \ {0} /\ ~\E f : IsFlatten(ss, m, f)
  BY Zenon
<1>5. m - 1 \in Nat /\ m - 1 \notin bad /\ (m - 1) + 1 = m
  <2> HIDE DEF bad
  <2> QED
    BY <1>3, <1>4
<1>6. m - 1 = 0 \/ \E f : IsFlatten(ss, m - 1, f)
  BY <1>5, Zenon
<1>7. \E g : IsFlatten(ss, (m - 1) + 1, g)
  BY <1>5, <1>6, FlattenExtends
<1> QED
  BY <1>4, <1>5, <1>7

\* FlattenSeq is the last of the prefix concatenations.
LEMMA FlattenPrefixes ==
    ASSUME NEW S, NEW ss \in Seq(Seq(S))
    PROVE  \E f \in [0 .. Len(ss) -> Seq(S)] :
              /\ f[0] = <<>>
              /\ \A i \in 1 .. Len(ss) : f[i] = f[i - 1] \o ss[i]
              /\ f[Len(ss)] = FlattenSeq(ss)
<1> DEFINE n == Len(ss)
<1>1. n \in Nat /\ \A i \in 1 .. n : ss[i] \in Seq(S)
  OBVIOUS
<1>2. CASE n = 0
  <2>1. FlattenSeq(ss) = <<>>
    BY <1>2 DEF FlattenSeq
  <2> DEFINE f == [i \in 0 .. 0 |-> <<>>]
  <2>2. f \in [0 .. n -> Seq(S)] /\ f[0] = <<>> /\ f[n] = <<>>
    BY <1>2
  <2> HIDE DEF f
  <2>3. \A i \in 1 .. n : f[i] = f[i - 1] \o ss[i]
    BY <1>2
  <2> QED
    BY <2>1, <2>2, <2>3
<1>3. CASE n # 0
  <2> DEFINE h == CHOOSE f : IsFlatten(ss, n, f)
  <2>1. IsFlatten(ss, n, h)
    BY <1>1, <1>3, FlattenExists
  <2>2. FlattenSeq(ss) = h[n]
    BY <1>3, Zenon DEF FlattenSeq, IsFlatten
  <2> HIDE DEF h, n
  <2>3. \A i \in 1 .. n : h[i] = IF i = 1 THEN ss[i] ELSE h[i - 1] \o ss[i]
    BY <2>1, Zenon DEF IsFlatten
  <2> DEFINE f == [i \in 0 .. n |-> IF i = 0 THEN <<>> ELSE h[i]]
  <2>4. f[0] = <<>> /\ f[n] = h[n] /\ \A i \in 1 .. n : f[i] = h[i]
    BY <1>1, <1>3
  <2>5. DOMAIN f = 0 .. n /\ f = [i \in 0 .. n |-> f[i]]
    BY Zenon
  <2> HIDE DEF f
  <2>6. \A i \in 1 .. n : ss[i] = <<>> \o ss[i]
    BY <1>1
  <2>7. \A i \in 1 .. n : f[i] = f[i - 1] \o ss[i]
    <3> SUFFICES ASSUME NEW i \in 1 .. n
                 PROVE  f[i] = f[i - 1] \o ss[i]
      OBVIOUS
    <3>1. CASE i = 1
      <4>1. f[1] = h[1] /\ h[1] = ss[1]
        BY <2>3, <2>4, <3>1
      <4>2. f[1 - 1] = <<>>
        BY <2>4, 1 - 1 = 0
      <4> QED
        BY <2>6, <3>1, <4>1, <4>2, Zenon
    <3>2. CASE i # 1
      BY <1>1, <2>3, <2>4, <3>2, i - 1 \in 1 .. n
    <3> QED
      BY <3>1, <3>2
  <2> DEFINE bad == {i \in 0 .. n : f[i] \notin Seq(S)}
  <2>8. bad = {}
    <3>1. SUFFICES ASSUME bad # {}
                   PROVE  FALSE
      OBVIOUS
    <3>2. PICK i \in bad : \A j \in bad : i <= j
      BY <1>1, <3>1, LeastNat, bad \in SUBSET Nat
    <3>3. i \in 0 .. n /\ f[i] \notin Seq(S)
      BY <3>2
    <3>4. i # 0
      BY <2>4, <3>3, <<>> \in Seq(S)
    <3>5. i \in 1 .. n /\ i - 1 \in 0 .. n /\ i - 1 \notin bad
      BY <1>1, <3>2, <3>3, <3>4
    <3>6. f[i - 1] \in Seq(S) /\ ss[i] \in Seq(S) /\ f[i] = f[i - 1] \o ss[i]
      BY <1>1, <2>7, <3>5
    <3> QED
      BY <3>3, <3>6
  <2>9. f \in [0 .. n -> Seq(S)]
    BY <2>5, <2>8
  <2> QED
    BY <2>2, <2>4, <2>7, <2>9 DEF n
<1> QED
  BY <1>2, <1>3

\* One sequence more is one concatenation more.
LEMMA FlattenAppend ==
    ASSUME NEW S, NEW ss \in Seq(Seq(S)), NEW x \in Seq(S)
    PROVE  /\ FlattenSeq(ss) \in Seq(S)
           /\ FlattenSeq(Append(ss, x)) = FlattenSeq(ss) \o x
<1> DEFINE n == Len(ss)
           tt == Append(ss, x)
<1>1. /\ n \in Nat /\ tt \in Seq(Seq(S)) /\ Len(tt) = n + 1 /\ tt[n + 1] = x
      /\ \A i \in 1 .. n : tt[i] = ss[i]
  OBVIOUS
<1>n. n \in Nat
  BY <1>1
<1>2. PICK f \in [0 .. n -> Seq(S)] :
         /\ f[0] = <<>>
         /\ \A i \in 1 .. n : f[i] = f[i - 1] \o ss[i]
         /\ f[n] = FlattenSeq(ss)
  BY FlattenPrefixes, Zenon
<1>3. PICK g \in [0 .. n + 1 -> Seq(S)] :
         /\ g[0] = <<>>
         /\ \A i \in 1 .. n + 1 : g[i] = g[i - 1] \o tt[i]
         /\ g[n + 1] = FlattenSeq(tt)
  <2> HIDE DEF tt, n
  <2>1. \E g \in [0 .. Len(tt) -> Seq(S)] :
         /\ g[0] = <<>>
         /\ \A i \in 1 .. Len(tt) : g[i] = g[i - 1] \o tt[i]
         /\ g[Len(tt)] = FlattenSeq(tt)
    BY <1>1, FlattenPrefixes, Zenon
  <2> QED
    BY <1>1, <2>1, Zenon
<1> DEFINE bad == {i \in 0 .. n : f[i] # g[i]}
<1> HIDE DEF n, tt
<1>4. bad = {}
  <2>1. SUFFICES ASSUME bad # {}
                 PROVE  FALSE
    OBVIOUS
  <2>2. PICK i \in bad : \A j \in bad : i <= j
    BY <1>n, <2>1, LeastNat, bad \in SUBSET Nat
  <2>3. i \in 0 .. n /\ f[i] # g[i]
    BY <2>2
  <2>4. i # 0
    BY <1>2, <1>3, <2>3
  <2>5. i \in 1 .. n /\ i \in 1 .. n + 1 /\ i - 1 \in 0 .. n /\ i - 1 \notin bad
    BY <1>n, <2>2, <2>3, <2>4
  <2>6. f[i - 1] = g[i - 1] /\ tt[i] = ss[i]
    BY <1>1, <2>5
  <2> QED
    BY <1>2, <1>3, <2>3, <2>5, <2>6
<1>5. f[n] = g[n] /\ n \in 0 .. n
  BY <1>1, <1>4
<1>6. n + 1 \in 1 .. n + 1 /\ (n + 1) - 1 = n
  BY <1>1
<1>7. FlattenSeq(tt) = FlattenSeq(ss) \o x
  BY <1>1, <1>2, <1>3, <1>5, <1>6
<1> QED
  BY <1>2, <1>5, <1>7 DEF tt

\* Nothing concatenated is nothing.
LEMMA FlattenEmpty == FlattenSeq(<<>>) = <<>>
  BY DEF FlattenSeq
-----------------------------------------------------------------------------
\* A sequence of numbers each smaller than the next.
Ascends(s) == \A j, k \in DOMAIN s : j < k => s[j] < s[k]

\* A number below all of an ascending sequence can be put before it.
LEMMA PrependAscends ==
    ASSUME NEW s \in Seq(Nat), NEW y \in Nat, Ascends(s), \A x \in ToSet(s) : y < x
    PROVE  \E t \in Seq(Nat) :
              /\ Len(t) = Len(s) + 1
              /\ Ascends(t)
              /\ ToSet(t) = ToSet(s) \cup {y}
<1> DEFINE n == Len(s)
           t == [i \in 1 .. n + 1 |-> IF i = 1 THEN y ELSE s[i - 1]]
<1>1. /\ n \in Nat /\ DOMAIN s = 1 .. n /\ \A i \in 1 .. n : s[i] \in Nat
  OBVIOUS
<1>2. /\ t \in Seq(Nat) /\ Len(t) = n + 1 /\ DOMAIN t = 1 .. n + 1 /\ t[1] = y
      /\ \A i \in 2 .. n + 1 : t[i] = s[i - 1] /\ i - 1 \in 1 .. n
  BY <1>1
<1> HIDE DEF t, n
<1>3. \A i \in 1 .. n : y < s[i]
  BY <1>1 DEF ToSet
<1>4. ASSUME NEW j \in 1 .. n + 1, NEW k \in 1 .. n + 1, j < k
      PROVE  t[j] < t[k]
  <2>1. k \in 2 .. n + 1
    BY <1>1, <1>4
  <2>2. CASE j = 1
    BY <1>2, <1>3, <2>1, <2>2
  <2>3. CASE j # 1
    <3>1. j \in 2 .. n + 1 /\ j - 1 < k - 1
      BY <1>1, <1>4, <2>3
    <3> QED
      BY <1>1, <1>2, <2>1, <3>1 DEF Ascends
  <2> QED
    BY <2>2, <2>3
<1>5. ToSet(t) = ToSet(s) \cup {y}
  <2>1. ASSUME NEW i \in 1 .. n + 1
        PROVE  t[i] \in ToSet(s) \cup {y}
    <3>1. CASE i = 1
      BY <1>2, <3>1
    <3>2. CASE i # 1
      <4>1. i \in 2 .. n + 1
        BY <1>1, <3>2
      <4> QED
        BY <1>1, <1>2, <4>1 DEF ToSet
    <3> QED
      BY <3>1, <3>2
  <2>2. ASSUME NEW i \in 1 .. n
        PROVE  s[i] \in ToSet(t)
    <3>1. i + 1 \in 2 .. n + 1 /\ i + 1 - 1 = i /\ i + 1 \in 1 .. n + 1
      BY <1>1
    <3>2. t[i + 1] = s[i] /\ i + 1 \in DOMAIN t
      BY <1>2, <3>1
    <3> QED
      BY <3>2, Zenon DEF ToSet
  <2>3. y \in ToSet(t)
    BY <1>1, <1>2, 1 \in 1 .. n + 1 DEF ToSet
  <2>4. \A x \in ToSet(t) : x \in ToSet(s) \cup {y}
    BY <1>2, <2>1, Zenon DEF ToSet
  <2>5. \A x \in ToSet(s) : x \in ToSet(t)
    BY <1>1, <2>2, Zenon DEF ToSet
  <2> QED
    BY <2>3, <2>4, <2>5, Zenon
<1> QED
  BY <1>1, <1>2, <1>4, <1>5, Zenon DEF Ascends, n

\* A finite set of numbers is the range of an ascending sequence.
LEMMA AscendingExists ==
    ASSUME NEW S \in SUBSET Nat, IsFiniteSet(S)
    PROVE  \E t \in Seq(Nat) : Len(t) = Cardinality(S) /\ Ascends(t) /\ ToSet(t) = S
<1> DEFINE Row(T) == \E t \in Seq(Nat) : Len(t) = Cardinality(T) /\ Ascends(t) /\ ToSet(t) = T
           bad == {n \in Nat : \E T \in SUBSET Nat :
                      IsFiniteSet(T) /\ Cardinality(T) = n /\ ~Row(T)}
<1>1. SUFFICES ASSUME bad # {}
               PROVE  FALSE
  <2>1. Cardinality(S) \in Nat
    BY FS_CardinalityType
  <2> QED
    BY <2>1, Zenon
<1>2. PICK n \in bad : \A j \in bad : n <= j
  BY <1>1, LeastNat, bad \in SUBSET Nat
<1>3. PICK T \in SUBSET Nat : IsFiniteSet(T) /\ Cardinality(T) = n /\ ~Row(T)
  BY <1>2
<1> HIDE DEF bad
<1>4. n \in Nat
  BY <1>2 DEF bad
<1>5. CASE T = {}
  <2>1. <<>> \in Seq(Nat) /\ Len(<<>>) = 0 /\ DOMAIN <<>> = {}
    OBVIOUS
  <2>2. ToSet(<<>>) = {} /\ Ascends(<<>>)
    BY <2>1 DEF ToSet, Ascends
  <2>3. Cardinality({}) = 0
    BY FS_EmptySet
  <2> QED
    BY <1>3, <1>5, <2>1, <2>2, <2>3, Zenon
<1>6. CASE T # {}
  <2>1. PICK y \in T : \A x \in T : y <= x
    BY <1>6, LeastNat
  <2> DEFINE U == T \ {y}
  <2>2. IsFiniteSet(U) /\ Cardinality(U) = n - 1 /\ n - 1 \in Nat
    <3>1. IsFiniteSet(U) /\ Cardinality(U) = Cardinality(T) - 1
      BY <1>3, FS_RemoveElement
    <3>2. Cardinality(U) \in Nat
      BY <3>1, FS_CardinalityType
    <3> QED
      BY <1>3, <3>1, <3>2
  <2>3. n - 1 \notin bad
    BY <1>2, <1>4, <2>2
  <2>4. Row(U)
    BY <2>2, <2>3, Zenon DEF bad
  <2>5. PICK s \in Seq(Nat) : Len(s) = Cardinality(U) /\ Ascends(s) /\ ToSet(s) = U
    BY <2>4
  <2>6. \A x \in ToSet(s) : y < x
    <3> TAKE x \in ToSet(s)
    <3>1. x \in T /\ x # y /\ y <= x
      BY <2>1, <2>5
    <3> QED
      BY <3>1
  <2>7. PICK t \in Seq(Nat) : Len(t) = Len(s) + 1 /\ Ascends(t) /\ ToSet(t) = ToSet(s) \cup {y}
    BY <2>5, <2>6, PrependAscends
  <2>8. Len(t) = Cardinality(T) /\ ToSet(t) = T
    BY <1>3, <1>4, <2>2, <2>5, <2>7
  <2> QED
    BY <1>3, <2>7, <2>8, Zenon
<1> QED
  BY <1>5, <1>6

\* An ascending sequence of members of a set, as long as the set is large, lists
\* each of them once.
LEMMA AscendingLists ==
    ASSUME NEW S \in SUBSET Nat, IsFiniteSet(S),
           NEW s \in [1 .. Cardinality(S) -> S], Ascends(s)
    PROVE  /\ s \in Seq(S) /\ Len(s) = Cardinality(S)
           /\ IsInjective(s)
           /\ ToSet(s) = S
<1> DEFINE n == Cardinality(S)
<1>1. n \in Nat
  BY FS_CardinalityType
<1>4. s \in [1 .. n -> S] /\ Ascends(s)
  OBVIOUS
<1>5. s \in Injection(1 .. n, S)
  <2>1. ASSUME NEW j \in 1 .. n, NEW k \in 1 .. n, s[j] = s[k]
        PROVE  j = k
    <3>1. s[j] \in Nat /\ DOMAIN s = 1 .. n
      BY <1>4
    <3>2. ~(j < k) /\ ~(k < j)
      BY <1>4, <2>1, <3>1 DEF Ascends
    <3> QED
      BY <1>1, <3>2
  <2> QED
    BY <1>4, <2>1, Zenon DEF Injection, IsInjective
<1>6. Cardinality(1 .. n) = n
  BY <1>1, CountFromOne
<1>7. s \in Surjection(1 .. n, S)
  BY <1>5, <1>6, FS_Injection
<1>8. ToSet(s) = S
  BY <1>4, <1>7 DEF Surjection, ToSet
<1>9. s \in Seq(S) /\ Len(s) = n
  BY <1>1, <1>4
<1>10. IsInjective(s)
  BY <1>5 DEF Injection
<1> QED
  BY <1>4, <1>8, <1>9, <1>10

\* Such a sequence is chosen for every finite set.
LEMMA AscendingChosen ==
    ASSUME NEW S \in SUBSET Nat, IsFiniteSet(S), NEW s, s = Ascending(S)
    PROVE  /\ s \in Seq(S) /\ Len(s) = Cardinality(S)
           /\ Ascends(s)
           /\ IsInjective(s)
           /\ ToSet(s) = S
<1> DEFINE n == Cardinality(S)
<1>1. n \in Nat
  BY FS_CardinalityType
<1>2. PICK t \in Seq(Nat) : Len(t) = n /\ Ascends(t) /\ ToSet(t) = S
  BY AscendingExists
<1>3. t \in [1 .. n -> S]
  <2>1. t = [i \in 1 .. n |-> t[i]] /\ DOMAIN t = 1 .. n
    BY <1>2
  <2>2. \A i \in 1 .. n : t[i] \in S
    BY <1>2, <2>1 DEF ToSet
  <2> QED
    BY <2>1, <2>2
<1>4. s \in [1 .. n -> S] /\ Ascends(s)
  BY <1>2, <1>3, Zenon DEF Ascends, Ascending
<1> QED
  BY <1>4, AscendingLists, Zenon

\* The ascending list of a set of numbers up to a bound.
LEMMA AscendingFacts ==
    ASSUME NEW n \in Nat, NEW S \in SUBSET (1 .. n)
    PROVE  /\ IsFiniteSet(S) /\ Cardinality(S) \in Nat
           /\ Ascending(S) \in Seq(1 .. n) /\ ToSet(Ascending(S)) = S
           /\ IsInjective(Ascending(S))
           /\ Len(Ascending(S)) = Cardinality(S) /\ Ascends(Ascending(S))
<1>1. IsFiniteSet(S) /\ S \in SUBSET Nat
  <2>1. IsFiniteSet(1 .. n)
    BY CountFromOne
  <2>2. IsFiniteSet(S)
    BY <2>1, FS_Subset
  <2> QED
    BY <2>2
<1>2. PICK s : s = Ascending(S)
  OBVIOUS
<1>3. /\ s \in Seq(S) /\ IsInjective(s) /\ ToSet(s) = S
      /\ Len(s) = Cardinality(S) /\ Ascends(s)
  BY <1>1, <1>2, AscendingChosen, Zenon
<1>4. s \in Seq(1 .. n)
  BY <1>3, SeqLarger
<1>5. Cardinality(S) \in Nat
  BY <1>1, FS_CardinalityType
<1> QED
  BY <1>1, <1>2, <1>3, <1>4, <1>5, Zenon
\* Numbers that ascend from each to the next ascend.
LEMMA StepsAscend ==
    ASSUME NEW s \in Seq(Nat), \A j \in 1 .. Len(s) - 1 : s[j] < s[j + 1]
    PROVE  Ascends(s)
<1> DEFINE n == Len(s)
<1>1. n \in Nat /\ DOMAIN s = 1 .. n /\ \A j \in 1 .. n : s[j] \in Nat
  OBVIOUS
<1>2. ASSUME NEW j \in 1 .. n
      PROVE  \A d \in 0 .. n - j : d > 0 => s[j] < s[j + d]
  <2> DEFINE G == {d \in 0 .. n - j : d > 0 => s[j] < s[j + d]}
  <2>1. 0 \in G /\ n - j \in Nat
    BY <1>1
  <2>2. ASSUME NEW d \in 0 .. (n - j) - 1, d \in G
        PROVE  d + 1 \in G
    <3>1. j + d \in 1 .. n - 1 /\ j + d \in 1 .. n /\ (j + d) + 1 \in 1 .. n
      BY <1>1
    <3>2. s[j + d] < s[(j + d) + 1] /\ s[j] \in Nat /\ s[j + d] \in Nat /\ s[(j + d) + 1] \in Nat
      BY <1>1, <3>1
    <3>3. d = 0 => s[j + d] = s[j]
      BY <1>1
    <3>4. (j + d) + 1 = j + (d + 1) /\ d + 1 \in 0 .. n - j
      BY <1>1
    <3>5. d # 0 => s[j] < s[j + d]
      BY <2>2
    <3>6. s[j] < s[(j + d) + 1]
      BY <3>2, <3>3, <3>5
    <3> QED
      BY <3>4, <3>6
  <2> HIDE DEF G
  <2>3. \A d \in 0 .. n - j : d \in G
    BY <2>1, <2>2, OneByOne
  <2> QED
    BY <2>3 DEF G
<1>3. ASSUME NEW j \in 1 .. n, NEW h \in 1 .. n, j < h
      PROVE  s[j] < s[h]
  <2>1. h - j \in 0 .. n - j /\ h - j > 0 /\ j + (h - j) = h
    BY <1>1, <1>3
  <2>2. s[j] < s[j + (h - j)]
    BY <1>2, <2>1, Zenon
  <2> QED
    BY <2>1, <2>2
<1> QED
  BY <1>1, <1>3, Zenon DEF Ascends

-----------------------------------------------------------------------------
\* What a sequence holds, by the number of its places.
LEMMA SeqRange ==
    ASSUME NEW S, NEW s \in Seq(S)
    PROVE  /\ ToSet(s) \subseteq S /\ IsFiniteSet(ToSet(s))
           /\ \A x : x \in ToSet(s) <=> \E i \in 1 .. Len(s) : x = s[i]
<1>1. Len(s) \in Nat /\ DOMAIN s = 1 .. Len(s) /\ \A i \in 1 .. Len(s) : s[i] \in S
  OBVIOUS
<1>2. IsFiniteSet({s[x] : x \in 1 .. Len(s)})
  BY <1>1, CountFromOne, RangeBound
<1>3. \A x : x \in ToSet(s) <=> \E i \in 1 .. Len(s) : x = s[i]
  BY <1>1, Zenon DEF ToSet
<1>4. IsFiniteSet(ToSet(s))
  BY <1>1, <1>2, Zenon DEF ToSet
<1> QED
  BY <1>1, <1>3, <1>4, Zenon

\* One element more.
LEMMA AppendRange ==
    ASSUME NEW S, NEW s \in Seq(S), NEW c \in S
    PROVE  ToSet(Append(s, c)) = ToSet(s) \cup {c}
<1> DEFINE t == Append(s, c)
           n == Len(s)
<1>1. /\ n \in Nat /\ t \in Seq(S) /\ Len(t) = n + 1 /\ t[n + 1] = c
      /\ \A i \in 1 .. n : t[i] = s[i]
  OBVIOUS
<1>2. \A i : i \in 1 .. n + 1 <=> (i \in 1 .. n \/ i = n + 1)
  BY <1>1, IntervalNext
<1>3. PICK u, m : u = t /\ m = n + 1
  OBVIOUS
<1>4. /\ \A x : x \in ToSet(s) <=> \E i \in 1 .. n : x = s[i]
      /\ \A x : x \in ToSet(u) <=> \E i \in 1 .. m : x = u[i]
  <2>1. u \in Seq(S) /\ Len(u) = m
    BY <1>1, <1>3
  <2> QED
    BY <2>1, SeqRange
<1> HIDE DEF t, n
<1>5. ToSet(t) = ToSet(s) \cup {c}
  <2>1. \A x : x \in ToSet(t) <=> \E i \in 1 .. n + 1 : x = t[i]
    BY <1>3, <1>4
  <2>2. ASSUME NEW x \in ToSet(t)
        PROVE  x \in ToSet(s) \cup {c}
    <3>1. PICK i \in 1 .. n + 1 : x = t[i]
      BY <2>1, Zenon
    <3>2. CASE i \in 1 .. n
      <4>1. \E j \in 1 .. n : x = s[j]
        BY <1>1, <3>1, <3>2, Zenon
      <4> QED
        BY <1>4, <4>1, Zenon
    <3> QED
      BY <1>1, <1>2, <3>1, <3>2, Zenon
  <2>3. ASSUME NEW x \in ToSet(s) \cup {c}
        PROVE  x \in ToSet(t)
    <3>1. CASE x \in ToSet(s)
      <4>1. PICK j \in 1 .. n : x = s[j]
        BY <1>4, <3>1, Zenon
      <4>2. \E i \in 1 .. n + 1 : x = t[i]
        BY <1>1, <1>2, <4>1, Zenon
      <4> QED
        BY <2>1, <4>2, Zenon
    <3>2. CASE x = c
      <4>1. \E i \in 1 .. n + 1 : x = t[i]
        BY <1>1, <1>2, <3>2, Zenon
      <4> QED
        BY <2>1, <4>1, Zenon
    <3> QED
      BY <2>3, <3>1, <3>2, Zenon
  <2> QED
    BY <2>2, <2>3, Zenon
<1> QED
  BY <1>5 DEF t

\* One element less.
LEMMA FrontRange ==
    ASSUME NEW S, NEW s \in Seq(S), s # <<>>
    PROVE  /\ Front(s) \in Seq(S) /\ Len(Front(s)) = Len(s) - 1 /\ Last(s) = s[Len(s)]
           /\ Len(s) \in Nat \ {0} /\ Last(s) \in S
           /\ \A i \in 1 .. Len(s) - 1 : Front(s)[i] = s[i]
           /\ ToSet(s) = ToSet(Front(s)) \cup {Last(s)}
           /\ IsInjective(s) => IsInjective(Front(s)) /\ Last(s) \notin ToSet(Front(s))
<1> DEFINE t == Front(s)
           n == Len(s)
<1>1. /\ n \in Nat \ {0} /\ t \in Seq(S) /\ Len(t) = n - 1 /\ Last(s) = s[n] /\ Last(s) \in S
      /\ \A i \in 1 .. n - 1 : t[i] = s[i]
      /\ DOMAIN s = 1 .. n /\ DOMAIN t = 1 .. n - 1
  <2>1. n \in Nat \ {0} /\ DOMAIN s = 1 .. n /\ s[n] \in S
    OBVIOUS
  <2>2. Last(s) = s[n]
    BY DEF Last
  <2>3. t = SubSeq(s, 1, n - 1)
    BY DEF Front
  <2> HIDE DEF t
  <2>4. t = [i \in 1 .. n - 1 |-> s[i]]
    <3>1. n - 1 \in Nat /\ n - 1 <= Len(s)
      BY <2>1
    <3>2. PICK k \in Nat : k = n - 1
      BY <3>1
    <3>3. SubSeq(s, 1, k) = [i \in 1 .. k |-> s[i]]
      BY <3>1, <3>2, PrefixIsFunction
    <3> QED
      BY <2>3, <3>2, <3>3
  <2> HIDE DEF n
  <2>5. n - 1 \in Nat /\ \A i \in 1 .. n - 1 : s[i] \in S
    <3>1. \A i \in 1 .. n : s[i] \in S
      BY DEF n
    <3> QED
      BY <2>1, <3>1
  <2>6. t \in [1 .. n - 1 -> S]
    BY <2>4, <2>5
  <2>7. t \in Seq(S) /\ Len(t) = n - 1 /\ DOMAIN t = 1 .. n - 1
    BY <2>5, <2>6
  <2>8. \A i \in 1 .. n - 1 : t[i] = s[i]
    BY <2>4
  <2> QED
    BY <2>1, <2>2, <2>7, <2>8
<1>2. \A i : i \in 1 .. n <=> (i \in 1 .. n - 1 \/ i = n)
  BY <1>1
<1>3. n \notin 1 .. n - 1
  BY <1>1
<1> HIDE DEF t, n
<1>4. ToSet(s) = ToSet(t) \cup {Last(s)}
  BY <1>1, <1>2, Zenon DEF ToSet
<1>5. IsInjective(s) => IsInjective(t) /\ Last(s) \notin ToSet(t)
  BY <1>1, <1>2, <1>3, ZenonT(60) DEF ToSet, IsInjective
<1> QED
  BY <1>1, <1>4, <1>5 DEF t, n

\* Two sequences without repetition and with nothing in common.
LEMMA InjectiveConcat ==
    ASSUME NEW S, NEW s \in Seq(S), NEW t \in Seq(S), IsInjective(s), IsInjective(t),
           ToSet(s) \cap ToSet(t) = {}
    PROVE  /\ s \o t \in Seq(S) /\ IsInjective(s \o t)
           /\ ToSet(s \o t) = ToSet(s) \cup ToSet(t)
<1> DEFINE u == s \o t
           m == Len(s)
           n == Len(t)
<1>1. /\ m \in Nat /\ n \in Nat /\ u \in Seq(S) /\ Len(u) = m + n
      /\ DOMAIN u = 1 .. m + n /\ DOMAIN s = 1 .. m /\ DOMAIN t = 1 .. n
      /\ \A j \in 1 .. m : u[j] = s[j]
      /\ \A j \in 1 .. m + n : j > m => j - m \in 1 .. n /\ u[j] = t[j - m]
      /\ \A j \in 1 .. n : m + j \in 1 .. m + n /\ u[m + j] = t[j]
  OBVIOUS
<1> HIDE DEF u, m, n
<1>2. /\ \A j \in 1 .. m : s[j] \in ToSet(s)
      /\ \A j \in 1 .. n : t[j] \in ToSet(t)
      /\ \A x \in ToSet(s) : \E j \in 1 .. m : x = s[j]
      /\ \A x \in ToSet(t) : \E j \in 1 .. n : x = t[j]
  BY <1>1 DEF ToSet
<1>3. ToSet(u) = ToSet(s) \cup ToSet(t)
  <2>1. ASSUME NEW x \in ToSet(u)
        PROVE  x \in ToSet(s) \cup ToSet(t)
    <3>1. PICK j \in 1 .. m + n : x = u[j]
      BY <1>1 DEF ToSet
    <3>2. j \in 1 .. m \/ j > m
      BY <1>1
    <3> QED
      BY <1>1, <1>2, <3>1, <3>2
  <2>2. \A j \in 1 .. m + n : u[j] \in ToSet(u)
    BY <1>1 DEF ToSet
  <2>3. \A j \in 1 .. m : j \in 1 .. m + n
    BY <1>1
  <2> QED
    BY <1>1, <1>2, <2>1, <2>2, <2>3
<1>4. ASSUME NEW j \in 1 .. m + n, NEW k \in 1 .. m + n, u[j] = u[k]
      PROVE  j = k
  <2>1. CASE j \in 1 .. m /\ k \in 1 .. m
    BY <1>1, <1>4, <2>1 DEF IsInjective
  <2>2. CASE j > m /\ k > m
    <3>1. /\ j - m \in DOMAIN t /\ k - m \in DOMAIN t
          /\ t[j - m] = u[j] /\ t[k - m] = u[k]
      BY <1>1, <2>2, Zenon
    <3>2. j - m = k - m
      BY <1>4, <3>1, Zenon DEF IsInjective
    <3> QED
      BY <1>1, <3>2
  <2>3. CASE j \in 1 .. m /\ k > m
    BY <1>1, <1>2, <1>4, <2>3
  <2>4. CASE j > m /\ k \in 1 .. m
    BY <1>1, <1>2, <1>4, <2>4
  <2> QED
    BY <1>1, <2>1, <2>2, <2>3, <2>4
<1> QED
  BY <1>1, <1>3, <1>4 DEF IsInjective, u

\* A new element repeats none.
LEMMA InjectiveAppend ==
    ASSUME NEW S, NEW s \in Seq(S), NEW c \in S, IsInjective(s), c \notin ToSet(s)
    PROVE  IsInjective(Append(s, c)) /\ Append(s, c) \in Seq(S)
           /\ ToSet(Append(s, c)) = ToSet(s) \cup {c}
<1>1. c \notin ToSet(s) /\ <<c>> \in Seq(S) /\ IsInjective(<<c>>) /\ ToSet(<<c>>) = {c}
  BY DEF IsInjective, ToSet
<1>2. ToSet(s) \cap ToSet(<<c>>) = {}
  BY <1>1
<1>3. Append(s, c) = s \o <<c>>
  OBVIOUS
<1>4. IsInjective(s \o <<c>>)
  BY <1>1, <1>2, InjectiveConcat
<1>5. Append(s, c) \in Seq(S) /\ ToSet(Append(s, c)) = ToSet(s) \cup {c}
  BY AppendRange
<1> QED
  BY <1>3, <1>4, <1>5, Zenon

\* A function that takes no value twice takes as many as it has arguments.
LEMMA InjectiveRange ==
    ASSUME NEW S, IsFiniteSet(S), NEW f, DOMAIN f = S, IsInjective(f)
    PROVE  Cardinality({f[x] : x \in S}) = Cardinality(S)
<1> DEFINE T == {f[x] : x \in S}
           g == [x \in S |-> f[x]]
<1>1. g \in Surjection(S, T)
  BY Zenon DEF Surjection
<1>2. g \in Injection(S, T)
  BY Zenon DEF Injection, IsInjective
<1> QED
  BY <1>1, <1>2, FS_Surjection

\* A sequence without repetition has as many members as places.
LEMMA InjectiveLength ==
    ASSUME NEW S, NEW s \in Seq(S), IsInjective(s)
    PROVE  Cardinality(ToSet(s)) = Len(s)
<1>1. Len(s) \in Nat /\ DOMAIN s = 1 .. Len(s)
  OBVIOUS
<1>2. IsFiniteSet(1 .. Len(s)) /\ Cardinality(1 .. Len(s)) = Len(s)
  BY <1>1, CountFromOne
<1>3. Cardinality({s[i] : i \in 1 .. Len(s)}) = Len(s)
  BY <1>1, <1>2, InjectiveRange
<1> QED
  BY <1>1, <1>3, Zenon DEF ToSet
-----------------------------------------------------------------------------
\* f folds step over the members of each set of positions, the greatest last.
IsFold(f, n, D, base, step, v) ==
    /\ f \in [SUBSET (1 .. n) -> D]
    /\ \A s \in SUBSET (1 .. n) :
          f[s] = IF s = {} THEN base ELSE step[<<f[s \ {Max(s)}], v[Max(s)]>>]

\* The positions up to i but the greatest are those up to i - 1.
LEMMA UpToMax ==
    ASSUME NEW i \in Nat \ {0}
    PROVE  1 .. i # {} /\ Max(1 .. i) = i /\ (1 .. i) \ {Max(1 .. i)} = 1 .. i - 1
<1>1. i \in 1 .. i /\ 1 .. i \in SUBSET (1 .. i)
  OBVIOUS
<1>2. Max(1 .. i) \in 1 .. i /\ \A j \in 1 .. i : j <= Max(1 .. i)
  BY <1>1, MaxIsGreatest
<1>3. Max(1 .. i) = i
  BY <1>1, <1>2
<1>4. (1 .. i) \ {i} = 1 .. i - 1
  OBVIOUS
<1> QED
  BY <1>1, <1>3, <1>4

\* The elements are in C, and a step stays in D.
StaysIn(D, C, base, n, v, step) ==
    /\ base \in D /\ n \in Nat
    /\ \A i \in 1 .. n : v[i] \in C
    /\ step \in [D \X C -> D]

\* There is such a fold, where every step stays in D.
LEMMA FoldExists ==
    ASSUME NEW D, NEW C, NEW base, NEW n, NEW v, NEW step, StaysIn(D, C, base, n, v, step)
    PROVE  \E f : IsFold(f, n, D, base, step, v)
<1> /\ base \in D /\ n \in Nat
    /\ \A i \in 1 .. n : v[i] \in C
    /\ step \in [D \X C -> D]
  BY DEF StaysIn
<1> DEFINE G == {k \in 0 .. n : \E f : IsFold(f, k, D, base, step, v)}
<1>1. 0 \in G
  <2> DEFINE f == [s \in SUBSET (1 .. 0) |-> base]
  <2>1. 1 .. 0 = {}
    OBVIOUS
  <2>2. IsFold(f, 0, D, base, step, v)
    BY <2>1, Zenon DEF IsFold
  <2> QED
    BY <2>2
<1>2. ASSUME NEW k \in 0 .. n - 1, k \in G
      PROVE  k + 1 \in G
  <2>1. PICK f : IsFold(f, k, D, base, step, v)
    BY <1>2
  <2>2. /\ f \in [SUBSET (1 .. k) -> D]
        /\ \A s \in SUBSET (1 .. k) :
              f[s] = IF s = {} THEN base ELSE step[<<f[s \ {Max(s)}], v[Max(s)]>>]
    BY <2>1, Zenon DEF IsFold
  <2>3. PICK m : m = k + 1
    OBVIOUS
  <2>4. /\ m \in 1 .. n /\ m \notin 1 .. k /\ k \in Nat /\ m \in Nat
        /\ \A x : x \in 1 .. m <=> (x \in 1 .. k \/ x = m)
    BY <2>3
  <2>5. v[m] \in C
    BY <2>4
  <2> DEFINE h == [s \in SUBSET (1 .. m) |-> IF m \in s THEN step[<<f[s \ {m}], v[m]>>] ELSE f[s]]
  <2>6. \A s \in SUBSET (1 .. m) : s \ {m} \in SUBSET (1 .. k) /\ (m \notin s => s \in SUBSET (1 .. k))
    BY <2>4, Zenon
  <2>7. h \in [SUBSET (1 .. m) -> D]
    <3>1. ASSUME NEW s \in SUBSET (1 .. m)
          PROVE  (IF m \in s THEN step[<<f[s \ {m}], v[m]>>] ELSE f[s]) \in D
      <4>1. CASE m \in s
        <5>1. f[s \ {m}] \in D
          BY <2>2, <2>6
        <5> QED
          BY <2>5, <4>1, <5>1
      <4>2. CASE m \notin s
        BY <2>2, <2>6, <4>2
      <4> QED
        BY <4>1, <4>2
    <3> QED
      BY <3>1, Zenon
  <2>8. \A s \in SUBSET (1 .. m) : h[s] = IF m \in s THEN step[<<f[s \ {m}], v[m]>>] ELSE f[s]
    BY Zenon
  <2> HIDE DEF h
  <2>9. ASSUME NEW s \in SUBSET (1 .. m)
        PROVE  h[s] = IF s = {} THEN base ELSE step[<<h[s \ {Max(s)}], v[Max(s)]>>]
    <3>1. CASE m \in s
      <4>1. Max(s) = m
        <5>1. s # {} /\ Max(s) \in s /\ \A j \in s : j <= Max(s)
          BY <2>4, <3>1, MaxIsGreatest
        <5>2. Max(s) \in 1 .. m /\ m <= Max(s)
          BY <3>1, <5>1
        <5> QED
          BY <2>4, <5>2
      <4>2. h[s \ {m}] = f[s \ {m}]
        <5>1. s \ {m} \in SUBSET (1 .. m) /\ m \notin s \ {m}
          OBVIOUS
        <5> QED
          BY <2>8, <5>1, Zenon
      <4>3. h[s] = step[<<f[s \ {m}], v[m]>>]
        BY <2>8, <3>1, Zenon
      <4>4. s # {}
        BY <3>1
      <4> QED
        BY <4>1, <4>2, <4>3, <4>4, Zenon
    <3>2. CASE m \notin s
      <4>1. s \in SUBSET (1 .. k) /\ h[s] = f[s]
        BY <2>6, <2>8, <3>2, Zenon
      <4>2. s \ {Max(s)} \in SUBSET (1 .. m) /\ m \notin s \ {Max(s)}
        BY <3>2
      <4>3. h[s \ {Max(s)}] = f[s \ {Max(s)}]
        BY <2>8, <4>2, Zenon
      <4> QED
        BY <2>2, <4>1, <4>3, Zenon
    <3> QED
      BY <3>1, <3>2
  <2>10. IsFold(h, m, D, base, step, v)
    BY <2>7, <2>9, Zenon DEF IsFold
  <2>11. k + 1 \in 0 .. n
    BY <2>3, <2>4
  <2> QED
    BY <2>3, <2>10, <2>11
<1> HIDE DEF G
<1>3. \A k \in 0 .. n : k \in G
  BY <1>1, <1>2, OneByOne
<1>4. n \in G
  BY <1>3
<1> QED
  BY <1>4 DEF G

\* f takes the elements of v one by one, as long as it stays in D.
IsRun(f, n, D, base, step, v) ==
    /\ f[{}] = base
    /\ \A s \in SUBSET (1 .. n) :
          s # {} /\ f[s \ {Max(s)}] \in D => f[s] = step[<<f[s \ {Max(s)}], v[Max(s)]>>]

\* a holds what such a run has made of the first i elements, for every i.
IsTrace(a, f, n, D, base, step, v) ==
    /\ a \in [0 .. n -> D]
    /\ a[0] = base
    /\ \A i \in 1 .. n : a[i] = step[<<a[i - 1], v[i]>>]
    /\ a[n] = f[1 .. n]

\* A fold over a sequence takes its elements one by one.
LEMMA FoldSteps ==
    ASSUME NEW D, NEW C, NEW base, NEW n, NEW v, NEW step, StaysIn(D, C, base, n, v, step),
           NEW f, IsRun(f, n, D, base, step, v)
    PROVE  \E a : IsTrace(a, f, n, D, base, step, v)
<1> DEFINE a == [i \in 0 .. n |-> f[1 .. i]]
           G == {i \in 0 .. n : a[i] \in D /\ (i # 0 => a[i] = step[<<a[i - 1], v[i]>>])}
<1> /\ base \in D /\ n \in Nat
    /\ \A i \in 1 .. n : v[i] \in C
    /\ step \in [D \X C -> D]
  BY DEF StaysIn
<1>0. /\ f[{}] = base
      /\ \A s \in SUBSET (1 .. n) :
            s # {} /\ f[s \ {Max(s)}] \in D => f[s] = step[<<f[s \ {Max(s)}], v[Max(s)]>>]
  BY Zenon DEF IsRun
<1>1. a[0] = base /\ a[n] = f[1 .. n]
  <2>1. 1 .. 0 = {} /\ 0 \in 0 .. n /\ n \in 0 .. n
    OBVIOUS
  <2> QED
    BY <1>0, <2>1, Zenon
<1>2. 0 \in G
  BY <1>1
<1>3. ASSUME NEW i \in 0 .. n - 1, i \in G
      PROVE  i + 1 \in G
  <2>1. PICK j : j = i + 1
    OBVIOUS
  <2>2. /\ j \in 1 .. n /\ j \in 0 .. n /\ j - 1 = i /\ j \in Nat \ {0} /\ i \in 0 .. n /\ j # 0
        /\ 1 .. j \in SUBSET (1 .. n)
    BY <2>1
  <2>3. 1 .. j # {} /\ Max(1 .. j) = j /\ (1 .. j) \ {Max(1 .. j)} = 1 .. i
    BY <2>2, UpToMax
  <2>4. a[i] = f[1 .. i] /\ a[j] = f[1 .. j] /\ a[i] \in D
    BY <1>3, <2>2, Zenon
  <2>5. f[1 .. j] = step[<<f[1 .. i], v[j]>>]
    BY <1>0, <2>2, <2>3, <2>4, Zenon
  <2>6. a[j] = step[<<a[j - 1], v[j]>>]
    BY <2>2, <2>4, <2>5, Zenon
  <2>7. a[j] \in D
    <3>1. v[j] \in C
      BY <2>2
    <3>2. <<a[i], v[j]>> \in D \X C
      BY <2>4, <3>1
    <3> QED
      BY <2>2, <2>6, <3>2
  <2> QED
    BY <2>1, <2>2, <2>6, <2>7, Zenon
<1> HIDE DEF G
<1>4. \A i \in 0 .. n : i \in G
  BY <1>2, <1>3, OneByOne
<1>5. \A i \in 0 .. n : a[i] \in D
  BY <1>4, Zenon DEF G
<1>6. \A i \in 1 .. n : a[i] = step[<<a[i - 1], v[i]>>]
  <2>1. \A i \in 1 .. n : i \in 0 .. n /\ i # 0
    OBVIOUS
  <2> QED
    BY <1>4, <2>1, Zenon DEF G
<1>7. a \in [0 .. n -> D]
  BY <1>5, Zenon
<1> QED
  BY <1>1, <1>6, <1>7, Zenon DEF IsTrace

\* f and g take the elements of u, and those of u and one more.
RunsFurther(D, C, base, step, n, u, c, f, g) ==
    /\ u \in Seq(C) /\ c \in C /\ n = Len(u)
    /\ StaysIn(D, C, base, n, u, step)
    /\ IsRun(f, n, D, base, step, u)
    /\ IsRun(g, n + 1, D, base, step, Append(u, c))

\* A fold over a sequence with one element more takes one step more.
LEMMA FoldAppend ==
    ASSUME NEW D, NEW C, NEW base, NEW step, NEW n, NEW u, NEW c, NEW f, NEW g,
           RunsFurther(D, C, base, step, n, u, c, f, g)
    PROVE  f[1 .. n] \in D /\ g[1 .. n + 1] = step[<<f[1 .. n], c>>]
<1> /\ u \in Seq(C) /\ c \in C /\ n = Len(u)
    /\ StaysIn(D, C, base, n, u, step)
    /\ IsRun(f, n, D, base, step, u)
    /\ IsRun(g, n + 1, D, base, step, Append(u, c))
  BY Zenon DEF RunsFurther
<1> base \in D /\ step \in [D \X C -> D]
  BY Zenon DEF StaysIn
<1>1. n \in Nat /\ \A i \in 1 .. n : u[i] \in C
  OBVIOUS
<1>2. PICK w : w = Append(u, c)
  OBVIOUS
<1>3. w[n + 1] = c /\ \A i \in 1 .. n : w[i] = u[i]
  BY <1>2
<1>4. PICK m : m = n + 1
  OBVIOUS
<1>5. /\ m \in Nat /\ \A i \in 1 .. m : w[i] \in C
      /\ m \in 1 .. m /\ n \in 0 .. m /\ m - 1 = n
      /\ \A i \in 0 .. n : i \in 0 .. m /\ \A k \in 1 .. n : k \in 1 .. m
  BY <1>1, <1>3, <1>4
<1>6. PICK a : IsTrace(a, f, n, D, base, step, u)
  BY FoldSteps, Zenon
<1>7. PICK b : IsTrace(b, g, m, D, base, step, w)
  <2>1. StaysIn(D, C, base, m, w, step)
    BY <1>5, Zenon DEF StaysIn
  <2>2. IsRun(g, m, D, base, step, w)
    BY <1>2, <1>4, Zenon
  <2> QED
    BY <2>1, <2>2, FoldSteps, Zenon
<1>a. /\ a \in [0 .. n -> D] /\ a[0] = base /\ a[n] = f[1 .. n]
      /\ \A i \in 1 .. n : a[i] = step[<<a[i - 1], u[i]>>]
  BY <1>6, Zenon DEF IsTrace
<1>b. /\ b \in [0 .. m -> D] /\ b[0] = base /\ b[m] = g[1 .. m]
      /\ \A i \in 1 .. m : b[i] = step[<<b[i - 1], w[i]>>]
  BY <1>7, Zenon DEF IsTrace
<1> DEFINE G == {i \in 0 .. n : a[i] = b[i]}
<1>8. 0 \in G
  BY <1>1, <1>a, <1>b
<1>9. ASSUME NEW i \in 0 .. n - 1, i \in G
      PROVE  i + 1 \in G
  <2>1. PICK j : j = i + 1
    OBVIOUS
  <2>2. j \in 1 .. n /\ j \in 0 .. n /\ j - 1 = i /\ j \in 1 .. m
    BY <1>1, <1>5, <2>1
  <2>3. a[i] = b[i]
    BY <1>9
  <2>4. a[j] = step[<<a[i], u[j]>>] /\ b[j] = step[<<b[i], w[j]>>] /\ w[j] = u[j]
    BY <1>3, <1>a, <1>b, <2>2, Zenon
  <2> QED
    BY <2>1, <2>2, <2>3, <2>4, Zenon
<1> HIDE DEF G
<1>10. \A i \in 0 .. n : i \in G
  BY <1>1, <1>8, <1>9, OneByOne
<1>11. a[n] = b[n]
  <2>1. n \in 0 .. n
    BY <1>1
  <2> QED
    BY <1>10, <2>1, Zenon DEF G
<1>12. b[m] = step[<<b[n], w[m]>>]
  BY <1>5, <1>b, Zenon
<1>13. a[n] \in D
  BY <1>1, <1>a
<1> QED
  BY <1>3, <1>4, <1>a, <1>b, <1>11, <1>12, <1>13, Zenon

\* What holds of the empty sequence and of one element more holds of all.
LEMMA SeqOneByOne ==
    ASSUME NEW S, NEW G, <<>> \in G, \A u \in Seq(S), c \in S : u \in G => Append(u, c) \in G
    PROVE  \A s \in Seq(S) : s \in G
<1> SUFFICES ASSUME NEW s \in Seq(S)
             PROVE  s \in G
  OBVIOUS
<1>1. PICK n : n = Len(s)
  OBVIOUS
<1>2. n \in Nat
  BY <1>1
<1> DEFINE H == {i \in 0 .. n : SubSeq(s, 1, i) \in G}
<1>3. 0 \in H
  <2>1. SubSeq(s, 1, 0) = <<>>
    OBVIOUS
  <2>2. 0 \in 0 .. n
    BY <1>2
  <2> QED
    BY <2>1, <2>2, Zenon
<1>4. ASSUME NEW i \in 0 .. n - 1, i \in H
      PROVE  i + 1 \in H
  <2>1. PICK j : j = i + 1
    OBVIOUS
  <2>2. j \in 1 .. n /\ j - 1 = i /\ j \in 0 .. n /\ s[j] \in S
    BY <1>1, <1>2, <2>1
  <2>3. /\ SubSeq(s, 1, j - 1) \in Seq(S)
        /\ SubSeq(s, 1, j) = Append(SubSeq(s, 1, j - 1), s[j])
    BY <1>1, <2>2, PrefixStep
  <2>4. SubSeq(s, 1, i) \in G
    BY <1>4
  <2>5. SubSeq(s, 1, j) \in G
    BY <2>2, <2>3, <2>4, Zenon
  <2> QED
    BY <2>1, <2>2, <2>5, Zenon
<1> HIDE DEF H
<1>5. n \in H
  <2>1. \A i \in 0 .. n : i \in H
    BY <1>2, <1>3, <1>4, OneByOne
  <2> QED
    BY <1>2, <2>1
<1>6. SubSeq(s, 1, n) \in G
  BY <1>5 DEF H
<1>7. SubSeq(s, 1, n) = s
  BY <1>1
<1> QED
  BY <1>6, <1>7
-----------------------------------------------------------------------------
\* The chunk is at least one row, and workers chunks cover every row.
LEMMA ChunkCovers ==
    ASSUME NEW n \in Nat \ {0}, NEW w \in Nat \ {0}
    PROVE  /\ Chunk(n, w) \in Nat \ {0}
           /\ w * Chunk(n, w) >= n
  BY DEF Chunk

\* A quotient and a remainder: row r - 1 lies in the chunk (r - 1) \div c.
LEMMA Quotient ==
    ASSUME NEW r \in Nat, NEW c \in Nat \ {0}
    PROVE  /\ r \div c \in Nat
           /\ c * (r \div c) <= r
           /\ r < c * (r \div c) + c
  OBVIOUS

\* A product by a positive factor orders as its other factors do.
LEMMA MulLess ==
    ASSUME NEW s \in Nat, NEW w \in Nat, NEW c \in Nat \ {0}, s * c < w * c
    PROVE  s < w
  OBVIOUS

\* The next multiple of c is at least c further on.
LEMMA MulStep ==
    ASSUME NEW s \in Nat, NEW t \in Nat, NEW c \in Nat \ {0}, s < t
    PROVE  s * c + c <= t * c
  OBVIOUS
-----------------------------------------------------------------------------
(* Every row belongs to a shard.                                            *)
THEOREM ShardsCover ==
    ASSUME NEW n \in Nat \ {0}, NEW w \in Nat \ {0}, NEW r \in 1 .. n
    PROVE  \E s \in ShardIds(n, w) : r \in ShardRows(n, w, s)
<1> DEFINE c == Chunk(n, w)
           s == (r - 1) \div c
<1>1. c \in Nat \ {0}
  BY ChunkCovers
<1> HIDE DEF c
<1>2. s \in Nat /\ c * s <= r - 1 /\ r - 1 < c * s + c
  BY <1>1, Quotient
<1> HIDE DEF s
<1>3. s * c = c * s /\ s <= c * s
  BY <1>1, <1>2
<1>4. s * c \in Nat /\ s * c + 1 <= r /\ r <= s * c + c /\ s <= n - 1 /\ s * c < n
  BY <1>1, <1>2, <1>3
<1>5. s \in ShardIds(n, w)
  BY <1>2, <1>4 DEF ShardIds, c
<1>6. r \in ShardRows(n, w, s)
  BY <1>1, <1>4 DEF ShardRows, ShardLo, ShardHi, c
<1> QED
  BY <1>5, <1>6

(* No row belongs to two shards: the workers' slots are disjoint.           *)
THEOREM ShardsDisjoint ==
    ASSUME NEW n \in Nat \ {0}, NEW w \in Nat \ {0},
           NEW s \in ShardIds(n, w), NEW t \in ShardIds(n, w), s # t
    PROVE  ShardRows(n, w, s) \cap ShardRows(n, w, t) = {}
<1> DEFINE c == Chunk(n, w)
<1>1. c \in Nat \ {0}
  BY ChunkCovers
<1> HIDE DEF c
<1>2. s \in Nat /\ t \in Nat /\ s * c \in Nat /\ t * c \in Nat
  BY <1>1 DEF ShardIds
<1>3. (s < t => s * c + c <= t * c) /\ (t < s => t * c + c <= s * c)
  BY <1>1, <1>2, MulStep
<1>4. \A r \in ShardRows(n, w, s) : r \in Int /\ s * c < r /\ r <= s * c + c
  BY <1>1, <1>2 DEF ShardRows, ShardLo, ShardHi, c
<1>5. \A r \in ShardRows(n, w, t) : r \in Int /\ t * c < r /\ r <= t * c + c
  BY <1>1, <1>2 DEF ShardRows, ShardLo, ShardHi, c
<1>6. s < t \/ t < s
  BY <1>2
<1> QED
  BY <1>1, <1>2, <1>3, <1>4, <1>5, <1>6

(* A shard is never empty, stays within the rows, and there are at most     *)
(* workers of them ("across at most workers shards").                       *)
THEOREM ShardsBounded ==
    ASSUME NEW n \in Nat \ {0}, NEW w \in Nat \ {0}, NEW s \in ShardIds(n, w)
    PROVE  /\ s < w
           /\ ShardRows(n, w, s) # {}
           /\ ShardRows(n, w, s) \subseteq 1 .. n
<1> DEFINE c == Chunk(n, w)
<1>1. c \in Nat \ {0} /\ w * c >= n
  BY ChunkCovers
<1> HIDE DEF c
<1>2. s \in Nat /\ s * c \in Nat /\ s * c < n
  BY <1>1 DEF ShardIds, c
<1>3. s < w
  <2>1. s * c < w * c
    BY <1>1, <1>2
  <2> QED
    BY <1>1, <1>2, <2>1, MulLess
<1>4. s * c + 1 \in ShardRows(n, w, s)
  BY <1>1, <1>2 DEF ShardRows, ShardLo, ShardHi, c
<1>5. ShardRows(n, w, s) \subseteq 1 .. n
  BY <1>1, <1>2 DEF ShardRows, ShardLo, ShardHi, c
<1> QED
  BY <1>3, <1>4, <1>5
-----------------------------------------------------------------------------
\* Products keep the order of a factor.
LEMMA ProductOrder ==
    ASSUME NEW s \in Nat, NEW q \in Int, NEW r \in Int, q <= r
    PROVE  s * q \in Int /\ s * r \in Int /\ s * q <= s * r
  OBVIOUS

\* A step of more than one row moves on by a row at least.
LEMMA RoundsAscend ==
    ASSUME NEW s \in Nat \ {0}, NEW m \in Nat, s < m, NEW i \in Nat,
           NEW q \in Int, NEW r \in Int,
           Rounds(q, i, [num |-> m, den |-> s]),
           Rounds(r, i + 1, [num |-> m, den |-> s])
    PROVE  q < r
<1> SUFFICES ASSUME r <= q
             PROVE  FALSE
  OBVIOUS
<1>1. 2 * s * q <= 2 * i * m + s /\ 2 * (i + 1) * m - s <= 2 * s * r
  BY DEF Rounds
<1>2. s * r <= s * q /\ s * r \in Int /\ s * q \in Int
  BY ProductOrder
<1>3. 2 * s * q = 2 * (s * q) /\ 2 * s * r = 2 * (s * r)
  OBVIOUS
<1>4. i * m \in Nat /\ 2 * i * m = 2 * (i * m) /\ 2 * (i + 1) * m = 2 * (i * m) + 2 * m
  OBVIOUS
<1> QED
  BY <1>1, <1>2, <1>3, <1>4

\* A share of the first i <= s steps of s rounds to a row.
LEMMA RoundsBelow ==
    ASSUME NEW s \in Nat \ {0}, NEW m \in Nat, NEW i \in 0 .. s, NEW q \in Int,
           Rounds(q, i, [num |-> m, den |-> s])
    PROVE  q <= m
<1> SUFFICES ASSUME m + 1 <= q
             PROVE  FALSE
  OBVIOUS
<1>1. 2 * s * q <= 2 * i * m + s
  BY DEF Rounds
<1>2. s * (m + 1) <= s * q /\ s * q \in Int /\ s * (m + 1) = s * m + s
  BY ProductOrder
<1>3. m * i <= m * s /\ m * i = i * m /\ m * s = s * m /\ i * m \in Int /\ s * m \in Int
  BY ProductOrder
<1>4. 2 * s * q = 2 * (s * q) /\ 2 * i * m = 2 * (i * m)
  OBVIOUS
<1> QED
  BY <1>1, <1>2, <1>3, <1>4

\* Nothing of the way is the first row.
LEMMA RoundsFirst ==
    ASSUME NEW s \in Nat \ {0}, NEW m \in Nat, NEW q \in Nat,
           Rounds(q, 0, [num |-> m, den |-> s])
    PROVE  q = 0
<1> SUFFICES ASSUME 1 <= q
             PROVE  FALSE
  OBVIOUS
<1>1. 2 * s * q <= s
  BY DEF Rounds
<1>2. s * 1 <= s * q /\ s * q \in Int /\ s * 1 = s /\ 2 * s * q = 2 * (s * q)
  BY ProductOrder
<1> QED
  BY <1>1, <1>2

\* All of the way is the last row.
LEMMA RoundsLast ==
    ASSUME NEW s \in Nat \ {0}, NEW m \in Nat, NEW q \in Int,
           Rounds(q, s, [num |-> m, den |-> s])
    PROVE  q = m
<1>1. q <= m
  BY RoundsBelow
<1> SUFFICES ASSUME q <= m - 1
             PROVE  FALSE
  BY <1>1
<1>2. 2 * s * m - s <= 2 * s * q
  BY DEF Rounds
<1>3. s * q <= s * (m - 1) /\ s * q \in Int /\ s * m \in Int /\ s * (m - 1) = s * m - s
  BY ProductOrder
<1>4. 2 * s * q = 2 * (s * q) /\ 2 * s * m = 2 * (s * m)
  OBVIOUS
<1> QED
  BY <1>2, <1>3, <1>4
-----------------------------------------------------------------------------
\* What is known of a sample.
LEMMA SpreadFacts ==
    ASSUME NEW n \in Nat, NEW size \in Nat, 1 < size, size < n, NEW pos \in Spread(n, size)
    PROVE  /\ size - 1 \in Nat \ {0} /\ n - 1 \in Nat /\ size - 1 < n - 1
           /\ SampleStep(n, size) = [num |-> n - 1, den |-> size - 1]
           /\ pos \in [1 .. size -> 0 .. n - 1]
           /\ \A i \in 1 .. size : \E q \in 0 .. n :
                 /\ Rounds(q, i - 1, SampleStep(n, size))
                 /\ pos[i] = Corrected(q, IF i = 1 THEN -1 ELSE pos[i - 1], n)
<1>1. /\ pos \in [1 .. size -> 0 .. n - 1]
      /\ \A i \in 1 .. size : \E q \in 0 .. n :
            /\ Rounds(q, i - 1, SampleStep(n, size))
            /\ pos[i] = Corrected(q, IF i = 1 THEN -1 ELSE pos[i - 1], n)
  BY Zenon DEF Spread
<1>2. size - 1 \in Nat \ {0} /\ n - 1 \in Nat /\ size - 1 < n - 1
  OBVIOUS
<1>3. SampleStep(n, size) = [num |-> n - 1, den |-> size - 1]
  BY DEF SampleStep
<1> QED
  BY <1>1, <1>2, <1>3, Zenon

(* No correction is ever needed: every position is the rounded product, so    *)
(* the sample is spread as evenly as whole rows allow.                        *)
THEOREM SpreadIsEven ==
    ASSUME NEW n \in Nat, NEW size \in Nat, 1 < size, size < n, NEW pos \in Spread(n, size)
    PROVE  \A i \in 1 .. size : Rounds(pos[i], i - 1, SampleStep(n, size))
<1> DEFINE step == SampleStep(n, size)
           bad == {i \in 1 .. size : ~Rounds(pos[i], i - 1, step)}
<1>1. step = [num |-> n - 1, den |-> size - 1]
  BY SpreadFacts
<1>2. SUFFICES ASSUME bad # {}
               PROVE  FALSE
  OBVIOUS
<1>3. PICK i \in bad : \A j \in bad : i <= j
  <2>1. bad \subseteq Nat
    OBVIOUS
  <2>2. PICK i \in bad : \A j \in bad : ~(<<j, i>> \in OpToRel(<, Nat))
    BY <1>2, <2>1, WFMin, NatLessThanWellFounded
  <2>3. \A j \in bad : ~(j < i)
    BY <2>1, <2>2 DEF OpToRel
  <2> QED
    BY <2>1, <2>3
<1>4. i \in 1 .. size /\ ~Rounds(pos[i], i - 1, step)
  OBVIOUS
<1>5. PICK q \in 0 .. n : /\ Rounds(q, i - 1, step)
                          /\ pos[i] = Corrected(q, IF i = 1 THEN -1 ELSE pos[i - 1], n)
  BY <1>4, SpreadFacts
<1> HIDE DEF step, bad
<1>6. q <= n - 1
  BY <1>1, <1>4, <1>5, SpreadFacts, RoundsBelow, i - 1 \in 0 .. size - 1
<1>7. CASE i = 1
  <2>1. pos[i] = q
    BY <1>5, <1>6, <1>7 DEF Corrected
  <2> QED
    BY <1>4, <1>5, <2>1
<1>8. CASE i # 1
  <2>1. i - 1 \in 1 .. size /\ i - 1 \notin bad
    BY <1>3, <1>4, <1>8
  <2>2. Rounds(pos[i - 1], (i - 1) - 1, step)
    BY <2>1 DEF bad
  <2>3. i - 2 \in Nat /\ (i - 1) - 1 = i - 2 /\ (i - 2) + 1 = i - 1
    BY <1>4, <1>8
  <2>4. pos[i - 1] \in Int
    <3>1. pos \in [1 .. size -> 0 .. n - 1]
      BY SpreadFacts, Zenon
    <3> QED
      BY <2>1, <3>1
  <2>5. Rounds(pos[i - 1], i - 2, step) /\ Rounds(q, (i - 2) + 1, step)
    BY <1>5, <2>2, <2>3
  <2>6. size - 1 \in Nat \ {0} /\ n - 1 \in Nat /\ size - 1 < n - 1
    OBVIOUS
  <2>7. pos[i - 1] < q
    BY <1>1, <2>3, <2>4, <2>5, <2>6, RoundsAscend
  <2>8. pos[i] = q
    BY <1>5, <1>6, <1>8, <2>4, <2>7 DEF Corrected
  <2> QED
    BY <1>4, <1>5, <2>8
<1> QED
  BY <1>7, <1>8

(* The sampled rows ascend, so none is taken twice, and they reach from the   *)
(* first row of the cluster to its last.                                      *)
THEOREM SpreadCovers ==
    ASSUME NEW n \in Nat, NEW size \in Nat, 1 < size, size < n, NEW pos \in Spread(n, size)
    PROVE  /\ \A i \in 1 .. size - 1 : pos[i] < pos[i + 1]
           /\ pos[1] = 0
           /\ pos[size] = n - 1
<1> DEFINE step == SampleStep(n, size)
<1>1. /\ step = [num |-> n - 1, den |-> size - 1]
      /\ size - 1 \in Nat \ {0} /\ n - 1 \in Nat /\ size - 1 < n - 1
      /\ pos \in [1 .. size -> 0 .. n - 1]
  BY SpreadFacts
<1>2. \A i \in 1 .. size : Rounds(pos[i], i - 1, step)
  BY SpreadIsEven
<1> HIDE DEF step
<1>3. ASSUME NEW i \in 1 .. size - 1
      PROVE  pos[i] < pos[i + 1]
  <2>1. i \in 1 .. size /\ i + 1 \in 1 .. size /\ i - 1 \in Nat /\ (i + 1) - 1 = (i - 1) + 1
    OBVIOUS
  <2>2. Rounds(pos[i], i - 1, step) /\ Rounds(pos[i + 1], (i - 1) + 1, step)
    BY <1>2, <2>1
  <2>3. pos[i] \in Int /\ pos[i + 1] \in Int
    BY <1>1, <2>1
  <2> QED
    BY <1>1, <2>1, <2>2, <2>3, RoundsAscend
<1>4. pos[1] = 0
  <2>1. Rounds(pos[1], 0, step) /\ pos[1] \in Nat
    BY <1>1, <1>2, 1 \in 1 .. size, 1 - 1 = 0
  <2> QED
    BY <1>1, <2>1, RoundsFirst
<1>5. pos[size] = n - 1
  <2>1. Rounds(pos[size], size - 1, step) /\ pos[size] \in Int
    BY <1>1, <1>2, size \in 1 .. size
  <2> QED
    BY <1>1, <2>1, RoundsLast
<1> QED
  BY <1>3, <1>4, <1>5

(* Whatever the cluster and the sampled fraction, and in all branches of      *)
(* samplePositions: at least one row is taken, in order and none twice, the   *)
(* first row is, and so is the last when there are two or more.               *)
THEOREM PositionsCover ==
    ASSUME NEW n \in Nat \ {0}, NEW sample \in [num : Nat, den : Nat \ {0}],
           NEW pos \in samplePositions(n, sample)
    PROVE  \E k \in 1 .. n :
              /\ pos \in [1 .. k -> 0 .. n - 1]
              /\ \A i \in 1 .. k - 1 : pos[i] < pos[i + 1]
              /\ pos[1] = 0
              /\ k > 1 => pos[k] = n - 1
<1> DEFINE size == sampleSize(n, sample)
<1>1. size \in Nat \ {0}
  <2>1. n * sample.num + sample.den - 1 \in Int /\ sample.den \in Nat \ {0}
    OBVIOUS
  <2>2. (n * sample.num + sample.den - 1) \div sample.den \in Int
    BY <2>1
  <2> QED
    BY <2>2 DEF sampleSize
<1>2. CASE n <= 1 \/ sample.num >= sample.den \/ size >= n
  <2>1. pos = [i \in 1 .. n |-> i - 1]
    BY <1>2 DEF samplePositions
  <2> WITNESS n \in 1 .. n
  <2> QED
    BY <2>1
<1>3. CASE ~(n <= 1 \/ sample.num >= sample.den \/ size >= n) /\ size = 1
  <2>1. pos = <<0>>
    BY <1>3 DEF samplePositions
  <2> WITNESS 1 \in 1 .. n
  <2> QED
    BY <2>1
<1>4. CASE ~(n <= 1 \/ sample.num >= sample.den \/ size >= n) /\ size # 1
  <2>1. pos \in Spread(n, size)
    BY <1>4 DEF samplePositions
  <2> HIDE DEF size
  <2>2. 1 < size /\ size < n /\ n \in Nat /\ size \in Nat
    BY <1>1, <1>4
  <2>3. pos \in [1 .. size -> 0 .. n - 1]
    BY <2>1, <2>2, SpreadFacts
  <2>4. /\ \A i \in 1 .. size - 1 : pos[i] < pos[i + 1]
        /\ pos[1] = 0
        /\ pos[size] = n - 1
    BY <2>1, <2>2, SpreadCovers
  <2>5. size \in 1 .. n
    BY <2>2
  <2> QED
    BY <2>3, <2>4, <2>5
<1> QED
  BY <1>2, <1>3, <1>4
=============================================================================
