--------------------------- MODULE MatcherProofs ---------------------------
(***************************************************************************)
(* The lookup is right for any template list and any batch: the indexes lose *)
(* no template that matches, the early exits skip none that could win, the   *)
(* cache keeps no wrong answer, and the arguments rebuild the message.       *)
(* After the matcher, the corpus codec: what training makes of any corpus    *)
(* gives every line back when patterns come from all rows.                   *)
(***************************************************************************)
EXTENDS Matcher, CorpusCodec, BasicLemmas

\* A prefix, element by element.
LEMMA PrefixMeans ==
    ASSUME NEW S, NEW T, NEW s \in Seq(S), NEW t \in Seq(T)
    PROVE  IsPrefix(s, t) <=> (Len(s) <= Len(t) /\ \A i \in 1 .. Len(s) : s[i] = t[i])
<1>1. ASSUME Len(s) <= Len(t)
      PROVE  SubSeq(s, 1, Len(s)) = s /\ SubSeq(t, 1, Len(s)) = [i \in 1 .. Len(s) |-> t[i]]
  BY <1>1
<1>2. s = [i \in 1 .. Len(s) |-> s[i]]
  OBVIOUS
<1>3. CASE Len(s) <= Len(t)
  <2>1. IsPrefix(s, t) <=> s = [i \in 1 .. Len(s) |-> t[i]]
    BY <1>1, <1>3, Zenon DEF IsPrefix
  <2>2. (\A i \in 1 .. Len(s) : s[i] = t[i]) => s = [i \in 1 .. Len(s) |-> t[i]]
    BY <1>2, Zenon
  <2>3. s = [i \in 1 .. Len(s) |-> t[i]] => \A i \in 1 .. Len(s) : s[i] = t[i]
    BY Zenon
  <2> QED
    BY <1>3, <2>1, <2>2, <2>3
<1>4. CASE ~(Len(s) <= Len(t))
  BY <1>4, Zenon DEF IsPrefix
<1> QED
  BY <1>3, <1>4

\* A suffix, element by element.
LEMMA SuffixMeans ==
    ASSUME NEW S, NEW T, NEW s \in Seq(S), NEW t \in Seq(T)
    PROVE  IsSuffix(s, t) <=>
              (Len(s) <= Len(t) /\ \A i \in 1 .. Len(s) : s[i] = t[Len(t) - Len(s) + i])
<1> DEFINE a == Len(s)
           b == Len(t)
<1>1. a \in Nat /\ b \in Nat
  OBVIOUS
<1>2. /\ Reverse(s) = [i \in 1 .. a |-> s[(a - i) + 1]]
      /\ Reverse(t) = [i \in 1 .. b |-> t[(b - i) + 1]]
  BY DEF Reverse
<1>3. Reverse(s) \in Seq(S) /\ Reverse(t) \in Seq(T) /\ Len(Reverse(s)) = a /\ Len(Reverse(t)) = b
  <2>1. \A i \in 1 .. a : (a - i) + 1 \in 1 .. a /\ s[(a - i) + 1] \in S
    BY <1>1
  <2>2. \A i \in 1 .. b : (b - i) + 1 \in 1 .. b /\ t[(b - i) + 1] \in T
    BY <1>1
  <2>3. Reverse(s) \in [1 .. a -> S] /\ Reverse(t) \in [1 .. b -> T]
    BY <1>2, <2>1, <2>2
  <2> QED
    BY <1>1, <2>3, FunctionIsSeq
<1>4. IsSuffix(s, t) <=> (a <= b /\ \A i \in 1 .. a : Reverse(s)[i] = Reverse(t)[i])
  BY <1>3, PrefixMeans DEF IsSuffix
<1> HIDE DEF a, b
<1>5. CASE a <= b
  <2>1. \A i \in 1 .. a : Reverse(s)[i] = s[(a - i) + 1] /\ Reverse(t)[i] = t[(b - i) + 1]
    <3>1. \A i \in 1 .. a : i \in 1 .. b
      BY <1>1, <1>5
    <3> QED
      BY <1>2, <3>1, Zenon
  <2>2. \A i \in 1 .. a : /\ (a - i) + 1 \in 1 .. a /\ (a - ((a - i) + 1)) + 1 = i
                          /\ (b - ((a - i) + 1)) + 1 = (b - a) + i
                          /\ (b - a) + ((a - i) + 1) = (b - i) + 1
    BY <1>1, <1>5
  <2>3. (\A i \in 1 .. a : s[i] = t[(b - a) + i]) => \A i \in 1 .. a : s[(a - i) + 1] = t[(b - i) + 1]
    <3> SUFFICES ASSUME \A i \in 1 .. a : s[i] = t[(b - a) + i], NEW i \in 1 .. a
                 PROVE  s[(a - i) + 1] = t[(b - i) + 1]
      OBVIOUS
    <3>1. s[(a - i) + 1] = t[(b - a) + ((a - i) + 1)]
      BY <2>2, Zenon
    <3> QED
      BY <2>2, <3>1
  <2>4. (\A i \in 1 .. a : s[(a - i) + 1] = t[(b - i) + 1]) => \A i \in 1 .. a : s[i] = t[(b - a) + i]
    <3> SUFFICES ASSUME \A i \in 1 .. a : s[(a - i) + 1] = t[(b - i) + 1], NEW i \in 1 .. a
                 PROVE  s[i] = t[(b - a) + i]
      OBVIOUS
    <3>1. s[(a - ((a - i) + 1)) + 1] = t[(b - ((a - i) + 1)) + 1]
      BY <2>2, Zenon
    <3> QED
      BY <2>2, <3>1
  <2> QED
    BY <1>4, <1>5, <2>1, <2>3, <2>4 DEF a, b
<1>6. CASE ~(a <= b)
  BY <1>4, <1>6 DEF a, b
<1> QED
  BY <1>5, <1>6
-----------------------------------------------------------------------------
\* The places of a template's placeholders.
Stars(t) == {j \in DOMAIN t : t[j] = "*"}

\* The places parts cuts at: before the template, its placeholders, after it.
Cut(t) == <<0>> \o Ascending(Stars(t)) \o <<Len(t) + 1>>

\* The cuts ascend, from 0 to past the end, and those between are the
\* placeholders.
IsCut(t, n, c) ==
    /\ n \in Nat /\ c \in Seq(Nat) /\ Len(c) = n + 2
    /\ c[1] = 0 /\ c[n + 2] = Len(t) + 1
    /\ \A j \in 2 .. n + 1 : c[j] \in 1 .. Len(t)
    /\ \A j \in 1 .. n + 1 : c[j] < c[j + 1]
    /\ Stars(t) = {c[j] : j \in 2 .. n + 1}

LEMMA CutFacts ==
    ASSUME NEW S, NEW t \in Seq(S), NEW n, n = placeholderCount(t), NEW c, c = Cut(t)
    PROVE  IsCut(t, n, c) /\ Len(Ascending(Stars(t))) = n
<1> DEFINE len == Len(t)
<1>1. len \in Nat /\ DOMAIN t = 1 .. len
  OBVIOUS
<1>2. Stars(t) \in SUBSET (1 .. len) /\ n = Cardinality(Stars(t))
  BY <1>1 DEF Stars, placeholderCount
<1>3. PICK s : s = Ascending(Stars(t))
  OBVIOUS
<1>4. /\ n \in Nat /\ s \in Seq(1 .. len) /\ ToSet(s) = Stars(t)
      /\ Len(s) = n /\ Ascends(s)
  BY <1>1, <1>2, <1>3, AscendingFacts, Zenon
<1>5. c = <<0>> \o s \o <<len + 1>>
  BY <1>3 DEF Cut
<1> HIDE DEF len
<1>6. /\ c \in Seq(Nat) /\ Len(c) = n + 2 /\ c[1] = 0 /\ c[n + 2] = len + 1
      /\ \A j \in 2 .. n + 1 : c[j] = s[j - 1]
  <2>1. <<0>> \in Seq(Nat) /\ <<len + 1>> \in Seq(Nat) /\ s \in Seq(Nat)
    BY <1>1, <1>4
  <2>2. PICK q : q = <<0>> \o s
    OBVIOUS
  <2>3. q \in Seq(Nat) /\ Len(q) = n + 1 /\ q[1] = 0 /\ \A j \in 2 .. n + 1 : q[j] = s[j - 1]
    BY <1>4, <2>1, <2>2
  <2>4. c = q \o <<len + 1>>
    BY <1>5, <2>2
  <2> QED
    BY <1>4, <2>1, <2>3, <2>4
<1>7. \A x : x \in ToSet(s) <=> \E i \in 1 .. n : x = s[i]
  BY <1>4, SeqRange
<1>8. \A j \in 2 .. n + 1 : c[j] \in 1 .. len /\ c[j] \in Stars(t)
  <2> SUFFICES ASSUME NEW j \in 2 .. n + 1
               PROVE  c[j] \in 1 .. len /\ c[j] \in Stars(t)
    OBVIOUS
  <2>1. j - 1 \in 1 .. n /\ c[j] = s[j - 1]
    <3>1. n \in Nat
      BY <1>4
    <3>2. j - 1 \in 1 .. n
      BY <3>1
    <3> QED
      BY <1>6, <3>2, Zenon
  <2>2. c[j] \in Stars(t)
    BY <1>4, <1>7, <2>1, Zenon
  <2> QED
    BY <1>2, <2>2
<1>9. \A j \in 1 .. n + 1 : c[j] < c[j + 1]
  <2> SUFFICES ASSUME NEW j \in 1 .. n + 1
               PROVE  c[j] < c[j + 1]
    OBVIOUS
  <2>1. CASE j = 1 \/ j = n + 1
    <3>1. j = 1 => j + 1 = 2
      OBVIOUS
    <3>2. CASE n = 0
      BY <1>1, <1>4, <1>6, <2>1, <3>2
    <3>3. CASE n # 0
      <4>1. 2 \in 2 .. n + 1 /\ n + 1 \in 2 .. n + 1 /\ (n + 1) + 1 = n + 2
        BY <1>4, <3>3
      <4>2. c[2] \in 1 .. len /\ c[n + 1] \in 1 .. len
        BY <1>8, <4>1, Zenon
      <4> QED
        BY <1>1, <1>6, <2>1, <4>1, <4>2
    <3> QED
      BY <3>2, <3>3
  <2>2. CASE j # 1 /\ j # n + 1
    <3>1. /\ j \in 2 .. n + 1 /\ j + 1 \in 2 .. n + 1 /\ (j + 1) - 1 = j
          /\ j - 1 \in DOMAIN s /\ j \in DOMAIN s /\ j - 1 < j
      BY <1>4, <2>2
    <3>2. c[j] = s[j - 1] /\ c[j + 1] = s[j] /\ s[j - 1] < s[j]
      BY <1>4, <1>6, <3>1 DEF Ascends
    <3> QED
      BY <3>2
  <2> QED
    BY <2>1, <2>2
<1>10. ASSUME NEW x \in Stars(t)
       PROVE  \E j \in 2 .. n + 1 : c[j] = x
  <2>1. x \in ToSet(s)
    BY <1>4
  <2>2. PICK i \in 1 .. n : x = s[i]
    BY <1>7, <2>1, Zenon
  <2>3. i + 1 \in 2 .. n + 1 /\ (i + 1) - 1 = i
    BY <1>4
  <2>4. c[i + 1] = x
    BY <1>6, <2>2, <2>3
  <2> QED
    BY <2>3, <2>4, Zenon
<1>11. Stars(t) = {c[j] : j \in 2 .. n + 1}
  BY <1>8, <1>10, Zenon
<1> QED
  BY <1>3, <1>4, <1>6, <1>8, <1>9, <1>11 DEF len, IsCut

\* The cuts ascend altogether.
LEMMA CutsAscend ==
    ASSUME NEW S, NEW t \in Seq(S), NEW n, n = placeholderCount(t), NEW c, c = Cut(t)
    PROVE  \A i, j \in 1 .. n + 2 : i < j => c[i] < c[j]
<1>1. /\ n \in Nat /\ c \in Seq(Nat) /\ Len(c) = n + 2
      /\ \A j \in 1 .. n + 1 : c[j] < c[j + 1]
  BY CutFacts DEF IsCut
<1>2. DOMAIN c = 1 .. n + 2 /\ Len(c) - 1 = n + 1
  BY <1>1
<1>3. Ascends(c)
  BY <1>1, <1>2, StepsAscend
<1> QED
  BY <1>2, <1>3, Zenon DEF Ascends

\* The parts are what lies between the cuts, without placeholders.
AreParts(ps, S, t, n, c) ==
    /\ ps \in Seq(Seq(S)) /\ Len(ps) = n + 1
    /\ \A j \in 1 .. n + 1 :
          /\ ps[j] \in Seq(S)
          /\ Len(ps[j]) = (c[j + 1] - 1) - c[j]
          /\ \A d \in 1 .. Len(ps[j]) : /\ c[j] + d \in 1 .. Len(t)
                                        /\ ps[j][d] = t[c[j] + d] /\ t[c[j] + d] # "*"

LEMMA PartsFacts ==
    ASSUME NEW S, NEW t \in Seq(S), NEW n, n = placeholderCount(t), NEW c, c = Cut(t)
    PROVE  AreParts(parts(t), S, t, n, c)
<1>11. IsCut(t, n, c) /\ Len(Ascending(Stars(t))) = n
  BY CutFacts
<1>1. /\ n \in Nat /\ c \in Seq(Nat) /\ Len(c) = n + 2
      /\ c[1] = 0 /\ c[n + 2] = Len(t) + 1
      /\ \A j \in 2 .. n + 1 : c[j] \in 1 .. Len(t)
      /\ \A j \in 1 .. n + 1 : c[j] < c[j + 1]
  BY <1>11 DEF IsCut
<1>2. Stars(t) = {c[j] : j \in 2 .. n + 1}
  BY <1>11 DEF IsCut
<1>10. n \in Nat
  BY <1>1
<1> DEFINE Part(j) == SubSeq(t, c[j] + 1, c[j + 1] - 1)
<1>3. parts(t) = [j \in 1 .. n + 1 |-> Part(j)]
  <2>1. parts(t) = [j \in 1 .. Len(Ascending(Stars(t))) + 1 |-> SubSeq(t, Cut(t)[j] + 1, Cut(t)[j + 1] - 1)]
    BY Zenon DEF parts, Cut, Stars
  <2> QED
    BY <1>11, <2>1, Zenon
<1>4. Len(t) \in Nat /\ \A i \in 1 .. n + 2 : c[i] \in Nat
  BY <1>1
<1>5. ASSUME NEW j \in 1 .. n + 1
      PROVE  /\ Part(j) \in Seq(S) /\ Len(Part(j)) = (c[j + 1] - 1) - c[j]
             /\ \A d \in 1 .. Len(Part(j)) : /\ c[j] + d \in 1 .. Len(t)
                                             /\ Part(j)[d] = t[c[j] + d] /\ t[c[j] + d] # "*"
  <2>1. PICK a, b : a = c[j] /\ b = c[j + 1]
    OBVIOUS
  <2>2. a \in Nat /\ b \in Nat /\ a < b /\ b <= Len(t) + 1
    <3>1. j \in 1 .. n + 2 /\ j + 1 \in 1 .. n + 2
      BY <1>1
    <3>2. a \in Nat /\ b \in Nat /\ a < b
      BY <1>1, <2>1, <3>1
    <3>3. j + 1 = n + 2 \/ j + 1 \in 2 .. n + 1
      BY <1>1
    <3>4. b = Len(t) + 1 \/ b \in 1 .. Len(t)
      BY <1>1, <2>1, <3>3, Zenon
    <3> QED
      BY <1>4, <3>2, <3>4
  <2>3. PICK u : u = SubSeq(t, a + 1, b - 1)
    OBVIOUS
  <2>4. u \in Seq(S) /\ Len(u) = (b - 1) - a /\ \A d \in 1 .. Len(u) : u[d] = t[a + d]
    BY <1>4, <2>2, <2>3
  <2>5. \A d \in 1 .. Len(u) : a + d \in 1 .. Len(t) /\ a < a + d /\ a + d < b
    BY <1>4, <2>2, <2>4
  <2>6. ASSUME NEW d \in 1 .. Len(u), t[a + d] = "*"
        PROVE  FALSE
    <3>0. a + d \in Stars(t)
      BY <2>5, <2>6 DEF Stars
    <3>1. PICK h \in 2 .. n + 1 : c[h] = a + d
      BY <1>2, <3>0
    <3>2. c[j] < c[h] /\ c[h] < c[j + 1]
      BY <2>1, <2>5, <3>1
    <3>3. \A i, g \in 1 .. n + 2 : i < g => c[i] < c[g]
      BY CutsAscend
    <3> HIDE DEF Part
    <3>4. /\ h \in 1 .. n + 2 /\ j \in 1 .. n + 2 /\ j + 1 \in 1 .. n + 2
          /\ (h < j \/ h = j \/ h = j + 1 \/ j + 1 < h)
      BY <1>10
    <3>5. c[h] \in Nat /\ c[j] \in Nat /\ c[j + 1] \in Nat
      BY <1>4, <3>4
    <3>6. h < j => c[h] < c[j]
      BY <3>3, <3>4, Zenon
    <3>7. j + 1 < h => c[j + 1] < c[h]
      BY <3>3, <3>4, Zenon
    <3> QED
      BY <3>2, <3>4, <3>5, <3>6, <3>7
  <2>7. Part(j) = u
    BY <2>1, <2>3
  <2>8. \A d \in 1 .. Len(u) : a + d \in 1 .. Len(t) /\ u[d] = t[a + d] /\ t[a + d] # "*"
    BY <2>4, <2>5, <2>6, Zenon
  <2> HIDE DEF Part
  <2> QED
    BY <2>1, <2>4, <2>7, <2>8, Zenon
<1>6. \A j \in 1 .. n + 1 : parts(t)[j] = Part(j)
  BY <1>3, Zenon
<1> HIDE DEF Part
<1>7. parts(t) \in Seq(Seq(S)) /\ Len(parts(t)) = n + 1
  <2>1. \A j \in 1 .. n + 1 : Part(j) \in Seq(S)
    BY <1>5
  <2>2. parts(t) \in [1 .. n + 1 -> Seq(S)]
    BY <1>3, <2>1, Zenon
  <2>3. n + 1 \in Nat
    BY <1>1
  <2> QED
    BY <2>2, <2>3, FunctionIsSeq, Zenon
<1>8. \A j \in 1 .. n + 1 :
         /\ Part(j) \in Seq(S) /\ Len(Part(j)) = (c[j + 1] - 1) - c[j]
         /\ \A d \in 1 .. Len(Part(j)) : /\ c[j] + d \in 1 .. Len(t)
                                         /\ Part(j)[d] = t[c[j] + d] /\ t[c[j] + d] # "*"
  BY <1>5, Zenon
<1>9. ASSUME NEW j \in 1 .. n + 1
      PROVE  /\ parts(t)[j] \in Seq(S)
             /\ Len(parts(t)[j]) = (c[j + 1] - 1) - c[j]
             /\ \A d \in 1 .. Len(parts(t)[j]) :
                   /\ c[j] + d \in 1 .. Len(t)
                   /\ parts(t)[j][d] = t[c[j] + d] /\ t[c[j] + d] # "*"
  <2>1. PICK p : p = parts(t)[j]
    OBVIOUS
  <2>2. p = Part(j)
    BY <1>6, <2>1
  <2>3. /\ p \in Seq(S) /\ Len(p) = (c[j + 1] - 1) - c[j]
        /\ \A d \in 1 .. Len(p) : c[j] + d \in 1 .. Len(t) /\ p[d] = t[c[j] + d] /\ t[c[j] + d] # "*"
    BY <1>8, <2>2, Zenon
  <2> QED
    BY <2>1, <2>3, Zenon
<1> QED
  BY <1>7, <1>9, Zenon DEF AreParts

-----------------------------------------------------------------------------
\* f is the function Cursors computes, up to the n-th placeholder.
IsCursors(t, m, n, f) ==
    f = [j \in 1 .. n |-> IF j > 1 THEN Place(m, f[j - 1], parts(t)[j])
                          ELSE IF IsPrefix(parts(t)[1], m) THEN Len(parts(t)[1]) ELSE -1]

\* It can be continued by one placeholder.
LEMMA CursorsExtend ==
    ASSUME NEW t, NEW m, NEW n \in Nat, NEW f, IsCursors(t, m, n, f)
    PROVE  \E g : IsCursors(t, m, n + 1, g)
<1> DEFINE Value(h, j) == IF j > 1 THEN Place(m, h[j - 1], parts(t)[j])
                          ELSE IF IsPrefix(parts(t)[1], m) THEN Len(parts(t)[1]) ELSE -1
           g == [j \in 1 .. n + 1 |-> IF j = n + 1 THEN Value(f, n + 1) ELSE f[j]]
<1>1. \A j \in 1 .. n : f[j] = Value(f, j)
  BY Zenon DEF IsCursors
<1>2. ASSUME NEW j \in 1 .. n + 1
      PROVE  g[j] = Value(g, j)
  <2>1. j > 1 => j - 1 \in 1 .. n + 1 /\ j - 1 # n + 1
    OBVIOUS
  <2>2. j > 1 => g[j - 1] = f[j - 1]
    BY <2>1, Zenon
  <2> HIDE DEF g
  <2>3. Value(g, j) = Value(f, j)
    BY <2>2
  <2>4. CASE j = n + 1
    <3>1. g[j] = Value(f, j)
      BY <2>4, Zenon DEF g
    <3> QED
      BY <2>3, <3>1
  <2>5. CASE j # n + 1
    <3>1. j \in 1 .. n
      BY <2>5
    <3>2. g[j] = f[j]
      BY <2>5, Zenon DEF g
    <3> QED
      BY <1>1, <2>3, <3>1, <3>2
  <2> QED
    BY <2>4, <2>5
<1>3. g = [j \in 1 .. n + 1 |-> g[j]]
  BY Zenon
<1> HIDE DEF g
<1>4. g = [j \in 1 .. n + 1 |-> Value(g, j)]
  BY <1>2, <1>3, Zenon
<1>5. IsCursors(t, m, n + 1, g)
  BY <1>4, Zenon DEF IsCursors
<1> QED
  BY <1>5

LEMMA CursorsExist ==
    ASSUME NEW t, NEW m, NEW n \in Nat
    PROVE  \E f : IsCursors(t, m, n, f)
<1> DEFINE G == {i \in Nat : \E f : IsCursors(t, m, i, f)}
<1>1. 0 \in G
  <2>1. \A j \in 1 .. 0 : FALSE
    OBVIOUS
  <2> DEFINE e == [j \in 1 .. 0 |-> 0]
  <2>2. e = [j \in 1 .. 0 |-> IF j > 1 THEN Place(m, e[j - 1], parts(t)[j])
                              ELSE IF IsPrefix(parts(t)[1], m) THEN Len(parts(t)[1]) ELSE -1]
    BY <2>1, Zenon
  <2> QED
    BY <2>2, Zenon DEF IsCursors
<1>2. \A i \in 0 .. n - 1 : i \in G => i + 1 \in G
  <2> SUFFICES ASSUME NEW i \in 0 .. n - 1, i \in G
               PROVE  i + 1 \in G
    OBVIOUS
  <2>1. i \in Nat /\ i + 1 \in Nat
    OBVIOUS
  <2> QED
    BY <2>1, CursorsExtend
<1> HIDE DEF G
<1>3. n \in G
  BY <1>1, <1>2, OneByOne, n \in 0 .. n
<1> QED
  BY <1>3 DEF G

\* The cursors are that function.
LEMMA CursorsFacts ==
    ASSUME NEW t, NEW m, NEW n \in Nat, n = placeholderCount(t), NEW cs, cs = Cursors(t, m)
    PROVE  IsCursors(t, m, n, cs)
<1> DEFINE f == CHOOSE f : IsCursors(t, m, n, f)
<1>1. IsCursors(t, m, n, f)
  BY CursorsExist
<1>2. Cursors(t, m) = f
  BY Zenon DEF Cursors, IsCursors
<1> QED
  BY <1>1, <1>2

\* Where an interior part is placed: after the cursor with room for an argument,
\* on the same bytes of the message.
LEMMA PlaceFacts ==
    ASSUME NEW T, NEW m \in Seq(T), NEW S, NEW p \in Seq(S), NEW c \in Int,
           NEW r, r = Place(m, c, p)
    PROVE  \/ r = -1
           \/ /\ c >= 0 /\ p # <<>>
              /\ r \in 0 .. Len(m) /\ c < r - Len(p)
              /\ SubSeq(m, (r - Len(p)) + 1, r) = p
<1> DEFINE at == IF c < 0 \/ p = <<>> THEN {} ELSE Skips(m, c, p)
<1>1. r = IF at = {} \/ 0 \in at THEN -1 ELSE c + Min(at) + Len(p)
  BY Zenon DEF Place
<1> SUFFICES ASSUME at # {}, 0 \notin at
             PROVE  /\ c >= 0 /\ p # <<>>
                    /\ r \in 0 .. Len(m) /\ c < r - Len(p)
                    /\ SubSeq(m, (r - Len(p)) + 1, r) = p
  BY <1>1
<1>2. c >= 0 /\ p # <<>> /\ at = Skips(m, c, p)
  OBVIOUS
<1>3. at = {d \in 0 .. Len(m) - c - Len(p) : SubSeq(m, c + d + 1, c + d + Len(p)) = p}
  BY <1>2, Zenon DEF Skips
<1> HIDE DEF at
<1>4. at \in SUBSET Nat /\ Len(m) \in Nat /\ Len(p) \in Nat
  BY <1>3
<1>5. PICK d : d = Min(at)
  OBVIOUS
<1>6. d \in at
  BY <1>4, <1>5, MinIsLeast
<1>7. d \in 0 .. Len(m) - c - Len(p) /\ SubSeq(m, c + d + 1, c + d + Len(p)) = p /\ d # 0
  BY <1>3, <1>6
<1>8. r = c + d + Len(p)
  BY <1>1, <1>5
<1>9. r - Len(p) = c + d
  BY <1>4, <1>7, <1>8
<1>10. SubSeq(m, (r - Len(p)) + 1, r) = p
  BY <1>7, <1>8, <1>9
<1> QED
  BY <1>2, <1>4, <1>7, <1>8, <1>9, <1>10

\* Part j of t lies in m, up to its cursor, with room before it.
Placed(t, m, cs, j) ==
    /\ cs[j] \in 0 .. Len(m)
    /\ j = 1 => IsPrefix(parts(t)[1], m) /\ cs[1] = Len(parts(t)[1])
    /\ j > 1 => /\ parts(t)[j] # <<>>
                /\ cs[j - 1] < cs[j] - Len(parts(t)[j])
                /\ SubSeq(m, (cs[j] - Len(parts(t)[j])) + 1, cs[j]) = parts(t)[j]

\* A cursor is -1 or its part is placed, and the part before it too.
LEMMA CursorStep ==
    ASSUME NEW S, NEW t \in Seq(S), NEW T, NEW m \in Seq(T),
           NEW n, n = placeholderCount(t), NEW cs, cs = Cursors(t, m)
    PROVE  /\ n \in Nat
           /\ \A j \in 1 .. n : cs[j] = -1 \/ Placed(t, m, cs, j)
           /\ \A j \in 2 .. n : cs[j] # -1 => cs[j - 1] # -1
<1>1. PICK ps : ps = parts(t)
  OBVIOUS
<1>2. n \in Nat
  BY CutFacts DEF IsCut
<1>3. ps \in Seq(Seq(S)) /\ Len(ps) = n + 1
  BY <1>1, PartsFacts, Zenon DEF AreParts
<1>4. \A j \in 1 .. n : ps[j] \in Seq(S)
  BY <1>2, <1>3
<1>5. IsCursors(t, m, n, cs)
  BY <1>2, CursorsFacts
<1>6. \A j \in 1 .. n : cs[j] = IF j > 1 THEN Place(m, cs[j - 1], ps[j])
                                ELSE IF IsPrefix(ps[1], m) THEN Len(ps[1]) ELSE -1
  BY <1>1, <1>5, Zenon DEF IsCursors
<1> DEFINE Right(j) == cs[j] \in Int /\ (cs[j] = -1 \/ Placed(t, m, cs, j))
           G == {j \in 0 .. n : j > 0 => Right(j)}
<1>7. ASSUME NEW j \in 2 .. n, cs[j - 1] \in Int
      PROVE  Right(j) /\ (cs[j] # -1 => cs[j - 1] # -1)
  <2>1. j \in 1 .. n /\ j > 1 /\ j # 1
    BY <1>2
  <2>2. PICK p, c : p = ps[j] /\ c = cs[j - 1]
    OBVIOUS
  <2>3. p \in Seq(S) /\ c \in Int /\ cs[j] = Place(m, c, p)
    BY <1>4, <1>6, <1>7, <2>1, <2>2
  <2>4. \/ cs[j] = -1
        \/ /\ c >= 0 /\ p # <<>>
           /\ cs[j] \in 0 .. Len(m) /\ c < cs[j] - Len(p)
           /\ SubSeq(m, (cs[j] - Len(p)) + 1, cs[j]) = p
    BY <2>3, PlaceFacts
  <2>5. CASE cs[j] = -1
    BY <2>5
  <2>6. CASE cs[j] # -1
    <3>1. Placed(t, m, cs, j)
      BY <1>1, <2>1, <2>2, <2>4, <2>6 DEF Placed
    <3> QED
      BY <2>2, <2>3, <2>4, <2>6, <3>1
  <2> QED
    BY <2>5, <2>6
<1>8. n > 0 => Right(1)
  <2> SUFFICES ASSUME n > 0
               PROVE  Right(1)
    OBVIOUS
  <2>1. 1 \in 1 .. n /\ ~(1 > 1)
    BY <1>2
  <2>2. cs[1] = IF IsPrefix(ps[1], m) THEN Len(ps[1]) ELSE -1
    BY <1>6, <2>1
  <2>3. ps[1] \in Seq(S)
    BY <1>4, <2>1
  <2>4. CASE IsPrefix(ps[1], m)
    <3>1. Len(ps[1]) <= Len(m) /\ Len(ps[1]) \in Nat /\ Len(m) \in Nat
      BY <2>3, <2>4 DEF IsPrefix
    <3>2. cs[1] = Len(ps[1]) /\ cs[1] \in 0 .. Len(m)
      BY <2>2, <2>4, <3>1
    <3>3. Placed(t, m, cs, 1)
      BY <1>1, <2>1, <2>4, <3>2 DEF Placed
    <3> QED
      BY <3>2, <3>3
  <2>5. CASE ~IsPrefix(ps[1], m)
    BY <2>2, <2>5
  <2> QED
    BY <2>4, <2>5
<1>9. \A j \in 0 .. n : j \in G
  <2>1. 0 \in G
    BY <1>2
  <2>2. \A j \in 0 .. n - 1 : j \in G => j + 1 \in G
    <3> SUFFICES ASSUME NEW j \in 0 .. n - 1, j \in G
                 PROVE  j + 1 \in G
      OBVIOUS
    <3>1. CASE j = 0
      <4>1. j + 1 = 1 /\ n > 0 /\ 1 \in 0 .. n
        BY <1>2, <3>1
      <4>2. Right(1)
        BY <1>8, <4>1
      <4> QED
        BY <4>1, <4>2
    <3>2. CASE j # 0
      <4>1. j + 1 \in 2 .. n /\ (j + 1) - 1 = j /\ j + 1 \in 0 .. n /\ j > 0
        BY <1>2, <3>2
      <4>2. cs[(j + 1) - 1] \in Int
        BY <4>1
      <4>3. Right(j + 1)
        BY <1>7, <4>1, <4>2
      <4> QED
        BY <4>1, <4>3
    <3> QED
      BY <3>1, <3>2
  <2> HIDE DEF G
  <2> QED
    BY <1>2, <2>1, <2>2, OneByOne
<1>10. \A j \in 1 .. n : Right(j)
  <2> SUFFICES ASSUME NEW j \in 1 .. n
               PROVE  Right(j)
    OBVIOUS
  <2>1. j \in 0 .. n /\ j > 0
    OBVIOUS
  <2>2. j \in G
    BY <1>9, <2>1
  <2> QED
    BY <2>1, <2>2
<1>11. \A j \in 2 .. n : cs[j] # -1 => cs[j - 1] # -1
  <2> SUFFICES ASSUME NEW j \in 2 .. n
               PROVE  cs[j] # -1 => cs[j - 1] # -1
    OBVIOUS
  <2>1. j - 1 \in 1 .. n
    BY <1>2
  <2>2. cs[j - 1] \in Int
    BY <1>10, <2>1
  <2> QED
    BY <1>7, <2>2
<1> QED
  BY <1>2, <1>10, <1>11

\* A template with placeholders matches just when all its parts are placed and
\* the last argument has room before the last literal.
LEMMA MatchMeans ==
    ASSUME NEW S, NEW t \in Seq(S), NEW T, NEW m \in Seq(T),
           NEW n, n = placeholderCount(t), NEW cs, cs = Cursors(t, m), ~Exact(t), Matches(t, m)
    PROVE  /\ n \in Nat /\ n >= 1
           /\ \A j \in 1 .. n : Placed(t, m, cs, j)
           /\ lastLiteral(t) = parts(t)[n + 1] /\ firstLiteral(t) = parts(t)[1]
           /\ IsSuffix(parts(t)[n + 1], m)
           /\ cs[n] < Len(m) - Len(parts(t)[n + 1])
<1>1. /\ n \in Nat
      /\ \A j \in 1 .. n : cs[j] = -1 \/ Placed(t, m, cs, j)
      /\ \A j \in 2 .. n : cs[j] # -1 => cs[j - 1] # -1
  BY CursorStep
<1>2. n >= 1
  BY <1>1 DEF Exact
<1>3. cs[n] >= 0 /\ IsSuffix(lastLiteral(t), m) /\ Room(ArgEnd(t, m), cs[n])
  BY Zenon DEF Matches
<1>4. lastLiteral(t) = parts(t)[n + 1] /\ firstLiteral(t) = parts(t)[1]
  <2>1. PICK ps : ps = parts(t)
    OBVIOUS
  <2>2. ps \in Seq(Seq(S)) /\ Len(ps) = n + 1
    BY <2>1, PartsFacts, Zenon DEF AreParts
  <2>3. lastLiteral(t) = ps[Len(ps)] /\ firstLiteral(t) = Head(ps)
    BY <2>1, Zenon DEF lastLiteral, firstLiteral, Last
  <2>4. Head(ps) = ps[1]
    BY <1>1, <2>2
  <2> QED
    BY <2>1, <2>2, <2>3, <2>4
<1> DEFINE G == {i \in 0 .. n - 1 : cs[n - i] # -1}
<1>5. 0 \in G
  BY <1>1, <1>2, <1>3
<1>6. \A i \in 0 .. (n - 1) - 1 : i \in G => i + 1 \in G
  <2> SUFFICES ASSUME NEW i \in 0 .. (n - 1) - 1, i \in G
               PROVE  i + 1 \in G
    OBVIOUS
  <2>1. n - i \in 2 .. n /\ (n - i) - 1 = n - (i + 1) /\ i + 1 \in 0 .. n - 1
    BY <1>1
  <2>2. cs[(n - i) - 1] # -1
    BY <1>1, <2>1
  <2> QED
    BY <2>1, <2>2
<1>7. \A i \in 0 .. n - 1 : i \in G
  <2>1. n - 1 \in Nat
    BY <1>1, <1>2
  <2> HIDE DEF G
  <2> QED
    BY <1>5, <1>6, <2>1, OneByOne
<1>8. \A j \in 1 .. n : Placed(t, m, cs, j)
  <2> SUFFICES ASSUME NEW j \in 1 .. n
               PROVE  Placed(t, m, cs, j)
    OBVIOUS
  <2>1. n - j \in 0 .. n - 1 /\ n - (n - j) = j
    BY <1>1
  <2>2. cs[n - (n - j)] # -1
    BY <1>7, <2>1
  <2> QED
    BY <1>1, <2>1, <2>2
<1>9. cs[n] < Len(m) - Len(parts(t)[n + 1])
  BY <1>1, <1>2, <1>3, <1>4 DEF Room, ArgEnd, Placed
<1> QED
  BY <1>1, <1>2, <1>3, <1>4, <1>8, <1>9

\* A template with placeholders takes no message shorter than itself: a byte at
\* least stands for each placeholder.
LEMMA MatchIsLong ==
    ASSUME NEW S, NEW t \in Seq(S), NEW T, NEW m \in Seq(T), ~Exact(t), Matches(t, m)
    PROVE  Len(t) <= Len(m)
<1>1. PICK n, c, cs, ps : /\ n = placeholderCount(t) /\ c = Cut(t)
                          /\ cs = Cursors(t, m) /\ ps = parts(t)
  OBVIOUS
<1>2. /\ n \in Nat /\ n >= 1
      /\ \A j \in 1 .. n : Placed(t, m, cs, j)
      /\ cs[n] < Len(m) - Len(ps[n + 1])
  BY <1>1, MatchMeans
<1>3. /\ ps \in Seq(Seq(S)) /\ Len(ps) = n + 1
      /\ \A j \in 1 .. n + 1 : Len(ps[j]) = (c[j + 1] - 1) - c[j]
  <2>1. AreParts(ps, S, t, n, c)
    BY <1>1, PartsFacts
  <2> QED
    BY <2>1, Zenon DEF AreParts
<1>4. /\ c \in Seq(Nat) /\ Len(c) = n + 2
      /\ c[1] = 0 /\ c[n + 2] = Len(t) + 1
  BY <1>1, CutFacts DEF IsCut
<1>5. \A j \in 1 .. n + 2 : c[j] \in Nat
  BY <1>2, <1>4
<1> DEFINE G == {j \in 0 .. n : j > 0 => cs[j] >= c[j + 1] - 1}
<1>6. 0 \in G
  BY <1>2
<1>7. \A j \in 0 .. n - 1 : j \in G => j + 1 \in G
  <2> SUFFICES ASSUME NEW j \in 0 .. n - 1, j \in G
               PROVE  j + 1 \in G
    OBVIOUS
  <2>1. /\ j + 1 \in 1 .. n /\ j + 1 \in 0 .. n /\ j + 1 \in 1 .. n + 1 /\ j + 1 \in 1 .. n + 2
        /\ (j + 1) + 1 \in 1 .. n + 2 /\ (j + 1) - 1 = j
    BY <1>2
  <2>2. /\ Len(ps[j + 1]) = (c[(j + 1) + 1] - 1) - c[j + 1]
        /\ c[(j + 1) + 1] \in Nat /\ c[j + 1] \in Nat
        /\ Placed(t, m, cs, j + 1)
    BY <1>2, <1>3, <1>5, <2>1
  <2>3. cs[j + 1] \in Int
    BY <2>2 DEF Placed
  <2>4. CASE j = 0
    <3>1. j + 1 = 1 /\ 1 + 1 = 2
      BY <2>4
    <3>2. cs[1] = Len(ps[1])
      BY <1>1, <2>2, <3>1 DEF Placed
    <3>3. cs[j + 1] >= c[(j + 1) + 1] - 1
      BY <1>4, <2>2, <3>1, <3>2
    <3> QED
      BY <2>1, <3>3
  <2>5. CASE j # 0
    <3>1. j > 0 /\ j + 1 > 1
      BY <2>5
    <3>2. cs[j] < cs[j + 1] - Len(ps[j + 1])
      BY <1>1, <2>1, <2>2, <3>1 DEF Placed
    <3>3. cs[j] >= c[j + 1] - 1
      BY <3>1
    <3>4. cs[j] \in Int
      <4>1. j \in 1 .. n
        BY <3>1
      <4>2. Placed(t, m, cs, j)
        BY <1>2, <4>1
      <4> QED
        BY <4>2 DEF Placed
    <3>5. PICK u, v, l, x, y : /\ u = cs[j] /\ v = cs[j + 1] /\ l = Len(ps[j + 1])
                               /\ x = c[j + 1] /\ y = c[(j + 1) + 1]
      OBVIOUS
    <3>6. /\ u \in Int /\ v \in Int /\ x \in Nat /\ y \in Nat
          /\ u < v - l /\ u >= x - 1 /\ l = (y - 1) - x
      BY <2>2, <2>3, <3>2, <3>3, <3>4, <3>5
    <3>7. v >= y - 1
      BY <3>6
    <3> QED
      BY <2>1, <3>5, <3>7
  <2> QED
    BY <2>4, <2>5
<1>8. \A j \in 0 .. n : j \in G
  <2> HIDE DEF G
  <2> QED
    BY <1>2, <1>6, <1>7, OneByOne
<1>9. cs[n] >= c[n + 1] - 1 /\ cs[n] \in Int
  <2>1. n \in 0 .. n /\ n > 0 /\ n \in 1 .. n
    BY <1>2
  <2>2. n \in G /\ Placed(t, m, cs, n)
    BY <1>2, <1>8, <2>1
  <2> QED
    BY <2>1, <2>2 DEF Placed
<1>10. /\ Len(ps[n + 1]) = (c[n + 2] - 1) - c[n + 1]
       /\ c[n + 1] \in Nat
  <2>1. n + 1 \in 1 .. n + 1 /\ (n + 1) + 1 = n + 2 /\ n + 1 \in 1 .. n + 2
    BY <1>2
  <2>2. Len(ps[n + 1]) = (c[(n + 1) + 1] - 1) - c[n + 1]
    BY <1>3, <2>1
  <2> QED
    BY <1>5, <2>1, <2>2
<1>11. PICK u, l, x, y, z : /\ u = cs[n] /\ l = Len(ps[n + 1]) /\ x = c[n + 1]
                            /\ y = Len(t) /\ z = Len(m)
  OBVIOUS
<1>12. y \in Nat /\ z \in Nat
  BY <1>11
<1>13. u \in Int /\ x \in Nat /\ u >= x - 1 /\ u < z - l /\ l = ((y + 1) - 1) - x
  BY <1>2, <1>4, <1>9, <1>10, <1>11, Zenon
<1>14. y <= z
  BY <1>12, <1>13
<1> QED
  BY <1>11, <1>14

-----------------------------------------------------------------------------
\* A template has so many literal bytes as are not placeholders.
LEMMA CountFacts ==
    ASSUME NEW S, NEW t \in Seq(S)
    PROVE  /\ placeholderCount(t) \in Nat
           /\ literalBytes(t) \in Nat /\ literalBytes(t) = Len(t) - placeholderCount(t)
           /\ minMsgLen(t) = Len(t)
<1>1. PICK n, l : n = placeholderCount(t) /\ l = Len(t)
  OBVIOUS
<1>2. n \in Nat /\ n <= l /\ l \in Nat
  <2>1. l \in Nat /\ DOMAIN t = 1 .. l
    BY <1>1
  <2>2. Stars(t) \in SUBSET (1 .. l) /\ n = Cardinality(Stars(t))
    BY <1>1, <2>1 DEF Stars, placeholderCount
  <2>3. IsFiniteSet(1 .. l) /\ Cardinality(1 .. l) = l
    BY <2>1, CountFromOne
  <2>4. IsFiniteSet(Stars(t)) /\ Cardinality(Stars(t)) <= l
    BY <2>2, <2>3, FS_Subset
  <2> QED
    BY <2>1, <2>2, <2>4, FS_CardinalityType
<1>3. Len(parts(t)) = n + 1
  <2>1. AreParts(parts(t), S, t, n, Cut(t))
    BY <1>1, PartsFacts
  <2> QED
    BY <2>1, Zenon DEF AreParts
<1>4. literalBytes(t) = l - n
  BY <1>1 DEF literalBytes
<1>5. minMsgLen(t) = literalBytes(t) + (Len(parts(t)) - 1)
  BY Zenon DEF minMsgLen
<1>6. minMsgLen(t) = (l - n) + ((n + 1) - 1)
  BY <1>3, <1>4, <1>5, Zenon
<1>7. minMsgLen(t) = l /\ l - n \in Nat
  BY <1>2, <1>6
<1> QED
  BY <1>1, <1>2, <1>4, <1>7, Zenon

\* A message is at least as long as minMsgLen of a template it matches.
LEMMA MatchIsLongEnough ==
    ASSUME NEW S, NEW t \in Seq(S), NEW T, NEW m \in Seq(T), Matches(t, m)
    PROVE  Len(m) >= minMsgLen(t)
<1>1. minMsgLen(t) = Len(t) /\ Len(t) \in Nat /\ Len(m) \in Nat
  BY CountFacts
<1>2. CASE Exact(t)
  <2>1. m = t
    BY <1>2, Zenon DEF Matches
  <2> QED
    BY <1>1, <2>1
<1>3. CASE ~Exact(t)
  BY <1>1, <1>3, MatchIsLong
<1> QED
  BY <1>2, <1>3

\* A message that matches begins with the first literal.
LEMMA PrefixLiteralFits ==
    ASSUME NEW S, NEW t \in Seq(S), NEW T, NEW m \in Seq(T), InPrefixes(t), Matches(t, m)
    PROVE  /\ Len(firstLiteral(t)) \in Nat /\ Len(firstLiteral(t)) <= Len(m)
           /\ firstLiteral(t) = SubSeq(m, 1, Len(firstLiteral(t)))
<1>1. PICK n, cs, ps : n = placeholderCount(t) /\ cs = Cursors(t, m) /\ ps = parts(t)
  OBVIOUS
<1>2. ~Exact(t)
  BY DEF InPrefixes
<1>3. n \in Nat /\ n >= 1 /\ firstLiteral(t) = ps[1] /\ \A j \in 1 .. n : Placed(t, m, cs, j)
  BY <1>1, <1>2, MatchMeans
<1>4. ps[1] \in Seq(S)
  <2>1. AreParts(ps, S, t, n, Cut(t))
    BY <1>1, PartsFacts
  <2> QED
    BY <1>3, <2>1 DEF AreParts
<1>5. IsPrefix(ps[1], m)
  BY <1>1, <1>3, 1 \in 1 .. n DEF Placed
<1>6. SubSeq(ps[1], 1, Len(ps[1])) = ps[1] /\ Len(ps[1]) \in Nat
  BY <1>4
<1>7. Len(ps[1]) <= Len(m) /\ ps[1] = SubSeq(m, 1, Len(ps[1]))
  BY <1>5, <1>6, Zenon DEF IsPrefix
<1> QED
  BY <1>3, <1>6, <1>7

\* And it ends with the last literal.
LEMMA SuffixLiteralFits ==
    ASSUME NEW S, NEW t \in Seq(S), NEW T, NEW m \in Seq(T), InSuffixes(t), Matches(t, m)
    PROVE  /\ Len(lastLiteral(t)) \in Nat /\ Len(lastLiteral(t)) <= Len(m)
           /\ lastLiteral(t) = SubSeq(m, (Len(m) - Len(lastLiteral(t))) + 1, Len(m))
<1>1. PICK n, cs, ps : n = placeholderCount(t) /\ cs = Cursors(t, m) /\ ps = parts(t)
  OBVIOUS
<1>2. ~Exact(t)
  BY DEF InSuffixes
<1>3. /\ n \in Nat /\ n >= 1 /\ lastLiteral(t) = ps[n + 1]
      /\ IsSuffix(ps[n + 1], m)
  BY <1>1, <1>2, MatchMeans
<1>4. ps[n + 1] \in Seq(S)
  <2>1. AreParts(ps, S, t, n, Cut(t))
    BY <1>1, PartsFacts
  <2> QED
    BY <1>3, <2>1 DEF AreParts
<1>5. PICK p : p = ps[n + 1]
  OBVIOUS
<1>6. p \in Seq(S) /\ IsSuffix(p, m)
  BY <1>3, <1>4, <1>5
<1>7. Len(p) <= Len(m) /\ \A i \in 1 .. Len(p) : p[i] = m[Len(m) - Len(p) + i]
  BY <1>6, SuffixMeans
<1>8. Len(p) \in Nat /\ Len(m) \in Nat
  BY <1>6
<1>9. PICK q : q = SubSeq(m, (Len(m) - Len(p)) + 1, Len(m))
  OBVIOUS
<1>10. q \in Seq(T) /\ Len(q) = Len(p) /\ \A i \in 1 .. Len(p) : q[i] = m[Len(m) - Len(p) + i]
  BY <1>7, <1>8, <1>9
<1>11. p = [i \in 1 .. Len(p) |-> p[i]] /\ q = [i \in 1 .. Len(p) |-> q[i]]
  BY <1>6, <1>10
<1>12. p = q
  BY <1>7, <1>10, <1>11, Zenon
<1> QED
  BY <1>3, <1>5, <1>7, <1>8, <1>9, <1>12

\* And it holds every interior literal.
LEMMA MiddleLiteralFits ==
    ASSUME NEW S, NEW t \in Seq(S), NEW T, NEW m \in Seq(T), InMiddles(t), Matches(t, m)
    PROVE  Skips(m, 0, strongestMiddleLiteral(t)) # {}
<1>1. PICK n, cs, ps : n = placeholderCount(t) /\ cs = Cursors(t, m) /\ ps = parts(t)
  OBVIOUS
<1>2. ~Exact(t) /\ strongestMiddleLiteral(t) # <<>>
  BY DEF InMiddles
<1>3. n \in Nat /\ n >= 1 /\ \A j \in 1 .. n : Placed(t, m, cs, j)
  BY <1>1, <1>2, MatchMeans
<1>4. Len(ps) = n + 1 /\ \A j \in 1 .. n + 1 : ps[j] \in Seq(S)
  <2>1. AreParts(ps, S, t, n, Cut(t))
    BY <1>1, PartsFacts
  <2> QED
    BY <2>1, Zenon DEF AreParts
<1> DEFINE inner == {j \in 2 .. Len(parts(t)) - 1 :
                       Len(parts(t)[j]) = Longest({parts(t)[h] : h \in 2 .. Len(parts(t)) - 1})}
<1>5. strongestMiddleLiteral(t) = IF inner = {} THEN <<>> ELSE ps[Min(inner)]
  BY <1>1, Zenon DEF strongestMiddleLiteral
<1>6. inner \subseteq 2 .. n
  BY <1>1, <1>3, <1>4
<1> HIDE DEF inner
<1>7. inner # {}
  BY <1>2, <1>5
<1>8. PICK j : j = Min(inner)
  OBVIOUS
<1>9. j \in 2 .. n
  <2>1. inner \in SUBSET Nat
    BY <1>3, <1>6
  <2>2. j \in inner
    BY <1>7, <1>8, <2>1, MinIsLeast
  <2> QED
    BY <1>6, <2>2
<1>10. PICK p : p = ps[j]
  OBVIOUS
<1>11. strongestMiddleLiteral(t) = p
  BY <1>5, <1>7, <1>8, <1>10
<1>12. /\ p \in Seq(S) /\ Placed(t, m, cs, j) /\ Placed(t, m, cs, j - 1)
       /\ j > 1
  BY <1>3, <1>4, <1>9, <1>10
<1>13. PICK d : d = cs[j] - Len(p)
  OBVIOUS
<1>14. /\ cs[j] \in 0 .. Len(m) /\ cs[j - 1] \in Nat /\ cs[j - 1] < d
       /\ SubSeq(m, d + 1, cs[j]) = p
  <2>1. cs[j - 1] \in 0 .. Len(m)
    BY <1>12, Zenon DEF Placed
  <2>2. /\ cs[j] \in 0 .. Len(m)
        /\ j > 1 => /\ cs[j - 1] < cs[j] - Len(ps[j])
                    /\ SubSeq(m, (cs[j] - Len(ps[j])) + 1, cs[j]) = ps[j]
    BY <1>1, <1>12, Zenon DEF Placed
  <2> QED
    BY <1>10, <1>12, <1>13, <2>1, <2>2
<1>15. Len(p) \in Nat /\ Len(m) \in Nat
  BY <1>12
<1>16. d \in 0 .. Len(m) - 0 - Len(p) /\ 0 + d + 1 = d + 1 /\ 0 + d + Len(p) = cs[j]
  <2>1. PICK u, v, l, len : u = cs[j] /\ v = cs[j - 1] /\ l = Len(p) /\ len = Len(m)
    OBVIOUS
  <2>2. u \in 0 .. len /\ v \in Nat /\ v < d /\ l \in Nat /\ len \in Nat /\ d = u - l
    BY <1>13, <1>14, <1>15, <2>1
  <2>3. d \in 0 .. len - 0 - l /\ 0 + d + 1 = d + 1 /\ 0 + d + l = u
    BY <2>2
  <2> QED
    BY <2>1, <2>3
<1>17. d \in Skips(m, 0, p)
  BY <1>14, <1>16 DEF Skips
<1> QED
  BY <1>11, <1>17

-----------------------------------------------------------------------------
\* The template table: sequences of bytes and placeholders, none of them twice.
Tables ==
    /\ templates \in Seq(Seq(Bytes \cup {"*"}))
    /\ IsInjective(templates)

Ids == DOMAIN templates

LEMMA TablesFacts ==
    ASSUME Tables
    PROVE  /\ IsFiniteSet(Ids) /\ Ids \in SUBSET Nat /\ None \notin Ids
           /\ \A id \in Ids : templates[id] \in Seq(Bytes \cup {"*"})
<1>1. Len(templates) \in Nat /\ Ids = 1 .. Len(templates)
  BY DEF Tables, Ids
<1>2. IsFiniteSet(Ids)
  BY <1>1, CountFromOne
<1>3. \A id \in Ids : templates[id] \in Seq(Bytes \cup {"*"})
  BY <1>1 DEF Tables
<1> QED
  BY <1>1, <1>2, <1>3 DEF None

\* Outranks orders the ids strictly and totally.
LEMMA OutranksOrders ==
    ASSUME Tables, NEW a \in Ids, NEW b \in Ids
    PROVE  /\ ~Outranks(a, a)
           /\ a # b => (Outranks(a, b) \/ Outranks(b, a))
           /\ \A c \in Ids : Outranks(a, b) /\ Outranks(b, c) => Outranks(a, c)
<1>1. \A id \in Ids : /\ id \in Nat
                      /\ literalBytes(templates[id]) \in Nat
                      /\ placeholderCount(templates[id]) \in Nat
  <2> SUFFICES ASSUME NEW id \in Ids
               PROVE  /\ id \in Nat
                      /\ literalBytes(templates[id]) \in Nat
                      /\ placeholderCount(templates[id]) \in Nat
    OBVIOUS
  <2>1. PICK t : t = templates[id]
    OBVIOUS
  <2>2. t \in Seq(Bytes \cup {"*"}) /\ id \in Nat
    BY <2>1, TablesFacts
  <2>3. literalBytes(t) \in Nat /\ placeholderCount(t) \in Nat
    BY <2>2, CountFacts
  <2> QED
    BY <2>1, <2>2, <2>3
<1> DEFINE lb(id) == literalBytes(templates[id])
           pc0(id) == placeholderCount(templates[id])
<1>2. \A x, y \in Ids : Outranks(x, y) <=> \/ lb(x) > lb(y)
                                           \/ lb(x) = lb(y) /\ pc0(x) < pc0(y)
                                           \/ lb(x) = lb(y) /\ pc0(x) = pc0(y) /\ x < y
  BY Zenon DEF Outranks, Better
<1>3. \A x \in Ids : lb(x) \in Nat /\ pc0(x) \in Nat /\ x \in Nat
  BY <1>1
<1> HIDE DEF lb, pc0
<1>4. ~Outranks(a, a) /\ (a # b => (Outranks(a, b) \/ Outranks(b, a)))
  BY <1>2, <1>3
<1>5. ASSUME NEW c \in Ids, Outranks(a, b), Outranks(b, c)
      PROVE  Outranks(a, c)
  BY <1>2, <1>3, <1>5
<1> QED
  BY <1>4, <1>5

\* A rank is smaller just when its template outranks the other.
LEMMA RankOrder ==
    ASSUME Tables, NEW a \in Ids, NEW b \in Ids
    PROVE  /\ Rank(a) \in Nat /\ Rank(b) \in Nat
           /\ Outranks(a, b) <=> Rank(a) < Rank(b)
           /\ Rank(a) = Rank(b) => a = b
<1> DEFINE Above(id) == {j \in Ids : Outranks(j, id)}
<1>1. \A id \in Ids : /\ Rank(id) = Cardinality(Above(id))
                      /\ IsFiniteSet(Above(id)) /\ Rank(id) \in Nat
  <2> SUFFICES ASSUME NEW id \in Ids
               PROVE  /\ Rank(id) = Cardinality(Above(id))
                      /\ IsFiniteSet(Above(id)) /\ Rank(id) \in Nat
    OBVIOUS
  <2>1. Rank(id) = Cardinality(Above(id))
    BY Zenon DEF Rank, Ids
  <2>2. IsFiniteSet(Ids) /\ Above(id) \in SUBSET Ids
    BY TablesFacts
  <2>3. IsFiniteSet(Above(id))
    BY <2>2, FS_Subset
  <2> QED
    BY <2>1, <2>3, FS_CardinalityType
<1>2. ASSUME NEW x \in Ids, NEW y \in Ids, Outranks(x, y)
      PROVE  Rank(x) < Rank(y)
  <2>1. x \in Above(y) /\ x \notin Above(x)
    BY <1>2, OutranksOrders
  <2>2. Above(x) \in SUBSET Above(y)
    <3> SUFFICES ASSUME NEW j \in Above(x)
                 PROVE  j \in Above(y)
      OBVIOUS
    <3>1. j \in Ids /\ Outranks(j, x)
      OBVIOUS
    <3>2. Outranks(j, y)
      BY <1>2, <3>1, OutranksOrders
    <3> QED
      BY <3>1, <3>2
  <2>3. IsFiniteSet(Above(y))
    BY <1>1
  <2> HIDE DEF Above
  <2>4. Cardinality(Above(x)) <= Cardinality(Above(y)) /\ Cardinality(Above(x)) # Cardinality(Above(y))
    <3>1. Above(x) # Above(y)
      BY <2>1, Zenon
    <3>2. /\ Cardinality(Above(x)) <= Cardinality(Above(y))
          /\ Cardinality(Above(y)) = Cardinality(Above(x)) => Above(y) = Above(x)
      BY <2>2, <2>3, FS_Subset, Zenon
    <3> QED
      BY <3>1, <3>2, Zenon
  <2> QED
    BY <1>1, <2>4
<1>3. Rank(a) \in Nat /\ Rank(b) \in Nat
  BY <1>1
<1>4. Outranks(a, b) => Rank(a) < Rank(b)
  BY <1>2
<1>5. Outranks(b, a) => Rank(b) < Rank(a)
  BY <1>2
<1>6. a # b => (Outranks(a, b) \/ Outranks(b, a))
  BY OutranksOrders
<1> QED
  BY <1>3, <1>4, <1>5, <1>6

\* An index's list holds the ids it should, the better rank first.
LEMMA RankedFacts ==
    ASSUME Tables, NEW L \in SUBSET Ids, NEW list, list = Ranked(L)
    PROVE  /\ list \in Seq(L) /\ ToSet(list) = L
           /\ \A j, h \in 1 .. Len(list) : j < h => Rank(list[j]) < Rank(list[h])
<1> DEFINE c == Cardinality(L)
           rank == [id \in L |-> Rank(id)]
           R == {rank[id] : id \in L}
<1>1. IsFiniteSet(L) /\ c \in Nat
  <2>1. IsFiniteSet(L)
    BY TablesFacts, FS_Subset
  <2> QED
    BY <2>1, FS_CardinalityType
<1>2. \A a, b \in L : /\ rank[a] \in Nat /\ rank[a] = Rank(a)
                      /\ rank[a] = rank[b] => a = b
                      /\ Outranks(a, b) <=> rank[a] < rank[b]
  BY RankOrder
<1>3. DOMAIN rank = L /\ IsInjective(rank)
  BY <1>2, Zenon DEF IsInjective
<1> HIDE DEF rank, c
<1>4. IsFiniteSet(R) /\ Cardinality(R) = c /\ R \in SUBSET Nat
  <2>1. IsFiniteSet(R)
    BY <1>1, <1>3, RangeBound
  <2>2. Cardinality(R) = c
    BY <1>1, <1>3, InjectiveRange DEF c
  <2> QED
    BY <1>2, <2>1, <2>2
<1>5. PICK s \in Seq(Nat) : Len(s) = c /\ Ascends(s) /\ ToSet(s) = R
  BY <1>4, AscendingExists
<1>6. \A j \in 1 .. c : \E id \in L : s[j] = rank[id]
  <2> SUFFICES ASSUME NEW j \in 1 .. c
               PROVE  \E id \in L : s[j] = rank[id]
    OBVIOUS
  <2>1. s[j] \in ToSet(s)
    BY <1>5 DEF ToSet
  <2> QED
    BY <1>5, <2>1
<1> DEFINE e == [j \in 1 .. c |-> CHOOSE id \in L : s[j] = rank[id]]
           Sorted(l) == \A j, h \in DOMAIN l : j < h => Outranks(l[j], l[h])
<1>7. \A j \in 1 .. c : e[j] \in L /\ s[j] = rank[e[j]]
  BY <1>6, Zenon
<1>8. e \in [1 .. c -> L] /\ DOMAIN e = 1 .. c
  BY <1>6, Zenon
<1> HIDE DEF e
<1>9. Sorted(e)
  <2>1. \A j, h \in 1 .. c : j < h => s[j] < s[h]
    BY <1>5 DEF Ascends
  <2> QED
    BY <1>2, <1>7, <1>8, <2>1
<1>10. list \in [1 .. c -> L] /\ Sorted(list)
  BY <1>8, <1>9, Zenon DEF Ranked, c
<1>11. DOMAIN list = 1 .. c /\ list \in Seq(L) /\ Len(list) = c
  BY <1>1, <1>10
<1>12. \A j, h \in 1 .. c : j < h => Rank(list[j]) < Rank(list[h])
  BY <1>2, <1>10, <1>11
<1>13. ToSet(list) = L
  <2>1. ASSUME NEW j \in 1 .. c, NEW h \in 1 .. c, list[j] = list[h]
        PROVE  j = h
    <3>1. Rank(list[j]) \in Nat
      BY <1>2, <1>10
    <3>2. ~(j < h) /\ ~(h < j)
      BY <1>12, <2>1, <3>1
    <3> QED
      BY <1>1, <3>2
  <2>2. list \in Injection(1 .. c, L)
    BY <1>10, <1>11, <2>1, Zenon DEF Injection, IsInjective
  <2>3. Cardinality(1 .. c) = c /\ IsFiniteSet(1 .. c)
    BY <1>1, CountFromOne
  <2>4. list \in Surjection(1 .. c, L)
    BY <1>1, <2>2, <2>3, FS_Injection DEF c
  <2> QED
    BY <1>11, <2>4 DEF Surjection, ToSet
<1> QED
  BY <1>11, <1>12, <1>13

-----------------------------------------------------------------------------
\* The ids of L whose templates match m, and b the best of them, if any.
Fitting(L, m) == {id \in L : Matches(templates[id], m)}
BestOf(L, m, b) ==
    IF Fitting(L, m) = {} THEN b = None
    ELSE b \in Fitting(L, m) /\ \A id \in Fitting(L, m) : Rank(b) <= Rank(id)

\* Only the ids that match count.
LEMMA BestOfSame ==
    ASSUME NEW L, NEW K, NEW m, NEW b, BestOf(L, m, b),
           \A id : id \in L /\ Matches(templates[id], m) <=> id \in K /\ Matches(templates[id], m)
    PROVE  BestOf(K, m, b)
<1>1. Fitting(L, m) = Fitting(K, m)
  BY Zenon DEF Fitting
<1> QED
  BY <1>1 DEF BestOf

\* A list's first match that beats the best so far is the best of both.
LEMMA EvaluateFacts ==
    ASSUME Tables, msg \in Seq(Bytes), NEW K \in SUBSET Ids, NEW L \in SUBSET Ids, NEW b,
           BestOf(K, msg, b), NEW list, list = Ranked(L), NEW r, r = Evaluate(list, b)
    PROVE  BestOf(K \cup L, msg, r)
<1>1. /\ list \in Seq(L) /\ ToSet(list) = L
      /\ \A j, h \in 1 .. Len(list) : j < h => Rank(list[j]) < Rank(list[h])
  BY RankedFacts
<1>2. Len(list) \in Nat /\ DOMAIN list = 1 .. Len(list) /\ \A j \in 1 .. Len(list) : list[j] \in L
  BY <1>1
<1>3. \A id \in L : \E j \in 1 .. Len(list) : id = list[j]
  BY <1>1, <1>2, SeqRange
<1> DEFINE Good(j) == (b # None => Rank(list[j]) < Rank(b)) /\ Matches(templates[list[j]], msg)
           better == {j \in DOMAIN list : Good(j)}
<1>4. \A id \in Ids : Rank(id) \in Nat
  BY RankOrder
<1>5. /\ None \notin Ids
      /\ \A id : id \in Fitting(K \cup L, msg) <=> (id \in Fitting(K, msg) \/ id \in Fitting(L, msg))
      /\ \A id : id \in Fitting(L, msg) <=> id \in L /\ Matches(templates[id], msg)
      /\ \A id : id \in Fitting(K, msg) <=> id \in K /\ Matches(templates[id], msg)
  BY TablesFacts DEF Fitting
<1>6. \/ Fitting(K, msg) = {} /\ b = None
      \/ b \in Fitting(K, msg) /\ \A id \in Fitting(K, msg) : Rank(b) <= Rank(id)
  BY Zenon DEF BestOf
<1>7. b # None => b \in Ids
  BY <1>5, <1>6
<1>8. r = IF better = {} THEN b ELSE list[Min(better)]
  <2>1. \A j \in DOMAIN list : Good(j) => Len(msg) >= minMsgLen(templates[list[j]])
    <3> SUFFICES ASSUME NEW j \in DOMAIN list, Matches(templates[list[j]], msg)
                 PROVE  Len(msg) >= minMsgLen(templates[list[j]])
      BY Zenon
    <3>1. PICK t : t = templates[list[j]]
      OBVIOUS
    <3>2. list[j] \in Ids
      BY <1>2
    <3>3. t \in Seq(Bytes \cup {"*"}) /\ Matches(t, msg)
      BY <3>1, <3>2, TablesFacts
    <3>4. Len(msg) >= minMsgLen(t)
      BY <3>3, MatchIsLongEnough
    <3> QED
      BY <3>1, <3>4
  <2> DEFINE reached == {j \in DOMAIN list :
                           \A h \in 1 .. j : b # None => Rank(list[h]) < Rank(b)}
             all == {j \in reached : /\ Len(msg) >= minMsgLen(templates[list[j]])
                                     /\ Matches(templates[list[j]], msg)}
  <2>2. r = IF all = {} THEN b ELSE list[Min(all)]
    BY Zenon DEF Evaluate
  <2>3. ASSUME NEW j \in DOMAIN list
        PROVE  j \in reached <=> (b # None => Rank(list[j]) < Rank(b))
    <3>1. j \in 1 .. Len(list) /\ j \in 1 .. j /\ Len(list) \in Nat
      BY <1>2
    <3>2. ASSUME NEW h \in 1 .. j, b # None, Rank(list[j]) < Rank(b)
          PROVE  Rank(list[h]) < Rank(b)
      <4>1. h \in 1 .. Len(list) /\ (h = j \/ h < j)
        BY <3>1
      <4>2. Rank(list[h]) \in Nat /\ Rank(list[j]) \in Nat /\ Rank(b) \in Nat
        <5>1. b \in Ids
          BY <1>7, <3>2
        <5> QED
          BY <1>2, <1>4, <3>1, <4>1, <5>1
      <4>3. Rank(list[h]) <= Rank(list[j])
        BY <1>1, <3>1, <4>1, <4>2
      <4> QED
        BY <3>2, <4>2, <4>3
    <3> QED
      BY <3>1, <3>2, Zenon
  <2>4. all = better
    BY <2>1, <2>3, Zenon
  <2> QED
    BY <2>2, <2>4, Zenon
<1>9. CASE better = {}
  <2>1. r = b
    BY <1>8, <1>9
  <2>2. ASSUME NEW id \in Fitting(L, msg)
        PROVE  b # None /\ Rank(b) <= Rank(id)
    <3>1. id \in L /\ Matches(templates[id], msg)
      BY <1>5
    <3>2. PICK j \in 1 .. Len(list) : id = list[j]
      BY <1>3, <3>1
    <3>3. ~Good(j)
      BY <1>2, <1>9
    <3>4. b # None /\ ~(Rank(id) < Rank(b))
      BY <3>1, <3>2, <3>3, Zenon
    <3> QED
      BY <1>4, <1>7, <3>1, <3>4
  <2>3. CASE b = None
    <3>1. Fitting(K \cup L, msg) = {}
      BY <1>5, <1>6, <2>2, <2>3
    <3> QED
      BY <2>1, <2>3, <3>1 DEF BestOf
  <2>4. CASE b # None
    <3>1. b \in Fitting(K \cup L, msg)
      BY <1>5, <1>6, <2>4
    <3>2. \A id \in Fitting(K \cup L, msg) : Rank(b) <= Rank(id)
      BY <1>5, <1>6, <2>2, <2>4
    <3> QED
      BY <2>1, <3>1, <3>2, Zenon DEF BestOf
  <2> QED
    BY <2>3, <2>4
<1>10. CASE better # {}
  <2>1. PICK j : j = Min(better)
    OBVIOUS
  <2>2. better \in SUBSET Nat
    BY <1>2
  <2>3. j \in better /\ \A h \in better : j <= h
    <3> HIDE DEF better
    <3> QED
      BY <1>10, <2>1, <2>2, MinIsLeast
  <2>4. j \in 1 .. Len(list) /\ Good(j)
    BY <1>2, <2>3
  <2>5. r = list[j] /\ r \in L /\ r \in Ids
    BY <1>2, <1>8, <1>10, <2>1, <2>4
  <2>6. Matches(templates[r], msg) /\ (b # None => Rank(r) < Rank(b))
    BY <2>4, <2>5, Zenon
  <2>7. r \in Fitting(K \cup L, msg)
    BY <1>5, <2>5, <2>6
  <2>8. ASSUME NEW id \in Fitting(K, msg)
        PROVE  Rank(r) <= Rank(id)
    <3>1. b # None /\ Rank(b) <= Rank(id) /\ id \in Ids
      BY <1>5, <1>6, <2>8
    <3> QED
      BY <1>4, <1>7, <2>5, <2>6, <3>1
  <2>9. ASSUME NEW id \in Fitting(L, msg)
        PROVE  Rank(r) <= Rank(id)
    <3>1. id \in L /\ Matches(templates[id], msg) /\ id \in Ids
      BY <1>5
    <3>2. PICK h \in 1 .. Len(list) : id = list[h]
      BY <1>3, <3>1
    <3>3. CASE Good(h)
      <4>1. j <= h
        BY <1>2, <2>3, <3>3
      <4>2. j = h => Rank(r) = Rank(id)
        BY <2>5, <3>2
      <4>3. j < h => Rank(r) < Rank(id)
        BY <1>1, <2>4, <2>5, <3>2
      <4> QED
        BY <1>2, <1>4, <2>4, <2>5, <3>1, <4>1, <4>2, <4>3
    <3>4. CASE ~Good(h)
      <4>1. b # None /\ ~(Rank(id) < Rank(b))
        BY <3>1, <3>2, <3>4, Zenon
      <4> QED
        BY <1>4, <1>7, <2>5, <2>6, <3>1, <4>1
    <3> QED
      BY <3>3, <3>4
  <2>10. \A id \in Fitting(K \cup L, msg) : Rank(r) <= Rank(id)
    BY <1>5, <2>8, <2>9
  <2> QED
    BY <2>7, <2>10, Zenon DEF BestOf
<1> QED
  BY <1>9, <1>10

-----------------------------------------------------------------------------
\* The elements of s at the indices I, in their order.
AreSelected(r, S, s, I, a) ==
    /\ r \in Seq(S) /\ DOMAIN r = DOMAIN a
    /\ \A j \in DOMAIN a : a[j] \in I /\ r[j] = s[a[j]]
    /\ Ascends(a) /\ DOMAIN a \in SUBSET Nat

LEMMA Selected ==
    ASSUME NEW S, NEW s \in Seq(S), NEW I \in SUBSET (DOMAIN s), NEW a, a = Ascending(I),
           NEW r, r = [j \in DOMAIN a |-> s[a[j]]]
    PROVE  AreSelected(r, S, s, I, a)
<1>1. Len(s) \in Nat /\ DOMAIN s = 1 .. Len(s) /\ \A j \in DOMAIN s : s[j] \in S
  OBVIOUS
<1>2. I \in SUBSET (1 .. Len(s))
  BY <1>1
<1>3. a \in Seq(1 .. Len(s)) /\ ToSet(a) = I /\ Ascends(a)
  BY <1>1, <1>2, AscendingFacts
<1>4. Len(a) \in Nat /\ DOMAIN a = 1 .. Len(a)
  BY <1>3
<1>5. \A j \in DOMAIN a : a[j] \in I
  BY <1>3, Zenon DEF ToSet
<1>6. r \in [1 .. Len(a) -> S]
  BY <1>1, <1>2, <1>4, <1>5
<1>7. r \in Seq(S)
  BY <1>4, <1>6, FunctionIsSeq
<1> QED
  BY <1>3, <1>4, <1>5, <1>7 DEF AreSelected

\* Normalising keeps to the elements, and the table has no template twice.
LEMMA KeptFacts ==
    ASSUME NEW S, NEW raw \in Seq(Seq(S)), NEW r, r = Kept(raw)
    PROVE  r \in Seq(Seq(S)) /\ IsInjective(r)
<1>1. ASSUME NEW t \in Seq(S)
      PROVE  normalizeTemplate(t) \in Seq(S)
  <2>1. PICK a : a = Ascending({j \in DOMAIN t : t[j] # "*" \/ j = 1 \/ t[j - 1] # "*"})
    OBVIOUS
  <2>2. PICK v : v = [j \in DOMAIN a |-> t[a[j]]]
    OBVIOUS
  <2>3. {j \in DOMAIN t : t[j] # "*" \/ j = 1 \/ t[j - 1] # "*"} \in SUBSET (DOMAIN t)
    BY Zenon
  <2>4. v \in Seq(S)
    BY <2>1, <2>2, <2>3, Selected DEF AreSelected
  <2>5. normalizeTemplate(t) = v
    BY <2>1, <2>2, Zenon DEF normalizeTemplate
  <2> QED
    BY <2>4, <2>5
<1> DEFINE norm == [j \in DOMAIN raw |-> normalizeTemplate(raw[j])]
           F == {j \in DOMAIN raw : \A h \in 1 .. j - 1 : norm[h] # norm[j]}
           first == Ascending(F)
<1>2. norm = [j \in DOMAIN raw |-> normalizeTemplate(raw[j])]
  OBVIOUS
<1>4. F = {j \in DOMAIN raw : \A h \in 1 .. j - 1 : norm[h] # norm[j]}
  OBVIOUS
<1>5. first = Ascending(F)
  OBVIOUS
<1>6. r = [j \in DOMAIN first |-> norm[first[j]]]
  BY DEF Kept
<1> HIDE DEF norm, F, first
<1>3. norm \in Seq(Seq(S)) /\ DOMAIN norm = DOMAIN raw /\ Len(raw) \in Nat
  <2>1. Len(raw) \in Nat /\ DOMAIN raw = 1 .. Len(raw) /\ \A j \in DOMAIN raw : raw[j] \in Seq(S)
    OBVIOUS
  <2>2. \A j \in DOMAIN raw : normalizeTemplate(raw[j]) \in Seq(S)
    BY <1>1, <2>1
  <2>3. norm \in [1 .. Len(raw) -> Seq(S)]
    BY <1>2, <2>1, <2>2, Zenon
  <2>4. norm \in Seq(Seq(S))
    BY <2>1, <2>3, FunctionIsSeq
  <2> QED
    BY <1>2, <2>1, <2>4, Zenon

<1>7. F \in SUBSET (DOMAIN norm)
  BY <1>3, <1>4
<1>8. /\ r \in Seq(Seq(S)) /\ DOMAIN r = DOMAIN first
      /\ \A j \in DOMAIN first : first[j] \in F /\ r[j] = norm[first[j]]
      /\ Ascends(first) /\ DOMAIN first \in SUBSET Nat
  <2>1. norm \in Seq(Seq(S))
    BY <1>3
  <2>2. AreSelected(r, Seq(S), norm, F, first)
    BY <1>5, <1>6, <1>7, <2>1, Selected
  <2> QED
    BY <2>2, Zenon DEF AreSelected
<1>9. ASSUME NEW j \in DOMAIN first, NEW h \in DOMAIN first, j < h
      PROVE  r[j] # r[h]
  <2>1. PICK u, v : u = first[j] /\ v = first[h]
    OBVIOUS
  <2>2. u < v /\ u \in F /\ v \in F
    BY <1>8, <1>9, <2>1 DEF Ascends
  <2>3. u \in 1 .. v - 1
    BY <1>3, <1>4, <2>2
  <2>4. norm[u] # norm[v]
    BY <1>4, <2>2, <2>3, Zenon
  <2> QED
    BY <1>8, <2>1, <2>4, Zenon
<1>10. ASSUME NEW j \in DOMAIN first, NEW h \in DOMAIN first, r[j] = r[h]
       PROVE  j = h
  <2>1. j \in Nat /\ h \in Nat
    BY <1>8
  <2>2. ~(j < h) /\ ~(h < j)
    BY <1>9, <1>10, Zenon
  <2> QED
    BY <2>1, <2>2
<1>11. IsInjective(r)
  BY <1>8, <1>10, Zenon DEF IsInjective
<1> QED
  BY <1>8, <1>11

LEMMA LiteralFacts ==
    ASSUME NEW S, NEW t \in Seq(S)
    PROVE  /\ firstLiteral(t) \in Seq(S) /\ lastLiteral(t) \in Seq(S)
           /\ Len(firstLiteral(t)) \in Nat /\ Len(lastLiteral(t)) \in Nat
<1>1. PICK n, ps : n = placeholderCount(t) /\ ps = parts(t)
  OBVIOUS
<1>2. n \in Nat
  BY <1>1, CountFacts
<1>3. AreParts(ps, S, t, n, Cut(t))
  BY <1>1, PartsFacts
<1>4. ps \in Seq(Seq(S)) /\ Len(ps) = n + 1
  BY <1>3 DEF AreParts
<1>5. Head(ps) \in Seq(S) /\ Last(ps) \in Seq(S)
  BY <1>2, <1>4 DEF Last
<1> QED
  BY <1>1, <1>5 DEF firstLiteral, lastLiteral

-----------------------------------------------------------------------------
\* A list of lengths: ascending, and with every literal's length.
LEMMA LengthsFacts ==
    ASSUME NEW S, NEW L \in SUBSET Seq(S), IsFiniteSet(L), NEW ls, ls = Lengths(L)
    PROVE  ls \in Seq(Nat) /\ Ascends(ls) /\ \A l \in L : Len(l) \in ToSet(ls)
<1> DEFINE f == [l \in L |-> Len(l)]
           D == {f[l] : l \in L}
<1>1. IsFiniteSet(D)
  BY RangeBound
<1>2. D \in SUBSET Nat
  <2>1. \A l \in L : Len(l) \in Nat
    OBVIOUS
  <2> QED
    BY <2>1
<1>3. D = {Len(l) : l \in L}
  BY Zenon
<1>4. ls = Ascending(D)
  BY <1>3, Zenon DEF Lengths
<1>5. \A l \in L : Len(l) \in D
  BY <1>3, Zenon
<1> HIDE DEF D
<1>6. ls \in Seq(D) /\ Ascends(ls) /\ ToSet(ls) = D
  BY <1>1, <1>2, <1>4, AscendingChosen
<1>7. ls \in Seq(Nat)
  BY <1>2, <1>6, SeqLarger
<1> QED
  BY <1>5, <1>6, <1>7

\* The first of ascending lengths is the least of them.
LEMMA HeadIsLeast ==
    ASSUME NEW ls \in Seq(Nat), Ascends(ls), ls # <<>>
    PROVE  /\ Head(ls) \in Nat /\ Tail(ls) \in Seq(Nat) /\ Ascends(Tail(ls))
           /\ \A x : x \in ToSet(ls) <=> (x = Head(ls) \/ x \in ToSet(Tail(ls)))
           /\ \A x \in ToSet(ls) : x \in Nat /\ Head(ls) <= x
<1>1. PICK h, rest, n : h = Head(ls) /\ rest = Tail(ls) /\ n = Len(ls)
  OBVIOUS
<1>2. /\ n \in Nat /\ n >= 1 /\ h \in Nat /\ rest \in Seq(Nat) /\ Len(rest) = n - 1
      /\ h = ls[1] /\ \A j \in 1 .. n - 1 : rest[j] = ls[j + 1]
      /\ DOMAIN ls = 1 .. n /\ DOMAIN rest = 1 .. n - 1
      /\ \A j \in 1 .. n : ls[j] \in Nat
  BY <1>1
<1>3. Ascends(rest)
  <2> SUFFICES ASSUME NEW i \in 1 .. n - 1, NEW j \in 1 .. n - 1, i < j
               PROVE  rest[i] < rest[j]
    BY <1>2 DEF Ascends
  <2>1. i + 1 \in 1 .. n /\ j + 1 \in 1 .. n /\ i + 1 < j + 1
    BY <1>2
  <2>2. ls[i + 1] < ls[j + 1]
    BY <1>2, <2>1 DEF Ascends
  <2> QED
    BY <1>2, <2>2
<1>4. /\ \A x : x \in ToSet(ls) <=> \E j \in 1 .. n : x = ls[j]
      /\ \A x : x \in ToSet(rest) <=> \E j \in 1 .. n - 1 : x = rest[j]
  <2>1. \A x : x \in ToSet(ls) <=> \E j \in 1 .. Len(ls) : x = ls[j]
    BY SeqRange
  <2>2. \A x : x \in ToSet(rest) <=> \E j \in 1 .. Len(rest) : x = rest[j]
    BY <1>2, SeqRange
  <2>3. \A x : x \in ToSet(rest) <=> \E j \in 1 .. n - 1 : x = rest[j]
    BY <1>2, <2>2, Zenon
  <2> QED
    BY <1>1, <2>1, <2>3, Zenon
<1>5. \A x : x \in ToSet(ls) <=> (x = h \/ x \in ToSet(rest))
  <2>1. ASSUME NEW x, x \in ToSet(ls)
        PROVE  x = h \/ x \in ToSet(rest)
    <3>1. PICK j \in 1 .. n : x = ls[j]
      BY <1>4, <2>1
    <3>2. CASE j = 1
      BY <1>2, <3>1, <3>2
    <3>3. CASE j # 1
      <4>1. j - 1 \in 1 .. n - 1 /\ (j - 1) + 1 = j
        BY <1>2, <3>3
      <4>2. rest[j - 1] = x
        BY <1>2, <3>1, <4>1
      <4> QED
        BY <1>4, <4>1, <4>2
    <3> QED
      BY <3>2, <3>3
  <2>2. ASSUME NEW x, x = h \/ x \in ToSet(rest)
        PROVE  x \in ToSet(ls)
    <3>1. CASE x = h
      <4>1. 1 \in 1 .. n
        BY <1>2
      <4> QED
        BY <1>2, <1>4, <3>1, <4>1
    <3>2. CASE x \in ToSet(rest)
      <4>1. PICK j \in 1 .. n - 1 : x = rest[j]
        BY <1>4, <3>2
      <4>2. j + 1 \in 1 .. n /\ x = ls[j + 1]
        BY <1>2, <4>1
      <4> QED
        BY <1>4, <4>2
    <3> QED
      BY <2>2, <3>1, <3>2
  <2> QED
    BY <2>1, <2>2
<1>6. ASSUME NEW x \in ToSet(ls)
      PROVE  x \in Nat /\ h <= x
  <2>1. PICK j \in 1 .. n : x = ls[j]
    BY <1>4
  <2>2. 1 \in 1 .. n /\ (j = 1 \/ 1 < j)
    BY <1>2
  <2>3. j = 1 \/ ls[1] < ls[j]
    BY <1>2, <2>2 DEF Ascends
  <2> QED
    BY <1>2, <2>1, <2>3
<1> QED
  BY <1>1, <1>2, <1>3, <1>5, <1>6, Zenon

\* An index by length: lit gives its ids' literals, piece the part of the
\* message that a literal of that length is compared with.
IsIndex(I, lit, piece) ==
    /\ I \in SUBSET Ids
    /\ \A len \in 0 .. Len(msg) : Len(piece[len]) = len
    /\ \A id \in I : /\ Len(lit[id]) \in Nat
                     /\ Matches(templates[id], msg) =>
                            Len(lit[id]) <= Len(msg) /\ lit[id] = piece[Len(lit[id])]

\* The ids of a literal; those settled, after A, while ls are left to try.
OfLiteral(I, lit, l) == {id \in I : lit[id] = l}
Settled(A, I, lit, ls) == A \cup {id \in I : Len(lit[id]) \notin ToSet(ls)}

\* Trying a length's list settles the ids of that length ...
LEMMA LengthTried ==
    ASSUME Tables, msg \in Seq(Bytes), NEW A \in SUBSET Ids, NEW I, NEW lit, NEW piece,
           IsIndex(I, lit, piece),
           NEW ls \in Seq(Nat), Ascends(ls), ls # <<>>, Head(ls) <= Len(msg), NEW b,
           BestOf(Settled(A, I, lit, ls), msg, b),
           NEW r, r = Evaluate(Ranked(OfLiteral(I, lit, piece[Head(ls)])), b)
    PROVE  BestOf(Settled(A, I, lit, Tail(ls)), msg, r)
<1> DEFINE K == Settled(A, I, lit, ls)
           L == OfLiteral(I, lit, piece[Head(ls)])
           T == Settled(A, I, lit, Tail(ls))
<1>1. /\ I \in SUBSET Ids
      /\ \A len \in 0 .. Len(msg) : Len(piece[len]) = len
      /\ \A id \in I : Matches(templates[id], msg) => lit[id] = piece[Len(lit[id])]
  BY Zenon DEF IsIndex
<1>2. Head(ls) \in Nat /\ \A x : x \in ToSet(ls) <=> (x = Head(ls) \/ x \in ToSet(Tail(ls)))
  BY HeadIsLeast
<1>3. Head(ls) \notin ToSet(Tail(ls))
  <2>1. PICK rest, n, h : rest = Tail(ls) /\ n = Len(ls) /\ h = Head(ls)
    OBVIOUS
  <2>2. /\ n \in Nat /\ n >= 1 /\ rest \in Seq(Nat) /\ Len(rest) = n - 1 /\ DOMAIN ls = 1 .. n
        /\ h = ls[1] /\ h \in Nat /\ \A j \in 1 .. n - 1 : rest[j] = ls[j + 1]
    BY <2>1
  <2>3. ASSUME NEW j \in 1 .. n - 1
        PROVE  h < rest[j]
    <3>1. 1 \in 1 .. n /\ j + 1 \in 1 .. n /\ 1 < j + 1
      BY <2>2
    <3>2. ls[1] < ls[j + 1]
      BY <2>2, <3>1 DEF Ascends
    <3> QED
      BY <2>2, <3>2
  <2>4. \A x : x \in ToSet(rest) <=> \E j \in 1 .. n - 1 : x = rest[j]
    <3>1. \A x : x \in ToSet(rest) <=> \E j \in 1 .. Len(rest) : x = rest[j]
      BY <2>2, SeqRange
    <3> QED
      BY <2>2, <3>1, Zenon
  <2>5. h \notin ToSet(rest)
    <3> SUFFICES ASSUME h \in ToSet(rest)
                 PROVE  FALSE
      OBVIOUS
    <3>1. PICK j \in 1 .. n - 1 : h = rest[j]
      BY <2>4
    <3>2. h < h /\ h \in Nat
      BY <2>2, <2>3, <3>1, Zenon
    <3> QED
      BY <3>2
  <2> QED
    BY <2>1, <2>5
<1>4. K \in SUBSET Ids /\ L \in SUBSET Ids
  BY <1>1 DEF Settled, OfLiteral
<1>5. BestOf(K \cup L, msg, r)
  <2>1. PICK list : list = Ranked(L)
    OBVIOUS
  <2>2. r = Evaluate(list, b)
    BY <2>1
  <2>3. BestOf(K, msg, b)
    OBVIOUS
  <2> HIDE DEF K, L
  <2> QED
    BY <1>4, <2>1, <2>2, <2>3, EvaluateFacts
<1>6. ASSUME NEW id, Matches(templates[id], msg)
      PROVE  id \in K \cup L <=> id \in T
  <2>1. CASE id \in A
    BY <2>1 DEF Settled
  <2>2. CASE id \notin A /\ id \notin I
    BY <2>2 DEF Settled, OfLiteral
  <2>3. CASE id \notin A /\ id \in I
    <3>1. id \in K <=> Len(lit[id]) \notin ToSet(ls)
      BY <2>3 DEF Settled
    <3>2. id \in T <=> Len(lit[id]) \notin ToSet(Tail(ls))
      BY <2>3 DEF Settled
    <3>3. id \in L <=> lit[id] = piece[Head(ls)]
      BY <2>3 DEF OfLiteral
    <3>4. lit[id] = piece[Len(lit[id])]
      BY <1>1, <1>6, <2>3
    <3>5. Len(piece[Head(ls)]) = Head(ls)
      BY <1>1, <1>2
    <3>6. id \in L <=> Len(lit[id]) = Head(ls)
      BY <3>3, <3>4, <3>5, Zenon
    <3> QED
      BY <1>2, <1>3, <3>1, <3>2, <3>6
  <2> QED
    BY <2>1, <2>2, <2>3
<1> HIDE DEF K, L, T
<1>7. BestOf(T, msg, r)
  BY <1>5, <1>6, BestOfSame
<1> QED
  BY <1>7 DEF T

\* ... and past the message's length no id is left to try.
LEMMA LengthsTried ==
    ASSUME msg \in Seq(Bytes), NEW A, NEW I, NEW lit, NEW piece, IsIndex(I, lit, piece),
           NEW ls \in Seq(Nat), Ascends(ls), ls # <<>> => ~(Head(ls) <= Len(msg)), NEW b,
           BestOf(Settled(A, I, lit, ls), msg, b)
    PROVE  BestOf(A \cup I, msg, b)
<1> DEFINE K == Settled(A, I, lit, ls)
<1>1. \A id \in I : Len(lit[id]) \in Nat /\ (Matches(templates[id], msg) => Len(lit[id]) <= Len(msg))
  BY Zenon DEF IsIndex
<1>2. ASSUME NEW id, id \in I, Matches(templates[id], msg)
      PROVE  Len(lit[id]) \notin ToSet(ls)
  <2>1. CASE ls = <<>>
    BY <2>1 DEF ToSet
  <2>2. CASE ls # <<>>
    <3>1. /\ Head(ls) \in Nat /\ ~(Head(ls) <= Len(msg))
          /\ \A x \in ToSet(ls) : Head(ls) <= x
      BY <2>2, HeadIsLeast
    <3>2. Len(msg) \in Nat
      OBVIOUS
    <3> QED
      BY <1>1, <1>2, <3>1, <3>2
  <2> QED
    BY <2>1, <2>2
<1>3. \A id : id \in K /\ Matches(templates[id], msg) <=> id \in A \cup I /\ Matches(templates[id], msg)
  BY <1>2, Zenon DEF Settled
<1>4. BestOf(K, msg, b)
  OBVIOUS
<1> HIDE DEF K
<1>5. PICK B : B = A \cup I
  OBVIOUS
<1>6. BestOf(B, msg, b)
  BY <1>3, <1>4, <1>5, BestOfSame
<1> QED
  BY <1>5, <1>6

-----------------------------------------------------------------------------
\* The literals of the two indexes by length, and the message's pieces they are
\* compared with.
PrefixLits == [id \in Ids |-> firstLiteral(templates[id])]
PrefixPieces == [len \in 0 .. Len(msg) |-> SubSeq(msg, 1, len)]
SuffixLits == [id \in Ids |-> lastLiteral(templates[id])]
SuffixPieces == [len \in 0 .. Len(msg) |-> SubSeq(msg, Len(msg) - len + 1, Len(msg))]

\* The ids settled while lengths, or literals, are left.
PrefixesTried(ls) == {id \in ById(InPrefixes) : Len(PrefixLits[id]) \notin ToSet(ls)}
SuffixesTried(ls) == {id \in ById(InSuffixes) : Len(SuffixLits[id]) \notin ToSet(ls)}
MiddlesTried(vs) == {id \in ById(InMiddles) : strongestMiddleLiteral(templates[id]) \notin vs}

\* The tables do not change: what is said of them stays said.
LEMMA SameTables ==
    ASSUME templates' = templates
    PROVE  /\ Ids' = Ids /\ PrefixLits' = PrefixLits /\ SuffixLits' = SuffixLits
           /\ ById(InPrefixes)' = ById(InPrefixes) /\ ById(InSuffixes)' = ById(InSuffixes)
           /\ ById(InMiddles)' = ById(InMiddles) /\ ById(Exact)' = ById(Exact)
           /\ ById(Indexed)' = ById(Indexed)
           /\ \A L, m, b : BestOf(L, m, b)' <=> BestOf(L, m, b)
<1>1. /\ Ids' = Ids /\ PrefixLits' = PrefixLits /\ SuffixLits' = SuffixLits
      /\ ById(InPrefixes)' = ById(InPrefixes) /\ ById(InSuffixes)' = ById(InSuffixes)
      /\ ById(InMiddles)' = ById(InMiddles) /\ ById(Exact)' = ById(Exact)
      /\ ById(Indexed)' = ById(Indexed)
  BY DEF Ids, PrefixLits, SuffixLits, ById
<1>2. \A id : Rank(id)' = Rank(id)
  BY DEF Rank, Outranks, Better
<1>3. \A L, m : Fitting(L, m)' = Fitting(L, m)
  BY DEF Fitting
<1>4. \A L, m, b : BestOf(L, m, b)' <=> BestOf(L, m, b)
  BY <1>2, <1>3, Zenon DEF BestOf
<1> QED
  BY <1>1, <1>4

LEMMA PrefixesIndexed ==
    ASSUME Tables, msg \in Seq(Bytes)
    PROVE  IsIndex(ById(InPrefixes), PrefixLits, PrefixPieces)
<1>1. ById(InPrefixes) \in SUBSET Ids
  BY DEF ById, Ids
<1>2. ASSUME NEW len \in 0 .. Len(msg)
      PROVE  Len(PrefixPieces[len]) = len
  <2>1. PrefixPieces[len] = SubSeq(msg, 1, len)
    BY DEF PrefixPieces
  <2>2. Len(SubSeq(msg, 1, len)) = len
    OBVIOUS
  <2> QED
    BY <2>1, <2>2
<1>3. ASSUME NEW id \in ById(InPrefixes)
      PROVE  /\ Len(PrefixLits[id]) \in Nat
             /\ Matches(templates[id], msg) =>
                    /\ Len(PrefixLits[id]) <= Len(msg)
                    /\ PrefixLits[id] = PrefixPieces[Len(PrefixLits[id])]
  <2>1. PICK t, len : t = templates[id] /\ len = Len(PrefixLits[id])
    OBVIOUS
  <2>2. PrefixLits[id] = firstLiteral(t)
    BY <1>1, <2>1 DEF PrefixLits
  <2>3. t \in Seq(Bytes \cup {"*"}) /\ InPrefixes(t)
    BY <1>1, <2>1, TablesFacts DEF ById
  <2>4. len \in Nat
    BY <2>1, <2>2, <2>3, LiteralFacts
  <2>5. ASSUME Matches(t, msg)
        PROVE  len <= Len(msg) /\ PrefixLits[id] = PrefixPieces[len]
    <3>1. /\ Len(firstLiteral(t)) <= Len(msg)
          /\ firstLiteral(t) = SubSeq(msg, 1, Len(firstLiteral(t)))
      BY <2>3, <2>5, PrefixLiteralFits
    <3>2. len <= Len(msg) /\ PrefixLits[id] = SubSeq(msg, 1, len)
      BY <2>1, <2>2, <3>1, Zenon
    <3>3. len \in 0 .. Len(msg)
      BY <2>4, <3>2
    <3> QED
      BY <3>2, <3>3 DEF PrefixPieces
  <2> QED
    BY <2>1, <2>4, <2>5
<1> QED
  BY <1>1, <1>2, <1>3 DEF IsIndex

LEMMA SuffixesIndexed ==
    ASSUME Tables, msg \in Seq(Bytes)
    PROVE  IsIndex(ById(InSuffixes), SuffixLits, SuffixPieces)
<1>1. ById(InSuffixes) \in SUBSET Ids
  BY DEF ById, Ids
<1>2. ASSUME NEW len \in 0 .. Len(msg)
      PROVE  Len(SuffixPieces[len]) = len
  <2>1. SuffixPieces[len] = SubSeq(msg, Len(msg) - len + 1, Len(msg))
    BY DEF SuffixPieces
  <2>2. Len(SubSeq(msg, Len(msg) - len + 1, Len(msg))) = len
    OBVIOUS
  <2> QED
    BY <2>1, <2>2
<1>3. ASSUME NEW id \in ById(InSuffixes)
      PROVE  /\ Len(SuffixLits[id]) \in Nat
             /\ Matches(templates[id], msg) =>
                    /\ Len(SuffixLits[id]) <= Len(msg)
                    /\ SuffixLits[id] = SuffixPieces[Len(SuffixLits[id])]
  <2>1. PICK t, len : t = templates[id] /\ len = Len(SuffixLits[id])
    OBVIOUS
  <2>2. SuffixLits[id] = lastLiteral(t)
    BY <1>1, <2>1 DEF SuffixLits
  <2>3. t \in Seq(Bytes \cup {"*"}) /\ InSuffixes(t)
    BY <1>1, <2>1, TablesFacts DEF ById
  <2>4. len \in Nat
    BY <2>1, <2>2, <2>3, LiteralFacts
  <2>5. ASSUME Matches(t, msg)
        PROVE  len <= Len(msg) /\ SuffixLits[id] = SuffixPieces[len]
    <3>1. /\ Len(lastLiteral(t)) <= Len(msg)
          /\ lastLiteral(t) = SubSeq(msg, (Len(msg) - Len(lastLiteral(t))) + 1, Len(msg))
      BY <2>3, <2>5, SuffixLiteralFits
    <3>2. len <= Len(msg) /\ SuffixLits[id] = SubSeq(msg, (Len(msg) - len) + 1, Len(msg))
      BY <2>1, <2>2, <3>1, Zenon
    <3>3. len \in 0 .. Len(msg) /\ (Len(msg) - len) + 1 = Len(msg) - len + 1
      BY <2>4, <3>2
    <3> QED
      BY <3>2, <3>3 DEF SuffixPieces
  <2> QED
    BY <2>1, <2>4, <2>5
<1> QED
  BY <1>1, <1>2, <1>3 DEF IsIndex

\* At first no id of an index is settled.
LEMMA LengthsStart ==
    ASSUME Tables
    PROVE  /\ prefixLens \in Seq(Nat) /\ Ascends(prefixLens) /\ PrefixesTried(prefixLens) = {}
           /\ suffixLens \in Seq(Nat) /\ Ascends(suffixLens) /\ SuffixesTried(suffixLens) = {}
<1>1. ASSUME NEW I \in SUBSET Ids, NEW f \in [Ids -> Seq(Bytes \cup {"*"})], NEW ls,
             ls = Lengths({f[id] : id \in I})
      PROVE  /\ ls \in Seq(Nat) /\ Ascends(ls)
             /\ \A id \in I : Len(f[id]) \in ToSet(ls)
  <2> DEFINE g == [id \in I |-> f[id]]
             L == {f[id] : id \in I}
  <2>1. IsFiniteSet(I)
    BY TablesFacts, FS_Subset
  <2>2. IsFiniteSet({g[id] : id \in I})
    BY <2>1, RangeBound
  <2>3. {g[id] : id \in I} = L
    BY Zenon
  <2>4. IsFiniteSet(L) /\ L \in SUBSET Seq(Bytes \cup {"*"}) /\ \A id \in I : f[id] \in L
    BY <2>2, <2>3, Zenon
  <2>5. ls = Lengths(L)
    BY <1>1
  <2> HIDE DEF L
  <2>6. ls \in Seq(Nat) /\ Ascends(ls) /\ \A l \in L : Len(l) \in ToSet(ls)
    BY <2>4, <2>5, LengthsFacts
  <2> QED
    BY <2>4, <2>6
<1>2. /\ PrefixLits \in [Ids -> Seq(Bytes \cup {"*"})]
      /\ SuffixLits \in [Ids -> Seq(Bytes \cup {"*"})]
  <2>1. \A id \in Ids : templates[id] \in Seq(Bytes \cup {"*"})
    BY TablesFacts
  <2>2. \A t \in Seq(Bytes \cup {"*"}) : /\ firstLiteral(t) \in Seq(Bytes \cup {"*"})
                                         /\ lastLiteral(t) \in Seq(Bytes \cup {"*"})
    BY LiteralFacts
  <2> QED
    BY <2>1, <2>2, Zenon DEF PrefixLits, SuffixLits
<1>3. /\ ById(InPrefixes) \in SUBSET Ids /\ ById(InSuffixes) \in SUBSET Ids
      /\ \A id \in Ids : PrefixLits[id] = firstLiteral(templates[id])
      /\ \A id \in Ids : SuffixLits[id] = lastLiteral(templates[id])
  BY Zenon DEF ById, Ids, PrefixLits, SuffixLits
<1>4. /\ {firstLiteral(templates[id]) : id \in ById(InPrefixes)}
            = {PrefixLits[id] : id \in ById(InPrefixes)}
      /\ {lastLiteral(templates[id]) : id \in ById(InSuffixes)}
            = {SuffixLits[id] : id \in ById(InSuffixes)}
  BY <1>3, Zenon
<1>5. /\ prefixLens = Lengths({PrefixLits[id] : id \in ById(InPrefixes)})
      /\ suffixLens = Lengths({SuffixLits[id] : id \in ById(InSuffixes)})
  BY <1>4 DEF prefixLens, suffixLens
<1>6. /\ prefixLens \in Seq(Nat) /\ Ascends(prefixLens)
      /\ \A id \in ById(InPrefixes) : Len(PrefixLits[id]) \in ToSet(prefixLens)
  <2>1. PICK f, I, ls : f = PrefixLits /\ I = ById(InPrefixes) /\ ls = prefixLens
    OBVIOUS
  <2>2. ls = Lengths({f[id] : id \in I})
    BY <1>5, <2>1
  <2>3. I \in SUBSET Ids /\ f \in [Ids -> Seq(Bytes \cup {"*"})]
    BY <1>2, <1>3, <2>1
  <2>4. ls \in Seq(Nat) /\ Ascends(ls) /\ \A id \in I : Len(f[id]) \in ToSet(ls)
    BY <1>1, <2>2, <2>3, Zenon
  <2> QED
    BY <2>1, <2>4
<1>7. /\ suffixLens \in Seq(Nat) /\ Ascends(suffixLens)
      /\ \A id \in ById(InSuffixes) : Len(SuffixLits[id]) \in ToSet(suffixLens)
  <2>1. PICK f, I, ls : f = SuffixLits /\ I = ById(InSuffixes) /\ ls = suffixLens
    OBVIOUS
  <2>2. ls = Lengths({f[id] : id \in I})
    BY <1>5, <2>1
  <2>3. I \in SUBSET Ids /\ f \in [Ids -> Seq(Bytes \cup {"*"})]
    BY <1>2, <1>3, <2>1
  <2>4. ls \in Seq(Nat) /\ Ascends(ls) /\ \A id \in I : Len(f[id]) \in ToSet(ls)
    BY <1>1, <2>2, <2>3, Zenon
  <2> QED
    BY <2>1, <2>4
<1> QED
  BY <1>6, <1>7, Zenon DEF PrefixesTried, SuffixesTried

-----------------------------------------------------------------------------
\* What each consultation of an index adds to the ids settled.
LEMMA PrefixTried ==
    ASSUME Tables, msg \in Seq(Bytes), NEW ls \in Seq(Nat), Ascends(ls),
           ls # <<>>, Head(ls) <= Len(msg), NEW b, BestOf(PrefixesTried(ls), msg, b),
           NEW r, r = Evaluate(prefixIndex(SubSeq(msg, 1, Head(ls))), b)
    PROVE  BestOf(PrefixesTried(Tail(ls)), msg, r)
<1>1. PICK I, f, p : I = ById(InPrefixes) /\ f = PrefixLits /\ p = PrefixPieces
  OBVIOUS
<1>2. IsIndex(I, f, p)
  BY <1>1, PrefixesIndexed
<1>3. p[Head(ls)] = SubSeq(msg, 1, Head(ls))
  <2>1. Head(ls) \in 0 .. Len(msg)
    BY HeadIsLeast
  <2> QED
    BY <1>1, <2>1 DEF PrefixPieces
<1>4. \A id \in I : f[id] = firstLiteral(templates[id])
  BY <1>1 DEF PrefixLits, ById, Ids
<1>5. r = Evaluate(Ranked(OfLiteral(I, f, p[Head(ls)])), b)
  <2>1. {id \in ById(InPrefixes) : firstLiteral(templates[id]) = SubSeq(msg, 1, Head(ls))}
          = OfLiteral(I, f, p[Head(ls)])
    BY <1>1, <1>3, <1>4, Zenon DEF OfLiteral
  <2> QED
    BY <2>1 DEF prefixIndex
<1>6. PICK A : A = {}
  OBVIOUS
<1>7. /\ PrefixesTried(ls) = Settled(A, I, f, ls)
      /\ PrefixesTried(Tail(ls)) = Settled(A, I, f, Tail(ls))
  BY <1>1, <1>6, Zenon DEF PrefixesTried, Settled
<1>8. BestOf(Settled(A, I, f, ls), msg, b) /\ A \in SUBSET Ids
  BY <1>6, <1>7
<1>9. BestOf(Settled(A, I, f, Tail(ls)), msg, r)
  BY <1>2, <1>5, <1>8, LengthTried
<1> QED
  BY <1>7, <1>9

LEMMA PrefixesDone ==
    ASSUME Tables, msg \in Seq(Bytes), NEW ls \in Seq(Nat), Ascends(ls),
           ls # <<>> => ~(Head(ls) <= Len(msg)), NEW b, BestOf(PrefixesTried(ls), msg, b)
    PROVE  BestOf(ById(InPrefixes) \cup SuffixesTried(suffixLens), msg, b)
<1>1. PICK I, f, p, A : I = ById(InPrefixes) /\ f = PrefixLits /\ p = PrefixPieces /\ A = {}
  OBVIOUS
<1>2. IsIndex(I, f, p)
  BY <1>1, PrefixesIndexed
<1>3. PrefixesTried(ls) = Settled(A, I, f, ls)
  BY <1>1, Zenon DEF PrefixesTried, Settled
<1>4. BestOf(Settled(A, I, f, ls), msg, b)
  BY <1>3
<1>5. BestOf(A \cup I, msg, b)
  BY <1>2, <1>4, LengthsTried
<1>6. SuffixesTried(suffixLens) = {}
  BY LengthsStart
<1>7. A \cup I = ById(InPrefixes) \cup SuffixesTried(suffixLens)
  BY <1>1, <1>6
<1> QED
  BY <1>5, <1>7

LEMMA SuffixTried ==
    ASSUME Tables, msg \in Seq(Bytes), NEW ls \in Seq(Nat), Ascends(ls),
           ls # <<>>, Head(ls) <= Len(msg),
           NEW b, BestOf(ById(InPrefixes) \cup SuffixesTried(ls), msg, b),
           NEW r, r = Evaluate(suffixIndex(SubSeq(msg, Len(msg) - Head(ls) + 1, Len(msg))), b)
    PROVE  BestOf(ById(InPrefixes) \cup SuffixesTried(Tail(ls)), msg, r)
<1>1. PICK I, f, p, A : /\ I = ById(InSuffixes) /\ f = SuffixLits /\ p = SuffixPieces
                        /\ A = ById(InPrefixes)
  OBVIOUS
<1>2. IsIndex(I, f, p)
  BY <1>1, SuffixesIndexed
<1>3. p[Head(ls)] = SubSeq(msg, Len(msg) - Head(ls) + 1, Len(msg))
  <2>1. Head(ls) \in 0 .. Len(msg)
    BY HeadIsLeast
  <2> QED
    BY <1>1, <2>1 DEF SuffixPieces
<1>4. \A id \in I : f[id] = lastLiteral(templates[id])
  BY <1>1 DEF SuffixLits, ById, Ids
<1>5. r = Evaluate(Ranked(OfLiteral(I, f, p[Head(ls)])), b)
  <2>1. {id \in ById(InSuffixes) :
            lastLiteral(templates[id]) = SubSeq(msg, Len(msg) - Head(ls) + 1, Len(msg))}
          = OfLiteral(I, f, p[Head(ls)])
    BY <1>1, <1>3, <1>4, Zenon DEF OfLiteral
  <2> QED
    BY <2>1 DEF suffixIndex
<1>7. /\ A \cup SuffixesTried(ls) = Settled(A, I, f, ls)
      /\ A \cup SuffixesTried(Tail(ls)) = Settled(A, I, f, Tail(ls))
  BY <1>1, Zenon DEF SuffixesTried, Settled
<1>8. BestOf(Settled(A, I, f, ls), msg, b) /\ A \in SUBSET Ids
  BY <1>1, <1>7, Zenon DEF ById, Ids
<1>9. BestOf(Settled(A, I, f, Tail(ls)), msg, r)
  BY <1>2, <1>5, <1>8, LengthTried
<1> QED
  BY <1>1, <1>7, <1>9

LEMMA SuffixesDone ==
    ASSUME Tables, msg \in Seq(Bytes), NEW ls \in Seq(Nat), Ascends(ls),
           ls # <<>> => ~(Head(ls) <= Len(msg)),
           NEW b, BestOf(ById(InPrefixes) \cup SuffixesTried(ls), msg, b),
           NEW vs, vs = {l \in middleLiterals : Skips(msg, 0, l) # {}}
    PROVE  BestOf((ById(InPrefixes) \cup ById(InSuffixes)) \cup MiddlesTried(vs), msg, b)
<1>1. PICK I, f, p, A : /\ I = ById(InSuffixes) /\ f = SuffixLits /\ p = SuffixPieces
                        /\ A = ById(InPrefixes)
  OBVIOUS
<1>2. IsIndex(I, f, p)
  BY <1>1, SuffixesIndexed
<1>3. A \cup SuffixesTried(ls) = Settled(A, I, f, ls)
  BY <1>1, Zenon DEF SuffixesTried, Settled
<1>4. BestOf(Settled(A, I, f, ls), msg, b)
  BY <1>1, <1>3, Zenon
<1>5. BestOf(A \cup I, msg, b)
  BY <1>2, <1>4, LengthsTried
<1>6. ASSUME NEW id \in MiddlesTried(vs)
      PROVE  ~Matches(templates[id], msg)
  <2>1. PICK t : t = templates[id]
    OBVIOUS
  <2>2. id \in Ids /\ InMiddles(t) /\ strongestMiddleLiteral(t) \notin vs
    BY <2>1 DEF MiddlesTried, ById, Ids
  <2>3. strongestMiddleLiteral(t) \in middleLiterals
    BY <2>1, Zenon DEF MiddlesTried, middleLiterals
  <2>4. ~(Skips(msg, 0, strongestMiddleLiteral(t)) # {})
    BY <2>2, <2>3
  <2>5. t \in Seq(Bytes \cup {"*"})
    BY <2>1, <2>2, TablesFacts
  <2> QED
    BY <2>1, <2>2, <2>4, <2>5, MiddleLiteralFits
<1>7. PICK K, L : K = (ById(InPrefixes) \cup ById(InSuffixes)) \cup MiddlesTried(vs) /\ L = A \cup I
  OBVIOUS
<1>8. \A id : id \in L /\ Matches(templates[id], msg) <=> id \in K /\ Matches(templates[id], msg)
  BY <1>1, <1>6, <1>7, Zenon
<1>9. BestOf(K, msg, b)
  BY <1>5, <1>7, <1>8, BestOfSame
<1> QED
  BY <1>7, <1>9

\* The ids filed by first or last literal.
ByEnds == ById(InPrefixes) \cup ById(InSuffixes)

LEMMA MiddleTried ==
    ASSUME Tables, msg \in Seq(Bytes), NEW vs, NEW l \in vs,
           NEW b, BestOf(ByEnds \cup MiddlesTried(vs), msg, b),
           NEW r, r = Evaluate(middleIndex(l), b)
    PROVE  /\ BestOf(ByEnds \cup MiddlesTried(vs \ {l}), msg, r)
           /\ Unbeatable(r) => BestOf(ByEnds \cup MiddlesTried({}), msg, r)
<1>1. PICK K, L, T : /\ K = ByEnds \cup MiddlesTried(vs)
                     /\ L = {id \in ById(InMiddles) : strongestMiddleLiteral(templates[id]) = l}
                     /\ T = ByEnds \cup MiddlesTried({})
  OBVIOUS
<1>2. K \in SUBSET Ids /\ L \in SUBSET Ids /\ T \in SUBSET Ids /\ L \subseteq T /\ K \subseteq T
  BY <1>1, Zenon DEF ByEnds, MiddlesTried, ById, Ids
<1>3. PICK list : list = Ranked(L)
  OBVIOUS
<1>4. r = Evaluate(list, b)
  BY <1>1, <1>3 DEF middleIndex
<1>5. BestOf(K, msg, b)
  BY <1>1
<1>6. BestOf(K \cup L, msg, r)
  BY <1>2, <1>3, <1>4, <1>5, EvaluateFacts
<1>7. K \cup L = ByEnds \cup MiddlesTried(vs \ {l})
  BY <1>1, Zenon DEF MiddlesTried
<1>8. ASSUME Unbeatable(r)
      PROVE  BestOf(T, msg, r)
  <2>1. Rank(r) = 0 /\ r # None
    BY <1>8 DEF Unbeatable
  <2>2. r \in Fitting(K \cup L, msg)
    BY <1>6, <2>1, Zenon DEF BestOf
  <2>3. r \in Fitting(T, msg)
    BY <1>2, <2>2, Zenon DEF Fitting
  <2>4. \A id \in Fitting(T, msg) : Rank(r) <= Rank(id)
    <3>1. \A id \in Fitting(T, msg) : id \in Ids
      BY <1>2, Zenon DEF Fitting
    <3>2. \A id \in Ids : Rank(id) \in Nat
      BY RankOrder
    <3>3. \A id \in Fitting(T, msg) : 0 <= Rank(id)
      BY <3>1, <3>2
    <3> QED
      BY <2>1, <3>3, Zenon
  <2> QED
    BY <2>3, <2>4, Zenon DEF BestOf
<1> QED
  BY <1>1, <1>6, <1>7, <1>8, Zenon

\* When nothing is left to try, and no template is the message, the best so far
\* is the best of all.
LEMMA LookupDone ==
    ASSUME Tables, NEW m, NEW b, BestOf(ByEnds \cup MiddlesTried({}), m, b),
           \A id \in ById(Exact) : templates[id] # m
    PROVE  BestOf(ById(Indexed), m, b)
<1>1. PICK K, L : K = ByEnds \cup MiddlesTried({}) /\ L = ById(Indexed)
  OBVIOUS
<1>2. ASSUME NEW id, Matches(templates[id], m)
      PROVE  id \in K <=> id \in L
  <2>1. id \in L <=> (id \in ById(Exact) \/ id \in K)
    BY <1>1, Zenon DEF ByEnds, MiddlesTried, ById, Indexed
  <2>2. id \notin ById(Exact)
    <3> SUFFICES ASSUME id \in ById(Exact)
                 PROVE  FALSE
      OBVIOUS
    <3>1. Exact(templates[id])
      BY DEF ById
    <3>2. m = templates[id]
      BY <1>2, <3>1 DEF Matches
    <3> QED
      BY <3>2
  <2> QED
    BY <2>1, <2>2
<1>3. BestOf(K, m, b)
  BY <1>1
<1>4. BestOf(L, m, b)
  BY <1>2, <1>3, BestOfSame
<1> QED
  BY <1>1, <1>4

\* A template that is the message outranks every other that matches it.
LEMMA ExactIsBest ==
    ASSUME Tables, NEW m \in Seq(Bytes), NEW e \in ById(Exact), templates[e] = m
    PROVE  BestOf(ById(Indexed), m, e)
<1>1. PICK t : t = templates[e]
  OBVIOUS
<1>2. e \in Ids /\ Exact(t) /\ t = m /\ t \in Seq(Bytes \cup {"*"})
  BY <1>1, TablesFacts DEF ById, Ids
<1>3. e \in Fitting(ById(Indexed), m)
  BY <1>1, <1>2 DEF Fitting, Matches, ById, Indexed
<1>4. ASSUME NEW id \in Fitting(ById(Indexed), m)
      PROVE  Rank(e) <= Rank(id)
  <2>1. PICK s : s = templates[id]
    OBVIOUS
  <2>2. id \in Ids /\ Matches(s, m) /\ s \in Seq(Bytes \cup {"*"})
    BY <2>1, TablesFacts DEF Fitting, ById, Ids
  <2>3. Rank(e) \in Nat /\ Rank(id) \in Nat /\ (Outranks(e, id) <=> Rank(e) < Rank(id))
    BY <1>2, <2>2, RankOrder
  <2>4. CASE Exact(s)
    <3>1. s = t
      BY <1>2, <2>2, <2>4 DEF Matches
    <3>2. id = e
      BY <1>1, <1>2, <2>1, <2>2, <3>1 DEF Tables, Ids, IsInjective
    <3> QED
      BY <2>3, <3>2
  <2>5. CASE ~Exact(s)
    <3>1. Len(s) <= Len(m)
      BY <2>2, <2>5, MatchIsLong
    <3>2. PICK a, b, c, d : /\ a = literalBytes(t) /\ b = literalBytes(s)
                            /\ c = placeholderCount(s) /\ d = Len(s)
      OBVIOUS
    <3>3. a \in Nat /\ a = Len(t) - placeholderCount(t)
      BY <1>2, <3>2, CountFacts
    <3>4. b \in Nat /\ c \in Nat /\ b = d - c
      BY <2>2, <3>2, CountFacts
    <3>5. placeholderCount(t) = 0 /\ c # 0 /\ d <= Len(t) /\ Len(t) \in Nat /\ d \in Nat
      BY <1>2, <2>2, <2>5, <3>1, <3>2 DEF Exact
    <3>6. a > b
      BY <3>3, <3>4, <3>5
    <3>7. Outranks(e, id)
      BY <1>1, <2>1, <3>2, <3>6, Zenon DEF Outranks, Better
    <3> QED
      BY <2>3, <3>7
  <2> QED
    BY <2>4, <2>5
<1> QED
  BY <1>3, <1>4, Zenon DEF BestOf

-----------------------------------------------------------------------------
\* The inductive invariant: the batch, the cache and the answers so far, and
\* what a lookup has settled: best is the best of the ids consulted, or passed
\* over because they cannot match.
BatchInv ==
    /\ batch \in Seq(Seq(Bytes))
    /\ k \in 1 .. Len(batch) + 1
    /\ ids \in [DOMAIN batch -> {None} \cup Ids]
    /\ pc \in {"idle", "message", "prefix", "suffix", "middle"}
    /\ best \in {None} \cup Ids

CacheInv ==
    \A m \in DOMAIN cache : m \in ToSet(batch) /\ BestOf(ById(Indexed), m, cache[m])

AnswersInv == \A j \in 1 .. k - 1 : BestOf(ById(Indexed), batch[j], ids[j])

LookupInv ==
    pc \in {"prefix", "suffix", "middle"} =>
        /\ k \in 1 .. Len(batch)
        /\ \A id \in ById(Exact) : templates[id] # msg
        /\ lens \in Seq(Nat) /\ Ascends(lens)
        /\ pc = "prefix" => BestOf(PrefixesTried(lens), msg, best)
        /\ pc = "suffix" => BestOf(ById(InPrefixes) \cup SuffixesTried(lens), msg, best)
        /\ pc = "middle" => BestOf(ByEnds \cup MiddlesTried(visits), msg, best)

MatcherInv == Tables /\ BatchInv /\ CacheInv /\ AnswersInv /\ LookupInv

LEMMA BestIsId ==
    ASSUME Tables, NEW L \in SUBSET Ids, NEW m, NEW b, BestOf(L, m, b)
    PROVE  b \in {None} \cup Ids
  BY Zenon DEF BestOf, Fitting

LEMMA SettledAreIds ==
    /\ ById(Indexed) \in SUBSET Ids
    /\ \A ls : PrefixesTried(ls) \in SUBSET Ids
    /\ \A ls : ById(InPrefixes) \cup SuffixesTried(ls) \in SUBSET Ids
    /\ \A vs : ByEnds \cup MiddlesTried(vs) \in SUBSET Ids
  BY Zenon DEF ById, Ids, PrefixesTried, SuffixesTried, MiddlesTried, ByEnds

LEMMA MessageFacts ==
    ASSUME BatchInv, k \in 1 .. Len(batch)
    PROVE  msg \in Seq(Bytes) /\ msg \in ToSet(batch) /\ k \in Nat
<1>1. batch \in Seq(Seq(Bytes)) /\ DOMAIN batch = 1 .. Len(batch)
  BY DEF BatchInv
<1>2. msg = batch[k] /\ k \in Nat
  BY DEF msg
<1>3. batch[k] \in Seq(Bytes)
  BY <1>1
<1> QED
  BY <1>1, <1>2, <1>3, Zenon DEF ToSet

\* Whatever the tables are used for, they keep what is settled.
LEMMA SameSettled ==
    ASSUME templates' = templates
    PROVE  /\ \A ls : PrefixesTried(ls)' = PrefixesTried(ls)
           /\ \A ls : (ById(InPrefixes) \cup SuffixesTried(ls))'
                        = ById(InPrefixes) \cup SuffixesTried(ls)
           /\ \A vs : (ByEnds \cup MiddlesTried(vs))' = ByEnds \cup MiddlesTried(vs)
<1>1. /\ PrefixLits' = PrefixLits /\ SuffixLits' = SuffixLits
      /\ ById(InPrefixes)' = ById(InPrefixes) /\ ById(InSuffixes)' = ById(InSuffixes)
      /\ ById(InMiddles)' = ById(InMiddles)
  BY SameTables
<1> QED
  BY <1>1, Zenon DEF PrefixesTried, SuffixesTried, MiddlesTried, ByEnds

\* A step of a lookup leaves the rest of the invariant alone.
LEMMA LookupStep ==
    ASSUME MatcherInv, UNCHANGED <<templates, batch, ids, k, cache>>,
           best' \in {None} \cup Ids, pc' \in {"idle", "message", "prefix", "suffix", "middle"}
    PROVE  Tables' /\ BatchInv' /\ CacheInv' /\ AnswersInv'
<1>1. /\ Ids' = Ids /\ ById(Indexed)' = ById(Indexed)
      /\ \A L, m, b : BestOf(L, m, b)' <=> BestOf(L, m, b)
  BY SameTables
<1>2. Tables' /\ BatchInv'
  BY <1>1 DEF MatcherInv, Tables, BatchInv
<1>3. CacheInv'
  BY <1>1, Zenon DEF MatcherInv, CacheInv
<1>4. AnswersInv'
  BY <1>1, Zenon DEF MatcherInv, AnswersInv
<1> QED
  BY <1>2, <1>3, <1>4

\* A best id for the message answers it.
LEMMA AnswerStep ==
    ASSUME MatcherInv, UNCHANGED <<templates, batch, best>>, k \in 1 .. Len(batch),
           NEW id, BestOf(ById(Indexed), msg, id), Answer(id)
    PROVE  MatcherInv'
<1>1. /\ Ids' = Ids /\ ById(Indexed)' = ById(Indexed)
      /\ \A L, m, b : BestOf(L, m, b)' <=> BestOf(L, m, b)
  BY SameTables
<1>2. msg \in ToSet(batch) /\ k \in Nat
  BY MessageFacts DEF MatcherInv
<1>3. id \in {None} \cup Ids
  BY SettledAreIds, BestIsId DEF MatcherInv
<1>4. Tables'
  BY DEF MatcherInv, Tables
<1>5. BatchInv'
  <2>1. batch' \in Seq(Seq(Bytes)) /\ k' \in 1 .. Len(batch') + 1
    BY <1>2 DEF MatcherInv, BatchInv, Answer
  <2>2. ids' \in [DOMAIN batch' -> {None} \cup Ids']
    BY <1>1, <1>3 DEF MatcherInv, BatchInv, Answer
  <2>3. pc' = "message" /\ best' \in {None} \cup Ids'
    BY <1>1 DEF MatcherInv, BatchInv, Answer
  <2> QED
    BY <2>1, <2>2, <2>3 DEF BatchInv
<1>6. CacheInv'
  <2>1. /\ DOMAIN cache' = DOMAIN cache \cup {msg}
        /\ \A m \in DOMAIN cache' : cache'[m] = IF m = msg THEN id ELSE cache[m]
    BY DEF Answer, Cached
  <2>2. \A m \in DOMAIN cache : m \in ToSet(batch) /\ BestOf(ById(Indexed), m, cache[m])
    BY DEF MatcherInv, CacheInv
  <2>3. \A m \in DOMAIN cache' : m \in ToSet(batch) /\ BestOf(ById(Indexed), m, cache'[m])
    BY <1>2, <2>1, <2>2, Zenon
  <2> QED
    BY <1>1, <2>3, Zenon DEF CacheInv
<1>7. AnswersInv'
  <2>1. ASSUME NEW j \in 1 .. k' - 1
        PROVE  BestOf(ById(Indexed), batch[j], ids'[j])
    <3>1. k' = k + 1 /\ ids' = [ids EXCEPT ![k] = id] /\ DOMAIN ids = 1 .. Len(batch)
      <4>1. DOMAIN ids = DOMAIN batch
        BY DEF MatcherInv, BatchInv
      <4>2. DOMAIN batch = 1 .. Len(batch)
        BY DEF MatcherInv, BatchInv
      <4> QED
        BY <4>1, <4>2 DEF Answer
    <3>2. CASE j = k
      BY <3>1, <3>2 DEF msg
    <3>3. CASE j # k
      <4>1. j \in 1 .. k - 1 /\ ids'[j] = ids[j]
        BY <1>2, <3>1, <3>3
      <4> QED
        BY <4>1 DEF MatcherInv, AnswersInv
    <3> QED
      BY <3>2, <3>3
  <2> QED
    BY <1>1, <2>1, Zenon DEF AnswersInv
<1>8. LookupInv'
  BY DEF Answer, LookupInv
<1> QED
  BY <1>4, <1>5, <1>6, <1>7, <1>8 DEF MatcherInv

LEMMA InitInv ==
    ASSUME Init
    PROVE  MatcherInv
<1>1. PICK raw \in TemplateLists : templates = Kept(raw)
  BY DEF Init
<1>2. raw \in Seq(Seq(Bytes \cup {"*"}))
  BY MatcherAssumption
<1>3. Tables
  BY <1>1, <1>2, KeptFacts DEF Tables
<1>4. BatchInv
  BY DEF Init, BatchInv, None
<1>5. CacheInv /\ AnswersInv /\ LookupInv
  BY DEF Init, CacheInv, AnswersInv, LookupInv
<1> QED
  BY <1>3, <1>4, <1>5 DEF MatcherInv

\* The actions outside a lookup.
LEMMA BatchSteps ==
    ASSUME MatcherInv
    PROVE  /\ \A ms \in Batches : Begin(ms) => MatcherInv'
           /\ CacheHit => MatcherInv'
           /\ ExactHit => MatcherInv'
           /\ Return => MatcherInv'
<1>1. ASSUME NEW ms \in Batches, Begin(ms)
      PROVE  MatcherInv'
  <2>1. ms \in Seq(Seq(Bytes))
    BY MatcherAssumption
  <2>2. Ids' = Ids
    BY <1>1, SameTables DEF Begin
  <2>3. Tables'
    BY <1>1 DEF MatcherInv, Tables, Begin
  <2>4. BatchInv'
    BY <1>1, <2>1, <2>2 DEF MatcherInv, BatchInv, Begin
  <2>5. CacheInv' /\ AnswersInv' /\ LookupInv'
    BY <1>1 DEF CacheInv, AnswersInv, LookupInv, Begin
  <2> QED
    BY <2>3, <2>4, <2>5 DEF MatcherInv
<1>2. ASSUME CacheHit
      PROVE  MatcherInv'
  <2>1. /\ Ids' = Ids /\ ById(Indexed)' = ById(Indexed)
        /\ \A L, m, b : BestOf(L, m, b)' <=> BestOf(L, m, b)
    BY <1>2, SameTables DEF CacheHit
  <2>2. k \in 1 .. Len(batch) /\ k' = k + 1 /\ k \in Nat
    BY <1>2 DEF CacheHit, MatcherInv, BatchInv
  <2>3. BestOf(ById(Indexed), msg, cache[msg])
    BY <1>2 DEF CacheHit, MatcherInv, CacheInv
  <2>4. cache[msg] \in {None} \cup Ids
    <3>1. PICK c, m : c = cache[msg] /\ m = msg
      OBVIOUS
    <3>2. BestOf(ById(Indexed), m, c) /\ ById(Indexed) \in SUBSET Ids
      BY <2>3, <3>1, SettledAreIds
    <3> QED
      BY <3>1, <3>2, BestIsId DEF MatcherInv
  <2>5. Tables'
    BY <1>2 DEF MatcherInv, Tables, CacheHit
  <2>6. BatchInv'
    <3>1. ids' \in [DOMAIN batch' -> {None} \cup Ids']
      BY <1>2, <2>1, <2>4 DEF MatcherInv, BatchInv, CacheHit
    <3>2. k' \in 1 .. Len(batch') + 1
      BY <1>2, <2>2 DEF CacheHit
    <3>3. batch' = batch /\ pc' = pc /\ best' = best
      BY <1>2 DEF CacheHit
    <3> QED
      BY <2>1, <3>1, <3>2, <3>3 DEF MatcherInv, BatchInv
  <2>7. CacheInv'
    BY <1>2, <2>1, Zenon DEF MatcherInv, CacheInv, CacheHit
  <2>8. AnswersInv'
    <3>1. ASSUME NEW j \in 1 .. k' - 1
          PROVE  BestOf(ById(Indexed), batch[j], ids'[j])
      <4>1. DOMAIN ids = DOMAIN batch /\ DOMAIN batch = 1 .. Len(batch)
        <5>1. DOMAIN ids = DOMAIN batch
          BY DEF MatcherInv, BatchInv
        <5>2. DOMAIN batch = 1 .. Len(batch)
          BY DEF MatcherInv, BatchInv
        <5> QED
          BY <5>1, <5>2
      <4>2. ids' = [ids EXCEPT ![k] = cache[msg]]
        BY <1>2 DEF CacheHit
      <4>3. CASE j = k
        BY <2>2, <2>3, <4>1, <4>2, <4>3 DEF msg
      <4>4. CASE j # k
        <5>1. j \in 1 .. k - 1 /\ ids'[j] = ids[j]
          BY <2>2, <4>1, <4>2, <4>4
        <5> QED
          BY <5>1 DEF MatcherInv, AnswersInv
      <4> QED
        BY <4>3, <4>4
    <3>2. batch' = batch
      BY <1>2 DEF CacheHit
    <3> QED
      BY <2>1, <3>1, <3>2, Zenon DEF AnswersInv
  <2>9. LookupInv'
    BY <1>2 DEF LookupInv, CacheHit
  <2> QED
    BY <2>5, <2>6, <2>7, <2>8, <2>9 DEF MatcherInv
<1>3. ASSUME ExactHit
      PROVE  MatcherInv'
  <2>1. PICK id \in ById(Exact) : templates[id] = msg /\ Answer(id)
    BY <1>3 DEF ExactHit
  <2>2. k \in 1 .. Len(batch)
    BY <1>3 DEF ExactHit, MatcherInv, BatchInv
  <2>3. UNCHANGED <<templates, batch, best>>
    BY <1>3 DEF ExactHit
  <2>4. PICK m : m = msg
    OBVIOUS
  <2>5. m \in Seq(Bytes)
    BY <2>2, <2>4, MessageFacts DEF MatcherInv
  <2>6. BestOf(ById(Indexed), msg, id)
    BY <2>1, <2>4, <2>5, ExactIsBest DEF MatcherInv
  <2> QED
    BY <2>1, <2>2, <2>3, <2>6, AnswerStep
<1>4. ASSUME Return
      PROVE  MatcherInv'
  <2>1. UNCHANGED <<templates, batch, ids, k, cache>> /\ best' = best /\ pc' = "idle"
    BY <1>4 DEF Return
  <2>2. best' \in {None} \cup Ids
    BY <2>1 DEF MatcherInv, BatchInv
  <2>3. Tables' /\ BatchInv' /\ CacheInv' /\ AnswersInv'
    BY <2>1, <2>2, LookupStep
  <2>4. LookupInv'
    BY <2>1 DEF LookupInv
  <2> QED
    BY <2>3, <2>4 DEF MatcherInv
<1> QED
  BY <1>1, <1>2, <1>3, <1>4

\* What LookupInv says of a lookup in progress.
LEMMA LookupFacts ==
    ASSUME MatcherInv, pc \in {"prefix", "suffix", "middle"}
    PROVE  /\ k \in 1 .. Len(batch) /\ msg \in Seq(Bytes)
           /\ \A id \in ById(Exact) : templates[id] # msg
           /\ lens \in Seq(Nat) /\ Ascends(lens)
           /\ pc = "prefix" => BestOf(PrefixesTried(lens), msg, best)
           /\ pc = "suffix" => BestOf(ById(InPrefixes) \cup SuffixesTried(lens), msg, best)
           /\ pc = "middle" => BestOf(ByEnds \cup MiddlesTried(visits), msg, best)
<1>1. LookupInv /\ BatchInv
  BY DEF MatcherInv
<1>2. k \in 1 .. Len(batch)
  BY <1>1 DEF LookupInv
<1>3. msg \in Seq(Bytes)
  BY <1>1, <1>2, MessageFacts
<1> QED
  BY <1>1, <1>2, <1>3, Zenon DEF LookupInv

\* It is enough that a step leaves best the best of what it settles.
LEMMA LookupKept ==
    ASSUME MatcherInv, UNCHANGED <<templates, batch, ids, k, cache>>,
           pc' \in {"prefix", "suffix", "middle"}, k \in 1 .. Len(batch),
           \A id \in ById(Exact) : templates[id] # msg,
           NEW ls, ls = lens', ls \in Seq(Nat), Ascends(ls), NEW vs, vs = visits',
           NEW r, r = best',
           pc' = "prefix" => BestOf(PrefixesTried(ls), msg, r),
           pc' = "suffix" => BestOf(ById(InPrefixes) \cup SuffixesTried(ls), msg, r),
           pc' = "middle" => BestOf(ByEnds \cup MiddlesTried(vs), msg, r)
    PROVE  MatcherInv'
<1>1. PICK m : m = msg
  OBVIOUS
<1>2. msg' = m
  BY <1>1 DEF msg
<1>3. /\ ById(Exact)' = ById(Exact)
      /\ \A L, a, b : BestOf(L, a, b)' <=> BestOf(L, a, b)
  BY SameTables
<1>4. /\ PrefixesTried(ls)' = PrefixesTried(ls)
      /\ (ById(InPrefixes) \cup SuffixesTried(ls))' = ById(InPrefixes) \cup SuffixesTried(ls)
      /\ (ByEnds \cup MiddlesTried(vs))' = ByEnds \cup MiddlesTried(vs)
  BY SameSettled
<1>5. r \in {None} \cup Ids
  <2>1. PICK L \in SUBSET Ids : BestOf(L, m, r)
    BY <1>1, SettledAreIds
  <2> QED
    BY <2>1, BestIsId DEF MatcherInv
<1>6. Tables' /\ BatchInv' /\ CacheInv' /\ AnswersInv'
  BY <1>5, LookupStep
<1>7. pc' = "prefix" => BestOf(PrefixesTried(lens), msg, best)'
  BY <1>1, <1>2, <1>3, <1>4, Zenon
<1>8. pc' = "suffix" => BestOf(ById(InPrefixes) \cup SuffixesTried(lens), msg, best)'
  BY <1>1, <1>2, <1>3, <1>4, Zenon
<1>9. pc' = "middle" => BestOf(ByEnds \cup MiddlesTried(visits), msg, best)'
  BY <1>1, <1>2, <1>3, <1>4, Zenon
<1>10. k' \in 1 .. Len(batch') /\ lens' \in Seq(Nat) /\ Ascends(lens')
  OBVIOUS
<1>11. \A id \in ById(Exact)' : templates'[id] # msg'
  BY <1>1, <1>2, <1>3
<1>12. LookupInv'
  BY <1>7, <1>8, <1>9, <1>10, <1>11, Zenon DEF LookupInv
<1> QED
  BY <1>6, <1>12 DEF MatcherInv

\* The actions of a lookup.
LEMMA LookupSteps ==
    ASSUME MatcherInv
    PROVE  /\ StartLookup => MatcherInv'
           /\ TryPrefix => MatcherInv'
           /\ EndPrefixes => MatcherInv'
           /\ TrySuffix => MatcherInv'
           /\ EndSuffixes => MatcherInv'
           /\ \A l \in middleLiterals : Visit(l) => MatcherInv'
           /\ EndLookup => MatcherInv'
<1> USE DEF LensLeft
<1>1. ASSUME StartLookup
      PROVE  MatcherInv'
  <2>1. /\ UNCHANGED <<templates, batch, ids, k, cache>> /\ pc' = "prefix"
        /\ \A id \in ById(Exact) : templates[id] # msg
    BY <1>1 DEF StartLookup
  <2>2. k \in 1 .. Len(batch)
    BY <1>1 DEF StartLookup, MatcherInv, BatchInv
  <2>3. PICK ls, r, vs : ls = lens' /\ r = best' /\ vs = visits'
    OBVIOUS
  <2>4. ls = prefixLens /\ r = None
    BY <1>1, <2>3 DEF StartLookup
  <2>5. ls \in Seq(Nat) /\ Ascends(ls) /\ PrefixesTried(ls) = {}
    BY <2>4, LengthsStart DEF MatcherInv
  <2>6. BestOf(PrefixesTried(ls), msg, r)
    BY <2>4, <2>5 DEF BestOf, Fitting
  <2> QED
    BY <2>1, <2>2, <2>3, <2>5, <2>6, LookupKept
<1>2. ASSUME TryPrefix
      PROVE  MatcherInv'
  <2>1. UNCHANGED <<templates, batch, ids, k, cache>> /\ pc' = "prefix" /\ pc = "prefix"
    BY <1>2 DEF TryPrefix
  <2>2. /\ k \in 1 .. Len(batch) /\ msg \in Seq(Bytes)
        /\ \A id \in ById(Exact) : templates[id] # msg
        /\ lens \in Seq(Nat) /\ Ascends(lens)
        /\ BestOf(PrefixesTried(lens), msg, best)
    BY <2>1, LookupFacts
  <2>3. PICK ls, r, vs, l, b : ls = lens' /\ r = best' /\ vs = visits' /\ l = lens /\ b = best
    OBVIOUS
  <2>4. /\ l # <<>> /\ Head(l) <= Len(msg) /\ ls = Tail(l)
        /\ r = Evaluate(prefixIndex(SubSeq(msg, 1, Head(l))), b)
    BY <1>2, <2>3 DEF TryPrefix
  <2>5. BestOf(PrefixesTried(ls), msg, r)
    BY <2>2, <2>3, <2>4, PrefixTried DEF MatcherInv
  <2>6. ls \in Seq(Nat) /\ Ascends(ls)
    BY <2>2, <2>3, <2>4, HeadIsLeast
  <2> QED
    BY <2>1, <2>2, <2>3, <2>5, <2>6, LookupKept
<1>3. ASSUME EndPrefixes
      PROVE  MatcherInv'
  <2>1. UNCHANGED <<templates, batch, ids, k, cache>> /\ pc' = "suffix" /\ pc = "prefix"
    BY <1>3 DEF EndPrefixes
  <2>2. /\ k \in 1 .. Len(batch) /\ msg \in Seq(Bytes)
        /\ \A id \in ById(Exact) : templates[id] # msg
        /\ lens \in Seq(Nat) /\ Ascends(lens)
        /\ BestOf(PrefixesTried(lens), msg, best)
    BY <2>1, LookupFacts
  <2>3. PICK ls, r, vs, l : ls = lens' /\ r = best' /\ vs = visits' /\ l = lens
    OBVIOUS
  <2>4. (l # <<>> => ~(Head(l) <= Len(msg))) /\ ls = suffixLens /\ r = best
    BY <1>3, <2>3 DEF EndPrefixes
  <2>5. BestOf(ById(InPrefixes) \cup SuffixesTried(ls), msg, r)
    BY <2>2, <2>3, <2>4, PrefixesDone DEF MatcherInv
  <2>6. ls \in Seq(Nat) /\ Ascends(ls)
    BY <2>4, LengthsStart DEF MatcherInv
  <2> QED
    BY <2>1, <2>2, <2>3, <2>5, <2>6, LookupKept
<1>4. ASSUME TrySuffix
      PROVE  MatcherInv'
  <2>1. UNCHANGED <<templates, batch, ids, k, cache>> /\ pc' = "suffix" /\ pc = "suffix"
    BY <1>4 DEF TrySuffix
  <2>2. /\ k \in 1 .. Len(batch) /\ msg \in Seq(Bytes)
        /\ \A id \in ById(Exact) : templates[id] # msg
        /\ lens \in Seq(Nat) /\ Ascends(lens)
        /\ BestOf(ById(InPrefixes) \cup SuffixesTried(lens), msg, best)
    BY <2>1, LookupFacts
  <2>3. PICK ls, r, vs, l, b : ls = lens' /\ r = best' /\ vs = visits' /\ l = lens /\ b = best
    OBVIOUS
  <2>4. /\ l # <<>> /\ Head(l) <= Len(msg) /\ ls = Tail(l)
        /\ r = Evaluate(suffixIndex(SubSeq(msg, Len(msg) - Head(l) + 1, Len(msg))), b)
    BY <1>4, <2>3 DEF TrySuffix
  <2>5. BestOf(ById(InPrefixes) \cup SuffixesTried(ls), msg, r)
    BY <2>2, <2>3, <2>4, SuffixTried DEF MatcherInv
  <2>6. ls \in Seq(Nat) /\ Ascends(ls)
    BY <2>2, <2>3, <2>4, HeadIsLeast
  <2> QED
    BY <2>1, <2>2, <2>3, <2>5, <2>6, LookupKept
<1>5. ASSUME EndSuffixes
      PROVE  MatcherInv'
  <2>1. UNCHANGED <<templates, batch, ids, k, cache>> /\ pc' = "middle" /\ pc = "suffix"
    BY <1>5 DEF EndSuffixes
  <2>2. /\ k \in 1 .. Len(batch) /\ msg \in Seq(Bytes)
        /\ \A id \in ById(Exact) : templates[id] # msg
        /\ lens \in Seq(Nat) /\ Ascends(lens)
        /\ BestOf(ById(InPrefixes) \cup SuffixesTried(lens), msg, best)
    BY <2>1, LookupFacts
  <2>3. PICK ls, r, vs, l : ls = lens' /\ r = best' /\ vs = visits' /\ l = lens
    OBVIOUS
  <2>4. /\ l # <<>> => ~(Head(l) <= Len(msg))
        /\ ls = <<>> /\ r = best
        /\ vs = {x \in middleLiterals : Skips(msg, 0, x) # {}}
    BY <1>5, <2>3 DEF EndSuffixes
  <2>5. BestOf(ByEnds \cup MiddlesTried(vs), msg, r)
    BY <2>2, <2>3, <2>4, SuffixesDone DEF MatcherInv, ByEnds
  <2>6. ls \in Seq(Nat) /\ Ascends(ls)
    BY <2>4 DEF Ascends
  <2> QED
    BY <2>1, <2>2, <2>3, <2>5, <2>6, LookupKept
<1>6. ASSUME NEW l \in middleLiterals, Visit(l)
      PROVE  MatcherInv'
  <2>1. UNCHANGED <<templates, batch, ids, k, cache>> /\ pc' = "middle" /\ pc = "middle"
    BY <1>6 DEF Visit
  <2>2. /\ k \in 1 .. Len(batch) /\ msg \in Seq(Bytes)
        /\ \A id \in ById(Exact) : templates[id] # msg
        /\ lens \in Seq(Nat) /\ Ascends(lens)
        /\ BestOf(ByEnds \cup MiddlesTried(visits), msg, best)
    BY <2>1, LookupFacts
  <2>3. PICK ls, r, vs, us, b : ls = lens' /\ r = best' /\ vs = visits' /\ us = visits /\ b = best
    OBVIOUS
  <2>4. /\ l \in us /\ ls = lens /\ r = Evaluate(middleIndex(l), b)
        /\ vs = IF Unbeatable(best') THEN {} ELSE us \ {l}
    BY <1>6, <2>3 DEF Visit
  <2>5. Unbeatable(best') => Unbeatable(r)
    BY <2>3
  <2>6. /\ BestOf(ByEnds \cup MiddlesTried(us \ {l}), msg, r)
        /\ Unbeatable(r) => BestOf(ByEnds \cup MiddlesTried({}), msg, r)
    BY <2>2, <2>3, <2>4, MiddleTried DEF MatcherInv
  <2>7. BestOf(ByEnds \cup MiddlesTried(vs), msg, r)
    BY <2>4, <2>5, <2>6, Zenon
  <2> QED
    BY <2>1, <2>2, <2>3, <2>4, <2>7, LookupKept
<1>7. ASSUME EndLookup
      PROVE  MatcherInv'
  <2>1. /\ pc = "middle" /\ visits = {} /\ Answer(best)
        /\ UNCHANGED <<templates, batch, best>>
    BY <1>7 DEF EndLookup
  <2>2. /\ k \in 1 .. Len(batch)
        /\ \A id \in ById(Exact) : templates[id] # msg
        /\ BestOf(ByEnds \cup MiddlesTried({}), msg, best)
    BY <2>1, LookupFacts
  <2>3. PICK m, b : m = msg /\ b = best
    OBVIOUS
  <2>4. BestOf(ById(Indexed), m, b)
    BY <2>2, <2>3, LookupDone DEF MatcherInv
  <2> QED
    BY <2>1, <2>2, <2>3, <2>4, AnswerStep
<1> QED
  BY <1>1, <1>2, <1>3, <1>4, <1>5, <1>6, <1>7

(* The invariant holds whatever templates a matcher is built from and         *)
(* whatever batches it is given, in whatever order the automaton reports.     *)
THEOREM MatcherInvariant == Spec => []MatcherInv
<1>1. Init => MatcherInv
  BY InitInv
<1>2. MatcherInv /\ [Next]_vars => MatcherInv'
  <2> SUFFICES ASSUME MatcherInv, [Next]_vars
               PROVE  MatcherInv'
    OBVIOUS
  <2>1. CASE Next
    BY <2>1, BatchSteps, LookupSteps DEF Next
  <2>2. CASE UNCHANGED vars
    <3>1. /\ UNCHANGED <<templates, batch, ids, k, cache>>
          /\ pc' = pc /\ lens' = lens /\ visits' = visits /\ best' = best
      BY <2>2 DEF vars
    <3>2. best' \in {None} \cup Ids /\ pc' \in {"idle", "message", "prefix", "suffix", "middle"}
      BY <3>1 DEF MatcherInv, BatchInv
    <3>3. Tables' /\ BatchInv' /\ CacheInv' /\ AnswersInv'
      BY <3>1, <3>2, LookupStep
    <3>4. CASE pc \in {"prefix", "suffix", "middle"}
      <4>1. PICK ls, vs, r : ls = lens' /\ vs = visits' /\ r = best'
        OBVIOUS
      <4> QED
        BY <3>1, <3>4, <4>1, LookupFacts, LookupKept
    <3>5. CASE pc \notin {"prefix", "suffix", "middle"}
      BY <3>1, <3>3, <3>5 DEF MatcherInv, LookupInv
    <3> QED
      BY <3>4, <3>5
  <2> QED
    BY <2>1, <2>2
<1> QED
  BY <1>1, <1>2, PTL DEF Spec

(* Type correctness: the answers are ids of the table or none, the cache      *)
(* holds messages of the batch only.                                          *)
THEOREM MatcherTypeCorrect == Spec => []TypeOK
<1>1. MatcherInv => TypeOK
  <2> SUFFICES ASSUME MatcherInv
               PROVE  TypeOK
    OBVIOUS
  <2>1. \A id \in DOMAIN templates : ToSet(templates[id]) \subseteq Bytes \cup {"*"}
    <3>1. \A id \in DOMAIN templates : templates[id] \in Seq(Bytes \cup {"*"})
      BY DEF MatcherInv, Tables
    <3> QED
      BY <3>1, SeqRange
  <2>2. \A j \in DOMAIN batch : ToSet(batch[j]) \subseteq Bytes
    <3>1. \A j \in DOMAIN batch : batch[j] \in Seq(Bytes)
      BY DEF MatcherInv, BatchInv
    <3> QED
      BY <3>1, SeqRange
  <2>3. DOMAIN cache \subseteq ToSet(batch)
    BY Zenon DEF MatcherInv, CacheInv
  <2> QED
    BY <2>1, <2>2, <2>3 DEF MatcherInv, BatchInv, Ids, TypeOK
<1> QED
  BY <1>1, MatcherInvariant, PTL

(* Every message of every batch gets the best-ranked of the indexed templates *)
(* that match it, and none only when none does: no index, early exit, visit   *)
(* order or cached answer loses a better one.                                 *)
THEOREM BestIndexedFound == Spec => []BestOfIndexed
<1>1. MatcherInv => BestOfIndexed
  <2> SUFFICES ASSUME MatcherInv, NEW j \in Answered,
                      NEW fit, fit = {id \in ById(Indexed) : Matches(templates[id], batch[j])}
               PROVE  IF fit = {} THEN ids[j] = None
                      ELSE /\ ids[j] \in fit
                           /\ \A id \in fit :
                                 /\ Rank(ids[j]) <= Rank(id)
                                 /\ literalBytes(templates[id])
                                        <= literalBytes(templates[ids[j]])
    BY DEF BestOfIndexed
  <2>1. j \in 1 .. k - 1
    BY DEF Answered, MatcherInv, BatchInv
  <2>2. fit = Fitting(ById(Indexed), batch[j])
    BY DEF Fitting
  <2>3. BestOf(ById(Indexed), batch[j], ids[j])
    BY <2>1 DEF MatcherInv, AnswersInv
  <2>4. CASE fit = {}
    BY <2>2, <2>3, <2>4 DEF BestOf
  <2>5. CASE fit # {}
    <3>1. ids[j] \in fit /\ \A id \in fit : Rank(ids[j]) <= Rank(id)
      BY <2>2, <2>3, <2>5, Zenon DEF BestOf
    <3>2. \A id \in fit : id \in Ids
      BY Zenon DEF ById, Ids
    <3>3. ASSUME NEW id \in fit
          PROVE  literalBytes(templates[id]) <= literalBytes(templates[ids[j]])
      <4>1. PICK a, s, t : a = ids[j] /\ s = templates[a] /\ t = templates[id]
        OBVIOUS
      <4>2. a \in Ids /\ id \in Ids /\ Rank(a) <= Rank(id)
        BY <3>1, <3>2, <4>1
      <4>3. ~Outranks(id, a)
        BY <4>2, RankOrder DEF MatcherInv
      <4>4. s \in Seq(Bytes \cup {"*"}) /\ t \in Seq(Bytes \cup {"*"})
        BY <4>1, <4>2, TablesFacts DEF MatcherInv
      <4>5. literalBytes(s) \in Nat /\ literalBytes(t) \in Nat
        BY <4>4, CountFacts
      <4>6. ~(literalBytes(t) > literalBytes(s))
        BY <4>1, <4>3, Zenon DEF Outranks, Better
      <4> QED
        BY <4>1, <4>5, <4>6
    <3> QED
      BY <2>5, <3>1, <3>3
  <2> QED
    BY <2>4, <2>5
<1> QED
  BY <1>1, MatcherInvariant, PTL

-----------------------------------------------------------------------------
\* The j-th placeholder has j placeholders up to it.
LEMMA StarsUpTo ==
    ASSUME NEW S, NEW t \in Seq(S), NEW n, n = placeholderCount(t), NEW c, c = Cut(t),
           NEW j \in 1 .. n
    PROVE  Cardinality({h \in 1 .. c[j + 1] : t[h] = "*"}) = j
<1> DEFINE X == {h \in 1 .. c[j + 1] : t[h] = "*"}
           f == [i \in 1 .. j |-> c[i + 1]]
<1>1. /\ n \in Nat /\ c \in Seq(Nat) /\ Len(c) = n + 2
      /\ \A i \in 2 .. n + 1 : c[i] \in 1 .. Len(t)
  BY CutFacts DEF IsCut
<1>2. Stars(t) = {c[i] : i \in 2 .. n + 1}
  <2>1. IsCut(t, n, c)
    BY CutFacts
  <2> QED
    BY <2>1, Zenon DEF IsCut
<1>3. \A i, h \in 1 .. n + 2 : i < h => c[i] < c[h]
  BY CutsAscend
<1>4. j \in Nat /\ \A i \in 1 .. j : i + 1 \in 2 .. n + 1 /\ i + 1 \in 1 .. n + 2
  BY <1>1
<1>5. ASSUME NEW i \in 1 .. j
      PROVE  f[i] \in X
  <2>1. c[i + 1] \in 1 .. Len(t) /\ t[c[i + 1]] = "*"
    <3>1. c[i + 1] \in Stars(t)
      BY <1>2, <1>4
    <3> QED
      BY <3>1, <1>1, <1>4, Zenon DEF Stars
  <2>2. c[i + 1] <= c[j + 1]
    <3>1. j + 1 \in 1 .. n + 2 /\ i + 1 \in 1 .. n + 2 /\ (i = j \/ i + 1 < j + 1)
      BY <1>1, <1>4
    <3>2. c[i + 1] \in Nat /\ c[j + 1] \in Nat
      BY <1>1, <3>1
    <3> QED
      BY <1>3, <3>1, <3>2
  <2>3. c[j + 1] \in Nat
    BY <1>1
  <2> QED
    BY <2>1, <2>2, <2>3
<1>6. ASSUME NEW h \in X
      PROVE  \E i \in 1 .. j : f[i] = h
  <2>1. h \in 1 .. c[j + 1] /\ t[h] = "*" /\ c[j + 1] \in 1 .. Len(t)
    BY <1>1, <1>4
  <2>2. h \in Stars(t)
    BY <2>1 DEF Stars
  <2>3. PICK i \in 2 .. n + 1 : h = c[i]
    BY <1>2, <2>2
  <2>4. ~(j + 1 < i)
    <3>1. j + 1 \in 1 .. n + 2 /\ i \in 1 .. n + 2
      <4>1. n \in Nat
        BY <1>1
      <4> QED
        BY <4>1
    <3>2. j + 1 < i => c[j + 1] < c[i]
      BY <1>3, <3>1, Zenon
    <3> QED
      BY <2>1, <2>3, <3>2
  <2>5. i - 1 \in 1 .. j /\ (i - 1) + 1 = i
    BY <1>1, <2>4
  <2> QED
    BY <2>3, <2>5
<1>7. ASSUME NEW a \in 1 .. j, NEW b \in 1 .. j, f[a] = f[b]
      PROVE  a = b
  <2>1. PICK u, v : u = c[a + 1] /\ v = c[b + 1]
    OBVIOUS
  <2>2. u = v /\ u \in Nat
    BY <1>1, <1>4, <1>7, <2>1
  <2>3. /\ a + 1 \in 1 .. n + 2 /\ b + 1 \in 1 .. n + 2
        /\ a < b => a + 1 < b + 1
        /\ b < a => b + 1 < a + 1
    BY <1>4
  <2>4. (a < b => u < v) /\ (b < a => v < u)
    BY <1>3, <2>1, <2>3
  <2> QED
    BY <2>2, <2>4
<1> HIDE DEF X
<1>8. f \in [1 .. j -> X]
  BY <1>5
<1> HIDE DEF f
<1>9. f \in Surjection(1 .. j, X) /\ f \in Injection(1 .. j, X)
  BY <1>6, <1>7, <1>8, Zenon DEF Surjection, Injection, IsInjective
<1>10. IsFiniteSet(1 .. j) /\ Cardinality(1 .. j) = j
  BY <1>4, CountFromOne
<1>11. Cardinality(X) = j
  BY <1>9, <1>10, FS_Surjection
<1> QED
  BY <1>11 DEF X

\* Where the parts of a template start in a message it matches: each part is
\* there, with room for an argument before the next.
AreStarts(st, ps, cs, m, n) ==
    /\ st[1] = 0 /\ st[n + 1] + Len(ps[n + 1]) = Len(m)
    /\ \A j \in 1 .. n + 1 : /\ st[j] \in Nat /\ st[j] + Len(ps[j]) <= Len(m)
                             /\ \A d \in 1 .. Len(ps[j]) : m[st[j] + d] = ps[j][d]
    /\ \A j \in 1 .. n : cs[j] = st[j] + Len(ps[j]) /\ cs[j] < st[j + 1]

LEMMA StartsFacts ==
    ASSUME NEW S, NEW t \in Seq(S), NEW T, NEW m \in Seq(T), ~Exact(t), Matches(t, m),
           NEW n, n = placeholderCount(t), NEW cs, cs = Cursors(t, m), NEW ps, ps = parts(t),
           NEW st, st = [j \in 1 .. n + 1 |->
                            IF j = n + 1 THEN Len(m) - Len(ps[n + 1]) ELSE cs[j] - Len(ps[j])]
    PROVE  AreStarts(st, ps, cs, m, n)
<1>1. /\ n \in Nat /\ n >= 1
      /\ \A j \in 1 .. n : Placed(t, m, cs, j)
      /\ IsSuffix(ps[n + 1], m)
      /\ cs[n] < Len(m) - Len(ps[n + 1])
  BY MatchMeans
<1>2. Len(ps) = n + 1 /\ \A j \in 1 .. n + 1 : ps[j] \in Seq(S)
  <2>1. AreParts(ps, S, t, n, Cut(t))
    BY PartsFacts
  <2> QED
    BY <2>1 DEF AreParts
<1>3. \A j \in 1 .. n + 1 : Len(ps[j]) \in Nat
  BY <1>2
<1>4. Len(m) \in Nat
  OBVIOUS
<1>5. ASSUME NEW j \in 1 .. n
      PROVE  /\ st[j] = cs[j] - Len(ps[j]) /\ cs[j] \in 0 .. Len(m)
             /\ st[j] \in Nat /\ cs[j] = st[j] + Len(ps[j])
             /\ st[j] + Len(ps[j]) <= Len(m)
             /\ \A d \in 1 .. Len(ps[j]) : m[st[j] + d] = ps[j][d]
             /\ j = 1 => st[j] = 0
             /\ j > 1 => cs[j - 1] < st[j]
  <2>1. PICK p, l, e, s : p = ps[j] /\ l = Len(p) /\ e = cs[j] /\ s = st[j]
    OBVIOUS
  <2>2. p \in Seq(S) /\ l \in Nat /\ Placed(t, m, cs, j) /\ j \in 1 .. n + 1 /\ j # n + 1
    BY <1>1, <1>2, <2>1
  <2>3. e \in 0 .. Len(m) /\ s = e - l
    BY <2>1, <2>2 DEF Placed
  <2>4. CASE j = 1
    <3>1. IsPrefix(p, m) /\ e = l
      BY <2>1, <2>2, <2>4 DEF Placed
    <3>2. \A d \in 1 .. l : p[d] = m[d]
      BY <2>1, <2>2, <3>1, PrefixMeans
    <3>3. s = 0 /\ \A d \in 1 .. l : s + d = d
      BY <2>2, <2>3, <3>1
    <3>4. \A d \in 1 .. l : m[s + d] = p[d]
      BY <3>2, <3>3
    <3> QED
      BY <2>1, <2>2, <2>3, <2>4, <3>1, <3>3, <3>4
  <2>5. CASE j # 1
    <3>1. cs[j - 1] < e - l /\ SubSeq(m, (e - l) + 1, e) = p /\ j > 1 /\ j - 1 \in 1 .. n
      <4>1. j > 1 /\ j - 1 \in 1 .. n
        BY <1>1, <2>5
      <4>2. /\ cs[j - 1] < cs[j] - Len(parts(t)[j])
            /\ SubSeq(m, (cs[j] - Len(parts(t)[j])) + 1, cs[j]) = parts(t)[j]
        BY <2>2, <4>1, Zenon DEF Placed
      <4>3. cs[j] - Len(parts(t)[j]) = e - l /\ parts(t)[j] = p
        BY <1>1, <2>1
      <4> QED
        BY <2>1, <4>1, <4>2, <4>3
    <3>2. cs[j - 1] \in Nat
      BY <1>1, <3>1 DEF Placed
    <3>3. s \in Nat /\ e = s + l /\ e <= Len(m)
      BY <1>4, <2>2, <2>3, <3>1, <3>2
    <3>4. SubSeq(m, s + 1, e) = p
      BY <2>3, <3>1
    <3>5. ASSUME NEW d \in 1 .. l
          PROVE  m[s + d] = p[d]
      <4>1. SubSeq(m, s + 1, e)[d] = m[(s + 1) + d - 1]
        BY <2>2, <3>3
      <4>2. (s + 1) + d - 1 = s + d
        BY <3>3
      <4> QED
        BY <3>4, <4>1, <4>2
    <3> QED
      BY <2>1, <2>2, <2>3, <2>5, <3>1, <3>3, <3>5
  <2> QED
    BY <2>4, <2>5
<1>6. /\ st[n + 1] \in Nat /\ st[n + 1] + Len(ps[n + 1]) = Len(m) /\ cs[n] < st[n + 1]
      /\ \A d \in 1 .. Len(ps[n + 1]) : m[st[n + 1] + d] = ps[n + 1][d]
  <2>1. PICK p, l, s : p = ps[n + 1] /\ l = Len(p) /\ s = st[n + 1]
    OBVIOUS
  <2>2. p \in Seq(S) /\ l \in Nat /\ s = Len(m) - l
    BY <1>1, <1>2, <2>1
  <2>3. l <= Len(m) /\ \A d \in 1 .. l : p[d] = m[Len(m) - l + d]
    <3>1. IsSuffix(p, m)
      BY <1>1, <2>1
    <3>2. Len(p) <= Len(m) /\ \A d \in 1 .. Len(p) : p[d] = m[Len(m) - Len(p) + d]
      BY <2>2, <3>1, SuffixMeans
    <3> QED
      BY <2>1, <3>2
  <2>4. \A d \in 1 .. l : m[s + d] = p[d]
    <3>1. \A d \in 1 .. l : Len(m) - l + d = s + d
      BY <1>4, <2>2
    <3> QED
      BY <2>3, <3>1
  <2>5. s \in Nat /\ s + l = Len(m) /\ cs[n] < s
    <3>1. cs[n] < s
      BY <1>1, <2>1, <2>2
    <3> QED
      BY <1>4, <2>2, <2>3, <3>1
  <2> QED
    BY <2>1, <2>4, <2>5, Zenon
<1>7. ASSUME NEW j \in 1 .. n
      PROVE  cs[j] < st[j + 1]
  <2>1. j = n \/ (j + 1 \in 1 .. n /\ (j + 1) - 1 = j /\ j + 1 > 1)
    BY <1>1
  <2> QED
    BY <1>5, <1>6, <2>1
<1>8. \A j \in 1 .. n + 1 : /\ st[j] \in Nat /\ st[j] + Len(ps[j]) <= Len(m)
                            /\ \A d \in 1 .. Len(ps[j]) : m[st[j] + d] = ps[j][d]
  <2> SUFFICES ASSUME NEW j \in 1 .. n + 1
               PROVE  /\ st[j] \in Nat /\ st[j] + Len(ps[j]) <= Len(m)
                      /\ \A d \in 1 .. Len(ps[j]) : m[st[j] + d] = ps[j][d]
    OBVIOUS
  <2>1. CASE j = n + 1
    BY <1>4, <1>6, <2>1
  <2>2. CASE j # n + 1
    <3>1. j \in 1 .. n
      BY <1>1, <2>2
    <3> QED
      BY <1>5, <3>1, Zenon
  <2> QED
    BY <2>1, <2>2
<1>9. st[1] = 0
  <2>1. 1 \in 1 .. n
    BY <1>1
  <2> QED
    BY <1>5, <2>1
<1> QED
  BY <1>5, <1>6, <1>7, <1>8, <1>9, Zenon DEF AreStarts

\* Two adjacent pieces are one.
LEMMA PiecesJoin ==
    ASSUME NEW T, NEW m \in Seq(T), NEW a \in Nat, NEW b \in Nat, a <= b, b <= Len(m)
    PROVE  SubSeq(m, 1, a) \o SubSeq(m, a + 1, b) = SubSeq(m, 1, b)
<1>1. PICK u, v, w : u = SubSeq(m, 1, a) /\ v = SubSeq(m, a + 1, b) /\ w = SubSeq(m, 1, b)
  OBVIOUS
<1>2. /\ u \in Seq(T) /\ Len(u) = a /\ \A i \in 1 .. a : u[i] = m[i]
      /\ v \in Seq(T) /\ Len(v) = b - a /\ \A i \in 1 .. b - a : v[i] = m[a + i]
      /\ w \in Seq(T) /\ Len(w) = b /\ \A i \in 1 .. b : w[i] = m[i]
  BY <1>1
<1>3. PICK x : x = u \o v
  OBVIOUS
<1>4. x \in Seq(T) /\ Len(x) = b
  BY <1>2, <1>3
<1>5. ASSUME NEW i \in 1 .. b
      PROVE  x[i] = w[i]
  <2>1. CASE i <= a
    <3>1. i \in 1 .. a
      BY <2>1
    <3>2. x[i] = u[i]
      BY <1>2, <1>3, <3>1
    <3> QED
      BY <1>2, <3>1, <3>2
  <2>2. CASE i > a
    <3>1. i - a \in 1 .. b - a /\ a + (i - a) = i
      BY <2>2
    <3>2. x[i] = v[i - a]
      BY <1>2, <1>3, <2>2, <3>1
    <3> QED
      BY <1>2, <3>1, <3>2
  <2> QED
    BY <2>1, <2>2
<1>6. x = w
  <2>1. x = [i \in 1 .. b |-> x[i]] /\ w = [i \in 1 .. b |-> w[i]]
    BY <1>2, <1>4
  <2> QED
    BY <1>5, <2>1, Zenon
<1> QED
  BY <1>1, <1>3, <1>6

LEMMA AppendIsConcat ==
    ASSUME NEW T, NEW u \in Seq(T), NEW x \in T
    PROVE  u \o <<x>> = Append(u, x)
  OBVIOUS

\* The arguments of a match, put back into the template, are the message, and
\* each has a byte.
LEMMA ArgsFill ==
    ASSUME NEW S, NEW t \in Seq(S), NEW T, NEW m \in Seq(T), ~Exact(t), Matches(t, m),
           NEW args, args = Args(t, m)
    PROVE  Fill(t, args) = m /\ \A h \in DOMAIN args : args[h] # <<>>
<1>1. PICK n, c, cs, ps, len, size :
         /\ n = placeholderCount(t) /\ c = Cut(t) /\ cs = Cursors(t, m) /\ ps = parts(t)
         /\ len = Len(t) /\ size = Len(m)
  OBVIOUS
<1>2. PICK st : st = [j \in 1 .. n + 1 |->
                        IF j = n + 1 THEN Len(m) - Len(ps[n + 1]) ELSE cs[j] - Len(ps[j])]
  OBVIOUS
<1>3. /\ st[1] = 0 /\ st[n + 1] + Len(ps[n + 1]) = size
      /\ \A j \in 1 .. n + 1 : /\ st[j] \in Nat /\ st[j] + Len(ps[j]) <= size
                               /\ \A d \in 1 .. Len(ps[j]) : m[st[j] + d] = ps[j][d]
      /\ \A j \in 1 .. n : cs[j] = st[j] + Len(ps[j]) /\ cs[j] < st[j + 1]
  <2>1. AreStarts(st, ps, cs, m, n)
    BY <1>1, <1>2, StartsFacts
  <2> QED
    BY <1>1, <2>1, Zenon DEF AreStarts
<1>4. /\ \A j \in 1 .. n + 1 : Len(ps[j]) = (c[j + 1] - 1) - c[j]
      /\ \A j \in 1 .. n + 1 : \A d \in 1 .. Len(ps[j]) : ps[j][d] = t[c[j] + d] /\ t[c[j] + d] # "*"
      /\ \A j \in 1 .. n + 1 : Len(ps[j]) \in Nat
  <2>1. AreParts(ps, S, t, n, c)
    BY <1>1, PartsFacts
  <2>2. \A j \in 1 .. n + 1 : ps[j] \in Seq(S)
    BY <2>1, Zenon DEF AreParts
  <2> QED
    BY <2>1, <2>2 DEF AreParts
<1>5. /\ n \in Nat /\ c \in Seq(Nat) /\ Len(c) = n + 2 /\ c[1] = 0 /\ c[n + 2] = len + 1
      /\ \A j \in 2 .. n + 1 : c[j] \in 1 .. len
      /\ \A j \in 1 .. n + 1 : c[j] < c[j + 1]
  <2>1. IsCut(t, n, c)
    BY <1>1, CutFacts
  <2> QED
    BY <1>1, <2>1, Zenon DEF IsCut
<1>6. Stars(t) = {c[j] : j \in 2 .. n + 1}
  <2>1. IsCut(t, n, c)
    BY <1>1, CutFacts
  <2> QED
    BY <2>1, Zenon DEF IsCut
<1>7. len \in Nat /\ size \in Nat /\ DOMAIN t = 1 .. len /\ \A i \in 1 .. len : t[i] \in S
  BY <1>1
<1>8. n >= 1 /\ lastLiteral(t) = ps[n + 1]
  BY <1>1, MatchMeans
<1>9. DOMAIN args = 1 .. n /\ \A j \in 1 .. n : args[j] = SubSeq(m, cs[j] + 1, st[j + 1])
  <2>1. args = [j \in 1 .. n |-> SubSeq(m, cs[j] + 1,
                    IF j = n THEN ArgEnd(t, m) ELSE cs[j + 1] - Len(ps[j + 1]))]
    BY <1>1 DEF Args
  <2>2. \A j \in 1 .. n : st[j + 1] = IF j = n THEN ArgEnd(t, m) ELSE cs[j + 1] - Len(ps[j + 1])
    BY <1>2, <1>5, <1>8 DEF ArgEnd
  <2> QED
    BY <2>1, <2>2
<1>10. ASSUME NEW j \in 1 .. n
       PROVE  /\ args[j] \in Seq(T) /\ args[j] # <<>>
              /\ cs[j] \in Nat /\ st[j + 1] \in Nat /\ cs[j] < st[j + 1] /\ st[j + 1] <= size
  <2>1. PICK a, b : a = cs[j] /\ b = st[j + 1]
    OBVIOUS
  <2>2. j + 1 \in 1 .. n + 1 /\ j \in 1 .. n + 1
    BY <1>5
  <2>3. a \in Nat /\ b \in Nat /\ a < b /\ b <= size
    <3>1. a = st[j] + Len(ps[j]) /\ st[j] \in Nat /\ Len(ps[j]) \in Nat
      BY <1>3, <1>4, <2>1, <2>2
    <3>2. b + Len(ps[j + 1]) <= size /\ b \in Nat /\ Len(ps[j + 1]) \in Nat /\ a < b
      BY <1>3, <1>4, <2>1, <2>2
    <3> QED
      BY <1>7, <3>1, <3>2
  <2>4. SubSeq(m, a + 1, b) \in Seq(T) /\ Len(SubSeq(m, a + 1, b)) = b - a
    BY <1>1, <2>3
  <2>5. SubSeq(m, a + 1, b) # <<>>
    <3>1. PICK x : x = SubSeq(m, a + 1, b)
      OBVIOUS
    <3>2. Len(x) > 0
      BY <2>3, <2>4, <3>1
    <3>3. x # <<>>
      BY <3>2
    <3> QED
      BY <3>1, <3>3
  <2> QED
    BY <1>9, <2>1, <2>3, <2>4, <2>5
<1> DEFINE X == S \cup T
           ss == [i \in DOMAIN t |->
                    IF t[i] = "*" THEN args[Cardinality({h \in 1 .. i : t[h] = "*"})] ELSE <<t[i]>>]
<1>11. Fill(t, args) = FlattenSeq(ss)
  BY DEF Fill
<1>12. ASSUME NEW j \in 1 .. n
       PROVE  ss[c[j + 1]] = args[j] /\ c[j + 1] \in 1 .. len
  <2>1. j + 1 \in 2 .. n + 1
    BY <1>5
  <2>2. c[j + 1] \in 1 .. len /\ c[j + 1] \in Stars(t)
    BY <1>5, <1>6, <2>1, Zenon
  <2>3. t[c[j + 1]] = "*"
    BY <2>2 DEF Stars
  <2>4. Cardinality({h \in 1 .. c[j + 1] : t[h] = "*"}) = j
    BY <1>1, StarsUpTo
  <2>5. ss[c[j + 1]] = args[Cardinality({h \in 1 .. c[j + 1] : t[h] = "*"})]
    BY <1>7, <2>2, <2>3, Zenon
  <2> QED
    BY <2>2, <2>4, <2>5, Zenon
<1>13. \A i \in 1 .. len : t[i] # "*" => ss[i] = <<t[i]>>
  BY <1>7, Zenon
<1>14. DOMAIN ss = 1 .. len
  BY <1>7
<1>15. ss \in Seq(Seq(X))
  <2>1. ASSUME NEW i \in 1 .. len
        PROVE  ss[i] \in Seq(X)
    <3>1. CASE t[i] = "*"
      <4>1. PICK h \in 2 .. n + 1 : i = c[h]
        <5>1. i \in Stars(t)
          BY <1>7, <3>1 DEF Stars
        <5> QED
          BY <1>6, <5>1
      <4>2. h - 1 \in 1 .. n /\ (h - 1) + 1 = h
        BY <1>5
      <4>3. ss[i] = args[h - 1]
        BY <1>12, <4>1, <4>2, Zenon
      <4>4. args[h - 1] \in Seq(T)
        BY <1>10, <4>2
      <4>5. PICK a : a = args[h - 1]
        OBVIOUS
      <4>6. a \in Seq(X)
        BY <4>4, <4>5, SeqLarger
      <4> QED
        BY <4>3, <4>5, <4>6
    <3>2. CASE t[i] # "*"
      <4>1. t[i] \in X /\ ss[i] = <<t[i]>>
        BY <1>7, <1>13, <3>2
      <4> HIDE DEF ss, X
      <4> QED
        BY <4>1
    <3> QED
      BY <3>1, <3>2
  <2>2. ss \in [1 .. len -> Seq(X)]
    <3>1. ss = [i \in 1 .. len |-> ss[i]]
      BY <1>7, Zenon
    <3> HIDE DEF ss, X
    <3> QED
      BY <2>1, <3>1
  <2> HIDE DEF ss, X
  <2> QED
    BY <1>7, <2>2, FunctionIsSeq
<1> HIDE DEF ss, X
<1>16. Len(ss) = len
  BY <1>7, <1>14, <1>15
<1>17. PICK f \in [0 .. len -> Seq(X)] :
          /\ f[0] = <<>>
          /\ \A i \in 1 .. len : f[i] = f[i - 1] \o ss[i]
          /\ f[len] = FlattenSeq(ss)
  <2>1. \E f \in [0 .. Len(ss) -> Seq(X)] :
          /\ f[0] = <<>>
          /\ \A i \in 1 .. Len(ss) : f[i] = f[i - 1] \o ss[i]
          /\ f[Len(ss)] = FlattenSeq(ss)
    BY <1>15, FlattenPrefixes
  <2> QED
    BY <1>16, <2>1, Zenon
<1> DEFINE Done(i) == \A j \in 1 .. n + 1 :
                         (c[j] <= i /\ i < c[j + 1]) => f[i] = SubSeq(m, 1, st[j] + (i - c[j]))
           G == {i \in 0 .. len : Done(i)}
<1>18. 0 \in G
  <2>1. ASSUME NEW j \in 1 .. n + 1, c[j] <= 0
        PROVE  f[0] = SubSeq(m, 1, st[j] + (0 - c[j]))
    <3>1. j = 1
      <4>1. j # 1 => j \in 2 .. n + 1
        BY <1>5
      <4> QED
        BY <1>5, <2>1, <4>1
    <3>2. st[j] + (0 - c[j]) = 0
      BY <1>3, <1>5, <3>1
    <3>3. SubSeq(m, 1, 0) = <<>>
      OBVIOUS
    <3> QED
      BY <1>17, <3>2, <3>3
  <2> QED
    BY <1>7, <2>1
<1>19. ASSUME NEW i \in 0 .. len - 1, i \in G
       PROVE  i + 1 \in G
  <2>1. i + 1 \in 0 .. len /\ i + 1 \in 1 .. len /\ (i + 1) - 1 = i
    BY <1>7
  <2>2. f[i + 1] = f[i] \o ss[i + 1]
    BY <1>17, <2>1
  <2>3. Done(i)
    BY <1>19
  <2>4. ASSUME NEW j \in 1 .. n + 1, c[j] <= i + 1, i + 1 < c[j + 1]
        PROVE  f[i + 1] = SubSeq(m, 1, st[j] + ((i + 1) - c[j]))
    <3>1. c[j] \in Nat /\ c[j + 1] \in Nat
      BY <1>5
    <3>2. CASE c[j] = i + 1
      <4>1. j # 1
        BY <1>5, <3>2
      <4>2. PICK h \in 1 .. n : j = h + 1
        <5>1. j - 1 \in 1 .. n /\ j = (j - 1) + 1
          BY <1>5, <4>1
        <5> QED
          BY <5>1
      <4>3. h \in 1 .. n + 1 /\ c[h] \in Nat /\ c[h] < c[h + 1]
        BY <1>5
      <4>4. c[h] <= i /\ i < c[h + 1]
        BY <3>2, <4>2, <4>3
      <4>5. f[i] = SubSeq(m, 1, st[h] + (i - c[h]))
        BY <2>3, <4>3, <4>4, Zenon
      <4>6. st[h] + (i - c[h]) = cs[h]
        <5>1. PICK a, b, l, e : a = st[h] /\ b = c[h] /\ l = Len(ps[h]) /\ e = cs[h]
          OBVIOUS
        <5>2. a \in Nat /\ b \in Nat /\ l \in Nat /\ e = a + l
          BY <1>3, <1>4, <4>3, <5>1
        <5>3. l = (c[h + 1] - 1) - b /\ c[h + 1] = i + 1
          BY <1>4, <3>2, <4>2, <4>3, <5>1
        <5>4. a + (i - b) = e
          BY <5>2, <5>3
        <5> QED
          BY <5>1, <5>4
      <4>7. ss[i + 1] = SubSeq(m, cs[h] + 1, st[j])
        <5>1. ss[c[h + 1]] = args[h] /\ args[h] = SubSeq(m, cs[h] + 1, st[h + 1])
          BY <1>9, <1>12
        <5> QED
          BY <3>2, <4>2, <5>1
      <4>8. cs[h] \in Nat /\ st[j] \in Nat /\ cs[h] <= st[j] /\ st[j] <= Len(m)
        <5>1. cs[h] \in Nat /\ st[h + 1] \in Nat /\ cs[h] < st[h + 1] /\ st[h + 1] <= size
          BY <1>10
        <5> QED
          BY <1>1, <4>2, <5>1
      <4>9. f[i + 1] = SubSeq(m, 1, st[j])
        <5>1. PICK a, b : a = cs[h] /\ b = st[j]
          OBVIOUS
        <5>2. SubSeq(m, 1, a) \o SubSeq(m, a + 1, b) = SubSeq(m, 1, b)
          BY <4>8, <5>1, PiecesJoin
        <5> QED
          BY <2>2, <4>5, <4>6, <4>7, <5>1, <5>2, Zenon
      <4>10. st[j] + ((i + 1) - c[j]) = st[j]
        BY <3>2, <4>8
      <4> QED
        BY <4>9, <4>10
    <3>3. CASE c[j] # i + 1
      <4>1. c[j] <= i /\ i < c[j + 1]
        BY <3>1, <2>4, <3>3
      <4>2. f[i] = SubSeq(m, 1, st[j] + (i - c[j]))
        BY <2>3, <4>1, Zenon
      <4>3. PICK s, d, a, l, b : /\ s = st[j] /\ d = (i + 1) - c[j] /\ a = s + (i - c[j])
                                 /\ l = Len(ps[j]) /\ b = c[j]
        OBVIOUS
      <4>4. s \in Nat /\ l \in Nat /\ s + l <= size /\ b \in Nat /\ l = (c[j + 1] - 1) - b
        BY <1>3, <1>4, <3>1, <4>3
      <4>5. d \in 1 .. l /\ b + d = i + 1 /\ a \in Nat /\ s + d = a + 1 /\ a + 1 <= size
        <5>1. PICK e : e = c[j + 1]
          OBVIOUS
        <5>2. i + 1 < e /\ l = (e - 1) - b /\ e \in Nat /\ b <= i
          BY <2>4, <3>1, <4>1, <4>3, <4>4, <5>1
        <5>3. i \in Nat /\ d = (i + 1) - b /\ a = s + (i - b)
          BY <1>7, <4>3
        <5>4. s \in Nat /\ l \in Nat /\ s + l <= size /\ b \in Nat /\ size \in Nat
          BY <1>7, <4>4
        <5>5. d \in 1 .. l /\ b + d = i + 1
          BY <5>2, <5>3, <5>4
        <5> QED
          BY <5>2, <5>3, <5>4, <5>5
      <4>6. ps[j][d] = t[i + 1] /\ t[i + 1] # "*" /\ m[a + 1] = ps[j][d]
        <5>1. ps[j][d] = t[b + d] /\ t[b + d] # "*"
          BY <1>4, <4>3, <4>5, Zenon
        <5>2. m[s + d] = ps[j][d]
          BY <1>3, <4>3, <4>5, Zenon
        <5>3. b + d = i + 1 /\ s + d = a + 1
          BY <4>5
        <5> QED
          BY <5>1, <5>2, <5>3, Zenon
      <4>7. ss[i + 1] = <<m[a + 1]>>
        BY <1>13, <2>1, <4>6
      <4>8. PICK e : e = a + 1
        OBVIOUS
      <4>9. SubSeq(m, 1, a) \o <<m[e]>> = SubSeq(m, 1, e)
        <5>1. e \in 1 .. Len(m) /\ e - 1 = a /\ m[e] \in T
          BY <1>1, <1>7, <4>5, <4>8
        <5>2. /\ SubSeq(m, 1, e - 1) \in Seq(T)
              /\ SubSeq(m, 1, e) = Append(SubSeq(m, 1, e - 1), m[e])
          BY <5>1, PrefixStep
        <5>3. SubSeq(m, 1, a) \o <<m[e]>> = Append(SubSeq(m, 1, a), m[e])
          BY <5>1, <5>2, AppendIsConcat
        <5> QED
          BY <5>1, <5>2, <5>3
      <4>10. f[i + 1] = SubSeq(m, 1, a + 1)
        BY <2>2, <4>2, <4>3, <4>7, <4>8, <4>9, Zenon
      <4> QED
        BY <4>3, <4>5, <4>10
    <3> QED
      BY <3>2, <3>3
  <2> QED
    BY <2>1, <2>4
<1>20. len \in G
  <2> HIDE DEF G
  <2>1. \A i \in 0 .. len : i \in G
    BY <1>7, <1>18, <1>19, OneByOne
  <2> QED
    BY <1>7, <2>1
<1>21. f[len] = SubSeq(m, 1, size)
  <2>1. n + 1 \in 1 .. n + 1 /\ c[n + 1] \in Nat /\ c[n + 1] < c[n + 2] /\ (n + 1) + 1 = n + 2
    BY <1>5
  <2>2. c[n + 1] <= len /\ len < c[(n + 1) + 1]
    BY <1>5, <1>7, <2>1
  <2>3. Done(len)
    BY <1>20
  <2>4. f[len] = SubSeq(m, 1, st[n + 1] + (len - c[n + 1]))
    BY <2>1, <2>2, <2>3, Zenon
  <2>5. st[n + 1] + (len - c[n + 1]) = size
    <3>1. PICK a, b, l : a = st[n + 1] /\ b = c[n + 1] /\ l = Len(ps[n + 1])
      OBVIOUS
    <3>2. a + l = size /\ l = (c[(n + 1) + 1] - 1) - b /\ a \in Nat /\ b \in Nat
      BY <1>3, <1>4, <2>1, <3>1
    <3>3. l = ((len + 1) - 1) - b
      BY <1>5, <2>1, <3>2
    <3> QED
      BY <1>7, <3>1, <3>2, <3>3
  <2> QED
    BY <2>4, <2>5
<1>22. SubSeq(m, 1, size) = m
  BY <1>1
<1> QED
  BY <1>9, <1>10, <1>11, <1>17, <1>21, <1>22

-----------------------------------------------------------------------------
\* f is the function Fits computes, over the first n elements.
IsEnds(t, m, n, f) ==
    f = [p \in 0 .. n |->
            IF p = 0 THEN {0}
            ELSE IF t[p] = "*" THEN {r \in 1 .. Len(m) : \E q \in f[p - 1] : q < r}
            ELSE {r \in 1 .. Len(m) : r - 1 \in f[p - 1] /\ m[r] = t[p]}]

LEMMA EndsExist ==
    ASSUME NEW t, NEW m, NEW n \in Nat
    PROVE  \E f : IsEnds(t, m, n, f)
<1> DEFINE Value(h, p) == IF p = 0 THEN {0}
                          ELSE IF t[p] = "*" THEN {r \in 1 .. Len(m) : \E q \in h[p - 1] : q < r}
                          ELSE {r \in 1 .. Len(m) : r - 1 \in h[p - 1] /\ m[r] = t[p]}
           G == {i \in Nat : \E f : IsEnds(t, m, i, f)}
<1>1. 0 \in G
  <2> DEFINE e == [p \in 0 .. 0 |-> {0}]
  <2>1. \A p \in 0 .. 0 : p = 0
    OBVIOUS
  <2>2. e = [p \in 0 .. 0 |-> Value(e, p)]
    BY <2>1, Zenon
  <2>3. IsEnds(t, m, 0, e)
    BY <2>2, Zenon DEF IsEnds
  <2> QED
    BY <2>3
<1>2. ASSUME NEW i \in 0 .. n - 1, i \in G
      PROVE  i + 1 \in G
  <2>1. PICK f : IsEnds(t, m, i, f)
    BY <1>2
  <2>2. \A p \in 0 .. i : f[p] = Value(f, p)
    BY <2>1, Zenon DEF IsEnds
  <2> DEFINE g == [p \in 0 .. i + 1 |-> IF p = i + 1 THEN Value(f, i + 1) ELSE f[p]]
  <2>3. ASSUME NEW p \in 0 .. i + 1
        PROVE  g[p] = Value(g, p)
    <3>1. p # 0 => p - 1 \in 0 .. i + 1 /\ p - 1 # i + 1
      OBVIOUS
    <3>2. p # 0 => g[p - 1] = f[p - 1]
      BY <3>1, Zenon
    <3>3. Value(g, p) = Value(f, p)
      BY <3>2, Zenon
    <3>4. CASE p = i + 1
      BY <3>3, <3>4, Zenon
    <3>5. CASE p # i + 1
      <4>1. p \in 0 .. i
        BY <3>5
      <4> QED
        BY <2>2, <3>3, <3>5, <4>1, Zenon
    <3> QED
      BY <3>4, <3>5
  <2>4. g = [p \in 0 .. i + 1 |-> Value(g, p)]
    BY <2>3, Zenon
  <2>5. IsEnds(t, m, i + 1, g)
    BY <2>4, Zenon DEF IsEnds
  <2> QED
    BY <2>5
<1> HIDE DEF G
<1>3. \A i \in 0 .. n : i \in G
  BY <1>1, <1>2, OneByOne
<1>4. n \in G
  BY <1>3
<1> QED
  BY <1>4 DEF G

\* What Fits says: the ends, one element at a time, lead to the message's end.
AreEnds(t, m, f) ==
    /\ f[0] = {0} /\ Len(m) \in f[Len(t)]
    /\ \A p \in 0 .. Len(t) : f[p] \in SUBSET (0 .. Len(m))
    /\ \A p \in 1 .. Len(t) : \A r \in f[p] :
          /\ r \in 1 .. Len(m)
          /\ t[p] = "*" => \E q \in f[p - 1] : q < r
          /\ t[p] # "*" => r - 1 \in f[p - 1] /\ m[r] = t[p]

LEMMA FitsMeans ==
    ASSUME NEW S, NEW t \in Seq(S), NEW T, NEW m \in Seq(T), Fits(t, m)
    PROVE  \E f : AreEnds(t, m, f)
<1>1. PICK n : n = Len(t)
  OBVIOUS
<1>2. n \in Nat /\ Len(m) \in Nat
  BY <1>1
<1> DEFINE f == CHOOSE f : IsEnds(t, m, n, f)
<1>3. IsEnds(t, m, n, f)
  BY <1>2, EndsExist
<1>4. Len(m) \in f[n]
  BY <1>1, Zenon DEF Fits, IsEnds
<1> HIDE DEF f
<1>5. \A p \in 0 .. n : f[p] = IF p = 0 THEN {0}
          ELSE IF t[p] = "*" THEN {r \in 1 .. Len(m) : \E q \in f[p - 1] : q < r}
          ELSE {r \in 1 .. Len(m) : r - 1 \in f[p - 1] /\ m[r] = t[p]}
  BY <1>3, Zenon DEF IsEnds
<1>6. f[0] = {0}
  <2>1. 0 \in 0 .. n
    BY <1>2
  <2> QED
    BY <1>5, <2>1, Zenon
<1>7. ASSUME NEW p \in 1 .. n, NEW r \in f[p]
      PROVE  /\ r \in 1 .. Len(m)
             /\ t[p] = "*" => \E q \in f[p - 1] : q < r
             /\ t[p] # "*" => r - 1 \in f[p - 1] /\ m[r] = t[p]
  <2>1. p \in 0 .. n /\ p # 0
    BY <1>2
  <2>2. CASE t[p] = "*"
    <3>1. r \in {x \in 1 .. Len(m) : \E q \in f[p - 1] : q < x}
      BY <1>5, <2>1, <2>2, Zenon
    <3> QED
      BY <2>2, <3>1, Zenon
  <2>3. CASE t[p] # "*"
    <3>1. r \in {x \in 1 .. Len(m) : x - 1 \in f[p - 1] /\ m[x] = t[p]}
      BY <1>5, <2>1, <2>3, Zenon
    <3> QED
      BY <2>3, <3>1, Zenon
  <2> QED
    BY <2>2, <2>3
<1>8. \A p \in 0 .. n : f[p] \in SUBSET (0 .. Len(m))
  <2> SUFFICES ASSUME NEW p \in 0 .. n, NEW r \in f[p]
               PROVE  r \in 0 .. Len(m)
    BY Zenon
  <2>1. CASE p = 0
    BY <1>2, <1>6, <2>1
  <2>2. CASE p # 0
    <3>1. p \in 1 .. n
      BY <1>2, <2>2
    <3>2. r \in 1 .. Len(m)
      BY <1>7, <3>1
    <3> QED
      BY <1>2, <3>2
  <2> QED
    BY <2>1, <2>2
<1> QED
  BY <1>1, <1>4, <1>6, <1>7, <1>8, Zenon DEF AreEnds

\* The elements a + 1 .. b of t are literal, and lie in m up to place r.
Literal(t, a, b) == \A i \in a + 1 .. b : t[i] # "*"
Lie(t, m, a, b, r) ==
    \A i \in a + 1 .. b : r - (b - i) \in 1 .. Len(m) /\ m[r - (b - i)] = t[i]

LEMMA RunFits ==
    ASSUME NEW S, NEW t \in Seq(S), NEW T, NEW m \in Seq(T), NEW f, AreEnds(t, m, f),
           NEW a \in 0 .. Len(t), NEW b \in a .. Len(t), Literal(t, a, b), NEW r \in Int, r \in f[b]
    PROVE  r - (b - a) \in f[a] /\ Lie(t, m, a, b, r)
<1> DEFINE Run(d) == /\ r - d \in f[b - d]
                     /\ \A i \in (b - d) + 1 .. b :
                           r - (b - i) \in 1 .. Len(m) /\ m[r - (b - i)] = t[i]
           G == {d \in 0 .. b - a : Run(d)}
<1>1. Len(t) \in Nat /\ a \in Nat /\ b \in Nat /\ a <= b /\ b - a \in Nat
  OBVIOUS
<1>6. \A p \in 1 .. Len(t) : \A x \in f[p] :
         x \in 1 .. Len(m) /\ (t[p] # "*" => x - 1 \in f[p - 1] /\ m[x] = t[p])
  BY Zenon DEF AreEnds
<1>7. \A i \in a + 1 .. b : t[i] # "*"
  BY DEF Literal
<1>2. 0 \in G
  <2>1. r - 0 = r /\ b - 0 = b /\ \A i \in (b - 0) + 1 .. b : FALSE
    BY <1>1
  <2> QED
    BY <1>1, <2>1
<1>3. ASSUME NEW d \in 0 .. (b - a) - 1, d \in G
      PROVE  d + 1 \in G
  <2>1. PICK p, q : p = b - d /\ q = r - d
    OBVIOUS
  <2>2. /\ p \in 1 .. Len(t) /\ p \in a + 1 .. b /\ d + 1 \in 0 .. b - a
        /\ b - (d + 1) = p - 1 /\ r - (d + 1) = q - 1 /\ r - (b - p) = q
    BY <1>1, <2>1
  <2>3. q \in f[p] /\ \A i \in p + 1 .. b : r - (b - i) \in 1 .. Len(m) /\ m[r - (b - i)] = t[i]
    BY <1>3, <2>1
  <2>4. q \in 1 .. Len(m) /\ q - 1 \in f[p - 1] /\ m[q] = t[p]
    BY <1>6, <1>7, <2>2, <2>3
  <2>5. ASSUME NEW i \in (p - 1) + 1 .. b
        PROVE  r - (b - i) \in 1 .. Len(m) /\ m[r - (b - i)] = t[i]
    <3>1. CASE i = p
      BY <2>2, <2>4, <3>1
    <3>2. CASE i # p
      <4>1. i \in p + 1 .. b
        BY <1>1, <2>2, <3>2
      <4> QED
        BY <2>3, <4>1
    <3> QED
      BY <3>1, <3>2
  <2>6. Run(d + 1)
    BY <2>2, <2>4, <2>5, Zenon
  <2> QED
    BY <2>2, <2>6
<1>4. b - a \in G
  <2> HIDE DEF G
  <2>1. \A d \in 0 .. b - a : d \in G
    BY <1>1, <1>2, <1>3, OneByOne
  <2> QED
    BY <1>1, <2>1
<1>5. Run(b - a) /\ b - (b - a) = a
  BY <1>1, <1>4
<1> QED
  BY <1>5, Zenon DEF Lie

\* A template of one placeholder at most that fits a message matches it.
LEMMA OneHoleMatches ==
    ASSUME NEW S, NEW t \in Seq(S), NEW T, NEW m \in Seq(T), placeholderCount(t) <= 1, Fits(t, m)
    PROVE  Matches(t, m)
<1>1. PICK n, c, ps, l, e : /\ n = placeholderCount(t) /\ c = Cut(t) /\ ps = parts(t)
                            /\ l = Len(t) /\ e = Len(m)
  OBVIOUS
<1>6. PICK f : AreEnds(t, m, f)
  BY FitsMeans
<1>2. /\ f[0] = {0} /\ e \in f[l]
      /\ \A p \in 0 .. l : f[p] \in SUBSET (0 .. e)
      /\ \A p \in 1 .. l : \A r \in f[p] :
            /\ r \in 1 .. e
            /\ t[p] = "*" => \E q \in f[p - 1] : q < r
            /\ t[p] # "*" => r - 1 \in f[p - 1] /\ m[r] = t[p]
  BY <1>1, <1>6, Zenon DEF AreEnds
<1>3. /\ n \in Nat /\ c \in Seq(Nat) /\ Len(c) = n + 2 /\ c[1] = 0 /\ c[n + 2] = l + 1
      /\ \A j \in 2 .. n + 1 : c[j] \in 1 .. l
  <2>1. IsCut(t, n, c)
    BY <1>1, CutFacts
  <2> QED
    BY <1>1, <2>1, Zenon DEF IsCut
<1>4. Stars(t) = {c[j] : j \in 2 .. n + 1}
  <2>1. IsCut(t, n, c)
    BY <1>1, CutFacts
  <2> QED
    BY <2>1, Zenon DEF IsCut
<1>5. l \in Nat /\ e \in Nat /\ DOMAIN t = 1 .. l /\ \A i \in 1 .. l : t[i] \in S
  BY <1>1
<1>7. CASE n = 0
  <2>1. Literal(t, 0, l)
    <3>1. \A i \in 0 + 1 .. l : i \in DOMAIN t
      BY <1>5
    <3>2. Stars(t) = {}
      BY <1>4, <1>7
    <3> QED
      BY <3>1, <3>2, Zenon DEF Stars, Literal
  <2>2. /\ e - (l - 0) \in f[0]
        /\ \A i \in 0 + 1 .. l : e - (l - i) \in 1 .. Len(m) /\ m[e - (l - i)] = t[i]
    <3>1. 0 \in 0 .. Len(t) /\ l \in 0 .. Len(t) /\ e \in Int
      BY <1>1, <1>5
    <3>2. e - (l - 0) \in f[0] /\ Lie(t, m, 0, l, e)
      BY <1>2, <1>6, <2>1, <3>1, RunFits
    <3> QED
      BY <3>2, Zenon DEF Lie
  <2>3. e - l = 0
    BY <1>2, <1>5, <2>2
  <2>4. \A i \in 1 .. l : m[i] = t[i]
    <3>1. \A i \in 1 .. l : e - (l - i) = i
      BY <1>5, <2>3
    <3> QED
      BY <2>2, <3>1
  <2>5. m = t
    <3>1. m = [i \in 1 .. e |-> m[i]] /\ t = [i \in 1 .. l |-> t[i]] /\ e = l
      BY <1>1, <1>5, <2>3
    <3> QED
      BY <2>4, <3>1, Zenon
  <2> QED
    BY <1>1, <1>7, <2>5 DEF Matches, Exact
<1>8. CASE n = 1
  <2>1. PICK s : s = c[2]
    OBVIOUS
  <2>2. s \in 1 .. l /\ t[s] = "*" /\ \A i \in 1 .. l : i # s => t[i] # "*"
    <3>1. Stars(t) = {s}
      <4>1. 2 .. n + 1 = {2}
        BY <1>8
      <4> QED
        BY <1>4, <2>1, <4>1
    <3>2. s \in Stars(t) /\ \A i \in Stars(t) : i = s
      BY <3>1
    <3> QED
      BY <1>5, <3>2, Zenon DEF Stars
  <2>3. /\ e - (l - s) \in f[s]
        /\ \A i \in s + 1 .. l : e - (l - i) \in 1 .. Len(m) /\ m[e - (l - i)] = t[i]
    <3>1. s \in 0 .. Len(t) /\ l \in s .. Len(t) /\ e \in Int /\ Literal(t, s, l)
      BY <1>1, <1>5, <2>2 DEF Literal
    <3>2. e - (l - s) \in f[s] /\ Lie(t, m, s, l, e)
      BY <1>2, <1>6, <3>1, RunFits
    <3> QED
      BY <3>2, Zenon DEF Lie
  <2>4. PICK q \in f[s - 1] : q < e - (l - s)
    BY <1>2, <2>2, <2>3
  <2>5. q \in Int /\ s - 1 \in 0 .. l
    BY <1>2, <1>5, <2>2, <2>4
  <2>6. /\ q - ((s - 1) - 0) \in f[0]
        /\ \A i \in 0 + 1 .. s - 1 : q - ((s - 1) - i) \in 1 .. Len(m) /\ m[q - ((s - 1) - i)] = t[i]
    <3>1. 0 \in 0 .. Len(t) /\ s - 1 \in 0 .. Len(t) /\ Literal(t, 0, s - 1)
      BY <1>1, <1>5, <2>2 DEF Literal
    <3>2. PICK b : b = s - 1
      OBVIOUS
    <3>3. q - (b - 0) \in f[0] /\ Lie(t, m, 0, b, q)
      BY <1>6, <2>4, <2>5, <3>1, <3>2, RunFits
    <3> QED
      BY <3>2, <3>3, Zenon DEF Lie
  <2>7. q = s - 1
    BY <1>2, <1>5, <2>2, <2>5, <2>6
  <2>8. /\ ps[1] \in Seq(S) /\ Len(ps[1]) = s - 1 /\ \A d \in 1 .. s - 1 : ps[1][d] = t[d]
        /\ ps[2] \in Seq(S) /\ Len(ps[2]) = l - s /\ \A d \in 1 .. l - s : ps[2][d] = t[s + d]
        /\ ps \in Seq(Seq(S)) /\ Len(ps) = 2
    <3>1. AreParts(ps, S, t, n, c)
      BY <1>1, PartsFacts
    <3>2. /\ ps \in Seq(Seq(S)) /\ Len(ps) = n + 1
          /\ \A j \in 1 .. n + 1 : ps[j] \in Seq(S) /\ Len(ps[j]) = (c[j + 1] - 1) - c[j]
          /\ \A j \in 1 .. n + 1 : \A d \in 1 .. Len(ps[j]) : ps[j][d] = t[c[j] + d]
      BY <3>1, Zenon DEF AreParts
    <3>3. 1 \in 1 .. n + 1 /\ 2 \in 1 .. n + 1 /\ 1 + 1 = 2 /\ 2 + 1 = n + 2 /\ n + 1 = 2
      BY <1>8
    <3>4. ps[1] \in Seq(S) /\ Len(ps[1]) = (s - 1) - 0 /\ ps[2] \in Seq(S) /\ Len(ps[2]) = ((l + 1) - 1) - s
      BY <1>3, <2>1, <3>2, <3>3, Zenon
    <3>5. Len(ps[1]) = s - 1 /\ Len(ps[2]) = l - s
      BY <1>5, <2>2, <3>4
    <3>6. \A d \in 1 .. s - 1 : ps[1][d] = t[0 + d] /\ 0 + d = d
      <4>1. \A d \in 1 .. s - 1 : ps[1][d] = t[0 + d]
        BY <1>3, <3>2, <3>3, <3>5, Zenon
      <4>2. \A d \in 1 .. s - 1 : 0 + d = d
        BY <1>5, <2>2
      <4> QED
        BY <4>1, <4>2
    <3>7. \A d \in 1 .. l - s : ps[2][d] = t[s + d]
      BY <2>1, <3>2, <3>3, <3>5, Zenon
    <3> QED
      BY <3>2, <3>3, <3>4, <3>5, <3>6, <3>7
  <2>9. IsPrefix(ps[1], m)
    <3>1. PICK p : p = ps[1]
      OBVIOUS
    <3>2. p \in Seq(S) /\ Len(p) = s - 1 /\ \A d \in 1 .. s - 1 : p[d] = t[d]
      BY <2>8, <3>1
    <3>3. \A d \in 1 .. s - 1 : m[d] = t[d] /\ d \in 1 .. Len(m)
      <4>1. \A d \in 1 .. s - 1 : q - ((s - 1) - d) = d /\ d \in 0 + 1 .. s - 1
        BY <1>5, <2>2, <2>7
      <4> QED
        BY <2>6, <4>1
    <3>4. Len(p) <= Len(m)
      BY <1>1, <1>5, <2>2, <2>4, <2>7, <3>2
    <3>5. \A d \in 1 .. Len(p) : p[d] = m[d]
      BY <3>2, <3>3
    <3>6. IsPrefix(p, m)
      BY <3>2, <3>4, <3>5, PrefixMeans
    <3> QED
      BY <3>1, <3>6
  <2>10. IsSuffix(ps[2], m)
    <3>1. PICK p : p = ps[2]
      OBVIOUS
    <3>2. p \in Seq(S) /\ Len(p) = l - s /\ \A d \in 1 .. l - s : p[d] = t[s + d]
      BY <2>8, <3>1
    <3>3. Len(p) <= Len(m)
      BY <1>1, <1>5, <2>2, <2>4, <2>7, <3>2
    <3>4. ASSUME NEW d \in 1 .. Len(p)
          PROVE  p[d] = m[Len(m) - Len(p) + d]
      <4>1. s + d \in s + 1 .. l /\ e - (l - (s + d)) = e - (l - s) + d /\ d \in 1 .. l - s
        BY <1>5, <2>2, <3>2
      <4>2. m[e - (l - (s + d))] = t[s + d]
        BY <2>3, <4>1
      <4>3. p[d] = t[s + d] /\ e - (l - (s + d)) = Len(m) - Len(p) + d
        BY <1>1, <3>2, <4>1
      <4> QED
        BY <4>2, <4>3
    <3>5. IsSuffix(p, m)
      BY <3>2, <3>3, <3>4, SuffixMeans
    <3> QED
      BY <3>1, <3>5
  <2>11. Cursors(t, m)[1] = Len(ps[1])
    <3>1. PICK cs : cs = Cursors(t, m)
      OBVIOUS
    <3>2. IsCursors(t, m, n, cs)
      BY <1>1, <1>3, <3>1, CursorsFacts
    <3>3. 1 \in 1 .. n /\ ~(1 > 1)
      BY <1>8
    <3>4. cs[1] = IF IsPrefix(ps[1], m) THEN Len(ps[1]) ELSE -1
      BY <1>1, <3>2, <3>3, Zenon DEF IsCursors
    <3> QED
      BY <2>9, <3>1, <3>4
  <2>12. lastLiteral(t) = ps[2]
    BY <1>1, <2>8 DEF lastLiteral, Last
  <2>13. Room(ArgEnd(t, m), Cursors(t, m)[1]) /\ Cursors(t, m)[1] >= 0
    <3>1. PICK x, y : x = ArgEnd(t, m) /\ y = Cursors(t, m)[1]
      OBVIOUS
    <3>2. x = e - (l - s) /\ y = s - 1
      BY <1>1, <2>8, <2>11, <2>12, <3>1 DEF ArgEnd
    <3>3. x > y /\ y >= 0
      BY <1>5, <2>2, <2>4, <2>7, <3>2
    <3> QED
      BY <3>1, <3>3 DEF Room
  <2> QED
    <3>1. placeholderCount(t) = 1 /\ ~Exact(t)
      BY <1>1, <1>8 DEF Exact
    <3>2. IsSuffix(lastLiteral(t), m)
      BY <2>10, <2>12
    <3> QED
      BY <2>13, <3>1, <3>2, Zenon DEF Matches
<1> QED
  BY <1>1, <1>3, <1>7, <1>8

\* A template of one placeholder at most and some literal is in an index.
LEMMA OneHoleIndexed ==
    ASSUME NEW S, NEW t \in Seq(S), placeholderCount(t) <= 1, literalBytes(t) > 0
    PROVE  Indexed(t)
<1>1. PICK n, c, ps, l : n = placeholderCount(t) /\ c = Cut(t) /\ ps = parts(t) /\ l = Len(t)
  OBVIOUS
<1>2. n \in Nat /\ l \in Nat /\ l - n > 0
  BY <1>1, CountFacts
<1>3. CASE n = 0
  BY <1>1, <1>3 DEF Indexed, Exact
<1>4. CASE n = 1
  <2>1. c[1] = 0 /\ c[n + 2] = l + 1 /\ c[2] \in 1 .. l
    <3>1. IsCut(t, n, c)
      BY <1>1, CutFacts
    <3>2. c[1] = 0 /\ c[n + 2] = l + 1 /\ \A j \in 2 .. n + 1 : c[j] \in 1 .. l
      BY <1>1, <3>1, Zenon DEF IsCut
    <3> QED
      BY <1>4, <3>2
  <2>2. PICK s : s = c[2]
    OBVIOUS
  <2>3. ps \in Seq(Seq(S)) /\ Len(ps) = 2 /\ Len(ps[1]) = s - 1 /\ Len(ps[2]) = l - s
    <3>1. AreParts(ps, S, t, n, c)
      BY <1>1, PartsFacts
    <3>2. /\ ps \in Seq(Seq(S)) /\ Len(ps) = n + 1
          /\ \A j \in 1 .. n + 1 : Len(ps[j]) = (c[j + 1] - 1) - c[j]
      BY <3>1, Zenon DEF AreParts
    <3>3. 1 \in 1 .. n + 1 /\ 2 \in 1 .. n + 1 /\ 1 + 1 = 2 /\ 2 + 1 = n + 2 /\ n + 1 = 2
      BY <1>4
    <3>4. Len(ps[1]) = (s - 1) - 0 /\ Len(ps[2]) = ((l + 1) - 1) - s
      BY <2>1, <2>2, <3>2, <3>3, Zenon
    <3>5. s \in Int
      BY <1>2, <2>1, <2>2
    <3> QED
      BY <1>2, <3>2, <3>3, <3>4, <3>5
  <2>4. firstLiteral(t) = ps[1] /\ lastLiteral(t) = ps[2]
    BY <1>1, <2>3 DEF firstLiteral, lastLiteral, Last
  <2>5. ~Exact(t)
    BY <1>1, <1>4 DEF Exact
  <2>6. ps[1] # <<>> \/ ps[2] # <<>>
    <3>1. Len(ps[1]) + Len(ps[2]) = l - 1 /\ s \in Int
      BY <1>2, <2>1, <2>2, <2>3
    <3>2. Len(ps[1]) > 0 \/ Len(ps[2]) > 0
      BY <1>2, <1>4, <2>1, <2>2, <2>3
    <3> QED
      BY <3>2
  <2> QED
    BY <2>4, <2>5, <2>6, Zenon DEF Indexed, InPrefixes, InSuffixes
<1> QED
  BY <1>1, <1>2, <1>3, <1>4

\* What an answered message's answer is.
LEMMA AnswerFacts ==
    ASSUME MatcherInv, NEW j \in Answered
    PROVE  /\ batch[j] \in Seq(Bytes)
           /\ BestOf(ById(Indexed), batch[j], ids[j])
           /\ ids[j] # None => ids[j] \in Fitting(ById(Indexed), batch[j])
<1>1. j \in 1 .. k - 1 /\ batch[j] \in Seq(Bytes)
  BY DEF Answered, MatcherInv, BatchInv
<1>2. BestOf(ById(Indexed), batch[j], ids[j])
  BY <1>1 DEF MatcherInv, AnswersInv
<1> QED
  BY <1>1, <1>2, Zenon DEF BestOf

(* The arguments extracted for an answered message, put back into the         *)
(* template it is answered with, give the message again, and none is empty.   *)
THEOREM ArgumentsRebuild == Spec => []ArgsRebuild
<1>1. MatcherInv => ArgsRebuild
  <2> SUFFICES ASSUME MatcherInv, NEW j \in Answered, ids[j] # None,
                      NEW t, t = templates[ids[j]], ~Exact(t),
                      NEW args, args = Args(t, batch[j])
               PROVE  Fill(t, args) = batch[j] /\ \A h \in DOMAIN args : args[h] # <<>>
    BY Zenon DEF ArgsRebuild
  <2>1. batch[j] \in Seq(Bytes) /\ ids[j] \in Fitting(ById(Indexed), batch[j])
    BY AnswerFacts, Zenon
  <2>2. ids[j] \in Ids /\ Matches(t, batch[j])
    BY <2>1, Zenon DEF Fitting, ById, Ids
  <2>3. t \in Seq(Bytes \cup {"*"})
    BY <2>2, TablesFacts, Zenon DEF MatcherInv
  <2> QED
    BY <2>1, <2>2, <2>3, ArgsFill
<1> QED
  BY <1>1, MatcherInvariant, PTL

(* A message that any template of one placeholder at most and some literal    *)
(* can stand for, however it is split, is never answered with a miss.         *)
THEOREM OnePlaceholderAnswered == Spec => []OnePlaceholderFound
<1>1. MatcherInv => OnePlaceholderFound
  <2> SUFFICES ASSUME MatcherInv, NEW j \in Answered, ids[j] = None,
                      NEW id \in DOMAIN templates,
                      placeholderCount(templates[id]) <= 1, literalBytes(templates[id]) > 0,
                      Fits(templates[id], batch[j])
               PROVE  FALSE
    BY Zenon DEF OnePlaceholderFound
  <2>1. batch[j] \in Seq(Bytes) /\ BestOf(ById(Indexed), batch[j], ids[j])
    BY AnswerFacts, Zenon
  <2>2. PICK t : t = templates[id]
    OBVIOUS
  <2>3. t \in Seq(Bytes \cup {"*"})
    BY <2>2, TablesFacts, Zenon DEF MatcherInv, Ids
  <2>4. Matches(t, batch[j])
    BY <2>1, <2>2, <2>3, OneHoleMatches
  <2>5. Indexed(t)
    BY <2>2, <2>3, OneHoleIndexed
  <2>6. id \in Fitting(ById(Indexed), batch[j])
    BY <2>2, <2>4, <2>5, Zenon DEF Fitting, ById
  <2>7. None \in Ids
    <3>1. ids[j] \in Fitting(ById(Indexed), batch[j])
      BY <2>1, <2>6, Zenon DEF BestOf
    <3>2. ids[j] \in Ids
      BY <3>1, Zenon DEF Fitting, ById, Ids
    <3> QED
      BY <3>2
  <2> QED
    BY <2>7, TablesFacts DEF MatcherInv
<1> QED
  BY <1>1, MatcherInvariant, PTL

-----------------------------------------------------------------------------
(***************************************************************************)
(* The corpus codec.  First what templateFromMask and argsFromMask make of a *)
(* text, then what the parse gives training, then the training, line by line. *)
(***************************************************************************)

\* There is one ascending list of a set's numbers.
LEMMA AscendingStarts ==
    ASSUME NEW s \in Seq(Nat), NEW t \in Seq(Nat), Ascends(s), Ascends(t), ToSet(s) = ToSet(t)
    PROVE  Len(s) <= Len(t) /\ \A i \in 1 .. Len(s) : s[i] = t[i]
<1> DEFINE bad == {i \in 1 .. Len(s) : ~(i <= Len(t) /\ s[i] = t[i])}
<1>1. /\ Len(s) \in Nat /\ Len(t) \in Nat /\ DOMAIN s = 1 .. Len(s) /\ DOMAIN t = 1 .. Len(t)
      /\ \A i \in 1 .. Len(s) : s[i] \in Nat
      /\ \A i \in 1 .. Len(t) : t[i] \in Nat
  OBVIOUS
<1>2. \A x : (\E i \in 1 .. Len(s) : x = s[i]) <=> (\E i \in 1 .. Len(t) : x = t[i])
  <2>1. \A x : x \in ToSet(s) <=> \E i \in 1 .. Len(s) : x = s[i]
    BY SeqRange
  <2>2. \A x : x \in ToSet(t) <=> \E i \in 1 .. Len(t) : x = t[i]
    BY SeqRange
  <2> QED
    BY <2>1, <2>2, Zenon
<1>3. bad = {}
  <2> SUFFICES ASSUME bad # {}
               PROVE  FALSE
    OBVIOUS
  <2>1. bad \in SUBSET Nat
    OBVIOUS
  <2>2. PICK i \in bad : \A j \in bad : i <= j
    BY <2>1, LeastNat
  <2>3. i \in 1 .. Len(s) /\ i \in Nat /\ \A j \in 1 .. i - 1 : j <= Len(t) /\ s[j] = t[j]
    BY <1>1, <2>2
  <2>4. PICK p \in 1 .. Len(t) : s[i] = t[p]
    BY <1>2, <2>3
  <2>5. p >= i
    <3> SUFFICES ASSUME p < i
                 PROVE  FALSE
      BY <2>3
    <3>1. p \in 1 .. i - 1 /\ p \in DOMAIN s /\ i \in DOMAIN s
      BY <1>1, <2>3
    <3>2. s[p] < s[i] /\ s[p] = t[p]
      BY <2>3, <3>1 DEF Ascends
    <3> QED
      BY <1>1, <2>3, <2>4, <3>2
  <2>6. p > i /\ i \in 1 .. Len(t)
    BY <1>1, <2>2, <2>3, <2>4, <2>5
  <2>7. t[i] < s[i]
    BY <1>1, <2>4, <2>6 DEF Ascends
  <2>8. PICK q \in 1 .. Len(s) : t[i] = s[q]
    BY <1>2, <2>6
  <2>9. q >= i
    <3> SUFFICES ASSUME q < i
                 PROVE  FALSE
      BY <2>3
    <3>1. q \in 1 .. i - 1 /\ q \in DOMAIN t /\ i \in DOMAIN t
      BY <1>1, <2>3, <2>6
    <3>2. t[q] < t[i] /\ s[q] = t[q]
      BY <2>3, <3>1 DEF Ascends
    <3> QED
      BY <1>1, <2>6, <2>8, <3>1, <3>2
  <2>10. s[i] <= s[q]
    <3>1. q = i \/ i < q
      BY <2>3, <2>9
    <3>2. i < q => s[i] < s[q]
      BY <1>1, <2>3 DEF Ascends
    <3> QED
      BY <1>1, <2>3, <3>1, <3>2
  <2> QED
    BY <1>1, <2>3, <2>6, <2>7, <2>8, <2>10
<1>4. \A i \in 1 .. Len(s) : i <= Len(t) /\ s[i] = t[i]
  BY <1>3
<1>5. Len(s) <= Len(t)
  <2>1. Len(s) > 0 => Len(s) \in 1 .. Len(s)
    BY <1>1
  <2> QED
    BY <1>1, <1>4, <2>1
<1> QED
  BY <1>4, <1>5

\* So two ascending lists of one set are the same list.
LEMMA AscendingUnique ==
    ASSUME NEW s \in Seq(Nat), NEW t \in Seq(Nat), Ascends(s), Ascends(t), ToSet(s) = ToSet(t)
    PROVE  s = t
<1>1. Len(s) <= Len(t) /\ Len(t) <= Len(s) /\ \A i \in 1 .. Len(s) : s[i] = t[i]
  BY AscendingStarts
<1>2. Len(s) = Len(t)
  BY <1>1
<1>3. s = [i \in 1 .. Len(s) |-> s[i]] /\ t = [i \in 1 .. Len(t) |-> t[i]]
  OBVIOUS
<1> QED
  BY <1>1, <1>2, <1>3, Zenon

\* The kept elements of a sequence are ascending places of it: the next one is
\* the next member of the set.
IsKept(s, I, n) ==
    /\ s \in Seq(Nat) /\ Ascends(s) /\ DOMAIN s = 1 .. Len(s) /\ Len(s) \in Nat
    /\ \A h \in 1 .. Len(s) : s[h] \in I /\ s[h] \in 1 .. n
    /\ \A i \in I : \E h \in 1 .. Len(s) : i = s[h]
    /\ \A h \in 1 .. Len(s) - 1 : s[h] < s[h + 1] /\ \A i \in I : i <= s[h] \/ i >= s[h + 1]
    /\ Len(s) > 0 => \A i \in I : s[1] <= i /\ i <= s[Len(s)]

\* The ascending list of a set of places is one of them.
LEMMA KeptPlaces ==
    ASSUME NEW n \in Nat, NEW I \in SUBSET (1 .. n), NEW s, s = Ascending(I)
    PROVE  IsKept(s, I, n)
<1>1. s \in Seq(1 .. n) /\ ToSet(s) = I /\ Ascends(s)
  BY AscendingFacts
<1>2. /\ s \in Seq(Nat) /\ Len(s) \in Nat /\ DOMAIN s = 1 .. Len(s)
      /\ \A h \in 1 .. Len(s) : s[h] \in 1 .. n
  BY <1>1
<1>3. \A x : x \in I <=> \E h \in 1 .. Len(s) : x = s[h]
  BY <1>1, SeqRange
<1>4. ASSUME NEW h \in 1 .. Len(s), NEW g \in 1 .. Len(s)
      PROVE  (h < g => s[h] < s[g]) /\ (h <= g => s[h] <= s[g])
  <2>1. h < g => s[h] < s[g]
    BY <1>1, <1>2 DEF Ascends
  <2>2. h <= g => h = g \/ h < g
    BY <1>2
  <2> QED
    BY <1>2, <2>1, <2>2
<1>5. ASSUME NEW h \in 1 .. Len(s) - 1, NEW i \in I
      PROVE  s[h] < s[h + 1] /\ (i <= s[h] \/ i >= s[h + 1])
  <2>1. PICK g \in 1 .. Len(s) : i = s[g]
    BY <1>3
  <2>2. h \in 1 .. Len(s) /\ h + 1 \in 1 .. Len(s) /\ h < h + 1 /\ (g <= h \/ h + 1 <= g)
    BY <1>2
  <2> QED
    BY <1>4, <2>1, <2>2
<1>6. ASSUME Len(s) > 0, NEW i \in I
      PROVE  s[1] <= i /\ i <= s[Len(s)]
  <2>1. PICK g \in 1 .. Len(s) : i = s[g]
    BY <1>3
  <2>2. 1 \in 1 .. Len(s) /\ Len(s) \in 1 .. Len(s) /\ 1 <= g /\ g <= Len(s)
    BY <1>2, <1>6
  <2> QED
    BY <1>4, <2>1, <2>2
<1> QED
  BY <1>1, <1>2, <1>3, <1>5, <1>6 DEF IsKept

\* The slice from behind place a up to place b.
LEMMA SliceFacts ==
    ASSUME NEW T, NEW m \in Seq(T), NEW a \in Nat, NEW b \in Nat, a <= b, b <= Len(m),
           NEW u, u = SubSeq(m, a + 1, b)
    PROVE  /\ u \in Seq(T) /\ Len(u) = b - a /\ Len(u) \in Nat
           /\ \A i \in 1 .. b - a : u[i] = m[a + i]
  OBVIOUS

\* The elements of two sequences joined.
LEMMA ConcatFacts ==
    ASSUME NEW T, NEW u \in Seq(T), NEW v \in Seq(T), NEW x, x = u \o v
    PROVE  /\ x \in Seq(T) /\ Len(x) = Len(u) + Len(v)
           /\ \A i \in 1 .. Len(u) : x[i] = u[i]
           /\ \A i \in 1 .. Len(v) : x[Len(u) + i] = v[i]
  OBVIOUS

\* Two adjacent slices are one.
LEMMA SlicesJoin ==
    ASSUME NEW T, NEW m \in Seq(T), NEW a \in Nat, NEW b \in Nat, NEW c \in Nat,
           a <= b, b <= c, c <= Len(m)
    PROVE  /\ SubSeq(m, a + 1, b) \in Seq(T)
           /\ SubSeq(m, a + 1, b) \o SubSeq(m, b + 1, c) = SubSeq(m, a + 1, c)
<1>1. PICK u, v, w : /\ u = SubSeq(m, a + 1, b) /\ v = SubSeq(m, b + 1, c)
                     /\ w = SubSeq(m, a + 1, c)
  OBVIOUS
<1>2. /\ u \in Seq(T) /\ Len(u) = b - a /\ \A i \in 1 .. b - a : u[i] = m[a + i]
      /\ v \in Seq(T) /\ Len(v) = c - b /\ \A i \in 1 .. c - b : v[i] = m[b + i]
      /\ w \in Seq(T) /\ Len(w) = c - a /\ \A i \in 1 .. c - a : w[i] = m[a + i]
  <2>1. a <= c /\ b <= Len(m)
    OBVIOUS
  <2>2. u \in Seq(T) /\ Len(u) = b - a /\ \A i \in 1 .. b - a : u[i] = m[a + i]
    BY <1>1, <2>1, SliceFacts
  <2>3. v \in Seq(T) /\ Len(v) = c - b /\ \A i \in 1 .. c - b : v[i] = m[b + i]
    BY <1>1, <2>1, SliceFacts
  <2>4. w \in Seq(T) /\ Len(w) = c - a /\ \A i \in 1 .. c - a : w[i] = m[a + i]
    BY <1>1, <2>1, SliceFacts
  <2> QED
    BY <2>2, <2>3, <2>4
<1>3. PICK x : x = u \o v
  OBVIOUS
<1>4. /\ x \in Seq(T) /\ Len(x) = c - a
      /\ \A d \in 1 .. Len(u) : x[d] = u[d]
      /\ \A d \in 1 .. Len(v) : x[Len(u) + d] = v[d]
  <2>1. u \in Seq(T) /\ v \in Seq(T)
    BY <1>2
  <2>2. /\ x \in Seq(T) /\ Len(x) = Len(u) + Len(v)
        /\ \A d \in 1 .. Len(u) : x[d] = u[d]
        /\ \A d \in 1 .. Len(v) : x[Len(u) + d] = v[d]
    BY <1>3, <2>1, ConcatFacts
  <2> QED
    BY <1>2, <2>2
<1>5. ASSUME NEW i \in 1 .. c - a
      PROVE  x[i] = w[i]
  <2>1. CASE i <= b - a
    <3>1. i \in 1 .. b - a
      BY <2>1
    <3>2. x[i] = u[i]
      <4>1. \A d \in 1 .. Len(u) : x[d] = u[d]
        BY <1>4
      <4> QED
        BY <1>2, <3>1, <4>1
    <3> QED
      BY <1>2, <3>1, <3>2
  <2>2. CASE i > b - a
    <3>1. i - (b - a) \in 1 .. c - b /\ b + (i - (b - a)) = a + i
      BY <2>2
    <3>2. x[i] = v[i - (b - a)]
      <4>1. \A d \in 1 .. Len(v) : x[Len(u) + d] = v[d]
        BY <1>4
      <4>2. i - (b - a) \in 1 .. Len(v) /\ Len(u) + (i - (b - a)) = i
        BY <1>2, <3>1
      <4> QED
        BY <4>1, <4>2
    <3> QED
      BY <1>2, <3>1, <3>2
  <2> QED
    BY <2>1, <2>2
<1>6. x = w
  <2>1. x = [i \in 1 .. c - a |-> x[i]] /\ w = [i \in 1 .. c - a |-> w[i]]
    BY <1>2, <1>4
  <2> QED
    BY <1>5, <2>1, Zenon
<1> QED
  BY <1>1, <1>2, <1>3, <1>6

\* How far into m each element of t reaches: a literal one byte, a placeholder
\* some; and args are the bytes of the placeholders.
Reaches(t, m, reach, args) ==
    /\ reach \in [0 .. Len(t) -> 0 .. Len(m)]
    /\ reach[0] = 0 /\ reach[Len(t)] = Len(m)
    /\ \A h \in 1 .. Len(t) :
          /\ reach[h - 1] <= reach[h]
          /\ t[h] # "*" => reach[h] = reach[h - 1] + 1 /\ m[reach[h]] = t[h]
    /\ Len(args) = placeholderCount(t) /\ DOMAIN args = 1 .. Len(args)
    /\ \A j \in DOMAIN args : args[j] = SubSeq(m, reach[Cut(t)[j + 1] - 1] + 1, reach[Cut(t)[j + 1]])

\* A part is the slice of m its literals reach.
LEMMA PartIsSlice ==
    ASSUME NEW S, NEW t \in Seq(S), NEW T, NEW m \in Seq(T), NEW reach, NEW args,
           Reaches(t, m, reach, args), NEW n, n = placeholderCount(t), NEW c, c = Cut(t),
           NEW j \in 1 .. n + 1
    PROVE  /\ c[j] \in 0 .. Len(t) /\ c[j + 1] - 1 \in 0 .. Len(t)
           /\ reach[c[j]] <= reach[c[j + 1] - 1]
           /\ parts(t)[j] = SubSeq(m, reach[c[j]] + 1, reach[c[j + 1] - 1])
<1>1. PICK len, size, p : len = Len(t) /\ size = Len(m) /\ p = parts(t)[j]
  OBVIOUS
<1>2. /\ n \in Nat /\ c \in Seq(Nat) /\ Len(c) = n + 2 /\ c[1] = 0 /\ c[n + 2] = len + 1
      /\ \A i \in 2 .. n + 1 : c[i] \in 1 .. len
      /\ \A i \in 1 .. n + 1 : c[i] < c[i + 1]
  <2>1. IsCut(t, n, c)
    BY CutFacts
  <2> QED
    BY <1>1, <2>1, Zenon DEF IsCut
<1>3. /\ p \in Seq(S) /\ Len(p) = (c[j + 1] - 1) - c[j]
      /\ \A d \in 1 .. Len(p) : /\ c[j] + d \in 1 .. len
                                /\ p[d] = t[c[j] + d] /\ t[c[j] + d] # "*"
  <2>1. AreParts(parts(t), S, t, n, c)
    BY PartsFacts
  <2> QED
    BY <1>1, <2>1, Zenon DEF AreParts
<1>4. PICK a, b : a = c[j] /\ b = c[j + 1] - 1
  OBVIOUS
<1>5. len \in Nat /\ size \in Nat
  BY <1>1
<1>6. a \in 0 .. len /\ b \in 0 .. len /\ a <= b /\ Len(p) = b - a /\ Len(p) \in Nat
  <2>1. c[j] \in Nat /\ c[j + 1] \in Nat /\ c[j] < c[j + 1]
    <3>1. n \in Nat /\ j \in 1 .. n + 2 /\ j + 1 \in 1 .. n + 2
      BY <1>2
    <3>2. \A i \in 1 .. n + 2 : c[i] \in Nat
      BY <1>2
    <3> QED
      BY <1>2, <3>1, <3>2
  <2>2. c[j] <= len
    <3>1. j = 1 \/ j \in 2 .. n + 1
      BY <1>2
    <3> QED
      BY <1>2, <1>5, <3>1
  <2>3. c[j + 1] <= len + 1
    <3>1. j + 1 = n + 2 \/ j + 1 \in 2 .. n + 1
      BY <1>2
    <3> QED
      BY <1>2, <1>5, <3>1
  <2>4. a \in Nat /\ b + 1 \in Nat /\ b \in Int /\ a < b + 1 /\ a <= len /\ b + 1 <= len + 1
    BY <1>4, <2>1, <2>2, <2>3
  <2>5. Len(p) = b - a
    BY <1>3, <1>4, Zenon
  <2> QED
    BY <1>5, <2>4, <2>5
<1>7. /\ \A h \in 0 .. len : reach[h] \in 0 .. size
      /\ \A h \in 1 .. len : t[h] # "*" => reach[h] = reach[h - 1] + 1 /\ m[reach[h]] = t[h]
  BY <1>1 DEF Reaches
<1> DEFINE G == {d \in 0 .. Len(p) : reach[a + d] = reach[a] + d}
<1>8. \A d \in 0 .. Len(p) : d \in G
  <2>1. 0 \in G
    BY <1>6, <1>7
  <2>2. ASSUME NEW d \in 0 .. Len(p) - 1, d \in G
        PROVE  d + 1 \in G
    <3>1. d + 1 \in 1 .. Len(p) /\ d + 1 \in 0 .. Len(p) /\ (a + (d + 1)) - 1 = a + d
      BY <1>6
    <3>2. a + (d + 1) \in 1 .. len /\ t[a + (d + 1)] # "*"
      BY <1>3, <1>4, <3>1
    <3>3. reach[a + (d + 1)] = reach[a + d] + 1
      BY <1>7, <3>1, <3>2
    <3>4. reach[a] \in Nat /\ reach[a + d] = reach[a] + d
      BY <1>6, <1>7, <2>2
    <3>5. reach[a + (d + 1)] = reach[a] + (d + 1)
      BY <3>3, <3>4
    <3> QED
      BY <3>1, <3>5
  <2> HIDE DEF G
  <2> QED
    BY <1>6, <2>1, <2>2, OneByOne
<1>9. \A d \in 0 .. Len(p) : reach[a + d] = reach[a] + d
  BY <1>8
<1> HIDE DEF G
<1>10. PICK x, y : x = reach[a] /\ y = reach[b]
  OBVIOUS
<1>11. x \in 0 .. size /\ y \in 0 .. size /\ y = x + Len(p) /\ x <= y
  <2>1. Len(p) \in 0 .. Len(p) /\ a + Len(p) = b
    BY <1>6
  <2>2. reach[b] = reach[a] + Len(p)
    BY <1>9, <2>1
  <2> QED
    BY <1>5, <1>6, <1>7, <1>10, <2>2
<1>12. ASSUME NEW d \in 1 .. Len(p)
       PROVE  p[d] = m[x + d]
  <2>1. a + d \in 1 .. len /\ p[d] = t[a + d] /\ t[a + d] # "*"
    BY <1>3, <1>4
  <2>2. d \in 0 .. Len(p)
    BY <1>6
  <2>3. m[reach[a + d]] = t[a + d] /\ reach[a + d] = x + d
    BY <1>7, <1>9, <1>10, <2>1, <2>2
  <2> QED
    BY <2>1, <2>3
<1>13. p = SubSeq(m, x + 1, y)
  <2>1. PICK w : w = SubSeq(m, x + 1, y)
    OBVIOUS
  <2>2. x \in Nat /\ y \in Nat /\ x <= y /\ y <= size /\ y - x = Len(p) /\ Len(p) \in Nat
    BY <1>5, <1>6, <1>11
  <2>3. w \in Seq(T) /\ Len(w) = y - x /\ \A d \in 1 .. y - x : w[d] = m[x + d]
    BY <1>1, <2>1, <2>2, SliceFacts
  <2>4. w \in Seq(T) /\ Len(w) = Len(p) /\ \A d \in 1 .. Len(p) : w[d] = m[x + d]
    BY <2>2, <2>3
  <2>5. p = [d \in 1 .. Len(p) |-> p[d]] /\ w = [d \in 1 .. Len(p) |-> w[d]]
    BY <1>3, <2>4
  <2> QED
    BY <1>12, <2>1, <2>4, <2>5, Zenon
<1> QED
  BY <1>1, <1>4, <1>6, <1>10, <1>11, <1>13

\* The parts of a template, each with the argument that follows it.
Interleaved(ps, args) ==
    [j \in DOMAIN ps |-> ps[j] \o IF j \in DOMAIN args THEN args[j] ELSE <<>>]

\* A template whose elements reach all of a message, with the bytes of its
\* placeholders between its parts, is the message.
LEMMA ReachesFill ==
    ASSUME NEW S, NEW t \in Seq(S), NEW m \in Seq(S), NEW reach, NEW args,
           Reaches(t, m, reach, args), NEW ps, ps = parts(t)
    PROVE  /\ Len(args) = Len(ps) - 1
           /\ FlattenSeq(Interleaved(ps, args)) = m
<1>1. PICK n, c, len, size : /\ n = placeholderCount(t) /\ c = Cut(t)
                             /\ len = Len(t) /\ size = Len(m)
  OBVIOUS
<1>2. /\ n \in Nat /\ c \in Seq(Nat) /\ Len(c) = n + 2 /\ c[1] = 0 /\ c[n + 2] = len + 1
      /\ \A i \in 2 .. n + 1 : c[i] \in 1 .. len
  <2>1. IsCut(t, n, c)
    BY <1>1, CutFacts
  <2> QED
    BY <1>1, <2>1, Zenon DEF IsCut
<1>3. ps \in Seq(Seq(S)) /\ Len(ps) = n + 1 /\ DOMAIN ps = 1 .. n + 1
  <2>1. AreParts(ps, S, t, n, c)
    BY <1>1, PartsFacts
  <2>2. ps \in Seq(Seq(S)) /\ Len(ps) = n + 1
    BY <2>1, Zenon DEF AreParts
  <2> QED
    BY <2>2
<1>4. len \in Nat /\ size \in Nat
  BY <1>1
<1>5. /\ reach[0] = 0 /\ reach[len] = size
      /\ \A h \in 0 .. len : reach[h] \in 0 .. size
      /\ \A h \in 1 .. len : reach[h - 1] <= reach[h]
  BY <1>1 DEF Reaches
<1>6. /\ Len(args) = n /\ DOMAIN args = 1 .. n
      /\ \A j \in 1 .. n : args[j] = SubSeq(m, reach[c[j + 1] - 1] + 1, reach[c[j + 1]])
  BY <1>1 DEF Reaches
\* Where the j-th part, and its argument, ends.
<1> DEFINE End(j) == IF j = n + 1 THEN len ELSE c[j + 1]
           piece == [j \in 1 .. n + 1 |-> ps[j] \o IF j \in 1 .. n THEN args[j] ELSE <<>>]
<1>7. ASSUME NEW j \in 1 .. n + 1
      PROVE  /\ End(j - 1) \in 0 .. len /\ End(j) \in 0 .. len
             /\ reach[End(j - 1)] <= reach[End(j)]
             /\ piece[j] = SubSeq(m, reach[End(j - 1)] + 1, reach[End(j)])
  <2>1. /\ c[j] \in 0 .. len /\ c[j + 1] - 1 \in 0 .. len
        /\ reach[c[j]] <= reach[c[j + 1] - 1]
        /\ ps[j] = SubSeq(m, reach[c[j]] + 1, reach[c[j + 1] - 1])
    BY <1>1, PartIsSlice
  <2>2. End(j - 1) = c[j]
    BY <1>2
  <2>3. PICK x, y : x = reach[c[j]] /\ y = reach[c[j + 1] - 1]
    OBVIOUS
  <2>4. x \in 0 .. size /\ y \in 0 .. size /\ x <= y /\ ps[j] = SubSeq(m, x + 1, y)
    BY <1>5, <2>1, <2>3
  <2>5. CASE j = n + 1
    <3>1. End(j) = len /\ c[j + 1] - 1 = len
      BY <1>2, <1>4, <2>5
    <3>2. piece[j] = ps[j] \o <<>>
      <4>1. j \notin 1 .. n
        BY <1>2, <2>5
      <4> QED
        BY <4>1
    <3>3. ps[j] \in Seq(S)
      BY <1>3
    <3>4. ps[j] \o <<>> = ps[j]
      BY <3>3
    <3> HIDE DEF End, piece
    <3> QED
      BY <1>4, <2>1, <2>2, <3>1, <3>2, <3>4
  <2>6. CASE j # n + 1
    <3>1. j \in 1 .. n /\ End(j) = c[j + 1] /\ j + 1 \in 2 .. n + 1
      BY <1>2, <2>6
    <3>2. c[j + 1] \in 1 .. len
      BY <1>2, <3>1
    <3>3. PICK z : z = reach[c[j + 1]]
      OBVIOUS
    <3>4. z \in 0 .. size /\ y <= z
      BY <1>5, <2>3, <3>2, <3>3
    <3>5. args[j] = SubSeq(m, y + 1, z)
      BY <1>6, <2>3, <3>1, <3>3
    <3>6. piece[j] = ps[j] \o args[j]
      BY <3>1
    <3>7. SubSeq(m, x + 1, y) \o SubSeq(m, y + 1, z) = SubSeq(m, x + 1, z)
      <4>1. /\ x \in Nat /\ y \in Nat /\ z \in Nat
            /\ x <= y /\ y <= z /\ z <= Len(m)
        BY <1>1, <1>4, <2>4, <3>4
      <4> QED
        BY <4>1, SlicesJoin
    <3>8. piece[j] = SubSeq(m, x + 1, z)
      BY <2>4, <3>5, <3>6, <3>7
    <3>9. c[j + 1] \in 0 .. len /\ x <= z
      BY <1>4, <2>4, <3>2, <3>4
    <3> HIDE DEF End, piece
    <3> QED
      BY <2>1, <2>2, <2>3, <3>1, <3>3, <3>8, <3>9
  <2> QED
    BY <2>5, <2>6
<1>8. piece \in Seq(Seq(S)) /\ Len(piece) = n + 1
  <2>1. ASSUME NEW j \in 1 .. n + 1
        PROVE  piece[j] \in Seq(S)
    <3>1. PICK x, y : x = reach[End(j - 1)] /\ y = reach[End(j)]
      OBVIOUS
    <3>2. x \in 0 .. size /\ y \in 0 .. size /\ x <= y /\ piece[j] = SubSeq(m, x + 1, y)
      BY <1>5, <1>7, <3>1
    <3>3. x \in Nat /\ y \in Nat /\ y <= Len(m)
      BY <1>1, <1>4, <3>2
    <3>4. SubSeq(m, x + 1, y) \in Seq(S)
      BY <3>2, <3>3, SliceFacts
    <3> QED
      BY <3>2, <3>4
  <2>2. piece = [j \in 1 .. n + 1 |-> piece[j]]
    BY Zenon
  <2> HIDE DEF piece
  <2>3. piece \in [1 .. n + 1 -> Seq(S)]
    BY <2>1, <2>2
  <2> QED
    BY <1>2, <2>3, FunctionIsSeq
<1> HIDE DEF piece
<1>9. PICK f \in [0 .. n + 1 -> Seq(S)] :
         /\ f[0] = <<>>
         /\ \A j \in 1 .. n + 1 : f[j] = f[j - 1] \o piece[j]
         /\ f[n + 1] = FlattenSeq(piece)
  <2>1. \E f \in [0 .. Len(piece) -> Seq(S)] :
          /\ f[0] = <<>>
          /\ \A j \in 1 .. Len(piece) : f[j] = f[j - 1] \o piece[j]
          /\ f[Len(piece)] = FlattenSeq(piece)
    BY <1>8, FlattenPrefixes
  <2> QED
    BY <1>8, <2>1, Zenon
<1> DEFINE G == {j \in 0 .. n + 1 : f[j] = SubSeq(m, 1, reach[End(j)])}
<1>10. 0 \in G
  <2>1. End(0) = 0
    BY <1>2
  <2>2. SubSeq(m, 1, 0) = <<>>
    OBVIOUS
  <2> HIDE DEF End
  <2> QED
    BY <1>2, <1>5, <1>9, <2>1, <2>2
<1>11. ASSUME NEW j \in 0 .. n, j \in G
       PROVE  j + 1 \in G
  <2>1. j + 1 \in 1 .. n + 1 /\ (j + 1) - 1 = j /\ j + 1 \in 0 .. n + 1
    BY <1>2
  <2>2. PICK x, y : x = reach[End(j)] /\ y = reach[End(j + 1)]
    OBVIOUS
  <2>3. x \in 0 .. size /\ y \in 0 .. size /\ x <= y /\ piece[j + 1] = SubSeq(m, x + 1, y)
    <3>1. /\ End((j + 1) - 1) \in 0 .. len /\ End(j + 1) \in 0 .. len
          /\ reach[End((j + 1) - 1)] <= reach[End(j + 1)]
          /\ piece[j + 1] = SubSeq(m, reach[End((j + 1) - 1)] + 1, reach[End(j + 1)])
      BY <1>7, <2>1
    <3> HIDE DEF End
    <3> QED
      BY <1>5, <2>1, <2>2, <3>1
  <2>4. f[j + 1] = f[j] \o piece[j + 1]
    BY <1>9, <2>1
  <2>5. f[j] = SubSeq(m, 1, x)
    BY <1>11, <2>2
  <2>6. SubSeq(m, 1, x) \o SubSeq(m, x + 1, y) = SubSeq(m, 1, y)
    <3>1. x \in Nat /\ y \in Nat /\ x <= y /\ y <= Len(m)
      BY <1>1, <1>4, <2>3
    <3> QED
      BY <3>1, PiecesJoin
  <2>7. f[j + 1] = SubSeq(m, 1, y)
    BY <2>3, <2>4, <2>5, <2>6
  <2> HIDE DEF End
  <2> QED
    BY <2>1, <2>2, <2>7
<1>12. \A j \in 0 .. n + 1 : j \in G
  <2>1. n + 1 \in Nat /\ \A j \in 0 .. (n + 1) - 1 : j \in 0 .. n
    BY <1>2
  <2> HIDE DEF G
  <2> QED
    BY <1>10, <1>11, <2>1, OneByOne
<1>13. FlattenSeq(piece) = m
  <2>1. n + 1 \in 0 .. n + 1 /\ End(n + 1) = len
    BY <1>2
  <2>2. f[n + 1] = SubSeq(m, 1, size)
    BY <1>5, <1>12, <2>1
  <2>3. SubSeq(m, 1, size) = m
    BY <1>1
  <2> QED
    BY <1>9, <2>2, <2>3
<1>14. piece = Interleaved(ps, args)
  BY <1>3, <1>6 DEF piece, Interleaved
<1> QED
  BY <1>2, <1>3, <1>6, <1>13, <1>14

-----------------------------------------------------------------------------
\* The elements of texts and templates.
Symbols == STRING \cup {"*"}

\* The elements a mask keeps: those of no parameter, and the first of each.
KeptBy(bits) == {h \in DOMAIN bits : bits[h] = 0 \/ h = 1 \/ bits[h - 1] = 0}

\* A mask and the text it is for, of which no element is a placeholder.
Masked(m, bits) ==
    /\ m \in Seq(Symbols) /\ bits \in Seq({0, 1}) /\ Len(bits) = Len(m)
    /\ \A h \in 1 .. Len(m) : m[h] # "*"

\* The template of a mask has an element for each kept one: the element itself,
\* or a placeholder for a parameter.
IsRendered(t, m, bits, kept) ==
    /\ t \in Seq(Symbols) /\ Len(t) = Len(kept)
    /\ \A h \in 1 .. Len(t) : t[h] = IF bits[kept[h]] = 0 THEN m[kept[h]] ELSE "*"

\* What templateFromMask returns.
LEMMA TemplateTypes ==
    ASSUME NEW m \in Seq(Symbols), NEW bits \in Seq({0, 1}), Len(bits) = Len(m),
           NEW kept, kept = Ascending(KeptBy(bits)), NEW t, t = templateFromMask(m, bits)
    PROVE  IsKept(kept, KeptBy(bits), Len(m)) /\ IsRendered(t, m, bits, kept)
<1>1. DOMAIN bits = 1 .. Len(m) /\ Len(m) \in Nat /\ \A h \in 1 .. Len(m) : m[h] \in Symbols
  OBVIOUS
<1>2. KeptBy(bits) \in SUBSET (1 .. Len(m))
  BY <1>1 DEF KeptBy
<1>3. IsKept(kept, KeptBy(bits), Len(m))
  BY <1>1, <1>2, KeptPlaces
<1>4. DOMAIN kept = 1 .. Len(kept) /\ Len(kept) \in Nat /\ \A h \in 1 .. Len(kept) : kept[h] \in 1 .. Len(m)
  BY <1>3, Zenon DEF IsKept
<1>5. t = [h \in 1 .. Len(kept) |-> IF bits[kept[h]] = 0 THEN m[kept[h]] ELSE "*"]
  BY <1>4, Zenon DEF templateFromMask, KeptBy
<1>6. t \in [1 .. Len(kept) -> Symbols]
  BY <1>1, <1>4, <1>5 DEF Symbols
<1>7. t \in Seq(Symbols) /\ Len(t) = Len(kept)
  BY <1>4, <1>6, FunctionIsSeq
<1> QED
  BY <1>3, <1>5, <1>7 DEF IsRendered

\* Where the h-th element of a template ends in the text.
ReachOf(m, kept) == [h \in 0 .. Len(kept) |-> IF h = Len(kept) THEN Len(m) ELSE kept[h + 1] - 1]

\* A literal ends where it begins, and a placeholder at the end of its parameter.
LEMMA ReachSteps ==
    ASSUME NEW m, NEW bits, Masked(m, bits),
           NEW kept, kept = Ascending(KeptBy(bits)), NEW t, t = templateFromMask(m, bits),
           NEW reach, reach = ReachOf(m, kept), NEW h \in 1 .. Len(t)
    PROVE  /\ kept[h] \in 1 .. Len(m) /\ reach[h - 1] = kept[h] - 1
           /\ reach[h] \in 1 .. Len(m) /\ kept[h] <= reach[h]
           /\ t[h] = "*" <=> bits[kept[h]] = 1
           /\ t[h] # "*" => reach[h] = kept[h] /\ m[kept[h]] = t[h]
           /\ t[h] = "*" => IsParameter(bits, kept[h], reach[h])
<1>1. PICK size, n : size = Len(m) /\ n = Len(kept)
  OBVIOUS
<1>2. /\ m \in Seq(Symbols) /\ bits \in Seq({0, 1}) /\ Len(bits) = size /\ size \in Nat
      /\ \A i \in 1 .. size : m[i] # "*"
      /\ \A i \in 1 .. size : bits[i] \in {0, 1}
      /\ DOMAIN bits = 1 .. size
  BY <1>1 DEF Masked
<1>3. /\ IsKept(kept, KeptBy(bits), size) /\ Len(t) = n
      /\ \A i \in 1 .. n : t[i] = IF bits[kept[i]] = 0 THEN m[kept[i]] ELSE "*"
  <2>1. IsKept(kept, KeptBy(bits), Len(m)) /\ IsRendered(t, m, bits, kept)
    BY <1>1, <1>2, TemplateTypes
  <2> QED
    BY <1>1, <2>1 DEF IsRendered
<1>4. /\ n \in Nat
      /\ \A i \in 1 .. n : kept[i] \in KeptBy(bits) /\ kept[i] \in 1 .. size
      /\ \A i \in 1 .. n - 1 : kept[i] < kept[i + 1]
                                 /\ \A x \in KeptBy(bits) : x <= kept[i] \/ x >= kept[i + 1]
      /\ \A x \in KeptBy(bits) : kept[1] <= x /\ x <= kept[n]
  <2>1. \A x \in KeptBy(bits) : n > 0
    BY <1>1, <1>3 DEF IsKept
  <2> QED
    BY <1>1, <1>3, <2>1 DEF IsKept
<1>5. h \in 1 .. n
  BY <1>3
<1>6. PICK x, y : x = kept[h] /\ y = reach[h]
  OBVIOUS
<1>7. x \in 1 .. size /\ x \in KeptBy(bits) /\ bits[x] \in {0, 1}
  BY <1>2, <1>4, <1>5, <1>6
<1>8. y = IF h = n THEN size ELSE kept[h + 1] - 1
  BY <1>1, <1>4, <1>5, <1>6 DEF ReachOf
<1>9. reach[h - 1] = x - 1
  <2>1. h - 1 \in 0 .. n /\ h - 1 # n /\ (h - 1) + 1 = h
    BY <1>4, <1>5
  <2>2. reach[h - 1] = kept[(h - 1) + 1] - 1
    BY <1>1, <2>1 DEF ReachOf
  <2> QED
    BY <1>6, <2>1, <2>2
<1>10. /\ y \in 1 .. size /\ x <= y
       /\ \A i \in KeptBy(bits) : i <= x \/ i > y
       /\ y < size => y + 1 \in KeptBy(bits)
  <2>1. CASE h = n
    BY <1>2, <1>4, <1>6, <1>7, <1>8, <2>1
  <2>2. CASE h # n
    <3>1. h \in 1 .. n - 1 /\ h + 1 \in 1 .. n
      BY <1>4, <1>5, <2>2
    <3>2. PICK z : z = kept[h + 1]
      OBVIOUS
    <3>3. z \in 1 .. size /\ z \in KeptBy(bits) /\ x < z /\ y = z - 1
      BY <1>4, <1>6, <1>8, <2>2, <3>1, <3>2
    <3>4. \A i \in KeptBy(bits) : i <= x \/ i >= z
      BY <1>4, <1>6, <3>1, <3>2
    <3>5. \A i \in KeptBy(bits) : i \in 1 .. size
      BY <1>2 DEF KeptBy
    <3>6. y \in 1 .. size /\ x <= y /\ y + 1 = z
      BY <1>2, <1>7, <3>3
    <3>7. \A i \in KeptBy(bits) : i <= x \/ i > y
      BY <3>3, <3>4, <3>5, <3>6
    <3> QED
      BY <3>3, <3>6, <3>7
  <2> QED
    BY <2>1, <2>2
<1>11. \A i \in 1 .. size : i \in KeptBy(bits) <=> (bits[i] = 0 \/ i = 1 \/ bits[i - 1] = 0)
  BY <1>2 DEF KeptBy
<1>12. t[h] = "*" <=> bits[x] = 1
  BY <1>2, <1>3, <1>5, <1>6, <1>7
<1>13. ASSUME t[h] # "*"
       PROVE  y = x /\ m[x] = t[h]
  <2>1. bits[x] = 0 /\ m[x] = t[h]
    BY <1>3, <1>5, <1>6, <1>7, <1>12, <1>13
  <2>2. x < size => x + 1 \in KeptBy(bits)
    <3>1. x < size => x + 1 \in 1 .. size /\ (x + 1) - 1 = x
      BY <1>2, <1>7
    <3> QED
      BY <1>11, <2>1, <3>1
  <2> QED
    BY <1>2, <1>7, <1>10, <2>1, <2>2
<1>14. ASSUME t[h] = "*"
       PROVE  IsParameter(bits, x, y)
  <2>1. bits[x] = 1
    BY <1>12, <1>14
  <2>2. ASSUME NEW i \in x .. y
        PROVE  bits[i] = 1
    <3>1. i \in 1 .. size /\ (i = x \/ i \notin KeptBy(bits))
      BY <1>2, <1>7, <1>10
    <3>2. i # x => bits[i] # 0 /\ bits[i] \in {0, 1}
      BY <1>2, <1>11, <3>1
    <3> QED
      BY <2>1, <3>2
  <2>3. x > 1 => bits[x - 1] = 0
    BY <1>2, <1>7, <1>11, <2>1
  <2>4. y < Len(bits) => bits[y + 1] = 0
    <3> SUFFICES ASSUME y < size
                 PROVE  bits[y + 1] = 0
      BY <1>2
    <3>1. y + 1 \in 1 .. size /\ y + 1 # 1 /\ (y + 1) - 1 = y /\ y \in x .. y
      BY <1>2, <1>7, <1>10
    <3>2. bits[y] = 1
      BY <2>2, <3>1
    <3> QED
      BY <1>10, <1>11, <3>1, <3>2
  <2> QED
    BY <1>10, <2>2, <2>3, <2>4 DEF IsParameter
<1> QED
  BY <1>1, <1>6, <1>7, <1>9, <1>10, <1>12, <1>13, <1>14

\* A parameter that starts at a place has one end.
LEMMA OneEnd ==
    ASSUME NEW bits \in Seq({0, 1}), NEW i \in DOMAIN bits, NEW j \in DOMAIN bits,
           NEW h \in DOMAIN bits, IsParameter(bits, i, j), IsParameter(bits, i, h)
    PROVE  j = h
<1>1. DOMAIN bits = 1 .. Len(bits) /\ Len(bits) \in Nat
  OBVIOUS
<1>2. ASSUME NEW a \in 1 .. Len(bits), NEW b \in 1 .. Len(bits),
             IsParameter(bits, i, a), IsParameter(bits, i, b)
      PROVE  ~(a < b)
  <2> SUFFICES ASSUME a < b
               PROVE  FALSE
    OBVIOUS
  <2>1. i <= a /\ a < Len(bits) /\ a + 1 \in i .. b
    BY <1>1, <1>2 DEF IsParameter
  <2>2. bits[a + 1] = 0 /\ bits[a + 1] = 1
    BY <1>1, <1>2, <2>1 DEF IsParameter
  <2> QED
    BY <2>2
<1>3. ~(j < h) /\ ~(h < j)
  BY <1>1, <1>2
<1> QED
  BY <1>1, <1>3

\* Where parameters begin, in order.
Starts(bits) == Ascending({i \in DOMAIN bits : \E j \in DOMAIN bits : IsParameter(bits, i, j)})

\* The parameters begin where the template has its placeholders.
LEMMA StartsAreStars ==
    ASSUME NEW m, NEW bits, Masked(m, bits),
           NEW kept, kept = Ascending(KeptBy(bits)), NEW t, t = templateFromMask(m, bits),
           NEW n, n = placeholderCount(t), NEW c, c = Cut(t)
    PROVE  Starts(bits) = [r \in 1 .. n |-> kept[c[r + 1]]]
<1>1. PICK size, starts : size = Len(m) /\ starts = Starts(bits)
  OBVIOUS
<1> DEFINE I == {i \in DOMAIN bits : \E j \in DOMAIN bits : IsParameter(bits, i, j)}
           u == [r \in 1 .. n |-> kept[c[r + 1]]]
<1>2. /\ m \in Seq(Symbols) /\ bits \in Seq({0, 1}) /\ Len(bits) = size /\ size \in Nat
      /\ \A i \in 1 .. size : bits[i] \in {0, 1}
      /\ DOMAIN bits = 1 .. size
  BY <1>1 DEF Masked
<1>3. /\ IsKept(kept, KeptBy(bits), size) /\ IsRendered(t, m, bits, kept)
  BY <1>1, <1>2, TemplateTypes
<1>4. /\ t \in Seq(Symbols) /\ Len(t) = Len(kept) /\ Len(kept) \in Nat /\ DOMAIN t = 1 .. Len(kept)
      /\ DOMAIN kept = 1 .. Len(kept) /\ Ascends(kept)
      /\ \A i \in KeptBy(bits) : \E h \in 1 .. Len(kept) : i = kept[h]
  BY <1>3 DEF IsKept, IsRendered
<1>5. /\ n \in Nat
      /\ \A j \in 2 .. n + 1 : c[j] \in 1 .. Len(t)
      /\ Stars(t) = {c[j] : j \in 2 .. n + 1}
  <2>1. IsCut(t, n, c)
    BY <1>4, CutFacts
  <2> QED
    BY <2>1, Zenon DEF IsCut
<1>6. \A i, j \in 1 .. n + 2 : i < j => c[i] < c[j]
  BY <1>4, CutsAscend
<1>7. /\ \A h \in 1 .. Len(t) : kept[h] \in 1 .. size
      /\ \A h \in 1 .. Len(t) : t[h] = "*" <=> bits[kept[h]] = 1
      /\ \A h \in 1 .. Len(t) : t[h] = "*" =>
            \E y \in 1 .. size : IsParameter(bits, kept[h], y)
  <2>1. PICK reach : reach = ReachOf(m, kept)
    OBVIOUS
  <2>2. ASSUME NEW h \in 1 .. Len(t)
        PROVE  /\ kept[h] \in 1 .. size
               /\ t[h] = "*" <=> bits[kept[h]] = 1
               /\ t[h] = "*" => reach[h] \in 1 .. size /\ IsParameter(bits, kept[h], reach[h])
    BY <1>1, <2>1, ReachSteps
  <2> QED
    BY <2>2
<1>8. /\ u \in Seq(Nat) /\ Len(u) = n /\ DOMAIN u = 1 .. n
      /\ \A r \in 1 .. n : r + 1 \in 2 .. n + 1 /\ c[r + 1] \in 1 .. Len(t) /\ u[r] = kept[c[r + 1]]
  <2>1. \A r \in 1 .. n : r + 1 \in 2 .. n + 1 /\ c[r + 1] \in 1 .. Len(t)
    BY <1>5
  <2>2. u \in [1 .. n -> Nat]
    BY <1>7, <2>1
  <2> HIDE DEF u
  <2>3. u \in Seq(Nat) /\ Len(u) = n /\ DOMAIN u = 1 .. n
    BY <1>5, <2>2, FunctionIsSeq
  <2> QED
    BY <2>1, <2>3 DEF u
<1> HIDE DEF u
<1>9. Ascends(u)
  <2>1. ASSUME NEW a \in 1 .. n, NEW b \in 1 .. n, a < b
        PROVE  u[a] < u[b]
    <3>1. a + 1 \in 1 .. n + 2 /\ b + 1 \in 1 .. n + 2 /\ a + 1 < b + 1
      BY <1>5, <2>1
    <3>2. c[a + 1] < c[b + 1]
      BY <1>6, <3>1
    <3>3. c[a + 1] \in DOMAIN kept /\ c[b + 1] \in DOMAIN kept
      BY <1>4, <1>8
    <3>4. kept[c[a + 1]] < kept[c[b + 1]]
      BY <1>4, <3>2, <3>3 DEF Ascends
    <3> QED
      BY <1>8, <3>4
  <2> QED
    BY <1>8, <2>1 DEF Ascends
<1>10. ASSUME NEW x
       PROVE  x \in I <=> \E r \in 1 .. n : x = u[r]
  <2>1. ASSUME x \in I
        PROVE  \E r \in 1 .. n : x = u[r]
    <3>1. PICK j \in 1 .. size : x \in 1 .. size /\ IsParameter(bits, x, j)
      BY <1>2, <2>1
    <3>2. bits[x] = 1 /\ (x = 1 \/ bits[x - 1] = 0)
      BY <1>2, <3>1 DEF IsParameter
    <3>3. x \in KeptBy(bits)
      BY <1>2, <3>1, <3>2 DEF KeptBy
    <3>4. PICK h \in 1 .. Len(kept) : x = kept[h]
      BY <1>4, <3>3
    <3>5. h \in Stars(t)
      BY <1>4, <1>7, <3>2, <3>4 DEF Stars
    <3>6. PICK j2 \in 2 .. n + 1 : h = c[j2]
      BY <1>5, <3>5
    <3>7. j2 - 1 \in 1 .. n /\ (j2 - 1) + 1 = j2
      BY <1>5
    <3>8. u[j2 - 1] = x
      BY <1>8, <3>4, <3>6, <3>7
    <3> QED
      BY <3>7, <3>8
  <2>2. ASSUME NEW r \in 1 .. n, x = u[r]
        PROVE  x \in I
    <3>1. c[r + 1] \in Stars(t) /\ c[r + 1] \in 1 .. Len(t) /\ x = kept[c[r + 1]]
      BY <1>5, <1>8, <2>2
    <3>2. t[c[r + 1]] = "*"
      BY <3>1 DEF Stars
    <3> QED
      BY <1>2, <1>7, <3>1, <3>2
  <2> QED
    BY <2>1, <2>2
<1>11. I \in SUBSET (1 .. size)
  BY <1>2
<1> HIDE DEF I
<1>12. starts \in Seq(1 .. size) /\ ToSet(starts) = I /\ Ascends(starts)
  <2>1. starts = Ascending(I)
    BY <1>1 DEF I, Starts
  <2> QED
    BY <1>2, <1>11, <2>1, AscendingFacts
<1>13. ToSet(u) = I
  <2>1. \A x : x \in ToSet(u) <=> \E r \in 1 .. n : x = u[r]
    BY <1>8, SeqRange
  <2> QED
    BY <1>10, <2>1
<1>14. starts \in Seq(Nat)
  <2>1. 1 .. size \subseteq Nat
    BY <1>2
  <2> QED
    BY <1>12, <2>1, SeqLarger
<1>15. starts = u
  BY <1>8, <1>9, <1>12, <1>13, <1>14, AscendingUnique
<1> QED
  BY <1>1, <1>15 DEF u

\* The arguments of a mask are the bytes its template's placeholders reach; none
\* is empty.
LEMMA MaskReaches ==
    ASSUME NEW m, NEW bits, Masked(m, bits),
           NEW t, t = templateFromMask(m, bits), NEW args, args = argsFromMask(m, bits),
           NEW kept, kept = Ascending(KeptBy(bits)), NEW reach, reach = ReachOf(m, kept)
    PROVE  Reaches(t, m, reach, args)
<1>1. PICK size, n, c : size = Len(m) /\ n = placeholderCount(t) /\ c = Cut(t)
  OBVIOUS
<1> DEFINE starts == Ascending({i \in DOMAIN bits : \E j \in DOMAIN bits : IsParameter(bits, i, j)})
           End(i) == CHOOSE j \in DOMAIN bits : IsParameter(bits, i, j)
<1>2. /\ m \in Seq(Symbols) /\ bits \in Seq({0, 1}) /\ Len(bits) = size /\ size \in Nat
      /\ DOMAIN bits = 1 .. size
  BY <1>1 DEF Masked
<1>3. /\ IsKept(kept, KeptBy(bits), size) /\ IsRendered(t, m, bits, kept)
  BY <1>1, <1>2, TemplateTypes
<1>4. /\ t \in Seq(Symbols) /\ Len(t) = Len(kept) /\ Len(kept) \in Nat
      /\ Len(kept) > 0 => \A i \in KeptBy(bits) : kept[1] <= i
      /\ \A i \in KeptBy(bits) : \E h \in 1 .. Len(kept) : i = kept[h]
      /\ \A h \in 1 .. Len(kept) : kept[h] \in 1 .. size
  BY <1>3 DEF IsKept, IsRendered
<1>5. \A h \in 1 .. Len(t) :
         /\ kept[h] \in 1 .. size /\ reach[h - 1] = kept[h] - 1
         /\ reach[h] \in 1 .. size /\ kept[h] <= reach[h]
         /\ t[h] = "*" <=> bits[kept[h]] = 1
         /\ t[h] # "*" => reach[h] = kept[h] /\ m[kept[h]] = t[h]
         /\ t[h] = "*" => IsParameter(bits, kept[h], reach[h])
  BY <1>1, ReachSteps
<1>6. /\ n \in Nat
      /\ \A j \in 2 .. n + 1 : c[j] \in 1 .. Len(t)
      /\ Stars(t) = {c[j] : j \in 2 .. n + 1}
  <2>1. IsCut(t, n, c)
    BY <1>1, <1>4, CutFacts
  <2> QED
    BY <2>1, Zenon DEF IsCut
<1>7. reach[0] = 0 /\ reach[Len(t)] = size
  <2>1. CASE Len(t) = 0
    <3>1. size = 0
      <4> SUFFICES ASSUME size > 0
                   PROVE  FALSE
        BY <1>2
      <4>1. 1 \in KeptBy(bits)
        BY <1>2 DEF KeptBy
      <4> QED
        BY <1>4, <2>1, <4>1
    <3> QED
      BY <1>1, <1>4, <2>1, <3>1 DEF ReachOf
  <2>2. CASE Len(t) # 0
    <3>1. 1 \in 1 .. Len(t) /\ kept[1] \in 1 .. size
      BY <1>4, <2>2
    <3>2. 1 \in KeptBy(bits)
      BY <1>2, <3>1 DEF KeptBy
    <3>3. kept[1] = 1
      BY <1>4, <2>2, <3>1, <3>2
    <3>4. reach[1 - 1] = kept[1] - 1
      BY <1>5, <3>1
    <3>5. reach[0] = 0
      BY <3>3, <3>4
    <3>6. reach[Len(t)] = size
      BY <1>1, <1>4 DEF ReachOf
    <3> QED
      BY <3>5, <3>6
  <2> QED
    BY <2>1, <2>2
<1>8. reach \in [0 .. Len(t) -> 0 .. Len(m)]
  <2>1. ASSUME NEW h \in 0 .. Len(t)
        PROVE  reach[h] \in 0 .. size
    <3>1. h = 0 \/ h \in 1 .. Len(t)
      BY <1>4
    <3> QED
      BY <1>2, <1>5, <1>7, <3>1
  <2>2. reach = [h \in 0 .. Len(t) |-> reach[h]]
    BY <1>4, Zenon DEF ReachOf
  <2> QED
    BY <1>1, <2>1, <2>2
<1>9. \A h \in 1 .. Len(t) :
         /\ reach[h - 1] <= reach[h]
         /\ t[h] # "*" => reach[h] = reach[h - 1] + 1 /\ m[reach[h]] = t[h]
  <2>1. ASSUME NEW h \in 1 .. Len(t)
        PROVE  /\ reach[h - 1] <= reach[h]
               /\ t[h] # "*" => reach[h] = reach[h - 1] + 1 /\ m[reach[h]] = t[h]
    <3>1. PICK x, y : x = kept[h] /\ y = reach[h]
      OBVIOUS
    <3>2. /\ x \in 1 .. size /\ reach[h - 1] = x - 1 /\ y \in 1 .. size /\ x <= y
          /\ t[h] # "*" => y = x /\ m[x] = t[h]
      BY <1>5, <3>1
    <3> QED
      BY <1>2, <3>1, <3>2
  <2> QED
    BY <2>1
<1>10. starts = [r \in 1 .. n |-> kept[c[r + 1]]]
  <2>1. starts = Starts(bits)
    BY DEF Starts
  <2>2. Starts(bits) = [r \in 1 .. n |-> kept[c[r + 1]]]
    BY <1>1, StartsAreStars
  <2> HIDE DEF starts
  <2> QED
    BY <2>1, <2>2
<1>11. args = [r \in DOMAIN starts |-> SubSeq(m, starts[r], End(starts[r]))]
  BY Zenon DEF argsFromMask
<1> HIDE DEF starts
<1>12. args = [r \in 1 .. n |-> SubSeq(m, kept[c[r + 1]], End(kept[c[r + 1]]))]
  BY <1>10, <1>11
<1>13. ASSUME NEW r \in 1 .. n
       PROVE  args[r] = SubSeq(m, reach[c[r + 1] - 1] + 1, reach[c[r + 1]])
  <2>1. PICK h : h = c[r + 1]
    OBVIOUS
  <2>2. h \in 1 .. Len(t) /\ h \in Stars(t)
    <3>1. r + 1 \in 2 .. n + 1
      BY <1>6
    <3> QED
      BY <1>6, <2>1, <3>1
  <2>3. t[h] = "*"
    BY <2>2 DEF Stars
  <2>4. kept[h] \in 1 .. size /\ reach[h] \in 1 .. size /\ IsParameter(bits, kept[h], reach[h])
    BY <1>5, <2>2, <2>3
  <2>5. End(kept[h]) \in DOMAIN bits /\ IsParameter(bits, kept[h], End(kept[h]))
    BY <1>2, <2>4
  <2>6. End(kept[h]) = reach[h]
    <3> HIDE DEF End
    <3> QED
      BY <1>2, <2>4, <2>5, OneEnd
  <2>7. reach[h - 1] + 1 = kept[h]
    BY <1>5, <2>2, <2>4
  <2> HIDE DEF End
  <2> QED
    BY <1>12, <2>1, <2>6, <2>7
<1> HIDE DEF End
<1>14. Len(args) = n /\ DOMAIN args = 1 .. n
  BY <1>6, <1>12
<1> QED
  BY <1>1, <1>7, <1>8, <1>9, <1>13, <1>14 DEF Reaches

\* No argument of a mask is empty.
LEMMA ArgsFilled ==
    ASSUME NEW m \in Seq(Symbols), NEW bits \in Seq({0, 1}), Len(bits) = Len(m),
           NEW args, args = argsFromMask(m, bits)
    PROVE  <<>> \notin ToSet(args)
<1> DEFINE I == {i \in DOMAIN bits : \E j \in DOMAIN bits : IsParameter(bits, i, j)}
           starts == Ascending(I)
           End(i) == CHOOSE j \in DOMAIN bits : IsParameter(bits, i, j)
<1>1. DOMAIN bits = 1 .. Len(m) /\ Len(m) \in Nat
  OBVIOUS
<1>2. starts \in Seq(1 .. Len(m)) /\ ToSet(starts) = I /\ DOMAIN starts = 1 .. Len(starts)
  <2>1. I \in SUBSET (1 .. Len(m))
    BY <1>1
  <2> HIDE DEF I
  <2>2. starts \in Seq(1 .. Len(m)) /\ ToSet(starts) = I
    BY <1>1, <2>1, AscendingFacts
  <2> QED
    BY <2>2
<1>3. args = [r \in DOMAIN starts |-> SubSeq(m, starts[r], End(starts[r]))]
  BY Zenon DEF argsFromMask
<1>4. ASSUME NEW r \in DOMAIN starts
      PROVE  args[r] # <<>>
  <2>1. PICK i : i = starts[r]
    OBVIOUS
  <2>2. i \in I
    <3>1. \A x : x \in ToSet(starts) <=> \E h \in 1 .. Len(starts) : x = starts[h]
      <4> HIDE DEF starts
      <4> QED
        BY <1>2, SeqRange
    <3> HIDE DEF I, starts
    <3> QED
      BY <1>2, <2>1, <3>1
  <2>3. End(i) \in 1 .. Len(m) /\ IsParameter(bits, i, End(i)) /\ i \in 1 .. Len(m)
    BY <1>1, <2>2
  <2>4. PICK j : j = End(i)
    OBVIOUS
  <2>5. i <= j
    BY <2>3, <2>4 DEF IsParameter
  <2>6. PICK x : x = SubSeq(m, i, j)
    OBVIOUS
  <2>7. Len(x) > 0
    BY <1>1, <2>3, <2>4, <2>5, <2>6
  <2>8. x # <<>>
    BY <2>7
  <2>9. args[r] = x
    BY <1>3, <2>1, <2>4, <2>6, Zenon
  <2> QED
    BY <2>8, <2>9
<1>5. ToSet(args) = {args[r] : r \in DOMAIN starts}
  BY <1>3, Zenon DEF ToSet
<1> HIDE DEF starts
<1> QED
  BY <1>4, <1>5

\* A masked line decodes to itself.
LEMMA MaskRebuilds ==
    ASSUME NEW m, NEW bits, Masked(m, bits),
           NEW t, t = templateFromMask(m, bits), NEW args, args = argsFromMask(m, bits),
           NEW ps, ps = parts(t)
    PROVE  /\ Len(args) = Len(ps) - 1
           /\ FlattenSeq(Interleaved(ps, args)) = m
<1>1. PICK kept, reach : kept = Ascending(KeptBy(bits)) /\ reach = ReachOf(m, kept)
  OBVIOUS
<1>2. Reaches(t, m, reach, args)
  BY <1>1, MaskReaches
<1>3. m \in Seq(Symbols) /\ bits \in Seq({0, 1}) /\ Len(bits) = Len(m)
  BY DEF Masked
<1>4. t \in Seq(Symbols)
  <2>1. IsRendered(t, m, bits, kept)
    BY <1>1, <1>3, TemplateTypes
  <2> QED
    BY <2>1, Zenon DEF IsRendered
<1> QED
  BY <1>2, <1>3, <1>4, ReachesFill

\* And so does a line that is its own template.
LEMMA LiteralRebuilds ==
    ASSUME NEW m \in Seq(Symbols), \A h \in 1 .. Len(m) : m[h] # "*",
           NEW ps, ps = parts(m)
    PROVE  /\ Len(<<>>) = Len(ps) - 1
           /\ FlattenSeq(Interleaved(ps, <<>>)) = m
<1>1. placeholderCount(m) = 0
  <2>1. {j \in DOMAIN m : m[j] = "*"} = {}
    OBVIOUS
  <2> QED
    BY <2>1, FS_EmptySet DEF placeholderCount
<1>2. PICK reach : reach = [h \in 0 .. Len(m) |-> h]
  OBVIOUS
<1>3. Reaches(m, m, reach, <<>>)
  <2>1. Len(m) \in Nat /\ Len(<<>>) = 0 /\ DOMAIN <<>> = 1 .. 0
    OBVIOUS
  <2>2. reach \in [0 .. Len(m) -> 0 .. Len(m)] /\ reach[0] = 0 /\ reach[Len(m)] = Len(m)
    BY <1>2, <2>1
  <2>3. \A h \in 1 .. Len(m) : /\ reach[h - 1] <= reach[h]
                               /\ reach[h] = reach[h - 1] + 1 /\ m[reach[h]] = m[h]
    BY <1>2, <2>1
  <2> QED
    BY <1>1, <2>1, <2>2, <2>3 DEF Reaches
<1> QED
  BY <1>3, ReachesFill

-----------------------------------------------------------------------------
\* The template of a row, of which no slice is a placeholder, is the one its
\* mask gives, and is normalised.
LEMMA RowTemplate ==
    ASSUME NEW row, NEW common, NEW m, m = Text(row), NEW bits, bits = parameterMask(row, common),
           m \in Seq(Symbols), DOMAIN row = 1 .. Len(m)
    PROVE  /\ bits \in Seq({0, 1}) /\ Len(bits) = Len(m)
           /\ templateFromMask(m, bits) = templateOf(row, common)
<1>1. PICK n : n = Len(m)
  OBVIOUS
<1>2. n \in Nat /\ DOMAIN row = 1 .. n /\ m = [j \in 1 .. n |-> row[j].slice]
  BY <1>1 DEF Text
<1>3. bits = [j \in 1 .. n |-> IF row[j].slice \in common THEN 0 ELSE 1]
  BY <1>2 DEF parameterMask
<1>4. bits \in Seq({0, 1}) /\ Len(bits) = n /\ DOMAIN bits = 1 .. n
  <2>1. bits \in [1 .. n -> {0, 1}]
    BY <1>3
  <2> QED
    BY <1>2, <2>1, FunctionIsSeq
<1>5. \A h \in 1 .. n : /\ m[h] = row[h].slice
                        /\ bits[h] = 0 <=> row[h].slice \in common
  BY <1>2, <1>3
<1>6. KeptBy(bits) = {j \in DOMAIN row :
                        row[j].slice \in common \/ j = 1 \/ row[j - 1].slice \in common}
  <2>1. ASSUME NEW j \in 1 .. n
        PROVE  (bits[j] = 0 \/ j = 1 \/ bits[j - 1] = 0)
                 <=> (row[j].slice \in common \/ j = 1 \/ row[j - 1].slice \in common)
    <3>1. j # 1 => j - 1 \in 1 .. n
      BY <1>2
    <3> QED
      BY <1>5, <3>1
  <2> QED
    BY <1>2, <1>4, <2>1 DEF KeptBy
<1>7. PICK kept : kept = Ascending(KeptBy(bits))
  OBVIOUS
<1>8. DOMAIN kept = 1 .. Len(kept) /\ \A h \in DOMAIN kept : kept[h] \in 1 .. n
  <2>1. IsKept(kept, KeptBy(bits), Len(m))
    BY <1>1, <1>4, <1>7, TemplateTypes
  <2> QED
    BY <1>1, <2>1 DEF IsKept
<1>9. templateFromMask(m, bits) = [h \in DOMAIN kept |-> IF bits[kept[h]] = 0 THEN m[kept[h]] ELSE "*"]
  BY <1>7, Zenon DEF templateFromMask, KeptBy
<1>10. templateOf(row, common)
          = [h \in DOMAIN kept |-> IF row[kept[h]].slice \in common THEN row[kept[h]].slice ELSE "*"]
  BY <1>6, <1>7, Zenon DEF templateOf
<1>11. \A h \in DOMAIN kept : /\ m[kept[h]] = row[kept[h]].slice
                              /\ bits[kept[h]] = 0 <=> row[kept[h]].slice \in common
  BY <1>5, <1>8
<1> QED
  BY <1>1, <1>4, <1>9, <1>10, <1>11

\* It has no two placeholders together, so normalizeTemplate leaves it alone.
LEMMA RenderedIsNormal ==
    ASSUME NEW m, NEW bits, Masked(m, bits), NEW t, t = templateFromMask(m, bits)
    PROVE  normalizeTemplate(t) = t
<1>1. PICK size, kept : size = Len(m) /\ kept = Ascending(KeptBy(bits))
  OBVIOUS
<1>2. /\ m \in Seq(Symbols) /\ bits \in Seq({0, 1}) /\ Len(bits) = size /\ size \in Nat
      /\ \A i \in 1 .. size : bits[i] \in {0, 1}
      /\ \A i \in 1 .. size : m[i] # "*"
      /\ DOMAIN bits = 1 .. size
  BY <1>1 DEF Masked
<1>3. /\ IsKept(kept, KeptBy(bits), size) /\ IsRendered(t, m, bits, kept)
  BY <1>1, <1>2, TemplateTypes
<1>4. /\ t \in Seq(Symbols) /\ Len(t) = Len(kept) /\ Len(kept) \in Nat /\ DOMAIN t = 1 .. Len(t)
      /\ \A h \in 1 .. Len(t) : t[h] = IF bits[kept[h]] = 0 THEN m[kept[h]] ELSE "*"
      /\ \A h \in 1 .. Len(t) : kept[h] \in KeptBy(bits) /\ kept[h] \in 1 .. size
      /\ \A h \in 1 .. Len(t) - 1 : kept[h] < kept[h + 1]
                                      /\ \A x \in KeptBy(bits) : x <= kept[h] \/ x >= kept[h + 1]
  <2>1. t \in Seq(Symbols) /\ Len(t) = Len(kept)
    BY <1>3 DEF IsRendered
  <2>2. DOMAIN t = 1 .. Len(t) /\ Len(t) \in Nat
    BY <2>1
  <2> QED
    BY <1>3, <2>1, <2>2 DEF IsKept, IsRendered
<1>5. \A i \in 1 .. size : i \in KeptBy(bits) <=> (bits[i] = 0 \/ i = 1 \/ bits[i - 1] = 0)
  BY <1>2 DEF KeptBy
<1>6. ASSUME NEW h \in 2 .. Len(t), t[h] = "*"
      PROVE  t[h - 1] # "*"
  <2>1. h - 1 \in 1 .. Len(t) - 1 /\ (h - 1) + 1 = h /\ h \in 1 .. Len(t) /\ h - 1 \in 1 .. Len(t)
    BY <1>4
  <2>2. PICK x, y : x = kept[h] /\ y = kept[h - 1]
    OBVIOUS
  <2>3. /\ x \in 1 .. size /\ y \in 1 .. size /\ x \in KeptBy(bits) /\ y < x
        /\ \A z \in KeptBy(bits) : z <= y \/ z >= x
    BY <1>4, <2>1, <2>2
  <2>4. bits[x] # 0
    BY <1>2, <1>4, <1>6, <2>1, <2>2, <2>3
  <2>5. x # 1 /\ x - 1 \in 1 .. size
    BY <1>2, <2>3
  <2>6. bits[x - 1] = 0
    BY <1>5, <2>3, <2>4, <2>5
  <2>7. x - 1 \in KeptBy(bits)
    BY <1>5, <2>5, <2>6
  <2>8. y = x - 1
    BY <2>3, <2>5, <2>7
  <2>9. t[h - 1] = m[y] /\ m[y] # "*"
    BY <1>2, <1>4, <2>1, <2>2, <2>3, <2>6, <2>8
  <2> QED
    BY <2>9
<1>7. {j \in DOMAIN t : t[j] # "*" \/ j = 1 \/ t[j - 1] # "*"} = 1 .. Len(t)
  <2>1. ASSUME NEW j \in 1 .. Len(t)
        PROVE  t[j] # "*" \/ j = 1 \/ t[j - 1] # "*"
    <3>1. j # 1 => j \in 2 .. Len(t)
      BY <1>4
    <3> QED
      BY <1>6, <3>1
  <2> QED
    BY <1>4, <2>1
<1>8. PICK all, id : all = Ascending(1 .. Len(t)) /\ id = [j \in 1 .. Len(t) |-> j]
  OBVIOUS
<1>9. all = id
  <2>1. all \in Seq(1 .. Len(t)) /\ ToSet(all) = 1 .. Len(t) /\ Ascends(all)
    BY <1>4, <1>8, AscendingFacts
  <2>2. id \in [1 .. Len(t) -> 1 .. Len(t)]
    BY <1>8
  <2>3. id \in Seq(1 .. Len(t)) /\ Len(id) = Len(t) /\ DOMAIN id = 1 .. Len(t)
    BY <1>4, <2>2, FunctionIsSeq
  <2>4. ToSet(id) = 1 .. Len(t)
    <3>1. \A x : x \in ToSet(id) <=> \E i \in 1 .. Len(id) : x = id[i]
      BY <2>3, SeqRange
    <3>2. \A x : x \in ToSet(id) <=> x \in 1 .. Len(t)
      <4>1. \A i \in 1 .. Len(id) : id[i] = i
        BY <1>8, <2>3
      <4> QED
        BY <2>3, <3>1, <4>1
    <3> QED
      BY <3>2
  <2>5. Ascends(id)
    BY <1>8, <2>3 DEF Ascends
  <2>6. 1 .. Len(t) \subseteq Nat
    BY <1>4
  <2>7. all \in Seq(Nat) /\ id \in Seq(Nat)
    BY <2>1, <2>3, <2>6, SeqLarger
  <2> QED
    BY <2>1, <2>4, <2>5, <2>7, AscendingUnique
<1>10. normalizeTemplate(t) = [j \in DOMAIN all |-> t[all[j]]]
  BY <1>7, <1>8, Zenon DEF normalizeTemplate
<1>11. normalizeTemplate(t) = [j \in 1 .. Len(t) |-> t[j]]
  <2>1. DOMAIN all = 1 .. Len(t) /\ \A j \in 1 .. Len(t) : all[j] = j
    BY <1>8, <1>9
  <2> QED
    BY <1>10, <2>1
<1> QED
  BY <1>4, <1>11

\* Every template of a list is kept, normalised.
LEMMA KeptHolds ==
    ASSUME NEW raw, NEW n \in Nat, DOMAIN raw = 1 .. n, NEW i \in 1 .. n
    PROVE  normalizeTemplate(raw[i]) \in ToSet(Kept(raw))
<1>1. PICK norm : norm = [j \in DOMAIN raw |-> normalizeTemplate(raw[j])]
  OBVIOUS
<1>2. PICK first : first = Ascending({j \in DOMAIN raw : \A h \in 1 .. j - 1 : norm[h] # norm[j]})
  OBVIOUS
<1>3. Kept(raw) = [j \in DOMAIN first |-> norm[first[j]]]
  BY <1>1, <1>2 DEF Kept
<1>4. DOMAIN norm = 1 .. n /\ norm[i] = normalizeTemplate(raw[i])
  BY <1>1
<1> DEFINE same == {h \in 1 .. n : norm[h] = norm[i]}
<1>5. PICK p \in same : \A h \in same : p <= h
  <2>1. i \in same /\ same \in SUBSET Nat
    OBVIOUS
  <2> HIDE DEF same
  <2> QED
    BY <2>1, LeastNat
<1>6. p \in {j \in DOMAIN raw : \A h \in 1 .. j - 1 : norm[h] # norm[j]} /\ norm[p] = norm[i]
  BY <1>5
<1>7. \A x : x \in {j \in DOMAIN raw : \A h \in 1 .. j - 1 : norm[h] # norm[j]}
              => \E h \in DOMAIN first : x = first[h]
  <2>1. {j \in DOMAIN raw : \A h \in 1 .. j - 1 : norm[h] # norm[j]} \in SUBSET (1 .. n)
    OBVIOUS
  <2>2. /\ IsKept(first, {j \in DOMAIN raw : \A h \in 1 .. j - 1 : norm[h] # norm[j]}, n)
    BY <1>2, <2>1, KeptPlaces
  <2> QED
    BY <2>2, Zenon DEF IsKept
<1>8. PICK h \in DOMAIN first : p = first[h]
  BY <1>6, <1>7
<1>9. Kept(raw)[h] = normalizeTemplate(raw[i]) /\ h \in DOMAIN Kept(raw)
  BY <1>3, <1>4, <1>6, <1>8
<1> QED
  BY <1>9, Zenon DEF ToSet

\* SetToSeq lists a finite set.
LEMMA ListOfSet ==
    ASSUME NEW T, IsFiniteSet(T), NEW s, s = SetToSeq(T)
    PROVE  s \in Seq(T) /\ DOMAIN s = 1 .. Cardinality(T) /\ Cardinality(T) \in Nat
           /\ \A x \in T : \E i \in 1 .. Cardinality(T) : x = s[i]
<1>1. PICK n : n = Cardinality(T)
  OBVIOUS
<1>2. n \in Nat
  BY <1>1, FS_CardinalityType
<1>3. IsFiniteSet(1 .. n) /\ Cardinality(1 .. n) = n
  BY <1>2, CountFromOne
<1>4. \E f \in [1 .. n -> T] : IsInjective(f)
  <2>1. ExistsBijection(1 .. n, T)
    BY <1>1, <1>3, FS_SameCardinalityBij
  <2> QED
    BY <2>1 DEF ExistsBijection, Bijection, Injection, IsInjective
<1>5. s \in [1 .. n -> T] /\ IsInjective(s)
  BY <1>1, <1>4, Zenon DEF SetToSeq
<1>6. s \in Injection(1 .. n, T)
  BY <1>5, Zenon DEF Injection
<1>7. s \in Surjection(1 .. n, T)
  BY <1>1, <1>3, <1>6, FS_Injection
<1> QED
  BY <1>1, <1>2, <1>5, <1>7, FunctionIsSeq DEF Surjection

-----------------------------------------------------------------------------
\* What training is given.
Setting ==
    /\ corpus \in Corpora /\ sample \in Samples
    /\ DOMAIN anchors = ToSet(corpus)
    /\ \A m \in ToSet(corpus) : Whites(m) \subseteq anchors[m] /\ anchors[m] \subseteq ToSet(m)

\* A line of the corpus and its text.
LEMMA LineFacts ==
    ASSUME Setting
    PROVE  /\ DOMAIN corpus = 1 .. Len(corpus) /\ Len(corpus) \in Nat
           /\ \A i \in 1 .. Len(corpus) :
                 /\ corpus[i] \in ToSet(corpus)
                 /\ Text(corpus[i]) \in Seq(Symbols)
                 /\ DOMAIN corpus[i] = 1 .. Len(Text(corpus[i]))
                 /\ \A j \in 1 .. Len(corpus) : Text(corpus[i]) = Text(corpus[j]) => corpus[i] = corpus[j]
           /\ IsFiniteSet(ToSet(corpus))
           /\ \A m : m \in ToSet(corpus) <=> \E i \in 1 .. Len(corpus) : m = corpus[i]
<1>1. PICK L, W : L = corpus /\ W = [kind : STRING, slice : STRING]
  OBVIOUS
<1>2. /\ L \in Seq(Seq(W))
      /\ \A m, n \in ToSet(L) : Text(m) = Text(n) => m = n
  BY <1>1, CorpusCodecAssumption DEF Setting
<1>3. DOMAIN L = 1 .. Len(L) /\ Len(L) \in Nat /\ \A i \in 1 .. Len(L) : L[i] \in Seq(W)
  BY <1>2
<1>4. IsFiniteSet(ToSet(L)) /\ \A m : m \in ToSet(L) <=> \E i \in 1 .. Len(L) : m = L[i]
  BY <1>2, SeqRange
<1>5. ASSUME NEW i \in 1 .. Len(L)
      PROVE  Text(L[i]) \in Seq(Symbols) /\ DOMAIN L[i] = 1 .. Len(Text(L[i]))
  <2>1. PICK row : row = L[i]
    OBVIOUS
  <2>2. row \in Seq(W) /\ DOMAIN row = 1 .. Len(row) /\ Len(row) \in Nat
    BY <1>3, <2>1
  <2>3. \A j \in 1 .. Len(row) : row[j].slice \in Symbols
    <3>1. \A j \in 1 .. Len(row) : row[j] \in W
      BY <2>2
    <3> QED
      BY <1>1, <3>1 DEF Symbols
  <2>4. Text(row) \in [1 .. Len(row) -> Symbols]
    BY <2>2, <2>3 DEF Text
  <2>5. Text(row) \in Seq(Symbols) /\ Len(Text(row)) = Len(row)
    BY <2>2, <2>4, FunctionIsSeq
  <2> QED
    BY <2>1, <2>2, <2>5
<1> QED
  BY <1>1, <1>2, <1>3, <1>4, <1>5

\* The lines of a cluster, in order.
LEMMA IndicesFacts ==
    ASSUME Setting, NEW c \in Clusters, NEW all, all = Indices(c), NEW n, n = Len(all)
    PROVE  /\ all \in Seq(1 .. Len(corpus)) /\ n \in Nat \ {0} /\ Ascends(all)
           /\ \A i \in 1 .. Len(corpus) :
                 anchors[corpus[i]] = c <=> \E p \in 1 .. n : i = all[p]
           /\ \A p \in 1 .. n : all[p] \in 1 .. Len(corpus) /\ anchors[corpus[all[p]]] = c
<1>1. /\ DOMAIN corpus = 1 .. Len(corpus) /\ Len(corpus) \in Nat
      /\ \A m : m \in ToSet(corpus) <=> \E i \in 1 .. Len(corpus) : m = corpus[i]
  BY LineFacts
<1> DEFINE I == {i \in DOMAIN corpus : anchors[corpus[i]] = c}
<1>2. I \in SUBSET (1 .. Len(corpus)) /\ all = Ascending(I)
  BY <1>1 DEF Indices
<1>3. /\ \A i : i \in I <=> i \in 1 .. Len(corpus) /\ anchors[corpus[i]] = c
  BY <1>1
<1>4. PICK i \in 1 .. Len(corpus) : anchors[corpus[i]] = c
  BY <1>1 DEF Clusters
<1> HIDE DEF I
<1>5. all \in Seq(1 .. Len(corpus)) /\ ToSet(all) = I /\ Ascends(all)
  BY <1>1, <1>2, AscendingFacts
<1>6. n \in Nat /\ \A x : x \in I <=> \E p \in 1 .. n : x = all[p]
  BY <1>5, SeqRange
<1>7. n # 0
  BY <1>3, <1>4, <1>6
<1> QED
  BY <1>2, <1>3, <1>5, <1>6, <1>7

Full == sample.num = sample.den /\ ~MentionsPlaceholder

\* The lines s that the patterns of a cluster are made of, of all its lines.
IsSample(s, all) ==
    /\ s \in Seq(1 .. Len(corpus)) /\ Len(s) \in Nat \ {0}
    /\ \A p \in 1 .. Len(s) : \E q \in 1 .. Len(all) : s[p] = all[q]
    /\ \A p \in 1 .. Len(s) - 1 : s[p] < s[p + 1]
    /\ s[1] = all[1]
    /\ Len(s) > 1 => s[Len(s)] = all[Len(all)]
    /\ sample.num = sample.den => \A q \in 1 .. Len(all) : \E p \in 1 .. Len(s) : s[p] = all[q]

\* Whatever positions are sampled.
LEMMA SampleFacts ==
    ASSUME Setting, NEW c \in Clusters, NEW all, all = Indices(c),
           NEW pos \in samplePositions(Len(all), sample),
           NEW s, s = [p \in DOMAIN pos |-> all[pos[p] + 1]]
    PROVE  IsSample(s, all)
<1>1. PICK n, size : n = Len(all) /\ size = Len(corpus)
  OBVIOUS
<1>2. /\ all \in Seq(1 .. size) /\ n \in Nat \ {0} /\ Ascends(all)
      /\ DOMAIN all = 1 .. n /\ \A p \in 1 .. n : all[p] \in 1 .. size
  <2>1. /\ all \in Seq(1 .. size) /\ n \in Nat \ {0} /\ Ascends(all)
        /\ \A p \in 1 .. n : all[p] \in 1 .. size
    BY <1>1, IndicesFacts
  <2> QED
    BY <1>1, <2>1
<1>3. sample \in [num : Nat, den : Nat \ {0}] /\ sample.num <= sample.den
  BY CorpusCodecAssumption DEF Setting
<1>4. PICK l \in 1 .. n :
         /\ pos \in [1 .. l -> 0 .. n - 1]
         /\ \A i \in 1 .. l - 1 : pos[i] < pos[i + 1]
         /\ pos[1] = 0
         /\ l > 1 => pos[l] = n - 1
  <2>1. n \in Nat \ {0} /\ pos \in samplePositions(n, sample)
    BY <1>1, <1>2
  <2> QED
    BY <1>3, <2>1, PositionsCover
<1>5. /\ l \in Nat \ {0}
      /\ \A i \in 1 .. l : pos[i] + 1 \in 1 .. n /\ s[i] = all[pos[i] + 1] /\ s[i] \in 1 .. size
  <2>1. \A i \in 1 .. l : pos[i] + 1 \in 1 .. n
    BY <1>2, <1>4
  <2>2. \A i \in 1 .. l : s[i] = all[pos[i] + 1]
    BY <1>4
  <2> QED
    BY <1>2, <2>1, <2>2
<1>6. s \in Seq(1 .. size) /\ Len(s) = l
  <2>1. s = [p \in 1 .. l |-> s[p]]
    BY <1>4
  <2>2. s \in [1 .. l -> 1 .. size]
    BY <1>5, <2>1
  <2> QED
    BY <1>5, <2>2, FunctionIsSeq
<1>7. ASSUME NEW p \in 1 .. l - 1
      PROVE  s[p] < s[p + 1]
  <2>1. p \in 1 .. l /\ p + 1 \in 1 .. l
    BY <1>5
  <2>2. pos[p] < pos[p + 1] /\ pos[p] \in 0 .. n - 1 /\ pos[p + 1] \in 0 .. n - 1
    BY <1>4, <2>1
  <2>3. PICK x, y : x = pos[p] + 1 /\ y = pos[p + 1] + 1
    OBVIOUS
  <2>4. x \in 1 .. n /\ y \in 1 .. n /\ x < y
    <3>1. x \in 1 .. n /\ y \in 1 .. n
      BY <1>5, <2>1, <2>3
    <3>2. n \in Nat
      BY <1>2
    <3>3. pos[p] \in Int /\ pos[p + 1] \in Int
      BY <2>2, <3>2
    <3>4. x < y
      BY <2>2, <2>3, <3>3
    <3> QED
      BY <3>1, <3>4
  <2>5. all[x] < all[y]
    BY <1>2, <2>4 DEF Ascends
  <2> QED
    BY <1>5, <2>1, <2>3, <2>5
<1>8. s[1] = all[1]
  <2>1. 1 \in 1 .. l /\ pos[1] + 1 = 1
    BY <1>4, <1>5
  <2> QED
    BY <1>5, <2>1
<1>9. l > 1 => s[l] = all[n]
  <2> SUFFICES ASSUME l > 1
               PROVE  s[l] = all[n]
    OBVIOUS
  <2>1. l \in 1 .. l /\ pos[l] + 1 = n
    BY <1>2, <1>4, <1>5
  <2> QED
    BY <1>5, <2>1
<1>10. ASSUME sample.num = sample.den, NEW q \in 1 .. n
       PROVE  \E p \in 1 .. l : s[p] = all[q]
  <2>1. sample.num >= sample.den
    BY <1>3, <1>10
  <2>2. pos = [i \in 1 .. n |-> i - 1]
    BY <1>1, <2>1 DEF samplePositions
  <2>3. l = n
    <3>1. DOMAIN pos = 1 .. l /\ DOMAIN pos = 1 .. n
      BY <1>4, <2>2
    <3> QED
      BY <1>2, <1>5, <3>1
  <2>4. pos[q] + 1 = q /\ q \in 1 .. l
    BY <1>2, <2>2, <2>3
  <2> QED
    BY <1>5, <2>4
<1>11. \A p \in 1 .. l : \E q \in 1 .. n : s[p] = all[q]
  BY <1>5
<1> QED
  BY <1>1, <1>5, <1>6, <1>7, <1>8, <1>9, <1>10, <1>11 DEF IsSample

\* The slices a cluster's patterns keep, and the mask of a line.
Common(c) == sharedSlices(Filter, RowsAt(sampled[c]))
MaskOf(i) ==
    IF anchors[corpus[i]] = {} THEN <<>>
    ELSE parameterMask(corpus[i], Common(anchors[corpus[i]]))

\* What a parse gives training.
Patterned ==
    /\ \A c \in Clusters : IsSample(sampled[c], Indices(c))
    /\ masks = [i \in DOMAIN corpus |-> MaskOf(i)]
    /\ Full => \A i \in 1 .. Len(corpus) : anchors[corpus[i]] # {} =>
                   templateOf(corpus[i], Common(anchors[corpus[i]])) \in ToSet(known)

\* Without <*> in the corpus, a mask is one of a text without placeholders.
LEMMA LineMasked ==
    ASSUME Setting, NEW i \in 1 .. Len(corpus), NEW common,
           NEW bits, bits = parameterMask(corpus[i], common)
    PROVE  /\ bits \in Seq({0, 1}) /\ Len(bits) = Len(Text(corpus[i]))
           /\ templateFromMask(Text(corpus[i]), bits) = templateOf(corpus[i], common)
           /\ templateOf(corpus[i], common) \in Seq(Symbols)
           /\ ~MentionsPlaceholder =>
                 /\ Masked(Text(corpus[i]), bits)
                 /\ normalizeTemplate(templateOf(corpus[i], common)) = templateOf(corpus[i], common)
<1>1. PICK m, row : row = corpus[i] /\ m = Text(row)
  OBVIOUS
<1>2. m \in Seq(Symbols) /\ DOMAIN row = 1 .. Len(m) /\ row \in ToSet(corpus)
  BY <1>1, LineFacts
<1>3. /\ bits \in Seq({0, 1}) /\ Len(bits) = Len(m)
      /\ templateFromMask(m, bits) = templateOf(row, common)
  BY <1>1, <1>2, RowTemplate
<1>4. templateOf(row, common) \in Seq(Symbols)
  <2>1. IsRendered(templateFromMask(m, bits), m, bits, Ascending(KeptBy(bits)))
    BY <1>2, <1>3, TemplateTypes
  <2> QED
    BY <1>3, <2>1, Zenon DEF IsRendered
<1>5. ASSUME ~MentionsPlaceholder
      PROVE  Masked(m, bits) /\ normalizeTemplate(templateOf(row, common)) = templateOf(row, common)
  <2>1. \A h \in 1 .. Len(m) : m[h] # "*"
    <3>1. "*" \notin ToSet(m)
      BY <1>1, <1>2, <1>5 DEF MentionsPlaceholder
    <3>2. \A x : x \in ToSet(m) <=> \E h \in 1 .. Len(m) : x = m[h]
      BY <1>2, SeqRange
    <3> QED
      BY <3>1, <3>2
  <2>2. Masked(m, bits)
    BY <1>2, <1>3, <2>1 DEF Masked
  <2> QED
    BY <1>3, <2>2, RenderedIsNormal
<1> QED
  BY <1>1, <1>3, <1>4, <1>5

\* The templates of all clusters are a finite set.
LEMMA TemplatesFinite ==
    ASSUME NEW C, IsFiniteSet(C), NEW rows, NEW common,
           \A c \in C : \E n \in Nat : DOMAIN rows[c] = 1 .. n,
           NEW T, T = UNION {templatesForCluster(rows[c], common[c]) : c \in C}
    PROVE  IsFiniteSet(T)
<1>1. PICK f : f = [c \in C |-> templatesForCluster(rows[c], common[c])]
  OBVIOUS
<1>2. IsFiniteSet({f[c] : c \in C})
  BY <1>1, RangeBound
<1>3. T = UNION {f[c] : c \in C}
  BY <1>1
<1>4. ASSUME NEW c \in C
      PROVE  IsFiniteSet(f[c])
  <2>1. PICK n \in Nat : DOMAIN rows[c] = 1 .. n
    OBVIOUS
  <2>2. PICK g : g = [l \in 1 .. n |-> templateOf(rows[c][l], common[c])]
    OBVIOUS
  <2>3. IsFiniteSet({g[l] : l \in 1 .. n})
    <3>1. IsFiniteSet(1 .. n) /\ DOMAIN g = 1 .. n
      BY <2>2, CountFromOne
    <3> QED
      BY <3>1, RangeBound
  <2>4. f[c] = {g[l] : l \in 1 .. n}
    BY <1>1, <2>1, <2>2 DEF templatesForCluster
  <2> QED
    BY <2>3, <2>4
<1>5. \A F \in {f[c] : c \in C} : IsFiniteSet(F)
  BY <1>4
<1> QED
  BY <1>2, <1>3, <1>5, FS_UNION

\* The matcher's templates are normalised and different, and when patterns are
\* made of all rows they are those of every line.
LEMMA ParseGives ==
    ASSUME Setting, NEW smp, \A c \in Clusters : IsSample(smp[c], Indices(c)),
           NEW shared, shared = [c \in Clusters |-> sharedSlices(Filter, RowsAt(smp[c]))],
           NEW kn, kn = Kept(SetToSeq(UNION {templatesForCluster(RowsAt(smp[c]), shared[c])
                                               : c \in Clusters}))
    PROVE  /\ kn \in Seq(Seq(Symbols)) /\ IsInjective(kn)
           /\ Full => \A i \in 1 .. Len(corpus) : anchors[corpus[i]] # {} =>
                          templateOf(corpus[i], shared[anchors[corpus[i]]]) \in ToSet(kn)
<1> DEFINE T == UNION {templatesForCluster(RowsAt(smp[c]), shared[c]) : c \in Clusters}
<1>1. /\ DOMAIN corpus = 1 .. Len(corpus) /\ Len(corpus) \in Nat
      /\ \A i \in 1 .. Len(corpus) : corpus[i] \in ToSet(corpus)
      /\ IsFiniteSet(ToSet(corpus))
      /\ \A m : m \in ToSet(corpus) <=> \E i \in 1 .. Len(corpus) : m = corpus[i]
  BY LineFacts
<1>2. ASSUME NEW c \in Clusters
      PROVE  /\ Len(smp[c]) \in Nat /\ DOMAIN RowsAt(smp[c]) = 1 .. Len(smp[c])
             /\ \A p \in 1 .. Len(smp[c]) : /\ smp[c][p] \in 1 .. Len(corpus)
                                            /\ RowsAt(smp[c])[p] = corpus[smp[c][p]]
  <2>1. PICK s : s = smp[c]
    OBVIOUS
  <2>2. s \in Seq(1 .. Len(corpus)) /\ Len(s) \in Nat
    BY <2>1 DEF IsSample
  <2>3. DOMAIN s = 1 .. Len(s) /\ \A p \in 1 .. Len(s) : s[p] \in 1 .. Len(corpus)
    BY <2>2
  <2>4. DOMAIN RowsAt(s) = 1 .. Len(s) /\ \A p \in 1 .. Len(s) : RowsAt(s)[p] = corpus[s[p]]
    BY <2>3, Zenon DEF RowsAt
  <2> QED
    BY <2>1, <2>2, <2>3, <2>4
<1>3. IsFiniteSet(Clusters)
  <2>1. PICK f : f = [m \in ToSet(corpus) |-> anchors[m]]
    OBVIOUS
  <2>2. IsFiniteSet({f[m] : m \in ToSet(corpus)})
    BY <1>1, <2>1, RangeBound
  <2>3. Clusters \in SUBSET {f[m] : m \in ToSet(corpus)}
    BY <2>1 DEF Clusters
  <2> QED
    BY <2>2, <2>3, FS_Subset
<1>4. IsFiniteSet(T)
  <2>1. PICK rows : rows = [c \in Clusters |-> RowsAt(smp[c])]
    OBVIOUS
  <2>2. \A c \in Clusters : \E n \in Nat : DOMAIN rows[c] = 1 .. n
    BY <1>2, <2>1
  <2>3. T = UNION {templatesForCluster(rows[c], shared[c]) : c \in Clusters}
    BY <2>1
  <2> HIDE DEF T
  <2> QED
    BY <1>3, <2>2, <2>3, TemplatesFinite
<1>5. \A x : x \in T <=> \E c \in Clusters : \E p \in 1 .. Len(smp[c]) :
                           x = templateOf(corpus[smp[c][p]], shared[c])
  <2>1. \A c \in Clusters : templatesForCluster(RowsAt(smp[c]), shared[c])
            = {templateOf(corpus[smp[c][p]], shared[c]) : p \in 1 .. Len(smp[c])}
    BY <1>2 DEF templatesForCluster
  <2>2. \A x : x \in T <=> \E c \in Clusters : x \in templatesForCluster(RowsAt(smp[c]), shared[c])
    OBVIOUS
  <2>3. \A c \in Clusters : \A x : x \in templatesForCluster(RowsAt(smp[c]), shared[c])
            <=> \E p \in 1 .. Len(smp[c]) : x = templateOf(corpus[smp[c][p]], shared[c])
    BY <2>1, Zenon
  <2> HIDE DEF T
  <2>4. ASSUME NEW x \in T
        PROVE  \E c \in Clusters : \E p \in 1 .. Len(smp[c]) :
                  x = templateOf(corpus[smp[c][p]], shared[c])
    <3>1. PICK c \in Clusters : x \in templatesForCluster(RowsAt(smp[c]), shared[c])
      BY <2>2
    <3> QED
      BY <2>3, <3>1
  <2>5. ASSUME NEW c \in Clusters, NEW p \in 1 .. Len(smp[c])
        PROVE  templateOf(corpus[smp[c][p]], shared[c]) \in T
    <3>1. templateOf(corpus[smp[c][p]], shared[c]) \in templatesForCluster(RowsAt(smp[c]), shared[c])
      BY <2>3
    <3> QED
      BY <2>2, <3>1
  <2> QED
    BY <2>4, <2>5
<1> HIDE DEF T
<1>6. T \in SUBSET Seq(Symbols)
  <2>1. ASSUME NEW c \in Clusters, NEW p \in 1 .. Len(smp[c])
        PROVE  templateOf(corpus[smp[c][p]], shared[c]) \in Seq(Symbols)
    <3>1. smp[c][p] \in 1 .. Len(corpus)
      BY <1>2
    <3> QED
      BY <3>1, LineMasked
  <2> QED
    BY <1>5, <2>1
<1>7. PICK raw, n : raw = SetToSeq(T) /\ n = Cardinality(T)
  OBVIOUS
<1>8. /\ raw \in Seq(T) /\ DOMAIN raw = 1 .. n /\ n \in Nat
      /\ \A x \in T : \E i \in 1 .. n : x = raw[i]
  BY <1>4, <1>7, ListOfSet
<1>9. raw \in Seq(Seq(Symbols))
  BY <1>6, <1>8, SeqLarger
<1>10. kn = Kept(raw)
  BY <1>7 DEF T
<1>11. kn \in Seq(Seq(Symbols)) /\ IsInjective(kn)
  BY <1>9, <1>10, KeptFacts
<1>12. ASSUME Full, NEW i \in 1 .. Len(corpus), anchors[corpus[i]] # {}
       PROVE  templateOf(corpus[i], shared[anchors[corpus[i]]]) \in ToSet(kn)
  <2>1. PICK c : c = anchors[corpus[i]]
    OBVIOUS
  <2>2. c \in Clusters
    BY <1>1, <1>12, <2>1 DEF Clusters
  <2>3. PICK q \in 1 .. Len(Indices(c)) : i = Indices(c)[q]
    <3>1. PICK all, len : all = Indices(c) /\ len = Len(all)
      OBVIOUS
    <3>2. \A h \in 1 .. Len(corpus) :
             anchors[corpus[h]] = c <=> \E q \in 1 .. len : h = all[q]
      BY <2>2, <3>1, IndicesFacts
    <3>3. \E q \in 1 .. len : i = all[q]
      BY <2>1, <3>2
    <3> QED
      BY <3>1, <3>3, Zenon
  <2>4. PICK p \in 1 .. Len(smp[c]) : smp[c][p] = i
    <3>1. IsSample(smp[c], Indices(c)) /\ sample.num = sample.den
      BY <1>12, <2>2 DEF Full
    <3> QED
      BY <2>3, <3>1 DEF IsSample
  <2>5. templateOf(corpus[i], shared[c]) \in T
    BY <1>5, <2>2, <2>4
  <2>6. PICK j \in 1 .. n : raw[j] = templateOf(corpus[i], shared[c])
    BY <1>8, <2>5
  <2>7. normalizeTemplate(raw[j]) \in ToSet(kn)
    BY <1>8, <1>10, KeptHolds
  <2>8. normalizeTemplate(templateOf(corpus[i], shared[c])) = templateOf(corpus[i], shared[c])
    BY <1>12, LineMasked DEF Full
  <2> QED
    BY <2>1, <2>6, <2>7, <2>8
<1> QED
  BY <1>11, <1>12

-----------------------------------------------------------------------------
\* The template and arguments of a line.
IsMasked(i) == Len(masks[i]) = Len(Text(corpus[i]))
TemplateFor(i) ==
    IF IsMasked(i) THEN templateFromMask(Text(corpus[i]), masks[i]) ELSE Text(corpus[i])
ArgsFor(i) == IF IsMasked(i) THEN argsFromMask(Text(corpus[i]), masks[i]) ELSE <<>>

\* The loop's line, and what there is before the parse and after the loop.
StagesInv ==
    /\ stage \in {"parse", "lines", "done", "failed"}
    /\ next \in 1 .. Len(corpus) + 1
    /\ stage = "parse" => known = <<>> /\ table = <<>> /\ next = 1
    /\ stage = "done" => next = Len(corpus) + 1

\* The table has no template twice and begins with the matcher's.
TablesInv ==
    /\ known \in Seq(Seq(Symbols)) /\ table \in Seq(Seq(Symbols))
    /\ IsInjective(table)
    /\ IsPrefix(known, table)

\* The lines before the loop's have entries, and no others.
EntriesInv ==
    /\ \A m : m \in DOMAIN entries <=> \E i \in 1 .. next - 1 : m = Text(corpus[i])
    /\ \A m \in DOMAIN entries : entries[m].id \in DOMAIN table /\ <<>> \notin ToSet(entries[m].args)
    /\ \A m \in DOMAIN entries : entries[m] = [id |-> entries[m].id, args |-> entries[m].args]

\* When the patterns are made of all rows the entry of a line has the template
\* and the arguments that its mask gives: no id was the matcher's choice.
ExactInv ==
    Full => /\ stage # "failed"
            /\ \A i \in 1 .. next - 1 :
                  LET e == entries[Text(corpus[i])]
                  IN  table[e.id] = TemplateFor(i) /\ e.args = ArgsFor(i)

\* What every step of the training keeps.
CodecInv ==
    /\ Setting /\ StagesInv /\ TablesInv /\ EntriesInv /\ ExactInv
    /\ stage # "parse" => Patterned

\* What training is given, and what its parse gives it, do not change.
LEMMA SameSetting ==
    ASSUME Setting, UNCHANGED <<corpus, sample, anchors>>
    PROVE  Setting' /\ (Full' <=> Full) /\ Clusters' = Clusters
  BY DEF Setting, Full, MentionsPlaceholder, Clusters

\* Nor do the patterns, the masks and what they give each line.
LEMMA SamePatterns ==
    ASSUME Patterned, UNCHANGED <<corpus, sample, anchors, sampled, masks, known>>
    PROVE  /\ Patterned'
           /\ \A i : TemplateFor(i)' = TemplateFor(i) /\ ArgsFor(i)' = ArgsFor(i)
<1>1. Clusters' = Clusters /\ (Full' <=> Full)
  BY DEF Full, MentionsPlaceholder, Clusters
<1>2. \A c : Indices(c)' = Indices(c)
  BY DEF Indices
<1>3. \A c : Common(c)' = Common(c)
  BY DEF Common, RowsAt
<1>4. \A s, all : IsSample(s, all)' <=> IsSample(s, all)
  BY DEF IsSample
<1>5. \A i : MaskOf(i)' = MaskOf(i)
  BY <1>3 DEF MaskOf
<1>6. (\A c \in Clusters : IsSample(sampled[c], Indices(c)))'
  BY <1>1, <1>2, <1>4 DEF Patterned
<1>7. (masks = [i \in DOMAIN corpus |-> MaskOf(i)])'
  BY <1>5 DEF Patterned
<1>8. (Full => \A i \in 1 .. Len(corpus) : anchors[corpus[i]] # {} =>
                   templateOf(corpus[i], Common(anchors[corpus[i]])) \in ToSet(known))'
  BY <1>1, <1>3 DEF Patterned
<1> QED
  BY <1>6, <1>7, <1>8 DEF Patterned, TemplateFor, ArgsFor, IsMasked

\* The mask of a line is empty or has an element for each of the text.
LEMMA MaskFacts ==
    ASSUME Setting, Patterned, NEW i \in 1 .. Len(corpus)
    PROVE  /\ masks[i] = MaskOf(i)
           /\ TemplateFor(i) \in Seq(Symbols) /\ <<>> \notin ToSet(ArgsFor(i))
           /\ \A j \in 1 .. Len(corpus) : Text(corpus[j]) = Text(corpus[i]) =>
                 TemplateFor(j) = TemplateFor(i) /\ ArgsFor(j) = ArgsFor(i)
           /\ Full /\ IsMasked(i) => \/ TemplateFor(i) \in ToSet(known)
                                     \/ Text(corpus[i]) = <<>> /\ TemplateFor(i) = <<>>
<1>1. /\ DOMAIN corpus = 1 .. Len(corpus) /\ Len(corpus) \in Nat
      /\ \A j \in 1 .. Len(corpus) :
            /\ corpus[j] \in ToSet(corpus)
            /\ Text(corpus[j]) \in Seq(Symbols)
            /\ Text(corpus[i]) = Text(corpus[j]) => corpus[i] = corpus[j]
  BY LineFacts
<1>2. \A j \in 1 .. Len(corpus) : masks[j] = MaskOf(j)
  BY <1>1 DEF Patterned
<1>3. PICK m, bits, c : m = Text(corpus[i]) /\ bits = masks[i] /\ c = anchors[corpus[i]]
  OBVIOUS
<1>4. m \in Seq(Symbols) /\ bits \in Seq({0, 1})
  <2>1. CASE c = {}
    <3>1. bits = <<>>
      BY <1>2, <1>3, <2>1 DEF MaskOf
    <3>2. bits \in Seq({0, 1})
      BY <3>1
    <3> QED
      BY <1>1, <1>3, <3>2
  <2>2. CASE c # {}
    <3>1. bits = parameterMask(corpus[i], Common(c))
      BY <1>2, <1>3, <2>2 DEF MaskOf
    <3> QED
      BY <1>1, <1>3, <3>1, LineMasked
  <2> QED
    BY <2>1, <2>2
<1>5. TemplateFor(i) \in Seq(Symbols) /\ <<>> \notin ToSet(ArgsFor(i))
  <2>1. CASE IsMasked(i)
    <3>1. Len(bits) = Len(m)
      BY <1>3, <2>1 DEF IsMasked
    <3>2. IsRendered(templateFromMask(m, bits), m, bits, Ascending(KeptBy(bits)))
      BY <1>4, <3>1, TemplateTypes
    <3>3. templateFromMask(m, bits) \in Seq(Symbols)
      BY <3>2, Zenon DEF IsRendered
    <3>4. <<>> \notin ToSet(argsFromMask(m, bits))
      BY <1>4, <3>1, ArgsFilled
    <3> QED
      BY <1>3, <2>1, <3>3, <3>4 DEF TemplateFor, ArgsFor
  <2>2. CASE ~IsMasked(i)
    <3>1. ToSet(<<>>) = {}
      BY DEF ToSet
    <3> QED
      BY <1>3, <1>4, <2>2, <3>1 DEF TemplateFor, ArgsFor
  <2> QED
    BY <2>1, <2>2
<1>6. ASSUME NEW j \in 1 .. Len(corpus), Text(corpus[j]) = Text(corpus[i])
      PROVE  TemplateFor(j) = TemplateFor(i) /\ ArgsFor(j) = ArgsFor(i)
  <2>1. corpus[j] = corpus[i]
    BY <1>1, <1>6
  <2>2. masks[j] = masks[i]
    BY <1>2, <2>1 DEF MaskOf
  <2> QED
    BY <2>1, <2>2 DEF TemplateFor, ArgsFor, IsMasked
<1>7. ASSUME Full, IsMasked(i)
      PROVE  TemplateFor(i) \in ToSet(known) \/ (m = <<>> /\ TemplateFor(i) = <<>>)
  <2>1. Len(bits) = Len(m) /\ TemplateFor(i) = templateFromMask(m, bits)
    BY <1>3, <1>7 DEF IsMasked, TemplateFor
  <2>2. CASE c = {}
    <3>1. bits = <<>>
      BY <1>2, <1>3, <2>2 DEF MaskOf
    <3>2. m = <<>>
      BY <1>4, <2>1, <3>1
    <3>3. KeptBy(bits) = {}
      BY <3>1 DEF KeptBy
    <3>4. IsRendered(templateFromMask(m, bits), m, bits, Ascending(KeptBy(bits)))
      BY <1>4, <2>1, TemplateTypes
    <3>5. IsKept(Ascending(KeptBy(bits)), KeptBy(bits), Len(m))
      BY <1>4, <2>1, TemplateTypes
    <3>6. Len(Ascending(KeptBy(bits))) = 0
      <4>1. PICK a : a = Ascending(KeptBy(bits))
        OBVIOUS
      <4>2. Len(a) \in Nat /\ \A h \in 1 .. Len(a) : a[h] \in KeptBy(bits)
        BY <3>5, <4>1 DEF IsKept
      <4>3. ~(Len(a) > 0)
        BY <3>3, <4>2
      <4> QED
        BY <4>1, <4>2, <4>3
    <3>7. TemplateFor(i) \in Seq(Symbols) /\ Len(TemplateFor(i)) = 0
      BY <2>1, <3>4, <3>6 DEF IsRendered
    <3> QED
      BY <3>2, <3>7
  <2>3. CASE c # {}
    <3>1. bits = parameterMask(corpus[i], Common(c))
      BY <1>2, <1>3, <2>3 DEF MaskOf
    <3>2. templateFromMask(m, bits) = templateOf(corpus[i], Common(c))
      BY <1>3, <3>1, LineMasked
    <3>3. templateOf(corpus[i], Common(c)) \in ToSet(known)
      BY <1>3, <1>7, <2>3 DEF Patterned
    <3> QED
      BY <2>1, <3>2, <3>3
  <2> QED
    BY <2>2, <2>3
<1> QED
  BY <1>2, <1>3, <1>5, <1>6, <1>7

\* The matcher answers with an id of its own, and for the empty message only if
\* that is a template.
LEMMA MatchIDFacts ==
    ASSUME TablesInv
    PROVE  /\ \A m : MatchID(m) \subseteq DOMAIN table
           /\ <<>> \notin ToSet(table) => MatchID(<<>>) = {}
<1>1. /\ known \in Seq(Seq(Symbols)) /\ table \in Seq(Seq(Symbols))
      /\ Len(known) <= Len(table) /\ \A i \in 1 .. Len(known) : known[i] = table[i]
  BY PrefixMeans DEF TablesInv
<1>2. /\ DOMAIN known = 1 .. Len(known) /\ DOMAIN table = 1 .. Len(table)
      /\ Len(known) \in Nat /\ Len(table) \in Nat
      /\ \A i \in 1 .. Len(known) : known[i] \in Seq(Symbols)
  BY <1>1
<1>3. \A m : MatchID(m) \subseteq DOMAIN table
  <2>1. \A m : MatchID(m) \subseteq DOMAIN known
    BY DEF MatchID
  <2>2. DOMAIN known \subseteq DOMAIN table
    BY <1>1, <1>2
  <2> QED
    BY <2>1, <2>2
<1>4. ASSUME <<>> \notin ToSet(table), NEW id \in MatchID(<<>>)
      PROVE  FALSE
  <2>1. id \in 1 .. Len(known) /\ Matches(known[id], <<>>)
    BY <1>2, <1>4 DEF MatchID
  <2>2. PICK t : t = known[id]
    OBVIOUS
  <2>3. t \in Seq(Symbols) /\ t = table[id] /\ id \in 1 .. Len(table) /\ Matches(t, <<>>)
    BY <1>1, <1>2, <2>1, <2>2
  <2>4. t # <<>>
    <3>1. t \in ToSet(table)
      BY <1>1, <2>3, SeqRange
    <3> QED
      BY <1>4, <3>1
  <2>5. CASE Exact(t)
    BY <2>3, <2>4, <2>5 DEF Matches
  <2>6. CASE ~Exact(t)
    <3>1. PICK e : e \in Seq(Symbols) /\ e = <<>>
      <4>1. <<>> \in Seq(Symbols)
        OBVIOUS
      <4> QED
        BY <4>1
    <3>2. Len(t) <= Len(e)
      BY <2>3, <2>6, <3>1, MatchIsLong
    <3>3. Len(t) = 0
      BY <2>3, <3>1, <3>2
    <3> QED
      BY <2>3, <2>4, <3>3
  <2> QED
    BY <2>5, <2>6
<1> QED
  BY <1>3, <1>4

\* The id of a template: its place in the table, or the next.
LEMMA EnsureFacts ==
    ASSUME TablesInv, NEW t, NEW id, id = ensureTemplateID(t)
    PROVE  \/ id \in DOMAIN table /\ table[id] = t
           \/ id = Len(table) + 1 /\ t \notin ToSet(table)
<1>1. CASE t \in ToSet(table)
  <2>1. \E i \in DOMAIN table : table[i] = t
    BY <1>1 DEF ToSet
  <2>2. id = CHOOSE i \in DOMAIN table : table[i] = t
    BY <1>1 DEF ensureTemplateID
  <2> QED
    BY <2>1, <2>2
<1>2. CASE t \notin ToSet(table)
  BY <1>2 DEF ensureTemplateID
<1> QED
  BY <1>1, <1>2

\* Adding a template that is not in the table keeps the table's invariant.
LEMMA TableGrows ==
    ASSUME TablesInv, NEW t \in Seq(Symbols), NEW id,
           \/ id \in DOMAIN table
           \/ id = Len(table) + 1 /\ t \notin ToSet(table),
           NEW tb, id > Len(table) => tb = Append(table, t), ~(id > Len(table)) => tb = table
    PROVE  /\ tb \in Seq(Seq(Symbols)) /\ IsInjective(tb) /\ IsPrefix(known, tb)
           /\ \A i \in DOMAIN table : i \in DOMAIN tb /\ tb[i] = table[i]
           /\ id \in DOMAIN tb
           /\ id \notin DOMAIN table => tb[id] = t
<1>1. /\ known \in Seq(Seq(Symbols)) /\ table \in Seq(Seq(Symbols)) /\ IsInjective(table)
      /\ DOMAIN table = 1 .. Len(table) /\ Len(table) \in Nat
  BY DEF TablesInv
<1>2. Len(known) <= Len(table) /\ \A i \in 1 .. Len(known) : known[i] = table[i]
  BY <1>1, PrefixMeans DEF TablesInv
<1>3. CASE id \in DOMAIN table
  <2>1. tb = table
    <3>1. id \in 1 .. Len(table) /\ Len(table) \in Nat
      BY <1>1, <1>3
    <3>2. ~(id > Len(table))
      BY <3>1
    <3> QED
      BY <3>2, Zenon
  <2> QED
    BY <1>1, <1>3, <2>1 DEF TablesInv
<1>4. CASE id = Len(table) + 1 /\ t \notin ToSet(table)
  <2>1. tb = Append(table, t)
    <3>1. id > Len(table)
      BY <1>1, <1>4
    <3> QED
      BY <3>1, Zenon
  <2>2. tb \in Seq(Seq(Symbols)) /\ IsInjective(tb)
    BY <1>1, <1>4, <2>1, InjectiveAppend
  <2>3. Len(tb) = Len(table) + 1 /\ DOMAIN tb = 1 .. Len(table) + 1
        /\ tb[Len(table) + 1] = t /\ \A i \in 1 .. Len(table) : tb[i] = table[i]
    <3>1. PICK S, s : S = Seq(Symbols) /\ s = table
      OBVIOUS
    <3>2. s \in Seq(S) /\ t \in S /\ tb = Append(s, t)
      BY <1>1, <2>1, <3>1
    <3>3. /\ Len(tb) = Len(s) + 1 /\ DOMAIN tb = 1 .. Len(s) + 1
          /\ tb[Len(s) + 1] = t /\ \A i \in 1 .. Len(s) : tb[i] = s[i]
      BY <3>2
    <3> QED
      BY <3>1, <3>3
  <2>4. \A i \in 1 .. Len(known) : i \in 1 .. Len(table)
    BY <1>1, <1>2
  <2>5. IsPrefix(known, tb)
    <3>1. Len(known) <= Len(tb) /\ \A i \in 1 .. Len(known) : known[i] = tb[i]
      BY <1>1, <1>2, <2>3, <2>4
    <3> QED
      BY <1>1, <2>2, <3>1, PrefixMeans
  <2> QED
    BY <1>1, <1>4, <2>2, <2>3, <2>5
<1> QED
  BY <1>3, <1>4

\* Entering a line, whatever id it gets.
LEMMA EnterStep ==
    ASSUME CodecInv, HasLine, NEW id, Enter(id, TemplateFor(next), ArgsFor(next)),
           \/ id \in DOMAIN table
           \/ id = Len(table) + 1 /\ TemplateFor(next) \notin ToSet(table),
           Full /\ id \in DOMAIN table => table[id] = TemplateFor(next)
    PROVE  CodecInv'
<1>1. /\ Setting /\ StagesInv /\ TablesInv /\ EntriesInv /\ ExactInv /\ Patterned
      /\ stage = "lines" /\ next \in 1 .. Len(corpus)
      /\ Len(corpus) \in Nat
  <2>1. Setting /\ stage = "lines" /\ next <= Len(corpus) /\ next \in 1 .. Len(corpus) + 1
    BY DEF CodecInv, HasLine, StagesInv
  <2>2. Len(corpus) \in Nat
    BY <2>1, LineFacts
  <2> QED
    BY <2>1, <2>2 DEF CodecInv
<1>2. PICK i, m, t, as : i = next /\ m = Text(corpus[i]) /\ t = TemplateFor(i) /\ as = ArgsFor(i)
  OBVIOUS
<1>3. /\ i \in 1 .. Len(corpus) /\ text = m
      /\ t \in Seq(Symbols) /\ <<>> \notin ToSet(as)
      /\ \A j \in 1 .. Len(corpus) : Text(corpus[j]) = m => TemplateFor(j) = t /\ ArgsFor(j) = as
  BY <1>1, <1>2, MaskFacts DEF text, line
<1>4. UNCHANGED <<corpus, sample, anchors, sampled, masks, known>>
  BY DEF Enter
<1>5. /\ Setting' /\ (Full' <=> Full) /\ Patterned'
      /\ \A j : TemplateFor(j)' = TemplateFor(j) /\ ArgsFor(j)' = ArgsFor(j)
  BY <1>1, <1>4, SameSetting, SamePatterns
<1>6. PICK tb : tb = table'
  OBVIOUS
<1>7. /\ tb \in Seq(Seq(Symbols)) /\ IsInjective(tb) /\ IsPrefix(known, tb)
      /\ \A j \in DOMAIN table : j \in DOMAIN tb /\ tb[j] = table[j]
      /\ id \in DOMAIN tb
      /\ id \notin DOMAIN table => tb[id] = t
  <2>1. (id > Len(table) => tb = Append(table, t)) /\ (~(id > Len(table)) => tb = table)
    BY <1>2, <1>6 DEF Enter
  <2>2. id \in DOMAIN table \/ (id = Len(table) + 1 /\ t \notin ToSet(table))
    BY <1>2
  <2>3. TablesInv /\ t \in Seq(Symbols)
    BY <1>1, <1>3
  <2> QED
    BY <2>1, <2>2, <2>3, TableGrows, Zenon
<1>8. Full => tb[id] = t
  BY <1>2, <1>7
<1>9. TablesInv'
  <2>1. known' = known /\ known \in Seq(Seq(Symbols))
    BY <1>1, <1>4 DEF TablesInv
  <2> QED
    BY <1>6, <1>7, <2>1 DEF TablesInv
<1>10. /\ \A x \in DOMAIN entries : entries[x].id \in DOMAIN tb /\ <<>> \notin ToSet(entries[x].args)
       /\ \A x \in DOMAIN entries : entries[x] = [id |-> entries[x].id, args |-> entries[x].args]
       /\ Full => \A j \in 1 .. i - 1 :
              LET e == entries[Text(corpus[j])]
              IN  tb[e.id] = TemplateFor(j) /\ e.args = ArgsFor(j)
  <2>1. \A x \in DOMAIN entries : entries[x] = [id |-> entries[x].id, args |-> entries[x].args]
    BY <1>1 DEF EntriesInv
  <2>2. \A x \in DOMAIN entries : entries[x].id \in DOMAIN table /\ <<>> \notin ToSet(entries[x].args)
    BY <1>1 DEF EntriesInv
  <2>3. \A j \in 1 .. i - 1 : Text(corpus[j]) \in DOMAIN entries
    BY <1>1, <1>2 DEF EntriesInv
  <2>4. Full => \A j \in 1 .. i - 1 :
           LET e == entries[Text(corpus[j])]
           IN  table[e.id] = TemplateFor(j) /\ e.args = ArgsFor(j)
    BY <1>1, <1>2 DEF ExactInv
  <2> QED
    BY <1>7, <2>2, <2>3, <2>4, <2>1
<1>11. \A x : x \in DOMAIN entries <=> \E j \in 1 .. i - 1 : x = Text(corpus[j])
  BY <1>1, <1>2 DEF EntriesInv
\* The line's entry is the one it is given, and no other entry changes.
<1>12. ASSUME NEW en, en = entries', next' = i + 1, stage' = stage,
              DOMAIN en = DOMAIN entries \cup {m},
              en[m] = [id |-> id, args |-> as],
              \A x \in DOMAIN entries : x # m => en[x] = entries[x]
       PROVE  CodecInv'
  <2>1. i + 1 \in 1 .. Len(corpus) + 1 /\ (i + 1) - 1 = i
    BY <1>1, <1>3
  <2>2. PICK entry : entry = [id |-> id, args |-> as]
    OBVIOUS
  <2>3. entry.id = id /\ entry.args = as /\ en[m] = entry
    BY <1>12, <2>2
  <2>4. StagesInv'
    BY <1>1, <1>4, <1>12, <2>1 DEF StagesInv
  <2>5. \A x : x \in DOMAIN en <=> \E j \in 1 .. i : x = Text(corpus[j])
    <3>1. \A j : j \in 1 .. i <=> j \in 1 .. i - 1 \/ j = i
      BY <1>3
    <3> QED
      BY <1>2, <1>11, <1>12, <3>1
  <2>6. \A x \in DOMAIN en : /\ en[x].id \in DOMAIN tb /\ <<>> \notin ToSet(en[x].args)
                             /\ en[x] = [id |-> en[x].id, args |-> en[x].args]
    <3>1. TAKE x \in DOMAIN en
    <3>2. CASE x = m
      <4>1. /\ entry.id \in DOMAIN tb /\ <<>> \notin ToSet(entry.args)
              /\ entry = [id |-> entry.id, args |-> entry.args]
        BY <1>3, <1>7, <2>2, <2>3
      <4> QED
        BY <2>3, <3>2, <4>1
    <3>3. CASE x # m
      <4>1. x \in DOMAIN entries /\ en[x] = entries[x]
        BY <1>12, <3>3
      <4> QED
        BY <1>10, <4>1
    <3> QED
      BY <3>2, <3>3
  <2>7. EntriesInv'
    BY <1>4, <1>6, <1>12, <2>1, <2>5, <2>6 DEF EntriesInv
  <2>8. ASSUME Full, NEW j \in 1 .. i
        PROVE  LET e == en[Text(corpus[j])]
               IN  tb[e.id] = TemplateFor(j) /\ e.args = ArgsFor(j)
    <3>1. j \in 1 .. Len(corpus) /\ (j = i \/ j \in 1 .. i - 1)
      BY <1>1, <1>3
    <3>2. CASE Text(corpus[j]) = m
      <4>1. TemplateFor(j) = t /\ ArgsFor(j) = as
        BY <1>3, <3>1, <3>2
      <4>2. en[Text(corpus[j])].id = id /\ en[Text(corpus[j])].args = as
        BY <2>3, <3>2, Zenon
      <4> QED
        BY <1>8, <2>8, <4>1, <4>2
    <3>3. CASE Text(corpus[j]) # m
      <4>1. j \in 1 .. i - 1
        BY <1>2, <3>1, <3>3
      <4>2. en[Text(corpus[j])] = entries[Text(corpus[j])]
        BY <1>11, <1>12, <3>3, <4>1
      <4> QED
        BY <1>10, <2>8, <4>1, <4>2
    <3> QED
      BY <3>2, <3>3
  <2>9. ExactInv'
    BY <1>1, <1>4, <1>5, <1>6, <1>12, <2>1, <2>8 DEF ExactInv
  <2> QED
    BY <1>5, <1>9, <2>4, <2>7, <2>9 DEF CodecInv
<1>13. CASE /\ text \notin DOMAIN entries
            /\ entries' = [x \in DOMAIN entries \cup {text} |->
                              IF x = text THEN [id |-> id, args |-> ArgsFor(next)] ELSE entries[x]]
            /\ next' = next + 1
            /\ UNCHANGED stage
  <2>1. PICK en : en = entries'
    OBVIOUS
  <2>2. /\ DOMAIN en = DOMAIN entries \cup {m}
        /\ en[m] = [id |-> id, args |-> as]
        /\ \A x \in DOMAIN entries : x # m => en[x] = entries[x]
    BY <1>2, <1>3, <1>13, <2>1
  <2> QED
    BY <1>2, <1>12, <1>13, <2>1, <2>2
<1>14. CASE /\ text \in DOMAIN entries
            /\ entries[text] = [id |-> id, args |-> ArgsFor(next)]
            /\ next' = next + 1
            /\ UNCHANGED <<entries, stage>>
  <2>1. PICK en : en = entries'
    OBVIOUS
  <2>2. /\ DOMAIN en = DOMAIN entries \cup {m}
        /\ en[m] = [id |-> id, args |-> as]
        /\ \A x \in DOMAIN entries : x # m => en[x] = entries[x]
    BY <1>2, <1>3, <1>14, <2>1
  <2> QED
    BY <1>2, <1>12, <1>14, <2>1, <2>2
<1>15. CASE /\ text \in DOMAIN entries
            /\ entries[text] # [id |-> id, args |-> ArgsFor(next)]
            /\ stage' = "failed"
            /\ UNCHANGED <<entries, next>>
  <2>1. ~Full
    <3> SUFFICES ASSUME Full
                 PROVE  FALSE
      OBVIOUS
    <3>1. PICK j \in 1 .. i - 1 : m = Text(corpus[j])
      BY <1>3, <1>11, <1>15
    <3>2. j \in 1 .. Len(corpus)
      BY <1>1, <1>3
    <3>3. tb[entries[m].id] = t /\ entries[m].args = as
      BY <1>3, <1>10, <3>1, <3>2
    <3>4. entries[m].id \in DOMAIN tb /\ entries[m].id = id
      <4>1. entries[m].id \in DOMAIN tb
        BY <1>3, <1>10, <1>15
      <4> QED
        BY <1>7, <1>8, <3>3, <4>1 DEF IsInjective
    <3>5. entries[m] = [id |-> id, args |-> as]
      BY <1>3, <1>10, <1>15, <3>3, <3>4
    <3> QED
      BY <1>2, <1>3, <1>15, <3>5
  <2>2. StagesInv'
    BY <1>1, <1>4, <1>15 DEF StagesInv
  <2>3. EntriesInv'
    BY <1>2, <1>4, <1>6, <1>10, <1>11, <1>15 DEF EntriesInv
  <2>4. ExactInv'
    BY <1>5, <2>1 DEF ExactInv
  <2> QED
    BY <1>5, <1>9, <2>2, <2>3, <2>4 DEF CodecInv
<1> QED
  BY <1>13, <1>14, <1>15, Zenon DEF Enter

\* Each line gets an entry that decodes to it, or the training fails.
LEMMA LineStep ==
    ASSUME CodecInv, LiteralLine \/ KnownTemplate \/ UnknownTemplate
    PROVE  CodecInv'
<1>1. HasLine /\ Setting /\ TablesInv /\ Patterned /\ next \in 1 .. Len(corpus)
  <2>1. HasLine
    BY DEF LiteralLine, KnownTemplate, UnknownTemplate
  <2>2. Setting /\ TablesInv /\ Patterned /\ next <= Len(corpus) /\ next \in 1 .. Len(corpus) + 1
    BY <2>1 DEF CodecInv, HasLine, StagesInv
  <2>3. Len(corpus) \in Nat
    BY <2>2, LineFacts
  <2> QED
    BY <2>1, <2>2, <2>3
<1>2. text = Text(corpus[next]) /\ mask = masks[next]
  BY DEF text, line, mask
<1>3. CASE LiteralLine
  <2>1. PICK id : id = ensureTemplateID(text)
    OBVIOUS
  <2>2. TemplateFor(next) = text /\ ArgsFor(next) = <<>>
    BY <1>2, <1>3 DEF LiteralLine, TemplateFor, ArgsFor, IsMasked
  <2>3. Enter(id, TemplateFor(next), ArgsFor(next))
    BY <1>3, <2>1, <2>2, Zenon DEF LiteralLine, Enter
  <2>4. \/ id \in DOMAIN table /\ table[id] = text
        \/ id = Len(table) + 1 /\ text \notin ToSet(table)
    BY <1>1, <2>1, EnsureFacts
  <2>5. id = Len(table) + 1 => id \notin DOMAIN table
    BY <1>1 DEF TablesInv
  <2> QED
    BY <1>1, <2>2, <2>3, <2>4, <2>5, EnterStep
<1>4. ASSUME Len(mask) = Len(text)
      PROVE  TemplateFor(next) = maskTemplate /\ ArgsFor(next) = maskArgs /\ IsMasked(next)
  BY <1>2, <1>4 DEF TemplateFor, ArgsFor, IsMasked, maskTemplate, maskArgs
<1>5. ASSUME Len(mask) = Len(text), NEW id, id = ensureTemplateID(maskTemplate),
             Enter(id, maskTemplate, maskArgs)
      PROVE  CodecInv'
  <2>1. TemplateFor(next) = maskTemplate /\ ArgsFor(next) = maskArgs
    BY <1>4, <1>5
  <2>2. Enter(id, TemplateFor(next), ArgsFor(next))
    BY <1>5, <2>1, Zenon DEF Enter
  <2>3. \/ id \in DOMAIN table /\ table[id] = maskTemplate
        \/ id = Len(table) + 1 /\ maskTemplate \notin ToSet(table)
    BY <1>1, <1>5, EnsureFacts
  <2>4. id = Len(table) + 1 => id \notin DOMAIN table
    BY <1>1 DEF TablesInv
  <2> QED
    BY <1>1, <2>1, <2>2, <2>3, <2>4, EnterStep
<1>6. CASE KnownTemplate
  BY <1>5, <1>6 DEF KnownTemplate
<1>7. CASE UnknownTemplate
  <2>1. Len(mask) = Len(text) /\ maskTemplate \notin ToSet(table)
    BY <1>7 DEF UnknownTemplate
  \* The id of another template: only when patterns are made of some rows.
  <2>2. ASSUME NEW id \in MatchID(text), Enter(id, maskTemplate, maskArgs)
        PROVE  CodecInv'
    <3>1. id \in DOMAIN table
      BY <1>1, <2>2, MatchIDFacts
    <3>2. TemplateFor(next) = maskTemplate /\ ArgsFor(next) = maskArgs /\ IsMasked(next)
      BY <1>4, <2>1
    <3>3. Enter(id, TemplateFor(next), ArgsFor(next))
      BY <2>2, <3>2, Zenon DEF Enter
    <3>4. ~Full
      <4> SUFFICES ASSUME Full
                   PROVE  FALSE
        OBVIOUS
      <4>1. \/ maskTemplate \in ToSet(known)
            \/ text = <<>> /\ maskTemplate = <<>>
        <5>1. \/ TemplateFor(next) \in ToSet(known)
              \/ Text(corpus[next]) = <<>> /\ TemplateFor(next) = <<>>
          BY <1>1, <3>2, MaskFacts
        <5> QED
          BY <1>2, <3>2, <5>1
      <4>2. ToSet(known) \subseteq ToSet(table)
        <5>1. /\ known \in Seq(Seq(Symbols)) /\ table \in Seq(Seq(Symbols))
              /\ Len(known) <= Len(table) /\ \A i \in 1 .. Len(known) : known[i] = table[i]
          BY <1>1, PrefixMeans DEF TablesInv
        <5>2. /\ \A x : x \in ToSet(known) <=> \E i \in 1 .. Len(known) : x = known[i]
              /\ \A x : x \in ToSet(table) <=> \E i \in 1 .. Len(table) : x = table[i]
          BY <5>1, SeqRange
        <5>3. \A i \in 1 .. Len(known) : i \in 1 .. Len(table)
          BY <5>1
        <5> QED
          BY <5>1, <5>2, <5>3
      <4>3. text = <<>> /\ <<>> \notin ToSet(table)
        BY <2>1, <4>1, <4>2
      <4>4. MatchID(<<>>) = {}
        BY <1>1, <4>3, MatchIDFacts
      <4>5. MatchID(text) = {}
        BY <4>3, <4>4
      <4> QED
        BY <2>2, <4>5
    <3> QED
      BY <1>1, <3>1, <3>3, <3>4, EnterStep
  <2> QED
    BY <1>5, <1>7, <2>1, <2>2 DEF UnknownTemplate
<1> QED
  BY <1>3, <1>6, <1>7

\* The parse gives training the patterns of every cluster.
LEMMA ParseStep ==
    ASSUME CodecInv, Parse
    PROVE  CodecInv'
<1>1. /\ Setting /\ EntriesInv /\ stage = "parse" /\ next = 1
      /\ UNCHANGED <<corpus, sample, anchors, entries, next>>
      /\ stage' = "lines" /\ table' = known'
  BY DEF CodecInv, StagesInv, Parse
<1>2. Setting' /\ (Full' <=> Full) /\ Clusters' = Clusters
  BY <1>1, SameSetting
<1>3. PICK smp, kn : smp = sampled' /\ kn = known'
  OBVIOUS
<1>4. ASSUME NEW c \in Clusters
      PROVE  IsSample(smp[c], Indices(c))
  <2>1. PICK pick \in [Clusters -> UNION {samplePositions(n, sample) : n \in 1 .. Len(corpus)}] :
          /\ \A d \in Clusters : pick[d] \in samplePositions(Len(Indices(d)), sample)
          /\ sampled' = [d \in Clusters |-> [p \in DOMAIN pick[d] |-> Indices(d)[pick[d][p] + 1]]]
    BY DEF Parse
  <2>2. PICK pos : pos = pick[c]
    OBVIOUS
  <2>3. pos \in samplePositions(Len(Indices(c)), sample)
    BY <2>1, <2>2
  <2>4. smp[c] = [p \in DOMAIN pos |-> Indices(c)[pos[p] + 1]]
    BY <1>3, <2>1, <2>2
  <2> QED
    BY <1>1, <2>3, <2>4, SampleFacts
<1>5. PICK shared : shared = [c \in Clusters |-> sharedSlices(Filter, RowsAt(smp[c]))]
  OBVIOUS
<1>6. /\ kn = Kept(SetToSeq(UNION {templatesForCluster(RowsAt(smp[c]), shared[c]) : c \in Clusters}))
      /\ masks' = [i \in DOMAIN corpus |-> IF anchors[corpus[i]] = {} THEN <<>>
                                           ELSE parameterMask(corpus[i], shared[anchors[corpus[i]]])]
  <2> DEFINE common == [c \in Clusters |-> sharedSlices(Filter, RowsAt(sampled'[c]))]
  <2>1. /\ known' = Kept(SetToSeq(UNION {templatesForCluster(RowsAt(sampled'[c]), common[c])
                                           : c \in Clusters}))
        /\ masks' = [i \in DOMAIN corpus |->
                IF anchors[corpus[i]] = {} THEN <<>>
                ELSE parameterMask(corpus[i], common[anchors[corpus[i]]])]
    BY Zenon DEF Parse
  <2>2. common = shared
    BY <1>3, <1>5
  <2> HIDE DEF common
  <2> QED
    BY <1>3, <2>1, <2>2
<1>7. /\ kn \in Seq(Seq(Symbols)) /\ IsInjective(kn)
      /\ Full => \A i \in 1 .. Len(corpus) : anchors[corpus[i]] # {} =>
                     templateOf(corpus[i], shared[anchors[corpus[i]]]) \in ToSet(kn)
  BY <1>1, <1>4, <1>5, <1>6, ParseGives
<1>8. /\ DOMAIN corpus = 1 .. Len(corpus) /\ Len(corpus) \in Nat
      /\ \A i \in 1 .. Len(corpus) : corpus[i] \in ToSet(corpus)
  BY <1>1, LineFacts
<1>9. ASSUME NEW i \in 1 .. Len(corpus), anchors[corpus[i]] # {}
      PROVE  Common(anchors[corpus[i]])' = shared[anchors[corpus[i]]]
  <2>1. anchors[corpus[i]] \in Clusters
    BY <1>8, <1>9 DEF Clusters
  <2> QED
    BY <1>1, <1>3, <1>5, <2>1 DEF Common, RowsAt
<1>10. StagesInv'
  BY <1>1, <1>8 DEF StagesInv
<1>11. TablesInv'
  <2>1. IsPrefix(kn, kn)
    <3>1. Len(kn) \in Nat
      BY <1>7
    <3> QED
      BY <1>7, <3>1, PrefixMeans
  <2> QED
    BY <1>1, <1>3, <1>7, <2>1 DEF TablesInv
<1>12. DOMAIN entries = {}
  BY <1>1 DEF EntriesInv
<1>13. EntriesInv' /\ ExactInv'
  <2>1. 1 .. next' - 1 = {}
    BY <1>1
  <2> QED
    BY <1>1, <1>12, <2>1 DEF EntriesInv, ExactInv
<1>14. Patterned'
  <2>1. (\A c \in Clusters : IsSample(sampled[c], Indices(c)))'
    <3>1. \A c : Indices(c)' = Indices(c)
      BY <1>1 DEF Indices
    <3>2. \A s, all : IsSample(s, all)' <=> IsSample(s, all)
      BY <1>1 DEF IsSample
    <3> QED
      BY <1>2, <1>3, <1>4, <3>1, <3>2
  <2>2. (masks = [i \in DOMAIN corpus |-> MaskOf(i)])'
    <3>1. \A i \in 1 .. Len(corpus) :
             MaskOf(i)' = IF anchors[corpus[i]] = {} THEN <<>>
                          ELSE parameterMask(corpus[i], shared[anchors[corpus[i]]])
      BY <1>1, <1>9 DEF MaskOf
    <3> QED
      BY <1>1, <1>6, <1>8, <3>1
  <2>3. (Full => \A i \in 1 .. Len(corpus) : anchors[corpus[i]] # {} =>
            templateOf(corpus[i], Common(anchors[corpus[i]])) \in ToSet(known))'
    BY <1>1, <1>2, <1>3, <1>7, <1>9
  <2> QED
    BY <2>1, <2>2, <2>3 DEF Patterned
<1> QED
  BY <1>1, <1>2, <1>10, <1>11, <1>13, <1>14 DEF CodecInv

\* Training starts with nothing entered.
LEMMA CodecInitInv == CodecInit => CodecInv
<1> SUFFICES ASSUME CodecInit
             PROVE  CodecInv
  OBVIOUS
<1>1. Setting
  <2>1. ASSUME NEW m \in ToSet(corpus), NEW S \in AnchorSets(m)
        PROVE  Whites(m) \subseteq S /\ S \subseteq ToSet(m)
    <3>1. Whites(m) \subseteq Nodes(m)
      <4> SUFFICES ASSUME NEW t \in Whites(m)
                   PROVE  t \in Nodes(m)
        OBVIOUS
      <4>1. t \in ToSet(m) /\ keep(t.kind)
        BY DEF Whites, keep
      <4> QED
        BY <4>1 DEF Nodes, CountedSlices
    <3>2. Whites(m) \cap Blacks(m) = {}
      BY DEF Whites, Blacks
    <3>3. CASE Nodes(m) = {}
      BY <3>1, <3>3 DEF AnchorSets
    <3>4. CASE Nodes(m) # {}
      <4>1. PICK component \in SUBSET Nodes(m) : S = (component \cup Whites(m)) \ Blacks(m)
        BY <3>4 DEF AnchorSets
      <4>2. Nodes(m) \subseteq ToSet(m) /\ Whites(m) \subseteq ToSet(m)
        BY DEF Nodes, Whites
      <4> QED
        BY <3>2, <4>1, <4>2
    <3> QED
      BY <3>3, <3>4
  <2>2. DOMAIN anchors = ToSet(corpus) /\ \A m \in ToSet(corpus) : anchors[m] \in AnchorSets(m)
    BY DEF CodecInit
  <2> QED
    BY <2>1, <2>2 DEF CodecInit, Setting
<1>2. Len(corpus) \in Nat
  BY <1>1, LineFacts
<1>3. StagesInv
  BY <1>2 DEF CodecInit, StagesInv
<1>4. TablesInv
  <2>1. PICK S, e : S = Seq(Symbols) /\ e = <<>>
    OBVIOUS
  <2>2. e \in Seq(S) /\ IsInjective(e) /\ Len(e) = 0
    BY <2>1 DEF IsInjective
  <2>3. IsPrefix(e, e)
    <3>1. Len(e) <= Len(e) /\ \A i \in 1 .. Len(e) : e[i] = e[i]
      BY <2>2
    <3> QED
      BY <2>2, <3>1, PrefixMeans, Zenon
  <2> QED
    BY <2>1, <2>2, <2>3 DEF CodecInit, TablesInv
<1>5. EntriesInv /\ ExactInv
  <2>1. DOMAIN entries = {} /\ 1 .. next - 1 = {} /\ stage # "failed"
    BY DEF CodecInit
  <2> QED
    BY <2>1 DEF EntriesInv, ExactInv
<1> QED
  BY <1>1, <1>3, <1>4, <1>5 DEF CodecInit, CodecInv

\* A step that only ends the training, or changes nothing.
LEMMA FinishStep ==
    ASSUME CodecInv, Finish \/ UNCHANGED codecVars
    PROVE  CodecInv'
<1>1. /\ UNCHANGED <<corpus, sample, anchors, sampled, masks, known, table, entries, next>>
      /\ stage' = stage \/ (stage = "lines" /\ next > Len(corpus) /\ stage' = "done")
  BY DEF Finish, codecVars
<1>2. Setting /\ StagesInv /\ TablesInv /\ EntriesInv /\ ExactInv
  BY DEF CodecInv
<1>3. Len(corpus) \in Nat
  BY <1>2, LineFacts
<1>4. Setting' /\ (Full' <=> Full)
  BY <1>1, <1>2, SameSetting
<1>5. ASSUME Patterned
      PROVE  Patterned' /\ \A i : TemplateFor(i)' = TemplateFor(i) /\ ArgsFor(i)' = ArgsFor(i)
  BY <1>1, <1>5, SamePatterns
<1>6. StagesInv'
  BY <1>1, <1>2, <1>3 DEF StagesInv
<1>7. TablesInv' /\ EntriesInv'
  BY <1>1, <1>2 DEF TablesInv, EntriesInv
<1>8. \A i : TemplateFor(i)' = TemplateFor(i) /\ ArgsFor(i)' = ArgsFor(i)
  BY <1>1 DEF TemplateFor, ArgsFor, IsMasked
<1>9. ExactInv'
  BY <1>1, <1>2, <1>4, <1>8 DEF ExactInv
<1>10. stage' # "parse" => Patterned'
  BY <1>1, <1>5 DEF CodecInv
<1> QED
  BY <1>4, <1>6, <1>7, <1>9, <1>10 DEF CodecInv

\* What the lines already entered have: entries in the table and, when the
\* patterns are made of all rows, the template and the arguments of the mask.
THEOREM CodecInvariant == CodecSpec => []CodecInv
<1>1. CodecInit => CodecInv
  BY CodecInitInv
<1>2. CodecInv /\ [CodecNext]_codecVars => CodecInv'
  BY LineStep, ParseStep, FinishStep DEF CodecNext
<1> QED
  BY <1>1, <1>2, PTL DEF CodecSpec

-----------------------------------------------------------------------------
\* The table only grows, without a template twice, from the matcher's, and the
\* entries are of it.
THEOREM CodecTypes == CodecSpec => []CodecTypeOK
<1>1. CodecInv => CodecTypeOK
  BY DEF CodecInv, StagesInv, TablesInv, EntriesInv, CodecTypeOK
<1> QED
  BY <1>1, CodecInvariant, PTL

\* A line with the template and the arguments of its mask decodes to itself.
LEMMA LineDecodes ==
    ASSUME Setting, Patterned, Full, NEW i \in 1 .. Len(corpus), NEW m, m = Text(corpus[i]),
           entries[m].id \in DOMAIN table,
           table[entries[m].id] = TemplateFor(i), entries[m].args = ArgsFor(i)
    PROVE  Decodes(m)
<1>1. PICK ps, as : ps = parts(TemplateFor(i)) /\ as = ArgsFor(i)
  OBVIOUS
<1>2. m \in Seq(Symbols) /\ corpus[i] \in ToSet(corpus)
  BY LineFacts
<1>3. \A h \in 1 .. Len(m) : m[h] # "*"
  <2>1. "*" \notin ToSet(m)
    BY <1>2 DEF Full, MentionsPlaceholder
  <2>2. \A x : x \in ToSet(m) <=> \E h \in 1 .. Len(m) : x = m[h]
    BY <1>2, SeqRange
  <2> QED
    BY <2>1, <2>2
<1>4. Len(as) = Len(ps) - 1 /\ FlattenSeq(Interleaved(ps, as)) = m
  <2>1. CASE IsMasked(i)
    <3>1. PICK bits : bits = masks[i]
      OBVIOUS
    <3>2. bits \in Seq({0, 1}) /\ Len(bits) = Len(m)
      <4>1. bits = MaskOf(i) /\ Len(bits) = Len(m)
        BY <2>1, <3>1, MaskFacts DEF IsMasked
      <4>2. CASE anchors[corpus[i]] = {}
        <5>1. bits = <<>>
          BY <4>1, <4>2 DEF MaskOf
        <5>2. bits \in Seq({0, 1})
          BY <5>1
        <5> QED
          BY <4>1, <5>2
      <4>3. CASE anchors[corpus[i]] # {}
        <5>1. bits = parameterMask(corpus[i], Common(anchors[corpus[i]]))
          BY <4>1, <4>3 DEF MaskOf
        <5> QED
          BY <4>1, <5>1, LineMasked
      <4> QED
        BY <4>2, <4>3
    <3>3. Masked(m, bits)
      BY <1>2, <1>3, <3>2 DEF Masked
    <3>4. TemplateFor(i) = templateFromMask(m, bits) /\ as = argsFromMask(m, bits)
      BY <1>1, <2>1, <3>1 DEF TemplateFor, ArgsFor
    <3> QED
      BY <1>1, <3>3, <3>4, MaskRebuilds
  <2>2. CASE ~IsMasked(i)
    <3>1. TemplateFor(i) = m /\ as = <<>>
      BY <1>1, <2>2 DEF TemplateFor, ArgsFor
    <3> QED
      BY <1>1, <1>2, <1>3, <3>1, LiteralRebuilds
  <2> QED
    BY <2>1, <2>2
<1>5. PICK e : e = entries[m]
  OBVIOUS
<1>6. parts(table[e.id]) = ps /\ e.args = as
  BY <1>1, <1>5
<1>7. Decode(e.id, as) = {FlattenSeq(Interleaved(ps, as))}
  BY <1>4, <1>6, Zenon DEF Decode, Interleaved
<1> QED
  BY <1>4, <1>5, <1>6, <1>7 DEF Decodes

\* When patterns are made of all rows and no line holds the text <*>, training
\* does not fail and every line decodes to itself.
THEOREM LinesRoundTrip == CodecSpec => []RoundTrip
<1>1. CodecInv => RoundTrip
  <2> SUFFICES ASSUME CodecInv, Full
               PROVE  /\ stage # "failed"
                      /\ stage = "done" => \A i \in DOMAIN corpus : Decodes(Text(corpus[i]))
    BY DEF RoundTrip, Full
  <2>1. Setting /\ StagesInv /\ TablesInv /\ EntriesInv /\ ExactInv
    BY DEF CodecInv
  <2>2. stage # "failed"
    BY <2>1 DEF ExactInv
  <2>3. ASSUME stage = "done", NEW i \in DOMAIN corpus
        PROVE  Decodes(Text(corpus[i]))
    <3>1. DOMAIN corpus = 1 .. Len(corpus) /\ Len(corpus) \in Nat
      BY <2>1, LineFacts
    <3>2. Patterned /\ next = Len(corpus) + 1
      BY <2>1, <2>3 DEF CodecInv, StagesInv
    <3>3. i \in 1 .. Len(corpus) /\ i \in 1 .. next - 1
      BY <2>3, <3>1, <3>2
    <3>4. PICK m : m = Text(corpus[i])
      OBVIOUS
    <3>5. m \in DOMAIN entries
      BY <2>1, <3>3, <3>4 DEF EntriesInv
    <3>6. entries[m].id \in DOMAIN table
      BY <2>1, <3>5 DEF EntriesInv
    <3>7. table[entries[m].id] = TemplateFor(i) /\ entries[m].args = ArgsFor(i)
      BY <2>1, <3>3, <3>4 DEF ExactInv
    <3> QED
      BY <2>1, <3>2, <3>3, <3>4, <3>6, <3>7, LineDecodes
  <2> QED
    BY <2>2, <2>3
<1> QED
  BY <1>1, CodecInvariant, PTL

-----------------------------------------------------------------------------
\* A line entered has its mask's arguments and either its own template or, when
\* no template of the parse was that, the matcher's.
Filed(i) ==
    LET e == entries[Text(corpus[i])]
    IN  /\ e.args = ArgsFor(i)
        /\ \/ table[e.id] = TemplateFor(i)
           \/ /\ IsMasked(i)
              /\ TemplateFor(i) \notin ToSet(known)
              /\ e.id \in MatchID(Text(corpus[i]))

FilingInv ==
    /\ \A i \in 1 .. next - 1 : Filed(i)
    /\ FailsOnlyAfterGrowth

\* The matcher has one answer.
LEMMA MatchIDIsOne ==
    ASSUME TablesInv, NEW m, NEW a \in MatchID(m), NEW b \in MatchID(m)
    PROVE  a = b
<1> SUFFICES ASSUME a # b
             PROVE  FALSE
  OBVIOUS
<1>1. /\ a \in DOMAIN known /\ b \in DOMAIN known
      /\ Better(known, a, b) /\ Better(known, b, a)
  BY DEF MatchID
<1>2. /\ known[a] \in Seq(Symbols) /\ known[b] \in Seq(Symbols)
      /\ a \in Nat /\ b \in Nat
  BY <1>1 DEF TablesInv
<1>3. PICK la, lb, pa, pb : /\ la = literalBytes(known[a]) /\ pa = placeholderCount(known[a])
                            /\ lb = literalBytes(known[b]) /\ pb = placeholderCount(known[b])
  OBVIOUS
<1>4. la \in Nat /\ pa \in Nat
  BY <1>2, <1>3, CountFacts
<1>5. lb \in Nat /\ pb \in Nat
  BY <1>2, <1>3, CountFacts
<1>6. /\ la > lb \/ (la = lb /\ (pa < pb \/ (pa = pb /\ a < b)))
      /\ lb > la \/ (lb = la /\ (pb < pa \/ (pb = pa /\ b < a)))
  BY <1>1, <1>3, Zenon DEF Better
<1> QED
  BY <1>2, <1>4, <1>5, <1>6

\* The table has every template of the matcher.
LEMMA KnownInTable ==
    ASSUME TablesInv
    PROVE  ToSet(known) \subseteq ToSet(table)
<1>1. /\ known \in Seq(Seq(Symbols)) /\ table \in Seq(Seq(Symbols))
      /\ Len(known) <= Len(table) /\ \A i \in 1 .. Len(known) : known[i] = table[i]
  BY PrefixMeans DEF TablesInv
<1>2. /\ \A x : x \in ToSet(known) <=> \E i \in 1 .. Len(known) : x = known[i]
      /\ \A x : x \in ToSet(table) <=> \E i \in 1 .. Len(table) : x = table[i]
  BY <1>1, SeqRange
<1>3. \A i \in 1 .. Len(known) : i \in 1 .. Len(table)
  BY <1>1
<1> QED
  BY <1>1, <1>2, <1>3

\* Entering a line: with its own template, with a new one that the matcher had
\* no other for, or with the matcher's.
LEMMA FiledStep ==
    ASSUME CodecInv, FilingInv, HasLine,
           NEW id, Enter(id, TemplateFor(next), ArgsFor(next)),
           \/ id \in DOMAIN table /\ table[id] = TemplateFor(next)
           \/ /\ id = Len(table) + 1
              /\ TemplateFor(next) \notin ToSet(table)
              /\ IsMasked(next) => MatchID(text) = {}
           \/ /\ IsMasked(next)
              /\ TemplateFor(next) \notin ToSet(table)
              /\ id \in MatchID(text)
    PROVE  FilingInv'
<1>1. /\ Setting /\ StagesInv /\ TablesInv /\ EntriesInv /\ Patterned
      /\ stage = "lines" /\ next \in 1 .. Len(corpus)
      /\ Len(corpus) \in Nat
  <2>1. Setting /\ stage = "lines" /\ next <= Len(corpus) /\ next \in 1 .. Len(corpus) + 1
    BY DEF CodecInv, HasLine, StagesInv
  <2>2. Len(corpus) \in Nat
    BY <2>1, LineFacts
  <2> QED
    BY <2>1, <2>2 DEF CodecInv
<1>2. PICK i, m, t, as : i = next /\ m = Text(corpus[i]) /\ t = TemplateFor(i) /\ as = ArgsFor(i)
  OBVIOUS
<1>3. /\ i \in 1 .. Len(corpus) /\ text = m /\ t \in Seq(Symbols)
      /\ \A j \in 1 .. Len(corpus) : Text(corpus[j]) = m => TemplateFor(j) = t /\ ArgsFor(j) = as
  BY <1>1, <1>2, MaskFacts DEF text, line
<1>4. ASSUME NEW j \in 1 .. Len(corpus), Text(corpus[j]) = m
      PROVE  IsMasked(j) <=> IsMasked(i)
  <2>1. corpus[j] = corpus[i]
    BY <1>1, <1>2, <1>3, <1>4, LineFacts
  <2>2. masks[j] = MaskOf(j)
    BY <1>1, MaskFacts
  <2>3. masks[i] = MaskOf(i)
    BY <1>1, <1>3, MaskFacts
  <2> QED
    BY <2>1, <2>2, <2>3 DEF IsMasked, MaskOf
<1>5. UNCHANGED <<corpus, sample, anchors, sampled, masks, known>>
  BY DEF Enter
<1>6. /\ \A j : TemplateFor(j)' = TemplateFor(j) /\ ArgsFor(j)' = ArgsFor(j)
      /\ \A j : IsMasked(j)' <=> IsMasked(j)
      /\ \A x : MatchID(x)' = MatchID(x)
  BY <1>1, <1>5, SamePatterns DEF IsMasked, MatchID
<1>7. DOMAIN table = 1 .. Len(table) /\ Len(table) \in Nat /\ IsInjective(table)
  BY <1>1 DEF TablesInv
<1>8. MatchID(m) \subseteq DOMAIN table
  BY <1>1, MatchIDFacts
<1>9. PICK tb : tb = table'
  OBVIOUS
<1>10. /\ \A j \in DOMAIN table : j \in DOMAIN tb /\ tb[j] = table[j]
       /\ id \notin DOMAIN table => tb[id] = t
       /\ id \in DOMAIN table => tb = table
  <2>1. (id > Len(table) => tb = Append(table, t)) /\ (~(id > Len(table)) => tb = table)
    BY <1>2, <1>9 DEF Enter
  <2>2. id \in DOMAIN table \/ (id = Len(table) + 1 /\ t \notin ToSet(table))
    BY <1>2, <1>3, <1>8
  <2>3. TablesInv /\ t \in Seq(Symbols)
    BY <1>1, <1>3
  <2>4. id \in DOMAIN table => ~(id > Len(table))
    BY <1>7
  <2>5. /\ tb \in Seq(Seq(Symbols)) /\ IsInjective(tb) /\ IsPrefix(known, tb)
        /\ \A j \in DOMAIN table : j \in DOMAIN tb /\ tb[j] = table[j]
        /\ id \in DOMAIN tb
        /\ id \notin DOMAIN table => tb[id] = t
    BY <2>1, <2>2, <2>3, TableGrows, Zenon
  <2> QED
    BY <2>1, <2>4, <2>5
<1>11. \A x : x \in ToSet(table) <=> \E j \in 1 .. Len(table) : x = table[j]
  BY <1>1, SeqRange DEF TablesInv
<1>12. t \notin ToSet(table) => t \notin ToSet(known)
  BY <1>1, KnownInTable
\* What the line itself is given is one of the two.
<1>13. \/ tb[id] = t
       \/ IsMasked(i) /\ t \notin ToSet(known) /\ id \in MatchID(m)
  <2>1. CASE id \in DOMAIN table /\ table[id] = t
    BY <1>10, <2>1
  <2>2. CASE id = Len(table) + 1
    <3>1. id \notin DOMAIN table
      BY <1>7, <2>2
    <3> QED
      BY <1>10, <3>1
  <2>3. CASE IsMasked(i) /\ t \notin ToSet(table) /\ id \in MatchID(m)
    BY <1>12, <2>3
  <2> QED
    BY <1>2, <1>3, <2>1, <2>2, <2>3
\* The lines before it stay what they were.
<1>14. ASSUME NEW j \in 1 .. i - 1
       PROVE  /\ j \in 1 .. Len(corpus) /\ Text(corpus[j]) \in DOMAIN entries
              /\ entries[Text(corpus[j])].id \in DOMAIN table
              /\ entries[Text(corpus[j])].args = ArgsFor(j)
              /\ \/ tb[entries[Text(corpus[j])].id] = TemplateFor(j)
                 \/ /\ IsMasked(j)
                    /\ TemplateFor(j) \notin ToSet(known)
                    /\ entries[Text(corpus[j])].id \in MatchID(Text(corpus[j]))
  <2>1. PICK x, e : x = Text(corpus[j]) /\ e = entries[x]
    OBVIOUS
  <2>2. x \in DOMAIN entries
    BY <1>1, <1>2, <2>1 DEF EntriesInv
  <2>3. e.id \in DOMAIN table
    BY <1>1, <2>1, <2>2 DEF EntriesInv
  <2>4. Filed(j)
    BY <1>2 DEF FilingInv
  <2>5. tb[e.id] = table[e.id]
    BY <1>10, <2>3
  <2>6. j \in 1 .. Len(corpus)
    BY <1>1, <1>3
  <2> QED
    BY <2>1, <2>2, <2>3, <2>4, <2>5, <2>6 DEF Filed
<1>15. ASSUME NEW en, en = entries', next' = i + 1, stage' = "lines",
              en[m] = [id |-> id, args |-> as],
              \A x \in DOMAIN entries : x # m => en[x] = entries[x]
       PROVE  FilingInv'
  <2>1. FailsOnlyAfterGrowth'
    BY <1>15 DEF FailsOnlyAfterGrowth
  <2>2. \A j : j \in 1 .. next' - 1 => j \in 1 .. i - 1 \/ j = i
    BY <1>3, <1>15
  <2>3. ASSUME NEW j \in 1 .. next' - 1
        PROVE  Filed(j)'
    <3>1. j \in 1 .. i - 1 \/ j = i
      BY <2>2
    <3>2. j \in 1 .. Len(corpus)
      BY <1>3, <1>14, <3>1
    <3>3. PICK x, e : x = Text(corpus[j]) /\ e = en[x]
      OBVIOUS
    <3>4. CASE x = m
      <4>1. TemplateFor(j) = t /\ ArgsFor(j) = as /\ (IsMasked(j) <=> IsMasked(i))
        BY <1>3, <1>4, <3>2, <3>3, <3>4
      <4>2. e.id = id /\ e.args = as
        <5>1. e = [id |-> id, args |-> as]
          BY <1>15, <3>3, <3>4, Zenon
        <5> QED
          BY <5>1
      <4>3. /\ e.args = ArgsFor(j)
            /\ \/ tb[e.id] = TemplateFor(j)
               \/ IsMasked(j) /\ TemplateFor(j) \notin ToSet(known) /\ e.id \in MatchID(x)
        BY <1>13, <3>4, <4>1, <4>2
      <4> QED
        BY <1>5, <1>6, <1>9, <1>15, <3>3, <4>3 DEF Filed
    <3>5. CASE x # m
      <4>1. j \in 1 .. i - 1
        BY <1>2, <3>1, <3>3, <3>5
      <4>2. e = entries[x]
        BY <1>14, <1>15, <3>3, <3>5, <4>1
      <4>3. /\ e.args = ArgsFor(j)
            /\ \/ tb[e.id] = TemplateFor(j)
               \/ IsMasked(j) /\ TemplateFor(j) \notin ToSet(known) /\ e.id \in MatchID(x)
        BY <1>14, <3>3, <4>1, <4>2
      <4> QED
        BY <1>5, <1>6, <1>9, <1>15, <3>3, <4>3 DEF Filed
    <3> QED
      BY <3>4, <3>5
  <2> QED
    BY <2>1, <2>3 DEF FilingInv
<1>16. CASE /\ text \notin DOMAIN entries
            /\ entries' = [x \in DOMAIN entries \cup {text} |->
                              IF x = text THEN [id |-> id, args |-> ArgsFor(next)] ELSE entries[x]]
            /\ next' = next + 1
            /\ UNCHANGED stage
  <2>1. PICK en : en = entries'
    OBVIOUS
  <2>2. /\ en[m] = [id |-> id, args |-> as]
        /\ \A x \in DOMAIN entries : x # m => en[x] = entries[x]
    BY <1>2, <1>3, <1>16, <2>1
  <2> QED
    BY <1>1, <1>2, <1>15, <1>16, <2>1, <2>2
<1>17. CASE /\ text \in DOMAIN entries
            /\ entries[text] = [id |-> id, args |-> ArgsFor(next)]
            /\ next' = next + 1
            /\ UNCHANGED <<entries, stage>>
  <2>1. PICK en : en = entries'
    OBVIOUS
  <2>2. /\ en[m] = [id |-> id, args |-> as]
        /\ \A x \in DOMAIN entries : x # m => en[x] = entries[x]
    BY <1>2, <1>3, <1>17, <2>1
  <2> QED
    BY <1>1, <1>2, <1>15, <1>17, <2>1, <2>2
<1>18. CASE /\ text \in DOMAIN entries
            /\ entries[text] # [id |-> id, args |-> ArgsFor(next)]
            /\ stage' = "failed"
            /\ UNCHANGED <<entries, next>>
  <2>1. PICK j \in 1 .. i - 1 : m = Text(corpus[j])
    BY <1>1, <1>2, <1>3, <1>18 DEF EntriesInv
  <2>2. j \in 1 .. Len(corpus)
    BY <1>14
  <2>3. PICK e : e = entries[m]
    OBVIOUS
  <2>4. /\ e.id \in DOMAIN table /\ e.args = as
        /\ \/ tb[e.id] = t
           \/ IsMasked(i) /\ t \notin ToSet(known) /\ e.id \in MatchID(m)
    <3>1. TemplateFor(j) = t /\ ArgsFor(j) = as /\ (IsMasked(j) <=> IsMasked(i))
      BY <1>3, <1>4, <2>1, <2>2
    <3> QED
      BY <1>14, <2>1, <2>3, <3>1
  <2>5. e.id # id
    <3>1. e = [id |-> e.id, args |-> e.args]
      BY <1>1, <1>3, <1>18, <2>3 DEF EntriesInv
    <3> QED
      BY <1>2, <1>3, <1>18, <2>3, <2>4, <3>1
  \* Neither the line's entry is of its own template, nor is that missing.
  <2>6. tb[e.id] = table[e.id] /\ table[e.id] \in ToSet(table)
    BY <1>7, <1>10, <1>11, <2>4
  <2>7. table[e.id] # t
    <3> SUFFICES ASSUME table[e.id] = t
                 PROVE  FALSE
      OBVIOUS
    <3>1. t \in ToSet(table)
      BY <2>6
    <3>2. id \in DOMAIN table /\ table[id] = t
      BY <1>2, <3>1
    <3> QED
      BY <1>7, <2>4, <2>5, <3>2 DEF IsInjective
  <2>8. IsMasked(i) /\ t \notin ToSet(known) /\ e.id \in MatchID(m)
    BY <2>4, <2>6, <2>7
  <2>9. id \in DOMAIN table /\ table[id] = t
    <3>1. id \notin MatchID(m)
      BY <1>1, <2>5, <2>8, MatchIDIsOne
    <3>2. MatchID(m) # {}
      BY <2>8
    <3> QED
      BY <1>2, <1>3, <2>8, <3>1, <3>2
  <2>10. tb = table /\ t \in ToSet(table)
    BY <1>7, <1>10, <1>11, <2>9
  <2>11. /\ Len(masks[i]) = Len(m) /\ t = templateFromMask(m, masks[i])
         /\ as = argsFromMask(m, masks[i])
    BY <1>2, <2>8 DEF IsMasked, TemplateFor, ArgsFor
  <2>12. /\ text' = text /\ mask' = mask /\ maskTemplate' = maskTemplate /\ maskArgs' = maskArgs
         /\ MatchID(text)' = MatchID(text)
    BY <1>5, <1>6, <1>18 DEF text, line, mask, maskTemplate, maskArgs, MatchID
  <2>13. FailsOnlyAfterGrowth'
    <3>1. /\ Len(mask) = Len(text) /\ maskTemplate \in ToSet(table) \ ToSet(known)
          /\ \E h \in 1 .. next - 1 : Text(corpus[h]) = text
          /\ entries[text].id \in MatchID(text) /\ entries[text].args = maskArgs
      <4>1. text = m /\ mask = masks[i] /\ maskTemplate = t /\ maskArgs = as
        BY <1>2, <1>3, <2>11 DEF mask, maskTemplate, maskArgs
      <4> QED
        BY <1>2, <2>1, <2>3, <2>4, <2>8, <2>10, <2>11, <4>1
    <3> QED
      BY <1>5, <1>9, <1>18, <2>10, <2>12, <3>1 DEF FailsOnlyAfterGrowth
  <2>14. ASSUME NEW h \in 1 .. next' - 1
         PROVE  Filed(h)'
    <3>1. h \in 1 .. next - 1
      BY <1>18
    <3>2. Filed(h)
      BY <3>1 DEF FilingInv
    <3> QED
      BY <1>5, <1>6, <1>9, <1>18, <2>10, <3>2 DEF Filed
  <2> QED
    BY <2>13, <2>14 DEF FilingInv
<1> QED
  BY <1>16, <1>17, <1>18, Zenon DEF Enter

\* Every line's step enters it in one of those ways.
LEMMA FilingLineStep ==
    ASSUME CodecInv, FilingInv, LiteralLine \/ KnownTemplate \/ UnknownTemplate
    PROVE  FilingInv'
<1>1. HasLine /\ TablesInv
  BY DEF CodecInv, LiteralLine, KnownTemplate, UnknownTemplate
<1>2. text = Text(corpus[next]) /\ mask = masks[next]
  BY DEF text, line, mask
<1>3. CASE LiteralLine
  <2>1. PICK id : id = ensureTemplateID(text)
    OBVIOUS
  <2>2. TemplateFor(next) = text /\ ArgsFor(next) = <<>> /\ ~IsMasked(next)
    BY <1>2, <1>3 DEF LiteralLine, TemplateFor, ArgsFor, IsMasked
  <2>3. Enter(id, TemplateFor(next), ArgsFor(next))
    BY <1>3, <2>1, <2>2, Zenon DEF LiteralLine, Enter
  <2>4. \/ id \in DOMAIN table /\ table[id] = text
        \/ id = Len(table) + 1 /\ text \notin ToSet(table)
    BY <1>1, <2>1, EnsureFacts
  <2> QED
    BY <1>1, <2>2, <2>3, <2>4, FiledStep
<1>4. ASSUME Len(mask) = Len(text)
      PROVE  TemplateFor(next) = maskTemplate /\ ArgsFor(next) = maskArgs /\ IsMasked(next)
  BY <1>2, <1>4 DEF TemplateFor, ArgsFor, IsMasked, maskTemplate, maskArgs
<1>5. ASSUME Len(mask) = Len(text), NEW id, id = ensureTemplateID(maskTemplate),
             Enter(id, maskTemplate, maskArgs),
             maskTemplate \in ToSet(table) \/ MatchID(text) = {}
      PROVE  FilingInv'
  <2>1. TemplateFor(next) = maskTemplate /\ ArgsFor(next) = maskArgs
    BY <1>4, <1>5
  <2>2. Enter(id, TemplateFor(next), ArgsFor(next))
    BY <1>5, <2>1, Zenon DEF Enter
  <2>3. \/ id \in DOMAIN table /\ table[id] = maskTemplate
        \/ id = Len(table) + 1 /\ maskTemplate \notin ToSet(table)
    BY <1>1, <1>5, EnsureFacts
  <2> QED
    BY <1>1, <1>5, <2>1, <2>2, <2>3, FiledStep
<1>6. CASE KnownTemplate
  BY <1>5, <1>6 DEF KnownTemplate
<1>7. CASE UnknownTemplate
  <2>1. Len(mask) = Len(text) /\ maskTemplate \notin ToSet(table)
    BY <1>7 DEF UnknownTemplate
  <2>2. ASSUME NEW id \in MatchID(text), Enter(id, maskTemplate, maskArgs)
        PROVE  FilingInv'
    <3>1. TemplateFor(next) = maskTemplate /\ ArgsFor(next) = maskArgs /\ IsMasked(next)
      BY <1>4, <2>1
    <3>2. Enter(id, TemplateFor(next), ArgsFor(next))
      BY <2>2, <3>1, Zenon DEF Enter
    <3> QED
      BY <1>1, <2>1, <2>2, <3>1, <3>2, FiledStep
  <2> QED
    BY <1>5, <1>7, <2>1, <2>2 DEF UnknownTemplate
<1> QED
  BY <1>3, <1>6, <1>7

\* Training gives up on nothing but a line that comes again, filed under the
\* matcher's template, after another line has added the template of its mask.
THEOREM TrainingFailsOnlyAfterGrowth == CodecSpec => []FailsOnlyAfterGrowth
<1>1. CodecInit => FilingInv
  <2> SUFFICES ASSUME CodecInit
               PROVE  FilingInv
    OBVIOUS
  <2>1. 1 .. next - 1 = {} /\ stage # "failed"
    BY DEF CodecInit
  <2> QED
    BY <2>1 DEF FilingInv, FailsOnlyAfterGrowth
<1>2. FilingInv /\ CodecInv /\ [CodecNext]_codecVars => FilingInv'
  <2> SUFFICES ASSUME FilingInv, CodecInv, [CodecNext]_codecVars
               PROVE  FilingInv'
    OBVIOUS
  <2>1. CASE LiteralLine \/ KnownTemplate \/ UnknownTemplate
    BY <2>1, FilingLineStep
  <2>2. CASE Parse
    <3>1. 1 .. next' - 1 = {} /\ stage' # "failed"
      BY <2>2 DEF CodecInv, StagesInv, Parse
    <3> QED
      BY <3>1 DEF FilingInv, FailsOnlyAfterGrowth
  <2>3. CASE Finish \/ UNCHANGED codecVars
    <3>1. /\ UNCHANGED <<corpus, sample, anchors, sampled, masks, known, table, entries, next>>
          /\ stage' = stage \/ stage' = "done"
      BY <2>3 DEF Finish, codecVars
    <3>2. /\ \A i : TemplateFor(i)' = TemplateFor(i) /\ ArgsFor(i)' = ArgsFor(i)
          /\ \A i : IsMasked(i)' <=> IsMasked(i)
          /\ \A x : MatchID(x)' = MatchID(x)
      BY <3>1 DEF TemplateFor, ArgsFor, IsMasked, MatchID
    <3>3. \A i \in 1 .. next' - 1 : Filed(i)'
      BY <3>1, <3>2 DEF FilingInv, Filed
    <3>4. FailsOnlyAfterGrowth'
      BY <3>1, <3>2 DEF FilingInv, FailsOnlyAfterGrowth, text, line, mask, maskTemplate, maskArgs
    <3> QED
      BY <3>3, <3>4 DEF FilingInv
  <2> QED
    BY <2>1, <2>2, <2>3 DEF CodecNext
<1>3. FilingInv => FailsOnlyAfterGrowth
  BY DEF FilingInv
<1> QED
  BY <1>1, <1>2, <1>3, CodecInvariant, PTL DEF CodecSpec

-----------------------------------------------------------------------------
\* The patterns of a cluster are made of different lines of it, in line order,
\* from its first to its last.
THEOREM SamplesCover == CodecSpec => []SampleCovers
<1>1. CodecInv => SampleCovers
  <2> SUFFICES ASSUME CodecInv, stage # "parse", NEW c \in Clusters
               PROVE  LET s == sampled[c]
                          all == Indices(c)
                      IN  /\ ToSet(s) \subseteq ToSet(all)
                          /\ \A p \in 1 .. Len(s) - 1 : s[p] < s[p + 1]
                          /\ s[1] = all[1]
                          /\ Len(s) > 1 => s[Len(s)] = all[Len(all)]
    BY DEF SampleCovers
  <2>1. PICK s, all : s = sampled[c] /\ all = Indices(c)
    OBVIOUS
  <2>2. Setting /\ IsSample(s, all)
    BY <2>1 DEF CodecInv, Patterned
  <2>3. s \in Seq(1 .. Len(corpus)) /\ \A p \in 1 .. Len(s) : \E q \in 1 .. Len(all) : s[p] = all[q]
    BY <2>2 DEF IsSample
  <2>4. all \in Seq(1 .. Len(corpus))
    BY <2>2, <2>1, IndicesFacts
  <2>5. ToSet(s) \subseteq ToSet(all)
    <3>1. \A x : x \in ToSet(s) <=> \E p \in 1 .. Len(s) : x = s[p]
      BY <2>3, SeqRange
    <3>2. \A x : x \in ToSet(all) <=> \E p \in 1 .. Len(all) : x = all[p]
      BY <2>4, SeqRange
    <3> QED
      BY <2>3, <3>1, <3>2
  <2> QED
    BY <2>2, <2>5, <2>1 DEF IsSample
<1> QED
  BY <1>1, CodecInvariant, PTL

\* Slice x is one of a candidate token of every row.
InEveryRow(filter, rows, x) ==
    \A p \in DOMAIN rows : \E h \in DOMAIN rows[p] :
       x = rows[p][h].slice /\ commonCandidate(filter, rows[p][h].kind)

\* Those are the shared slices.
LEMMA SharedMeans ==
    ASSUME NEW filter, NEW rows, NEW x, rows # <<>>, 1 \in DOMAIN rows
    PROVE  x \in sharedSlices(filter, rows) <=> InEveryRow(filter, rows, x)
<1> DEFINE Slices(row) ==
        {row[j].slice : j \in {j \in DOMAIN row : commonCandidate(filter, row[j].kind)}}
<1>1. rows # <<>> /\ 1 \in DOMAIN rows
  OBVIOUS
<1>2. sharedSlices(filter, rows) = {s \in Slices(rows[1]) : \A p \in DOMAIN rows : s \in Slices(rows[p])}
  BY <1>1, Zenon DEF sharedSlices
<1>3. \A row : x \in Slices(row) <=>
         \E h \in DOMAIN row : x = row[h].slice /\ commonCandidate(filter, row[h].kind)
  OBVIOUS
<1> HIDE DEF Slices
<1>4. x \in sharedSlices(filter, rows) <=> \A p \in DOMAIN rows : x \in Slices(rows[p])
  BY <1>1, <1>2
<1> QED
  BY <1>3, <1>4 DEF InEveryRow

\* White tokens are kept in every mask, and black ones replaced unless their
\* text is another kind of token in every row of the patterns.
THEOREM SpecialsAreRendered == CodecSpec => []SpecialsRendered
<1>1. CodecInv => SpecialsRendered
  <2> SUFFICES ASSUME CodecInv, stage # "parse", NEW i \in DOMAIN corpus, NEW j \in DOMAIN masks[i]
               PROVE  LET t == corpus[i][j]
                          rows == RowsAt(sampled[anchors[corpus[i]]])
                      IN  /\ t.kind = "specialWhite" => masks[i][j] = 0
                          /\ t.kind = "specialBlack" =>
                                \/ masks[i][j] = 1
                                \/ \A p \in DOMAIN rows : \E h \in DOMAIN rows[p] :
                                      rows[p][h].slice = t.slice /\ rows[p][h].kind # "specialBlack"
    BY DEF SpecialsRendered
  <2>1. PICK t, rows : t = corpus[i][j] /\ rows = RowsAt(sampled[anchors[corpus[i]]])
    OBVIOUS
  <2>2. Setting /\ Patterned
    BY DEF CodecInv
  <2>3. /\ DOMAIN corpus = 1 .. Len(corpus)
        /\ \A q \in 1 .. Len(corpus) : corpus[q] \in ToSet(corpus)
    BY <2>2, LineFacts
  <2>4. PICK c, s : c = anchors[corpus[i]] /\ s = sampled[c]
    OBVIOUS
  <2>5. masks[i] = MaskOf(i)
    BY <2>2 DEF Patterned
  <2>6. c # {}
    <3> SUFFICES ASSUME c = {}
                 PROVE  FALSE
      OBVIOUS
    <3>1. masks[i] = <<>>
      BY <2>4, <2>5 DEF MaskOf
    <3> QED
      BY <3>1
  <2>7. c \in Clusters
    BY <2>3, <2>4, <2>6 DEF Clusters
  <2>8. PICK all : all = Indices(c)
    OBVIOUS
  <2>9. /\ IsSample(s, all)
        /\ \A q \in 1 .. Len(all) : all[q] \in 1 .. Len(corpus) /\ anchors[corpus[all[q]]] = c
    BY <2>2, <2>4, <2>7, <2>8, IndicesFacts DEF Patterned
  <2>10. /\ Len(s) \in Nat \ {0} /\ DOMAIN s = 1 .. Len(s)
        /\ \A p \in 1 .. Len(s) : s[p] \in 1 .. Len(corpus) /\ anchors[corpus[s[p]]] = c
    <3>1. s \in Seq(1 .. Len(corpus)) /\ Len(s) \in Nat \ {0}
          /\ \A p \in 1 .. Len(s) : \E q \in 1 .. Len(all) : s[p] = all[q]
      BY <2>9 DEF IsSample
    <3>2. ASSUME NEW p \in 1 .. Len(s)
          PROVE  s[p] \in 1 .. Len(corpus) /\ anchors[corpus[s[p]]] = c
      <4>1. PICK q \in 1 .. Len(all) : s[p] = all[q]
        BY <3>1
      <4> QED
        BY <2>9, <4>1
    <3>3. DOMAIN s = 1 .. Len(s)
      BY <3>1
    <3> QED
      BY <3>1, <3>2, <3>3
  <2>11. DOMAIN rows = 1 .. Len(s) /\ \A p \in 1 .. Len(s) : rows[p] = corpus[s[p]]
    BY <2>4, <2>10, <2>1 DEF RowsAt
  <2>12. /\ j \in DOMAIN corpus[i]
         /\ masks[i][j] = IF t.slice \in sharedSlices(Filter, rows) THEN 0 ELSE 1
    <3>1. masks[i] = parameterMask(corpus[i], sharedSlices(Filter, rows))
      BY <2>4, <2>5, <2>6, <2>1 DEF MaskOf, Common
    <3> QED
      BY <2>1, <3>1 DEF parameterMask
  <2>13. t.slice \in sharedSlices(Filter, rows) <=>
            \A p \in 1 .. Len(s) : \E h \in DOMAIN rows[p] :
               t.slice = rows[p][h].slice /\ commonCandidate(Filter, rows[p][h].kind)
    <3>1. 1 \in DOMAIN rows /\ rows # <<>>
      BY <2>10, <2>11
    <3>2. t.slice \in sharedSlices(Filter, rows) <=> InEveryRow(Filter, rows, t.slice)
      BY <3>1, SharedMeans, Zenon
    <3> QED
      BY <2>11, <3>2 DEF InEveryRow
  <2>14. ASSUME t.kind = "specialWhite"
         PROVE  masks[i][j] = 0
    <3>1. t \in c
      <4>1. t \in ToSet(corpus[i])
        BY <2>12, <2>1 DEF ToSet
      <4>2. t \in Whites(corpus[i])
        BY <2>14, <4>1 DEF Whites
      <4> QED
        BY <2>2, <2>3, <2>4, <4>2 DEF Setting
    <3>2. ASSUME NEW p \in 1 .. Len(s)
          PROVE  \E h \in DOMAIN rows[p] :
                    t.slice = rows[p][h].slice /\ commonCandidate(Filter, rows[p][h].kind)
      <4>1. PICK row : row = corpus[s[p]]
        OBVIOUS
      <4>2. t \in ToSet(row)
        BY <2>2, <2>3, <2>10, <3>1, <4>1 DEF Setting
      <4>3. PICK h \in DOMAIN row : row[h] = t
        BY <4>2 DEF ToSet
      <4>4. commonCandidate(Filter, row[h].kind)
        BY <2>14, <4>3 DEF commonCandidate
      <4> QED
        BY <2>11, <4>1, <4>3, <4>4
    <3> QED
      BY <2>12, <2>13, <3>2
  <2>15. ASSUME masks[i][j] # 1, NEW p \in DOMAIN rows
         PROVE  \E h \in DOMAIN rows[p] :
                   rows[p][h].slice = t.slice /\ rows[p][h].kind # "specialBlack"
    <3>1. PICK h \in DOMAIN rows[p] :
             t.slice = rows[p][h].slice /\ commonCandidate(Filter, rows[p][h].kind)
      BY <2>11, <2>12, <2>13, <2>15
    <3>2. rows[p][h].kind # "specialBlack"
      BY <3>1 DEF commonCandidate, OrdinaryCandidate
    <3> QED
      BY <3>1, <3>2
  <2> QED
    BY <2>14, <2>15, <2>1
<1> QED
  BY <1>1, CodecInvariant, PTL
=============================================================================
