-------------------------- MODULE TokenizerProofs --------------------------
(***************************************************************************)
(* Proofs about Tokenizer: whatever the line, the matchers, the symbols and  *)
(* the length limits of the vector path, no text is lost, a line's tokens    *)
(* are its spaces, its symbols and the segments between them, the count is    *)
(* the number of tokens, and tokens split further are the tokens of the       *)
(* larger symbol set.                                                        *)
(*                                                                          *)
(* The splits are folds.  Each is first shown to go from one character to the *)
(* next as the code's loop does (the lemmas named ...Next); every other fact  *)
(* about them is an induction over the text.                                 *)
(***************************************************************************)
EXTENDS Tokenizer, BasicLemmas

\* A token the splits make, or a special one.
Toks == [kind : Kinds, slice : Seq(Nat)]

-----------------------------------------------------------------------------
\* The state of the scalar loop, what it appends at the end, and its step.
ScanStates == [seg : Seq(Nat), out : Seq(Toks)]
Flushed(a) == IF a.seg = <<>> THEN a.out ELSE Append(a.out, tokenWith(a.seg))
Scan(a, c, sy) ==
    IF Boundary(c, sy) THEN [seg |-> <<>>, out |-> Append(Flushed(a), BoundaryToken(c))]
    ELSE [a EXCEPT !.seg = Append(@, c)]
ScanStart(dst) == [seg |-> <<>>, out |-> dst]
ScanStep(sy) == [p \in ScanStates \X Nat |-> Scan(p[1], p[2], sy)]

\* The function the fold is computed by.
IsScan(f, dst, t, sy) ==
    f = [s \in SUBSET DOMAIN t |->
           IF s = {} THEN ScanStart(dst) ELSE Scan(f[s \ {Max(s)}], t[Max(s)], sy)]
TheScan(dst, t, sy) == CHOOSE f : IsScan(f, dst, t, sy)
\* Where the loop has got to after the text t.
Scanned(dst, t, sy) == TheScan(dst, t, sy)[DOMAIN t]

LEMMA ScalarIsScanned ==
    ASSUME NEW dst, NEW t, NEW sy
    PROVE  appendSplitTokenScalar(dst, t, sy) = Flushed(Scanned(dst, t, sy))
  BY Zenon DEF appendSplitTokenScalar, FoldLeft, MapThenFoldSet, IsScan, TheScan, Scanned,
               ScanStart, Scan, Flushed

LEMMA TokensAreToks ==
    /\ \A c \in Nat : BoundaryToken(c) \in Toks
    /\ \A s \in Seq(Nat) : tokenWith(s) \in Toks
  BY DEF BoundaryToken, tokenWith, Tok, Toks, Kinds

LEMMA ScanStays ==
    ASSUME NEW a \in ScanStates, NEW c \in Nat, NEW sy
    PROVE  Flushed(a) \in Seq(Toks) /\ Scan(a, c, sy) \in ScanStates
<1>1. a.seg \in Seq(Nat) /\ a.out \in Seq(Toks) /\ a = [seg |-> a.seg, out |-> a.out]
  BY DEF ScanStates
<1>2. Flushed(a) \in Seq(Toks)
  BY <1>1, TokensAreToks DEF Flushed
<1>3. CASE Boundary(c, sy)
  <2>1. Append(Flushed(a), BoundaryToken(c)) \in Seq(Toks)
    <3>1. PICK r \in Toks : r = BoundaryToken(c)
      BY TokensAreToks, Zenon
    <3> QED
      BY <1>2, <3>1
  <2> QED
    BY <1>2, <1>3, <2>1 DEF Scan, ScanStates
<1>4. CASE ~Boundary(c, sy)
  <2>1. Append(a.seg, c) \in Seq(Nat)
    BY <1>1
  <2>2. Scan(a, c, sy) = [seg |-> Append(a.seg, c), out |-> a.out]
    BY <1>1, <1>4 DEF Scan
  <2> QED
    BY <1>1, <1>2, <2>1, <2>2 DEF ScanStates
<1> QED
  BY <1>3, <1>4

\* The function exists, and so is the one chosen.
LEMMA ScanRuns ==
    ASSUME NEW dst \in Seq(Toks), NEW t \in Seq(Nat), NEW sy
    PROVE  IsRun(TheScan(dst, t, sy), Len(t), ScanStates, ScanStart(dst), ScanStep(sy), t)
<1> DEFINE n == Len(t)
<1>1. n \in Nat /\ DOMAIN t = 1 .. n /\ \A i \in 1 .. n : t[i] \in Nat
  OBVIOUS
<1>2. ScanStep(sy) \in [ScanStates \X Nat -> ScanStates]
  <2>1. \A p \in ScanStates \X Nat : Scan(p[1], p[2], sy) \in ScanStates
    BY ScanStays
  <2> QED
    BY <2>1 DEF ScanStep
<1>3. ScanStart(dst) \in ScanStates
  BY DEF ScanStart, ScanStates
<1>4. StaysIn(ScanStates, Nat, ScanStart(dst), n, t, ScanStep(sy))
  BY <1>1, <1>2, <1>3, Zenon DEF StaysIn
<1>5. PICK h : IsFold(h, n, ScanStates, ScanStart(dst), ScanStep(sy), t)
  BY <1>4, FoldExists, Zenon
<1>6. \A a \in ScanStates, c \in Nat : ScanStep(sy)[<<a, c>>] = Scan(a, c, sy)
  BY DEF ScanStep
<1>7. \A s \in SUBSET (1 .. n) : s # {} => Max(s) \in 1 .. n /\ s \ {Max(s)} \in SUBSET (1 .. n)
  <2>1. \A s \in SUBSET (1 .. n) : s # {} => Max(s) \in s
    BY <1>1, MaxIsGreatest, Zenon
  <2> QED
    BY <2>1, Zenon
<1>8. IsScan(h, dst, t, sy)
  <2>1. /\ h \in [SUBSET (1 .. n) -> ScanStates]
        /\ \A s \in SUBSET (1 .. n) :
              h[s] = IF s = {} THEN ScanStart(dst)
                     ELSE ScanStep(sy)[<<h[s \ {Max(s)}], t[Max(s)]>>]
    BY <1>5, Zenon DEF IsFold
  <2>2. ASSUME NEW s \in SUBSET (1 .. n)
        PROVE  h[s] = IF s = {} THEN ScanStart(dst) ELSE Scan(h[s \ {Max(s)}], t[Max(s)], sy)
    <3>1. CASE s # {}
      <4>1. h[s \ {Max(s)}] \in ScanStates /\ t[Max(s)] \in Nat
        BY <1>1, <1>7, <2>1, <3>1, Zenon
      <4> QED
        BY <1>6, <2>1, <3>1, <4>1, Zenon
    <3> QED
      BY <2>1, <3>1, Zenon
  <2>3. h = [s \in SUBSET (1 .. n) |->
               IF s = {} THEN ScanStart(dst) ELSE Scan(h[s \ {Max(s)}], t[Max(s)], sy)]
    BY <2>1, <2>2, Zenon
  <2> QED
    BY <1>1, <2>3, Zenon DEF IsScan
<1>9. PICK f : f = TheScan(dst, t, sy)
  OBVIOUS
<1>10. IsScan(f, dst, t, sy)
  BY <1>8, <1>9, Zenon DEF TheScan
<1>11. \A s \in SUBSET (1 .. n) :
          f[s] = IF s = {} THEN ScanStart(dst) ELSE Scan(f[s \ {Max(s)}], t[Max(s)], sy)
  BY <1>1, <1>10, Zenon DEF IsScan
<1>12. f[{}] = ScanStart(dst)
  BY <1>11, Zenon
<1>13. ASSUME NEW s \in SUBSET (1 .. n), s # {}, f[s \ {Max(s)}] \in ScanStates
       PROVE  f[s] = ScanStep(sy)[<<f[s \ {Max(s)}], t[Max(s)]>>]
  BY <1>1, <1>6, <1>7, <1>11, <1>13, Zenon
<1>14. IsRun(f, n, ScanStates, ScanStart(dst), ScanStep(sy), t)
  BY <1>12, <1>13, Zenon DEF IsRun
<1> QED
  BY <1>9, <1>14, Zenon

\* The loop, character by character.
LEMMA ScanNext ==
    ASSUME NEW dst \in Seq(Toks), NEW t \in Seq(Nat), NEW c \in Nat, NEW sy
    PROVE  /\ Scanned(dst, <<>>, sy) = ScanStart(dst)
           /\ Scanned(dst, t, sy) \in ScanStates
           /\ Scanned(dst, Append(t, c), sy) = Scan(Scanned(dst, t, sy), c, sy)
<1>1. PICK n : n = Len(t)
  OBVIOUS
<1>2. n \in Nat /\ DOMAIN t = 1 .. n /\ <<>> \in Seq(Nat) /\ DOMAIN <<>> = {}
  BY <1>1
<1>3. PICK w : w = Append(t, c)
  OBVIOUS
<1>4. w \in Seq(Nat) /\ Len(w) = n + 1 /\ DOMAIN w = 1 .. n + 1
  BY <1>1, <1>2, <1>3
<1>5. TheScan(dst, <<>>, sy)[{}] = ScanStart(dst)
  BY <1>2, ScanRuns, Zenon DEF IsRun
<1>6. Scanned(dst, <<>>, sy) = ScanStart(dst)
  BY <1>2, <1>5, Zenon DEF Scanned
<1>7. ScanStep(sy) \in [ScanStates \X Nat -> ScanStates]
  <2>1. \A p \in ScanStates \X Nat : Scan(p[1], p[2], sy) \in ScanStates
    BY ScanStays
  <2> QED
    BY <2>1 DEF ScanStep
<1>8. ScanStart(dst) \in ScanStates
  BY DEF ScanStart, ScanStates
<1>s. StaysIn(ScanStates, Nat, ScanStart(dst), n, t, ScanStep(sy))
  <2>1. \A i \in 1 .. n : t[i] \in Nat
    BY <1>1
  <2> QED
    BY <1>2, <1>7, <1>8, <2>1, Zenon DEF StaysIn
<1>9. IsRun(TheScan(dst, t, sy), n, ScanStates, ScanStart(dst), ScanStep(sy), t)
  BY <1>1, ScanRuns, Zenon
<1>10. IsRun(TheScan(dst, w, sy), n + 1, ScanStates, ScanStart(dst), ScanStep(sy), Append(t, c))
  BY <1>3, <1>4, ScanRuns, Zenon
<1>11. /\ TheScan(dst, t, sy)[1 .. n] \in ScanStates
       /\ TheScan(dst, w, sy)[1 .. n + 1] = ScanStep(sy)[<<TheScan(dst, t, sy)[1 .. n], c>>]
  <2>1. RunsFurther(ScanStates, Nat, ScanStart(dst), ScanStep(sy), n, t, c,
                    TheScan(dst, t, sy), TheScan(dst, w, sy))
    BY <1>1, <1>s, <1>9, <1>10, Zenon DEF RunsFurther
  <2> QED
    BY <2>1, FoldAppend
<1>12. /\ Scanned(dst, t, sy) \in ScanStates
       /\ Scanned(dst, w, sy) = ScanStep(sy)[<<Scanned(dst, t, sy), c>>]
  BY <1>2, <1>4, <1>11, Zenon DEF Scanned
<1>13. Scanned(dst, w, sy) = Scan(Scanned(dst, t, sy), c, sy)
  BY <1>12 DEF ScanStep
<1> QED
  BY <1>3, <1>6, <1>12, <1>13

-----------------------------------------------------------------------------
\* What stays a token of its own, and what a run of other characters is called.
Kept(sy) == {c \in Nat : ~Boundary(c, sy)}
InnerKinds == {"alphabetic", "numeric", "impure"}

LEMMA ConcatAssociates ==
    ASSUME NEW B, NEW a \in Seq(B), NEW b \in Seq(B), NEW c \in Seq(B)
    PROVE  (a \o b) \o c = a \o (b \o c)
  OBVIOUS

LEMMA ConcatIsFunction ==
    ASSUME NEW S, NEW x \in Seq(S), NEW y \in Seq(S)
    PROVE  /\ x \o y \in Seq(S) /\ Len(x \o y) = Len(x) + Len(y)
           /\ \A l \in 1 .. Len(x) : (x \o y)[l] = x[l]
           /\ \A l \in Len(x) + 1 .. Len(x) + Len(y) : (x \o y)[l] = y[l - Len(x)]
  OBVIOUS

\* The text between two places, and the text after it.
LEMMA PiecesJoin ==
    ASSUME NEW S, NEW t \in Seq(S), NEW i \in 0 .. Len(t), NEW j \in 0 .. Len(t),
           NEW k \in 0 .. Len(t), i <= j, j <= k
    PROVE  /\ SubSeq(t, i + 1, j) \o SubSeq(t, j + 1, k) = SubSeq(t, i + 1, k)
           /\ SubSeq(t, i + 1, j) \in Seq(S) /\ SubSeq(t, j + 1, k) \in Seq(S)
           /\ Len(SubSeq(t, i + 1, j)) = j - i
           /\ \A l \in 1 .. j - i : SubSeq(t, i + 1, j)[l] = t[i + l]
<1>1. /\ SubSeq(t, i + 1, j) \in Seq(S) /\ SubSeq(t, j + 1, k) \in Seq(S)
      /\ Len(SubSeq(t, i + 1, j)) = j - i /\ Len(SubSeq(t, j + 1, k)) = k - j
      /\ SubSeq(t, i + 1, k) \in Seq(S) /\ Len(SubSeq(t, i + 1, k)) = k - i
  OBVIOUS
<1>2. /\ \A l \in 1 .. j - i : SubSeq(t, i + 1, j)[l] = t[i + l]
      /\ \A l \in 1 .. k - j : SubSeq(t, j + 1, k)[l] = t[j + l]
      /\ \A l \in 1 .. k - i : SubSeq(t, i + 1, k)[l] = t[i + l]
  OBVIOUS
<1>3. PICK x, y, z : /\ x = SubSeq(t, i + 1, j) /\ y = SubSeq(t, j + 1, k)
                     /\ z = SubSeq(t, i + 1, k)
  OBVIOUS
<1>4. PICK n, m : n = j - i /\ m = k - j
  OBVIOUS
<1>5. n \in Nat /\ m \in Nat /\ k - i = n + m /\ i + n = j
  BY <1>4
<1>6. /\ x \in Seq(S) /\ y \in Seq(S) /\ z \in Seq(S)
      /\ Len(x) = n /\ Len(y) = m /\ Len(z) = n + m
      /\ \A l \in 1 .. n : x[l] = t[i + l]
      /\ \A l \in 1 .. m : y[l] = t[j + l]
      /\ \A l \in 1 .. n + m : z[l] = t[i + l]
  BY <1>1, <1>2, <1>3, <1>4, <1>5
<1>7. PICK w : w = x \o y
  OBVIOUS
<1>8. /\ w \in Seq(S) /\ Len(w) = n + m
      /\ \A l \in 1 .. n : w[l] = x[l]
      /\ \A l \in n + 1 .. n + m : w[l] = y[l - n]
  <2>1. x \in Seq(S) /\ y \in Seq(S) /\ Len(x) = n /\ Len(y) = m
    BY <1>6
  <2> QED
    BY <1>7, <2>1, ConcatIsFunction
<1>9. \A l \in 1 .. n + m : w[l] = z[l]
  <2> TAKE l \in 1 .. n + m
  <2>1. CASE l \in 1 .. n
    BY <1>6, <1>8, <2>1
  <2>2. CASE l \notin 1 .. n
    <3>1. l \in n + 1 .. n + m /\ l - n \in 1 .. m /\ j + (l - n) = i + l
      BY <1>5, <2>2
    <3>2. w[l] = y[l - n] /\ y[l - n] = t[j + (l - n)]
      BY <1>6, <1>8, <3>1
    <3> QED
      BY <1>6, <3>1, <3>2
  <2> QED
    BY <2>1, <2>2
<1>10. w = z
  BY <1>6, <1>8, <1>9
<1> QED
  BY <1>1, <1>2, <1>3, <1>7, <1>10

Maps(m, A, B) == m \in [A -> Seq(B)]

\* Each token in its place replaced by what m makes of it.
Expand(m, s) == FlattenSeq([j \in DOMAIN s |-> m[s[j]]])

LEMMA ExpandEmpty ==
    ASSUME NEW m
    PROVE  Expand(m, <<>>) = <<>>
<1>1. [j \in DOMAIN <<>> |-> m[<<>>[j]]] = <<>>
  OBVIOUS
<1> QED
  BY <1>1, FlattenEmpty, Zenon DEF Expand

LEMMA ExpandNext ==
    ASSUME NEW A, NEW B, NEW m, Maps(m, A, B), NEW s \in Seq(A), NEW x \in A
    PROVE  /\ Expand(m, s) \in Seq(B)
           /\ Expand(m, Append(s, x)) = Expand(m, s) \o m[x]
<1>1. PICK n : n = Len(s)
  OBVIOUS
<1>2. n \in Nat /\ DOMAIN s = 1 .. n /\ \A j \in 1 .. n : s[j] \in A
  BY <1>1
<1>3. PICK w : w = Append(s, x)
  OBVIOUS
<1>4. DOMAIN w = 1 .. n + 1 /\ w[n + 1] = x /\ \A j \in 1 .. n : w[j] = s[j]
  BY <1>1, <1>3
<1>5. PICK u : u = [j \in 1 .. n |-> m[s[j]]]
  OBVIOUS
<1>6. u \in Seq(Seq(B)) /\ Len(u) = n
  <2>1. \A j \in 1 .. n : m[s[j]] \in Seq(B)
    BY <1>2, Zenon DEF Maps
  <2>2. u \in [1 .. n -> Seq(B)]
    BY <1>5, <2>1, Zenon
  <2> QED
    BY <1>2, <2>2, FunctionIsSeq
<1>7. m[x] \in Seq(B)
  BY DEF Maps
<1>8. [j \in 1 .. n + 1 |-> m[w[j]]] = Append(u, m[x])
  BY <1>2, <1>4, <1>5, <1>6
<1>9. /\ FlattenSeq(u) \in Seq(B)
      /\ FlattenSeq(Append(u, m[x])) = FlattenSeq(u) \o m[x]
  BY <1>6, <1>7, FlattenAppend
<1>10. Expand(m, s) = FlattenSeq(u)
  BY <1>2, <1>5, Zenon DEF Expand
<1>11. Expand(m, w) = FlattenSeq(Append(u, m[x]))
  BY <1>4, <1>8, Zenon DEF Expand
<1> QED
  BY <1>3, <1>9, <1>10, <1>11, Zenon

\* And of two sequences one after the other.
LEMMA ExpandConcat ==
    ASSUME NEW A, A # {}, NEW B, NEW m, Maps(m, A, B), NEW s \in Seq(A), NEW r \in Seq(A)
    PROVE  Expand(m, s \o r) = Expand(m, s) \o Expand(m, r)
<1> DEFINE G == {u \in Seq(A) : Expand(m, s \o u) = Expand(m, s) \o Expand(m, u)}
<1>1. <<>> \in G
  <2>1. Expand(m, <<>>) = <<>> /\ Expand(m, s) \in Seq(B)
    BY ExpandEmpty, ExpandNext, Zenon
  <2>2. s \o <<>> = s /\ Expand(m, s) \o <<>> = Expand(m, s) /\ <<>> \in Seq(A)
    BY <2>1
  <2> QED
    BY <2>1, <2>2
<1>2. ASSUME NEW u \in Seq(A), NEW c \in A, u \in G
      PROVE  Append(u, c) \in G
  <2>1. Expand(m, s \o u) = Expand(m, s) \o Expand(m, u)
    BY <1>2
  <2>2. s \o u \in Seq(A) /\ s \o Append(u, c) = Append(s \o u, c) /\ Append(u, c) \in Seq(A)
    OBVIOUS
  <2>a. PICK v \in Seq(A) : v = s \o u
    BY <2>2
  <2>3. /\ Expand(m, Append(v, c)) = Expand(m, v) \o m[c]
        /\ Expand(m, Append(u, c)) = Expand(m, u) \o m[c]
        /\ Expand(m, s) \in Seq(B) /\ Expand(m, u) \in Seq(B)
    <3>1. ASSUME NEW q \in Seq(A)
          PROVE  Expand(m, q) \in Seq(B) /\ Expand(m, Append(q, c)) = Expand(m, q) \o m[c]
      BY ExpandNext
    <3> QED
      BY <3>1, Zenon
  <2>4. m[c] \in Seq(B)
    BY DEF Maps
  <2>5. (Expand(m, s) \o Expand(m, u)) \o m[c] = Expand(m, s) \o (Expand(m, u) \o m[c])
    <3>1. PICK x, y, z : x = Expand(m, s) /\ y = Expand(m, u) /\ z = m[c]
      OBVIOUS
    <3>2. x \in Seq(B) /\ y \in Seq(B) /\ z \in Seq(B)
      BY <2>3, <2>4, <3>1, Zenon
    <3>3. (x \o y) \o z = x \o (y \o z)
      BY <3>2, ConcatAssociates
    <3> QED
      BY <3>1, <3>3, Zenon
  <2>6. Expand(m, s \o Append(u, c)) = Expand(m, s) \o Expand(m, Append(u, c))
    BY <2>1, <2>2, <2>a, <2>3, <2>5, Zenon
  <2> QED
    BY <2>2, <2>6
<1> HIDE DEF G
<1>3. \A u \in Seq(A) : u \in G
  BY <1>1, <1>2, SeqOneByOne, Zenon
<1> QED
  BY <1>3 DEF G

\* The texts of tokens, one after the other.
AllToks == [kind : {"unrefined"} \cup Kinds, slice : Seq(Nat)]
Slices == [t \in AllToks |-> t.slice]

LEMMA TextIsExpand ==
    /\ Maps(Slices, AllToks, Nat) /\ AllToks # {} /\ Toks \subseteq AllToks
    /\ \A s \in Seq(AllToks) : Text(s) = Expand(Slices, s)
<1>1. Maps(Slices, AllToks, Nat)
  BY DEF Maps, Slices, AllToks
<1>2. AllToks # {}
  <2>1. [kind |-> "unrefined", slice |-> <<>>] \in AllToks
    BY DEF AllToks
  <2> QED
    BY <2>1
<1>3. Toks \subseteq AllToks
  BY DEF Toks, AllToks
<1>4. ASSUME NEW s \in Seq(AllToks)
      PROVE  Text(s) = Expand(Slices, s)
  <2>1. \A j \in DOMAIN s : s[j] \in AllToks
    OBVIOUS
  <2>2. [j \in DOMAIN s |-> Slices[s[j]]] = [j \in DOMAIN s |-> s[j].slice]
    BY <2>1, Zenon DEF Slices
  <2> QED
    BY <2>2, Zenon DEF Text, Expand
<1> QED
  BY <1>1, <1>2, <1>3, <1>4

LEMMA TextFacts ==
    /\ Text(<<>>) = <<>>
    /\ \A s \in Seq(AllToks) : Text(s) \in Seq(Nat)
    /\ \A s \in Seq(AllToks), x \in AllToks : Text(Append(s, x)) = Text(s) \o x.slice
    /\ \A s, r \in Seq(AllToks) : Text(s \o r) = Text(s) \o Text(r)
    /\ \A x \in AllToks : Text(<<x>>) = x.slice
<1>1. <<>> \in Seq(AllToks)
  OBVIOUS
<1>2. Text(<<>>) = <<>>
  BY <1>1, TextIsExpand, ExpandEmpty, Zenon
<1>3. PICK e \in AllToks : TRUE
  BY TextIsExpand
<1>4. ASSUME NEW s \in Seq(AllToks), NEW x \in AllToks
      PROVE  Text(s) \in Seq(Nat) /\ Text(Append(s, x)) = Text(s) \o x.slice
  <2>1. /\ Expand(Slices, s) \in Seq(Nat)
        /\ Expand(Slices, Append(s, x)) = Expand(Slices, s) \o Slices[x]
    BY TextIsExpand, ExpandNext
  <2>2. Slices[x] = x.slice
    BY DEF Slices
  <2>3. Append(s, x) \in Seq(AllToks)
    OBVIOUS
  <2>4. Text(s) = Expand(Slices, s) /\ Text(Append(s, x)) = Expand(Slices, Append(s, x))
    BY <2>3, TextIsExpand, Zenon
  <2> QED
    BY <2>1, <2>2, <2>4
<1>5. ASSUME NEW s \in Seq(AllToks), NEW r \in Seq(AllToks)
      PROVE  Text(s \o r) = Text(s) \o Text(r)
  <2>1. Expand(Slices, s \o r) = Expand(Slices, s) \o Expand(Slices, r)
    BY TextIsExpand, ExpandConcat
  <2>2. s \o r \in Seq(AllToks)
    OBVIOUS
  <2> QED
    BY <2>1, <2>2, TextIsExpand
<1>6. ASSUME NEW x \in AllToks
      PROVE  Text(<<x>>) = x.slice
  <2>1. <<x>> = Append(<<>>, x)
    OBVIOUS
  <2>2. Text(<<x>>) = Text(<<>>) \o x.slice
    BY <1>1, <1>4, <2>1
  <2>3. PICK y \in Seq(Nat) : y = x.slice
    BY DEF AllToks
  <2>4. <<>> \o y = y
    OBVIOUS
  <2> QED
    BY <1>2, <2>2, <2>3, <2>4, Zenon
<1> QED
  BY <1>2, <1>3, <1>4, <1>5, <1>6
-----------------------------------------------------------------------------
\* No two neighbours are both of a kind in K.
Spaced(s, K) == \A j \in 1 .. Len(s) - 1 : ~(s[j].kind \in K /\ s[j + 1].kind \in K)
\* The last is of no such kind.
Closed(s, K) == s = <<>> \/ s[Len(s)].kind \notin K
\* The first is not.
Opens(s, K) == s = <<>> \/ s[1].kind \notin K

LEMMA SpacedConcat ==
    ASSUME NEW K, NEW s \in Seq(AllToks), NEW r \in Seq(AllToks),
           Spaced(s, K), Spaced(r, K), Closed(s, K) \/ Opens(r, K)
    PROVE  Spaced(s \o r, K) /\ (Closed(s, K) /\ Closed(r, K) => Closed(s \o r, K))
<1>1. PICK n, m : n = Len(s) /\ m = Len(r)
  OBVIOUS
<1>2. PICK w : w = s \o r
  OBVIOUS
<1>3. /\ n \in Nat /\ m \in Nat /\ Len(w) = n + m
      /\ \A j \in 1 .. n : w[j] = s[j]
      /\ \A j \in n + 1 .. n + m : w[j] = r[j - n]
  BY <1>1, <1>2
<1>4. /\ s = <<>> <=> n = 0
      /\ r = <<>> <=> m = 0
  BY <1>1
<1>5. ASSUME NEW j \in 1 .. (n + m) - 1
      PROVE  ~(w[j].kind \in K /\ w[j + 1].kind \in K)
  <2>1. PICK k : k = j + 1
    OBVIOUS
  <2>2. CASE k <= n
    <3>1. j \in 1 .. n - 1 /\ j \in 1 .. n /\ k \in 1 .. n
      BY <1>3, <2>1, <2>2
    <3>2. w[j] = s[j] /\ w[k] = s[k]
      BY <1>3, <3>1, Zenon
    <3>3. ~(s[j].kind \in K /\ s[k].kind \in K)
      BY <1>1, <2>1, <3>1, Zenon DEF Spaced
    <3> QED
      BY <2>1, <3>2, <3>3, Zenon
  <2>3. CASE j = n
    <3>1. n # 0 /\ m # 0 /\ n \in 1 .. n /\ k \in n + 1 .. n + m /\ k - n = 1
      BY <1>3, <2>1, <2>3
    <3>2. w[j] = s[n] /\ w[k] = r[1]
      BY <1>3, <2>3, <3>1
    <3>3. ~(s[n].kind \in K /\ r[1].kind \in K)
      BY <1>1, <1>4, <3>1, Zenon DEF Closed, Opens
    <3> QED
      BY <2>1, <3>2, <3>3, Zenon
  <2>4. CASE j > n
    <3>1. PICK i : i = j - n
      OBVIOUS
    <3>2. /\ i \in 1 .. m - 1 /\ j \in n + 1 .. n + m /\ k \in n + 1 .. n + m
          /\ j - n = i /\ k - n = i + 1
      BY <1>3, <2>1, <2>4, <3>1
    <3>3. w[j] = r[i] /\ w[k] = r[i + 1]
      BY <1>3, <3>2
    <3>4. ~(r[i].kind \in K /\ r[i + 1].kind \in K)
      BY <1>1, <3>2, Zenon DEF Spaced
    <3> QED
      BY <2>1, <3>3, <3>4, Zenon
  <2>5. k <= n \/ j = n \/ j > n
    BY <1>3, <2>1
  <2> QED
    BY <2>2, <2>3, <2>4, <2>5
<1>6. Spaced(w, K)
  BY <1>3, <1>5, Zenon DEF Spaced
<1>7. ASSUME Closed(s, K), Closed(r, K)
      PROVE  Closed(w, K)
  <2>1. CASE m = 0
    <3>1. w = s
      BY <1>2, <1>4, <2>1
    <3> QED
      BY <1>7, <3>1
  <2>2. CASE m # 0
    <3>1. n + m \in n + 1 .. n + m /\ (n + m) - n = m
      BY <1>3, <2>2
    <3>2. w[n + m] = r[m]
      BY <1>3, <3>1
    <3>3. r[m].kind \notin K
      BY <1>1, <1>4, <1>7, <2>2, Zenon DEF Closed
    <3> QED
      BY <1>3, <3>2, <3>3, Zenon DEF Closed
  <2> QED
    BY <2>1, <2>2
<1> QED
  BY <1>2, <1>6, <1>7, Zenon

LEMMA SpacedAppend ==
    ASSUME NEW K, NEW s \in Seq(AllToks), NEW x \in AllToks,
           Spaced(s, K), Closed(s, K) \/ x.kind \notin K
    PROVE  /\ Spaced(Append(s, x), K)
           /\ x.kind \notin K => Closed(Append(s, x), K)
<1>1. PICK r : r = <<x>>
  OBVIOUS
<1>2. r \in Seq(AllToks) /\ Len(r) = 1 /\ r[1] = x /\ r # <<>> /\ Append(s, x) = s \o r
  BY <1>1
<1>3. Spaced(r, K)
  BY <1>2 DEF Spaced
<1>4. Closed(s, K) \/ Opens(r, K)
  BY <1>2 DEF Opens
<1>5. Spaced(s \o r, K)
  BY <1>2, <1>3, <1>4, SpacedConcat
<1>6. PICK w : w = Append(s, x)
  OBVIOUS
<1>7. Len(w) = Len(s) + 1 /\ w[Len(s) + 1] = x
  BY <1>6
<1>8. x.kind \notin K => Closed(w, K)
  BY <1>7, Zenon DEF Closed
<1> QED
  BY <1>2, <1>5, <1>6, <1>8, Zenon

-----------------------------------------------------------------------------
\* What TokensExact asks of a token; none is empty.
Exact(sy) ==
    {t \in Toks : /\ t.slice # <<>>
                  /\ \/ \E c \in Nat : Boundary(c, sy) /\ t = BoundaryToken(c)
                     \/ t.slice \in Seq(Kept(sy)) /\ t = tokenWith(t.slice)}

LEMMA ExactTokens ==
    ASSUME NEW sy
    PROVE  /\ \A c \in Nat : Boundary(c, sy) => /\ BoundaryToken(c) \in Exact(sy)
                                                /\ BoundaryToken(c).slice = <<c>>
                                                /\ BoundaryToken(c).kind \in {"whitespace", "symbolic"}
           /\ \A s \in Seq(Kept(sy)) :
                 /\ s \in Seq(Nat)
                 /\ tokenWith(s).slice = s /\ tokenWith(s).kind \in InnerKinds
                 /\ s # <<>> => tokenWith(s) \in Exact(sy)
<1>1. ASSUME NEW c \in Nat, Boundary(c, sy)
      PROVE  /\ BoundaryToken(c) \in Exact(sy)
             /\ BoundaryToken(c).slice = <<c>>
             /\ BoundaryToken(c).kind \in {"whitespace", "symbolic"}
  <2>1. BoundaryToken(c) \in Toks
    BY TokensAreToks
  <2>2. /\ BoundaryToken(c).slice = <<c>>
        /\ BoundaryToken(c).kind \in {"whitespace", "symbolic"}
    BY DEF BoundaryToken, Tok
  <2>3. BoundaryToken(c).slice # <<>>
    BY <2>2
  <2> QED
    BY <1>1, <2>1, <2>2, <2>3, Zenon DEF Exact
<1>2. ASSUME NEW s \in Seq(Kept(sy))
      PROVE  /\ s \in Seq(Nat)
             /\ tokenWith(s).slice = s /\ tokenWith(s).kind \in InnerKinds
             /\ s # <<>> => tokenWith(s) \in Exact(sy)
  <2>1. Kept(sy) \subseteq Nat
    BY DEF Kept
  <2>2. s \in Seq(Nat)
    BY <2>1, SeqLarger
  <2>3. tokenWith(s).slice = s /\ tokenWith(s).kind \in InnerKinds
    BY DEF tokenWith, Tok, InnerKinds
  <2>4. tokenWith(s) \in Toks
    BY <2>2, TokensAreToks
  <2> QED
    BY <2>2, <2>3, <2>4, Zenon DEF Exact
<1> QED
  BY <1>1, <1>2

\* What holds of the loop after t: the open segment has no boundary, with it the
\* tokens spell t, they are exact, and a segment is closed by a boundary only.
ScanInv(a, t, sy) ==
    /\ a.seg \in Seq(Kept(sy))
    /\ a.out \in Seq(Exact(sy))
    /\ Text(a.out) \o a.seg = t
    /\ Spaced(a.out, InnerKinds) /\ Closed(a.out, InnerKinds)

LEMMA FlushedSound ==
    ASSUME NEW a, NEW t \in Seq(Nat), NEW sy, ScanInv(a, t, sy)
    PROVE  /\ Flushed(a) \in Seq(Exact(sy)) /\ Flushed(a) \in Seq(AllToks)
           /\ Text(Flushed(a)) = t
           /\ Spaced(Flushed(a), InnerKinds)
<1> DEFINE g == a.seg
           o == a.out
<1>1. /\ g \in Seq(Kept(sy)) /\ o \in Seq(Exact(sy)) /\ Text(o) \o g = t
      /\ Spaced(o, InnerKinds) /\ Closed(o, InnerKinds)
      /\ Flushed(a) = IF g = <<>> THEN o ELSE Append(o, tokenWith(g))
  BY Zenon DEF ScanInv, Flushed
<1> HIDE DEF g, o
<1>2. Exact(sy) \subseteq AllToks
  BY TextIsExpand, Zenon DEF Exact
<1>3. o \in Seq(AllToks)
  BY <1>1, <1>2, SeqLarger
<1>4. CASE g = <<>>
  <2>1. Text(o) \in Seq(Nat)
    BY <1>3, TextFacts
  <2>2. Text(o) = t
    BY <1>1, <1>4, <2>1
  <2> QED
    BY <1>1, <1>3, <1>4, <2>2
<1>5. CASE g # <<>>
  <2>1. PICK x \in Exact(sy) : x = tokenWith(g) /\ x.slice = g
    BY <1>1, <1>5, ExactTokens, Zenon
  <2>2. x \in AllToks
    BY <1>2, <2>1
  <2>3. Text(Append(o, x)) = t
    BY <1>1, <1>3, <2>1, <2>2, TextFacts
  <2>4. Spaced(Append(o, x), InnerKinds)
    BY <1>1, <1>3, <2>2, SpacedAppend
  <2>5. Append(o, x) \in Seq(Exact(sy)) /\ Append(o, x) \in Seq(AllToks)
    BY <1>1, <1>3, <2>1, <2>2
  <2> QED
    BY <1>1, <1>5, <2>1, <2>3, <2>4, <2>5
<1> QED
  BY <1>4, <1>5

LEMMA ScanKeeps ==
    ASSUME NEW a \in ScanStates, NEW t \in Seq(Nat), NEW c \in Nat, NEW sy, ScanInv(a, t, sy)
    PROVE  ScanInv(Scan(a, c, sy), Append(t, c), sy)
<1>1. /\ a.seg \in Seq(Kept(sy)) /\ a.out \in Seq(Exact(sy)) /\ Text(a.out) \o a.seg = t
      /\ Spaced(a.out, InnerKinds) /\ Closed(a.out, InnerKinds)
      /\ a.seg \in Seq(Nat) /\ a.out \in Seq(Toks)
  BY Zenon DEF ScanInv, ScanStates
<1>2. CASE Boundary(c, sy)
  <2>1. PICK o : o = Flushed(a)
    OBVIOUS
  <2>2. /\ o \in Seq(Exact(sy)) /\ o \in Seq(AllToks)
        /\ Text(o) = t /\ Spaced(o, InnerKinds)
    BY <2>1, FlushedSound
  <2>3. PICK x \in Exact(sy) : /\ x = BoundaryToken(c) /\ x.slice = <<c>>
                               /\ x.kind \in {"whitespace", "symbolic"}
    BY <1>2, ExactTokens, Zenon
  <2>4. x \in AllToks /\ x.kind \notin InnerKinds
    BY <2>3, TextIsExpand DEF Exact, InnerKinds
  <2>5. PICK b : b = Scan(a, c, sy)
    OBVIOUS
  <2>6. b.seg = <<>> /\ b.out = Append(o, x)
    BY <1>2, <2>1, <2>3, <2>5 DEF Scan
  <2>7. Spaced(Append(o, x), InnerKinds) /\ Closed(Append(o, x), InnerKinds)
    BY <2>2, <2>4, SpacedAppend
  <2>8. Text(Append(o, x)) = t \o <<c>>
    BY <2>2, <2>3, <2>4, TextFacts
  <2>9. (t \o <<c>>) \o <<>> = Append(t, c)
    OBVIOUS
  <2>10. Append(o, x) \in Seq(Exact(sy)) /\ <<>> \in Seq(Kept(sy))
    BY <2>2, <2>3
  <2>11. ScanInv(b, Append(t, c), sy)
    BY <2>6, <2>7, <2>8, <2>9, <2>10 DEF ScanInv
  <2> QED
    BY <2>5, <2>11, Zenon
<1>3. CASE ~Boundary(c, sy)
  <2>1. PICK b : b = Scan(a, c, sy)
    OBVIOUS
  <2>2. b.seg = Append(a.seg, c) /\ b.out = a.out
    BY <1>3, <2>1 DEF Scan, ScanStates
  <2>3. c \in Kept(sy)
    BY <1>3 DEF Kept
  <2>4. Append(a.seg, c) \in Seq(Kept(sy))
    BY <1>1, <2>3
  <2>5. a.out \in Seq(AllToks)
    BY <1>1, TextIsExpand, SeqLarger
  <2>6. PICK x \in Seq(Nat) : x = Text(a.out)
    BY <2>5, TextFacts
  <2>7. x \o Append(a.seg, c) = Append(x \o a.seg, c)
    BY <1>1
  <2>8. Text(a.out) \o Append(a.seg, c) = Append(t, c)
    BY <1>1, <2>6, <2>7, Zenon
  <2>9. ScanInv(b, Append(t, c), sy)
    BY <1>1, <2>2, <2>4, <2>8, Zenon DEF ScanInv
  <2> QED
    BY <2>1, <2>9, Zenon
<1> QED
  BY <1>2, <1>3

LEMMA ScanSound ==
    ASSUME NEW sy
    PROVE  \A t \in Seq(Nat) : ScanInv(Scanned(<<>>, t, sy), t, sy)
<1> DEFINE G == {t \in Seq(Nat) : ScanInv(Scanned(<<>>, t, sy), t, sy)}
<1>0. <<>> \in Seq(Toks) /\ <<>> \in Seq(Nat) /\ 0 \in Nat
  OBVIOUS
<1>1. <<>> \in G
  <2>1. Scanned(<<>>, <<>>, sy) = ScanStart(<<>>)
    BY <1>0, ScanNext, Zenon
  <2>2. PICK a : a = ScanStart(<<>>)
    OBVIOUS
  <2>3. a.seg = <<>> /\ a.out = <<>>
    BY <2>2 DEF ScanStart
  <2>4. Text(a.out) \o a.seg = <<>>
    BY <2>3, TextFacts
  <2>5. Spaced(<<>>, InnerKinds) /\ Closed(<<>>, InnerKinds)
    BY DEF Spaced, Closed
  <2>6. <<>> \in Seq(Kept(sy)) /\ <<>> \in Seq(Exact(sy))
    OBVIOUS
  <2>7. ScanInv(a, <<>>, sy)
    BY <2>3, <2>4, <2>5, <2>6, Zenon DEF ScanInv
  <2> QED
    BY <1>0, <2>1, <2>2, <2>7, Zenon
<1>2. ASSUME NEW t \in Seq(Nat), NEW c \in Nat, t \in G
      PROVE  Append(t, c) \in G
  <2>1. /\ Scanned(<<>>, t, sy) \in ScanStates
        /\ Scanned(<<>>, Append(t, c), sy) = Scan(Scanned(<<>>, t, sy), c, sy)
    BY <1>0, ScanNext
  <2>2. ScanInv(Scanned(<<>>, t, sy), t, sy)
    BY <1>2
  <2>3. ScanInv(Scan(Scanned(<<>>, t, sy), c, sy), Append(t, c), sy)
    BY <2>1, <2>2, ScanKeeps
  <2>4. Append(t, c) \in Seq(Nat)
    OBVIOUS
  <2> QED
    BY <2>1, <2>3, <2>4
<1> HIDE DEF G
<1>3. \A t \in Seq(Nat) : t \in G
  BY <1>1, <1>2, SeqOneByOne, Zenon
<1> QED
  BY <1>3 DEF G

-----------------------------------------------------------------------------
\* What the destination held stays in front.
Behind(dst, a) == [seg |-> a.seg, out |-> dst \o a.out]

LEMMA BehindFlushed ==
    ASSUME NEW dst \in Seq(Toks), NEW a \in ScanStates, NEW c \in Nat, NEW sy
    PROVE  /\ Flushed(Behind(dst, a)) = dst \o Flushed(a)
           /\ Scan(Behind(dst, a), c, sy) = Behind(dst, Scan(a, c, sy))
<1>1. /\ a.seg \in Seq(Nat) /\ a.out \in Seq(Toks)
      /\ Behind(dst, a).seg = a.seg /\ Behind(dst, a).out = dst \o a.out
  BY DEF ScanStates, Behind
<1>2. \A o \in Seq(Toks), x \in Toks : dst \o Append(o, x) = Append(dst \o o, x)
  OBVIOUS
<1>3. Flushed(Behind(dst, a)) = dst \o Flushed(a)
  <2>1. tokenWith(a.seg) \in Toks
    BY <1>1, TokensAreToks
  <2>2. dst \o Append(a.out, tokenWith(a.seg)) = Append(dst \o a.out, tokenWith(a.seg))
    BY <1>1, <1>2, <2>1, Zenon
  <2> QED
    BY <1>1, <2>2, Zenon DEF Flushed
<1>4. CASE Boundary(c, sy)
  <2>1. Flushed(a) \in Seq(Toks) /\ BoundaryToken(c) \in Toks
    BY ScanStays, TokensAreToks, Zenon
  <2>2. dst \o Append(Flushed(a), BoundaryToken(c)) = Append(dst \o Flushed(a), BoundaryToken(c))
    BY <1>2, <2>1, Zenon
  <2>3. /\ Scan(Behind(dst, a), c, sy) =
             [seg |-> <<>>, out |-> Append(dst \o Flushed(a), BoundaryToken(c))]
        /\ Scan(a, c, sy) = [seg |-> <<>>, out |-> Append(Flushed(a), BoundaryToken(c))]
    BY <1>3, <1>4, Zenon DEF Scan
  <2>4. Behind(dst, Scan(a, c, sy)) =
             [seg |-> <<>>, out |-> dst \o Append(Flushed(a), BoundaryToken(c))]
    BY <2>3 DEF Behind
  <2> QED
    BY <1>3, <2>2, <2>3, <2>4, Zenon
<1>5. CASE ~Boundary(c, sy)
  BY <1>1, <1>3, <1>5 DEF Scan, Behind, ScanStates
<1> QED
  BY <1>3, <1>4, <1>5

LEMMA ScanBehind ==
    ASSUME NEW dst \in Seq(Toks), NEW sy
    PROVE  \A t \in Seq(Nat) : Scanned(dst, t, sy) = Behind(dst, Scanned(<<>>, t, sy))
<1> DEFINE G == {t \in Seq(Nat) : Scanned(dst, t, sy) = Behind(dst, Scanned(<<>>, t, sy))}
<1>0. <<>> \in Seq(Toks) /\ <<>> \in Seq(Nat) /\ 0 \in Nat
  OBVIOUS
<1>1. <<>> \in G
  <2>1. Scanned(dst, <<>>, sy) = ScanStart(dst) /\ Scanned(<<>>, <<>>, sy) = ScanStart(<<>>)
    BY <1>0, ScanNext, Zenon
  <2>2. Behind(dst, ScanStart(<<>>)) = ScanStart(dst)
    BY DEF Behind, ScanStart
  <2> QED
    BY <1>0, <2>1, <2>2, Zenon
<1>2. ASSUME NEW t \in Seq(Nat), NEW c \in Nat, t \in G
      PROVE  Append(t, c) \in G
  <2>1. PICK a \in ScanStates : a = Scanned(<<>>, t, sy)
    BY <1>0, ScanNext
  <2>2. /\ Scanned(<<>>, Append(t, c), sy) = Scan(a, c, sy)
        /\ Scanned(dst, Append(t, c), sy) = Scan(Behind(dst, a), c, sy)
    <3>1. Scanned(dst, t, sy) = Behind(dst, a)
      BY <1>2, <2>1
    <3>2. Scanned(<<>>, Append(t, c), sy) = Scan(Scanned(<<>>, t, sy), c, sy)
      BY <1>0, ScanNext
    <3>3. Scanned(dst, Append(t, c), sy) = Scan(Scanned(dst, t, sy), c, sy)
      BY ScanNext
    <3> QED
      BY <2>1, <3>1, <3>2, <3>3, Zenon
  <2>3. Scan(Behind(dst, a), c, sy) = Behind(dst, Scan(a, c, sy))
    BY BehindFlushed
  <2>4. Append(t, c) \in Seq(Nat)
    OBVIOUS
  <2> QED
    BY <2>2, <2>3, <2>4
<1> HIDE DEF G
<1>3. \A t \in Seq(Nat) : t \in G
  BY <1>1, <1>2, SeqOneByOne, Zenon
<1> QED
  BY <1>3 DEF G

\* The tokens of a text.
Cut(t, sy) == Flushed(Scanned(<<>>, t, sy))

LEMMA ScalarIsCut ==
    ASSUME NEW dst \in Seq(Toks), NEW t \in Seq(Nat), NEW sy
    PROVE  appendSplitTokenScalar(dst, t, sy) = dst \o Cut(t, sy)
<1>1. <<>> \in Seq(Toks) /\ 0 \in Nat
  OBVIOUS
<1>2. PICK a \in ScanStates : a = Scanned(<<>>, t, sy)
  BY <1>1, ScanNext
<1>3. Flushed(Behind(dst, a)) = dst \o Flushed(a)
  BY <1>1, BehindFlushed
<1> QED
  BY <1>2, <1>3, ScalarIsScanned, ScanBehind DEF Cut

LEMMA CutSound ==
    ASSUME NEW t \in Seq(Nat), NEW sy
    PROVE  /\ Cut(t, sy) \in Seq(Exact(sy)) /\ Cut(t, sy) \in Seq(Toks)
           /\ Cut(t, sy) \in Seq(AllToks)
           /\ Text(Cut(t, sy)) = t
           /\ Spaced(Cut(t, sy), InnerKinds)
<1>1. PICK a : a = Scanned(<<>>, t, sy)
  OBVIOUS
<1>2. ScanInv(a, t, sy)
  BY <1>1, ScanSound
<1>3. /\ Flushed(a) \in Seq(Exact(sy)) /\ Flushed(a) \in Seq(AllToks)
      /\ Text(Flushed(a)) = t
      /\ Spaced(Flushed(a), InnerKinds)
  BY <1>2, FlushedSound
<1>4. Exact(sy) \subseteq Toks
  BY DEF Exact
<1>5. Flushed(a) \in Seq(Toks)
  BY <1>3, <1>4, SeqLarger
<1> QED
  BY <1>1, <1>3, <1>5, Zenon DEF Cut

\* A text with no boundary is one segment.
LEMMA ScanKept ==
    ASSUME NEW dst \in Seq(Toks), NEW sy
    PROVE  \A t \in Seq(Kept(sy)) : Scanned(dst, t, sy) = [seg |-> t, out |-> dst]
<1> DEFINE G == {t \in Seq(Kept(sy)) : Scanned(dst, t, sy) = [seg |-> t, out |-> dst]}
<1>0. <<>> \in Seq(Kept(sy)) /\ <<>> \in Seq(Nat) /\ 0 \in Nat /\ Kept(sy) \subseteq Nat
  BY DEF Kept
<1>1. <<>> \in G
  BY <1>0, ScanNext DEF ScanStart
<1>2. ASSUME NEW t \in Seq(Kept(sy)), NEW c \in Kept(sy), t \in G
      PROVE  Append(t, c) \in G
  <2>1. t \in Seq(Nat) /\ c \in Nat
    BY <1>0, SeqLarger
  <2>2. Scanned(dst, t, sy) = [seg |-> t, out |-> dst]
    BY <1>2
  <2>3. Scanned(dst, Append(t, c), sy) = Scan([seg |-> t, out |-> dst], c, sy)
    BY <2>1, <2>2, ScanNext
  <2>4. ~Boundary(c, sy)
    BY DEF Kept
  <2>5. Scan([seg |-> t, out |-> dst], c, sy) = [seg |-> Append(t, c), out |-> dst]
    BY <2>4 DEF Scan
  <2>6. Append(t, c) \in Seq(Kept(sy))
    OBVIOUS
  <2> QED
    BY <2>3, <2>5, <2>6
<1> HIDE DEF G
<1>3. \A t \in Seq(Kept(sy)) : t \in G
  BY <1>1, <1>2, SeqOneByOne, Zenon
<1> QED
  BY <1>3 DEF G

LEMMA CutKept ==
    ASSUME NEW sy, NEW t \in Seq(Kept(sy))
    PROVE  Cut(t, sy) = IF t = <<>> THEN <<>> ELSE <<tokenWith(t)>>
<1>1. <<>> \in Seq(Toks)
  OBVIOUS
<1>2. Scanned(<<>>, t, sy) = [seg |-> t, out |-> <<>>]
  BY <1>1, ScanKept
<1>3. Flushed([seg |-> t, out |-> <<>>]) = IF t = <<>> THEN <<>> ELSE Append(<<>>, tokenWith(t))
  BY DEF Flushed
<1>4. Append(<<>>, tokenWith(t)) = <<tokenWith(t)>>
  OBVIOUS
<1> QED
  BY <1>2, <1>3, <1>4, Zenon DEF Cut

-----------------------------------------------------------------------------
\* The same for the vector loop.
VectorStates == [ok : BOOLEAN, seg : Seq(Nat), acc : SUBSET AllBits, out : Seq(Toks)]
VectorFlushed(a) == IF a.seg = <<>> THEN a.out ELSE Append(a.out, segmentToken(a.seg, a.acc))
VectorScan(a, c, sy) ==
    LET bits == classifyBytes(c, sy)
    IN  IF ~a.ok THEN a
        ELSE IF "nonASCII" \in bits THEN [a EXCEPT !.ok = FALSE]
        ELSE IF bits \cap {"space", "symbol"} = {}
        THEN [a EXCEPT !.seg = Append(@, c), !.acc = @ \cap bits]
        ELSE [ok |-> TRUE, seg |-> <<>>, acc |-> AllBits,
              out |-> Append(VectorFlushed(a), Tok(IF "space" \in bits THEN "whitespace"
                                                   ELSE "symbolic", <<c>>))]
VectorStart(dst) == [ok |-> TRUE, seg |-> <<>>, acc |-> AllBits, out |-> dst]
VectorStep(sy) == [p \in VectorStates \X Nat |-> VectorScan(p[1], p[2], sy)]
IsVector(f, dst, t, sy) ==
    f = [s \in SUBSET DOMAIN t |->
           IF s = {} THEN VectorStart(dst) ELSE VectorScan(f[s \ {Max(s)}], t[Max(s)], sy)]
TheVector(dst, t, sy) == CHOOSE f : IsVector(f, dst, t, sy)
Vectored(dst, t, sy) == TheVector(dst, t, sy)[DOMAIN t]

LEMMA VectorIsVectored ==
    ASSUME NEW dst, NEW t, NEW sy
    PROVE  LET v == Vectored(dst, t, sy)
           IN  appendSplitTokenSIMD(dst, t, sy) =
                   [ok |-> v.ok, out |-> IF v.ok THEN VectorFlushed(v) ELSE v.out]
  BY Zenon DEF appendSplitTokenSIMD, FoldLeft, MapThenFoldSet, IsVector, TheVector, Vectored,
               VectorStart, VectorScan, VectorFlushed

LEMMA VectorStays ==
    ASSUME NEW a \in VectorStates, NEW c \in Nat, NEW sy
    PROVE  VectorScan(a, c, sy) \in VectorStates
<1>1. /\ a.seg \in Seq(Nat) /\ a.out \in Seq(Toks) /\ a.ok \in BOOLEAN /\ a.acc \subseteq AllBits
      /\ a = [ok |-> a.ok, seg |-> a.seg, acc |-> a.acc, out |-> a.out]
  BY DEF VectorStates
<1>2. VectorFlushed(a) \in Seq(Toks)
  <2>1. segmentToken(a.seg, a.acc) \in Toks
    BY <1>1 DEF segmentToken, Tok, Toks, Kinds
  <2> QED
    BY <1>1, <2>1 DEF VectorFlushed
<1> DEFINE bits == classifyBytes(c, sy)
           x == Tok(IF "space" \in bits THEN "whitespace" ELSE "symbolic", <<c>>)
<1>3. x \in Toks
  BY DEF Tok, Toks, Kinds
<1>4. Append(VectorFlushed(a), x) \in Seq(Toks) /\ Append(a.seg, c) \in Seq(Nat)
  <2> HIDE DEF x
  <2> QED
    BY <1>1, <1>2, <1>3
<1>5. VectorScan(a, c, sy) \in
         {a, [a EXCEPT !.ok = FALSE],
          [ok |-> a.ok, seg |-> Append(a.seg, c), acc |-> a.acc \cap bits, out |-> a.out],
          [ok |-> TRUE, seg |-> <<>>, acc |-> AllBits, out |-> Append(VectorFlushed(a), x)]}
  <2> HIDE DEF bits
  <2>1. [a EXCEPT !.seg = Append(@, c), !.acc = @ \cap bits] =
           [ok |-> a.ok, seg |-> Append(a.seg, c), acc |-> a.acc \cap bits, out |-> a.out]
    <3>1. PICK y, z : y = Append(a.seg, c) /\ z = a.acc \cap bits
      OBVIOUS
    <3>2. PICK b : b = [a EXCEPT !.seg = y]
      OBVIOUS
    <3>3. b = [ok |-> a.ok, seg |-> y, acc |-> a.acc, out |-> a.out]
      BY <3>2 DEF VectorStates
    <3>4. [b EXCEPT !.acc = z] = [ok |-> a.ok, seg |-> y, acc |-> z, out |-> a.out]
      BY <3>3
    <3>5. [a EXCEPT !.seg = y, !.acc = z] = [b EXCEPT !.acc = z]
      BY <3>2, Zenon
    <3> QED
      BY <3>1, <3>4, <3>5, Zenon
  <2> QED
    BY <2>1, Zenon DEF VectorScan, bits
<1> HIDE DEF bits, x
<1>6. [a EXCEPT !.ok = FALSE] \in VectorStates
  BY DEF VectorStates
<1>7. /\ [ok |-> a.ok, seg |-> Append(a.seg, c), acc |-> a.acc \cap bits, out |-> a.out]
             \in VectorStates
      /\ [ok |-> TRUE, seg |-> <<>>, acc |-> AllBits, out |-> Append(VectorFlushed(a), x)]
             \in VectorStates
  BY <1>1, <1>4 DEF VectorStates
<1> QED
  BY <1>5, <1>6, <1>7, Zenon

LEMMA VectorRuns ==
    ASSUME NEW dst \in Seq(Toks), NEW t \in Seq(Nat), NEW sy
    PROVE  IsRun(TheVector(dst, t, sy), Len(t), VectorStates, VectorStart(dst), VectorStep(sy), t)
<1> DEFINE n == Len(t)
<1>1. n \in Nat /\ DOMAIN t = 1 .. n /\ \A i \in 1 .. n : t[i] \in Nat
  OBVIOUS
<1>2. VectorStep(sy) \in [VectorStates \X Nat -> VectorStates]
  <2>1. \A p \in VectorStates \X Nat : VectorScan(p[1], p[2], sy) \in VectorStates
    BY VectorStays
  <2> QED
    BY <2>1 DEF VectorStep
<1>3. VectorStart(dst) \in VectorStates
  BY DEF VectorStart, VectorStates
<1>4. StaysIn(VectorStates, Nat, VectorStart(dst), n, t, VectorStep(sy))
  BY <1>1, <1>2, <1>3, Zenon DEF StaysIn
<1>5. PICK h : IsFold(h, n, VectorStates, VectorStart(dst), VectorStep(sy), t)
  BY <1>4, FoldExists, Zenon
<1>6. \A a \in VectorStates, c \in Nat : VectorStep(sy)[<<a, c>>] = VectorScan(a, c, sy)
  BY DEF VectorStep
<1>7. \A s \in SUBSET (1 .. n) : s # {} => Max(s) \in 1 .. n /\ s \ {Max(s)} \in SUBSET (1 .. n)
  <2>1. \A s \in SUBSET (1 .. n) : s # {} => Max(s) \in s
    BY <1>1, MaxIsGreatest, Zenon
  <2> QED
    BY <2>1, Zenon
<1>8. IsVector(h, dst, t, sy)
  <2>1. /\ h \in [SUBSET (1 .. n) -> VectorStates]
        /\ \A s \in SUBSET (1 .. n) :
              h[s] = IF s = {} THEN VectorStart(dst)
                     ELSE VectorStep(sy)[<<h[s \ {Max(s)}], t[Max(s)]>>]
    BY <1>5, Zenon DEF IsFold
  <2>2. ASSUME NEW s \in SUBSET (1 .. n)
        PROVE  h[s] = IF s = {} THEN VectorStart(dst) ELSE VectorScan(h[s \ {Max(s)}], t[Max(s)], sy)
    <3>1. CASE s # {}
      <4>1. h[s \ {Max(s)}] \in VectorStates /\ t[Max(s)] \in Nat
        BY <1>1, <1>7, <2>1, <3>1, Zenon
      <4> QED
        BY <1>6, <2>1, <3>1, <4>1, Zenon
    <3> QED
      BY <2>1, <3>1, Zenon
  <2>3. h = [s \in SUBSET (1 .. n) |->
               IF s = {} THEN VectorStart(dst) ELSE VectorScan(h[s \ {Max(s)}], t[Max(s)], sy)]
    BY <2>1, <2>2, Zenon
  <2> QED
    BY <1>1, <2>3, Zenon DEF IsVector
<1>9. PICK f : f = TheVector(dst, t, sy)
  OBVIOUS
<1>10. IsVector(f, dst, t, sy)
  BY <1>8, <1>9, Zenon DEF TheVector
<1>11. \A s \in SUBSET (1 .. n) :
          f[s] = IF s = {} THEN VectorStart(dst) ELSE VectorScan(f[s \ {Max(s)}], t[Max(s)], sy)
  BY <1>1, <1>10, Zenon DEF IsVector
<1>12. f[{}] = VectorStart(dst)
  BY <1>11, Zenon
<1>13. ASSUME NEW s \in SUBSET (1 .. n), s # {}, f[s \ {Max(s)}] \in VectorStates
       PROVE  f[s] = VectorStep(sy)[<<f[s \ {Max(s)}], t[Max(s)]>>]
  BY <1>1, <1>6, <1>7, <1>11, <1>13, Zenon
<1>14. IsRun(f, n, VectorStates, VectorStart(dst), VectorStep(sy), t)
  BY <1>12, <1>13, Zenon DEF IsRun
<1> QED
  BY <1>9, <1>14, Zenon

\* The vector loop, character by character.
LEMMA VectorNext ==
    ASSUME NEW dst \in Seq(Toks), NEW t \in Seq(Nat), NEW c \in Nat, NEW sy
    PROVE  /\ Vectored(dst, <<>>, sy) = VectorStart(dst)
           /\ Vectored(dst, t, sy) \in VectorStates
           /\ Vectored(dst, Append(t, c), sy) = VectorScan(Vectored(dst, t, sy), c, sy)
<1>1. PICK n : n = Len(t)
  OBVIOUS
<1>2. n \in Nat /\ DOMAIN t = 1 .. n /\ <<>> \in Seq(Nat) /\ DOMAIN <<>> = {}
  BY <1>1
<1>3. PICK w : w = Append(t, c)
  OBVIOUS
<1>4. w \in Seq(Nat) /\ Len(w) = n + 1 /\ DOMAIN w = 1 .. n + 1
  BY <1>1, <1>2, <1>3
<1>5. TheVector(dst, <<>>, sy)[{}] = VectorStart(dst)
  BY <1>2, VectorRuns, Zenon DEF IsRun
<1>6. Vectored(dst, <<>>, sy) = VectorStart(dst)
  BY <1>2, <1>5, Zenon DEF Vectored
<1>7. VectorStep(sy) \in [VectorStates \X Nat -> VectorStates]
  <2>1. \A p \in VectorStates \X Nat : VectorScan(p[1], p[2], sy) \in VectorStates
    BY VectorStays
  <2> QED
    BY <2>1 DEF VectorStep
<1>8. VectorStart(dst) \in VectorStates
  BY DEF VectorStart, VectorStates
<1>s. StaysIn(VectorStates, Nat, VectorStart(dst), n, t, VectorStep(sy))
  <2>1. \A i \in 1 .. n : t[i] \in Nat
    BY <1>1
  <2> QED
    BY <1>2, <1>7, <1>8, <2>1, Zenon DEF StaysIn
<1>9. IsRun(TheVector(dst, t, sy), n, VectorStates, VectorStart(dst), VectorStep(sy), t)
  BY <1>1, VectorRuns, Zenon
<1>10. IsRun(TheVector(dst, w, sy), n + 1, VectorStates, VectorStart(dst), VectorStep(sy), Append(t, c))
  BY <1>3, <1>4, VectorRuns, Zenon
<1>11. /\ TheVector(dst, t, sy)[1 .. n] \in VectorStates
       /\ TheVector(dst, w, sy)[1 .. n + 1] = VectorStep(sy)[<<TheVector(dst, t, sy)[1 .. n], c>>]
  <2>1. RunsFurther(VectorStates, Nat, VectorStart(dst), VectorStep(sy), n, t, c,
                    TheVector(dst, t, sy), TheVector(dst, w, sy))
    BY <1>1, <1>s, <1>9, <1>10, Zenon DEF RunsFurther
  <2> QED
    BY <2>1, FoldAppend
<1>12. /\ Vectored(dst, t, sy) \in VectorStates
       /\ Vectored(dst, w, sy) = VectorStep(sy)[<<Vectored(dst, t, sy), c>>]
  BY <1>2, <1>4, <1>11, Zenon DEF Vectored
<1>13. Vectored(dst, w, sy) = VectorScan(Vectored(dst, t, sy), c, sy)
  BY <1>12 DEF VectorStep
<1> QED
  BY <1>3, <1>6, <1>12, <1>13

\* Nibble by nibble, the bit is set for the symbols and no other character.
LEMMA SymbolBitExact ==
    ASSUME NEW sy \in SUBSET Nat, NEW c \in Nat, c < 128
    PROVE  SymbolBit(c, sy) <=> c \in sy
<1> DEFINE lo == c % 16
           row == {s \in sy : s < 128 /\ s % 16 = lo}
           hi == {s \div 16 : s \in row}
<1>1. lo \in 0 .. 15
  OBVIOUS
<1>2. symLo(sy)[lo] = hi
  BY <1>1, Zenon DEF symLo
<1>3. SymbolBit(c, sy) <=> c \div 16 \in hi
  BY <1>2, Zenon DEF SymbolBit
<1>4. ASSUME c \in sy
      PROVE  c \div 16 \in hi
  BY <1>4, Zenon
<1>5. ASSUME c \div 16 \in hi
      PROVE  c \in sy
  <2>1. PICK s \in row : c \div 16 = s \div 16
    BY <1>5, Zenon
  <2>2. s \in sy /\ s \in Nat /\ s % 16 = c % 16
    BY Zenon
  <2>3. s = c
    BY <2>1, <2>2
  <2> QED
    BY <2>2, <2>3
<1> QED
  BY <1>3, <1>4, <1>5, Zenon

\* For ASCII, the class bits say what the scalar loop asks.
LEMMA BitsExact ==
    ASSUME NEW sy \in SUBSET Nat, NEW c \in Nat
    PROVE  LET bits == classifyBytes(c, sy)
           IN  /\ "nonASCII" \in bits <=> c >= 128
               /\ c < 128 => /\ bits \cap {"space", "symbol"} = {} <=> ~Boundary(c, sy)
                             /\ "space" \in bits <=> IsSpace(c)
                             /\ "letter" \in bits <=> IsLetter(c)
                             /\ "digit" \in bits <=> IsDigit(c)
<1> DEFINE bits == classifyBytes(c, sy)
<1>1. /\ "space" \in bits <=> asciiSpace(c)
      /\ "letter" \in bits <=> asciiLetter(c)
      /\ "digit" \in bits <=> asciiDigit(c)
      /\ "nonASCII" \in bits <=> c >= 128
      /\ "symbol" \in bits <=> SymbolBit(c, sy)
  BY DEF classifyBytes, asciiSpace
<1> HIDE DEF bits
<1>2. ASSUME c < 128
      PROVE  /\ bits \cap {"space", "symbol"} = {} <=> ~Boundary(c, sy)
             /\ "space" \in bits <=> IsSpace(c)
             /\ "letter" \in bits <=> IsLetter(c)
             /\ "digit" \in bits <=> IsDigit(c)
  <2>1. c \notin UniLetters \cup UniDigits \cup UniSpaces
    BY <1>2, TokenizerAssumption
  <2>2. /\ IsSpace(c) <=> asciiSpace(c)
        /\ IsLetter(c) <=> asciiLetter(c)
        /\ IsDigit(c) <=> asciiDigit(c)
    BY <2>1, Zenon DEF IsSpace, IsLetter, IsDigit
  <2>3. SymbolBit(c, sy) <=> c \in sy
    BY <1>2, SymbolBitExact
  <2>4. Boundary(c, sy) <=> asciiSpace(c) \/ c \in sy
    BY <2>2, Zenon DEF Boundary, isSymbolRune
  <2>5. bits \cap {"space", "symbol"} = {} <=> "space" \notin bits /\ "symbol" \notin bits
    BY Zenon
  <2> QED
    BY <1>1, <2>2, <2>3, <2>4, <2>5, Zenon
<1> QED
  BY <1>1, <1>2, Zenon DEF bits

\* As long as the vector loop has not given up it is where the scalar one is, and
\* the bits it has kept say what the open segment is made of.
Agrees(v, a) ==
    v.ok => /\ v.seg = a.seg /\ v.out = a.out
            /\ "letter" \in v.acc <=> \A c \in ToSet(a.seg) : IsLetter(c)
            /\ "digit" \in v.acc <=> \A c \in ToSet(a.seg) : IsDigit(c)

LEMMA AgreesFlushed ==
    ASSUME NEW v, NEW a, Agrees(v, a), v.ok
    PROVE  VectorFlushed(v) = Flushed(a)
<1>1. segmentToken(v.seg, v.acc) = tokenWith(a.seg)
  BY Zenon DEF Agrees, segmentToken, tokenWith
<1> QED
  BY <1>1, Zenon DEF VectorFlushed, Flushed, Agrees

LEMMA AgreesKeeps ==
    ASSUME NEW v \in VectorStates, NEW a \in ScanStates, NEW c \in Nat, NEW sy \in SUBSET Nat,
           Agrees(v, a)
    PROVE  Agrees(VectorScan(v, c, sy), Scan(a, c, sy))
<1> DEFINE bits == classifyBytes(c, sy)
<1>1. PICK b : b = VectorScan(v, c, sy)
  OBVIOUS
<1>2. PICK w : w = Scan(a, c, sy)
  OBVIOUS
<1>3. CASE ~v.ok
  <2>1. b = v
    BY <1>1, <1>3, Zenon DEF VectorScan
  <2> QED
    BY <1>1, <1>3, <2>1, Zenon DEF Agrees
<1>4. CASE v.ok /\ c >= 128
  <2>1. "nonASCII" \in bits
    BY <1>4, BitsExact, Zenon
  <2>2. b = [v EXCEPT !.ok = FALSE]
    BY <1>1, <1>4, <2>1, Zenon DEF VectorScan
  <2>3. ~b.ok
    BY <2>2 DEF VectorStates
  <2> QED
    BY <1>1, <2>3, Zenon DEF Agrees
<1>5. CASE v.ok /\ c < 128 /\ Boundary(c, sy)
  <2>1. "nonASCII" \notin bits
    BY <1>5, BitsExact
  <2>2. bits \cap {"space", "symbol"} # {} /\ ("space" \in bits <=> IsSpace(c))
    BY <1>5, BitsExact, Zenon
  <2>3. b = [ok |-> TRUE, seg |-> <<>>, acc |-> AllBits,
             out |-> Append(VectorFlushed(v), Tok(IF "space" \in bits THEN "whitespace"
                                                   ELSE "symbolic", <<c>>))]
    BY <1>1, <1>5, <2>1, <2>2, Zenon DEF VectorScan
  <2>4. w = [seg |-> <<>>, out |-> Append(Flushed(a), BoundaryToken(c))]
    BY <1>2, <1>5, Zenon DEF Scan
  <2>5. Tok(IF "space" \in bits THEN "whitespace" ELSE "symbolic", <<c>>) = BoundaryToken(c)
    BY <2>2, Zenon DEF BoundaryToken
  <2>6. VectorFlushed(v) = Flushed(a)
    BY <1>5, AgreesFlushed
  <2>7. /\ b.seg = w.seg /\ b.out = w.out /\ b.acc = AllBits /\ w.seg = <<>>
    BY <2>3, <2>4, <2>5, <2>6
  <2>8. ToSet(<<>>) = {} /\ "letter" \in AllBits /\ "digit" \in AllBits
    BY DEF ToSet, AllBits
  <2> QED
    BY <1>1, <1>2, <2>7, <2>8, Zenon DEF Agrees
<1>6. CASE v.ok /\ c < 128 /\ ~Boundary(c, sy)
  <2>1. "nonASCII" \notin bits
    BY <1>6, BitsExact
  <2>2. /\ bits \cap {"space", "symbol"} = {}
        /\ "letter" \in bits <=> IsLetter(c)
        /\ "digit" \in bits <=> IsDigit(c)
    BY <1>6, BitsExact, Zenon
  <2>3. b = [v EXCEPT !.seg = Append(@, c), !.acc = @ \cap bits]
    BY <1>1, <1>6, <2>1, <2>2, Zenon DEF VectorScan
  <2>4. w = [a EXCEPT !.seg = Append(@, c)]
    BY <1>2, <1>6, Zenon DEF Scan
  <2>5. b.seg = Append(v.seg, c) /\ b.out = v.out /\ b.acc = v.acc \cap bits
    <3> HIDE DEF bits
    <3> QED
      BY <2>3 DEF VectorStates
  <2>6. w.seg = Append(a.seg, c) /\ w.out = a.out /\ a.seg \in Seq(Nat)
    BY <2>4 DEF ScanStates
  <2>7. ToSet(Append(a.seg, c)) = ToSet(a.seg) \cup {c}
    BY <2>6, AppendRange
  <2> HIDE DEF bits
  <2>8. /\ v.seg = a.seg /\ v.out = a.out
        /\ "letter" \in v.acc <=> \A x \in ToSet(a.seg) : IsLetter(x)
        /\ "digit" \in v.acc <=> \A x \in ToSet(a.seg) : IsDigit(x)
    BY <1>6, Zenon DEF Agrees
  <2>9. /\ "letter" \in b.acc <=> \A x \in ToSet(w.seg) : IsLetter(x)
        /\ "digit" \in b.acc <=> \A x \in ToSet(w.seg) : IsDigit(x)
    BY <2>2, <2>5, <2>6, <2>7, <2>8, Zenon
  <2> QED
    BY <1>1, <1>2, <2>5, <2>6, <2>8, <2>9, Zenon DEF Agrees
<1>7. c < 128 \/ c >= 128
  OBVIOUS
<1> QED
  BY <1>3, <1>4, <1>5, <1>6, <1>7

LEMMA VectorAgrees ==
    ASSUME NEW dst \in Seq(Toks), NEW sy \in SUBSET Nat
    PROVE  \A t \in Seq(Nat) : Agrees(Vectored(dst, t, sy), Scanned(dst, t, sy))
<1> DEFINE G == {t \in Seq(Nat) : Agrees(Vectored(dst, t, sy), Scanned(dst, t, sy))}
<1>0. <<>> \in Seq(Nat) /\ 0 \in Nat
  OBVIOUS
<1>1. <<>> \in G
  <2>1. Vectored(dst, <<>>, sy) = VectorStart(dst) /\ Scanned(dst, <<>>, sy) = ScanStart(dst)
    BY <1>0, VectorNext, ScanNext
  <2>2. ToSet(<<>>) = {}
    BY DEF ToSet
  <2>3. Agrees(VectorStart(dst), ScanStart(dst))
    BY <2>2 DEF Agrees, VectorStart, ScanStart, AllBits
  <2> QED
    BY <1>0, <2>1, <2>3
<1>2. ASSUME NEW t \in Seq(Nat), NEW c \in Nat, t \in G
      PROVE  Append(t, c) \in G
  <2>1. /\ Scanned(dst, t, sy) \in ScanStates
        /\ Scanned(dst, Append(t, c), sy) = Scan(Scanned(dst, t, sy), c, sy)
    BY ScanNext
  <2>2. /\ Vectored(dst, t, sy) \in VectorStates
        /\ Vectored(dst, Append(t, c), sy) = VectorScan(Vectored(dst, t, sy), c, sy)
    BY VectorNext
  <2>3. Agrees(Vectored(dst, t, sy), Scanned(dst, t, sy))
    BY <1>2
  <2>4. Agrees(VectorScan(Vectored(dst, t, sy), c, sy), Scan(Scanned(dst, t, sy), c, sy))
    BY <2>1, <2>2, <2>3, AgreesKeeps
  <2>5. Append(t, c) \in Seq(Nat)
    OBVIOUS
  <2> QED
    BY <2>1, <2>2, <2>4, <2>5
<1> HIDE DEF G
<1>3. \A t \in Seq(Nat) : t \in G
  BY <1>1, <1>2, SeqOneByOne, Zenon
<1> QED
  BY <1>3 DEF G

\* Whichever path it takes, the split appends the tokens of the text.
LEMMA SplitIsCut ==
    ASSUME NEW dst \in Seq(Toks), NEW t \in Seq(Nat), NEW sy \in SUBSET Nat
    PROVE  appendSplitToken(dst, t, sy) = dst \o Cut(t, sy)
<1> DEFINE vec == appendSplitTokenSIMD(dst, t, sy)
<1>1. appendSplitTokenScalar(dst, t, sy) = dst \o Cut(t, sy)
  BY ScalarIsCut
<1>2. ASSUME vec.ok
      PROVE  vec.out = dst \o Cut(t, sy)
  <2>1. PICK v : v = Vectored(dst, t, sy)
    OBVIOUS
  <2>2. vec = [ok |-> v.ok, out |-> IF v.ok THEN VectorFlushed(v) ELSE v.out]
    BY <2>1, VectorIsVectored
  <2>3. v.ok /\ vec.out = VectorFlushed(v)
    <3> HIDE DEF vec
    <3> QED
      BY <1>2, <2>2
  <2>4. Agrees(v, Scanned(dst, t, sy))
    BY <2>1, VectorAgrees
  <2>5. VectorFlushed(v) = Flushed(Scanned(dst, t, sy))
    BY <2>3, <2>4, AgreesFlushed
  <2> QED
    BY <1>1, <2>3, <2>5, ScalarIsScanned
<1> HIDE DEF vec
<1> QED
  BY <1>1, <1>2, Zenon DEF appendSplitToken, Forget, vec
-----------------------------------------------------------------------------
\* And for the loop that counts.
CountStates == [open : BOOLEAN, n : Nat]
Count(a, c, sy) ==
    IF Boundary(c, sy) THEN [open |-> FALSE, n |-> a.n + Pending(a.open) + 1]
    ELSE [a EXCEPT !.open = TRUE]
CountStart == [open |-> FALSE, n |-> 0]
CountStep(sy) == [p \in CountStates \X Nat |-> Count(p[1], p[2], sy)]
IsCount(f, t, sy) ==
    f = [s \in SUBSET DOMAIN t |->
           IF s = {} THEN CountStart ELSE Count(f[s \ {Max(s)}], t[Max(s)], sy)]
TheCount(t, sy) == CHOOSE f : IsCount(f, t, sy)
Counted(t, sy) == TheCount(t, sy)[DOMAIN t]

LEMMA CountIsCounted ==
    ASSUME NEW t, NEW sy
    PROVE  splitTokenCount(t, sy) = Counted(t, sy).n + Pending(Counted(t, sy).open)
  BY Zenon DEF splitTokenCount, FoldLeft, MapThenFoldSet, IsCount, TheCount, Counted,
               CountStart, Count

LEMMA CountStays ==
    ASSUME NEW a \in CountStates, NEW c \in Nat, NEW sy
    PROVE  Count(a, c, sy) \in CountStates
<1>1. a.n \in Nat /\ a.open \in BOOLEAN /\ Pending(a.open) \in Nat
  BY DEF CountStates, Pending
<1>2. a.n + Pending(a.open) + 1 \in Nat
  BY <1>1
<1>3. [a EXCEPT !.open = TRUE] \in CountStates
  BY DEF CountStates
<1>4. [open |-> FALSE, n |-> a.n + Pending(a.open) + 1] \in CountStates
  BY <1>2 DEF CountStates
<1> QED
  BY <1>3, <1>4, Zenon DEF Count

LEMMA CountRuns ==
    ASSUME NEW t \in Seq(Nat), NEW sy
    PROVE  IsRun(TheCount(t, sy), Len(t), CountStates, CountStart, CountStep(sy), t)
<1> DEFINE n == Len(t)
<1>1. n \in Nat /\ DOMAIN t = 1 .. n /\ \A i \in 1 .. n : t[i] \in Nat
  OBVIOUS
<1>2. CountStep(sy) \in [CountStates \X Nat -> CountStates]
  <2>1. \A p \in CountStates \X Nat : Count(p[1], p[2], sy) \in CountStates
    BY CountStays
  <2> QED
    BY <2>1 DEF CountStep
<1>3. CountStart \in CountStates
  BY DEF CountStart, CountStates
<1>4. StaysIn(CountStates, Nat, CountStart, n, t, CountStep(sy))
  BY <1>1, <1>2, <1>3, Zenon DEF StaysIn
<1>5. PICK h : IsFold(h, n, CountStates, CountStart, CountStep(sy), t)
  BY <1>4, FoldExists, Zenon
<1>6. \A a \in CountStates, c \in Nat : CountStep(sy)[<<a, c>>] = Count(a, c, sy)
  BY DEF CountStep
<1>7. \A s \in SUBSET (1 .. n) : s # {} => Max(s) \in 1 .. n /\ s \ {Max(s)} \in SUBSET (1 .. n)
  <2>1. \A s \in SUBSET (1 .. n) : s # {} => Max(s) \in s
    BY <1>1, MaxIsGreatest, Zenon
  <2> QED
    BY <2>1, Zenon
<1>8. IsCount(h, t, sy)
  <2>1. /\ h \in [SUBSET (1 .. n) -> CountStates]
        /\ \A s \in SUBSET (1 .. n) :
              h[s] = IF s = {} THEN CountStart
                     ELSE CountStep(sy)[<<h[s \ {Max(s)}], t[Max(s)]>>]
    BY <1>5, Zenon DEF IsFold
  <2>2. ASSUME NEW s \in SUBSET (1 .. n)
        PROVE  h[s] = IF s = {} THEN CountStart ELSE Count(h[s \ {Max(s)}], t[Max(s)], sy)
    <3>1. CASE s # {}
      <4>1. h[s \ {Max(s)}] \in CountStates /\ t[Max(s)] \in Nat
        BY <1>1, <1>7, <2>1, <3>1, Zenon
      <4> QED
        BY <1>6, <2>1, <3>1, <4>1, Zenon
    <3> QED
      BY <2>1, <3>1, Zenon
  <2>3. h = [s \in SUBSET (1 .. n) |->
               IF s = {} THEN CountStart ELSE Count(h[s \ {Max(s)}], t[Max(s)], sy)]
    BY <2>1, <2>2, Zenon
  <2> QED
    BY <1>1, <2>3, Zenon DEF IsCount
<1>9. PICK f : f = TheCount(t, sy)
  OBVIOUS
<1>10. IsCount(f, t, sy)
  BY <1>8, <1>9, Zenon DEF TheCount
<1>11. \A s \in SUBSET (1 .. n) :
          f[s] = IF s = {} THEN CountStart ELSE Count(f[s \ {Max(s)}], t[Max(s)], sy)
  BY <1>1, <1>10, Zenon DEF IsCount
<1>12. f[{}] = CountStart
  BY <1>11, Zenon
<1>13. ASSUME NEW s \in SUBSET (1 .. n), s # {}, f[s \ {Max(s)}] \in CountStates
       PROVE  f[s] = CountStep(sy)[<<f[s \ {Max(s)}], t[Max(s)]>>]
  BY <1>1, <1>6, <1>7, <1>11, <1>13, Zenon
<1>14. IsRun(f, n, CountStates, CountStart, CountStep(sy), t)
  BY <1>12, <1>13, Zenon DEF IsRun
<1> QED
  BY <1>9, <1>14, Zenon

\* The count, character by character.
LEMMA CountNext ==
    ASSUME NEW t \in Seq(Nat), NEW c \in Nat, NEW sy
    PROVE  /\ Counted(<<>>, sy) = CountStart
           /\ Counted(t, sy) \in CountStates
           /\ Counted(Append(t, c), sy) = Count(Counted(t, sy), c, sy)
<1>1. PICK n : n = Len(t)
  OBVIOUS
<1>2. n \in Nat /\ DOMAIN t = 1 .. n /\ <<>> \in Seq(Nat) /\ DOMAIN <<>> = {}
  BY <1>1
<1>3. PICK w : w = Append(t, c)
  OBVIOUS
<1>4. w \in Seq(Nat) /\ Len(w) = n + 1 /\ DOMAIN w = 1 .. n + 1
  BY <1>1, <1>2, <1>3
<1>5. TheCount(<<>>, sy)[{}] = CountStart
  BY <1>2, CountRuns, Zenon DEF IsRun
<1>6. Counted(<<>>, sy) = CountStart
  BY <1>2, <1>5, Zenon DEF Counted
<1>7. CountStep(sy) \in [CountStates \X Nat -> CountStates]
  <2>1. \A p \in CountStates \X Nat : Count(p[1], p[2], sy) \in CountStates
    BY CountStays
  <2> QED
    BY <2>1 DEF CountStep
<1>8. CountStart \in CountStates
  BY DEF CountStart, CountStates
<1>s. StaysIn(CountStates, Nat, CountStart, n, t, CountStep(sy))
  <2>1. \A i \in 1 .. n : t[i] \in Nat
    BY <1>1
  <2> QED
    BY <1>2, <1>7, <1>8, <2>1, Zenon DEF StaysIn
<1>9. IsRun(TheCount(t, sy), n, CountStates, CountStart, CountStep(sy), t)
  BY <1>1, CountRuns, Zenon
<1>10. IsRun(TheCount(w, sy), n + 1, CountStates, CountStart, CountStep(sy), Append(t, c))
  BY <1>3, <1>4, CountRuns, Zenon
<1>11. /\ TheCount(t, sy)[1 .. n] \in CountStates
       /\ TheCount(w, sy)[1 .. n + 1] = CountStep(sy)[<<TheCount(t, sy)[1 .. n], c>>]
  <2>1. RunsFurther(CountStates, Nat, CountStart, CountStep(sy), n, t, c,
                    TheCount(t, sy), TheCount(w, sy))
    BY <1>1, <1>s, <1>9, <1>10, Zenon DEF RunsFurther
  <2> QED
    BY <2>1, FoldAppend
<1>12. /\ Counted(t, sy) \in CountStates
       /\ Counted(w, sy) = CountStep(sy)[<<Counted(t, sy), c>>]
  BY <1>2, <1>4, <1>11, Zenon DEF Counted
<1>13. Counted(w, sy) = Count(Counted(t, sy), c, sy)
  BY <1>12 DEF CountStep
<1> QED
  BY <1>3, <1>6, <1>12, <1>13

\* It counts what the scalar loop has appended, and a segment is pending when
\* that loop has one.
Fits(v, a) == v \in CountStates /\ (v.open <=> a.seg # <<>>) /\ v.n = Len(a.out)

LEMMA FitsFlushed ==
    ASSUME NEW v, NEW a \in ScanStates, Fits(v, a)
    PROVE  v.n + Pending(v.open) = Len(Flushed(a))
<1>1. a.out \in Seq(Toks) /\ v.n = Len(a.out) /\ v.open \in BOOLEAN
  BY DEF Fits, ScanStates, CountStates
<1>2. Len(Append(a.out, tokenWith(a.seg))) = Len(a.out) + 1 /\ Len(a.out) \in Nat
  BY <1>1
<1>3. CASE a.seg = <<>>
  <2>1. Pending(v.open) = 0
    BY <1>1, <1>3 DEF Fits, Pending
  <2>2. Flushed(a) = a.out
    BY <1>3 DEF Flushed
  <2> QED
    BY <1>1, <1>2, <2>1, <2>2
<1>4. CASE a.seg # <<>>
  <2>1. Pending(v.open) = 1
    BY <1>1, <1>4 DEF Fits, Pending
  <2>2. Flushed(a) = Append(a.out, tokenWith(a.seg))
    BY <1>4 DEF Flushed
  <2> QED
    BY <1>1, <1>2, <2>1, <2>2
<1> QED
  BY <1>3, <1>4

LEMMA FitsKeeps ==
    ASSUME NEW v, NEW a \in ScanStates, NEW c \in Nat, NEW sy, Fits(v, a)
    PROVE  Fits(Count(v, c, sy), Scan(a, c, sy))
<1>1. PICK b : b = Scan(a, c, sy)
  OBVIOUS
<1>2. PICK w : w = Count(v, c, sy)
  OBVIOUS
<1>3. /\ a.seg \in Seq(Nat) /\ a.out \in Seq(Toks) /\ Flushed(a) \in Seq(Toks)
      /\ v \in CountStates /\ (v.open <=> a.seg # <<>>) /\ v.n = Len(a.out)
      /\ w \in CountStates
  BY <1>2, ScanStays, CountStays DEF ScanStates, Fits
<1>4. CASE Boundary(c, sy)
  <2>1. b.seg = <<>> /\ b.out = Append(Flushed(a), BoundaryToken(c))
    BY <1>1, <1>4 DEF Scan
  <2>2. Len(b.out) = Len(Flushed(a)) + 1
    BY <1>3, <2>1
  <2>3. v.n + Pending(v.open) = Len(Flushed(a))
    BY FitsFlushed
  <2>4. w.open = FALSE /\ w.n = v.n + Pending(v.open) + 1
    BY <1>2, <1>4 DEF Count
  <2> QED
    BY <1>1, <1>2, <1>3, <2>1, <2>2, <2>3, <2>4 DEF Fits
<1>5. CASE ~Boundary(c, sy)
  <2>1. b.seg = Append(a.seg, c) /\ b.out = a.out
    BY <1>1, <1>5 DEF Scan, ScanStates
  <2>2. b.seg # <<>>
    <3>1. \A s \in Seq(Nat) : Append(s, c) # <<>>
      OBVIOUS
    <3> QED
      BY <1>3, <2>1, <3>1
  <2>3. w.open = TRUE /\ w.n = v.n
    BY <1>2, <1>3, <1>5 DEF Count, CountStates
  <2> QED
    BY <1>1, <1>2, <1>3, <2>1, <2>2, <2>3 DEF Fits
<1> QED
  BY <1>4, <1>5

LEMMA CountFits ==
    ASSUME NEW sy
    PROVE  \A t \in Seq(Nat) : Fits(Counted(t, sy), Scanned(<<>>, t, sy))
<1> DEFINE G == {t \in Seq(Nat) : Fits(Counted(t, sy), Scanned(<<>>, t, sy))}
<1>0. <<>> \in Seq(Nat) /\ <<>> \in Seq(Toks) /\ 0 \in Nat
  OBVIOUS
<1>1. <<>> \in G
  <2>1. Counted(<<>>, sy) = CountStart /\ Scanned(<<>>, <<>>, sy) = ScanStart(<<>>)
    BY <1>0, CountNext, ScanNext
  <2>2. Fits(CountStart, ScanStart(<<>>))
    BY DEF Fits, ScanStart, CountStart, CountStates, Flushed
  <2> QED
    BY <1>0, <2>1, <2>2, Zenon
<1>2. ASSUME NEW t \in Seq(Nat), NEW c \in Nat, t \in G
      PROVE  Append(t, c) \in G
  <2>1. PICK a \in ScanStates : a = Scanned(<<>>, t, sy)
    BY <1>0, ScanNext
  <2>2. Scanned(<<>>, Append(t, c), sy) = Scan(a, c, sy)
    BY <1>0, <2>1, ScanNext
  <2>3. Counted(Append(t, c), sy) = Count(Counted(t, sy), c, sy)
    BY CountNext
  <2>4. Fits(Counted(t, sy), a)
    BY <1>2, <2>1
  <2>5. Fits(Count(Counted(t, sy), c, sy), Scan(a, c, sy))
    BY <2>4, FitsKeeps
  <2>6. Append(t, c) \in Seq(Nat)
    OBVIOUS
  <2> QED
    BY <2>2, <2>3, <2>5, <2>6, Zenon
<1> HIDE DEF G
<1>3. \A t \in Seq(Nat) : t \in G
  BY <1>1, <1>2, SeqOneByOne, Zenon
<1> QED
  BY <1>3, Zenon DEF G

\* What is counted is what is made.
LEMMA CountIsLength ==
    ASSUME NEW t \in Seq(Nat), NEW sy \in SUBSET Nat
    PROVE  splitTokenCount(t, sy) = Len(appendSplitToken(<<>>, t, sy))
<1>1. <<>> \in Seq(Toks)
  OBVIOUS
<1>2. Counted(t, sy).n + Pending(Counted(t, sy).open) = Len(Cut(t, sy))
  <2>1. Scanned(<<>>, t, sy) \in ScanStates
    BY <1>1, ScanNext
  <2>2. Fits(Counted(t, sy), Scanned(<<>>, t, sy))
    BY CountFits
  <2> QED
    BY <2>1, <2>2, FitsFlushed DEF Cut
<1>3. <<>> \o Cut(t, sy) = Cut(t, sy)
  BY CutSound
<1> QED
  BY <1>1, <1>2, <1>3, CountIsCounted, SplitIsCut

-----------------------------------------------------------------------------
\* The loop over tokens that takes the impure ones apart.
Retok(out, t, sy) ==
    IF SplitImpure(t, sy) THEN appendSplitToken(out, t.slice, sy) ELSE Append(out, t)
RetokStep(sy) == [p \in Seq(Toks) \X Toks |-> Retok(p[1], p[2], sy)]
IsRetok(f, dst, t, sy) ==
    f = [s \in SUBSET DOMAIN t |->
           IF s = {} THEN dst ELSE Retok(f[s \ {Max(s)}], t[Max(s)], sy)]
TheRetok(dst, t, sy) == CHOOSE f : IsRetok(f, dst, t, sy)
Retokenized(dst, t, sy) == TheRetok(dst, t, sy)[DOMAIN t]

LEMMA RetokIsRetokenized ==
    ASSUME NEW toks, NEW sy
    PROVE  LET needs == {j \in DOMAIN toks : toks[j].kind = "impure" /\ tokenNeedsSplit(toks[j].slice, sy)}
           IN  retokenizeTokensWithSymbolsInto(toks, sy) =
                  IF needs = {} THEN toks
                  ELSE Retokenized(SubSeq(toks, 1, Min(needs) - 1),
                                   SubSeq(toks, Min(needs), Len(toks)), sy)
  BY Zenon DEF retokenizeTokensWithSymbolsInto, FoldLeft, MapThenFoldSet, IsRetok, TheRetok,
               Retokenized, Retok

\* What is made of a token.
Refining(sy) == [t \in Toks |-> IF t.kind = "impure" THEN Cut(t.slice, sy) ELSE <<t>>]

LEMMA RefiningMaps ==
    ASSUME NEW sy \in SUBSET Nat
    PROVE  Maps(Refining(sy), Toks, Toks)
<1>1. ASSUME NEW t \in Toks
      PROVE  (IF t.kind = "impure" THEN Cut(t.slice, sy) ELSE <<t>>) \in Seq(Toks)
  <2>1. t.slice \in Seq(Nat)
    BY DEF Toks
  <2>2. Cut(t.slice, sy) \in Seq(Toks)
    BY <2>1, CutSound
  <2> QED
    BY <2>2
<1> QED
  BY <1>1 DEF Refining, Maps

LEMMA RetokStays ==
    ASSUME NEW a \in Seq(Toks), NEW c \in Toks, NEW sy \in SUBSET Nat
    PROVE  Retok(a, c, sy) \in Seq(Toks) /\ Retok(a, c, sy) = a \o Refining(sy)[c]
<1>1. c.slice \in Seq(Nat)
  BY DEF Toks
<1>2. appendSplitToken(a, c.slice, sy) = a \o Cut(c.slice, sy)
  BY <1>1, SplitIsCut
<1>3. Append(a, c) = a \o <<c>>
  OBVIOUS
<1>4. Retok(a, c, sy) = a \o Refining(sy)[c]
  BY <1>2, <1>3, Zenon DEF Retok, SplitImpure, Refining
<1>5. Refining(sy)[c] \in Seq(Toks)
  BY RefiningMaps DEF Maps
<1> QED
  BY <1>4, <1>5

LEMMA RetokRuns ==
    ASSUME NEW dst \in Seq(Toks), NEW t \in Seq(Toks), NEW sy \in SUBSET Nat
    PROVE  IsRun(TheRetok(dst, t, sy), Len(t), Seq(Toks), dst, RetokStep(sy), t)
<1> DEFINE n == Len(t)
<1>1. n \in Nat /\ DOMAIN t = 1 .. n /\ \A i \in 1 .. n : t[i] \in Toks
  OBVIOUS
<1>2. RetokStep(sy) \in [Seq(Toks) \X Toks -> Seq(Toks)]
  <2>1. \A p \in Seq(Toks) \X Toks : Retok(p[1], p[2], sy) \in Seq(Toks)
    BY RetokStays
  <2> QED
    BY <2>1 DEF RetokStep
<1>3. dst \in Seq(Toks)
  OBVIOUS
<1>4. StaysIn(Seq(Toks), Toks, dst, n, t, RetokStep(sy))
  BY <1>1, <1>2, <1>3, Zenon DEF StaysIn
<1>5. PICK h : IsFold(h, n, Seq(Toks), dst, RetokStep(sy), t)
  BY <1>4, FoldExists, Zenon
<1>6. \A a \in Seq(Toks), c \in Toks : RetokStep(sy)[<<a, c>>] = Retok(a, c, sy)
  BY DEF RetokStep
<1>7. \A s \in SUBSET (1 .. n) : s # {} => Max(s) \in 1 .. n /\ s \ {Max(s)} \in SUBSET (1 .. n)
  <2>1. \A s \in SUBSET (1 .. n) : s # {} => Max(s) \in s
    BY <1>1, MaxIsGreatest, Zenon
  <2> QED
    BY <2>1, Zenon
<1>8. IsRetok(h, dst, t, sy)
  <2>1. /\ h \in [SUBSET (1 .. n) -> Seq(Toks)]
        /\ \A s \in SUBSET (1 .. n) :
              h[s] = IF s = {} THEN dst
                     ELSE RetokStep(sy)[<<h[s \ {Max(s)}], t[Max(s)]>>]
    BY <1>5, Zenon DEF IsFold
  <2>2. ASSUME NEW s \in SUBSET (1 .. n)
        PROVE  h[s] = IF s = {} THEN dst ELSE Retok(h[s \ {Max(s)}], t[Max(s)], sy)
    <3>1. CASE s # {}
      <4>1. h[s \ {Max(s)}] \in Seq(Toks) /\ t[Max(s)] \in Toks
        BY <1>1, <1>7, <2>1, <3>1, Zenon
      <4> QED
        BY <1>6, <2>1, <3>1, <4>1, Zenon
    <3> QED
      BY <2>1, <3>1, Zenon
  <2>3. h = [s \in SUBSET (1 .. n) |->
               IF s = {} THEN dst ELSE Retok(h[s \ {Max(s)}], t[Max(s)], sy)]
    BY <2>1, <2>2, Zenon
  <2> QED
    BY <1>1, <2>3, Zenon DEF IsRetok
<1>9. PICK f : f = TheRetok(dst, t, sy)
  OBVIOUS
<1>10. IsRetok(f, dst, t, sy)
  BY <1>8, <1>9, Zenon DEF TheRetok
<1>11. \A s \in SUBSET (1 .. n) :
          f[s] = IF s = {} THEN dst ELSE Retok(f[s \ {Max(s)}], t[Max(s)], sy)
  BY <1>1, <1>10, Zenon DEF IsRetok
<1>12. f[{}] = dst
  BY <1>11, Zenon
<1>13. ASSUME NEW s \in SUBSET (1 .. n), s # {}, f[s \ {Max(s)}] \in Seq(Toks)
       PROVE  f[s] = RetokStep(sy)[<<f[s \ {Max(s)}], t[Max(s)]>>]
  BY <1>1, <1>6, <1>7, <1>11, <1>13, Zenon
<1>14. IsRun(f, n, Seq(Toks), dst, RetokStep(sy), t)
  BY <1>12, <1>13, Zenon DEF IsRun
<1> QED
  BY <1>9, <1>14, Zenon

\* The loop, token by token.
LEMMA RetokNext ==
    ASSUME NEW dst \in Seq(Toks), NEW t \in Seq(Toks), NEW c \in Toks, NEW sy \in SUBSET Nat
    PROVE  /\ Retokenized(dst, <<>>, sy) = dst
           /\ Retokenized(dst, t, sy) \in Seq(Toks)
           /\ Retokenized(dst, Append(t, c), sy) = Retok(Retokenized(dst, t, sy), c, sy)
<1>1. PICK n : n = Len(t)
  OBVIOUS
<1>2. n \in Nat /\ DOMAIN t = 1 .. n /\ <<>> \in Seq(Toks) /\ DOMAIN <<>> = {}
  BY <1>1
<1>3. PICK w : w = Append(t, c)
  OBVIOUS
<1>4. w \in Seq(Toks) /\ Len(w) = n + 1 /\ DOMAIN w = 1 .. n + 1
  BY <1>1, <1>2, <1>3
<1>5. TheRetok(dst, <<>>, sy)[{}] = dst
  BY <1>2, RetokRuns, Zenon DEF IsRun
<1>6. Retokenized(dst, <<>>, sy) = dst
  BY <1>2, <1>5, Zenon DEF Retokenized
<1>7. RetokStep(sy) \in [Seq(Toks) \X Toks -> Seq(Toks)]
  <2>1. \A p \in Seq(Toks) \X Toks : Retok(p[1], p[2], sy) \in Seq(Toks)
    BY RetokStays
  <2> QED
    BY <2>1 DEF RetokStep
<1>8. dst \in Seq(Toks)
  OBVIOUS
<1>s. StaysIn(Seq(Toks), Toks, dst, n, t, RetokStep(sy))
  <2>1. \A i \in 1 .. n : t[i] \in Toks
    BY <1>1
  <2> QED
    BY <1>2, <1>7, <1>8, <2>1, Zenon DEF StaysIn
<1>9. IsRun(TheRetok(dst, t, sy), n, Seq(Toks), dst, RetokStep(sy), t)
  BY <1>1, RetokRuns, Zenon
<1>10. IsRun(TheRetok(dst, w, sy), n + 1, Seq(Toks), dst, RetokStep(sy), Append(t, c))
  BY <1>3, <1>4, RetokRuns, Zenon
<1>11. /\ TheRetok(dst, t, sy)[1 .. n] \in Seq(Toks)
       /\ TheRetok(dst, w, sy)[1 .. n + 1] = RetokStep(sy)[<<TheRetok(dst, t, sy)[1 .. n], c>>]
  <2>1. RunsFurther(Seq(Toks), Toks, dst, RetokStep(sy), n, t, c,
                    TheRetok(dst, t, sy), TheRetok(dst, w, sy))
    BY <1>1, <1>s, <1>9, <1>10, Zenon DEF RunsFurther
  <2> QED
    BY <2>1, FoldAppend
<1>12. /\ Retokenized(dst, t, sy) \in Seq(Toks)
       /\ Retokenized(dst, w, sy) = RetokStep(sy)[<<Retokenized(dst, t, sy), c>>]
  BY <1>2, <1>4, <1>11, Zenon DEF Retokenized
<1>13. Retokenized(dst, w, sy) = Retok(Retokenized(dst, t, sy), c, sy)
  BY <1>12 DEF RetokStep
<1> QED
  BY <1>3, <1>6, <1>12, <1>13

\* The loop appends what is made of each token.
Refined(dst, t, sy) == Retokenized(dst, t, sy) = dst \o Expand(Refining(sy), t)

LEMMA RetokFurther ==
    ASSUME NEW dst \in Seq(Toks), NEW t \in Seq(Toks), NEW c \in Toks, NEW sy \in SUBSET Nat,
           Refined(dst, t, sy)
    PROVE  Refined(dst, Append(t, c), sy)
<1>1. PICK m : m = Refining(sy) /\ Maps(m, Toks, Toks)
  BY RefiningMaps
<1>m. Maps(m, Toks, Toks)
  BY <1>1
<1>2. Expand(m, t) \in Seq(Toks) /\ Expand(m, Append(t, c)) = Expand(m, t) \o m[c]
  BY <1>m, ExpandNext
<1>3. PICK e \in Seq(Toks) : e = Expand(m, t)
  BY <1>2
<1>4. PICK r \in Seq(Toks) : r = m[c]
  BY <1>1 DEF Maps
<1>c. dst \o e \in Seq(Toks)
  OBVIOUS
<1>5. PICK a \in Seq(Toks) : a = dst \o e
  BY <1>c
<1>6. Retok(a, c, sy) = a \o r
  BY <1>1, <1>4, RetokStays
<1>7. Retokenized(dst, Append(t, c), sy) = Retok(a, c, sy)
  <2>1. Retokenized(dst, t, sy) = a
    BY <1>1, <1>3, <1>5, Zenon DEF Refined
  <2>2. Retokenized(dst, Append(t, c), sy) = Retok(Retokenized(dst, t, sy), c, sy)
    BY RetokNext
  <2> QED
    BY <2>1, <2>2
<1>8. a \o r = dst \o (e \o r)
  BY <1>5
<1> QED
  BY <1>1, <1>2, <1>3, <1>4, <1>6, <1>7, <1>8, Zenon DEF Refined

LEMMA RetokExpands ==
    ASSUME NEW dst \in Seq(Toks), NEW sy \in SUBSET Nat
    PROVE  \A t \in Seq(Toks) : Refined(dst, t, sy)
<1> DEFINE G == {t \in Seq(Toks) : Refined(dst, t, sy)}
<1>0. PICK x \in Toks : TRUE
  BY TokensAreToks
<1>1. <<>> \in G
  <2>1. Retokenized(dst, <<>>, sy) = dst
    BY <1>0, RetokNext, <<>> \in Seq(Toks)
  <2>2. Expand(Refining(sy), <<>>) = <<>>
    BY ExpandEmpty
  <2>3. dst \o <<>> = dst /\ <<>> \in Seq(Toks)
    OBVIOUS
  <2> QED
    BY <2>1, <2>2, <2>3 DEF Refined
<1>2. ASSUME NEW t \in Seq(Toks), NEW c \in Toks, t \in G
      PROVE  Append(t, c) \in G
  <2>1. Refined(dst, t, sy)
    BY <1>2
  <2>2. Refined(dst, Append(t, c), sy)
    BY <2>1, RetokFurther
  <2>3. Append(t, c) \in Seq(Toks)
    OBVIOUS
  <2> QED
    BY <2>2, <2>3
<1> HIDE DEF G
<1>3. \A t \in Seq(Toks) : t \in G
  BY <1>1, <1>2, SeqOneByOne, Zenon
<1> QED
  BY <1>3 DEF G

-----------------------------------------------------------------------------
\* And the loop over the pre-tokens.
PreToks == [kind : {"unrefined"} \cup Special, slice : Seq(Nat)]

LEMMA PreTokFacts ==
    /\ PreToks # {} /\ PreToks \subseteq AllToks
    /\ \A p \in PreToks : p.slice \in Seq(Nat) /\ (p.kind \in Special => p \in Toks)
<1>1. [kind |-> "unrefined", slice |-> <<>>] \in PreToks
  BY DEF PreToks
<1>2. ASSUME NEW p \in PreToks
      PROVE  p.slice \in Seq(Nat) /\ (p.kind \in Special => p \in Toks) /\ p \in AllToks
  BY DEF PreToks, Toks, AllToks, Kinds
<1> QED
  BY <1>1, <1>2

Lay(out, p, sy) ==
    IF p.kind \in Special THEN Append(out, p) ELSE appendSplitToken(out, p.slice, sy)
LayStep(sy) == [p \in Seq(Toks) \X PreToks |-> Lay(p[1], p[2], sy)]
IsLay(f, dst, t, sy) ==
    f = [s \in SUBSET DOMAIN t |->
           IF s = {} THEN dst ELSE Lay(f[s \ {Max(s)}], t[Max(s)], sy)]
TheLay(dst, t, sy) == CHOOSE f : IsLay(f, dst, t, sy)
Laid(dst, t, sy) == TheLay(dst, t, sy)[DOMAIN t]

LEMMA TokensIsLaid ==
    ASSUME NEW sy
    PROVE  TokensWith(sy) = Laid(<<>>, pre, sy)
  BY Zenon DEF TokensWith, FoldLeft, MapThenFoldSet, IsLay, TheLay, Laid, Lay

\* What is made of a pre-token.
Laying(sy) == [p \in PreToks |-> IF p.kind \in Special THEN <<p>> ELSE Cut(p.slice, sy)]

LEMMA LayingMaps ==
    ASSUME NEW sy \in SUBSET Nat
    PROVE  Maps(Laying(sy), PreToks, Toks)
<1>1. ASSUME NEW p \in PreToks
      PROVE  (IF p.kind \in Special THEN <<p>> ELSE Cut(p.slice, sy)) \in Seq(Toks)
  <2>1. p.slice \in Seq(Nat) /\ (p.kind \in Special => p \in Toks)
    BY PreTokFacts
  <2>2. Cut(p.slice, sy) \in Seq(Toks)
    BY <2>1, CutSound
  <2> QED
    BY <2>1, <2>2
<1> QED
  BY <1>1 DEF Laying, Maps

LEMMA LayStays ==
    ASSUME NEW a \in Seq(Toks), NEW c \in PreToks, NEW sy \in SUBSET Nat
    PROVE  Lay(a, c, sy) \in Seq(Toks) /\ Lay(a, c, sy) = a \o Laying(sy)[c]
<1>1. c.slice \in Seq(Nat) /\ (c.kind \in Special => c \in Toks)
  BY PreTokFacts
<1>2. appendSplitToken(a, c.slice, sy) = a \o Cut(c.slice, sy)
  BY <1>1, SplitIsCut
<1>3. Append(a, c) = a \o <<c>>
  OBVIOUS
<1>4. Lay(a, c, sy) = a \o Laying(sy)[c]
  BY <1>2, <1>3, Zenon DEF Lay, Laying
<1>5. Laying(sy)[c] \in Seq(Toks)
  BY LayingMaps DEF Maps
<1> QED
  BY <1>4, <1>5

LEMMA LayRuns ==
    ASSUME NEW dst \in Seq(Toks), NEW t \in Seq(PreToks), NEW sy \in SUBSET Nat
    PROVE  IsRun(TheLay(dst, t, sy), Len(t), Seq(Toks), dst, LayStep(sy), t)
<1> DEFINE n == Len(t)
<1>1. n \in Nat /\ DOMAIN t = 1 .. n /\ \A i \in 1 .. n : t[i] \in PreToks
  OBVIOUS
<1>2. LayStep(sy) \in [Seq(Toks) \X PreToks -> Seq(Toks)]
  <2>1. \A p \in Seq(Toks) \X PreToks : Lay(p[1], p[2], sy) \in Seq(Toks)
    BY LayStays
  <2> QED
    BY <2>1 DEF LayStep
<1>3. dst \in Seq(Toks)
  OBVIOUS
<1>4. StaysIn(Seq(Toks), PreToks, dst, n, t, LayStep(sy))
  BY <1>1, <1>2, <1>3, Zenon DEF StaysIn
<1>5. PICK h : IsFold(h, n, Seq(Toks), dst, LayStep(sy), t)
  BY <1>4, FoldExists, Zenon
<1>6. \A a \in Seq(Toks), c \in PreToks : LayStep(sy)[<<a, c>>] = Lay(a, c, sy)
  BY DEF LayStep
<1>7. \A s \in SUBSET (1 .. n) : s # {} => Max(s) \in 1 .. n /\ s \ {Max(s)} \in SUBSET (1 .. n)
  <2>1. \A s \in SUBSET (1 .. n) : s # {} => Max(s) \in s
    BY <1>1, MaxIsGreatest, Zenon
  <2> QED
    BY <2>1, Zenon
<1>8. IsLay(h, dst, t, sy)
  <2>1. /\ h \in [SUBSET (1 .. n) -> Seq(Toks)]
        /\ \A s \in SUBSET (1 .. n) :
              h[s] = IF s = {} THEN dst
                     ELSE LayStep(sy)[<<h[s \ {Max(s)}], t[Max(s)]>>]
    BY <1>5, Zenon DEF IsFold
  <2>2. ASSUME NEW s \in SUBSET (1 .. n)
        PROVE  h[s] = IF s = {} THEN dst ELSE Lay(h[s \ {Max(s)}], t[Max(s)], sy)
    <3>1. CASE s # {}
      <4>1. h[s \ {Max(s)}] \in Seq(Toks) /\ t[Max(s)] \in PreToks
        BY <1>1, <1>7, <2>1, <3>1, Zenon
      <4> QED
        BY <1>6, <2>1, <3>1, <4>1, Zenon
    <3> QED
      BY <2>1, <3>1, Zenon
  <2>3. h = [s \in SUBSET (1 .. n) |->
               IF s = {} THEN dst ELSE Lay(h[s \ {Max(s)}], t[Max(s)], sy)]
    BY <2>1, <2>2, Zenon
  <2> QED
    BY <1>1, <2>3, Zenon DEF IsLay
<1>9. PICK f : f = TheLay(dst, t, sy)
  OBVIOUS
<1>10. IsLay(f, dst, t, sy)
  BY <1>8, <1>9, Zenon DEF TheLay
<1>11. \A s \in SUBSET (1 .. n) :
          f[s] = IF s = {} THEN dst ELSE Lay(f[s \ {Max(s)}], t[Max(s)], sy)
  BY <1>1, <1>10, Zenon DEF IsLay
<1>12. f[{}] = dst
  BY <1>11, Zenon
<1>13. ASSUME NEW s \in SUBSET (1 .. n), s # {}, f[s \ {Max(s)}] \in Seq(Toks)
       PROVE  f[s] = LayStep(sy)[<<f[s \ {Max(s)}], t[Max(s)]>>]
  BY <1>1, <1>6, <1>7, <1>11, <1>13, Zenon
<1>14. IsRun(f, n, Seq(Toks), dst, LayStep(sy), t)
  BY <1>12, <1>13, Zenon DEF IsRun
<1> QED
  BY <1>9, <1>14, Zenon

\* The loop, pre-token by pre-token.
LEMMA LayNext ==
    ASSUME NEW dst \in Seq(Toks), NEW t \in Seq(PreToks), NEW c \in PreToks, NEW sy \in SUBSET Nat
    PROVE  /\ Laid(dst, <<>>, sy) = dst
           /\ Laid(dst, t, sy) \in Seq(Toks)
           /\ Laid(dst, Append(t, c), sy) = Lay(Laid(dst, t, sy), c, sy)
<1>1. PICK n : n = Len(t)
  OBVIOUS
<1>2. n \in Nat /\ DOMAIN t = 1 .. n /\ <<>> \in Seq(PreToks) /\ DOMAIN <<>> = {}
  BY <1>1
<1>3. PICK w : w = Append(t, c)
  OBVIOUS
<1>4. w \in Seq(PreToks) /\ Len(w) = n + 1 /\ DOMAIN w = 1 .. n + 1
  BY <1>1, <1>2, <1>3
<1>5. TheLay(dst, <<>>, sy)[{}] = dst
  BY <1>2, LayRuns, Zenon DEF IsRun
<1>6. Laid(dst, <<>>, sy) = dst
  BY <1>2, <1>5, Zenon DEF Laid
<1>7. LayStep(sy) \in [Seq(Toks) \X PreToks -> Seq(Toks)]
  <2>1. \A p \in Seq(Toks) \X PreToks : Lay(p[1], p[2], sy) \in Seq(Toks)
    BY LayStays
  <2> QED
    BY <2>1 DEF LayStep
<1>8. dst \in Seq(Toks)
  OBVIOUS
<1>s. StaysIn(Seq(Toks), PreToks, dst, n, t, LayStep(sy))
  <2>1. \A i \in 1 .. n : t[i] \in PreToks
    BY <1>1
  <2> QED
    BY <1>2, <1>7, <1>8, <2>1, Zenon DEF StaysIn
<1>9. IsRun(TheLay(dst, t, sy), n, Seq(Toks), dst, LayStep(sy), t)
  BY <1>1, LayRuns, Zenon
<1>10. IsRun(TheLay(dst, w, sy), n + 1, Seq(Toks), dst, LayStep(sy), Append(t, c))
  BY <1>3, <1>4, LayRuns, Zenon
<1>11. /\ TheLay(dst, t, sy)[1 .. n] \in Seq(Toks)
       /\ TheLay(dst, w, sy)[1 .. n + 1] = LayStep(sy)[<<TheLay(dst, t, sy)[1 .. n], c>>]
  <2>1. RunsFurther(Seq(Toks), PreToks, dst, LayStep(sy), n, t, c,
                    TheLay(dst, t, sy), TheLay(dst, w, sy))
    BY <1>1, <1>s, <1>9, <1>10, Zenon DEF RunsFurther
  <2> QED
    BY <2>1, FoldAppend
<1>12. /\ Laid(dst, t, sy) \in Seq(Toks)
       /\ Laid(dst, w, sy) = LayStep(sy)[<<Laid(dst, t, sy), c>>]
  BY <1>2, <1>4, <1>11, Zenon DEF Laid
<1>13. Laid(dst, w, sy) = Lay(Laid(dst, t, sy), c, sy)
  BY <1>12 DEF LayStep
<1> QED
  BY <1>3, <1>6, <1>12, <1>13

\* The loop appends what is made of each pre-token.
LaidOut(dst, t, sy) == Laid(dst, t, sy) = dst \o Expand(Laying(sy), t)

LEMMA LayFurther ==
    ASSUME NEW dst \in Seq(Toks), NEW t \in Seq(PreToks), NEW c \in PreToks, NEW sy \in SUBSET Nat,
           LaidOut(dst, t, sy)
    PROVE  LaidOut(dst, Append(t, c), sy)
<1>1. PICK m : m = Laying(sy) /\ Maps(m, PreToks, Toks)
  BY LayingMaps
<1>m. Maps(m, PreToks, Toks)
  BY <1>1
<1>2. Expand(m, t) \in Seq(Toks) /\ Expand(m, Append(t, c)) = Expand(m, t) \o m[c]
  BY <1>m, ExpandNext
<1>3. PICK e \in Seq(Toks) : e = Expand(m, t)
  BY <1>2
<1>4. PICK r \in Seq(Toks) : r = m[c]
  BY <1>1 DEF Maps
<1>c. dst \o e \in Seq(Toks)
  OBVIOUS
<1>5. PICK a \in Seq(Toks) : a = dst \o e
  BY <1>c
<1>6. Lay(a, c, sy) = a \o r
  BY <1>1, <1>4, LayStays
<1>7. Laid(dst, Append(t, c), sy) = Lay(a, c, sy)
  <2>1. Laid(dst, t, sy) = a
    BY <1>1, <1>3, <1>5, Zenon DEF LaidOut
  <2>2. Laid(dst, Append(t, c), sy) = Lay(Laid(dst, t, sy), c, sy)
    BY LayNext
  <2> QED
    BY <2>1, <2>2
<1>8. a \o r = dst \o (e \o r)
  BY <1>5
<1> QED
  BY <1>1, <1>2, <1>3, <1>4, <1>6, <1>7, <1>8, Zenon DEF LaidOut

LEMMA LayExpands ==
    ASSUME NEW dst \in Seq(Toks), NEW sy \in SUBSET Nat
    PROVE  \A t \in Seq(PreToks) : LaidOut(dst, t, sy)
<1> DEFINE G == {t \in Seq(PreToks) : LaidOut(dst, t, sy)}
<1>0. PICK x \in PreToks : TRUE
  BY PreTokFacts
<1>1. <<>> \in G
  <2>1. Laid(dst, <<>>, sy) = dst
    BY <1>0, LayNext, <<>> \in Seq(PreToks)
  <2>2. Expand(Laying(sy), <<>>) = <<>>
    BY ExpandEmpty
  <2>3. dst \o <<>> = dst /\ <<>> \in Seq(PreToks)
    OBVIOUS
  <2> QED
    BY <2>1, <2>2, <2>3 DEF LaidOut
<1>2. ASSUME NEW t \in Seq(PreToks), NEW c \in PreToks, t \in G
      PROVE  Append(t, c) \in G
  <2>1. LaidOut(dst, t, sy)
    BY <1>2
  <2>2. LaidOut(dst, Append(t, c), sy)
    BY <2>1, LayFurther
  <2>3. Append(t, c) \in Seq(PreToks)
    OBVIOUS
  <2> QED
    BY <2>2, <2>3
<1> HIDE DEF G
<1>3. \A t \in Seq(PreToks) : t \in G
  BY <1>1, <1>2, SeqOneByOne, Zenon
<1> QED
  BY <1>3 DEF G

-----------------------------------------------------------------------------
\* Tokens all left as they are.
LEMMA ExpandSame ==
    ASSUME NEW A, A # {}, NEW m, Maps(m, A, A)
    PROVE  \A s \in Seq({a \in A : m[a] = <<a>>}) : Expand(m, s) = s
<1> DEFINE Z == {a \in A : m[a] = <<a>>}
           G == {s \in Seq(Z) : Expand(m, s) = s}
<1>0. Z \subseteq A
  OBVIOUS
<1>1. <<>> \in G
  BY ExpandEmpty, <<>> \in Seq(Z)
<1>2. ASSUME NEW s \in Seq(Z), NEW x \in Z, s \in G
      PROVE  Append(s, x) \in G
  <2>1. Expand(m, s) = s /\ m[x] = <<x>> /\ x \in A
    BY <1>2
  <2> HIDE DEF Z
  <2>2. s \in Seq(A)
    BY <1>0, SeqLarger
  <2>3. Expand(m, Append(s, x)) = Expand(m, s) \o m[x]
    <3>1. x \in A
      BY <2>1
    <3> QED
      BY <2>2, <3>1, ExpandNext
  <2>4. s \o <<x>> = Append(s, x) /\ Append(s, x) \in Seq(Z)
    OBVIOUS
  <2> QED
    BY <2>1, <2>3, <2>4
<1> HIDE DEF G, Z
<1>3. \A s \in Seq(Z) : s \in G
  BY <1>1, <1>2, SeqOneByOne, Zenon
<1> QED
  BY <1>3 DEF G, Z

\* A token is steady when, unless the loop looks into it, nothing is made of it.
Steady(sy) ==
    {t \in Toks : (t.kind = "impure" /\ ~tokenNeedsSplit(t.slice, sy)) => Refining(sy)[t] = <<t>>}

\* So the loop may start at the first token that has a symbol.
LEMMA RetokenizeExpands ==
    ASSUME NEW sy \in SUBSET Nat, NEW toks \in Seq(Steady(sy))
    PROVE  retokenizeTokensWithSymbolsInto(toks, sy) = Expand(Refining(sy), toks)
<1> DEFINE needs == {j \in DOMAIN toks : toks[j].kind = "impure" /\ tokenNeedsSplit(toks[j].slice, sy)}
<1>1. PICK n \in Nat : n = Len(toks)
  OBVIOUS
<1>2. DOMAIN toks = 1 .. n /\ \A j \in 1 .. n : toks[j] \in Steady(sy)
  BY <1>1
<1>3. PICK Z : Z = {a \in Toks : Refining(sy)[a] = <<a>>}
  OBVIOUS
<1>4. \A j \in 1 .. n : j \notin needs => toks[j] \in Z
  <2> SUFFICES ASSUME NEW j \in 1 .. n, j \notin needs
               PROVE  toks[j] \in Z
    OBVIOUS
  <2>1. PICK t \in Toks : /\ t = toks[j]
                          /\ (t.kind = "impure" /\ ~tokenNeedsSplit(t.slice, sy)) => Refining(sy)[t] = <<t>>
    BY <1>2, Zenon DEF Steady
  <2>2. ~(t.kind = "impure" /\ tokenNeedsSplit(t.slice, sy))
    BY <1>2, <2>1, Zenon
  <2>3. t.kind # "impure" => Refining(sy)[t] = <<t>>
    BY Zenon DEF Refining
  <2> QED
    BY <1>3, <2>1, <2>2, <2>3, Zenon
<1>5. Toks # {} /\ Maps(Refining(sy), Toks, Toks) /\ toks \in Seq(Toks)
  <2>1. Steady(sy) \subseteq Toks
    BY DEF Steady
  <2> QED
    BY <2>1, TokensAreToks, RefiningMaps, SeqLarger, 0 \in Nat
<1>6. \A s \in Seq(Z) : Expand(Refining(sy), s) = s
  BY <1>3, <1>5, ExpandSame, Zenon
<1>7. needs \subseteq 1 .. n
  BY <1>2, Zenon
<1>8. retokenizeTokensWithSymbolsInto(toks, sy) =
         IF needs = {} THEN toks
         ELSE Retokenized(SubSeq(toks, 1, Min(needs) - 1), SubSeq(toks, Min(needs), n), sy)
  BY <1>1, RetokIsRetokenized, Zenon
<1> HIDE DEF needs
<1>9. CASE needs = {}
  <2>1. \A j \in 1 .. n : toks[j] \in Z
    BY <1>4, <1>9
  <2>2. toks \in Seq(Z)
    BY <1>1, <1>5, <2>1
  <2> QED
    BY <1>6, <1>8, <1>9, <2>2, Zenon
<1>10. CASE needs # {}
  <2>1. PICK i : i = Min(needs)
    OBVIOUS
  <2>2. i \in needs /\ \A j \in needs : i <= j
    <3>1. needs \in SUBSET Nat
      BY <1>7
    <3> QED
      BY <1>10, <2>1, <3>1, MinIsLeast
  <2>3. i \in 1 .. n
    BY <1>7, <2>2
  <2>4. PICK s, r : s = SubSeq(toks, 1, i - 1) /\ r = SubSeq(toks, i, n)
    OBVIOUS
  <2>5. /\ s \in Seq(Toks) /\ r \in Seq(Toks) /\ toks = s \o r
        /\ Len(s) = i - 1 /\ \A j \in 1 .. i - 1 : s[j] = toks[j]
    <3>1. PICK k \in 0 .. n : k = i - 1 /\ k + 1 = i
      BY <2>3
    <3>2. PICK o : o = 0
      OBVIOUS
    <3>3. o \in 0 .. Len(toks) /\ k \in 0 .. Len(toks) /\ n \in 0 .. Len(toks) /\ o <= k /\ k <= n
      BY <1>1, <3>1, <3>2
    <3>4. /\ SubSeq(toks, o + 1, k) \o SubSeq(toks, k + 1, n) = SubSeq(toks, o + 1, n)
          /\ SubSeq(toks, o + 1, k) \in Seq(Toks) /\ SubSeq(toks, k + 1, n) \in Seq(Toks)
          /\ Len(SubSeq(toks, o + 1, k)) = k - o
          /\ \A l \in 1 .. k - o : SubSeq(toks, o + 1, k)[l] = toks[o + l]
      BY <1>5, <3>3, PiecesJoin
    <3>5. o + 1 = 1 /\ k - o = k /\ \A l \in 1 .. k : o + l = l
      BY <3>1, <3>2
    <3>6. SubSeq(toks, 1, n) = toks
      BY <1>1, <1>5
    <3> QED
      BY <2>4, <3>1, <3>4, <3>5, <3>6
  <2>6. s \in Seq(Z)
    <3>1. \A j \in 1 .. i - 1 : j \in 1 .. n /\ ~(i <= j)
      BY <2>3
    <3>2. \A j \in 1 .. i - 1 : s[j] \in Z
      BY <1>4, <2>2, <2>5, <3>1
    <3> QED
      BY <2>3, <2>5, <3>2
  <2>7. Expand(Refining(sy), s) = s
    BY <1>6, <2>6, Zenon
  <2>8. Expand(Refining(sy), s \o r) = Expand(Refining(sy), s) \o Expand(Refining(sy), r)
    <3>1. s \in Seq(Toks) /\ r \in Seq(Toks)
      BY <2>5
    <3> QED
      BY <1>5, <3>1, ExpandConcat
  <2>9. Retokenized(s, r, sy) = s \o Expand(Refining(sy), r)
    BY <2>5, RetokExpands, Zenon DEF Refined
  <2> QED
    BY <1>8, <1>10, <2>1, <2>4, <2>5, <2>7, <2>8, <2>9, Zenon
<1> QED
  BY <1>9, <1>10

\* The tokens of a split are steady, for any further symbols: they have no space.
LEMMA ExactIsSteady ==
    ASSUME NEW sy, NEW sz \in SUBSET Nat
    PROVE  Exact(sy) \subseteq Steady(sz)
<1> SUFFICES ASSUME NEW t \in Exact(sy), t.kind = "impure", ~tokenNeedsSplit(t.slice, sz)
             PROVE  Refining(sz)[t] = <<t>>
  BY Zenon DEF Steady, Exact
<1>1. /\ t \in Toks /\ t.slice # <<>>
      /\ \/ \E c \in Nat : Boundary(c, sy) /\ t = BoundaryToken(c)
         \/ t.slice \in Seq(Kept(sy)) /\ t = tokenWith(t.slice)
  BY Zenon DEF Exact
<1>2. t.slice \in Seq(Kept(sy)) /\ t = tokenWith(t.slice)
  <2>1. \A c \in Nat : BoundaryToken(c).kind # "impure"
    BY DEF BoundaryToken, Tok
  <2> QED
    BY <1>1, <2>1
<1>3. PICK s : s = t.slice
  OBVIOUS
<1>4. /\ Len(s) \in Nat /\ DOMAIN s = 1 .. Len(s)
      /\ \A i \in 1 .. Len(s) : s[i] \in Kept(sy) /\ s[i] \in ToSet(s)
  BY <1>2, <1>3 DEF ToSet
<1>5. ASSUME NEW i \in 1 .. Len(s)
      PROVE  s[i] \in Kept(sz)
  <2>1. s[i] \in Nat /\ ~IsSpace(s[i])
    BY <1>4, Zenon DEF Kept, Boundary
  <2>2. ~isSymbolRune(s[i], sz)
    BY <1>3, <1>4, Zenon DEF tokenNeedsSplit
  <2> QED
    BY <2>1, <2>2, Zenon DEF Kept, Boundary
<1>6. s \in Seq(Kept(sz))
  <2>1. s \in [1 .. Len(s) -> Kept(sz)]
    BY <1>2, <1>3, <1>5
  <2> QED
    BY <1>4, <2>1, FunctionIsSeq
<1>7. Cut(s, sz) = <<t>>
  BY <1>1, <1>2, <1>3, <1>6, CutKept
<1> QED
  BY <1>1, <1>3, <1>7, Zenon DEF Refining

-----------------------------------------------------------------------------
\* Letters and digits are no punctuation.
LEMMA NamedIsKept ==
    ASSUME NEW sy, NEW s \in Seq(Kept(sy)), tokenWith(s).kind # "impure"
    PROVE  s \in Seq(Kept(Punctuation))
<1>1. /\ Len(s) \in Nat /\ DOMAIN s = 1 .. Len(s)
      /\ \A i \in 1 .. Len(s) : s[i] \in Kept(sy) /\ s[i] \in ToSet(s)
  BY DEF ToSet
<1>2. \/ \A c \in ToSet(s) : IsLetter(c)
      \/ \A c \in ToSet(s) : IsDigit(c)
  BY DEF tokenWith, Tok
<1>3. ASSUME NEW i \in 1 .. Len(s)
      PROVE  s[i] \in Kept(Punctuation)
  <2>1. PICK c \in Nat : c = s[i] /\ ~IsSpace(c) /\ (IsLetter(c) \/ IsDigit(c))
    BY <1>1, <1>2, Zenon DEF Kept, Boundary
  <2>2. c \notin Punctuation
    <3> SUFFICES ASSUME c \in Punctuation
                 PROVE  FALSE
      OBVIOUS
    <3>1. c \in (33 .. 47) \cup (58 .. 64) \cup (91 .. 96) \cup (123 .. 126)
      BY TokenizerAssumption
    <3>2. c < 128 /\ ~asciiLetter(c) /\ ~asciiDigit(c)
      BY <3>1 DEF asciiLetter, asciiDigit
    <3>3. c \notin UniLetters /\ c \notin UniDigits
      BY <3>2, TokenizerAssumption
    <3> QED
      BY <2>1, <3>2, <3>3, Zenon DEF IsLetter, IsDigit
  <2> QED
    BY <2>1, <2>2, Zenon DEF Kept, Boundary, isSymbolRune
<1>4. s \in [1 .. Len(s) -> Kept(Punctuation)]
  BY <1>1, <1>3
<1> QED
  BY <1>1, <1>4, FunctionIsSeq

LEMMA PunctuationIsNat == Punctuation \in SUBSET Nat
  BY TokenizerAssumption

LEMMA RefinesOne ==
    ASSUME NEW o \in Seq(Toks), NEW x \in Toks
    PROVE  /\ Expand(Refining(Punctuation), o) \in Seq(Toks)
           /\ Expand(Refining(Punctuation), Append(o, x))
                  = Expand(Refining(Punctuation), o) \o Refining(Punctuation)[x]
<1>1. PICK m : m = Refining(Punctuation)
  OBVIOUS
<1>2. Maps(m, Toks, Toks)
  BY <1>1, PunctuationIsNat, RefiningMaps
<1>3. Expand(m, o) \in Seq(Toks) /\ Expand(m, Append(o, x)) = Expand(m, o) \o m[x]
  BY <1>2, ExpandNext
<1> QED
  BY <1>1, <1>3, Zenon

\* What is made of the tokens so far, the open segment's among them.
LEMMA RefinesFlushed ==
    ASSUME NEW sy, NEW a \in ScanStates, a.seg \in Seq(Kept(sy)), NEW e, NEW m,
           m = Refining(Punctuation), e = Expand(m, a.out)
    PROVE  e \in Seq(Toks) /\ Expand(m, Flushed(a)) = e \o Cut(a.seg, Punctuation)
<1>2. PICK o \in Seq(Toks) : o = a.out
  BY DEF ScanStates
<1>3. PICK g \in Seq(Nat) : g = a.seg
  BY DEF ScanStates
<1>4. PICK x \in Toks : x = tokenWith(g)
  BY <1>3, TokensAreToks
<1>5. Expand(m, o) \in Seq(Toks) /\ Expand(m, Append(o, x)) = Expand(m, o) \o m[x]
  BY RefinesOne, Zenon
<1>6. CASE g = <<>>
  <2>1. <<>> \in Seq(Kept(Punctuation))
    OBVIOUS
  <2>2. Cut(<<>>, Punctuation) = <<>>
    BY <2>1, CutKept
  <2>3. Flushed(a) = o
    BY <1>2, <1>3, <1>6 DEF Flushed
  <2>4. e \o <<>> = e
    BY <1>2, <1>5
  <2> QED
    BY <1>2, <1>3, <1>5, <1>6, <2>2, <2>3, <2>4, Zenon
<1>7. CASE g # <<>>
  <2>1. Flushed(a) = Append(o, x)
    BY <1>2, <1>3, <1>4, <1>7 DEF Flushed
  <2>2. m[x] = Cut(g, Punctuation)
    <3>1. x.slice = g
      BY <1>4 DEF tokenWith, Tok
    <3>2. CASE x.kind = "impure"
      BY <3>1, <3>2, Zenon DEF Refining
    <3>3. CASE x.kind # "impure"
      <4>1. m[x] = <<x>>
        BY <3>3, Zenon DEF Refining
      <4>2. g \in Seq(Kept(Punctuation))
        BY <1>3, <1>4, <3>3, NamedIsKept
      <4>3. Cut(g, Punctuation) = <<x>>
        BY <1>4, <1>7, <4>2, CutKept
      <4> QED
        BY <4>1, <4>3
    <3> QED
      BY <3>2, <3>3
  <2> QED
    BY <1>2, <1>3, <1>5, <2>1, <2>2, Zenon
<1> QED
  BY <1>6, <1>7

\* The loop for all punctuation is where the loop for fewer symbols would be had
\* it taken its tokens apart, and gone on from there.
Follows(t, sy) ==
    LET a == Scanned(<<>>, t, sy)
    IN  Scanned(<<>>, t, Punctuation) =
            Scanned(Expand(Refining(Punctuation), a.out), a.seg, Punctuation)

LEMMA FollowsFlushed ==
    ASSUME NEW sy, NEW t \in Seq(Nat), Follows(t, sy)
    PROVE  Cut(t, Punctuation) = Expand(Refining(Punctuation), Cut(t, sy))
<1>1. PICK a \in ScanStates : a = Scanned(<<>>, t, sy)
  BY ScanNext, <<>> \in Seq(Toks), 0 \in Nat
<1>2. a.seg \in Seq(Kept(sy)) /\ a.seg \in Seq(Nat)
  BY <1>1, ScanSound DEF ScanInv, ScanStates
<1>3. PICK m, e : m = Refining(Punctuation) /\ e = Expand(m, a.out)
  OBVIOUS
<1>4. e \in Seq(Toks) /\ Expand(m, Flushed(a)) = e \o Cut(a.seg, Punctuation)
  BY <1>2, <1>3, RefinesFlushed
<1>5. Scanned(<<>>, t, Punctuation) = Scanned(e, a.seg, Punctuation)
  BY <1>1, <1>3, Zenon DEF Follows
<1>6. Flushed(Scanned(e, a.seg, Punctuation)) = e \o Cut(a.seg, Punctuation)
  BY <1>2, <1>4, ScalarIsScanned, ScalarIsCut
<1> QED
  BY <1>1, <1>3, <1>4, <1>5, <1>6, Zenon DEF Cut

LEMMA FollowsNext ==
    ASSUME NEW sy, sy \subseteq Punctuation, NEW t \in Seq(Nat), NEW c \in Nat, Follows(t, sy)
    PROVE  Follows(Append(t, c), sy)
<1>0. <<>> \in Seq(Toks) /\ <<>> \in Seq(Nat)
  OBVIOUS
<1>1. PICK a \in ScanStates : a = Scanned(<<>>, t, sy)
  BY <1>0, ScanNext
<1>2. a.seg \in Seq(Kept(sy)) /\ a.seg \in Seq(Nat) /\ a.out \in Seq(Toks)
  BY <1>1, ScanSound DEF ScanInv, ScanStates
<1>3. PICK m, e : m = Refining(Punctuation) /\ e = Expand(m, a.out)
  OBVIOUS
<1>4. e \in Seq(Toks) /\ Expand(m, Flushed(a)) = e \o Cut(a.seg, Punctuation)
  BY <1>2, <1>3, RefinesFlushed
<1>5. PICK b : b = Scanned(<<>>, t, Punctuation)
  OBVIOUS
<1>6. b = Scanned(e, a.seg, Punctuation)
  BY <1>1, <1>3, <1>5, Zenon DEF Follows
<1>7. PICK w : w = Append(t, c)
  OBVIOUS
<1>8. /\ Scanned(<<>>, w, sy) = Scan(a, c, sy)
      /\ Scanned(<<>>, w, Punctuation) = Scan(b, c, Punctuation)
  BY <1>0, <1>1, <1>5, <1>7, ScanNext
<1>9. CASE Boundary(c, sy)
  <2>1. Boundary(c, Punctuation)
    BY <1>9, Zenon DEF Boundary, isSymbolRune
  <2>2. PICK x \in Toks : /\ x = BoundaryToken(c)
                          /\ x.kind # "impure"
    BY TokensAreToks DEF BoundaryToken, Tok
  <2>3. PICK o \in Seq(Toks) : o = Flushed(a)
    BY ScanStays, 0 \in Nat
  <2>4. Scan(a, c, sy) = [seg |-> <<>>, out |-> Append(o, x)]
    BY <1>9, <2>2, <2>3, Zenon DEF Scan
  <2>5. PICK z : z = Expand(m, Append(o, x))
    OBVIOUS
  <2>6. z = Append(Expand(m, o), x) /\ z \in Seq(Toks)
    <3>1. Maps(m, Toks, Toks)
      BY <1>3, PunctuationIsNat, RefiningMaps
    <3>2. Expand(m, o) \in Seq(Toks) /\ Expand(m, Append(o, x)) = Expand(m, o) \o m[x]
      BY <3>1, ExpandNext
    <3>3. m[x] = <<x>>
      BY <1>3, <2>2, Zenon DEF Refining
    <3>4. PICK p \in Seq(Toks) : p = Expand(m, o)
      BY <3>2
    <3>5. p \o <<x>> = Append(p, x) /\ Append(p, x) \in Seq(Toks)
      OBVIOUS
    <3> QED
      BY <2>5, <3>2, <3>3, <3>4, <3>5, Zenon
  <2>7. Flushed(b) = Expand(m, o)
    <3>1. Flushed(Scanned(e, a.seg, Punctuation)) = e \o Cut(a.seg, Punctuation)
      BY <1>2, <1>4, ScalarIsScanned, ScalarIsCut
    <3> QED
      BY <1>4, <1>6, <2>3, <3>1, Zenon
  <2>8. Scan(b, c, Punctuation) = [seg |-> <<>>, out |-> z]
    BY <2>1, <2>2, <2>6, <2>7, Zenon DEF Scan
  <2>9. Scanned(z, <<>>, Punctuation) = [seg |-> <<>>, out |-> z]
    <3>1. Scanned(z, <<>>, Punctuation) = ScanStart(z)
      BY <1>0, <2>6, ScanNext
    <3> QED
      BY <3>1 DEF ScanStart
  <2>10. PICK d : d = Scan(a, c, sy)
    OBVIOUS
  <2>11. d.seg = <<>> /\ d.out = Append(o, x)
    BY <2>4, <2>10
  <2> QED
    BY <1>3, <1>7, <1>8, <2>5, <2>8, <2>9, <2>10, <2>11, Zenon DEF Follows
<1>10. CASE ~Boundary(c, sy)
  <2>1. PICK d : d = Scan(a, c, sy)
    OBVIOUS
  <2>2. d.seg = Append(a.seg, c) /\ d.out = a.out
    BY <1>10, <2>1 DEF Scan, ScanStates
  <2>3. Scanned(e, Append(a.seg, c), Punctuation) = Scan(Scanned(e, a.seg, Punctuation), c, Punctuation)
    BY <1>2, <1>4, ScanNext
  <2> QED
    BY <1>3, <1>6, <1>7, <1>8, <2>1, <2>2, <2>3, Zenon DEF Follows
<1> QED
  BY <1>9, <1>10

LEMMA CutRefines ==
    ASSUME NEW sy, sy \subseteq Punctuation
    PROVE  \A t \in Seq(Nat) : Cut(t, Punctuation) = Expand(Refining(Punctuation), Cut(t, sy))
<1> DEFINE G == {t \in Seq(Nat) : Follows(t, sy)}
<1>1. <<>> \in G
  <2>1. <<>> \in Seq(Toks) /\ <<>> \in Seq(Nat) /\ 0 \in Nat
    OBVIOUS
  <2>2. PICK a : a = Scanned(<<>>, <<>>, sy)
    OBVIOUS
  <2>3. a.seg = <<>> /\ a.out = <<>>
    <3>1. Scanned(<<>>, <<>>, sy) = ScanStart(<<>>)
      BY <2>1, ScanNext
    <3> QED
      BY <2>2, <3>1 DEF ScanStart
  <2>4. Expand(Refining(Punctuation), a.out) = <<>>
    BY <2>3, ExpandEmpty
  <2> QED
    BY <2>1, <2>2, <2>3, <2>4, Zenon DEF Follows
<1>2. ASSUME NEW t \in Seq(Nat), NEW c \in Nat, t \in G
      PROVE  Append(t, c) \in G
  <2>1. Follows(Append(t, c), sy)
    BY <1>2, FollowsNext
  <2>2. Append(t, c) \in Seq(Nat)
    OBVIOUS
  <2> QED
    BY <2>1, <2>2
<1> HIDE DEF G
<1>3. \A t \in Seq(Nat) : t \in G
  BY <1>1, <1>2, SeqOneByOne, Zenon
<1> QED
  BY <1>3, FollowsFlushed DEF G

-----------------------------------------------------------------------------
\* A line made of pre-tokens: what the matchers claimed, and the rest cut.
Line(p, sy) == Expand(Laying(sy), p)
Claimed == {t \in Toks : t.kind \in Special /\ t.slice # <<>>}
FullPreToks == {p \in PreToks : p.kind \in Special => p.slice # <<>>}
LineToks(sy) == Exact(sy) \cup Claimed

LEMMA LineNext ==
    ASSUME NEW sy \in SUBSET Nat, NEW p \in Seq(PreToks), NEW x \in PreToks
    PROVE  /\ Line(<<>>, sy) = <<>>
           /\ Line(p, sy) \in Seq(Toks)
           /\ Line(Append(p, x), sy) = Line(p, sy) \o Laying(sy)[x]
<1>1. PICK m : m = Laying(sy)
  OBVIOUS
<1>2. Maps(m, PreToks, Toks)
  BY <1>1, LayingMaps
<1>3. Expand(m, p) \in Seq(Toks) /\ Expand(m, Append(p, x)) = Expand(m, p) \o m[x]
  BY <1>2, ExpandNext
<1>4. Expand(m, <<>>) = <<>>
  BY ExpandEmpty
<1> QED
  BY <1>1, <1>3, <1>4, Zenon DEF Line

\* TokensWith makes the line of the pre-tokens there are.
LEMMA TokensAreLine ==
    ASSUME NEW sy \in SUBSET Nat, pre \in Seq(PreToks)
    PROVE  TokensWith(sy) = Line(pre, sy) /\ Line(pre, sy) \in Seq(Toks)
<1>1. <<>> \in Seq(Toks)
  OBVIOUS
<1>2. LaidOut(<<>>, pre, sy)
  BY <1>1, LayExpands
<1>3. PICK l \in Seq(Toks) : l = Line(pre, sy)
  <2>1. \A p \in Seq(PreToks) : Line(p, sy) \in Seq(Toks)
    BY LineNext, PreTokFacts
  <2> QED
    BY <2>1
<1>4. <<>> \o l = l
  OBVIOUS
<1> QED
  BY <1>2, <1>3, <1>4, TokensIsLaid, Zenon DEF LaidOut, Line

\* A line spells its pre-tokens, its tokens are exact, and it has no two segments
\* side by side if no two unrefined pre-tokens are.
Spelled(p, sy) ==
    /\ Line(p, sy) \in Seq(LineToks(sy))
    /\ Text(Line(p, sy)) = Text(p)
    /\ Spaced(p, {"unrefined"}) =>
          /\ Spaced(Line(p, sy), InnerKinds)
          /\ Closed(p, {"unrefined"}) => Closed(Line(p, sy), InnerKinds)

LEMMA SpelledNext ==
    ASSUME NEW sy \in SUBSET Nat, NEW p \in Seq(FullPreToks), NEW x \in FullPreToks, Spelled(p, sy)
    PROVE  Spelled(Append(p, x), sy)
<1>1. /\ p \in Seq(PreToks) /\ x \in PreToks /\ p \in Seq(AllToks) /\ x \in AllToks
      /\ Append(p, x) \in Seq(FullPreToks)
  <2>1. FullPreToks \subseteq PreToks /\ FullPreToks \subseteq AllToks
    BY PreTokFacts DEF FullPreToks
  <2> QED
    BY <2>1, SeqLarger
<1>2. PICK l \in Seq(LineToks(sy)) : l = Line(p, sy)
  BY DEF Spelled
<1>3. l \in Seq(Toks) /\ l \in Seq(AllToks)
  <2>1. l \in Seq(Toks)
    BY <1>1, <1>2, LineNext
  <2> QED
    BY <2>1, TextIsExpand, SeqLarger
<1>4. PICK w : w = Line(Append(p, x), sy)
  OBVIOUS
<1>5. Text(Append(p, x)) = Text(p) \o x.slice
  BY <1>1, TextFacts, Zenon
<1>6. Spaced(Append(p, x), {"unrefined"}) =>
          /\ Spaced(p, {"unrefined"})
          /\ x.kind = "unrefined" => Closed(p, {"unrefined"})
  <2> SUFFICES ASSUME Spaced(Append(p, x), {"unrefined"})
               PROVE  /\ Spaced(p, {"unrefined"})
                      /\ x.kind = "unrefined" => Closed(p, {"unrefined"})
    OBVIOUS
  <2>1. /\ Len(Append(p, x)) = Len(p) + 1 /\ Len(p) \in Nat
        /\ \A j \in 1 .. Len(p) : Append(p, x)[j] = p[j]
        /\ Append(p, x)[Len(p) + 1] = x
        /\ p # <<>> => Len(p) >= 1
    BY <1>1
  <2>2. PICK q : q = Append(p, x)
    OBVIOUS
  <2>3. \A j \in 1 .. Len(p) : ~(q[j].kind = "unrefined" /\ q[j + 1].kind = "unrefined")
    BY <2>1, <2>2 DEF Spaced
  <2>4. Spaced(p, {"unrefined"})
    BY <2>1, <2>2, <2>3 DEF Spaced
  <2>5. x.kind = "unrefined" => Closed(p, {"unrefined"})
    BY <2>1, <2>2, <2>3 DEF Closed
  <2> QED
    BY <2>4, <2>5
<1>7. CASE x.kind \in Special
  <2>1. w = Append(l, x)
    <3>1. w = l \o Laying(sy)[x]
      BY <1>1, <1>2, <1>4, LineNext
    <3>2. Laying(sy)[x] = <<x>>
      BY <1>1, <1>7, Zenon DEF Laying
    <3>3. l \o <<x>> = Append(l, x)
      BY <1>1
    <3> QED
      BY <3>1, <3>2, <3>3
  <2>2. x \in LineToks(sy) /\ x.kind \notin InnerKinds /\ x.kind # "unrefined"
    <3>1. x \in Toks
      BY <1>1, <1>7, PreTokFacts
    <3>2. x.slice # <<>>
      BY <1>7 DEF FullPreToks
    <3> QED
      BY <1>7, <3>1, <3>2 DEF LineToks, Claimed, InnerKinds, Special
  <2>3. w \in Seq(LineToks(sy))
    BY <2>1, <2>2
  <2>4. Text(w) = Text(Append(p, x))
    <3>1. Text(w) = Text(l) \o x.slice
      BY <1>1, <1>3, <2>1, TextFacts, Zenon
    <3> QED
      BY <1>2, <1>5, <3>1, Zenon DEF Spelled
  <2>5. Spaced(l, InnerKinds) => Spaced(w, InnerKinds) /\ Closed(w, InnerKinds)
    BY <1>1, <1>3, <2>1, <2>2, SpacedAppend
  <2> QED
    BY <1>2, <1>4, <1>6, <2>3, <2>4, <2>5, Zenon DEF Spelled
<1>8. CASE x.kind \notin Special
  <2>1. x.kind = "unrefined" /\ x.slice \in Seq(Nat)
    BY <1>1, <1>8, PreTokFacts DEF PreToks
  <2>2. PICK c : c = Cut(x.slice, sy)
    OBVIOUS
  <2>3. /\ c \in Seq(Exact(sy)) /\ c \in Seq(AllToks)
        /\ Text(c) = x.slice
        /\ Spaced(c, InnerKinds)
    BY <2>1, <2>2, CutSound
  <2>4. w = l \o c
    <3>1. w = l \o Laying(sy)[x]
      BY <1>1, <1>2, <1>4, LineNext
    <3>2. Laying(sy)[x] = c
      BY <1>1, <1>8, <2>2, Zenon DEF Laying
    <3> QED
      BY <3>1, <3>2
  <2>5. w \in Seq(LineToks(sy))
    <3>1. c \in Seq(LineToks(sy))
      BY <2>3, SeqLarger DEF LineToks
    <3> QED
      BY <2>4, <3>1
  <2>6. Text(w) = Text(Append(p, x))
    <3>1. Text(w) = Text(l) \o Text(c)
      BY <1>3, <2>3, <2>4, TextFacts, Zenon
    <3> QED
      BY <1>2, <1>5, <2>3, <3>1, Zenon DEF Spelled
  <2>7. Spaced(l, InnerKinds) /\ Closed(l, InnerKinds) => Spaced(w, InnerKinds)
    BY <1>3, <2>3, <2>4, SpacedConcat
  <2>8. ~Closed(Append(p, x), {"unrefined"})
    <3>1. \A q \in Seq(PreToks) : /\ Len(Append(q, x)) = Len(q) + 1
                                  /\ Append(q, x)[Len(q) + 1] = x
                                  /\ Append(q, x) # <<>>
      BY <1>1
    <3> QED
      BY <1>1, <2>1, <3>1 DEF Closed
  <2> QED
    BY <1>2, <1>4, <1>6, <2>1, <2>5, <2>6, <2>7, <2>8, Zenon DEF Spelled
<1> QED
  BY <1>7, <1>8

LEMMA LineIsSpelled ==
    ASSUME NEW sy \in SUBSET Nat
    PROVE  \A p \in Seq(FullPreToks) : Spelled(p, sy)
<1> DEFINE G == {p \in Seq(FullPreToks) : Spelled(p, sy)}
<1>1. <<>> \in G
  <2>1. Line(<<>>, sy) = <<>>
    BY ExpandEmpty, Zenon DEF Line
  <2>2. <<>> \in Seq(LineToks(sy)) /\ <<>> \in Seq(FullPreToks)
    OBVIOUS
  <2>3. Spaced(<<>>, InnerKinds) /\ Closed(<<>>, InnerKinds)
    BY DEF Spaced, Closed
  <2> QED
    BY <2>1, <2>2, <2>3 DEF Spelled
<1>2. ASSUME NEW p \in Seq(FullPreToks), NEW x \in FullPreToks, p \in G
      PROVE  Append(p, x) \in G
  <2>1. Append(p, x) \in Seq(FullPreToks)
    OBVIOUS
  <2> QED
    BY <1>2, <2>1, SpelledNext
<1> HIDE DEF G
<1>3. \A p \in Seq(FullPreToks) : p \in G
  BY <1>1, <1>2, SeqOneByOne, Zenon
<1> QED
  BY <1>3, Zenon DEF G

LEMMA LineIsSteady ==
    ASSUME NEW sy, NEW sz \in SUBSET Nat
    PROVE  LineToks(sy) \subseteq Steady(sz) /\ LineToks(sy) \subseteq Toks
<1>1. Claimed \subseteq Steady(sz)
  BY DEF Claimed, Steady, Special
<1>2. Exact(sy) \subseteq Steady(sz) /\ Exact(sy) \subseteq Toks
  BY ExactIsSteady DEF Exact
<1> QED
  BY <1>1, <1>2 DEF LineToks, Claimed

\* The tokens of a line, refined, are those of the line cut at all punctuation.
Relays(p, sy) == Expand(Refining(Punctuation), Line(p, sy)) = Line(p, Punctuation)

LEMMA RelaysNext ==
    ASSUME NEW sy, sy \subseteq Punctuation, NEW p \in Seq(PreToks), NEW x \in PreToks,
           Relays(p, sy)
    PROVE  Relays(Append(p, x), sy)
<1>1. sy \in SUBSET Nat /\ Punctuation \in SUBSET Nat
  BY PunctuationIsNat
<1>2. PICK l \in Seq(Toks) : l = Line(p, sy)
  BY <1>1, LineNext
<1>3. PICK c : c = Laying(sy)[x]
  OBVIOUS
<1>4. c \in Seq(Toks)
  <2>1. Laying(sy) \in [PreToks -> Seq(Toks)]
    BY <1>1, LayingMaps, Zenon DEF Maps
  <2> QED
    BY <1>3, <2>1
<1>5. Line(Append(p, x), sy) = l \o c
  BY <1>1, <1>2, <1>3, LineNext
<1>6. Line(Append(p, x), Punctuation) = Line(p, Punctuation) \o Laying(Punctuation)[x]
  BY <1>1, LineNext
<1>7. Expand(Refining(Punctuation), l \o c)
          = Expand(Refining(Punctuation), l) \o Expand(Refining(Punctuation), c)
  <2>1. PICK m : m = Refining(Punctuation)
    OBVIOUS
  <2>2. Maps(m, Toks, Toks)
    BY <1>1, <2>1, RefiningMaps
  <2>3. Toks # {}
    BY TokensAreToks, <<>> \in Seq(Nat)
  <2>4. \A a, b \in Seq(Toks) : Expand(m, a \o b) = Expand(m, a) \o Expand(m, b)
    BY <2>2, <2>3, ExpandConcat
  <2> QED
    BY <1>2, <1>4, <2>1, <2>4, Zenon
<1>8. Expand(Refining(Punctuation), c) = Laying(Punctuation)[x]
  <2>1. CASE x.kind \in Special
    <3>1. c = <<x>> /\ Laying(Punctuation)[x] = <<x>>
      BY <1>3, <2>1, Zenon DEF Laying
    <3>2. x \in Toks /\ x.kind # "impure"
      BY <2>1, PreTokFacts DEF Special
    <3>3. Refining(Punctuation)[x] = <<x>>
      BY <3>2, Zenon DEF Refining
    <3>4. Expand(Refining(Punctuation), Append(<<>>, x))
            = Expand(Refining(Punctuation), <<>>) \o Refining(Punctuation)[x]
      <4>1. <<>> \in Seq(Toks)
        OBVIOUS
      <4> QED
        BY <3>2, <4>1, RefinesOne, Zenon
    <3>5. Append(<<>>, x) = <<x>> /\ <<>> \o <<x>> = <<x>>
      OBVIOUS
    <3>6. Expand(Refining(Punctuation), <<>>) = <<>>
      BY ExpandEmpty
    <3> QED
      BY <3>1, <3>3, <3>4, <3>5, <3>6, Zenon
  <2>2. CASE x.kind \notin Special
    <3>1. c = Cut(x.slice, sy) /\ Laying(Punctuation)[x] = Cut(x.slice, Punctuation)
      BY <1>3, <2>2, Zenon DEF Laying
    <3>2. x.slice \in Seq(Nat)
      BY PreTokFacts
    <3> QED
      BY <3>1, <3>2, CutRefines, Zenon
  <2> QED
    BY <2>1, <2>2
<1> QED
  BY <1>2, <1>5, <1>6, <1>7, <1>8, Zenon DEF Relays

LEMMA LineRelays ==
    ASSUME NEW sy, sy \subseteq Punctuation
    PROVE  \A p \in Seq(PreToks) : Relays(p, sy)
<1> DEFINE G == {p \in Seq(PreToks) : Relays(p, sy)}
<1>1. <<>> \in G
  <2>1. Line(<<>>, sy) = <<>> /\ Line(<<>>, Punctuation) = <<>>
    BY ExpandEmpty, Zenon DEF Line
  <2>2. Expand(Refining(Punctuation), <<>>) = <<>>
    BY ExpandEmpty
  <2>3. <<>> \in Seq(PreToks)
    OBVIOUS
  <2> QED
    BY <2>1, <2>2, <2>3, Zenon DEF Relays
<1>2. ASSUME NEW p \in Seq(PreToks), NEW x \in PreToks, p \in G
      PROVE  Append(p, x) \in G
  <2>1. Append(p, x) \in Seq(PreToks)
    OBVIOUS
  <2> QED
    BY <1>2, <2>1, RelaysNext
<1> HIDE DEF G
<1>3. \A p \in Seq(PreToks) : p \in G
  BY <1>1, <1>2, SeqOneByOne, Zenon
<1> QED
  BY <1>3, Zenon DEF G

\* So the shortcut retokenizes exactly.
LEMMA LineRetokenized ==
    ASSUME NEW sy, sy \subseteq Punctuation, NEW p \in Seq(FullPreToks)
    PROVE  retokenizeTokensWithSymbolsInto(Line(p, sy), Punctuation) = Line(p, Punctuation)
<1>1. sy \in SUBSET Nat /\ Punctuation \in SUBSET Nat
  BY PunctuationIsNat
<1>2. PICK l \in Seq(LineToks(sy)) : l = Line(p, sy)
  BY <1>1, LineIsSpelled DEF Spelled
<1>3. l \in Seq(Steady(Punctuation))
  BY <1>1, <1>2, LineIsSteady, SeqLarger
<1>4. retokenizeTokensWithSymbolsInto(l, Punctuation) = Expand(Refining(Punctuation), l)
  BY <1>1, <1>3, RetokenizeExpands
<1>5. Relays(p, sy)
  <2>1. FullPreToks \subseteq PreToks
    BY DEF FullPreToks
  <2>2. p \in Seq(PreToks)
    BY <2>1, SeqLarger
  <2> QED
    BY <2>2, LineRelays
<1> QED
  BY <1>2, <1>4, <1>5, Zenon DEF Relays

-----------------------------------------------------------------------------
\* The matchers, and what they find.
Matchers == [kind : Special, word : Seq(Nat), class : SUBSET Nat, least : Nat, anchored : BOOLEAN]
Occurs(w, s) == \E i \in 0 .. Len(s) - Len(w) : SubSeq(s, i + 1, i + Len(w)) = w

LEMMA SetupFacts ==
    ASSUME NEW su \in Setups
    PROVE  /\ su.matchers \in Seq(Matchers) /\ su.symbols \in SUBSET Nat
           /\ \A j \in DOMAIN su.matchers : su.matchers[j].word # <<>> => ~su.matchers[j].anchored
  BY TokenizerAssumption DEF Matchers

\* A piece of a piece is a piece.
LEMMA PieceOfPiece ==
    ASSUME NEW S, NEW t \in Seq(S), NEW i \in 0 .. Len(t), NEW k \in i .. Len(t),
           NEW a \in 0 .. k - i, NEW b \in a .. k - i
    PROVE  /\ SubSeq(SubSeq(t, i + 1, k), a + 1, b) = SubSeq(t, i + a + 1, i + b)
           /\ SubSeq(t, i + 1, k) \in Seq(S) /\ Len(SubSeq(t, i + 1, k)) = k - i
<1>1. PICK u : u = SubSeq(t, i + 1, k)
  OBVIOUS
<1>2. u \in Seq(S) /\ Len(u) = k - i /\ \A l \in 1 .. k - i : u[l] = t[i + l]
  BY <1>1, PiecesJoin
<1>3. PICK v : v = SubSeq(u, a + 1, b)
  OBVIOUS
<1>4. v \in Seq(S) /\ Len(v) = b - a /\ \A l \in 1 .. b - a : v[l] = u[a + l]
  BY <1>2, <1>3, PiecesJoin
<1>5. PICK x, y \in Nat : x = i + a /\ y = i + b /\ x <= y /\ y <= Len(t) /\ y - x = b - a
  OBVIOUS
<1>6. PICK w : w = SubSeq(t, x + 1, y)
  OBVIOUS
<1>7. w \in Seq(S) /\ Len(w) = b - a /\ \A l \in 1 .. b - a : w[l] = t[x + l]
  BY <1>5, <1>6, PiecesJoin
<1>8. \A l \in 1 .. b - a : v[l] = w[l]
  BY <1>2, <1>4, <1>5, <1>7
<1>9. v = w
  <2>1. PICK n \in Nat : n = b - a
    OBVIOUS
  <2>2. v \in [1 .. n -> S] /\ w \in [1 .. n -> S] /\ \A l \in 1 .. n : v[l] = w[l]
    BY <1>4, <1>7, <1>8, <2>1, SeqIsFunction
  <2> QED
    BY <2>2
<1> QED
  BY <1>1, <1>2, <1>3, <1>5, <1>6, <1>9

\* A text without a word has no piece with it.
LEMMA OccursInside ==
    ASSUME NEW t \in Seq(Nat), NEW i \in 0 .. Len(t), NEW k \in i .. Len(t), NEW w \in Seq(Nat),
           Occurs(w, SubSeq(t, i + 1, k))
    PROVE  \E a \in i .. k - Len(w) : SubSeq(t, a + 1, a + Len(w)) = w
<1>1. /\ Len(SubSeq(t, i + 1, k)) = k - i
      /\ \A a \in 0 .. k - i, b \in 0 .. k - i :
            a <= b => SubSeq(SubSeq(t, i + 1, k), a + 1, b) = SubSeq(t, i + a + 1, i + b)
  <2>1. Len(SubSeq(t, i + 1, k)) = k - i
    BY PiecesJoin
  <2>2. ASSUME NEW a \in 0 .. k - i, NEW b \in 0 .. k - i, a <= b
        PROVE  SubSeq(SubSeq(t, i + 1, k), a + 1, b) = SubSeq(t, i + a + 1, i + b)
    BY <2>2, PieceOfPiece
  <2> QED
    BY <2>1, <2>2
<1>2. PICK n \in Nat : n = Len(w)
  OBVIOUS
<1>3. PICK u : u = SubSeq(t, i + 1, k)
  OBVIOUS
<1>4. PICK a \in 0 .. Len(u) - n : SubSeq(u, a + 1, a + n) = w
  BY <1>2, <1>3, Zenon DEF Occurs
<1>5. a \in 0 .. k - i /\ a + n \in 0 .. k - i /\ a <= a + n
  BY <1>1, <1>3, <1>4
<1>6. PICK b : b = a + n
  OBVIOUS
<1>7. SubSeq(t, i + a + 1, i + b) = w
  BY <1>1, <1>3, <1>4, <1>5, <1>6, Zenon
<1>8. i + a \in i .. k - n /\ i + b = i + a + n
  BY <1>5, <1>6
<1> QED
  BY <1>2, <1>7, <1>8

LEMMA FreeInside ==
    ASSUME NEW t \in Seq(Nat), NEW i \in 0 .. Len(t), NEW k \in 0 .. Len(t), i <= k,
           NEW w \in Seq(Nat), ~Occurs(w, t)
    PROVE  ~Occurs(w, SubSeq(t, i + 1, k))
<1> SUFFICES ASSUME Occurs(w, SubSeq(t, i + 1, k))
             PROVE  FALSE
  OBVIOUS
<1>1. k \in i .. Len(t)
  OBVIOUS
<1>2. \E a \in i .. k - Len(w) : SubSeq(t, a + 1, a + Len(w)) = w
  BY <1>1, OccursInside
<1>3. PICK a \in i .. k - Len(w) : SubSeq(t, a + 1, a + Len(w)) = w
  BY <1>2
<1>4. a \in 0 .. Len(t) - Len(w)
  BY <1>1
<1> QED
  BY <1>3, <1>4, Zenon DEF Occurs

\* What is found is a match, and none begins before it; and if there is one it
\* is found.
LEMMA FindFacts ==
    ASSUME NEW m \in Matchers, NEW s \in Seq(Nat)
    PROVE  /\ \A p \in Find(m, s) :
                 /\ p \in (0 .. Len(s)) \X (0 .. Len(s)) /\ p[1] <= p[2]
                 /\ Accepts(m, SubSeq(s, p[1] + 1, p[2]))
           /\ ~m.anchored =>
                 \A a, b \in 0 .. Len(s) :
                    a <= b /\ Accepts(m, SubSeq(s, a + 1, b)) =>
                        /\ \A p \in Find(m, s) : p[1] <= a
                        /\ Find(m, s) # {}
<1> DEFINE found == {p \in (0 .. Len(s)) \X (0 .. Len(s)) :
                       /\ p[1] <= p[2]
                       /\ m.anchored => p[1] = 0
                       /\ Accepts(m, SubSeq(s, p[1] + 1, p[2]))}
           First(p) == \A q \in found : p[1] < q[1] \/ (p[1] = q[1] /\ p[2] >= q[2])
<1>1. Find(m, s) = {p \in found : First(p)}
  BY DEF Find
<1>2. \A p \in found : /\ p \in (0 .. Len(s)) \X (0 .. Len(s)) /\ p[1] <= p[2]
                       /\ Accepts(m, SubSeq(s, p[1] + 1, p[2]))
  OBVIOUS
<1>3. ASSUME ~m.anchored, NEW a \in 0 .. Len(s), NEW b \in 0 .. Len(s),
             a <= b, Accepts(m, SubSeq(s, a + 1, b))
      PROVE  <<a, b>> \in found
  BY <1>3
<1> HIDE DEF found
<1>4. ASSUME found # {}
      PROVE  \E p \in found : First(p)
  <2>1. PICK S : S = {q[1] : q \in found}
    OBVIOUS
  <2>2. S \in SUBSET Nat /\ S # {}
    BY <1>2, <1>4, <2>1
  <2>3. PICK i \in S : \A j \in S : i <= j
    BY <2>2, LeastNat, Zenon
  <2>4. PICK p0 \in found : p0[1] = i
    BY <2>1
  <2>5. PICK T : T = {Len(s) - q[2] : q \in {r \in found : r[1] = i}}
    OBVIOUS
  <2>6. T \in SUBSET Nat /\ T # {}
    BY <1>2, <2>4, <2>5
  <2>7. PICK k \in T : \A j \in T : k <= j
    BY <2>6, LeastNat, Zenon
  <2>8. PICK p \in found : p[1] = i /\ k = Len(s) - p[2]
    BY <2>5
  <2>9. ASSUME NEW q \in found
        PROVE  p[1] < q[1] \/ (p[1] = q[1] /\ p[2] >= q[2])
    <3>1. q[1] \in Nat /\ q[2] \in Nat /\ p[1] \in Nat /\ p[2] \in Nat /\ Len(s) \in Nat
      BY <1>2
    <3>2. p[1] <= q[1]
      BY <2>1, <2>3, <2>8
    <3>3. p[1] = q[1] => Len(s) - p[2] <= Len(s) - q[2]
      BY <2>5, <2>7, <2>8
    <3> QED
      BY <3>1, <3>2, <3>3
  <2> QED
    BY <2>9
<1>5. \A p \in found : First(p) => p \in Find(m, s)
  BY <1>1
<1>6. ASSUME ~m.anchored, NEW a \in 0 .. Len(s), NEW b \in 0 .. Len(s),
             a <= b, Accepts(m, SubSeq(s, a + 1, b))
      PROVE  (\A p \in Find(m, s) : p[1] <= a) /\ Find(m, s) # {}
  <2>1. <<a, b>> \in found
    BY <1>3, <1>6
  <2>2. Find(m, s) # {}
    BY <1>4, <1>5, <2>1
  <2>3. ASSUME NEW p \in Find(m, s)
        PROVE  p[1] <= a
    <3>1. p[1] < a \/ p[1] = a
      BY <1>1, <2>1
    <3>2. p[1] \in Nat
      BY <1>1, <1>2
    <3> QED
      BY <3>1, <3>2
  <2> QED
    BY <2>2, <2>3
<1> QED
  BY <1>1, <1>2, <1>6

FoundIn(m, t, l) == {<<l + p[1], l + p[2]>> : p \in Find(m, SubSeq(t, l + 1, Len(t)))}

LEMMA AcceptsSome ==
    ASSUME NEW m \in Matchers, NEW s \in Seq(Nat), Accepts(m, s), ~CanBeEmpty(m)
    PROVE  Len(s) >= 1
<1>1. m.word \in Seq(Nat) /\ m.least \in Nat
  BY DEF Matchers
<1>2. CASE m.word # <<>>
  BY <1>1, <1>2 DEF Accepts
<1>3. CASE m.word = <<>>
  BY <1>1, <1>3 DEF Accepts, CanBeEmpty
<1> QED
  BY <1>2, <1>3

LEMMA FoundFacts ==
    ASSUME NEW m \in Matchers, m.word # <<>> => ~m.anchored,
           NEW t \in Seq(Nat), NEW l \in 0 .. Len(t), NEW p \in FoundIn(m, t, l)
    PROVE  /\ p[1] \in l .. Len(t) /\ p[2] \in p[1] .. Len(t)
           /\ ~CanBeEmpty(m) => p[1] < p[2]
           /\ m.word # <<>> => ~Occurs(m.word, SubSeq(t, l + 1, p[1]))
<1>1. PICK s : s = SubSeq(t, l + 1, Len(t))
  OBVIOUS
<1>2. PICK z \in Nat : z = Len(t) /\ l \in 0 .. z
  OBVIOUS
<1>3. s \in Seq(Nat) /\ Len(s) = z - l
  BY <1>1, <1>2, PiecesJoin
<1>4. PICK q \in Find(m, s) : p = <<l + q[1], l + q[2]>>
  BY <1>1 DEF FoundIn
<1>5. /\ q[1] \in 0 .. Len(s) /\ q[2] \in 0 .. Len(s) /\ q[1] <= q[2]
      /\ Accepts(m, SubSeq(s, q[1] + 1, q[2]))
  BY <1>3, FindFacts
<1>6. PICK x, y \in Nat : x = q[1] /\ y = q[2] /\ x <= y /\ y <= z - l
  BY <1>2, <1>3, <1>5
<1>0. l \in Nat /\ z \in Nat /\ x \in Nat /\ y \in Nat /\ l <= z /\ x <= y /\ l + y <= z
  <2>1. l \in Nat /\ l <= z
    BY <1>2
  <2> QED
    BY <1>6, <2>1
<1>7. p[1] = l + x /\ p[2] = l + y
  BY <1>4, <1>6
<1>8. ASSUME ~CanBeEmpty(m)
      PROVE  p[1] < p[2]
  <2>1. SubSeq(s, x + 1, y) \in Seq(Nat) /\ Len(SubSeq(s, x + 1, y)) = y - x
    <3>1. x \in 0 .. Len(s) /\ y \in 0 .. Len(s) /\ x <= y
      BY <1>5, <1>6
    <3>2. s \in Seq(Nat)
      BY <1>3
    <3> QED
      BY <3>1, <3>2, PiecesJoin
  <2>2. Len(SubSeq(s, x + 1, y)) >= 1
    BY <1>5, <1>6, <1>8, <2>1, AcceptsSome
  <2> QED
    BY <1>2, <1>6, <1>7, <2>1, <2>2
<1>9. ASSUME m.word # <<>>, Occurs(m.word, SubSeq(t, l + 1, p[1]))
      PROVE  FALSE
  <2>1. PICK w \in Seq(Nat) : w = m.word
    BY DEF Matchers
  <2>2. PICK n \in Nat : n = Len(w) /\ n >= 1
    BY <1>9, <2>1
  <2>3. PICK k \in l .. z : k = l + x
    BY <1>2, <1>6
  <2>4. \E a \in l .. k - n : SubSeq(t, a + 1, a + n) = w
    <3>1. k \in l .. Len(t) /\ Occurs(w, SubSeq(t, l + 1, k))
      BY <1>2, <1>7, <1>9, <2>1, <2>3
    <3>2. \E a \in l .. k - Len(w) : SubSeq(t, a + 1, a + Len(w)) = w
      BY <3>1, OccursInside
    <3> QED
      BY <2>2, <3>2
  <2>5. PICK a \in l .. k - n : SubSeq(t, a + 1, a + n) = w
    BY <2>4
  <2>6. PICK b, c \in Nat : b = a - l /\ c = b + n /\ b <= c /\ c <= z - l /\ l + b = a
                            /\ l + c = a + n /\ b < x
    <3>1. a \in Int /\ l <= a /\ a <= l + x - n /\ l + x - n <= z /\ l + x <= z
      <4>1. k = l + x /\ a \in l .. k - n /\ n \in Nat
        BY <2>2, <2>3
      <4> QED
        BY <1>0, <4>1
    <3>2. PICK b \in Nat : b = a - l
      BY <1>0, <3>1
    <3>3. PICK c \in Nat : c = b + n
      BY <2>2
    <3>4. b <= c /\ c <= z - l /\ l + b = a /\ l + c = a + n /\ b < x
      <4>1. n \in Nat /\ n >= 1
        BY <2>2
      <4> QED
        BY <1>0, <3>1, <3>2, <3>3, <4>1
    <3> QED
      BY <3>2, <3>3, <3>4
  <2>7. SubSeq(s, b + 1, c) = SubSeq(t, l + b + 1, l + c)
    BY <1>1, <1>2, <2>6, PieceOfPiece
  <2>8. Accepts(m, SubSeq(s, b + 1, c))
    BY <1>9, <2>1, <2>5, <2>6, <2>7, Zenon DEF Accepts
  <2>9. b \in 0 .. Len(s) /\ c \in 0 .. Len(s)
    BY <1>2, <1>3, <2>6
  <2>10. q[1] <= b
    BY <1>3, <1>9, <2>6, <2>8, <2>9, FindFacts
  <2> QED
    BY <1>6, <2>6, <2>10
<1>10. p[1] \in l .. Len(t) /\ p[2] \in p[1] .. Len(t)
  <2>1. p[1] \in l .. z /\ p[2] \in p[1] .. z
    BY <1>0, <1>7
  <2> QED
    BY <1>2, <2>1
<1> QED
  BY <1>8, <1>9, <1>10

LEMMA NoneFound ==
    ASSUME NEW m \in Matchers, ~m.anchored, m.word # <<>>,
           NEW t \in Seq(Nat), NEW l \in 0 .. Len(t), FoundIn(m, t, l) = {}
    PROVE  ~Occurs(m.word, SubSeq(t, l + 1, Len(t)))
<1>1. PICK s : s = SubSeq(t, l + 1, Len(t))
  OBVIOUS
<1>2. s \in Seq(Nat) /\ Len(s) \in Nat
  BY <1>1, PiecesJoin
<1>3. SUFFICES ASSUME Occurs(m.word, s)
               PROVE  FALSE
  BY <1>1
<1>4. PICK w \in Seq(Nat) : w = m.word
  BY DEF Matchers
<1>5. PICK n \in Nat : n = Len(w)
  OBVIOUS
<1>6. PICK a \in 0 .. Len(s) - n : SubSeq(s, a + 1, a + n) = w
  BY <1>3, <1>4, <1>5, Zenon DEF Occurs
<1>7. PICK b \in 0 .. Len(s) : b = a + n /\ a \in 0 .. Len(s) /\ a <= b
  BY <1>2, <1>6
<1>8. Accepts(m, SubSeq(s, a + 1, b))
  BY <1>4, <1>6, <1>7, Zenon DEF Accepts
<1>9. Find(m, s) # {}
  BY <1>2, <1>7, <1>8, FindFacts
<1> QED
  BY <1>1, <1>9 DEF FoundIn

-----------------------------------------------------------------------------
\* The inductive invariant.  A pre-token is no longer than the line, empty only
\* as the whole of an empty line and never when special, and, while unrefined,
\* free of the words of the first n matchers.
Cleared(su, m, n) ==
    {p \in FullPreToks :
        /\ Len(p.slice) <= Len(m) /\ (p.slice = <<>> => m = <<>>)
        /\ p.kind = "unrefined" =>
              \A j \in DOMAIN su.matchers :
                 j <= n /\ su.matchers[j].word # <<>> => ~Occurs(su.matchers[j].word, p.slice)}

Held ==
    /\ setup \in Setups /\ simd \in Vector /\ msg \in Messages
    /\ pc \in {"pre", "done"}
    /\ turn \in 1 .. Len(setup.matchers) + 1
    /\ pre \in Seq(Cleared(setup, msg, turn - 1))
    /\ next \in Seq(Cleared(setup, msg, turn))
    /\ last \in Nat /\ matched \in BOOLEAN

\* Where the scan is; without a match, and with a matcher that matches something
\* if anything, it is at the start.
Placed ==
    /\ pre = <<>> \/ Head(pre).kind # "unrefined" => last = 0 /\ ~matched
    /\ pre # <<>> => last <= Len(text)
    /\ ~MoreMatchers => next = <<>> /\ last = 0 /\ ~matched
    /\ MoreMatchers /\ ~matched /\ ~CanBeEmpty(matcher) => last = 0

\* No two unrefined pre-tokens side by side, not even across the two slices.
Apart ==
    /\ Spaced(pre, {"unrefined"}) /\ Spaced(next, {"unrefined"})
    /\ Closed(next, {"unrefined"}) \/ Opens(pre, {"unrefined"})

NoEmpties == \A j \in DOMAIN setup.matchers : ~CanBeEmpty(setup.matchers[j])
Left == IF pre = <<>> THEN <<>>
        ELSE SubSeq(text, IF matched THEN last + 1 ELSE 1, Len(text)) \o Text(Tail(pre))
Spells == NoEmpties => Text(next) \o Left = msg

Made ==
    /\ pc = "pre" => tokens = <<>>
    /\ pc = "done" => ~MoreMatchers /\ tokens = Line(pre, setup.symbols)

Inv == Held /\ Placed /\ Apart /\ Spells /\ Made

LEMMA HeadAndTail ==
    ASSUME NEW S, NEW s \in Seq(S), s # <<>>
    PROVE  /\ Head(s) \in S /\ Tail(s) \in Seq(S) /\ s = <<Head(s)>> \o Tail(s)
           /\ Head(s) = s[1] /\ Len(Tail(s)) = Len(s) - 1 /\ Len(s) >= 1
           /\ \A j \in 1 .. Len(s) - 1 : Tail(s)[j] = s[j + 1]
<1>1. /\ Head(s) \in S /\ Tail(s) \in Seq(S)
      /\ Head(s) = s[1] /\ Len(Tail(s)) = Len(s) - 1 /\ Len(s) >= 1
      /\ \A j \in 1 .. Len(s) - 1 : Tail(s)[j] = s[j + 1]
  OBVIOUS
<1>2. s = <<Head(s)>> \o Tail(s)
  <2>1. PICK h \in S, r \in Seq(S) : h = Head(s) /\ r = Tail(s)
    BY <1>1
  <2>2. PICK w \in Seq(S) : w = <<h>> \o r
    <3>1. <<h>> \o r \in Seq(S)
      OBVIOUS
    <3> QED
      BY <3>1
  <2>3. Len(w) = Len(s) /\ \A j \in 1 .. Len(s) : w[j] = s[j]
    BY <1>1, <2>1, <2>2
  <2>4. PICK n \in Nat : n = Len(s)
    OBVIOUS
  <2>5. w \in [1 .. n -> S] /\ s \in [1 .. n -> S] /\ \A j \in 1 .. n : w[j] = s[j]
    BY <2>3, <2>4, SeqIsFunction
  <2>6. w = s
    BY <2>5
  <2> QED
    BY <2>1, <2>2, <2>6
<1> QED
  BY <1>1, <1>2

LEMMA TextOfHead ==
    ASSUME NEW s \in Seq(AllToks), s # <<>>
    PROVE  Text(s) = Head(s).slice \o Text(Tail(s))
<1>1. Head(s) \in AllToks /\ Tail(s) \in Seq(AllToks) /\ s = <<Head(s)>> \o Tail(s)
  BY HeadAndTail
<1>2. PICK h \in AllToks, r \in Seq(AllToks) : h = Head(s) /\ r = Tail(s)
  BY <1>1
<1>3. <<h>> \in Seq(AllToks)
  OBVIOUS
<1>4. Text(<<h>> \o r) = Text(<<h>>) \o Text(r) /\ Text(<<h>>) = h.slice
  BY <1>3, TextFacts
<1> QED
  BY <1>1, <1>2, <1>4, Zenon

LEMMA SpacedTail ==
    ASSUME NEW K, NEW s \in Seq(AllToks), s # <<>>, Spaced(s, K)
    PROVE  Spaced(Tail(s), K) /\ (Head(s).kind \in K => Opens(Tail(s), K))
<1>1. PICK r \in Seq(AllToks) : r = Tail(s)
  BY HeadAndTail
<1>2. PICK n \in Nat : n = Len(s) /\ n >= 1
  BY HeadAndTail
<1>3. Len(r) = n - 1 /\ Head(s) = s[1] /\ \A j \in 1 .. n - 1 : r[j] = s[j + 1]
  BY <1>1, <1>2, HeadAndTail
<1>4. \A j \in 1 .. n - 1 : ~(s[j].kind \in K /\ s[j + 1].kind \in K)
  BY <1>2 DEF Spaced
<1>5. Spaced(r, K)
  BY <1>2, <1>3, <1>4 DEF Spaced
<1>6. Head(s).kind \in K => Opens(r, K)
  <2>1. r # <<>> => 1 \in 1 .. n - 1
    BY <1>2, <1>3
  <2> QED
    BY <1>3, <1>4, <2>1 DEF Opens
<1> QED
  BY <1>1, <1>5, <1>6

LEMMA ClearedFacts ==
    ASSUME NEW su, NEW m \in Seq(Nat), NEW n \in Int
    PROVE  /\ Cleared(su, m, n) \subseteq FullPreToks /\ Cleared(su, m, n) \subseteq PreToks
           /\ Cleared(su, m, n) \subseteq AllToks
           /\ \A p \in Cleared(su, m, n) :
                 /\ p.kind \in {"unrefined"} \cup Special
                 /\ p.slice \in Seq(Nat) /\ Len(p.slice) <= Len(m)
                 /\ p.kind \in Special => \A k : p \in Cleared(su, m, k)
<1>1. Cleared(su, m, n) \subseteq FullPreToks /\ Cleared(su, m, n) \subseteq PreToks
  BY DEF Cleared, FullPreToks
<1>2. Cleared(su, m, n) \subseteq AllToks
  BY <1>1, PreTokFacts
<1>3. ASSUME NEW p \in Cleared(su, m, n)
      PROVE  /\ p.kind \in {"unrefined"} \cup Special
             /\ p.slice \in Seq(Nat) /\ Len(p.slice) <= Len(m)
  BY <1>1 DEF PreToks, Cleared
<1>4. ASSUME NEW p \in Cleared(su, m, n), p.kind \in Special, NEW k
      PROVE  p \in Cleared(su, m, k)
  <2>1. p.kind # "unrefined"
    BY <1>4 DEF Special
  <2> QED
    BY <2>1, Zenon DEF Cleared
<1> QED
  BY <1>1, <1>2, <1>3, <1>4

LEMMA ClearedIs ==
    ASSUME NEW su, NEW m, NEW n, NEW p \in FullPreToks, Len(p.slice) <= Len(m), p.slice # <<>>,
           p.kind = "unrefined" =>
              \A j \in DOMAIN su.matchers :
                 j <= n /\ su.matchers[j].word # <<>> => ~Occurs(su.matchers[j].word, p.slice)
    PROVE  p \in Cleared(su, m, n)
  BY Zenon DEF Cleared

\* What a scan cuts out of a pre-token.
LEMMA PieceCleared ==
    ASSUME NEW su \in Setups, NEW m \in Seq(Nat), NEW n \in 1 .. Len(su.matchers),
           NEW t \in Seq(Nat), Tok("unrefined", t) \in Cleared(su, m, n - 1),
           NEW a \in 0 .. Len(t), NEW b \in 0 .. Len(t), a < b
    PROVE  /\ (su.matchers[n].word # <<>> => ~Occurs(su.matchers[n].word, SubSeq(t, a + 1, b)))
                 => Tok("unrefined", SubSeq(t, a + 1, b)) \in Cleared(su, m, n)
           /\ \A k \in Special : Tok(k, SubSeq(t, a + 1, b)) \in Cleared(su, m, n)
<1>1. PICK s : s = SubSeq(t, a + 1, b)
  OBVIOUS
<1>2. s \in Seq(Nat) /\ Len(s) = b - a
  <2>1. a <= b
    OBVIOUS
  <2>2. SubSeq(t, a + 1, b) \in Seq(Nat) /\ Len(SubSeq(t, a + 1, b)) = b - a
    BY <2>1, PiecesJoin
  <2> QED
    BY <1>1, <2>2
<1>3. s # <<>> /\ Len(s) <= Len(m)
  <2>1. Len(t) <= Len(m)
    BY DEF Cleared, Tok
  <2> QED
    BY <1>2, <2>1
<1>4. ASSUME NEW k \in {"unrefined"} \cup Special
      PROVE  /\ Tok(k, s) \in FullPreToks
             /\ Tok(k, s).kind = k /\ Tok(k, s).slice = s
  BY <1>2, <1>3, <1>4 DEF Tok, FullPreToks, PreToks
<1>5. ASSUME NEW k \in Special
      PROVE  Tok(k, s) \in Cleared(su, m, n)
  <2>1. k # "unrefined"
    BY DEF Special
  <2>2. PICK x : x = Tok(k, s)
    OBVIOUS
  <2>3. x \in FullPreToks /\ x.kind # "unrefined" /\ x.slice # <<>> /\ Len(x.slice) <= Len(m)
    <3>1. k \in {"unrefined"} \cup Special
      OBVIOUS
    <3> QED
      BY <1>3, <1>4, <2>1, <2>2, <3>1, Zenon
  <2> QED
    BY <2>2, <2>3, ClearedIs, Zenon
<1>6. ASSUME su.matchers[n].word # <<>> => ~Occurs(su.matchers[n].word, s)
      PROVE  Tok("unrefined", s) \in Cleared(su, m, n)
  <2>1. ASSUME NEW j \in DOMAIN su.matchers, j <= n, su.matchers[j].word # <<>>
        PROVE  ~Occurs(su.matchers[j].word, s)
    <3>1. CASE j = n
      BY <1>6, <2>1, <3>1
    <3>2. CASE j # n
      <4>1. j \in Nat /\ n \in Nat /\ su.matchers[j].word \in Seq(Nat)
        <5>1. su.matchers \in Seq(Matchers)
          BY SetupFacts
        <5>2. j \in 1 .. Len(su.matchers) /\ su.matchers[j] \in Matchers
          BY <5>1
        <5> QED
          BY <5>2 DEF Matchers
      <4>2. PICK w \in Seq(Nat) : w = su.matchers[j].word
        BY <4>1
      <4>3. j <= n - 1
        BY <2>1, <3>2, <4>1
      <4>4. ~Occurs(w, t)
        <5>1. Tok("unrefined", t).kind = "unrefined" /\ Tok("unrefined", t).slice = t
          BY DEF Tok
        <5> QED
          BY <2>1, <4>2, <4>3, <5>1, Zenon DEF Cleared
      <4>5. ~Occurs(w, s)
        <5>1. a <= b
          OBVIOUS
        <5> QED
          BY <1>1, <4>4, <5>1, FreeInside, Zenon
      <4> QED
        BY <4>2, <4>5
    <3> QED
      BY <3>1, <3>2
  <2>2. PICK x : x = Tok("unrefined", s)
    OBVIOUS
  <2>3. x \in FullPreToks /\ x.slice = s /\ x.slice # <<>> /\ Len(x.slice) <= Len(m)
    BY <1>3, <1>4, <2>2
  <2>4. \A j \in DOMAIN su.matchers :
           j <= n /\ su.matchers[j].word # <<>> => ~Occurs(su.matchers[j].word, x.slice)
    BY <2>1, <2>3, Zenon
  <2> QED
    BY <2>2, <2>3, <2>4, ClearedIs, Zenon
<1> QED
  BY <1>1, <1>5, <1>6, Zenon

-----------------------------------------------------------------------------
LEMMA PreFacts ==
    ASSUME Held
    PROVE  /\ msg \in Seq(Nat) /\ turn \in Int
           /\ pre \in Seq(FullPreToks) /\ pre \in Seq(PreToks) /\ pre \in Seq(AllToks)
           /\ next \in Seq(AllToks)
           /\ setup.matchers \in Seq(Matchers) /\ setup.symbols \in SUBSET Nat
           /\ Len(setup.matchers) \in Nat
<1>1. msg \in Seq(Nat) /\ setup \in Setups
  BY TokenizerAssumption DEF Held
<1>2. setup.matchers \in Seq(Matchers) /\ setup.symbols \in SUBSET Nat
  BY <1>1, SetupFacts
<1>3. Len(setup.matchers) \in Nat
  BY <1>2
<1>4. turn \in Int /\ turn - 1 \in Int
  BY <1>3 DEF Held
<1>5. PICK P, N : P = Cleared(setup, msg, turn - 1) /\ N = Cleared(setup, msg, turn)
  OBVIOUS
<1>6. pre \in Seq(P) /\ next \in Seq(N)
  BY <1>5, Zenon DEF Held
<1>7. P \subseteq FullPreToks /\ P \subseteq PreToks /\ P \subseteq AllToks /\ N \subseteq AllToks
  BY <1>1, <1>4, <1>5, ClearedFacts
<1>8. /\ pre \in Seq(FullPreToks) /\ pre \in Seq(PreToks) /\ pre \in Seq(AllToks)
      /\ next \in Seq(AllToks)
  BY <1>6, <1>7, SeqLarger
<1> QED
  BY <1>1, <1>2, <1>3, <1>4, <1>8

LEMMA ScanFacts ==
    ASSUME Held, Placed, Scanning
    PROVE  /\ turn \in 1 .. Len(setup.matchers) /\ pre # <<>>
           /\ matcher \in Matchers /\ (matcher.word # <<>> => ~matcher.anchored)
           /\ text \in Seq(Nat) /\ last \in 0 .. Len(text)
           /\ Head(pre) = Tok("unrefined", text)
           /\ Head(pre) \in Cleared(setup, msg, turn - 1)
           /\ Tail(pre) \in Seq(Cleared(setup, msg, turn - 1))
           /\ Found = FoundIn(matcher, text, last)
           /\ NoEmpties => ~CanBeEmpty(matcher)
<1>1. pre # <<>> /\ turn <= Len(setup.matchers) /\ Head(pre).kind = "unrefined"
  BY DEF Scanning, MoreMatchers
<1>2. turn \in 1 .. Len(setup.matchers)
  BY <1>1, PreFacts DEF Held
<1>3. matcher \in Matchers /\ turn \in DOMAIN setup.matchers
  BY <1>2, PreFacts DEF matcher
<1>4. matcher.word # <<>> => ~matcher.anchored
  BY <1>3, SetupFacts DEF Held, matcher
<1>5. PICK P : P = Cleared(setup, msg, turn - 1)
  OBVIOUS
<1>6. pre \in Seq(P) /\ last \in Nat
  BY <1>5, Zenon DEF Held
<1>7. Head(pre) \in P /\ Tail(pre) \in Seq(P)
  BY <1>1, <1>6
<1>8. Head(pre) \in [kind : {"unrefined"} \cup Special, slice : Seq(Nat)]
  <2>1. P \subseteq PreToks
    BY <1>5, PreFacts, ClearedFacts
  <2> QED
    BY <1>7, <2>1 DEF PreToks
<1>9. text \in Seq(Nat) /\ Head(pre) = Tok("unrefined", text)
  BY <1>1, <1>8 DEF text, Tok
<1>10. last \in 0 .. Len(text)
  BY <1>1, <1>6, <1>9 DEF Placed
<1>11. Found = FoundIn(matcher, text, last)
  BY DEF Found, FoundIn
<1>12. NoEmpties => ~CanBeEmpty(matcher)
  BY <1>3 DEF NoEmpties, matcher
<1> QED
  BY <1>1, <1>2, <1>3, <1>4, <1>5, <1>7, <1>9, <1>10, <1>11, <1>12

\* Where nothing has matched, all that is left is left.
LEMMA LeftIsAll ==
    ASSUME Held, last = 0 \/ ~matched
    PROVE  Left = Text(pre)
<1>1. CASE pre = <<>>
  BY <1>1, TextFacts DEF Left
<1>2. CASE pre # <<>>
  <2>1. Text(pre) = Head(pre).slice \o Text(Tail(pre))
    BY <1>2, PreFacts, TextOfHead
  <2>2. text \in Seq(Nat)
    <3>1. Head(pre) \in AllToks
      BY <1>2, PreFacts
    <3> QED
      BY <3>1 DEF AllToks, text
  <2>3. SubSeq(text, 1, Len(text)) = text
    BY <2>2
  <2>4. (IF matched THEN last + 1 ELSE 1) = 1
    OBVIOUS
  <2> QED
    BY <1>2, <2>1, <2>3, <2>4, Zenon DEF Left, text
<1> QED
  BY <1>1, <1>2

LEMMA LeftIsAllNext ==
    ASSUME NEW r \in Seq(AllToks), pre' = r, ~matched'
    PROVE  Left' = Text(r)
<1>1. CASE r = <<>>
  BY <1>1, TextFacts DEF Left
<1>2. CASE r # <<>>
  <2>1. Text(r) = Head(r).slice \o Text(Tail(r)) /\ Head(r) \in AllToks
    BY <1>2, TextOfHead, HeadAndTail
  <2>2. SubSeq(Head(r).slice, 1, Len(Head(r).slice)) = Head(r).slice
    BY <2>1 DEF AllToks
  <2>3. Left' = SubSeq(Head(r).slice, 1, Len(Head(r).slice)) \o Text(Tail(r))
    BY <1>2, Zenon DEF Left, text
  <2> QED
    BY <2>1, <2>2, <2>3
<1> QED
  BY <1>1, <1>2

LEMMA JoinAssociates ==
    \A a, b, c \in Seq(Nat) : (a \o b) \o c = a \o (b \o c)
  BY ConcatAssociates

LEMMA InitInv == Init => Inv
<1> SUFFICES ASSUME Init
             PROVE  Inv
  OBVIOUS
<1>1. /\ setup \in Setups /\ simd \in Vector /\ msg \in Messages /\ pc = "pre" /\ turn = 1
      /\ next = <<>> /\ last = 0 /\ matched = FALSE /\ tokens = <<>>
  BY DEF Init
<1>2. pre = <<Tok("unrefined", msg)>>
  BY DEF Init
<1>3. msg \in Seq(Nat) /\ setup.matchers \in Seq(Matchers)
  BY <1>1, TokenizerAssumption, SetupFacts
<1>4. PICK x : x = Tok("unrefined", msg)
  OBVIOUS
<1>5. x.kind = "unrefined" /\ x.slice = msg /\ x \in FullPreToks /\ x \in AllToks
  <2>1. x.kind = "unrefined" /\ x.slice = msg /\ x \in PreToks
    BY <1>3, <1>4 DEF Tok, PreToks
  <2> QED
    BY <2>1, PreTokFacts DEF FullPreToks, Special
<1>6. x \in Cleared(setup, msg, 0)
  <2>1. \A j \in DOMAIN setup.matchers : ~(j <= 0)
    BY <1>3
  <2>2. Len(x.slice) <= Len(msg)
    BY <1>3, <1>5
  <2> QED
    BY <1>5, <2>1, <2>2, Zenon DEF Cleared
<1>7. Held
  <2>1. turn - 1 = 0 /\ turn \in 1 .. Len(setup.matchers) + 1
    BY <1>1, <1>3
  <2>2. <<x>> \in Seq(Cleared(setup, msg, 0)) /\ <<>> \in Seq(Cleared(setup, msg, turn))
    BY <1>6
  <2>3. pc \in {"pre", "done"} /\ last \in Nat /\ matched \in BOOLEAN
    BY <1>1
  <2> QED
    BY <1>1, <1>2, <1>4, <2>1, <2>2, <2>3, Zenon DEF Held
<1>8. Head(pre) = x /\ Len(pre) = 1
  BY <1>2, <1>4
<1>9. Placed
  BY <1>1, <1>3, <1>5, <1>8 DEF Placed, text
<1>10. Apart
  BY <1>1, <1>2, <1>8 DEF Apart, Spaced, Closed
<1>11. Spells
  <2>1. Left = Text(pre)
    BY <1>1, <1>7, LeftIsAll
  <2>2. Text(pre) = msg
    BY <1>2, <1>4, <1>5, TextFacts
  <2>3. Text(next) = <<>>
    BY <1>1, TextFacts
  <2>4. <<>> \o msg = msg
    BY <1>3
  <2> QED
    BY <2>1, <2>2, <2>3, <2>4, Zenon DEF Spells
<1>12. Made
  BY <1>1 DEF Made
<1> QED
  BY <1>7, <1>9, <1>10, <1>11, <1>12 DEF Inv

\* The parts a step of the scan leaves to be shown.
LEMMA ScanStepInv ==
    ASSUME Inv, pc = "pre", MoreMatchers, UNCHANGED <<setup, simd, msg, pc, turn, tokens>>,
           pre' \in Seq(Cleared(setup, msg, turn - 1)), next' \in Seq(Cleared(setup, msg, turn)),
           last' \in Nat, matched' \in BOOLEAN, Placed', Apart', Spells'
    PROVE  Inv'
<1>1. Held'
  <2>1. PICK P, N : P = Cleared(setup, msg, turn - 1) /\ N = Cleared(setup, msg, turn)
    OBVIOUS
  <2>2. P = Cleared(setup', msg', turn' - 1) /\ N = Cleared(setup', msg', turn')
    BY <2>1
  <2>3. pre' \in Seq(P) /\ next' \in Seq(N)
    BY <2>1
  <2>4. /\ setup' \in Setups /\ simd' \in Vector /\ msg' \in Messages /\ pc' \in {"pre", "done"}
        /\ turn' \in 1 .. Len(setup'.matchers) + 1
    BY DEF Inv, Held
  <2> QED
    BY <2>2, <2>3, <2>4, Zenon DEF Held
<1>2. Made'
  BY DEF Inv, Made
<1> QED
  BY <1>1, <1>2 DEF Inv

LEMMA CopySpecialInv == Inv /\ CopySpecial => Inv'
<1> SUFFICES ASSUME Inv, CopySpecial
             PROVE  Inv'
  OBVIOUS
<1> USE DEF Inv
<1>1. /\ pc = "pre" /\ MoreMatchers /\ pre # <<>> /\ Head(pre).kind \in Special
      /\ next' = Append(next, Head(pre)) /\ pre' = Tail(pre)
      /\ UNCHANGED <<setup, simd, msg, pc, turn, tokens>> /\ last' = last /\ matched' = matched
  BY DEF CopySpecial
<1>2. Head(pre).kind # "unrefined" /\ last = 0 /\ ~matched
  BY <1>1 DEF Placed, Special
<1>3. PICK P, N : P = Cleared(setup, msg, turn - 1) /\ N = Cleared(setup, msg, turn)
  OBVIOUS
<1>4. pre \in Seq(P) /\ next \in Seq(N)
  BY <1>3, Zenon DEF Held
<1>5. PICK h, r : h = Head(pre) /\ r = Tail(pre)
  OBVIOUS
<1>6. h \in P /\ r \in Seq(P)
  BY <1>1, <1>4, <1>5, HeadAndTail
<1>7. h \in N
  BY <1>1, <1>3, <1>5, <1>6, PreFacts, ClearedFacts
<1>8. P \subseteq AllToks /\ N \subseteq AllToks
  BY <1>3, PreFacts, ClearedFacts
<1>9. /\ r \in Seq(AllToks) /\ next \in Seq(AllToks) /\ h \in AllToks
      /\ Append(next, h) \in Seq(N) /\ Append(next, h) \in Seq(AllToks)
  <2>1. Append(next, h) \in Seq(N)
    BY <1>4, <1>7
  <2> QED
    BY <1>4, <1>6, <1>7, <1>8, <2>1, SeqLarger
<1>10. pre' = r /\ next' = Append(next, h)
  BY <1>1, <1>5
<1>11. Placed'
  <2>1. text' = Head(r).slice
    BY <1>10 DEF text
  <2>2. r # <<>> => Len(text') \in Nat
    BY <1>9, <2>1 DEF AllToks
  <2> QED
    BY <1>1, <1>2, <2>2 DEF Placed, MoreMatchers, matcher
<1>12. Apart'
  <2>1. Spaced(r, {"unrefined"})
    BY <1>1, <1>5, PreFacts, SpacedTail DEF Apart
  <2>2. Spaced(Append(next, h), {"unrefined"}) /\ Closed(Append(next, h), {"unrefined"})
    BY <1>2, <1>5, <1>9, SpacedAppend DEF Apart
  <2> QED
    BY <1>10, <2>1, <2>2 DEF Apart
<1>13. Spells'
  <2>1. Left = Text(pre)
    BY <1>2, LeftIsAll
  <2>2. Text(pre) = h.slice \o Text(r)
    BY <1>1, <1>5, PreFacts, TextOfHead
  <2>3. Left' = Text(r)
    BY <1>1, <1>2, <1>9, <1>10, LeftIsAllNext
  <2>4. Text(Append(next, h)) = Text(next) \o h.slice
    BY <1>9, TextFacts, Zenon
  <2>5. (Text(next) \o h.slice) \o Text(r) = Text(next) \o (h.slice \o Text(r))
    <3>1. Text(next) \in Seq(Nat) /\ h.slice \in Seq(Nat) /\ Text(r) \in Seq(Nat)
      BY <1>9, TextFacts DEF AllToks
    <3> QED
      BY <3>1, JoinAssociates, Zenon
  <2>6. NoEmpties' <=> NoEmpties
    BY <1>1 DEF NoEmpties
  <2> QED
    BY <1>1, <1>10, <2>1, <2>2, <2>3, <2>4, <2>5, <2>6, Zenon DEF Spells
<1> QED
  <2>1. pre' \in Seq(Cleared(setup, msg, turn - 1)) /\ next' \in Seq(Cleared(setup, msg, turn))
    BY <1>3, <1>6, <1>9, <1>10
  <2>2. last' \in Nat /\ matched' \in BOOLEAN
    BY <1>1 DEF Held
  <2> QED
    BY <1>1, <1>11, <1>12, <1>13, <2>1, <2>2, ScanStepInv

LEMMA ClearedNext ==
    ASSUME NEW su \in Setups, NEW m \in Seq(Nat), NEW n \in 1 .. Len(su.matchers),
           NEW p \in Cleared(su, m, n - 1),
           su.matchers[n].word # <<>> => ~Occurs(su.matchers[n].word, p.slice)
    PROVE  p \in Cleared(su, m, n)
<1>1. \A j \in DOMAIN su.matchers : j <= n => j <= n - 1 \/ j = n
  <2>1. su.matchers \in Seq(Matchers)
    BY SetupFacts
  <2> QED
    BY <2>1
<1> QED
  BY <1>1, Zenon DEF Cleared

\* A piece of the text being scanned.
LEMMA PieceFacts ==
    ASSUME Held, Placed, Scanning, NEW a \in 0 .. Len(text), NEW b \in a .. Len(text)
    PROVE  /\ \/ a = b /\ Piece(a, b) = <<>>
              \/ \E y \in AllToks : Piece(a, b) = <<y>>
           /\ Text(Piece(a, b)) = SubSeq(text, a + 1, b)
           /\ (matcher.word # <<>> => ~Occurs(matcher.word, SubSeq(text, a + 1, b)))
                 => Piece(a, b) \in Seq(Cleared(setup, msg, turn))
<1>1. PICK s : s = SubSeq(text, a + 1, b)
  OBVIOUS
<1>2. s \in Seq(Nat)
  <2>1. text \in Seq(Nat)
    BY ScanFacts
  <2>2. a \in 0 .. Len(text) /\ b \in 0 .. Len(text) /\ a <= b
    BY <2>1
  <2> QED
    BY <1>1, <2>1, <2>2, PiecesJoin
<1>3. CASE a = b
  <2>1. Piece(a, b) = <<>>
    BY <1>3 DEF Piece
  <2>2. s = <<>>
    BY <1>1, <1>3, ScanFacts
  <2>3. Text(<<>>) = <<>>
    BY TextFacts
  <2>4. <<>> \in Seq(Cleared(setup, msg, turn))
    OBVIOUS
  <2> QED
    BY <1>1, <1>3, <2>1, <2>2, <2>3, <2>4, Zenon
<1>4. CASE a # b
  <2>1. a < b /\ b \in 0 .. Len(text)
    BY <1>4
  <2>2. PICK y : y = Tok("unrefined", s)
    OBVIOUS
  <2>3. Piece(a, b) = <<y>>
    BY <1>1, <2>1, <2>2 DEF Piece
  <2>4. y \in AllToks /\ y.slice = s
    BY <1>2, <2>2 DEF Tok, AllToks
  <2>5. Text(<<y>>) = s
    BY <2>4, TextFacts
  <2>6. ASSUME matcher.word # <<>> => ~Occurs(matcher.word, s)
        PROVE  y \in Cleared(setup, msg, turn)
    <3>1. /\ setup \in Setups /\ msg \in Seq(Nat) /\ turn \in 1 .. Len(setup.matchers)
          /\ text \in Seq(Nat) /\ Tok("unrefined", text) \in Cleared(setup, msg, turn - 1)
      BY ScanFacts, PreFacts DEF Held
    <3>2. PICK t \in Seq(Nat) : t = text
      BY <3>1
    <3>3. setup.matchers[turn].word # <<>> => ~Occurs(setup.matchers[turn].word, SubSeq(t, a + 1, b))
      BY <1>1, <2>6, <3>2 DEF matcher
    <3>4. Tok("unrefined", SubSeq(t, a + 1, b)) \in Cleared(setup, msg, turn)
      BY <2>1, <3>1, <3>2, <3>3, PieceCleared
    <3> QED
      BY <1>1, <2>2, <3>2, <3>4
  <2>7. ASSUME y \in Cleared(setup, msg, turn)
        PROVE  <<y>> \in Seq(Cleared(setup, msg, turn))
    BY <2>7
  <2> QED
    BY <1>1, <2>3, <2>4, <2>5, <2>6, <2>7, Zenon
<1> QED
  BY <1>3, <1>4

LEMMA SkipEmptyInv == Inv /\ SkipEmpty => Inv'
<1> SUFFICES ASSUME Inv, SkipEmpty
             PROVE  Inv'
  OBVIOUS
<1> USE DEF Inv
<1>1. /\ Scanning
      /\ UNCHANGED <<setup, simd, msg, pc, turn, pre, next, matched, tokens>>
  BY DEF SkipEmpty
<1>2. PICK p \in Found : p[1] = p[2] /\ p[1] < Len(text) /\ last' = p[1] + 1
  BY DEF SkipEmpty, PastMatch
<1>3. /\ p[1] \in last .. Len(text)
      /\ ~CanBeEmpty(matcher) => p[1] < p[2]
  <2>1. /\ matcher \in Matchers /\ (matcher.word # <<>> => ~matcher.anchored)
        /\ text \in Seq(Nat) /\ last \in 0 .. Len(text) /\ p \in FoundIn(matcher, text, last)
    BY <1>1, ScanFacts
  <2>2. PICK m, t, l : m = matcher /\ t = text /\ l = last
    OBVIOUS
  <2>3. p[1] \in l .. Len(t) /\ (~CanBeEmpty(m) => p[1] < p[2])
    BY <2>1, <2>2, FoundFacts
  <2> QED
    BY <2>2, <2>3
<1>4. last \in Nat /\ Len(text) \in Nat
  BY <1>1, ScanFacts
<1>5. p[1] \in Nat
  BY <1>3, <1>4
<1>6. CanBeEmpty(matcher)
  BY <1>2, <1>3, <1>5
<1>7. ~NoEmpties
  BY <1>1, <1>6, ScanFacts
<1>8. last' \in Nat /\ last' <= Len(text)
  BY <1>2, <1>4, <1>5
<1>9. Placed'
  <2>1. pre # <<>> /\ Head(pre).kind = "unrefined" /\ MoreMatchers
    BY <1>1 DEF Scanning
  <2> QED
    BY <1>1, <1>6, <1>8, <2>1 DEF Placed, MoreMatchers, matcher, text
<1>10. Apart'
  BY <1>1 DEF Apart
<1>11. Spells'
  BY <1>1, <1>7 DEF Spells, NoEmpties
<1> QED
  <2>1. pc = "pre" /\ MoreMatchers
    BY <1>1 DEF Scanning
  <2>2. pre' \in Seq(Cleared(setup, msg, turn - 1)) /\ next' \in Seq(Cleared(setup, msg, turn))
    BY <1>1, Zenon DEF Held
  <2>3. last' \in Nat /\ matched' \in BOOLEAN
    BY <1>1, <1>8 DEF Held
  <2> QED
    BY <1>1, <1>9, <1>10, <1>11, <2>1, <2>2, <2>3, ScanStepInv

\* What is appended at the end of a scan: nothing, or one unrefined pre-token,
\* without the word if the matcher is one.
Ending == IF matched THEN Remainder ELSE <<Head(pre)>>

LEMMA EndingFacts ==
    ASSUME Held, Placed, Scanning, \A p \in Found : p[1] = p[2] /\ p[1] >= Len(text)
    PROVE  /\ Ending = <<>> \/ \E y \in AllToks : Ending = <<y>>
           /\ last = 0 \/ matched => Text(Ending) = SubSeq(text, last + 1, Len(text))
           /\ Ending \in Seq(Cleared(setup, msg, turn))
<1>1. /\ matcher \in Matchers /\ (matcher.word # <<>> => ~matcher.anchored)
      /\ text \in Seq(Nat) /\ last \in 0 .. Len(text) /\ Found = FoundIn(matcher, text, last)
      /\ Head(pre) = Tok("unrefined", text) /\ Head(pre) \in Cleared(setup, msg, turn - 1)
      /\ turn \in 1 .. Len(setup.matchers)
  BY ScanFacts
<1>2. matcher.word # <<>> => ~Occurs(matcher.word, SubSeq(text, last + 1, Len(text)))
  <2>1. PICK m, t, l : m = matcher /\ t = text /\ l = last
    OBVIOUS
  <2>2. /\ m \in Matchers /\ (m.word # <<>> => ~m.anchored) /\ t \in Seq(Nat) /\ l \in 0 .. Len(t)
    BY <1>1, <2>1
  <2>3. ASSUME m.word # <<>>, NEW p \in FoundIn(m, t, l)
        PROVE  FALSE
    <3>1. ~CanBeEmpty(m)
      BY <2>3 DEF CanBeEmpty
    <3>2. p[1] \in l .. Len(t) /\ p[1] < p[2]
      BY <2>2, <2>3, <3>1, FoundFacts
    <3>3. p[1] = p[2]
      BY <1>1, <2>1, <2>3
    <3> QED
      BY <2>2, <3>2, <3>3
  <2>4. m.word # <<>> => FoundIn(m, t, l) = {}
    BY <2>3
  <2>5. m.word # <<>> => ~Occurs(m.word, SubSeq(t, l + 1, Len(t)))
    BY <2>2, <2>4, NoneFound
  <2> QED
    BY <2>1, <2>5
<1>3. CASE matched
  <2>1. Ending = Piece(last, Len(text))
    BY <1>3 DEF Ending, Remainder
  <2>2. Len(text) \in last .. Len(text)
    BY <1>1
  <2> QED
    BY <1>1, <1>2, <2>1, <2>2, PieceFacts
<1>4. CASE ~matched
  <2>1. PICK h : h = Head(pre)
    OBVIOUS
  <2>2. Ending = <<h>>
    BY <1>4, <2>1 DEF Ending
  <2>3. h \in AllToks /\ h.slice = text
    BY <1>1, <2>1 DEF Tok, AllToks
  <2>4. Text(<<h>>) = text
    BY <2>3, TextFacts
  <2>5. SubSeq(text, 1, Len(text)) = text
    BY <1>1
  <2>6. last = 0 => last + 1 = 1
    OBVIOUS
  <2>7. h \in Cleared(setup, msg, turn)
    <3>1. matcher.word # <<>> => last = 0
      BY <1>4 DEF Placed, Scanning, CanBeEmpty
    <3>2. setup.matchers[turn].word # <<>> => ~Occurs(setup.matchers[turn].word, h.slice)
      BY <1>2, <2>3, <2>5, <2>6, <3>1, Zenon DEF matcher
    <3>3. setup \in Setups /\ msg \in Seq(Nat)
      BY PreFacts DEF Held
    <3> QED
      BY <1>1, <2>1, <3>2, <3>3, ClearedNext
  <2>8. <<h>> \in Seq(Cleared(setup, msg, turn))
    BY <2>7
  <2> QED
    BY <1>4, <2>2, <2>3, <2>4, <2>5, <2>6, <2>8, Zenon
<1> QED
  BY <1>3, <1>4

LEMMA EndScanInv == Inv /\ EndScan => Inv'
<1> SUFFICES ASSUME Inv, EndScan
             PROVE  Inv'
  OBVIOUS
<1> USE DEF Inv
<1>1. /\ Scanning /\ \A p \in Found : p[1] = p[2] /\ p[1] >= Len(text)
      /\ next' = next \o Ending /\ pre' = Tail(pre) /\ last' = 0 /\ matched' = FALSE
      /\ UNCHANGED <<setup, simd, msg, pc, turn, tokens>>
  BY DEF EndScan, Ending
<1>2. PICK e : e = Ending
  OBVIOUS
<1>3. PICK N : N = Cleared(setup, msg, turn)
  OBVIOUS
<1>4. /\ e = <<>> \/ \E y \in AllToks : e = <<y>>
      /\ last = 0 \/ matched => Text(e) = SubSeq(text, last + 1, Len(text))
      /\ e \in Seq(N)
  BY <1>1, <1>2, <1>3, EndingFacts
<1>5. /\ pre # <<>> /\ Head(pre) = Tok("unrefined", text)
      /\ NoEmpties => ~CanBeEmpty(matcher)
      /\ Tail(pre) \in Seq(Cleared(setup, msg, turn - 1))
      /\ text \in Seq(Nat) /\ last \in 0 .. Len(text)
  BY <1>1, ScanFacts
<1>6. PICK r : r = Tail(pre)
  OBVIOUS
<1>7. next \in Seq(AllToks) /\ next \in Seq(N) /\ pre \in Seq(AllToks) /\ r \in Seq(AllToks)
  BY <1>3, <1>5, <1>6, PreFacts DEF Held
<1>8. e \in Seq(AllToks)
  <2>1. N \subseteq AllToks
    BY <1>3, PreFacts, ClearedFacts
  <2> QED
    BY <1>4, <2>1, SeqLarger
<1>9. next \o e \in Seq(N)
  BY <1>4, <1>7
<1>10. pre' = r /\ next' = next \o e
  BY <1>1, <1>2, <1>6
<1>11. Placed'
  <2>1. text' = Head(r).slice
    BY <1>10 DEF text
  <2>2. r # <<>> => Len(text') \in Nat
    BY <1>7, <2>1 DEF AllToks
  <2>3. MoreMatchers' 
    BY <1>1 DEF Scanning, MoreMatchers
  <2> QED
    BY <1>1, <1>10, <2>2, <2>3 DEF Placed
<1>12. Apart'
  <2>1. Head(pre).kind = "unrefined" /\ pre[1].kind = "unrefined"
    BY <1>5, <1>7 DEF Tok
  <2>2. Spaced(r, {"unrefined"}) /\ Opens(r, {"unrefined"})
    BY <1>5, <1>6, <1>7, <2>1, SpacedTail DEF Apart
  <2>3. Spaced(next, {"unrefined"}) /\ Closed(next, {"unrefined"})
    BY <1>5, <2>1 DEF Apart, Opens
  <2>4. Spaced(next \o e, {"unrefined"})
    <3>1. CASE e = <<>>
      BY <1>7, <2>3, <3>1
    <3>2. ASSUME NEW y \in AllToks, e = <<y>>
          PROVE  Spaced(next \o e, {"unrefined"})
      <4>1. next \o <<y>> = Append(next, y)
        BY <1>7
      <4>2. Spaced(Append(next, y), {"unrefined"})
        BY <1>7, <2>3, SpacedAppend
      <4> QED
        BY <3>2, <4>1, <4>2
    <3> QED
      BY <1>4, <3>1, <3>2
  <2> QED
    BY <1>10, <2>2, <2>4 DEF Apart
<1>13. Spells'
  <2>1. NoEmpties' <=> NoEmpties
    BY <1>1 DEF NoEmpties
  <2>2. SUFFICES ASSUME NoEmpties
                 PROVE  Text(next') \o Left' = msg'
    BY <2>1 DEF Spells
  <2>3. last = 0 \/ matched
    BY <1>1, <1>5, <2>2 DEF Placed, Scanning
  <2>4. Text(e) = SubSeq(text, last + 1, Len(text))
    BY <1>4, <2>3
  <2>5. Left' = Text(r)
    BY <1>1, <1>7, <1>10, LeftIsAllNext
  <2>6. Left = Text(e) \o Text(r)
    <3>1. (IF matched THEN last + 1 ELSE 1) = last + 1
      BY <2>3
    <3> QED
      BY <1>5, <1>6, <2>4, <3>1, Zenon DEF Left
  <2>7. Text(next \o e) = Text(next) \o Text(e)
    BY <1>7, <1>8, TextFacts, Zenon
  <2>8. (Text(next) \o Text(e)) \o Text(r) = Text(next) \o (Text(e) \o Text(r))
    <3>1. Text(next) \in Seq(Nat) /\ Text(e) \in Seq(Nat) /\ Text(r) \in Seq(Nat)
      BY <1>7, <1>8, TextFacts
    <3> QED
      BY <3>1, JoinAssociates, Zenon
  <2>9. Text(next) \o Left = msg
    BY <2>2 DEF Spells
  <2> QED
    BY <1>1, <1>10, <2>5, <2>6, <2>7, <2>8, <2>9, Zenon
<1> QED
  <2>1. pc = "pre" /\ MoreMatchers
    BY <1>1 DEF Scanning
  <2>2. pre' \in Seq(Cleared(setup, msg, turn - 1)) /\ next' \in Seq(Cleared(setup, msg, turn))
    BY <1>3, <1>5, <1>6, <1>9, <1>10
  <2>3. last' \in Nat /\ matched' \in BOOLEAN
    BY <1>1
  <2> QED
    BY <1>1, <1>11, <1>12, <1>13, <2>1, <2>2, <2>3, ScanStepInv

LEMMA NextMatcherInv == Inv /\ NextMatcher => Inv'
<1> SUFFICES ASSUME Inv, NextMatcher
             PROVE  Inv'
  OBVIOUS
<1> USE DEF Inv
<1>1. /\ pc = "pre" /\ turn <= Len(setup.matchers) /\ pre = <<>>
      /\ pre' = next /\ next' = <<>> /\ turn' = turn + 1
      /\ UNCHANGED <<setup, simd, msg, pc, tokens>> /\ last' = last /\ matched' = matched
  BY DEF NextMatcher, MoreMatchers
<1>2. last = 0 /\ ~matched
  BY <1>1 DEF Placed
<1>3. next \in Seq(AllToks) /\ Len(setup.matchers) \in Nat /\ turn \in Int
  BY PreFacts
<1>4. Held'
  <2>1. turn' \in 1 .. Len(setup'.matchers) + 1 /\ turn' - 1 = turn
    BY <1>1, <1>3 DEF Held
  <2>2. next \in Seq(Cleared(setup, msg, turn))
    BY Zenon DEF Held
  <2>3. pre' \in Seq(Cleared(setup', msg', turn' - 1))
    BY <1>1, <2>1, <2>2
  <2>4. next' \in Seq(Cleared(setup', msg', turn'))
    BY <1>1
  <2>5. /\ setup' \in Setups /\ simd' \in Vector /\ msg' \in Messages /\ pc' \in {"pre", "done"}
        /\ last' \in Nat /\ matched' \in BOOLEAN
    BY <1>1 DEF Held
  <2> QED
    BY <2>1, <2>3, <2>4, <2>5, Zenon DEF Held
<1>5. Placed'
  <2>1. next # <<>> => Len(Head(next).slice) \in Nat
    BY <1>3 DEF AllToks
  <2> QED
    BY <1>1, <1>2, <2>1 DEF Placed, text
<1>6. Apart'
  BY <1>1 DEF Apart, Spaced, Closed
<1>7. Spells'
  <2>1. NoEmpties' <=> NoEmpties
    BY <1>1 DEF NoEmpties
  <2>2. Left = <<>> /\ Left' = Text(next)
    BY <1>1, <1>2, <1>3, LeftIsAllNext DEF Left
  <2>3. Text(next) \in Seq(Nat) /\ Text(<<>>) = <<>>
    BY <1>3, TextFacts
  <2>4. PICK x \in Seq(Nat) : x = Text(next)
    BY <2>3
  <2>5. x \o <<>> = x /\ <<>> \o x = x
    OBVIOUS
  <2> QED
    BY <1>1, <2>1, <2>2, <2>3, <2>4, <2>5, Zenon DEF Spells
<1>8. Made'
  BY <1>1 DEF Made
<1> QED
  BY <1>4, <1>5, <1>6, <1>7, <1>8


LEMMA SplitInv == Inv /\ Split => Inv'
<1> SUFFICES ASSUME Inv, Split
             PROVE  Inv'
  OBVIOUS
<1> USE DEF Inv
<1>1. /\ pc' = "done" /\ ~MoreMatchers /\ tokens' = TokensWith(setup.symbols)
      /\ UNCHANGED <<setup, simd, msg, turn, pre, next, last, matched>>
  BY DEF Split
<1>2. Held'
  BY <1>1 DEF Held
<1>3. Placed' /\ Apart'
  BY <1>1 DEF Placed, Apart, MoreMatchers, matcher, text
<1>4. Spells'
  BY <1>1 DEF Spells, NoEmpties, Left, text
<1>5. Made'
  <2>1. TokensWith(setup.symbols) = Line(pre, setup.symbols)
    BY PreFacts, TokensAreLine
  <2>2. ~MoreMatchers'
    BY <1>1 DEF MoreMatchers
  <2> QED
    BY <1>1, <2>1, <2>2 DEF Made
<1> QED
  BY <1>2, <1>3, <1>4, <1>5

LEMMA StutterInv == Inv /\ UNCHANGED vars => Inv'
<1> SUFFICES ASSUME Inv, UNCHANGED vars
             PROVE  Inv'
  OBVIOUS
<1> USE DEF Inv
<1>1. UNCHANGED <<setup, simd, msg, pc, turn, pre, next, last, matched, tokens>>
  BY DEF vars
<1>2. Held'
  BY <1>1 DEF Held
<1>3. Placed' /\ Apart'
  BY <1>1 DEF Placed, Apart, MoreMatchers, matcher, text
<1>4. Spells'
  BY <1>1 DEF Spells, NoEmpties, Left, text
<1>5. Made'
  BY <1>1 DEF Made, MoreMatchers
<1> QED
  BY <1>2, <1>3, <1>4, <1>5

LEMMA JoinFour ==
    ASSUME NEW f \in Seq(Nat), NEW g \in Seq(Nat), NEW h \in Seq(Nat),
           NEW i \in Seq(Nat), NEW j \in Seq(Nat)
    PROVE  ((f \o g) \o h) \o (i \o j) = f \o ((g \o (h \o i)) \o j)
<1>1. /\ f \o g \in Seq(Nat) /\ h \o i \in Seq(Nat) /\ i \o j \in Seq(Nat)
      /\ h \o (i \o j) \in Seq(Nat)
  OBVIOUS
<1>2. ((f \o g) \o h) \o (i \o j) = (f \o g) \o (h \o (i \o j))
  <2>1. \A x, y \in Seq(Nat) : (x \o h) \o y = x \o (h \o y)
    BY JoinAssociates, Zenon
  <2> QED
    BY <1>1, <2>1, Zenon
<1>3. (f \o g) \o (h \o (i \o j)) = f \o (g \o (h \o (i \o j)))
  <2>1. \A x \in Seq(Nat) : (f \o g) \o x = f \o (g \o x)
    BY JoinAssociates, Zenon
  <2> QED
    BY <1>1, <2>1, Zenon
<1>4. h \o (i \o j) = (h \o i) \o j
  BY JoinAssociates, Zenon
<1>5. g \o ((h \o i) \o j) = (g \o (h \o i)) \o j
  <2>1. \A x \in Seq(Nat) : (g \o x) \o j = g \o (x \o j)
    BY JoinAssociates, Zenon
  <2> QED
    BY <1>1, <2>1, Zenon
<1> QED
  BY <1>2, <1>3, <1>4, <1>5, Zenon

LEMMA TwoPieces ==
    ASSUME NEW t \in Seq(Nat), NEW i \in Nat, NEW j \in Nat, NEW k \in Nat,
           i <= j, j <= k, k <= Len(t)
    PROVE  /\ SubSeq(t, i + 1, j) \o SubSeq(t, j + 1, k) = SubSeq(t, i + 1, k)
           /\ SubSeq(t, i + 1, j) \in Seq(Nat) /\ SubSeq(t, j + 1, k) \in Seq(Nat)
<1>1. i \in 0 .. Len(t) /\ j \in 0 .. Len(t) /\ k \in 0 .. Len(t)
  OBVIOUS
<1> QED
  BY <1>1, PiecesJoin

LEMMA ThreePieces ==
    ASSUME NEW t \in Seq(Nat), NEW l \in Nat, NEW a \in Nat, NEW b \in Nat, NEW n \in Nat,
           l <= a, a < b, b <= n, n <= Len(t)
    PROVE  /\ SubSeq(t, l + 1, a) \in Seq(Nat) /\ SubSeq(t, a + 1, b) \in Seq(Nat)
           /\ SubSeq(t, b + 1, n) \in Seq(Nat)
           /\ SubSeq(t, l + 1, a) \o (SubSeq(t, a + 1, b) \o SubSeq(t, b + 1, n))
                  = SubSeq(t, l + 1, n)
<1>1. a <= b /\ a <= n /\ b <= Len(t)
  OBVIOUS
<1>2. /\ SubSeq(t, a + 1, b) \o SubSeq(t, b + 1, n) = SubSeq(t, a + 1, n)
      /\ SubSeq(t, a + 1, b) \in Seq(Nat) /\ SubSeq(t, b + 1, n) \in Seq(Nat)
  BY <1>1, TwoPieces, Zenon
<1>3. /\ SubSeq(t, l + 1, a) \o SubSeq(t, a + 1, n) = SubSeq(t, l + 1, n)
      /\ SubSeq(t, l + 1, a) \in Seq(Nat)
  BY <1>1, TwoPieces, Zenon
<1> QED
  BY <1>2, <1>3, Zenon

LEMMA MatchInv == Inv /\ Match => Inv'
<1> SUFFICES ASSUME Inv, Match
             PROVE  Inv'
  OBVIOUS
<1> USE DEF Inv
<1>1. PICK p \in Found : /\ p[1] < p[2]
                         /\ next' = next \o Piece(last, p[1])
                                        \o <<Tok(matcher.kind, SubSeq(text, p[1] + 1, p[2]))>>
                         /\ last' = p[2]
  BY Zenon DEF Match
<1>2. Scanning /\ matched' = TRUE /\ UNCHANGED <<setup, simd, msg, pc, turn, pre, tokens>>
  BY DEF Match
<1>3. /\ turn \in 1 .. Len(setup.matchers) /\ pre # <<>>
      /\ matcher \in Matchers /\ (matcher.word # <<>> => ~matcher.anchored)
      /\ text \in Seq(Nat) /\ last \in 0 .. Len(text)
      /\ Head(pre) = Tok("unrefined", text)
      /\ Head(pre) \in Cleared(setup, msg, turn - 1)
      /\ p \in FoundIn(matcher, text, last)
      /\ NoEmpties => ~CanBeEmpty(matcher)
  BY <1>2, ScanFacts
<1>4. PICK t \in Seq(Nat), m \in Matchers : t = text /\ m = matcher
  BY <1>3
<1>5. PICK l \in Nat, n \in Nat : l = last /\ n = Len(t) /\ l <= n
  <2>1. last \in 0 .. Len(t) /\ Len(t) \in Nat
    BY <1>3, <1>4
  <2>2. last \in Nat /\ Len(t) \in Nat /\ last <= Len(t)
    BY <2>1
  <2> QED
    BY <2>2
<1>6. /\ p[1] \in l .. n /\ p[2] \in p[1] .. n
      /\ m.word # <<>> => ~Occurs(m.word, SubSeq(t, l + 1, p[1]))
  <2>1. /\ m.word # <<>> => ~m.anchored
        /\ l \in 0 .. Len(t) /\ p \in FoundIn(m, t, l)
    BY <1>3, <1>4, <1>5
  <2>2. /\ p[1] \in l .. Len(t) /\ p[2] \in p[1] .. Len(t)
        /\ m.word # <<>> => ~Occurs(m.word, SubSeq(t, l + 1, p[1]))
    BY <2>1, FoundFacts
  <2> QED
    BY <1>5, <2>2
<1>7. PICK a, b \in Nat : a = p[1] /\ b = p[2] /\ l <= a /\ a < b /\ b <= n
  BY <1>1, <1>5, <1>6
<1>8. PICK N : N = Cleared(setup, msg, turn)
  OBVIOUS
<1>9. PICK q : q = Piece(last, p[1])
  OBVIOUS
<1>10. /\ q = <<>> \/ \E y \in AllToks : q = <<y>>
       /\ Text(q) = SubSeq(t, l + 1, a)
       /\ q \in Seq(N)
  <2>1. last \in 0 .. Len(text) /\ p[1] \in last .. Len(text)
    BY <1>3, <1>4, <1>5, <1>6
  <2>2. matcher.word # <<>> => ~Occurs(matcher.word, SubSeq(text, last + 1, p[1]))
    BY <1>4, <1>5, <1>6
  <2>3. /\ Piece(last, p[1]) = <<>> \/ \E y \in AllToks : Piece(last, p[1]) = <<y>>
        /\ Text(Piece(last, p[1])) = SubSeq(text, last + 1, p[1])
        /\ Piece(last, p[1]) \in Seq(Cleared(setup, msg, turn))
    BY <1>2, <2>1, <2>2, PieceFacts
  <2> QED
    BY <1>4, <1>5, <1>7, <1>8, <1>9, <2>3
<1>11. PICK x : x = Tok(matcher.kind, SubSeq(text, p[1] + 1, p[2]))
  OBVIOUS
<1>12. x \in N /\ x.slice = SubSeq(t, a + 1, b) /\ x.kind \in Special
  <2>1. m.kind \in Special
    BY DEF Matchers
  <2>2. x = Tok(m.kind, SubSeq(t, a + 1, b))
    BY <1>4, <1>7, <1>11
  <2>3. a \in 0 .. Len(t) /\ b \in 0 .. Len(t)
    BY <1>5, <1>7
  <2>4. setup \in Setups /\ msg \in Seq(Nat) /\ Tok("unrefined", t) \in Cleared(setup, msg, turn - 1)
    BY <1>3, <1>4, PreFacts DEF Held
  <2>5. \A k \in Special : Tok(k, SubSeq(t, a + 1, b)) \in Cleared(setup, msg, turn)
    BY <1>3, <1>7, <2>3, <2>4, PieceCleared
  <2> QED
    BY <1>8, <2>1, <2>2, <2>5 DEF Tok
<1>13. N \subseteq AllToks
  BY <1>8, PreFacts, ClearedFacts
<1>14. /\ next \in Seq(AllToks) /\ next \in Seq(N) /\ pre \in Seq(AllToks)
       /\ q \in Seq(AllToks) /\ x \in AllToks
  BY <1>8, <1>10, <1>12, <1>13, PreFacts, SeqLarger DEF Held
<1>15. PICK u : u = next \o q
  OBVIOUS
<1>16. u \in Seq(N) /\ u \in Seq(AllToks) /\ Append(u, x) \in Seq(N) /\ next' = Append(u, x)
  <2>1. u \in Seq(N)
    BY <1>10, <1>14, <1>15
  <2>2. u \o <<x>> = Append(u, x) /\ Append(u, x) \in Seq(N)
    BY <1>12, <2>1
  <2>3. next' = u \o <<x>>
    BY <1>1, <1>9, <1>11, <1>15, Zenon
  <2> QED
    BY <1>13, <2>1, <2>2, <2>3, SeqLarger
<1>17. Placed'
  <2>1. pre' = pre /\ text' = text /\ Head(pre').kind = "unrefined" /\ last' <= Len(text)
    BY <1>1, <1>2, <1>4, <1>5, <1>7 DEF text, Scanning
  <2>2. MoreMatchers'
    BY <1>2 DEF Scanning, MoreMatchers
  <2> QED
    BY <1>2, <1>3, <2>1, <2>2 DEF Placed
<1>18. Apart'
  <2>1. pre[1].kind = "unrefined"
    BY <1>2, <1>3, <1>14 DEF Scanning
  <2>2. /\ Spaced(next, {"unrefined"}) /\ Closed(next, {"unrefined"})
        /\ Spaced(pre, {"unrefined"})
    BY <1>3, <2>1 DEF Apart, Opens
  <2>3. Spaced(u, {"unrefined"})
    <3>1. CASE q = <<>>
      BY <1>14, <1>15, <2>2, <3>1
    <3>2. ASSUME NEW y \in AllToks, q = <<y>>
          PROVE  Spaced(u, {"unrefined"})
      <4>1. next \o <<y>> = Append(next, y)
        BY <1>14
      <4>2. Spaced(Append(next, y), {"unrefined"})
        BY <1>14, <2>2, SpacedAppend
      <4> QED
        BY <1>15, <3>2, <4>1, <4>2
    <3> QED
      BY <1>10, <3>1, <3>2
  <2>4. x.kind \notin {"unrefined"}
    BY <1>12 DEF Special
  <2>5. Spaced(Append(u, x), {"unrefined"}) /\ Closed(Append(u, x), {"unrefined"})
    BY <1>14, <1>16, <2>3, <2>4, SpacedAppend
  <2> QED
    BY <1>2, <1>16, <2>2, <2>5 DEF Apart
<1>19. Spells'
  <2>1. NoEmpties' <=> NoEmpties
    BY <1>2 DEF NoEmpties
  <2>2. SUFFICES ASSUME NoEmpties
                 PROVE  Text(next') \o Left' = msg'
    BY <2>1 DEF Spells
  <2>3. last = 0 \/ matched
    BY <1>2, <1>3, <2>2 DEF Placed, Scanning
  <2>4. PICK r : r = Text(Tail(pre))
    OBVIOUS
  <2>5. PICK c, d, e : /\ c = SubSeq(t, l + 1, a) /\ d = SubSeq(t, a + 1, b)
                       /\ e = SubSeq(t, b + 1, n)
    OBVIOUS
  <2>6. Left = SubSeq(t, l + 1, n) \o r
    <3>1. (IF matched THEN last + 1 ELSE 1) = l + 1
      BY <1>5, <2>3
    <3> QED
      BY <1>3, <1>4, <1>5, <2>4, <3>1, Zenon DEF Left
  <2>7. Left' = e \o r
    <3>1. Left' = SubSeq(text, last' + 1, Len(text)) \o Text(Tail(pre))
      BY <1>2, <1>3, Zenon DEF Left, text
    <3> QED
      BY <1>1, <1>4, <1>5, <1>7, <2>4, <2>5, <3>1, Zenon
  <2>8. /\ c \in Seq(Nat) /\ d \in Seq(Nat) /\ e \in Seq(Nat)
        /\ c \o (d \o e) = SubSeq(t, l + 1, n)
    <3>1. n <= Len(t)
      BY <1>5
    <3>2. l <= a /\ a < b /\ b <= n
      BY <1>7
    <3>3. /\ SubSeq(t, l + 1, a) \in Seq(Nat) /\ SubSeq(t, a + 1, b) \in Seq(Nat)
          /\ SubSeq(t, b + 1, n) \in Seq(Nat)
          /\ SubSeq(t, l + 1, a) \o (SubSeq(t, a + 1, b) \o SubSeq(t, b + 1, n))
                 = SubSeq(t, l + 1, n)
      BY <3>1, <3>2, ThreePieces
    <3> QED
      BY <2>5, <3>3
  <2>9. PICK k : k = Text(next)
    OBVIOUS
  <2>10. k \in Seq(Nat) /\ r \in Seq(Nat)
    <3>1. Tail(pre) \in Seq(AllToks)
      BY <1>3, <1>14, HeadAndTail
    <3> QED
      BY <1>14, <2>4, <2>9, <3>1, TextFacts
  <2>11. Text(next') = (k \o c) \o d
    <3>1. Text(u) = k \o c
      BY <1>10, <1>14, <1>15, <2>5, <2>9, TextFacts, Zenon
    <3>2. Text(Append(u, x)) = Text(u) \o x.slice
      BY <1>14, <1>16, TextFacts, Zenon
    <3> QED
      BY <1>12, <1>16, <2>5, <3>1, <3>2, Zenon
  <2>12. ((k \o c) \o d) \o (e \o r) = k \o ((c \o (d \o e)) \o r)
    <3>1. c \in Seq(Nat) /\ d \in Seq(Nat) /\ e \in Seq(Nat) /\ k \in Seq(Nat) /\ r \in Seq(Nat)
      BY <2>8, <2>10
    <3>2. \A f, g, h, i, j \in Seq(Nat) :
             ((f \o g) \o h) \o (i \o j) = f \o ((g \o (h \o i)) \o j)
      BY JoinFour, Zenon
    <3>3. \A g, h, i, j \in Seq(Nat) :
             ((k \o g) \o h) \o (i \o j) = k \o ((g \o (h \o i)) \o j)
      BY <3>1, <3>2, Zenon
    <3>4. \A h, i, j \in Seq(Nat) :
             ((k \o c) \o h) \o (i \o j) = k \o ((c \o (h \o i)) \o j)
      BY <3>1, <3>3, Zenon
    <3>5. \A i, j \in Seq(Nat) :
             ((k \o c) \o d) \o (i \o j) = k \o ((c \o (d \o i)) \o j)
      BY <3>1, <3>4, Zenon
    <3> QED
      BY <3>1, <3>5, Zenon
  <2>13. k \o Left = msg
    BY <2>2, <2>9 DEF Spells
  <2> QED
    BY <1>2, <2>6, <2>7, <2>8, <2>11, <2>12, <2>13, Zenon
<1> QED
  <2>1. pc = "pre" /\ MoreMatchers
    BY <1>2 DEF Scanning
  <2>2. pre' \in Seq(Cleared(setup, msg, turn - 1)) /\ next' \in Seq(Cleared(setup, msg, turn))
    BY <1>2, <1>8, <1>16, Zenon DEF Held
  <2>3. last' \in Nat /\ matched' \in BOOLEAN
    BY <1>1, <1>2, <1>7
  <2> QED
    BY <1>2, <1>17, <1>18, <1>19, <2>1, <2>2, <2>3, ScanStepInv

-----------------------------------------------------------------------------
LEMMA NextInv == Inv /\ [Next]_vars => Inv'
<1> SUFFICES ASSUME Inv, [Next]_vars
             PROVE  Inv'
  OBVIOUS
<1>1. CASE CopySpecial
  BY <1>1, CopySpecialInv
<1>2. CASE Match
  BY <1>2, MatchInv
<1>3. CASE SkipEmpty
  BY <1>3, SkipEmptyInv
<1>4. CASE EndScan
  BY <1>4, EndScanInv
<1>5. CASE NextMatcher
  BY <1>5, NextMatcherInv
<1>6. CASE Split
  BY <1>6, SplitInv
<1>7. CASE UNCHANGED vars
  BY <1>7, StutterInv
<1> QED
  BY <1>1, <1>2, <1>3, <1>4, <1>5, <1>6, <1>7 DEF Next

LEMMA DoneFacts ==
    ASSUME Inv, pc = "done"
    PROVE  /\ tokens = Line(pre, setup.symbols) /\ Spelled(pre, setup.symbols)
           /\ tokens \in Seq(LineToks(setup.symbols)) /\ tokens \in Seq(Toks)
           /\ next = <<>> /\ last = 0 /\ ~matched
<1>1. tokens = Line(pre, setup.symbols) /\ ~MoreMatchers
  BY DEF Inv, Made
<1>2. next = <<>> /\ last = 0 /\ ~matched
  BY <1>1 DEF Inv, Placed
<1>3. PICK sy \in SUBSET Nat : sy = setup.symbols
  BY PreFacts DEF Inv
<1>4. Spelled(pre, sy)
  BY PreFacts, LineIsSpelled DEF Inv
<1>5. tokens \in Seq(LineToks(sy))
  BY <1>1, <1>3, <1>4 DEF Spelled
<1>6. LineToks(sy) \subseteq Toks
  BY LineIsSteady, PunctuationIsNat
<1>7. tokens \in Seq(Toks)
  BY <1>5, <1>6, SeqLarger
<1> QED
  BY <1>1, <1>2, <1>3, <1>4, <1>5, <1>7

LEMMA InvType == Inv => TypeOK
<1> SUFFICES ASSUME Inv
             PROVE  TypeOK
  OBVIOUS
<1>1. ASSUME NEW p \in ToSet(pre) \cup ToSet(next)
      PROVE  p.kind \in {"unrefined"} \cup Special /\ (p.slice = <<>> => msg = <<>>)
  <2>1. PICK P, N : P = Cleared(setup, msg, turn - 1) /\ N = Cleared(setup, msg, turn)
    OBVIOUS
  <2>2. pre \in Seq(P) /\ next \in Seq(N)
    BY <2>1, Zenon DEF Inv, Held
  <2>3. p \in P \/ p \in N
    BY <2>2, SeqRange
  <2>4. ASSUME NEW n \in Int, p \in Cleared(setup, msg, n)
        PROVE  p.kind \in {"unrefined"} \cup Special /\ (p.slice = <<>> => msg = <<>>)
    <3>1. p.kind \in {"unrefined"} \cup Special
      BY <2>4, PreFacts, ClearedFacts DEF Inv
    <3>2. p.slice = <<>> => msg = <<>>
      BY <2>4, Zenon DEF Cleared
    <3> QED
      BY <3>1, <3>2
  <2>5. turn \in Int /\ turn - 1 \in Int
    BY PreFacts DEF Inv
  <2> QED
    BY <2>1, <2>3, <2>4, <2>5
<1>2. last \in 0 .. Len(msg)
  <2>1. last \in Nat /\ msg \in Seq(Nat) /\ turn - 1 \in Int
    BY PreFacts DEF Inv, Held
  <2>2. CASE pre = <<>>
    BY <2>1, <2>2 DEF Inv, Placed
  <2>3. CASE pre # <<>>
    <3>1. PICK P : P = Cleared(setup, msg, turn - 1)
      OBVIOUS
    <3>2. pre \in Seq(P)
      BY <3>1, Zenon DEF Inv, Held
    <3>3. Head(pre) \in P
      BY <2>3, <3>2
    <3>4. text \in Seq(Nat) /\ Len(text) <= Len(msg)
      BY <2>1, <3>1, <3>3, ClearedFacts DEF text
    <3>5. last <= Len(text)
      BY <2>3 DEF Inv, Placed
    <3> QED
      BY <2>1, <3>4, <3>5
  <2> QED
    BY <2>2, <2>3
<1>3. ASSUME NEW t \in ToSet(tokens)
      PROVE  t.kind \in Kinds /\ t.slice # <<>>
  <2>1. CASE pc = "pre"
    <3>1. tokens = <<>>
      BY <2>1 DEF Inv, Made
    <3> QED
      BY <3>1 DEF ToSet
  <2>2. CASE pc = "done"
    <3>1. t \in LineToks(setup.symbols)
      BY <2>2, DoneFacts, SeqRange
    <3> QED
      BY <3>1 DEF LineToks, Exact, Claimed, Toks
  <2> QED
    BY <2>1, <2>2 DEF Inv, Held
<1> QED
  BY <1>1, <1>2, <1>3 DEF TypeOK, Inv, Held

LEMMA InvNothingLost == Inv => NothingLost
<1> SUFFICES ASSUME Inv, NoEmpties
             PROVE  IF pc = "done" THEN Text(tokens) = msg ELSE Text(next) \o Left = msg
  BY Zenon DEF NothingLost, NoEmpties, Left
<1>1. Text(next) \o Left = msg
  BY DEF Inv, Spells
<1>2. ASSUME pc = "done"
      PROVE  Text(tokens) = msg
  <2>1. next = <<>> /\ ~matched /\ Text(tokens) = Text(pre)
    BY <1>2, DoneFacts, Zenon DEF Spelled
  <2>2. Left = Text(pre) /\ Text(pre) \in Seq(Nat)
    BY <2>1, LeftIsAll, PreFacts, TextFacts DEF Inv
  <2>3. Text(next) = <<>>
    BY <2>1, TextFacts
  <2>4. PICK x \in Seq(Nat) : x = Text(pre)
    BY <2>2
  <2>5. <<>> \o x = x
    OBVIOUS
  <2> QED
    BY <1>1, <2>1, <2>2, <2>3, <2>4, <2>5, Zenon
<1> QED
  BY <1>1, <1>2

LEMMA InvTokensExact == Inv => TokensExact
<1> SUFFICES ASSUME Inv, pc = "done"
             PROVE  /\ \A j \in DOMAIN tokens :
                         LET t == tokens[j]
                         IN  \/ t.kind \in Special
                             \/ Len(t.slice) = 1 /\ Boundary(t.slice[1], setup.symbols)
                                  /\ t = BoundaryToken(t.slice[1])
                             \/ (\A c \in ToSet(t.slice) : ~Boundary(c, setup.symbols))
                                  /\ t = tokenWith(t.slice)
                    /\ \A j \in 1 .. Len(tokens) - 1 : ~(Inner(tokens[j]) /\ Inner(tokens[j + 1]))
  BY DEF TokensExact
<1>1. PICK sy : sy = setup.symbols
  OBVIOUS
<1>2. tokens \in Seq(LineToks(sy)) /\ Spelled(pre, sy) /\ tokens = Line(pre, sy)
  BY <1>1, DoneFacts
<1>3. ASSUME NEW t \in LineToks(sy)
      PROVE  \/ t.kind \in Special
             \/ Len(t.slice) = 1 /\ Boundary(t.slice[1], sy) /\ t = BoundaryToken(t.slice[1])
             \/ (\A c \in ToSet(t.slice) : ~Boundary(c, sy)) /\ t = tokenWith(t.slice)
  <2>1. CASE t \in Claimed
    BY <2>1 DEF Claimed
  <2>2. CASE t \in Exact(sy)
    <3>1. ASSUME NEW c \in Nat, Boundary(c, sy), t = BoundaryToken(c)
          PROVE  Len(t.slice) = 1 /\ Boundary(t.slice[1], sy) /\ t = BoundaryToken(t.slice[1])
      <4>1. t.slice = <<c>>
        BY <3>1, ExactTokens
      <4>2. Len(t.slice) = 1 /\ t.slice[1] = c
        BY <4>1
      <4> QED
        BY <3>1, <4>2, Zenon
    <3>2. ASSUME t.slice \in Seq(Kept(sy)), t = tokenWith(t.slice)
          PROVE  (\A c \in ToSet(t.slice) : ~Boundary(c, sy)) /\ t = tokenWith(t.slice)
      <4>1. ToSet(t.slice) \subseteq Kept(sy)
        BY <3>2, SeqRange
      <4> QED
        BY <3>2, <4>1 DEF Kept
    <3>3. \/ \E c \in Nat : Boundary(c, sy) /\ t = BoundaryToken(c)
          \/ t.slice \in Seq(Kept(sy)) /\ t = tokenWith(t.slice)
      BY <2>2, Zenon DEF Exact
    <3> QED
      BY <3>1, <3>2, <3>3, Zenon
  <2> QED
    BY <2>1, <2>2 DEF LineToks
<1>4. \A j \in DOMAIN tokens : tokens[j] \in LineToks(sy)
  BY <1>2
<1>5. Spaced(tokens, InnerKinds)
  BY <1>2 DEF Spelled, Inv, Apart
<1>6. \A j \in 1 .. Len(tokens) - 1 : ~(Inner(tokens[j]) /\ Inner(tokens[j + 1]))
  BY <1>5, Zenon DEF Spaced, Inner, InnerKinds
<1> QED
  BY <1>1, <1>3, <1>4, <1>6, Zenon

LEMMA InvSplitCounted == Inv => SplitCounted
<1> SUFFICES ASSUME Inv, pc = "done", NEW symbols \in {setup.symbols, Punctuation},
                    NEW t \in ToSet(pre) \cup ToSet(tokens)
             PROVE  splitTokenCount(t.slice, symbols) = Len(appendSplitToken(<<>>, t.slice, symbols))
  BY DEF SplitCounted
<1>1. symbols \in SUBSET Nat
  BY PreFacts, PunctuationIsNat DEF Inv
<1>2. t \in AllToks \/ t \in Toks
  <2>1. pre \in Seq(AllToks) /\ tokens \in Seq(Toks)
    BY PreFacts, DoneFacts DEF Inv
  <2> QED
    BY <2>1, SeqRange
<1>3. t.slice \in Seq(Nat)
  BY <1>2 DEF AllToks, Toks
<1> QED
  BY <1>1, <1>3, CountIsLength

LEMMA InvRetokenize == Inv => RetokenizeExact
<1> SUFFICES ASSUME Inv, pc = "done", setup.symbols \subseteq Punctuation
             PROVE  retokenizeTokensWithSymbolsInto(tokens, Punctuation) = TokensWith(Punctuation)
  BY DEF RetokenizeExact
<1>1. PICK sy : sy = setup.symbols
  OBVIOUS
<1>2. tokens = Line(pre, sy) /\ sy \subseteq Punctuation
  BY <1>1, DoneFacts
<1>3. pre \in Seq(FullPreToks) /\ pre \in Seq(PreToks)
  BY PreFacts DEF Inv
<1>4. retokenizeTokensWithSymbolsInto(Line(pre, sy), Punctuation) = Line(pre, Punctuation)
  BY <1>2, <1>3, LineRetokenized
<1>5. TokensWith(Punctuation) = Line(pre, Punctuation)
  BY <1>3, PunctuationIsNat, TokensAreLine
<1> QED
  BY <1>2, <1>4, <1>5, Zenon

LEMMA InvNoWordMissed == Inv => NoWordMissed
<1> SUFFICES ASSUME Inv, ~MoreMatchers, NEW j \in DOMAIN setup.matchers, NEW p \in ToSet(pre),
                    setup.matchers[j].word # <<>>, p.kind = "unrefined"
             PROVE  ~Occurs(setup.matchers[j].word, p.slice)
  BY Zenon DEF NoWordMissed, Occurs
<1>1. turn - 1 \in Int /\ j <= turn - 1
  BY PreFacts DEF Inv, Held, MoreMatchers
<1>2. PICK P : P = Cleared(setup, msg, turn - 1)
  OBVIOUS
<1>3. pre \in Seq(P)
  BY <1>2, Zenon DEF Inv, Held
<1>4. p \in P
  BY <1>3, SeqRange
<1> QED
  BY <1>1, <1>2, <1>4, Zenon DEF Cleared

\* What the scan of the special matchers and the split keep at every step.
THEOREM TokenizerInvariant == Spec => []Inv
<1>1. Init => Inv
  BY InitInv
<1>2. Inv /\ [Next]_vars => Inv'
  BY NextInv
<1> QED
  BY <1>1, <1>2, PTL DEF Spec

\* TokenizeInto's slices and indices stay within the line, and no token is empty.
THEOREM TokenizerTypeOK == Spec => []TypeOK
  BY TokenizerInvariant, InvType, PTL

\* No text is lost while special matchers cut the line, nor when the rest of it
\* is split: the tokens spell the line (but for matchers of the empty string).
THEOREM TokenizerNothingLost == Spec => []NothingLost
  BY TokenizerInvariant, InvNothingLost, PTL

\* Whichever of the scalar loop and the vector kernel splits it, a line's tokens
\* are its spaces, its symbols and the whole segments between them, each of its
\* kind.
THEOREM TokenizerTokensExact == Spec => []TokensExact
  BY TokenizerInvariant, InvTokensExact, PTL

\* The destination that splitTokenCount sizes is exactly filled.
THEOREM TokenizerSplitCounted == Spec => []SplitCounted
  BY TokenizerInvariant, InvSplitCounted, PTL

\* retokenizeTokensWithSymbolsInto makes of a line's tokens what tokenizing it
\* again with all punctuation would.
THEOREM TokenizerRetokenizeExact == Spec => []RetokenizeExact
  BY TokenizerInvariant, InvRetokenize, PTL

\* After its turn, no special word is left in the text that is still to be split.
THEOREM TokenizerNoWordMissed == Spec => []NoWordMissed
  BY TokenizerInvariant, InvNoWordMissed, PTL
=============================================================================
