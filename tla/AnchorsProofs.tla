--------------------------- MODULE AnchorsProofs ---------------------------
(***************************************************************************)
(* The anchors of a row are right for every corpus: Kosaraju's two passes   *)
(* find the strongly connected components of the dependency graph.  That a  *)
(* token leads to another is stated through the sets that no edge leaves:   *)
(* an induction along a path is then an instance of the definition.         *)
(***************************************************************************)
EXTENDS Anchors, BasicLemmas

\* No edge leaves X.
Closed(X, E) == \A e \in E : e[1] \in X => e[2] \in X

\* b lies in every set that holds a and that no edge leaves: a path joins them.
Leads(N, E, a, b) == \A X \in SUBSET N : a \in X /\ Closed(X, E) => b \in X

\* The two lie in one strongly connected component.
Tied(N, E, a, b) == Leads(N, E, a, b) /\ Leads(N, E, b, a)
-----------------------------------------------------------------------------
\* A node leads to itself.
LEMMA LeadsSelf ==
    ASSUME NEW N, NEW E, NEW a
    PROVE  Leads(N, E, a, a)
  BY DEF Leads

\* An edge leads to its end.
LEMMA LeadsEdge ==
    ASSUME NEW N, NEW E, NEW a, NEW b, <<a, b>> \in E
    PROVE  Leads(N, E, a, b)
  BY DEF Leads, Closed

\* What is led to leads on.
LEMMA LeadsOn ==
    ASSUME NEW N, NEW E, NEW a, NEW b, NEW c, Leads(N, E, a, b), Leads(N, E, b, c)
    PROVE  Leads(N, E, a, c)
  BY Zenon DEF Leads

\* Nothing leads out of the nodes.
LEMMA LeadsInside ==
    ASSUME NEW N, NEW E \in SUBSET (N \X N), NEW a \in N, NEW b, Leads(N, E, a, b)
    PROVE  b \in N
<1>1. N \in SUBSET N /\ Closed(N, E)
  BY DEF Closed
<1> QED
  BY <1>1, Zenon DEF Leads

\* The pairs of S carried along one edge.
OneMore(S, E) ==
    {<<q[1][1], q[2][2]>> : q \in {r \in S \X E : r[1][2] = r[2][1]}}

\* A pair of one edge more is a pair and an edge that begins where it ends.
LEMMA OneMoreMeans ==
    ASSUME NEW S, NEW E, NEW x
    PROVE  x \in OneMore(S, E) <=> \E p \in S, e \in E : p[2] = e[1] /\ x = <<p[1], e[2]>>
<1>1. ASSUME x \in OneMore(S, E)
      PROVE  \E p \in S, e \in E : p[2] = e[1] /\ x = <<p[1], e[2]>>
  <2>1. PICK q \in S \X E : q[1][2] = q[2][1] /\ x = <<q[1][1], q[2][2]>>
    BY <1>1 DEF OneMore
  <2>2. q[1] \in S /\ q[2] \in E
    BY <2>1
  <2> QED
    BY <2>1, <2>2, Zenon
<1>2. ASSUME NEW p \in S, NEW e \in E, p[2] = e[1], x = <<p[1], e[2]>>
      PROVE  x \in OneMore(S, E)
  <2>1. <<p, e>> \in S \X E /\ <<p, e>>[1] = p /\ <<p, e>>[2] = e
    OBVIOUS
  <2> QED
    BY <1>2, <2>1, Zenon DEF OneMore
<1> QED
  BY <1>1, <1>2, Zenon

\* w[k] holds the pairs joined by at most k edges.
IsWithin(N, E, n, w) ==
    w = [k \in 0 .. n |-> IF k = 0 THEN {<<t, t>> : t \in N}
                          ELSE w[k - 1] \cup OneMore(w[k - 1], E)]

\* Reach is the last of the sets such a recursion gives.
LEMMA ReachLast ==
    ASSUME NEW N, NEW E
    PROVE  Reach(N, E) = (CHOOSE w : IsWithin(N, E, Cardinality(N), w))[Cardinality(N)]
  BY Zenon DEF Reach, IsWithin, OneMore

\* One more step extends it.
LEMMA WithinExtends ==
    ASSUME NEW N, NEW E, NEW n \in Nat, NEW f, IsWithin(N, E, n, f)
    PROVE  \E g : IsWithin(N, E, n + 1, g)
<1> DEFINE last == f[n] \cup OneMore(f[n], E)
           g == [k \in 0 .. n + 1 |-> IF k = n + 1 THEN last ELSE f[k]]
<1>1. ASSUME NEW k \in 0 .. n + 1
      PROVE  g[k] = IF k = 0 THEN {<<t, t>> : t \in N} ELSE g[k - 1] \cup OneMore(g[k - 1], E)
  <2>1. CASE k = n + 1
    <3>1. k - 1 \in 0 .. n + 1 /\ k - 1 # n + 1 /\ k # 0 /\ k - 1 = n
      BY <2>1
    <3> HIDE DEF last
    <3>2. g[k - 1] = f[n] /\ g[k] = last
      BY <2>1, <3>1
    <3> QED
      BY <3>1, <3>2 DEF last
  <2>2. CASE k # n + 1
    <3>1. k \in 0 .. n
      BY <2>2
    <3>2. f[k] = IF k = 0 THEN {<<t, t>> : t \in N} ELSE f[k - 1] \cup OneMore(f[k - 1], E)
      BY <3>1, Zenon DEF IsWithin
    <3>3. k # 0 => k - 1 \in 0 .. n + 1 /\ k - 1 # n + 1
      BY <3>1
    <3> HIDE DEF last
    <3>4. g[k] = f[k] /\ (k # 0 => g[k - 1] = f[k - 1])
      BY <2>2, <3>3, Zenon
    <3> QED
      BY <3>2, <3>4, Zenon
  <2> QED
    BY <2>1, <2>2
<1>2. IsWithin(N, E, n + 1, g)
  BY <1>1, Zenon DEF IsWithin
<1> QED
  BY <1>2

\* So it exists, for every number of steps.
LEMMA WithinExists ==
    ASSUME NEW N, NEW E, NEW n \in Nat
    PROVE  \E w : IsWithin(N, E, n, w)
<1> DEFINE bad == {m \in Nat : ~\E w : IsWithin(N, E, m, w)}
<1>1. SUFFICES ASSUME bad # {}
               PROVE  FALSE
  BY Zenon
<1>2. PICK m \in bad : \A k \in bad : m <= k
  <2> HIDE DEF bad
  <2>1. bad \in SUBSET Nat
    BY Zenon DEF bad
  <2> QED
    BY <1>1, <2>1, LeastNat
<1>3. m \in Nat /\ ~\E w : IsWithin(N, E, m, w)
  BY Zenon
<1>4. CASE m = 0
  <2> DEFINE w == [k \in 0 .. 0 |-> {<<t, t>> : t \in N}]
  <2>1. \A k \in 0 .. 0 : k = 0
    OBVIOUS
  <2>2. w = [k \in 0 .. 0 |-> IF k = 0 THEN {<<t, t>> : t \in N}
                              ELSE w[k - 1] \cup OneMore(w[k - 1], E)]
    BY <2>1, Zenon
  <2> QED
    BY <1>3, <1>4, <2>2, Zenon DEF IsWithin
<1>5. CASE m # 0
  <2>1. m - 1 \in Nat /\ m - 1 \notin bad /\ (m - 1) + 1 = m
    <3> HIDE DEF bad
    <3> QED
      BY <1>2, <1>3, <1>5
  <2>2. \E w : IsWithin(N, E, m - 1, w)
    BY <2>1, Zenon
  <2>3. \E g : IsWithin(N, E, (m - 1) + 1, g)
    BY <2>1, <2>2, WithinExtends
  <2> QED
    BY <1>3, <2>1, <2>3
<1> QED
  BY <1>4, <1>5

\* Reach is the last of the sets of pairs joined by ever more edges.
LEMMA ReachSteps ==
    ASSUME NEW N, NEW E, IsFiniteSet(N)
    PROVE  \E w : /\ DOMAIN w = 0 .. Cardinality(N)
                  /\ w[0] = {<<t, t>> : t \in N}
                  /\ \A k \in 1 .. Cardinality(N) : w[k] = w[k - 1] \cup OneMore(w[k - 1], E)
                  /\ Reach(N, E) = w[Cardinality(N)]
<1> DEFINE n == Cardinality(N)
           w == CHOOSE w : IsWithin(N, E, n, w)
<1>1. n \in Nat
  BY FS_CardinalityType
<1>2. IsWithin(N, E, n, w)
  BY <1>1, WithinExists
<1>3. Reach(N, E) = w[n]
  BY ReachLast, Zenon
<1> HIDE DEF w, n
<1>4. DOMAIN w = 0 .. n /\ \A k \in 0 .. n : w[k] = IF k = 0 THEN {<<t, t>> : t \in N}
                                  ELSE w[k - 1] \cup OneMore(w[k - 1], E)
  BY <1>2, Zenon DEF IsWithin
<1>5. 0 \in 0 .. n /\ \A k \in 1 .. n : k \in 0 .. n /\ k # 0
  BY <1>1
<1>6. w[0] = {<<t, t>> : t \in N} /\ \A k \in 1 .. n : w[k] = w[k - 1] \cup OneMore(w[k - 1], E)
  BY <1>4, <1>5, Zenon
<1> QED
  BY <1>3, <1>4, <1>6, Zenon DEF n

\* X[k]: what is reached within k edges from the nodes of X[0].
IsGrowth(N, E, n, X) ==
    /\ DOMAIN X = 0 .. n
    /\ X[0] # {}
    /\ \A k \in 0 .. n : X[k] \in SUBSET N
    /\ \A k \in 1 .. n :
          X[k] = X[k - 1] \cup {c \in N : \E e \in E : e[1] \in X[k - 1] /\ e[2] = c}

\* As many steps as there are nodes, and no edge leaves it.
LEMMA GrowthEnds ==
    ASSUME NEW N, IsFiniteSet(N), NEW E \in SUBSET (N \X N),
           NEW X, IsGrowth(N, E, Cardinality(N), X)
    PROVE  Closed(X[Cardinality(N)], E)
<1> USE DEF IsGrowth
<1> DEFINE n == Cardinality(N)
           size(k) == Cardinality(X[k])
           small == {k \in 0 .. n : size(k) < k + 1}
<1>1. n \in Nat
  BY FS_CardinalityType
<1>2. \A k \in 0 .. n : IsFiniteSet(X[k]) /\ size(k) \in Nat /\ size(k) <= n
  <2> TAKE k \in 0 .. n
  <2>1. IsFiniteSet(X[k]) /\ Cardinality(X[k]) <= Cardinality(N)
    BY FS_Subset
  <2> QED
    BY <2>1, FS_CardinalityType
<1> SUFFICES ASSUME ~Closed(X[n], E)
             PROVE  FALSE
  OBVIOUS
<1> HIDE DEF n
<1>3. ASSUME NEW k \in 1 .. n, Closed(X[k - 1], E)
      PROVE  Closed(X[k], E)
  <2>1. X[k] = X[k - 1] \cup {c \in N : \E e \in E : e[1] \in X[k - 1] /\ e[2] = c}
    BY Zenon DEF n
  <2>2. \A c \in N : (\E e \in E : e[1] \in X[k - 1] /\ e[2] = c) => c \in X[k - 1]
    BY <1>3, ZenonT(60) DEF Closed
  <2>3. X[k] = X[k - 1]
    BY <2>1, <2>2, Zenon
  <2> QED
    BY <1>3, <2>3
<1>4. ASSUME NEW j \in 0 .. n
      PROVE  ~Closed(X[j], E)
  <2> SUFFICES ASSUME Closed(X[j], E)
               PROVE  FALSE
    OBVIOUS
  <2> DEFINE late == {i \in 0 .. n : j <= i /\ ~Closed(X[i], E)}
  <2>1. n \in late /\ late \in SUBSET Nat
    BY <1>1, <1>4
  <2>2. PICK i \in late : \A k \in late : i <= k
    <3> HIDE DEF late
    <3> QED
      BY <2>1, LeastNat
  <2>3. i \in 0 .. n /\ j <= i /\ ~Closed(X[i], E)
    OBVIOUS
  <2> HIDE DEF late
  <2>4. i # j
    BY <2>3
  <2>5. i \in 1 .. n /\ i - 1 \in 0 .. n /\ j <= i - 1 /\ i - 1 \notin late
    BY <1>1, <2>2, <2>3, <2>4
  <2>6. Closed(X[i - 1], E)
    BY <2>5, Zenon DEF late
  <2> QED
    BY <1>3, <2>3, <2>5, <2>6
<1>5. small = {}
  <2> SUFFICES ASSUME small # {}
               PROVE  FALSE
    OBVIOUS
  <2>1. PICK k \in small : \A j \in small : k <= j
    <3>1. small \in SUBSET Nat
      BY <1>1
    <3> HIDE DEF small
    <3> QED
      BY <3>1, LeastNat
  <2>2. k \in 0 .. n /\ size(k) < k + 1
    OBVIOUS
  <2> HIDE DEF small
  <2>3. CASE k = 0
    <3>1. Cardinality(X[0]) # 0
      BY <1>2, <2>2, <2>3, FS_EmptySet
    <3>2. size(0) = 0
      BY <1>2, <2>2, <2>3
    <3> QED
      BY <3>1, <3>2
  <2>4. CASE k # 0
    <3>1. k \in 1 .. n /\ k - 1 \in 0 .. n /\ k - 1 \notin small
      BY <1>1, <2>1, <2>2, <2>4
    <3>2. ~(size(k - 1) < (k - 1) + 1)
      BY <3>1, Zenon DEF small
    <3>3. PICK e \in E : e[1] \in X[k - 1] /\ e[2] \notin X[k - 1]
      BY <1>4, <3>1, Zenon DEF Closed
    <3>4. e[2] \in N
      BY <3>3
    <3>5. X[k] = X[k - 1] \cup {c \in N : \E f \in E : f[1] \in X[k - 1] /\ f[2] = c}
      BY <3>1, Zenon DEF n
    <3>6. (X[k - 1] \cup {e[2]}) \in SUBSET X[k]
      BY <3>3, <3>4, <3>5, Zenon
    <3>7. Cardinality(X[k - 1] \cup {e[2]}) = Cardinality(X[k - 1]) + 1
      <4>1. PICK Y, y : Y = X[k - 1] /\ y = e[2]
        OBVIOUS
      <4>2. IsFiniteSet(Y) /\ y \notin Y
        BY <1>2, <3>1, <3>3, <4>1
      <4>3. Cardinality(Y \cup {y}) = Cardinality(Y) + 1
        BY <4>2, FS_AddElement
      <4> QED
        BY <4>1, <4>3
    <3>8. Cardinality(X[k - 1] \cup {e[2]}) <= Cardinality(X[k])
      BY <1>2, <2>2, <3>6, FS_Subset
    <3>9. size(k - 1) \in Nat /\ size(k) \in Nat
      BY <1>2, <2>2, <3>1
    <3>10. size(k - 1) + 1 <= size(k)
      BY <3>7, <3>8
    <3> HIDE DEF size
    <3> QED
      BY <1>1, <2>2, <3>2, <3>9, <3>10
  <2> QED
    BY <2>3, <2>4
<1>6. n \in 0 .. n /\ ~(n <= size(n) - 1)
  BY <1>1, <1>2
<1>7. n \in small
  BY <1>1, <1>2, <1>6
<1> QED
  BY <1>5, <1>7

\* Reach joins the nodes that lead to each other.
LEMMA ReachMeans ==
    ASSUME NEW N, IsFiniteSet(N), NEW E \in SUBSET (N \X N), NEW a \in N, NEW b \in N
    PROVE  <<a, b>> \in Reach(N, E) <=> Leads(N, E, a, b)
<1> DEFINE n == Cardinality(N)
<1>1. n \in Nat
  BY FS_CardinalityType
<1>2. PICK w : /\ DOMAIN w = 0 .. n
               /\ w[0] = {<<t, t>> : t \in N}
               /\ \A k \in 1 .. n : w[k] = w[k - 1] \cup OneMore(w[k - 1], E)
               /\ Reach(N, E) = w[n]
  BY ReachSteps, Zenon
<1> HIDE DEF n
<1> DEFINE good(k) == \A p \in w[k] : p = <<p[1], p[2]>> /\ p[1] \in N /\ p[2] \in N /\ Leads(N, E, p[1], p[2])
           bad == {k \in 0 .. n : ~good(k)}
<1>3. bad = {}
  <2> SUFFICES ASSUME bad # {}
               PROVE  FALSE
    OBVIOUS
  <2>1. PICK k \in bad : \A j \in bad : k <= j
    <3>1. bad \in SUBSET Nat
      BY <1>1
    <3> HIDE DEF bad
    <3> QED
      BY <3>1, LeastNat
  <2>2. k \in 0 .. n /\ ~good(k)
    OBVIOUS
  <2> HIDE DEF bad
  <2>3. CASE k = 0
    <3>1. PICK p \in w[0] : ~(p = <<p[1], p[2]>> /\ p[1] \in N /\ p[2] \in N /\ Leads(N, E, p[1], p[2]))
      BY <2>2, <2>3, Zenon
    <3>2. PICK t \in N : p = <<t, t>>
      BY <1>2, <3>1
    <3> QED
      BY <3>1, <3>2, LeadsSelf
  <2>4. CASE k # 0
    <3>1. k \in 1 .. n /\ k - 1 \in 0 .. n /\ k - 1 \notin bad
      BY <1>1, <2>1, <2>2, <2>4
    <3>2. good(k - 1)
      BY <3>1, Zenon DEF bad
    <3>3. PICK p \in w[k] : ~(p = <<p[1], p[2]>> /\ p[1] \in N /\ p[2] \in N /\ Leads(N, E, p[1], p[2]))
      BY <2>2, Zenon
    <3>4. w[k] = w[k - 1] \cup OneMore(w[k - 1], E)
      BY <1>2, <3>1, Zenon
    <3>5. p \in OneMore(w[k - 1], E)
      BY <3>2, <3>3, <3>4, Zenon
    <3>6. PICK q \in w[k - 1], e \in E : q[2] = e[1] /\ p = <<q[1], e[2]>>
      <4>1. PICK S : S = w[k - 1]
        OBVIOUS
      <4>2. \E q \in S, e \in E : q[2] = e[1] /\ p = <<q[1], e[2]>>
        BY <3>5, <4>1, OneMoreMeans
      <4> QED
        BY <4>1, <4>2
    <3>7. /\ q[1] \in N /\ Leads(N, E, q[1], q[2])
          /\ e[2] \in N /\ e = <<e[1], e[2]>>
      BY <3>2, <3>6
    <3>8. Leads(N, E, q[2], e[2])
      BY <3>6, <3>7, LeadsEdge, Zenon
    <3>9. Leads(N, E, q[1], e[2])
      BY <3>7, <3>8, LeadsOn, Zenon
    <3> QED
      BY <3>3, <3>6, <3>7, <3>9
  <2> QED
    BY <2>3, <2>4
<1>4. ASSUME <<a, b>> \in w[n]
      PROVE  Leads(N, E, a, b)
  <2>1. good(n)
    BY <1>1, <1>3, n \in 0 .. n
  <2>2. Leads(N, E, <<a, b>>[1], <<a, b>>[2])
    BY <1>4, <2>1, Zenon
  <2> QED
    BY <2>2
<1>5. ASSUME Leads(N, E, a, b)
      PROVE  <<a, b>> \in w[n]
  <2> DEFINE X == [k \in 0 .. n |-> {c \in N : <<a, c>> \in w[k]}]
  <2>1. /\ DOMAIN X = 0 .. n
        /\ \A k \in 0 .. n : X[k] = {c \in N : <<a, c>> \in w[k]}
    BY Zenon
  <2>2. 0 \in 0 .. n /\ n \in 0 .. n /\ \A k \in 1 .. n : k \in 0 .. n /\ k - 1 \in 0 .. n
    BY <1>1
  <2> HIDE DEF X
  <2>3. a \in X[0]
    <3>1. <<a, a>> \in {<<t, t>> : t \in N}
      OBVIOUS
    <3>2. <<a, a>> \in w[0] /\ X[0] = {c \in N : <<a, c>> \in w[0]}
      BY <1>2, <2>1, <2>2, <3>1
    <3> QED
      BY <3>2
  <2>4. \A k \in 0 .. n : X[k] \in SUBSET N
    BY <2>1, Zenon
  <2>5. ASSUME NEW k \in 1 .. n
        PROVE  X[k] = X[k - 1] \cup {c \in N : \E e \in E : e[1] \in X[k - 1] /\ e[2] = c}
    <3>1. X[k] = {c \in N : <<a, c>> \in w[k]} /\ X[k - 1] = {c \in N : <<a, c>> \in w[k - 1]}
      BY <2>1, <2>2, Zenon
    <3>2. w[k] = w[k - 1] \cup OneMore(w[k - 1], E) /\ good(k - 1)
      BY <1>2, <1>3, <2>2, Zenon
    <3>3. ASSUME NEW c \in N
          PROVE  <<a, c>> \in OneMore(w[k - 1], E)
                   <=> \E e \in E : e[1] \in X[k - 1] /\ e[2] = c
      <4>1. ASSUME NEW q \in w[k - 1], NEW e \in E, q[2] = e[1], <<a, c>> = <<q[1], e[2]>>
            PROVE  \E f \in E : f[1] \in X[k - 1] /\ f[2] = c
        <5>1. q[1] = a /\ e[2] = c /\ q = <<a, e[1]>>
          BY <3>2, <4>1
        <5>2. e[1] \in N
          BY <3>2, <4>1
        <5> QED
          BY <3>1, <4>1, <5>1, <5>2, Zenon
      <4>2. ASSUME NEW e \in E, e[1] \in X[k - 1], e[2] = c
            PROVE  \E q \in w[k - 1], f \in E : q[2] = f[1] /\ <<a, c>> = <<q[1], f[2]>>
        <5>1. <<a, e[1]>> \in w[k - 1] /\ <<a, e[1]>>[2] = e[1] /\ <<a, e[1]>>[1] = a
          BY <3>1, <4>2
        <5> QED
          BY <4>2, <5>1, Zenon
      <4>3. PICK S, x : S = w[k - 1] /\ x = <<a, c>>
        OBVIOUS
      <4>4. x \in OneMore(S, E) <=> \E q \in S, e \in E : q[2] = e[1] /\ x = <<q[1], e[2]>>
        BY OneMoreMeans
      <4>5. (\E q \in S, e \in E : q[2] = e[1] /\ x = <<q[1], e[2]>>)
               <=> \E e \in E : e[1] \in X[k - 1] /\ e[2] = c
        BY <4>1, <4>2, <4>3, Zenon
      <4> QED
        BY <4>3, <4>4, <4>5, Zenon
    <3> QED
      BY <3>1, <3>2, <3>3, Zenon
  <2>6. Closed(X[n], E)
    <3>1. IsGrowth(N, E, n, X)
      BY <2>1, <2>3, <2>4, <2>5, Zenon DEF IsGrowth
    <3> QED
      BY <3>1, GrowthEnds DEF n
  <2>7. \A k \in 1 .. n : X[k - 1] \subseteq X[k]
    BY <2>5, Zenon
  <2> DEFINE lost == {k \in 0 .. n : a \notin X[k]}
  <2>8. lost = {}
    <3> SUFFICES ASSUME lost # {}
                 PROVE  FALSE
      OBVIOUS
    <3>1. PICK k \in lost : \A j \in lost : k <= j
      <4>1. lost \in SUBSET Nat
        BY <1>1
      <4> HIDE DEF lost
      <4> QED
        BY <4>1, LeastNat
    <3>2. k \in 0 .. n /\ a \notin X[k]
      OBVIOUS
    <3>3. k # 0
      BY <2>3, <3>2
    <3> HIDE DEF lost
    <3>4. k \in 1 .. n /\ k - 1 \in 0 .. n /\ k - 1 \notin lost
      BY <1>1, <3>1, <3>2, <3>3
    <3>5. a \in X[k - 1]
      BY <3>4, Zenon DEF lost
    <3> QED
      BY <2>7, <3>2, <3>4, <3>5, Zenon
  <2>9. a \in X[n] /\ X[n] \in SUBSET N
    BY <2>2, <2>4, <2>8
  <2>10. b \in X[n]
    BY <1>5, <2>6, <2>9, Zenon DEF Leads
  <2> QED
    BY <2>1, <2>2, <2>10, Zenon
<1> QED
  BY <1>2, <1>4, <1>5

\* A component is the nodes tied to one of them.
LEMMA ComponentMeans ==
    ASSUME NEW N, IsFiniteSet(N), NEW E \in SUBSET (N \X N)
    PROVE  /\ \A t \in N : Component(N, E, t) = {u \in N : Tied(N, E, t, u)}
           /\ Components(N, E) = {{u \in N : Tied(N, E, t, u)} : t \in N}
<1>1. \A t, u \in N : (<<t, u>> \in Reach(N, E) /\ <<u, t>> \in Reach(N, E)) <=> Tied(N, E, t, u)
  BY ReachMeans DEF Tied
<1>2. \A t \in N : {u \in N : <<t, u>> \in Reach(N, E) /\ <<u, t>> \in Reach(N, E)}
                     = {u \in N : Tied(N, E, t, u)}
  BY <1>1, Zenon
<1>3. \A t \in N : Component(N, E, t) = {u \in N : Tied(N, E, t, u)}
  BY <1>2, Zenon DEF Component
<1>4. Components(N, E) = {{u \in N : <<t, u>> \in Reach(N, E) /\ <<u, t>> \in Reach(N, E)} : t \in N}
  BY Zenon DEF Components
<1>5. Components(N, E) = {{u \in N : Tied(N, E, t, u)} : t \in N}
  BY <1>2, <1>4, ZenonT(60)
<1> QED
  BY <1>3, <1>5

\* Numbering the nodes changes nothing: i leads to j when their nodes do.
LEMMA LeadsNumbered ==
    ASSUME NEW N, NEW E \in SUBSET (N \X N), NEW V, NEW f, DOMAIN f = V, IsInjective(f),
           {f[v] : v \in V} = N,
           NEW G, G = {e \in V \X V : <<f[e[1]], f[e[2]]>> \in E},
           NEW i \in V, NEW j \in V
    PROVE  Leads(V, G, i, j) <=> Leads(N, E, f[i], f[j])
<1>1. ASSUME Leads(V, G, i, j)
      PROVE  Leads(N, E, f[i], f[j])
  <2> SUFFICES ASSUME NEW X \in SUBSET N, f[i] \in X, Closed(X, E)
               PROVE  f[j] \in X
    BY DEF Leads
  <2> DEFINE Y == {v \in V : f[v] \in X}
  <2>1. Closed(Y, G)
    <3> SUFFICES ASSUME NEW e \in G, e[1] \in Y
                 PROVE  e[2] \in Y
      BY Zenon DEF Closed
    <3>1. e[1] \in V /\ e[2] \in V /\ <<f[e[1]], f[e[2]]>> \in E /\ f[e[1]] \in X
      OBVIOUS
    <3>2. <<f[e[1]], f[e[2]]>>[1] = f[e[1]] /\ <<f[e[1]], f[e[2]]>>[2] = f[e[2]]
      OBVIOUS
    <3>3. f[e[2]] \in X
      BY <3>1, <3>2 DEF Closed
    <3> QED
      BY <3>1, <3>3
  <2>2. j \in Y
    BY <1>1, <2>1, Zenon DEF Leads
  <2> QED
    BY <2>2
<1>2. ASSUME Leads(N, E, f[i], f[j])
      PROVE  Leads(V, G, i, j)
  <2> SUFFICES ASSUME NEW Y \in SUBSET V, i \in Y, Closed(Y, G)
               PROVE  j \in Y
    BY DEF Leads
  <2> DEFINE X == {f[v] : v \in Y}
  <2>1. Closed(X, E)
    <3> SUFFICES ASSUME NEW e \in E, e[1] \in X
                 PROVE  e[2] \in X
      BY Zenon DEF Closed
    <3>1. PICK v \in Y : e[1] = f[v]
      OBVIOUS
    <3>2. e[2] \in N /\ e = <<e[1], e[2]>>
      OBVIOUS
    <3>3. PICK u \in V : e[2] = f[u]
      BY <3>2
    <3>4. <<v, u>> \in G
      BY <3>1, <3>2, <3>3
    <3>5. <<v, u>>[1] = v /\ <<v, u>>[2] = u
      OBVIOUS
    <3>6. u \in Y
      BY <3>4, <3>5, Zenon DEF Closed
    <3> QED
      BY <3>3, <3>6, Zenon
  <2>2. X \in SUBSET N /\ f[i] \in X
    BY Zenon
  <2>3. f[j] \in X
    BY <1>2, <2>1, <2>2, Zenon DEF Leads
  <2>4. PICK v \in Y : f[j] = f[v]
    BY <2>3
  <2> QED
    BY <2>4 DEF IsInjective
<1> QED
  BY <1>1, <1>2
-----------------------------------------------------------------------------
\* The arcs lists of successors stand for, and what leads where along them.
Arcs(a) == {e \in (DOMAIN a) \X (DOMAIN a) : e[2] \in ToSet(a[e[1]])}
To(a, v, u) == Leads(DOMAIN a, Arcs(a), v, u)
Strong(a, v, u) == To(a, v, u) /\ To(a, u, v)
Class(a, v) == {u \in DOMAIN a : Strong(a, v, u)}

\* Types, and what is empty outside its pass.
Shapes ==
    /\ corpus \in Corpora /\ threshold \in Thresholds
    /\ row \in 0 .. Len(corpus.rows)
    /\ pc \in {"idle", "nodes", "edges", "pass1", "pass2", "special", "done"}
    /\ pc # "idle" => row # 0
    /\ epoch \in Nat
    /\ nodeEpoch \in [TokenIds -> 0 .. epoch]
    /\ nodeKinds \in [TokenIds -> SUBSET STRING]
    /\ nodes \in Seq(Tokens)
    /\ order \in Seq(1 .. Len(adj)) /\ adj \in Seq(Seq(Nat))
    /\ pc # "pass1" => frames = <<>>
    /\ pc # "pass2" => stack = <<>> /\ comp = <<>>
    /\ anchors \in SUBSET Tokens
    /\ runs \in 0 .. MaxRuns(corpus)
    /\ pc # "idle" => runs < MaxRuns(corpus)

\* The marks of this epoch, and no others, tell which tokens have a node.
Collecting ==
    pc = "nodes" =>
        /\ next \in 1 .. Len(Line) + 1
        /\ IsInjective(nodes)
        /\ ToSet(nodes) = {t \in {Line[j] : j \in 1 .. next - 1} : Occ(t.id) # 0}
        /\ \A id \in TokenIds : SeenKinds(id) = {t.kind : t \in {t \in ToSet(nodes) : t.id = id}}

\* The row's counted tokens have a node each.
Collected ==
    /\ pc \in {"edges", "pass1", "pass2", "special", "done"} =>
          IsInjective(nodes) /\ ToSet(nodes) = RowNodes
    /\ pc \in {"edges", "pass1", "pass2"} => numNodes > 1

\* The lists hold the edges of the row's graph, forward and back.
Graphed ==
    pc \in {"pass1", "pass2"} =>
        /\ DOMAIN adj = 1 .. numNodes /\ DOMAIN rev = 1 .. numNodes
        /\ \A v \in 1 .. numNodes :
              /\ adj[v] \in Seq(1 .. numNodes) /\ rev[v] \in Seq(1 .. numNodes)
              /\ ToSet(adj[v]) = {u \in 1 .. numNodes : <<nodes[v], nodes[u]>> \in RowEdges}
              /\ ToSet(rev[v]) = {u \in 1 .. numNodes : v \in ToSet(adj[u])}
              /\ IsInjective(rev[v])

\* The nodes whose search is not finished.
Open == {frames[k].v : k \in DOMAIN frames}

\* What the i-th node finished leads to was finished before it, or its component
\* is not: it has a node on the stack, or one finished later.
Settled(i) ==
    \A b \in DOMAIN adj : To(adj, order[i], b) =>
        \/ \E j \in 1 .. i : order[j] = b
        \/ \E y \in Open : Strong(adj, order[i], y)
        \/ \E k \in i + 1 .. Len(order) : Strong(adj, order[i], order[k])

\* The first pass: the frames are a path, a finished node has only visited
\* successors, and every node finished is settled.
Searching ==
    pc = "pass1" =>
        /\ next \in 1 .. numNodes + 1
        /\ frames \in Seq([v : 1 .. numNodes, i : Nat])
        /\ visited = ToSet(order) \cup Open
        /\ 1 .. next - 1 \subseteq visited
        /\ IsInjective(order)
        /\ ToSet(order) \cap Open = {}
        /\ \A k \in DOMAIN frames :
              /\ frames[k].i <= Len(adj[frames[k].v])
              /\ \A j \in 1 .. frames[k].i : adj[frames[k].v][j] \in visited
              /\ \A l \in DOMAIN frames :
                    k < l => frames[k].v # frames[l].v /\ To(adj, frames[k].v, frames[l].v)
        /\ \A v \in ToSet(order) : ToSet(adj[v]) \subseteq visited
        /\ \A i \in DOMAIN order : Settled(i)

\* The component in the making, and the nodes of the components made.
Current == ToSet(comp) \cup ToSet(stack)
Gone == visited \ Current

\* The second pass: no node outside leads to a component made, and everything in
\* the one in the making leads to the node that opened it.
Gathering ==
    pc = "pass2" =>
        /\ IsInjective(order) /\ ToSet(order) = DOMAIN adj
        /\ \A i \in DOMAIN order : Settled(i)
        /\ next \in 0 .. Len(order)
        /\ visited \in SUBSET DOMAIN adj
        /\ \A j \in next + 1 .. Len(order) : order[j] \in Gone
        /\ \A a \in DOMAIN adj, b \in Gone : To(adj, a, b) => a \in Gone
        /\ stack \in Seq(DOMAIN adj) /\ comp \in Seq(DOMAIN adj)
        /\ IsInjective(stack) /\ IsInjective(comp)
        /\ ToSet(comp) \cap ToSet(stack) = {}
        /\ Current \in SUBSET visited
        /\ \A x \in Current : next >= 1 /\ order[next] \in Current /\ To(adj, x, order[next])
        /\ \A x \in ToSet(comp) : ToSet(rev[x]) \subseteq visited

\* The largest so far is a component no other of its size leads to.
Comparing ==
    pc = "pass2" =>
        /\ largest \in Seq(DOMAIN adj) /\ IsInjective(largest)
        /\ largest # <<>> => \E t \in Gone : ToSet(largest) = Class(adj, t)
        /\ \A b \in Gone :
              /\ Cardinality(Class(adj, b)) <= Len(largest)
              /\ \A c \in ToSet(largest) : b \notin ToSet(largest) /\ To(adj, b, c) =>
                    Cardinality(Class(adj, b)) < Len(largest)

\* C is a largest component of the graph, and no other of its size leads to it.
IsBest(N, E, C) ==
    /\ \E t \in N : C = {u \in N : Tied(N, E, t, u)}
    /\ \A t \in N :
          /\ Cardinality({u \in N : Tied(N, E, t, u)}) <= Cardinality(C)
          /\ \A c \in C : t \notin C /\ Leads(N, E, t, c) =>
                Cardinality({u \in N : Tied(N, E, t, u)}) < Cardinality(C)

\* The component chosen, before and after the special tokens.
Chosen ==
    /\ pc = "special" => IsBest(RowNodes, RowEdges, anchors)
    /\ pc = "done" =>
          \/ RowNodes = {} /\ anchors = {}
          \/ \E C \in SUBSET RowNodes :
                /\ IsBest(RowNodes, RowEdges, C)
                /\ anchors = (C \cup OfKind("specialWhite")) \ OfKind("specialBlack")

\* The inductive invariant.
AnchorsInv ==
    Shapes /\ Collecting /\ Collected /\ Graphed /\ Searching /\ Gathering /\ Comparing /\ Chosen

-----------------------------------------------------------------------------
\* A sum over a finite set takes its members one by one, as MapThenSumSet does.
Picked(s) == CHOOSE x \in s : TRUE
SumAt(f, g, s) == IF s = {} THEN 0 ELSE f[Picked(s)] + g[s \ {Picked(s)}]
IsSum(f, S, g) == g = [s \in SUBSET S |-> SumAt(f, g, s)]

Total(f, S) == (CHOOSE g : IsSum(f, S, g))[S]

\* The lines that hold ids are a sum over their rows.
LEMMA WeightIsTotal ==
    ASSUME NEW c, NEW ids
    PROVE  WeightOf(Filter, c, ids)
             = Total(c.counts, {r \in DOMAIN c.rows : ids \subseteq KeptIds(Filter, c.rows[r])})
  BY Zenon DEF WeightOf, MapThenSumSet, MapThenFoldSet, Total, IsSum, SumAt, Picked

\* Which there is, for a finite set: the sums of ever larger subsets.
LEMMA SumExists ==
    ASSUME NEW f, NEW S, IsFiniteSet(S)
    PROVE  \E g : IsSum(f, S, g)
<1> DEFINE Upto(k, g) == /\ g = [s \in SUBSET S |-> g[s]]
                         /\ \A s \in SUBSET S : Cardinality(s) <= k => g[s] = SumAt(f, g, s)
           bad == {k \in Nat : ~\E g : Upto(k, g)}
<1>1. \A s \in SUBSET S : IsFiniteSet(s) /\ Cardinality(s) \in Nat /\ Cardinality(s) <= Cardinality(S)
  BY FS_Subset, FS_CardinalityType
<1>2. \A s \in SUBSET S : s # {} =>
         /\ Picked(s) \in s /\ s \ {Picked(s)} \in SUBSET S
         /\ Cardinality(s \ {Picked(s)}) = Cardinality(s) - 1
  <2> TAKE s \in SUBSET S
  <2> HAVE s # {}
  <2>1. Picked(s) \in s
    BY DEF Picked
  <2>2. PICK x : x = Picked(s)
    OBVIOUS
  <2>3. Cardinality(s \ {x}) = Cardinality(s) - 1
    BY <1>1, <2>1, <2>2, FS_RemoveElement
  <2> QED
    BY <2>1, <2>2, <2>3
<1>3. bad = {}
  <2> SUFFICES ASSUME bad # {}
               PROVE  FALSE
    OBVIOUS
  <2>1. PICK k \in bad : \A j \in bad : k <= j
    <3>1. bad \in SUBSET Nat
      BY Zenon
    <3> HIDE DEF bad
    <3> QED
      BY <3>1, LeastNat
  <2>2. k \in Nat /\ ~\E g : Upto(k, g)
    BY Zenon
  <2> HIDE DEF bad
  <2>3. PICK g : k # 0 => Upto(k - 1, g)
    <3>1. k # 0 => k - 1 \in Nat /\ k - 1 \notin bad
      BY <2>1, <2>2
    <3> QED
      BY <3>1, Zenon DEF bad
  <2> DEFINE h == [s \in SUBSET S |-> IF Cardinality(s) < k THEN g[s] ELSE SumAt(f, g, s)]
  <2>4. h = [s \in SUBSET S |-> h[s]] /\ \A s \in SUBSET S : h[s] = IF Cardinality(s) < k THEN g[s] ELSE SumAt(f, g, s)
    BY Zenon
  <2> HIDE DEF h
  <2>5. ASSUME NEW s \in SUBSET S, Cardinality(s) <= k
        PROVE  h[s] = SumAt(f, h, s)
    <3>1. h[s] = SumAt(f, g, s)
      <4>1. CASE Cardinality(s) < k
        <5>1. Cardinality(s) <= k - 1 /\ k # 0
          BY <1>1, <2>2, <4>1
        <5>2. g[s] = SumAt(f, g, s)
          BY <2>3, <5>1, Zenon
        <5> QED
          BY <2>4, <4>1, <5>2
      <4>2. CASE ~(Cardinality(s) < k)
        BY <2>4, <4>2
      <4> QED
        BY <4>1, <4>2
    <3>2. CASE s = {}
      BY <3>1, <3>2, Zenon DEF SumAt
    <3>3. CASE s # {}
      <4>1. s \ {Picked(s)} \in SUBSET S /\ Cardinality(s \ {Picked(s)}) < k
        BY <1>1, <1>2, <2>2, <2>5, <3>3
      <4>2. h[s \ {Picked(s)}] = g[s \ {Picked(s)}]
        BY <2>4, <4>1, Zenon
      <4> QED
        BY <3>1, <4>2, Zenon DEF SumAt
    <3> QED
      BY <3>2, <3>3
  <2>6. Upto(k, h)
    BY <2>4, <2>5, Zenon
  <2> QED
    BY <2>2, <2>6, Zenon
<1>4. Cardinality(S) \in Nat /\ Cardinality(S) \notin bad
  BY <1>3, FS_CardinalityType
<1>5. PICK g : Upto(Cardinality(S), g)
  BY <1>4, Zenon
<1>6. \A s \in SUBSET S : g[s] = SumAt(f, g, s)
  BY <1>1, <1>5, Zenon
<1>7. IsSum(f, S, g)
  <2>1. g = [s \in SUBSET S |-> g[s]]
    BY <1>5, Zenon
  <2> QED
    BY <1>6, <2>1, Zenon DEF IsSum
<1> QED
  BY <1>7

\* Summed numbers are a number.
LEMMA SumIsNat ==
    ASSUME NEW S, IsFiniteSet(S), NEW f, \A r \in S : f[r] \in Nat
    PROVE  Total(f, S) \in Nat
<1> DEFINE g == CHOOSE g : IsSum(f, S, g)
           bad == {Cardinality(s) : s \in {s \in SUBSET S : g[s] \notin Nat}}
<1>1. \A s \in SUBSET S : g[s] = SumAt(f, g, s)
  <2>1. IsSum(f, S, g)
    BY SumExists
  <2> HIDE DEF g
  <2> QED
    BY <2>1, Zenon DEF IsSum
<1> HIDE DEF g
<1>2. \A s \in SUBSET S : IsFiniteSet(s) /\ Cardinality(s) \in Nat
  BY FS_Subset, FS_CardinalityType
<1>3. bad = {}
  <2> SUFFICES ASSUME bad # {}
               PROVE  FALSE
    OBVIOUS
  <2>1. bad \in SUBSET Nat
    BY <1>2, Zenon
  <2>2. PICK k \in bad : \A j \in bad : k <= j
    <3> HIDE DEF bad
    <3> QED
      BY <2>1, LeastNat
  <2>3. PICK s \in SUBSET S : k = Cardinality(s) /\ g[s] \notin Nat
    OBVIOUS
  <2>4. s # {}
    <3>1. s = {} => g[s] = 0
      BY <1>1, Zenon DEF SumAt
    <3> QED
      BY <2>3, <3>1
  <2>5. PICK x \in s : x = Picked(s)
    BY <2>4 DEF Picked
  <2>6. s \ {x} \in SUBSET S /\ Cardinality(s \ {x}) = k - 1 /\ Cardinality(s \ {x}) \in Nat
    BY <1>2, <2>3, <2>5, FS_RemoveElement
  <2>7. g[s \ {x}] \in Nat
    <3> SUFFICES ASSUME g[s \ {x}] \notin Nat
                 PROVE  FALSE
      OBVIOUS
    <3>1. Cardinality(s \ {x}) \in bad
      BY <2>6, Zenon
    <3> HIDE DEF bad
    <3> QED
      BY <2>1, <2>2, <2>6, <3>1
  <2>8. g[s] = f[x] + g[s \ {x}] /\ f[x] \in Nat
    BY <1>1, <2>3, <2>4, <2>5 DEF SumAt
  <2> QED
    BY <2>3, <2>7, <2>8
<1>4. g[S] \in Nat
  BY <1>3, Zenon
<1> QED
  BY <1>4, Zenon DEF g, Total

\* So counts of lines are numbers.
LEMMA WeightIsNat ==
    ASSUME NEW c \in Corpora, NEW ids
    PROVE  WeightOf(Filter, c, ids) \in Nat
<1>1. c.rows \in Seq(Seq([id : Nat, kind : STRING])) /\ c.counts \in [DOMAIN c.rows -> Nat]
  BY AnchorsAssumption
<1> DEFINE S == {r \in DOMAIN c.rows : ids \subseteq KeptIds(Filter, c.rows[r])}
<1>2. Len(c.rows) \in Nat /\ DOMAIN c.rows = 1 .. Len(c.rows)
  BY <1>1
<1>3. IsFiniteSet(DOMAIN c.rows)
  BY <1>2, CountFromOne
<1>4. IsFiniteSet(S)
  BY <1>3, FS_Subset
<1>5. PICK f, w : f = c.counts /\ w = WeightOf(Filter, c, ids)
  OBVIOUS
<1>6. \A r \in S : f[r] \in Nat
  BY <1>1, <1>5
<1>7. w = Total(f, S)
  BY <1>5, WeightIsTotal, Zenon
<1> HIDE DEF S
<1>8. w \in Nat
  BY <1>4, <1>6, <1>7, SumIsNat
<1> QED
  BY <1>5, <1>8

\* What a record counts is a number, for ids that occur in it or not.
LEMMA CountsAreNat ==
    ASSUME corpus \in Corpora, NEW a, NEW b
    PROVE  Occ(a) \in Nat /\ Co(a, b) \in Nat
  BY WeightIsNat DEF Occ, Co, occ, co

-----------------------------------------------------------------------------
\* A corpus is rows of tokens; a token is its id and its kind.
LEMMA CorpusFacts ==
    ASSUME corpus \in Corpora
    PROVE  /\ corpus.rows \in Seq(Seq([id : Nat, kind : STRING]))
           /\ Len(corpus.rows) \in Nat /\ DOMAIN corpus.rows = 1 .. Len(corpus.rows)
           /\ MaxRuns(corpus) \in Nat
           /\ \A r \in DOMAIN corpus.rows :
                 corpus.rows[r] \in Seq([id : Nat, kind : STRING]) /\ ToSet(corpus.rows[r]) \subseteq Tokens
           /\ \A t \in Tokens : t \in [id : Nat, kind : STRING] /\ t.id \in TokenIds /\ t.kind \in STRING
           /\ \A t, u \in Tokens : t.id = u.id /\ t.kind = u.kind => t = u
<1>1. corpus.rows \in Seq(Seq([id : Nat, kind : STRING])) /\ MaxRuns(corpus) \in Nat
  BY AnchorsAssumption
<1>2. Len(corpus.rows) \in Nat /\ DOMAIN corpus.rows = 1 .. Len(corpus.rows)
  BY <1>1
<1>3. \A r \in DOMAIN corpus.rows : corpus.rows[r] \in Seq([id : Nat, kind : STRING])
  BY <1>1
<1>4. \A r \in DOMAIN corpus.rows : ToSet(corpus.rows[r]) \subseteq [id : Nat, kind : STRING]
  <2> TAKE r \in DOMAIN corpus.rows
  <2>1. PICK s \in Seq([id : Nat, kind : STRING]) : s = corpus.rows[r]
    BY <1>3
  <2>2. ToSet(s) \subseteq [id : Nat, kind : STRING]
    BY SeqRange
  <2> QED
    BY <2>1, <2>2
<1>5. \A r \in DOMAIN corpus.rows : ToSet(corpus.rows[r]) \subseteq Tokens
  BY Zenon DEF Tokens
<1>6. \A t \in Tokens : t \in [id : Nat, kind : STRING]
  BY <1>4, Zenon DEF Tokens
<1>7. \A t \in Tokens : t.id \in TokenIds
  BY Zenon DEF TokenIds
<1>8. \A t \in Tokens : t.kind \in STRING
  BY <1>6
<1>9. \A t, u \in Tokens : t.id = u.id /\ t.kind = u.kind => t = u
  BY <1>6
<1> QED
  BY <1>1, <1>2, <1>3, <1>5, <1>6, <1>7, <1>8, <1>9

\* The row in progress, and the graph of its tokens.
LEMMA RowFacts ==
    ASSUME corpus \in Corpora, row \in 0 .. Len(corpus.rows), row # 0
    PROVE  /\ row \in DOMAIN corpus.rows
           /\ Line \in Seq(Tokens) /\ ToSet(Line) \subseteq Tokens
           /\ RowNodes \in SUBSET Tokens /\ IsFiniteSet(RowNodes)
           /\ RowEdges \in SUBSET (RowNodes \X RowNodes)
<1>1. row \in DOMAIN corpus.rows
  BY CorpusFacts
<1>2. Line \in Seq([id : Nat, kind : STRING]) /\ ToSet(Line) \subseteq Tokens
  BY <1>1, CorpusFacts, Zenon DEF Line
<1>3. PICK l : l = Line
  OBVIOUS
<1>4. Len(l) \in Nat /\ DOMAIN l = 1 .. Len(l) /\ l = [i \in 1 .. Len(l) |-> l[i]]
  BY <1>2, <1>3
<1>5. \A i \in 1 .. Len(l) : l[i] \in Tokens
  BY <1>2, <1>3, <1>4 DEF ToSet
<1>6. l \in Seq(Tokens)
  BY <1>4, <1>5
<1>7. IsFiniteSet(DOMAIN l)
  BY <1>4, CountFromOne
<1>8. IsFiniteSet({l[x] : x \in DOMAIN l})
  BY <1>7, RangeBound
<1>9. IsFiniteSet(ToSet(Line))
  BY <1>3, <1>8, Zenon DEF ToSet
<1>10. RowNodes \in SUBSET ToSet(Line)
  BY Zenon DEF RowNodes
<1>11. IsFiniteSet(RowNodes)
  BY <1>9, <1>10, FS_Subset
<1>12. RowEdges \in SUBSET (RowNodes \X RowNodes)
  BY Zenon DEF RowEdges
<1> QED
  BY <1>1, <1>2, <1>3, <1>6, <1>10, <1>11, <1>12

\* A step that keeps the corpus, the threshold and the row keeps the row's graph.
LEMMA RowKept ==
    ASSUME corpus' = corpus, threshold' = threshold, row' = row
    PROVE  /\ Tokens' = Tokens /\ TokenIds' = TokenIds /\ Line' = Line
           /\ RowNodes' = RowNodes /\ RowEdges' = RowEdges
           /\ \A k : OfKind(k)' = OfKind(k)
           /\ \A id : Occ(id)' = Occ(id)
<1>1. Tokens' = Tokens /\ Line' = Line
  BY DEF Tokens, Line
<1>2. TokenIds' = TokenIds
  BY <1>1, Zenon DEF TokenIds
<1>3. /\ \A id : Occ(id)' = Occ(id)
      /\ \A a, b : Co(a, b)' = Co(a, b)
  BY Zenon DEF Occ, Co
<1>4. RowNodes' = RowNodes
  BY <1>1, <1>3, Zenon DEF RowNodes
<1>5. RowEdges' = RowEdges
  BY <1>3, <1>4, Zenon DEF RowEdges
<1>6. \A k : OfKind(k)' = OfKind(k)
  BY <1>1, Zenon DEF OfKind
<1> QED
  BY <1>1, <1>2, <1>3, <1>4, <1>5, <1>6

\* The corpus and the threshold are those of the parse.
LEMMA ParseKept ==
    ASSUME Next
    PROVE  corpus' = corpus /\ threshold' = threshold
  BY DEF Next, Step, parse, Begin, CollectToken, FewNodes, ManyNodes, BuildGraph, PushRoot,
         FollowEdge, FinishNode, EndPass1, OpenComponent, GrowComponent, CloseComponent,
         EndPass2, Special, Return

\* Nothing has been computed yet.
LEMMA AnchorsInvInit == ASSUME Init PROVE AnchorsInv
<1>1. Len(corpus.rows) \in Nat /\ MaxRuns(corpus) \in Nat /\ corpus \in Corpora
  BY CorpusFacts DEF Init
<1>2. <<>> \in Seq(Tokens) /\ <<>> \in Seq(1 .. Len(<<>>)) /\ <<>> \in Seq(Seq(Nat))
  OBVIOUS
<1>3. 0 \in 0 .. Len(corpus.rows) /\ 0 \in 0 .. 0 /\ 0 \in Nat /\ 0 \in 0 .. MaxRuns(corpus)
  BY <1>1
<1>4. Shapes
  BY <1>1, <1>2, <1>3, Zenon DEF Init, Shapes
<1> QED
  BY <1>4, Zenon DEF Init, AnchorsInv, Collecting, Collected, Graphed, Searching, Gathering, Comparing, Chosen

-----------------------------------------------------------------------------
\* A new row: no mark is of the new epoch.
LEMMA BeginStep == ASSUME AnchorsInv, NEW r \in DOMAIN corpus.rows, Begin(r) PROVE AnchorsInv'
<1> USE DEF AnchorsInv
<1>1. /\ pc' = "nodes" /\ next' = 1 /\ nodes' = <<>> /\ row' = r /\ epoch' = epoch + 1
      /\ corpus' = corpus /\ threshold' = threshold /\ nodeEpoch' = nodeEpoch /\ nodeKinds' = nodeKinds
      /\ frames' = frames /\ stack' = stack /\ comp' = comp /\ order' = order /\ adj' = adj
      /\ anchors' = anchors /\ runs' = runs /\ pc = "idle" /\ runs < MaxRuns(corpus)
  BY DEF Begin, parse, graph, pass1, pass2, history
<1>2. Tokens' = Tokens /\ TokenIds' = TokenIds
  BY <1>1, Zenon DEF Tokens, TokenIds
<1>3. corpus \in Corpora /\ r \in 0 .. Len(corpus.rows) /\ r # 0 /\ r \in 1 .. Len(corpus.rows)
  BY CorpusFacts DEF Shapes
<1>4. Shapes'
  <2>1. epoch' \in Nat
    BY <1>1 DEF Shapes
  <2>2. nodeEpoch' \in [TokenIds' -> 0 .. epoch']
    <3>1. 0 .. epoch \subseteq 0 .. epoch + 1
      BY DEF Shapes
    <3> QED
      BY <1>1, <1>2, <3>1, Zenon DEF Shapes
  <2>3. nodes' \in Seq(Tokens')
    BY <1>1
  <2> QED
    BY <1>1, <1>2, <1>3, <2>1, <2>2, <2>3, Zenon DEF Shapes
<1>5. Collecting'
  <2>1. Line' = corpus.rows[r] /\ Len(Line') \in Nat
    <3>1. Line' = corpus.rows[r]
      BY <1>1 DEF Line
    <3>2. corpus.rows[r] \in Seq([id : Nat, kind : STRING])
      BY <1>3, CorpusFacts, Zenon
    <3> QED
      BY <3>1, <3>2
  <2>2. next' \in 1 .. Len(Line') + 1 /\ 1 .. next' - 1 = {}
    BY <1>1, <2>1
  <2>3. IsInjective(nodes') /\ ToSet(nodes') = {}
    BY <1>1 DEF IsInjective, ToSet
  <2>4. {t \in {Line[j] : j \in 1 .. next - 1} : Occ(t.id) # 0}' = {}
    BY <2>2, Zenon
  <2>5. \A id \in TokenIds' : SeenKinds(id)' = {}
    <3>1. \A id \in TokenIds : nodeEpoch[id] # epoch + 1
      BY DEF Shapes
    <3> QED
      BY <1>1, <1>2, <3>1, Zenon DEF SeenKinds
  <2>6. \A id \in TokenIds' : {t.kind : t \in {t \in ToSet(nodes') : t.id = id}} = {}
    BY <2>3, Zenon
  <2> QED
    BY <2>2, <2>3, <2>4, <2>5, <2>6, Zenon DEF Collecting
<1>6. Collected' /\ Graphed' /\ Searching' /\ Gathering' /\ Comparing' /\ Chosen'
  BY <1>1 DEF Collected, Graphed, Searching, Gathering, Comparing, Chosen
<1> QED
  BY <1>4, <1>5, <1>6, Zenon

\* The token the loop looks at.
LEMMA TokenFacts ==
    ASSUME AnchorsInv, pc = "nodes", next <= Len(Line)
    PROVE  /\ corpus \in Corpora /\ row \in DOMAIN corpus.rows /\ row # 0
           /\ Line \in Seq(Tokens) /\ Len(Line) \in Nat
           /\ next \in 1 .. Len(Line) /\ next + 1 \in 1 .. Len(Line) + 1
           /\ Line[next] \in Tokens /\ Line[next].id \in TokenIds /\ Line[next].kind \in STRING
           /\ {Line[j] : j \in 1 .. (next + 1) - 1} = {Line[j] : j \in 1 .. next - 1} \cup {Line[next]}
<1>1. corpus \in Corpora /\ row \in DOMAIN corpus.rows /\ row # 0 /\ Line \in Seq(Tokens)
  BY RowFacts DEF AnchorsInv, Shapes
<1>2. PICK l, n : l = Line /\ n = next
  OBVIOUS
<1>3. l \in Seq(Tokens) /\ n \in 1 .. Len(l) + 1 /\ n <= Len(l)
  BY <1>1, <1>2 DEF AnchorsInv, Collecting
<1>4. /\ Len(l) \in Nat /\ n \in 1 .. Len(l) /\ n + 1 \in 1 .. Len(l) + 1 /\ l[n] \in Tokens
      /\ \A j : j \in 1 .. (n + 1) - 1 <=> (j \in 1 .. n - 1 \/ j = n)
  BY <1>3
<1>5. {l[j] : j \in 1 .. (n + 1) - 1} = {l[j] : j \in 1 .. n - 1} \cup {l[n]}
  BY <1>4, Zenon
<1>6. l[n].id \in TokenIds /\ l[n].kind \in STRING
  BY <1>1, <1>4, CorpusFacts
<1> QED
  BY <1>1, <1>2, <1>4, <1>5, <1>6

\* A token is given a node unless its kind has one already under this epoch.
LEMMA CollectTokenStep == ASSUME AnchorsInv, CollectToken PROVE AnchorsInv'
<1> DEFINE tok == Line[next]
<1>1. /\ pc = "nodes" /\ next <= Len(Line) /\ pc' = pc /\ next' = next + 1
      /\ corpus' = corpus /\ threshold' = threshold /\ row' = row /\ epoch' = epoch
      /\ frames' = frames /\ order' = order /\ stack' = stack /\ comp' = comp /\ adj' = adj
      /\ anchors' = anchors /\ runs' = runs
  BY DEF CollectToken, parse, graph, pass1, pass2, history
<1>2. \/ /\ Occ(tok.id) = 0
         /\ nodes' = nodes /\ nodeEpoch' = nodeEpoch /\ nodeKinds' = nodeKinds
      \/ /\ Occ(tok.id) # 0
         /\ nodeEpoch' = [nodeEpoch EXCEPT ![tok.id] = epoch]
         /\ nodeKinds' = [nodeKinds EXCEPT ![tok.id] = SeenKinds(tok.id) \cup {tok.kind}]
         /\ nodes' = IF tok.kind \in SeenKinds(tok.id) THEN nodes ELSE Append(nodes, tok)
  BY DEF CollectToken
<1>3. /\ corpus \in Corpora /\ row \in DOMAIN corpus.rows /\ row # 0
      /\ next \in 1 .. Len(Line) /\ next + 1 \in 1 .. Len(Line) + 1
      /\ tok \in Tokens /\ tok.id \in TokenIds /\ tok.kind \in STRING
      /\ {Line[j] : j \in 1 .. (next + 1) - 1} = {Line[j] : j \in 1 .. next - 1} \cup {tok}
  BY <1>1, TokenFacts, Zenon
<1>4. /\ nodes \in Seq(Tokens) /\ IsInjective(nodes) /\ ToSet(nodes) \subseteq Tokens
      /\ ToSet(nodes) = {t \in {Line[j] : j \in 1 .. next - 1} : Occ(t.id) # 0}
      /\ \A id \in TokenIds : SeenKinds(id) = {t.kind : t \in {t \in ToSet(nodes) : t.id = id}}
  <2>1. nodes \in Seq(Tokens)
    BY DEF AnchorsInv, Shapes
  <2> QED
    BY <1>1, <2>1, SeqRange, Zenon DEF AnchorsInv, Collecting
<1>5. /\ nodeEpoch \in [TokenIds -> 0 .. epoch] /\ nodeKinds \in [TokenIds -> SUBSET STRING]
      /\ epoch \in Nat
  BY DEF AnchorsInv, Shapes
<1> HIDE DEF tok
<1>6. SeenKinds(tok.id) \in SUBSET STRING
  BY <1>3, <1>5 DEF SeenKinds
<1>7. tok.kind \in SeenKinds(tok.id) <=> tok \in ToSet(nodes)
  <2>1. ASSUME tok.kind \in SeenKinds(tok.id)
        PROVE  tok \in ToSet(nodes)
    <3>1. PICK t \in ToSet(nodes) : t.id = tok.id /\ t.kind = tok.kind
      <4>1. tok.kind \in {t.kind : t \in {t \in ToSet(nodes) : t.id = tok.id}}
        BY <1>3, <1>4, <2>1
      <4> QED
        BY <4>1
    <3>2. t = tok
      BY <1>3, <1>4, <3>1, CorpusFacts, Zenon
    <3> QED
      BY <3>1, <3>2
  <2> QED
    BY <1>3, <1>4, <2>1, Zenon
<1>8. /\ nodes' \in Seq(Tokens) /\ IsInjective(nodes')
      /\ ToSet(nodes') = ToSet(nodes) \cup (IF Occ(tok.id) = 0 THEN {} ELSE {tok})
  <2>1. CASE Occ(tok.id) = 0
    BY <1>2, <1>4, <2>1
  <2>2. CASE Occ(tok.id) # 0 /\ tok \in ToSet(nodes)
    BY <1>2, <1>4, <1>7, <2>2
  <2>3. CASE Occ(tok.id) # 0 /\ tok \notin ToSet(nodes)
    <3>1. nodes' = Append(nodes, tok)
      BY <1>2, <1>7, <2>3
    <3>2. PICK s, t : s = nodes /\ t = tok
      OBVIOUS
    <3>3. s \in Seq(Tokens) /\ t \in Tokens /\ IsInjective(s) /\ t \notin ToSet(s)
      BY <1>3, <1>4, <2>3, <3>2
    <3>4. IsInjective(Append(s, t)) /\ Append(s, t) \in Seq(Tokens) /\ ToSet(Append(s, t)) = ToSet(s) \cup {t}
      BY <3>3, InjectiveAppend
    <3> QED
      BY <2>3, <3>1, <3>2, <3>4
  <2> QED
    BY <2>1, <2>2, <2>3
<1>9. /\ nodeEpoch' \in [TokenIds -> 0 .. epoch] /\ nodeKinds' \in [TokenIds -> SUBSET STRING]
  <2>1. epoch \in 0 .. epoch
    BY <1>5
  <2>2. SeenKinds(tok.id) \cup {tok.kind} \in SUBSET STRING
    BY <1>3, <1>6
  <2> QED
    BY <1>2, <1>5, <2>1, <2>2
<1>10. \A id \in TokenIds : SeenKinds(id)' =
          SeenKinds(id) \cup (IF Occ(tok.id) # 0 /\ id = tok.id THEN {tok.kind} ELSE {})
  <2> SUFFICES ASSUME NEW id \in TokenIds
               PROVE  SeenKinds(id)' =
                        SeenKinds(id) \cup (IF Occ(tok.id) # 0 /\ id = tok.id THEN {tok.kind} ELSE {})
    OBVIOUS
  <2>1. SeenKinds(id)' = IF nodeEpoch'[id] = epoch THEN nodeKinds'[id] ELSE {}
    BY <1>1 DEF SeenKinds
  <2>2. CASE Occ(tok.id) = 0
    BY <1>2, <2>1, <2>2 DEF SeenKinds
  <2>3. CASE Occ(tok.id) # 0 /\ id = tok.id
    <3>1. nodeEpoch'[id] = epoch /\ nodeKinds'[id] = SeenKinds(tok.id) \cup {tok.kind}
      BY <1>2, <1>5, <2>3
    <3> QED
      BY <2>1, <2>3, <3>1
  <2>4. CASE Occ(tok.id) # 0 /\ id # tok.id
    <3>1. nodeEpoch'[id] = nodeEpoch[id] /\ nodeKinds'[id] = nodeKinds[id]
      BY <1>2, <1>5, <2>4
    <3> QED
      BY <2>1, <2>4, <3>1 DEF SeenKinds
  <2> QED
    BY <2>2, <2>3, <2>4
<1>11. /\ Tokens' = Tokens /\ TokenIds' = TokenIds /\ Line' = Line
       /\ \A id : Occ(id)' = Occ(id)
  BY <1>1, RowKept, Zenon
<1>12. Shapes'
  BY <1>1, <1>8, <1>9, <1>11, Zenon DEF AnchorsInv, Shapes
<1>13. Collecting'
  <2>1. ToSet(nodes') = {t \in {Line[j] : j \in 1 .. next' - 1} : Occ(t.id) # 0}
    <3>1. {Line[j] : j \in 1 .. next' - 1} = {Line[j] : j \in 1 .. next - 1} \cup {tok}
      BY <1>1, <1>3
    <3>2. \A t : t \in ToSet(nodes') <=>
                   t \in {Line[j] : j \in 1 .. next - 1} \cup {tok} /\ Occ(t.id) # 0
      BY <1>4, <1>8, Zenon
    <3> QED
      BY <3>1, <3>2, Zenon
  <2>2. \A id \in TokenIds : SeenKinds(id)' = {t.kind : t \in {t \in ToSet(nodes') : t.id = id}}
    <3> SUFFICES ASSUME NEW id \in TokenIds
                 PROVE  SeenKinds(id)' = {t.kind : t \in {t \in ToSet(nodes') : t.id = id}}
      OBVIOUS
    <3>1. SeenKinds(id) = {t.kind : t \in {t \in ToSet(nodes) : t.id = id}}
      BY <1>4
    <3>2. CASE Occ(tok.id) = 0
      <4>1. SeenKinds(id)' = SeenKinds(id) /\ ToSet(nodes') = ToSet(nodes)
        BY <1>8, <1>10, <3>2
      <4> QED
        BY <3>1, <4>1, Zenon
    <3>3. CASE Occ(tok.id) # 0
      <4>1. /\ SeenKinds(id)' = SeenKinds(id) \cup (IF id = tok.id THEN {tok.kind} ELSE {})
            /\ ToSet(nodes') = ToSet(nodes) \cup {tok}
        BY <1>8, <1>10, <3>3
      <4> QED
        BY <3>1, <4>1, Zenon
    <3> QED
      BY <3>2, <3>3
  <2>3. next' \in 1 .. Len(Line) + 1
    BY <1>1, <1>3
  <2>4. ToSet(nodes') = {t \in {Line[j] : j \in 1 .. next - 1} : Occ(t.id) # 0}'
    BY <1>11, <2>1, Zenon
  <2> QED
    BY <1>8, <1>11, <2>2, <2>3, <2>4, Zenon DEF Collecting
<1>14. Collected' /\ Graphed' /\ Searching' /\ Gathering' /\ Comparing' /\ Chosen'
  BY <1>1 DEF Collected, Graphed, Searching, Gathering, Comparing, Chosen
<1> QED
  BY <1>12, <1>13, <1>14, Zenon DEF AnchorsInv

\* The loop over the tokens ends with a node for each token that was counted.
LEMMA AllCollected ==
    ASSUME AnchorsInv, pc = "nodes", next > Len(Line)
    PROVE  /\ corpus \in Corpora /\ row \in DOMAIN corpus.rows /\ row # 0
           /\ nodes \in Seq(Tokens) /\ IsInjective(nodes) /\ ToSet(nodes) = RowNodes
           /\ RowNodes \in SUBSET Tokens /\ IsFiniteSet(RowNodes)
           /\ RowEdges \in SUBSET (RowNodes \X RowNodes)
<1>1. /\ corpus \in Corpora /\ row \in DOMAIN corpus.rows /\ row # 0 /\ Line \in Seq(Tokens)
      /\ RowNodes \in SUBSET Tokens /\ IsFiniteSet(RowNodes)
      /\ RowEdges \in SUBSET (RowNodes \X RowNodes)
  BY RowFacts DEF AnchorsInv, Shapes
<1>2. /\ nodes \in Seq(Tokens) /\ IsInjective(nodes)
      /\ ToSet(nodes) = {t \in {Line[j] : j \in 1 .. next - 1} : Occ(t.id) # 0}
  BY DEF AnchorsInv, Shapes, Collecting
<1>3. PICK l, n : l = Line /\ n = next
  OBVIOUS
<1>4. l \in Seq(Tokens) /\ n \in 1 .. Len(l) + 1 /\ n > Len(l)
  BY <1>1, <1>3 DEF AnchorsInv, Collecting
<1>5. 1 .. n - 1 = 1 .. Len(l) /\ DOMAIN l = 1 .. Len(l)
  BY <1>4
<1>6. {l[j] : j \in 1 .. n - 1} = ToSet(l)
  BY <1>5, Zenon DEF ToSet
<1>7. {Line[j] : j \in 1 .. next - 1} = ToSet(Line)
  BY <1>3, <1>6
<1>8. ToSet(nodes) = RowNodes
  BY <1>2, <1>7, Zenon DEF RowNodes
<1> QED
  BY <1>1, <1>2, <1>8

\* A single node is the component, and the best.
LEMMA SingleIsBest ==
    ASSUME NEW t, NEW E
    PROVE  IsBest({t}, E, {t})
<1>1. Tied({t}, E, t, t)
  BY LeadsSelf DEF Tied
<1>2. {u \in {t} : Tied({t}, E, t, u)} = {t}
  BY <1>1
<1>3. Cardinality({t}) \in Nat
  BY FS_Singleton, FS_CardinalityType
<1>4. Cardinality({t}) <= Cardinality({t})
  BY <1>3
<1> QED
  BY <1>2, <1>4, Zenon DEF IsBest

\* A row with one counted token has it for its component, one with none has no anchors.
LEMMA FewNodesStep == ASSUME AnchorsInv, FewNodes PROVE AnchorsInv'
<1>1. /\ pc = "nodes" /\ next > Len(Line) /\ Len(nodes) <= 1 /\ anchors' = ToSet(nodes)
      /\ pc' = IF Len(nodes) = 0 THEN "done" ELSE "special"
      /\ corpus' = corpus /\ threshold' = threshold /\ row' = row /\ epoch' = epoch
      /\ nodeEpoch' = nodeEpoch /\ nodeKinds' = nodeKinds /\ nodes' = nodes
      /\ frames' = frames /\ order' = order /\ stack' = stack /\ comp' = comp /\ adj' = adj
      /\ runs' = runs
  BY DEF FewNodes, parse, marks, graph, pass1, pass2, history, numNodes
<1>2. /\ corpus \in Corpora /\ row \in DOMAIN corpus.rows /\ row # 0
      /\ nodes \in Seq(Tokens) /\ IsInjective(nodes) /\ ToSet(nodes) = RowNodes
      /\ RowNodes \in SUBSET Tokens
  BY <1>1, AllCollected, Zenon
<1>3. /\ Tokens' = Tokens /\ TokenIds' = TokenIds /\ RowNodes' = RowNodes /\ RowEdges' = RowEdges
  BY <1>1, RowKept, Zenon
<1>4. pc' \in {"done", "special"} /\ pc' # "idle" /\ pc' # "pass1" /\ pc' # "pass2"
      /\ frames = <<>> /\ stack = <<>> /\ comp = <<>>
  BY <1>1 DEF AnchorsInv, Shapes
<1>5. pc' \in {"idle", "nodes", "edges", "pass1", "pass2", "special", "done"} /\ pc # "idle"
  BY <1>1
<1>6. Shapes'
  BY <1>1, <1>2, <1>3, <1>4, <1>5, Zenon DEF AnchorsInv, Shapes
<1>7. Collecting' /\ Graphed' /\ Searching' /\ Gathering' /\ Comparing'
  BY <1>4 DEF Collecting, Graphed, Searching, Gathering, Comparing
<1>8. Collected'
  BY <1>1, <1>2, <1>3, <1>4 DEF Collected
<1>9. Chosen'
  <2>1. CASE Len(nodes) = 0
    <3>1. DOMAIN nodes = {}
      BY <1>2, <2>1
    <3>2. ToSet(nodes) = {}
      BY <3>1, Zenon DEF ToSet
    <3>3. pc' # "special" /\ RowNodes' = {} /\ anchors' = {}
      BY <1>1, <1>2, <1>3, <2>1, <3>2
    <3> QED
      BY <3>3, Zenon DEF Chosen
  <2>2. CASE Len(nodes) # 0
    <3>1. DOMAIN nodes = {1}
      <4>1. DOMAIN nodes = 1 .. Len(nodes) /\ Len(nodes) \in Nat
        BY <1>2
      <4>2. Len(nodes) = 1
        BY <1>1, <2>2, <4>1
      <4> QED
        BY <4>1, <4>2
    <3>2. ToSet(nodes) = {nodes[1]}
      BY <3>1, Zenon DEF ToSet
    <3>3. pc' # "done" /\ RowNodes' = {nodes[1]} /\ anchors' = {nodes[1]}
      BY <1>1, <1>2, <1>3, <2>2, <3>2
    <3>4. IsBest(RowNodes', RowEdges', anchors')
      BY <3>3, SingleIsBest, Zenon
    <3> QED
      BY <3>3, <3>4, Zenon DEF Chosen
  <2> QED
    BY <2>1, <2>2
<1> QED
  BY <1>6, <1>7, <1>8, <1>9, Zenon DEF AnchorsInv

\* A row with more: all its counted tokens have a node, once.
LEMMA ManyNodesStep == ASSUME AnchorsInv, ManyNodes PROVE AnchorsInv'
<1>1. /\ pc = "nodes" /\ next > Len(Line) /\ numNodes > 1 /\ anchors' = {} /\ pc' = "edges"
      /\ corpus' = corpus /\ threshold' = threshold /\ row' = row /\ epoch' = epoch
      /\ nodeEpoch' = nodeEpoch /\ nodeKinds' = nodeKinds /\ nodes' = nodes
      /\ frames' = frames /\ order' = order /\ stack' = stack /\ comp' = comp /\ adj' = adj
      /\ runs' = runs
  BY DEF ManyNodes, parse, marks, graph, pass1, pass2, history
<1>2. /\ corpus \in Corpora /\ row \in DOMAIN corpus.rows /\ row # 0
      /\ nodes \in Seq(Tokens) /\ IsInjective(nodes) /\ ToSet(nodes) = RowNodes
  BY <1>1, AllCollected, Zenon
<1>3. /\ Tokens' = Tokens /\ TokenIds' = TokenIds /\ RowNodes' = RowNodes
  BY <1>1, RowKept, Zenon
<1>4. pc' # "idle" /\ pc' # "pass1" /\ pc' # "pass2" /\ pc # "idle"
      /\ frames = <<>> /\ stack = <<>> /\ comp = <<>>
      /\ pc' \in {"idle", "nodes", "edges", "pass1", "pass2", "special", "done"}
  BY <1>1 DEF AnchorsInv, Shapes
<1>5. anchors' \in SUBSET Tokens
  BY <1>1
<1>6. Shapes'
  BY <1>1, <1>2, <1>3, <1>4, <1>5, Zenon DEF AnchorsInv, Shapes
<1>7. Collecting' /\ Graphed' /\ Searching' /\ Gathering' /\ Comparing' /\ Chosen'
  BY <1>1 DEF Collecting, Graphed, Searching, Gathering, Comparing, Chosen
<1>8. Collected'
  BY <1>1, <1>2, <1>3 DEF Collected, numNodes
<1> QED
  BY <1>6, <1>7, <1>8, Zenon DEF AnchorsInv

\* A node depends on another when their tokens are joined by an edge.
LEMMA DependsMeans ==
    ASSUME Shapes, NEW v \in DOMAIN nodes, NEW u \in DOMAIN nodes, ToSet(nodes) = RowNodes
    PROVE  u # v /\ Depends(v, u) <=> <<nodes[v], nodes[u]>> \in RowEdges
<1> DEFINE a == nodes[v].id
           b == nodes[u].id
<1>1. nodes[v] \in RowNodes /\ nodes[u] \in RowNodes
  BY DEF ToSet
<1>2. <<nodes[v], nodes[u]>> \in RowEdges <=> Co(a, b) * ThresholdDen > Occ(a) * threshold
  BY <1>1 DEF RowEdges
<1>3. PICK x, y, d, w : x = Co(a, b) /\ y = Occ(a) /\ d = ThresholdDen /\ w = threshold
  OBVIOUS
<1>4. x \in Nat /\ y \in Nat /\ d \in Nat /\ w \in Nat
  <2>1. ThresholdDen \in Nat /\ threshold \in Nat
    BY AnchorsAssumption DEF Shapes
  <2>2. corpus \in Corpora
    BY DEF Shapes
  <2> QED
    BY <1>3, <2>1, <2>2, CountsAreNat
<1>5. x * d > y * w => x > 0
  <2>1. y * w \in Nat
    BY <1>4
  <2>2. x = 0 => x * d = 0
    BY <1>4
  <2> QED
    BY <1>4, <2>1, <2>2
<1>6. Depends(v, u) <=> x > 0 /\ x * d > y * w
  BY <1>3, Zenon DEF Depends
<1>7. u = v => x = 0
  BY <1>3 DEF Co, co
<1>8. Depends(v, u) => u # v
  BY <1>4, <1>6, <1>7
<1> QED
  BY <1>2, <1>3, <1>5, <1>6, <1>8, Zenon

\* The lists built are the edges of the row's graph, each way, whatever they held.
LEMMA BuildGraphStep == ASSUME AnchorsInv, BuildGraph PROVE AnchorsInv'
<1> DEFINE n == numNodes
           N == 1 .. numNodes
           Succ(v) == {u \in N \ {v} : Depends(v, u)}
           Pred(v) == {u \in N \ {v} : Depends(u, v)}
<1>1. /\ pc = "edges" /\ pc' = "pass1" /\ next' = 1 /\ order' = <<>> /\ visited' = {} /\ frames' = <<>>
      /\ corpus' = corpus /\ threshold' = threshold /\ row' = row /\ epoch' = epoch
      /\ nodeEpoch' = nodeEpoch /\ nodeKinds' = nodeKinds /\ nodes' = nodes
      /\ stack' = stack /\ comp' = comp /\ anchors' = anchors /\ runs' = runs
  BY DEF BuildGraph, parse, marks, pass2, history
<1>2. /\ corpus \in Corpora /\ row \in 0 .. Len(corpus.rows) /\ row # 0
      /\ nodes \in Seq(Tokens) /\ IsInjective(nodes) /\ ToSet(nodes) = RowNodes /\ n > 1
      /\ n \in Nat /\ DOMAIN nodes = N
  <2>1. nodes \in Seq(Tokens)
    BY DEF AnchorsInv, Shapes
  <2>2. numNodes \in Nat /\ DOMAIN nodes = 1 .. numNodes
    BY <2>1 DEF numNodes
  <2> QED
    BY <1>1, <2>1, <2>2 DEF AnchorsInv, Shapes, Collected
<1>3. /\ adj' = [v \in N |-> EmptyLists(adj, n)[v] \o Ascending(Succ(v))]
      /\ rev' = [v \in N |-> EmptyLists(rev, n)[v] \o Ascending(Pred(v))]
  BY Zenon DEF BuildGraph
<1> HIDE DEF n, N, Succ, Pred
<1>4. \A v \in N : EmptyLists(adj, n)[v] = <<>> /\ EmptyLists(rev, n)[v] = <<>>
  BY Zenon DEF EmptyLists, N, n
<1>5. \A v \in N : Succ(v) \in SUBSET (1 .. n) /\ Pred(v) \in SUBSET (1 .. n)
  BY Zenon DEF Succ, Pred, N, n
<1>6. ASSUME NEW S \in SUBSET (1 .. n)
      PROVE  /\ <<>> \o Ascending(S) \in Seq(1 .. n) /\ ToSet(<<>> \o Ascending(S)) = S
             /\ IsInjective(<<>> \o Ascending(S))
  <2>1. PICK s : s = Ascending(S)
    OBVIOUS
  <2>2. s \in Seq(1 .. n) /\ ToSet(s) = S /\ IsInjective(s)
    BY <1>2, <2>1, AscendingFacts
  <2>3. <<>> \o s = s
    BY <2>2
  <2> QED
    BY <2>1, <2>2, <2>3
<1>7. ASSUME NEW v \in N
      PROVE  /\ adj'[v] \in Seq(1 .. n) /\ ToSet(adj'[v]) = Succ(v)
             /\ rev'[v] \in Seq(1 .. n) /\ ToSet(rev'[v]) = Pred(v) /\ IsInjective(rev'[v])
  <2>1. adj'[v] = <<>> \o Ascending(Succ(v)) /\ rev'[v] = <<>> \o Ascending(Pred(v))
    BY <1>3, <1>4, Zenon
  <2>2. PICK S, T : S = Succ(v) /\ T = Pred(v)
    OBVIOUS
  <2>3. S \in SUBSET (1 .. n) /\ T \in SUBSET (1 .. n)
    BY <1>5, <2>2
  <2> QED
    BY <1>6, <2>1, <2>2, <2>3
<1>8. \A v \in N, u \in N : u \in Succ(v) <=> <<nodes[v], nodes[u]>> \in RowEdges
  <2> SUFFICES ASSUME NEW v \in N, NEW u \in N
               PROVE  u \in Succ(v) <=> <<nodes[v], nodes[u]>> \in RowEdges
    BY Zenon
  <2>1. u # v /\ Depends(v, u) <=> <<nodes[v], nodes[u]>> \in RowEdges
    BY <1>2, DependsMeans, Zenon DEF AnchorsInv
  <2> QED
    BY <2>1, Zenon DEF Succ
<1>9. \A v \in N, u \in N : u \in Pred(v) <=> v \in Succ(u)
  BY Zenon DEF Succ, Pred
<1>10. N = 1 .. n /\ DOMAIN adj' = 1 .. n /\ DOMAIN rev' = 1 .. n
  BY <1>3, Zenon DEF N, n
<1>11. \A v \in 1 .. n :
          /\ adj'[v] \in Seq(1 .. n) /\ rev'[v] \in Seq(1 .. n)
          /\ ToSet(adj'[v]) = {u \in 1 .. n : <<nodes[v], nodes[u]>> \in RowEdges}
          /\ ToSet(rev'[v]) = {u \in 1 .. n : v \in ToSet(adj'[u])}
          /\ IsInjective(rev'[v])
  <2> SUFFICES ASSUME NEW v \in 1 .. n
               PROVE  /\ ToSet(adj'[v]) = {u \in 1 .. n : <<nodes[v], nodes[u]>> \in RowEdges}
                      /\ ToSet(rev'[v]) = {u \in 1 .. n : v \in ToSet(adj'[u])}
    BY <1>7, <1>10, Zenon
  <2>1. v \in N
    BY <1>10
  <2>2. Succ(v) = {u \in 1 .. n : <<nodes[v], nodes[u]>> \in RowEdges}
    BY <1>5, <1>8, <1>10, <2>1, Zenon
  <2>3. Pred(v) = {u \in 1 .. n : v \in Succ(u)}
    BY <1>5, <1>9, <1>10, <2>1, Zenon
  <2>4. \A u \in 1 .. n : ToSet(adj'[u]) = Succ(u)
    BY <1>7, <1>10, Zenon
  <2> QED
    BY <1>7, <2>1, <2>2, <2>3, <2>4, Zenon
<1>12. /\ Tokens' = Tokens /\ TokenIds' = TokenIds /\ RowNodes' = RowNodes /\ RowEdges' = RowEdges
       /\ numNodes' = n
  BY <1>1, RowKept, Zenon DEF numNodes, n
<1>13. Graphed'
  BY <1>1, <1>10, <1>11, <1>12, Zenon DEF Graphed
<1>14. Shapes'
  <2>1. adj' \in Seq(Seq(Nat))
    <3>1. PICK a : a = adj'
      OBVIOUS
    <3>2. DOMAIN a = 1 .. n /\ \A v \in 1 .. n : a[v] \in Seq(Nat)
      <4>1. \A v \in 1 .. n : adj'[v] \in Seq(1 .. n)
        BY <1>11, Zenon
      <4>2. 1 .. n \in SUBSET Nat
        BY <1>2
      <4>3. \A v \in 1 .. n : adj'[v] \in Seq(Nat)
        BY <4>1, <4>2, SeqLarger
      <4> QED
        BY <1>10, <3>1, <4>3, Zenon
    <3>3. a = [v \in 1 .. n |-> a[v]]
      BY <1>3, <1>10, <3>1, Zenon
    <3>4. a \in [1 .. n -> Seq(Nat)]
      BY <3>2, <3>3, Zenon
    <3>5. n \in Nat
      BY <1>2
    <3>6. a \in Seq(Seq(Nat))
      BY <3>4, <3>5, FunctionIsSeq
    <3> QED
      BY <3>1, <3>6
  <2>2. order' \in Seq(1 .. Len(adj'))
    BY <1>1
  <2>3. pc' \in {"idle", "nodes", "edges", "pass1", "pass2", "special", "done"}
        /\ pc' # "idle" /\ pc # "pass2" /\ pc # "idle"
    BY <1>1
  <2> QED
    BY <1>1, <1>2, <1>12, <2>1, <2>2, <2>3, Zenon DEF AnchorsInv, Shapes
<1>15. Searching'
  <2>1. /\ next' \in 1 .. numNodes' + 1 /\ 1 .. next' - 1 = {}
        /\ frames' \in Seq([v : 1 .. numNodes', i : Nat])
        /\ DOMAIN frames' = {} /\ DOMAIN order' = {}
    BY <1>1, <1>2, <1>12
  <2>2. ToSet(order') = {} /\ IsInjective(order')
    BY <2>1, Zenon DEF ToSet, IsInjective
  <2>3. Open' = {}
    BY <2>1, Zenon DEF Open
  <2>4. /\ visited' = ToSet(order') \cup Open'
        /\ 1 .. next' - 1 \subseteq visited'
        /\ ToSet(order') \cap Open' = {}
    BY <1>1, <2>1, <2>2, <2>3
  <2>5. \A k \in DOMAIN frames' : FALSE
    BY <2>1, Zenon
  <2>6. \A k \in DOMAIN order' : FALSE
    BY <2>1, Zenon
  <2>7. \A v \in ToSet(order') : FALSE
    BY <2>2, Zenon
  <2>8. \A i \in DOMAIN order' : Settled(i)'
    BY <2>6, Zenon
  <2> QED
    BY <1>1, <2>1, <2>2, <2>4, <2>5, <2>7, <2>8, Zenon DEF Searching
<1>16. Collecting' /\ Gathering' /\ Comparing' /\ Chosen'
  BY <1>1 DEF Collecting, Gathering, Comparing, Chosen
<1>17. Collected'
  BY <1>1, <1>2, <1>12 DEF Collected
<1> QED
  BY <1>13, <1>14, <1>15, <1>16, <1>17, Zenon DEF AnchorsInv

-----------------------------------------------------------------------------
\* What leads where along the lists.
LEMMA ToFacts ==
    ASSUME NEW a
    PROVE  /\ \A v : To(a, v, v)
           /\ \A u, v \in DOMAIN a : u \in ToSet(a[v]) => To(a, v, u)
           /\ \A u, v, w : To(a, u, v) /\ To(a, v, w) => To(a, u, w)
           /\ \A v \in DOMAIN a : \A u : To(a, v, u) => u \in DOMAIN a
<1>1. \A v : To(a, v, v)
  BY LeadsSelf DEF To
<1>2. ASSUME NEW u \in DOMAIN a, NEW v \in DOMAIN a, u \in ToSet(a[v])
      PROVE  To(a, v, u)
  <2>1. <<v, u>> \in Arcs(a)
    BY <1>2 DEF Arcs
  <2> QED
    BY <2>1, LeadsEdge DEF To
<1>3. \A u, v, w : To(a, u, v) /\ To(a, v, w) => To(a, u, w)
  BY LeadsOn, Zenon DEF To
<1>4. \A v \in DOMAIN a : \A u : To(a, v, u) => u \in DOMAIN a
  <2>1. Arcs(a) \in SUBSET ((DOMAIN a) \X (DOMAIN a))
    BY Zenon DEF Arcs
  <2> QED
    BY <2>1, LeadsInside, Zenon DEF To
<1> QED
  BY <1>1, <1>2, <1>3, <1>4, Zenon

\* A finished node leads to finished nodes, or is tied to one still open.
LEMMA FinishedLeads ==
    ASSUME NEW a, NEW v \in DOMAIN a, NEW O \in SUBSET DOMAIN a, NEW G \in SUBSET DOMAIN a, v \in O,
           \A x \in O : ToSet(a[x]) \subseteq O \cup G,
           \A y \in G : To(a, y, v),
           NEW b, To(a, v, b)
    PROVE  b \in O \/ \E y \in G : Strong(a, v, y)
<1> SUFFICES ASSUME \A y \in G : ~To(a, v, y)
             PROVE  b \in O
  BY Zenon DEF Strong
<1> DEFINE X == {z \in O : To(a, v, z)}
<1>1. X \in SUBSET DOMAIN a /\ v \in X
  BY ToFacts, Zenon
<1>2. Closed(X, Arcs(a))
  <2> SUFFICES ASSUME NEW e \in Arcs(a), e[1] \in X
               PROVE  e[2] \in X
    BY Zenon DEF Closed
  <2>1. e[1] \in DOMAIN a /\ e[2] \in DOMAIN a /\ e[2] \in ToSet(a[e[1]])
    BY DEF Arcs
  <2>2. e[1] \in O /\ To(a, v, e[1]) /\ To(a, e[1], e[2])
    BY <2>1, ToFacts, Zenon
  <2>3. To(a, v, e[2])
    <3>1. PICK x, y : x = e[1] /\ y = e[2]
      OBVIOUS
    <3>2. To(a, v, x) /\ To(a, x, y)
      BY <2>2, <3>1
    <3>3. To(a, v, y)
      BY <3>2, ToFacts, Zenon
    <3> QED
      BY <3>1, <3>3
  <2>4. e[2] \in O \cup G
    BY <2>1, <2>2, Zenon
  <2> QED
    BY <2>3, <2>4, Zenon
<1>3. b \in X
  BY <1>1, <1>2, Zenon DEF To, Leads
<1> QED
  BY <1>3

\* The lists of the graph during the passes.
LEMMA PassFacts ==
    ASSUME AnchorsInv, pc \in {"pass1", "pass2"}
    PROVE  /\ corpus \in Corpora /\ row \in DOMAIN corpus.rows /\ row # 0
           /\ nodes \in Seq(Tokens) /\ IsInjective(nodes) /\ ToSet(nodes) = RowNodes
           /\ numNodes \in Nat /\ DOMAIN nodes = 1 .. numNodes
           /\ DOMAIN adj = 1 .. numNodes /\ Len(adj) = numNodes /\ adj \in Seq(Seq(Nat))
           /\ \A v \in DOMAIN adj : adj[v] \in Seq(DOMAIN adj) /\ ToSet(adj[v]) \subseteq DOMAIN adj
           /\ \A v \in DOMAIN adj : Len(adj[v]) \in Nat
           /\ \A v \in DOMAIN adj : \A i \in 1 .. Len(adj[v]) : adj[v][i] \in ToSet(adj[v])
           /\ order \in Seq(DOMAIN adj) /\ ToSet(order) \subseteq DOMAIN adj
<1>1. /\ corpus \in Corpora /\ row \in DOMAIN corpus.rows /\ row # 0
      /\ nodes \in Seq(Tokens) /\ IsInjective(nodes) /\ ToSet(nodes) = RowNodes
      /\ adj \in Seq(Seq(Nat)) /\ order \in Seq(1 .. Len(adj))
  BY RowFacts DEF AnchorsInv, Shapes, Collected
<1>2. numNodes \in Nat /\ DOMAIN nodes = 1 .. numNodes
  BY <1>1 DEF numNodes
<1>3. DOMAIN adj = 1 .. numNodes /\ \A v \in DOMAIN adj : adj[v] \in Seq(DOMAIN adj)
  BY Zenon DEF AnchorsInv, Graphed
<1>4. Len(adj) = numNodes
  BY <1>1, <1>2, <1>3
<1>5. order \in Seq(DOMAIN adj) /\ ToSet(order) \subseteq DOMAIN adj
  <2>1. order \in Seq(DOMAIN adj)
    BY <1>1, <1>3, <1>4
  <2> QED
    BY <2>1, SeqRange
<1>6. ASSUME NEW v \in DOMAIN adj
      PROVE  /\ ToSet(adj[v]) \subseteq DOMAIN adj /\ Len(adj[v]) \in Nat
             /\ \A i \in 1 .. Len(adj[v]) : adj[v][i] \in ToSet(adj[v])
  <2>1. PICK s \in Seq(DOMAIN adj) : s = adj[v]
    BY <1>3
  <2>2. ToSet(s) \subseteq DOMAIN adj /\ Len(s) \in Nat /\ \A i \in 1 .. Len(s) : s[i] \in ToSet(s)
    BY SeqRange
  <2> QED
    BY <2>1, <2>2
<1> QED
  BY <1>1, <1>2, <1>3, <1>4, <1>5, <1>6

\* What no step of the first pass touches.
LEMMA Pass1Kept ==
    ASSUME AnchorsInv, pc = "pass1",
           pc' = pc, corpus' = corpus, threshold' = threshold, row' = row, epoch' = epoch,
           nodeEpoch' = nodeEpoch, nodeKinds' = nodeKinds, nodes' = nodes, adj' = adj, rev' = rev,
           stack' = stack, comp' = comp, anchors' = anchors, runs' = runs,
           order' \in Seq(1 .. Len(adj))
    PROVE  /\ Shapes' /\ Collecting' /\ Collected' /\ Graphed' /\ Gathering' /\ Comparing' /\ Chosen'
           /\ numNodes' = numNodes
<1>1. /\ Tokens' = Tokens /\ TokenIds' = TokenIds /\ RowNodes' = RowNodes /\ RowEdges' = RowEdges
      /\ numNodes' = numNodes
  BY RowKept, Zenon DEF numNodes
<1>2. Shapes'
  BY <1>1, Zenon DEF AnchorsInv, Shapes
<1>3. Collecting' /\ Gathering' /\ Comparing' /\ Chosen'
  BY DEF Collecting, Gathering, Comparing, Chosen
<1>4. Collected'
  BY <1>1, Zenon DEF AnchorsInv, Collected
<1>5. Graphed'
  BY <1>1, Zenon DEF AnchorsInv, Graphed
<1> QED
  BY <1>1, <1>2, <1>3, <1>4, <1>5

\* A node not yet visited begins a tree; nothing is open above it.
LEMMA PushRootStep == ASSUME AnchorsInv, PushRoot PROVE AnchorsInv'
<1>1. /\ pc = "pass1" /\ frames = <<>> /\ next <= numNodes
      /\ \/ next \in visited /\ visited' = visited /\ frames' = frames
         \/ /\ next \notin visited
            /\ visited' = visited \cup {next} /\ frames' = <<[v |-> next, i |-> 0]>>
      /\ next' = next + 1
      /\ pc' = pc /\ corpus' = corpus /\ threshold' = threshold /\ row' = row /\ epoch' = epoch
      /\ nodeEpoch' = nodeEpoch /\ nodeKinds' = nodeKinds /\ nodes' = nodes /\ adj' = adj /\ rev' = rev
      /\ stack' = stack /\ comp' = comp /\ anchors' = anchors /\ runs' = runs /\ order' = order
  BY DEF PushRoot, parse, marks, graph, pass2, history
<1>2. /\ numNodes \in Nat /\ DOMAIN adj = 1 .. numNodes /\ order \in Seq(1 .. Len(adj))
      /\ \A v \in DOMAIN adj : Len(adj[v]) \in Nat
  BY <1>1, PassFacts DEF AnchorsInv, Shapes
<1>3. /\ Shapes' /\ Collecting' /\ Collected' /\ Graphed' /\ Gathering' /\ Comparing' /\ Chosen'
      /\ numNodes' = numNodes
  BY <1>1, <1>2, Pass1Kept, Zenon
<1>4. /\ next \in 1 .. numNodes + 1 /\ visited = ToSet(order) \cup Open /\ 1 .. next - 1 \subseteq visited
      /\ IsInjective(order) /\ \A v \in ToSet(order) : ToSet(adj[v]) \subseteq visited
      /\ \A i \in DOMAIN order : Settled(i)
  BY <1>1 DEF AnchorsInv, Searching
<1>5. Open = {}
  <2>1. DOMAIN frames = {}
    BY <1>1
  <2> QED
    BY <2>1, Zenon DEF Open
<1>6. next \in 1 .. numNodes /\ next' \in 1 .. numNodes + 1
      /\ \A j : j \in 1 .. next' - 1 <=> (j \in 1 .. next - 1 \/ j = next)
  BY <1>1, <1>2, <1>4
<1>7. \A i \in DOMAIN order : Settled(i)'
  BY <1>1, <1>4, <1>5, Zenon DEF Settled
<1>8. CASE next \in visited
  <2>1. visited' = visited /\ frames' = frames
    BY <1>1, <1>8
  <2>2. Open' = Open
    BY <2>1, Zenon DEF Open
  <2>3. 1 .. next' - 1 \subseteq visited'
    BY <1>4, <1>6, <1>8, <2>1, Zenon
  <2>4. frames' \in Seq([v : 1 .. numNodes, i : Nat]) /\ DOMAIN frames' = {}
    BY <1>1, <2>1
  <2>5. \A k \in DOMAIN frames' : FALSE
    BY <2>4, Zenon
  <2>6. Searching'
    BY <1>1, <1>3, <1>4, <1>5, <1>6, <1>7, <2>1, <2>2, <2>3, <2>4, <2>5, Zenon DEF Searching
  <2> QED
    BY <1>3, <2>6, Zenon DEF AnchorsInv
<1>9. CASE next \notin visited
  <2>1. visited' = visited \cup {next} /\ frames' = <<[v |-> next, i |-> 0]>>
    BY <1>1, <1>9
  <2>2. /\ frames' \in Seq([v : 1 .. numNodes, i : Nat]) /\ DOMAIN frames' = {1}
        /\ frames'[1].v = next /\ frames'[1].i = 0
    BY <1>6, <2>1
  <2>3. Open' = {next}
    BY <2>2, Zenon DEF Open
  <2>4. 1 .. next' - 1 \subseteq visited'
    BY <1>4, <1>6, <2>1, Zenon
  <2>5. visited' = ToSet(order) \cup Open' /\ ToSet(order) \cap Open' = {}
    BY <1>4, <1>5, <1>9, <2>1, <2>3
  <2>6. \A v \in ToSet(order) : ToSet(adj[v]) \subseteq visited'
    BY <1>4, <2>1, Zenon
  <2>7. \A k \in DOMAIN frames' :
          /\ frames'[k].i <= Len(adj[frames'[k].v])
          /\ \A j \in 1 .. frames'[k].i : adj[frames'[k].v][j] \in visited'
          /\ \A l \in DOMAIN frames' :
                k < l => frames'[k].v # frames'[l].v /\ To(adj, frames'[k].v, frames'[l].v)
    <3> TAKE k \in DOMAIN frames'
    <3>1. k = 1 /\ frames'[k].i = 0 /\ frames'[k].v \in DOMAIN adj
      BY <1>2, <1>6, <2>2
    <3>2. Len(adj[frames'[k].v]) \in Nat
      BY <1>2, <3>1, Zenon
    <3>3. \A l \in DOMAIN frames' : ~(k < l)
      BY <2>2, <3>1
    <3>4. 0 <= Len(adj[frames'[k].v]) /\ 1 .. 0 = {}
      BY <3>2
    <3> QED
      BY <3>1, <3>3, <3>4
  <2>8. Searching'
    BY <1>1, <1>3, <1>4, <1>6, <1>7, <2>2, <2>4, <2>5, <2>6, <2>7, Zenon DEF Searching
  <2> QED
    BY <1>3, <2>8, Zenon DEF AnchorsInv
<1> QED
  BY <1>8, <1>9

\* The frames, and what is left of them when the top one looks at its next edge.
LEMMA FramesFacts ==
    ASSUME NEW V, NEW s \in Seq([v : V, i : Nat])
    PROVE  /\ Len(s) \in Nat /\ DOMAIN s = 1 .. Len(s)
           /\ \A k \in 1 .. Len(s) : s[k].v \in V /\ s[k].i \in Nat
<1>1. Len(s) \in Nat /\ DOMAIN s = 1 .. Len(s) /\ \A k \in 1 .. Len(s) : s[k] \in [v : V, i : Nat]
  BY SeqIsFunction
<1>2. \A g \in [v : V, i : Nat] : g.v \in V /\ g.i \in Nat
  OBVIOUS
<1> QED
  BY <1>1, <1>2, Zenon

Advanced(s) == [s EXCEPT ![Len(s)].i = @ + 1]

\* Moving on keeps every frame's node, and moves the top frame by one edge.
LEMMA FrameMoves ==
    ASSUME NEW V, NEW s \in Seq([v : V, i : Nat]), s # <<>>
    PROVE  /\ Advanced(s) \in Seq([v : V, i : Nat]) /\ Len(Advanced(s)) = Len(s)
           /\ DOMAIN Advanced(s) = 1 .. Len(s)
           /\ \A k \in 1 .. Len(s) : Advanced(s)[k].v = s[k].v
           /\ Advanced(s)[Len(s)].i = s[Len(s)].i + 1
           /\ \A k \in 1 .. Len(s) : k # Len(s) => Advanced(s)[k] = s[k]
<1> DEFINE n == Len(s)
           t == Advanced(s)
           g == [s[n] EXCEPT !.i = s[n].i + 1]
<1>1. n \in Nat \ {0} /\ DOMAIN s = 1 .. n /\ n \in 1 .. n /\ s[n] \in [v : V, i : Nat]
  <2>1. n \in Nat /\ DOMAIN s = 1 .. n /\ \A k \in 1 .. n : s[k] \in [v : V, i : Nat]
    BY SeqIsFunction
  <2>2. n # 0
    OBVIOUS
  <2>3. n \in 1 .. n
    BY <2>1, <2>2
  <2> QED
    BY <2>1, <2>2, <2>3
<1>2. g \in [v : V, i : Nat] /\ g.v = s[n].v /\ g.i = s[n].i + 1
  <2>1. PICK h : h = s[n]
    OBVIOUS
  <2>2. h \in [v : V, i : Nat]
    BY <1>1, <2>1
  <2>3. [h EXCEPT !.i = h.i + 1] \in [v : V, i : Nat]
        /\ [h EXCEPT !.i = h.i + 1].v = h.v /\ [h EXCEPT !.i = h.i + 1].i = h.i + 1
    BY <2>2
  <2> QED
    BY <2>1, <2>3, Zenon
<1>3. t = [s EXCEPT ![n] = g]
  BY DEF Advanced
<1> HIDE DEF g, t
<1>4. /\ t[n] = g /\ \A k \in 1 .. n : k # n => t[k] = s[k]
  BY <1>1, <1>3
<1>5. t \in Seq([v : V, i : Nat]) /\ Len(t) = n
  BY <1>1, <1>2, <1>3, SeqReplace
<1>6. \A k \in 1 .. n : t[k].v = s[k].v
  BY <1>2, <1>4, Zenon
<1>7. DOMAIN t = 1 .. Len(t)
  BY <1>5
<1> QED
  BY <1>1, <1>2, <1>4, <1>5, <1>6, <1>7 DEF t

\* The top frame follows an edge: a node seen for the first time goes on top, and
\* every frame leads to it.
LEMMA FollowEdgeStep == ASSUME AnchorsInv, FollowEdge PROVE AnchorsInv'
<1> DEFINE n == Len(frames)
           f == frames[Len(frames)]
           to == adj[f.v][f.i + 1]
           moved == [frames EXCEPT ![Len(frames)].i = @ + 1]
<1>1. /\ pc = "pass1" /\ frames # <<>>
      /\ next' = next
      /\ pc' = pc /\ corpus' = corpus /\ threshold' = threshold /\ row' = row /\ epoch' = epoch
      /\ nodeEpoch' = nodeEpoch /\ nodeKinds' = nodeKinds /\ nodes' = nodes /\ adj' = adj /\ rev' = rev
      /\ stack' = stack /\ comp' = comp /\ anchors' = anchors /\ runs' = runs /\ order' = order
  BY DEF FollowEdge, parse, marks, graph, pass2, history
<1>2. /\ f.i < Len(adj[f.v])
      /\ visited' = visited \cup {to}
      /\ frames' = IF to \in visited THEN moved ELSE Append(moved, [v |-> to, i |-> 0])
  BY Zenon DEF FollowEdge, Last
<1>3. /\ numNodes \in Nat /\ DOMAIN adj = 1 .. numNodes /\ order \in Seq(1 .. Len(adj))
      /\ \A v \in DOMAIN adj : Len(adj[v]) \in Nat /\ ToSet(adj[v]) \subseteq DOMAIN adj
      /\ \A v \in DOMAIN adj : \A i \in 1 .. Len(adj[v]) : adj[v][i] \in ToSet(adj[v])
  BY <1>1, PassFacts DEF AnchorsInv, Shapes
<1>4. /\ Shapes' /\ Collecting' /\ Collected' /\ Graphed' /\ Gathering' /\ Comparing' /\ Chosen'
      /\ numNodes' = numNodes
  BY <1>1, <1>3, Pass1Kept, Zenon
<1>5. /\ next \in 1 .. numNodes + 1 /\ frames \in Seq([v : 1 .. numNodes, i : Nat])
      /\ visited = ToSet(order) \cup Open /\ 1 .. next - 1 \subseteq visited
      /\ IsInjective(order) /\ ToSet(order) \cap Open = {}
      /\ \A v \in ToSet(order) : ToSet(adj[v]) \subseteq visited
      /\ \A i \in DOMAIN order : Settled(i)
  BY <1>1 DEF AnchorsInv, Searching
<1>6. \A k \in DOMAIN frames :
          /\ frames[k].i <= Len(adj[frames[k].v])
          /\ \A j \in 1 .. frames[k].i : adj[frames[k].v][j] \in visited
          /\ \A l \in DOMAIN frames :
                k < l => frames[k].v # frames[l].v /\ To(adj, frames[k].v, frames[l].v)
  BY <1>1 DEF AnchorsInv, Searching
<1>7. /\ n \in Nat \ {0} /\ DOMAIN frames = 1 .. n /\ f.v \in DOMAIN adj /\ f.i \in Nat
      /\ n \in DOMAIN frames /\ f = frames[n]
      /\ \A k \in DOMAIN frames : frames[k].v \in 1 .. numNodes /\ frames[k].i \in Nat
  <2>1. n \in Nat /\ DOMAIN frames = 1 .. n
        /\ \A k \in 1 .. n : frames[k].v \in 1 .. numNodes /\ frames[k].i \in Nat
    BY <1>5, FramesFacts
  <2>2. n # 0
    BY <1>1, <1>5
  <2>3. n \in 1 .. n
    BY <2>1, <2>2
  <2> QED
    BY <1>3, <2>1, <2>2, <2>3
<1>8. /\ f.i + 1 \in 1 .. Len(adj[f.v])
  BY <1>2, <1>3, <1>7
<1>9. to \in ToSet(adj[f.v]) /\ to \in DOMAIN adj /\ to \in 1 .. numNodes
  BY <1>3, <1>7, <1>8
<1>10. \A k \in DOMAIN frames : To(adj, frames[k].v, to)
  <2> SUFFICES ASSUME NEW k \in DOMAIN frames
               PROVE  To(adj, frames[k].v, to)
    OBVIOUS
  <2>1. To(adj, f.v, to)
    BY <1>7, <1>9, ToFacts, Zenon
  <2>2. To(adj, frames[k].v, f.v)
    <3>1. CASE k = n
      BY <1>7, <3>1, ToFacts
    <3>2. CASE k # n
      <4>1. k < n
        BY <1>7, <3>2
      <4> QED
        BY <1>6, <1>7, <4>1, Zenon
    <3> QED
      BY <3>1, <3>2
  <2>3. PICK x, y, z : x = frames[k].v /\ y = f.v /\ z = to
    OBVIOUS
  <2>5. To(adj, x, y) /\ To(adj, y, z)
    BY <2>1, <2>2, <2>3
  <2>4. To(adj, x, z)
    BY <2>5, ToFacts, Zenon
  <2> QED
    BY <2>3, <2>4
<1>11. /\ moved \in Seq([v : 1 .. numNodes, i : Nat]) /\ Len(moved) = n /\ DOMAIN moved = 1 .. n
       /\ \A k \in 1 .. n : moved[k].v = frames[k].v
       /\ moved[n].i = frames[n].i + 1
       /\ \A k \in 1 .. n : k # n => moved[k] = frames[k]
  <2>1. moved = Advanced(frames)
    BY DEF Advanced
  <2> HIDE DEF moved, to, f
  <2> QED
    BY <1>1, <1>5, <2>1, FrameMoves, ZenonT(60)
<1> HIDE DEF n, f, to, moved
<1>12. \A k \in 1 .. n :
          /\ moved[k].i <= Len(adj[moved[k].v])
          /\ \A j \in 1 .. moved[k].i : adj[moved[k].v][j] \in visited'
          /\ \A l \in 1 .. n :
                k < l => moved[k].v # moved[l].v /\ To(adj, moved[k].v, moved[l].v)
  <2> SUFFICES ASSUME NEW k \in 1 .. n
               PROVE  /\ moved[k].i <= Len(adj[moved[k].v])
                      /\ \A j \in 1 .. moved[k].i : adj[moved[k].v][j] \in visited'
                      /\ \A l \in 1 .. n :
                            k < l => moved[k].v # moved[l].v /\ To(adj, moved[k].v, moved[l].v)
    BY Zenon
  <2>1. moved[k].v = frames[k].v /\ k \in DOMAIN frames
    BY <1>7, <1>11
  <2>2. /\ frames[k].i <= Len(adj[frames[k].v])
        /\ \A j \in 1 .. frames[k].i : adj[frames[k].v][j] \in visited
    BY <1>6, <2>1, Zenon
  <2>3. \A l \in 1 .. n : k < l => moved[k].v # moved[l].v /\ To(adj, moved[k].v, moved[l].v)
    <3> TAKE l \in 1 .. n
    <3> HAVE k < l
    <3>1. frames[k].v # frames[l].v /\ To(adj, frames[k].v, frames[l].v)
      BY <1>6, <1>7, Zenon
    <3> QED
      BY <1>11, <3>1, Zenon
  <2>4. CASE k # n
    <3>1. moved[k] = frames[k] /\ visited \subseteq visited'
      BY <1>2, <1>11, <2>4
    <3>2. \A j \in 1 .. moved[k].i : adj[moved[k].v][j] \in visited'
      BY <2>2, <3>1, Zenon
    <3> QED
      BY <2>2, <2>3, <3>1, <3>2, Zenon
  <2>5. CASE k = n
    <3>1. moved[k].i = f.i + 1 /\ moved[k].v = f.v
      BY <1>7, <1>11, <2>1, <2>5
    <3>2. moved[k].i <= Len(adj[moved[k].v])
      BY <1>3, <1>7, <1>8, <3>1
    <3>3. \A j : j \in 1 .. f.i + 1 <=> (j \in 1 .. f.i \/ j = f.i + 1)
      BY <1>7, IntervalNext
    <3>4. \A j \in 1 .. f.i : adj[f.v][j] \in visited
      BY <1>7, <2>2, <2>5, Zenon
    <3>5. adj[f.v][f.i + 1] \in visited'
      BY <1>2 DEF to
    <3>6. visited \subseteq visited'
      BY <1>2
    <3>7. \A j \in 1 .. f.i + 1 : adj[f.v][j] \in visited'
      BY <3>3, <3>4, <3>5, <3>6, Zenon
    <3> QED
      BY <2>3, <3>1, <3>2, <3>7, Zenon
  <2> QED
    BY <2>4, <2>5
<1>13. {moved[k].v : k \in 1 .. n} = Open
  BY <1>7, <1>11, ZenonT(60) DEF Open
<1>14. visited \subseteq visited'
  BY <1>2
<1>15. CASE to \in visited
  <2>1. visited' = visited /\ frames' = moved
    BY <1>2, <1>15
  <2>2. Open' = Open
    BY <1>11, <1>13, <2>1, Zenon DEF Open
  <2>3. \A i \in DOMAIN order : Settled(i)'
    BY <1>1, <1>5, <2>2, Zenon DEF Settled
  <2>4. frames' \in Seq([v : 1 .. numNodes', i : Nat]) /\ DOMAIN frames' = 1 .. n /\ frames' = moved
    BY <1>4, <1>11, <2>1
  <2>5. /\ order' = order /\ next' = next /\ adj' = adj /\ numNodes' = numNodes
        /\ visited' = visited /\ Open' = Open
    BY <1>1, <1>4, <2>1, <2>2
  <2>6. Searching'
    BY <1>1, <1>5, <1>12, <2>3, <2>4, <2>5, ZenonT(60) DEF Searching
  <2> QED
    BY <1>4, <2>6, Zenon DEF AnchorsInv
<1>16. CASE to \notin visited
  <2> DEFINE g == [v |-> to, i |-> 0]
  <2>1. frames' = Append(moved, g)
    BY <1>2, <1>16
  <2>2. g \in [v : 1 .. numNodes, i : Nat] /\ g.v = to /\ g.i = 0
    BY <1>9
  <2> HIDE DEF g
  <2>3. /\ frames' \in Seq([v : 1 .. numNodes, i : Nat]) /\ DOMAIN frames' = 1 .. n + 1
        /\ frames'[n + 1] = g /\ \A k \in 1 .. n : frames'[k] = moved[k]
    BY <1>11, <2>1, <2>2
  <2>4. \A k : k \in 1 .. n + 1 <=> (k \in 1 .. n \/ k = n + 1)
    BY <1>7, IntervalNext
  <2>5. Open' = Open \cup {to}
    <3>1. Open' = {frames'[k].v : k \in 1 .. n + 1}
      BY <2>3, Zenon DEF Open
    <3>2. \A x : x \in Open' <=> (x \in {moved[k].v : k \in 1 .. n} \/ x = to)
      BY <2>2, <2>3, <2>4, <3>1, Zenon
    <3> QED
      BY <1>13, <3>2, Zenon
  <2>6. visited' = ToSet(order) \cup Open' /\ ToSet(order) \cap Open' = {}
    BY <1>2, <1>5, <1>16, <2>5
  <2>7. \A i \in DOMAIN order : Settled(i)'
    BY <1>1, <1>5, <2>5, Zenon DEF Settled
  <2>8. \A v \in ToSet(order) : ToSet(adj[v]) \subseteq visited'
    BY <1>5, <1>14, Zenon
  <2>9. \A k \in 1 .. n + 1 :
          /\ frames'[k].i <= Len(adj[frames'[k].v])
          /\ \A j \in 1 .. frames'[k].i : adj[frames'[k].v][j] \in visited'
          /\ \A l \in 1 .. n + 1 :
                k < l => frames'[k].v # frames'[l].v /\ To(adj, frames'[k].v, frames'[l].v)
    <3> SUFFICES ASSUME NEW k \in 1 .. n + 1
                 PROVE  /\ frames'[k].i <= Len(adj[frames'[k].v])
                        /\ \A j \in 1 .. frames'[k].i : adj[frames'[k].v][j] \in visited'
                        /\ \A l \in 1 .. n + 1 :
                              k < l => frames'[k].v # frames'[l].v /\ To(adj, frames'[k].v, frames'[l].v)
      BY Zenon
    <3>1. CASE k = n + 1
      <4>1. frames'[k].v = to /\ frames'[k].i = 0
        BY <2>2, <2>3, <3>1
      <4>2. Len(adj[to]) \in Nat
        BY <1>3, <1>9, Zenon
      <4>3. \A l \in 1 .. n + 1 : ~(k < l)
        BY <1>7, <3>1
      <4>4. 0 <= Len(adj[to]) /\ 1 .. 0 = {}
        BY <4>2
      <4> QED
        BY <4>1, <4>3, <4>4
    <3>2. CASE k # n + 1
      <4>1. k \in 1 .. n /\ frames'[k] = moved[k] /\ k \in DOMAIN frames
        BY <1>7, <2>3, <2>4, <3>2, Zenon
      <4>2. moved[k].v = frames[k].v /\ moved[k].v \in Open
        BY <1>11, <1>13, <4>1, Zenon
      <4>3. moved[k].v # to /\ To(adj, moved[k].v, to)
        BY <1>5, <1>10, <1>16, <4>1, <4>2
      <4>4. \A l \in 1 .. n + 1 :
                k < l => frames'[k].v # frames'[l].v /\ To(adj, frames'[k].v, frames'[l].v)
        <5> TAKE l \in 1 .. n + 1
        <5> HAVE k < l
        <5>1. CASE l \in 1 .. n
          <6>1. moved[k].v # moved[l].v /\ To(adj, moved[k].v, moved[l].v)
            BY <1>12, <4>1, <5>1, Zenon
          <6> QED
            BY <2>3, <4>1, <5>1, <6>1, Zenon
        <5>2. CASE l = n + 1
          BY <2>2, <2>3, <4>1, <4>3, <5>2, Zenon
        <5> QED
          BY <2>4, <5>1, <5>2, Zenon
      <4> QED
        BY <1>12, <4>1, <4>4, Zenon
    <3> QED
      BY <3>1, <3>2
  <2>10. 1 .. next - 1 \subseteq visited'
    BY <1>5, <1>14
  <2>11. Searching'
    BY <1>1, <1>4, <1>5, <2>3, <2>6, <2>7, <2>8, <2>9, <2>10, Zenon DEF Searching
  <2> QED
    BY <1>4, <2>11, Zenon DEF AnchorsInv
<1> QED
  BY <1>15, <1>16

\* A node with no edge left is finished: what it leads to is finished too, or it
\* is tied to a frame below.
LEMMA FinishNodeStep == ASSUME AnchorsInv, FinishNode PROVE AnchorsInv'
<1> DEFINE n == Len(frames)
           m == Len(order)
           f == frames[Len(frames)]
           v == f.v
<1>1. /\ pc = "pass1" /\ frames # <<>>
      /\ next' = next /\ visited' = visited
      /\ pc' = pc /\ corpus' = corpus /\ threshold' = threshold /\ row' = row /\ epoch' = epoch
      /\ nodeEpoch' = nodeEpoch /\ nodeKinds' = nodeKinds /\ nodes' = nodes /\ adj' = adj /\ rev' = rev
      /\ stack' = stack /\ comp' = comp /\ anchors' = anchors /\ runs' = runs
  BY DEF FinishNode, parse, marks, graph, pass2, history
<1>2. f.i >= Len(adj[v]) /\ order' = Append(order, v) /\ frames' = Front(frames)
  BY Zenon DEF FinishNode, Last, Postorder
<1>3. /\ numNodes \in Nat /\ DOMAIN adj = 1 .. numNodes /\ order \in Seq(1 .. Len(adj))
      /\ Len(adj) = numNodes /\ order \in Seq(DOMAIN adj)
      /\ \A x \in DOMAIN adj : Len(adj[x]) \in Nat /\ adj[x] \in Seq(DOMAIN adj)
  BY <1>1, PassFacts DEF AnchorsInv, Shapes
<1>4. /\ next \in 1 .. numNodes + 1 /\ frames \in Seq([v : 1 .. numNodes, i : Nat])
      /\ visited = ToSet(order) \cup Open /\ 1 .. next - 1 \subseteq visited
      /\ IsInjective(order) /\ ToSet(order) \cap Open = {}
      /\ \A x \in ToSet(order) : ToSet(adj[x]) \subseteq visited
      /\ \A i \in DOMAIN order : Settled(i)
  BY <1>1 DEF AnchorsInv, Searching
<1>5. \A k \in DOMAIN frames :
          /\ frames[k].i <= Len(adj[frames[k].v])
          /\ \A j \in 1 .. frames[k].i : adj[frames[k].v][j] \in visited
          /\ \A l \in DOMAIN frames :
                k < l => frames[k].v # frames[l].v /\ To(adj, frames[k].v, frames[l].v)
  BY <1>1 DEF AnchorsInv, Searching
<1>6. /\ n \in Nat \ {0} /\ DOMAIN frames = 1 .. n /\ n \in 1 .. n /\ v \in DOMAIN adj /\ f.i \in Nat
      /\ \A k \in 1 .. n - 1 : k \in 1 .. n /\ k < n
      /\ \A k : k \in 1 .. n <=> (k \in 1 .. n - 1 \/ k = n)
  <2>1. n \in Nat /\ DOMAIN frames = 1 .. n
        /\ \A k \in 1 .. n : frames[k].v \in 1 .. numNodes /\ frames[k].i \in Nat
    BY <1>4, FramesFacts
  <2>2. n # 0
    BY <1>1, <1>4
  <2>3. n \in 1 .. n /\ \A k \in 1 .. n - 1 : k \in 1 .. n /\ k < n
    BY <2>1, <2>2
  <2>4. \A k : k \in 1 .. n <=> (k \in 1 .. n - 1 \/ k = n)
    BY <2>1, <2>2
  <2> QED
    BY <1>3, <2>1, <2>2, <2>3, <2>4
<1>7. /\ frames' \in Seq([v : 1 .. numNodes, i : Nat]) /\ DOMAIN frames' = 1 .. n - 1
      /\ \A k \in 1 .. n - 1 : frames'[k] = frames[k]
  <2> HIDE DEF f
  <2>1. /\ Front(frames) \in Seq([v : 1 .. numNodes, i : Nat]) /\ Len(Front(frames)) = Len(frames) - 1
        /\ \A k \in 1 .. Len(frames) - 1 : Front(frames)[k] = frames[k]
    <3>1. PICK F : F = [v : 1 .. numNodes, i : Nat]
      OBVIOUS
    <3>2. frames \in Seq(F) /\ frames # <<>>
      BY <1>1, <1>4, <3>1
    <3>3. Front(frames) \in Seq(F) /\ Len(Front(frames)) = Len(frames) - 1
          /\ \A k \in 1 .. Len(frames) - 1 : Front(frames)[k] = frames[k]
      BY <3>2, FrontRange
    <3> QED
      BY <3>1, <3>3, Zenon
  <2>2. DOMAIN Front(frames) = 1 .. Len(frames) - 1
    BY <2>1
  <2> QED
    BY <1>2, <2>1, <2>2, Zenon
<1>8. ToSet(adj[v]) \subseteq visited
  <2>1. f.i = Len(adj[v])
    <3>1. f.i <= Len(adj[v])
      BY <1>5, <1>6, Zenon
    <3>2. Len(adj[v]) \in Nat
      BY <1>3, <1>6, Zenon
    <3> QED
      BY <1>2, <1>6, <3>1, <3>2
  <2>2. \A j \in 1 .. Len(adj[v]) : adj[v][j] \in visited
    BY <1>5, <1>6, <2>1, Zenon
  <2>3. adj[v] \in Seq(DOMAIN adj)
    BY <1>3, <1>6, Zenon
  <2>4. \A x : x \in ToSet(adj[v]) => \E j \in 1 .. Len(adj[v]) : x = adj[v][j]
    BY <2>3, SeqRange
  <2> QED
    BY <2>2, <2>4, Zenon
<1> HIDE DEF n, f, v
<1>9. Open' = {frames[k].v : k \in 1 .. n - 1}
  BY <1>7, Zenon DEF Open
<1>10. Open = Open' \cup {v} /\ v \notin Open' /\ \A y \in Open' : To(adj, y, v)
  <2>1. \A x : x \in Open <=> \E k \in 1 .. n : x = frames[k].v
    BY <1>6, Zenon DEF Open
  <2>2. v = frames[n].v
    BY DEF v, f, n
  <2>3. \A k \in 1 .. n - 1 : frames[k].v # v /\ To(adj, frames[k].v, v)
    BY <1>5, <1>6, <2>2, Zenon
  <2>4. ASSUME NEW x \in Open
        PROVE  x \in Open' \/ x = v
    <3>1. PICK k \in 1 .. n : x = frames[k].v
      BY <2>1, Zenon
    <3> QED
      BY <1>6, <1>9, <2>2, <3>1, Zenon
  <2>5. ASSUME NEW x \in Open' \cup {v}
        PROVE  x \in Open
    BY <1>6, <1>9, <2>1, <2>2, Zenon
  <2> QED
    BY <1>9, <2>3, <2>4, <2>5, Zenon
<1>11. v \notin ToSet(order)
  BY <1>4, <1>10
<1>12. /\ order' \in Seq(DOMAIN adj) /\ IsInjective(order') /\ ToSet(order') = ToSet(order) \cup {v}
       /\ DOMAIN order' = 1 .. m + 1 /\ Len(order') = m + 1 /\ m \in Nat /\ DOMAIN order = 1 .. m
       /\ order'[m + 1] = v /\ \A i \in 1 .. m : order'[i] = order[i]
  <2>1. /\ order' \in Seq(DOMAIN adj) /\ IsInjective(order') /\ ToSet(order') = ToSet(order) \cup {v}
    <3>1. IsInjective(Append(order, v)) /\ Append(order, v) \in Seq(DOMAIN adj)
          /\ ToSet(Append(order, v)) = ToSet(order) \cup {v}
      <4>1. PICK D : D = DOMAIN adj
        OBVIOUS
      <4>2. order \in Seq(D) /\ v \in D /\ IsInjective(order) /\ v \notin ToSet(order)
        BY <1>3, <1>4, <1>6, <1>11, <4>1, Zenon
      <4>3. IsInjective(Append(order, v)) /\ Append(order, v) \in Seq(D)
            /\ ToSet(Append(order, v)) = ToSet(order) \cup {v}
        BY <4>2, InjectiveAppend
      <4> QED
        BY <4>1, <4>3, Zenon
    <3> QED
      BY <1>2, <3>1, Zenon
  <2>2. DOMAIN order' = 1 .. m + 1 /\ Len(order') = m + 1 /\ m \in Nat /\ DOMAIN order = 1 .. m
        /\ order'[m + 1] = v /\ \A i \in 1 .. m : order'[i] = order[i]
    BY <1>2, <1>3, <1>6
  <2> QED
    BY <2>1, <2>2
<1>13. /\ Shapes' /\ Collecting' /\ Collected' /\ Graphed' /\ Gathering' /\ Comparing' /\ Chosen'
       /\ numNodes' = numNodes
  <2>1. order' \in Seq(1 .. Len(adj))
    BY <1>3, <1>12
  <2> QED
    BY <1>1, <2>1, Pass1Kept, Zenon
<1> HIDE DEF m
<1>14. visited' = ToSet(order') \cup Open' /\ ToSet(order') \cap Open' = {}
  BY <1>1, <1>4, <1>10, <1>12
<1>15. \A x \in ToSet(order') : ToSet(adj[x]) \subseteq visited
  BY <1>4, <1>8, <1>12, Zenon
<1>16. \A i \in DOMAIN order' : Settled(i)'
  <2> SUFFICES ASSUME NEW i \in 1 .. m + 1, NEW b \in DOMAIN adj, To(adj, order'[i], b)
               PROVE  \/ \E j \in 1 .. i : order'[j] = b
                      \/ \E y \in Open' : Strong(adj, order'[i], y)
                      \/ \E k \in i + 1 .. m + 1 : Strong(adj, order'[i], order'[k])
    BY <1>1, <1>12, Zenon DEF Settled
  <2>1. CASE i = m + 1
    <3>1. ToSet(order') \in SUBSET DOMAIN adj
      BY <1>12, SeqRange
    <3>2. Open' \in SUBSET DOMAIN adj
      <4>1. \A k \in 1 .. n : frames[k].v \in DOMAIN adj
        BY <1>3, <1>4, <1>6, FramesFacts, Zenon DEF n
      <4> QED
        BY <1>6, <1>9, <4>1, Zenon
    <3>3. \A x \in ToSet(order') : ToSet(adj[x]) \subseteq ToSet(order') \cup Open'
      BY <1>1, <1>14, <1>15, Zenon
    <3>4. PICK O, G : O = ToSet(order') /\ G = Open'
      OBVIOUS
    <3>5. /\ v \in O /\ O \in SUBSET DOMAIN adj /\ G \in SUBSET DOMAIN adj
          /\ \A x \in O : ToSet(adj[x]) \subseteq O \cup G
          /\ \A y \in G : To(adj, y, v)
      BY <1>10, <1>12, <2>1, <3>1, <3>2, <3>3, <3>4
    <3>6. To(adj, v, b)
      BY <1>12, <2>1
    <3>7. b \in O \/ \E y \in G : Strong(adj, v, y)
      BY <1>6, <3>5, <3>6, FinishedLeads, Zenon
    <3>8. b \in ToSet(order') => \E j \in 1 .. m + 1 : order'[j] = b
      <4>1. \A x : x \in ToSet(order') <=> \E j \in 1 .. Len(order') : x = order'[j]
        BY <1>12, SeqRange
      <4> QED
        BY <1>12, <4>1, Zenon
    <3> QED
      BY <1>12, <2>1, <3>4, <3>7, <3>8, Zenon
  <2>2. CASE i \in 1 .. m
    <3>1. order'[i] = order[i] /\ Settled(i)
      BY <1>4, <1>12, <2>2, Zenon
    <3>2. /\ \A j \in 1 .. i : j \in 1 .. m
          /\ \A k \in i + 1 .. m : k \in 1 .. m /\ k \in i + 1 .. m + 1
          /\ m + 1 \in i + 1 .. m + 1
      BY <1>12, <2>2
    <3>3. \/ \E j \in 1 .. i : order[j] = b
          \/ \E y \in Open : Strong(adj, order[i], y)
          \/ \E k \in i + 1 .. m : Strong(adj, order[i], order[k])
      BY <3>1, Zenon DEF Settled, m
    <3> QED
      BY <1>10, <1>12, <3>1, <3>2, <3>3, Zenon
  <2> QED
    BY <1>12, <2>1, <2>2
<1>17. \A k \in 1 .. n - 1 :
          /\ frames'[k].i <= Len(adj[frames'[k].v])
          /\ \A j \in 1 .. frames'[k].i : adj[frames'[k].v][j] \in visited
          /\ \A l \in 1 .. n - 1 :
                k < l => frames'[k].v # frames'[l].v /\ To(adj, frames'[k].v, frames'[l].v)
  BY <1>5, <1>6, <1>7, Zenon
<1>18. Searching'
  BY <1>1, <1>4, <1>7, <1>12, <1>13, <1>14, <1>15, <1>16, <1>17, Zenon DEF Searching
<1> QED
  BY <1>13, <1>18, Zenon DEF AnchorsInv

\* The first pass ends with every node in order, and no component made.
LEMMA EndPass1Step == ASSUME AnchorsInv, EndPass1 PROVE AnchorsInv'
<1>1. /\ pc = "pass1" /\ frames = <<>> /\ next > numNodes
      /\ visited' = {} /\ largest' = <<>> /\ stack' = <<>> /\ comp' = <<>>
      /\ next' = Len(order) /\ pc' = "pass2"
      /\ corpus' = corpus /\ threshold' = threshold /\ row' = row /\ epoch' = epoch
      /\ nodeEpoch' = nodeEpoch /\ nodeKinds' = nodeKinds /\ nodes' = nodes /\ adj' = adj /\ rev' = rev
      /\ frames' = frames /\ order' = order /\ anchors' = anchors /\ runs' = runs
  BY DEF EndPass1, parse, marks, graph, pass1, history
<1>2. /\ numNodes \in Nat /\ DOMAIN adj = 1 .. numNodes /\ order \in Seq(DOMAIN adj)
      /\ ToSet(order) \subseteq DOMAIN adj /\ Len(order) \in Nat /\ order \in Seq(1 .. Len(adj))
  BY <1>1, PassFacts DEF AnchorsInv, Shapes
<1>3. /\ Tokens' = Tokens /\ TokenIds' = TokenIds /\ RowNodes' = RowNodes /\ RowEdges' = RowEdges
      /\ numNodes' = numNodes
  BY <1>1, RowKept, Zenon DEF numNodes
<1>4. /\ next \in 1 .. numNodes + 1 /\ visited = ToSet(order) \cup Open /\ 1 .. next - 1 \subseteq visited
      /\ IsInjective(order) /\ \A i \in DOMAIN order : Settled(i)
  BY <1>1 DEF AnchorsInv, Searching
<1>5. Open = {} /\ Open' = {}
  <2>1. DOMAIN frames = {} /\ DOMAIN frames' = {}
    BY <1>1
  <2> QED
    BY <2>1, Zenon DEF Open
<1>6. ToSet(order) = DOMAIN adj
  <2>1. next - 1 = numNodes
    BY <1>1, <1>2, <1>4
  <2> QED
    BY <1>2, <1>4, <1>5, <2>1
<1>7. \A i \in DOMAIN order : Settled(i)'
  BY <1>1, <1>4, <1>5, Zenon DEF Settled
<1>8. /\ ToSet(stack') = {} /\ ToSet(comp') = {} /\ IsInjective(stack') /\ IsInjective(comp')
      /\ IsInjective(largest') /\ ToSet(largest') = {}
  <2>1. \A s : s = <<>> => ToSet(s) = {} /\ IsInjective(s)
    BY DEF ToSet, IsInjective
  <2> QED
    BY <1>1, <2>1, Zenon
<1>9. Current' = {} /\ Gone' = {}
  BY <1>1, <1>8, Zenon DEF Current, Gone
<1>10. Gathering'
  <2>1. /\ stack' \in Seq(DOMAIN adj) /\ comp' \in Seq(DOMAIN adj) /\ next' \in 0 .. Len(order)
        /\ next' + 1 .. Len(order) = {} /\ visited' \in SUBSET DOMAIN adj
    BY <1>1, <1>2
  <2>2. \A j \in next' + 1 .. Len(order) : FALSE
    BY <2>1, Zenon
  <2>3. ToSet(comp') \cap ToSet(stack') = {} /\ Current' \in SUBSET visited'
        /\ \A x \in ToSet(comp') : FALSE
    BY <1>8, <1>9
  <2> QED
    BY <1>1, <1>4, <1>6, <1>7, <1>8, <1>9, <2>1, <2>2, <2>3, Zenon DEF Gathering
<1>11. Comparing'
  <2>1. largest' \in Seq(DOMAIN adj)
    BY <1>1
  <2> QED
    BY <1>1, <1>8, <1>9, <2>1, Zenon DEF Comparing
<1>12. Graphed'
  BY <1>1, <1>3, Zenon DEF AnchorsInv, Graphed
<1>13. Shapes'
  <2>1. pc' \in {"idle", "nodes", "edges", "pass1", "pass2", "special", "done"}
        /\ pc # "idle" /\ pc # "pass2"
    BY <1>1
  <2> QED
    BY <1>1, <1>2, <1>3, <2>1, Zenon DEF AnchorsInv, Shapes
<1>14. Collected'
  <2>1. pc \in {"edges", "pass1", "pass2", "special", "done"} /\ pc \in {"edges", "pass1", "pass2"}
    BY <1>1
  <2> QED
    BY <1>1, <1>3, <2>1, Zenon DEF AnchorsInv, Collected
<1>15. Collecting' /\ Searching' /\ Chosen'
  BY <1>1 DEF Collecting, Searching, Chosen
<1> QED
  BY <1>10, <1>11, <1>12, <1>13, <1>14, <1>15, Zenon DEF AnchorsInv

\* One turn of the loop that pushes, and the loop's n turns.
OnePushed(p, x, seen) == IF x \in seen \cup ToSet(p) THEN p ELSE Append(p, x)
IsPush(list, seen, n, p) ==
    p = [k \in 0 .. n |-> IF k = 0 THEN <<>> ELSE OnePushed(p[k - 1], list[k], seen)]

\* One more turn extends it.
LEMMA PushExtends ==
    ASSUME NEW list, NEW seen, NEW n \in Nat, NEW f, IsPush(list, seen, n, f)
    PROVE  \E g : IsPush(list, seen, n + 1, g)
<1> DEFINE last == OnePushed(f[n], list[n + 1], seen)
           g == [k \in 0 .. n + 1 |-> IF k = n + 1 THEN last ELSE f[k]]
<1>1. ASSUME NEW k \in 0 .. n + 1
      PROVE  g[k] = IF k = 0 THEN <<>> ELSE OnePushed(g[k - 1], list[k], seen)
  <2>1. CASE k = n + 1
    <3>1. k - 1 \in 0 .. n + 1 /\ k - 1 # n + 1 /\ k # 0 /\ k - 1 = n
      BY <2>1
    <3> HIDE DEF last
    <3>2. g[k - 1] = f[n] /\ g[k] = last
      BY <2>1, <3>1
    <3> QED
      BY <2>1, <3>1, <3>2 DEF last
  <2>2. CASE k # n + 1
    <3>1. k \in 0 .. n
      BY <2>2
    <3>2. f[k] = IF k = 0 THEN <<>> ELSE OnePushed(f[k - 1], list[k], seen)
      BY <3>1, Zenon DEF IsPush
    <3>3. k # 0 => k - 1 \in 0 .. n + 1 /\ k - 1 # n + 1
      BY <3>1
    <3> HIDE DEF last
    <3>4. g[k] = f[k] /\ (k # 0 => g[k - 1] = f[k - 1])
      BY <2>2, <3>3, Zenon
    <3> QED
      BY <3>2, <3>4, Zenon
  <2> QED
    BY <2>1, <2>2
<1>2. IsPush(list, seen, n + 1, g)
  BY <1>1, Zenon DEF IsPush
<1> QED
  BY <1>2

\* So it exists, for every number of turns.
LEMMA PushExists ==
    ASSUME NEW list, NEW seen, NEW n \in Nat
    PROVE  \E p : IsPush(list, seen, n, p)
<1> DEFINE bad == {m \in Nat : ~\E p : IsPush(list, seen, m, p)}
<1>1. SUFFICES ASSUME bad # {}
               PROVE  FALSE
  BY Zenon
<1>2. PICK m \in bad : \A k \in bad : m <= k
  <2> HIDE DEF bad
  <2>1. bad \in SUBSET Nat
    BY Zenon DEF bad
  <2> QED
    BY <1>1, <2>1, LeastNat
<1>3. m \in Nat /\ ~\E p : IsPush(list, seen, m, p)
  BY Zenon
<1>4. CASE m = 0
  <2> DEFINE p == [k \in 0 .. 0 |-> <<>>]
  <2>1. \A k \in 0 .. 0 : k = 0
    OBVIOUS
  <2>2. p = [k \in 0 .. 0 |-> IF k = 0 THEN <<>> ELSE OnePushed(p[k - 1], list[k], seen)]
    BY <2>1, Zenon
  <2> QED
    BY <1>3, <1>4, <2>2, Zenon DEF IsPush
<1>5. CASE m # 0
  <2>1. m - 1 \in Nat /\ m - 1 \notin bad /\ (m - 1) + 1 = m
    <3> HIDE DEF bad
    <3> QED
      BY <1>2, <1>3, <1>5
  <2>2. \E p : IsPush(list, seen, m - 1, p)
    BY <2>1, Zenon
  <2>3. \E g : IsPush(list, seen, (m - 1) + 1, g)
    BY <2>1, <2>2, PushExtends
  <2> QED
    BY <1>3, <2>1, <2>3
<1> QED
  BY <1>4, <1>5

\* What the loop pushes: each node of the list not seen before, once.
LEMMA UnseenMeans ==
    ASSUME NEW S, NEW list \in Seq(S), NEW seen
    PROVE  /\ Unseen(list, seen) \in Seq(S) /\ IsInjective(Unseen(list, seen))
           /\ ToSet(Unseen(list, seen)) = ToSet(list) \ seen
<1> DEFINE n == Len(list)
           p == CHOOSE p : IsPush(list, seen, n, p)
<1>1. n \in Nat /\ \A k \in 1 .. n : list[k] \in S
  OBVIOUS
<1>2. IsPush(list, seen, n, p)
  BY <1>1, PushExists
<1>3. Unseen(list, seen) = p[n]
  BY Zenon DEF Unseen, IsPush, OnePushed
<1> HIDE DEF p, n
<1>4. \A k \in 0 .. n : p[k] = IF k = 0 THEN <<>> ELSE OnePushed(p[k - 1], list[k], seen)
  BY <1>2, Zenon DEF IsPush
<1> DEFINE good(k) == /\ p[k] \in Seq(S) /\ IsInjective(p[k])
                      /\ \A x : x \in ToSet(p[k]) <=> x \notin seen /\ \E j \in 1 .. k : x = list[j]
           bad == {k \in 0 .. n : ~good(k)}
<1>5. bad = {}
  <2> SUFFICES ASSUME bad # {}
               PROVE  FALSE
    OBVIOUS
  <2>1. PICK k \in bad : \A j \in bad : k <= j
    <3>1. bad \in SUBSET Nat
      BY <1>1
    <3> HIDE DEF bad
    <3> QED
      BY <3>1, LeastNat
  <2>2. k \in 0 .. n /\ ~good(k)
    OBVIOUS
  <2> HIDE DEF bad
  <2>3. CASE k = 0
    <3>1. p[k] = <<>>
      BY <1>4, <2>2, <2>3
    <3>2. p[k] \in Seq(S) /\ IsInjective(p[k]) /\ ToSet(p[k]) = {}
      BY <3>1 DEF IsInjective, ToSet
    <3>3. \A j \in 1 .. k : FALSE
      BY <2>3
    <3> QED
      BY <2>2, <3>2, <3>3, Zenon
  <2>4. CASE k # 0
    <3>1. k \in 1 .. n /\ k - 1 \in 0 .. n /\ k - 1 \notin bad /\ k - 1 \in Nat /\ (k - 1) + 1 = k
      BY <1>1, <2>1, <2>2, <2>4
    <3>2. good(k - 1)
      BY <3>1, Zenon DEF bad
    <3>3. p[k] = OnePushed(p[k - 1], list[k], seen) /\ list[k] \in S
      BY <1>1, <1>4, <2>4, <3>1
    <3>4. \A j : j \in 1 .. k <=> (j \in 1 .. k - 1 \/ j = k)
      BY <3>1
    <3>5. PICK q, y : q = p[k - 1] /\ y = list[k]
      OBVIOUS
    <3>6. /\ q \in Seq(S) /\ IsInjective(q) /\ y \in S /\ p[k] = OnePushed(q, y, seen)
          /\ \A x : x \in ToSet(q) <=> x \notin seen /\ \E j \in 1 .. k - 1 : x = list[j]
      BY <3>2, <3>3, <3>5
    <3>7. CASE y \in seen \cup ToSet(q)
      <4>1. p[k] = q
        BY <3>6, <3>7 DEF OnePushed
      <4>2. \A x : x \in ToSet(q) <=> x \notin seen /\ \E j \in 1 .. k : x = list[j]
        BY <3>4, <3>5, <3>6, <3>7, Zenon
      <4> QED
        BY <2>2, <3>6, <4>1, <4>2, Zenon
    <3>8. CASE y \notin seen \cup ToSet(q)
      <4>1. p[k] = Append(q, y)
        BY <3>6, <3>8 DEF OnePushed
      <4>2. /\ IsInjective(Append(q, y)) /\ Append(q, y) \in Seq(S)
            /\ ToSet(Append(q, y)) = ToSet(q) \cup {y}
        BY <3>6, <3>8, InjectiveAppend
      <4>3. \A x : x \in ToSet(p[k]) <=> (x \in ToSet(q) \/ x = y)
        BY <4>1, <4>2
      <4>4. \A x : x \in ToSet(p[k]) <=> x \notin seen /\ \E j \in 1 .. k : x = list[j]
        <5> TAKE x
        <5>1. y \notin seen /\ k \in 1 .. k
          BY <3>1, <3>8
        <5> QED
          BY <3>4, <3>5, <3>6, <4>3, <5>1, Zenon
      <4> QED
        BY <2>2, <4>1, <4>2, <4>4, Zenon
    <3> QED
      BY <3>7, <3>8
  <2> QED
    BY <2>3, <2>4
<1>6. good(n)
  BY <1>1, <1>5, n \in 0 .. n
<1>7. \A x : x \in ToSet(list) <=> \E j \in 1 .. n : x = list[j]
  BY SeqRange DEF n
<1>8. ToSet(p[n]) = ToSet(list) \ seen
  BY <1>6, <1>7, Zenon
<1> QED
  BY <1>3, <1>6, <1>8, Zenon

-----------------------------------------------------------------------------
\* What no step of the second pass touches.
LEMMA Pass2Kept ==
    ASSUME AnchorsInv, pc = "pass2",
           pc' = pc, corpus' = corpus, threshold' = threshold, row' = row, epoch' = epoch,
           nodeEpoch' = nodeEpoch, nodeKinds' = nodeKinds, nodes' = nodes, adj' = adj, rev' = rev,
           frames' = frames, order' = order, anchors' = anchors, runs' = runs
    PROVE  /\ Shapes' /\ Collecting' /\ Collected' /\ Graphed' /\ Searching' /\ Chosen'
           /\ \A i \in DOMAIN order : Settled(i)'
<1>1. /\ Tokens' = Tokens /\ TokenIds' = TokenIds /\ RowNodes' = RowNodes /\ RowEdges' = RowEdges
      /\ numNodes' = numNodes
  BY RowKept, Zenon DEF numNodes
<1>2. Shapes'
  BY <1>1, Zenon DEF AnchorsInv, Shapes
<1>3. Collecting' /\ Searching' /\ Chosen'
  BY DEF Collecting, Searching, Chosen
<1>4. Collected'
  BY <1>1, Zenon DEF AnchorsInv, Collected
<1>5. Graphed'
  BY <1>1, Zenon DEF AnchorsInv, Graphed
<1>6. \A i \in DOMAIN order : Settled(i)
  BY Zenon DEF AnchorsInv, Gathering
<1>7. \A i \in DOMAIN order : Settled(i)'
  BY <1>6, Zenon DEF Settled, Open
<1> QED
  BY <1>2, <1>3, <1>4, <1>5, <1>7

\* A sequence with nothing in it, and one with one member.
LEMMA FewMembers ==
    /\ \A s : s = <<>> => ToSet(s) = {} /\ IsInjective(s)
    /\ \A x : ToSet(<<x>>) = {x} /\ IsInjective(<<x>>)
<1>1. \A s : s = <<>> => ToSet(s) = {} /\ IsInjective(s)
  BY DEF ToSet, IsInjective
<1>2. \A x : ToSet(<<x>>) = {x} /\ IsInjective(<<x>>)
  BY DEF ToSet, IsInjective
<1> QED
  BY <1>1, <1>2

\* A node not yet visited opens a component.
LEMMA OpenComponentStep == ASSUME AnchorsInv, OpenComponent PROVE AnchorsInv'
<1>1. /\ pc = "pass2" /\ stack = <<>> /\ comp = <<>> /\ next >= 1
      /\ \/ /\ order[next] \in visited
            /\ next' = next - 1 /\ visited' = visited /\ stack' = stack
         \/ /\ order[next] \notin visited
            /\ visited' = visited \cup {order[next]} /\ stack' = <<order[next]>> /\ next' = next
      /\ pc' = pc /\ corpus' = corpus /\ threshold' = threshold /\ row' = row /\ epoch' = epoch
      /\ nodeEpoch' = nodeEpoch /\ nodeKinds' = nodeKinds /\ nodes' = nodes /\ adj' = adj /\ rev' = rev
      /\ frames' = frames /\ order' = order /\ anchors' = anchors /\ runs' = runs
      /\ comp' = comp /\ largest' = largest
  BY DEF OpenComponent, Down, parse, marks, graph, pass1, history
<1>2. /\ Shapes' /\ Collecting' /\ Collected' /\ Graphed' /\ Searching' /\ Chosen'
      /\ \A i \in DOMAIN order : Settled(i)'
  BY <1>1, Pass2Kept, Zenon
<1>3. /\ IsInjective(order) /\ ToSet(order) = DOMAIN adj
      /\ next \in 0 .. Len(order) /\ visited \in SUBSET DOMAIN adj
      /\ \A j \in next + 1 .. Len(order) : order[j] \in Gone
      /\ \A a \in DOMAIN adj, b \in Gone : To(adj, a, b) => a \in Gone
  BY <1>1 DEF AnchorsInv, Gathering
<1>4. Current = {} /\ Gone = visited
  BY <1>1, FewMembers, Zenon DEF Current, Gone
<1>5. order \in Seq(DOMAIN adj) /\ Len(order) \in Nat
  BY <1>1, PassFacts
<1>6. next \in 1 .. Len(order) /\ order[next] \in DOMAIN adj
  BY <1>1, <1>3, <1>5
<1>7. CASE order[next] \in visited
  <2>1. next' = next - 1 /\ visited' = visited /\ stack' = stack
    BY <1>1, <1>7
  <2>2. Current' = {} /\ Gone' = Gone
    BY <1>1, <1>4, <2>1, FewMembers, Zenon DEF Current, Gone
  <2>3. next' \in 0 .. Len(order) /\ \A j : j \in next' + 1 .. Len(order) => j = next \/ j \in next + 1 .. Len(order)
    BY <1>3, <1>5, <1>6, <2>1
  <2>4. \A j \in next' + 1 .. Len(order) : order[j] \in Gone
    BY <1>3, <1>4, <1>7, <2>3, Zenon
  <2>5. stack' \in Seq(DOMAIN adj) /\ comp' \in Seq(DOMAIN adj)
    BY <1>1, <2>1
  <2>6. /\ ToSet(stack') = {} /\ ToSet(comp') = {} /\ IsInjective(stack') /\ IsInjective(comp')
    BY <1>1, <2>1, FewMembers, Zenon
  <2>7. \A x \in ToSet(comp') : FALSE
    BY <2>6, Zenon
  <2>8. ToSet(comp') \cap ToSet(stack') = {} /\ Current' \in SUBSET visited'
    BY <2>2, <2>6
  <2>9. Gathering'
    BY <1>1, <1>2, <1>3, <2>1, <2>2, <2>3, <2>4, <2>5, <2>6, <2>7, <2>8, Zenon DEF Gathering
  <2>10. Comparing'
    BY <1>1, <2>2, Zenon DEF AnchorsInv, Comparing
  <2> QED
    BY <1>2, <2>9, <2>10, Zenon DEF AnchorsInv
<1>8. CASE order[next] \notin visited
  <2>1. visited' = visited \cup {order[next]} /\ stack' = <<order[next]>> /\ next' = next
    BY <1>1, <1>8
  <2>2. ToSet(stack') = {order[next]} /\ IsInjective(stack') /\ ToSet(comp') = {} /\ IsInjective(comp')
    BY <1>1, <2>1, FewMembers, Zenon
  <2>3. Current' = {order[next]}
    BY <2>2, Zenon DEF Current
  <2>4. Gone' = Gone
    BY <1>4, <1>8, <2>1, <2>3, Zenon DEF Gone
  <2>5. stack' \in Seq(DOMAIN adj) /\ comp' \in Seq(DOMAIN adj) /\ visited' \in SUBSET DOMAIN adj
    BY <1>1, <1>3, <1>6, <2>1
  <2>6. \A x \in ToSet(comp') : FALSE
    BY <2>2, Zenon
  <2>7. ToSet(comp') \cap ToSet(stack') = {} /\ Current' \in SUBSET visited'
    BY <2>1, <2>2, <2>3
  <2>8. \A x \in Current' : next >= 1 /\ order[next] \in Current' /\ To(adj, x, order[next])
    BY <1>1, <2>3, ToFacts, Zenon
  <2>9. Gathering'
    BY <1>1, <1>2, <1>3, <2>1, <2>2, <2>4, <2>5, <2>6, <2>7, <2>8, Zenon DEF Gathering
  <2>10. Comparing'
    BY <1>1, <2>4, Zenon DEF AnchorsInv, Comparing
  <2> QED
    BY <1>2, <2>9, <2>10, Zenon DEF AnchorsInv
<1> QED
  BY <1>7, <1>8

\* The walk goes against the edges: what it adds leads to the node that opened the
\* component, and the components made before stay as they are.
LEMMA GrowComponentStep == ASSUME AnchorsInv, GrowComponent PROVE AnchorsInv'
<1> DEFINE x == Last(stack)
           new == Unseen(rev[x], visited)
           r == order[next]
<1>1. /\ pc = "pass2" /\ stack # <<>>
      /\ stack' = Front(stack) \o new /\ visited' = visited \cup ToSet(new) /\ comp' = Append(comp, x)
      /\ pc' = pc /\ corpus' = corpus /\ threshold' = threshold /\ row' = row /\ epoch' = epoch
      /\ nodeEpoch' = nodeEpoch /\ nodeKinds' = nodeKinds /\ nodes' = nodes /\ adj' = adj /\ rev' = rev
      /\ frames' = frames /\ order' = order /\ anchors' = anchors /\ runs' = runs
      /\ next' = next /\ largest' = largest
  BY Zenon DEF GrowComponent, Backward, parse, marks, graph, pass1, history
<1>2. /\ Shapes' /\ Collecting' /\ Collected' /\ Graphed' /\ Searching' /\ Chosen'
      /\ \A i \in DOMAIN order : Settled(i)'
  BY <1>1, Pass2Kept, Zenon
<1>3. /\ IsInjective(order) /\ ToSet(order) = DOMAIN adj
      /\ next \in 0 .. Len(order) /\ visited \in SUBSET DOMAIN adj
      /\ \A j \in next + 1 .. Len(order) : order[j] \in Gone
      /\ \A a \in DOMAIN adj, b \in Gone : To(adj, a, b) => a \in Gone
      /\ stack \in Seq(DOMAIN adj) /\ comp \in Seq(DOMAIN adj)
      /\ IsInjective(stack) /\ IsInjective(comp)
      /\ ToSet(comp) \cap ToSet(stack) = {}
      /\ Current \in SUBSET visited
      /\ \A y \in Current : next >= 1 /\ r \in Current /\ To(adj, y, r)
      /\ \A y \in ToSet(comp) : ToSet(rev[y]) \subseteq visited
  BY <1>1 DEF AnchorsInv, Gathering
<1>4. /\ Front(stack) \in Seq(DOMAIN adj) /\ x \in DOMAIN adj /\ IsInjective(Front(stack))
      /\ ToSet(stack) = ToSet(Front(stack)) \cup {x} /\ x \notin ToSet(Front(stack))
  <2>1. PICK D : D = DOMAIN adj
    OBVIOUS
  <2>2. stack \in Seq(D) /\ stack # <<>> /\ IsInjective(stack)
    BY <1>1, <1>3, <2>1, Zenon
  <2>3. /\ Front(stack) \in Seq(D) /\ x \in D
        /\ ToSet(stack) = ToSet(Front(stack)) \cup {x}
        /\ IsInjective(stack) => IsInjective(Front(stack)) /\ x \notin ToSet(Front(stack))
    BY <2>2, FrontRange
  <2> QED
    BY <2>1, <2>2, <2>3, Zenon
<1>5. /\ rev[x] \in Seq(DOMAIN adj) /\ \A u \in ToSet(rev[x]) : u \in DOMAIN adj /\ x \in ToSet(adj[u])
  BY <1>1, <1>4, Zenon DEF AnchorsInv, Graphed
<1>6. new \in Seq(DOMAIN adj) /\ IsInjective(new) /\ ToSet(new) = ToSet(rev[x]) \ visited
  <2>1. PICK l : l = rev[x]
    OBVIOUS
  <2>2. l \in Seq(DOMAIN adj)
    BY <1>5, <2>1
  <2>3. /\ Unseen(l, visited) \in Seq(DOMAIN adj) /\ IsInjective(Unseen(l, visited))
        /\ ToSet(Unseen(l, visited)) = ToSet(l) \ visited
    BY <2>2, UnseenMeans, Zenon
  <2> QED
    BY <2>1, <2>3
<1> HIDE DEF x, new
<1>7. ToSet(new) \subseteq DOMAIN adj
  BY <1>6, SeqRange
<1>8. x \in Current /\ x \notin ToSet(comp) /\ ToSet(Front(stack)) \subseteq Current
  BY <1>3, <1>4, Zenon DEF Current
<1>9. /\ stack' \in Seq(DOMAIN adj) /\ IsInjective(stack')
      /\ ToSet(stack') = ToSet(Front(stack)) \cup ToSet(new)
  <2>1. ToSet(Front(stack)) \cap ToSet(new) = {}
    BY <1>3, <1>6, <1>8, Zenon
  <2>2. PICK D, s : D = DOMAIN adj /\ s = Front(stack)
    OBVIOUS
  <2>3. /\ s \in Seq(D) /\ new \in Seq(D) /\ IsInjective(s) /\ IsInjective(new)
        /\ ToSet(s) \cap ToSet(new) = {}
    BY <1>4, <1>6, <2>1, <2>2, Zenon
  <2>4. s \o new \in Seq(D) /\ IsInjective(s \o new) /\ ToSet(s \o new) = ToSet(s) \cup ToSet(new)
    BY <2>3, InjectiveConcat
  <2> QED
    BY <1>1, <2>2, <2>4, Zenon
<1>10. /\ comp' \in Seq(DOMAIN adj) /\ IsInjective(comp')
       /\ ToSet(comp') = ToSet(comp) \cup {x}
  <2>1. PICK D : D = DOMAIN adj
    OBVIOUS
  <2>2. comp \in Seq(D) /\ x \in D /\ IsInjective(comp) /\ x \notin ToSet(comp)
    BY <1>3, <1>4, <1>8, <2>1, Zenon
  <2>3. IsInjective(Append(comp, x)) /\ Append(comp, x) \in Seq(D)
        /\ ToSet(Append(comp, x)) = ToSet(comp) \cup {x}
    BY <2>2, InjectiveAppend
  <2> QED
    BY <1>1, <2>1, <2>3, Zenon
<1>11. \A u : u \in Current' <=> (u \in Current \/ u \in ToSet(new))
  BY <1>4, <1>9, <1>10, Zenon DEF Current
<1>12. Gone' = Gone
  BY <1>1, <1>3, <1>6, <1>11, Zenon DEF Gone
<1>13. \A u \in Current' : next >= 1 /\ r \in Current' /\ To(adj, u, r)
  <2> TAKE u \in Current'
  <2>1. next >= 1 /\ r \in Current /\ To(adj, x, r)
    BY <1>3, <1>8, Zenon
  <2>2. CASE u \in Current
    BY <1>3, <1>11, <2>2, Zenon
  <2>3. CASE u \in ToSet(new)
    <3>1. u \in DOMAIN adj /\ x \in ToSet(adj[u])
      BY <1>5, <1>6, <2>3, Zenon
    <3>2. To(adj, u, x)
      BY <1>4, <3>1, ToFacts, Zenon
    <3>3. PICK z : z = r
      OBVIOUS
    <3>4. To(adj, x, z)
      BY <2>1, <3>3
    <3>5. To(adj, u, z)
      BY <3>2, <3>4, ToFacts, Zenon
    <3> QED
      BY <1>11, <2>1, <3>3, <3>5, Zenon
  <2> QED
    BY <1>11, <2>2, <2>3, Zenon
<1>14. \A y \in ToSet(comp') : ToSet(rev[y]) \subseteq visited'
  <2>1. \A y \in ToSet(comp) : ToSet(rev[y]) \subseteq visited'
    BY <1>1, <1>3, Zenon
  <2>2. ToSet(rev[x]) \subseteq visited'
    BY <1>1, <1>6, Zenon
  <2> QED
    BY <1>10, <2>1, <2>2, Zenon
<1>15. /\ ToSet(comp') \cap ToSet(stack') = {} /\ Current' \in SUBSET visited'
       /\ visited' \in SUBSET DOMAIN adj
  <2>1. \A u : ~(u \in ToSet(comp') /\ u \in ToSet(stack'))
    <3> SUFFICES ASSUME NEW u, u \in ToSet(comp'), u \in ToSet(stack')
                 PROVE  FALSE
      BY Zenon
    <3>1. u \in ToSet(comp) \/ u = x
      BY <1>10
    <3>2. u \in Current /\ u \in visited
      BY <1>3, <1>8, <3>1, Zenon DEF Current
    <3>3. u \in ToSet(Front(stack))
      BY <1>6, <1>9, <3>2, Zenon
    <3> QED
      BY <1>3, <1>4, <3>1, <3>3, Zenon
  <2>2. Current' \in SUBSET visited'
    BY <1>1, <1>3, <1>11, Zenon
  <2>3. visited' \in SUBSET DOMAIN adj
    BY <1>1, <1>3, <1>7, Zenon
  <2> QED
    BY <2>1, <2>2, <2>3, Zenon
<1>16. Gathering'
  BY <1>1, <1>2, <1>3, <1>9, <1>10, <1>12, <1>13, <1>14, <1>15, Zenon DEF Gathering, r
<1>17. Comparing'
  BY <1>1, <1>12, Zenon DEF AnchorsInv, Comparing
<1> QED
  BY <1>2, <1>16, <1>17, Zenon DEF AnchorsInv

\* Where the walk against the edges stops, nothing visited is led to from outside.
LEMMA ClosedBehind ==
    ASSUME AnchorsInv, pc = "pass2", stack = <<>>
    PROVE  \A a \in DOMAIN adj, b \in visited : To(adj, a, b) => a \in visited
<1>1. /\ visited \in SUBSET DOMAIN adj /\ Current \in SUBSET visited
      /\ \A a \in DOMAIN adj, b \in Gone : To(adj, a, b) => a \in Gone
      /\ \A x \in ToSet(comp) : ToSet(rev[x]) \subseteq visited
  BY DEF AnchorsInv, Gathering
<1>2. Current = ToSet(comp)
  BY FewMembers, Zenon DEF Current
<1>3. \A x \in DOMAIN adj : ToSet(rev[x]) = {u \in DOMAIN adj : x \in ToSet(adj[u])}
  BY Zenon DEF AnchorsInv, Graphed
<1> DEFINE X == DOMAIN adj \ visited
<1>4. Closed(X, Arcs(adj))
  <2> SUFFICES ASSUME NEW e \in Arcs(adj), e[1] \in X, e[2] \notin X
               PROVE  FALSE
    BY Zenon DEF Closed
  <2>1. PICK a, b : a = e[1] /\ b = e[2]
    OBVIOUS
  <2>2. a \in DOMAIN adj /\ b \in DOMAIN adj /\ b \in ToSet(adj[a]) /\ a \notin visited /\ b \in visited
    BY <2>1 DEF Arcs
  <2>3. CASE b \in Gone
    <3>1. To(adj, a, b)
      BY <2>2, ToFacts, Zenon
    <3> QED
      BY <1>1, <2>2, <2>3, <3>1, Zenon DEF Gone
  <2>4. CASE b \in ToSet(comp)
    BY <1>1, <1>3, <2>2, <2>4, Zenon
  <2> QED
    BY <1>2, <2>2, <2>3, <2>4, Zenon DEF Gone
<1> SUFFICES ASSUME NEW a \in DOMAIN adj, NEW b \in visited, To(adj, a, b), a \notin visited
             PROVE  FALSE
  BY Zenon
<1>5. b \in X
  BY <1>4, Zenon DEF To, Leads
<1> QED
  BY <1>5

\* So what the walk gathered is the component of the node that opened it.
LEMMA CompIsClass ==
    ASSUME AnchorsInv, pc = "pass2", stack = <<>>, comp # <<>>
    PROVE  /\ next \in 1 .. Len(order) /\ order[next] \in ToSet(comp) /\ order[next] \in DOMAIN adj
           /\ ToSet(comp) = Class(adj, order[next])
<1> DEFINE r == order[next]
<1>1. /\ IsInjective(order) /\ ToSet(order) = DOMAIN adj
      /\ \A i \in DOMAIN order : Settled(i)
      /\ next \in 0 .. Len(order) /\ visited \in SUBSET DOMAIN adj
      /\ \A j \in next + 1 .. Len(order) : order[j] \in Gone
      /\ \A a \in DOMAIN adj, b \in Gone : To(adj, a, b) => a \in Gone
      /\ comp \in Seq(DOMAIN adj) /\ Current \in SUBSET visited
      /\ \A x \in Current : next >= 1 /\ r \in Current /\ To(adj, x, r)
  BY DEF AnchorsInv, Gathering
<1>2. Current = ToSet(comp)
  BY FewMembers, Zenon DEF Current
<1>3. order \in Seq(DOMAIN adj) /\ Len(order) \in Nat /\ DOMAIN order = 1 .. Len(order)
  BY PassFacts
<1>4. comp[1] \in ToSet(comp)
  <2>1. 1 \in 1 .. Len(comp)
    BY <1>1
  <2> QED
    BY <1>1, <2>1, SeqRange
<1>5. next \in 1 .. Len(order) /\ r \in ToSet(comp) /\ r \in DOMAIN adj
  <2>1. next >= 1 /\ r \in ToSet(comp)
    BY <1>1, <1>2, <1>4, Zenon
  <2>2. next \in 1 .. Len(order)
    BY <1>1, <1>3, <2>1
  <2> QED
    BY <1>1, <1>2, <2>1, <2>2, Zenon
<1> HIDE DEF r
<1>6. Open = {}
  <2>1. frames = <<>>
    BY DEF AnchorsInv, Shapes
  <2>2. DOMAIN frames = {}
    BY <2>1
  <2> QED
    BY <2>2, Zenon DEF Open
<1>7. ASSUME NEW u \in Class(adj, r)
      PROVE  u \in ToSet(comp)
  <2>1. u \in DOMAIN adj /\ To(adj, r, u) /\ To(adj, u, r)
    BY DEF Class, Strong
  <2>2. r \in visited /\ r \notin Gone
    BY <1>1, <1>2, <1>5, Zenon DEF Gone
  <2>3. u \in visited
    BY <2>1, <2>2, ClosedBehind, Zenon
  <2>4. u \notin Gone
    BY <1>1, <1>5, <2>1, <2>2, Zenon
  <2> QED
    BY <1>2, <2>3, <2>4, Zenon DEF Gone
<1>8. ASSUME NEW x \in ToSet(comp)
      PROVE  x \in Class(adj, r)
  <2>1. x \in DOMAIN adj /\ x \notin Gone /\ To(adj, x, r)
    BY <1>1, <1>2, Zenon DEF Gone
  <2> DEFINE K == {k \in 1 .. Len(order) : Strong(adj, x, order[k])}
  <2>2. K # {}
    <3>1. PICK k \in 1 .. Len(order) : x = order[k]
      BY <1>1, <1>3, <2>1, SeqRange, Zenon
    <3>2. Strong(adj, x, x)
      BY ToFacts, Zenon DEF Strong
    <3> QED
      BY <3>1, <3>2, Zenon
  <2>3. PICK k \in K : \A l \in K : l <= k
    <3>1. K \in SUBSET (1 .. Len(order))
      OBVIOUS
    <3> HIDE DEF K
    <3> QED
      BY <1>3, <2>2, <3>1, MaxIsGreatest
  <2>4. k \in 1 .. Len(order) /\ Strong(adj, x, order[k])
    OBVIOUS
  <2>5. \A l \in k + 1 .. Len(order) : ~Strong(adj, x, order[l])
    <3> TAKE l \in k + 1 .. Len(order)
    <3>1. l \in 1 .. Len(order) /\ ~(l <= k)
      BY <1>3, <2>4
    <3>2. l \notin K
      BY <2>3, <3>1, Zenon
    <3> QED
      BY <3>1, <3>2, Zenon
  <2> HIDE DEF K
  <2>6. PICK o : o = order[k]
    OBVIOUS
  <2>7. o \in DOMAIN adj /\ To(adj, x, o) /\ To(adj, o, x)
    BY <1>3, <2>4, <2>6, SeqIsFunction, Zenon DEF Strong
  <2>8. o \notin Gone
    BY <1>1, <2>1, <2>7, Zenon
  <2>9. k <= next
    <3>1. k \notin next + 1 .. Len(order)
      BY <1>1, <2>6, <2>8, Zenon
    <3> QED
      BY <1>3, <1>5, <2>4, <3>1
  <2>10. To(adj, o, r)
    BY <2>1, <2>7, ToFacts, Zenon
  <2>11. \/ \E j \in 1 .. k : order[j] = r
         \/ \E l \in k + 1 .. Len(order) : Strong(adj, o, order[l])
    BY <1>1, <1>3, <1>5, <1>6, <2>4, <2>6, <2>10, Zenon DEF Settled
  <2>12. CASE \E j \in 1 .. k : order[j] = r
    <3>1. PICK j \in 1 .. k : order[j] = r
      BY <2>12
    <3>2. j \in DOMAIN order /\ next \in DOMAIN order
      BY <1>3, <1>5, <2>4, <3>1
    <3>3. j = next
      BY <1>1, <3>1, <3>2, Zenon DEF r, IsInjective
    <3>4. k = next
      BY <1>3, <1>5, <2>4, <2>9, <3>1, <3>3
    <3>5. o = r
      BY <2>6, <3>4 DEF r
    <3> QED
      BY <2>1, <2>7, <3>5, Zenon DEF Class, Strong
  <2>13. CASE \E l \in k + 1 .. Len(order) : Strong(adj, o, order[l])
    <3>1. PICK l \in k + 1 .. Len(order) : Strong(adj, o, order[l])
      BY <2>13
    <3>2. PICK z : z = order[l]
      OBVIOUS
    <3>3. To(adj, o, z) /\ To(adj, z, o)
      BY <3>1, <3>2, Zenon DEF Strong
    <3>4. To(adj, x, z) /\ To(adj, z, x)
      BY <2>7, <3>3, ToFacts, Zenon
    <3>5. Strong(adj, x, order[l])
      BY <3>2, <3>4, Zenon DEF Strong
    <3> QED
      BY <2>5, <3>5, Zenon
  <2> QED
    BY <2>11, <2>12, <2>13
<1>9. ToSet(comp) = Class(adj, r)
  BY <1>7, <1>8, Zenon
<1> QED
  BY <1>5, <1>9, Zenon DEF r

\* Nodes of one component have the same.
LEMMA ClassShared ==
    ASSUME NEW a, NEW v \in DOMAIN a, NEW u \in Class(a, v)
    PROVE  Class(a, u) = Class(a, v)
<1>1. u \in DOMAIN a /\ To(a, v, u) /\ To(a, u, v)
  BY DEF Class, Strong
<1>2. \A w \in DOMAIN a : Strong(a, u, w) <=> Strong(a, v, w)
  BY <1>1, ToFacts, Zenon DEF Strong
<1> QED
  BY <1>2, Zenon DEF Class

\* The component just gathered, when it is larger, is the largest so far; when it
\* is not, it leads to none of the components made before.
LEMMA CloseComponentStep == ASSUME AnchorsInv, CloseComponent PROVE AnchorsInv'
<1> DEFINE r == order[next]
<1>1. /\ pc = "pass2" /\ stack = <<>> /\ comp # <<>>
      /\ largest' = (IF Len(comp) > Len(largest) THEN comp ELSE largest)
      /\ comp' = <<>> /\ next' = next - 1
      /\ pc' = pc /\ corpus' = corpus /\ threshold' = threshold /\ row' = row /\ epoch' = epoch
      /\ nodeEpoch' = nodeEpoch /\ nodeKinds' = nodeKinds /\ nodes' = nodes /\ adj' = adj /\ rev' = rev
      /\ frames' = frames /\ order' = order /\ anchors' = anchors /\ runs' = runs
      /\ visited' = visited /\ stack' = stack
  BY DEF CloseComponent, Larger, Down, parse, marks, graph, pass1, history
<1>2. /\ Shapes' /\ Collecting' /\ Collected' /\ Graphed' /\ Searching' /\ Chosen'
      /\ \A i \in DOMAIN order : Settled(i)'
  BY <1>1, Pass2Kept, Zenon
<1>3. /\ IsInjective(order) /\ ToSet(order) = DOMAIN adj
      /\ visited \in SUBSET DOMAIN adj
      /\ \A j \in next + 1 .. Len(order) : order[j] \in Gone
      /\ \A a \in DOMAIN adj, b \in Gone : To(adj, a, b) => a \in Gone
      /\ comp \in Seq(DOMAIN adj) /\ IsInjective(comp) /\ Current \in SUBSET visited
  BY <1>1 DEF AnchorsInv, Gathering
<1>4. /\ next \in 1 .. Len(order) /\ r \in ToSet(comp) /\ r \in DOMAIN adj
      /\ ToSet(comp) = Class(adj, r)
  BY <1>1, CompIsClass, Zenon
<1>5. order \in Seq(DOMAIN adj) /\ Len(order) \in Nat
  BY <1>1, PassFacts
<1>6. /\ Current = ToSet(comp) /\ Current' = {} /\ ToSet(comp') = {} /\ IsInjective(comp')
      /\ ToSet(stack') = {} /\ IsInjective(stack')
  BY <1>1, FewMembers, Zenon DEF Current
<1>7. Gone' = visited
  BY <1>1, <1>6, Zenon DEF Gone
<1>8. \A b : b \in visited <=> (b \in Gone \/ b \in ToSet(comp))
  BY <1>3, <1>6, Zenon DEF Gone
<1>9. Gathering'
  <2>1. next' \in 0 .. Len(order) /\ \A j : j \in next' + 1 .. Len(order) => j = next \/ j \in next + 1 .. Len(order)
    BY <1>1, <1>4, <1>5
  <2>2. \A j \in next' + 1 .. Len(order) : order[j] \in visited
    BY <1>3, <1>4, <1>8, <2>1, Zenon
  <2>3. stack' \in Seq(DOMAIN adj) /\ comp' \in Seq(DOMAIN adj)
    BY <1>1
  <2>4. ToSet(comp') \cap ToSet(stack') = {} /\ Current' \in SUBSET visited'
    BY <1>6
  <2>5. \A a \in DOMAIN adj, b \in visited : To(adj, a, b) => a \in visited
    BY <1>1, ClosedBehind, Zenon
  <2>6. \A x \in ToSet(comp') : FALSE
    BY <1>6, Zenon
  <2>7. \A x \in Current' : FALSE
    BY <1>6, Zenon
  <2> QED
    BY <1>1, <1>2, <1>3, <1>6, <1>7, <2>1, <2>2, <2>3, <2>4, <2>5, <2>6, <2>7, Zenon DEF Gathering
<1> HIDE DEF r
<1>10. \A b \in ToSet(comp) : Cardinality(Class(adj, b)) = Len(comp)
  <2>1. Cardinality(ToSet(comp)) = Len(comp)
    BY <1>3, InjectiveLength
  <2>2. \A b \in Class(adj, r) : Class(adj, b) = Class(adj, r)
    BY <1>4, ClassShared, Zenon
  <2> QED
    BY <1>4, <2>1, <2>2, Zenon
<1>11. /\ largest \in Seq(DOMAIN adj) /\ IsInjective(largest)
       /\ largest # <<>> => \E t \in Gone : ToSet(largest) = Class(adj, t)
       /\ \A b \in Gone :
             /\ Cardinality(Class(adj, b)) <= Len(largest)
             /\ \A c \in ToSet(largest) : b \notin ToSet(largest) /\ To(adj, b, c) =>
                   Cardinality(Class(adj, b)) < Len(largest)
  BY <1>1, Zenon DEF AnchorsInv, Comparing
<1>12. Len(comp) \in Nat \ {0} /\ Len(largest) \in Nat
  BY <1>1, <1>3, <1>11
<1>13. \A b \in Gone : Cardinality(Class(adj, b)) \in Nat
  <2> TAKE b \in Gone
  <2>1. IsFiniteSet(DOMAIN adj)
    <3>1. DOMAIN adj = 1 .. numNodes /\ numNodes \in Nat
      BY <1>1, PassFacts
    <3> QED
      BY <3>1, CountFromOne
  <2>2. Class(adj, b) \in SUBSET DOMAIN adj
    BY Zenon DEF Class
  <2> QED
    BY <2>1, <2>2, FS_Subset, FS_CardinalityType
<1>14. CASE Len(comp) > Len(largest)
  <2>1. largest' = comp
    BY <1>1, <1>14
  <2>2. \A b \in Gone : Cardinality(Class(adj, b)) < Len(comp) /\ Cardinality(Class(adj, b)) <= Len(comp)
    <3> TAKE b \in Gone
    <3>1. PICK k : k = Cardinality(Class(adj, b))
      OBVIOUS
    <3>2. k \in Nat /\ k <= Len(largest)
      BY <1>11, <1>13, <3>1, Zenon
    <3>3. k < Len(comp) /\ k <= Len(comp)
      BY <1>12, <1>14, <3>2
    <3> QED
      BY <3>1, <3>3
  <2>4. Len(comp) <= Len(comp)
    BY <1>12
  <2>5. \A b \in visited :
          /\ Cardinality(Class(adj, b)) <= Len(comp)
          /\ \A c \in ToSet(comp) : b \notin ToSet(comp) /\ To(adj, b, c) =>
                Cardinality(Class(adj, b)) < Len(comp)
    BY <1>8, <1>10, <2>2, <2>4, Zenon
  <2>6. \E t \in visited : ToSet(comp) = Class(adj, t)
    BY <1>4, <1>8, Zenon
  <2>7. Comparing'
    BY <1>1, <1>3, <1>7, <2>1, <2>5, <2>6, Zenon DEF Comparing
  <2> QED
    BY <1>2, <1>9, <2>7, Zenon DEF AnchorsInv
<1>15. CASE ~(Len(comp) > Len(largest))
  <2>1. largest' = largest /\ Len(comp) <= Len(largest)
    BY <1>1, <1>12, <1>15
  <2>2. largest # <<>>
    BY <1>11, <1>12, <2>1
  <2>3. PICK t \in Gone : ToSet(largest) = Class(adj, t)
    BY <1>11, <2>2
  <2>4. \A c \in ToSet(largest) : c \in Gone
    BY <1>3, <2>3, Zenon DEF Class, Strong
  <2>5. \A b \in ToSet(comp), c \in ToSet(largest) : ~To(adj, b, c)
    BY <1>3, <1>6, <2>4, Zenon DEF Gone
  <2>6. \A b \in visited :
          /\ Cardinality(Class(adj, b)) <= Len(largest)
          /\ \A c \in ToSet(largest) : b \notin ToSet(largest) /\ To(adj, b, c) =>
                Cardinality(Class(adj, b)) < Len(largest)
    BY <1>8, <1>10, <1>11, <2>1, <2>5, Zenon
  <2>7. \E s \in visited : ToSet(largest) = Class(adj, s)
    BY <1>8, <2>3, Zenon
  <2>8. Comparing'
    BY <1>1, <1>7, <1>11, <2>1, <2>6, <2>7, Zenon DEF Comparing
  <2> QED
    BY <1>2, <1>9, <2>8, Zenon DEF AnchorsInv
<1> QED
  BY <1>14, <1>15

\* Between the numbers the passes work on and the tokens they stand for.
LEMMA Numbered ==
    ASSUME AnchorsInv, pc \in {"pass1", "pass2"}
    PROVE  /\ IsFiniteSet(RowNodes) /\ RowEdges \in SUBSET (RowNodes \X RowNodes)
           /\ RowNodes = {nodes[v] : v \in DOMAIN adj}
           /\ \A v, u \in DOMAIN adj :
                 /\ To(adj, v, u) <=> Leads(RowNodes, RowEdges, nodes[v], nodes[u])
                 /\ Strong(adj, v, u) <=> Tied(RowNodes, RowEdges, nodes[v], nodes[u])
                 /\ u \in ToSet(adj[v]) <=> <<nodes[v], nodes[u]>> \in RowEdges
           /\ \A v \in DOMAIN adj : {t \in RowNodes : Tied(RowNodes, RowEdges, nodes[v], t)}
                                       = {nodes[u] : u \in Class(adj, v)}
           /\ \A S \in SUBSET DOMAIN adj : Cardinality({nodes[u] : u \in S}) = Cardinality(S)
<1> DEFINE V == DOMAIN adj
<1>1. /\ nodes \in Seq(Tokens) /\ IsInjective(nodes) /\ ToSet(nodes) = RowNodes
      /\ numNodes \in Nat /\ DOMAIN nodes = V /\ V = 1 .. numNodes
  BY PassFacts
<1>2. \A v \in V : ToSet(adj[v]) = {u \in V : <<nodes[v], nodes[u]>> \in RowEdges}
  BY <1>1, Zenon DEF AnchorsInv, Graphed
<1>3. RowNodes = {nodes[v] : v \in V}
  BY <1>1, Zenon DEF ToSet
<1>4. IsFiniteSet(V) /\ IsFiniteSet(RowNodes)
  BY <1>1, CountFromOne, SeqRange
<1>5. RowEdges \in SUBSET (RowNodes \X RowNodes)
  BY Zenon DEF RowEdges
<1>6. Arcs(adj) = {e \in V \X V : <<nodes[e[1]], nodes[e[2]]>> \in RowEdges}
  <2>1. \A e \in V \X V : e[1] \in V /\ e[2] \in V
    OBVIOUS
  <2>2. \A e \in V \X V : e[2] \in ToSet(adj[e[1]]) <=> <<nodes[e[1]], nodes[e[2]]>> \in RowEdges
    BY <1>2, <2>1, Zenon
  <2> QED
    BY <2>2, Zenon DEF Arcs
<1>7. ASSUME NEW v \in V, NEW u \in V
      PROVE  To(adj, v, u) <=> Leads(RowNodes, RowEdges, nodes[v], nodes[u])
  <2>1. PICK N, E, f, G : N = RowNodes /\ E = RowEdges /\ f = nodes /\ G = Arcs(adj)
    OBVIOUS
  <2> HIDE DEF V
  <2>2. /\ E \in SUBSET (N \X N) /\ DOMAIN f = V /\ IsInjective(f) /\ {f[w] : w \in V} = N
        /\ G = {e \in V \X V : <<f[e[1]], f[e[2]]>> \in E}
    BY <1>1, <1>3, <1>5, <1>6, <2>1, Zenon
  <2>3. Leads(V, G, v, u) <=> Leads(N, E, f[v], f[u])
    BY <2>2, LeadsNumbered
  <2> QED
    BY <2>1, <2>3, Zenon DEF To, V
<1>8. \A v, u \in V : Strong(adj, v, u) <=> Tied(RowNodes, RowEdges, nodes[v], nodes[u])
  BY <1>7, Zenon DEF Strong, Tied
<1>9. ASSUME NEW v \in V
      PROVE  {t \in RowNodes : Tied(RowNodes, RowEdges, nodes[v], t)} = {nodes[u] : u \in Class(adj, v)}
  <2>1. Class(adj, v) = {u \in V : Tied(RowNodes, RowEdges, nodes[v], nodes[u])}
    BY <1>8, Zenon DEF Class
  <2> QED
    BY <1>3, <2>1, Zenon
<1>10. ASSUME NEW S \in SUBSET V
       PROVE  Cardinality({nodes[u] : u \in S}) = Cardinality(S)
  <2> DEFINE g == [u \in S |-> nodes[u]]
  <2>1. IsFiniteSet(S)
    BY <1>4, FS_Subset
  <2>2. DOMAIN g = S /\ IsInjective(g) /\ {g[u] : u \in S} = {nodes[u] : u \in S}
    BY <1>1, Zenon DEF IsInjective
  <2> HIDE DEF g
  <2> QED
    BY <2>1, <2>2, InjectiveRange
<1>11. \A v, u \in V : u \in ToSet(adj[v]) <=> <<nodes[v], nodes[u]>> \in RowEdges
  BY <1>2, Zenon
<1> QED
  BY <1>3, <1>4, <1>5, <1>7, <1>8, <1>9, <1>10, <1>11, Zenon

\* The largest of all components, as tokens.
LEMMA EndPass2Step == ASSUME AnchorsInv, EndPass2 PROVE AnchorsInv'
<1> DEFINE N == RowNodes
           E == RowEdges
           size(v) == Cardinality(Class(adj, v))
           best == {nodes[v] : v \in ToSet(largest)}
<1>1. /\ pc = "pass2" /\ stack = <<>> /\ comp = <<>> /\ next < 1
      /\ anchors' = {nodes[v] : v \in ToSet(largest)} /\ pc' = "special"
      /\ corpus' = corpus /\ threshold' = threshold /\ row' = row /\ epoch' = epoch
      /\ nodeEpoch' = nodeEpoch /\ nodeKinds' = nodeKinds /\ nodes' = nodes /\ adj' = adj
      /\ frames' = frames /\ order' = order /\ runs' = runs
      /\ stack' = stack /\ comp' = comp
  BY DEF EndPass2, parse, marks, graph, pass1, pass2, history
<1>2. /\ nodes \in Seq(Tokens) /\ numNodes \in Nat /\ DOMAIN nodes = DOMAIN adj
      /\ DOMAIN adj = 1 .. numNodes /\ order \in Seq(DOMAIN adj) /\ Len(order) \in Nat
  BY <1>1, PassFacts
<1>3. /\ Tokens' = Tokens /\ TokenIds' = TokenIds /\ RowNodes' = RowNodes /\ RowEdges' = RowEdges
      /\ numNodes' = numNodes
  BY <1>1, RowKept, Zenon DEF numNodes
<1>4. /\ ToSet(order) = DOMAIN adj /\ next \in 0 .. Len(order) /\ visited \in SUBSET DOMAIN adj
      /\ \A j \in next + 1 .. Len(order) : order[j] \in Gone
  BY <1>1 DEF AnchorsInv, Gathering
<1>5. Gone = DOMAIN adj
  <2>1. next + 1 = 1
    BY <1>1, <1>2, <1>4
  <2>2. \A v \in ToSet(order) : \E j \in 1 .. Len(order) : v = order[j]
    BY <1>2, SeqRange
  <2> QED
    BY <1>4, <2>1, <2>2, Zenon DEF Gone
<1>6. /\ largest \in Seq(DOMAIN adj) /\ IsInjective(largest)
      /\ largest # <<>> => \E t \in DOMAIN adj : ToSet(largest) = Class(adj, t)
      /\ \A b \in DOMAIN adj :
            /\ size(b) <= Len(largest)
            /\ \A c \in ToSet(largest) : b \notin ToSet(largest) /\ To(adj, b, c) => size(b) < Len(largest)
  BY <1>1, <1>5, Zenon DEF AnchorsInv, Comparing
<1>7. /\ IsFiniteSet(N) /\ N = {nodes[v] : v \in DOMAIN adj}
      /\ \A v, u \in DOMAIN adj : To(adj, v, u) <=> Leads(N, E, nodes[v], nodes[u])
      /\ \A v \in DOMAIN adj : {t \in N : Tied(N, E, nodes[v], t)} = {nodes[u] : u \in Class(adj, v)}
      /\ \A S \in SUBSET DOMAIN adj : Cardinality({nodes[u] : u \in S}) = Cardinality(S)
  BY <1>1, Numbered
<1> HIDE DEF N, E
<1>8. \A v \in DOMAIN adj : Class(adj, v) \in SUBSET DOMAIN adj
  BY Zenon DEF Class
<1>9. PICK t \in DOMAIN adj : ToSet(largest) = Class(adj, t)
  <2>1. 1 \in DOMAIN adj
    <3>1. numNodes > 1
      BY <1>1 DEF AnchorsInv, Collected
    <3> QED
      BY <1>2, <3>1
  <2>2. 1 \in Class(adj, 1)
    BY <2>1, ToFacts, Zenon DEF Class, Strong
  <2>3. IsFiniteSet(Class(adj, 1))
    BY <1>2, <1>8, <2>1, CountFromOne, FS_Subset
  <2>4. size(1) \in Nat /\ size(1) # 0
    BY <2>2, <2>3, FS_CardinalityType, FS_EmptySet
  <2>5. Len(largest) # 0
    <3>1. size(1) <= Len(largest)
      BY <1>6, <2>1, Zenon
    <3> HIDE DEF size
    <3>2. Len(largest) \in Nat
      BY <1>6
    <3> QED
      BY <2>4, <3>1, <3>2
  <2>6. largest # <<>>
    BY <2>5
  <2> QED
    BY <1>6, <2>6
<1>10. Cardinality(best) = Len(largest)
  <2>1. ToSet(largest) \in SUBSET DOMAIN adj
    BY <1>8, <1>9
  <2>2. Cardinality(best) = Cardinality(ToSet(largest))
    BY <1>7, <2>1, Zenon
  <2> QED
    BY <1>6, <2>2, InjectiveLength
<1>11. IsBest(N, E, best)
  <2>1. \E s \in N : best = {u \in N : Tied(N, E, s, u)}
    BY <1>7, <1>9, Zenon
  <2>2. ASSUME NEW s \in N
        PROVE  /\ Cardinality({u \in N : Tied(N, E, s, u)}) <= Cardinality(best)
               /\ \A c \in best : s \notin best /\ Leads(N, E, s, c) =>
                     Cardinality({u \in N : Tied(N, E, s, u)}) < Cardinality(best)
    <3>1. PICK b \in DOMAIN adj : s = nodes[b]
      BY <1>7, Zenon
    <3>2. Cardinality({u \in N : Tied(N, E, s, u)}) = size(b)
      BY <1>7, <1>8, <3>1, Zenon
    <3>3. ASSUME NEW c \in best, s \notin best, Leads(N, E, s, c)
          PROVE  size(b) < Len(largest)
      <4>1. PICK d \in ToSet(largest) : c = nodes[d]
        BY Zenon
      <4>2. d \in DOMAIN adj /\ b \notin ToSet(largest)
        BY <1>8, <1>9, <3>1, <3>3, Zenon
      <4>3. To(adj, b, d)
        BY <1>7, <3>1, <3>3, <4>1, <4>2, Zenon
      <4> QED
        BY <1>6, <4>2, <4>3, Zenon
    <3> HIDE DEF size, best
    <3> QED
      BY <1>6, <1>10, <3>2, <3>3, Zenon
  <2> HIDE DEF best
  <2> QED
    BY <2>1, <2>2, Zenon DEF IsBest
<1>12. Chosen'
  BY <1>1, <1>3, <1>11 DEF Chosen, N, E
<1>13. Shapes'
  <2>1. pc' \in {"idle", "nodes", "edges", "pass1", "pass2", "special", "done"}
        /\ pc # "idle"
    BY <1>1
  <2>2. anchors' \in SUBSET Tokens
    <3>1. \A v \in DOMAIN adj : nodes[v] \in Tokens
      BY <1>2
    <3> QED
      BY <1>1, <1>8, <1>9, <3>1, Zenon
  <2>3. frames' = <<>> /\ stack' = <<>> /\ comp' = <<>>
    BY <1>1 DEF AnchorsInv, Shapes
  <2> QED
    BY <1>1, <1>3, <2>1, <2>2, <2>3, Zenon DEF AnchorsInv, Shapes
<1>14. Collected'
  BY <1>1, <1>3 DEF AnchorsInv, Collected
<1>15. Collecting' /\ Graphed' /\ Searching' /\ Gathering' /\ Comparing'
  BY <1>1 DEF Collecting, Graphed, Searching, Gathering, Comparing
<1> QED
  BY <1>12, <1>13, <1>14, <1>15, Zenon DEF AnchorsInv

\* White tokens join the best component and black ones leave it.
LEMMA SpecialStep == ASSUME AnchorsInv, Special PROVE AnchorsInv'
<1>1. /\ pc = "special" /\ pc' = "done"
      /\ anchors' = (anchors \cup OfKind("specialWhite")) \ OfKind("specialBlack")
      /\ corpus' = corpus /\ threshold' = threshold /\ row' = row /\ epoch' = epoch
      /\ nodeEpoch' = nodeEpoch /\ nodeKinds' = nodeKinds /\ nodes' = nodes /\ adj' = adj
      /\ frames' = frames /\ order' = order /\ runs' = runs /\ stack' = stack /\ comp' = comp
  BY DEF Special, parse, marks, graph, pass1, pass2, history
<1>2. /\ Tokens' = Tokens /\ TokenIds' = TokenIds /\ RowNodes' = RowNodes /\ RowEdges' = RowEdges
      /\ numNodes' = numNodes
  BY <1>1, RowKept, Zenon DEF numNodes
<1>3. \A k : OfKind(k)' = OfKind(k)
  BY <1>1 DEF OfKind, Line
<1>4. corpus \in Corpora /\ row \in DOMAIN corpus.rows /\ row # 0
  BY <1>1, RowFacts DEF AnchorsInv, Shapes
<1>5. OfKind("specialWhite") \subseteq Tokens
  BY <1>4, Zenon DEF OfKind, Tokens, Line
<1>6. Chosen'
  <2>1. IsBest(RowNodes, RowEdges, anchors)
    BY <1>1 DEF AnchorsInv, Chosen
  <2>2. anchors \in SUBSET RowNodes
    BY <2>1, Zenon DEF IsBest
  <2> QED
    BY <1>1, <1>2, <1>3, <2>1, <2>2 DEF Chosen
<1>7. Shapes'
  <2>1. pc' \in {"idle", "nodes", "edges", "pass1", "pass2", "special", "done"}
        /\ pc # "idle" /\ pc # "pass1" /\ pc # "pass2"
    BY <1>1
  <2>2. anchors' \in SUBSET Tokens
    BY <1>1, <1>5 DEF AnchorsInv, Shapes
  <2> QED
    BY <1>1, <1>2, <2>1, <2>2, Zenon DEF AnchorsInv, Shapes
<1>8. Collected'
  BY <1>1, <1>2 DEF AnchorsInv, Collected
<1>9. Collecting' /\ Graphed' /\ Searching' /\ Gathering' /\ Comparing'
  BY <1>1 DEF Collecting, Graphed, Searching, Gathering, Comparing
<1> QED
  BY <1>6, <1>7, <1>8, <1>9, Zenon DEF AnchorsInv

\* The row is done; the scratch stays as it is for the next.
LEMMA ReturnStep == ASSUME AnchorsInv, Return PROVE AnchorsInv'
<1>1. /\ pc = "done" /\ pc' = "idle" /\ anchors' = anchors /\ runs' = runs + 1
      /\ corpus' = corpus /\ threshold' = threshold /\ row' = row /\ epoch' = epoch
      /\ nodeEpoch' = nodeEpoch /\ nodeKinds' = nodeKinds /\ nodes' = nodes /\ adj' = adj
      /\ frames' = frames /\ order' = order /\ stack' = stack /\ comp' = comp
  BY DEF Return, parse, marks, graph, pass1, pass2
<1>2. Tokens' = Tokens /\ TokenIds' = TokenIds
  BY <1>1, RowKept, Zenon
<1>3. Shapes'
  <2>1. pc' \in {"idle", "nodes", "edges", "pass1", "pass2", "special", "done"}
        /\ pc # "idle" /\ pc # "pass1" /\ pc # "pass2" /\ pc' = "idle"
    BY <1>1
  <2>2. runs' \in 0 .. MaxRuns(corpus)
    <3>1. MaxRuns(corpus) \in Nat
      BY AnchorsAssumption DEF AnchorsInv, Shapes
    <3>2. runs \in 0 .. MaxRuns(corpus) /\ runs < MaxRuns(corpus)
      BY <1>1 DEF AnchorsInv, Shapes
    <3> QED
      BY <1>1, <3>1, <3>2
  <2> QED
    BY <1>1, <1>2, <2>1, <2>2, Zenon DEF AnchorsInv, Shapes
<1>4. /\ Collecting' /\ Collected' /\ Graphed' /\ Searching' /\ Gathering' /\ Comparing' /\ Chosen'
  BY <1>1 DEF Collecting, Collected, Graphed, Searching, Gathering, Comparing, Chosen
<1> QED
  BY <1>3, <1>4, Zenon DEF AnchorsInv

-----------------------------------------------------------------------------
\* Every step keeps the invariant.
LEMMA AnchorsInvStep ==
    ASSUME AnchorsInv, [Next]_vars
    PROVE  AnchorsInv'
<1>1. CASE Next
  BY <1>1, BeginStep, CollectTokenStep, FewNodesStep, ManyNodesStep, BuildGraphStep, PushRootStep,
     FollowEdgeStep, FinishNodeStep, EndPass1Step, OpenComponentStep, GrowComponentStep,
     CloseComponentStep, EndPass2Step, SpecialStep, ReturnStep, Zenon DEF Next, Step
<1>2. CASE UNCHANGED vars
  <2>1. /\ corpus' = corpus /\ threshold' = threshold /\ row' = row /\ pc' = pc /\ epoch' = epoch
        /\ nodeEpoch' = nodeEpoch /\ nodeKinds' = nodeKinds /\ nodes' = nodes /\ next' = next
        /\ adj' = adj /\ rev' = rev /\ visited' = visited /\ frames' = frames /\ order' = order
        /\ stack' = stack /\ comp' = comp /\ largest' = largest /\ anchors' = anchors /\ runs' = runs
    BY <1>2 DEF vars, parse, marks, graph, pass1, pass2, history
  <2>2. /\ Tokens' = Tokens /\ TokenIds' = TokenIds /\ Line' = Line
        /\ RowNodes' = RowNodes /\ RowEdges' = RowEdges
        /\ \A k : OfKind(k)' = OfKind(k)
        /\ \A id : Occ(id)' = Occ(id)
        /\ numNodes' = numNodes /\ Open' = Open
    BY <2>1, RowKept, Zenon DEF numNodes, Open
  <2>3. Current' = Current /\ Gone' = Gone
    BY <2>1, Zenon DEF Current, Gone
  <2>4. Shapes' /\ Collected' /\ Graphed'
    BY <2>1, <2>2, Zenon DEF AnchorsInv, Shapes, Collected, Graphed
  <2>5. Collecting'
    BY <2>1, <2>2, Zenon DEF AnchorsInv, Collecting, SeenKinds
  <2>6. \A i : Settled(i)' <=> Settled(i)
    BY <2>1, <2>2, Zenon DEF Settled
  <2>7. Searching'
    BY <2>1, <2>2, <2>6, ZenonT(60) DEF AnchorsInv, Searching
  <2>8. Gathering'
    BY <2>1, <2>3, <2>6, Zenon DEF AnchorsInv, Gathering
  <2>9. Comparing'
    BY <2>1, <2>3, Zenon DEF AnchorsInv, Comparing
  <2>10. Chosen'
    BY <2>1, <2>2, Zenon DEF AnchorsInv, Chosen
  <2> QED
    BY <2>4, <2>5, <2>7, <2>8, <2>9, <2>10, Zenon DEF AnchorsInv
<1> QED
  BY <1>1, <1>2

\* The inductive invariant holds of every corpus, threshold and row.
THEOREM AnchorsInvariant == Spec => []AnchorsInv
  BY AnchorsInvInit, AnchorsInvStep, PTL DEF Spec

\* The scratch keeps its shape: an edge looked at is in its list, a node in the
\* graph, a mark no newer than the row.
THEOREM AnchorsTypeCorrect == Spec => []AnchorsTypeOK
<1>1. ASSUME AnchorsInv
      PROVE  AnchorsTypeOK
  <2>1. /\ row \in 0 .. Len(corpus.rows)
        /\ pc \in {"idle", "nodes", "edges", "pass1", "pass2", "special", "done"}
        /\ nodes \in Seq(Tokens) /\ nodeEpoch \in [TokenIds -> 0 .. epoch]
        /\ anchors \in SUBSET Tokens /\ runs \in 0 .. MaxRuns(corpus)
        /\ order \in Seq(1 .. Len(adj)) /\ adj \in Seq(Seq(Nat))
        /\ pc # "pass1" => frames = <<>>
        /\ pc # "pass2" => stack = <<>> /\ comp = <<>>
    BY <1>1, Zenon DEF AnchorsInv, Shapes
  <2>2. \A k \in DOMAIN frames : frames[k].v \in 1 .. numNodes /\ frames[k].i <= Len(adj[frames[k].v])
    <3>1. CASE pc = "pass1"
      <4>1. frames \in Seq([v : 1 .. numNodes, i : Nat])
            /\ \A k \in DOMAIN frames : frames[k].i <= Len(adj[frames[k].v])
        BY <1>1, <3>1, Zenon DEF AnchorsInv, Searching
      <4>2. DOMAIN frames = 1 .. Len(frames) /\ \A k \in 1 .. Len(frames) : frames[k].v \in 1 .. numNodes
        BY <4>1, FramesFacts
      <4> QED
        BY <4>1, <4>2, Zenon
    <3>2. CASE pc # "pass1"
      <4>1. DOMAIN frames = {}
        BY <2>1, <3>2
      <4> QED
        BY <4>1, Zenon
    <3> QED
      BY <3>1, <3>2
  <2>3. ToSet(order) \subseteq 1 .. Len(adj)
    BY <2>1, SeqRange
  <2>4. ToSet(stack) \subseteq 1 .. Len(adj) /\ ToSet(comp) \subseteq 1 .. Len(adj)
    <3>1. CASE pc = "pass2"
      <4>1. stack \in Seq(DOMAIN adj) /\ comp \in Seq(DOMAIN adj)
        BY <1>1, <3>1 DEF AnchorsInv, Gathering
      <4>2. DOMAIN adj = 1 .. Len(adj)
        BY <2>1
      <4> QED
        BY <4>1, <4>2, SeqRange, Zenon
    <3>2. CASE pc # "pass2"
      BY <2>1, <3>2, FewMembers, Zenon
    <3> QED
      BY <3>1, <3>2
  <2>5. \A id \in TokenIds : nodeEpoch[id] \in 0 .. epoch
    BY <2>1, Zenon
  <2>6. ToSet(order) \cup ToSet(stack) \cup ToSet(comp) \subseteq 1 .. Len(adj)
    BY <2>3, <2>4
  <2> QED
    BY <2>1, <2>2, <2>5, <2>6, Zenon DEF AnchorsTypeOK
<1> QED
  BY <1>1, AnchorsInvariant, PTL

\* The graph of a row that has begun.
LEMMA RowGraph ==
    ASSUME AnchorsInv, pc # "idle"
    PROVE  /\ IsFiniteSet(RowNodes) /\ RowEdges \in SUBSET (RowNodes \X RowNodes)
           /\ \A t \in RowNodes : Component(RowNodes, RowEdges, t)
                                    = {u \in RowNodes : Tied(RowNodes, RowEdges, t, u)}
           /\ Components(RowNodes, RowEdges)
                = {{u \in RowNodes : Tied(RowNodes, RowEdges, t, u)} : t \in RowNodes}
           /\ \A t, u \in RowNodes :
                 <<t, u>> \in Reach(RowNodes, RowEdges) <=> Leads(RowNodes, RowEdges, t, u)
<1>1. corpus \in Corpora /\ row \in 0 .. Len(corpus.rows) /\ row # 0
  BY DEF AnchorsInv, Shapes
<1> DEFINE N == RowNodes
           E == RowEdges
<1>2. IsFiniteSet(N) /\ E \in SUBSET (N \X N)
  BY <1>1, RowFacts
<1> HIDE DEF N, E
<1>3. /\ \A t \in N : Component(N, E, t) = {u \in N : Tied(N, E, t, u)}
      /\ Components(N, E) = {{u \in N : Tied(N, E, t, u)} : t \in N}
  BY <1>2, ComponentMeans
<1>4. \A t, u \in N : <<t, u>> \in Reach(N, E) <=> Leads(N, E, t, u)
  BY <1>2, ReachMeans
<1> QED
  BY <1>2, <1>3, <1>4 DEF N, E

\* The anchors of every row of every corpus are those of a largest strongly
\* connected component, with the white tokens and without the black ones.
THEOREM AnchorsAreExact == Spec => []AnchorsExact
<1>1. ASSUME AnchorsInv
      PROVE  AnchorsExact
  <2> SUFFICES ASSUME pc = "done", ~(RowNodes = {} /\ anchors = {})
               PROVE  \E C \in Components(RowNodes, RowEdges) :
                        /\ \A D \in Components(RowNodes, RowEdges) : Cardinality(D) <= Cardinality(C)
                        /\ anchors = (C \cup OfKind("specialWhite")) \ OfKind("specialBlack")
    BY Zenon DEF AnchorsExact
  <2>1. PICK C \in SUBSET RowNodes :
           /\ IsBest(RowNodes, RowEdges, C)
           /\ anchors = (C \cup OfKind("specialWhite")) \ OfKind("specialBlack")
    BY <1>1, Zenon DEF AnchorsInv, Chosen
  <2>2. Components(RowNodes, RowEdges)
          = {{u \in RowNodes : Tied(RowNodes, RowEdges, t, u)} : t \in RowNodes}
    BY <1>1, RowGraph
  <2> QED
    BY <2>1, <2>2, Zenon DEF IsBest
<1> QED
  BY <1>1, AnchorsInvariant, PTL

\* Of several largest components the one taken is led to by none of the others.
THEOREM TiesResolved == Spec => []TiesGoUpstream
<1>1. ASSUME AnchorsInv
      PROVE  TiesGoUpstream
  <2> DEFINE N == RowNodes
             E == RowEdges
             R == Reach(N, E)
             cl(t) == {u \in N : Tied(N, E, t, u)}
             Cs == {{u \in N : {<<t, u>>, <<u, t>>} \subseteq R} : t \in N}
             Largest == {C \in Cs : \A D \in Cs : Cardinality(D) <= Cardinality(C)}
  <2> SUFFICES ASSUME pc = "done", numNodes > 1
               PROVE  \E C \in Largest :
                        /\ anchors = (C \cup OfKind("specialWhite")) \ OfKind("specialBlack")
                        /\ \A D \in Largest \ {C} : \A d \in D, c \in C : <<d, c>> \notin R
    BY Zenon DEF TiesGoUpstream
  <2>1. N # {}
    <3>1. ToSet(nodes) = N /\ nodes \in Seq(Tokens) /\ numNodes > 1
      BY <1>1 DEF AnchorsInv, Shapes, Collected
    <3>2. 1 \in 1 .. Len(nodes)
      BY <3>1 DEF numNodes
    <3>3. nodes[1] \in ToSet(nodes)
      BY <3>1, <3>2, SeqRange, Zenon
    <3> QED
      BY <3>1, <3>3
  <2>2. PICK C \in SUBSET N :
           /\ IsBest(N, E, C)
           /\ anchors = (C \cup OfKind("specialWhite")) \ OfKind("specialBlack")
    BY <1>1, <2>1, Zenon DEF AnchorsInv, Chosen
  <2>3. IsFiniteSet(N) /\ \A t, u \in N : <<t, u>> \in R <=> Leads(N, E, t, u)
    BY <1>1, RowGraph
  <2> HIDE DEF N, E, R
  <2>4. \A t \in N : {u \in N : {<<t, u>>, <<u, t>>} \subseteq R} = cl(t)
    BY <2>3, Zenon DEF Tied
  <2>5. Cs = {cl(t) : t \in N}
    BY <2>4, Zenon
  <2>6. PICK s \in N : C = cl(s)
    BY <2>2, Zenon DEF IsBest
  <2>7. \A t \in N :
          /\ Cardinality(cl(t)) <= Cardinality(C)
          /\ \A c \in C : t \notin C /\ Leads(N, E, t, c) => Cardinality(cl(t)) < Cardinality(C)
    BY <2>2, Zenon DEF IsBest
  <2>8. C \in Largest
    BY <2>5, <2>6, <2>7, Zenon
  <2>9. \A t \in C : cl(t) = C
    <3> TAKE t \in C
    <3>1. t \in N /\ Leads(N, E, s, t) /\ Leads(N, E, t, s)
      BY <2>6, Zenon DEF Tied
    <3>2. \A u : Leads(N, E, t, u) <=> Leads(N, E, s, u)
      BY <3>1, LeadsOn, Zenon
    <3>3. \A u : Leads(N, E, u, t) <=> Leads(N, E, u, s)
      BY <3>1, LeadsOn, Zenon
    <3> QED
      BY <2>6, <3>2, <3>3, Zenon DEF Tied
  <2>10. ASSUME NEW D \in Largest, D # C, NEW d \in D, NEW c \in C, <<d, c>> \in R
         PROVE  FALSE
    <3>1. PICK t \in N : D = cl(t)
      BY <2>5, Zenon
    <3>2. d \in N /\ Leads(N, E, t, d)
      BY <3>1, <2>10, Zenon DEF Tied
    <3>3. Leads(N, E, d, c)
      BY <2>2, <2>3, <2>10, <3>2, Zenon
    <3>4. Leads(N, E, t, c)
      BY <3>2, <3>3, LeadsOn, Zenon
    <3>5. t \notin C
      BY <2>9, <2>10, <3>1, Zenon
    <3>6. Cardinality(cl(t)) < Cardinality(C)
      BY <2>7, <3>4, <3>5, Zenon
    <3>7. Cardinality(C) <= Cardinality(cl(t))
      BY <2>8, <3>1, Zenon
    <3>8. Cardinality(C) \in Nat /\ Cardinality(cl(t)) \in Nat
      <4>1. cl(t) \in SUBSET N
        BY Zenon
      <4> QED
        BY <2>2, <2>3, <4>1, FS_Subset, FS_CardinalityType
    <3> HIDE DEF cl
    <3> QED
      BY <3>6, <3>7, <3>8
  <2> HIDE DEF Largest
  <2> QED
    BY <2>2, <2>8, <2>10, Zenon
<1> QED
  BY <1>1, AnchorsInvariant, PTL

\* After the first pass a component was finished later than every component it
\* leads to: pass 2, which starts from the end of order, meets it first.
THEOREM PostorderOrdersComponents == Spec => []PostorderSeparates
<1>1. ASSUME AnchorsInv
      PROVE  PostorderSeparates
  <2> DEFINE N == RowNodes
             E == RowEdges
             Finished(C) == {j \in DOMAIN order : nodes[order[j]] \in C}
  <2> SUFFICES ASSUME pc = "pass2",
                      NEW C \in Components(N, E), NEW D \in Components(N, E), C # D,
                      NEW e \in E, e[1] \in C, e[2] \in D
               PROVE  Max(Finished(C)) > Max(Finished(D))
    BY Zenon DEF PostorderSeparates
  <2>1. /\ IsInjective(order) /\ ToSet(order) = DOMAIN adj /\ \A i \in DOMAIN order : Settled(i)
        /\ order \in Seq(DOMAIN adj) /\ Len(order) \in Nat /\ DOMAIN order = 1 .. Len(order)
    BY <1>1, PassFacts DEF AnchorsInv, Gathering
  <2>2. /\ E \in SUBSET (N \X N) /\ N = {nodes[v] : v \in DOMAIN adj}
        /\ \A v, u \in DOMAIN adj :
              /\ To(adj, v, u) <=> Leads(N, E, nodes[v], nodes[u])
              /\ Strong(adj, v, u) <=> Tied(N, E, nodes[v], nodes[u])
    BY <1>1, Numbered
  <2>3. Components(N, E) = {{u \in N : Tied(N, E, t, u)} : t \in N}
    BY <1>1, RowGraph
  <2> HIDE DEF N, E
  <2>4. PICK t \in N : C = {u \in N : Tied(N, E, t, u)}
    BY <2>3, Zenon
  <2>5. PICK s \in N : D = {u \in N : Tied(N, E, s, u)}
    BY <2>3, Zenon
  <2>6. ASSUME NEW K \in Components(N, E), NEW x \in K
        PROVE  /\ Finished(K) \in SUBSET (1 .. Len(order)) /\ Finished(K) # {}
               /\ Max(Finished(K)) \in Finished(K) /\ \A j \in Finished(K) : j <= Max(Finished(K))
    <3>1. Finished(K) \in SUBSET (1 .. Len(order))
      BY <2>1
    <3>2. Finished(K) # {}
      <4>1. x \in N
        BY <2>3, <2>6, Zenon
      <4>2. PICK v \in DOMAIN adj : x = nodes[v]
        BY <2>2, <4>1, Zenon
      <4>3. PICK j \in 1 .. Len(order) : v = order[j]
        BY <2>1, SeqRange
      <4> QED
        BY <2>1, <2>6, <4>2, <4>3, Zenon
    <3> HIDE DEF Finished
    <3> QED
      BY <2>1, <3>1, <3>2, MaxIsGreatest
  <2>7. PICK k, l : k = Max(Finished(C)) /\ l = Max(Finished(D))
    OBVIOUS
  <2>8. /\ k \in 1 .. Len(order) /\ nodes[order[k]] \in C
        /\ \A j \in 1 .. Len(order) : nodes[order[j]] \in C => j <= k
    BY <2>1, <2>6, <2>7, Zenon
  <2>9. l \in 1 .. Len(order) /\ nodes[order[l]] \in D
    BY <2>1, <2>6, <2>7, Zenon
  <2> HIDE DEF Finished
  <2>10. PICK v, u : v = order[k] /\ u = order[l]
    OBVIOUS
  <2>11. v \in DOMAIN adj /\ u \in DOMAIN adj /\ nodes[v] \in C /\ nodes[u] \in D
    BY <2>1, <2>8, <2>9, <2>10, SeqIsFunction, Zenon
  <2>12. To(adj, v, u)
    <3>1. PICK a, b : a = e[1] /\ b = e[2]
      OBVIOUS
    <3>2. <<a, b>> \in E /\ a \in C /\ b \in D
      BY <2>2, <3>1
    <3>3. Leads(N, E, nodes[v], a)
      BY <2>4, <2>11, <3>2, LeadsOn, Zenon DEF Tied
    <3>4. Leads(N, E, a, b)
      BY <3>2, LeadsEdge
    <3>5. Leads(N, E, b, nodes[u])
      BY <2>5, <2>11, <3>2, LeadsOn, Zenon DEF Tied
    <3>6. Leads(N, E, nodes[v], nodes[u])
      BY <3>3, <3>4, <3>5, LeadsOn, Zenon
    <3> QED
      BY <2>2, <2>11, <3>6, Zenon
  <2>13. \A w : Tied(N, E, nodes[v], w) /\ w \in N => w \in C
    BY <2>4, <2>11, LeadsOn, Zenon DEF Tied
  <2>14. nodes[u] \notin C
    <3> SUFFICES ASSUME nodes[u] \in C
                 PROVE  FALSE
      OBVIOUS
    <3>1. PICK w : w = nodes[u]
      OBVIOUS
    <3>2. /\ Leads(N, E, t, w) /\ Leads(N, E, w, t)
          /\ Leads(N, E, s, w) /\ Leads(N, E, w, s)
      BY <2>4, <2>5, <2>11, <3>1, Zenon DEF Tied
    <3>3. Leads(N, E, t, s) /\ Leads(N, E, s, t)
      BY <3>2, LeadsOn, Zenon
    <3>4. \A x : Tied(N, E, t, x) <=> Tied(N, E, s, x)
      BY <3>3, LeadsOn, Zenon DEF Tied
    <3> QED
      BY <2>4, <2>5, <3>4, Zenon
  <2>15. k # l
    BY <2>10, <2>11, <2>14, Zenon
  <2>16. \/ \E j \in 1 .. k : order[j] = u
         \/ \E j \in k + 1 .. Len(order) : Strong(adj, v, order[j])
    <3>1. Settled(k) /\ Open = {}
      <4>1. frames = <<>>
        BY <1>1 DEF AnchorsInv, Shapes
      <4>2. DOMAIN frames = {}
        BY <4>1
      <4> QED
        BY <2>1, <2>8, <4>2, Zenon DEF Open
    <3> QED
      BY <2>10, <2>11, <2>12, <3>1, Zenon DEF Settled
  <2>17. ~\E j \in k + 1 .. Len(order) : Strong(adj, v, order[j])
    <3> SUFFICES ASSUME NEW j \in k + 1 .. Len(order), Strong(adj, v, order[j])
                 PROVE  FALSE
      BY Zenon
    <3>1. j \in 1 .. Len(order) /\ ~(j <= k)
      BY <2>1, <2>8
    <3>2. order[j] \in DOMAIN adj
      BY <2>1, <3>1, SeqIsFunction, Zenon
    <3>3. Tied(N, E, nodes[v], nodes[order[j]]) /\ nodes[order[j]] \in N
      BY <2>2, <2>11, <3>2, Zenon
    <3> QED
      BY <2>8, <2>13, <3>1, <3>3, Zenon
  <2>18. PICK j \in 1 .. k : order[j] = u
    BY <2>16, <2>17
  <2>19. j = l
    <3>1. j \in DOMAIN order /\ l \in DOMAIN order
      BY <2>1, <2>8, <2>9
    <3> QED
      BY <2>1, <2>10, <2>18, <3>1, Zenon DEF IsInjective
  <2>20. k > l
    BY <2>1, <2>8, <2>15, <2>18, <2>19
  <2> QED
    BY <2>7, <2>20
<1> QED
  BY <1>1, AnchorsInvariant, PTL

\* Each walk of pass 2 gathers a whole component, and each of its nodes once.
THEOREM WalksGatherComponents == Spec => []ComponentsWhole
<1>1. ASSUME AnchorsInv
      PROVE  ComponentsWhole
  <2> DEFINE N == RowNodes
             E == RowEdges
  <2> SUFFICES ASSUME pc = "pass2", stack = <<>>, comp # <<>>
               PROVE  /\ {nodes[v] : v \in ToSet(comp)} = Component(N, E, nodes[comp[1]])
                      /\ IsInjective(comp)
    BY Zenon DEF ComponentsWhole
  <2>1. order[next] \in DOMAIN adj /\ ToSet(comp) = Class(adj, order[next])
    BY <1>1, CompIsClass
  <2>2. comp \in Seq(DOMAIN adj) /\ IsInjective(comp)
    BY <1>1 DEF AnchorsInv, Gathering
  <2>3. comp[1] \in ToSet(comp)
    <3>1. 1 \in 1 .. Len(comp)
      BY <2>2
    <3> QED
      BY <2>2, <3>1, SeqRange
  <2>4. PICK c, r : c = comp[1] /\ r = order[next]
    OBVIOUS
  <2>5. c \in DOMAIN adj /\ ToSet(comp) = Class(adj, c)
    <3>1. r \in DOMAIN adj /\ c \in Class(adj, r) /\ ToSet(comp) = Class(adj, r)
      BY <2>1, <2>3, <2>4
    <3> QED
      BY <3>1, ClassShared, Zenon DEF Class
  <2>6. nodes[c] \in N /\ {t \in N : Tied(N, E, nodes[c], t)} = {nodes[u] : u \in Class(adj, c)}
    <3>1. N = {nodes[v] : v \in DOMAIN adj}
      BY <1>1, Numbered
    <3>2. {t \in N : Tied(N, E, nodes[c], t)} = {nodes[u] : u \in Class(adj, c)}
      BY <1>1, <2>5, Numbered
    <3> QED
      BY <2>5, <3>1, <3>2, Zenon
  <2>7. Component(N, E, nodes[c]) = {t \in N : Tied(N, E, nodes[c], t)}
    BY <1>1, <2>6, RowGraph
  <2> HIDE DEF N, E
  <2> QED
    BY <2>2, <2>4, <2>5, <2>6, <2>7, Zenon
<1> QED
  BY <1>1, AnchorsInvariant, PTL

-----------------------------------------------------------------------------
\* What the rest of a row's computation depends on in each phase: neither the
\* epoch and its marks nor what earlier rows left in the slices.
InNodes(ns, i) == [pc |-> "nodes", nodes |-> ns, next |-> i]
InEdges(ns) == [pc |-> "edges", nodes |-> ns]
InPass1(ns, a, b, i, vis, fs, ord) ==
    [pc |-> "pass1", nodes |-> ns, adj |-> a, rev |-> b, next |-> i, visited |-> vis,
     frames |-> fs, order |-> ord]
InPass2(ns, b, i, vis, ord, st, c, l) ==
    [pc |-> "pass2", nodes |-> ns, rev |-> b, next |-> i, visited |-> vis, order |-> ord,
     stack |-> st, comp |-> c, largest |-> l]
InSpecial(A) == [pc |-> "special", anchors |-> A]
Ended(A) == [pc |-> "done", anchors |-> A]

Remembered ==
    CASE pc = "nodes" -> InNodes(nodes, next)
      [] pc = "edges" -> InEdges(nodes)
      [] pc = "pass1" -> InPass1(nodes, adj, rev, next, visited, frames, order)
      [] pc = "pass2" -> InPass2(nodes, rev, next, visited, order, stack, comp, largest)
      [] pc = "special" -> InSpecial(anchors)
      [] OTHER -> Ended(anchors)

\* The tokens of a row of one kind, and the dependencies, of corpus c at
\* threshold th.
Tagged(line, kind) == {t \in ToSet(line) : t.kind = kind}
Needs(c, th, ns, i, j) ==
    /\ co(Filter, c, ns[i].id, ns[j].id) > 0
    /\ co(Filter, c, ns[i].id, ns[j].id) * ThresholdDen > occ(Filter, c, ns[i].id) * th

\* The one step that can follow each of these, for a row of tokens line.
AfterNodes(c, line, e) ==
    IF e.next <= Len(line)
    THEN LET tok == line[e.next]
         IN  IF \/ occ(Filter, c, tok.id) = 0
                \/ tok.kind \in {t.kind : t \in {t \in ToSet(e.nodes) : t.id = tok.id}}
             THEN InNodes(e.nodes, e.next + 1)
             ELSE InNodes(Append(e.nodes, tok), e.next + 1)
    ELSE IF Len(e.nodes) = 0 THEN Ended(ToSet(e.nodes))
    ELSE IF Len(e.nodes) <= 1 THEN InSpecial(ToSet(e.nodes))
    ELSE InEdges(e.nodes)

AfterEdges(c, th, e) ==
    LET N == 1 .. Len(e.nodes)
    IN  InPass1(e.nodes,
                [v \in N |-> <<>> \o Ascending({u \in N \ {v} : Needs(c, th, e.nodes, v, u)})],
                [v \in N |-> <<>> \o Ascending({u \in N \ {v} : Needs(c, th, e.nodes, u, v)})],
                1, {}, <<>>, <<>>)

AfterPass1(e) ==
    LET f == Last(e.frames)
        moved == [e.frames EXCEPT ![Len(e.frames)].i = @ + 1]
        to == e.adj[f.v][f.i + 1]
    IN  IF e.frames = <<>>
        THEN IF e.next > Len(e.nodes)
             THEN InPass2(e.nodes, e.rev, Len(e.order), {}, e.order, <<>>, <<>>, <<>>)
             ELSE IF e.next \in e.visited
             THEN InPass1(e.nodes, e.adj, e.rev, e.next + 1, e.visited, e.frames, e.order)
             ELSE InPass1(e.nodes, e.adj, e.rev, e.next + 1, e.visited \cup {e.next},
                          <<[v |-> e.next, i |-> 0]>>, e.order)
        ELSE IF f.i < Len(e.adj[f.v])
        THEN InPass1(e.nodes, e.adj, e.rev, e.next, e.visited \cup {to},
                     IF to \in e.visited THEN moved ELSE Append(moved, [v |-> to, i |-> 0]), e.order)
        ELSE InPass1(e.nodes, e.adj, e.rev, e.next, e.visited, Front(e.frames),
                     Append(e.order, f.v))

AfterPass2(e) ==
    LET x == Last(e.stack)
        new == Unseen(e.rev[x], e.visited)
    IN  IF e.stack # <<>>
        THEN InPass2(e.nodes, e.rev, e.next, e.visited \cup ToSet(new), e.order,
                     Front(e.stack) \o new, Append(e.comp, x), e.largest)
        ELSE IF e.comp # <<>>
        THEN InPass2(e.nodes, e.rev, e.next - 1, e.visited, e.order, e.stack, <<>>,
                     IF Len(e.comp) > Len(e.largest) THEN e.comp ELSE e.largest)
        ELSE IF e.next < 1 THEN InSpecial({e.nodes[v] : v \in ToSet(e.largest)})
        ELSE IF e.order[e.next] \in e.visited
        THEN InPass2(e.nodes, e.rev, e.next - 1, e.visited, e.order, e.stack, e.comp, e.largest)
        ELSE InPass2(e.nodes, e.rev, e.next, e.visited \cup {e.order[e.next]}, e.order,
                     <<e.order[e.next]>>, e.comp, e.largest)

AfterSpecial(line, e) ==
    Ended((e.anchors \cup Tagged(line, "specialWhite")) \ Tagged(line, "specialBlack"))

After(c, th, line, e) ==
    CASE e.pc = "nodes" -> AfterNodes(c, line, e)
      [] e.pc = "edges" -> AfterEdges(c, th, e)
      [] e.pc = "pass1" -> AfterPass1(e)
      [] e.pc = "pass2" -> AfterPass2(e)
      [] e.pc = "special" -> AfterSpecial(line, e)

\* h is a computation of the r-th row, n states long.
Computes(c, th, r, n, h) ==
    /\ n \in Nat \ {0}
    /\ h[1] = InNodes(<<>>, 1)
    /\ \A k \in 1 .. n - 1 : h[k].pc # "done" /\ h[k + 1] = After(c, th, c.rows[r], h[k])

\* A row in progress is somewhere on the row's computation, and every answer is
\* the end of one.
ScratchInv ==
    /\ pc # "idle" =>
          \E n, h : Computes(corpus, threshold, row, n, h) /\ h[n] = Remembered
    /\ \A r \in DOMAIN found : \A A \in found[r] :
          \E n, h : Computes(corpus, threshold, r, n, h) /\ h[n] = Ended(A)

\* A row has one computation: two of them agree, and end together.
LEMMA ComputationEnds ==
    ASSUME NEW c, NEW th, NEW r, NEW n, NEW h, NEW m, NEW g, NEW A, NEW B,
           Computes(c, th, r, n, h), h[n] = Ended(A),
           Computes(c, th, r, m, g), g[m] = Ended(B)
    PROVE  A = B
<1>1. n \in Nat /\ m \in Nat /\ n >= 1 /\ m >= 1
  BY DEF Computes
<1>2. ASSUME NEW k \in Nat, k < n, k < m
      PROVE  h[k + 1] = g[k + 1]
  <2> DEFINE G == {j \in Nat : h[j + 1] = g[j + 1]}
  <2>1. 0 \in G
    <3>1. h[1] = g[1] /\ 0 + 1 = 1 /\ 0 \in Nat
      BY DEF Computes
    <3> QED
      BY <3>1
  <2>2. ASSUME NEW j \in 0 .. k - 1, j \in G
        PROVE  j + 1 \in G
    <3>1. j + 1 \in 1 .. n - 1 /\ j + 1 \in 1 .. m - 1 /\ j + 1 \in Nat
      BY <1>1, <1>2
    <3>2. /\ h[(j + 1) + 1] = After(c, th, c.rows[r], h[j + 1])
          /\ g[(j + 1) + 1] = After(c, th, c.rows[r], g[j + 1])
      BY <3>1, Zenon DEF Computes
    <3> QED
      BY <2>2, <3>1, <3>2, Zenon
  <2> HIDE DEF G
  <2>3. \A j \in 0 .. k : j \in G
    BY <2>1, <2>2, OneByOne, Zenon
  <2>4. k \in 0 .. k
    OBVIOUS
  <2> QED
    BY <2>3, <2>4, Zenon DEF G
<1>3. ~(n < m)
  <2> SUFFICES ASSUME n < m PROVE FALSE
    OBVIOUS
  <2>1. n - 1 \in Nat /\ n - 1 < n /\ n - 1 < m /\ (n - 1) + 1 = n /\ n \in 1 .. m - 1
    BY <1>1
  <2>2. h[n] = g[n]
    BY <1>2, <2>1
  <2>3. g[n].pc # "done"
    BY <2>1, Zenon DEF Computes
  <2> QED
    BY <2>2, <2>3 DEF Ended
<1>4. ~(m < n)
  <2> SUFFICES ASSUME m < n PROVE FALSE
    OBVIOUS
  <2>1. m - 1 \in Nat /\ m - 1 < n /\ m - 1 < m /\ (m - 1) + 1 = m /\ m \in 1 .. n - 1
    BY <1>1
  <2>2. h[m] = g[m]
    BY <1>2, <2>1
  <2>3. h[m].pc # "done"
    BY <2>1, Zenon DEF Computes
  <2> QED
    BY <2>2, <2>3 DEF Ended
<1>5. n = m /\ n - 1 \in Nat /\ n - 1 < n /\ n - 1 < m /\ (n - 1) + 1 = n
  BY <1>1, <1>3, <1>4
<1>6. h[n] = g[m]
  BY <1>2, <1>5
<1>7. Ended(A).anchors = A /\ Ended(B).anchors = B
  BY DEF Ended
<1> QED
  BY <1>6, <1>7, Zenon

\* A computation goes on by its next step.
LEMMA ComputationGoesOn ==
    ASSUME NEW c, NEW th, NEW r, NEW n, NEW h, NEW e, Computes(c, th, r, n, h), h[n].pc # "done",
           e = After(c, th, c.rows[r], h[n])
    PROVE  \E m, g : Computes(c, th, r, m, g) /\ g[m] = e
<1> DEFINE g == [k \in 1 .. n + 1 |-> IF k = n + 1 THEN e ELSE h[k]]
<1>1. n \in Nat \ {0} /\ n + 1 \in Nat \ {0} /\ (n + 1) - 1 = n /\ n + 1 \in 1 .. n + 1
  BY DEF Computes
<1>2. g[n + 1] = e
  BY <1>1, Zenon
<1>3. \A k \in 1 .. n : g[k] = h[k]
  <2> SUFFICES ASSUME NEW k \in 1 .. n PROVE g[k] = h[k]
    OBVIOUS
  <2>1. k \in 1 .. n + 1 /\ k # n + 1
    BY <1>1
  <2> QED
    BY <2>1, Zenon
<1>4. 1 \in 1 .. n /\ n \in 1 .. n /\ h[1] = InNodes(<<>>, 1)
  BY <1>1 DEF Computes
<1> HIDE DEF g
<1>5. ASSUME NEW k \in 1 .. n
      PROVE  g[k].pc # "done" /\ g[k + 1] = After(c, th, c.rows[r], g[k])
  <2>1. CASE k = n
    BY <1>2, <1>3, <1>4, <2>1
  <2>2. CASE k # n
    <3>1. k \in 1 .. n - 1 /\ k + 1 \in 1 .. n
      BY <1>1, <2>2
    <3>2. h[k].pc # "done" /\ h[k + 1] = After(c, th, c.rows[r], h[k])
      BY <3>1, Zenon DEF Computes
    <3> QED
      BY <1>3, <3>1, <3>2, Zenon
  <2> QED
    BY <2>1, <2>2
<1>6. g[1] = InNodes(<<>>, 1)
  BY <1>3, <1>4, Zenon
<1>7. Computes(c, th, r, n + 1, g)
  BY <1>1, <1>5, <1>6, Zenon DEF Computes
<1> QED
  BY <1>2, <1>7, Zenon

-----------------------------------------------------------------------------
\* What a step of the row in progress owes: it is the next of the computation.
Follows == /\ pc' # "idle" /\ Remembered.pc # "done"
           /\ corpus' = corpus /\ threshold' = threshold /\ row' = row /\ found' = found
           /\ Remembered' = After(corpus, threshold, Line, Remembered)

\* A token collected: the marks of this epoch are the kinds the nodes have.
LEMMA CollectTokenFollows == ASSUME AnchorsInv, CollectToken PROVE Follows
<1> DEFINE tok == Line[next]
           seen == {t.kind : t \in {t \in ToSet(nodes) : t.id = tok.id}}
<1>1. /\ pc = "nodes" /\ next <= Len(Line) /\ pc' = "nodes" /\ next' = next + 1
      /\ corpus' = corpus /\ threshold' = threshold /\ row' = row /\ found' = found
  BY DEF CollectToken, parse, graph, pass1, pass2, history
<1>2. tok.id \in TokenIds
  BY <1>1, TokenFacts
<1>3. SeenKinds(tok.id) = seen
  BY <1>1, <1>2, Zenon DEF AnchorsInv, Collecting
<1>4. nodes' = IF occ(Filter, corpus, tok.id) = 0 \/ tok.kind \in seen THEN nodes ELSE Append(nodes, tok)
  <2>1. \/ Occ(tok.id) = 0 /\ nodes' = nodes
        \/ /\ Occ(tok.id) # 0
           /\ nodes' = IF tok.kind \in SeenKinds(tok.id) THEN nodes ELSE Append(nodes, tok)
    BY Zenon DEF CollectToken
  <2> QED
    BY <1>3, <2>1, Zenon DEF Occ
<1>5. Remembered = InNodes(nodes, next) /\ Remembered' = InNodes(nodes', next')
  BY <1>1 DEF Remembered
<1>6. LET e == InNodes(nodes, next)
      IN  e.pc = "nodes" /\ e.nodes = nodes /\ e.next = next
  BY DEF InNodes
<1>7. After(corpus, threshold, Line, Remembered) = AfterNodes(corpus, Line, InNodes(nodes, next))
  BY <1>5, <1>6 DEF After
<1>8. AfterNodes(corpus, Line, InNodes(nodes, next)) = InNodes(nodes', next')
  BY <1>1, <1>4, <1>6, Zenon DEF AfterNodes
<1> QED
  BY <1>1, <1>5, <1>6, <1>7, <1>8 DEF Follows

\* At most one node.
LEMMA FewNodesFollows == ASSUME AnchorsInv, FewNodes PROVE Follows
<1>1. /\ pc = "nodes" /\ ~(next <= Len(Line)) /\ Len(nodes) <= 1 /\ anchors' = ToSet(nodes)
      /\ pc' = IF Len(nodes) = 0 THEN "done" ELSE "special"
      /\ corpus' = corpus /\ threshold' = threshold /\ row' = row /\ found' = found
  <2>1. Len(Line) \in Nat /\ next \in Nat
    <3>1. pc = "nodes"
      BY DEF FewNodes
    <3>2. row # 0 /\ row \in 0 .. Len(corpus.rows) /\ corpus \in Corpora
      BY <3>1, Zenon DEF AnchorsInv, Shapes
    <3>3. Line \in Seq(Tokens)
      BY <3>2, RowFacts
    <3>4. next \in 1 .. Len(Line) + 1
      BY <3>1, Zenon DEF AnchorsInv, Collecting
    <3> QED
      BY <3>3, <3>4
  <2> QED
    BY <2>1 DEF FewNodes, numNodes, parse, marks, graph, pass1, pass2, history
<1>2. LET e == InNodes(nodes, next)
      IN  e.pc = "nodes" /\ e.nodes = nodes /\ e.next = next
  BY DEF InNodes
<1>3. Remembered = InNodes(nodes, next)
  BY <1>1 DEF Remembered
<1>4. After(corpus, threshold, Line, Remembered) = AfterNodes(corpus, Line, InNodes(nodes, next))
  BY <1>2, <1>3 DEF After
<1>5. Remembered' = IF Len(nodes) = 0 THEN Ended(ToSet(nodes)) ELSE InSpecial(ToSet(nodes))
  <2>1. CASE Len(nodes) = 0
    BY <1>1, <2>1 DEF Remembered
  <2>2. CASE Len(nodes) # 0
    BY <1>1, <2>2 DEF Remembered
  <2> QED
    BY <2>1, <2>2
<1>6. AfterNodes(corpus, Line, InNodes(nodes, next))
        = IF Len(nodes) = 0 THEN Ended(ToSet(nodes)) ELSE InSpecial(ToSet(nodes))
  BY <1>1, <1>2, Zenon DEF AfterNodes
<1> QED
  BY <1>1, <1>2, <1>3, <1>4, <1>5, <1>6 DEF Follows

\* Two nodes or more.
LEMMA ManyNodesFollows == ASSUME AnchorsInv, ManyNodes PROVE Follows
<1>1. pc = "nodes" /\ next > Len(Line) /\ Len(nodes) > 1 /\ pc' = "edges" /\ nodes' = nodes
  BY DEF ManyNodes, numNodes
<1>2. corpus' = corpus /\ threshold' = threshold /\ row' = row /\ found' = found
  BY DEF ManyNodes, parse, history
<1>3. Len(Line) \in Nat /\ next \in Nat /\ Len(nodes) \in Nat
  <2>1. row # 0 /\ row \in 0 .. Len(corpus.rows) /\ corpus \in Corpora /\ nodes \in Seq(Tokens)
    BY <1>1, Zenon DEF AnchorsInv, Shapes
  <2>2. Line \in Seq(Tokens)
    BY <2>1, RowFacts
  <2>3. next \in 1 .. Len(Line) + 1
    BY <1>1, Zenon DEF AnchorsInv, Collecting
  <2> QED
    BY <2>1, <2>2, <2>3
<1>4. ~(next <= Len(Line)) /\ ~(Len(nodes) <= 1) /\ Len(nodes) # 0
  BY <1>1, <1>3
<1>5. LET e == InNodes(nodes, next)
      IN  e.pc = "nodes" /\ e.nodes = nodes /\ e.next = next
  BY DEF InNodes
<1>6. Remembered = InNodes(nodes, next) /\ Remembered' = InEdges(nodes)
  BY <1>1 DEF Remembered
<1>7. After(corpus, threshold, Line, Remembered) = AfterNodes(corpus, Line, InNodes(nodes, next))
  BY <1>5, <1>6 DEF After
<1>8. AfterNodes(corpus, Line, InNodes(nodes, next)) = InEdges(nodes)
  BY <1>4, <1>5, Zenon DEF AfterNodes
<1> QED
  BY <1>1, <1>2, <1>5, <1>6, <1>7, <1>8 DEF Follows

\* The lists are made anew, whatever the slices held.
LEMMA BuildGraphFollows == ASSUME AnchorsInv, BuildGraph PROVE Follows
<1> DEFINE N == 1 .. Len(nodes)
<1>1. /\ pc = "edges" /\ pc' = "pass1" /\ nodes' = nodes /\ next' = 1 /\ visited' = {}
      /\ frames' = <<>> /\ order' = <<>>
      /\ corpus' = corpus /\ threshold' = threshold /\ row' = row /\ found' = found
  BY DEF BuildGraph, parse, marks, pass2, history
<1>2. \A i, j : Depends(i, j) <=> Needs(corpus, threshold, nodes, i, j)
  BY Zenon DEF Depends, Needs, Co, Occ
<1>3. /\ adj' = [v \in N |-> <<>> \o Ascending({u \in N \ {v} : Depends(v, u)})]
      /\ rev' = [v \in N |-> <<>> \o Ascending({u \in N \ {v} : Depends(u, v)})]
  BY Zenon DEF BuildGraph, EmptyLists, numNodes
<1>4. \A v : /\ {u \in N \ {v} : Depends(v, u)} = {u \in N \ {v} : Needs(corpus, threshold, nodes, v, u)}
             /\ {u \in N \ {v} : Depends(u, v)} = {u \in N \ {v} : Needs(corpus, threshold, nodes, u, v)}
  BY <1>2, Zenon
<1>5. /\ adj' = [v \in N |-> <<>> \o Ascending({u \in N \ {v} : Needs(corpus, threshold, nodes, v, u)})]
      /\ rev' = [v \in N |-> <<>> \o Ascending({u \in N \ {v} : Needs(corpus, threshold, nodes, u, v)})]
  BY <1>3, <1>4, Zenon
<1>6. InEdges(nodes).pc = "edges" /\ InEdges(nodes).nodes = nodes
  BY DEF InEdges
<1>7. /\ Remembered = InEdges(nodes)
      /\ Remembered' = InPass1(nodes, adj', rev', 1, {}, <<>>, <<>>)
  BY <1>1 DEF Remembered
<1>8. After(corpus, threshold, Line, Remembered) = AfterEdges(corpus, threshold, InEdges(nodes))
  BY <1>6, <1>7 DEF After
<1>9. AfterEdges(corpus, threshold, InEdges(nodes)) = InPass1(nodes, adj', rev', 1, {}, <<>>, <<>>)
  BY <1>5, <1>6, Zenon DEF AfterEdges
<1> QED
  BY <1>1, <1>6, <1>7, <1>8, <1>9 DEF Follows

\* The parts of a state of a pass.
LEMMA PassParts ==
    /\ LET e == InPass1(nodes, adj, rev, next, visited, frames, order)
       IN  /\ e.pc = "pass1" /\ e.nodes = nodes /\ e.adj = adj /\ e.rev = rev /\ e.next = next
           /\ e.visited = visited /\ e.frames = frames /\ e.order = order
           /\ After(corpus, threshold, Line, e) = AfterPass1(e)
    /\ LET e == InPass2(nodes, rev, next, visited, order, stack, comp, largest)
       IN  /\ e.pc = "pass2" /\ e.nodes = nodes /\ e.rev = rev /\ e.next = next
           /\ e.visited = visited /\ e.order = order /\ e.stack = stack /\ e.comp = comp
           /\ e.largest = largest
           /\ After(corpus, threshold, Line, e) = AfterPass2(e)
<1>1. LET e == InPass1(nodes, adj, rev, next, visited, frames, order)
      IN  /\ e.pc = "pass1" /\ e.nodes = nodes /\ e.adj = adj /\ e.rev = rev /\ e.next = next
          /\ e.visited = visited /\ e.frames = frames /\ e.order = order
  BY DEF InPass1
<1>2. LET e == InPass2(nodes, rev, next, visited, order, stack, comp, largest)
      IN  /\ e.pc = "pass2" /\ e.nodes = nodes /\ e.rev = rev /\ e.next = next
          /\ e.visited = visited /\ e.order = order /\ e.stack = stack /\ e.comp = comp
          /\ e.largest = largest
  BY DEF InPass2
<1>3. \A e : e.pc = "pass1" => After(corpus, threshold, Line, e) = AfterPass1(e)
  BY DEF After
<1>4. \A e : e.pc = "pass2" => After(corpus, threshold, Line, e) = AfterPass2(e)
  BY DEF After
<1> QED
  BY <1>1, <1>2, <1>3, <1>4

\* A step within the first pass.
LEMMA Pass1Follows ==
    ASSUME pc = "pass1", pc' = "pass1", nodes' = nodes, adj' = adj, rev' = rev,
           corpus' = corpus, threshold' = threshold, row' = row, found' = found,
           AfterPass1(InPass1(nodes, adj, rev, next, visited, frames, order))
               = InPass1(nodes, adj, rev, next', visited', frames', order')
    PROVE  Follows
<1>1. /\ Remembered = InPass1(nodes, adj, rev, next, visited, frames, order)
      /\ Remembered' = InPass1(nodes, adj, rev, next', visited', frames', order')
  BY DEF Remembered
<1>2. /\ InPass1(nodes, adj, rev, next, visited, frames, order).pc = "pass1"
      /\ After(corpus, threshold, Line, InPass1(nodes, adj, rev, next, visited, frames, order))
           = AfterPass1(InPass1(nodes, adj, rev, next, visited, frames, order))
  BY PassParts, Zenon
<1> QED
  BY <1>1, <1>2 DEF Follows

\* A step within the second.
LEMMA Pass2Follows ==
    ASSUME pc = "pass2", pc' = "pass2", nodes' = nodes, rev' = rev, order' = order,
           corpus' = corpus, threshold' = threshold, row' = row, found' = found,
           AfterPass2(InPass2(nodes, rev, next, visited, order, stack, comp, largest))
               = InPass2(nodes, rev, next', visited', order, stack', comp', largest')
    PROVE  Follows
<1>1. /\ Remembered = InPass2(nodes, rev, next, visited, order, stack, comp, largest)
      /\ Remembered' = InPass2(nodes, rev, next', visited', order, stack', comp', largest')
  BY DEF Remembered
<1>2. /\ InPass2(nodes, rev, next, visited, order, stack, comp, largest).pc = "pass2"
      /\ After(corpus, threshold, Line, InPass2(nodes, rev, next, visited, order, stack, comp, largest))
           = AfterPass2(InPass2(nodes, rev, next, visited, order, stack, comp, largest))
  BY PassParts, Zenon
<1> QED
  BY <1>1, <1>2 DEF Follows

\* A root pushed, or one already visited.
LEMMA PushRootFollows == ASSUME AnchorsInv, PushRoot PROVE Follows
<1> DEFINE e == InPass1(nodes, adj, rev, next, visited, frames, order)
<1>1. /\ pc = "pass1" /\ pc' = "pass1" /\ nodes' = nodes /\ adj' = adj /\ rev' = rev
      /\ corpus' = corpus /\ threshold' = threshold /\ row' = row /\ found' = found
      /\ frames = <<>> /\ next <= numNodes /\ next' = next + 1 /\ order' = order
      /\ \/ next \in visited /\ visited' = visited /\ frames' = frames
         \/ /\ next \notin visited /\ visited' = visited \cup {next}
            /\ frames' = <<[v |-> next, i |-> 0]>>
  BY DEF PushRoot, parse, marks, graph, pass2, history
<1>2. ~(next > Len(nodes))
  <2>1. next \in 1 .. numNodes + 1 /\ nodes \in Seq(Tokens)
    BY <1>1, Zenon DEF AnchorsInv, Searching, Shapes
  <2> QED
    BY <1>1, <2>1 DEF numNodes
<1>3. /\ e.nodes = nodes /\ e.adj = adj /\ e.rev = rev /\ e.next = next
      /\ e.visited = visited /\ e.frames = frames /\ e.order = order
  BY PassParts, Zenon
<1> HIDE DEF e
<1>4. AfterPass1(e) = InPass1(nodes, adj, rev, next', visited', frames', order')
  BY <1>1, <1>2, <1>3, Zenon DEF AfterPass1
<1> QED
  BY <1>1, <1>4, Pass1Follows DEF e

\* An edge followed.
LEMMA FollowEdgeFollows == ASSUME AnchorsInv, FollowEdge PROVE Follows
<1> DEFINE e == InPass1(nodes, adj, rev, next, visited, frames, order)
           f == Last(frames)
           moved == [frames EXCEPT ![Len(frames)].i = @ + 1]
           to == adj[f.v][f.i + 1]
<1>1. /\ pc = "pass1" /\ pc' = "pass1" /\ nodes' = nodes /\ adj' = adj /\ rev' = rev
      /\ corpus' = corpus /\ threshold' = threshold /\ row' = row /\ found' = found
      /\ frames # <<>> /\ next' = next /\ order' = order
  BY DEF FollowEdge, parse, marks, graph, pass2, history
<1>2. /\ f.i < Len(adj[f.v]) /\ visited' = visited \cup {to}
      /\ frames' = IF to \in visited THEN moved ELSE Append(moved, [v |-> to, i |-> 0])
  BY Zenon DEF FollowEdge
<1>3. /\ e.nodes = nodes /\ e.adj = adj /\ e.rev = rev /\ e.next = next
      /\ e.visited = visited /\ e.frames = frames /\ e.order = order
  BY PassParts, Zenon
<1> HIDE DEF e
<1>4. AfterPass1(e) = InPass1(nodes, adj, rev, next', visited', frames', order')
  BY <1>1, <1>2, <1>3, Zenon DEF AfterPass1
<1> QED
  BY <1>1, <1>4, Pass1Follows DEF e

\* A node finished.
LEMMA FinishNodeFollows == ASSUME AnchorsInv, FinishNode PROVE Follows
<1> DEFINE e == InPass1(nodes, adj, rev, next, visited, frames, order)
           f == Last(frames)
<1>1. /\ pc = "pass1" /\ pc' = "pass1" /\ nodes' = nodes /\ adj' = adj /\ rev' = rev
      /\ corpus' = corpus /\ threshold' = threshold /\ row' = row /\ found' = found
      /\ frames # <<>> /\ next' = next /\ visited' = visited
  BY DEF FinishNode, parse, marks, graph, pass2, history
<1>2. f.i >= Len(adj[f.v]) /\ order' = Append(order, f.v) /\ frames' = Front(frames)
  BY Zenon DEF FinishNode, Postorder
<1>3. ~(f.i < Len(adj[f.v]))
  <2>1. frames \in Seq([v : 1 .. numNodes, i : Nat])
    BY <1>1, Zenon DEF AnchorsInv, Searching
  <2>2. f \in [v : 1 .. numNodes, i : Nat]
    <3>1. PICK s, S : s = frames /\ S = [v : 1 .. numNodes, i : Nat]
      OBVIOUS
    <3>2. s \in Seq(S) /\ s # <<>>
      BY <1>1, <2>1, <3>1
    <3>3. s[Len(s)] \in S
      BY <3>2
    <3> QED
      BY <3>1, <3>3 DEF Last
  <2>3. adj[f.v] \in Seq(1 .. numNodes)
    BY <1>1, <2>2, Zenon DEF AnchorsInv, Graphed
  <2>4. PICK l : l = adj[f.v]
    OBVIOUS
  <2>5. Len(l) \in Nat /\ f.i \in Nat
    BY <2>2, <2>3, <2>4
  <2> QED
    BY <1>2, <2>4, <2>5
<1>4. /\ e.nodes = nodes /\ e.adj = adj /\ e.rev = rev /\ e.next = next
      /\ e.visited = visited /\ e.frames = frames /\ e.order = order
  BY PassParts, Zenon
<1> HIDE DEF e
<1>5. AfterPass1(e) = InPass1(nodes, adj, rev, next', visited', frames', order')
  BY <1>1, <1>2, <1>3, <1>4, Zenon DEF AfterPass1
<1> QED
  BY <1>1, <1>5, Pass1Follows DEF e

\* The first pass ends.
LEMMA EndPass1Follows == ASSUME AnchorsInv, EndPass1 PROVE Follows
<1> DEFINE e == InPass1(nodes, adj, rev, next, visited, frames, order)
<1>1. /\ pc = "pass1" /\ pc' = "pass2" /\ nodes' = nodes /\ rev' = rev /\ order' = order
      /\ corpus' = corpus /\ threshold' = threshold /\ row' = row /\ found' = found
      /\ frames = <<>> /\ next > Len(nodes) /\ visited' = {} /\ largest' = <<>> /\ stack' = <<>>
      /\ comp' = <<>> /\ next' = Len(order)
  BY DEF EndPass1, parse, marks, graph, pass1, history, numNodes
<1>2. /\ e.pc = "pass1" /\ e.nodes = nodes /\ e.adj = adj /\ e.rev = rev /\ e.next = next
      /\ e.visited = visited /\ e.frames = frames /\ e.order = order
      /\ After(corpus, threshold, Line, e) = AfterPass1(e)
  BY PassParts, Zenon
<1>3. Remembered = e /\ Remembered' = InPass2(nodes, rev, Len(order), {}, order, <<>>, <<>>, <<>>)
  BY <1>1 DEF Remembered
<1> HIDE DEF e
<1>4. AfterPass1(e) = InPass2(nodes, rev, Len(order), {}, order, <<>>, <<>>, <<>>)
  BY <1>1, <1>2, Zenon DEF AfterPass1
<1> QED
  BY <1>1, <1>2, <1>3, <1>4 DEF Follows

\* A component opened, or a node passed over.
LEMMA OpenComponentFollows == ASSUME AnchorsInv, OpenComponent PROVE Follows
<1> DEFINE e == InPass2(nodes, rev, next, visited, order, stack, comp, largest)
<1>1. /\ pc = "pass2" /\ pc' = "pass2" /\ nodes' = nodes /\ rev' = rev /\ order' = order
      /\ corpus' = corpus /\ threshold' = threshold /\ row' = row /\ found' = found
      /\ stack = <<>> /\ comp = <<>> /\ next >= 1 /\ comp' = comp /\ largest' = largest
      /\ \/ order[next] \in visited /\ next' = next - 1 /\ visited' = visited /\ stack' = stack
         \/ /\ order[next] \notin visited /\ visited' = visited \cup {order[next]}
            /\ stack' = <<order[next]>> /\ next' = next
  BY DEF OpenComponent, Down, parse, marks, graph, pass1, history
<1>2. ~(next < 1)
  <2>1. next \in 0 .. Len(order) /\ order \in Seq(1 .. Len(adj))
    BY <1>1, Zenon DEF AnchorsInv, Gathering, Shapes
  <2> QED
    BY <1>1, <2>1
<1>3. /\ e.nodes = nodes /\ e.rev = rev /\ e.next = next /\ e.visited = visited
      /\ e.order = order /\ e.stack = stack /\ e.comp = comp /\ e.largest = largest
  BY PassParts, Zenon
<1> HIDE DEF e
<1>4. AfterPass2(e) = InPass2(nodes, rev, next', visited', order, stack', comp', largest')
  BY <1>1, <1>2, <1>3, Zenon DEF AfterPass2
<1> QED
  BY <1>1, <1>4, Pass2Follows DEF e

\* A node that joins the component.
LEMMA GrowComponentFollows == ASSUME AnchorsInv, GrowComponent PROVE Follows
<1> DEFINE e == InPass2(nodes, rev, next, visited, order, stack, comp, largest)
           x == Last(stack)
           new == Unseen(rev[x], visited)
<1>1. /\ pc = "pass2" /\ pc' = "pass2" /\ nodes' = nodes /\ rev' = rev /\ order' = order
      /\ corpus' = corpus /\ threshold' = threshold /\ row' = row /\ found' = found
      /\ stack # <<>> /\ next' = next /\ largest' = largest
  BY DEF GrowComponent, parse, marks, graph, pass1, history
<1>2. /\ stack' = Front(stack) \o new /\ visited' = visited \cup ToSet(new)
      /\ comp' = Append(comp, x)
  BY Zenon DEF GrowComponent, Backward
<1>3. /\ e.nodes = nodes /\ e.rev = rev /\ e.next = next /\ e.visited = visited
      /\ e.order = order /\ e.stack = stack /\ e.comp = comp /\ e.largest = largest
  BY PassParts, Zenon
<1> HIDE DEF e
<1>4. AfterPass2(e) = InPass2(nodes, rev, next', visited', order, stack', comp', largest')
  BY <1>1, <1>2, <1>3, Zenon DEF AfterPass2
<1> QED
  BY <1>1, <1>4, Pass2Follows DEF e

\* A component closed: the larger stays, the earlier of two of a size.
LEMMA CloseComponentFollows == ASSUME AnchorsInv, CloseComponent PROVE Follows
<1> DEFINE e == InPass2(nodes, rev, next, visited, order, stack, comp, largest)
<1>1. /\ pc = "pass2" /\ pc' = "pass2" /\ nodes' = nodes /\ rev' = rev /\ order' = order
      /\ corpus' = corpus /\ threshold' = threshold /\ row' = row /\ found' = found
      /\ stack = <<>> /\ comp # <<>> /\ next' = next - 1 /\ visited' = visited /\ stack' = stack
      /\ comp' = <<>> /\ largest' = IF Len(comp) > Len(largest) THEN comp ELSE largest
  BY DEF CloseComponent, Down, Larger, parse, marks, graph, pass1, history
<1>2. /\ e.nodes = nodes /\ e.rev = rev /\ e.next = next /\ e.visited = visited
      /\ e.order = order /\ e.stack = stack /\ e.comp = comp /\ e.largest = largest
  BY PassParts, Zenon
<1> HIDE DEF e
<1>3. AfterPass2(e) = InPass2(nodes, rev, next', visited', order, stack', comp', largest')
  BY <1>1, <1>2, Zenon DEF AfterPass2
<1> QED
  BY <1>1, <1>3, Pass2Follows DEF e

\* The second pass ends.
LEMMA EndPass2Follows == ASSUME AnchorsInv, EndPass2 PROVE Follows
<1> DEFINE e == InPass2(nodes, rev, next, visited, order, stack, comp, largest)
<1>1. /\ pc = "pass2" /\ pc' = "special" /\ anchors' = {nodes[v] : v \in ToSet(largest)}
      /\ corpus' = corpus /\ threshold' = threshold /\ row' = row /\ found' = found
      /\ stack = <<>> /\ comp = <<>> /\ next < 1
  BY DEF EndPass2, parse, history
<1>2. /\ e.pc = "pass2" /\ e.nodes = nodes /\ e.rev = rev /\ e.next = next /\ e.visited = visited
      /\ e.order = order /\ e.stack = stack /\ e.comp = comp /\ e.largest = largest
      /\ After(corpus, threshold, Line, e) = AfterPass2(e)
  BY PassParts, Zenon
<1>3. Remembered = e /\ Remembered' = InSpecial({nodes[v] : v \in ToSet(largest)})
  BY <1>1 DEF Remembered
<1> HIDE DEF e
<1>4. AfterPass2(e) = InSpecial({nodes[v] : v \in ToSet(largest)})
  BY <1>1, <1>2, Zenon DEF AfterPass2
<1> QED
  BY <1>1, <1>2, <1>3, <1>4 DEF Follows

\* The special tokens, added and removed.
LEMMA SpecialFollows == ASSUME AnchorsInv, Special PROVE Follows
<1>1. /\ pc = "special" /\ pc' = "done"
      /\ anchors' = (anchors \cup OfKind("specialWhite")) \ OfKind("specialBlack")
      /\ corpus' = corpus /\ threshold' = threshold /\ row' = row /\ found' = found
  BY DEF Special, parse, history
<1>2. /\ OfKind("specialWhite") = Tagged(Line, "specialWhite")
      /\ OfKind("specialBlack") = Tagged(Line, "specialBlack")
  BY Zenon DEF OfKind, Tagged
<1>3. InSpecial(anchors).pc = "special" /\ InSpecial(anchors).anchors = anchors
  BY DEF InSpecial
<1>4. Remembered = InSpecial(anchors) /\ Remembered' = Ended(anchors')
  BY <1>1 DEF Remembered
<1>5. After(corpus, threshold, Line, InSpecial(anchors)) = AfterSpecial(Line, InSpecial(anchors))
  BY <1>3 DEF After
<1>6. AfterSpecial(Line, InSpecial(anchors)) = Ended(anchors')
  BY <1>1, <1>2, <1>3, Zenon DEF AfterSpecial
<1> QED
  BY <1>1, <1>3, <1>4, <1>5, <1>6 DEF Follows

\* A step within a row goes on with its computation.
LEMMA FollowsKeeps ==
    ASSUME ScratchInv, pc # "idle", Follows
    PROVE  ScratchInv'
<1>1. PICK n, h : Computes(corpus, threshold, row, n, h) /\ h[n] = Remembered
  BY DEF ScratchInv
<1>2. h[n].pc # "done" /\ Remembered' = After(corpus, threshold, corpus.rows[row], h[n])
  BY <1>1 DEF Follows, Line
<1>3. \E m, g : Computes(corpus, threshold, row, m, g) /\ g[m] = Remembered'
  <2>1. PICK e : e = Remembered'
    OBVIOUS
  <2>2. e = After(corpus, threshold, corpus.rows[row], h[n])
    BY <1>2, <2>1
  <2>3. \E m, g : Computes(corpus, threshold, row, m, g) /\ g[m] = e
    BY <1>1, <1>2, <2>2, ComputationGoesOn
  <2> QED
    BY <2>1, <2>3
<1>4. corpus' = corpus /\ threshold' = threshold /\ row' = row /\ found' = found
  BY DEF Follows
<1> QED
  BY <1>3, <1>4 DEF ScratchInv

\* A row begins where every computation of it begins.
LEMMA BeginKeeps ==
    ASSUME ScratchInv, NEW r \in DOMAIN corpus.rows, Begin(r)
    PROVE  ScratchInv'
<1>1. /\ pc' = "nodes" /\ nodes' = <<>> /\ next' = 1 /\ row' = r
      /\ corpus' = corpus /\ threshold' = threshold /\ found' = found
  BY DEF Begin, parse, history
<1>2. Remembered' = InNodes(<<>>, 1)
  BY <1>1 DEF Remembered
<1> DEFINE h == [k \in 1 .. 1 |-> InNodes(<<>>, 1)]
<1>3. h[1] = InNodes(<<>>, 1) /\ 1 \in Nat \ {0} /\ 1 .. 1 - 1 = {}
  OBVIOUS
<1> HIDE DEF h
<1>4. Computes(corpus, threshold, r, 1, h)
  BY <1>3, Zenon DEF Computes
<1> QED
  BY <1>1, <1>2, <1>3, <1>4, Zenon DEF ScratchInv

\* A row's answer is the end of its computation.
LEMMA ReturnKeeps ==
    ASSUME ScratchInv, Return
    PROVE  ScratchInv'
<1>1. /\ pc = "done" /\ pc' = "idle" /\ found' = [found EXCEPT ![row] = @ \cup {anchors}]
      /\ corpus' = corpus /\ threshold' = threshold
  BY DEF Return, parse
<1>2. Remembered = Ended(anchors)
  BY <1>1 DEF Remembered
<1>3. \E n, h : Computes(corpus, threshold, row, n, h) /\ h[n] = Ended(anchors)
  BY <1>1, <1>2 DEF ScratchInv
<1>4. ASSUME NEW r \in DOMAIN found', NEW A \in found'[r]
      PROVE  \E n, h : Computes(corpus, threshold, r, n, h) /\ h[n] = Ended(A)
  <2>1. r \in DOMAIN found
    BY <1>1, <1>4
  <2>2. A \in found[r] \/ (r = row /\ A = anchors)
    BY <1>1, <1>4, <2>1
  <2> QED
    BY <1>3, <2>1, <2>2, Zenon DEF ScratchInv
<1> QED
  BY <1>1, <1>4 DEF ScratchInv

\* The invariant, by the actions.
LEMMA ScratchInvStep ==
    ASSUME AnchorsInv, ScratchInv, [Next]_vars
    PROVE  ScratchInv'
<1>1. ASSUME NEW r \in DOMAIN corpus.rows, Begin(r)
      PROVE  ScratchInv'
  BY <1>1, BeginKeeps
<1>2. ASSUME Step, ~Return
      PROVE  ScratchInv'
  <2>1. Follows
    BY <1>2, CollectTokenFollows, FewNodesFollows, ManyNodesFollows, BuildGraphFollows,
       PushRootFollows, FollowEdgeFollows, FinishNodeFollows, EndPass1Follows,
       OpenComponentFollows, GrowComponentFollows, CloseComponentFollows, EndPass2Follows,
       SpecialFollows, Zenon DEF Step
  <2>2. pc # "idle"
    BY <1>2 DEF Step, CollectToken, FewNodes, ManyNodes, BuildGraph, PushRoot, FollowEdge,
       FinishNode, EndPass1, OpenComponent, GrowComponent, CloseComponent, EndPass2, Special
  <2> QED
    BY <2>1, <2>2, FollowsKeeps
<1>3. CASE Return
  BY <1>3, ReturnKeeps
<1>4. CASE UNCHANGED vars
  <2>1. /\ corpus' = corpus /\ threshold' = threshold /\ row' = row /\ pc' = pc
        /\ nodes' = nodes /\ next' = next /\ adj' = adj /\ rev' = rev /\ visited' = visited
        /\ frames' = frames /\ order' = order /\ stack' = stack /\ comp' = comp
        /\ largest' = largest /\ anchors' = anchors /\ found' = found
    BY <1>4 DEF vars, parse, marks, graph, pass1, pass2, history
  <2>2. Remembered' = Remembered
    BY <2>1 DEF Remembered
  <2> QED
    BY <2>1, <2>2 DEF ScratchInv
<1> QED
  BY <1>1, <1>2, <1>3, <1>4, Zenon DEF Next

\* What a row's anchors are does not depend on the rows the scratch served before,
\* ties included: however often and after whatever rows one is computed, the
\* answer is the same.
THEOREM ScratchIsForgotten == Spec => []ScratchForgets
<1>1. Init => ScratchInv
  <2> SUFFICES ASSUME Init PROVE ScratchInv
    OBVIOUS
  <2>1. pc = "idle" /\ \A r \in DOMAIN found : found[r] = {}
    BY DEF Init
  <2> QED
    BY <2>1, Zenon DEF ScratchInv
<1>2. ScratchInv => ScratchForgets
  <2> SUFFICES ASSUME ScratchInv, NEW r \in DOMAIN found
               PROVE  Cardinality(found[r]) <= 1
    BY Zenon DEF ScratchForgets
  <2>1. ASSUME NEW A \in found[r], NEW B \in found[r]
        PROVE  A = B
    <3>1. PICK n, h : Computes(corpus, threshold, r, n, h) /\ h[n] = Ended(A)
      BY Zenon DEF ScratchInv
    <3>2. PICK m, g : Computes(corpus, threshold, r, m, g) /\ g[m] = Ended(B)
      BY Zenon DEF ScratchInv
    <3> QED
      BY <3>1, <3>2, ComputationEnds, Zenon
  <2>2. CASE found[r] = {}
    BY <2>2, FS_EmptySet
  <2>3. CASE found[r] # {}
    <3>1. PICK A : A \in found[r]
      BY <2>3
    <3>2. found[r] = {A}
      BY <2>1, <3>1
    <3>3. Cardinality({A}) = 1
      BY FS_Singleton
    <3> QED
      BY <3>2, <3>3
  <2> QED
    BY <2>2, <2>3
<1>3. AnchorsInv /\ ScratchInv /\ [Next]_vars => ScratchInv'
  BY ScratchInvStep
<1> QED
  BY <1>1, <1>2, <1>3, AnchorsInvariant, PTL DEF Spec
=============================================================================
