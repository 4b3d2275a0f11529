------------------------- MODULE AhoCorasickProofs -------------------------
(***************************************************************************)
(* The automaton is right for any pattern list and any text: the types, the  *)
(* failure links and the reports of AhoCorasick, from one invariant of the   *)
(* trie, of the order in which buildFailures queues its nodes, and of the    *)
(* two walks along failure links.                                            *)
(***************************************************************************)
EXTENDS AhoCorasick, BasicLemmas

Phases == {"insert", "roots", "fail", "chase", "ready", "scan"}

\* The types, as sets of sequences and functions.
Shapes ==
    /\ patterns \in PatternLists
    /\ numNodes \in Nat \ {0} /\ Nodes = 0 .. numNodes - 1
    /\ next \in [Nodes -> [Bytes -> {Absent} \cup 1 .. numNodes - 1]]
    /\ fail \in [Nodes -> Nodes]
    /\ out \in [Nodes -> Seq(DOMAIN patterns)]
    /\ word \in [Nodes -> Seq(Bytes)]
    /\ pc \in Phases
    /\ pid \in 1 .. Len(patterns) + 1 /\ pos \in Nat
    /\ state \in Nodes /\ probe \in Nodes
    /\ queue \in Seq(Nodes \ {Root}) /\ head \in 0 .. Len(queue)
    /\ byte \in 1 .. NumBytes + 1
    /\ text \in Seq(Bytes) /\ i \in 0 .. Len(text)

\* The edges spell the words, and no two nodes have the same.
Trie ==
    /\ word[Root] = <<>>
    /\ \A n \in Nodes, b \in Bytes :
          next[n][b] # Absent => word[next[n][b]] = Append(word[n], b)
    /\ \A n \in Nodes \ {Root} : \E p \in Nodes, b \in Bytes : next[p][b] = n
    /\ \A m, n \in Nodes : word[m] = word[n] => m = n

\* How far the insertion is; later steps leave what it built.
Inserting ==
    /\ pc = "insert" =>
          /\ queue = <<>> /\ head = 0 /\ byte = 1
          /\ text = <<>> /\ i = 0 /\ reported = {}
          /\ pid <= Len(patterns) => /\ pos <= Len(patterns[pid])
                                     /\ word[state] = SubSeq(patterns[pid], 1, pos)
    /\ pc # "insert" => pid = Len(patterns) + 1
    /\ \A p \in Sought : p < pid => \E n \in Nodes : word[n] = patterns[p]

\* The patterns of s are those before the k-th that n ends, without repetition.
IsOwnTo(n, s, k) ==
    /\ ToSet(s) = {p \in Sought : p < k /\ patterns[p] = word[n]}
    /\ IsInjective(s)

\* So far as they are inserted.
IsOwn(n, s) == IsOwnTo(n, s, pid)

\* The patterns of s are those that n's word ends with, without repetition.
IsReport(n, s) ==
    /\ ToSet(s) = {p \in Sought : EndsWith(word[n], patterns[p])}
    /\ IsInjective(s)

Depth(n) == Len(word[n])

\* The nodes whose word ends w, down to depth k.
SuffixesTo(w, k) == {m \in Nodes : Depth(m) <= k /\ EndsWith(w, word[m])}

\* f is where node n must fail to.
IsFailure(n, f) ==
    /\ f \in SuffixesTo(word[n], Depth(n) - 1)
    /\ \A m \in SuffixesTo(word[n], Depth(n) - 1) : Depth(m) <= Depth(f)

\* n is a suffix node of w, and no deeper one can go on with byte b.
Reaches(w, k, b, n) ==
    /\ n \in SuffixesTo(w, k)
    /\ \A m \in SuffixesTo(w, k) : next[m][b] # Absent => Depth(m) <= Depth(n)

\* The edges buildFailures has been through.
Visited(n, b) ==
    \/ n = Root /\ (pc = "roots" => b < byte)
    \/ \E k \in 1 .. head : n = queue[k]
    \/ pc \in {"fail", "chase"} /\ head < Len(queue) /\ n = Current /\ b < byte

\* The queue holds the nodes these lead to, once each, by depth, and is less
\* than a level ahead of its head.
Queueing ==
    /\ pc \in {"insert", "roots"} => head = 0
    /\ pc \in {"ready", "scan"} => head = Len(queue)
    /\ pc # "insert" =>
          \A n \in Nodes, b \in Bytes :
              next[n][b] # Absent => (next[n][b] \in ToSet(queue) <=> Visited(n, b))
    /\ \A j, k \in DOMAIN queue : queue[j] = queue[k] => j = k
    /\ \A j, k \in DOMAIN queue : j <= k => Depth(queue[j]) <= Depth(queue[k])
    /\ head < Len(queue) => \A j \in DOMAIN queue : Depth(queue[j]) <= Depth(Current) + 1

\* What is in the queue is final; what is not has its own patterns only.
Linking ==
    /\ \A n \in ToSet(queue) : IsFailure(n, fail[n]) /\ IsReport(n, out[n])
    /\ \A n \in Nodes \ ToSet(queue) : IsOwn(n, out[n])

Chasing ==
    pc = "chase" =>
        /\ head < Len(queue) /\ byte \in Bytes
        /\ next[Current][byte] # Absent
        /\ Reaches(word[Current], Depth(Current) - 1, byte, probe)

Scanned(k) == SubSeq(text, 1, k)

Scanning ==
    /\ reported \subseteq Occurrences(i)
    /\ ~stopped => reported = Occurrences(i)
    /\ pc = "scan" =>
          /\ ~stopped
          /\ state \in SuffixesTo(Scanned(i), i)
          /\ \A m \in SuffixesTo(Scanned(i), i) :
                (i < Len(text) => next[m][text[i + 1]] # Absent) => Depth(m) <= Depth(state)

AutomatonInv ==
    Shapes /\ Trie /\ Inserting /\ Queueing /\ Linking /\ Chasing /\ Scanning

-----------------------------------------------------------------------------
\* Ends of words.

\* A word ends with p when its last bytes are p's.
LEMMA EndsWithBytes ==
    ASSUME NEW S, NEW w \in Seq(S), NEW p \in Seq(S)
    PROVE  EndsWith(w, p) <=>
              /\ Len(p) <= Len(w)
              /\ \A j \in 1 .. Len(p) : p[j] = w[Len(w) - Len(p) + j]
<1> DEFINE d == Len(w) - Len(p)
           e == SubSeq(w, d + 1, Len(w))
<1>1. SUFFICES ASSUME Len(p) <= Len(w)
               PROVE  e = p <=> \A j \in 1 .. Len(p) : p[j] = w[d + j]
  BY DEF EndsWith
<1>2. Len(w) \in Nat /\ Len(p) \in Nat /\ d \in 0 .. Len(w)
  BY <1>1
<1>3. /\ e \in Seq(S) /\ Len(e) = Len(p)
      /\ \A j \in 1 .. Len(p) : e[j] = w[d + j]
  BY <1>1, <1>2
<1> HIDE DEF e, d
<1> QED
  BY <1>3

\* A word ends with itself and with the empty word.
LEMMA EndsWithSelf ==
    ASSUME NEW S, NEW w \in Seq(S)
    PROVE  EndsWith(w, w) /\ EndsWith(w, <<>>)
<1>1. <<>> \in Seq(S) /\ Len(<<>>) = 0 /\ Len(w) \in Nat
  OBVIOUS
<1>2. \A j \in 1 .. Len(w) : w[j] = w[Len(w) - Len(w) + j]
  BY <1>1
<1>3. \A j \in 1 .. Len(<<>>) : <<>>[j] = w[Len(w) - Len(<<>>) + j]
  BY <1>1
<1>4. Len(w) <= Len(w) /\ Len(<<>>) <= Len(w)
  BY <1>1
<1> QED
  BY <1>1, <1>2, <1>3, <1>4, EndsWithBytes, Zenon

\* The end of an end is an end.
LEMMA EndsWithTrans ==
    ASSUME NEW S, NEW w \in Seq(S), NEW p \in Seq(S), NEW q \in Seq(S),
           EndsWith(w, p), EndsWith(p, q)
    PROVE  EndsWith(w, q)
<1>1. /\ Len(p) <= Len(w) /\ \A j \in 1 .. Len(p) : p[j] = w[Len(w) - Len(p) + j]
      /\ Len(q) <= Len(p) /\ \A j \in 1 .. Len(q) : q[j] = p[Len(p) - Len(q) + j]
  BY EndsWithBytes
<1>2. Len(w) \in Nat /\ Len(p) \in Nat /\ Len(q) \in Nat
  OBVIOUS
<1>3. ASSUME NEW j \in 1 .. Len(q)
      PROVE  q[j] = w[Len(w) - Len(q) + j]
  <2>1. Len(p) - Len(q) + j \in 1 .. Len(p)
    BY <1>1, <1>2
  <2>2. Len(w) - Len(p) + (Len(p) - Len(q) + j) = Len(w) - Len(q) + j
    BY <1>2
  <2> QED
    BY <1>1, <2>1, <2>2
<1> QED
  BY <1>1, <1>2, <1>3, EndsWithBytes

\* Of two ends the shorter is an end of the longer.
LEMMA EndsNest ==
    ASSUME NEW S, NEW w \in Seq(S), NEW p \in Seq(S), NEW q \in Seq(S),
           EndsWith(w, p), EndsWith(w, q), Len(q) <= Len(p)
    PROVE  EndsWith(p, q)
<1>1. /\ Len(p) <= Len(w) /\ \A j \in 1 .. Len(p) : p[j] = w[Len(w) - Len(p) + j]
      /\ Len(q) <= Len(w) /\ \A j \in 1 .. Len(q) : q[j] = w[Len(w) - Len(q) + j]
  BY EndsWithBytes
<1>2. Len(w) \in Nat /\ Len(p) \in Nat /\ Len(q) \in Nat
  OBVIOUS
<1>3. ASSUME NEW j \in 1 .. Len(q)
      PROVE  q[j] = p[Len(p) - Len(q) + j]
  <2>1. Len(p) - Len(q) + j \in 1 .. Len(p)
    BY <1>2
  <2>2. Len(w) - Len(p) + (Len(p) - Len(q) + j) = Len(w) - Len(q) + j
    BY <1>2
  <2> QED
    BY <1>1, <2>1, <2>2
<1> QED
  BY <1>3, EndsWithBytes

\* An end as long as the word is the word.
LEMMA EndsWithWhole ==
    ASSUME NEW S, NEW w \in Seq(S), NEW p \in Seq(S), EndsWith(w, p), Len(p) >= Len(w)
    PROVE  p = w
<1>1. Len(p) = Len(w) /\ Len(w) \in Nat
  BY EndsWithBytes
<1>2. \A j \in 1 .. Len(p) : p[j] = w[j]
  BY <1>1, EndsWithBytes
<1> QED
  BY <1>1, <1>2

\* Words with a byte appended end alike when the bytes and the words do.
LEMMA EndsWithAppend ==
    ASSUME NEW S, NEW w \in Seq(S), NEW p \in Seq(S), NEW b \in S, NEW c \in S
    PROVE  EndsWith(Append(w, b), Append(p, c)) <=> b = c /\ EndsWith(w, p)
<1> DEFINE v == Append(w, b)
           q == Append(p, c)
           m == Len(w)
           n == Len(p)
<1>1. /\ m \in Nat /\ n \in Nat /\ v \in Seq(S) /\ q \in Seq(S)
      /\ Len(v) = m + 1 /\ Len(q) = n + 1
      /\ v[m + 1] = b /\ \A j \in 1 .. m : v[j] = w[j]
      /\ q[n + 1] = c /\ \A j \in 1 .. n : q[j] = p[j]
  OBVIOUS
<1>2. EndsWith(w, p) <=> n <= m /\ \A j \in 1 .. n : p[j] = w[m - n + j]
  BY EndsWithBytes
<1> HIDE DEF v, q, m, n
<1>3. EndsWith(v, q) <=> n <= m /\ \A j \in 1 .. n + 1 : q[j] = v[m - n + j]
  <2>1. EndsWith(v, q) <=> Len(q) <= Len(v) /\ \A j \in 1 .. Len(q) : q[j] = v[Len(v) - Len(q) + j]
    <3>1. ASSUME NEW x \in Seq(S), NEW y \in Seq(S)
          PROVE  EndsWith(x, y) <=>
                    Len(y) <= Len(x) /\ \A j \in 1 .. Len(y) : y[j] = x[Len(x) - Len(y) + j]
      BY EndsWithBytes
    <3> QED
      BY <1>1, <3>1, Zenon
  <2>2. Len(v) - Len(q) = m - n /\ (Len(q) <= Len(v) <=> n <= m)
    <3>1. m \in Nat /\ n \in Nat /\ Len(v) = m + 1 /\ Len(q) = n + 1
      BY <1>1, Zenon
    <3> QED
      BY <3>1
  <2> QED
    BY <1>1, <2>1, <2>2, Zenon
<1>4. SUFFICES ASSUME n <= m
               PROVE  (\A j \in 1 .. n + 1 : q[j] = v[m - n + j])
                         <=> b = c /\ \A j \in 1 .. n : p[j] = w[m - n + j]
  BY <1>2, <1>3 DEF v, q
<1>5. \A j : j \in 1 .. n + 1 <=> j \in 1 .. n \/ j = n + 1
  BY <1>1
<1>6. \A j \in 1 .. n : v[m - n + j] = w[m - n + j]
  BY <1>1, <1>4
<1>7. m - n + (n + 1) = m + 1
  BY <1>1
<1>8. v[m - n + (n + 1)] = b
  BY <1>1, <1>7
<1>9. ASSUME b = c, \A j \in 1 .. n : p[j] = w[m - n + j]
      PROVE  \A j \in 1 .. n + 1 : q[j] = v[m - n + j]
  <2> TAKE j \in 1 .. n + 1
  <2>1. CASE j = n + 1
    BY <1>1, <1>8, <1>9, <2>1, Zenon
  <2>2. CASE j \in 1 .. n
    BY <1>1, <1>6, <1>9, <2>2, Zenon
  <2> QED
    BY <1>5, <2>1, <2>2
<1>10. ASSUME \A j \in 1 .. n + 1 : q[j] = v[m - n + j]
       PROVE  b = c /\ \A j \in 1 .. n : p[j] = w[m - n + j]
  <2>1. q[n + 1] = v[m - n + (n + 1)]
    BY <1>5, <1>10, Zenon
  <2>2. \A j \in 1 .. n : q[j] = v[m - n + j]
    BY <1>5, <1>10, Zenon
  <2> QED
    BY <1>1, <1>6, <1>8, <2>1, <2>2, Zenon
<1> QED
  BY <1>9, <1>10

-----------------------------------------------------------------------------
\* Nodes and their words.

\* What the types give of patterns, words and edges.
LEMMA ShapeFacts ==
    ASSUME Shapes
    PROVE  /\ patterns \in Seq(Seq(Bytes)) /\ Len(patterns) \in Nat
           /\ DOMAIN patterns = 1 .. Len(patterns)
           /\ \A p \in DOMAIN patterns :
                 patterns[p] \in Seq(Bytes) /\ Len(patterns[p]) \in Nat
           /\ Root \in Nodes /\ DOMAIN word = Nodes
           /\ \A n \in Nodes : word[n] \in Seq(Bytes) /\ Depth(n) \in Nat /\ n # Absent
           /\ \A n \in Nodes, b \in Bytes : next[n][b] # Absent => next[n][b] \in Nodes \ {Root}
<1>1. patterns \in Seq(Seq(Bytes))
  BY AhoCorasickAssumption DEF Shapes, Bytes
<1>2. \A p \in DOMAIN patterns : patterns[p] \in Seq(Bytes) /\ Len(patterns[p]) \in Nat
  BY <1>1
<1>3. /\ numNodes \in Nat \ {0} /\ Nodes = 0 .. numNodes - 1
      /\ next \in [Nodes -> [Bytes -> {Absent} \cup 1 .. numNodes - 1]]
      /\ word \in [Nodes -> Seq(Bytes)]
  BY DEF Shapes
<1> QED
  BY <1>1, <1>2, <1>3 DEF Root, Depth, Absent

\* What they give of the queue.
LEMMA QueueFacts ==
    ASSUME Shapes
    PROVE  /\ queue \in Seq(Nodes \ {Root}) /\ Len(queue) \in Nat /\ DOMAIN queue = 1 .. Len(queue)
           /\ \A j \in 1 .. Len(queue) : queue[j] \in Nodes \ {Root} /\ queue[j] \in ToSet(queue)
           /\ \A n \in ToSet(queue) : n \in Nodes \ {Root} /\ \E j \in 1 .. Len(queue) : n = queue[j]
           /\ head \in Nat /\ head <= Len(queue)
           /\ byte \in Nat \ {0} /\ byte <= NumBytes + 1 /\ NumBytes \in Nat
           /\ head < Len(queue) => head + 1 \in 1 .. Len(queue) /\ Current \in Nodes \ {Root}
<1>1. queue \in Seq(Nodes \ {Root}) /\ head \in 0 .. Len(queue) /\ byte \in 1 .. NumBytes + 1
  BY DEF Shapes
<1>2. Len(queue) \in Nat /\ DOMAIN queue = 1 .. Len(queue)
  BY <1>1
<1>3. \A j \in 1 .. Len(queue) : queue[j] \in Nodes \ {Root}
  BY <1>1
<1>4. ToSet(queue) = {queue[j] : j \in 1 .. Len(queue)}
  BY <1>2, Zenon DEF ToSet
<1>5. head \in Nat /\ head <= Len(queue) /\ (head < Len(queue) => head + 1 \in 1 .. Len(queue))
  BY <1>1, <1>2
<1> QED
  BY <1>1, <1>2, <1>3, <1>4, <1>5, AhoCorasickAssumption DEF Current

\* Two nodes that end a word are one, or the shallower is a suffix node of the
\* deeper.
LEMMA ShallowerSuffix ==
    ASSUME Shapes, Trie, NEW w \in Seq(Bytes), NEW k,
           NEW m \in SuffixesTo(w, k), NEW n \in SuffixesTo(w, k),
           Depth(m) <= Depth(n), m # n
    PROVE  m \in SuffixesTo(word[n], Depth(n) - 1)
<1>1. /\ m \in Nodes /\ n \in Nodes /\ EndsWith(w, word[m]) /\ EndsWith(w, word[n])
      /\ word[m] \in Seq(Bytes) /\ word[n] \in Seq(Bytes)
      /\ Depth(m) \in Nat /\ Depth(n) \in Nat
  BY ShapeFacts DEF SuffixesTo
<1>2. EndsWith(word[n], word[m])
  BY <1>1, EndsNest DEF Depth
<1>3. Depth(m) # Depth(n)
  <2>1. SUFFICES ASSUME Depth(m) = Depth(n)
                 PROVE  FALSE
    OBVIOUS
  <2>2. word[m] = word[n]
    BY <1>1, <1>2, <2>1, EndsWithWhole DEF Depth
  <2> QED
    BY <1>1, <2>2 DEF Trie
<1> QED
  BY <1>1, <1>2, <1>3 DEF SuffixesTo

\* Following a failure from a node without an edge keeps all that have one.
LEMMA FollowReaches ==
    ASSUME Shapes, Trie, NEW w \in Seq(Bytes), NEW k \in Int, NEW b \in Bytes,
           NEW n, Reaches(w, k, b, n), next[n][b] = Absent,
           NEW f, IsFailure(n, f)
    PROVE  Reaches(w, k, b, f)
<1>1. /\ n \in Nodes /\ Depth(n) <= k /\ EndsWith(w, word[n]) /\ n \in SuffixesTo(w, k)
      /\ f \in Nodes /\ Depth(f) <= Depth(n) - 1 /\ EndsWith(word[n], word[f])
  BY DEF Reaches, IsFailure, SuffixesTo
<1>2. /\ word[n] \in Seq(Bytes) /\ word[f] \in Seq(Bytes)
      /\ Depth(n) \in Nat /\ Depth(f) \in Nat
  BY <1>1, ShapeFacts
<1>3. f \in SuffixesTo(w, k)
  <2>1. EndsWith(w, word[f])
    BY <1>1, <1>2, EndsWithTrans
  <2>2. Depth(f) <= k
    BY <1>1, <1>2
  <2> QED
    BY <1>1, <2>1, <2>2 DEF SuffixesTo
<1>4. ASSUME NEW m \in SuffixesTo(w, k), next[m][b] # Absent
      PROVE  Depth(m) <= Depth(f)
  <2>1. Depth(m) <= Depth(n) /\ m # n
    BY <1>4 DEF Reaches
  <2>2. m \in SuffixesTo(word[n], Depth(n) - 1)
    BY <1>1, <2>1, ShallowerSuffix
  <2> QED
    BY <2>2 DEF IsFailure
<1> QED
  BY <1>3, <1>4 DEF Reaches

\* Going on with a byte reaches the deepest node of the longer word.
LEMMA AdvanceReaches ==
    ASSUME Shapes, Trie, NEW w \in Seq(Bytes), NEW k \in Nat, NEW b \in Bytes,
           NEW n, Reaches(w, k, b, n), ~Stuck(n, b)
    PROVE  /\ Target(n, b) \in SuffixesTo(Append(w, b), k + 1)
           /\ \A m \in SuffixesTo(Append(w, b), k + 1) : Depth(m) <= Depth(Target(n, b))
<1> DEFINE v == Append(w, b)
           t == Target(n, b)
<1>1. /\ n \in Nodes /\ Depth(n) <= k /\ EndsWith(w, word[n])
      /\ word[n] \in Seq(Bytes) /\ Depth(n) \in Nat
  BY ShapeFacts DEF Reaches, SuffixesTo
<1>2. /\ Root \in Nodes /\ word[Root] = <<>> /\ Depth(Root) = 0 /\ v \in Seq(Bytes)
  BY ShapeFacts DEF Trie, Depth
<1>3. ASSUME NEW m \in Nodes, next[m][b] # Absent
      PROVE  /\ next[m][b] \in Nodes /\ word[next[m][b]] = Append(word[m], b)
             /\ Depth(next[m][b]) = Depth(m) + 1
  <2>1. next[m][b] \in Nodes /\ word[next[m][b]] = Append(word[m], b) /\ word[m] \in Seq(Bytes)
    BY <1>3, ShapeFacts DEF Trie
  <2> QED
    BY <2>1 DEF Depth
<1>4. t \in SuffixesTo(v, k + 1)
  <2>1. CASE next[n][b] = Absent
    <3>1. t = Root
      BY <2>1 DEF Target
    <3>2. EndsWith(v, word[Root])
      BY <1>2, EndsWithSelf
    <3> QED
      BY <1>2, <3>1, <3>2 DEF SuffixesTo
  <2>2. CASE next[n][b] # Absent
    <3>1. t = next[n][b]
      BY <2>2 DEF Target
    <3>2. t \in Nodes /\ word[t] = Append(word[n], b) /\ Depth(t) = Depth(n) + 1
      BY <1>1, <1>3, <2>2, <3>1
    <3>3. EndsWith(v, word[t])
      BY <1>1, <3>2, EndsWithAppend
    <3>4. Depth(t) <= k + 1
      BY <1>1, <3>2
    <3> QED
      BY <3>2, <3>3, <3>4, Zenon DEF SuffixesTo
  <2> QED
    BY <2>1, <2>2
<1>5. ASSUME NEW m \in SuffixesTo(v, k + 1)
      PROVE  Depth(m) <= Depth(t)
  <2>1. m \in Nodes /\ Depth(m) <= k + 1 /\ EndsWith(v, word[m])
    BY DEF SuffixesTo
  <2>2. t \in Nodes /\ Depth(t) \in Nat
    BY <1>4, ShapeFacts DEF SuffixesTo
  <2>3. CASE m = Root
    BY <1>2, <2>2, <2>3
  <2>4. CASE m # Root
    <3>1. PICK p \in Nodes, c \in Bytes : next[p][c] = m
      BY <2>1, <2>4 DEF Trie
    <3>2. m # Absent
      BY <2>1 DEF Shapes, Absent
    <3>3. word[m] = Append(word[p], c) /\ word[p] \in Seq(Bytes) /\ Depth(p) \in Nat
      BY <3>1, <3>2, ShapeFacts DEF Trie
    <3>4. c = b /\ EndsWith(w, word[p])
      BY <2>1, <3>3, EndsWithAppend
    <3>5. Depth(m) = Depth(p) + 1
      BY <3>3 DEF Depth
    <3>6. next[p][b] # Absent /\ p \in SuffixesTo(w, k)
      BY <2>1, <3>1, <3>2, <3>3, <3>4, <3>5 DEF SuffixesTo
    <3>7. Depth(p) <= Depth(n)
      BY <3>6 DEF Reaches
    <3>8. CASE next[n][b] # Absent
      BY <1>1, <1>3, <3>3, <3>5, <3>7, <3>8 DEF Target
    <3>9. CASE next[n][b] = Absent
      <4>1. n = Root
        BY <3>9 DEF Stuck
      <4>2. word[p] = <<>>
        BY <1>2, <3>3, <3>7, <4>1 DEF Depth
      <4> QED
        BY <1>2, <3>6, <3>9, <4>1, <4>2 DEF Trie
    <3> QED
      BY <3>8, <3>9
  <2> QED
    BY <2>3, <2>4
<1> QED
  BY <1>4, <1>5

\* The failure of the child of n that byte b leads to.
LEMMA ChildFailure ==
    ASSUME Shapes, Trie, NEW n \in Nodes \ {Root}, NEW b \in Bytes, next[n][b] # Absent,
           NEW m, Reaches(word[n], Depth(n) - 1, b, m), ~Stuck(m, b)
    PROVE  IsFailure(next[n][b], Target(m, b))
<1> DEFINE c == next[n][b]
<1>1. /\ word[n] \in Seq(Bytes) /\ Depth(n) \in Nat /\ word[c] = Append(word[n], b)
      /\ Depth(c) = Depth(n) + 1
  BY ShapeFacts DEF Trie, Depth
<1>2. Depth(n) # 0
  <2>1. SUFFICES ASSUME word[n] = <<>>
                 PROVE  FALSE
    BY <1>1 DEF Depth
  <2> QED
    BY <2>1, ShapeFacts DEF Trie
<1>3. Depth(n) - 1 \in Nat /\ Depth(n) - 1 + 1 = Depth(c) - 1
  BY <1>1, <1>2
<1>4. /\ Target(m, b) \in SuffixesTo(Append(word[n], b), Depth(n) - 1 + 1)
      /\ \A l \in SuffixesTo(Append(word[n], b), Depth(n) - 1 + 1) :
            Depth(l) <= Depth(Target(m, b))
  BY <1>1, <1>3, AdvanceReaches
<1> QED
  BY <1>1, <1>3, <1>4 DEF IsFailure

\* A child of the root fails to the root.
LEMMA RootFailure ==
    ASSUME Shapes, Trie, NEW b \in Bytes, next[Root][b] # Absent
    PROVE  IsFailure(next[Root][b], Root)
<1> DEFINE c == next[Root][b]
<1>1. /\ Root \in Nodes /\ word[Root] = <<>> /\ Depth(Root) = 0
      /\ c \in Nodes /\ word[c] = Append(<<>>, b) /\ Depth(c) = 1 /\ word[c] \in Seq(Bytes)
  <2>1. Root \in Nodes /\ c \in Nodes /\ word[Root] = <<>> /\ word[c] \in Seq(Bytes)
    BY ShapeFacts DEF Trie
  <2>2. word[c] = Append(<<>>, b)
    BY <2>1 DEF Trie
  <2>3. Len(<<>>) = 0 /\ Len(Append(<<>>, b)) = 1
    OBVIOUS
  <2> QED
    BY <2>1, <2>2, <2>3, Zenon DEF Depth
<1>2. EndsWith(word[c], word[Root])
  BY <1>1, EndsWithSelf
<1>3. \A m \in Nodes : Depth(m) <= Depth(c) - 1 => Depth(m) <= Depth(Root)
  BY <1>1
<1> QED
  BY <1>1, <1>2, <1>3 DEF IsFailure, SuffixesTo
-----------------------------------------------------------------------------
\* What the nodes report.

\* The root ends no pattern.
LEMMA RootReport ==
    ASSUME Shapes, Trie, Linking
    PROVE  out[Root] = <<>> /\ IsReport(Root, out[Root])
<1>1. /\ Root \in Nodes \ ToSet(queue) /\ word[Root] = <<>>
      /\ out[Root] \in Seq(DOMAIN patterns)
  <2>1. Root \in Nodes /\ Root \notin ToSet(queue)
    BY ShapeFacts, QueueFacts
  <2> QED
    BY <2>1 DEF Trie, Shapes
<1>2. IsOwn(Root, out[Root])
  BY <1>1 DEF Linking
<1>3. ToSet(out[Root]) = {}
  BY <1>1, <1>2 DEF IsOwn, IsOwnTo, Sought
<1>4. out[Root] = <<>>
  <2>1. PICK s \in Seq(DOMAIN patterns) : s = out[Root]
    BY <1>1
  <2>2. \A j \in DOMAIN s : s[j] \in ToSet(s)
    BY DEF ToSet
  <2>3. DOMAIN s = {}
    BY <1>3, <2>1, <2>2
  <2>4. s = <<>>
    BY <2>3
  <2> QED
    BY <2>1, <2>4
<1>5. \A p \in Sought : ~EndsWith(<<>>, patterns[p])
  BY ShapeFacts DEF Sought, EndsWith
<1> QED
  BY <1>1, <1>2, <1>3, <1>4, <1>5 DEF IsReport, IsOwn, IsOwnTo

\* A node's own patterns and those of its failure are all its word ends with.
LEMMA ReportOfFailure ==
    ASSUME Shapes, Trie, Inserting, pc # "insert",
           NEW n \in Nodes \ {Root}, NEW s \in Seq(DOMAIN patterns), IsOwn(n, s),
           NEW f, IsFailure(n, f), NEW t \in Seq(DOMAIN patterns), IsReport(f, t)
    PROVE  s \o t \in Seq(DOMAIN patterns) /\ IsReport(n, s \o t)
<1>1. /\ f \in Nodes /\ Depth(f) <= Depth(n) - 1 /\ EndsWith(word[n], word[f])
      /\ word[n] \in Seq(Bytes) /\ word[f] \in Seq(Bytes)
      /\ Depth(n) \in Nat /\ Depth(f) \in Nat
  BY ShapeFacts DEF IsFailure, SuffixesTo
<1>2. \A p \in Sought : patterns[p] \in Seq(Bytes) /\ Len(patterns[p]) \in Nat /\ p < pid
  BY ShapeFacts DEF Sought, Inserting
<1>3. ToSet(s) = {p \in Sought : patterns[p] = word[n]}
  BY <1>2 DEF IsOwn, IsOwnTo
<1>4. ToSet(t) = {p \in Sought : EndsWith(word[f], patterns[p])}
  BY DEF IsReport
<1>5. ToSet(s) \cap ToSet(t) = {}
  <2>1. SUFFICES ASSUME NEW p \in Sought, patterns[p] = word[n], EndsWith(word[f], patterns[p])
                 PROVE  FALSE
    BY <1>3, <1>4
  <2>2. Len(word[n]) <= Len(word[f])
    BY <2>1 DEF EndsWith
  <2> QED
    BY <1>1, <2>2 DEF Depth
<1>6. /\ s \o t \in Seq(DOMAIN patterns) /\ IsInjective(s \o t)
      /\ ToSet(s \o t) = ToSet(s) \cup ToSet(t)
  BY <1>5, InjectiveConcat DEF IsOwn, IsOwnTo, IsReport
<1>7. ASSUME NEW p \in Sought, EndsWith(word[n], patterns[p]), patterns[p] # word[n]
      PROVE  EndsWith(word[f], patterns[p])
  <2>1. PICK m \in Nodes : word[m] = patterns[p]
    BY <1>2 DEF Inserting
  <2>2. Depth(m) \in Nat /\ ~(Depth(m) >= Depth(n))
    BY <1>1, <1>2, <1>7, <2>1, EndsWithWhole DEF Depth
  <2>3. Depth(m) <= Depth(n) - 1
    BY <1>1, <2>2
  <2>4. m \in SuffixesTo(word[n], Depth(n) - 1)
    BY <1>7, <2>1, <2>3 DEF SuffixesTo
  <2>5. Depth(m) <= Depth(f)
    BY <2>4 DEF IsFailure
  <2> QED
    BY <1>1, <1>2, <1>7, <2>1, <2>5, EndsNest DEF Depth
<1>8. ASSUME NEW p \in Sought
      PROVE  EndsWith(word[n], patterns[p]) <=>
                patterns[p] = word[n] \/ EndsWith(word[f], patterns[p])
  <2>1. patterns[p] = word[n] => EndsWith(word[n], patterns[p])
    BY <1>1, EndsWithSelf
  <2>2. EndsWith(word[f], patterns[p]) => EndsWith(word[n], patterns[p])
    BY <1>1, <1>2, EndsWithTrans
  <2> QED
    BY <1>7, <2>1, <2>2
<1>9. ToSet(s \o t) = {p \in Sought : EndsWith(word[n], patterns[p])}
  BY <1>3, <1>4, <1>6, <1>8
<1> QED
  BY <1>6, <1>9 DEF IsReport
-----------------------------------------------------------------------------
\* The queue is breadth first: down to the level of its head every node is in it,
\* and in the end every node is.
LEMMA LevelsLinked ==
    ASSUME Shapes, Trie, Queueing, pc \notin {"insert", "roots"},
           NEW d \in Nat, head < Len(queue) => d <= Depth(Current),
           NEW n \in Nodes, Depth(n) <= d
    PROVE  n \in Linked
<1> DEFINE Late(k) == \E m \in Nodes : Depth(m) = k /\ m \notin Linked
           bad == {k \in 0 .. d : Late(k)}
<1>1. bad = {}
  <2>1. SUFFICES ASSUME bad # {}
                 PROVE  FALSE
    OBVIOUS
  <2>2. bad \in SUBSET Nat
    OBVIOUS
  <2>3. PICK k \in bad : \A l \in bad : k <= l
    BY <2>1, <2>2, LeastNat
  <2>4. k \in 0 .. d /\ Late(k)
    OBVIOUS
  <2>5. PICK m \in Nodes : Depth(m) = k /\ m \notin Linked
    BY <2>4
  <2>6. m # Root
    BY <2>5 DEF Linked
  <2>7. PICK p \in Nodes, b \in Bytes : next[p][b] = m
    BY <2>6 DEF Trie
  <2>8. m # Absent
    BY <2>5 DEF Shapes, Absent
  <2>9. word[m] = Append(word[p], b) /\ word[p] \in Seq(Bytes) /\ Depth(p) \in Nat
    BY <2>7, <2>8, ShapeFacts DEF Trie
  <2>10. Depth(m) = Depth(p) + 1
    BY <2>9 DEF Depth
  <2>11. Depth(p) \in 0 .. d /\ ~(k <= Depth(p))
    BY <2>4, <2>5, <2>9, <2>10
  <2>12. p \in Linked
    <3>1. ~Late(Depth(p))
      BY <2>3, <2>11
    <3> QED
      BY <3>1
  <2>13. Visited(p, b)
    <3>1. CASE p = Root
      BY <3>1 DEF Visited
    <3>2. CASE p # Root
      <4>1. PICK j \in 1 .. Len(queue) : p = queue[j]
        BY <2>12, <3>2, QueueFacts DEF Linked
      <4>2. j <= head
        <5>1. SUFFICES ASSUME head < j
                       PROVE  FALSE
          BY QueueFacts
        <5>2. head < Len(queue) /\ head + 1 <= j /\ head + 1 \in 1 .. Len(queue)
          BY <5>1, QueueFacts
        <5>3. Depth(Current) <= Depth(p) /\ Current \in Nodes
          BY <4>1, <5>2, QueueFacts DEF Queueing, Current
        <5>4. Depth(Current) \in Nat
          BY <5>3, ShapeFacts
        <5> QED
          BY <2>4, <2>5, <2>9, <2>10, <5>2, <5>3, <5>4
      <4>3. j \in 1 .. head
        BY <4>2, QueueFacts
      <4> QED
        BY <4>1, <4>3 DEF Visited
    <3> QED
      BY <3>1, <3>2
  <2>14. m \in ToSet(queue)
    BY <2>7, <2>8, <2>13 DEF Queueing
  <2> QED
    BY <2>5, <2>14 DEF Linked
<1>2. Depth(n) \in 0 .. d
  BY ShapeFacts
<1>3. ~Late(Depth(n))
  BY <1>1, <1>2
<1> QED
  BY <1>3

-----------------------------------------------------------------------------
\* The invariant holds at first, and every action keeps it.

\* A table of the root alone.
LEMMA InitHolds == Init => AutomatonInv
<1> SUFFICES ASSUME Init
             PROVE  AutomatonInv
  OBVIOUS
<1>1. /\ Nodes = {Root} /\ numNodes = 1
      /\ next \in [Nodes -> [Bytes -> {Absent} \cup 1 .. numNodes - 1]]
      /\ fail \in [Nodes -> Nodes] /\ word \in [Nodes -> Seq(Bytes)]
      /\ \A b \in Bytes : next[Root][b] = Absent
      /\ word[Root] = <<>> /\ out[Root] = <<>>
  <2>1. Nodes = {Root}
    BY DEF Init, Nodes
  <2>2. numNodes = 1
    BY <2>1, FS_Singleton DEF numNodes
  <2>3. next \in [Nodes -> [Bytes -> {Absent} \cup 1 .. numNodes - 1]]
    BY <2>1 DEF Init, NoEdges
  <2>4. <<>> \in Seq(Bytes)
    OBVIOUS
  <2> QED
    BY <2>1, <2>2, <2>3, <2>4 DEF Init, NoEdges
<1>2. patterns \in Seq(Seq(Bytes)) /\ Len(patterns) \in Nat /\ patterns \in PatternLists
  BY AhoCorasickAssumption DEF Init, Bytes
<1>3. /\ queue = <<>> /\ head = 0 /\ byte = 1 /\ text = <<>> /\ i = 0 /\ reported = {} /\ ~stopped
      /\ pc = "insert" /\ pid = 1 /\ pos = 0 /\ state = Root /\ probe = Root
  BY DEF Init
<1>4. Shapes
  <2>1. out \in [Nodes -> Seq(DOMAIN patterns)]
    <3>1. <<>> \in Seq(DOMAIN patterns)
      OBVIOUS
    <3> QED
      BY <1>1, <3>1 DEF Init
  <2>2. Nodes = 0 .. numNodes - 1 /\ numNodes \in Nat \ {0}
    BY <1>1 DEF Root
  <2>3. queue \in Seq(Nodes \ {Root}) /\ head \in 0 .. Len(queue)
    BY <1>3
  <2>4. text \in Seq(Bytes) /\ i \in 0 .. Len(text)
    BY <1>3
  <2>5. byte \in 1 .. NumBytes + 1 /\ pid \in 1 .. Len(patterns) + 1 /\ pos \in Nat
    BY <1>2, <1>3, AhoCorasickAssumption
  <2>6. state \in Nodes /\ probe \in Nodes
    BY <1>1, <1>3
  <2> QED
    BY <1>1, <1>2, <1>3, <2>1, <2>2, <2>3, <2>4, <2>5, <2>6 DEF Shapes, Phases
<1>5. Trie
  BY <1>1 DEF Trie
<1>6. Inserting
  <2>1. pid <= Len(patterns) => pos <= Len(patterns[pid])
    <3>1. SUFFICES ASSUME 1 <= Len(patterns)
                   PROVE  0 <= Len(patterns[1])
      BY <1>3
    <3> QED
      BY <1>2, <3>1
  <2>2. pid <= Len(patterns) => word[state] = SubSeq(patterns[pid], 1, pos)
    BY <1>1, <1>2, <1>3
  <2>3. \A p \in Sought : ~(p < pid)
    BY <1>2, <1>3 DEF Sought
  <2> QED
    BY <1>3, <2>1, <2>2, <2>3 DEF Inserting
<1>7. ToSet(queue) = {} /\ DOMAIN queue = {} /\ Len(queue) = 0
  BY <1>3 DEF ToSet
<1>8. Queueing
  BY <1>3, <1>7 DEF Queueing
<1>9. Linking
  <2>1. ToSet(<<>>) = {} /\ IsInjective(<<>>)
    BY DEF ToSet, IsInjective
  <2>2. \A p \in Sought : ~(p < pid)
    BY <1>2, <1>3 DEF Sought
  <2>3. IsOwn(Root, <<>>)
    BY <2>1, <2>2 DEF IsOwn, IsOwnTo
  <2> QED
    BY <1>1, <1>7, <2>3 DEF Linking
<1>10. Chasing
  BY <1>3 DEF Chasing
<1>11. Scanning
  BY <1>3 DEF Scanning, Occurrences
<1> QED
  BY <1>4, <1>5, <1>6, <1>8, <1>9, <1>10, <1>11 DEF AutomatonInv

\* After the insertion the words are fixed, and with them what the links and the
\* reports must be.
LEMMA WordsFixed ==
    ASSUME UNCHANGED <<patterns, next, word>>
    PROVE  /\ Nodes' = Nodes /\ numNodes' = numNodes /\ Sought' = Sought
           /\ \A n : Depth(n)' = Depth(n)
           /\ \A w, k : SuffixesTo(w, k)' = SuffixesTo(w, k)
           /\ \A n, f : IsFailure(n, f)' = IsFailure(n, f)
           /\ \A n, s : IsReport(n, s)' = IsReport(n, s)
           /\ \A w, k, b, n : Reaches(w, k, b, n)' = Reaches(w, k, b, n)
           /\ Trie' = Trie
<1>1. Nodes' = Nodes /\ numNodes' = numNodes /\ Sought' = Sought
  BY DEF Nodes, numNodes, Sought
<1>2. \A n : Depth(n)' = Depth(n)
  BY DEF Depth
<1>3. ASSUME NEW w, NEW k
      PROVE  SuffixesTo(w, k)' = SuffixesTo(w, k)
  BY <1>1, <1>2 DEF SuffixesTo
<1>4. ASSUME NEW n, NEW f
      PROVE  IsFailure(n, f)' = IsFailure(n, f)
  <2>1. SuffixesTo(word[n], Depth(n) - 1)' = SuffixesTo(word[n], Depth(n) - 1)
    BY <1>1, <1>2 DEF SuffixesTo
  <2> QED
    BY <1>2, <2>1 DEF IsFailure
<1>5. ASSUME NEW n, NEW s
      PROVE  IsReport(n, s)' = IsReport(n, s)
  BY <1>1 DEF IsReport
<1>6. ASSUME NEW w, NEW k, NEW b, NEW n
      PROVE  Reaches(w, k, b, n)' = Reaches(w, k, b, n)
  BY <1>2, <1>3 DEF Reaches
<1>7. Trie' = Trie
  BY <1>1 DEF Trie
<1> QED
  BY <1>1, <1>2, <1>3, <1>4, <1>5, <1>6, <1>7

\* No link changes, and no pattern ends.
LEMMA LinkingKept ==
    ASSUME Linking, UNCHANGED <<patterns, next, fail, out, word, pid, queue>>
    PROVE  Linking'
<1>1. \A n, s : IsOwn(n, s)' = IsOwn(n, s)
  BY WordsFixed DEF IsOwn, IsOwnTo
<1> QED
  BY <1>1, WordsFixed DEF Linking

\* After the insertion its words stay.
LEMMA InsertingKept ==
    ASSUME Inserting, pc # "insert", pc' # "insert", UNCHANGED <<patterns, next, word, pid>>
    PROVE  Inserting'
  BY WordsFixed DEF Inserting

\* Outside a scan what it has reported stays.
LEMMA ScanningKept ==
    ASSUME Scanning, pc # "scan", pc' # "scan",
           UNCHANGED <<patterns, next, word, text, i, reported, stopped>>
    PROVE  Scanning'
<1>1. Occurrences(i)' = Occurrences(i)
  BY WordsFixed DEF Occurrences
<1> QED
  BY <1>1 DEF Scanning

\* Nothing is visited yet.
LEMMA StartFailuresStep ==
    ASSUME AutomatonInv, StartFailures
    PROVE  AutomatonInv'
<1>1. /\ Shapes /\ Trie /\ Inserting /\ Queueing /\ Linking /\ Scanning
      /\ pc = "insert" /\ pc' = "roots" /\ pid > Len(patterns)
      /\ UNCHANGED <<patterns, next, fail, out, pid, pos, state, queue, head, byte, probe>>
      /\ UNCHANGED <<text, i, reported, stopped, word>>
  BY DEF AutomatonInv, StartFailures, nodes, insertion, building, scanning
<1>2. queue = <<>> /\ head = 0 /\ byte = 1
  BY <1>1 DEF Inserting
<1>3. Shapes'
  BY <1>1, WordsFixed DEF Shapes, Phases
<1>4. Trie'
  BY <1>1, WordsFixed
<1>5. Inserting'
  <2>1. pid = Len(patterns) + 1
    <3>1. pid \in 1 .. Len(patterns) + 1
      BY <1>1 DEF Shapes
    <3> QED
      BY <1>1, <3>1, ShapeFacts
  <2> QED
    BY <1>1, <2>1, WordsFixed DEF Inserting
<1>6. Queueing'
  <2>1. ToSet(queue) = {} /\ DOMAIN queue = {} /\ Len(queue) = 0
    BY <1>2 DEF ToSet
  <2>2. ASSUME NEW n, NEW b \in Bytes
        PROVE  ~Visited(n, b)'
    BY <1>1, <1>2 DEF Visited, Bytes
  <2> QED
    BY <1>1, <1>2, <2>1, <2>2, WordsFixed DEF Queueing
<1>7. Linking'
  BY <1>1, LinkingKept
<1>8. Chasing'
  BY <1>1 DEF Chasing
<1>9. Scanning'
  BY <1>1, ScanningKept
<1> QED
  BY <1>3, <1>4, <1>5, <1>6, <1>7, <1>8, <1>9 DEF AutomatonInv

\* What the phases after the insertion may change.
LEMMA ShapesKept ==
    ASSUME Shapes, UNCHANGED <<patterns, next, word, pid, pos>>,
           fail' \in [Nodes -> Nodes], out' \in [Nodes -> Seq(DOMAIN patterns)],
           pc' \in Phases,
           state' \in Nodes, probe' \in Nodes,
           queue' \in Seq(Nodes \ {Root}), head' \in 0 .. Len(queue'),
           byte' \in 1 .. NumBytes + 1, text' \in Seq(Bytes), i' \in 0 .. Len(text')
    PROVE  Shapes'
<1>1. Nodes' = Nodes /\ numNodes' = numNodes
  BY WordsFixed
<1>2. /\ patterns \in PatternLists
      /\ numNodes \in Nat \ {0} /\ Nodes = 0 .. numNodes - 1
      /\ next \in [Nodes -> [Bytes -> {Absent} \cup 1 .. numNodes - 1]]
      /\ word \in [Nodes -> Seq(Bytes)]
      /\ pid \in 1 .. Len(patterns) + 1 /\ pos \in Nat
  BY Zenon DEF Shapes
<1>3. /\ patterns' \in PatternLists
      /\ numNodes' \in Nat \ {0} /\ Nodes' = 0 .. numNodes' - 1
      /\ next' \in [Nodes' -> [Bytes -> {Absent} \cup 1 .. numNodes' - 1]]
      /\ word' \in [Nodes' -> Seq(Bytes)]
      /\ pid' \in 1 .. Len(patterns') + 1 /\ pos' \in Nat
  BY <1>1, <1>2, Zenon
<1>4. /\ fail' \in [Nodes' -> Nodes'] /\ out' \in [Nodes' -> Seq(DOMAIN patterns')]
      /\ state' \in Nodes' /\ probe' \in Nodes' /\ queue' \in Seq(Nodes' \ {Root})
  BY <1>1, Zenon
<1> QED
  BY <1>3, <1>4, Zenon DEF Shapes

\* The root is done, its children are queued, and the first is the current node.
LEMMA RootEndStep ==
    ASSUME AutomatonInv, RootEnd
    PROVE  AutomatonInv'
<1>1. /\ Shapes /\ Trie /\ Inserting /\ Queueing /\ Linking /\ Scanning
      /\ pc = "roots" /\ pc' = "fail" /\ byte > NumBytes /\ byte' = 1
      /\ UNCHANGED <<patterns, next, fail, out, pid, pos, state, queue, head, probe>>
      /\ UNCHANGED <<text, i, reported, stopped, word>>
  BY DEF AutomatonInv, RootEnd, nodes, insertion, scanning
<1>2. head = 0 /\ NumBytes \in Nat
  BY <1>1, QueueFacts DEF Queueing
<1>3. Shapes'
  <2>1. pc' \in Phases /\ byte' \in 1 .. NumBytes + 1
    BY <1>1, <1>2 DEF Phases
  <2> QED
    BY <1>1, <2>1, ShapesKept, Zenon DEF Shapes
<1>4. Trie'
  BY <1>1, WordsFixed
<1>5. Inserting'
  BY <1>1, InsertingKept
<1>6. Queueing'
  <2>1. ASSUME NEW n, NEW b \in Bytes
        PROVE  Visited(n, b)' <=> Visited(n, b)
    <3>1. b < byte /\ ~(b < byte') /\ b \in Nat
      BY <1>1, <1>2, QueueFacts DEF Bytes
    <3> QED
      BY <1>1, <1>2, <3>1 DEF Visited
  <2> QED
    BY <1>1, <1>2, <2>1, WordsFixed DEF Queueing, Current
<1>7. Linking'
  BY <1>1, LinkingKept
<1>8. Chasing'
  BY <1>1 DEF Chasing
<1>9. Scanning'
  BY <1>1, ScanningKept
<1> QED
  BY <1>3, <1>4, <1>5, <1>6, <1>7, <1>8, <1>9 DEF AutomatonInv

\* There is no edge to visit.
LEMMA SkipByteStep ==
    ASSUME AutomatonInv, SkipByte
    PROVE  AutomatonInv'
<1>1. /\ Shapes /\ Trie /\ Inserting /\ Queueing /\ Linking /\ Scanning
      /\ pc = "fail" /\ pc' = "fail" /\ head < Len(queue) /\ byte <= NumBytes
      /\ next[Current][byte] = Absent /\ byte' = byte + 1
      /\ UNCHANGED <<patterns, next, fail, out, pid, pos, state, queue, head, probe>>
      /\ UNCHANGED <<text, i, reported, stopped, word>>
  BY DEF AutomatonInv, SkipByte, nodes, insertion, scanning
<1>2. byte \in Nat \ {0} /\ NumBytes \in Nat
  BY <1>1, QueueFacts
<1>3. Shapes'
  <2>1. pc' \in Phases /\ byte' \in 1 .. NumBytes + 1
    BY <1>1, <1>2 DEF Phases
  <2> QED
    BY <1>1, <2>1, ShapesKept, Zenon DEF Shapes
<1>4. Trie'
  BY <1>1, WordsFixed
<1>5. Inserting'
  BY <1>1, InsertingKept
<1>6. Queueing'
  <2>1. ASSUME NEW n, NEW b \in Bytes, next[n][b] # Absent
        PROVE  Visited(n, b)' <=> Visited(n, b)
    <3>1. b < byte' <=> b < byte \/ b = byte
      BY <1>1, <1>2 DEF Bytes
    <3> QED
      BY <1>1, <2>1, <3>1 DEF Visited, Current
  <2> QED
    BY <1>1, <1>2, <2>1, WordsFixed DEF Queueing, Current
<1>7. Linking'
  BY <1>1, LinkingKept
<1>8. Chasing'
  BY <1>1 DEF Chasing
<1>9. Scanning'
  BY <1>1, ScanningKept
<1> QED
  BY <1>3, <1>4, <1>5, <1>6, <1>7, <1>8, <1>9 DEF AutomatonInv

\* All edges of the current node are visited.
LEMMA EndNodeStep ==
    ASSUME AutomatonInv, EndNode
    PROVE  AutomatonInv'
<1>1. /\ Shapes /\ Trie /\ Inserting /\ Queueing /\ Linking /\ Scanning
      /\ pc = "fail" /\ pc' = "fail" /\ head < Len(queue) /\ byte > NumBytes
      /\ byte' = 1 /\ head' = head + 1
      /\ UNCHANGED <<patterns, next, fail, out, pid, pos, state, queue, probe>>
      /\ UNCHANGED <<text, i, reported, stopped, word>>
  BY DEF AutomatonInv, EndNode, nodes, insertion, scanning
<1>2. /\ byte \in Nat \ {0} /\ NumBytes \in Nat /\ head \in Nat /\ Len(queue) \in Nat
      /\ DOMAIN queue = 1 .. Len(queue) /\ head + 1 \in 1 .. Len(queue)
  BY <1>1, QueueFacts
<1>3. Shapes'
  <2>1. /\ pc' \in Phases
        /\ byte' \in 1 .. NumBytes + 1 /\ head' \in 0 .. Len(queue')
    BY <1>1, <1>2 DEF Phases
  <2> QED
    BY <1>1, <2>1, ShapesKept, Zenon DEF Shapes
<1>4. Trie'
  BY <1>1, WordsFixed
<1>5. Inserting'
  BY <1>1, InsertingKept
<1>6. Queueing'
  <2>1. ASSUME NEW n, NEW b \in Bytes
        PROVE  Visited(n, b)' <=> Visited(n, b)
    <3>1. b < byte /\ ~(b < byte')
      BY <1>1, <1>2 DEF Bytes
    <3>2. \A k : k \in 1 .. head' <=> k \in 1 .. head \/ k = head + 1
      BY <1>1, <1>2
    <3> QED
      BY <1>1, <3>1, <3>2 DEF Visited, Current
  <2>2. head' < Len(queue) =>
           \A j \in DOMAIN queue : Depth(queue[j]) <= Depth(queue[head' + 1]) + 1
    <3>1. SUFFICES ASSUME head' < Len(queue), NEW j \in DOMAIN queue
                   PROVE  Depth(queue[j]) <= Depth(queue[head' + 1]) + 1
      OBVIOUS
    <3>2. head' + 1 \in DOMAIN queue /\ head + 1 \in DOMAIN queue /\ head + 1 <= head' + 1
      BY <1>1, <1>2, <3>1
    <3>3. /\ Depth(queue[j]) <= Depth(queue[head + 1]) + 1
          /\ Depth(queue[head + 1]) <= Depth(queue[head' + 1])
      BY <1>1, <3>2 DEF Queueing, Current
    <3>4. /\ Depth(queue[j]) \in Nat /\ Depth(queue[head + 1]) \in Nat
          /\ Depth(queue[head' + 1]) \in Nat
      BY <1>1, <1>2, <3>2, QueueFacts, ShapeFacts
    <3> QED
      BY <3>3, <3>4
  <2> QED
    BY <1>1, <1>2, <2>1, <2>2, WordsFixed DEF Queueing, Current
<1>7. Linking'
  BY <1>1, LinkingKept
<1>8. Chasing'
  BY <1>1 DEF Chasing
<1>9. Scanning'
  BY <1>1, ScanningKept
<1> QED
  BY <1>3, <1>4, <1>5, <1>6, <1>7, <1>8, <1>9 DEF AutomatonInv

\* The queue when only the phase changes.
LEMMA QueueingKept ==
    ASSUME Shapes, Queueing, pc \notin {"insert", "roots"}, pc' \notin {"insert", "roots"},
           pc' \in {"ready", "scan"} => head = Len(queue),
           {pc, pc'} \subseteq {"fail", "chase"} \/ head = Len(queue),
           UNCHANGED <<patterns, next, word, queue, head, byte>>
    PROVE  Queueing'
<1>1. ASSUME NEW n, NEW b
      PROVE  Visited(n, b)' <=> Visited(n, b)
  <2>1. head = Len(queue) => ~(head < Len(queue))
    BY QueueFacts
  <2> QED
    BY <2>1 DEF Visited, Current
<1> QED
  BY <1>1, WordsFixed DEF Queueing, Current

\* The search for a failure starts from the node's own.
LEMMA StartChaseStep ==
    ASSUME AutomatonInv, StartChase
    PROVE  AutomatonInv'
<1>1. /\ Shapes /\ Trie /\ Inserting /\ Queueing /\ Linking /\ Scanning
      /\ pc = "fail" /\ pc' = "chase" /\ head < Len(queue) /\ byte <= NumBytes
      /\ next[Current][byte] # Absent /\ probe' = fail[Current]
      /\ UNCHANGED <<patterns, next, fail, out, pid, pos, state, queue, head, byte>>
      /\ UNCHANGED <<text, i, reported, stopped, word>>
  BY DEF AutomatonInv, StartChase, nodes, insertion, scanning
<1>2. /\ Current \in Nodes \ {Root} /\ Current \in ToSet(queue) /\ byte \in Bytes
      /\ Current' = Current
  BY <1>1, QueueFacts DEF Current, Bytes
<1>3. Shapes'
  <2>1. pc' \in Phases /\ probe' \in Nodes
    BY <1>1, <1>2 DEF Phases, Shapes
  <2> QED
    BY <1>1, <2>1, ShapesKept, Zenon DEF Shapes
<1>4. Trie'
  BY <1>1, WordsFixed
<1>5. Inserting'
  BY <1>1, InsertingKept
<1>6. Queueing'
  BY <1>1, QueueingKept
<1>7. Linking'
  BY <1>1, LinkingKept
<1>8. Chasing'
  <2>1. IsFailure(Current, fail[Current])
    BY <1>1, <1>2 DEF Linking
  <2>2. Reaches(word[Current], Depth(Current) - 1, byte, probe')
    BY <1>1, <2>1 DEF IsFailure, Reaches
  <2> QED
    BY <1>1, <1>2, <2>2, WordsFixed, Zenon DEF Chasing
<1>9. Scanning'
  BY <1>1, ScanningKept
<1> QED
  BY <1>3, <1>4, <1>5, <1>6, <1>7, <1>8, <1>9 DEF AutomatonInv

\* A node without the edge is above the current one: its failure is known.
LEMMA FollowFailureStep ==
    ASSUME AutomatonInv, FollowFailure
    PROVE  AutomatonInv'
<1>1. /\ Shapes /\ Trie /\ Inserting /\ Queueing /\ Linking /\ Chasing /\ Scanning
      /\ pc = "chase" /\ pc' = "chase" /\ Stuck(probe, byte) /\ probe' = fail[probe]
      /\ UNCHANGED <<patterns, next, fail, out, pid, pos, state, queue, head, byte>>
      /\ UNCHANGED <<text, i, reported, stopped, word>>
  BY DEF AutomatonInv, FollowFailure, nodes, insertion, scanning
<1>2. /\ head < Len(queue) /\ byte \in Bytes /\ next[Current][byte] # Absent
      /\ Reaches(word[Current], Depth(Current) - 1, byte, probe)
      /\ Current' = Current
  BY <1>1 DEF Chasing, Current
<1>3. /\ Current \in Nodes /\ word[Current] \in Seq(Bytes) /\ Depth(Current) \in Nat
      /\ probe \in Nodes /\ Depth(probe) <= Depth(Current) - 1 /\ Depth(probe) \in Nat
  BY <1>1, <1>2, QueueFacts, ShapeFacts DEF Reaches, SuffixesTo
<1>4. probe \in ToSet(queue)
  <2>1. Depth(probe) <= Depth(Current)
    BY <1>3
  <2>2. Depth(Current) <= Depth(Current)
    BY <1>3
  <2>3. probe \in Linked
    BY <1>1, <1>3, <2>1, <2>2, LevelsLinked
  <2> QED
    BY <1>1, <2>3 DEF Linked, Stuck
<1>5. Shapes'
  <2>1. pc' \in Phases /\ probe' \in Nodes
    BY <1>1, <1>3 DEF Phases, Shapes
  <2> QED
    BY <1>1, <2>1, ShapesKept, Zenon DEF Shapes
<1>6. Trie'
  BY <1>1, WordsFixed
<1>7. Inserting'
  BY <1>1, InsertingKept
<1>8. Queueing'
  BY <1>1, QueueingKept
<1>9. Linking'
  BY <1>1, LinkingKept
<1>10. Chasing'
  <2>1. IsFailure(probe, fail[probe])
    BY <1>1, <1>4 DEF Linking
  <2>2. Depth(Current) - 1 \in Int /\ next[probe][byte] = Absent
    BY <1>1, <1>3 DEF Stuck
  <2>3. Reaches(word[Current], Depth(Current) - 1, byte, fail[probe])
    BY <1>1, <1>2, <1>3, <2>1, <2>2, FollowReaches
  <2> QED
    BY <1>1, <1>2, <2>3, WordsFixed, Zenon DEF Chasing
<1>11. Scanning'
  BY <1>1, ScanningKept
<1> QED
  BY <1>5, <1>6, <1>7, <1>8, <1>9, <1>10, <1>11 DEF AutomatonInv

\* Two words with a byte appended are equal when the words and the bytes are.
LEMMA AppendInjective ==
    ASSUME NEW S, NEW v \in Seq(S), NEW w \in Seq(S), NEW a \in S, NEW b \in S,
           Append(v, a) = Append(w, b)
    PROVE  v = w /\ a = b
<1>1. /\ Append(v, a) \in Seq(S) /\ Append(w, b) \in Seq(S)
      /\ Len(Append(v, a)) = Len(v) + 1 /\ Len(Append(w, b)) = Len(w) + 1
  OBVIOUS
<1>2. EndsWith(Append(v, a), Append(w, b))
  BY <1>1, EndsWithSelf
<1>3. a = b /\ EndsWith(v, w)
  BY <1>2, EndsWithAppend
<1>4. Len(v) \in Nat /\ Len(w) \in Nat /\ Len(v) + 1 = Len(w) + 1
  BY <1>1
<1> QED
  BY <1>3, <1>4, EndsWithWhole

\* A node has one parent and one byte that leads to it.
LEMMA UniqueParent ==
    ASSUME Shapes, Trie, NEW m \in Nodes, NEW a \in Bytes, NEW n \in Nodes, NEW b \in Bytes,
           next[m][a] # Absent, next[m][a] = next[n][b]
    PROVE  m = n /\ a = b
<1>1. /\ word[next[m][a]] = Append(word[m], a) /\ word[next[n][b]] = Append(word[n], b)
      /\ word[m] \in Seq(Bytes) /\ word[n] \in Seq(Bytes)
  BY ShapeFacts DEF Trie
<1>2. word[m] = word[n] /\ a = b
  <2>1. PICK v, w : v = word[m] /\ w = word[n]
    OBVIOUS
  <2>2. v \in Seq(Bytes) /\ w \in Seq(Bytes) /\ Append(v, a) = Append(w, b)
    BY <1>1, <2>1
  <2>3. v = w /\ a = b
    BY <2>2, AppendInjective
  <2> QED
    BY <2>1, <2>3
<1> QED
  BY <1>2 DEF Trie

\* A sequence with an element appended.
LEMMA AppendFacts ==
    ASSUME NEW S, NEW s \in Seq(S), NEW c \in S
    PROVE  /\ Append(s, c) \in Seq(S) /\ Len(Append(s, c)) = Len(s) + 1 /\ Len(s) \in Nat
           /\ DOMAIN Append(s, c) = 1 .. Len(s) + 1 /\ DOMAIN s = 1 .. Len(s)
           /\ \A j \in 1 .. Len(s) : Append(s, c)[j] = s[j]
           /\ Append(s, c)[Len(s) + 1] = c
           /\ ToSet(Append(s, c)) = ToSet(s) \cup {c}
<1> DEFINE t == Append(s, c)
           n == Len(s)
<1>1. /\ t \in Seq(S) /\ Len(t) = n + 1 /\ n \in Nat
      /\ DOMAIN t = 1 .. n + 1 /\ DOMAIN s = 1 .. n
      /\ \A j \in 1 .. n : t[j] = s[j]
      /\ t[n + 1] = c
  OBVIOUS
<1> HIDE DEF t, n
<1>2. \A j : j \in 1 .. n + 1 <=> j \in 1 .. n \/ j = n + 1
  BY <1>1
<1>3. ToSet(t) = ToSet(s) \cup {c}
  BY <1>1, <1>2, Zenon DEF ToSet
<1> QED
  BY <1>1, <1>3 DEF t, n

\* The queue with a node appended that is new and no shallower than the others.
LEMMA QueueGrows ==
    ASSUME Shapes, Queueing, NEW c \in Nodes \ {Root}, c \notin ToSet(queue),
           \A j \in DOMAIN queue : Depth(queue[j]) <= Depth(c)
    PROVE  LET q == Append(queue, c)
           IN  /\ \A j, k \in DOMAIN q : q[j] = q[k] => j = k
               /\ \A j, k \in DOMAIN q : j <= k => Depth(q[j]) <= Depth(q[k])
<1> DEFINE q == Append(queue, c)
           n == Len(queue)
<1>1. /\ n \in Nat /\ DOMAIN q = 1 .. n + 1 /\ DOMAIN queue = 1 .. n
      /\ \A j \in 1 .. n : q[j] = queue[j]
      /\ q[n + 1] = c
  BY QueueFacts, AppendFacts
<1>2. \A j \in 1 .. n : queue[j] # c
  BY QueueFacts
<1> HIDE DEF q, n
<1>3. \A j \in 1 .. n + 1 : j \in 1 .. n \/ j = n + 1
  BY <1>1
<1>4. ASSUME NEW j \in DOMAIN q, NEW k \in DOMAIN q, q[j] = q[k]
      PROVE  j = k
  BY <1>1, <1>2, <1>3, <1>4 DEF Queueing
<1>5. ASSUME NEW j \in DOMAIN q, NEW k \in DOMAIN q, j <= k
      PROVE  Depth(q[j]) <= Depth(q[k])
  <2>1. CASE k = n + 1 /\ j = n + 1
    <3>1. Depth(c) \in Nat
      BY ShapeFacts
    <3> QED
      BY <1>1, <2>1, <3>1
  <2>2. CASE k = n + 1 /\ j \in 1 .. n
    BY <1>1, <2>2
  <2>3. CASE k \in 1 .. n
    <3>1. j \in 1 .. n
      BY <1>1, <1>5, <2>3
    <3> QED
      BY <1>1, <1>5, <2>3, <3>1 DEF Queueing
  <2> QED
    BY <1>1, <1>3, <2>1, <2>2, <2>3
<1> QED
  BY <1>4, <1>5 DEF q

\* A linked node joins the queue.
LEMMA LinkingGrows ==
    ASSUME Shapes, Linking, UNCHANGED <<patterns, next, word, pid>>,
           NEW c \in Nodes, ToSet(queue') = ToSet(queue) \cup {c},
           IsFailure(c, fail'[c]), IsReport(c, out'[c]),
           \A n \in Nodes : n # c => fail'[n] = fail[n] /\ out'[n] = out[n]
    PROVE  Linking'
<1>1. /\ \A n, s : IsOwn(n, s)' = IsOwn(n, s)
      /\ \A n, f : IsFailure(n, f)' = IsFailure(n, f)
      /\ \A n, s : IsReport(n, s)' = IsReport(n, s)
      /\ Nodes' = Nodes
  BY WordsFixed DEF IsOwn, IsOwnTo
<1>2. ToSet(queue) \subseteq Nodes
  BY QueueFacts
<1>3. ASSUME NEW n \in ToSet(queue')
      PROVE  IsFailure(n, fail'[n]) /\ IsReport(n, out'[n])
  <2>1. CASE n = c
    BY <2>1
  <2>2. CASE n # c
    <3>1. n \in ToSet(queue) /\ n \in Nodes
      BY <1>2, <2>2
    <3> QED
      BY <2>2, <3>1 DEF Linking
  <2> QED
    BY <2>1, <2>2
<1>4. ASSUME NEW n \in Nodes \ ToSet(queue')
      PROVE  IsOwn(n, out'[n])
  BY DEF Linking
<1> QED
  BY <1>1, <1>3, <1>4, Zenon DEF Linking

\* The root's edges are visited one by one.
LEMMA RootByteStep ==
    ASSUME AutomatonInv, RootByte
    PROVE  AutomatonInv'
<1> DEFINE c == next[Root][byte]
<1>1. /\ Shapes /\ Trie /\ Inserting /\ Queueing /\ Linking /\ Scanning
      /\ pc = "roots" /\ pc' = "roots" /\ byte <= NumBytes /\ byte' = byte + 1
      /\ c = Absent => UNCHANGED <<fail, queue>>
      /\ c # Absent => fail' = [fail EXCEPT ![c] = Root] /\ queue' = Append(queue, c)
      /\ UNCHANGED <<patterns, next, out, pid, pos, state, head, probe>>
      /\ UNCHANGED <<text, i, reported, stopped, word>>
  BY DEF AutomatonInv, RootByte, insertion, scanning
<1>2. /\ byte \in Nat \ {0} /\ NumBytes \in Nat /\ byte \in Bytes /\ head = 0
      /\ Root \in Nodes /\ word[Root] = <<>> /\ fail \in [Nodes -> Nodes]
      /\ queue \in Seq(Nodes \ {Root}) /\ DOMAIN queue = 1 .. Len(queue) /\ Len(queue) \in Nat
  <2>1. /\ byte \in Nat \ {0} /\ NumBytes \in Nat
        /\ queue \in Seq(Nodes \ {Root}) /\ DOMAIN queue = 1 .. Len(queue) /\ Len(queue) \in Nat
    BY <1>1, QueueFacts
  <2>2. Root \in Nodes /\ word[Root] = <<>> /\ fail \in [Nodes -> Nodes]
    BY <1>1, ShapeFacts DEF Trie, Shapes
  <2>3. head = 0 /\ byte \in Bytes
    BY <1>1, <2>1 DEF Queueing, Bytes
  <2> QED
    BY <2>1, <2>2, <2>3
<1>3. ASSUME NEW n, NEW b \in Bytes
      PROVE  /\ Visited(n, b) <=> n = Root /\ b < byte
             /\ Visited(n, b)' <=> n = Root /\ (b < byte \/ b = byte)
  <2>1. b < byte' <=> b < byte \/ b = byte
    BY <1>1, <1>2 DEF Bytes
  <2> QED
    BY <1>1, <1>2, <2>1 DEF Visited
<1>4. ASSUME NEW b \in Bytes, next[Root][b] # Absent
      PROVE  Depth(next[Root][b]) = 1
  <2>1. word[next[Root][b]] = Append(<<>>, b)
    BY <1>1, <1>2, <1>4 DEF Trie
  <2>2. Len(Append(<<>>, b)) = 1
    OBVIOUS
  <2> QED
    BY <2>1, <2>2 DEF Depth
<1>5. ASSUME NEW n \in ToSet(queue)
      PROVE  Depth(n) = 1
  <2>1. n \in Nodes \ {Root} /\ n # Absent
    BY <1>1, QueueFacts, ShapeFacts
  <2>2. PICK p \in Nodes, b \in Bytes : next[p][b] = n
    BY <1>1, <2>1 DEF Trie
  <2>3. p = Root
    BY <1>1, <1>3, <2>1, <2>2 DEF Queueing
  <2> QED
    BY <1>4, <2>1, <2>2, <2>3
<1>6. Trie'
  BY <1>1, WordsFixed
<1>7. Inserting'
  BY <1>1, InsertingKept
<1>8. Chasing'
  BY <1>1 DEF Chasing
<1>9. Scanning'
  BY <1>1, ScanningKept
<1>10. CASE c = Absent
  <2>1. Shapes'
    <3>1. pc' \in Phases /\ byte' \in 1 .. NumBytes + 1
      BY <1>1, <1>2 DEF Phases
    <3> QED
      BY <1>1, <1>10, <3>1, ShapesKept, Zenon DEF Shapes
  <2>2. Queueing'
    <3>1. \A n \in Nodes, b \in Bytes : next[n][b] # Absent => (Visited(n, b)' <=> Visited(n, b))
      BY <1>3, <1>10
    <3> QED
      BY <1>1, <1>10, <3>1, WordsFixed DEF Queueing, Current
  <2>3. Linking'
    BY <1>1, <1>10, LinkingKept
  <2> QED
    BY <1>6, <1>7, <1>8, <1>9, <2>1, <2>2, <2>3 DEF AutomatonInv
<1>11. CASE c # Absent
  <2>1. c \in Nodes \ {Root} /\ queue' = Append(queue, c) /\ Depth(c) = 1
    BY <1>1, <1>2, <1>4, <1>11, ShapeFacts
  <2>2. c \notin ToSet(queue)
    <3>1. ~Visited(Root, byte)
      BY <1>2, <1>3
    <3> QED
      BY <1>1, <1>2, <1>11, <3>1 DEF Queueing
  <2> HIDE DEF c
  <2>3. /\ queue' \in Seq(Nodes \ {Root}) /\ Len(queue') = Len(queue) + 1
        /\ ToSet(queue') = ToSet(queue) \cup {c} /\ DOMAIN queue' = 1 .. Len(queue) + 1
        /\ \A j \in 1 .. Len(queue) + 1 : queue'[j] \in ToSet(queue')
    <3>1. queue' \in Seq(Nodes \ {Root}) => \A j \in DOMAIN queue' : queue'[j] \in ToSet(queue')
      BY DEF ToSet
    <3> QED
      BY <1>2, <2>1, <3>1, AppendFacts
  <2>4. Shapes'
    <3>1. fail' \in [Nodes -> Nodes]
      BY <1>1, <1>2, <1>11, <2>1
    <3>2. pc' \in Phases /\ byte' \in 1 .. NumBytes + 1 /\ head' \in 0 .. Len(queue')
      BY <1>1, <1>2, <2>3 DEF Phases
    <3> QED
      BY <1>1, <2>3, <3>1, <3>2, ShapesKept, Zenon DEF Shapes
  <2>5. Queueing'
    <3>1. \A j \in DOMAIN queue : Depth(queue[j]) <= Depth(c)
      <4>1. \A j \in DOMAIN queue : Depth(queue[j]) = 1
        BY <1>1, <1>5, QueueFacts
      <4> QED
        BY <2>1, <4>1
    <3>2. /\ \A j, k \in DOMAIN queue' : queue'[j] = queue'[k] => j = k
          /\ \A j, k \in DOMAIN queue' : j <= k => Depth(queue'[j]) <= Depth(queue'[k])
      BY <1>1, <2>1, <2>2, <3>1, QueueGrows
    <3>3. ASSUME NEW n \in Nodes, NEW b \in Bytes, next[n][b] # Absent
          PROVE  next[n][b] \in ToSet(queue') <=> Visited(n, b)'
      <4>1. next[n][b] = c <=> n = Root /\ b = byte
        BY <1>1, <1>2, <3>3, UniqueParent DEF c
      <4>2. next[n][b] \in ToSet(queue) <=> Visited(n, b)
        BY <1>1, <3>3 DEF Queueing
      <4> QED
        BY <1>3, <2>3, <4>1, <4>2
    <3>4. head' = 0 /\ \A j \in DOMAIN queue' : Depth(queue'[j]) = 1
      BY <1>1, <1>2, <1>5, <2>1, <2>3
    <3>5. head' < Len(queue') => \A j \in DOMAIN queue' : Depth(queue'[j]) <= Depth(Current') + 1
      <4>1. 1 \in DOMAIN queue' /\ Current' = queue'[1]
        BY <1>2, <2>3, <3>4 DEF Current
      <4> QED
        BY <3>4, <4>1
    <3> QED
      BY <1>1, <3>2, <3>3, <3>4, <3>5, WordsFixed DEF Queueing
  <2>6. Linking'
    <3>1. IsFailure(c, Root)
      BY <1>1, <1>2, <1>11, RootFailure DEF c
    <3>2. IsOwn(c, out[c]) /\ out[c] \in Seq(DOMAIN patterns) /\ fail'[c] = Root
      BY <1>1, <1>2, <1>11, <2>1, <2>2 DEF Linking, Shapes
    <3>3. IsReport(Root, <<>>) /\ <<>> \in Seq(DOMAIN patterns)
      BY <1>1, RootReport
    <3>4. IsReport(c, out[c] \o <<>>)
      BY <1>1, <2>1, <3>1, <3>2, <3>3, ReportOfFailure
    <3>5. out[c] \o <<>> = out[c]
      BY <3>2
    <3>6. IsReport(c, out'[c])
      BY <1>1, <3>4, <3>5
    <3>7. \A n \in Nodes : n # c => fail'[n] = fail[n] /\ out'[n] = out[n]
      BY <1>1, <1>2, <1>11
    <3> QED
      BY <1>1, <2>1, <2>3, <3>1, <3>2, <3>6, <3>7, LinkingGrows
  <2> QED
    BY <1>6, <1>7, <1>8, <1>9, <2>4, <2>5, <2>6 DEF AutomatonInv
<1> QED
  BY <1>10, <1>11

\* The current node's children are visited one by one.
LEMMA LinkChildStep ==
    ASSUME AutomatonInv, LinkChild
    PROVE  AutomatonInv'
<1> DEFINE c == next[Current][byte]
           f == Target(probe, byte)
<1>1. /\ Shapes /\ Trie /\ Inserting /\ Queueing /\ Linking /\ Chasing /\ Scanning
      /\ pc = "chase" /\ pc' = "fail" /\ ~Stuck(probe, byte) /\ byte' = byte + 1
      /\ fail' = [fail EXCEPT ![c] = f] /\ out' = [out EXCEPT ![c] = out[c] \o out[f]]
      /\ queue' = Append(queue, c)
      /\ UNCHANGED <<patterns, next, pid, pos, state, head, probe>>
      /\ UNCHANGED <<text, i, reported, stopped, word>>
  BY DEF AutomatonInv, LinkChild, insertion, scanning, BreadthFirst, WithFailOut
<1>2. /\ head < Len(queue) /\ byte \in Bytes /\ c # Absent
      /\ Reaches(word[Current], Depth(Current) - 1, byte, probe)
  BY <1>1 DEF Chasing
<1>3. /\ Current \in Nodes \ {Root} /\ Depth(Current) \in Nat /\ c \in Nodes \ {Root}
      /\ Depth(c) = Depth(Current) + 1 /\ c \notin ToSet(queue)
  <2>1. /\ Current \in Nodes \ {Root} /\ word[Current] \in Seq(Bytes) /\ Depth(Current) \in Nat
        /\ c \in Nodes \ {Root}
    BY <1>1, <1>2, QueueFacts, ShapeFacts
  <2>2. Depth(c) = Depth(Current) + 1
    BY <1>1, <1>2, <2>1 DEF Trie, Depth
  <2>3. ~Visited(Current, byte)
    <3>1. \A k \in 1 .. head : Current # queue[k]
      <4>1. head + 1 \in DOMAIN queue /\ \A k \in 1 .. head : k \in DOMAIN queue /\ k # head + 1
        BY <1>1, <1>2, QueueFacts
      <4> QED
        BY <1>1, <4>1 DEF Queueing, Current
    <3>2. ~(byte < byte)
      BY <1>1, QueueFacts
    <3> QED
      BY <2>1, <3>1, <3>2 DEF Visited
  <2> QED
    BY <1>1, <1>2, <2>1, <2>2, <2>3 DEF Queueing
<1>4. /\ IsFailure(c, f) /\ f \in Nodes
  <2>1. IsFailure(c, f)
    BY <1>1, <1>2, <1>3, ChildFailure
  <2> QED
    BY <2>1 DEF IsFailure, SuffixesTo
<1>5. IsReport(f, out[f])
  <2>1. Depth(f) <= Depth(Current)
    BY <1>1, <1>3, <1>4, ShapeFacts DEF IsFailure, SuffixesTo
  <2>2. Depth(Current) <= Depth(Current)
    BY <1>3
  <2>3. f \in Linked
    BY <1>1, <1>3, <1>4, <2>1, <2>2, LevelsLinked
  <2> HIDE DEF f
  <2> QED
    BY <1>1, <2>3, RootReport DEF Linked, Linking
<1> HIDE DEF c, f
<1>6. /\ byte \in Nat \ {0} /\ NumBytes \in Nat /\ head \in Nat /\ Len(queue) \in Nat
      /\ queue \in Seq(Nodes \ {Root}) /\ DOMAIN queue = 1 .. Len(queue) /\ head + 1 \in 1 .. Len(queue)
      /\ byte <= NumBytes
  BY <1>1, <1>2, QueueFacts DEF Bytes
<1>7. /\ queue' \in Seq(Nodes \ {Root}) /\ Len(queue') = Len(queue) + 1
      /\ ToSet(queue') = ToSet(queue) \cup {c} /\ DOMAIN queue' = 1 .. Len(queue) + 1
      /\ \A j \in 1 .. Len(queue) : queue'[j] = queue[j]
      /\ queue'[Len(queue) + 1] = c
  BY <1>1, <1>3, <1>6, AppendFacts
<1>8. Current' = Current /\ head' < Len(queue')
  BY <1>1, <1>2, <1>6, <1>7 DEF Current
<1>9. fail \in [Nodes -> Nodes] /\ out \in [Nodes -> Seq(DOMAIN patterns)]
  BY <1>1 DEF Shapes
<1>10. out[c] \o out[f] \in Seq(DOMAIN patterns) /\ IsReport(c, out[c] \o out[f])
  <2>1. IsOwn(c, out[c]) /\ out[c] \in Seq(DOMAIN patterns) /\ out[f] \in Seq(DOMAIN patterns)
    BY <1>1, <1>3, <1>4, <1>9 DEF Linking
  <2> QED
    BY <1>1, <1>3, <1>4, <1>5, <2>1, ReportOfFailure
<1>11. Shapes'
  <2>1. fail' \in [Nodes -> Nodes] /\ out' \in [Nodes -> Seq(DOMAIN patterns)]
    BY <1>1, <1>3, <1>4, <1>9, <1>10
  <2>2. pc' \in Phases /\ byte' \in 1 .. NumBytes + 1 /\ head' \in 0 .. Len(queue')
    BY <1>1, <1>6, <1>7 DEF Phases
  <2> QED
    BY <1>1, <1>7, <2>1, <2>2, ShapesKept, Zenon DEF Shapes
<1>12. Trie'
  BY <1>1, WordsFixed
<1>13. Inserting'
  BY <1>1, InsertingKept
<1>14. Queueing'
  <2>1. \A j \in DOMAIN queue : Depth(queue[j]) <= Depth(c)
    BY <1>1, <1>2, <1>3 DEF Queueing
  <2>2. /\ \A j, k \in DOMAIN queue' : queue'[j] = queue'[k] => j = k
        /\ \A j, k \in DOMAIN queue' : j <= k => Depth(queue'[j]) <= Depth(queue'[k])
    BY <1>1, <1>3, <2>1, QueueGrows
  <2>3. ASSUME NEW n \in Nodes, NEW b \in Bytes, next[n][b] # Absent
        PROVE  next[n][b] \in ToSet(queue') <=> Visited(n, b)'
    <3>1. next[n][b] = c <=> n = Current /\ b = byte
      BY <1>1, <1>2, <1>3, <2>3, UniqueParent DEF c
    <3>2. next[n][b] \in ToSet(queue) <=> Visited(n, b)
      BY <1>1, <2>3 DEF Queueing
    <3>3. b < byte' <=> b < byte \/ b = byte
      BY <1>1, <1>6 DEF Bytes
    <3>4. \A k \in 1 .. head : queue'[k] = queue[k]
      BY <1>2, <1>6, <1>7
    <3>5. Visited(n, b)' <=> Visited(n, b) \/ (n = Current /\ b = byte)
      BY <1>1, <1>2, <1>8, <3>3, <3>4 DEF Visited
    <3> QED
      BY <1>7, <3>1, <3>2, <3>5
  <2>4. \A j \in DOMAIN queue' : Depth(queue'[j]) <= Depth(Current) + 1
    <3>1. \A j \in DOMAIN queue' : j \in 1 .. Len(queue) \/ j = Len(queue) + 1
      BY <1>6, <1>7
    <3>2. \A j \in 1 .. Len(queue) : Depth(queue'[j]) <= Depth(Current) + 1
      BY <1>1, <1>2, <1>6, <1>7 DEF Queueing
    <3>3. Depth(c) <= Depth(Current) + 1
      BY <1>3
    <3> QED
      BY <1>7, <3>1, <3>2, <3>3
  <2> QED
    BY <1>1, <1>8, <2>2, <2>3, <2>4, WordsFixed DEF Queueing
<1>15. Linking'
  <2>1. /\ fail'[c] = f /\ out'[c] = out[c] \o out[f]
        /\ \A n \in Nodes : n # c => fail'[n] = fail[n] /\ out'[n] = out[n]
    BY <1>1, <1>3, <1>9
  <2> QED
    BY <1>1, <1>3, <1>4, <1>7, <1>10, <2>1, LinkingGrows
<1>16. Chasing'
  BY <1>1 DEF Chasing
<1>17. Scanning'
  BY <1>1, ScanningKept
<1> QED
  BY <1>11, <1>12, <1>13, <1>14, <1>15, <1>16, <1>17 DEF AutomatonInv

\* The automaton is built.
LEMMA BuiltStep ==
    ASSUME AutomatonInv, Built
    PROVE  AutomatonInv'
<1>1. /\ Shapes /\ Trie /\ Inserting /\ Queueing /\ Linking /\ Scanning
      /\ pc = "fail" /\ pc' = "ready" /\ head = Len(queue)
      /\ UNCHANGED <<patterns, next, fail, out, pid, pos, state, queue, head, byte, probe>>
      /\ UNCHANGED <<text, i, reported, stopped, word>>
  BY DEF AutomatonInv, Built, nodes, insertion, building, scanning
<1>2. Shapes'
  <2>1. pc' \in Phases
    BY <1>1 DEF Phases
  <2> QED
    BY <1>1, <2>1, ShapesKept, Zenon DEF Shapes
<1>3. Trie'
  BY <1>1, WordsFixed
<1>4. Inserting'
  BY <1>1, InsertingKept
<1>5. Queueing'
  BY <1>1, QueueingKept
<1>6. Linking'
  BY <1>1, LinkingKept
<1>7. Chasing'
  BY <1>1 DEF Chasing
<1>8. Scanning'
  BY <1>1, ScanningKept
<1> QED
  BY <1>2, <1>3, <1>4, <1>5, <1>6, <1>7, <1>8 DEF AutomatonInv

-----------------------------------------------------------------------------
\* The scan.

\* Once the automaton is built every node is linked.
LEMMA AllLinked ==
    ASSUME Shapes, Trie, Queueing, pc \in {"ready", "scan"}, NEW n \in Nodes
    PROVE  n \in Linked
<1>1. head = Len(queue) /\ ~(head < Len(queue)) /\ Depth(n) \in Nat /\ Depth(n) <= Depth(n)
  BY QueueFacts, ShapeFacts DEF Queueing
<1> QED
  BY <1>1, LevelsLinked

\* Every node reports what its word ends with.
LEMMA AllReport ==
    ASSUME Shapes, Trie, Queueing, Linking, pc \in {"ready", "scan"}, NEW n \in Nodes
    PROVE  IsReport(n, out[n])
  BY AllLinked, RootReport DEF Linked, Linking

\* The next byte of the text.
LEMMA ScannedStep ==
    ASSUME Shapes, i < Len(text)
    PROVE  /\ i \in Nat /\ i + 1 \in 1 .. Len(text) /\ text[i + 1] \in Bytes
           /\ Scanned(i) \in Seq(Bytes) /\ Scanned(i + 1) \in Seq(Bytes)
           /\ Scanned(i + 1) = Append(Scanned(i), text[i + 1])
<1>1. text \in Seq(Bytes) /\ i \in 0 .. Len(text) /\ Len(text) \in Nat
  BY DEF Shapes
<1>2. i \in Nat /\ i + 1 \in 1 .. Len(text) /\ text[i + 1] \in Bytes /\ i + 1 - 1 = i
  BY <1>1
<1>3. /\ SubSeq(text, 1, i) \in Seq(Bytes)
      /\ SubSeq(text, 1, i + 1) = Append(SubSeq(text, 1, i), text[i + 1])
  BY <1>1, <1>2, PrefixStep
<1>4. Append(SubSeq(text, 1, i), text[i + 1]) \in Seq(Bytes)
  BY <1>2, <1>3
<1> QED
  BY <1>2, <1>3, <1>4 DEF Scanned

\* The occurrences up to the next byte.
LEMMA OccurrencesStep ==
    ASSUME NEW k \in Nat
    PROVE  Occurrences(k + 1) =
              Occurrences(k) \cup
              {<<p, k + 1>> : p \in {q \in Sought : EndsWith(Scanned(k + 1), patterns[q])}}
<1>1. ASSUME NEW j
      PROVE  \A o : o \in Occurrences(j) <=>
                \E p \in Sought, e \in 1 .. j : o = <<p, e>> /\ EndsWith(Scanned(e), patterns[p])
  BY DEF Occurrences, Scanned
<1>2. \A e : e \in 1 .. k + 1 <=> e \in 1 .. k \/ e = k + 1
  OBVIOUS
<1>3. ASSUME NEW o
      PROVE  o \in Occurrences(k + 1) <=>
                \/ o \in Occurrences(k)
                \/ \E p \in Sought : o = <<p, k + 1>> /\ EndsWith(Scanned(k + 1), patterns[p])
  BY <1>1, <1>2, Zenon
<1> QED
  BY <1>3

\* A search starts at the root, with nothing reported.
LEMMA SearchStep ==
    ASSUME AutomatonInv, NEW t \in Texts, Search(t)
    PROVE  AutomatonInv'
<1>1. /\ Shapes /\ Trie /\ Inserting /\ Queueing /\ Linking /\ Scanning
      /\ pc = "ready" /\ pc' = "scan" /\ text' = t /\ i' = 0 /\ state' = Root
      /\ reported' = {} /\ stopped' = FALSE
      /\ UNCHANGED <<patterns, next, fail, out, pid, pos, queue, head, byte, probe, word>>
  BY DEF AutomatonInv, Search, nodes, insertion, building
<1>2. t \in Seq(Bytes) /\ Len(t) \in Nat /\ Root \in Nodes /\ head = Len(queue)
  BY <1>1, AhoCorasickAssumption, ShapeFacts DEF Bytes, Queueing
<1>3. Shapes'
  <2>1. pc' \in Phases /\ text' \in Seq(Bytes) /\ i' \in 0 .. Len(text') /\ state' \in Nodes
    BY <1>1, <1>2 DEF Phases
  <2> QED
    BY <1>1, <2>1, ShapesKept, Zenon DEF Shapes
<1>4. Trie'
  BY <1>1, WordsFixed
<1>5. Inserting'
  BY <1>1, InsertingKept
<1>6. Queueing'
  BY <1>1, <1>2, QueueingKept
<1>7. Linking'
  BY <1>1, LinkingKept
<1>8. Chasing'
  BY <1>1 DEF Chasing
<1>9. Scanning'
  <2>1. Occurrences(i)' = {}
    BY <1>1 DEF Occurrences
  <2>2. Scanned(i)' = <<>>
    BY <1>1, <1>2 DEF Scanned
  <2>3. word[Root] = <<>> /\ Depth(Root) = 0
    BY <1>1 DEF Trie, Depth
  <2>4. Root \in SuffixesTo(<<>>, 0)
    <3>1. EndsWith(<<>>, <<>>)
      BY <1>1, <1>2, <2>3, ShapeFacts, EndsWithSelf
    <3>2. Depth(Root) <= 0
      BY <2>3
    <3> QED
      BY <1>2, <2>3, <3>1, <3>2, Zenon DEF SuffixesTo
  <2>5. \A m \in SuffixesTo(<<>>, 0) : Depth(m) <= Depth(Root)
    BY <2>3 DEF SuffixesTo
  <2> QED
    BY <1>1, <2>1, <2>2, <2>4, <2>5, WordsFixed DEF Scanning
<1> QED
  BY <1>3, <1>4, <1>5, <1>6, <1>7, <1>8, <1>9 DEF AutomatonInv

\* Following a failure loses no node that can go on.
LEMMA ScanFailStep ==
    ASSUME AutomatonInv, ScanFail
    PROVE  AutomatonInv'
<1>1. /\ Shapes /\ Trie /\ Inserting /\ Queueing /\ Linking /\ Scanning
      /\ pc = "scan" /\ pc' = "scan" /\ i < Len(text) /\ Stuck(state, text[i + 1])
      /\ state' = fail[state]
      /\ UNCHANGED <<patterns, next, fail, out, pid, pos, queue, head, byte, probe, word>>
      /\ UNCHANGED <<text, i, reported, stopped>>
  BY DEF AutomatonInv, ScanFail, nodes, insertion, building, scanning
<1>2. /\ state \in Nodes /\ fail[state] \in Nodes /\ head = Len(queue)
      /\ i \in Nat /\ text[i + 1] \in Bytes /\ Scanned(i) \in Seq(Bytes)
  BY <1>1, ScannedStep DEF Shapes, Queueing
<1>3. IsFailure(state, fail[state])
  BY <1>1, <1>2, AllLinked DEF Linked, Linking, Stuck
<1>4. Reaches(Scanned(i), i, text[i + 1], state)
  BY <1>1 DEF Scanning, Reaches
<1>5. Reaches(Scanned(i), i, text[i + 1], fail[state])
  <2>1. next[state][text[i + 1]] = Absent /\ i \in Int
    BY <1>1, <1>2 DEF Stuck
  <2> QED
    BY <1>1, <1>2, <1>3, <1>4, <2>1, FollowReaches
<1>6. Shapes'
  <2>1. state' \in Nodes
    BY <1>1, <1>2
  <2> QED
    BY <1>1, <2>1, ShapesKept, Zenon DEF Shapes
<1>7. Trie'
  BY <1>1, WordsFixed
<1>8. Inserting'
  BY <1>1, InsertingKept
<1>9. Queueing'
  BY <1>1, <1>2, QueueingKept
<1>10. Linking'
  BY <1>1, LinkingKept
<1>11. Chasing'
  BY <1>1 DEF Chasing
<1>12. Scanning'
  <2>1. Occurrences(i)' = Occurrences(i) /\ Scanned(i)' = Scanned(i)
    BY <1>1, WordsFixed DEF Occurrences, Scanned
  <2>2. /\ state' \in SuffixesTo(Scanned(i), i)
        /\ \A m \in SuffixesTo(Scanned(i), i) :
              next[m][text[i + 1]] # Absent => Depth(m) <= Depth(state')
    BY <1>1, <1>5 DEF Reaches
  <2> QED
    BY <1>1, <2>1, <2>2, WordsFixed DEF Scanning
<1> QED
  BY <1>6, <1>7, <1>8, <1>9, <1>10, <1>11, <1>12 DEF AutomatonInv

\* The node reached reports what ends at the byte that led to it.
LEMMA ScanByteStep ==
    ASSUME AutomatonInv, ScanByte
    PROVE  AutomatonInv'
<1> DEFINE b == text[i + 1]
           n == Target(state, b)
           here == {<<p, i + 1>> : p \in {q \in Sought : EndsWith(Scanned(i + 1), patterns[q])}}
           seen(k) == {<<out[n][j], i + 1>> : j \in 1 .. k}
<1>1. /\ Shapes /\ Trie /\ Inserting /\ Queueing /\ Linking /\ Scanning
      /\ pc = "scan" /\ i < Len(text) /\ ~Stuck(state, b) /\ state' = n /\ i' = i + 1
      /\ \/ /\ reported' = reported \cup seen(Len(out[n]))
            /\ UNCHANGED <<stopped, pc>>
         \/ /\ \E k \in DOMAIN out[n] : reported' = reported \cup seen(k)
            /\ stopped' = TRUE
            /\ pc' = "ready"
      /\ UNCHANGED <<patterns, next, fail, out, pid, pos, queue, head, byte, probe, word, text>>
  BY DEF AutomatonInv, ScanByte, nodes, insertion, building
<1>2. /\ state \in Nodes /\ head = Len(queue) /\ i \in Nat /\ i + 1 \in 1 .. Len(text)
      /\ b \in Bytes /\ Scanned(i) \in Seq(Bytes) /\ Scanned(i + 1) \in Seq(Bytes)
      /\ Scanned(i + 1) = Append(Scanned(i), b) /\ ~stopped
  BY <1>1, ScannedStep DEF Shapes, Queueing, Scanning
<1>3. /\ n \in SuffixesTo(Scanned(i + 1), i + 1)
      /\ \A m \in SuffixesTo(Scanned(i + 1), i + 1) : Depth(m) <= Depth(n)
  <2>1. Reaches(Scanned(i), i, b, state)
    BY <1>1 DEF Scanning, Reaches
  <2> QED
    BY <1>1, <1>2, <2>1, AdvanceReaches
<1> HIDE DEF b, n
<1>4. /\ n \in Nodes /\ EndsWith(Scanned(i + 1), word[n]) /\ word[n] \in Seq(Bytes)
      /\ out[n] \in Seq(DOMAIN patterns)
  BY <1>1, <1>3, ShapeFacts DEF SuffixesTo, Shapes
<1>5. ToSet(out[n]) = {q \in Sought : EndsWith(Scanned(i + 1), patterns[q])}
  <2>1. ToSet(out[n]) = {q \in Sought : EndsWith(word[n], patterns[q])}
    BY <1>1, <1>4, AllReport DEF IsReport
  <2>2. ASSUME NEW q \in Sought
        PROVE  EndsWith(word[n], patterns[q]) <=> EndsWith(Scanned(i + 1), patterns[q])
    <3>1. patterns[q] \in Seq(Bytes) /\ Len(patterns[q]) \in Nat /\ q < pid
      BY <1>1, ShapeFacts DEF Sought, Inserting
    <3>2. EndsWith(word[n], patterns[q]) => EndsWith(Scanned(i + 1), patterns[q])
      BY <1>2, <1>4, <3>1, EndsWithTrans
    <3>3. ASSUME EndsWith(Scanned(i + 1), patterns[q])
          PROVE  EndsWith(word[n], patterns[q])
      <4>1. PICK m \in Nodes : word[m] = patterns[q]
        BY <1>1, <3>1 DEF Inserting
      <4>2. Len(Scanned(i + 1)) = i + 1
        BY <1>1, <1>2 DEF Scanned, Shapes
      <4>3. Depth(m) <= i + 1
        BY <3>3, <4>1, <4>2 DEF EndsWith, Depth
      <4>4. m \in SuffixesTo(Scanned(i + 1), i + 1)
        BY <3>3, <4>1, <4>3 DEF SuffixesTo
      <4>5. Depth(m) <= Depth(n)
        BY <1>3, <4>4
      <4>6. Len(patterns[q]) <= Len(word[n])
        BY <4>1, <4>5 DEF Depth
      <4> QED
        BY <1>2, <1>4, <3>1, <3>3, <4>6, EndsNest
    <3> QED
      BY <3>2, <3>3
  <2> QED
    BY <2>1, <2>2
<1>6. Occurrences(i + 1) = Occurrences(i) \cup here
  BY <1>2, OccurrencesStep
<1>7. seen(Len(out[n])) = here
  <2>1. ToSet(out[n]) = {out[n][j] : j \in 1 .. Len(out[n])}
    BY <1>4 DEF ToSet
  <2> QED
    BY <1>5, <2>1
<1>8. \A k \in DOMAIN out[n] : seen(k) \subseteq here
  <2>1. \A k \in DOMAIN out[n] : \A j \in 1 .. k : j \in 1 .. Len(out[n])
    BY <1>4
  <2> QED
    BY <1>7, <2>1
<1>9. pc' \in {"ready", "scan"} /\ pc' \in Phases
  BY <1>1 DEF Phases
<1>10. Shapes'
  <2>1. text' \in Seq(Bytes) /\ i' \in 0 .. Len(text') /\ state' \in Nodes
    BY <1>1, <1>2, <1>4 DEF Shapes
  <2> QED
    BY <1>1, <1>9, <2>1, ShapesKept, Zenon DEF Shapes
<1>11. Trie'
  BY <1>1, WordsFixed
<1>12. Inserting'
  BY <1>1, <1>9, InsertingKept
<1>13. Queueing'
  BY <1>1, <1>2, <1>9, QueueingKept
<1>14. Linking'
  BY <1>1, LinkingKept
<1>15. Chasing'
  BY <1>9 DEF Chasing
<1>16. Scanning'
  <2>1. Occurrences(i)' = Occurrences(i + 1) /\ Scanned(i)' = Scanned(i + 1)
    BY <1>1, WordsFixed DEF Occurrences, Scanned
  <2>2. reported = Occurrences(i)
    BY <1>1, <1>2 DEF Scanning
  <2>3. reported' \subseteq Occurrences(i + 1) /\ (~stopped' => reported' = Occurrences(i + 1))
    BY <1>1, <1>6, <1>7, <1>8, <2>2
  <2>4. pc' = "scan" => ~stopped'
    BY <1>1, <1>2
  <2>5. /\ state' \in SuffixesTo(Scanned(i + 1), i + 1)
        /\ \A m \in SuffixesTo(Scanned(i + 1), i + 1) : Depth(m) <= Depth(state')
    BY <1>1, <1>3
  <2> QED
    BY <1>1, <2>1, <2>3, <2>4, <2>5, WordsFixed DEF Scanning
<1> QED
  BY <1>10, <1>11, <1>12, <1>13, <1>14, <1>15, <1>16 DEF AutomatonInv

\* The text is read: what the scan says of it stays.
LEMMA ScanEndStep ==
    ASSUME AutomatonInv, ScanEnd
    PROVE  AutomatonInv'
<1>1. /\ Shapes /\ Trie /\ Inserting /\ Queueing /\ Linking /\ Scanning
      /\ pc = "scan" /\ pc' = "ready"
      /\ UNCHANGED <<patterns, next, fail, out, pid, pos, queue, head, byte, probe, word, state>>
      /\ UNCHANGED <<text, i, reported, stopped>>
  BY DEF AutomatonInv, ScanEnd, nodes, insertion, building, scanning
<1>2. head = Len(queue)
  BY <1>1 DEF Queueing
<1>3. Shapes'
  <2>1. pc' \in Phases
    BY <1>1 DEF Phases
  <2> QED
    BY <1>1, <2>1, ShapesKept, Zenon DEF Shapes
<1>4. Trie'
  BY <1>1, WordsFixed
<1>5. Inserting'
  BY <1>1, InsertingKept
<1>6. Queueing'
  BY <1>1, <1>2, QueueingKept
<1>7. Linking'
  BY <1>1, LinkingKept
<1>8. Chasing'
  BY <1>1 DEF Chasing
<1>9. Scanning'
  <2>1. Occurrences(i)' = Occurrences(i)
    BY <1>1, WordsFixed DEF Occurrences
  <2> QED
    BY <1>1, <2>1 DEF Scanning
<1> QED
  BY <1>3, <1>4, <1>5, <1>6, <1>7, <1>8, <1>9 DEF AutomatonInv

-----------------------------------------------------------------------------
\* The insertion.

\* What no step of the insertion touches.
LEMMA InsertionFacts ==
    ASSUME AutomatonInv, pc = "insert", pid <= Len(patterns)
    PROVE  /\ queue = <<>> /\ head = 0 /\ byte = 1 /\ text = <<>> /\ i = 0 /\ reported = {}
           /\ ToSet(queue) = {} /\ DOMAIN queue = {} /\ Len(queue) = 0
           /\ pid \in DOMAIN patterns /\ pid \in Nat /\ pos \in Nat
           /\ patterns[pid] \in Seq(Bytes) /\ Len(patterns[pid]) \in Nat
           /\ pos <= Len(patterns[pid]) /\ word[state] = SubSeq(patterns[pid], 1, pos)
           /\ state \in Nodes /\ word[state] \in Seq(Bytes)
<1>1. Shapes /\ Inserting
  BY DEF AutomatonInv
<1>2. /\ queue = <<>> /\ head = 0 /\ byte = 1 /\ text = <<>> /\ i = 0 /\ reported = {}
      /\ pos <= Len(patterns[pid]) /\ word[state] = SubSeq(patterns[pid], 1, pos)
  BY <1>1 DEF Inserting
<1>3. pid \in 1 .. Len(patterns) + 1 /\ pos \in Nat /\ state \in Nodes
  BY <1>1 DEF Shapes
<1>4. pid \in DOMAIN patterns /\ pid \in Nat
  BY <1>1, <1>3, ShapeFacts
<1> QED
  BY <1>1, <1>2, <1>3, <1>4, ShapeFacts DEF ToSet

\* The parts of the invariant that say nothing before the automaton is built.
LEMMA BeforeBuilding ==
    ASSUME pc' = "insert", queue' = <<>>, head' = 0, i' = 0, reported' = {}
    PROVE  Queueing' /\ Chasing' /\ Scanning'
<1>1. ToSet(queue') = {} /\ DOMAIN queue' = {} /\ Len(queue') = 0
  BY DEF ToSet
<1>2. Occurrences(i)' = {}
  BY DEF Occurrences
<1>3. Queueing'
  BY <1>1 DEF Queueing
<1>4. Chasing'
  BY DEF Chasing
<1>5. Scanning'
  BY <1>2 DEF Scanning
<1> QED
  BY <1>3, <1>4, <1>5

\* The pattern's node gets its id, once.
LEMMA InsertEndStep ==
    ASSUME AutomatonInv, InsertEnd
    PROVE  AutomatonInv'
<1>1. /\ Shapes /\ Trie /\ Inserting /\ Linking /\ pc = "insert" /\ pid <= Len(patterns)
      /\ pos = Len(patterns[pid])
      /\ out' = IF pos = 0 THEN out ELSE [out EXCEPT ![state] = Append(@, pid)]
      /\ pid' = pid + 1 /\ pos' = 0 /\ state' = Root
      /\ UNCHANGED <<patterns, next, fail, pc, queue, head, byte, probe, word>>
      /\ UNCHANGED <<text, i, reported, stopped>>
  BY DEF AutomatonInv, InsertEnd, building, scanning
<1>2. /\ queue = <<>> /\ head = 0 /\ byte = 1 /\ text = <<>> /\ i = 0 /\ reported = {}
      /\ ToSet(queue) = {}
      /\ pid \in DOMAIN patterns /\ pid \in Nat /\ patterns[pid] \in Seq(Bytes)
      /\ state \in Nodes /\ word[state] = patterns[pid]
      /\ pid \in Sought <=> pos # 0
  <2>1. /\ queue = <<>> /\ head = 0 /\ byte = 1 /\ text = <<>> /\ i = 0 /\ reported = {}
        /\ ToSet(queue) = {}
        /\ pid \in DOMAIN patterns /\ pid \in Nat /\ patterns[pid] \in Seq(Bytes)
        /\ state \in Nodes /\ word[state] = SubSeq(patterns[pid], 1, pos)
    BY <1>1, InsertionFacts, Zenon
  <2>2. PICK w : w = patterns[pid]
    OBVIOUS
  <2>3. w \in Seq(Bytes) /\ pos = Len(w)
    BY <1>1, <2>1, <2>2
  <2>4. SubSeq(w, 1, pos) = w /\ (w # <<>> <=> pos # 0)
    BY <2>3
  <2> QED
    BY <2>1, <2>2, <2>4, Zenon DEF Sought
<1>3. /\ out \in [Nodes -> Seq(DOMAIN patterns)] /\ Nodes' = Nodes /\ numNodes' = numNodes
      /\ Sought' = Sought
  BY <1>1, WordsFixed DEF Shapes
<1>4. \A p \in Sought : p < pid + 1 <=> p < pid \/ p = pid
  <2>1. \A p \in Sought : p \in Nat
    BY <1>1, ShapeFacts DEF Sought
  <2>2. ASSUME NEW p \in Nat
        PROVE  p < pid + 1 <=> p < pid \/ p = pid
    <3>1. pid \in Nat
      BY <1>2
    <3> QED
      BY <3>1
  <2> QED
    BY <2>1, <2>2, Zenon
<1>5. ASSUME NEW n \in Nodes
      PROVE  IsOwn(n, out[n]) /\ out[n] \in Seq(DOMAIN patterns)
  BY <1>1, <1>2, <1>3 DEF Linking
<1>6. ASSUME NEW n \in Nodes, n # state \/ pos = 0
      PROVE  out'[n] = out[n] /\ IsOwnTo(n, out'[n], pid + 1)
  <2>1. out'[n] = out[n]
    BY <1>1, <1>3, <1>6
  <2>2. ~(pid \in Sought /\ patterns[pid] = word[n])
    BY <1>1, <1>2, <1>6 DEF Trie
  <2>3. {p \in Sought : p < pid + 1 /\ patterns[p] = word[n]} =
        {p \in Sought : p < pid /\ patterns[p] = word[n]}
    BY <1>4, <2>2
  <2> QED
    BY <1>5, <2>1, <2>3 DEF IsOwn, IsOwnTo
<1>7. ASSUME pos # 0
      PROVE  /\ out'[state] = Append(out[state], pid)
             /\ Append(out[state], pid) \in Seq(DOMAIN patterns)
             /\ IsOwnTo(state, out'[state], pid + 1)
  <2>1. out'[state] = Append(out[state], pid)
    BY <1>1, <1>2, <1>3, <1>7
  <2>2. /\ Append(out[state], pid) \in Seq(DOMAIN patterns)
        /\ ToSet(Append(out[state], pid)) = ToSet(out[state]) \cup {pid}
    BY <1>2, <1>5, AppendFacts
  <2>3. pid \notin ToSet(out[state])
    BY <1>2, <1>5 DEF IsOwn, IsOwnTo
  <2>4. IsInjective(Append(out[state], pid))
    BY <1>2, <1>5, <2>3, InjectiveAppend DEF IsOwn, IsOwnTo
  <2>5. ToSet(Append(out[state], pid)) =
           {p \in Sought : p < pid + 1 /\ patterns[p] = word[state]}
    BY <1>2, <1>5, <1>7, <1>4, <2>2 DEF IsOwn, IsOwnTo
  <2> QED
    BY <2>1, <2>2, <2>4, <2>5 DEF IsOwnTo
<1>8. Shapes'
  <2>1. out' \in [Nodes -> Seq(DOMAIN patterns)]
    BY <1>1, <1>2, <1>3, <1>7
  <2>2. pid' \in 1 .. Len(patterns) + 1 /\ pos' \in Nat /\ state' \in Nodes
    BY <1>1, <1>2, ShapeFacts
  <2> QED
    BY <1>1, <1>3, <2>1, <2>2, Zenon DEF Shapes
<1>9. Trie'
  BY <1>1, WordsFixed
<1>10. Inserting'
  <2>1. pid + 1 <= Len(patterns) =>
           0 <= Len(patterns[pid + 1]) /\ word[Root] = SubSeq(patterns[pid + 1], 1, 0)
    <3>1. SUFFICES ASSUME pid + 1 <= Len(patterns)
                   PROVE  0 <= Len(patterns[pid + 1]) /\ <<>> = SubSeq(patterns[pid + 1], 1, 0)
      BY <1>1 DEF Trie
    <3>2. pid + 1 \in DOMAIN patterns
      BY <1>1, <1>2, <3>1, ShapeFacts
    <3>3. patterns[pid + 1] \in Seq(Bytes) /\ Len(patterns[pid + 1]) \in Nat
      BY <1>1, <3>2, ShapeFacts
    <3> QED
      BY <3>3
  <2>2. ASSUME NEW p \in Sought, p < pid + 1
        PROVE  \E n \in Nodes : word[n] = patterns[p]
    <3>1. p < pid \/ p = pid
      BY <1>1, <1>2, <2>2, ShapeFacts DEF Sought
    <3> QED
      BY <1>1, <1>2, <3>1 DEF Inserting
  <2> QED
    BY <1>1, <1>2, <1>3, <2>1, <2>2 DEF Inserting
<1>11. Linking'
  <2>1. \A n \in Nodes : IsOwnTo(n, out'[n], pid + 1)
    BY <1>6, <1>7
  <2>2. \A n, s : IsOwn(n, s)' <=> IsOwnTo(n, s, pid + 1)
    BY <1>1, <1>3 DEF IsOwn, IsOwnTo
  <2> QED
    BY <1>1, <1>2, <1>3, <2>1, <2>2, Zenon DEF Linking
<1>12. Queueing' /\ Chasing' /\ Scanning'
  BY <1>1, <1>2, BeforeBuilding
<1> QED
  BY <1>8, <1>9, <1>10, <1>11, <1>12 DEF AutomatonInv

\* A table with a node more.
LEMMA GrownFacts ==
    ASSUME Shapes, NEW field, NEW value, DOMAIN field = Nodes
    PROVE  /\ FreshId \notin Nodes /\ Nodes \cup {FreshId} = 0 .. numNodes
           /\ Cardinality(0 .. numNodes) = numNodes + 1
           /\ DOMAIN Grown(field, value) = Nodes \cup {FreshId}
           /\ \A n \in Nodes : Grown(field, value)[n] = field[n]
           /\ Grown(field, value)[FreshId] = value
<1>1. numNodes \in Nat \ {0} /\ Nodes = 0 .. numNodes - 1 /\ FreshId = numNodes
  BY DEF Shapes, FreshId
<1>2. FreshId \notin Nodes /\ Nodes \cup {FreshId} = 0 .. numNodes
  BY <1>1
<1>3. Cardinality(0 .. numNodes) = numNodes + 1
  <2>1. /\ 0 \in Int /\ numNodes \in Int
        /\ Cardinality(0 .. numNodes) = IF 0 > numNodes THEN 0 ELSE numNodes - 0 + 1
    BY <1>1, FS_Interval
  <2> QED
    BY <1>1, <2>1
<1>4. /\ DOMAIN Grown(field, value) = Nodes \cup {FreshId}
      /\ \A n \in Nodes \cup {FreshId} :
            Grown(field, value)[n] = IF n = FreshId THEN value ELSE field[n]
  BY Zenon DEF Grown
<1> QED
  BY <1>2, <1>3, <1>4

\* The table grows by the child that spells one byte more.
LEMMA NewNode ==
    ASSUME AutomatonInv, NEW b \in Bytes, pc = "insert", state \in Nodes,
           next[state][b] = Absent,
           next' = Grown([next EXCEPT ![state][b] = FreshId], NoEdges),
           fail' = Grown(fail, Root), out' = Grown(out, <<>>),
           word' = Grown(word, Append(word[state], b)),
           UNCHANGED <<patterns, pid, queue>>, queue = <<>>
    PROVE  /\ numNodes' \in Nat \ {0} /\ Nodes' = 0 .. numNodes' - 1
           /\ next' \in [Nodes' -> [Bytes -> {Absent} \cup 1 .. numNodes' - 1]]
           /\ fail' \in [Nodes' -> Nodes'] /\ out' \in [Nodes' -> Seq(DOMAIN patterns)]
           /\ word' \in [Nodes' -> Seq(Bytes)]
           /\ FreshId \in Nodes' /\ Nodes \subseteq Nodes'
           /\ \A n \in Nodes : word'[n] = word[n]
           /\ word'[FreshId] = Append(word[state], b)
           /\ Trie' /\ Linking'
<1> DEFINE k == FreshId
           v == Append(word[state], b)
           x == [next EXCEPT ![state][b] = FreshId]
<1>1. /\ Shapes /\ Trie /\ Inserting /\ Linking
      /\ numNodes \in Nat \ {0} /\ Nodes = 0 .. numNodes - 1 /\ k = numNodes
      /\ next \in [Nodes -> [Bytes -> {Absent} \cup 1 .. numNodes - 1]]
      /\ fail \in [Nodes -> Nodes] /\ out \in [Nodes -> Seq(DOMAIN patterns)]
      /\ word \in [Nodes -> Seq(Bytes)] /\ Root \in Nodes /\ word[Root] = <<>>
  BY ShapeFacts DEF AutomatonInv, Shapes, Trie, FreshId
<1>2. k \notin Nodes /\ Nodes \cup {k} = 0 .. numNodes
  BY <1>1, GrownFacts
<1>3. /\ DOMAIN x = Nodes /\ \A n \in Nodes, c \in Bytes :
            x[n][c] = IF n = state /\ c = b THEN k ELSE next[n][c]
      /\ \A n \in Nodes : DOMAIN x[n] = Bytes
  BY <1>1
<1>4. /\ DOMAIN next' = Nodes \cup {k} /\ next'[k] = NoEdges
      /\ \A n \in Nodes : next'[n] = x[n]
  <2> HIDE DEF x
  <2>1. next' = Grown(x, NoEdges) /\ DOMAIN x = Nodes
    BY <1>3 DEF x
  <2>2. /\ DOMAIN Grown(x, NoEdges) = Nodes \cup {FreshId}
        /\ \A n \in Nodes : Grown(x, NoEdges)[n] = x[n]
        /\ Grown(x, NoEdges)[FreshId] = NoEdges
    <3>1. \A n \in Nodes \cup {FreshId} :
             Grown(x, NoEdges)[n] = IF n = FreshId THEN NoEdges ELSE x[n]
      BY Zenon DEF Grown
    <3>2. DOMAIN Grown(x, NoEdges) = Nodes \cup {FreshId}
      BY Zenon DEF Grown
    <3> QED
      BY <1>2, <3>1, <3>2
  <2> QED
    BY <2>1, <2>2, Zenon
<1>5. /\ DOMAIN fail' = Nodes \cup {k} /\ fail'[k] = Root /\ \A n \in Nodes : fail'[n] = fail[n]
      /\ DOMAIN out' = Nodes \cup {k} /\ out'[k] = <<>> /\ \A n \in Nodes : out'[n] = out[n]
      /\ DOMAIN word' = Nodes \cup {k} /\ word'[k] = v /\ \A n \in Nodes : word'[n] = word[n]
  <2>1. DOMAIN fail = Nodes /\ DOMAIN out = Nodes /\ DOMAIN word = Nodes
    BY <1>1
  <2>2. ASSUME NEW f, NEW r, DOMAIN f = Nodes
        PROVE  /\ DOMAIN Grown(f, r) = Nodes \cup {FreshId}
               /\ \A n \in Nodes : Grown(f, r)[n] = f[n]
               /\ Grown(f, r)[FreshId] = r
    <3>1. \A n \in Nodes \cup {FreshId} : Grown(f, r)[n] = IF n = FreshId THEN r ELSE f[n]
      BY Zenon DEF Grown
    <3>2. DOMAIN Grown(f, r) = Nodes \cup {FreshId}
      BY Zenon DEF Grown
    <3> QED
      BY <1>2, <3>1, <3>2
  <2>3. /\ DOMAIN fail' = Nodes \cup {k} /\ fail'[k] = Root
        /\ \A n \in Nodes : fail'[n] = fail[n]
    <3>1. /\ DOMAIN Grown(fail, Root) = Nodes \cup {FreshId}
          /\ \A n \in Nodes : Grown(fail, Root)[n] = fail[n]
          /\ Grown(fail, Root)[FreshId] = Root
      BY <2>1, <2>2
    <3>2. fail' = Grown(fail, Root)
      OBVIOUS
    <3> QED
      BY <3>1, <3>2, Zenon
  <2>4. /\ DOMAIN out' = Nodes \cup {k} /\ out'[k] = <<>>
        /\ \A n \in Nodes : out'[n] = out[n]
    <3>1. /\ DOMAIN Grown(out, <<>>) = Nodes \cup {FreshId}
          /\ \A n \in Nodes : Grown(out, <<>>)[n] = out[n]
          /\ Grown(out, <<>>)[FreshId] = <<>>
      BY <2>1, <2>2
    <3>2. out' = Grown(out, <<>>)
      OBVIOUS
    <3> QED
      BY <3>1, <3>2, Zenon
  <2>5. /\ DOMAIN word' = Nodes \cup {k} /\ word'[k] = v
        /\ \A n \in Nodes : word'[n] = word[n]
    <3>1. /\ DOMAIN Grown(word, Append(word[state], b)) = Nodes \cup {FreshId}
          /\ \A n \in Nodes : Grown(word, Append(word[state], b))[n] = word[n]
          /\ Grown(word, Append(word[state], b))[FreshId] = Append(word[state], b)
      BY <2>1, <2>2
    <3>2. word' = Grown(word, Append(word[state], b))
      OBVIOUS
    <3> QED
      BY <3>1, <3>2, Zenon
  <2> QED
    BY <2>3, <2>4, <2>5
<1> HIDE DEF x
<1>6. Nodes' = Nodes \cup {k} /\ numNodes' = numNodes + 1
  <2>1. Nodes' = Nodes \cup {k}
    BY <1>4 DEF Nodes
  <2>2. Nodes' = 0 .. numNodes
    BY <1>2, <2>1
  <2>3. Cardinality(0 .. numNodes) = numNodes + 1
    BY <1>1, GrownFacts
  <2> QED
    BY <2>1, <2>2, <2>3, Zenon DEF numNodes
<1>7. v \in Seq(Bytes) /\ v # <<>> /\ word[state] \in Seq(Bytes)
  <2>1. PICK y : y = word[state]
    OBVIOUS
  <2>2. y \in Seq(Bytes)
    BY <1>1, <2>1
  <2>3. Append(y, b) \in Seq(Bytes) /\ Append(y, b) # <<>>
    BY <2>2
  <2> QED
    BY <2>1, <2>2, <2>3, Zenon
<1>8. \A n \in Nodes : word[n] # v
  <2>1. SUFFICES ASSUME NEW n \in Nodes, word[n] = v
                 PROVE  FALSE
    OBVIOUS
  <2>2. n # Root
    BY <1>1, <1>7, <2>1
  <2>3. PICK p \in Nodes, c \in Bytes : next[p][c] = n
    BY <1>1, <2>2 DEF Trie
  <2>4. word[n] = Append(word[p], c) /\ word[p] \in Seq(Bytes)
    <3>1. n # Absent /\ word[p] \in Seq(Bytes)
      BY <1>1, <2>3, ShapeFacts
    <3>2. \A m \in Nodes, d \in Bytes : next[m][d] # Absent => word[next[m][d]] = Append(word[m], d)
      BY <1>1 DEF Trie
    <3>3. word[next[p][c]] = Append(word[p], c)
      BY <2>3, <3>1, <3>2
    <3> QED
      BY <2>3, <3>1, <3>3, Zenon
  <2>5. word[p] = word[state] /\ c = b
    <3>1. PICK y, z : y = word[p] /\ z = word[state]
      OBVIOUS
    <3>2. y \in Seq(Bytes) /\ z \in Seq(Bytes) /\ Append(y, c) = Append(z, b)
      BY <1>7, <2>1, <2>4, <3>1
    <3>3. y = z /\ c = b
      BY <3>2, AppendInjective
    <3> QED
      BY <3>1, <3>3
  <2>6. p = state
    BY <1>1, <2>5 DEF Trie
  <2> QED
    BY <1>1, <2>1, <2>3, <2>5, <2>6, ShapeFacts
<1> HIDE DEF v, k
<1>9. \A n \in Nodes, c \in Bytes :
         next'[n][c] = IF n = state /\ c = b THEN k ELSE next[n][c]
  <2>1. ASSUME NEW n \in Nodes, NEW c \in Bytes
        PROVE  next'[n][c] = x[n][c]
    BY <1>4, Zenon
  <2>2. ASSUME NEW n \in Nodes, NEW c \in Bytes
        PROVE  x[n][c] = IF n = state /\ c = b THEN k ELSE next[n][c]
    BY <1>3, Zenon
  <2>3. ASSUME NEW n \in Nodes, NEW c \in Bytes
        PROVE  next'[n][c] = IF n = state /\ c = b THEN k ELSE next[n][c]
    <3>1. next'[n][c] = x[n][c]
      BY <2>1
    <3>2. x[n][c] = IF n = state /\ c = b THEN k ELSE next[n][c]
      BY <2>2
    <3> QED
      BY <3>1, <3>2, Zenon
  <2> QED
    BY <2>3
<1>10. \A c \in Bytes : next'[k][c] = Absent
  BY <1>4 DEF NoEdges
<1>11. /\ numNodes' \in Nat \ {0} /\ Nodes' = 0 .. numNodes' - 1
       /\ next' \in [Nodes' -> [Bytes -> {Absent} \cup 1 .. numNodes' - 1]]
  <2>1. numNodes' \in Nat \ {0} /\ Nodes' = 0 .. numNodes' - 1 /\ k \in 1 .. numNodes' - 1
    <3>1. PICK a, a1 : a = numNodes /\ a1 = numNodes'
      OBVIOUS
    <3>2. a \in Nat \ {0} /\ a1 = a + 1 /\ k = a
      BY <1>1, <1>6, <3>1, Zenon
    <3>3. a1 \in Nat \ {0} /\ 0 .. a1 - 1 = 0 .. a /\ k \in 1 .. a1 - 1
      BY <3>2
    <3> QED
      BY <1>2, <1>6, <3>1, <3>3, Zenon
  <2>2. \A n \in Nodes, c \in Bytes : next[n][c] \in {Absent} \cup 1 .. numNodes' - 1
    <3>1. PICK a, a1 : a = numNodes /\ a1 = numNodes'
      OBVIOUS
    <3>2. a \in Nat \ {0} /\ a1 = a + 1
      BY <1>1, <1>6, <3>1, Zenon
    <3>3. 1 .. a - 1 \subseteq 1 .. a1 - 1
      BY <3>2
    <3>4. \A n \in Nodes, c \in Bytes : next[n][c] \in {Absent} \cup 1 .. a - 1
      BY <1>1, <3>1
    <3> QED
      BY <3>1, <3>3, <3>4, Zenon
  <2>3. ASSUME NEW n \in Nodes'
        PROVE  next'[n] \in [Bytes -> {Absent} \cup 1 .. numNodes' - 1]
    <3>1. CASE n = k
      BY <1>4, <3>1 DEF NoEdges
    <3>2. CASE n \in Nodes
      <4>1. DOMAIN next'[n] = Bytes
        BY <1>3, <1>4, <3>2
      <4>2. next'[n] = [c \in Bytes |-> next'[n][c]]
        <5>1. x[n] = [c \in Bytes |-> x[n][c]]
          BY <1>1, <3>2 DEF x
        <5>2. next'[n] = x[n]
          BY <1>4, <3>2, Zenon
        <5> QED
          BY <5>1, <5>2, Zenon
      <4>3. \A c \in Bytes : next'[n][c] \in {Absent} \cup 1 .. numNodes' - 1
        BY <1>9, <2>1, <2>2, <3>2
      <4> QED
        BY <4>2, <4>3
    <3> QED
      BY <1>6, <3>1, <3>2
  <2>4. next' = [n \in Nodes' |-> next'[n]]
    BY <1>4, <1>6 DEF Grown
  <2> QED
    BY <2>1, <2>3, <2>4
<1>12. fail' \in [Nodes' -> Nodes'] /\ out' \in [Nodes' -> Seq(DOMAIN patterns)]
  <2>1. \A n \in Nodes' : fail'[n] \in Nodes' /\ out'[n] \in Seq(DOMAIN patterns)
    <3>1. Root \in Nodes' /\ <<>> \in Seq(DOMAIN patterns)
      BY <1>1, <1>6
    <3>2. \A n \in Nodes : fail[n] \in Nodes /\ out[n] \in Seq(DOMAIN patterns)
      BY <1>1
    <3> QED
      BY <1>5, <1>6, <3>1, <3>2, Zenon
  <2>2. fail' = [n \in Nodes' |-> fail'[n]] /\ out' = [n \in Nodes' |-> out'[n]]
    BY <1>5, <1>6 DEF Grown
  <2> QED
    BY <2>1, <2>2
<1>13. word' \in [Nodes' -> Seq(Bytes)]
  <2>1. \A n \in Nodes' : word'[n] \in Seq(Bytes)
    BY <1>1, <1>5, <1>6, <1>7
  <2>2. word' = [n \in Nodes' |-> word'[n]]
    BY <1>5, <1>6 DEF Grown
  <2> QED
    BY <2>1, <2>2
<1>14. Trie'
  <2>1. word'[Root] = <<>>
    BY <1>1, <1>5
  <2>2. ASSUME NEW n \in Nodes', NEW c \in Bytes, next'[n][c] # Absent
        PROVE  word'[next'[n][c]] = Append(word'[n], c)
    <3>1. n \in Nodes
      BY <1>6, <1>10, <2>2
    <3>2. CASE n = state /\ c = b
      BY <1>5, <1>9, <3>1, <3>2 DEF v
    <3>3. CASE ~(n = state /\ c = b)
      <4>1. next'[n][c] = next[n][c] /\ next[n][c] \in Nodes
        BY <1>1, <1>9, <2>2, <3>1, <3>3, ShapeFacts
      <4> QED
        <5>1. word[next[n][c]] = Append(word[n], c)
          <6>1. next[n][c] # Absent
            BY <2>2, <4>1, Zenon
          <6>2. \A m \in Nodes, d \in Bytes : next[m][d] # Absent => word[next[m][d]] = Append(word[m], d)
            BY <1>1 DEF Trie
          <6> QED
            BY <3>1, <6>1, <6>2
        <5>2. word'[next[n][c]] = word[next[n][c]] /\ word'[n] = word[n]
          BY <1>5, <3>1, <4>1, Zenon
        <5> QED
          BY <4>1, <5>1, <5>2, Zenon
    <3> QED
      BY <3>2, <3>3
  <2>3. ASSUME NEW n \in Nodes' \ {Root}
        PROVE  \E p \in Nodes', c \in Bytes : next'[p][c] = n
    <3>1. CASE n = k
      BY <1>6, <1>9, <3>1
    <3>2. CASE n \in Nodes
      <4>1. PICK p \in Nodes, c \in Bytes : next[p][c] = n
        BY <1>1, <3>2 DEF Trie
      <4>2. ~(p = state /\ c = b)
        BY <1>1, <3>2, <4>1, ShapeFacts
      <4> QED
        BY <1>6, <1>9, <4>1, <4>2
    <3> QED
      BY <1>6, <3>1, <3>2
  <2>4. ASSUME NEW m \in Nodes', NEW n \in Nodes', word'[m] = word'[n]
        PROVE  m = n
    <3>1. CASE m = k \/ n = k
      BY <1>5, <1>6, <1>8, <2>4, <3>1
    <3>2. CASE m \in Nodes /\ n \in Nodes
      BY <1>1, <1>5, <2>4, <3>2 DEF Trie
    <3> QED
      BY <1>6, <3>1, <3>2
  <2> QED
    BY <2>1, <2>2, <2>3, <2>4, Zenon DEF Trie
<1>15. Linking'
  <2>1. Sought' = Sought /\ ToSet(queue') = {} /\ ToSet(queue) = {}
    BY DEF Sought, ToSet
  <2>2. ASSUME NEW n \in Nodes'
        PROVE  IsOwn(n, out[n])'
    <3>1. CASE n = k
      <4>1. \A p \in Sought : p < pid => patterns[p] # v
        BY <1>1, <1>8 DEF Inserting
      <4>2. ToSet(<<>>) = {} /\ IsInjective(<<>>)
        BY DEF ToSet, IsInjective
      <4> QED
        BY <1>5, <2>1, <3>1, <4>1, <4>2 DEF IsOwn, IsOwnTo
    <3>2. CASE n \in Nodes
      <4>1. IsOwn(n, out[n])
        BY <1>1, <2>1, <3>2 DEF Linking
      <4>2. out'[n] = out[n] /\ word'[n] = word[n]
        BY <1>5, <3>2
      <4> QED
        BY <2>1, <4>1, <4>2 DEF IsOwn, IsOwnTo
    <3> QED
      BY <1>6, <3>1, <3>2
  <2> QED
    BY <2>1, <2>2, Zenon DEF Linking
<1> QED
  BY <1>5, <1>6, <1>11, <1>12, <1>13, <1>14, <1>15, Zenon DEF k, v

\* A byte of a pattern leads to the node that spells one byte more of it.
LEMMA InsertByteStep ==
    ASSUME AutomatonInv, InsertByte
    PROVE  AutomatonInv'
<1> DEFINE b == patterns[pid][pos + 1]
<1>1. /\ Shapes /\ Trie /\ Inserting /\ Linking /\ pc = "insert" /\ pid <= Len(patterns)
      /\ pos < Len(patterns[pid]) /\ pos' = pos + 1
      /\ UNCHANGED <<patterns, pc, pid, queue, head, byte, probe>>
      /\ UNCHANGED <<text, i, reported, stopped>>
  BY DEF AutomatonInv, InsertByte, building, scanning
<1>2. /\ queue = <<>> /\ head = 0 /\ byte = 1 /\ text = <<>> /\ i = 0 /\ reported = {}
      /\ ToSet(queue) = {} /\ pid \in DOMAIN patterns /\ pid \in Nat /\ pos \in Nat
      /\ patterns[pid] \in Seq(Bytes) /\ Len(patterns[pid]) \in Nat
      /\ word[state] = SubSeq(patterns[pid], 1, pos) /\ state \in Nodes
  BY <1>1, InsertionFacts
<1>3. pos + 1 \in 1 .. Len(patterns[pid]) /\ b \in Bytes /\ (pos + 1) - 1 = pos
  BY <1>1, <1>2
<1>4. SubSeq(patterns[pid], 1, pos + 1) = Append(word[state], b)
  <2>1. ASSUME NEW s \in Seq(Bytes), NEW j \in 1 .. Len(s)
        PROVE  SubSeq(s, 1, j) = Append(SubSeq(s, 1, j - 1), s[j])
    BY PrefixStep
  <2>2. SubSeq(patterns[pid], 1, pos + 1)
           = Append(SubSeq(patterns[pid], 1, (pos + 1) - 1), patterns[pid][pos + 1])
    BY <1>2, <1>3, <2>1, Zenon
  <2> QED
    BY <1>2, <1>3, <2>2
<1>5. Queueing' /\ Chasing' /\ Scanning'
  BY <1>1, <1>2, BeforeBuilding
<1> HIDE DEF b
\* Whichever way the node is reached.
<1>6. ASSUME state' \in Nodes', word'[state'] = Append(word[state], b),
             Nodes \subseteq Nodes', \A n \in Nodes : word'[n] = word[n]
      PROVE  Inserting'
  <2>1. pos + 1 <= Len(patterns[pid]) /\ Sought' = Sought
    BY <1>1, <1>2 DEF Sought
  <2>2. ASSUME NEW p \in Sought, p < pid
        PROVE  \E n \in Nodes' : word'[n] = patterns[p]
    <3>1. PICK n \in Nodes : word[n] = patterns[p]
      BY <1>1, <2>2 DEF Inserting
    <3> QED
      BY <1>6, <3>1
  <2>3. word'[state'] = SubSeq(patterns[pid], 1, pos + 1)
    BY <1>4, <1>6
  <2> QED
    BY <1>1, <1>2, <2>1, <2>2, <2>3, Zenon DEF Inserting
<1>7. CASE next[state][b] # Absent /\ state' = next[state][b] /\ UNCHANGED <<nodes, word>>
  <2>1. UNCHANGED <<next, fail, out, word>> /\ Nodes' = Nodes /\ numNodes' = numNodes
    BY <1>1, <1>7, WordsFixed DEF nodes
  <2>2. state' \in Nodes /\ word[state'] = Append(word[state], b)
    BY <1>1, <1>2, <1>3, <1>7, ShapeFacts DEF Trie
  <2>3. pos' \in Nat
    BY <1>1, <1>2
  <2>4. Shapes'
    BY <1>1, <2>1, <2>2, <2>3, Zenon DEF Shapes
  <2>5. Trie'
    BY <1>1, <2>1, WordsFixed
  <2>6. Inserting'
    BY <1>6, <2>1, <2>2
  <2>7. Linking'
    BY <1>1, <2>1, LinkingKept
  <2> QED
    BY <1>5, <2>4, <2>5, <2>6, <2>7 DEF AutomatonInv
<1>8. CASE /\ next[state][b] = Absent /\ state' = FreshId
           /\ next' = Grown([next EXCEPT ![state][b] = FreshId], NoEdges)
           /\ fail' = Grown(fail, Root) /\ out' = Grown(out, <<>>)
           /\ word' = Grown(word, Append(word[state], b))
  <2>1. /\ numNodes' \in Nat \ {0} /\ Nodes' = 0 .. numNodes' - 1
        /\ next' \in [Nodes' -> [Bytes -> {Absent} \cup 1 .. numNodes' - 1]]
        /\ fail' \in [Nodes' -> Nodes'] /\ out' \in [Nodes' -> Seq(DOMAIN patterns)]
        /\ word' \in [Nodes' -> Seq(Bytes)]
        /\ FreshId \in Nodes' /\ Nodes \subseteq Nodes'
        /\ \A n \in Nodes : word'[n] = word[n]
        /\ word'[FreshId] = Append(word[state], b)
        /\ Trie' /\ Linking'
    <3>1. UNCHANGED <<patterns, pid, queue>>
      BY <1>1
    <3> QED
      BY <1>1, <1>2, <1>3, <1>8, <3>1, NewNode, Zenon
  <2>2. Inserting'
    BY <1>6, <1>8, <2>1, Zenon
  <2>3. Shapes'
    <3>1. /\ patterns \in PatternLists /\ pc \in Phases
          /\ pid \in 1 .. Len(patterns) + 1 /\ pos' \in Nat
          /\ probe \in Nodes /\ byte \in 1 .. NumBytes + 1
          /\ text \in Seq(Bytes) /\ i \in 0 .. Len(text)
      BY <1>1, <1>2 DEF Shapes
    <3>2. queue' \in Seq(Nodes' \ {Root}) /\ head' \in 0 .. Len(queue')
      BY <1>1, <1>2
    <3>3. state' \in Nodes' /\ probe' \in Nodes'
      BY <1>1, <1>8, <2>1, <3>1, Zenon
    <3> QED
      BY <1>1, <2>1, <3>1, <3>2, <3>3, Zenon DEF Shapes
  <2> QED
    BY <1>5, <2>1, <2>2, <2>3 DEF AutomatonInv
<1> QED
  BY <1>7, <1>8, Zenon DEF InsertByte, b

\* Every step of the automaton keeps the invariant.
LEMMA AutomatonInvStep == ASSUME AutomatonInv, [Next]_vars PROVE AutomatonInv'
<1>1. CASE UNCHANGED vars
  <2>1. /\ UNCHANGED <<patterns, next, fail, out, pc, pid, pos, state, queue, head, byte, probe>>
        /\ UNCHANGED <<text, i, reported, stopped, word>>
        /\ Shapes /\ Trie /\ Inserting /\ Queueing /\ Linking /\ Chasing /\ Scanning
    BY <1>1 DEF AutomatonInv, vars, nodes, insertion, building, scanning
  <2>2. /\ Nodes' = Nodes /\ numNodes' = numNodes /\ Sought' = Sought /\ Current' = Current
        /\ \A n : Depth(n)' = Depth(n)
        /\ \A w, k : SuffixesTo(w, k)' = SuffixesTo(w, k)
        /\ \A w, k, b, n : Reaches(w, k, b, n)' = Reaches(w, k, b, n)
        /\ \A k : Scanned(k)' = Scanned(k)
    BY <2>1, WordsFixed DEF Current, Scanned
  <2>3. Shapes' /\ Inserting'
    BY <2>1, <2>2, Zenon DEF Shapes, Inserting
  <2>4. Trie' /\ Linking'
    BY <2>1, WordsFixed, LinkingKept
  <2>5. Queueing'
    <3>1. \A n, b : Visited(n, b)' = Visited(n, b)
      BY <2>1 DEF Visited, Current
    <3> QED
      BY <2>1, <2>2, <3>1, Zenon DEF Queueing
  <2>6. Chasing'
    BY <2>1, <2>2, Zenon DEF Chasing
  <2>7. Scanning'
    <3>1. Occurrences(i)' = Occurrences(i)
      BY <2>1, <2>2 DEF Occurrences
    <3> QED
      BY <2>1, <2>2, <3>1, Zenon DEF Scanning
  <2> QED
    BY <2>3, <2>4, <2>5, <2>6, <2>7 DEF AutomatonInv
<1>2. ASSUME NEW t \in Texts, Search(t) PROVE AutomatonInv'
  BY <1>2, SearchStep
<1>3. CASE Next
  BY <1>2, <1>3, InsertByteStep, InsertEndStep, StartFailuresStep, RootByteStep, RootEndStep,
     SkipByteStep, StartChaseStep, FollowFailureStep, LinkChildStep, EndNodeStep, BuiltStep,
     ScanFailStep, ScanByteStep, ScanEndStep, Zenon DEF Next
<1> QED
  BY <1>1, <1>3

\* The inductive invariant holds in every behaviour, for any list of patterns and
\* however often the automaton is asked to scan.
THEOREM AutomatonInvariant == Spec => []AutomatonInv
<1>1. Init => AutomatonInv
  BY InitHolds
<1>2. AutomatonInv /\ [Next]_vars => AutomatonInv'
  BY AutomatonInvStep
<1> QED
  BY <1>1, <1>2, PTL DEF Spec

-----------------------------------------------------------------------------
\* Every variable has its type: an edge leads to a node of the table and never to
\* the root, a failure link to a node, and the queue is never read past its end
\* (aho_corasick.go 3-40, 50-91 and 93-117).
THEOREM AutomatonTypes == Spec => []TypeOK
<1>1. ASSUME AutomatonInv PROVE TypeOK
  <2>1. Shapes
    BY <1>1 DEF AutomatonInv
  <2>2. /\ patterns \in Seq(Seq(Bytes)) /\ queue \in Seq(Nodes \ {Root})
        /\ out \in [Nodes -> Seq(DOMAIN patterns)]
    BY <2>1, ShapeFacts DEF Shapes
  <2>3. ToSet(patterns) \subseteq Seq(Bytes)
    BY <2>2 DEF ToSet
  <2>4. \A n \in Nodes : ToSet(out[n]) \subseteq DOMAIN patterns
    <3>1. ASSUME NEW S, NEW s \in Seq(S)
          PROVE  ToSet(s) \subseteq S
      BY DEF ToSet
    <3> QED
      BY <2>2, <3>1
  <2>5. ToSet(queue) \subseteq Nodes
    BY <2>1, QueueFacts
  <2> QED
    BY <2>1, <2>3, <2>4, <2>5 DEF TypeOK, Shapes, Phases
<1> QED
  BY <1>1, AutomatonInvariant, PTL

\* Once a node is queued its failure link is the longest proper suffix of its word
\* that is in the trie, for any patterns: also of a node whose own failure chain
\* was linked only a level before (aho_corasick.go 50-91).
THEOREM FailuresAreLongest == Spec => []FailuresLongest
<1>1. ASSUME AutomatonInv PROVE FailuresLongest
  <2>1. Shapes /\ Linking
    BY <1>1 DEF AutomatonInv
  <2>2. SUFFICES ASSUME NEW n \in Linked \ {Root}
                 PROVE  /\ fail[n] \in SuffixNodes(word[n])
                        /\ \A m \in SuffixNodes(word[n]) : Len(word[m]) <= Len(word[fail[n]])
    BY DEF FailuresLongest
  <2>3. n \in ToSet(queue) /\ n \in Nodes
    BY <2>1, <2>2, QueueFacts DEF Linked
  <2>4. IsFailure(n, fail[n])
    BY <2>1, <2>3 DEF Linking
  <2>5. SuffixNodes(word[n]) = SuffixesTo(word[n], Depth(n) - 1)
    <3>1. \A m \in Nodes : Depth(m) \in Nat
      BY <2>1, ShapeFacts
    <3>2. \A m \in Nodes : Depth(m) < Depth(n) <=> Depth(m) <= Depth(n) - 1
      BY <2>3, <3>1
    <3>3. SuffixNodes(word[n]) = {m \in Nodes : Depth(m) < Depth(n) /\ EndsWith(word[n], word[m])}
      BY DEF SuffixNodes, Depth
    <3> QED
      BY <3>2, <3>3 DEF SuffixesTo
  <2> QED
    BY <2>4, <2>5 DEF IsFailure, Depth
<1> QED
  BY <1>1, AutomatonInvariant, PTL

\* A linked node reports each pattern that its word ends with exactly once: a
\* pattern that ends inside a longer one is found there too, and none is reported
\* twice when the same literal was given twice (aho_corasick.go 37 and 83-86).
THEOREM ReportsComplete == Spec => []OutputsComplete
<1>1. ASSUME AutomatonInv PROVE OutputsComplete
  <2>1. Shapes /\ Trie /\ Linking
    BY <1>1 DEF AutomatonInv
  <2>2. \A n \in Linked : IsReport(n, out[n])
    BY <2>1, RootReport DEF Linking, Linked
  <2> QED
    BY <2>2 DEF OutputsComplete, IsReport
<1> QED
  BY <1>1, AutomatonInvariant, PTL

\* A scan reports exactly the occurrences of the patterns in the part of the text
\* it has read, and a stopped one only such: for any text, any patterns and
\* wherever visit stops it (aho_corasick.go 93-117).
THEOREM ScansExact == Spec => []ScanExact
<1>1. AutomatonInv => ScanExact
  BY DEF AutomatonInv, Scanning, ScanExact
<1> QED
  BY <1>1, AutomatonInvariant, PTL
=============================================================================
