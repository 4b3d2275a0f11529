------------------------ MODULE ParseClustersProofs ------------------------
(***************************************************************************)
(* Whatever the lines, their keys, the workers and the parses before: every *)
(* line finds its row, rows weigh what their texts occur, the groups are    *)
(* the classes of equal keys in row order, and a parse returns the answer   *)
(* its lines determine.                                                     *)
(***************************************************************************)
EXTENDS ParseClusters, BasicLemmas

\* What a group, and an element of the mask buffer, are.
Groups == [rows : Seq(Nat), indices : Seq(Nat)]
AreGroups(g) == g \in [DOMAIN g -> Groups]
AnyMask == {Abstract!NoMask} \cup (Messages \X SUBSET Messages)

\* The types, as sets of sequences and functions.
Shapes ==
    /\ request \in Requests
    /\ workers \in 1 .. MaxWorkers
    /\ pc \in Phases
    /\ next \in 1 .. MaxLines + 1
    /\ DOMAIN lineIndex \subseteq Messages
    /\ lineIndex \in [DOMAIN lineIndex -> 1 .. MaxLines]
    /\ uniqueMsgs \in Seq(Messages) /\ Len(uniqueMsgs) <= MaxLines
    /\ counts \in Seq(Nat) /\ Len(counts) = Len(uniqueMsgs)
    /\ rowOf \in Seq(0 .. MaxLines)
    /\ rowPos \in Seq(0 .. MaxLines)
    /\ at \in [Workers -> 1 .. MaxLines + 1]
    /\ arena \in [Workers -> Seq(Keys)]
    /\ DOMAIN merged \subseteq Keys
    /\ AreGroups(merged)
    /\ rowGroup \in Seq(Keys)
    /\ todo \in Seq(Keys)
    /\ cid \in Nat
    /\ clusters \in Seq(Int)
    /\ masks \in Seq(AnyMask)
    /\ templates \in Seq(SUBSET Messages)
    /\ parses \in 0 .. MaxParses

\* The lines among the first m that have a text.
Occurrences(ls, m, text) == {k \in 1 .. m : ls[k] = text}

\* The first m lines are deduplicated into the index, rows, counts and rowOf.
IsDedup(ls, m, index, rows, weights, rowsOf) ==
    /\ \A i, j \in 1 .. Len(rows) : rows[i] = rows[j] => i = j
    /\ DOMAIN index = {rows[i] : i \in 1 .. Len(rows)}
    /\ \A i \in 1 .. Len(rows) : index[rows[i]] = i
    /\ \A k \in 1 .. m : rowsOf[k] \in 1 .. Len(rows) /\ rows[rowsOf[k]] = ls[k]
    /\ \A i \in 1 .. Len(rows) : \E k \in 1 .. m : ls[k] = rows[i]
    /\ \A i \in 1 .. Len(rows) :
          weights[i] = Cardinality(Occurrences(ls, m, rows[i]))
    /\ Len(rows) <= m

Dedup ==
    /\ pc = "dedup" =>
          /\ next <= numLines + 1
          /\ IsDedup(request.lines, next - 1, lineIndex, uniqueMsgs, counts, rowOf)
    /\ pc \in {"keys", "merge", "index", "emit"} =>
          IsDedup(request.lines, numLines, lineIndex, uniqueMsgs, counts, rowOf)
    /\ pc \in {"dedup", "keys", "merge", "index", "emit"} =>
          numLines # 0 /\ numLines <= Len(rowOf)

\* A shard's arena holds the keys of its rows up to the one it is at.
Arenas ==
    /\ pc \in {"keys", "merge"} /\ workers > 1 =>
          \A w \in Active :
             /\ at[w] \in ShardLo(numRows, workers, w) + 1 .. ShardHi(numRows, workers, w) + 1
             /\ Len(arena[w]) = at[w] - ShardLo(numRows, workers, w) - 1
             /\ \A j \in 1 .. Len(arena[w]) :
                   arena[w][j] = KeyOfRow(ShardLo(numRows, workers, w) + j)
    /\ pc = "merge" =>
          /\ workers > 1
          /\ \A w \in Active : at[w] > ShardHi(numRows, workers, w)

\* The rows given a group so far are divided among the groups by their keys.
IsGrouping(rows, key, groups, given) ==
    /\ \A r \in 1 .. Len(given) : given[r] = key[rows[r]]
    /\ DOMAIN groups = {given[r] : r \in 1 .. Len(given)}
    /\ \A k \in DOMAIN groups :
          /\ Ascends(groups[k].rows)
          /\ ToSet(groups[k].rows) = {r \in 1 .. Len(given) : given[r] = k}

\* The first m lines have their index in the group of their row.
IsIndexed(m, groups, given, rowsOf) ==
    \A k \in DOMAIN groups :
       /\ Ascends(groups[k].indices)
       /\ ToSet(groups[k].indices) = {j \in 1 .. m : given[rowsOf[j]] = k}

Grouping ==
    /\ pc # "emit" => cid = 0
    /\ pc \in {"idle", "called", "dedup"} => rowGroup = <<>> /\ DOMAIN merged = {}
    /\ pc \in {"keys", "merge"} =>
          /\ Len(rowGroup) <= numRows /\ next = Len(rowGroup) + 1
          /\ IsIndexed(0, merged, rowGroup, rowOf)
    /\ pc \in {"index", "emit"} => Len(rowGroup) = numRows
    /\ pc = "index" =>
          next <= numLines + 1 /\ IsIndexed(next - 1, merged, rowGroup, rowOf)
    /\ pc = "emit" => IsIndexed(numLines, merged, rowGroup, rowOf)
    /\ pc \in {"keys", "merge", "index", "emit"} =>
          IsGrouping(uniqueMsgs, request.key, merged, rowGroup)

\* The keys whose groups are emitted, and what is emitted for them.
Done == DOMAIN merged \ ToSet(todo)

IsQueue(keys, left) ==
    /\ Ascends(left)
    /\ ToSet(left) \subseteq keys
    /\ \A d \in keys \ ToSet(left), t \in ToSet(left) : d < t

ClustersGood(r, done, out) ==
    /\ Len(r.lines) <= Len(out)
    /\ \A k \in 1 .. Len(r.lines) :
          out[k] = IF r.key[r.lines[k]] \in done \ {0}
                     THEN Abstract!ClusterOf(r, r.lines[k]) ELSE -1

MasksGood(r, done, out) ==
    /\ Len(r.lines) <= Len(out)
    /\ \A k \in 1 .. Len(r.lines) :
          out[k] = IF r.key[r.lines[k]] \in done \ {0}
                     THEN <<r.lines[k], Abstract!Sharing(r, r.key[r.lines[k]])>>
                     ELSE Abstract!NoMask

TemplatesGood(r, n, out) ==
    IF r.templates
      THEN /\ Len(out) = n
           /\ \A c \in 1 .. n :
                 out[c] = {m \in Abstract!LinesOf(r) : Abstract!ClusterOf(r, m) = c - 1}
      ELSE out = <<>>

Emitting ==
    pc = "emit" =>
        /\ IsQueue(DOMAIN merged, todo)
        /\ cid = Cardinality(Done \ {0})
        /\ ClustersGood(request, Done, clusters)
        /\ TemplatesGood(request, cid, templates)
        /\ request.masks => MasksGood(request, Done, masks) /\ numRows <= Len(rowPos)

\* The inductive invariant.
ParseInv == Shapes /\ Dedup /\ Arenas /\ Grouping /\ Emitting

-----------------------------------------------------------------------------
\* A number above all of an ascending sequence can be appended to it.
LEMMA AppendAscends ==
    ASSUME NEW s \in Seq(Nat), NEW y \in Nat, Ascends(s), \A x \in ToSet(s) : x < y
    PROVE  /\ Append(s, y) \in Seq(Nat)
           /\ Ascends(Append(s, y))
           /\ ToSet(Append(s, y)) = ToSet(s) \cup {y}
<1> DEFINE t == Append(s, y)
           n == Len(s)
<1>1. /\ n \in Nat /\ t \in Seq(Nat) /\ DOMAIN s = 1 .. n /\ DOMAIN t = 1 .. n + 1
      /\ t[n + 1] = y /\ \A i \in 1 .. n : t[i] = s[i]
  OBVIOUS
<1> HIDE DEF t, n
<1>2. \A i \in 1 .. n : s[i] < y
  BY <1>1 DEF ToSet
<1>3. ASSUME NEW j \in DOMAIN t, NEW k \in DOMAIN t, j < k
      PROVE  t[j] < t[k]
  <2>1. j \in 1 .. n
    BY <1>1, <1>3
  <2>2. CASE k = n + 1
    BY <1>1, <1>2, <2>1, <2>2
  <2>3. CASE k # n + 1
    <3>1. k \in 1 .. n
      BY <1>1, <2>3
    <3> QED
      BY <1>1, <1>3, <2>1, <3>1 DEF Ascends
  <2> QED
    BY <2>2, <2>3
<1>4. ToSet(t) = ToSet(s) \cup {y}
  <2>1. ASSUME NEW x \in ToSet(t)
        PROVE  x \in ToSet(s) \cup {y}
    <3>1. PICK i \in 1 .. n + 1 : x = t[i]
      BY <1>1 DEF ToSet
    <3>2. CASE i = n + 1
      BY <1>1, <3>1, <3>2
    <3>3. CASE i # n + 1
      <4>1. i \in 1 .. n
        BY <1>1, <3>3
      <4> QED
        BY <1>1, <3>1, <4>1 DEF ToSet
    <3> QED
      BY <3>2, <3>3
  <2>2. ASSUME NEW x \in ToSet(s) \cup {y}
        PROVE  x \in ToSet(t)
    <3>1. n + 1 \in 1 .. n + 1 /\ \A i \in 1 .. n : i \in 1 .. n + 1
      BY <1>1
    <3> QED
      BY <1>1, <2>2, <3>1, Zenon DEF ToSet
  <2> QED
    BY <2>1, <2>2
<1> QED
  BY <1>1, <1>3, <1>4, Zenon DEF t, Ascends

\* Sorting a finite set of keys lists all of them in ascending order.
LEMMA SortedFacts ==
    ASSUME NEW S \in SUBSET Nat, IsFiniteSet(S)
    PROVE  /\ Sorted(S) \in Seq(S)
           /\ Ascends(Sorted(S))
           /\ ToSet(Sorted(S)) = S
<1>1. PICK s : s = Sorted(S)
  OBVIOUS
<1>2. s \in Seq(S) /\ Ascends(s) /\ ToSet(s) = S
  BY <1>1, AscendingChosen, Zenon DEF Sorted
<1> QED
  BY <1>1, <1>2

-----------------------------------------------------------------------------
\* A request is lines with their keys; it has finitely many keys.
LEMMA RequestFacts ==
    ASSUME NEW r \in Requests
    PROVE  /\ r.lines \in Seq(Messages) /\ Len(r.lines) \in 0 .. MaxLines
           /\ DOMAIN r.lines = 1 .. Len(r.lines)
           /\ \A k \in 1 .. Len(r.lines) : r.lines[k] \in Abstract!LinesOf(r) /\ r.lines[k] \in Messages
           /\ r.key \in [Abstract!LinesOf(r) -> Keys]
           /\ \A m \in Abstract!LinesOf(r) : r.key[m] \in Keys /\ r.key[m] \in Nat
           /\ r.templates \in BOOLEAN /\ r.masks \in BOOLEAN
           /\ IsFiniteSet(Abstract!UsedKeys(r)) /\ Abstract!UsedKeys(r) \subseteq Nat
<1>1. /\ r.lines \in Seq(Messages) /\ Len(r.lines) <= MaxLines
      /\ r.key \in [Abstract!LinesOf(r) -> Keys]
      /\ r.templates \in BOOLEAN /\ r.masks \in BOOLEAN
  BY ParseClustersAssumption DEF Abstract!IsRequest
<1>2. Len(r.lines) \in Nat /\ DOMAIN r.lines = 1 .. Len(r.lines)
  BY <1>1
<1>3. \A k \in 1 .. Len(r.lines) : r.lines[k] \in Abstract!LinesOf(r) /\ r.lines[k] \in Messages
  BY <1>1, <1>2 DEF Abstract!LinesOf
<1>4. \A m \in Abstract!LinesOf(r) : r.key[m] \in Keys /\ r.key[m] \in Nat
  BY <1>1, ParseClustersAssumption
<1>5. IsFiniteSet(Abstract!LinesOf(r))
  BY <1>2, CountFromOne, RangeBound DEF Abstract!LinesOf
<1>6. IsFiniteSet({r.key[m] : m \in Abstract!LinesOf(r)})
  BY <1>1, <1>5, RangeBound, DOMAIN r.key = Abstract!LinesOf(r)
<1>7. IsFiniteSet(Abstract!UsedKeys(r))
  BY <1>6, FS_RemoveElement DEF Abstract!UsedKeys
<1>8. Abstract!UsedKeys(r) \subseteq Nat
  BY <1>4 DEF Abstract!UsedKeys
<1> QED
  BY <1>1, <1>2, <1>3, <1>4, <1>7, <1>8, ParseClustersAssumption

\* One line more is counted for its own text and for no other.
LEMMA CountNext ==
    ASSUME NEW ls, NEW m \in Nat, NEW x
    PROVE  /\ Cardinality(Occurrences(ls, m, x)) \in Nat
           /\ ls[m + 1] = x => Cardinality(Occurrences(ls, m + 1, x))
                                 = Cardinality(Occurrences(ls, m, x)) + 1
           /\ ls[m + 1] # x => Occurrences(ls, m + 1, x) = Occurrences(ls, m, x)
<1> DEFINE C == Occurrences(ls, m, x)
           D == Occurrences(ls, m + 1, x)
<1>1. IsFiniteSet(C) /\ Cardinality(C) \in Nat
  BY CountFromOne, FS_Subset, FS_CardinalityType, C \in SUBSET (1 .. m) DEF Occurrences
<1>2. /\ m + 1 \notin 1 .. m
      /\ \A k : k \in 1 .. m + 1 <=> (k \in 1 .. m \/ k = m + 1)
  BY IntervalNext
<1>3. ASSUME ls[m + 1] = x
      PROVE  Cardinality(D) = Cardinality(C) + 1
  <2>1. D = C \cup {m + 1} /\ m + 1 \notin C
    BY <1>2, <1>3, Zenon DEF Occurrences
  <2> HIDE DEF C, D
  <2>2. Cardinality(C \cup {m + 1}) = Cardinality(C) + 1
    BY <1>1, <2>1, FS_AddElement
  <2> QED
    BY <2>1, <2>2
<1>4. ASSUME ls[m + 1] # x
      PROVE  D = C
  BY <1>2, <1>4, Zenon DEF Occurrences
<1> QED
  BY <1>1, <1>3, <1>4, Zenon

\* A line whose text has a row is counted there.
LEMMA DedupOld ==
    ASSUME NEW ls, NEW m \in Nat, NEW index, NEW rows \in Seq(Messages),
           NEW weights \in Seq(Nat), Len(weights) = Len(rows),
           NEW rowsOf \in Seq(Nat), m + 1 <= Len(rowsOf),
           IsDedup(ls, m, index, rows, weights, rowsOf),
           ls[m + 1] \in DOMAIN index
    PROVE  LET i == index[ls[m + 1]]
           IN  /\ i \in 1 .. Len(rows)
               /\ IsDedup(ls, m + 1, index, rows, [weights EXCEPT ![i] = @ + 1],
                          [rowsOf EXCEPT ![m + 1] = i])
<1> DEFINE i == index[ls[m + 1]]
           w == [weights EXCEPT ![i] = @ + 1]
           o == [rowsOf EXCEPT ![m + 1] = i]
           n == Len(rows)
<1>1. PICK j \in 1 .. n : ls[m + 1] = rows[j]
  BY DEF IsDedup
<1>2. i = j /\ n \in Nat
  <2>1. index[rows[j]] = j
    BY <1>1, Zenon DEF IsDedup
  <2> QED
    BY <1>1, <2>1
<1>3. /\ DOMAIN weights = 1 .. n /\ w[i] = weights[i] + 1
      /\ \A k \in 1 .. n : k # i => w[k] = weights[k]
  BY <1>1, <1>2
<1>4. o[m + 1] = i /\ \A k \in 1 .. m : o[k] = rowsOf[k] /\ k \in 1 .. m + 1 /\ k # m + 1
  OBVIOUS
<1>5. \A k \in 1 .. m + 1 : k \in 1 .. m \/ k = m + 1
  OBVIOUS
<1> HIDE DEF i, w, o, n
<1>6. \A k \in 1 .. m + 1 : o[k] \in 1 .. n /\ rows[o[k]] = ls[k]
  BY <1>1, <1>2, <1>4, <1>5, Zenon DEF IsDedup, n
<1>7. \A k \in 1 .. n : \E l \in 1 .. m + 1 : ls[l] = rows[k]
  BY <1>4, Zenon DEF IsDedup, n
<1>8. ASSUME NEW k \in 1 .. n
      PROVE  w[k] = Cardinality(Occurrences(ls, m + 1, rows[k]))
  <2>1. weights[k] = Cardinality(Occurrences(ls, m, rows[k]))
    BY DEF IsDedup, n
  <2>2. CASE k = i
    <3>1. ls[m + 1] = rows[k]
      BY <1>1, <1>2, <2>2
    <3>2. Cardinality(Occurrences(ls, m + 1, rows[k]))
            = Cardinality(Occurrences(ls, m, rows[k])) + 1
      BY <3>1, CountNext, Zenon
    <3> QED
      BY <1>3, <2>1, <2>2, <3>2, Zenon
  <2>3. CASE k # i
    <3>1. ls[m + 1] # rows[k]
      BY <1>1, <1>2, <2>3 DEF IsDedup, n
    <3>2. Occurrences(ls, m + 1, rows[k]) = Occurrences(ls, m, rows[k])
      BY <3>1, CountNext, Zenon
    <3> QED
      BY <1>3, <2>1, <2>3, <3>2, Zenon
  <2> QED
    BY <2>2, <2>3
<1>9. n <= m + 1
  BY <1>2 DEF IsDedup, n
<1>10. IsDedup(ls, m + 1, index, rows, w, o)
  BY <1>6, <1>7, <1>8, <1>9, Zenon DEF IsDedup, n
<1> QED
  BY <1>1, <1>2, <1>10, Zenon DEF i, w, o, n

\* A line with a new text gets a row of its own.
LEMMA DedupNew ==
    ASSUME NEW ls, NEW m \in Nat, NEW index, NEW rows \in Seq(Messages),
           NEW weights \in Seq(Nat), Len(weights) = Len(rows),
           NEW rowsOf \in Seq(Nat), m + 1 <= Len(rowsOf),
           IsDedup(ls, m, index, rows, weights, rowsOf),
           ls[m + 1] \in Messages, ls[m + 1] \notin DOMAIN index
    PROVE  LET i == Len(rows) + 1
           IN  IsDedup(ls, m + 1, With(index, ls[m + 1], i), Append(rows, ls[m + 1]),
                       Append(weights, 1), [rowsOf EXCEPT ![m + 1] = i])
<1> DEFINE n == Len(rows)
           i == n + 1
           x == ls[m + 1]
           d == With(index, x, i)
           u == Append(rows, x)
           w == Append(weights, 1)
           o == [rowsOf EXCEPT ![m + 1] = i]
<1>1. /\ n \in Nat /\ Len(u) = n + 1 /\ u[n + 1] = x /\ w[n + 1] = 1
      /\ \A k \in 1 .. n : u[k] = rows[k] /\ w[k] = weights[k]
  OBVIOUS
<1>2. /\ DOMAIN d = DOMAIN index \cup {x} /\ d[x] = i
      /\ \A k \in DOMAIN index : k # x => d[k] = index[k]
  BY DEF With
<1>3. o[m + 1] = i /\ \A k \in 1 .. m : o[k] = rowsOf[k] /\ k \in 1 .. m + 1 /\ k # m + 1
  OBVIOUS
<1>4. /\ \A k : k \in 1 .. m + 1 <=> k \in 1 .. m \/ k = m + 1
      /\ \A k : k \in 1 .. n + 1 <=> k \in 1 .. n \/ k = n + 1
      /\ n + 1 \notin 1 .. n /\ m + 1 \notin 1 .. m
  <2> HIDE DEF n
  <2> QED
    BY <1>1, IntervalNext, Zenon
<1>5. \A k \in 1 .. n : rows[k] # x /\ rows[k] \in DOMAIN index
  BY DEF IsDedup
<1>6. \A k \in 1 .. m : ls[k] # x
  <2> TAKE k \in 1 .. m
  <2>1. rowsOf[k] \in 1 .. n /\ rows[rowsOf[k]] = ls[k]
    BY DEF IsDedup
  <2> QED
    BY <1>5, <2>1
<1> HIDE DEF d, u, w, o, n, x
<1>7. \A j, k \in 1 .. n + 1 : u[j] = u[k] => j = k
  <2> TAKE j, k \in 1 .. n + 1
  <2>1. \A a, b \in 1 .. n : rows[a] = rows[b] => a = b
    BY DEF IsDedup, n
  <2>2. CASE j = n + 1
    <3>1. u[j] = x /\ \A a \in 1 .. n : u[a] # x
      BY <1>1, <1>5, <2>2, Zenon
    <3>2. k \in 1 .. n \/ k = n + 1
      BY <1>4, Zenon
    <3> QED
      BY <2>2, <3>1, <3>2, Zenon
  <2>3. CASE j # n + 1
    <3>1. j \in 1 .. n /\ u[j] = rows[j] /\ rows[j] # x
      BY <1>1, <1>4, <1>5, <2>3, Zenon
    <3> QED
      BY <1>1, <1>4, <2>1, <3>1, Zenon
  <2> QED
    BY <2>2, <2>3
<1>8. DOMAIN d = {u[k] : k \in 1 .. n + 1}
  <2>1. DOMAIN index = {rows[k] : k \in 1 .. n}
    BY DEF IsDedup, n
  <2>2. \A k \in 1 .. n : u[k] \in DOMAIN d
    BY <1>1, <1>2, <2>1, Zenon
  <2>3. \A y \in DOMAIN index : \E k \in 1 .. n : u[k] = y
    BY <1>1, <2>1, Zenon
  <2> QED
    <3>1. ASSUME NEW y \in DOMAIN d
          PROVE  \E k \in 1 .. n + 1 : y = u[k]
      BY <1>1, <1>2, <1>4, <2>3, Zenon
    <3>2. u[n + 1] \in DOMAIN d
      BY <1>1, <1>2, Zenon
    <3>3. \A k \in 1 .. n + 1 : u[k] \in DOMAIN d
      BY <1>4, <2>2, <3>2, Zenon
    <3> QED
      BY <3>1, <3>3, Zenon
<1>9. \A k \in 1 .. n + 1 : d[u[k]] = k
  <2>1. \A k \in 1 .. n : index[rows[k]] = k
    BY DEF IsDedup, n
  <2>2. \A k \in 1 .. n : d[rows[k]] = k
    BY <1>2, <1>5, <2>1, Zenon
  <2>3. \A k \in 1 .. n : d[u[k]] = k
    BY <1>1, <2>2, Zenon
  <2>4. d[u[n + 1]] = n + 1
    BY <1>1, <1>2
  <2> QED
    BY <1>4, <2>3, <2>4, Zenon
<1>10. \A k \in 1 .. m + 1 : o[k] \in 1 .. n + 1 /\ u[o[k]] = ls[k]
  <2>1. \A k \in 1 .. m : rowsOf[k] \in 1 .. n /\ rows[rowsOf[k]] = ls[k]
    BY DEF IsDedup, n
  <2>2. ASSUME NEW k \in 1 .. m
        PROVE  o[k] \in 1 .. n + 1 /\ u[o[k]] = ls[k]
    <3>1. o[k] = rowsOf[k] /\ rowsOf[k] \in 1 .. n /\ rows[rowsOf[k]] = ls[k]
      BY <1>3, <2>1, Zenon
    <3>2. u[rowsOf[k]] = rows[rowsOf[k]] /\ rowsOf[k] \in 1 .. n + 1
      BY <1>1, <1>4, <3>1, Zenon
    <3> QED
      BY <3>1, <3>2, Zenon
  <2>3. o[m + 1] \in 1 .. n + 1 /\ u[o[m + 1]] = ls[m + 1]
    BY <1>1, <1>3, <1>4, Zenon DEF x
  <2> QED
    BY <1>4, <2>2, <2>3, Zenon
<1>11. \A k \in 1 .. n + 1 : \E l \in 1 .. m + 1 : ls[l] = u[k]
  <2>1. \A k \in 1 .. n : \E l \in 1 .. m : ls[l] = rows[k]
    BY DEF IsDedup, n
  <2> QED
    BY <1>1, <1>4, <2>1, Zenon DEF x
<1>12. ASSUME NEW k \in 1 .. n + 1
       PROVE  w[k] = Cardinality(Occurrences(ls, m + 1, u[k]))
  <2>1. CASE k = n + 1
    <3>1. Occurrences(ls, m, x) = {}
      BY <1>6 DEF Occurrences
    <3>2. Cardinality(Occurrences(ls, m + 1, x)) = Cardinality(Occurrences(ls, m, x)) + 1
      BY CountNext, Zenon DEF x
    <3>3. Cardinality({}) + 1 = 1
      BY FS_EmptySet
    <3> QED
      BY <1>1, <2>1, <3>1, <3>2, <3>3, Zenon
  <2>2. CASE k # n + 1
    <3>1. k \in 1 .. n
      BY <1>4, <2>2
    <3>2. weights[k] = Cardinality(Occurrences(ls, m, rows[k]))
      BY <3>1 DEF IsDedup, n
    <3>3. ls[m + 1] # rows[k]
      BY <1>5, <3>1 DEF x
    <3>4. Occurrences(ls, m + 1, rows[k]) = Occurrences(ls, m, rows[k])
      BY <3>3, CountNext, Zenon
    <3> QED
      BY <1>1, <3>1, <3>2, <3>4, Zenon
  <2> QED
    BY <2>1, <2>2
<1>13. n + 1 <= m + 1
  BY <1>1 DEF IsDedup, n
<1>14. IsDedup(ls, m + 1, d, u, w, o)
  BY <1>1, <1>7, <1>8, <1>9, <1>10, <1>11, <1>12, <1>13, Zenon DEF IsDedup
<1> QED
  BY <1>14, Zenon DEF d, u, w, o, n, x

-----------------------------------------------------------------------------
\* The groups with the rows, or the indices, of one replaced.
WithRows(groups, y, s) == [groups EXCEPT ![y].rows = s]
WithIndices(groups, y, s) == [groups EXCEPT ![y].indices = s]

\* They replace that field of that group and nothing else.
LEMMA GroupExcept ==
    ASSUME NEW groups, AreGroups(groups),
           NEW y \in DOMAIN groups, NEW s \in Seq(Nat)
    PROVE  /\ DOMAIN WithRows(groups, y, s) = DOMAIN groups
           /\ AreGroups(WithRows(groups, y, s))
           /\ WithRows(groups, y, s)[y].rows = s
           /\ WithRows(groups, y, s)[y].indices = groups[y].indices
           /\ \A k \in DOMAIN groups : k # y => WithRows(groups, y, s)[k] = groups[k]
           /\ DOMAIN WithIndices(groups, y, s) = DOMAIN groups
           /\ AreGroups(WithIndices(groups, y, s))
           /\ WithIndices(groups, y, s)[y].indices = s
           /\ WithIndices(groups, y, s)[y].rows = groups[y].rows
           /\ \A k \in DOMAIN groups : k # y => WithIndices(groups, y, s)[k] = groups[k]
<1> DEFINE a == WithRows(groups, y, s)
           b == WithIndices(groups, y, s)
<1>1. groups[y] \in [rows : Seq(Nat), indices : Seq(Nat)]
  BY DEF Groups, AreGroups
<1>2. /\ DOMAIN a = DOMAIN groups /\ DOMAIN b = DOMAIN groups
      /\ a[y] = [groups[y] EXCEPT !.rows = s]
      /\ b[y] = [groups[y] EXCEPT !.indices = s]
      /\ \A k \in DOMAIN groups : k # y => a[k] = groups[k] /\ b[k] = groups[k]
  BY DEF WithRows, WithIndices
<1>3. /\ a[y] \in Groups /\ a[y].rows = s /\ a[y].indices = groups[y].indices
      /\ b[y] \in Groups /\ b[y].indices = s /\ b[y].rows = groups[y].rows
  BY <1>1, <1>2 DEF Groups
<1>4. \A k \in DOMAIN groups : a[k] \in Groups /\ b[k] \in Groups
  BY <1>2, <1>3 DEF AreGroups
<1>5. a = [k \in DOMAIN groups |-> a[k]] /\ b = [k \in DOMAIN groups |-> b[k]]
  BY DEF WithRows, WithIndices
<1> HIDE DEF a, b
<1>6. AreGroups(a) /\ AreGroups(b)
  BY <1>2, <1>4, <1>5 DEF AreGroups
<1> QED
  BY <1>2, <1>3, <1>6, Zenon DEF a, b

\* Adding the next row to the group of its key extends the grouping.
LEMMA GroupAdd ==
    ASSUME NEW rows, NEW key, NEW groups, NEW given \in Seq(Keys), NEW rowsOf, NEW y \in Keys,
           DOMAIN groups \subseteq Keys, AreGroups(groups),
           IsGrouping(rows, key, groups, given), IsIndexed(0, groups, given, rowsOf),
           y = key[rows[Len(given) + 1]]
    PROVE  LET r == Len(given) + 1
               more == IF y \in DOMAIN groups
                         THEN [groups EXCEPT ![y].rows = Append(@, r)]
                         ELSE With(groups, y, [rows |-> <<r>>, indices |-> <<>>])
           IN  /\ DOMAIN more \subseteq Keys /\ AreGroups(more)
               /\ IsGrouping(rows, key, more, Append(given, y))
               /\ IsIndexed(0, more, Append(given, y), rowsOf)
<1> DEFINE n == Len(given)
           r == n + 1
           more == IF y \in DOMAIN groups
                     THEN [groups EXCEPT ![y].rows = Append(@, r)]
                     ELSE With(groups, y, [rows |-> <<r>>, indices |-> <<>>])
           all == Append(given, y)
           old == IF y \in DOMAIN groups THEN groups[y].rows ELSE <<>>
<1>1. /\ n \in Nat /\ Len(all) = n + 1 /\ all[n + 1] = y
      /\ \A i \in 1 .. n : all[i] = given[i]
  OBVIOUS
<1>2. /\ \A k : k \in 1 .. n + 1 <=> (k \in 1 .. n \/ k = n + 1)
      /\ n + 1 \notin 1 .. n
  BY <1>1, IntervalNext
<1> HIDE DEF n, all
<1>3. /\ \A i \in 1 .. n : given[i] = key[rows[i]]
      /\ DOMAIN groups = {given[i] : i \in 1 .. n}
      /\ \A k \in DOMAIN groups :
            Ascends(groups[k].rows) /\ ToSet(groups[k].rows) = {i \in 1 .. n : given[i] = k}
  BY DEF IsGrouping, n
<1>4. /\ old \in Seq(Nat) /\ Ascends(old)
      /\ ToSet(old) = {i \in 1 .. n : given[i] = y}
  <2>1. CASE y \in DOMAIN groups
    BY <1>3, <2>1 DEF Groups, AreGroups
  <2>2. CASE y \notin DOMAIN groups
    <3>1. {i \in 1 .. n : given[i] = y} = {}
      BY <1>3, <2>2, Zenon
    <3>2. <<>> \in Seq(Nat) /\ DOMAIN <<>> = {}
      OBVIOUS
    <3>3. Ascends(<<>>) /\ ToSet(<<>>) = {}
      BY <3>2 DEF Ascends, ToSet
    <3> QED
      BY <2>2, <3>1, <3>2, <3>3, Zenon
  <2> QED
    BY <2>1, <2>2
<1> HIDE DEF old
<1>5. \A x \in ToSet(old) : x < r
  BY <1>1, <1>4
<1>6. /\ Append(old, r) \in Seq(Nat) /\ Ascends(Append(old, r))
      /\ ToSet(Append(old, r)) = {i \in 1 .. n : given[i] = y} \cup {r}
  <2>1. r \in Nat
    BY <1>1
  <2> QED
    BY <1>4, <1>5, <2>1, AppendAscends
<1>7. /\ DOMAIN more = DOMAIN groups \cup {y} /\ AreGroups(more)
      /\ more[y].rows = Append(old, r)
      /\ ToSet(more[y].indices) = {} /\ Ascends(more[y].indices)
      /\ \A k \in DOMAIN groups : k # y => more[k] = groups[k]
  <2>1. CASE y \in DOMAIN groups
    <3>1. old = groups[y].rows /\ more = [groups EXCEPT ![y].rows = Append(old, r)]
      BY <2>1 DEF old
    <3>2. /\ DOMAIN more = DOMAIN groups /\ AreGroups(more)
          /\ more[y].rows = Append(old, r) /\ more[y].indices = groups[y].indices
          /\ \A k \in DOMAIN groups : k # y => more[k] = groups[k]
      <4> HIDE DEF more
      <4>1. PICK s \in Seq(Nat) : s = Append(old, r)
        BY <1>6
      <4>2. more = [groups EXCEPT ![y].rows = s]
        BY <3>1, <4>1
      <4>3. /\ DOMAIN more = DOMAIN groups /\ AreGroups(more)
            /\ more[y].rows = s /\ more[y].indices = groups[y].indices
            /\ \A k \in DOMAIN groups : k # y => more[k] = groups[k]
        <5>1. more = WithRows(groups, y, s)
          BY <4>2 DEF WithRows
        <5>2. s \in Seq(Nat)
          BY <1>6, <4>1
        <5> QED
          <6> DEFINE w == WithRows(groups, y, s)
          <6>1. DOMAIN w = DOMAIN groups /\ AreGroups(w)
            BY <2>1, <5>2, GroupExcept
          <6>3. \A k \in DOMAIN groups : k # y => w[k] = groups[k]
            BY <2>1, <5>2, GroupExcept
          <6>2. w[y].rows = s /\ w[y].indices = groups[y].indices
            BY <2>1, <5>2, GroupExcept
          <6> HIDE DEF w
          <6> QED
            BY <5>1, <6>1, <6>2, <6>3 DEF w
      <4> QED
        BY <4>1, <4>3, Zenon
    <3>3. ToSet(groups[y].indices) = {} /\ Ascends(groups[y].indices)
      <4>1. 1 .. 0 = {}
        OBVIOUS
      <4> QED
        BY <2>1, <4>1 DEF IsIndexed
    <3> HIDE DEF more
    <3>4. DOMAIN groups = DOMAIN groups \cup {y}
      BY <2>1
    <3> QED
      BY <3>2, <3>3, <3>4, Zenon
  <2>2. CASE y \notin DOMAIN groups
    <3> DEFINE g == [rows |-> <<r>>, indices |-> <<>>]
    <3>1. more = [k \in DOMAIN groups \cup {y} |-> IF k = y THEN g ELSE groups[k]]
      BY <2>2 DEF With
    <3>2. old = <<>> /\ <<r>> = Append(<<>>, r) /\ r \in Nat /\ <<>> \in Seq(Nat)
          /\ DOMAIN <<>> = {}
      BY <1>1, <2>2 DEF old
    <3>3. g \in Groups /\ g.rows = <<r>> /\ g.indices = <<>>
      BY <3>2 DEF Groups
    <3>4. ToSet(<<>>) = {} /\ Ascends(<<>>)
      BY <3>2 DEF ToSet, Ascends
    <3> HIDE DEF g, more
    <3>5. /\ DOMAIN more = DOMAIN groups \cup {y} /\ more[y] = g
          /\ \A k \in DOMAIN groups : k # y => more[k] = groups[k]
      BY <3>1
    <3>6. \A k \in DOMAIN groups \cup {y} : (IF k = y THEN g ELSE groups[k]) \in Groups
      BY <3>3 DEF AreGroups
    <3>7. AreGroups(more)
      BY <3>1, <3>6 DEF AreGroups
    <3> QED
      BY <3>2, <3>3, <3>4, <3>5, <3>7, Zenon
  <2> QED
    BY <2>1, <2>2
<1> HIDE DEF more
<1>8. \A i \in 1 .. n + 1 : all[i] = key[rows[i]]
  BY <1>1, <1>2, <1>3, Zenon DEF n
<1>9. DOMAIN more = {all[i] : i \in 1 .. n + 1}
  <2>1. ASSUME NEW x \in DOMAIN more
        PROVE  \E i \in 1 .. n + 1 : x = all[i]
    <3>1. CASE x = y
      BY <1>1, <1>2, <3>1, Zenon
    <3>2. CASE x # y
      <4>1. PICK i \in 1 .. n : x = given[i]
        BY <1>3, <1>7, <3>2, Zenon
      <4> QED
        BY <1>1, <1>2, <4>1, Zenon
    <3> QED
      BY <3>1, <3>2
  <2>2. \A i \in 1 .. n + 1 : all[i] \in DOMAIN more
    BY <1>1, <1>2, <1>3, <1>7, Zenon
  <2> QED
    BY <2>1, <2>2, Zenon
<1>10. ASSUME NEW k \in DOMAIN more
       PROVE  Ascends(more[k].rows) /\ ToSet(more[k].rows) = {i \in 1 .. n + 1 : all[i] = k}
  <2>1. CASE k = y
    <3>1. {i \in 1 .. n + 1 : all[i] = y} = {i \in 1 .. n : given[i] = y} \cup {r}
      BY <1>1, <1>2, Zenon
    <3> QED
      BY <1>6, <1>7, <2>1, <3>1, Zenon
  <2>2. CASE k # y
    <3>1. k \in DOMAIN groups /\ more[k] = groups[k]
      BY <1>7, <2>2
    <3>2. {i \in 1 .. n + 1 : all[i] = k} = {i \in 1 .. n : given[i] = k}
      BY <1>1, <1>2, <2>2, Zenon
    <3> QED
      BY <1>3, <3>1, <3>2, Zenon
  <2> QED
    BY <2>1, <2>2
<1>11. IsGrouping(rows, key, more, all)
  BY <1>1, <1>8, <1>9, <1>10, Zenon DEF IsGrouping
<1>12. IsIndexed(0, more, all, rowsOf)
  <2>1. \A e : {j \in 1 .. 0 : e} = {} /\ 1 .. 0 = {}
    OBVIOUS
  <2>2. ASSUME NEW k \in DOMAIN more
        PROVE  Ascends(more[k].indices) /\ ToSet(more[k].indices) = {}
    <3>1. CASE k = y
      BY <1>7, <3>1
    <3>2. CASE k # y
      BY <1>7, <2>1, <3>2 DEF IsIndexed
    <3> QED
      BY <3>1, <3>2
  <2>3. \A k : {j \in 1 .. 0 : all[rowsOf[j]] = k} = {}
    BY <2>1
  <2> QED
    BY <2>2, <2>3, Zenon DEF IsIndexed
<1>13. DOMAIN more \subseteq Keys
  BY <1>7
<1> QED
  BY <1>7, <1>11, <1>12, <1>13, Zenon DEF n, more, all

\* Adding the next line to the group of its row extends the indices.
LEMMA IndexAdd ==
    ASSUME NEW m \in Nat, NEW groups, NEW given, NEW rowsOf,
           AreGroups(groups), IsIndexed(m, groups, given, rowsOf),
           given[rowsOf[m + 1]] \in DOMAIN groups
    PROVE  LET more == [groups EXCEPT ![given[rowsOf[m + 1]]].indices = Append(@, m + 1)]
           IN  /\ DOMAIN more = DOMAIN groups /\ AreGroups(more)
               /\ \A k \in DOMAIN groups : more[k].rows = groups[k].rows
               /\ IsIndexed(m + 1, more, given, rowsOf)
<1> DEFINE y == given[rowsOf[m + 1]]
           more == [groups EXCEPT ![y].indices = Append(@, m + 1)]
           old == groups[y].indices
<1>1. /\ \A k : k \in 1 .. m + 1 <=> (k \in 1 .. m \/ k = m + 1)
      /\ m + 1 \notin 1 .. m
  BY IntervalNext
<1>2. \A k \in DOMAIN groups : Ascends(groups[k].indices)
         /\ ToSet(groups[k].indices) = {j \in 1 .. m : given[rowsOf[j]] = k}
  BY DEF IsIndexed
<1>3. more = [groups EXCEPT ![y].indices = Append(old, m + 1)]
  OBVIOUS
<1> HIDE DEF y, more
<1>4. old \in Seq(Nat)
  BY DEF Groups, AreGroups, y
<1>5. /\ Append(old, m + 1) \in Seq(Nat) /\ Ascends(Append(old, m + 1))
      /\ ToSet(Append(old, m + 1)) = {j \in 1 .. m : given[rowsOf[j]] = y} \cup {m + 1}
  <2>1. Ascends(old) /\ ToSet(old) = {j \in 1 .. m : given[rowsOf[j]] = y}
    BY <1>2 DEF y
  <2>2. m + 1 \in Nat /\ \A x \in ToSet(old) : x < m + 1
    BY <2>1
  <2> HIDE DEF old
  <2> QED
    BY <1>4, <2>1, <2>2, AppendAscends
<1>6. /\ DOMAIN more = DOMAIN groups /\ AreGroups(more)
      /\ more[y].indices = Append(old, m + 1) /\ more[y].rows = groups[y].rows
      /\ \A k \in DOMAIN groups : k # y => more[k] = groups[k]
  <2>1. y \in DOMAIN groups
    BY DEF y
  <2> HIDE DEF old
  <2>2. PICK s \in Seq(Nat) : s = Append(old, m + 1)
    BY <1>5
  <2>3. more = [groups EXCEPT ![y].indices = s]
    BY <1>3, <2>2
  <2>4. /\ DOMAIN more = DOMAIN groups /\ AreGroups(more)
        /\ more[y].indices = s /\ more[y].rows = groups[y].rows
        /\ \A k \in DOMAIN groups : k # y => more[k] = groups[k]
    <3>1. more = WithIndices(groups, y, s)
      BY <2>3 DEF WithIndices
    <3>2. s \in Seq(Nat)
      BY <1>5, <2>2
    <3> QED
      <4> DEFINE w == WithIndices(groups, y, s)
      <4>1. /\ DOMAIN w = DOMAIN groups /\ AreGroups(w)
            /\ \A k \in DOMAIN groups : k # y => w[k] = groups[k]
        BY <2>1, <3>2, GroupExcept, ZenonT(60)
      <4>2. w[y].indices = s /\ w[y].rows = groups[y].rows
        BY <2>1, <3>2, GroupExcept
      <4> HIDE DEF w
      <4> QED
        BY <3>1, <4>1, <4>2 DEF w
  <2> QED
    BY <2>2, <2>4, Zenon
<1>7. ASSUME NEW k \in DOMAIN groups
      PROVE  /\ Ascends(more[k].indices)
             /\ ToSet(more[k].indices) = {j \in 1 .. m + 1 : given[rowsOf[j]] = k}
  <2>1. CASE k = y
    <3>1. {j \in 1 .. m + 1 : given[rowsOf[j]] = y} = {j \in 1 .. m : given[rowsOf[j]] = y} \cup {m + 1}
      BY <1>1, Zenon DEF y
    <3> QED
      BY <1>5, <1>6, <2>1, <3>1, Zenon
  <2>2. CASE k # y
    <3>1. {j \in 1 .. m + 1 : given[rowsOf[j]] = k} = {j \in 1 .. m : given[rowsOf[j]] = k}
      BY <1>1, <2>2, Zenon DEF y
    <3> QED
      BY <1>2, <1>6, <2>2, <3>1, Zenon
  <2> QED
    BY <2>1, <2>2
<1>8. IsIndexed(m + 1, more, given, rowsOf)
  BY <1>6, <1>7, Zenon DEF IsIndexed
<1>9. \A k \in DOMAIN groups : more[k].rows = groups[k].rows
  BY <1>6, Zenon
<1> QED
  BY <1>6, <1>8, <1>9, Zenon DEF more, y

-----------------------------------------------------------------------------
\* The lines of the request at hand, and what the constants are.
LEMMA StateFacts ==
    ASSUME Shapes
    PROVE  /\ numLines \in 0 .. MaxLines /\ numRows \in 0 .. MaxLines
           /\ MaxLines \in Nat /\ Keys \subseteq Nat
           /\ Len(request.lines) = numLines /\ Len(uniqueMsgs) = numRows
           /\ \A k \in 1 .. numLines : request.lines[k] \in Messages
           /\ request.lines \in Seq(Messages)
<1>1. request \in Requests /\ uniqueMsgs \in Seq(Messages) /\ Len(uniqueMsgs) <= MaxLines
  BY DEF Shapes
<1>2. Len(uniqueMsgs) \in Nat
  BY <1>1
<1> QED
  BY <1>1, <1>2, RequestFacts, ParseClustersAssumption DEF numLines, numRows

\* The resized buffers are long enough, and of their types.
LEMMA EnsureFacts ==
    ASSUME NEW S, NEW buf \in Seq(S), NEW k \in Nat
    PROVE  /\ 0 \in S => EnsureInt32(buf, k) \in Seq(S)
           /\ Len(EnsureInt32(buf, k)) >= k
<1>1. Len(buf) \in Nat
  OBVIOUS
<1> QED
  BY <1>1 DEF EnsureInt32

\* And reset up to the asked length.
LEMMA EnsureValueFacts ==
    ASSUME NEW S, NEW buf \in Seq(S), NEW k \in Nat, NEW x \in S
    PROVE  /\ EnsureWithValue(buf, k, x) \in Seq(S)
           /\ Len(EnsureWithValue(buf, k, x)) >= k
           /\ \A j \in 1 .. k : EnsureWithValue(buf, k, x)[j] = x
<1> DEFINE n == IF Len(buf) < k THEN k ELSE Len(buf)
           e == [j \in 1 .. n |-> IF j <= k THEN x ELSE buf[j]]
<1>1. Len(buf) \in Nat
  OBVIOUS
<1>2. n \in Nat /\ n >= k /\ \A j \in 1 .. n : ~(j <= k) => j \in 1 .. Len(buf)
  BY <1>1
<1>3. EnsureWithValue(buf, k, x) = e
  BY DEF EnsureWithValue
<1> HIDE DEF n
<1>4. \A j \in 1 .. n : (IF j <= k THEN x ELSE buf[j]) \in S
  BY <1>2
<1>5. e \in Seq(S) /\ Len(e) = n
  BY <1>2, <1>4
<1>6. \A j \in 1 .. k : e[j] = x
  BY <1>2
<1> QED
  BY <1>2, <1>3, <1>5, <1>6, Zenon

\* The invariant holds before the first parse.
LEMMA ParseInvInit == ASSUME Init PROVE ParseInv
<1>1. /\ request \in Requests /\ workers \in 1 .. MaxWorkers /\ pc = "idle"
      /\ next \in 1 .. MaxLines + 1 /\ parses \in 0 .. MaxParses
  BY ParseClustersAssumption DEF Init
<1>2. /\ DOMAIN lineIndex = {} /\ lineIndex \in [DOMAIN lineIndex -> 1 .. MaxLines]
      /\ DOMAIN merged = {} /\ AreGroups(merged)
  BY DEF Init, AreGroups
<1>3. /\ uniqueMsgs \in Seq(Messages) /\ Len(uniqueMsgs) = 0 /\ Len(counts) = 0
      /\ counts \in Seq(Nat) /\ rowOf \in Seq(0 .. MaxLines) /\ rowPos \in Seq(0 .. MaxLines)
      /\ rowGroup \in Seq(Keys) /\ todo \in Seq(Keys) /\ clusters \in Seq(Int)
      /\ masks \in Seq(AnyMask) /\ templates \in Seq(SUBSET Messages)
  <2>1. /\ uniqueMsgs = <<>> /\ counts = <<>> /\ rowOf = <<>> /\ rowPos = <<>> /\ rowGroup = <<>>
        /\ todo = <<>> /\ clusters = <<>> /\ masks = <<>> /\ templates = <<>>
    BY Zenon DEF Init
  <2>2. \A S : <<>> \in Seq(S) /\ Len(<<>>) = 0
    OBVIOUS
  <2> QED
    BY <2>1, <2>2, Zenon
<1>4. at \in [Workers -> 1 .. MaxLines + 1] /\ arena \in [Workers -> Seq(Keys)] /\ cid \in Nat
  BY ParseClustersAssumption DEF Init
<1>5. Shapes
  BY <1>1, <1>2, <1>3, <1>4, ParseClustersAssumption, SMTT(60) DEF Shapes, Phases
<1>6. Dedup /\ Arenas /\ Grouping /\ Emitting
  BY <1>1, <1>2 DEF Dedup, Arenas, Grouping, Emitting, Init
<1> QED
  BY <1>5, <1>6 DEF ParseInv

\* A parse is asked for.
LEMMA CallStep ==
    ASSUME ParseInv, NEW r \in Requests, Call(r)
    PROVE  ParseInv'
<1>1. Shapes'
  <2>1. request' \in Requests /\ parses' \in 0 .. MaxParses /\ pc' \in Phases
    <3>1. parses \in 0 .. MaxParses
      BY DEF ParseInv, Shapes
    <3> QED
      BY <3>1, ParseClustersAssumption DEF Call, Phases
  <2>2. UNCHANGED <<buffers, locals>>
    BY DEF Call
  <2> QED
    BY <2>1, <2>2, Zenon DEF ParseInv, Shapes, buffers, locals, Workers
<1>2. Dedup' /\ Arenas' /\ Emitting'
  BY DEF Dedup, Arenas, Emitting, Call
<1>3. Grouping'
  BY DEF ParseInv, Grouping, Call, buffers, locals
<1> QED
  BY <1>1, <1>2, <1>3 DEF ParseInv

\* A parse of no lines returns.
LEMMA ReplyEmptyStep ==
    ASSUME ParseInv, ReplyEmpty
    PROVE  ParseInv'
<1>1. Shapes'
  BY ParseClustersAssumption DEF ParseInv, Shapes, ReplyEmpty, buffers, locals, Phases, Workers
<1>2. Dedup' /\ Arenas' /\ Emitting'
  BY DEF Dedup, Arenas, Emitting, ReplyEmpty
<1>3. Grouping'
  BY DEF ParseInv, Grouping, ReplyEmpty, buffers, locals
<1> QED
  BY <1>1, <1>2, <1>3 DEF ParseInv

\* The dedup buffers are emptied and sized.
LEMMA BeginDedupStep ==
    ASSUME ParseInv, BeginDedup
    PROVE  ParseInv'
<1>1. Shapes
  BY DEF ParseInv
<1>2. numLines \in 0 .. MaxLines /\ MaxLines \in Nat /\ numLines # 0 /\ numLines \in Nat
  BY <1>1, StateFacts DEF BeginDedup
<1>3. rowOf' \in Seq(0 .. MaxLines) /\ Len(rowOf') >= numLines
  <2>1. rowOf \in Seq(0 .. MaxLines) /\ 0 \in 0 .. MaxLines
    BY <1>1, <1>2 DEF Shapes
  <2>2. rowOf' = EnsureInt32(rowOf, numLines)
    BY DEF BeginDedup
  <2> QED
    BY <1>2, <2>1, <2>2, EnsureFacts, Zenon
<1>4. /\ DOMAIN lineIndex' = {} /\ lineIndex' \in [DOMAIN lineIndex' -> 1 .. MaxLines]
      /\ uniqueMsgs' \in Seq(Messages) /\ Len(uniqueMsgs') = 0
      /\ counts' \in Seq(Nat) /\ Len(counts') = 0
  BY DEF BeginDedup
<1>5. Shapes'
  <2>1. next' \in 1 .. MaxLines + 1 /\ pc' \in Phases /\ Len(uniqueMsgs') <= MaxLines
    BY <1>2, <1>4 DEF BeginDedup, Phases
  <2>2. /\ UNCHANGED <<request, workers, rowPos, at, arena, merged, rowGroup, todo, cid>>
        /\ UNCHANGED <<clusters, masks, templates, parses>>
    BY DEF BeginDedup, buffers, locals
  <2>3. Len(counts') = Len(uniqueMsgs')
    BY <1>4
  <2> QED
    BY <1>1, <1>3, <1>4, <2>1, <2>2, <2>3, Zenon DEF Shapes
<1>6. IsDedup(request.lines, 0, lineIndex', uniqueMsgs', counts', rowOf')
  <2>1. 1 .. 0 = {}
    OBVIOUS
  <2> QED
    BY <1>4, <2>1 DEF IsDedup
<1>7. Dedup'
  BY <1>2, <1>3, <1>6, 1 - 1 = 0 DEF Dedup, BeginDedup, numLines
<1>8. Arenas' /\ Emitting' /\ Grouping'
  BY DEF Arenas, Emitting, BeginDedup, Grouping, ParseInv
<1> QED
  BY <1>5, <1>7, <1>8 DEF ParseInv

\* One line is deduplicated.
LEMMA DedupLineStep ==
    ASSUME ParseInv, DedupLine
    PROVE  ParseInv'
<1> DEFINE msg == request.lines[next]
           m == next - 1
<1>1. Shapes /\ pc = "dedup" /\ next <= numLines
  BY DEF ParseInv, DedupLine
<1>2. /\ numLines \in 0 .. MaxLines /\ MaxLines \in Nat /\ msg \in Messages
      /\ m \in Nat /\ m + 1 = next /\ next \in 1 .. MaxLines
      /\ Len(request.lines) = numLines
  <2>1. next \in 1 .. MaxLines + 1
    BY <1>1 DEF Shapes
  <2>2. /\ numLines \in 0 .. MaxLines /\ MaxLines \in Nat /\ Len(request.lines) = numLines
        /\ \A k \in 1 .. numLines : request.lines[k] \in Messages
    BY <1>1, StateFacts
  <2>3. next \in 1 .. numLines
    BY <1>1, <2>1, <2>2
  <2> QED
    BY <2>1, <2>2, <2>3
<1>3. /\ IsDedup(request.lines, m, lineIndex, uniqueMsgs, counts, rowOf)
      /\ numLines <= Len(rowOf) /\ numLines # 0
  BY <1>1 DEF ParseInv, Dedup
<1>4. /\ uniqueMsgs \in Seq(Messages) /\ counts \in Seq(Nat) /\ Len(counts) = Len(uniqueMsgs)
      /\ rowOf \in Seq(0 .. MaxLines) /\ rowOf \in Seq(Nat) /\ m + 1 <= Len(rowOf)
      /\ lineIndex \in [DOMAIN lineIndex -> 1 .. MaxLines] /\ DOMAIN lineIndex \subseteq Messages
  <2>1. /\ uniqueMsgs \in Seq(Messages) /\ counts \in Seq(Nat) /\ Len(counts) = Len(uniqueMsgs)
        /\ rowOf \in Seq(0 .. MaxLines)
        /\ lineIndex \in [DOMAIN lineIndex -> 1 .. MaxLines] /\ DOMAIN lineIndex \subseteq Messages
    BY <1>1, Zenon DEF Shapes
  <2>2. rowOf \in Seq(Nat)
    BY <2>1, SeqLarger, 0 .. MaxLines \subseteq Nat
  <2>3. Len(rowOf) \in Nat
    BY <2>2
  <2> HIDE DEF m
  <2>4. m + 1 <= Len(rowOf)
    BY <1>1, <1>2, <1>3, <2>3
  <2> QED
    BY <2>1, <2>2, <2>4
<1>5. Len(uniqueMsgs) \in Nat /\ Len(uniqueMsgs) <= m
  BY <1>3, <1>4 DEF IsDedup
<1> HIDE DEF m
<1>6. /\ IsDedup(request.lines, m + 1, lineIndex', uniqueMsgs', counts', rowOf')
      /\ uniqueMsgs' \in Seq(Messages) /\ counts' \in Seq(Nat)
      /\ Len(counts') = Len(uniqueMsgs') /\ Len(uniqueMsgs') <= MaxLines
      /\ rowOf' \in Seq(0 .. MaxLines) /\ Len(rowOf') = Len(rowOf)
      /\ lineIndex' \in [DOMAIN lineIndex' -> 1 .. MaxLines] /\ DOMAIN lineIndex' \subseteq Messages
  <2>1. CASE msg \in DOMAIN lineIndex
    <3> DEFINE i == lineIndex[msg]
    <3>1. /\ lineIndex' = lineIndex /\ uniqueMsgs' = uniqueMsgs
          /\ counts' = [counts EXCEPT ![i] = @ + 1]
          /\ rowOf' = [rowOf EXCEPT ![m + 1] = i]
      BY <1>2, <2>1 DEF DedupLine
    <3>2. request.lines[m + 1] \in DOMAIN lineIndex
      BY <1>2, <2>1
    <3>3. /\ i \in 1 .. Len(uniqueMsgs)
          /\ IsDedup(request.lines, m + 1, lineIndex, uniqueMsgs, [counts EXCEPT ![i] = @ + 1],
                     [rowOf EXCEPT ![m + 1] = i])
      BY <1>2, <1>3, <1>4, <3>2, DedupOld
    <3> HIDE DEF i
    <3>4. i \in 0 .. MaxLines
      BY <1>2, <1>5, <3>3
    <3>5. counts' \in Seq(Nat) /\ Len(counts') = Len(counts)
      BY <1>4, <3>1, <3>3
    <3>6. rowOf' \in Seq(0 .. MaxLines) /\ Len(rowOf') = Len(rowOf)
      BY <1>2, <1>4, <3>1, <3>4, SeqReplace, m + 1 \in Nat
    <3>7. Len(uniqueMsgs) <= MaxLines
      BY <1>2, <1>5
    <3> QED
      BY <1>4, <3>1, <3>3, <3>5, <3>6, <3>7
  <2>2. CASE msg \notin DOMAIN lineIndex
    <3> DEFINE i == Len(uniqueMsgs) + 1
    <3>1. /\ lineIndex' = With(lineIndex, msg, i) /\ uniqueMsgs' = Append(uniqueMsgs, msg)
          /\ counts' = Append(counts, 1)
          /\ rowOf' = [rowOf EXCEPT ![m + 1] = i]
      BY <1>2, <2>2, 0 + 1 = 1 DEF DedupLine, NewRow, numRows, FirstCount
    <3>2. request.lines[m + 1] \notin DOMAIN lineIndex /\ request.lines[m + 1] = msg
      BY <1>2, <2>2
    <3>3. IsDedup(request.lines, m + 1, With(lineIndex, msg, i), Append(uniqueMsgs, msg),
                  Append(counts, 1), [rowOf EXCEPT ![m + 1] = i])
      BY <1>2, <1>3, <1>4, <3>2, DedupNew
    <3>4. i \in 0 .. MaxLines /\ i \in 1 .. MaxLines
      BY <1>2, <1>5
    <3>5. /\ counts' \in Seq(Nat) /\ Len(counts') = i
          /\ uniqueMsgs' \in Seq(Messages) /\ Len(uniqueMsgs') = i
      BY <1>2, <1>4, <3>1
    <3> HIDE DEF i
    <3>6. rowOf' \in Seq(0 .. MaxLines) /\ Len(rowOf') = Len(rowOf)
      BY <1>2, <1>4, <3>1, <3>4, SeqReplace, m + 1 \in Nat
    <3>7. /\ lineIndex' \in [DOMAIN lineIndex' -> 1 .. MaxLines]
          /\ DOMAIN lineIndex' \subseteq Messages
      BY <1>2, <1>4, <3>1, <3>4 DEF With
    <3> QED
      BY <3>1, <3>3, <3>4, <3>5, <3>6, <3>7
  <2> QED
    BY <2>1, <2>2
<1>7. next' = next + 1 /\ next' \in 1 .. MaxLines + 1 /\ next' - 1 = m + 1 /\ next' <= numLines + 1
  BY <1>1, <1>2 DEF DedupLine
<1>8. Shapes'
  BY <1>1, <1>6, <1>7 DEF Shapes, DedupLine, Workers
<1>9. Dedup'
  <2>1. pc' = "dedup" /\ request' = request /\ numLines' = numLines
    BY <1>1 DEF DedupLine, numLines
  <2> QED
    BY <1>3, <1>6, <1>7, <2>1 DEF Dedup
<1>10. Arenas' /\ Emitting' /\ Grouping'
  BY <1>1 DEF Arenas, Emitting, DedupLine, Grouping, ParseInv
<1> QED
  BY <1>8, <1>9, <1>10 DEF ParseInv

-----------------------------------------------------------------------------
\* The shards that run are workers, each with rows of its own.
LEMMA ActiveFacts ==
    ASSUME NEW n \in Nat \ {0}, NEW w \in 1 .. MaxWorkers, NEW s \in ShardIds(n, w)
    PROVE  /\ s \in Workers
           /\ ShardLo(n, w, s) \in Nat /\ ShardHi(n, w, s) \in 1 .. n
           /\ ShardLo(n, w, s) < ShardHi(n, w, s)
<1>1. w \in Nat \ {0} /\ w <= MaxWorkers /\ MaxWorkers \in Nat
  BY ParseClustersAssumption
<1>2. Chunk(n, w) \in Nat \ {0}
  BY <1>1, ChunkCovers
<1>3. s < w /\ ShardRows(n, w, s) # {} /\ ShardRows(n, w, s) \subseteq 1 .. n
  BY <1>1, ShardsBounded
<1>4. s \in Nat
  BY <1>2 DEF ShardIds
<1> DEFINE lo == ShardLo(n, w, s)
           hi == ShardHi(n, w, s)
<1>5. lo \in Nat /\ hi \in Nat
  BY <1>2, <1>4 DEF ShardLo, ShardHi
<1> HIDE DEF lo, hi
<1>6. lo + 1 .. hi # {} /\ lo + 1 .. hi \subseteq 1 .. n
  BY <1>3 DEF ShardRows, lo, hi
<1>7. lo + 1 <= hi
  BY <1>5, <1>6
<1>8. hi \in 1 .. n
  BY <1>5, <1>6, <1>7
<1>9. s \in Workers
  BY <1>1, <1>3, <1>4 DEF Workers
<1> QED
  BY <1>5, <1>7, <1>8, <1>9 DEF lo, hi

\* Once the lines are deduplicated there is a row, and every row has a key.
LEMMA RowsFacts ==
    ASSUME Shapes, numLines # 0,
           IsDedup(request.lines, numLines, lineIndex, uniqueMsgs, counts, rowOf)
    PROVE  /\ numRows \in Nat \ {0} /\ numRows <= MaxLines
           /\ \A k \in 1 .. numLines : rowOf[k] \in 1 .. numRows
           /\ \A r \in 1 .. numRows : /\ uniqueMsgs[r] \in Abstract!LinesOf(request)
                                      /\ KeyOfRow(r) \in Keys
<1>1. /\ numLines \in Nat \ {0} /\ numRows \in 0 .. MaxLines
      /\ Len(request.lines) = numLines /\ Len(uniqueMsgs) = numRows
  BY StateFacts
<1>2. \A k \in 1 .. numLines : rowOf[k] \in 1 .. numRows
  BY <1>1 DEF IsDedup
<1>3. numRows # 0
  BY <1>1, <1>2, 1 \in 1 .. numLines
<1>4. ASSUME NEW r \in 1 .. numRows
      PROVE  uniqueMsgs[r] \in Abstract!LinesOf(request) /\ KeyOfRow(r) \in Keys
  <2>1. PICK k \in 1 .. numLines : request.lines[k] = uniqueMsgs[r]
    BY <1>1 DEF IsDedup
  <2>2. uniqueMsgs[r] \in Abstract!LinesOf(request)
    BY <1>1, <2>1, RequestFacts DEF Shapes
  <2> QED
    BY <2>2, RequestFacts DEF Shapes, KeyOfRow
<1> QED
  BY <1>1, <1>2, <1>3, <1>4

\* The key computation starts.
LEMMA StartKeysStep ==
    ASSUME ParseInv, NEW w \in 1 .. MaxWorkers, StartKeys(w)
    PROVE  ParseInv'
<1>1. Shapes /\ pc = "dedup" /\ next > numLines
  BY DEF ParseInv, StartKeys
<1>2. /\ numLines \in 0 .. MaxLines /\ MaxLines \in Nat
      /\ next \in Nat /\ next <= numLines + 1 /\ numLines # 0 /\ numLines <= Len(rowOf)
      /\ IsDedup(request.lines, next - 1, lineIndex, uniqueMsgs, counts, rowOf)
  <2>1. next \in Nat
    <3>1. next \in 1 .. MaxLines + 1
      BY <1>1, Zenon DEF Shapes
    <3> QED
      BY <3>1, ParseClustersAssumption
  <2> QED
    BY <1>1, <2>1, StateFacts DEF ParseInv, Dedup
<1>3. next - 1 = numLines
  BY <1>1, <1>2
<1>4. IsDedup(request.lines, numLines, lineIndex, uniqueMsgs, counts, rowOf)
  BY <1>2, <1>3
<1>5. /\ request' = request /\ uniqueMsgs' = uniqueMsgs /\ rowOf' = rowOf
      /\ numLines' = numLines /\ numRows' = numRows /\ pc' = "keys" /\ next' = 1
      /\ workers' = w /\ Active' = ShardIds(numRows, w)
      /\ rowGroup' = <<>> /\ merged' = <<>> /\ Workers' = Workers
      /\ at' = [v \in Workers |-> IF v \in ShardIds(numRows, w)
                                     THEN ShardLo(numRows, w, v) + 1 ELSE 1]
      /\ arena' = [v \in Workers |-> <<>>]
  BY DEF StartKeys, numLines, numRows, Active, Workers
<1>6. numRows \in Nat \ {0} /\ numRows <= MaxLines
  BY <1>1, <1>2, <1>4, RowsFacts
<1>7. \A s \in ShardIds(numRows, w) :
         /\ s \in Workers /\ ShardLo(numRows, w, s) \in Nat
         /\ ShardHi(numRows, w, s) \in 1 .. numRows
         /\ ShardLo(numRows, w, s) < ShardHi(numRows, w, s)
  BY <1>6, ActiveFacts
<1>8. at' \in [Workers -> 1 .. MaxLines + 1]
  <2>1. \A s \in ShardIds(numRows, w) : ShardLo(numRows, w, s) + 1 \in 1 .. MaxLines + 1
    BY <1>2, <1>6, <1>7
  <2>2. 1 \in 1 .. MaxLines + 1
    BY <1>2
  <2> QED
    BY <1>5, <2>1, <2>2
<1>9. arena' \in [Workers -> Seq(Keys)]
  BY <1>5
<1>10. /\ DOMAIN merged' = {} /\ AreGroups(merged') /\ rowGroup' \in Seq(Keys)
       /\ Len(rowGroup') = 0
  BY <1>5 DEF AreGroups
<1>11. Shapes'
  <2>1. next' \in 1 .. MaxLines + 1 /\ pc' \in Phases /\ DOMAIN merged' \subseteq Keys
    BY <1>2, <1>5, <1>10 DEF Phases
  <2>2. UNCHANGED <<request, lineIndex, uniqueMsgs, counts, rowOf, todo, cid, rowPos,
                    clusters, templates, masks, parses>>
    BY DEF StartKeys
  <2> QED
    BY <1>1, <1>5, <1>8, <1>9, <1>10, <2>1, <2>2, Zenon DEF Shapes
<1>12. Dedup'
  BY <1>2, <1>4, <1>5 DEF Dedup, StartKeys
<1>13. Arenas'
  <2> SUFFICES ASSUME NEW s \in ShardIds(numRows, w)
               PROVE  /\ at'[s] \in ShardLo(numRows, w, s) + 1 .. ShardHi(numRows, w, s) + 1
                      /\ Len(arena'[s]) = at'[s] - ShardLo(numRows, w, s) - 1
                      /\ Len(arena'[s]) = 0
    BY <1>5 DEF Arenas
  <2>1. /\ s \in Workers /\ ShardLo(numRows, w, s) \in Nat
        /\ ShardHi(numRows, w, s) \in Nat
        /\ ShardLo(numRows, w, s) < ShardHi(numRows, w, s)
    BY <1>7
  <2>2. at'[s] = ShardLo(numRows, w, s) + 1 /\ arena'[s] = <<>>
    BY <1>5, <2>1
  <2> QED
    BY <2>1, <2>2
<1>14. Grouping'
  <2>1. 1 .. 0 = {}
    OBVIOUS
  <2>2. IsIndexed(0, merged', rowGroup', rowOf') /\ IsGrouping(uniqueMsgs', request.key, merged', rowGroup')
    BY <1>10, <2>1 DEF IsIndexed, IsGrouping
  <2>3. cid' = 0
    BY <1>1 DEF ParseInv, Grouping, StartKeys
  <2> QED
    BY <1>5, <1>6, <1>10, <2>2, <2>3 DEF Grouping
<1>15. Emitting'
  BY <1>5 DEF Emitting
<1> QED
  BY <1>11, <1>12, <1>13, <1>14, <1>15 DEF ParseInv

\* The next row joins the group of its key.
LEMMA AddRowStep ==
    ASSUME Shapes, Dedup, Grouping, pc \in {"keys", "merge"}, next <= numRows,
           AddRow(next, KeyOfRow(next))
    PROVE  /\ DOMAIN merged' \subseteq Keys /\ AreGroups(merged')
           /\ rowGroup' \in Seq(Keys) /\ Len(rowGroup') = next
           /\ IsGrouping(uniqueMsgs, request.key, merged', rowGroup')
           /\ IsIndexed(0, merged', rowGroup', rowOf)
<1> DEFINE y == KeyOfRow(next)
           n == Len(rowGroup)
<1>1. /\ numLines # 0 /\ IsDedup(request.lines, numLines, lineIndex, uniqueMsgs, counts, rowOf)
      /\ next = n + 1 /\ IsIndexed(0, merged, rowGroup, rowOf)
      /\ IsGrouping(uniqueMsgs, request.key, merged, rowGroup)
  BY DEF Dedup, Grouping
<1>2. /\ rowGroup \in Seq(Keys) /\ DOMAIN merged \subseteq Keys /\ AreGroups(merged)
  BY DEF Shapes
<1>3. n \in Nat
  BY <1>2
<1>4. next \in 1 .. numRows
  BY <1>1, <1>3, StateFacts
<1>5. y \in Keys
  BY <1>1, <1>4, RowsFacts
<1>6. y = request.key[uniqueMsgs[n + 1]]
  BY <1>1 DEF KeyOfRow
<1>7. /\ merged' = IF y \in DOMAIN merged
                     THEN [merged EXCEPT ![y].rows = Append(@, n + 1)]
                     ELSE With(merged, y, [rows |-> <<n + 1>>, indices |-> <<>>])
      /\ rowGroup' = Append(rowGroup, y)
  BY <1>1 DEF AddRow, AddTo
<1> HIDE DEF y
<1>8. Len(rowGroup') = next /\ rowGroup' \in Seq(Keys)
  BY <1>1, <1>2, <1>5, <1>7
<1>9. /\ DOMAIN merged' \subseteq Keys /\ AreGroups(merged')
      /\ IsGrouping(uniqueMsgs, request.key, merged', rowGroup')
      /\ IsIndexed(0, merged', rowGroup', rowOf)
  BY <1>1, <1>2, <1>5, <1>6, <1>7, GroupAdd
<1> QED
  BY <1>8, <1>9

\* The serial loop adds a row.
LEMMA SerialRowStep ==
    ASSUME ParseInv, SerialRow
    PROVE  ParseInv'
<1>1. /\ Shapes /\ Dedup /\ Grouping /\ pc = "keys" /\ workers = 1 /\ next <= numRows
      /\ AddRow(next, KeyOfRow(next))
  BY DEF ParseInv, SerialRow
<1>2. /\ DOMAIN merged' \subseteq Keys /\ AreGroups(merged')
      /\ rowGroup' \in Seq(Keys) /\ Len(rowGroup') = next
      /\ IsGrouping(uniqueMsgs, request.key, merged', rowGroup')
      /\ IsIndexed(0, merged', rowGroup', rowOf)
  BY <1>1, AddRowStep
<1>3. /\ UNCHANGED <<request, workers, pc, at, arena, todo, cid, templates>>
      /\ UNCHANGED <<lineIndex, uniqueMsgs, counts, rowOf, rowPos, clusters, masks, parses>>
      /\ next' = next + 1 /\ numRows' = numRows /\ numLines' = numLines
  BY DEF SerialRow, buffers, numRows, numLines
<1>4. next' \in 1 .. MaxLines + 1 /\ next \in Nat
  <2>1. next \in 1 .. MaxLines + 1 /\ numRows \in 0 .. MaxLines /\ MaxLines \in Nat
    BY <1>1, StateFacts DEF Shapes
  <2> QED
    BY <1>1, <1>3, <2>1
<1>5. Shapes'
  BY <1>1, <1>2, <1>3, <1>4, Zenon DEF Shapes, Workers
<1>6. Dedup'
  BY <1>1, <1>3, Zenon DEF Dedup
<1>7. Arenas' /\ Emitting'
  BY <1>1, <1>3 DEF Arenas, Emitting
<1>8. Grouping'
  BY <1>1, <1>2, <1>3 DEF Grouping
<1> QED
  BY <1>5, <1>6, <1>7, <1>8 DEF ParseInv

\* Joined shards hold the key of every row where the merge reads it.
LEMMA ArenaKeyRight ==
    ASSUME Shapes, Dedup, Arenas, pc = "merge", NEW r \in 1 .. numRows
    PROVE  ArenaKey(r) = KeyOfRow(r)
<1> DEFINE s == CHOOSE s \in Active : r \in ShardRows(numRows, workers, s)
           lo == ShardLo(numRows, workers, s)
           hi == ShardHi(numRows, workers, s)
<1>1. numRows \in Nat \ {0} /\ workers \in 1 .. MaxWorkers /\ workers > 1
  BY RowsFacts DEF Dedup, Shapes, Arenas
<1>2. workers \in Nat \ {0}
  BY <1>1, ParseClustersAssumption
<1>3. \E t \in Active : r \in ShardRows(numRows, workers, t)
  BY <1>1, <1>2, ShardsCover DEF Active
<1>4. s \in Active /\ r \in ShardRows(numRows, workers, s)
  BY <1>3, Zenon
<1>5. ArenaKey(r) = arena[s][r - lo]
  BY DEF ArenaKey
<1> HIDE DEF s
<1>6. s \in Workers /\ lo \in Nat /\ hi \in 1 .. numRows /\ lo < hi
  BY <1>1, <1>4, ActiveFacts DEF Active
<1>7. r \in lo + 1 .. hi
  BY <1>4 DEF ShardRows
<1>8. /\ at[s] \in lo + 1 .. hi + 1 /\ Len(arena[s]) = at[s] - lo - 1
      /\ \A j \in 1 .. Len(arena[s]) : arena[s][j] = KeyOfRow(lo + j)
      /\ at[s] > hi
  BY <1>1, <1>4 DEF Arenas
<1> HIDE DEF lo, hi
<1>9. Len(arena[s]) = hi - lo
  BY <1>1, <1>6, <1>8
<1>10. r - lo \in 1 .. Len(arena[s]) /\ lo + (r - lo) = r
  BY <1>6, <1>7, <1>9
<1> QED
  BY <1>5, <1>8, <1>10

\* The merge adds a row.
LEMMA MergeRowStep ==
    ASSUME ParseInv, MergeRow
    PROVE  ParseInv'
<1>1. /\ Shapes /\ Dedup /\ Arenas /\ Grouping /\ pc = "merge" /\ next <= numRows
      /\ AddRow(next, ArenaKey(next))
  BY DEF ParseInv, MergeRow
<1>2. next \in 1 .. numRows
  BY <1>1, StateFacts DEF Shapes
<1>3. AddRow(next, KeyOfRow(next))
  BY <1>1, <1>2, ArenaKeyRight
<1>4. /\ DOMAIN merged' \subseteq Keys /\ AreGroups(merged')
      /\ rowGroup' \in Seq(Keys) /\ Len(rowGroup') = next
      /\ IsGrouping(uniqueMsgs, request.key, merged', rowGroup')
      /\ IsIndexed(0, merged', rowGroup', rowOf)
  BY <1>1, <1>3, AddRowStep
<1>5. /\ UNCHANGED <<request, workers, pc, at, arena, todo, cid, templates>>
      /\ UNCHANGED <<lineIndex, uniqueMsgs, counts, rowOf, rowPos, clusters, masks, parses>>
      /\ next' = next + 1 /\ numRows' = numRows /\ numLines' = numLines /\ Active' = Active
  BY DEF MergeRow, buffers, numRows, numLines, Active
<1>6. next' \in 1 .. MaxLines + 1 /\ next \in Nat
  <2>1. next \in 1 .. MaxLines + 1 /\ numRows \in 0 .. MaxLines /\ MaxLines \in Nat
    BY <1>1, StateFacts DEF Shapes
  <2> QED
    BY <1>1, <1>5, <2>1
<1>7. Shapes'
  BY <1>1, <1>4, <1>5, <1>6, Zenon DEF Shapes, Workers
<1>8. Dedup'
  BY <1>1, <1>5, Zenon DEF Dedup
<1>9. Arenas' /\ Emitting'
  <2>1. \A j : KeyOfRow(j)' = KeyOfRow(j)
    BY <1>5 DEF KeyOfRow
  <2>2. Emitting'
    BY <1>1, <1>5 DEF Emitting
  <2> QED
    BY <1>1, <1>5, <2>1, <2>2, Zenon DEF Arenas
<1>10. Grouping'
  BY <1>1, <1>4, <1>5 DEF Grouping
<1> QED
  BY <1>7, <1>8, <1>9, <1>10 DEF ParseInv

\* A shard computes the key of its next row.
LEMMA ShardRowStep ==
    ASSUME ParseInv, NEW w \in Workers, ShardRow(w)
    PROVE  ParseInv'
<1> DEFINE lo(v) == ShardLo(numRows, workers, v)
           hi(v) == ShardHi(numRows, workers, v)
           key == KeyOfRow(at[w])
<1>1. /\ Shapes /\ Dedup /\ Arenas /\ Grouping /\ pc = "keys" /\ workers > 1
      /\ w \in Active /\ at[w] <= hi(w)
      /\ arena' = [arena EXCEPT ![w] = Append(@, key)]
      /\ at' = [at EXCEPT ![w] = @ + 1]
  BY DEF ParseInv, ShardRow
<1>2. /\ UNCHANGED <<request, workers, pc, next, merged, rowGroup, todo, cid, templates>>
      /\ UNCHANGED <<lineIndex, uniqueMsgs, counts, rowOf, rowPos, clusters, masks, parses>>
      /\ numRows' = numRows /\ numLines' = numLines /\ Active' = Active
      /\ \A j : KeyOfRow(j)' = KeyOfRow(j)
  BY DEF ShardRow, buffers, numRows, numLines, Active, KeyOfRow
<1>3. numRows \in Nat \ {0} /\ numRows <= MaxLines /\ MaxLines \in Nat /\ workers \in 1 .. MaxWorkers
  BY <1>1, RowsFacts, StateFacts DEF Dedup, Shapes
<1>4. \A v \in Active : v \in Workers /\ lo(v) \in Nat /\ hi(v) \in 1 .. numRows /\ lo(v) < hi(v)
  BY <1>3, ActiveFacts DEF Active
<1>5. \A v \in Active :
         /\ at[v] \in lo(v) + 1 .. hi(v) + 1
         /\ Len(arena[v]) = at[v] - lo(v) - 1
         /\ \A j \in 1 .. Len(arena[v]) : arena[v][j] = KeyOfRow(lo(v) + j)
  BY <1>1 DEF Arenas
<1>6. at \in [Workers -> 1 .. MaxLines + 1] /\ arena \in [Workers -> Seq(Keys)]
  BY <1>1 DEF Shapes
<1> HIDE DEF lo, hi, key
<1>7. at[w] \in 1 .. numRows /\ at[w] + 1 \in lo(w) + 1 .. hi(w) + 1
  BY <1>1, <1>3, <1>4, <1>5
<1>8. key \in Keys
  <2>1. /\ numLines # 0
        /\ IsDedup(request.lines, numLines, lineIndex, uniqueMsgs, counts, rowOf)
    BY <1>1 DEF Dedup
  <2> QED
    BY <1>1, <1>7, <2>1, RowsFacts DEF key
<1>9. at' \in [Workers -> 1 .. MaxLines + 1]
  <2>1. at[w] + 1 \in 1 .. MaxLines + 1
    BY <1>3, <1>7
  <2> QED
    BY <1>1, <1>6, <2>1
<1>10. arena' \in [Workers -> Seq(Keys)]
  <2>1. Append(arena[w], key) \in Seq(Keys)
    BY <1>6, <1>8
  <2> QED
    BY <1>1, <1>6, <2>1
<1>11. Shapes'
  BY <1>1, <1>2, <1>9, <1>10, Zenon DEF Shapes, Workers
<1>12. Dedup'
  BY <1>1, <1>2, Zenon DEF Dedup
<1>13. Grouping' /\ Emitting'
  BY <1>1, <1>2 DEF Grouping, Emitting
<1>14. ASSUME NEW v \in Active
       PROVE  /\ at'[v] \in lo(v) + 1 .. hi(v) + 1
              /\ Len(arena'[v]) = at'[v] - lo(v) - 1
              /\ \A j \in 1 .. Len(arena'[v]) : arena'[v][j] = KeyOfRow(lo(v) + j)
  <2>1. CASE v # w
    <3>1. at'[v] = at[v] /\ arena'[v] = arena[v]
      BY <1>1, <1>6, <2>1
    <3> QED
      BY <1>5, <3>1
  <2>2. CASE v = w
    <3>1. at'[w] = at[w] + 1 /\ arena'[w] = Append(arena[w], key)
      BY <1>1, <1>6
    <3> DEFINE s == arena[w]
               n == Len(s)
    <3>2. s \in Seq(Keys) /\ n \in Nat
      BY <1>6
    <3>3. /\ Len(Append(s, key)) = n + 1 /\ Append(s, key)[n + 1] = key
          /\ \A j \in 1 .. n : Append(s, key)[j] = s[j]
      BY <3>2
    <3>4. /\ n = at[w] - lo(w) - 1 /\ \A j \in 1 .. n : s[j] = KeyOfRow(lo(w) + j)
          /\ lo(w) \in Nat
      BY <1>1, <1>4, <1>5
    <3> HIDE DEF s, n
    <3>5. lo(w) + (n + 1) = at[w] /\ n + 1 = at'[w] - lo(w) - 1
      <4>1. \A a, b, l \in Nat : n = a - l - 1 /\ b = a + 1
              => l + (n + 1) = a /\ n + 1 = b - l - 1
        BY <3>2
      <4>2. at[w] \in Nat /\ at[w] + 1 \in Nat
        BY <1>3, <1>7
      <4>3. at'[w] \in Nat /\ lo(w) \in Nat
        BY <3>1, <3>4, <4>2
      <4>4. n = at[w] - lo(w) - 1 /\ at'[w] = at[w] + 1
        BY <3>1, <3>4, Zenon
      <4> QED
        BY <4>1, <4>2, <4>3, <4>4
    <3>6. \A j \in 1 .. n + 1 : Append(s, key)[j] = KeyOfRow(lo(w) + j)
      <4>1. \A j \in 1 .. n + 1 : j \in 1 .. n \/ j = n + 1
        BY <3>2
      <4> QED
        BY <3>3, <3>4, <3>5, <4>1, Zenon DEF key
    <3>7. arena'[w] = Append(s, key) /\ Len(arena'[w]) = n + 1
      BY <3>1, <3>3 DEF s
    <3>8. at'[w] \in lo(w) + 1 .. hi(w) + 1
      BY <1>7, <3>1
    <3> QED
      BY <2>2, <3>5, <3>6, <3>7, <3>8, Zenon
  <2> QED
    BY <2>1, <2>2
<1>15. Arenas'
  <2>1. pc' # "merge"
    BY <1>1, <1>2
  <2>2. \A v \in Active' :
           /\ at'[v] \in ShardLo(numRows, workers, v)' + 1 .. ShardHi(numRows, workers, v)' + 1
           /\ Len(arena'[v]) = at'[v] - ShardLo(numRows, workers, v)' - 1
           /\ \A j \in 1 .. Len(arena'[v]) :
                 arena'[v][j] = KeyOfRow(ShardLo(numRows, workers, v) + j)'
    BY <1>1, <1>2, <1>14, ZenonT(60) DEF lo, hi
  <2> QED
    BY <2>1, <2>2 DEF Arenas
<1> QED
  BY <1>11, <1>12, <1>13, <1>15 DEF ParseInv

\* All shards are done.
LEMMA JoinStep ==
    ASSUME ParseInv, Join
    PROVE  ParseInv'
<1>1. /\ Shapes /\ Dedup /\ Arenas /\ Grouping /\ pc = "keys" /\ pc' = "merge" /\ workers > 1
      /\ \A w \in Active : at[w] > ShardHi(numRows, workers, w)
  BY DEF ParseInv, Join, AllDone, RangeDone
<1>2. /\ UNCHANGED <<request, workers, next, at, arena, merged, rowGroup, todo, cid, templates>>
      /\ UNCHANGED <<lineIndex, uniqueMsgs, counts, rowOf, rowPos, clusters, masks, parses>>
      /\ numRows' = numRows /\ numLines' = numLines /\ Active' = Active
      /\ \A j : KeyOfRow(j)' = KeyOfRow(j)
  BY DEF Join, buffers, locals, numRows, numLines, Active, KeyOfRow
<1>3. Shapes'
  BY <1>1, <1>2, pc' \in Phases, Zenon DEF Shapes, Workers, Phases
<1>4. Dedup' /\ Grouping' /\ Emitting'
  BY <1>1, <1>2 DEF Dedup, Grouping, Emitting
<1>5. Arenas'
  BY <1>1, <1>2, Zenon DEF Arenas
<1> QED
  BY <1>3, <1>4, <1>5 DEF ParseInv

\* The loop over the lines begins.
LEMMA BeginIndexStep ==
    ASSUME ParseInv, BeginIndex
    PROVE  ParseInv'
<1>1. /\ Shapes /\ Dedup /\ Grouping /\ pc \in {"keys", "merge"} /\ pc' = "index"
      /\ next > numRows /\ next' = 1
  BY DEF ParseInv, BeginIndex
<1>2. /\ UNCHANGED <<request, workers, at, arena, merged, rowGroup, todo, cid, templates>>
      /\ UNCHANGED <<lineIndex, uniqueMsgs, counts, rowOf, rowPos, clusters, masks, parses>>
      /\ numRows' = numRows /\ numLines' = numLines
  BY DEF BeginIndex, buffers, numRows, numLines
<1>3. next' \in 1 .. MaxLines + 1 /\ pc' \in Phases
  BY <1>1, ParseClustersAssumption DEF Phases
<1>4. Shapes'
  BY <1>1, <1>2, <1>3, Zenon DEF Shapes, Workers
<1>5. Dedup' /\ Arenas' /\ Emitting'
  BY <1>1, <1>2 DEF Dedup, Arenas, Emitting
<1>6. Len(rowGroup) = numRows
  <2>1. Len(rowGroup) \in Nat /\ numRows \in Nat
    BY <1>1, StateFacts DEF Shapes
  <2> QED
    BY <1>1, <2>1 DEF Grouping
<1>7. Grouping'
  <2>1. next' - 1 = 0 /\ next' <= numLines + 1
    BY <1>1, StateFacts
  <2> QED
    BY <1>1, <1>2, <1>6, <2>1 DEF Grouping
<1> QED
  BY <1>4, <1>5, <1>7 DEF ParseInv

\* A line's index is added.
LEMMA IndexLineStep ==
    ASSUME ParseInv, IndexLine
    PROVE  ParseInv'
<1> DEFINE m == next - 1
<1>1. /\ Shapes /\ Dedup /\ Grouping /\ pc = "index" /\ next <= numLines
  BY DEF ParseInv, IndexLine
<1>2. /\ numLines \in 0 .. MaxLines /\ MaxLines \in Nat /\ m \in Nat /\ m + 1 = next
      /\ next \in 1 .. numLines /\ numLines \in Nat
  <2>1. next \in 1 .. MaxLines + 1 /\ numLines \in 0 .. MaxLines /\ MaxLines \in Nat
    BY <1>1, StateFacts DEF Shapes
  <2> QED
    BY <1>1, <2>1
<1>3. /\ UNCHANGED <<request, workers, pc, at, arena, rowGroup, todo, cid, templates>>
      /\ UNCHANGED <<lineIndex, uniqueMsgs, counts, rowOf, rowPos, clusters, masks, parses>>
      /\ numRows' = numRows /\ numLines' = numLines
  BY DEF IndexLine, buffers, numRows, numLines
<1>4. /\ numLines # 0
      /\ IsDedup(request.lines, numLines, lineIndex, uniqueMsgs, counts, rowOf)
      /\ Len(rowGroup) = numRows /\ IsIndexed(m, merged, rowGroup, rowOf)
      /\ IsGrouping(uniqueMsgs, request.key, merged, rowGroup)
  BY <1>1 DEF Dedup, Grouping
<1>5. rowOf[next] \in 1 .. Len(rowGroup)
  BY <1>1, <1>2, <1>4, RowsFacts
<1>6. rowGroup[rowOf[next]] \in DOMAIN merged
  BY <1>4, <1>5 DEF IsGrouping
<1> HIDE DEF m
<1>7. merged' = [merged EXCEPT ![rowGroup[rowOf[m + 1]]].indices = Append(@, m + 1)]
  BY <1>2 DEF IndexLine
<1>8. /\ DOMAIN merged' = DOMAIN merged /\ AreGroups(merged')
      /\ \A k \in DOMAIN merged : merged'[k].rows = merged[k].rows
      /\ IsIndexed(m + 1, merged', rowGroup, rowOf)
  BY <1>1, <1>2, <1>4, <1>6, <1>7, IndexAdd DEF Shapes
<1>9. next' \in 1 .. MaxLines + 1 /\ next' <= numLines + 1 /\ next' - 1 = m + 1
  BY <1>2 DEF IndexLine
<1>10. DOMAIN merged' \subseteq Keys
  BY <1>1, <1>8 DEF Shapes
<1>11. Shapes'
  BY <1>1, <1>3, <1>8, <1>9, <1>10, Zenon DEF Shapes, Workers
<1>12. Dedup' /\ Arenas' /\ Emitting'
  BY <1>1, <1>3 DEF Dedup, Arenas, Emitting
<1>13. IsGrouping(uniqueMsgs, request.key, merged', rowGroup)
  BY <1>4, <1>8 DEF IsGrouping
<1>14. Grouping'
  BY <1>1, <1>3, <1>4, <1>8, <1>9, <1>13 DEF Grouping
<1> QED
  BY <1>11, <1>12, <1>14 DEF ParseInv

-----------------------------------------------------------------------------
\* The keys below one.
Below(S, a) == {k \in S : k < a}

\* The promise counts as this module does.
LEMMA SameCardinality ==
    ASSUME NEW S
    PROVE  Abstract!Cardinality(S) = Cardinality(S)
  BY Zenon DEF Abstract!Cardinality, Cardinality

\* The cluster of a line with anchors is the number of used keys below its key.
LEMMA ClusterOfKey ==
    ASSUME NEW r, NEW m, r.key[m] # 0
    PROVE  Abstract!ClusterOf(r, m) = Cardinality(Below(Abstract!UsedKeys(r), r.key[m]))
<1> DEFINE U == Abstract!UsedKeys(r)
           x == r.key[m]
<1>1. Abstract!ClusterOf(r, m) =
        IF r.key[m] = 0 THEN -1 ELSE Cardinality({k \in Abstract!UsedKeys(r) : k < r.key[m]})
  BY SameCardinality, Zenon DEF Abstract!ClusterOf
<1>2. {k \in U : k < x} = Below(U, x)
  BY DEF Below
<1>3. x # 0
  OBVIOUS
<1> HIDE DEF U, x
<1> QED
  BY <1>1, <1>2, <1>3 DEF U, x

\* Different keys have differently many keys below them.
LEMMA BelowDiffers ==
    ASSUME NEW S \in SUBSET Nat, IsFiniteSet(S), NEW a \in S, NEW b \in S,
           Cardinality(Below(S, a)) = Cardinality(Below(S, b))
    PROVE  a = b
<1>1. ASSUME NEW x \in S, NEW y \in S, x < y
      PROVE  Cardinality(Below(S, x)) # Cardinality(Below(S, y))
  <2> DEFINE A == Below(S, x)
             B == Below(S, y)
  <2>1. x \in B /\ x \notin A /\ A \in SUBSET B /\ B \in SUBSET S
    <3>1. x \in Nat /\ y \in Nat /\ S \subseteq Nat
      OBVIOUS
    <3>2. ~(x < x) /\ \A k \in Nat : k < x => k < y
      BY <1>1, <3>1
    <3>3. \A k \in S : k < x => k < y
      BY <3>1, <3>2
    <3> QED
      BY <1>1, <3>2, <3>3, Zenon DEF Below
  <2> HIDE DEF A, B
  <2>2. IsFiniteSet(B)
    BY <2>1, FS_Subset
  <2>3. Cardinality(B) # Cardinality(A)
    BY <2>1, <2>2, FS_Subset
  <2> QED
    BY <2>3 DEF A, B
<1>2. ~(a < b) /\ ~(b < a)
  BY <1>1
<1>3. a \in Nat /\ b \in Nat
  OBVIOUS
<1> QED
  BY <1>2, <1>3

\* Element j of an ascending sequence of positive numbers is at least j.
LEMMA AscendsBound ==
    ASSUME NEW s \in Seq(Nat), Ascends(s), \A j \in 1 .. Len(s) : s[j] # 0,
           NEW j \in 1 .. Len(s)
    PROVE  j <= s[j]
<1> DEFINE n == Len(s)
           bad == {i \in 1 .. n : s[i] < i}
<1>1. n \in Nat /\ DOMAIN s = 1 .. n /\ \A i \in 1 .. n : s[i] \in Nat \ {0}
  OBVIOUS
<1>2. bad = {}
  <2> SUFFICES ASSUME bad # {}
               PROVE  FALSE
    OBVIOUS
  <2>1. PICK i \in bad : \A k \in bad : i <= k
    BY <1>1, LeastNat, bad \in SUBSET Nat
  <2>2. i \in 1 .. n /\ s[i] < i /\ s[i] \in Nat \ {0}
    BY <1>1, <2>1
  <2>3. i # 1 /\ i - 1 \in 1 .. n /\ i - 1 < i
    BY <1>1, <2>2
  <2>4. i - 1 \notin bad
    BY <1>1, <2>1, <2>2, <2>3
  <2>5. s[i - 1] >= i - 1 /\ s[i - 1] \in Nat
    BY <1>1, <2>3, <2>4
  <2>6. s[i - 1] < s[i]
    BY <1>1, <2>2, <2>3 DEF Ascends
  <2> QED
    BY <2>2, <2>5, <2>6
<1> QED
  BY <1>1, <1>2

\* The head of the queue of sorted groups is the least key that is left.
LEMMA QueueNext ==
    ASSUME NEW keys \in SUBSET Nat, NEW left \in Seq(keys), IsQueue(keys, left),
           left # <<>>
    PROVE  /\ Tail(left) \in Seq(keys) /\ IsQueue(keys, Tail(left))
           /\ Head(left) \in keys \cap ToSet(left)
           /\ keys \ ToSet(Tail(left)) = (keys \ ToSet(left)) \cup {Head(left)}
           /\ \A k \in keys : k < Head(left) <=> k \notin ToSet(left)
<1> DEFINE n == Len(left)
           h == Head(left)
           t == Tail(left)
<1>1. /\ n \in Nat \ {0} /\ DOMAIN left = 1 .. n /\ DOMAIN t = 1 .. n - 1 /\ t \in Seq(keys)
      /\ h = left[1] /\ 1 \in 1 .. n /\ \A i \in 1 .. n - 1 : t[i] = left[i + 1]
  OBVIOUS
<1>2. \A i \in 1 .. n : left[i] \in keys
  OBVIOUS
<1> HIDE DEF n, h, t
<1>3. \A i \in 2 .. n : h < left[i] /\ i - 1 \in 1 .. n - 1 /\ left[i] = t[i - 1]
  <2> TAKE i \in 2 .. n
  <2>1. i \in 1 .. n /\ 1 < i /\ i - 1 \in 1 .. n - 1 /\ (i - 1) + 1 = i
    BY <1>1
  <2>2. \A j, k \in 1 .. n : j < k => left[j] < left[k]
    BY <1>1 DEF IsQueue, Ascends
  <2> QED
    BY <1>1, <2>1, <2>2, Zenon
<1>4. \A i \in 1 .. n - 1 : i + 1 \in 2 .. n /\ i + 1 \in 1 .. n
  BY <1>1
<1>5. \A x \in ToSet(t) : x \in ToSet(left) /\ h < x /\ x \in keys
  BY <1>1, <1>2, <1>3, <1>4 DEF ToSet
<1>6. \A x \in ToSet(left) : x = h \/ x \in ToSet(t)
  <2> TAKE x \in ToSet(left)
  <2>1. PICK i \in 1 .. n : x = left[i]
    BY <1>1 DEF ToSet
  <2>2. i = 1 \/ i \in 2 .. n
    BY <1>1
  <2> QED
    BY <1>1, <1>3, <2>1, <2>2, Zenon DEF ToSet
<1>7. h \in keys /\ h \in ToSet(left) /\ h \in Nat
  BY <1>1, <1>2 DEF ToSet
<1>8. h \notin ToSet(t)
  BY <1>5, <1>7
<1>9. Ascends(t)
  <2> SUFFICES ASSUME NEW j \in 1 .. n - 1, NEW k \in 1 .. n - 1, j < k
               PROVE  t[j] < t[k]
    BY <1>1 DEF Ascends
  <2>1. j + 1 < k + 1 /\ j + 1 \in 1 .. n /\ k + 1 \in 1 .. n
    BY <1>1
  <2> QED
    BY <1>1, <2>1 DEF IsQueue, Ascends
<1>10. \A d \in keys \ ToSet(left), x \in ToSet(left) : d < x
  BY DEF IsQueue
<1>11. \A d \in keys \ ToSet(t), x \in ToSet(t) : d < x
  BY <1>5, <1>6, <1>10, Zenon
<1>12. IsQueue(keys, t)
  BY <1>5, <1>9, <1>11, Zenon DEF IsQueue
<1>13. keys \ ToSet(t) = (keys \ ToSet(left)) \cup {h}
  BY <1>5, <1>6, <1>7, <1>8, Zenon
<1>14. ASSUME NEW k \in keys
       PROVE  k < h <=> k \notin ToSet(left)
  <2>1. k \in ToSet(left) => ~(k < h)
    BY <1>5, <1>6, <1>7
  <2> QED
    BY <1>7, <1>10, <2>1
<1> QED
  BY <1>1, <1>7, <1>12, <1>13, <1>14, Zenon DEF t, h

\* A line is in the group of its key, and a group has the lines of its key.
LEMMA GroupMeans ==
    ASSUME Shapes, Dedup, Grouping, pc = "emit"
    PROVE  /\ DOMAIN merged = {request.key[m] : m \in Abstract!LinesOf(request)}
           /\ DOMAIN merged \ {0} = Abstract!UsedKeys(request)
           /\ \A k \in 1 .. numLines :
                 /\ rowOf[k] \in 1 .. numRows /\ uniqueMsgs[rowOf[k]] = request.lines[k]
                 /\ rowGroup[rowOf[k]] = request.key[request.lines[k]]
           /\ \A h \in DOMAIN merged :
                 /\ ToSet(merged[h].rows) = {r \in 1 .. numRows : rowGroup[r] = h}
                 /\ ToSet(merged[h].indices)
                      = {k \in 1 .. numLines : request.key[request.lines[k]] = h}
                 /\ TextOf(merged[h]) = Abstract!Sharing(request, h)
<1>1. /\ numLines \in Nat /\ numRows \in Nat /\ numLines # 0
      /\ Len(request.lines) = numLines /\ Len(uniqueMsgs) = numRows
      /\ Len(rowGroup) = numRows
      /\ IsDedup(request.lines, numLines, lineIndex, uniqueMsgs, counts, rowOf)
      /\ IsGrouping(uniqueMsgs, request.key, merged, rowGroup)
      /\ IsIndexed(numLines, merged, rowGroup, rowOf)
  BY StateFacts DEF Dedup, Grouping
<1>2. \A m : m \in Abstract!LinesOf(request) <=> \E k \in 1 .. numLines : m = request.lines[k]
  <2>1. DOMAIN request.lines = 1 .. numLines
    BY <1>1, StateFacts
  <2> QED
    BY <2>1, Zenon DEF Abstract!LinesOf
<1>3. /\ \A k \in 1 .. numLines : rowOf[k] \in 1 .. numRows /\ uniqueMsgs[rowOf[k]] = request.lines[k]
      /\ \A r \in 1 .. numRows : \E k \in 1 .. numLines : request.lines[k] = uniqueMsgs[r]
  BY <1>1 DEF IsDedup
<1>4. /\ \A r \in 1 .. numRows : rowGroup[r] = request.key[uniqueMsgs[r]]
      /\ DOMAIN merged = {rowGroup[r] : r \in 1 .. numRows}
      /\ \A h \in DOMAIN merged :
            ToSet(merged[h].rows) = {r \in 1 .. numRows : rowGroup[r] = h}
  BY <1>1 DEF IsGrouping
<1>5. \A k \in 1 .. numLines : rowGroup[rowOf[k]] = request.key[request.lines[k]]
  BY <1>3, <1>4, Zenon
<1>6. DOMAIN merged = {request.key[m] : m \in Abstract!LinesOf(request)}
  <2>1. \A r \in 1 .. numRows : \E m \in Abstract!LinesOf(request) : rowGroup[r] = request.key[m]
    BY <1>2, <1>3, <1>4, Zenon
  <2>2. \A m \in Abstract!LinesOf(request) : \E r \in 1 .. numRows : request.key[m] = rowGroup[r]
    <3> TAKE m \in Abstract!LinesOf(request)
    <3>1. PICK k \in 1 .. numLines : m = request.lines[k]
      BY <1>2
    <3>2. rowOf[k] \in 1 .. numRows /\ rowGroup[rowOf[k]] = request.key[m]
      BY <1>3, <1>5, <3>1
    <3> QED
      BY <3>2, Zenon
  <2>3. \A x : (\E r \in 1 .. numRows : x = rowGroup[r])
                 <=> (\E m \in Abstract!LinesOf(request) : x = request.key[m])
    BY <2>1, <2>2, Zenon
  <2> QED
    BY <1>4, <2>3, Zenon
<1>7. DOMAIN merged \ {0} = Abstract!UsedKeys(request)
  BY <1>6, Zenon DEF Abstract!UsedKeys
<1>8. ASSUME NEW h \in DOMAIN merged
      PROVE  /\ ToSet(merged[h].indices) = {k \in 1 .. numLines : request.key[request.lines[k]] = h}
             /\ TextOf(merged[h]) = Abstract!Sharing(request, h)
  <2>1. ToSet(merged[h].indices) = {k \in 1 .. numLines : rowGroup[rowOf[k]] = h}
    BY <1>1 DEF IsIndexed
  <2>2. ToSet(merged[h].indices) = {k \in 1 .. numLines : request.key[request.lines[k]] = h}
    BY <1>5, <2>1, Zenon
  <2> DEFINE R == ToSet(merged[h].rows)
  <2>3. R = {r \in 1 .. numRows : rowGroup[r] = h} /\ TextOf(merged[h]) = {uniqueMsgs[r] : r \in R}
    BY <1>4 DEF TextOf
  <2> HIDE DEF R
  <2>4. \A r \in R : uniqueMsgs[r] \in Abstract!Sharing(request, h)
    BY <1>2, <1>3, <1>4, <2>3, Zenon DEF Abstract!Sharing
  <2>5. \A m \in Abstract!Sharing(request, h) : \E r \in R : m = uniqueMsgs[r]
    <3> SUFFICES ASSUME NEW m \in Abstract!LinesOf(request), request.key[m] = h
                 PROVE  \E r \in R : m = uniqueMsgs[r]
      BY DEF Abstract!Sharing
    <3>1. PICK k \in 1 .. numLines : m = request.lines[k]
      BY <1>2
    <3> QED
      BY <1>3, <1>5, <2>3, <3>1, Zenon
  <2>6. Abstract!Sharing(request, h) = {uniqueMsgs[r] : r \in R}
    BY <2>4, <2>5, Zenon
  <2> QED
    BY <2>2, <2>3, <2>6
<1> QED
  BY <1>3, <1>4, <1>5, <1>6, <1>7, <1>8, Zenon

\* The groups are sorted and the results reset.
LEMMA SortGroupsStep ==
    ASSUME ParseInv, SortGroups
    PROVE  ParseInv'
<1>1. /\ Shapes /\ Dedup /\ Grouping /\ pc = "index" /\ next > numLines
      /\ todo' = Sorted(DOMAIN merged) /\ templates' = <<>> /\ cid' = 0 /\ pc' = "emit"
      /\ clusters' = EnsureWithValue(clusters, numLines, -1)
      /\ masks' = IF request.masks
                    THEN EnsureWithValue(masks, numLines, Abstract!NoMask) ELSE masks
      /\ rowPos' = IF request.masks THEN EnsureInt32(rowPos, numRows) ELSE rowPos
  BY DEF ParseInv, SortGroups
<1>2. /\ UNCHANGED <<request, workers, next, at, arena, merged, rowGroup, lineIndex,
                     uniqueMsgs, counts, rowOf, parses>>
      /\ numRows' = numRows /\ numLines' = numLines
  BY DEF SortGroups, numRows, numLines
<1>3. /\ numLines \in Nat /\ numRows \in Nat /\ MaxLines \in Nat /\ Keys \subseteq Nat
      /\ numLines # 0 /\ Len(request.lines) = numLines
      /\ IsDedup(request.lines, numLines, lineIndex, uniqueMsgs, counts, rowOf)
      /\ IsGrouping(uniqueMsgs, request.key, merged, rowGroup)
      /\ Len(rowGroup) = numRows
      /\ next <= numLines + 1 /\ IsIndexed(next - 1, merged, rowGroup, rowOf)
  BY <1>1, StateFacts DEF Dedup, Grouping
<1>4. next - 1 = numLines
  <2>1. next \in 1 .. MaxLines + 1
    BY <1>1 DEF Shapes
  <2> QED
    BY <1>1, <1>3, <2>1
<1>5. /\ DOMAIN merged \in SUBSET Nat /\ DOMAIN merged \subseteq Keys
      /\ IsFiniteSet(DOMAIN merged)
  <2>1. DOMAIN merged \subseteq Keys
    BY <1>1 DEF Shapes
  <2>2. DOMAIN merged = {rowGroup[r] : r \in 1 .. numRows}
    BY <1>3 DEF IsGrouping
  <2>3. DOMAIN rowGroup = 1 .. numRows
    BY <1>1, <1>3 DEF Shapes
  <2>4. IsFiniteSet(1 .. numRows)
    BY <1>3, CountFromOne
  <2>5. IsFiniteSet({rowGroup[r] : r \in 1 .. numRows})
    BY <2>3, <2>4, RangeBound
  <2> QED
    BY <1>3, <2>1, <2>2, <2>5
<1>6. /\ todo' \in Seq(DOMAIN merged) /\ Ascends(todo') /\ ToSet(todo') = DOMAIN merged
  BY <1>1, <1>5, SortedFacts
<1>7. todo' \in Seq(Keys)
  BY <1>5, <1>6, SeqLarger
<1>8. clusters \in Seq(Int) /\ masks \in Seq(AnyMask) /\ rowPos \in Seq(0 .. MaxLines)
  BY <1>1, Zenon DEF Shapes
<1>9. /\ clusters' \in Seq(Int) /\ Len(clusters') >= numLines
      /\ \A k \in 1 .. numLines : clusters'[k] = -1
  <2>1. ASSUME NEW S, NEW x \in S, clusters \in Seq(S)
        PROVE  /\ EnsureWithValue(clusters, numLines, x) \in Seq(S)
               /\ Len(EnsureWithValue(clusters, numLines, x)) >= numLines
               /\ \A k \in 1 .. numLines : EnsureWithValue(clusters, numLines, x)[k] = x
    BY <1>3, <2>1, EnsureValueFacts
  <2>2. -1 \in Int
    OBVIOUS
  <2> QED
    BY <1>1, <1>8, <2>1, <2>2, Zenon
<1>10. Abstract!NoMask \in AnyMask
  BY DEF AnyMask
<1>11. /\ masks' \in Seq(AnyMask)
       /\ request.masks => /\ Len(masks') >= numLines
                           /\ \A k \in 1 .. numLines : masks'[k] = Abstract!NoMask
  <2>1. ASSUME NEW x \in AnyMask
        PROVE  /\ EnsureWithValue(masks, numLines, x) \in Seq(AnyMask)
               /\ Len(EnsureWithValue(masks, numLines, x)) >= numLines
               /\ \A k \in 1 .. numLines : EnsureWithValue(masks, numLines, x)[k] = x
    BY <1>3, <1>8, EnsureValueFacts
  <2>2. CASE request.masks
    BY <1>1, <1>10, <2>1, <2>2, Zenon
  <2>3. CASE ~request.masks
    BY <1>1, <1>8, <2>3, Zenon
  <2> QED
    BY <2>2, <2>3
<1>12. rowPos' \in Seq(0 .. MaxLines) /\ (request.masks => numRows <= Len(rowPos'))
  <2>1. 0 \in 0 .. MaxLines
    BY <1>3
  <2>2. /\ EnsureInt32(rowPos, numRows) \in Seq(0 .. MaxLines)
        /\ Len(EnsureInt32(rowPos, numRows)) >= numRows
    BY <1>3, <1>8, <2>1, EnsureFacts
  <2>3. Len(EnsureInt32(rowPos, numRows)) \in Nat
    BY <2>2
  <2> QED
    BY <1>1, <1>3, <1>8, <2>2, <2>3
<1>13. Shapes'
  <2>1. templates' \in Seq(SUBSET Messages) /\ cid' \in Nat /\ pc' \in Phases
    BY <1>1 DEF Phases
  <2> QED
    BY <1>1, <1>2, <1>7, <1>9, <1>11, <1>12, <2>1, Zenon DEF Shapes, Workers
<1>14. Dedup' /\ Arenas'
  BY <1>1, <1>2, <1>3 DEF Dedup, Arenas
<1>15. Grouping'
  BY <1>1, <1>2, <1>3, <1>4 DEF Grouping
<1>16. Done' = {}
  BY <1>2, <1>6 DEF Done
<1>17. IsQueue(DOMAIN merged', todo')
  BY <1>2, <1>6, Zenon DEF IsQueue
<1>18. cid' = Cardinality(Done' \ {0})
  BY <1>1, <1>16, FS_EmptySet
<1>19. ClustersGood(request', Done', clusters')
  BY <1>2, <1>3, <1>9, <1>16 DEF ClustersGood
<1>20. request.masks => MasksGood(request', Done', masks')
  BY <1>2, <1>3, <1>11, <1>16 DEF MasksGood
<1>21. TemplatesGood(request', cid', templates')
  BY <1>1 DEF TemplatesGood
<1>22. Emitting'
  BY <1>2, <1>12, <1>17, <1>18, <1>19, <1>20, <1>21, Zenon DEF Emitting
<1> QED
  BY <1>13, <1>14, <1>15, <1>22 DEF ParseInv

\* The next group is the least that is left; those below it are done.
LEMMA QueueFacts ==
    ASSUME Shapes, Emitting, pc = "emit", todo # <<>>
    PROVE  /\ Tail(todo) \in Seq(Keys) /\ IsQueue(DOMAIN merged, Tail(todo))
           /\ Head(todo) \in DOMAIN merged /\ Head(todo) \notin Done
           /\ DOMAIN merged \ ToSet(Tail(todo)) = Done \cup {Head(todo)}
           /\ \A k \in DOMAIN merged : k < Head(todo) <=> k \in Done
<1> DEFINE D == DOMAIN merged
<1>1. D \subseteq Keys /\ Keys \subseteq Nat /\ todo \in Seq(Keys) /\ IsQueue(D, todo)
  BY StateFacts DEF Shapes, Emitting
<1>2. todo \in Seq(D)
  <2>1. \A i \in 1 .. Len(todo) : todo[i] \in D
    BY <1>1 DEF IsQueue, ToSet
  <2>2. todo \in [1 .. Len(todo) -> D] /\ Len(todo) \in Nat
    BY <1>1, <2>1
  <2> QED
    BY <2>2
<1>3. Done = D \ ToSet(todo)
  BY DEF Done
<1> HIDE DEF D
<1>4. D \in SUBSET Nat
  BY <1>1
<1>5. /\ Tail(todo) \in Seq(D) /\ IsQueue(D, Tail(todo)) /\ Head(todo) \in D \cap ToSet(todo)
      /\ D \ ToSet(Tail(todo)) = (D \ ToSet(todo)) \cup {Head(todo)}
      /\ \A k \in D : k < Head(todo) <=> k \notin ToSet(todo)
  BY <1>1, <1>2, <1>4, QueueNext
<1>6. Tail(todo) \in Seq(Keys)
  BY <1>1, <1>5, SeqLarger
<1> QED
  BY <1>3, <1>5, <1>6, Zenon DEF D

\* The group of the empty key is passed over.
LEMMA SkipGroupStep ==
    ASSUME ParseInv, SkipGroup
    PROVE  ParseInv'
<1>1. /\ Shapes /\ Dedup /\ Grouping /\ Emitting /\ pc = "emit" /\ todo # <<>>
      /\ Head(todo) = 0 /\ todo' = Tail(todo)
  BY DEF ParseInv, SkipGroup
<1>2. /\ UNCHANGED <<request, workers, pc, next, at, arena, merged, rowGroup, cid, templates>>
      /\ UNCHANGED <<lineIndex, uniqueMsgs, counts, rowOf, rowPos, clusters, masks, parses>>
      /\ numRows' = numRows /\ numLines' = numLines
  BY DEF SkipGroup, buffers, numRows, numLines
<1>3. /\ todo' \in Seq(Keys) /\ IsQueue(DOMAIN merged, todo')
      /\ Done' = Done \cup {0}
  BY <1>1, <1>2, QueueFacts DEF Done
<1>4. Done' \ {0} = Done \ {0}
  BY <1>3
<1>5. Shapes'
  BY <1>1, <1>2, <1>3, Zenon DEF Shapes, Workers
<1>6. Dedup' /\ Arenas'
  BY <1>1, <1>2 DEF Dedup, Arenas
<1>7. Grouping'
  BY <1>1, <1>2 DEF Grouping
<1>8. Emitting'
  <2>1. /\ cid = Cardinality(Done \ {0}) /\ ClustersGood(request, Done, clusters)
        /\ TemplatesGood(request, cid, templates)
        /\ request.masks => MasksGood(request, Done, masks) /\ numRows <= Len(rowPos)
    BY <1>1 DEF Emitting
  <2>2. ClustersGood(request, Done', clusters)
    BY <1>4, <2>1, Zenon DEF ClustersGood
  <2>3. request.masks => MasksGood(request, Done', masks)
    BY <1>4, <2>1, Zenon DEF MasksGood
  <2> QED
    BY <1>2, <1>3, <1>4, <2>1, <2>2, <2>3, Zenon DEF Emitting
<1> QED
  BY <1>5, <1>6, <1>7, <1>8 DEF ParseInv

\* The cluster being emitted is the cluster of the next key's lines.
LEMMA CidIsNext ==
    ASSUME Shapes, Dedup, Grouping, Emitting, pc = "emit", todo # <<>>, Head(todo) # 0
    PROVE  /\ Head(todo) \in Abstract!UsedKeys(request)
           /\ \A m \in Abstract!LinesOf(request) :
                 Abstract!ClusterOf(request, m) = cid <=> request.key[m] = Head(todo)
           /\ Cardinality((Done \cup {Head(todo)}) \ {0}) = cid + 1
<1> DEFINE U == Abstract!UsedKeys(request)
           h == Head(todo)
<1>1. request \in Requests /\ cid \in Nat
  BY DEF Shapes
<1>2. IsFiniteSet(U) /\ U \in SUBSET Nat
  BY <1>1, RequestFacts
<1>3. /\ DOMAIN merged \ {0} = U /\ h \in DOMAIN merged /\ h \notin Done
      /\ \A k \in DOMAIN merged : k < h <=> k \in Done
  BY GroupMeans, QueueFacts
<1>4. Done \subseteq DOMAIN merged
  BY DEF Done
<1> HIDE DEF U, h
<1>5. h \in U /\ h # 0
  BY <1>3 DEF h
<1>6. Done \ {0} = Below(U, h)
  BY <1>3, <1>4, Zenon DEF Below
<1>7. cid = Cardinality(Below(U, h))
  BY <1>6 DEF Emitting
<1>8. ASSUME NEW m \in Abstract!LinesOf(request)
      PROVE  Abstract!ClusterOf(request, m) = cid <=> request.key[m] = h
  <2>1. CASE request.key[m] = 0
    <3>1. Abstract!ClusterOf(request, m) = -1
      BY <2>1 DEF Abstract!ClusterOf
    <3> QED
      BY <1>1, <1>5, <2>1, <3>1
  <2>2. CASE request.key[m] # 0
    <3>1. request.key[m] \in U
      BY <2>2 DEF U, Abstract!UsedKeys
    <3>2. Abstract!ClusterOf(request, m) = Cardinality(Below(U, request.key[m]))
      BY <2>2, ClusterOfKey DEF U
    <3>3. Cardinality(Below(U, request.key[m])) = Cardinality(Below(U, h)) => request.key[m] = h
      <4>1. \A x, y \in U : Cardinality(Below(U, x)) = Cardinality(Below(U, y)) => x = y
        BY <1>2, BelowDiffers
      <4> QED
        BY <1>5, <3>1, <4>1, Zenon
    <3> QED
      BY <1>7, <3>2, <3>3, Zenon
  <2> QED
    BY <2>1, <2>2
<1>9. Cardinality((Done \cup {h}) \ {0}) = cid + 1
  <2> DEFINE B == Done \ {0}
  <2>1. (Done \cup {h}) \ {0} = B \cup {h} /\ h \notin B /\ B \in SUBSET U
    BY <1>3, <1>4, <1>5
  <2>2. IsFiniteSet(B) /\ cid = Cardinality(B)
    BY <1>2, <2>1, FS_Subset DEF Emitting
  <2> HIDE DEF B
  <2>3. Cardinality(B \cup {h}) = Cardinality(B) + 1
    BY <2>1, <2>2, FS_AddElement
  <2> QED
    BY <2>1, <2>2, <2>3
<1> QED
  BY <1>5, <1>8, <1>9, Zenon DEF U, h

\* rowPos holds the place in its group of each of the group's rows.
LEMMA PlacedFacts ==
    ASSUME Shapes, NEW g \in Groups, Ascends(g.rows), ToSet(g.rows) \subseteq 1 .. numRows
    PROVE  /\ Placed(g) \in Seq(0 .. MaxLines) /\ Len(Placed(g)) = Len(rowPos)
           /\ numRows <= Len(rowPos) =>
                 \A r \in ToSet(g.rows) : /\ Placed(g)[r] \in DOMAIN g.rows
                                          /\ g.rows[Placed(g)[r]] = r
<1> DEFINE s == g.rows
           n == Len(s)
           pos(r) == CHOOSE k \in DOMAIN s : s[k] = r
           p == Placed(g)
           l == Len(rowPos)
<1>1. s \in Seq(Nat) /\ n \in Nat /\ DOMAIN s = 1 .. n
  BY DEF Groups
<1>2. numRows \in Nat /\ numRows <= MaxLines /\ MaxLines \in Nat
  BY StateFacts
<1>3. l \in Nat /\ DOMAIN rowPos = 1 .. l /\ \A r \in 1 .. l : rowPos[r] \in 0 .. MaxLines
  <2>1. rowPos \in Seq(0 .. MaxLines)
    BY Zenon DEF Shapes
  <2> QED
    BY <2>1, SeqIsFunction, Zenon
<1>4. p = [r \in 1 .. l |-> IF r \in ToSet(s) THEN pos(r) ELSE rowPos[r]]
  BY <1>3 DEF Placed
<1>5. ToSet(s) \subseteq 1 .. numRows /\ Ascends(s)
  OBVIOUS
<1> HIDE DEF s, n, p, l
<1>6. \A r \in ToSet(s) : pos(r) \in 1 .. n /\ s[pos(r)] = r
  <2> TAKE r \in ToSet(s)
  <2>1. \E k \in 1 .. n : s[k] = r
    BY <1>1, Zenon DEF ToSet
  <2> QED
    BY <1>1, <2>1, Zenon
<1>7. \A k \in 1 .. n : s[k] \in 1 .. numRows
  BY <1>1, <1>5, Zenon DEF ToSet
<1>8. \A k \in 1 .. n : k \in 0 .. MaxLines
  <2>1. \A k \in 1 .. n : s[k] # 0
    BY <1>2, <1>7
  <2>2. \A k \in 1 .. n : k <= s[k]
    BY <1>1, <1>5, <2>1, AscendsBound DEF n
  <2> QED
    BY <1>1, <1>2, <1>7, <2>2
<1>9. \A r \in 1 .. l : (IF r \in ToSet(s) THEN pos(r) ELSE rowPos[r]) \in 0 .. MaxLines
  BY <1>3, <1>6, <1>8, Zenon
<1>10. p \in [1 .. l -> 0 .. MaxLines]
  <2> HIDE DEF pos
  <2> QED
    BY <1>4, <1>9, Zenon
<1>11. p \in Seq(0 .. MaxLines) /\ Len(p) = l
  BY <1>3, <1>10, FunctionIsSeq, Zenon
<1>12. ASSUME numRows <= l, NEW r \in ToSet(s)
       PROVE  p[r] \in DOMAIN s /\ s[p[r]] = r
  <2>1. r \in 1 .. l
    BY <1>2, <1>3, <1>5, <1>12
  <2>2. p[r] = pos(r)
    BY <1>4, <2>1, Zenon
  <2> QED
    BY <1>1, <1>6, <2>2, Zenon
<1> QED
  BY <1>11, <1>12, Zenon DEF s, p, l

\* A line's mask is that of its row, found through the row's place in the group.
IsScattered(g, scattered) ==
    /\ scattered \in Seq(AnyMask) /\ Len(scattered) = Len(masks)
    /\ \A k \in 1 .. Len(masks) :
          scattered[k] = IF k \in ToSet(g.indices) THEN <<uniqueMsgs[rowOf[k]], TextOf(g)>>
                                                   ELSE masks[k]

\* What Scattered leaves in the masks.
LEMMA ScatteredFacts ==
    ASSUME Shapes, NEW g \in Groups, NEW pos,
           \A r \in ToSet(g.rows) : r \in 1 .. numRows,
           \A r \in ToSet(g.rows) : pos[r] \in DOMAIN g.rows /\ g.rows[pos[r]] = r,
           \A k \in ToSet(g.indices) : rowOf[k] \in ToSet(g.rows)
    PROVE  IsScattered(g, Scattered(g, pos))
<1> DEFINE s == g.rows
           I == ToSet(g.indices)
           T == TextOf(g)
           rowMasks == [k \in DOMAIN s |-> <<uniqueMsgs[s[k]], T>>]
           new(k) == IF k \in I THEN rowMasks[pos[rowOf[k]]] ELSE masks[k]
           l == Len(masks)
<1>1. /\ l \in Nat /\ DOMAIN masks = 1 .. l /\ \A k \in 1 .. l : masks[k] \in AnyMask
      /\ \A r \in 1 .. numRows : uniqueMsgs[r] \in Messages
  <2>1. masks \in Seq(AnyMask) /\ uniqueMsgs \in Seq(Messages)
    BY Zenon DEF Shapes
  <2> QED
    BY <2>1, SeqIsFunction, Zenon DEF numRows
<1>2. Scattered(g, pos) = [k \in 1 .. l |-> new(k)]
  BY <1>1 DEF Scattered
<1>3. T \in SUBSET Messages
  <2>1. \A r \in ToSet(g.rows) : uniqueMsgs[r] \in Messages
    BY <1>1
  <2> QED
    BY <2>1, Zenon DEF TextOf
<1>4. \A r \in ToSet(s) : r \in 1 .. numRows /\ pos[r] \in DOMAIN s /\ s[pos[r]] = r
  OBVIOUS
<1>5. \A k \in I : rowOf[k] \in ToSet(s)
  OBVIOUS
<1> HIDE DEF s, I, T, l
<1>6. \A k \in I : rowMasks[pos[rowOf[k]]] = <<uniqueMsgs[rowOf[k]], T>>
  <2> TAKE k \in I
  <2>1. rowOf[k] \in ToSet(s)
    BY <1>5
  <2>2. pos[rowOf[k]] \in DOMAIN s /\ s[pos[rowOf[k]]] = rowOf[k]
    BY <1>4, <2>1
  <2>3. rowMasks[pos[rowOf[k]]] = <<uniqueMsgs[s[pos[rowOf[k]]]], T>>
    BY <2>2
  <2> QED
    BY <2>2, <2>3
<1>7. \A k \in I : rowMasks[pos[rowOf[k]]] \in AnyMask
  <2> TAKE k \in I
  <2>1. uniqueMsgs[rowOf[k]] \in Messages
    BY <1>1, <1>4, <1>5
  <2>2. <<uniqueMsgs[rowOf[k]], T>> \in Messages \X SUBSET Messages
    BY <1>3, <2>1
  <2> QED
    BY <1>6, <2>2, Zenon DEF AnyMask
<1> HIDE DEF rowMasks
<1>8. \A k \in 1 .. l : new(k) \in AnyMask
  BY <1>1, <1>7, Zenon
<1>9. \A k \in 1 .. l : new(k) = IF k \in I THEN <<uniqueMsgs[rowOf[k]], T>> ELSE masks[k]
  BY <1>6, Zenon
<1> HIDE DEF new
<1>10. Scattered(g, pos) \in [1 .. l -> AnyMask]
  BY <1>2, <1>8, Zenon
<1>11. Scattered(g, pos) \in Seq(AnyMask) /\ Len(Scattered(g, pos)) = l
  BY <1>1, <1>10, FunctionIsSeq, Zenon
<1>12. \A k \in 1 .. l : Scattered(g, pos)[k] = new(k)
  BY <1>2, Zenon
<1> QED
  BY <1>9, <1>11, <1>12, Zenon DEF I, T, l, IsScattered

\* One template more is that of the next cluster's lines.
LEMMA TemplatesNext ==
    ASSUME NEW r, r.templates, NEW n \in Nat, NEW out \in Seq(SUBSET Messages),
           TemplatesGood(r, n, out), NEW S \in SUBSET Messages,
           \A m : m \in S <=> m \in Abstract!LinesOf(r) /\ Abstract!ClusterOf(r, m) = n
    PROVE  /\ Append(out, S) \in Seq(SUBSET Messages)
           /\ TemplatesGood(r, n + 1, Append(out, S))
<1> DEFINE t == Append(out, S)
<1>1. Len(out) = n /\ \A c \in 1 .. n :
         out[c] = {m \in Abstract!LinesOf(r) : Abstract!ClusterOf(r, m) = c - 1}
  BY DEF TemplatesGood
<1>2. /\ t \in Seq(SUBSET Messages) /\ Len(t) = n + 1 /\ t[n + 1] = S
      /\ \A c \in 1 .. n : t[c] = out[c]
  BY <1>1
<1> HIDE DEF t
<1>3. ASSUME NEW c \in 1 .. n + 1
      PROVE  t[c] = {m \in Abstract!LinesOf(r) : Abstract!ClusterOf(r, m) = c - 1}
  <2>1. CASE c = n + 1
    <3>1. c - 1 = n
      BY <2>1
    <3>2. t[c] = {m \in Abstract!LinesOf(r) : Abstract!ClusterOf(r, m) = n}
      BY <1>2, <2>1, Zenon
    <3> QED
      BY <3>1, <3>2, Zenon
  <2>2. CASE c # n + 1
    <3>1. c \in 1 .. n
      BY <2>2
    <3> QED
      BY <1>1, <1>2, <3>1, Zenon
  <2> QED
    BY <2>1, <2>2
<1>4. TemplatesGood(r, n + 1, t)
  BY <1>2, <1>3, Zenon DEF TemplatesGood
<1> QED
  BY <1>2, <1>4, Zenon DEF t

\* A group's cluster, template and masks are emitted.
LEMMA EmitGroupStep ==
    ASSUME ParseInv, EmitGroup
    PROVE  ParseInv'
<1> DEFINE h == Head(todo)
           group == merged[h]
           I == ToSet(group.indices)
           lines == request.lines
           key == request.key
<1>1. /\ Shapes /\ Dedup /\ Grouping /\ Emitting /\ pc = "emit" /\ todo # <<>> /\ h # 0
      /\ templates' = IF request.templates THEN Append(templates, TextOf(group)) ELSE templates
      /\ rowPos' = IF request.masks THEN Placed(group) ELSE rowPos
      /\ masks' = IF request.masks THEN Scattered(group, rowPos') ELSE masks
      /\ clusters' = [k \in DOMAIN clusters |-> IF k \in I THEN cid ELSE clusters[k]]
      /\ cid' = cid + 1 /\ todo' = Tail(todo)
  BY DEF ParseInv, EmitGroup
<1>2. /\ UNCHANGED <<request, workers, pc, next, at, arena, merged, rowGroup, lineIndex,
                     uniqueMsgs, counts, rowOf, parses>>
      /\ numRows' = numRows /\ numLines' = numLines
  BY DEF EmitGroup, numRows, numLines
<1>3. /\ todo' \in Seq(Keys) /\ IsQueue(DOMAIN merged, todo')
      /\ h \in DOMAIN merged /\ h \notin Done
      /\ Done' = Done \cup {h}
  BY <1>1, <1>2, QueueFacts DEF Done
<1>4. /\ \A m \in Abstract!LinesOf(request) :
            Abstract!ClusterOf(request, m) = cid <=> key[m] = h
      /\ cid' = Cardinality(Done' \ {0})
  BY <1>1, <1>3, CidIsNext
<1>5. /\ \A k \in 1 .. numLines :
            /\ rowOf[k] \in 1 .. numRows /\ uniqueMsgs[rowOf[k]] = lines[k]
            /\ rowGroup[rowOf[k]] = key[lines[k]]
      /\ ToSet(group.rows) = {r \in 1 .. numRows : rowGroup[r] = h}
      /\ I = {k \in 1 .. numLines : key[lines[k]] = h}
      /\ TextOf(group) = Abstract!Sharing(request, h)
  BY <1>1, <1>3, GroupMeans
<1>6. /\ group \in Groups /\ Ascends(group.rows)
      /\ ToSet(group.rows) \subseteq 1 .. numRows
      /\ \A k \in I : rowOf[k] \in ToSet(group.rows)
  <2>1. AreGroups(merged)
    BY <1>1, Zenon DEF Shapes
  <2>2. group \in Groups
    BY <1>3, <2>1 DEF AreGroups
  <2>3. Ascends(group.rows)
    BY <1>1, <1>3 DEF Grouping, IsGrouping
  <2>4. ToSet(group.rows) \subseteq 1 .. numRows /\ \A k \in I : rowOf[k] \in ToSet(group.rows)
    <3> HIDE DEF I, group, h
    <3> QED
      BY <1>5, Zenon
  <2> QED
    BY <2>2, <2>3, <2>4
<1>7. /\ \A k \in 1 .. numLines : lines[k] \in Abstract!LinesOf(request)
      /\ numLines \in Nat /\ cid \in Nat
      /\ clusters \in Seq(Int) /\ masks \in Seq(AnyMask) /\ rowPos \in Seq(0 .. MaxLines)
      /\ templates \in Seq(SUBSET Messages)
  <2>1. /\ request \in Requests /\ cid \in Nat
        /\ clusters \in Seq(Int) /\ masks \in Seq(AnyMask) /\ rowPos \in Seq(0 .. MaxLines)
        /\ templates \in Seq(SUBSET Messages)
    BY <1>1, Zenon DEF Shapes
  <2> QED
    BY <1>1, <2>1, StateFacts, RequestFacts
<1>8. /\ numLines <= Len(clusters) /\ Len(lines) = numLines
      /\ \A k \in 1 .. numLines :
            clusters[k] = IF key[lines[k]] \in Done \ {0}
                            THEN Abstract!ClusterOf(request, lines[k]) ELSE -1
      /\ request.masks =>
            /\ numRows <= Len(rowPos) /\ numLines <= Len(masks)
            /\ \A k \in 1 .. numLines :
                  masks[k] = IF key[lines[k]] \in Done \ {0}
                               THEN <<lines[k], Abstract!Sharing(request, key[lines[k]])>>
                               ELSE Abstract!NoMask
      /\ TemplatesGood(request, cid, templates)
  <2>1. Len(lines) = numLines
    BY DEF numLines
  <2> QED
    BY <1>1, <2>1 DEF Emitting, ClustersGood, MasksGood
<1> HIDE DEF h, group, I, lines, key
<1>9. \A k \in 1 .. numLines : /\ k \in I <=> key[lines[k]] = h
                               /\ key[lines[k]] \in Done' \ {0}
                                    <=> (k \in I \/ key[lines[k]] \in Done \ {0})
  BY <1>1, <1>3, <1>5, Zenon
<1>10. /\ clusters' \in Seq(Int) /\ Len(clusters') = Len(clusters)
       /\ \A k \in 1 .. Len(clusters) : clusters'[k] = IF k \in I THEN cid ELSE clusters[k]
  <2>1. /\ Len(clusters) \in Nat /\ DOMAIN clusters = 1 .. Len(clusters)
        /\ \A k \in 1 .. Len(clusters) : clusters[k] \in Int
    BY <1>7, SeqIsFunction, Zenon
  <2>2. \A k \in 1 .. Len(clusters) : (IF k \in I THEN cid ELSE clusters[k]) \in Int
    BY <1>7, <2>1
  <2>3. clusters' \in [1 .. Len(clusters) -> Int]
    BY <1>1, <2>1, <2>2, Zenon
  <2>4. clusters' \in Seq(Int) /\ Len(clusters') = Len(clusters)
    BY <2>1, <2>3, FunctionIsSeq, Zenon
  <2> QED
    BY <1>1, <2>1, <2>4, Zenon
<1>11. ClustersGood(request', Done', clusters')
  <2>1. \A k \in 1 .. numLines : k \in 1 .. Len(clusters)
    BY <1>7, <1>8
  <2>2. ASSUME NEW k \in 1 .. numLines
        PROVE  clusters'[k] = IF key[lines[k]] \in Done' \ {0}
                                THEN Abstract!ClusterOf(request, lines[k]) ELSE -1
    <3>1. CASE k \in I
      <4>1. clusters'[k] = cid /\ key[lines[k]] = h /\ key[lines[k]] \in Done' \ {0}
        BY <1>9, <1>10, <2>1, <3>1, Zenon
      <4>2. Abstract!ClusterOf(request, lines[k]) = cid
        BY <1>4, <1>7, <4>1, Zenon
      <4> QED
        BY <4>1, <4>2, Zenon
    <3>2. CASE k \notin I
      <4>1. clusters'[k] = clusters[k]
        BY <1>10, <2>1, <3>2, Zenon
      <4> QED
        BY <1>8, <1>9, <3>2, <4>1, Zenon
    <3> QED
      BY <3>1, <3>2
  <2>3. numLines <= Len(clusters')
    BY <1>8, <1>10
  <2> QED
    BY <1>2, <1>8, <2>2, <2>3, Zenon DEF ClustersGood, lines, key
<1>12. /\ templates' \in Seq(SUBSET Messages) /\ TemplatesGood(request', cid', templates')
  <2>1. CASE ~request.templates
    BY <1>1, <1>2, <1>7, <1>8, <2>1 DEF TemplatesGood
  <2>2. CASE request.templates
    <3> DEFINE S == TextOf(group)
    <3>1. S \in SUBSET Messages
      <4>1. uniqueMsgs \in Seq(Messages)
        BY <1>1, Zenon DEF Shapes
      <4>2. \A r \in 1 .. numRows : uniqueMsgs[r] \in Messages
        BY <4>1, SeqIsFunction, Zenon DEF numRows
      <4> QED
        BY <1>6, <4>2, Zenon DEF TextOf
    <3>2. S = {m \in Abstract!LinesOf(request) : key[m] = h}
      BY <1>5, Zenon DEF Abstract!Sharing, key
    <3>3. \A m : m \in S <=> m \in Abstract!LinesOf(request) /\ Abstract!ClusterOf(request, m) = cid
      BY <1>4, <3>2, Zenon
    <3>4. templates' = Append(templates, S)
      BY <1>1, <2>2
    <3> HIDE DEF S
    <3>5. templates' \in Seq(SUBSET Messages) /\ TemplatesGood(request, cid + 1, templates')
      BY <1>7, <1>8, <2>2, <3>1, <3>3, <3>4, TemplatesNext
    <3> QED
      BY <1>1, <1>2, <3>5
  <2> QED
    BY <2>1, <2>2
<1>13. /\ rowPos' \in Seq(0 .. MaxLines) /\ masks' \in Seq(AnyMask)
       /\ request.masks => MasksGood(request', Done', masks') /\ numRows <= Len(rowPos')
  <2>1. CASE ~request.masks
    BY <1>1, <1>7, <2>1, Zenon
  <2>2. CASE request.masks
    <3>1. /\ rowPos' \in Seq(0 .. MaxLines) /\ Len(rowPos') = Len(rowPos)
          /\ \A r \in ToSet(group.rows) :
                rowPos'[r] \in DOMAIN group.rows /\ group.rows[rowPos'[r]] = r
      BY <1>1, <1>6, <1>8, <2>2, PlacedFacts
    <3>2. masks' = Scattered(group, rowPos')
      BY <1>1, <2>2
    <3>3. /\ masks' \in Seq(AnyMask) /\ Len(masks') = Len(masks)
          /\ \A k \in 1 .. Len(masks) :
                masks'[k] = IF k \in I THEN <<uniqueMsgs[rowOf[k]], TextOf(group)>> ELSE masks[k]
      <4>1. \A r \in ToSet(group.rows) : r \in 1 .. numRows
        BY <1>6
      <4>2. \A k \in ToSet(group.indices) : rowOf[k] \in ToSet(group.rows)
        BY <1>6 DEF I
      <4>3. PICK g, p : g = group /\ p = rowPos'
        OBVIOUS
      <4>4. IsScattered(g, Scattered(g, p))
        <5>1. /\ Shapes /\ g \in Groups
              /\ \A r \in ToSet(g.rows) : r \in 1 .. numRows
              /\ \A r \in ToSet(g.rows) : p[r] \in DOMAIN g.rows /\ g.rows[p[r]] = r
              /\ \A k \in ToSet(g.indices) : rowOf[k] \in ToSet(g.rows)
          BY <1>1, <1>6, <3>1, <4>1, <4>2, <4>3
        <5> QED
          BY <5>1, ScatteredFacts, Zenon
      <4>5. IsScattered(group, masks')
        BY <3>2, <4>3, <4>4, Zenon
      <4> QED
        BY <4>5, Zenon DEF I, IsScattered
    <3>4. \A k \in 1 .. numLines : k \in 1 .. Len(masks)
      <4>1. Len(masks) \in Nat
        BY <1>7
      <4> QED
        BY <1>7, <1>8, <2>2, <4>1
    <3>5. ASSUME NEW k \in 1 .. numLines
          PROVE  masks'[k] = IF key[lines[k]] \in Done' \ {0}
                               THEN <<lines[k], Abstract!Sharing(request, key[lines[k]])>>
                               ELSE Abstract!NoMask
      <4>1. CASE k \in I
        <5>1. /\ masks'[k] = <<uniqueMsgs[rowOf[k]], TextOf(group)>>
              /\ key[lines[k]] = h /\ key[lines[k]] \in Done' \ {0}
          BY <1>9, <3>3, <3>4, <4>1, Zenon
        <5>2. uniqueMsgs[rowOf[k]] = lines[k] /\ TextOf(group) = Abstract!Sharing(request, h)
          BY <1>5
        <5> QED
          BY <5>1, <5>2, Zenon
      <4>2. CASE k \notin I
        <5>1. masks'[k] = masks[k]
          BY <3>3, <3>4, <4>2, Zenon
        <5> QED
          BY <1>8, <1>9, <2>2, <4>2, <5>1, Zenon
      <4> QED
        BY <4>1, <4>2
    <3>6. numLines <= Len(masks') /\ numRows <= Len(rowPos')
      BY <1>8, <2>2, <3>1, <3>3
    <3>7. MasksGood(request', Done', masks')
      BY <1>2, <1>8, <3>5, <3>6, Zenon DEF MasksGood, lines, key
    <3> QED
      BY <3>1, <3>3, <3>6, <3>7
  <2> QED
    BY <2>1, <2>2
<1>14. Shapes'
  <2>1. cid' \in Nat
    BY <1>1, <1>7
  <2> QED
    BY <1>1, <1>2, <1>3, <1>10, <1>12, <1>13, <2>1, Zenon DEF Shapes, Workers
<1>15. Dedup' /\ Arenas'
  BY <1>1, <1>2 DEF Dedup, Arenas
<1>16. Grouping'
  BY <1>1, <1>2 DEF Grouping
<1>17. Emitting'
  BY <1>2, <1>3, <1>4, <1>11, <1>12, <1>13, Zenon DEF Emitting
<1> QED
  BY <1>14, <1>15, <1>16, <1>17 DEF ParseInv

\* The results are returned and the locals reset.
LEMMA ReplyStep ==
    ASSUME ParseInv, Reply
    PROVE  ParseInv'
<1>1. /\ Shapes /\ masks' = (IF request.masks THEN masks ELSE <<>>)
      /\ request' = Abstract!NoRequest /\ workers' = 1 /\ next' = 1
      /\ at' = [w \in Workers |-> 1] /\ arena' = [w \in Workers |-> <<>>]
      /\ merged' = <<>> /\ rowGroup' = <<>> /\ cid' = 0 /\ templates' = <<>> /\ pc' = "idle"
      /\ UNCHANGED <<lineIndex, uniqueMsgs, counts, rowOf, rowPos, clusters, todo, parses>>
  BY DEF ParseInv, Reply
<1>2. /\ request' \in Requests /\ workers' \in 1 .. MaxWorkers /\ next' \in 1 .. MaxLines + 1
      /\ pc' \in Phases
  BY <1>1, ParseClustersAssumption DEF Phases
<1>3. at' \in [Workers -> 1 .. MaxLines + 1] /\ arena' \in [Workers -> Seq(Keys)]
  BY <1>1, <1>2
<1>4. DOMAIN merged' = {} /\ AreGroups(merged') /\ DOMAIN merged' \subseteq Keys
  BY <1>1 DEF AreGroups
<1>5. /\ rowGroup' \in Seq(Keys) /\ cid' \in Nat /\ templates' \in Seq(SUBSET Messages)
  BY <1>1
<1>6. masks' \in Seq(AnyMask)
  <2>1. masks \in Seq(AnyMask)
    BY <1>1, Zenon DEF Shapes
  <2> QED
    BY <1>1, <2>1
<1>7. Shapes'
  BY <1>1, <1>2, <1>3, <1>4, <1>5, <1>6, Zenon DEF Shapes, Workers
<1>8. Dedup' /\ Arenas' /\ Emitting'
  BY <1>1 DEF Dedup, Arenas, Emitting
<1>9. Grouping'
  BY <1>1, <1>4 DEF Grouping
<1> QED
  BY <1>7, <1>8, <1>9 DEF ParseInv

\* Every step keeps the invariant.
LEMMA ParseInvStep == ASSUME ParseInv, [Next]_vars PROVE ParseInv'
<1>1. CASE UNCHANGED vars
  <2>1. /\ UNCHANGED <<request, pc, workers, next, at, arena, merged, rowGroup, todo, cid, templates>>
        /\ UNCHANGED <<lineIndex, uniqueMsgs, counts, rowOf, rowPos, clusters, masks, parses>>
        /\ numRows' = numRows /\ numLines' = numLines /\ Active' = Active /\ Done' = Done
        /\ \A j : KeyOfRow(j)' = KeyOfRow(j)
    BY <1>1 DEF vars, buffers, locals, numRows, numLines, Active, KeyOfRow, Done
  <2>2. Shapes'
    BY <2>1, Zenon DEF ParseInv, Shapes, Workers
  <2>3. Dedup' /\ Arenas'
    BY <2>1, Zenon DEF ParseInv, Dedup, Arenas
  <2>4. Grouping' /\ Emitting'
    BY <2>1 DEF ParseInv, Grouping, Emitting
  <2> QED
    BY <2>2, <2>3, <2>4 DEF ParseInv
<1>2. ASSUME NEW r \in Requests, Call(r) PROVE ParseInv'
  BY <1>2, CallStep
<1>3. ASSUME NEW w \in Workers, ShardRow(w) PROVE ParseInv'
  BY <1>3, ShardRowStep
<1>4. ASSUME NEW w \in 1 .. MaxWorkers, StartKeys(w) PROVE ParseInv'
  BY <1>4, StartKeysStep
<1>5. CASE CallerStep
  BY <1>4, <1>5, ReplyEmptyStep, BeginDedupStep, DedupLineStep, SerialRowStep, JoinStep,
     MergeRowStep, BeginIndexStep, IndexLineStep, SortGroupsStep, SkipGroupStep,
     EmitGroupStep, ReplyStep, Zenon DEF CallerStep
<1> QED
  BY <1>1, <1>2, <1>3, <1>5, Zenon DEF Next

\* The inductive invariant holds in every behaviour, for all requests and however
\* the caller and the goroutines are scheduled.
THEOREM ParseInvariant == Spec => []ParseInv
<1>1. Init => ParseInv
  BY ParseInvInit
<1>2. ParseInv /\ [Next]_vars => ParseInv'
  BY ParseInvStep
<1> QED
  BY <1>1, <1>2, PTL DEF Spec

-----------------------------------------------------------------------------
\* No more clusters are emitted than there are rows.
LEMMA FewClusters ==
    ASSUME ParseInv
    PROVE  cid \in 0 .. MaxLines
<1>1. cid \in Nat /\ MaxLines \in Nat /\ numRows \in 0 .. MaxLines
  BY StateFacts DEF ParseInv, Shapes
<1>2. CASE pc # "emit"
  BY <1>1, <1>2 DEF ParseInv, Grouping
<1>3. CASE pc = "emit"
  <2>1. /\ Shapes /\ Len(rowGroup) = numRows /\ DOMAIN merged = {rowGroup[r] : r \in 1 .. numRows}
        /\ cid = Cardinality(Done \ {0})
    BY <1>3 DEF ParseInv, Grouping, IsGrouping, Emitting
  <2>2. DOMAIN rowGroup = 1 .. numRows
    BY <2>1 DEF Shapes
  <2>3. /\ IsFiniteSet(1 .. numRows) /\ Cardinality(1 .. numRows) = numRows
    BY <1>1, CountFromOne
  <2>4. IsFiniteSet(DOMAIN merged) /\ Cardinality(DOMAIN merged) <= numRows
    BY <2>1, <2>2, <2>3, RangeBound
  <2>5. Done \ {0} \in SUBSET DOMAIN merged
    BY DEF Done
  <2>6. Cardinality(Done \ {0}) <= Cardinality(DOMAIN merged) /\ Cardinality(DOMAIN merged) \in Nat
    BY <2>4, <2>5, FS_Subset, FS_CardinalityType
  <2> QED
    BY <1>1, <2>1, <2>4, <2>6
<1> QED
  BY <1>2, <1>3

\* Every variable of a parse has its type: no index, position or cluster id leaves
\* its range at any parallelism, whatever the buffers held before (parser.go
\* 246-304, 381-410 and 484-596).
THEOREM ParseTypes == Spec => []TypeOK
<1>1. ASSUME ParseInv PROVE TypeOK
  <2>1. /\ request \in Requests /\ workers \in 1 .. MaxWorkers /\ pc \in Phases
        /\ next \in 1 .. MaxLines + 1 /\ DOMAIN lineIndex \subseteq Messages
        /\ lineIndex \in [DOMAIN lineIndex -> 1 .. MaxLines]
        /\ uniqueMsgs \in Seq(Messages) /\ Len(uniqueMsgs) <= MaxLines
        /\ Len(counts) = Len(uniqueMsgs)
        /\ rowOf \in Seq(0 .. MaxLines) /\ rowPos \in Seq(0 .. MaxLines)
        /\ at \in [Workers -> 1 .. MaxLines + 1] /\ DOMAIN merged \subseteq Keys
        /\ rowGroup \in Seq(Keys) /\ parses \in 0 .. MaxParses
    BY <1>1, Zenon DEF ParseInv, Shapes
  <2>2. /\ \A k \in DOMAIN rowOf : rowOf[k] \in 0 .. MaxLines
        /\ \A k \in DOMAIN rowPos : rowPos[k] \in 0 .. MaxLines
        /\ uniqueMsgs \in [1 .. Len(uniqueMsgs) -> Messages] /\ Len(uniqueMsgs) \in Nat
    BY <2>1, SeqIsFunction, Zenon
  <2>3. Len(uniqueMsgs) \in 0 .. MaxLines
    BY <2>1, <2>2, ParseClustersAssumption
  <2>4. uniqueMsgs \in UNION {[1 .. k -> Messages] : k \in 0 .. MaxLines}
    BY <2>2, <2>3, Zenon
  <2>5. \A r \in DOMAIN rowGroup : rowGroup[r] \in DOMAIN merged
    <3>1. CASE pc \in {"idle", "called", "dedup"}
      BY <1>1, <3>1 DEF ParseInv, Grouping
    <3>2. CASE pc \in {"keys", "merge", "index", "emit"}
      <4>1. DOMAIN merged = {rowGroup[r] : r \in 1 .. Len(rowGroup)}
        BY <1>1, <3>2 DEF ParseInv, Grouping, IsGrouping
      <4>2. DOMAIN rowGroup = 1 .. Len(rowGroup)
        BY <2>1, SeqIsFunction, Zenon
      <4> QED
        BY <4>1, <4>2, Zenon
    <3> QED
      BY <2>1, <3>1, <3>2 DEF Phases
  <2>6. cid \in 0 .. MaxLines
    BY <1>1, FewClusters
  <2>7. \A m \in DOMAIN lineIndex : lineIndex[m] \in 1 .. MaxLines
    BY <2>1
  <2>8. Len(counts) = numRows
    BY <2>1 DEF numRows
  <2> QED
    BY <2>1, <2>2, <2>4, <2>5, <2>6, <2>7, <2>8, Zenon DEF TypeOK
<1> QED
  BY <1>1, ParseInvariant, PTL

\* Deduplication loses nothing: distinct rows, every line at its own text, and the
\* weight of a row is the number of the lines with its text (parser.go 246-270),
\* also when the index, the counts and rowOf start with what an earlier parse left.
THEOREM NothingDeduplicatedAway == Spec => []DedupFaithful
<1>1. ASSUME ParseInv PROVE DedupFaithful
  <2> SUFFICES ASSUME pc \in {"keys", "merge", "index", "emit"}
               PROVE  /\ IsInjective(uniqueMsgs)
                      /\ \A k \in 1 .. numLines : uniqueMsgs[rowOf[k]] = request.lines[k]
                      /\ \A r \in 1 .. numRows :
                            counts[r] = Cardinality({k \in 1 .. numLines :
                                                        request.lines[k] = uniqueMsgs[r]})
    BY DEF DedupFaithful
  <2>1. /\ uniqueMsgs \in Seq(Messages)
        /\ IsDedup(request.lines, numLines, lineIndex, uniqueMsgs, counts, rowOf)
    BY <1>1 DEF ParseInv, Dedup, Shapes
  <2>2. DOMAIN uniqueMsgs = 1 .. numRows /\ numRows = Len(uniqueMsgs)
    BY <2>1 DEF numRows
  <2>3. IsInjective(uniqueMsgs)
    BY <2>1, <2>2, Zenon DEF IsDedup, IsInjective
  <2> QED
    BY <2>1, <2>2, <2>3, Zenon DEF IsDedup, Occurrences
<1> QED
  BY <1>1, ParseInvariant, PTL

\* The groups that are emitted partition the unique rows by key, in the order of the
\* rows, and list exactly the lines of those rows: on the serial path and on the
\* merged shards' alike (parser.go 484-596).
THEOREM GroupsAreKeyClasses == Spec => []GroupsOrdered
<1>1. ASSUME ParseInv PROVE GroupsOrdered
  <2> SUFFICES ASSUME pc = "emit"
               PROVE  GroupsOrdered
    BY DEF GroupsOrdered
  <2>1. /\ Shapes /\ Dedup /\ Grouping
        /\ IsGrouping(uniqueMsgs, request.key, merged, rowGroup) /\ Len(rowGroup) = numRows
        /\ IsIndexed(numLines, merged, rowGroup, rowOf)
    BY <1>1 DEF ParseInv, Grouping
  <2>2. /\ \A k \in 1 .. numLines :
              /\ rowOf[k] \in 1 .. numRows
              /\ rowGroup[rowOf[k]] = request.key[request.lines[k]]
        /\ \A h \in DOMAIN merged :
              /\ ToSet(merged[h].rows) = {r \in 1 .. numRows : rowGroup[r] = h}
              /\ ToSet(merged[h].indices)
                   = {k \in 1 .. numLines : request.key[request.lines[k]] = h}
    BY <2>1, GroupMeans
  <2>3. /\ \A r \in 1 .. numRows : rowGroup[r] \in DOMAIN merged
        /\ \A r \in 1 .. numRows : rowGroup[r] = KeyOfRow(r)
    BY <2>1 DEF IsGrouping, KeyOfRow
  <2> DEFINE R(h) == ToSet(merged[h].rows)
             I(h) == ToSet(merged[h].indices)
  <2>4. \A h \in DOMAIN merged : /\ R(h) = {r \in 1 .. numRows : rowGroup[r] = h}
                                 /\ I(h) = {k \in 1 .. numLines : request.key[request.lines[k]] = h}
    BY <2>2
  <2>5. \A h \in DOMAIN merged : Ascends(merged[h].rows) /\ Ascends(merged[h].indices)
    BY <2>1 DEF IsGrouping, IsIndexed
  <2> HIDE DEF R, I
  <2>6. UNION {R(h) : h \in DOMAIN merged} = 1 .. numRows
    <3>1. \A h \in DOMAIN merged : R(h) \subseteq 1 .. numRows
      BY <2>4
    <3>2. \A r \in 1 .. numRows : r \in R(rowGroup[r])
      BY <2>3, <2>4
    <3> QED
      BY <2>3, <3>1, <3>2
  <2>7. ASSUME NEW h \in DOMAIN merged
        PROVE  /\ I(h) = {k \in 1 .. numLines : rowOf[k] \in R(h)}
               /\ \A r \in R(h) : KeyOfRow(r) = h
    <3>1. \A r \in 1 .. numRows : r \in R(h) <=> rowGroup[r] = h
      BY <2>4
    <3>2. \A k \in 1 .. numLines : rowOf[k] \in R(h) <=> request.key[request.lines[k]] = h
      BY <2>2, <3>1
    <3>3. I(h) = {k \in 1 .. numLines : request.key[request.lines[k]] = h}
      BY <2>4
    <3>4. \A r \in R(h) : KeyOfRow(r) = h
      BY <2>3, <2>4
    <3> QED
      BY <3>2, <3>3, <3>4
  <2> QED
    BY <2>5, <2>6, <2>7 DEF GroupsOrdered, Ascends, R, I
<1> QED
  BY <1>1, ParseInvariant, PTL

-----------------------------------------------------------------------------
\* What a parse of some lines returns is what was promised for them.
LEMMA AnswerRight ==
    ASSUME ParseInv, Reply
    PROVE  answer' = Abstract!Answer(request)
<1> DEFINE r == request
           n == numLines
           U == Abstract!UsedKeys(r)
<1>1. /\ Shapes /\ Dedup /\ Grouping /\ Emitting /\ pc = "emit" /\ todo = <<>>
      /\ answer' = [clusters  |-> SubSeq(clusters, 1, n),
                    templates |-> templates,
                    masks     |-> IF r.masks THEN SubSeq(masks, 1, n) ELSE <<>>]
  BY DEF ParseInv, Reply
<1>2. /\ n \in Nat /\ DOMAIN r.lines = 1 .. n /\ Len(r.lines) = n
      /\ \A k \in 1 .. n : r.lines[k] \in Abstract!LinesOf(r)
      /\ clusters \in Seq(Int) /\ masks \in Seq(AnyMask) /\ templates \in Seq(SUBSET Messages)
  <2>1. /\ request \in Requests
        /\ clusters \in Seq(Int) /\ masks \in Seq(AnyMask) /\ templates \in Seq(SUBSET Messages)
    BY <1>1, Zenon DEF Shapes
  <2> QED
    BY <1>1, <2>1, StateFacts, RequestFacts
<1>3. Done = DOMAIN merged /\ Done \ {0} = U
  <2>1. ToSet(todo) = {}
    BY <1>1 DEF ToSet
  <2> QED
    BY <1>1, <2>1, GroupMeans DEF Done
<1>4. \A k \in 1 .. n : r.key[r.lines[k]] \in U <=> r.key[r.lines[k]] # 0
  BY <1>2 DEF Abstract!UsedKeys
<1>5. /\ n <= Len(clusters)
      /\ \A k \in 1 .. n : clusters[k] = IF r.key[r.lines[k]] \in U
                                            THEN Abstract!ClusterOf(r, r.lines[k]) ELSE -1
      /\ r.masks =>
            /\ n <= Len(masks)
            /\ \A k \in 1 .. n :
                  masks[k] = IF r.key[r.lines[k]] \in U
                               THEN <<r.lines[k], Abstract!Sharing(r, r.key[r.lines[k]])>>
                               ELSE Abstract!NoMask
      /\ TemplatesGood(r, cid, templates) /\ cid = Cardinality(U)
  BY <1>1, <1>2, <1>3 DEF Emitting, ClustersGood, MasksGood
<1> HIDE DEF n
<1>6. SubSeq(clusters, 1, n) = [k \in DOMAIN r.lines |-> Abstract!ClusterOf(r, r.lines[k])]
  <2>1. SubSeq(clusters, 1, n) = [k \in 1 .. n |-> clusters[k]]
    BY <1>2, <1>5, PrefixIsFunction, Zenon
  <2>2. ASSUME NEW k \in 1 .. n
        PROVE  clusters[k] = Abstract!ClusterOf(r, r.lines[k])
    <3>1. r.key[r.lines[k]] = 0 => Abstract!ClusterOf(r, r.lines[k]) = -1
      BY DEF Abstract!ClusterOf
    <3> QED
      BY <1>4, <1>5, <3>1, Zenon
  <2> QED
    BY <1>2, <2>1, <2>2, Zenon
<1>7. r.masks => SubSeq(masks, 1, n)
        = [k \in DOMAIN r.lines |->
              IF r.key[r.lines[k]] = 0 THEN Abstract!NoMask
              ELSE <<r.lines[k], Abstract!Sharing(r, r.key[r.lines[k]])>>]
  <2> HAVE r.masks
  <2>1. SubSeq(masks, 1, n) = [k \in 1 .. n |-> masks[k]]
    BY <1>2, <1>5, PrefixIsFunction, Zenon
  <2>2. \A k \in 1 .. n :
           masks[k] = IF r.key[r.lines[k]] = 0 THEN Abstract!NoMask
                      ELSE <<r.lines[k], Abstract!Sharing(r, r.key[r.lines[k]])>>
    BY <1>4, <1>5, Zenon
  <2> QED
    BY <1>2, <2>1, <2>2, Zenon
<1>8. templates = IF ~r.templates THEN <<>>
                  ELSE [c \in 1 .. Cardinality(U) |->
                          {m \in Abstract!LinesOf(r) : Abstract!ClusterOf(r, m) = c - 1}]
  <2>1. CASE ~r.templates
    BY <1>5, <2>1 DEF TemplatesGood
  <2>2. CASE r.templates
    <3>1. /\ Len(templates) = cid
          /\ \A c \in 1 .. cid :
                templates[c] = {m \in Abstract!LinesOf(r) : Abstract!ClusterOf(r, m) = c - 1}
      BY <1>5, <2>2 DEF TemplatesGood
    <3>2. templates = [c \in 1 .. cid |-> templates[c]]
      BY <1>2, <3>1, SeqIsFunction
    <3>3. templates = [c \in 1 .. cid |->
             {m \in Abstract!LinesOf(r) : Abstract!ClusterOf(r, m) = c - 1}]
      BY <3>1, <3>2, Zenon
    <3> QED
      BY <1>5, <2>2, <3>3, Zenon
  <2> QED
    BY <2>1, <2>2
<1>9. Abstract!Cardinality(U) = Cardinality(U)
  BY SameCardinality
<1> QED
  BY <1>1, <1>6, <1>7, <1>8, <1>9, Zenon DEF Abstract!Answer

\* And of no lines, nothing.
LEMMA EmptyAnswerRight ==
    ASSUME ParseInv, ReplyEmpty
    PROVE  answer' = Abstract!Answer(request)
<1>1. /\ answer' = Abstract!NoAnswer /\ numLines = 0 /\ request \in Requests
  BY DEF ReplyEmpty, ParseInv, Shapes
<1>2. DOMAIN request.lines = {}
  BY <1>1, RequestFacts DEF numLines
<1>3. Abstract!UsedKeys(request) = {}
  BY <1>2 DEF Abstract!UsedKeys, Abstract!LinesOf
<1>4. Abstract!Cardinality({}) = 0
  BY SameCardinality, FS_EmptySet
<1>5. 1 .. 0 = {}
  OBVIOUS
<1> QED
  BY <1>1, <1>2, <1>3, <1>4, <1>5 DEF Abstract!Answer, Abstract!NoAnswer

\* A parse, from its call to its return, is one question and one answer of the
\* abstract parser: clusters, templates and masks are functions of the lines, their
\* keys and the options alone.  "Output is identical at any setting" of the
\* parallelism, and reused buffers leave no trace (parser.go 246-304, 370-411 and
\* 484-596).
THEOREM ParseRefinesClusterSpec == Spec => Abstract!Spec
<1>1. Init => Abstract!Init
  BY DEF Init, Abstract!Init, Abstract!NoRequest, Abstract!NoAnswer
<1>2. ASSUME ParseInv, [Next]_vars PROVE [Abstract!Next]_(Abstract!vars)
  <2>1. CASE UNCHANGED vars
    BY <2>1 DEF vars, Abstract!vars
  <2>2. ASSUME NEW r \in Requests, Call(r) PROVE Abstract!Next
    BY <2>2 DEF Call, Abstract!Next, Abstract!Ask
  <2>3. CASE ReplyEmpty
    BY <1>2, <2>3, EmptyAnswerRight DEF ReplyEmpty, Abstract!Next, Abstract!Reply
  <2>4. CASE Reply
    BY <1>2, <2>4, AnswerRight DEF Reply, Abstract!Next, Abstract!Reply
  <2>5. ASSUME /\ UNCHANGED <<request, answer>>
               /\ pc \in {"called", "dedup", "keys", "merge", "index", "emit"}
               /\ pc' \in {"called", "dedup", "keys", "merge", "index", "emit"}
        PROVE  UNCHANGED Abstract!vars
    BY <2>5 DEF Abstract!vars
  <2>6. ASSUME NEW w \in Workers, ShardRow(w) PROVE UNCHANGED Abstract!vars
    BY <2>5, <2>6 DEF ShardRow
  <2>7. ASSUME NEW w \in 1 .. MaxWorkers, StartKeys(w) PROVE UNCHANGED Abstract!vars
    BY <2>5, <2>7 DEF StartKeys
  <2>8. CASE BeginDedup \/ DedupLine
    BY <2>5, <2>8 DEF BeginDedup, DedupLine
  <2>9. CASE SerialRow \/ Join \/ MergeRow
    BY <2>5, <2>9 DEF SerialRow, Join, MergeRow
  <2>10. CASE BeginIndex \/ IndexLine \/ SortGroups
    BY <2>5, <2>10 DEF BeginIndex, IndexLine, SortGroups
  <2>11. CASE SkipGroup \/ EmitGroup
    BY <2>5, <2>11 DEF SkipGroup, EmitGroup
  <2> QED
    BY <1>2, <2>1, <2>2, <2>3, <2>4, <2>6, <2>7, <2>8, <2>9, <2>10, <2>11, Zenon
       DEF Next, CallerStep
<1> QED
  BY <1>1, <1>2, ParseInvariant, PTL DEF Spec, Abstract!Spec
=============================================================================
