-------------------------- MODULE RowBuffersProofs --------------------------
(***************************************************************************)
(* Whatever the lines, the workers and the number of parses that share the  *)
(* buffers: no array is ever reachable from two rows, every tokenized row   *)
(* is its line when the groups are computed, no split outgrows its array,   *)
(* and only a row split in its own primary row's array can come out wrong.  *)
(***************************************************************************)
EXTENDS RowBuffers, BasicLemmas

\* What an array's cells hold.
Cells == Tokens \cup {Blank}
Memory == [Arrays -> Seq(Cells)]
Slices == [arr : 0 .. NumArrays, len : Nat]

\* The rich tokens of the first i tokens of a line.
RichUpTo(line, i) == RichRow(SubSeq(line, 1, i))

\* The pieces of a token are tokens, at least one, and none is left to split.
LEMMA PartsFacts ==
    ASSUME NEW t \in Tokens
    PROVE  /\ Parts(t) \in Seq(Tokens)
           /\ Len(Parts(t)) \in Nat \ {0}
           /\ \A j \in 1 .. Len(Parts(t)) : Parts(t)[j] \notin Impure
           /\ t \notin Impure => Parts(t) = <<t>>
<1>1. CASE t \in Impure
  <2>1. Pieces[t] \in Seq(Tokens) /\ Pieces[t] # <<>>
    BY <1>1, RowBuffersAssumption
  <2>2. Len(Pieces[t]) # 0 /\ DOMAIN Pieces[t] = 1 .. Len(Pieces[t])
    BY <2>1
  <2> QED
    BY <1>1, <2>1, <2>2, PiecesAssumption DEF Parts
<1>2. CASE t \notin Impure
  BY <1>2 DEF Parts
<1> QED
  BY <1>1, <1>2

\* A token more in the line is its pieces more in the rich row.
LEMMA RichRowAppend ==
    ASSUME NEW line \in Seq(Tokens), NEW t \in Tokens
    PROVE  /\ RichRow(line) \in Seq(Tokens)
           /\ RichRow(Append(line, t)) = RichRow(line) \o Parts(t)
<1> DEFINE ss == [j \in DOMAIN line |-> Parts(line[j])]
<1>1. \A j \in DOMAIN line : Parts(line[j]) \in Seq(Tokens)
  <2> TAKE j \in DOMAIN line
  <2>1. line[j] \in Tokens
    OBVIOUS
  <2> QED
    BY <2>1, PartsFacts
<1>2. Len(line) \in Nat /\ DOMAIN line = 1 .. Len(line)
  OBVIOUS
<1>3. ss \in Seq(Seq(Tokens))
  <2>1. ss \in [1 .. Len(line) -> Seq(Tokens)]
    BY <1>1, <1>2
  <2> HIDE DEF ss
  <2> QED
    BY <1>2, <2>1
<1>4. Parts(t) \in Seq(Tokens)
  BY PartsFacts
<1> DEFINE tt == [j \in DOMAIN Append(line, t) |-> Parts(Append(line, t)[j])]
<1>5. tt = Append(ss, Parts(t))
  BY <1>2
<1>6. RichRow(line) = FlattenSeq(ss) /\ RichRow(Append(line, t)) = FlattenSeq(tt)
  BY DEF RichRow
<1> HIDE DEF ss, tt
<1> QED
  BY <1>3, <1>4, <1>5, <1>6, FlattenAppend

\* The rich row of a line builds up token by token.
LEMMA RichUpToFacts ==
    ASSUME NEW line \in Seq(Tokens)
    PROVE  /\ RichUpTo(line, 0) = <<>>
           /\ \A i \in 0 .. Len(line) : RichUpTo(line, i) \in Seq(Tokens)
           /\ \A i \in 1 .. Len(line) :
                 RichUpTo(line, i) = RichUpTo(line, i - 1) \o Parts(line[i])
           /\ RichUpTo(line, Len(line)) = RichRow(line)
<1>1. RichUpTo(line, 0) = <<>>
  <2>1. SubSeq(line, 1, 0) = <<>>
    OBVIOUS
  <2>2. [j \in DOMAIN <<>> |-> Parts(<<>>[j])] = <<>>
    OBVIOUS
  <2> QED
    BY <2>1, <2>2, FlattenEmpty DEF RichUpTo, RichRow
<1>2. ASSUME NEW i \in 1 .. Len(line)
      PROVE  /\ RichUpTo(line, i) \in Seq(Tokens)
             /\ RichUpTo(line, i) = RichUpTo(line, i - 1) \o Parts(line[i])
  <2>1. /\ SubSeq(line, 1, i - 1) \in Seq(Tokens) /\ line[i] \in Tokens
        /\ SubSeq(line, 1, i) \in Seq(Tokens)
    OBVIOUS
  <2>2. SubSeq(line, 1, i) = Append(SubSeq(line, 1, i - 1), line[i])
    BY PrefixStep
  <2> QED
    BY <2>1, <2>2, RichRowAppend DEF RichUpTo
<1>3. SubSeq(line, 1, Len(line)) = line
  OBVIOUS
<1>4. \A i \in 0 .. Len(line) : RichUpTo(line, i) \in Seq(Tokens)
  <2> TAKE i \in 0 .. Len(line)
  <2>1. CASE i = 0
    BY <1>1, <2>1, <<>> \in Seq(Tokens)
  <2>2. CASE i # 0
    BY <1>2, <2>2, i \in 1 .. Len(line)
  <2> QED
    BY <2>1, <2>2
<1>5. RichUpTo(line, Len(line)) = RichRow(line)
  BY <1>3 DEF RichUpTo
<1> QED
  BY <1>1, <1>2, <1>4, <1>5

\* The rich prefixes grow, by one token or more a step.
LEMMA RichGrows ==
    ASSUME NEW line \in Seq(Tokens), NEW i \in 0 .. Len(line), NEW k \in i .. Len(line)
    PROVE  /\ Len(RichUpTo(line, i)) \in Nat /\ Len(RichUpTo(line, k)) \in Nat
           /\ Len(RichUpTo(line, i)) + (k - i) <= Len(RichUpTo(line, k))
<1> DEFINE U(j) == Len(RichUpTo(line, j))
           bad == {j \in i .. Len(line) : ~(U(i) + (j - i) <= U(j))}
<1>1. \A j \in 0 .. Len(line) : U(j) \in Nat
  BY RichUpToFacts
<1>2. \A j \in 1 .. Len(line) : U(j) >= U(j - 1) + 1
  <2> TAKE j \in 1 .. Len(line)
  <2>1. line[j] \in Tokens /\ j - 1 \in 0 .. Len(line)
    OBVIOUS
  <2>2. /\ RichUpTo(line, j - 1) \in Seq(Tokens)
        /\ RichUpTo(line, j) = RichUpTo(line, j - 1) \o Parts(line[j])
    BY <2>1, RichUpToFacts
  <2>3. Parts(line[j]) \in Seq(Tokens) /\ Len(Parts(line[j])) \in Nat \ {0}
    BY <2>1, PartsFacts
  <2> QED
    BY <2>2, <2>3
<1>3. Len(line) \in Nat
  OBVIOUS
<1> HIDE DEF U
<1>4. bad = {}
  <2>1. SUFFICES ASSUME bad # {}
                 PROVE  FALSE
    OBVIOUS
  <2>2. PICK j \in bad : \A l \in bad : j <= l
    BY <1>3, <2>1, LeastNat, bad \in SUBSET Nat
  <2>3. j \in i .. Len(line) /\ ~(U(i) + (j - i) <= U(j))
    BY <2>2
  <2>4. j # i
    BY <1>1, <2>3
  <2>5. j - 1 \in i .. Len(line) /\ j - 1 \notin bad /\ j \in 1 .. Len(line)
    BY <1>3, <2>2, <2>3, <2>4
  <2>6. U(i) + (j - 1 - i) <= U(j - 1) /\ U(j) >= U(j - 1) + 1
    BY <1>2, <2>5
  <2>7. U(i) \in Nat /\ U(j) \in Nat /\ U(j - 1) \in Nat
    BY <1>1, <2>5
  <2> QED
    BY <2>3, <2>5, <2>6, <2>7
<1>5. i \in 0 .. Len(line) /\ k \in 0 .. Len(line)
  BY <1>3
<1>6. k \notin bad
  BY <1>4
<1>7. U(i) + (k - i) <= U(k) /\ U(i) \in Nat /\ U(k) \in Nat
  BY <1>1, <1>5, <1>6
<1> QED
  BY <1>7 DEF U

\* A rich row has nothing left to split.
LEMMA RichPure ==
    ASSUME NEW line \in Seq(Tokens)
    PROVE  \A m \in 1 .. Len(RichRow(line)) : RichRow(line)[m] \notin Impure
<1> DEFINE pure(i) == \A m \in 1 .. Len(RichUpTo(line, i)) : RichUpTo(line, i)[m] \notin Impure
           bad == {i \in 0 .. Len(line) : ~pure(i)}
<1>1. pure(0)
  BY RichUpToFacts
<1>2. ASSUME NEW i \in 1 .. Len(line), pure(i - 1)
      PROVE  pure(i)
  <2>1. line[i] \in Tokens /\ i - 1 \in 0 .. Len(line)
    OBVIOUS
  <2>2. /\ RichUpTo(line, i - 1) \in Seq(Tokens)
        /\ RichUpTo(line, i) = RichUpTo(line, i - 1) \o Parts(line[i])
    BY <2>1, RichUpToFacts
  <2>3. /\ Parts(line[i]) \in Seq(Tokens)
        /\ \A j \in 1 .. Len(Parts(line[i])) : Parts(line[i])[j] \notin Impure
    BY <2>1, PartsFacts
  <2> QED
    BY <1>2, <2>2, <2>3
<1>3. Len(line) \in Nat
  OBVIOUS
<1>4. RichRow(line) = RichUpTo(line, Len(line))
  BY RichUpToFacts
<1> SUFFICES pure(Len(line))
  BY <1>4
<1> HIDE DEF pure
<1>5. bad = {}
  <2>1. SUFFICES ASSUME bad # {}
                 PROVE  FALSE
    OBVIOUS
  <2>2. PICK j \in bad : \A l \in bad : j <= l
    BY <1>3, <2>1, LeastNat, bad \in SUBSET Nat
  <2>3. j \in 1 .. Len(line) /\ j - 1 \in 0 .. Len(line) /\ j - 1 \notin bad
    BY <1>1, <1>3, <2>2
  <2> QED
    BY <1>2, <2>2, <2>3
<1> QED
  BY <1>3, <1>5

\* Splitting changes a line that has something to split.
LEMMA RichChanges ==
    ASSUME NEW line \in Seq(Tokens), NEW j \in 1 .. Len(line), line[j] \in Impure
    PROVE  RichRow(line) # line
  BY RichPure

\* As far as a line has nothing to split, its rich prefix is its prefix.
LEMMA RichSame ==
    ASSUME NEW line \in Seq(Tokens), NEW i \in 0 .. Len(line),
           \A j \in 1 .. i : line[j] \notin Impure
    PROVE  RichUpTo(line, i) = SubSeq(line, 1, i)
<1> DEFINE bad == {k \in 0 .. i : RichUpTo(line, k) # SubSeq(line, 1, k)}
<1>1. SUFFICES ASSUME bad # {}
               PROVE  FALSE
  OBVIOUS
<1>2. PICK k \in bad : \A l \in bad : k <= l
  BY <1>1, LeastNat, bad \in SUBSET Nat
<1>3. k \in 0 .. i /\ RichUpTo(line, k) # SubSeq(line, 1, k)
  BY <1>2
<1>4. k # 0
  BY <1>3, RichUpToFacts, SubSeq(line, 1, 0) = <<>>
<1>5. k \in 1 .. Len(line) /\ k \in 1 .. i /\ k - 1 \in 0 .. i /\ k - 1 \notin bad
  BY <1>2, <1>3, <1>4
<1>6. RichUpTo(line, k - 1) = SubSeq(line, 1, k - 1)
  BY <1>5
<1>7. line[k] \in Tokens /\ line[k] \notin Impure
  BY <1>5
<1>8. RichUpTo(line, k) = SubSeq(line, 1, k - 1) \o <<line[k]>>
  BY <1>5, <1>6, <1>7, RichUpToFacts, PartsFacts
<1>9. SubSeq(line, 1, k - 1) \o <<line[k]>> = SubSeq(line, 1, k)
  BY <1>5
<1> QED
  BY <1>3, <1>8, <1>9
-----------------------------------------------------------------------------
\* What Store leaves in memory.
IsStored(m, a, at, toks, stored) ==
    /\ stored \in Memory
    /\ \A b \in Arrays : b # a => stored[b] = m[b]
    /\ Len(stored[a]) = Len(m[a])
    /\ \A j \in 1 .. Len(m[a]) :
          stored[a][j] = IF j \in at + 1 .. at + Len(toks) THEN toks[j - at] ELSE m[a][j]

\* And Store does.
LEMMA StoreFacts ==
    ASSUME NEW m \in Memory, NEW a \in Arrays, NEW at \in Nat, NEW toks \in Seq(Tokens)
    PROVE  IsStored(m, a, at, toks, Store(m, a, at, toks))
<1> DEFINE s == [j \in DOMAIN m[a] |->
                    IF j \in at + 1 .. at + Len(toks) THEN toks[j - at] ELSE m[a][j]]
<1>1. m[a] \in Seq(Cells) /\ DOMAIN m[a] = 1 .. Len(m[a]) /\ Len(m[a]) \in Nat
  BY DEF Memory
<1>2. \A j \in 1 .. Len(m[a]) : s[j] \in Cells
  <2> TAKE j \in 1 .. Len(m[a])
  <2>1. CASE j \in at + 1 .. at + Len(toks)
    <3>1. j - at \in 1 .. Len(toks)
      BY <2>1
    <3>2. toks[j - at] \in Cells
      BY <3>1 DEF Cells
    <3> QED
      BY <1>1, <2>1, <3>2
  <2>2. CASE j \notin at + 1 .. at + Len(toks)
    BY <1>1, <2>2
  <2> QED
    BY <2>1, <2>2
<1>3. s \in [1 .. Len(m[a]) -> Cells]
  BY <1>1, <1>2
<1>4. /\ \A j \in 1 .. Len(m[a]) : s[j] = IF j \in at + 1 .. at + Len(toks) THEN toks[j - at]
                                                                            ELSE m[a][j]
  BY <1>1
<1>5. Store(m, a, at, toks) = [m EXCEPT ![a] = s]
  BY DEF Store
<1> HIDE DEF s
<1>6. s \in Seq(Cells) /\ Len(s) = Len(m[a])
  BY <1>1, <1>3
<1> QED
  BY <1>4, <1>5, <1>6 DEF Memory, IsStored

\* Stored from the start of the array.
LEMMA StoreFirst ==
    ASSUME NEW m \in Memory, NEW a \in Arrays, NEW toks \in Seq(Tokens)
    PROVE  /\ Store(m, a, 0, toks) \in Memory
           /\ \A b \in Arrays : b # a => Store(m, a, 0, toks)[b] = m[b]
           /\ Len(Store(m, a, 0, toks)[a]) = Len(m[a])
           /\ \A j \in 1 .. Len(m[a]) :
                 Store(m, a, 0, toks)[a][j] = IF j <= Len(toks) THEN toks[j] ELSE m[a][j]
<1> DEFINE at == 0
<1>1. at \in Nat /\ Len(toks) \in Nat /\ Len(m[a]) \in Nat
  BY DEF Memory
<1>2. \A j \in 1 .. Len(m[a]) : (j \in at + 1 .. at + Len(toks)) = (j <= Len(toks)) /\ j - at = j
  BY <1>1
<1> HIDE DEF at
<1>3. /\ Store(m, a, at, toks) \in Memory
      /\ \A b \in Arrays : b # a => Store(m, a, at, toks)[b] = m[b]
      /\ Len(Store(m, a, at, toks)[a]) = Len(m[a])
      /\ \A j \in 1 .. Len(m[a]) :
                 Store(m, a, at, toks)[a][j] =
                     IF j \in at + 1 .. at + Len(toks) THEN toks[j - at] ELSE m[a][j]
  BY <1>1, StoreFacts DEF IsStored
<1>4. \A j \in 1 .. Len(m[a]) :
         Store(m, a, at, toks)[a][j] = IF j <= Len(toks) THEN toks[j] ELSE m[a][j]
  BY <1>2, <1>3
<1> QED
  BY <1>3, <1>4 DEF at

\* A new array is blank.
LEMMA NewFacts ==
    ASSUME NEW c \in Nat
    PROVE  New(c) \in Seq(Cells) /\ Len(New(c)) = c
  BY DEF New, Cells
-----------------------------------------------------------------------------
\* The shapes of the state.
Shapes ==
    /\ mem \in Memory
    /\ primary \in Seq(Slices) /\ Len(primary) <= MaxLines
    /\ rich \in Seq(Slices) /\ Len(rich) <= MaxLines
    /\ lines \in Seq(Lines) /\ Len(lines) <= MaxLines
    /\ row \in [Workers -> Nat]
    /\ split \in [Workers -> [active : BOOLEAN, next : Nat, out : Slices]]

\* The row a parse is at: the caller's locals exist while it runs, the tables
\* reach as far as its rows, and every worker is in its shard or past it.
Control ==
    /\ pc = "idle" => lines = <<>>
    /\ pc # "idle" => /\ numLines \in 1 .. Len(primary)
                      /\ \A w \in Active : row[w] \in ShardLo(numLines, shards, w) + 1
                                                   .. ShardHi(numLines, shards, w) + 1
    /\ pc \in {"retok", "full"} => mode = pc
    /\ pc \in {"retok", "full", "rich"} /\ mode \in {"retok", "full"} => numLines <= Len(rich)
    /\ mode = "same" => \A k \in 1 .. numLines : RichRow(lines[k]) = lines[k]

\* A split belongs to the row its worker is at, and has an array.
Splits ==
    \A w \in Workers :
        /\ ~split[w].active => split[w] = Whole
        /\ split[w].active => /\ pc = "retok"
                              /\ w \in Active
                              /\ ~RowDone(w)
                              /\ split[w].out.arr # 0

\* No array is reachable from two rows.
RowsApart ==
    \A j, k \in DOMAIN primary \cup DOMAIN rich :
        j # k => SlotArrays(j) \cap SlotArrays(k) = {}

\* A split in progress: what it has written is no more than the rich tokens of
\* the tokens it has passed, the array holds the rest, and a token it has yet
\* to read is the line's or one that needs no split; in an array of its own it
\* has written exactly those and the primary row is whole.
SplitGood(k, s) ==
    LET line == lines[k] IN
    /\ primary[k].len = Len(line)
    /\ s.next \in 1 .. Len(line) + 1
    /\ RichRow(line) # line
    /\ \A i \in s.next .. Len(line) :
          mem[primary[k].arr][i] = line[i] \/ mem[primary[k].arr][i] \in Tokens \ Impure
    /\ s.out.len <= Len(RichUpTo(line, s.next - 1))
    /\ Len(RichRow(line)) <= SliceCap(s.out)
    /\ s.out.arr # primary[k].arr => /\ Content(primary[k]) = line
                                     /\ Content(s.out) = RichUpTo(line, s.next - 1)

PrimaryGood(k) == Content(primary[k]) = lines[k]
RichGood(k) == SplitInPlace(k) \/ Content(RichSlice(k)) = RichRow(lines[k])

\* What worker w has made of row k.
RowGood(w, k) ==
    /\ pc = "tokenize" /\ k < row[w] => PrimaryGood(k)
    /\ pc = "grouped" => PrimaryGood(k)
    /\ pc = "retok" /\ (row[w] < k \/ (row[w] = k /\ ~split[w].active)) => PrimaryGood(k)
    /\ pc = "retok" /\ row[w] = k /\ split[w].active => SplitGood(k, split[w])
    /\ pc \in {"retok", "full"} /\ k < row[w] => RichGood(k)
    /\ HasRich => RichGood(k)

RowsGood == \A w \in Active : \A k \in MyRows(w) : RowGood(w, k)

\* The inductive invariant.
RowInv == TypeOK /\ Shapes /\ Control /\ Splits /\ RowsApart /\ RowsGood
-----------------------------------------------------------------------------
\* While some worker has no split under way an array is free: two tables and
\* the other workers' splits cannot name them all.
LEMMA FreshFacts ==
    ASSUME Shapes, NEW w \in Workers, split[w] = Whole
    PROVE  Fresh \in Arrays \ Live(primary, rich, split)
<1> DEFINE A == {primary[k].arr : k \in DOMAIN primary}
           B == {rich[k].arr : k \in DOMAIN rich}
           O == Workers \ {w}
           C == {split[v].out.arr : v \in O}
<1>1. IsFiniteSet(A) /\ Cardinality(A) <= MaxLines /\ Cardinality(A) \in Nat
  <2> DEFINE f == [k \in DOMAIN primary |-> primary[k].arr]
  <2>1. DOMAIN f = 1 .. Len(primary) /\ Len(primary) \in Nat /\ Len(primary) <= MaxLines
    BY DEF Shapes
  <2>2. IsFiniteSet(DOMAIN f) /\ Cardinality(DOMAIN f) = Len(primary)
    BY <2>1, CountFromOne
  <2>3. A = {f[k] : k \in DOMAIN f}
    BY Zenon
  <2> HIDE DEF f
  <2>4. IsFiniteSet(A) /\ Cardinality(A) <= Cardinality(DOMAIN f)
    BY <2>2, <2>3, RangeBound
  <2> QED
    BY <2>1, <2>2, <2>4, FS_CardinalityType, RowBuffersAssumption
<1>2. IsFiniteSet(B) /\ Cardinality(B) <= MaxLines /\ Cardinality(B) \in Nat
  <2> DEFINE f == [k \in DOMAIN rich |-> rich[k].arr]
  <2>1. DOMAIN f = 1 .. Len(rich) /\ Len(rich) \in Nat /\ Len(rich) <= MaxLines
    BY DEF Shapes
  <2>2. IsFiniteSet(DOMAIN f) /\ Cardinality(DOMAIN f) = Len(rich)
    BY <2>1, CountFromOne
  <2>3. B = {f[k] : k \in DOMAIN f}
    BY Zenon
  <2> HIDE DEF f
  <2>4. IsFiniteSet(B) /\ Cardinality(B) <= Cardinality(DOMAIN f)
    BY <2>2, <2>3, RangeBound
  <2> QED
    BY <2>1, <2>2, <2>4, FS_CardinalityType, RowBuffersAssumption
<1>3. IsFiniteSet(C) /\ Cardinality(C) <= MaxWorkers - 1 /\ Cardinality(C) \in Nat
  <2> DEFINE f == [v \in O |-> split[v].out.arr]
  <2>1. IsFiniteSet(Workers) /\ Cardinality(Workers) = MaxWorkers
    BY FS_Interval, RowBuffersAssumption DEF Workers
  <2>2. IsFiniteSet(O) /\ Cardinality(O) = MaxWorkers - 1
    BY <2>1, FS_RemoveElement
  <2>3. C = {f[v] : v \in O}
    BY Zenon
  <2>4. DOMAIN f = O
    OBVIOUS
  <2> HIDE DEF f, O
  <2>5. IsFiniteSet(C) /\ Cardinality(C) <= Cardinality(O)
    BY <2>2, <2>3, <2>4, RangeBound
  <2> QED
    BY <2>2, <2>5, FS_CardinalityType, RowBuffersAssumption
<1>4. Live(primary, rich, split) \subseteq A \cup B \cup C \cup {0}
  <2>1. split[w].out.arr = 0
    BY DEF Whole, NoSlice
  <2>2. {split[v].out.arr : v \in Workers} \subseteq C \cup {0}
    BY <2>1
  <2> QED
    BY <2>2 DEF Live
<1> HIDE DEF A, B, C
<1>5. IsFiniteSet(A \cup B \cup C) /\ Cardinality(A \cup B \cup C) <= 2 * MaxLines + MaxWorkers - 1
  <2>1. /\ IsFiniteSet(A \cup B) /\ Cardinality(A \cup B) \in Nat
        /\ Cardinality(A \cup B) <= Cardinality(A) + Cardinality(B)
    BY <1>1, <1>2, UnionBound
  <2>2. /\ IsFiniteSet(A \cup B \cup C) /\ Cardinality(A \cup B \cup C) \in Nat
        /\ Cardinality(A \cup B \cup C) <= Cardinality(A \cup B) + Cardinality(C)
    BY <1>3, <2>1, UnionBound
  <2>3. MaxLines \in Nat /\ MaxWorkers \in Nat
    BY RowBuffersAssumption
  <2> QED
    BY <1>1, <1>2, <1>3, <2>1, <2>2, <2>3
<1>6. Arrays \ Live(primary, rich, split) # {}
  <2>1. SUFFICES ASSUME Arrays \subseteq Live(primary, rich, split)
                 PROVE  FALSE
    OBVIOUS
  <2>2. Arrays \subseteq A \cup B \cup C
    BY <1>4, <2>1 DEF Arrays
  <2>3. Cardinality(Arrays) = NumArrays /\ NumArrays \in Nat
    BY RowBuffersAssumption, CountFromOne DEF Arrays
  <2>4. Cardinality(Arrays) <= Cardinality(A \cup B \cup C)
    BY <1>5, <2>2, FS_Subset
  <2>5. Cardinality(A \cup B \cup C) \in Nat
    BY <1>5, FS_CardinalityType
  <2> QED
    BY <1>5, <2>3, <2>4, <2>5, RowBuffersAssumption
<1>7. Arrays \ Live(primary, rich, split) \in SUBSET Nat
  BY DEF Arrays
<1> QED
  BY <1>6, <1>7, MinIsLeast DEF Fresh
-----------------------------------------------------------------------------
\* What every step of worker w at row k leaves alone: the parse, the other
\* rows' headers, the other workers, and every array in use that row k cannot
\* reach.  Row k's own headers stay within their arrays, and reach no array
\* that was in use elsewhere.
Local(w, k) ==
    /\ UNCHANGED <<lines, mode, shards, pc, parses>>
    /\ mem' \in Memory /\ \A a \in Arrays : Len(mem'[a]) <= MaxCap
    /\ primary' \in Seq(Slices) /\ Len(primary') = Len(primary)
    /\ rich' \in Seq(Slices) /\ Len(rich') = Len(rich)
    /\ row' \in [Workers -> Nat]
    /\ split' \in [Workers -> [active : BOOLEAN, next : Nat, out : Slices]]
    /\ \A j \in DOMAIN primary : j # k => primary'[j] = primary[j]
    /\ \A j \in DOMAIN rich : j # k => rich'[j] = rich[j]
    /\ \A v \in Workers : v # w => row'[v] = row[v] /\ split'[v] = split[v]
    /\ \/ row'[w] = k /\ split'[w].active /\ split'[w].out.arr # 0 /\ pc = "retok"
       \/ row'[w] = k + 1 /\ split'[w] = Whole
    /\ k \in DOMAIN primary => primary'[k].len <= SliceCap(primary[k])'
    /\ k \in DOMAIN rich => rich'[k].len <= SliceCap(rich[k])'
    /\ SlotArrays(k)' \subseteq SlotArrays(k) \cup (Arrays \ Live(primary, rich, split))
    /\ \A a \in Live(primary, rich, split) \cap Live(primary', rich', split') :
          a \in Arrays \ SlotArrays(k) => mem'[a] = mem[a]

\* What a table is.
LEMMA TableFacts ==
    ASSUME NEW t \in Seq(Slices)
    PROVE  /\ Len(t) \in Nat /\ DOMAIN t = 1 .. Len(t)
           /\ \A j \in DOMAIN t : /\ t[j] \in Slices
                                  /\ t[j].arr \in 0 .. NumArrays /\ t[j].len \in Nat
<1>1. Len(t) \in Nat /\ DOMAIN t = 1 .. Len(t) /\ \A j \in DOMAIN t : t[j] \in Slices
  OBVIOUS
<1>2. \A s \in Slices : s.arr \in 0 .. NumArrays /\ s.len \in Nat
  BY DEF Slices
<1> QED
  BY <1>1, <1>2

\* A row's arrays are in use.
LEMMA SlotsLive ==
    ASSUME Shapes, NEW k
    PROVE  SlotArrays(k) \subseteq Arrays \cap Live(primary, rich, split)
<1>1. 0 .. NumArrays \ {0} \subseteq Arrays
  BY RowBuffersAssumption DEF Arrays
<1>2. \A j \in DOMAIN primary : primary[j].arr \in 0 .. NumArrays
  BY TableFacts DEF Shapes
<1>3. \A j \in DOMAIN rich : rich[j].arr \in 0 .. NumArrays
  BY TableFacts DEF Shapes
<1>4. \A v \in Workers : split[v].out.arr \in 0 .. NumArrays
  BY DEF Shapes, Slices
<1> QED
  BY <1>1, <1>2, <1>3, <1>4, Zenon DEF SlotArrays, Live

\* The workers of a parse, and the rows of each.
LEMMA WorkersFacts ==
    ASSUME TypeOK, Shapes, Control, pc # "idle"
    PROVE  /\ numLines \in Nat \ {0} /\ shards \in Nat \ {0}
           /\ \A k \in 1 .. numLines : lines[k] \in Lines /\ lines[k] \in Seq(Tokens)
           /\ \A w \in Active : /\ w \in Workers /\ w \in Nat
                                /\ MyRows(w) \subseteq 1 .. numLines
                                /\ ShardLo(numLines, shards, w) \in Nat
                                /\ ShardHi(numLines, shards, w) \in Nat
                                /\ ~RowDone(w) => row[w] \in MyRows(w)
           /\ \A v, w \in Active : v # w => MyRows(v) \cap MyRows(w) = {}
           /\ \A k \in 1 .. numLines : \E w \in Active : k \in MyRows(w)
<1>1. numLines \in Nat \ {0} /\ shards \in 1 .. MaxWorkers /\ shards \in Nat \ {0}
  BY RowBuffersAssumption DEF TypeOK, Shapes, Control
<1>2. \A k \in 1 .. numLines : lines[k] \in Lines /\ lines[k] \in Seq(Tokens)
  BY RowBuffersAssumption DEF Shapes, numLines
<1>3. ASSUME NEW w \in Active
      PROVE  /\ w \in Workers /\ w \in Nat
             /\ MyRows(w) \subseteq 1 .. numLines
             /\ ShardLo(numLines, shards, w) \in Nat
             /\ ShardHi(numLines, shards, w) \in Nat
             /\ ~RowDone(w) => row[w] \in MyRows(w)
  <2>1. w \in ShardIds(numLines, shards)
    BY DEF Active
  <2>2. w < shards /\ MyRows(w) \subseteq 1 .. numLines
    BY <1>1, <2>1, ShardsBounded DEF MyRows
  <2>3. w \in Nat
    BY <1>1, <2>1 DEF ShardIds
  <2>4. w \in Workers
    BY <1>1, <2>2, <2>3, RowBuffersAssumption DEF Workers
  <2>5. Chunk(numLines, shards) \in Nat
    BY <1>1, ChunkCovers
  <2>6. w * Chunk(numLines, shards) \in Nat
    BY <2>3, <2>5
  <2>7. ShardLo(numLines, shards, w) \in Nat /\ ShardHi(numLines, shards, w) \in Nat
    BY <1>1, <2>5, <2>6 DEF ShardLo, ShardHi
  <2>8. row[w] \in ShardLo(numLines, shards, w) + 1 .. ShardHi(numLines, shards, w) + 1
    BY DEF Control
  <2>9. ~RowDone(w) => row[w] \in MyRows(w)
    BY <2>7, <2>8 DEF RowDone, MyRows, ShardRows
  <2> QED
    BY <2>2, <2>3, <2>4, <2>7, <2>9
<1>4. ASSUME NEW v \in Active, NEW w \in Active, v # w
      PROVE  MyRows(v) \cap MyRows(w) = {}
  BY <1>1, <1>4, ShardsDisjoint DEF MyRows, Active
<1>5. ASSUME NEW k \in 1 .. numLines
      PROVE  \E w \in Active : k \in MyRows(w)
  BY <1>1, ShardsCover DEF MyRows, Active
<1> QED
  BY <1>1, <1>2, <1>3, <1>4, <1>5
-----------------------------------------------------------------------------
\* A step at one row keeps everything the invariant says of the others.
LEMMA LocalStep ==
    ASSUME RowInv, NEW w \in Active, ~RowDone(w), NEW k, row[w] = k,
           Local(w, k), RowGood(w, k)'
    PROVE  RowInv'
<1> USE DEF RowInv
<1>1. pc # "idle"
  <2>1. SUFFICES ASSUME pc = "idle"
                 PROVE  FALSE
    OBVIOUS
  <2>2. numLines = 0
    BY <2>1 DEF Control, numLines
  <2>3. Active = {}
    BY <2>2 DEF Active, ShardIds
  <2> QED
    BY <2>3
<1>2. /\ w \in Workers /\ numLines \in Nat \ {0}
      /\ k \in MyRows(w) /\ k \in 1 .. numLines /\ k \in Nat
  BY <1>1, WorkersFacts
<1>3. /\ lines' = lines /\ mode' = mode /\ shards' = shards /\ pc' = pc /\ parses' = parses
      /\ numLines' = numLines /\ Active' = Active
      /\ \A v : MyRows(v)' = MyRows(v)
  BY DEF Local, numLines, Active, MyRows
<1>4. /\ DOMAIN primary' = DOMAIN primary /\ DOMAIN rich' = DOMAIN rich
      /\ k \in DOMAIN primary
  <2>1. numLines <= Len(primary)
    BY <1>1 DEF Control
  <2> QED
    BY <1>2, <2>1, TableFacts DEF Local, Shapes
<1>5. row'[w] \in {k, k + 1} /\ (split'[w].active => row'[w] = k)
  BY DEF Local, Whole
<1>6. ASSUME NEW j, j # k
      PROVE  SlotArrays(j)' = SlotArrays(j)
  <2>1. {split'[v].out.arr : v \in {v \in Workers : split'[v].active /\ row'[v] = j}}
          = {split[v].out.arr : v \in {v \in Workers : split[v].active /\ row[v] = j}}
    <3>1. \A v \in Workers : v # w => split'[v] = split[v] /\ row'[v] = row[v]
      BY DEF Local
    <3>2. {v \in Workers : split'[v].active /\ row'[v] = j}
            = {v \in Workers : split[v].active /\ row[v] = j}
      BY <1>5, <1>6, <3>1
    <3>3. \A v \in {v \in Workers : split[v].active /\ row[v] = j} : split'[v] = split[v]
      BY <1>6, <3>1
    <3> QED
      BY <3>2, <3>3
  <2>2. j \in DOMAIN primary => primary'[j] = primary[j]
    BY <1>6 DEF Local
  <2>3. j \in DOMAIN rich => rich'[j] = rich[j]
    BY <1>6 DEF Local
  <2> QED
    BY <1>4, <2>1, <2>2, <2>3 DEF SlotArrays
<1>7. ASSUME NEW j \in DOMAIN primary \cup DOMAIN rich, j # k, NEW a \in SlotArrays(j)
      PROVE  a \in Arrays /\ a # 0 /\ mem'[a] = mem[a]
  <2>1. a \in Arrays \cap Live(primary, rich, split)
    BY SlotsLive
  <2>2. a \in Live(primary', rich', split')
    <3>1. a \in SlotArrays(j)'
      BY <1>6, <1>7
    <3> QED
      BY <3>1, Zenon DEF SlotArrays, Live
  <2>3. a \notin SlotArrays(k)
    BY <1>4, <1>7 DEF RowsApart
  <2>4. a \in Arrays /\ a # 0
    BY <2>1 DEF Arrays
  <2>5. mem'[a] = mem[a]
    BY <2>1, <2>2, <2>3, Zenon DEF Local
  <2> QED
    BY <2>4, <2>5
<1>8. /\ \A j \in DOMAIN primary : j # k /\ primary[j].arr # 0 => primary[j].arr \in SlotArrays(j)
      /\ \A j \in DOMAIN rich : j # k /\ rich[j].arr # 0 => rich[j].arr \in SlotArrays(j)
  BY DEF SlotArrays
<1>9. /\ \A j \in DOMAIN primary : j # k =>
             primary'[j] = primary[j] /\ SliceCap(primary[j])' = SliceCap(primary[j])
      /\ \A j \in DOMAIN rich : j # k =>
             rich'[j] = rich[j] /\ SliceCap(rich[j])' = SliceCap(rich[j])
  <2>1. /\ \A j \in DOMAIN primary : j # k => primary'[j] = primary[j]
        /\ \A j \in DOMAIN rich : j # k => rich'[j] = rich[j]
    BY DEF Local
  <2> QED
    BY <1>7, <1>8, <2>1 DEF SliceCap
<1>10. TypeOK'
  <2>1. DOMAIN mem' = Arrays /\ \A a \in Arrays : Len(mem'[a]) \in 0 .. MaxCap
    BY RowBuffersAssumption DEF Local, Memory
  <2>2. ASSUME NEW j \in DOMAIN primary'
        PROVE  primary'[j].arr \in 0 .. NumArrays /\ primary'[j].len \in 0 .. SliceCap(primary[j])'
    <3>1. primary'[j].arr \in 0 .. NumArrays /\ primary'[j].len \in Nat
      BY TableFacts DEF Local
    <3>2. SliceCap(primary[j])' \in Nat
      BY <2>1, <3>1 DEF SliceCap, Arrays
    <3>3. primary'[j].len <= SliceCap(primary[j])'
      <4>1. CASE j = k
        BY <1>4, <4>1 DEF Local
      <4>2. CASE j # k
        BY <1>4, <1>9, <4>2 DEF TypeOK
      <4> QED
        BY <4>1, <4>2
    <3> QED
      BY <3>1, <3>2, <3>3
  <2>3. ASSUME NEW j \in DOMAIN rich'
        PROVE  rich'[j].arr \in 0 .. NumArrays /\ rich'[j].len \in 0 .. SliceCap(rich[j])'
    <3>1. rich'[j].arr \in 0 .. NumArrays /\ rich'[j].len \in Nat
      BY TableFacts DEF Local
    <3>2. SliceCap(rich[j])' \in Nat
      BY <2>1, <3>1 DEF SliceCap, Arrays
    <3>3. rich'[j].len <= SliceCap(rich[j])'
      <4>1. CASE j = k
        BY <1>4, <4>1 DEF Local
      <4>2. CASE j # k
        BY <1>4, <1>9, <4>2 DEF TypeOK
      <4> QED
        BY <4>1, <4>2
    <3> QED
      BY <3>1, <3>2, <3>3
  <2> QED
    BY <1>3, <2>1, <2>2, <2>3 DEF TypeOK, SliceCap
<1>11. Shapes'
  BY <1>3 DEF Shapes, Local
<1>12. Control'
  <2>1. ASSUME NEW v \in Active
        PROVE  row'[v] \in ShardLo(numLines, shards, v) + 1 .. ShardHi(numLines, shards, v) + 1
    <3>1. row[v] \in ShardLo(numLines, shards, v) + 1 .. ShardHi(numLines, shards, v) + 1
      BY <1>1 DEF Control
    <3>2. v # w => row'[v] = row[v]
      BY <1>1, WorkersFacts DEF Local
    <3>3. v = w => row'[v] \in ShardLo(numLines, shards, v) + 1 .. ShardHi(numLines, shards, v) + 1
      <4>1. k \in ShardLo(numLines, shards, w) + 1 .. ShardHi(numLines, shards, w)
        BY <1>2 DEF MyRows, ShardRows
      <4>2. ShardLo(numLines, shards, w) \in Nat /\ ShardHi(numLines, shards, w) \in Nat
        BY <1>1, WorkersFacts
      <4> QED
        BY <1>5, <4>1, <4>2
    <3> QED
      BY <3>1, <3>2, <3>3
  <2>2. Len(primary') = Len(primary) /\ Len(rich') = Len(rich)
    BY DEF Local
  <2> QED
    BY <1>3, <2>1, <2>2 DEF Control
<1>13. Splits'
  <2> SUFFICES ASSUME NEW v \in Workers
               PROVE  /\ ~split'[v].active => split'[v] = Whole
                      /\ split'[v].active => /\ pc' = "retok"
                                             /\ v \in Active'
                                             /\ ~RowDone(v)'
                                             /\ split'[v].out.arr # 0
    BY DEF Splits
  <2>1. CASE v = w
    BY <1>3, <2>1 DEF Local, Whole, RowDone
  <2>2. CASE v # w
    <3>1. split'[v] = split[v] /\ row'[v] = row[v]
      BY <2>2 DEF Local
    <3> QED
      BY <1>3, <3>1 DEF Splits, RowDone
  <2> QED
    BY <2>1, <2>2
<1>14. RowsApart'
  <2> SUFFICES ASSUME NEW j \in DOMAIN primary \cup DOMAIN rich,
                      NEW l \in DOMAIN primary \cup DOMAIN rich, j # l
               PROVE  SlotArrays(j)' \cap SlotArrays(l)' = {}
    BY <1>4 DEF RowsApart
  <2>1. SlotArrays(j) \cap SlotArrays(l) = {}
    BY DEF RowsApart
  <2>2. /\ SlotArrays(j) \subseteq Arrays \cap Live(primary, rich, split)
        /\ SlotArrays(l) \subseteq Arrays \cap Live(primary, rich, split)
    BY SlotsLive
  <2>3. SlotArrays(k)' \subseteq SlotArrays(k) \cup (Arrays \ Live(primary, rich, split))
    BY DEF Local
  <2>4. CASE j # k /\ l # k
    BY <1>6, <2>1, <2>4
  <2>5. CASE j = k
    <3>1. SlotArrays(l)' = SlotArrays(l)
      BY <1>6, <2>5
    <3> QED
      BY <2>1, <2>2, <2>3, <2>5, <3>1
  <2>6. CASE l = k
    <3>1. SlotArrays(j)' = SlotArrays(j)
      BY <1>6, <2>6
    <3> QED
      BY <2>1, <2>2, <2>3, <2>6, <3>1
  <2> QED
    BY <2>4, <2>5, <2>6
<1>15. RowsGood'
  <2> SUFFICES ASSUME NEW v \in Active, NEW l \in MyRows(v)
               PROVE  RowGood(v, l)'
    BY <1>3 DEF RowsGood
  <2>1. /\ v \in Workers /\ l \in 1 .. numLines /\ l \in Nat
        /\ l \in DOMAIN primary /\ row[v] \in Nat
    <3>1. v \in Workers /\ l \in 1 .. numLines /\ numLines \in Nat
      BY <1>1, WorkersFacts
    <3>2. numLines <= Len(primary) /\ Len(primary) \in Nat /\ DOMAIN primary = 1 .. Len(primary)
      BY <1>1, TableFacts DEF Control, Shapes
    <3>3. row[v] \in Nat
      BY <3>1 DEF Shapes
    <3> QED
      BY <3>1, <3>2, <3>3
  <2>2. CASE l = k
    <3>1. v = w
      BY <1>1, <1>2, <2>2, WorkersFacts
    <3> QED
      BY <2>2, <3>1
  <2>3. CASE l # k
    <3>1. RowGood(v, l)
      BY DEF RowsGood
    <3>2. Content(primary[l])' = Content(primary[l])
      <4>1. primary'[l] = primary[l] /\ (primary[l].arr # 0 => mem'[primary[l].arr] = mem[primary[l].arr])
        BY <1>7, <1>8, <1>9, <2>1, <2>3
      <4>2. primary[l].len \in 0 .. SliceCap(primary[l])
        BY <2>1 DEF TypeOK
      <4> QED
        BY <4>1, <4>2 DEF Content, SliceCap
    <3>3. PrimaryGood(l)' = PrimaryGood(l)
      BY <1>3, <3>2 DEF PrimaryGood
    <3>4. /\ primary'[l] = primary[l] /\ (l \in DOMAIN rich => rich'[l] = rich[l])
          /\ l \in DOMAIN rich => Content(rich[l])' = Content(rich[l])
      <4>1. primary'[l] = primary[l]
        BY <1>9, <2>1, <2>3
      <4> SUFFICES ASSUME l \in DOMAIN rich
                   PROVE  rich'[l] = rich[l] /\ Content(rich[l])' = Content(rich[l])
        BY <4>1
      <4>2. rich'[l] = rich[l] /\ (rich[l].arr # 0 => mem'[rich[l].arr] = mem[rich[l].arr])
        BY <1>7, <1>8, <1>9, <2>3
      <4>3. rich[l].len \in 0 .. SliceCap(rich[l])
        BY DEF TypeOK
      <4> QED
        BY <4>2, <4>3 DEF Content, SliceCap
    <3>5. pc \in {"retok", "full", "rich"} /\ mode \in {"retok", "full"} => l \in DOMAIN rich
      BY <1>1, <2>1, TableFacts DEF Control, Shapes
    <3>6. pc \in {"retok", "full"} => mode = pc
      BY DEF Control
    <3>7. (pc \in {"retok", "full"} \/ HasRich) => RichGood(l)' = RichGood(l)
      <4>1. CASE mode \in {"retok", "full"}
        BY <1>3, <3>4, <3>5, <4>1 DEF RichGood, SplitInPlace, RichSlice, HasRich
      <4>2. CASE mode \notin {"retok", "full"}
        <5>1. mode \in Modes \cup {"none"}
          BY DEF TypeOK
        <5>2. HasRich => mode = "same"
          BY <4>2, <5>1, RowBuffersAssumption DEF HasRich
        <5> QED
          BY <1>3, <3>2, <3>4, <3>6, <4>2, <5>2 DEF RichGood, SplitInPlace, RichSlice
      <4> QED
        BY <4>1, <4>2
    <3>8. ASSUME v # w
          PROVE  row'[v] = row[v] /\ split'[v] = split[v]
      BY <2>1, <3>8 DEF Local
    <3>9. ASSUME v # w, pc = "retok", row[v] = l, split[v].active
          PROVE  SplitGood(l, split[v])'
      <4>1. SplitGood(l, split[v])
        BY <3>1, <3>9 DEF RowGood
      <4>2. split[v].out.arr \in SlotArrays(l)
        BY <2>1, <3>9 DEF SlotArrays, Splits
      <4>3. mem'[split[v].out.arr] = mem[split[v].out.arr] /\ split[v].out.arr # 0
        BY <1>7, <2>1, <2>3, <4>2
      <4>4. SliceCap(split[v].out)' = SliceCap(split[v].out) /\ Content(split[v].out)' = Content(split[v].out)
        BY <3>8, <3>9, <4>3 DEF SliceCap, Content
      <4>5. primary[l].arr # 0 => mem'[primary[l].arr] = mem[primary[l].arr]
        BY <1>7, <1>8, <2>1, <2>3
      <4>6. primary[l].arr = 0 => Len(lines[l]) = 0
        <5>1. primary[l].len \in 0 .. SliceCap(primary[l])
          BY <2>1 DEF TypeOK
        <5> QED
          BY <4>1, <5>1 DEF SplitGood, SliceCap
      <4>7. \A i \in split[v].next .. Len(lines[l]) : mem'[primary[l].arr][i] = mem[primary[l].arr][i]
        BY <4>1, <4>5, <4>6 DEF SplitGood
      <4>8. primary[l].arr # split[v].out.arr => Content(primary[l])' = Content(primary[l])
        BY <3>2
      <4>9. lines'[l] = lines[l] /\ primary'[l] = primary[l] /\ split'[v] = split[v]
        BY <1>3, <3>4, <3>8, <3>9
      <4> QED
        BY <4>1, <4>4, <4>7, <4>8, <4>9, Zenon DEF SplitGood
    <3>10. row'[v] = row[v] \/ (v = w /\ row[v] = k /\ row'[v] = k + 1)
      BY <1>5, <3>8
    <3>11. v = w => (split'[v].active => row'[v] = k)
      BY <1>5
    <3>12. l < row'[v] => l < row[v]
      BY <1>2, <2>1, <2>3, <3>10
    <3>13. row'[v] < l \/ (row'[v] = l /\ ~split'[v].active)
              => row[v] < l \/ (row[v] = l /\ ~split[v].active)
      BY <1>2, <2>1, <2>3, <3>8, <3>10
    <3>14. row'[v] = l /\ split'[v].active => v # w /\ row[v] = l /\ split[v].active
      BY <2>3, <3>8, <3>11
    <3>15. HasRich' = HasRich
      BY <1>3 DEF HasRich
    <3> HIDE DEF RowInv
    <3> QED
      BY <1>3, <3>1, <3>3, <3>7, <3>9, <3>12, <3>13, <3>14, <3>15 DEF RowGood
  <2> QED
    BY <2>2, <2>3
<1> QED
  BY <1>10, <1>11, <1>12, <1>13, <1>14, <1>15
-----------------------------------------------------------------------------
\* A worker that still has a row: the parse is running and the row is one of
\* its lines, with a slot in the primary table.
LEMMA WorkerAt ==
    ASSUME RowInv, NEW w \in Active, ~RowDone(w), NEW k, row[w] = k
    PROVE  /\ pc # "idle" /\ w \in Workers
           /\ k \in Nat /\ k \in MyRows(w) /\ k \in 1 .. numLines
           /\ lines[k] \in Lines /\ lines[k] \in Seq(Tokens)
           /\ k \in DOMAIN primary /\ primary[k] \in Slices
           /\ primary[k].arr \in 0 .. NumArrays /\ primary[k].len \in 0 .. SliceCap(primary[k])
           /\ pc \in {"retok", "full"} =>
                 /\ k \in DOMAIN rich /\ rich[k] \in Slices
                 /\ rich[k].arr \in 0 .. NumArrays /\ rich[k].len \in 0 .. SliceCap(rich[k])
<1> USE DEF RowInv
<1>1. pc # "idle"
  <2>1. SUFFICES ASSUME pc = "idle"
                 PROVE  FALSE
    OBVIOUS
  <2>2. numLines = 0
    BY <2>1 DEF Control, numLines
  <2> QED
    BY <2>2 DEF Active, ShardIds
<1>2. /\ w \in Workers /\ numLines \in Nat \ {0}
      /\ k \in MyRows(w) /\ k \in 1 .. numLines /\ k \in Nat
      /\ lines[k] \in Lines /\ lines[k] \in Seq(Tokens)
  BY <1>1, WorkersFacts
<1>3. k \in DOMAIN primary /\ (pc \in {"retok", "full"} => k \in DOMAIN rich)
  <2>1. /\ numLines <= Len(primary)
        /\ pc \in {"retok", "full"} => numLines <= Len(rich)
    BY <1>1 DEF Control
  <2>2. DOMAIN primary = 1 .. Len(primary) /\ DOMAIN rich = 1 .. Len(rich)
    BY TableFacts DEF Shapes
  <2>3. Len(primary) \in Nat /\ Len(rich) \in Nat
    BY TableFacts DEF Shapes
  <2> QED
    BY <1>2, <2>1, <2>2, <2>3
<1>4. primary \in Seq(Slices) /\ rich \in Seq(Slices)
  BY DEF Shapes
<1> QED
  BY <1>1, <1>2, <1>3, <1>4, TableFacts DEF TypeOK

\* The collector keeps what is in use and empties the rest.
LEMMA CollectFacts ==
    ASSUME NEW m \in Memory, NEW p, NEW r, NEW sp
    PROVE  /\ Collect(m, p, r, sp) \in Memory
           /\ \A a \in Arrays \cap Live(p, r, sp) : Collect(m, p, r, sp)[a] = m[a]
           /\ \A a \in Arrays : Len(Collect(m, p, r, sp)[a]) <= Len(m[a])
<1>1. /\ \A a \in Arrays : m[a] \in Seq(Cells) /\ Len(m[a]) \in Nat
      /\ <<>> \in Seq(Cells) /\ Len(<<>>) = 0
  BY DEF Memory
<1> QED
  BY <1>1 DEF Collect, Memory

\* Tokenizing a row into the array of slice d or a free one.
LEMMA TokenizedFacts ==
    ASSUME TypeOK, Shapes, NEW w \in Workers, split[w] = Whole,
           NEW d \in Slices, NEW toks \in Seq(Tokens), NEW res \in Tokenized(toks, d)
    PROVE  /\ res.mem \in Memory /\ \A a \in Arrays : Len(res.mem[a]) <= MaxCap
           /\ res.slice \in Slices /\ res.slice.arr \in Arrays
           /\ res.slice.arr = d.arr \/ res.slice.arr = Fresh
           /\ res.slice.len = Len(toks) /\ Len(toks) <= Len(res.mem[res.slice.arr])
           /\ \A j \in 1 .. Len(toks) : res.mem[res.slice.arr][j] = toks[j]
           /\ \A a \in Arrays : a # Fresh => Len(res.mem[a]) = Len(mem[a])
           /\ \A a \in Arrays : a # Fresh /\ a # d.arr => res.mem[a] = mem[a]
<1>1. Fresh \in Arrays \ Live(primary, rich, split) /\ Arrays \subseteq Nat
  BY FreshFacts DEF Arrays
<1>2. /\ mem \in Memory /\ Len(toks) \in Nat
      /\ d.arr \in 0 .. NumArrays /\ (d.arr # 0 => d.arr \in Arrays)
      /\ \A a \in Arrays : Len(mem[a]) \in Nat /\ Len(mem[a]) <= MaxCap
      /\ MaxCap \in Nat
  <2>1. mem \in Memory /\ Len(toks) \in Nat /\ MaxCap \in Nat
    BY RowBuffersAssumption DEF Shapes
  <2>2. d.arr \in 0 .. NumArrays /\ (d.arr # 0 => d.arr \in Arrays)
    BY DEF Slices, Arrays
  <2>3. \A a \in Arrays : Len(mem[a]) \in 0 .. MaxCap
    BY DEF TypeOK
  <2> QED
    BY <2>1, <2>2, <2>3
<1>3. Arrays \subseteq 0 .. NumArrays
  BY RowBuffersAssumption DEF Arrays
<1>4. CASE InPlace(d, Len(toks))
  <2>1. d.arr \in Arrays /\ Len(toks) <= Len(mem[d.arr])
    BY <1>2, <1>4 DEF InPlace, SliceCap
  <2>2. /\ res.mem = Store(mem, d.arr, 0, toks)
        /\ res.slice = [arr |-> d.arr, len |-> Len(toks)]
    BY <1>4 DEF Tokenized
  <2>3. /\ res.mem \in Memory
        /\ \A b \in Arrays : b # d.arr => res.mem[b] = mem[b]
        /\ Len(res.mem[d.arr]) = Len(mem[d.arr])
        /\ \A j \in 1 .. Len(mem[d.arr]) :
              res.mem[d.arr][j] = IF j <= Len(toks) THEN toks[j] ELSE mem[d.arr][j]
    <3> DEFINE n == Store(mem, d.arr, 0, toks)
    <3>1. /\ n \in Memory
          /\ \A b \in Arrays : b # d.arr => n[b] = mem[b]
          /\ Len(n[d.arr]) = Len(mem[d.arr])
          /\ \A j \in 1 .. Len(mem[d.arr]) :
                n[d.arr][j] = IF j <= Len(toks) THEN toks[j] ELSE mem[d.arr][j]
      <4>1. mem \in Memory /\ d.arr \in Arrays
        BY <1>2, <2>1
      <4> QED
        BY <4>1, StoreFirst, Zenon
    <3>2. res.mem = n
      BY <2>2
    <3> HIDE DEF n
    <3> QED
      BY <3>1, <3>2, Zenon
  <2>4. \A j \in 1 .. Len(toks) : res.mem[d.arr][j] = toks[j]
    BY <1>2, <2>1, <2>3
  <2>5. res.slice \in Slices
    BY <1>2, <2>2 DEF Slices
  <2> QED
    BY <1>2, <2>1, <2>2, <2>3, <2>4, <2>5
<1>5. CASE ~InPlace(d, Len(toks))
  <2> DEFINE old == IF d.arr = 0 THEN mem ELSE Store(mem, d.arr, 0, toks)
  <2>1. /\ old \in Memory
        /\ \A a \in Arrays : Len(old[a]) = Len(mem[a])
        /\ \A a \in Arrays : a # d.arr => old[a] = mem[a]
    <3>1. CASE d.arr = 0
      BY <1>2, <3>1
    <3>2. CASE d.arr # 0
      BY <1>2, <3>2, StoreFirst
    <3> QED
      BY <3>1, <3>2
  <2>2. PICK c \in 1 .. MaxCap :
           /\ c >= Len(toks)
           /\ res = [mem   |-> Store([old EXCEPT ![Fresh] = New(c)], Fresh, 0, toks),
                     slice |-> [arr |-> Fresh, len |-> Len(toks)]]
    BY <1>5 DEF Tokenized
  <2> DEFINE m == [old EXCEPT ![Fresh] = New(c)]
  <2>3. New(c) \in Seq(Cells) /\ Len(New(c)) = c
    BY <1>2, NewFacts, c \in Nat
  <2> HIDE DEF old
  <2>4. m \in Memory /\ m[Fresh] = New(c) /\ \A a \in Arrays : a # Fresh => m[a] = old[a]
    BY <1>1, <2>1, <2>3 DEF Memory
  <2>5. /\ res.mem = Store(m, Fresh, 0, toks)
        /\ res.slice = [arr |-> Fresh, len |-> Len(toks)]
    BY <2>2
  <2> HIDE DEF m
  <2>6. /\ res.mem \in Memory
        /\ \A b \in Arrays : b # Fresh => res.mem[b] = m[b]
        /\ Len(res.mem[Fresh]) = c
        /\ \A j \in 1 .. c :
              res.mem[Fresh][j] = IF j <= Len(toks) THEN toks[j] ELSE m[Fresh][j]
    <3> DEFINE n == Store(m, Fresh, 0, toks)
    <3>1. /\ n \in Memory
          /\ \A b \in Arrays : b # Fresh => n[b] = m[b]
          /\ Len(n[Fresh]) = Len(m[Fresh])
          /\ \A j \in 1 .. Len(m[Fresh]) :
                n[Fresh][j] = IF j <= Len(toks) THEN toks[j] ELSE m[Fresh][j]
      BY <1>1, <2>4, StoreFirst, Zenon
    <3>2. res.mem = n /\ Len(m[Fresh]) = c
      BY <2>3, <2>4, <2>5
    <3> HIDE DEF n
    <3> QED
      BY <3>1, <3>2, Zenon
  <2>7. \A j \in 1 .. Len(toks) : res.mem[Fresh][j] = toks[j]
    <3>1. \A j \in 1 .. Len(toks) : j \in 1 .. c /\ j <= Len(toks)
      BY <1>2, <2>2
    <3> QED
      BY <2>6, <3>1
  <2>8. res.slice \in Slices
    BY <1>1, <1>2, <1>3, <2>5 DEF Slices
  <2>9. \A a \in Arrays : Len(res.mem[a]) <= MaxCap
    BY <1>2, <2>1, <2>4, <2>6
  <2>10. \A a \in Arrays : a # Fresh => Len(res.mem[a]) = Len(mem[a])
    BY <2>1, <2>4, <2>6
  <2>11. \A a \in Arrays : a # Fresh /\ a # d.arr => res.mem[a] = mem[a]
    BY <2>1, <2>4, <2>6
  <2>12. res.slice.arr = Fresh /\ res.slice.len = Len(toks) /\ Len(toks) <= Len(res.mem[Fresh])
    BY <2>2, <2>5, <2>6
  <2> QED
    BY <1>1, <2>6, <2>7, <2>8, <2>9, <2>10, <2>11, <2>12
<1> QED
  BY <1>4, <1>5
-----------------------------------------------------------------------------
\* A tokenized row, in either table: what both fan-outs that tokenize share.
LEMMA TokenizedSlot ==
    ASSUME RowInv, NEW w \in Active, ~RowDone(w), NEW k, row[w] = k, pc # "retok",
           NEW table, table = primary \/ table = rich, k \in DOMAIN table,
           NEW toks \in Seq(Tokens), NEW res \in Tokenized(toks, table[k])
    PROVE  /\ split[w] = Whole
           /\ \A a \in Arrays : Len(res.mem[a]) <= MaxCap
           /\ res.mem \in Memory /\ res.slice \in Slices /\ res.slice.arr \in Arrays
           /\ res.slice.arr \in SlotArrays(k) \cup (Arrays \ Live(primary, rich, split))
           /\ res.slice.len = Len(toks) /\ Len(toks) <= Len(res.mem[res.slice.arr])
           /\ \A j \in 1 .. Len(toks) : res.mem[res.slice.arr][j] = toks[j]
           /\ \A a \in Arrays \cap Live(primary, rich, split) :
                 /\ Len(res.mem[a]) = Len(mem[a])
                 /\ a \notin SlotArrays(k) => res.mem[a] = mem[a]
<1>1. TypeOK /\ Shapes /\ w \in Workers
  BY WorkerAt DEF RowInv
<1>2. split[w] = Whole
  BY <1>1 DEF RowInv, Splits
<1>3. table[k] \in Slices
  BY <1>1, TableFacts DEF Shapes
<1>4. Fresh \in Arrays \ Live(primary, rich, split) /\ 0 \notin Arrays
  BY <1>1, <1>2, FreshFacts DEF Arrays
<1>5. table[k].arr # 0 => table[k].arr \in SlotArrays(k)
  BY DEF SlotArrays
<1>6. /\ res.mem \in Memory /\ \A a \in Arrays : Len(res.mem[a]) <= MaxCap
      /\ res.slice \in Slices /\ res.slice.arr \in Arrays
      /\ res.slice.arr = table[k].arr \/ res.slice.arr = Fresh
      /\ res.slice.len = Len(toks) /\ Len(toks) <= Len(res.mem[res.slice.arr])
      /\ \A j \in 1 .. Len(toks) : res.mem[res.slice.arr][j] = toks[j]
      /\ \A a \in Arrays : a # Fresh => Len(res.mem[a]) = Len(mem[a])
      /\ \A a \in Arrays : a # Fresh /\ a # table[k].arr => res.mem[a] = mem[a]
  <2> DEFINE d == table[k]
  <2>1. d \in Slices /\ res \in Tokenized(toks, d)
    BY <1>3
  <2> HIDE DEF d
  <2>2. /\ res.mem \in Memory /\ \A a \in Arrays : Len(res.mem[a]) <= MaxCap
        /\ res.slice \in Slices /\ res.slice.arr \in Arrays
        /\ res.slice.arr = d.arr \/ res.slice.arr = Fresh
        /\ res.slice.len = Len(toks) /\ Len(toks) <= Len(res.mem[res.slice.arr])
        /\ \A j \in 1 .. Len(toks) : res.mem[res.slice.arr][j] = toks[j]
        /\ \A a \in Arrays : a # Fresh => Len(res.mem[a]) = Len(mem[a])
        /\ \A a \in Arrays : a # Fresh /\ a # d.arr => res.mem[a] = mem[a]
    BY <1>1, <1>2, <2>1, TokenizedFacts, Zenon
  <2> QED
    BY <2>2 DEF d
<1> QED
  BY <1>2, <1>4, <1>5, <1>6

\* The rows of the primary table are tokenized one worker step at a time.
LEMMA TokenizeRowStep ==
    ASSUME RowInv, NEW w \in Workers, TokenizeRow(w)
    PROVE  RowInv'
<1>1. w \in Active /\ ~RowDone(w) /\ pc = "tokenize"
  BY DEF TokenizeRow
<1>2. PICK k : row[w] = k
  OBVIOUS
<1>3. /\ k \in Nat /\ k \in DOMAIN primary /\ k \in 1 .. numLines /\ lines[k] \in Seq(Tokens)
  BY <1>1, <1>2, WorkerAt
<1>4. PICK res \in Tokenized(lines[k], primary[k]) :
         /\ primary' = [primary EXCEPT ![k] = res.slice]
         /\ mem' = Collect(res.mem, primary', rich, split)
  BY <1>2 DEF TokenizeRow
<1>5. /\ row' = [row EXCEPT ![w] = @ + 1]
      /\ UNCHANGED <<rich, lines, mode, shards, pc, split, parses>>
  BY DEF TokenizeRow
<1>6. /\ split[w] = Whole
      /\ \A a \in Arrays : Len(res.mem[a]) <= MaxCap
      /\ res.mem \in Memory /\ res.slice \in Slices /\ res.slice.arr \in Arrays
      /\ res.slice.arr \in SlotArrays(k) \cup (Arrays \ Live(primary, rich, split))
      /\ res.slice.len = Len(lines[k]) /\ Len(lines[k]) <= Len(res.mem[res.slice.arr])
      /\ \A j \in 1 .. Len(lines[k]) : res.mem[res.slice.arr][j] = lines[k][j]
      /\ \A a \in Arrays \cap Live(primary, rich, split) :
            /\ Len(res.mem[a]) = Len(mem[a])
            /\ a \notin SlotArrays(k) => res.mem[a] = mem[a]
  BY <1>1, <1>2, <1>3, TokenizedSlot
<1>7. TypeOK /\ Shapes
  BY DEF RowInv
<1>8. /\ primary' \in Seq(Slices) /\ Len(primary') = Len(primary)
      /\ DOMAIN primary' = DOMAIN primary
      /\ primary'[k] = res.slice
      /\ \A j \in DOMAIN primary : j # k => primary'[j] = primary[j]
  BY <1>3, <1>4, <1>6, <1>7 DEF Shapes
<1>9. /\ mem' \in Memory
      /\ \A a \in Arrays \cap Live(primary', rich', split') : mem'[a] = res.mem[a]
      /\ \A a \in Arrays : Len(mem'[a]) <= Len(res.mem[a])
  BY <1>4, <1>5, <1>6, CollectFacts
<1>10. \A a \in Arrays : Len(mem'[a]) <= MaxCap
  <2>1. \A a \in Arrays : Len(mem'[a]) \in Nat /\ Len(res.mem[a]) \in Nat
    BY <1>6, <1>9 DEF Memory
  <2>2. \A a \in Arrays : Len(mem'[a]) <= Len(res.mem[a]) /\ Len(res.mem[a]) <= MaxCap
    BY <1>6, <1>9, Zenon
  <2>3. \A x, y \in Nat : x <= y /\ y <= MaxCap => x <= MaxCap
    BY RowBuffersAssumption
  <2> QED
    BY <2>1, <2>2, <2>3, Zenon
<1>11. res.slice.arr \in Live(primary', rich', split') /\ mem'[res.slice.arr] = res.mem[res.slice.arr]
  <2>1. res.slice.arr \in Live(primary', rich', split')
    BY <1>3, <1>8, Zenon DEF Live
  <2> QED
    BY <1>6, <1>9, <2>1
<1>12. k \in DOMAIN rich => rich'[k].len <= SliceCap(rich[k])'
  <2> SUFFICES ASSUME k \in DOMAIN rich
               PROVE  rich[k].len <= IF rich[k].arr = 0 THEN 0 ELSE Len(mem'[rich[k].arr])
    BY <1>5 DEF SliceCap
  <2>1. rich[k].len <= SliceCap(rich[k]) /\ rich[k].arr \in 0 .. NumArrays
    BY <1>7, TableFacts DEF TypeOK, Shapes
  <2>2. CASE rich[k].arr = 0
    BY <2>1, <2>2 DEF SliceCap
  <2>3. CASE rich[k].arr # 0
    <3>1. rich[k].arr \in Arrays
      BY <2>1, <2>3, RowBuffersAssumption DEF Arrays
    <3>2. rich[k].arr \in Live(primary, rich, split) /\ rich[k].arr \in Live(primary', rich', split')
      BY <1>5, Zenon DEF Live
    <3>3. Len(mem'[rich[k].arr]) = Len(mem[rich[k].arr])
      BY <1>6, <1>9, <3>1, <3>2
    <3> QED
      BY <2>1, <2>3, <3>3 DEF SliceCap
  <2> QED
    BY <2>2, <2>3
<1>13. SlotArrays(k)' \subseteq SlotArrays(k) \cup (Arrays \ Live(primary, rich, split))
  <2>1. \A v \in Workers : ~split'[v].active
    BY <1>1, <1>5 DEF RowInv, Splits
  <2>2. SlotArrays(k)' \subseteq SlotArrays(k) \cup {res.slice.arr}
    BY <1>5, <1>8, <2>1 DEF SlotArrays
  <2> QED
    BY <1>6, <2>2
<1>14. \A a \in Live(primary, rich, split) \cap Live(primary', rich', split') :
          a \in Arrays \ SlotArrays(k) => mem'[a] = mem[a]
  BY <1>6, <1>9
<1>15. /\ row' \in [Workers -> Nat] /\ row'[w] = k + 1
       /\ \A v \in Workers : v # w => row'[v] = row[v]
       /\ split' \in [Workers -> [active : BOOLEAN, next : Nat, out : Slices]]
  BY <1>2, <1>3, <1>5, <1>7 DEF Shapes
<1>16. primary'[k].len <= SliceCap(primary[k])'
  <2>1. res.slice.arr # 0
    BY <1>6 DEF Arrays
  <2> QED
    BY <1>6, <1>8, <1>11, <2>1 DEF SliceCap
<1>17. Local(w, k)
  BY <1>5, <1>6, <1>7, <1>8, <1>9, <1>10, <1>12, <1>13, <1>14, <1>15, <1>16 DEF Local, Shapes
<1>18. RowGood(w, k)'
  <2>1. PrimaryGood(k)'
    <3>1. Content(primary[k])' = [j \in 1 .. Len(lines[k]) |-> mem'[res.slice.arr][j]]
      BY <1>6, <1>8 DEF Content
    <3>2. \A j \in 1 .. Len(lines[k]) : mem'[res.slice.arr][j] = lines[k][j]
      BY <1>6, <1>11
    <3>3. Content(primary[k])' = [j \in 1 .. Len(lines[k]) |-> lines[k][j]]
      BY <3>1, <3>2
    <3>4. lines[k] = [j \in 1 .. Len(lines[k]) |-> lines[k][j]]
      BY <1>3
    <3> QED
      BY <1>5, <3>3, <3>4 DEF PrimaryGood
  <2> QED
    BY <1>1, <1>5, <2>1 DEF RowGood, HasRich
<1> QED
  BY <1>1, <1>2, <1>17, <1>18, LocalStep

\* So are the rows of the rich table, when the lines are tokenized again.
LEMMA TokenizeRichStep ==
    ASSUME RowInv, NEW w \in Workers, TokenizeRich(w)
    PROVE  RowInv'
<1>1. w \in Active /\ ~RowDone(w) /\ pc = "full" /\ mode = "full"
  BY DEF TokenizeRich, RowInv, Control
<1>2. PICK k : row[w] = k
  OBVIOUS
<1>3. /\ k \in Nat /\ k \in DOMAIN primary /\ k \in DOMAIN rich /\ k \in 1 .. numLines
      /\ lines[k] \in Seq(Tokens)
  BY <1>1, <1>2, WorkerAt
<1> DEFINE toks == RichRow(lines[k])
<1>t. toks \in Seq(Tokens)
  BY <1>3, RichUpToFacts, Len(lines[k]) \in 0 .. Len(lines[k])
<1>4. PICK res \in Tokenized(toks, rich[k]) :
         /\ rich' = [rich EXCEPT ![k] = res.slice]
         /\ mem' = Collect(res.mem, primary, rich', split)
  BY <1>2 DEF TokenizeRich
<1>5. /\ row' = [row EXCEPT ![w] = @ + 1]
      /\ UNCHANGED <<primary, lines, mode, shards, pc, split, parses>>
  BY DEF TokenizeRich
<1>s. toks' = toks
  BY <1>5 DEF RichRow
<1>r. toks = RichRow(lines[k])
  OBVIOUS
<1> HIDE DEF toks
<1>6. /\ split[w] = Whole
      /\ \A a \in Arrays : Len(res.mem[a]) <= MaxCap
      /\ res.mem \in Memory /\ res.slice \in Slices /\ res.slice.arr \in Arrays
      /\ res.slice.arr \in SlotArrays(k) \cup (Arrays \ Live(primary, rich, split))
      /\ res.slice.len = Len(toks) /\ Len(toks) <= Len(res.mem[res.slice.arr])
      /\ \A j \in 1 .. Len(toks) : res.mem[res.slice.arr][j] = toks[j]
      /\ \A a \in Arrays \cap Live(primary, rich, split) :
            /\ Len(res.mem[a]) = Len(mem[a])
            /\ a \notin SlotArrays(k) => res.mem[a] = mem[a]
  BY <1>1, <1>2, <1>3, <1>t, TokenizedSlot
<1>7. TypeOK /\ Shapes
  BY DEF RowInv
<1>8. /\ rich' \in Seq(Slices) /\ Len(rich') = Len(rich)
      /\ DOMAIN rich' = DOMAIN rich
      /\ rich'[k] = res.slice
      /\ \A j \in DOMAIN rich : j # k => rich'[j] = rich[j]
  BY <1>3, <1>4, <1>6, <1>7 DEF Shapes
<1>9. /\ mem' \in Memory
      /\ \A a \in Arrays \cap Live(primary', rich', split') : mem'[a] = res.mem[a]
      /\ \A a \in Arrays : Len(mem'[a]) <= Len(res.mem[a])
  BY <1>4, <1>5, <1>6, CollectFacts
<1>10. \A a \in Arrays : Len(mem'[a]) <= MaxCap
  <2>1. \A a \in Arrays : Len(mem'[a]) \in Nat /\ Len(res.mem[a]) \in Nat
    BY <1>6, <1>9 DEF Memory
  <2>2. \A a \in Arrays : Len(mem'[a]) <= Len(res.mem[a]) /\ Len(res.mem[a]) <= MaxCap
    BY <1>6, <1>9, Zenon
  <2>3. \A x, y \in Nat : x <= y /\ y <= MaxCap => x <= MaxCap
    BY RowBuffersAssumption
  <2> QED
    BY <2>1, <2>2, <2>3, Zenon
<1>11. res.slice.arr \in Live(primary', rich', split') /\ mem'[res.slice.arr] = res.mem[res.slice.arr]
  <2>1. res.slice.arr \in Live(primary', rich', split')
    BY <1>3, <1>8, Zenon DEF Live
  <2> QED
    BY <1>6, <1>9, <2>1
<1>12. primary'[k].len <= SliceCap(primary[k])'
  <2> SUFFICES primary[k].len <= IF primary[k].arr = 0 THEN 0 ELSE Len(mem'[primary[k].arr])
    BY <1>5 DEF SliceCap
  <2>1. primary[k].len <= SliceCap(primary[k]) /\ primary[k].arr \in 0 .. NumArrays
    BY <1>3, <1>7, TableFacts DEF TypeOK, Shapes
  <2>2. CASE primary[k].arr = 0
    BY <2>1, <2>2 DEF SliceCap
  <2>3. CASE primary[k].arr # 0
    <3>1. primary[k].arr \in Arrays
      BY <2>1, <2>3, RowBuffersAssumption DEF Arrays
    <3>2. primary[k].arr \in Live(primary, rich, split) /\ primary[k].arr \in Live(primary', rich', split')
      BY <1>3, <1>5, Zenon DEF Live
    <3>3. Len(mem'[primary[k].arr]) = Len(mem[primary[k].arr])
      BY <1>6, <1>9, <3>1, <3>2
    <3> QED
      BY <2>1, <2>3, <3>3 DEF SliceCap
  <2> QED
    BY <2>2, <2>3
<1>13. SlotArrays(k)' \subseteq SlotArrays(k) \cup (Arrays \ Live(primary, rich, split))
  <2>1. \A v \in Workers : ~split'[v].active
    BY <1>1, <1>5 DEF RowInv, Splits
  <2>2. SlotArrays(k)' \subseteq SlotArrays(k) \cup {res.slice.arr}
    BY <1>5, <1>8, <2>1 DEF SlotArrays
  <2> QED
    BY <1>6, <2>2
<1>14. \A a \in Live(primary, rich, split) \cap Live(primary', rich', split') :
          a \in Arrays \ SlotArrays(k) => mem'[a] = mem[a]
  BY <1>6, <1>9
<1>15. /\ row' \in [Workers -> Nat] /\ row'[w] = k + 1
       /\ \A v \in Workers : v # w => row'[v] = row[v]
       /\ split' \in [Workers -> [active : BOOLEAN, next : Nat, out : Slices]]
  BY <1>2, <1>3, <1>5, <1>7 DEF Shapes
<1>16. rich'[k].len <= SliceCap(rich[k])'
  <2>1. res.slice.arr # 0
    BY <1>6 DEF Arrays
  <2> QED
    BY <1>6, <1>8, <1>11, <2>1 DEF SliceCap
<1>17. Local(w, k)
  BY <1>5, <1>6, <1>7, <1>8, <1>9, <1>10, <1>12, <1>13, <1>14, <1>15, <1>16 DEF Local, Shapes
<1>18. RowGood(w, k)'
  <2>1. RichGood(k)'
    <3>1. Content(rich[k])' = [j \in 1 .. Len(toks) |-> mem'[res.slice.arr][j]]
      BY <1>6, <1>8 DEF Content
    <3>2. \A j \in 1 .. Len(toks) : mem'[res.slice.arr][j] = toks[j]
      BY <1>6, <1>11
    <3>3. Content(rich[k])' = [j \in 1 .. Len(toks) |-> toks[j]]
      BY <3>1, <3>2
    <3>4. toks = [j \in 1 .. Len(toks) |-> toks[j]]
      BY <1>t
    <3>5. Content(rich[k])' = toks
      BY <3>3, <3>4
    <3>6. RichSlice(k)' = rich'[k] /\ Content(RichSlice(k))' = Content(rich[k])'
      BY <1>1, <1>5 DEF RichSlice, Content
    <3>7. RichRow(lines[k])' = toks
      BY <1>5, <1>r
    <3> QED
      BY <3>5, <3>6, <3>7 DEF RichGood
  <2> QED
    BY <1>1, <1>5, <2>1 DEF RowGood, HasRich
<1> QED
  BY <1>1, <1>2, <1>17, <1>18, LocalStep

\* What a table's slice may use survives the collector.
LEMMA KeptSlice ==
    ASSUME TypeOK, Shapes, NEW t, t = primary \/ t = rich, NEW j \in DOMAIN t,
           NEW m \in Memory, t[j].arr # 0 => m[t[j].arr] = mem[t[j].arr]
    PROVE  /\ t[j].len <= IF t[j].arr = 0 THEN 0 ELSE Len(m[t[j].arr])
           /\ [i \in 1 .. t[j].len |-> m[t[j].arr][i]] = Content(t[j])
<1>1. t[j].len \in 0 .. SliceCap(t[j])
  BY DEF TypeOK
<1>2. CASE t[j].arr = 0
  BY <1>1, <1>2 DEF SliceCap, Content
<1>3. CASE t[j].arr # 0
  BY <1>1, <1>3 DEF SliceCap, Content
<1> QED
  BY <1>2, <1>3

\* A row with nothing to split is already its rich row.
LEMMA KeepRowStep ==
    ASSUME RowInv, NEW w \in Workers, KeepRow(w)
    PROVE  RowInv'
<1>1. w \in Active /\ ~RowDone(w) /\ pc = "retok" /\ mode = "retok" /\ ~split[w].active
  BY DEF KeepRow, RowInv, Control
<1>2. PICK k : row[w] = k
  OBVIOUS
<1>3. /\ k \in Nat /\ k \in DOMAIN primary /\ k \in DOMAIN rich /\ k \in 1 .. numLines
      /\ k \in MyRows(w) /\ lines[k] \in Seq(Tokens) /\ primary[k] \in Slices
      /\ primary[k].arr \in 0 .. NumArrays
  BY <1>1, <1>2, WorkerAt
<1>4. /\ rich' = [rich EXCEPT ![k] = primary[k]]
      /\ mem' = Collect(mem, primary, rich', split)
      /\ row' = [row EXCEPT ![w] = @ + 1]
      /\ \A j \in 1 .. primary[k].len : Content(primary[k])[j] \notin Impure
      /\ UNCHANGED <<primary, lines, mode, shards, pc, split, parses>>
  BY <1>2 DEF KeepRow
<1>5. TypeOK /\ Shapes /\ split[w] = Whole
  BY <1>1 DEF RowInv, Splits
<1>6. /\ rich' \in Seq(Slices) /\ Len(rich') = Len(rich)
      /\ DOMAIN rich' = DOMAIN rich
      /\ rich'[k] = primary[k]
      /\ \A j \in DOMAIN rich : j # k => rich'[j] = rich[j]
  BY <1>3, <1>4, <1>5 DEF Shapes
<1>7. /\ mem' \in Memory
      /\ \A a \in Arrays \cap Live(primary', rich', split') : mem'[a] = mem[a]
      /\ \A a \in Arrays : Len(mem'[a]) <= Len(mem[a])
  BY <1>4, <1>5, CollectFacts DEF Shapes
<1>8. \A a \in Arrays : Len(mem'[a]) <= MaxCap
  <2>1. \A a \in Arrays : Len(mem'[a]) \in Nat /\ Len(mem[a]) \in 0 .. MaxCap
    BY <1>5, <1>7 DEF Memory, TypeOK
  <2> QED
    BY <1>7, <2>1, RowBuffersAssumption
<1>9. primary[k].arr # 0 => mem'[primary[k].arr] = mem[primary[k].arr]
  <2> SUFFICES ASSUME primary[k].arr # 0
               PROVE  mem'[primary[k].arr] = mem[primary[k].arr]
    OBVIOUS
  <2>1. primary[k].arr \in Arrays
    BY <1>3, RowBuffersAssumption DEF Arrays
  <2>2. primary[k].arr \in Live(primary', rich', split')
    BY <1>3, <1>4, Zenon DEF Live
  <2> QED
    BY <1>7, <2>1, <2>2
<1>10. /\ primary[k].len <= IF primary[k].arr = 0 THEN 0 ELSE Len(mem'[primary[k].arr])
       /\ [i \in 1 .. primary[k].len |-> mem'[primary[k].arr][i]] = Content(primary[k])
  BY <1>3, <1>5, <1>7, <1>9, KeptSlice
<1>11. primary'[k].len <= SliceCap(primary[k])' /\ rich'[k].len <= SliceCap(rich[k])'
  BY <1>4, <1>6, <1>10 DEF SliceCap
<1>12. /\ row' \in [Workers -> Nat] /\ row'[w] = k + 1
       /\ \A v \in Workers : v # w => row'[v] = row[v]
       /\ split' \in [Workers -> [active : BOOLEAN, next : Nat, out : Slices]]
  BY <1>2, <1>3, <1>4, <1>5 DEF Shapes
<1>13. SlotArrays(k)' \subseteq SlotArrays(k)
  <2>1. {v \in Workers : split'[v].active /\ row'[v] = k}
           \subseteq {v \in Workers : split[v].active /\ row[v] = k}
    BY <1>1, <1>4, <1>12
  <2> DEFINE S == {split[v].out.arr : v \in {v \in Workers : split[v].active /\ row[v] = k}}
             T == {split'[v].out.arr : v \in {v \in Workers : split'[v].active /\ row'[v] = k}}
  <2>2. T \subseteq S
    BY <1>4, <2>1
  <2> HIDE DEF S, T
  <2>3. SlotArrays(k)' \subseteq ({primary[k].arr} \cup T) \ {0}
    BY <1>3, <1>4, <1>6 DEF SlotArrays, T
  <2>4. ({primary[k].arr} \cup S) \ {0} \subseteq SlotArrays(k)
    BY <1>3 DEF SlotArrays, S
  <2> QED
    BY <2>2, <2>3, <2>4
<1>14. \A a \in Live(primary, rich, split) \cap Live(primary', rich', split') :
          a \in Arrays \ SlotArrays(k) => mem'[a] = mem[a]
  BY <1>7
<1>15. Local(w, k)
  BY <1>4, <1>5, <1>6, <1>7, <1>8, <1>11, <1>12, <1>13, <1>14 DEF Local, Shapes
<1>16. RowGood(w, k)'
  <2>1. Content(primary[k]) = lines[k]
    BY <1>1, <1>2, <1>3 DEF RowInv, RowsGood, RowGood, PrimaryGood
  <2>2. Len(lines[k]) \in Nat /\ primary[k].len = Len(lines[k])
    <3>1. Len(lines[k]) \in Nat /\ DOMAIN lines[k] = 1 .. Len(lines[k])
      BY <1>3
    <3>2. DOMAIN Content(primary[k]) = 1 .. primary[k].len /\ primary[k].len \in Nat
      BY <1>3 DEF Content, Slices
    <3> QED
      BY <2>1, <3>1, <3>2
  <2>3. RichRow(lines[k]) = lines[k]
    <3>1. \A j \in 1 .. Len(lines[k]) : lines[k][j] \notin Impure
      BY <1>4, <2>1, <2>2
    <3>2. RichUpTo(lines[k], Len(lines[k])) = SubSeq(lines[k], 1, Len(lines[k]))
      BY <1>3, <2>2, <3>1, RichSame, Len(lines[k]) \in 0 .. Len(lines[k])
    <3> QED
      BY <1>3, <3>2, RichUpToFacts, SubSeq(lines[k], 1, Len(lines[k])) = lines[k]
  <2>4. Content(rich[k])' = lines[k]
    BY <1>6, <1>10, <2>1 DEF Content
  <2>5. RichSlice(k)' = rich'[k] /\ Content(RichSlice(k))' = Content(rich[k])'
    BY <1>1, <1>4 DEF RichSlice, Content
  <2>6. RichRow(lines[k])' = RichRow(lines[k])
    BY <1>4 DEF RichRow
  <2>7. RichGood(k)'
    BY <2>3, <2>4, <2>5, <2>6 DEF RichGood
  <2>8. pc' = "retok" /\ row'[w] = k + 1 /\ ~(k + 1 < k) /\ k + 1 # k
    BY <1>1, <1>3, <1>4, <1>12
  <2> QED
    BY <2>7, <2>8 DEF RowGood, HasRich
<1> QED
  BY <1>1, <1>2, <1>15, <1>16, LocalStep

\* Where a split starts: at the first token to split, and the row that comes
\* of it is longer than nothing and within every capacity.
LEMMA SplitStartFacts ==
    ASSUME NEW line \in Lines, NEW i \in DOMAIN line, line[i] \in Impure
    PROVE  /\ line \in Seq(Tokens) /\ SplitStart(line) \in 1 .. Len(line)
           /\ RichRow(line) # line
           /\ Needed(line) \in Nat \ {0} /\ Needed(line) <= MaxCap
           /\ Len(RichUpTo(line, SplitStart(line) - 1)) = SplitStart(line) - 1
           /\ RichUpTo(line, SplitStart(line) - 1) = SubSeq(line, 1, SplitStart(line) - 1)
<1>1. line \in Seq(Tokens) /\ Len(line) \in Nat /\ DOMAIN line = 1 .. Len(line)
  BY RowBuffersAssumption
<1> DEFINE S == {j \in DOMAIN line : line[j] \in Impure}
           start == SplitStart(line)
<1>2. S \in SUBSET Nat /\ S # {}
  BY <1>1
<1>3. start \in S /\ \A j \in S : start <= j
  BY <1>2, MinIsLeast DEF SplitStart
<1> HIDE DEF start
<1>4. start \in 1 .. Len(line) /\ \A j \in 1 .. start - 1 : line[j] \notin Impure
  BY <1>1, <1>3
<1>5. RichUpTo(line, start - 1) = SubSeq(line, 1, start - 1)
  BY <1>1, <1>4, RichSame, start - 1 \in 0 .. Len(line)
<1>6. Len(SubSeq(line, 1, start - 1)) = start - 1
  BY <1>1, <1>4
<1>7. RichRow(line) # line
  BY <1>1, RichChanges
<1>8. Needed(line) \in Nat /\ Needed(line) <= MaxCap
  <2>1. RichRow(line) \in Seq(Tokens)
    BY <1>1, RichUpToFacts, Len(line) \in 0 .. Len(line)
  <2> QED
    BY <2>1, CapacityAssumption DEF Needed
<1>9. Needed(line) >= Len(line)
  <2>1. /\ Len(RichUpTo(line, 0)) \in Nat
        /\ Len(RichUpTo(line, 0)) + (Len(line) - 0) <= Len(RichUpTo(line, Len(line)))
    BY <1>1, RichGrows, 0 \in 0 .. Len(line), Len(line) \in 0 .. Len(line)
  <2>2. Needed(line) = Len(RichUpTo(line, Len(line)))
    BY <1>1, RichUpToFacts DEF Needed
  <2> QED
    BY <1>1, <1>8, <2>1, <2>2
<1> QED
  BY <1>1, <1>4, <1>5, <1>6, <1>7, <1>8, <1>9 DEF start

\* A split begins in the slot's old rich array or in a free one, whichever
\* holds the whole result.
LEMMA BeginSplitStep ==
    ASSUME RowInv, NEW w \in Workers, BeginSplit(w)
    PROVE  RowInv'
<1>1. w \in Active /\ ~RowDone(w) /\ pc = "retok" /\ mode = "retok" /\ ~split[w].active
  BY DEF BeginSplit, RowInv, Control
<1>2. PICK k : row[w] = k
  OBVIOUS
<1>3. /\ k \in Nat /\ k \in DOMAIN primary /\ k \in DOMAIN rich /\ k \in 1 .. numLines
      /\ k \in MyRows(w) /\ lines[k] \in Lines /\ lines[k] \in Seq(Tokens)
      /\ primary[k] \in Slices /\ primary[k].arr \in 0 .. NumArrays
      /\ primary[k].len \in 0 .. SliceCap(primary[k])
      /\ rich[k] \in Slices /\ rich[k].arr \in 0 .. NumArrays
      /\ rich[k].len \in 0 .. SliceCap(rich[k])
  BY <1>1, <1>2, WorkerAt
<1>4. TypeOK /\ Shapes /\ split[w] = Whole /\ mem \in Memory
  BY <1>1 DEF RowInv, Splits, Shapes
<1>5. PICK line \in Lines : line = lines[k]
  BY <1>3
<1>6. Content(primary[k]) = line
  BY <1>1, <1>2, <1>3, <1>5 DEF RowInv, RowsGood, RowGood, PrimaryGood
<1> DEFINE reuse == SliceCap(rich[k]) >= Needed(line)
           arr == IF reuse THEN rich[k].arr ELSE Fresh
           target == IF reuse THEN mem ELSE [mem EXCEPT ![arr] = New(Needed(line))]
           start == SplitStart(line)
           pre == SubSeq(line, 1, start - 1)
<1>7. /\ \E j \in DOMAIN line : line[j] \in Impure
      /\ split' = [split EXCEPT ![w] = [active |-> TRUE, next |-> start,
                                        out |-> [arr |-> arr, len |-> start - 1]]]
      /\ mem' = Store(target, arr, 0, pre)
      /\ UNCHANGED <<primary, rich, lines, mode, shards, pc, row, parses>>
  BY <1>2, <1>6 DEF BeginSplit, Dst
<1>8. /\ line \in Seq(Tokens) /\ start \in 1 .. Len(line) /\ Len(line) \in Nat
      /\ RichRow(line) # line
      /\ Needed(line) \in Nat \ {0} /\ Needed(line) <= MaxCap
      /\ Len(RichUpTo(line, start - 1)) = start - 1
      /\ RichUpTo(line, start - 1) = pre
  BY <1>7, SplitStartFacts
<1>9. pre \in Seq(Tokens) /\ Len(pre) = start - 1 /\ \A j \in 1 .. start - 1 : pre[j] = line[j]
  BY <1>8
<1>10. Fresh \in Arrays \ Live(primary, rich, split)
  BY <1>4, FreshFacts
<1>11. /\ arr \in Arrays
       /\ arr \in SlotArrays(k) \cup (Arrays \ Live(primary, rich, split))
       /\ target \in Memory /\ Len(target[arr]) \in Nat
       /\ Needed(line) <= Len(target[arr]) /\ Len(target[arr]) <= MaxCap
       /\ \A a \in Arrays : a # arr => target[a] = mem[a]
       /\ reuse => target = mem
       /\ ~reuse => arr \notin Live(primary, rich, split)
  <2>1. CASE reuse
    <3>1. rich[k].arr # 0 /\ SliceCap(rich[k]) = Len(mem[rich[k].arr])
      BY <1>8, <2>1 DEF SliceCap
    <3>2. rich[k].arr \in Arrays /\ rich[k].arr \in SlotArrays(k)
      BY <1>3, <3>1, RowBuffersAssumption DEF Arrays, SlotArrays
    <3>3. Len(mem[rich[k].arr]) \in Nat /\ Len(mem[rich[k].arr]) <= MaxCap
      BY <1>4, <3>2, RowBuffersAssumption DEF TypeOK
    <3> QED
      BY <1>4, <2>1, <3>1, <3>2, <3>3
  <2>2. CASE ~reuse
    <3>1. New(Needed(line)) \in Seq(Cells) /\ Len(New(Needed(line))) = Needed(line)
      BY <1>8, NewFacts
    <3>2. target = [mem EXCEPT ![Fresh] = New(Needed(line))] /\ arr = Fresh
      BY <2>2
    <3> HIDE DEF reuse, arr, target
    <3>3. target \in Memory /\ target[Fresh] = New(Needed(line))
          /\ \A a \in Arrays : a # Fresh => target[a] = mem[a]
      BY <1>4, <1>10, <3>1, <3>2 DEF Memory
    <3> QED
      BY <1>8, <1>10, <2>2, <3>1, <3>2, <3>3
  <2> QED
    BY <2>1, <2>2
<1>12. /\ mem' \in Memory
       /\ \A a \in Arrays : a # arr => mem'[a] = mem[a]
       /\ Len(mem'[arr]) = Len(target[arr])
       /\ \A j \in 1 .. Len(target[arr]) :
             mem'[arr][j] = IF j <= start - 1 THEN line[j] ELSE target[arr][j]
  <2> HIDE DEF reuse, arr, target, pre, start
  <2>1. /\ Store(target, arr, 0, pre) \in Memory
        /\ \A b \in Arrays : b # arr => Store(target, arr, 0, pre)[b] = target[b]
        /\ Len(Store(target, arr, 0, pre)[arr]) = Len(target[arr])
        /\ \A j \in 1 .. Len(target[arr]) :
              Store(target, arr, 0, pre)[arr][j] = IF j <= Len(pre) THEN pre[j] ELSE target[arr][j]
    <3>1. target \in Memory /\ arr \in Arrays /\ pre \in Seq(Tokens)
      BY <1>9, <1>11
    <3> QED
      BY <3>1, StoreFirst, Zenon
  <2>2. \A j \in 1 .. Len(target[arr]) : j <= start - 1 => j \in 1 .. start - 1
    BY <1>8, <1>11
  <2> QED
    BY <1>7, <1>9, <1>11, <2>1, <2>2
<1> HIDE DEF pre, start
<1>s. split'[w] = [active |-> TRUE, next |-> start, out |-> [arr |-> arr, len |-> start - 1]]
  BY <1>4, <1>7 DEF Shapes
<1>13. /\ \A a \in Arrays : Len(mem'[a]) <= MaxCap
       /\ \A a \in Arrays \cap Live(primary, rich, split) :
             /\ Len(mem'[a]) = Len(mem[a])
             /\ a \notin SlotArrays(k) => mem'[a] = mem[a]
  <2>1. \A a \in Arrays : Len(mem[a]) <= MaxCap
    BY <1>4, RowBuffersAssumption DEF TypeOK
  <2>2. reuse => Len(target[arr]) = Len(mem[arr])
    BY <1>11
  <2> HIDE DEF reuse, arr, target
  <2> QED
    BY <1>11, <1>12, <2>1, <2>2
<1> HIDE DEF arr, target
<1>14. arr # 0 /\ primary[k].arr # 0 /\ arr \in Live(primary', rich', split')
  <2>1. arr # 0
    BY <1>11 DEF Arrays
  <2>2. primary[k].len = Len(line)
    BY <1>3, <1>6, <1>8 DEF Content, Slices
  <2>3. primary[k].arr # 0
    BY <1>3, <1>8, <2>2 DEF SliceCap
  <2>4. split'[w].out.arr = arr
    BY <1>s
  <2> QED
    BY <2>1, <2>3, <2>4, Zenon DEF Live
<1>15. /\ primary'[k].len <= SliceCap(primary[k])' /\ rich'[k].len <= SliceCap(rich[k])'
  <2>1. /\ rich[k].arr # 0 => rich[k].arr \in Arrays \cap Live(primary, rich, split)
        /\ primary[k].arr \in Arrays \cap Live(primary, rich, split)
    BY <1>3, <1>14, RowBuffersAssumption DEF Arrays, Live
  <2>2. /\ rich[k].arr # 0 => Len(mem'[rich[k].arr]) = Len(mem[rich[k].arr])
        /\ Len(mem'[primary[k].arr]) = Len(mem[primary[k].arr])
    BY <1>13, <2>1
  <2> QED
    BY <1>3, <1>7, <2>2 DEF SliceCap
<1>16. /\ row'[w] = k /\ \A v \in Workers : v # w => split'[v] = split[v]
       /\ split' \in [Workers -> [active : BOOLEAN, next : Nat, out : Slices]]
  <2>1. [arr |-> arr, len |-> start - 1] \in Slices /\ start \in Nat
    BY <1>8, <1>11, RowBuffersAssumption DEF Slices, Arrays
  <2> QED
    BY <1>2, <1>4, <1>7, <2>1 DEF Shapes
<1>17. SlotArrays(k)' \subseteq SlotArrays(k) \cup {arr}
  <2> DEFINE S == {split[v].out.arr : v \in {v \in Workers : split[v].active /\ row[v] = k}}
             T == {split'[v].out.arr : v \in {v \in Workers : split'[v].active /\ row'[v] = k}}
  <2>1. T \subseteq S \cup {arr}
    <3>1. \A v \in Workers : v # w /\ split'[v].active /\ row'[v] = k
             => split[v].active /\ row[v] = k /\ split'[v].out.arr = split[v].out.arr
      BY <1>7, <1>16
    <3>2. split'[w].out.arr = arr
      BY <1>s
    <3> QED
      BY <3>1, <3>2
  <2> HIDE DEF S, T
  <2>2. SlotArrays(k)' = ({primary[k].arr} \cup {rich[k].arr} \cup T) \ {0}
    BY <1>3, <1>7 DEF SlotArrays, T
  <2>3. SlotArrays(k) = ({primary[k].arr} \cup {rich[k].arr} \cup S) \ {0}
    BY <1>3 DEF SlotArrays, S
  <2> QED
    BY <1>14, <2>1, <2>2, <2>3
<1>18. SlotArrays(k)' \subseteq SlotArrays(k) \cup (Arrays \ Live(primary, rich, split))
  BY <1>11, <1>17
<1>19. \A a \in Live(primary, rich, split) \cap Live(primary', rich', split') :
          a \in Arrays \ SlotArrays(k) => mem'[a] = mem[a]
  BY <1>13
<1>20. split'[w].active /\ split'[w].out.arr # 0
  BY <1>s, <1>14
<1>21. Local(w, k)
  BY <1>1, <1>4, <1>7, <1>12, <1>13, <1>15, <1>16, <1>18, <1>19, <1>20 DEF Local, Shapes
<1>22. SplitGood(k, split[w])'
  <2>1. primary[k].len = Len(line)
    BY <1>3, <1>6, <1>8 DEF Content, Slices
  <2>2. \A i \in 1 .. Len(line) : mem[primary[k].arr][i] = line[i]
    BY <1>6, <2>1 DEF Content
  <2>3. /\ primary[k].arr \in Arrays \cap Live(primary, rich, split)
        /\ Len(line) <= Len(mem[primary[k].arr])
    BY <1>3, <1>14, <2>1, RowBuffersAssumption DEF Arrays, Live, SliceCap
  <2>4. \A i \in start .. Len(line) : mem'[primary[k].arr][i] = line[i]
    <3>1. CASE primary[k].arr # arr
      <4>1. mem'[primary[k].arr] = mem[primary[k].arr]
        BY <1>12, <2>3, <3>1
      <4> QED
        BY <1>8, <2>2, <4>1
    <3>2. CASE primary[k].arr = arr
      <4>1. target = mem
        BY <1>11, <2>3, <3>2
      <4>2. \A i \in start .. Len(line) :
               i \in 1 .. Len(line) /\ i \in 1 .. Len(target[arr]) /\ ~(i <= start - 1)
        BY <1>8, <1>11, <2>3, <3>2, <4>1
      <4>3. \A i \in start .. Len(line) : mem'[arr][i] = target[arr][i]
        BY <1>12, <4>2
      <4> QED
        BY <2>2, <3>2, <4>1, <4>2, <4>3
    <3> QED
      BY <3>1, <3>2
  <2>5. /\ lines'[k] = line /\ RichRow(lines[k])' = RichRow(line)
        /\ RichUpTo(lines[k], split[w].next - 1)' = RichUpTo(line, start - 1)
    <3>1. split'[w].next = start /\ lines'[k] = line
      BY <1>5, <1>7, <1>s
    <3> QED
      BY <3>1 DEF RichUpTo, RichRow
  <2>6. SliceCap(split[w].out)' = Len(mem'[arr])
    BY <1>14, <1>s DEF SliceCap
  <2>7. ASSUME arr # primary[k].arr
        PROVE  /\ Content(primary[k])' = line
               /\ Content(split[w].out)' = RichUpTo(line, start - 1)
    <3>1. mem'[primary[k].arr] = mem[primary[k].arr]
      BY <1>12, <2>3, <2>7
    <3>2. Content(primary[k])' = Content(primary[k])
      BY <1>7, <3>1 DEF Content
    <3>3. Content(split[w].out)' = [j \in 1 .. start - 1 |-> mem'[arr][j]]
      BY <1>s DEF Content
    <3>4. Needed(line) >= start - 1
      <4>1. /\ Len(RichUpTo(line, start - 1)) \in Nat
            /\ Len(RichUpTo(line, start - 1)) + (Len(line) - (start - 1))
                  <= Len(RichUpTo(line, Len(line)))
        BY <1>8, RichGrows, start - 1 \in 0 .. Len(line), Len(line) \in start - 1 .. Len(line)
      <4>2. Len(RichUpTo(line, Len(line))) = Needed(line)
        BY <1>8, RichUpToFacts DEF Needed
      <4> QED
        BY <1>8, <4>1, <4>2
    <3>5. \A j \in 1 .. start - 1 : mem'[arr][j] = line[j]
      <4>1. \A j \in 1 .. start - 1 : j \in 1 .. Len(target[arr]) /\ j <= start - 1
        BY <1>8, <1>11, <3>4
      <4> QED
        BY <1>12, <4>1
    <3>6. pre = [j \in 1 .. start - 1 |-> mem'[arr][j]]
      BY <1>8, <1>9, <3>5
    <3> QED
      BY <1>6, <1>8, <3>2, <3>3, <3>6
  <2>8. /\ split'[w].next = start /\ split'[w].out.arr = arr /\ split'[w].out.len = start - 1
    BY <1>s
  <2>9. Len(RichRow(line)) <= Len(mem'[arr])
    BY <1>11, <1>12 DEF Needed
  <2>10. start \in 1 .. Len(line) + 1 /\ start - 1 <= Len(RichUpTo(line, start - 1))
    BY <1>8
  <2>11. primary'[k] = primary[k]
    BY <1>7
  <2> QED
    BY <1>8, <2>1, <2>4, <2>5, <2>6, <2>7, <2>8, <2>9, <2>10, <2>11 DEF SplitGood
<1>23. RowGood(w, k)'
  BY <1>1, <1>3, <1>7, <1>16, <1>20, <1>22 DEF RowGood, HasRich
<1> QED
  BY <1>1, <1>2, <1>21, <1>23, LocalStep

\* The token a split reads, even one it has itself written, takes no more
\* room than the line's, so what the count foresaw is enough.
LEMMA SplitFits ==
    ASSUME TypeOK, Shapes, NEW k, lines[k] \in Seq(Tokens), NEW s, s.out \in Slices,
           SplitGood(k, s), s.next <= primary[k].len
    PROVE  LET line  == lines[k]
               parts == Parts(mem[primary[k].arr][s.next])
           IN  /\ s.next \in 1 .. Len(line)
               /\ parts \in Seq(Tokens)
               /\ \A j \in 1 .. Len(parts) : parts[j] \notin Impure
               /\ s.out.len + Len(parts) <= Len(RichUpTo(line, s.next))
               /\ Len(RichUpTo(line, s.next)) <= Len(RichRow(line))
               /\ Len(RichUpTo(line, s.next)) \in Nat /\ Len(RichRow(line)) \in Nat
               /\ Len(RichRow(line)) <= SliceCap(s.out)
<1> DEFINE line == lines[k]
           n == s.next
           tok == mem[primary[k].arr][n]
           parts == Parts(tok)
<1>1. line \in Seq(Tokens) /\ Len(line) \in Nat /\ n \in 1 .. Len(line)
  BY DEF SplitGood
<1>2. tok = line[n] \/ tok \in Tokens \ Impure
  BY <1>1 DEF SplitGood
<1>3. s.out.len <= Len(RichUpTo(line, n - 1)) /\ Len(RichRow(line)) <= SliceCap(s.out)
  BY DEF SplitGood
<1>4. s.out.len \in Nat
  BY DEF Slices
<1> HIDE DEF line, n, tok
<1>5. tok \in Tokens /\ line[n] \in Tokens
  BY <1>1, <1>2
<1>6. /\ parts \in Seq(Tokens) /\ Len(parts) \in Nat
      /\ \A j \in 1 .. Len(parts) : parts[j] \notin Impure
      /\ Parts(line[n]) \in Seq(Tokens) /\ Len(Parts(line[n])) \in Nat \ {0}
      /\ tok \notin Impure => parts = <<tok>>
  BY <1>5, PartsFacts
<1>7. Len(parts) <= Len(Parts(line[n]))
  <2>1. CASE tok = line[n]
    BY <1>6, <2>1
  <2>2. CASE tok \in Tokens \ Impure
    <3>1. Len(parts) = 1
      BY <1>6, <2>2
    <3> QED
      BY <1>6, <3>1
  <2> QED
    BY <1>2, <2>1, <2>2
<1>8. Len(RichUpTo(line, n)) = Len(RichUpTo(line, n - 1)) + Len(Parts(line[n]))
      /\ Len(RichUpTo(line, n - 1)) \in Nat
  <2>1. /\ RichUpTo(line, n) = RichUpTo(line, n - 1) \o Parts(line[n])
        /\ RichUpTo(line, n - 1) \in Seq(Tokens)
    BY <1>1, RichUpToFacts, n - 1 \in 0 .. Len(line)
  <2> QED
    BY <1>6, <2>1
<1>9. /\ Len(RichUpTo(line, n)) \in Nat /\ Len(RichUpTo(line, Len(line))) \in Nat
      /\ Len(RichUpTo(line, n)) + (Len(line) - n) <= Len(RichUpTo(line, Len(line)))
  BY <1>1, RichGrows, n \in 0 .. Len(line), Len(line) \in n .. Len(line)
<1>10. RichUpTo(line, Len(line)) = RichRow(line)
  BY <1>1, RichUpToFacts
<1>11. Len(RichUpTo(line, n)) <= Len(RichRow(line)) /\ Len(RichRow(line)) \in Nat
  BY <1>1, <1>9, <1>10
<1>12. s.out.len + Len(parts) <= Len(RichUpTo(line, n))
  BY <1>3, <1>4, <1>6, <1>7, <1>8
<1> QED
  BY <1>1, <1>3, <1>6, <1>9, <1>11, <1>12 DEF line, n, tok

\* The splits in progress, and one of them a token and l pieces further.
Splittings == [Workers -> [active : BOOLEAN, next : Nat, out : Slices]]
Advance(sp, w, l) == [sp EXCEPT ![w].next = @ + 1, ![w].out.len = @ + l]

\* What a turn of the split's loop does to the splits: that one moves on, keeps its
\* array and grows by the pieces.
LEMMA SplitUpdate ==
    ASSUME NEW sp \in Splittings, NEW w \in Workers, NEW l \in Nat,
           NEW q, q = Advance(sp, w, l)
    PROVE  /\ q \in Splittings
           /\ \A v \in Workers : v # w => q[v] = sp[v]
           /\ q[w].active = sp[w].active /\ q[w].next = sp[w].next + 1
           /\ q[w].out.arr = sp[w].out.arr /\ q[w].out.len = sp[w].out.len + l
<1> USE DEF Splittings
<1> DEFINE r == sp[w]
           r1 == [r EXCEPT !.next = @ + 1]
           o2 == [r1.out EXCEPT !.len = @ + l]
           r2 == [r1 EXCEPT !.out = o2]
           s1 == [sp EXCEPT ![w] = r1]
<1>1. r \in [active : BOOLEAN, next : Nat, out : Slices]
  OBVIOUS
<1>2. r1 \in [active : BOOLEAN, next : Nat, out : Slices]
      /\ r1.active = r.active /\ r1.next = r.next + 1 /\ r1.out = r.out
  BY <1>1
<1>3. s1[w] = r1 /\ \A v \in Workers : v # w => s1[v] = sp[v]
  OBVIOUS
<1>4. o2 \in Slices /\ o2.arr = r1.out.arr /\ o2.len = r1.out.len + l
  BY <1>2 DEF Slices
<1>5. q = [s1 EXCEPT ![w] = r2]
  BY <1>3 DEF Advance
<1> HIDE DEF r1, o2, s1, r
<1>6. r2 \in [active : BOOLEAN, next : Nat, out : Slices]
      /\ r2.active = r1.active /\ r2.next = r1.next /\ r2.out = o2
  BY <1>2, <1>4
<1> HIDE DEF r2
<1>7. DOMAIN s1 = Workers
  BY DEF s1
<1>8. /\ q[w] = r2 /\ \A v \in Workers : v # w => q[v] = sp[v]
      /\ q = [v \in Workers |-> q[v]]
  BY <1>3, <1>5, <1>7
<1>9. \A v \in Workers : q[v] \in [active : BOOLEAN, next : Nat, out : Slices]
  BY <1>6, <1>8
<1> QED
  BY <1>2, <1>4, <1>6, <1>8, <1>9 DEF r

\* A turn of the split's loop.
LEMMA SplitTokenStep ==
    ASSUME RowInv, NEW w \in Workers, SplitToken(w)
    PROVE  RowInv'
<1>1. /\ w \in Active /\ ~RowDone(w) /\ pc = "retok" /\ mode = "retok"
      /\ split[w].active /\ split[w].out.arr # 0
  BY DEF SplitToken, RowInv, Control, Splits
<1>2. PICK k : row[w] = k
  OBVIOUS
<1>3. /\ k \in Nat /\ k \in DOMAIN primary /\ k \in DOMAIN rich /\ k \in 1 .. numLines
      /\ k \in MyRows(w) /\ lines[k] \in Seq(Tokens)
      /\ primary[k] \in Slices /\ primary[k].arr \in 0 .. NumArrays
      /\ primary[k].len \in 0 .. SliceCap(primary[k])
      /\ rich[k] \in Slices /\ rich[k].arr \in 0 .. NumArrays
      /\ rich[k].len \in 0 .. SliceCap(rich[k])
  BY <1>1, <1>2, WorkerAt
<1>4. TypeOK /\ Shapes /\ mem \in Memory
  BY DEF RowInv, Shapes
<1>5. SplitGood(k, split[w])
  BY <1>1, <1>2, <1>3 DEF RowInv, RowsGood, RowGood
<1>6. split[w].out \in Slices /\ split[w].next \in Nat
  BY <1>4 DEF Shapes
<1> DEFINE line == lines[k]
           n == split[w].next
           at == split[w].out.len
           arr == split[w].out.arr
           parr == primary[k].arr
           parts == Parts(mem[parr][n])
<1>7. /\ n <= primary[k].len
      /\ mem' = Store(mem, arr, at, parts)
      /\ split' = [split EXCEPT ![w].next = @ + 1, ![w].out.len = @ + Len(parts)]
      /\ UNCHANGED <<primary, rich, lines, mode, shards, pc, row, parses>>
  BY <1>2 DEF SplitToken
<1>8. /\ n \in 1 .. Len(line) /\ parts \in Seq(Tokens)
      /\ \A j \in 1 .. Len(parts) : parts[j] \notin Impure
      /\ at + Len(parts) <= Len(RichUpTo(line, n))
      /\ Len(RichUpTo(line, n)) <= Len(RichRow(line))
      /\ Len(RichUpTo(line, n)) \in Nat /\ Len(RichRow(line)) \in Nat
      /\ Len(RichRow(line)) <= SliceCap(split[w].out)
  BY <1>3, <1>4, <1>5, <1>6, <1>7, SplitFits
<1>9. /\ arr \in Arrays /\ at \in Nat /\ arr # 0 /\ SliceCap(split[w].out) = Len(mem[arr])
  BY <1>1, <1>6, RowBuffersAssumption DEF Slices, Arrays, SliceCap
<1>10. arr \in SlotArrays(k)
  BY <1>1, <1>2, <1>9 DEF SlotArrays
<1>11. line \in Seq(Tokens) /\ Len(line) \in Nat /\ Len(parts) \in Nat
  BY <1>3, <1>8
<1>12. /\ mem' \in Memory
       /\ \A a \in Arrays : a # arr => mem'[a] = mem[a]
       /\ Len(mem'[arr]) = Len(mem[arr])
       /\ \A j \in 1 .. Len(mem[arr]) :
             mem'[arr][j] = IF j \in at + 1 .. at + Len(parts) THEN parts[j - at] ELSE mem[arr][j]
  <2> HIDE DEF arr, at, parts
  <2>1. mem \in Memory /\ arr \in Arrays /\ at \in Nat /\ parts \in Seq(Tokens)
    BY <1>4, <1>8, <1>9
  <2>2. IsStored(mem, arr, at, parts, Store(mem, arr, at, parts))
    BY <2>1, StoreFacts, Zenon
  <2>3. IsStored(mem, arr, at, parts, mem')
    BY <1>7, <2>2, Zenon
  <2> QED
    BY <2>3, Zenon DEF IsStored
<1>13. /\ split' \in [Workers -> [active : BOOLEAN, next : Nat, out : Slices]]
       /\ \A v \in Workers : v # w => split'[v] = split[v]
       /\ split'[w].active /\ split'[w].next = n + 1
       /\ split'[w].out.arr = arr /\ split'[w].out.len = at + Len(parts)
  <2> HIDE DEF parts
  <2> DEFINE l == Len(parts)
  <2>1. split \in Splittings /\ l \in Nat /\ split' = Advance(split, w, l)
    BY <1>4, <1>7, <1>11 DEF Shapes, Advance, Splittings
  <2> HIDE DEF l
  <2>2. /\ split' \in Splittings
        /\ \A v \in Workers : v # w => split'[v] = split[v]
        /\ split'[w].active = split[w].active /\ split'[w].next = split[w].next + 1
        /\ split'[w].out.arr = split[w].out.arr /\ split'[w].out.len = split[w].out.len + l
    <3> DEFINE q == split'
               sp == split
    <3>1. sp \in Splittings /\ l \in Nat /\ q = Advance(sp, w, l)
      BY <2>1
    <3> HIDE DEF q, sp
    <3>2. q \in Splittings
      BY <3>1, SplitUpdate
    <3>3. \A v \in Workers : v # w => q[v] = sp[v]
      BY <3>1, SplitUpdate
    <3>4. q[w].active = sp[w].active
      BY <3>1, SplitUpdate
    <3>5. q[w].next = sp[w].next + 1 /\ q[w].out.arr = sp[w].out.arr /\ q[w].out.len = sp[w].out.len + l
      BY <3>1, SplitUpdate
    <3> QED
      BY <3>2, <3>3, <3>4, <3>5 DEF q, sp
  <2> QED
    BY <1>1, <2>2 DEF l, Splittings
<1> HIDE DEF parts, arr, at, n, parr, line
<1>14. /\ \A a \in Arrays : Len(mem'[a]) <= MaxCap /\ Len(mem'[a]) = Len(mem[a])
       /\ \A a \in Arrays : a \notin SlotArrays(k) => mem'[a] = mem[a]
  <2>1. \A a \in Arrays : Len(mem[a]) <= MaxCap
    BY <1>4, RowBuffersAssumption DEF TypeOK
  <2> QED
    BY <1>10, <1>12, <2>1
<1>15. /\ primary[k].arr # 0 /\ primary[k].arr \in Arrays
       /\ primary[k].len = Len(line) /\ primary[k].len <= Len(mem[primary[k].arr])
  <2>1. primary[k].len = Len(line)
    BY <1>5 DEF SplitGood, line
  <2>2. primary[k].arr # 0
    BY <1>3, <1>8, <2>1 DEF SliceCap
  <2> QED
    BY <1>3, <2>1, <2>2, RowBuffersAssumption DEF SliceCap, Arrays
<1>16. /\ primary'[k].len <= SliceCap(primary[k])' /\ rich'[k].len <= SliceCap(rich[k])'
  <2>1. rich[k].arr # 0 => rich[k].arr \in Arrays
    BY <1>3, RowBuffersAssumption DEF Arrays
  <2>2. /\ rich[k].arr # 0 => Len(mem'[rich[k].arr]) = Len(mem[rich[k].arr])
        /\ Len(mem'[primary[k].arr]) = Len(mem[primary[k].arr])
    BY <1>14, <1>15, <2>1
  <2> QED
    BY <1>3, <1>7, <2>2 DEF SliceCap
<1>17. SlotArrays(k)' \subseteq SlotArrays(k)
  <2> DEFINE S == {split[v].out.arr : v \in {v \in Workers : split[v].active /\ row[v] = k}}
             T == {split'[v].out.arr : v \in {v \in Workers : split'[v].active /\ row'[v] = k}}
  <2>1. T \subseteq S
    <3>1. \A v \in Workers : split'[v].active /\ row'[v] = k
             => split[v].active /\ row[v] = k /\ split'[v].out.arr = split[v].out.arr
      BY <1>1, <1>7, <1>13 DEF arr
    <3> QED
      BY <3>1
  <2> HIDE DEF S, T
  <2>2. SlotArrays(k)' = ({primary[k].arr} \cup {rich[k].arr} \cup T) \ {0}
    BY <1>3, <1>7 DEF SlotArrays, T
  <2>3. SlotArrays(k) = ({primary[k].arr} \cup {rich[k].arr} \cup S) \ {0}
    BY <1>3 DEF SlotArrays, S
  <2> QED
    BY <2>1, <2>2, <2>3
<1>18. row'[w] = k /\ row' \in [Workers -> Nat]
  BY <1>2, <1>4, <1>7 DEF Shapes
<1>19. Local(w, k)
  BY <1>1, <1>4, <1>7, <1>9, <1>12, <1>13, <1>14, <1>16, <1>17, <1>18 DEF Local, Shapes
<1>20. \A i \in n .. Len(line) :
          mem[parr][i] = line[i] \/ mem[parr][i] \in Tokens \ Impure
  BY <1>5 DEF SplitGood, line, n, parr
<1>21. \A i \in n + 1 .. Len(line) :
          mem'[parr][i] = line[i] \/ mem'[parr][i] \in Tokens \ Impure
  <2> SUFFICES ASSUME NEW i \in n + 1 .. Len(line)
               PROVE  mem'[parr][i] = line[i] \/ mem'[parr][i] \in Tokens \ Impure
    OBVIOUS
  <2>1. i \in n .. Len(line) /\ i \in 1 .. Len(mem[parr])
    BY <1>8, <1>11, <1>15, <1>4 DEF parr, Memory
  <2>2. mem[parr][i] = line[i] \/ mem[parr][i] \in Tokens \ Impure
    BY <1>20, <2>1
  <2>3. CASE parr # arr
    BY <1>12, <1>15, <2>2, <2>3 DEF parr
  <2>4. CASE parr = arr /\ i \in at + 1 .. at + Len(parts)
    <3>1. mem'[parr][i] = parts[i - at]
      BY <1>12, <2>1, <2>4
    <3>2. i - at \in 1 .. Len(parts)
      BY <1>9, <1>11, <2>4
    <3>3. parts[i - at] \in Tokens /\ parts[i - at] \notin Impure
      BY <1>8, <3>2
    <3> QED
      BY <3>1, <3>3
  <2>5. CASE parr = arr /\ i \notin at + 1 .. at + Len(parts)
    BY <1>12, <2>1, <2>2, <2>5
  <2> QED
    BY <2>3, <2>4, <2>5
<1>22. /\ RichUpTo(line, n - 1) \in Seq(Tokens)
       /\ RichUpTo(line, n) = RichUpTo(line, n - 1) \o Parts(line[n])
  BY <1>8, <1>11, RichUpToFacts, n - 1 \in 0 .. Len(line)
<1>23. ASSUME arr # parr
       PROVE  /\ Content(primary[k])' = line
              /\ [j \in 1 .. at + Len(parts) |-> mem'[arr][j]] = RichUpTo(line, n)
  <2>1. Content(primary[k]) = line /\ Content(split[w].out) = RichUpTo(line, n - 1)
    BY <1>5, <1>23 DEF SplitGood, line, n, arr, parr
  <2>2. mem'[parr] = mem[parr]
    BY <1>12, <1>15, <1>23 DEF parr
  <2>3. Content(primary[k])' = line
    BY <1>7, <2>1, <2>2 DEF Content, parr
  <2>4. parts = Parts(line[n])
    <3>1. mem[parr][n] = line[n]
      BY <1>8, <1>11, <1>15, <2>1 DEF Content, parr
    <3> QED
      BY <3>1 DEF parts
  <2>5. at = Len(RichUpTo(line, n - 1)) /\ \A j \in 1 .. at : mem[arr][j] = RichUpTo(line, n - 1)[j]
    <3>1. Content(split[w].out) = [j \in 1 .. at |-> mem[arr][j]]
      BY DEF Content, at, arr
    <3>2. DOMAIN RichUpTo(line, n - 1) = 1 .. at
      BY <2>1, <3>1
    <3>3. at = Len(RichUpTo(line, n - 1))
      BY <1>9, <1>22, <3>2
    <3> QED
      BY <2>1, <3>1, <3>3
  <2>6. \A j \in 1 .. at + Len(parts) : j \in 1 .. Len(mem[arr])
    <3>1. at + Len(parts) <= Len(mem[arr]) /\ Len(mem[arr]) \in Nat
      BY <1>4, <1>8, <1>9, <1>11 DEF Memory
    <3> QED
      BY <1>9, <1>11, <3>1
  <2>7. \A j \in 1 .. at + Len(parts) : mem'[arr][j] = RichUpTo(line, n)[j]
    <3> SUFFICES ASSUME NEW j \in 1 .. at + Len(parts)
                 PROVE  mem'[arr][j] = RichUpTo(line, n)[j]
      OBVIOUS
    <3>1. CASE j \in 1 .. at
      <4>1. mem'[arr][j] = mem[arr][j]
        BY <1>9, <1>12, <2>6, <3>1
      <4>2. RichUpTo(line, n)[j] = RichUpTo(line, n - 1)[j]
        BY <1>8, <1>22, <2>4, <2>5, <3>1
      <4> QED
        BY <2>5, <3>1, <4>1, <4>2
    <3>2. CASE j \in at + 1 .. at + Len(parts)
      <4>1. mem'[arr][j] = parts[j - at]
        BY <1>12, <2>6, <3>2
      <4>2. RichUpTo(line, n)[j] = Parts(line[n])[j - at]
        BY <1>8, <1>9, <1>11, <1>22, <2>4, <2>5, <3>2
      <4> QED
        BY <2>4, <4>1, <4>2
    <3> QED
      BY <1>9, <1>11, <3>1, <3>2
  <2>8. RichUpTo(line, n) = [j \in 1 .. at + Len(parts) |-> RichUpTo(line, n)[j]]
    BY <1>8, <1>22, <2>4, <2>5
  <2> QED
    BY <2>3, <2>7, <2>8
<1>24. SplitGood(k, split[w])'
  <2>1. /\ lines'[k] = line /\ RichRow(lines[k])' = RichRow(line)
        /\ RichUpTo(lines[k], split[w].next - 1)' = RichUpTo(line, n)
    <3>1. split'[w].next - 1 = n /\ lines'[k] = line
      BY <1>7, <1>8, <1>11, <1>13 DEF line
    <3> QED
      BY <3>1 DEF RichUpTo, RichRow
  <2>2. SliceCap(split[w].out)' = Len(mem[arr]) /\ SliceCap(split[w].out) = Len(mem[arr])
    BY <1>9, <1>12, <1>13 DEF SliceCap, arr
  <2>3. Content(split[w].out)' = [j \in 1 .. at + Len(parts) |-> mem'[arr][j]]
    BY <1>13 DEF Content
  <2>4. primary'[k] = primary[k] /\ primary[k].arr = parr /\ primary[k].len = Len(line)
    BY <1>7, <1>15 DEF parr
  <2>5. RichRow(line) # line
    BY <1>5 DEF SplitGood, line
  <2>6. n + 1 \in 1 .. Len(line) + 1
    BY <1>8, <1>11
  <2> QED
    BY <1>8, <1>13, <1>21, <1>23, <2>1, <2>2, <2>3, <2>4, <2>5, <2>6 DEF SplitGood
<1>25. RowGood(w, k)'
  BY <1>1, <1>3, <1>7, <1>13, <1>18, <1>24 DEF RowGood, HasRich
<1> QED
  BY <1>1, <1>2, <1>19, <1>25, LocalStep

\* The split's slice becomes the rich row.
LEMMA EndSplitStep ==
    ASSUME RowInv, NEW w \in Workers, EndSplit(w)
    PROVE  RowInv'
<1>1. /\ w \in Active /\ ~RowDone(w) /\ pc = "retok" /\ mode = "retok"
      /\ split[w].active /\ split[w].out.arr # 0
  BY DEF EndSplit, RowInv, Control, Splits
<1>2. PICK k : row[w] = k
  OBVIOUS
<1>3. /\ k \in Nat /\ k \in DOMAIN primary /\ k \in DOMAIN rich /\ k \in 1 .. numLines
      /\ k \in MyRows(w) /\ lines[k] \in Seq(Tokens)
      /\ primary[k] \in Slices /\ primary[k].arr \in 0 .. NumArrays
  BY <1>1, <1>2, WorkerAt
<1>4. TypeOK /\ Shapes /\ mem \in Memory
  BY DEF RowInv, Shapes
<1>5. SplitGood(k, split[w])
  BY <1>1, <1>2, <1>3 DEF RowInv, RowsGood, RowGood
<1>6. PICK out \in Slices : split[w].out = out
  BY <1>4 DEF Shapes
<1>7. /\ split[w].next > primary[k].len
      /\ rich' = [rich EXCEPT ![k] = out]
      /\ split' = [split EXCEPT ![w] = Whole]
      /\ mem' = Collect(mem, primary, rich', split')
      /\ row' = [row EXCEPT ![w] = @ + 1]
      /\ UNCHANGED <<primary, lines, mode, shards, pc, parses>>
  BY <1>2, <1>6 DEF EndSplit
<1>8. out.arr \in Arrays /\ out.arr # 0 /\ out.arr \in SlotArrays(k) /\ out.len \in Nat
  <2>1. out.arr \in Arrays /\ out.arr # 0 /\ out.len \in Nat
    BY <1>1, <1>6, RowBuffersAssumption DEF Slices, Arrays
  <2> QED
    BY <1>1, <1>2, <1>6, <2>1 DEF SlotArrays
<1>9. /\ Len(lines[k]) \in Nat /\ primary[k].len = Len(lines[k])
      /\ split[w].next - 1 = Len(lines[k])
      /\ RichUpTo(lines[k], Len(lines[k])) = RichRow(lines[k])
      /\ out.len <= Len(RichRow(lines[k])) /\ Len(RichRow(lines[k])) <= Len(mem[out.arr])
      /\ Len(RichRow(lines[k])) \in Nat
  <2>1. /\ Len(lines[k]) \in Nat /\ primary[k].len = Len(lines[k])
        /\ split[w].next \in 1 .. Len(lines[k]) + 1
    BY <1>3, <1>5 DEF SplitGood
  <2>2. split[w].next - 1 = Len(lines[k])
    BY <1>7, <2>1
  <2>3. RichUpTo(lines[k], Len(lines[k])) = RichRow(lines[k]) /\ RichRow(lines[k]) \in Seq(Tokens)
    BY <1>3, <2>1, RichUpToFacts, Len(lines[k]) \in 0 .. Len(lines[k])
  <2>4. /\ out.len <= Len(RichUpTo(lines[k], split[w].next - 1))
        /\ Len(RichRow(lines[k])) <= SliceCap(out)
    BY <1>5, <1>6 DEF SplitGood
  <2>5. SliceCap(out) = Len(mem[out.arr])
    BY <1>8 DEF SliceCap
  <2> QED
    BY <2>1, <2>2, <2>3, <2>4, <2>5
<1>10. /\ rich' \in Seq(Slices) /\ Len(rich') = Len(rich)
       /\ DOMAIN rich' = DOMAIN rich
       /\ rich'[k] = out
       /\ \A j \in DOMAIN rich : j # k => rich'[j] = rich[j]
  BY <1>3, <1>4, <1>7 DEF Shapes
<1>11. /\ mem' \in Memory
       /\ \A a \in Arrays \cap Live(primary', rich', split') : mem'[a] = mem[a]
       /\ \A a \in Arrays : Len(mem'[a]) <= Len(mem[a])
  BY <1>4, <1>7, CollectFacts
<1>12. \A a \in Arrays : Len(mem'[a]) <= MaxCap
  <2>1. \A a \in Arrays : Len(mem'[a]) \in Nat /\ Len(mem[a]) \in 0 .. MaxCap
    BY <1>4, <1>11 DEF Memory, TypeOK
  <2> QED
    BY <1>11, <2>1, RowBuffersAssumption
<1>13. mem'[out.arr] = mem[out.arr]
  <2>1. out.arr \in Live(primary', rich', split')
    BY <1>3, <1>10, Zenon DEF Live
  <2> QED
    BY <1>8, <1>11, <2>1
<1>14. rich'[k].len <= SliceCap(rich[k])'
  <2>1. out.len <= Len(mem[out.arr]) /\ SliceCap(rich[k])' = Len(mem'[out.arr])
    <3>1. SliceCap(rich[k])' = Len(mem'[out.arr])
      BY <1>8, <1>10 DEF SliceCap
    <3>2. Len(mem[out.arr]) \in Nat
      BY <1>4, <1>8 DEF Memory
    <3> QED
      BY <1>8, <1>9, <3>1, <3>2
  <2> QED
    BY <1>10, <1>13, <2>1
<1>15. primary'[k].len <= SliceCap(primary[k])'
  <2>1. primary[k].arr # 0 => mem'[primary[k].arr] = mem[primary[k].arr]
    <3>1. primary[k].arr # 0 => primary[k].arr \in Arrays
      BY <1>3, RowBuffersAssumption DEF Arrays
    <3>2. primary[k].arr \in Live(primary', rich', split')
      BY <1>3, <1>7, Zenon DEF Live
    <3> QED
      BY <1>11, <3>1, <3>2
  <2>2. primary[k].len <= IF primary[k].arr = 0 THEN 0 ELSE Len(mem'[primary[k].arr])
    BY <1>3, <1>4, <1>11, <2>1, KeptSlice
  <2> QED
    BY <1>7, <2>2 DEF SliceCap
<1>16. /\ row' \in [Workers -> Nat] /\ row'[w] = k + 1
       /\ \A v \in Workers : v # w => row'[v] = row[v] /\ split'[v] = split[v]
       /\ split'[w] = Whole
       /\ split' \in [Workers -> [active : BOOLEAN, next : Nat, out : Slices]]
  <2>1. Whole \in [active : BOOLEAN, next : Nat, out : Slices]
    BY RowBuffersAssumption DEF Whole, NoSlice, Slices
  <2> QED
    BY <1>2, <1>3, <1>4, <1>7, <2>1 DEF Shapes
<1>17. SlotArrays(k)' \subseteq SlotArrays(k)
  <2> DEFINE S == {split[v].out.arr : v \in {v \in Workers : split[v].active /\ row[v] = k}}
             T == {split'[v].out.arr : v \in {v \in Workers : split'[v].active /\ row'[v] = k}}
  <2>1. T \subseteq S
    <3>1. \A v \in Workers : split'[v].active /\ row'[v] = k
             => split[v].active /\ row[v] = k /\ split'[v].out.arr = split[v].out.arr
      BY <1>16 DEF Whole
    <3> QED
      BY <3>1
  <2> HIDE DEF S, T
  <2>2. SlotArrays(k)' = ({primary[k].arr} \cup {out.arr} \cup T) \ {0}
    BY <1>3, <1>7, <1>10 DEF SlotArrays, T
  <2>3. ({primary[k].arr} \cup S) \ {0} \subseteq SlotArrays(k)
    BY <1>3 DEF SlotArrays, S
  <2> QED
    BY <1>8, <2>1, <2>2, <2>3
<1>18. \A a \in Live(primary, rich, split) \cap Live(primary', rich', split') :
          a \in Arrays \ SlotArrays(k) => mem'[a] = mem[a]
  BY <1>11
<1>19. Local(w, k)
  BY <1>4, <1>7, <1>10, <1>11, <1>12, <1>14, <1>15, <1>16, <1>17, <1>18 DEF Local, Shapes
<1>20. RichGood(k)'
  <2>1. /\ RichSlice(k)' = out /\ Content(RichSlice(k))' = Content(rich[k])'
        /\ RichRow(lines[k])' = RichRow(lines[k]) /\ lines'[k] = lines[k]
    BY <1>1, <1>7, <1>10 DEF RichSlice, Content, RichRow
  <2>2. CASE out.arr = primary[k].arr
    <3>1. RichRow(lines[k]) # lines[k]
      BY <1>5 DEF SplitGood
    <3> QED
      BY <1>1, <1>7, <1>10, <2>1, <2>2, <3>1 DEF RichGood, SplitInPlace
  <2>3. CASE out.arr # primary[k].arr
    <3>1. Content(out) = RichRow(lines[k])
      BY <1>5, <1>6, <1>9, <2>3 DEF SplitGood
    <3>2. Content(rich[k])' = Content(out)
      BY <1>10, <1>13 DEF Content
    <3> QED
      BY <2>1, <3>1, <3>2 DEF RichGood
  <2> QED
    BY <2>2, <2>3
<1>21. RowGood(w, k)'
  <2>1. pc' = "retok" /\ row'[w] = k + 1 /\ ~(k + 1 < k) /\ k + 1 # k
    BY <1>1, <1>3, <1>7, <1>16
  <2> QED
    BY <1>20, <2>1 DEF RowGood, HasRich
<1> QED
  BY <1>1, <1>2, <1>19, <1>21, LocalStep

-----------------------------------------------------------------------------
\* A step of the caller that only moves on.
LEMMA CallerStay ==
    ASSUME RowInv, UNCHANGED <<mem, primary, rich, lines, mode, shards, row, split, parses>>,
           \A v \in Workers : ~split[v].active,
           pc' \in {"grouped", "rich"}, pc # "idle",
           pc' = "rich" /\ mode \in {"retok", "full"} => numLines <= Len(rich),
           \A w \in Active : \A k \in MyRows(w) : RowGood(w, k)'
    PROVE  RowInv'
<1>1. TypeOK'
  BY DEF RowInv, TypeOK, SliceCap
<1>2. Shapes'
  BY DEF RowInv, Shapes
<1>3. /\ numLines' = numLines /\ Active' = Active /\ \A v : MyRows(v)' = MyRows(v)
      /\ \A j : SlotArrays(j)' = SlotArrays(j)
  BY DEF numLines, Active, MyRows, SlotArrays
<1>4. Control'
  BY <1>3 DEF RowInv, Control, RichRow
<1>5. Splits'
  BY DEF RowInv, Splits
<1>6. RowsApart'
  BY <1>3 DEF RowInv, RowsApart
<1>7. RowsGood'
  BY <1>3 DEF RowsGood
<1> QED
  BY <1>1, <1>2, <1>4, <1>5, <1>6, <1>7 DEF RowInv

\* A worker that is done is past its rows.
LEMMA DonePast ==
    ASSUME RowInv, pc # "idle", AllDone, NEW w \in Active, NEW k \in MyRows(w)
    PROVE  k < row[w] /\ w \in Workers
<1>1. w \in Workers /\ k \in 1 .. numLines /\ numLines \in Nat
      /\ ShardLo(numLines, shards, w) \in Nat /\ ShardHi(numLines, shards, w) \in Nat
  BY WorkersFacts DEF RowInv
<1>2. row[w] \in Nat /\ row[w] > ShardHi(numLines, shards, w)
  BY <1>1 DEF RowInv, Shapes, AllDone, RowDone
<1> QED
  BY <1>1, <1>2 DEF MyRows, ShardRows

\* The primary rows are whole when the groups are computed.
LEMMA GroupStep ==
    ASSUME RowInv, Group
    PROVE  RowInv'
<1>1. /\ pc = "tokenize" /\ AllDone /\ pc' = "grouped"
      /\ UNCHANGED <<mem, primary, rich, lines, mode, shards, row, split, parses>>
  BY DEF Group
<1>2. \A v \in Workers : ~split[v].active
  BY <1>1 DEF RowInv, Splits
<1>3. ASSUME NEW w \in Active, NEW k \in MyRows(w)
      PROVE  RowGood(w, k)'
  <2>1. PrimaryGood(k)
    BY <1>1, DonePast DEF RowInv, RowsGood, RowGood
  <2>2. PrimaryGood(k)'
    BY <1>1, <2>1 DEF PrimaryGood, Content
  <2> QED
    BY <1>1, <2>2 DEF RowGood, HasRich
<1> QED
  BY <1>1, <1>2, <1>3, CallerStay

\* Without rich rows of their own the primary rows are read.
LEMMA SkipRichStep ==
    ASSUME RowInv, SkipRich
    PROVE  RowInv'
<1>1. /\ pc = "grouped" /\ mode \in {"none", "same"} /\ pc' = "rich"
      /\ UNCHANGED <<mem, primary, rich, lines, mode, shards, row, split, parses>>
  BY DEF SkipRich
<1>2. \A v \in Workers : ~split[v].active
  BY <1>1 DEF RowInv, Splits
<1>3. ASSUME NEW w \in Active, NEW k \in MyRows(w)
      PROVE  RowGood(w, k)'
  <2>1. PrimaryGood(k) /\ k \in 1 .. numLines
    BY <1>1, WorkersFacts DEF RowInv, RowsGood, RowGood
  <2>2. mode = "same" => RichRow(lines[k]) = lines[k]
    BY <2>1 DEF RowInv, Control
  <2>3. (mode = "same" => RichGood(k))'
    <3>1. Content(primary[k])' = Content(primary[k]) /\ RichRow(lines[k])' = RichRow(lines[k])
      BY <1>1 DEF Content, RichRow
    <3>2. mode = "same" => Content(RichSlice(k))' = Content(primary[k])
      BY <1>1, <3>1 DEF RichSlice, Content
    <3> QED
      BY <1>1, <2>1, <2>2, <3>1, <3>2 DEF RichGood, PrimaryGood
  <2> QED
    BY <1>1, <2>3 DEF RowGood, HasRich
<1> QED
  BY <1>1, <1>2, <1>3, CallerStay

\* The rich rows are whole, or split in place, when they are read.
LEMMA ReadRichStep ==
    ASSUME RowInv, ReadRich
    PROVE  RowInv'
<1>1. /\ pc \in {"retok", "full"} /\ AllDone /\ pc' = "rich" /\ mode = pc
      /\ UNCHANGED <<mem, primary, rich, lines, mode, shards, row, split, parses>>
  BY DEF ReadRich, RowInv, Control
<1>2. \A v \in Workers : ~split[v].active
  BY <1>1 DEF RowInv, Splits, AllDone
<1>3. ASSUME NEW w \in Active, NEW k \in MyRows(w)
      PROVE  RowGood(w, k)'
  <2>1. RichGood(k)
    BY <1>1, DonePast DEF RowInv, RowsGood, RowGood
  <2>2. RichGood(k)'
    BY <1>1, <2>1 DEF RichGood, RichSlice, SplitInPlace, Content, RichRow
  <2> QED
    BY <1>1, <2>2 DEF RowGood, HasRich
<1>4. numLines <= Len(rich)
  BY <1>1 DEF RowInv, Control
<1> QED
  BY <1>1, <1>2, <1>3, <1>4, CallerStay

-----------------------------------------------------------------------------
\* Every header of table u is table t's at its place, or empty.
Within(u, t) == \A j \in DOMAIN u : u[j] = NoSlice \/ (j \in DOMAIN t /\ u[j] = t[j])

\* A table resliced to k rows holds them, in slices it had or in none.
LEMMA TableResized ==
    ASSUME NEW t \in Seq(Slices), Len(t) <= MaxLines, NEW k \in 0 .. MaxLines
    PROVE  /\ Table(t, k) \in Seq(Slices) /\ Len(Table(t, k)) <= MaxLines
           /\ k <= Len(Table(t, k))
           /\ Within(Table(t, k), t)
<1>1. NoSlice \in Slices /\ k \in Nat
  BY RowBuffersAssumption DEF NoSlice, Slices
<1>2. CASE Len(t) < k
  <2> DEFINE u == [j \in 1 .. k |-> NoSlice]
  <2>1. u \in Seq(Slices) /\ Len(u) = k /\ DOMAIN u = 1 .. k
    BY <1>1
  <2>2. \A j \in DOMAIN u : u[j] = NoSlice
    BY <2>1
  <2>3. Table(t, k) = u
    BY <1>2 DEF Table
  <2> HIDE DEF u
  <2> QED
    BY <1>1, <2>1, <2>2, <2>3, RowBuffersAssumption DEF Within
<1>3. CASE ~(Len(t) < k)
  BY <1>1, <1>3 DEF Table, Within
<1> QED
  BY <1>2, <1>3

\* Reslicing the tables, with no split under way, takes arrays from rows and
\* gives them none.
LEMMA TablesStep ==
    ASSUME RowInv, \A v \in Workers : ~split[v].active, split' = split,
           primary' \in Seq(Slices), Len(primary') <= MaxLines, Within(primary', primary),
           rich' \in Seq(Slices), Len(rich') <= MaxLines, Within(rich', rich),
           mem' = Collect(mem, primary', rich', split')
    PROVE  /\ mem' \in Memory /\ DOMAIN mem' = Arrays
           /\ \A a \in Arrays : Len(mem'[a]) \in 0 .. MaxCap
           /\ \A k \in DOMAIN primary' : /\ primary'[k].arr \in 0 .. NumArrays
                                         /\ primary'[k].len \in 0 .. SliceCap(primary[k])'
           /\ \A k \in DOMAIN rich' : /\ rich'[k].arr \in 0 .. NumArrays
                                      /\ rich'[k].len \in 0 .. SliceCap(rich[k])'
           /\ RowsApart'
           /\ primary' = primary => \A k \in DOMAIN primary :
                                       Content(primary[k])' = Content(primary[k])
<1>1. TypeOK /\ Shapes /\ mem \in Memory
  BY DEF RowInv, Shapes
<1>2. /\ mem' \in Memory /\ DOMAIN mem' = Arrays
      /\ \A a \in Arrays \cap Live(primary', rich', split') : mem'[a] = mem[a]
      /\ \A a \in Arrays : Len(mem'[a]) <= Len(mem[a])
  BY <1>1, CollectFacts DEF Memory
<1>3. \A a \in Arrays : Len(mem'[a]) \in 0 .. MaxCap
  <2>1. \A a \in Arrays : Len(mem'[a]) \in Nat /\ Len(mem[a]) \in 0 .. MaxCap
    BY <1>1, <1>2 DEF Memory, TypeOK
  <2> QED
    BY <1>2, <2>1, RowBuffersAssumption
<1>4. /\ primary \in Seq(Slices) /\ rich \in Seq(Slices)
      /\ \A j \in DOMAIN primary' : primary'[j].arr \in 0 .. NumArrays
      /\ \A j \in DOMAIN rich' : rich'[j].arr \in 0 .. NumArrays
  BY <1>1, TableFacts DEF Shapes
<1>5. /\ \A j \in DOMAIN primary' : primary'[j].arr # 0 =>
            primary'[j].arr \in Arrays /\ mem'[primary'[j].arr] = mem[primary'[j].arr]
      /\ \A j \in DOMAIN rich' : rich'[j].arr # 0 =>
            rich'[j].arr \in Arrays /\ mem'[rich'[j].arr] = mem[rich'[j].arr]
  <2>1. /\ \A j \in DOMAIN primary' : primary'[j].arr \in Live(primary', rich', split')
        /\ \A j \in DOMAIN rich' : rich'[j].arr \in Live(primary', rich', split')
    BY Zenon DEF Live
  <2>2. \A a \in 0 .. NumArrays : a # 0 => a \in Arrays
    BY RowBuffersAssumption DEF Arrays
  <2> QED
    BY <1>2, <1>4, <2>1, <2>2
<1>6. \A k \in DOMAIN primary' : /\ primary'[k].arr \in 0 .. NumArrays
                                 /\ primary'[k].len \in 0 .. SliceCap(primary[k])'
  <2> SUFFICES ASSUME NEW k \in DOMAIN primary'
               PROVE  primary'[k].len \in 0 .. IF primary'[k].arr = 0 THEN 0
                                               ELSE Len(mem'[primary'[k].arr])
    BY <1>4 DEF SliceCap
  <2>1. CASE primary'[k] = NoSlice
    BY <2>1 DEF NoSlice
  <2>2. CASE k \in DOMAIN primary /\ primary'[k] = primary[k]
    <3>1. primary[k].len \in 0 .. SliceCap(primary[k])
      BY <1>1, <2>2 DEF TypeOK
    <3>2. primary[k].arr # 0 => mem'[primary[k].arr] = mem[primary[k].arr]
      BY <1>5, <2>2
    <3> QED
      BY <2>2, <3>1, <3>2 DEF SliceCap
  <2> QED
    BY <2>1, <2>2 DEF Within
<1>7. \A k \in DOMAIN rich' : /\ rich'[k].arr \in 0 .. NumArrays
                              /\ rich'[k].len \in 0 .. SliceCap(rich[k])'
  <2> SUFFICES ASSUME NEW k \in DOMAIN rich'
               PROVE  rich'[k].len \in 0 .. IF rich'[k].arr = 0 THEN 0
                                            ELSE Len(mem'[rich'[k].arr])
    BY <1>4 DEF SliceCap
  <2>1. CASE rich'[k] = NoSlice
    BY <2>1 DEF NoSlice
  <2>2. CASE k \in DOMAIN rich /\ rich'[k] = rich[k]
    <3>1. rich[k].len \in 0 .. SliceCap(rich[k])
      BY <1>1, <2>2 DEF TypeOK
    <3>2. rich[k].arr # 0 => mem'[rich[k].arr] = mem[rich[k].arr]
      BY <1>5, <2>2
    <3> QED
      BY <2>2, <3>1, <3>2 DEF SliceCap
  <2> QED
    BY <2>1, <2>2 DEF Within
<1>8. RowsApart'
  <2>1. ASSUME NEW j
        PROVE  /\ SlotArrays(j)' \subseteq SlotArrays(j)
               /\ SlotArrays(j)' # {} => j \in DOMAIN primary \cup DOMAIN rich
    <3>1. \A v \in Workers : ~split'[v].active
      OBVIOUS
    <3>2. j \in DOMAIN primary' /\ primary'[j].arr # 0
             => j \in DOMAIN primary /\ primary'[j] = primary[j]
      BY DEF Within, NoSlice
    <3>3. j \in DOMAIN rich' /\ rich'[j].arr # 0
             => j \in DOMAIN rich /\ rich'[j] = rich[j]
      BY DEF Within, NoSlice
    <3> QED
      BY <3>1, <3>2, <3>3 DEF SlotArrays
  <2> SUFFICES ASSUME NEW j, NEW l, j # l
               PROVE  SlotArrays(j)' \cap SlotArrays(l)' = {}
    BY DEF RowsApart
  <2>2. j \in DOMAIN primary \cup DOMAIN rich /\ l \in DOMAIN primary \cup DOMAIN rich
           => SlotArrays(j) \cap SlotArrays(l) = {}
    BY DEF RowInv, RowsApart
  <2> QED
    BY <2>1, <2>2
<1>9. ASSUME primary' = primary
      PROVE  \A k \in DOMAIN primary : Content(primary[k])' = Content(primary[k])
  <2> TAKE k \in DOMAIN primary
  <2>1. primary[k].arr # 0 => mem'[primary[k].arr] = mem[primary[k].arr]
    BY <1>5, <1>9
  <2>2. [i \in 1 .. primary[k].len |-> mem'[primary[k].arr][i]] = Content(primary[k])
    BY <1>1, <1>2, <2>1, KeptSlice
  <2> QED
    BY <1>9, <2>2 DEF Content
<1> QED
  BY <1>2, <1>3, <1>6, <1>7, <1>8, <1>9

\* Where the workers of a fan-out start.
LEMMA StartFacts ==
    ASSUME NEW n \in Nat \ {0}, NEW s \in 1 .. MaxWorkers
    PROVE  /\ StartRows(n, s) \in [Workers -> Nat]
           /\ \A w \in ShardIds(n, s) :
                 /\ StartRows(n, s)[w] \in ShardLo(n, s, w) + 1 .. ShardHi(n, s, w) + 1
                 /\ \A k \in ShardRows(n, s, w) : ~(k < StartRows(n, s)[w])
<1>1. s \in Nat \ {0} /\ s <= MaxWorkers /\ MaxWorkers \in Nat
  BY RowBuffersAssumption
<1>2. ASSUME NEW w \in ShardIds(n, s)
      PROVE  /\ w \in Workers /\ ShardLo(n, s, w) \in Nat /\ ShardHi(n, s, w) \in Nat
             /\ ShardLo(n, s, w) + 1 <= ShardHi(n, s, w) + 1
  <2>1. w < s /\ ShardRows(n, s, w) # {} /\ w \in Nat
    BY <1>1, ShardsBounded DEF ShardIds
  <2>2. Chunk(n, s) \in Nat
    BY <1>1, ChunkCovers
  <2>3. w * Chunk(n, s) \in Nat
    BY <2>1, <2>2
  <2>4. ShardLo(n, s, w) \in Nat /\ ShardHi(n, s, w) \in Nat
    BY <2>2, <2>3 DEF ShardLo, ShardHi
  <2>5. ShardLo(n, s, w) + 1 <= ShardHi(n, s, w)
    BY <2>1, <2>4 DEF ShardRows
  <2> QED
    BY <1>1, <2>1, <2>4, <2>5 DEF Workers
<1>3. StartRows(n, s) \in [Workers -> Nat]
  BY <1>2 DEF StartRows
<1>4. ASSUME NEW w \in ShardIds(n, s)
      PROVE  /\ StartRows(n, s)[w] \in ShardLo(n, s, w) + 1 .. ShardHi(n, s, w) + 1
             /\ \A k \in ShardRows(n, s, w) : ~(k < StartRows(n, s)[w])
  <2>1. StartRows(n, s)[w] = ShardLo(n, s, w) + 1
    BY <1>2 DEF StartRows
  <2> QED
    BY <1>2, <2>1 DEF ShardRows
<1> QED
  BY <1>3, <1>4

\* The rich table is sized while nothing is being split.
LEMMA BeginRichStep ==
    ASSUME RowInv, BeginRich
    PROVE  RowInv'
<1>1. /\ pc = "grouped" /\ mode \in {"retok", "full"} /\ pc' = mode
      /\ rich' = Table(rich, numLines)
      /\ mem' = Collect(mem, primary, rich', split)
      /\ row' = StartRows(numLines, shards)
      /\ UNCHANGED <<primary, lines, mode, shards, split, parses>>
  BY DEF BeginRich
<1>2. TypeOK /\ Shapes /\ \A v \in Workers : ~split[v].active /\ split[v] = Whole
  BY <1>1 DEF RowInv, Splits
<1>3. /\ numLines \in Nat \ {0} /\ numLines \in 0 .. MaxLines /\ numLines <= Len(primary)
      /\ shards \in 1 .. MaxWorkers
  <2>1. numLines \in Nat \ {0} /\ numLines <= Len(primary) /\ numLines <= MaxLines
    BY <1>1, WorkersFacts DEF RowInv, Control, Shapes, numLines
  <2> QED
    BY <1>2, <2>1, RowBuffersAssumption DEF TypeOK
<1>4. /\ rich' \in Seq(Slices) /\ Len(rich') <= MaxLines /\ numLines <= Len(rich')
      /\ Within(rich', rich)
  BY <1>1, <1>2, <1>3, TableResized DEF Shapes
<1>5. primary' \in Seq(Slices) /\ Len(primary') <= MaxLines /\ Within(primary', primary)
  BY <1>1, <1>2 DEF Shapes, Within
<1>6. /\ mem' \in Memory /\ DOMAIN mem' = Arrays
      /\ \A a \in Arrays : Len(mem'[a]) \in 0 .. MaxCap
      /\ \A k \in DOMAIN primary' : /\ primary'[k].arr \in 0 .. NumArrays
                                    /\ primary'[k].len \in 0 .. SliceCap(primary[k])'
      /\ \A k \in DOMAIN rich' : /\ rich'[k].arr \in 0 .. NumArrays
                                 /\ rich'[k].len \in 0 .. SliceCap(rich[k])'
      /\ RowsApart'
      /\ \A k \in DOMAIN primary : Content(primary[k])' = Content(primary[k])
  BY <1>1, <1>2, <1>4, <1>5, TablesStep
<1>7. TypeOK'
  <2>1. /\ pc' \in {"idle", "tokenize", "grouped", "retok", "full", "rich"}
        /\ shards' \in 1 .. MaxWorkers /\ mode' \in Modes \cup {"none"}
        /\ \A k \in DOMAIN lines' : lines'[k] \in Lines
        /\ parses' \in 0 .. MaxParses
    BY <1>1, <1>2 DEF TypeOK
  <2>2. \A t \in {primary', rich'} : \A k \in DOMAIN t :
          /\ t[k].arr \in 0 .. NumArrays
          /\ t[k].len \in 0 .. (IF t[k].arr = 0 THEN 0 ELSE Len(mem'[t[k].arr]))
    BY <1>6 DEF SliceCap
  <2> QED
    BY <1>6, <2>1, <2>2 DEF TypeOK, SliceCap
<1>8. /\ row' \in [Workers -> Nat]
      /\ \A w \in Active : /\ row'[w] \in ShardLo(numLines, shards, w) + 1
                                            .. ShardHi(numLines, shards, w) + 1
                           /\ \A k \in MyRows(w) : ~(k < row'[w])
  BY <1>1, <1>3, StartFacts DEF Active, MyRows
<1>9. Shapes'
  BY <1>1, <1>2, <1>4, <1>5, <1>6, <1>8 DEF Shapes
<1>10. numLines' = numLines /\ Active' = Active /\ \A v : MyRows(v)' = MyRows(v)
  BY <1>1 DEF numLines, Active, MyRows
<1>11. Control'
  BY <1>1, <1>3, <1>4, <1>8, <1>10 DEF Control
<1>12. Splits'
  BY <1>1, <1>2 DEF Splits
<1>13. RowsGood'
  <2> SUFFICES ASSUME NEW w \in Active, NEW k \in MyRows(w)
               PROVE  RowGood(w, k)'
    BY <1>10 DEF RowsGood
  <2>1. PrimaryGood(k) /\ k \in 1 .. numLines /\ w \in Workers
    BY <1>1, WorkersFacts DEF RowInv, RowsGood, RowGood
  <2>2. k \in DOMAIN primary
    BY <1>2, <1>3, <2>1, TableFacts DEF Shapes
  <2>3. PrimaryGood(k)'
    BY <1>1, <1>6, <2>1, <2>2 DEF PrimaryGood
  <2>4. ~(k < row'[w]) /\ ~split'[w].active
    BY <1>1, <1>2, <1>8, <2>1
  <2> QED
    BY <1>1, <2>3, <2>4 DEF RowGood, HasRich
<1> QED
  BY <1>6, <1>7, <1>9, <1>11, <1>12, <1>13 DEF RowInv

\* A parse begins with tables that hold its rows, from the buffers of the last.
LEMMA CallStep ==
    ASSUME RowInv, NEW n \in 1 .. MaxLines, NEW md \in Modes, NEW s \in 1 .. MaxWorkers,
           NEW ls \in Injection(1 .. n, Lines), Call(ls, md, s)
    PROVE  RowInv'
<1>1. ls \in Seq(Lines) /\ Len(ls) = n /\ n \in Nat \ {0} /\ n \in 0 .. MaxLines
  <2>1. ls \in [1 .. n -> Lines] /\ n \in Nat \ {0}
    BY RowBuffersAssumption DEF Injection
  <2> QED
    BY <2>1
<1>2. /\ pc = "idle" /\ parses < MaxParses /\ parses' = parses + 1
      /\ md = "same" => \A k \in DOMAIN ls : RichRow(ls[k]) = ls[k]
      /\ lines' = ls /\ mode' = md /\ shards' = s
      /\ primary' = Table(primary, n)
      /\ mem' = Collect(mem, primary', rich, split)
      /\ row' = StartRows(n, s)
      /\ pc' = "tokenize"
      /\ UNCHANGED <<rich, split>>
  BY <1>1 DEF Call
<1>3. TypeOK /\ Shapes /\ \A v \in Workers : ~split[v].active /\ split[v] = Whole
  BY <1>2 DEF RowInv, Splits
<1>4. /\ primary' \in Seq(Slices) /\ Len(primary') <= MaxLines /\ n <= Len(primary')
      /\ Within(primary', primary)
  BY <1>1, <1>2, <1>3, TableResized DEF Shapes
<1>5. rich' \in Seq(Slices) /\ Len(rich') <= MaxLines /\ Within(rich', rich)
  BY <1>2, <1>3 DEF Shapes, Within
<1>6. /\ mem' \in Memory /\ DOMAIN mem' = Arrays
      /\ \A a \in Arrays : Len(mem'[a]) \in 0 .. MaxCap
      /\ \A k \in DOMAIN primary' : /\ primary'[k].arr \in 0 .. NumArrays
                                    /\ primary'[k].len \in 0 .. SliceCap(primary[k])'
      /\ \A k \in DOMAIN rich' : /\ rich'[k].arr \in 0 .. NumArrays
                                 /\ rich'[k].len \in 0 .. SliceCap(rich[k])'
      /\ RowsApart'
  BY <1>2, <1>3, <1>4, <1>5, TablesStep
<1>7. TypeOK'
  <2>1. /\ pc' \in {"idle", "tokenize", "grouped", "retok", "full", "rich"}
        /\ shards' \in 1 .. MaxWorkers /\ mode' \in Modes \cup {"none"}
    BY <1>2
  <2>2. parses' \in 0 .. MaxParses
    BY <1>2, <1>3, RowBuffersAssumption DEF TypeOK
  <2>3. \A k \in DOMAIN lines' : lines'[k] \in Lines
    BY <1>1, <1>2
  <2>4. \A t \in {primary', rich'} : \A k \in DOMAIN t :
          /\ t[k].arr \in 0 .. NumArrays
          /\ t[k].len \in 0 .. (IF t[k].arr = 0 THEN 0 ELSE Len(mem'[t[k].arr]))
    BY <1>6 DEF SliceCap
  <2> QED
    BY <1>6, <2>1, <2>2, <2>3, <2>4 DEF TypeOK, SliceCap
<1>8. numLines' = n /\ Active' = ShardIds(n, s) /\ \A w : MyRows(w)' = ShardRows(n, s, w)
  BY <1>1, <1>2 DEF numLines, Active, MyRows
<1>9. /\ row' \in [Workers -> Nat]
      /\ \A w \in ShardIds(n, s) : /\ row'[w] \in ShardLo(n, s, w) + 1 .. ShardHi(n, s, w) + 1
                                   /\ \A k \in ShardRows(n, s, w) : ~(k < row'[w])
  BY <1>1, <1>2, StartFacts
<1>10. Shapes'
  BY <1>1, <1>2, <1>3, <1>4, <1>5, <1>6, <1>9 DEF Shapes
<1>11. Control'
  <2>1. mode' = "same" => \A k \in 1 .. n : RichRow(ls[k]) = ls[k]
    BY <1>1, <1>2
  <2>2. n \in 1 .. Len(primary')
    BY <1>1, <1>4
  <2> QED
    BY <1>2, <1>8, <1>9, <2>1, <2>2 DEF Control, RichRow
<1>12. Splits'
  BY <1>2, <1>3 DEF Splits
<1>13. RowsGood'
  BY <1>2, <1>8, <1>9 DEF RowsGood, RowGood, HasRich
<1> QED
  BY <1>6, <1>7, <1>10, <1>11, <1>12, <1>13 DEF RowInv

\* The buffers keep their tables when a parse returns.
LEMMA ReturnStep ==
    ASSUME RowInv, Return
    PROVE  RowInv'
<1>1. /\ pc = "rich" /\ pc' = "idle" /\ lines' = <<>> /\ mode' = "none" /\ shards' = 1
      /\ row' = [w \in Workers |-> 0]
      /\ UNCHANGED <<mem, primary, rich, split, parses>>
  BY DEF Return
<1>2. TypeOK /\ Shapes /\ \A v \in Workers : ~split[v].active /\ split[v] = Whole
  BY <1>1 DEF RowInv, Splits
<1>3. numLines' = 0 /\ Active' = {}
  BY <1>1 DEF numLines, Active, ShardIds
<1>4. TypeOK'
  <2>1. 1 \in 1 .. MaxWorkers
    BY RowBuffersAssumption
  <2> QED
    BY <1>1, <1>2, <2>1 DEF TypeOK, SliceCap
<1>5. Shapes'
  <2>1. lines' \in Seq(Lines) /\ Len(lines') <= MaxLines
    BY <1>1, RowBuffersAssumption
  <2> QED
    BY <1>1, <1>2, <2>1 DEF Shapes
<1>6. Control' /\ Splits' /\ RowsGood'
  BY <1>1, <1>2, <1>3 DEF Control, Splits, RowsGood
<1>7. RowsApart'
  <2>1. \A j : SlotArrays(j)' = SlotArrays(j)
    BY <1>1, <1>2 DEF SlotArrays
  <2> QED
    BY <1>1, <2>1 DEF RowInv, RowsApart
<1> QED
  BY <1>4, <1>5, <1>6, <1>7 DEF RowInv
-----------------------------------------------------------------------------
\* Fresh buffers satisfy the invariant.
LEMMA RowInvInit ==
    ASSUME Init
    PROVE  RowInv
<1>1. /\ mem = [a \in Arrays |-> <<>>] /\ primary = <<>> /\ rich = <<>> /\ lines = <<>>
      /\ mode = "none" /\ shards = 1 /\ pc = "idle"
      /\ row = [w \in Workers |-> 0] /\ split = [w \in Workers |-> Whole] /\ parses = 0
  BY DEF Init
<1>2. numLines = 0 /\ Active = {} /\ DOMAIN primary = {} /\ DOMAIN rich = {}
  BY <1>1 DEF numLines, Active, ShardIds
<1>3. TypeOK
  <2>1. 1 \in 1 .. MaxWorkers /\ 0 \in 0 .. MaxParses /\ 0 \in 0 .. MaxCap
    BY RowBuffersAssumption
  <2> QED
    BY <1>1, <1>2, <2>1 DEF TypeOK
<1>4. Shapes
  <2>1. Whole \in [active : BOOLEAN, next : Nat, out : Slices]
    BY RowBuffersAssumption DEF Whole, NoSlice, Slices
  <2>2. MaxLines \in Nat
    BY RowBuffersAssumption
  <2> QED
    BY <1>1, <2>1, <2>2 DEF Shapes, Memory
<1>5. Control /\ RowsGood /\ RowsApart
  BY <1>1, <1>2 DEF Control, RowsGood, RowsApart
<1>6. Splits
  BY <1>1 DEF Splits, Whole
<1> QED
  BY <1>3, <1>4, <1>5, <1>6 DEF RowInv

\* Every step preserves it.
LEMMA RowInvStep ==
    ASSUME RowInv, [Next]_vars
    PROVE  RowInv'
<1>1. CASE UNCHANGED vars
  <2>1. /\ numLines' = numLines /\ Active' = Active /\ HasRich' = HasRich
        /\ \A v : MyRows(v)' = MyRows(v) /\ RowDone(v)' = RowDone(v)
        /\ \A j : SlotArrays(j)' = SlotArrays(j)
    BY <1>1 DEF vars, numLines, Active, MyRows, RowDone, SlotArrays, HasRich
  <2>2. TypeOK' /\ Shapes' /\ Control' /\ Splits' /\ RowsApart'
    BY <1>1, <2>1 DEF vars, RowInv, TypeOK, SliceCap, Shapes, Control, Splits, RowsApart, RichRow
  <2>3. RowsGood'
    <3> SUFFICES ASSUME NEW w \in Active, NEW k \in MyRows(w)
                 PROVE  RowGood(w, k)'
      BY <2>1 DEF RowsGood
    <3>1. RowGood(w, k)
      BY DEF RowInv, RowsGood
    <3>2. UNCHANGED <<mem, primary, rich, lines, mode, pc, row, split>>
      BY <1>1 DEF vars
    <3>3. \A j : /\ PrimaryGood(j)' = PrimaryGood(j)
                 /\ RichGood(j)' = RichGood(j) /\ SplitGood(j, split[w])' = SplitGood(j, split[w])
      BY <3>2 DEF PrimaryGood, RichGood, SplitGood, SplitInPlace,
                  RichSlice, Content, SliceCap, RichRow, RichUpTo
    <3> QED
      BY <2>1, <3>1, <3>2, <3>3 DEF RowGood
  <2> QED
    BY <2>2, <2>3 DEF RowInv
<1>2. ASSUME NEW n \in 1 .. MaxLines, NEW md \in Modes, NEW s \in 1 .. MaxWorkers,
             NEW ls \in Injection(1 .. n, Lines), Call(ls, md, s)
      PROVE  RowInv'
  BY <1>2, CallStep
<1>3. ASSUME NEW w \in Workers, WorkerStep(w)
      PROVE  RowInv'
  BY <1>3, TokenizeRowStep, TokenizeRichStep, KeepRowStep, BeginSplitStep, SplitTokenStep,
     EndSplitStep DEF WorkerStep
<1>4. CASE CallerStep
  BY <1>4, GroupStep, BeginRichStep, SkipRichStep, ReadRichStep, ReturnStep DEF CallerStep
<1> QED
  BY <1>1, <1>2, <1>3, <1>4 DEF Next

\* Every state of every sequence of parses satisfies the invariant.
THEOREM RowsInvariant == Spec => []RowInv
<1>1. Init => RowInv
  BY RowInvInit
<1>2. RowInv /\ [Next]_vars => RowInv'
  BY RowInvStep
<1> QED
  BY <1>1, <1>2, PTL DEF Spec

(* The heap, the tables and the parse in progress are of their types:        *)
(* slices reach no further than their arrays.                               *)
THEOREM RowTypes == Spec => []TypeOK
<1>1. RowInv => TypeOK
  BY DEF RowInv
<1> QED
  BY <1>1, RowsInvariant, PTL

(* When internRows and groupByAnchorTokens read the primary rows, each is    *)
(* its line's tokens, for any history of the buffers (parseWithBuffers).    *)
THEOREM PrimaryRowsExact == Spec => []PrimaryExact
<1>1. RowInv => PrimaryExact
  <2> SUFFICES ASSUME RowInv, pc = "grouped", NEW k \in 1 .. numLines
               PROVE  Content(primary[k]) = lines[k]
    BY DEF PrimaryExact
  <2>1. PICK w \in Active : k \in MyRows(w)
    BY WorkersFacts DEF RowInv
  <2> QED
    BY <2>1 DEF RowInv, RowsGood, RowGood, PrimaryGood
<1> QED
  BY <1>1, RowsInvariant, PTL

(* "Rows are written to disjoint slots": no array is reachable from two rows *)
(* and no two goroutines are at one row, in any interleaving of the fan-outs*)
(* (tokenizeRows, retokenizeRows), although rich rows may share the arrays  *)
(* of their primary rows.                                                   *)
THEOREM NoRaces == Spec => []NoDataRace
<1>1. RowInv => NoDataRace
  <2> SUFFICES ASSUME RowInv
               PROVE  NoDataRace
    OBVIOUS
  <2>1. ASSUME NEW v \in Active, NEW w \in Active, v # w, ~RowDone(v), ~RowDone(w)
        PROVE  row[v] # row[w]
    <3>1. pc # "idle"
      BY <2>1, WorkerAt
    <3>2. row[v] \in MyRows(v) /\ row[w] \in MyRows(w) /\ MyRows(v) \cap MyRows(w) = {}
      BY <2>1, <3>1, WorkersFacts DEF RowInv
    <3> QED
      BY <3>2
  <2> QED
    BY <2>1 DEF RowInv, RowsApart, NoDataRace
<1> QED
  BY <1>1, RowsInvariant, PTL

(* The count retokenizeMessageInto makes before its loop is enough for it,   *)
(* even when the loop reads tokens it has itself overwritten.               *)
THEOREM NoSplitOutgrows == Spec => []PresizeFits
<1>1. RowInv => PresizeFits
  <2> SUFFICES ASSUME RowInv, NEW w \in Workers, split[w].active,
                      split[w].next <= primary[row[w]].len
               PROVE  split[w].out.len
                        + Len(Parts(mem[primary[row[w]].arr][split[w].next]))
                            <= SliceCap(split[w].out)
    BY DEF PresizeFits
  <2>1. w \in Active /\ ~RowDone(w) /\ pc = "retok" /\ TypeOK /\ Shapes
    BY DEF RowInv, Splits
  <2>2. PICK k : row[w] = k
    OBVIOUS
  <2>3. k \in MyRows(w) /\ lines[k] \in Seq(Tokens)
    BY <2>1, <2>2, WorkerAt
  <2>4. SplitGood(k, split[w]) /\ split[w].out \in Slices
    BY <2>1, <2>2, <2>3 DEF RowInv, RowsGood, RowGood, Shapes
  <2> DEFINE parts == Parts(mem[primary[k].arr][split[w].next])
             a == split[w].out.len
             b == Len(RichUpTo(lines[k], split[w].next))
             c == Len(RichRow(lines[k]))
             d == SliceCap(split[w].out)
  <2>5. a + Len(parts) <= b /\ b <= c /\ c <= d /\ b \in Nat /\ c \in Nat /\ parts \in Seq(Tokens)
    BY <2>1, <2>2, <2>3, <2>4, SplitFits
  <2>6. a \in Nat /\ d \in Nat
    <3>1. split[w].out.arr # 0
      BY DEF RowInv, Splits
    <3>2. split[w].out.arr \in Arrays /\ a \in Nat
      BY <2>4, <3>1, RowBuffersAssumption DEF Slices, Arrays
    <3> QED
      BY <2>1, <3>1, <3>2 DEF SliceCap, Shapes, Memory
  <2>7. Len(parts) \in Nat
    BY <2>5
  <2> HIDE DEF parts, a, b, c, d
  <2>8. a + Len(parts) <= d
    BY <2>5, <2>6, <2>7
  <2> QED
    BY <2>2, <2>8 DEF parts, a, d
<1> QED
  BY <1>1, RowsInvariant, PTL

(* A rich row that comes out wrong was split in the array of its own primary *)
(* row (retokenizeMessageInto with a destination an earlier parse aliased): *)
(* every other row a parse reads is its line's expansion.                   *)
THEOREM OnlyInPlaceSplitsGoWrong == Spec => []RichExactUnlessInPlace
<1>1. RowInv => RichExactUnlessInPlace
  <2> SUFFICES ASSUME RowInv, HasRich, NEW k \in 1 .. numLines
               PROVE  RichGood(k)
    BY DEF RichExactUnlessInPlace, RichGood
  <2>1. PICK w \in Active : k \in MyRows(w)
    BY WorkersFacts DEF RowInv, HasRich
  <2> QED
    BY <2>1 DEF RowInv, RowsGood, RowGood
<1> QED
  BY <1>1, RowsInvariant, PTL
=============================================================================
