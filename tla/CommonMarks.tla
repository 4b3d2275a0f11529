---------------------------- MODULE CommonMarks ----------------------------
(***************************************************************************)
(* The epoch-marked array by which sharedSlices (template.go) answers "is  *)
(* this token id a candidate token of every row of the cluster".  One      *)
(* array of uint32 marks serves every cluster of every parse that reuses   *)
(* the same ParseBuffers.  It is never rewritten between clusters: each    *)
(* call writes larger marks than the call before it, and the array is      *)
(* cleared only when the marks would overflow.                             *)
(*                                                                         *)
(* A row is the set of the ids of its candidate tokens (commonCandidate):  *)
(* the loops test and advance a mark once per id, whatever the order and   *)
(* the multiplicity of the tokens.  Only "count = 0" is ever asked of      *)
(* count, so the variable alive keeps that bit.                            *)
(***************************************************************************)
EXTENDS Integers

CONSTANTS
    MaxU32,   \* the largest uint32: 2^32 - 1 in the code
    MaxIDs,   \* bound on len(interner), the ids a parse can use
    MaxRows   \* bound on the rows of a cluster that a caller asks for

ASSUME CommonMarksAssumption ==
    /\ MaxU32 \in Nat
    /\ MaxIDs \in Nat
    /\ MaxRows \in Nat \ {0}

Word == 0 .. MaxU32
Ids == 0 .. MaxIDs - 1

\* Conversion to uint32, addition and subtraction in it.
U32(n) == n % (MaxU32 + 1)
Plus(a, b) == U32(a + b)
Minus(a, b) == U32(a - b)

\* A parse of any size.
AnySize(k) == TRUE
\* parse panics on more than math.MaxInt32 messages; a cluster's pattern rows
\* are among them.
Admitted(k) == k <= MaxU32 \div 2

VARIABLES
    mark,     \* the backing array of scratch.mark, 0 beyond cap
    cap,      \* cap(scratch.mark)
    base,     \* scratch.base
    numIDs,   \* len(scratch.mark): the ids of the current parse
    rows,     \* rows[k]: the candidate ids of the k-th row of this call
    nrows,    \* len(tokenized)
    i,        \* rows intersected so far
    alive,    \* count > 0
    final,    \* commonSet.final as returned
    pc,       \* "idle" | "first" | "rows" | "ready" (the set is in use)
    tail      \* history: the last clear missed a mark beyond numIDs

vars == <<mark, cap, base, numIDs, rows, nrows, i, alive, final, pc, tail>>

TypeOK ==
    /\ mark \in [Ids -> Word]
    /\ cap \in 0 .. MaxIDs
    /\ base \in Word
    /\ numIDs \in 0 .. cap
    /\ nrows \in 0 .. MaxRows
    /\ rows \in [1 .. nrows -> SUBSET (0 .. numIDs - 1)]
    /\ i \in 0 .. MaxRows
    /\ alive \in BOOLEAN
    /\ final \in Word
    /\ pc \in {"idle", "first", "rows", "ready"}
    /\ tail \in BOOLEAN

\* A fresh ParseBuffers: no array yet.
Init ==
    /\ mark = [id \in Ids |-> 0]
    /\ cap = 0
    /\ base = 0
    /\ numIDs = 0
    /\ rows = [k \in 1 .. 0 |-> {}]
    /\ nrows = 0
    /\ i = 0
    /\ alive = FALSE
    /\ final = 0
    /\ pc = "idle"
    /\ tail = FALSE
-----------------------------------------------------------------------------
\* A slice one id too short passes for long enough.
ShortByTwo(c, n) == c + 1 < n
\* cap(scratch.mark) < numIDs
Short(c, n) == c < n

\* The same question asked of a sum that has already wrapped.
WrappedSum(b, k) == Plus(Plus(b, U32(k)), 1) > MaxU32
\* Would k rows run past the last epoch from b?  The right side can wrap too.
NeedsClear(b, k) == b > Minus(Minus(MaxU32, U32(k)), 1)

\* clear(scratch.mark): the visible prefix of the array, nothing beyond it.
ClearVisible(m, n) == [id \in Ids |-> IF id < n THEN 0 ELSE m[id]]

\* The call's prelude: size the array for n ids, then restart the epochs if
\* this call's would overflow.
Enter(n, k, rs) ==
    /\ pc \in {"idle", "ready"}
    /\ numIDs' = n
    /\ nrows' = k
    /\ rows' = rs
    /\ \/ /\ Short(cap, n)
          /\ cap' = n
          /\ mark' = [id \in Ids |-> 0]
          /\ base' = 0
          /\ tail' = FALSE
       \/ /\ ~Short(cap, n)
          /\ ~NeedsClear(base, k)
          /\ UNCHANGED <<cap, mark, base, tail>>
       \/ /\ ~Short(cap, n)
          /\ NeedsClear(base, k)
          /\ mark' = ClearVisible(mark, n)
          /\ base' = 0
          /\ tail' = (\E id \in Ids : mark'[id] # 0)
          /\ UNCHANGED cap
    /\ i' = 0
    /\ alive' = FALSE
    /\ pc' = "first"
    /\ UNCHANGED final

\* The first row's candidates take the mark base + 1.
FirstRow ==
    /\ pc = "first"
    /\ LET epoch == Plus(base, 1)
       IN  /\ alive' = (\E id \in rows[1] : mark[id] # epoch)
           /\ mark' = [id \in Ids |-> IF id \in rows[1] THEN epoch ELSE mark[id]]
    /\ i' = 1
    /\ pc' = "rows"
    /\ UNCHANGED <<cap, base, numIDs, rows, nrows, final, tail>>

\* A later row advances the marks of the ids that survived the rows before.
NextRow ==
    /\ pc = "rows"
    /\ alive
    /\ i < nrows
    /\ LET epoch == Plus(base, U32(i))
           hit == {id \in rows[i + 1] : mark[id] = epoch}
       IN  /\ mark' = [id \in Ids |-> IF id \in hit THEN Plus(epoch, 1) ELSE mark[id]]
           /\ alive' = (hit # {})
    /\ i' = i + 1
    /\ UNCHANGED <<cap, base, numIDs, rows, nrows, final, pc, tail>>

\* One epoch for the whole call.
ReserveOne(b, k) == Plus(b, 1)
\* The base the next call starts from: past every epoch of k rows, and one more.
Reserve(b, k) == Plus(Plus(b, U32(k)), 1)

\* Reserve this call's epochs and return the set.
Leave ==
    /\ pc = "rows"
    /\ i = nrows \/ ~alive
    /\ base' = Reserve(base, nrows)
    /\ final' = IF alive THEN Plus(base, U32(i)) ELSE base'
    /\ pc' = "ready"
    /\ UNCHANGED <<mark, cap, numIDs, rows, nrows, i, alive, tail>>

Next ==
    \/ \E n \in 1 .. MaxIDs, k \in 1 .. MaxRows :
          /\ Admitted(k)
          /\ \E rs \in [1 .. k -> SUBSET (0 .. n - 1)] : Enter(n, k, rs)
    \/ FirstRow
    \/ NextRow
    \/ Leave

Spec == Init /\ [][Next]_vars
-----------------------------------------------------------------------------
\* commonSet.contains for every id of the parse.
Shared == {id \in 0 .. numIDs - 1 : mark[id] = final}

\* What the set should be: the ids that are candidates in each of k rows.
CommonTo(k) == {id \in 0 .. numIDs - 1 : \A r \in 1 .. k : id \in rows[r]}

(* sharedSlices "intersects the candidate tokens across all rows": the set  *)
(* it returns holds exactly the ids common to every row, whatever marks     *)
(* earlier clusters and earlier parses left behind.                         *)
Exact == pc = "ready" => Shared = CommonTo(nrows)

(* The same, for as long as no clear left a mark beyond the visible array.  *)
ExactUnlessTail == (pc = "ready" /\ ~tail) => Shared = CommonTo(nrows)

(* While no mark escaped a clear, every mark of the array, hidden ones      *)
(* included, is at most the epoch in progress; the marks that hold that     *)
(* epoch are the running intersection, and the loop goes on exactly while   *)
(* that is not empty: an older cluster cannot be mistaken for this one.     *)
MarksFollowEpoch ==
    ~tail =>
        /\ pc \in {"idle", "first", "ready"} => \A id \in Ids : mark[id] <= base
        /\ pc = "rows" =>
              /\ \A id \in Ids : mark[id] <= base + i
              /\ \A id \in Ids : mark[id] = base + i <=> id \in CommonTo(i)
              /\ alive <=> CommonTo(i) # {}

(* The inductive invariant: a call in progress has a row, its epochs do not *)
(* wrap, and the two above hold together.                                   *)
Inv ==
    /\ TypeOK
    /\ pc # "idle" => nrows >= 1
    /\ pc = "rows" => i \in 1 .. nrows
    /\ pc \in {"first", "rows"} => base + nrows + 1 <= MaxU32
    /\ MarksFollowEpoch
    /\ ExactUnlessTail
=============================================================================
