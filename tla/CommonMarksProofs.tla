------------------------- MODULE CommonMarksProofs -------------------------
(***************************************************************************)
(* The common set of CommonMarks is exact for every width of the epochs,   *)
(* every vocabulary and every number of rows, as long as no clear left a   *)
(* mark behind.                                                            *)
(***************************************************************************)
EXTENDS CommonMarks, TLAPS

USE CommonMarksAssumption DEF CommonMarksAssumption

\* A conversion gives a word, and keeps a number that is one.
LEMMA U32Word ==
    ASSUME NEW n \in Int
    PROVE  U32(n) \in Word /\ (n \in Word => U32(n) = n)
  BY DEF U32, Word

\* What parse admits leaves room in the epochs, and a clear is due when they
\* run out: the test itself does not wrap.
THEOREM TestIsExact ==
    ASSUME NEW k \in Nat \ {0}, Admitted(k), NEW b \in Word
    PROVE  /\ k + 1 <= MaxU32
           /\ U32(k) = k
           /\ NeedsClear(b, k) <=> b + k + 1 > MaxU32
<1>1. k <= MaxU32 \div 2
  BY DEF Admitted
<1>2. k + k <= MaxU32
  BY <1>1
<1>3. k + 1 <= MaxU32 /\ k \in Word
  BY <1>2 DEF Word
<1>4. U32(k) = k
  BY <1>3, U32Word
<1>5. MaxU32 - k \in Word /\ MaxU32 - k - 1 \in Word
  BY <1>3 DEF Word
<1>6. Minus(Minus(MaxU32, k), 1) = MaxU32 - k - 1
  BY <1>5, U32Word DEF Minus, Word
<1> QED
  BY <1>3, <1>4, <1>6 DEF NeedsClear, Word

\* A fresh ParseBuffers has its types.
LEMMA InitTypeOK == Init => TypeOK
<1> SUFFICES ASSUME Init PROVE TypeOK
  OBVIOUS
<1>1. rows \in [1 .. nrows -> SUBSET (0 .. numIDs - 1)]
  BY DEF Init
<1>2. mark \in [Ids -> Word]
  BY DEF Init, Word
<1>3. alive \in BOOLEAN /\ tail \in BOOLEAN
  BY DEF Init
<1>4. /\ cap \in 0 .. MaxIDs /\ base \in Word /\ numIDs \in 0 .. cap
      /\ nrows \in 0 .. MaxRows /\ i \in 0 .. MaxRows /\ final \in Word
      /\ pc \in {"idle", "first", "rows", "ready"}
  BY DEF Init, Word
<1> QED
  BY <1>1, <1>2, <1>3, <1>4 DEF TypeOK

(* Every variable keeps its type in every behaviour.                       *)
THEOREM TypeCorrect == Spec => []TypeOK
<1>1. Init => TypeOK
  BY InitTypeOK
<1>2. TypeOK /\ [Next]_vars => TypeOK'
  <2> SUFFICES ASSUME TypeOK, [Next]_vars PROVE TypeOK'
    OBVIOUS
  <2>1. ASSUME NEW n \in 1 .. MaxIDs, NEW k \in 1 .. MaxRows,
               NEW rs \in [1 .. k -> SUBSET (0 .. n - 1)], Enter(n, k, rs)
        PROVE  TypeOK'
    <3>1. mark' \in [Ids -> Word]
      <4>1. \/ mark' = [id \in Ids |-> 0]
            \/ mark' = mark
            \/ mark' = ClearVisible(mark, n)
        BY <2>1 DEF Enter, Short
      <4>2. ClearVisible(mark, n) \in [Ids -> Word]
        BY DEF ClearVisible, TypeOK, Word
      <4>3. [id \in Ids |-> 0] \in [Ids -> Word]
        BY DEF Word
      <4> QED
        BY <4>1, <4>2, <4>3 DEF TypeOK
    <3>2. cap' \in 0 .. MaxIDs /\ n <= cap'
      <4>1. cap' = n \/ (cap' = cap /\ ~(cap < n))
        BY <2>1 DEF Enter, Short
      <4> QED
        BY <4>1 DEF TypeOK
    <3>3. base' \in Word
      <4>1. base' = 0 \/ base' = base
        BY <2>1 DEF Enter, Short
      <4> QED
        BY <4>1 DEF TypeOK, Word
    <3>4. alive' \in BOOLEAN /\ tail' \in BOOLEAN
      BY <2>1 DEF Enter, TypeOK, Short
    <3>5. numIDs' = n /\ nrows' = k /\ rows' = rs /\ i' = 0 /\ pc' = "first" /\ final' = final
      BY <2>1 DEF Enter, Short
    <3>6. numIDs' \in 0 .. cap' /\ nrows' \in 0 .. MaxRows /\ i' \in 0 .. MaxRows /\ final' \in Word
      BY <3>2, <3>5 DEF TypeOK
    <3> QED
      BY <3>1, <3>2, <3>3, <3>4, <3>5, <3>6 DEF TypeOK
  <2>2. CASE FirstRow
    <3>1. Plus(base, 1) \in Word
      BY U32Word DEF Plus, TypeOK, Word
    <3>2. mark' \in [Ids -> Word]
      BY <2>2, <3>1 DEF FirstRow, TypeOK
    <3>3. alive' \in BOOLEAN
      BY <2>2 DEF FirstRow
    <3>4. /\ pc' = "rows" /\ i' = 1 /\ nrows' = nrows
          /\ UNCHANGED <<cap, base, numIDs, rows, nrows, final, tail>>
      BY <2>2 DEF FirstRow
    <3>5. i' \in 0 .. MaxRows
      BY <2>2 DEF FirstRow
    <3> QED
      BY <3>2, <3>3, <3>4, <3>5 DEF TypeOK
  <2>3. CASE NextRow
    <3>1. /\ Plus(base, U32(i)) \in Word
          /\ Plus(Plus(base, U32(i)), 1) \in Word
      <4>1. i \in Int /\ base \in Int
        BY DEF TypeOK, Word
      <4>2. U32(i) \in Int
        BY <4>1, U32Word DEF Word
      <4>3. Plus(base, U32(i)) \in Word
        BY <4>1, <4>2, U32Word DEF Plus
      <4> QED
        BY <4>3, U32Word DEF Plus, Word
    <3>2. mark' \in [Ids -> Word]
      BY <2>3, <3>1 DEF NextRow, TypeOK
    <3>3. alive' \in BOOLEAN
      BY <2>3 DEF NextRow
    <3>4. i' \in 0 .. MaxRows
      BY <2>3 DEF NextRow, TypeOK
    <3>5. UNCHANGED <<cap, base, numIDs, rows, nrows, final, pc, tail>>
      BY <2>3 DEF NextRow
    <3> QED
      BY <3>2, <3>3, <3>4, <3>5 DEF TypeOK
  <2>4. CASE Leave
    <3>1. Plus(Plus(base, U32(nrows)), 1) \in Word /\ Plus(base, U32(i)) \in Word
      <4>1. i \in Int /\ base \in Int /\ nrows \in Int
        BY DEF TypeOK, Word
      <4>2. U32(i) \in Int /\ U32(nrows) \in Int
        BY <4>1, U32Word DEF Word
      <4>3. Plus(base, U32(i)) \in Word /\ Plus(base, U32(nrows)) \in Word
        BY <4>1, <4>2, U32Word DEF Plus
      <4> QED
        BY <4>3, U32Word DEF Plus, Word
    <3>2. base' \in Word /\ final' \in Word /\ pc' = "ready"
      BY <2>4, <3>1 DEF Leave, Reserve
    <3>3. UNCHANGED <<mark, cap, numIDs, rows, nrows, i, alive, tail>>
      BY <2>4 DEF Leave, Reserve
    <3> QED
      BY <3>2, <3>3 DEF TypeOK
  <2>5. CASE UNCHANGED vars
    BY <2>5 DEF vars, TypeOK
  <2> QED
    BY <2>1, <2>2, <2>3, <2>4, <2>5 DEF Next
<1> QED
  BY <1>1, <1>2, PTL DEF Spec

-----------------------------------------------------------------------------
\* A uint32 addition that stays below the limit is an addition.
LEMMA PlusIsSum ==
    ASSUME NEW a \in Nat, NEW b \in Nat, a + b <= MaxU32
    PROVE  Plus(a, b) = a + b
  BY U32Word DEF Plus, Word

\* One more row can only shrink the intersection.
LEMMA CommonToNext ==
    ASSUME TypeOK, NEW k \in Nat, k + 1 <= nrows
    PROVE  CommonTo(k + 1) = CommonTo(k) \cap rows[k + 1]
<1>1. 1 .. k + 1 = (1 .. k) \cup {k + 1}
  OBVIOUS
<1>2. \A id : (\A r \in 1 .. k + 1 : id \in rows[r])
              <=> (\A r \in 1 .. k : id \in rows[r]) /\ id \in rows[k + 1]
  BY <1>1
<1> QED
  BY <1>2 DEF CommonTo

\* The intersection of more rows is within that of fewer.
LEMMA CommonToShrinks ==
    ASSUME NEW j \in Nat, NEW k \in Nat, j <= k
    PROVE  CommonTo(k) \subseteq CommonTo(j)
  BY DEF CommonTo

\* The first row is its own intersection.
LEMMA CommonToFirst ==
    ASSUME TypeOK, nrows >= 1
    PROVE  CommonTo(1) = rows[1]
<1>1. 1 .. 1 = {1}
  OBVIOUS
<1>2. rows[1] \subseteq 0 .. numIDs - 1
  BY DEF TypeOK
<1> QED
  BY <1>1, <1>2 DEF CommonTo

\* The prelude of a call leaves no mark above base unless one is hidden.
LEMMA EnterKeepsInv ==
    ASSUME Inv, TypeOK', NEW n \in 1 .. MaxIDs, NEW k \in 1 .. MaxRows,
           NEW rs \in [1 .. k -> SUBSET (0 .. n - 1)], Admitted(k), Enter(n, k, rs)
    PROVE  Inv'
<1>1. pc' = "first" /\ nrows' = k
  BY DEF Enter, Short
<1>2. base' + nrows' + 1 <= MaxU32
  <2>1. base' = 0 \/ (base' = base /\ ~NeedsClear(base, k))
    BY DEF Enter, Short
  <2>2. base \in Word /\ k \in Nat \ {0}
    BY DEF Inv, TypeOK
  <2>3. k + 1 <= MaxU32 /\ (NeedsClear(base, k) <=> base + k + 1 > MaxU32)
    BY <2>2, TestIsExact
  <2> QED
    BY <1>1, <2>1, <2>2, <2>3 DEF Word
<1>3. ASSUME ~tail', NEW id \in Ids PROVE mark'[id] <= base'
  <2>1. CASE mark' = [x \in Ids |-> 0] /\ base' = 0
    BY <2>1
  <2>2. CASE UNCHANGED <<mark, base, tail>>
    <3>1. pc \in {"idle", "ready"} /\ ~tail
      BY <1>3, <2>2 DEF Enter, Short
    <3> QED
      BY <2>2, <3>1 DEF Inv, MarksFollowEpoch
  <2>3. CASE base' = 0 /\ tail' = (\E x \in Ids : mark'[x] # 0)
    BY <1>3, <2>3
  <2> QED
    BY <2>1, <2>2, <2>3 DEF Enter, Short
<1>4. MarksFollowEpoch'
  BY <1>1, <1>3 DEF MarksFollowEpoch
<1> QED
  BY <1>1, <1>2, <1>4 DEF Inv, ExactUnlessTail

\* The first row's marks are exactly the ones that hold base + 1.
LEMMA FirstRowKeepsInv ==
    ASSUME Inv, TypeOK', FirstRow
    PROVE  Inv'
<1>1. pc = "first" /\ pc' = "rows" /\ i' = 1 /\ nrows >= 1
      /\ UNCHANGED <<base, numIDs, rows, nrows, tail>>
  BY DEF FirstRow, Inv
<1>2. Plus(base, 1) = base + 1
  <2>1. base \in Nat /\ base + 1 <= MaxU32
    BY <1>1 DEF Inv, TypeOK, Word
  <2> QED
    BY <2>1, PlusIsSum
<1>3. mark' = [id \in Ids |-> IF id \in rows[1] THEN base + 1 ELSE mark[id]]
      /\ alive' = (\E id \in rows[1] : mark[id] # base + 1)
  BY <1>2 DEF FirstRow
<1>4. CommonTo(1)' = rows[1]
  <2>1. CommonTo(1) = rows[1]
    BY <1>1, CommonToFirst DEF Inv
  <2>2. CommonTo(1)' = CommonTo(1)
    BY <1>1 DEF CommonTo
  <2> QED
    BY <2>1, <2>2
<1>5. rows[1] \subseteq Ids
  BY <1>1 DEF Inv, TypeOK, Ids
<1>6. ASSUME ~tail' PROVE
        /\ \A id \in Ids : mark'[id] <= base' + 1
        /\ \A id \in Ids : mark'[id] = base' + 1 <=> id \in rows[1]
        /\ alive' <=> rows[1] # {}
  <2>1. \A id \in Ids : mark[id] <= base /\ mark[id] \in Int /\ base \in Int
    BY <1>1, <1>6 DEF Inv, MarksFollowEpoch, TypeOK, Word
  <2>2. \A id \in Ids : mark[id] # base + 1
    BY <2>1
  <2>3. alive' <=> rows[1] # {}
    BY <1>3, <1>5, <2>2
  <2>4. \A id \in Ids : mark'[id] <= base' + 1 /\ (mark'[id] = base' + 1 <=> id \in rows[1])
    BY <1>1, <1>3, <2>1
  <2> QED
    BY <2>3, <2>4
<1>7. MarksFollowEpoch'
  BY <1>1, <1>4, <1>6 DEF MarksFollowEpoch
<1>8. base' + nrows' + 1 <= MaxU32
  BY <1>1 DEF Inv
<1>9. i' \in 1 .. nrows' /\ nrows' >= 1
  BY <1>1 DEF Inv, TypeOK
<1> QED
  BY <1>1, <1>7, <1>8, <1>9 DEF Inv, ExactUnlessTail

\* A later row's pass moves exactly the survivors to the next epoch.
LEMMA NextRowKeepsInv ==
    ASSUME Inv, TypeOK', NextRow
    PROVE  Inv'
<1>1. pc = "rows" /\ pc' = "rows" /\ i' = i + 1 /\ i \in 1 .. nrows /\ i < nrows
      /\ UNCHANGED <<base, numIDs, rows, nrows, tail>>
  BY DEF NextRow, Inv
<1>2. i \in Nat /\ base \in Nat /\ nrows \in Nat /\ base + i + 1 <= MaxU32
  BY <1>1 DEF Inv, TypeOK, Word
<1>3. /\ U32(i) = i
      /\ Plus(base, i) = base + i
      /\ Plus(base + i, 1) = base + i + 1
  BY <1>2, PlusIsSum, U32Word DEF Word
<1> DEFINE hit == {id \in rows[i + 1] : mark[id] = base + i}
<1>4. mark' = [id \in Ids |-> IF id \in hit THEN base + i + 1 ELSE mark[id]]
      /\ alive' = (hit # {})
  BY <1>3 DEF NextRow
<1>5. rows[i + 1] \subseteq Ids
  BY <1>1, <1>2 DEF Inv, TypeOK, Ids
<1>6. CommonTo(i)' = CommonTo(i) \cap rows[i + 1]
  <2>1. CommonTo(i + 1) = CommonTo(i) \cap rows[i + 1]
    BY <1>1, <1>2, CommonToNext DEF Inv
  <2>2. CommonTo(i)' = CommonTo(i + 1)
    BY <1>1 DEF CommonTo
  <2> QED
    BY <2>1, <2>2
<1>7. ASSUME ~tail' PROVE
        /\ \A id \in Ids : mark'[id] <= base' + i'
        /\ \A id \in Ids : mark'[id] = base' + i' <=> id \in hit
        /\ hit = CommonTo(i) \cap rows[i + 1]
  <2>1. \A id \in Ids : mark[id] <= base + i /\ (mark[id] = base + i <=> id \in CommonTo(i))
    BY <1>1, <1>7 DEF Inv, MarksFollowEpoch
  <2>2. \A id \in Ids : mark[id] \in Int
    BY DEF Inv, TypeOK, Word
  <2>3. hit = CommonTo(i) \cap rows[i + 1]
    BY <1>5, <2>1
  <2>4. \A id \in Ids : mark'[id] <= base' + i' /\ (mark'[id] = base' + i' <=> id \in hit)
    BY <1>1, <1>2, <1>4, <2>1, <2>2
  <2> QED
    BY <2>3, <2>4
<1>8. MarksFollowEpoch'
  <2> HIDE DEF hit
  <2>1. ASSUME ~tail' PROVE \A id \in Ids : mark'[id] = base' + i' <=> id \in CommonTo(i)'
    BY <1>6, <1>7, <2>1
  <2>2. ASSUME ~tail' PROVE alive' <=> CommonTo(i)' # {}
    BY <1>4, <1>6, <1>7, <2>2
  <2> QED
    BY <1>1, <1>7, <2>1, <2>2 DEF MarksFollowEpoch
<1>9. base' + nrows' + 1 <= MaxU32 /\ i' \in 1 .. nrows' /\ nrows' >= 1
  BY <1>1, <1>2 DEF Inv
<1> QED
  BY <1>1, <1>8, <1>9 DEF Inv, ExactUnlessTail

\* The reserved base is past every mark, and final names the survivors.
LEMMA LeaveKeepsInv ==
    ASSUME Inv, TypeOK', Leave
    PROVE  Inv'
<1>1. pc = "rows" /\ pc' = "ready" /\ i \in 1 .. nrows /\ nrows >= 1 /\ (i = nrows \/ ~alive)
      /\ UNCHANGED <<mark, numIDs, rows, nrows, i, alive, tail>>
  BY DEF Leave, Reserve, Inv
<1>2. i \in Nat /\ base \in Nat /\ nrows \in Nat /\ base + nrows + 1 <= MaxU32
  BY <1>1 DEF Inv, TypeOK, Word
<1>3. /\ U32(i) = i /\ U32(nrows) = nrows
      /\ Plus(base, i) = base + i
      /\ Plus(base, nrows) = base + nrows
      /\ Plus(base + nrows, 1) = base + nrows + 1
  BY <1>1, <1>2, PlusIsSum, U32Word DEF Word
<1>4. base' = base + nrows + 1 /\ final' = IF alive THEN base + i ELSE base'
  BY <1>3 DEF Leave, Reserve
<1>5. ASSUME ~tail' PROVE
        /\ \A id \in Ids : mark[id] <= base + i /\ mark[id] \in Int
        /\ \A id \in Ids : mark[id] = base + i <=> id \in CommonTo(i)
        /\ alive <=> CommonTo(i) # {}
  BY <1>1, <1>5 DEF Inv, MarksFollowEpoch, TypeOK, Word
<1>6. MarksFollowEpoch'
  BY <1>1, <1>2, <1>4, <1>5 DEF MarksFollowEpoch
<1>7. CommonTo(nrows)' = CommonTo(nrows)
  BY <1>1 DEF CommonTo
<1>8. 0 .. numIDs - 1 \subseteq Ids /\ CommonTo(i) \subseteq 0 .. numIDs - 1
  BY DEF Inv, TypeOK, Ids, CommonTo
<1>9. ASSUME ~tail' PROVE Shared' = CommonTo(nrows)'
  <2>1. Shared' = {id \in 0 .. numIDs - 1 : mark[id] = final'}
    BY <1>1 DEF Shared
  <2>2. CASE alive
    <3>1. i = nrows /\ final' = base + i
      BY <1>1, <1>4, <2>2
    <3>2. {id \in 0 .. numIDs - 1 : mark[id] = final'} = CommonTo(i)
      BY <1>5, <1>8, <1>9, <3>1
    <3> QED
      BY <1>7, <2>1, <3>1, <3>2
  <2>3. CASE ~alive
    <3>1. CommonTo(nrows) = {}
      <4>1. CommonTo(i) = {}
        BY <1>5, <1>9, <2>3
      <4> QED
        BY <1>1, <1>2, <4>1, CommonToShrinks
    <3>2. \A id \in Ids : mark[id] # final'
      BY <1>1, <1>2, <1>4, <1>5, <1>9, <2>3
    <3> QED
      BY <1>7, <1>8, <2>1, <3>1, <3>2
  <2> QED
    BY <2>2, <2>3
<1> QED
  BY <1>1, <1>6, <1>9 DEF Inv, ExactUnlessTail

(* The epochs of a call fit, older marks never reach the epoch in progress,  *)
(* and the set handed to the templates and the masks is exact, after any     *)
(* number of clusters and of parses that reuse the array.                    *)
THEOREM InvariantHolds == Spec => []Inv
<1>1. Init => Inv
  <2> SUFFICES ASSUME Init PROVE Inv
    OBVIOUS
  <2>1. \A id \in Ids : mark[id] <= base
    BY DEF Init
  <2>2. pc = "idle"
    BY DEF Init
  <2>3. TypeOK
    BY InitTypeOK
  <2> QED
    BY <2>1, <2>2, <2>3 DEF Inv, MarksFollowEpoch, ExactUnlessTail
<1>2. Inv /\ TypeOK' /\ [Next]_vars => Inv'
  <2> SUFFICES ASSUME Inv, TypeOK', [Next]_vars PROVE Inv'
    OBVIOUS
  <2>1. CASE UNCHANGED vars
    <3>1. UNCHANGED <<CommonTo(i), CommonTo(nrows), Shared>>
      BY <2>1 DEF vars, CommonTo, Shared
    <3> QED
      BY <2>1, <3>1 DEF vars, Inv, MarksFollowEpoch, ExactUnlessTail
  <2> QED
    BY <2>1, EnterKeepsInv, FirstRowKeepsInv, NextRowKeepsInv, LeaveKeepsInv DEF Next
<1> QED
  BY <1>1, <1>2, TypeCorrect, PTL DEF Spec

(* sharedSlices returns exactly the ids common to all rows, for every        *)
(* vocabulary and every number of rows, while no clear missed a mark.        *)
COROLLARY SharedIsExact == Spec => []ExactUnlessTail
  BY InvariantHolds, PTL DEF Inv

(* An older cluster's marks are never mistaken for the epoch in progress.    *)
COROLLARY OldMarksStayBehind == Spec => []MarksFollowEpoch
  BY InvariantHolds, PTL DEF Inv
=============================================================================
