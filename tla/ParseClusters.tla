--------------------------- MODULE ParseClusters ---------------------------
(***************************************************************************)
(* Parser.parse and groupByAnchorTokens (parser.go): duplicates are         *)
(* removed, goroutines compute the anchor key of each unique row into the   *)
(* arena of their shard, the arenas are merged in row order into groups,    *)
(* the groups are sorted by key, and each group's cluster id, templates and *)
(* masks are scattered back to the lines.  The buffers survive the parse    *)
(* and start the next one with what this one left in them.                  *)
(*                                                                          *)
(* The key of a line is given with the request (any function of the lines): *)
(* Anchors models how a row's anchors are found.  Rows, positions and line  *)
(* indices count from 1 here, cluster ids from 0 as in the code.            *)
(***************************************************************************)
EXTENDS Integers, SequencesExt, Shards, SortedLists

CONSTANTS
    Messages,     \* the log lines
    Keys,         \* canonical anchor keys in byte order; 0 is the empty key
    MaxLines,     \* bound on the lines of a parse
    MaxWorkers,   \* GOMAXPROCS, and the bound on WithParallelism
    RowsPerWorker,\* parallelRowsPerWorker
    MaxParses,    \* bound on the parses that reuse one ParseBuffers
    Requests      \* the parses that may be asked for

VARIABLES
    request,      \* the arguments of the parse in progress
    workers,      \* workersFor(len(uniqueMsgs)): chosen once rows are known
    pc,           \* where the caller is
    next,         \* the line or row the caller's loop is at
    lineIndex,    \* buffers.lineIndex
    uniqueMsgs,   \* buffers.uniqueMsgs
    counts,       \* buffers.counts
    rowOf,        \* buffers.rowOf up to its capacity
    at,           \* at[w]: the row worker w is at
    arena,        \* arena[s]: the keys shard s has computed, in row order
    merged,       \* groupByAnchorTokens' map: key -> [rows, indices]
    rowGroup,     \* the group of each row, by its key
    todo,         \* the sorted groups still to be emitted
    cid,          \* the next cluster id
    rowPos,       \* buffers.rowPos up to its capacity
    clusters,     \* buffers.Clusters up to its capacity
    templates,    \* the templates so far
    masks,        \* buffers.Masks up to its capacity
    answer,       \* what the last parse returned
    parses        \* parses begun, for the bound

buffers == <<lineIndex, uniqueMsgs, counts, rowOf, rowPos, clusters, masks>>
locals == <<workers, next, at, arena, merged, rowGroup, todo, cid, templates>>
vars == <<request, pc, buffers, locals, answer, parses>>

Abstract == INSTANCE ClusterSpec WITH pending <- (pc # "idle")

ASSUME ParseClustersAssumption ==
    /\ 0 \in Keys /\ Keys \subseteq Nat
    /\ MaxLines \in Nat
    /\ MaxWorkers \in Nat \ {0}
    /\ RowsPerWorker \in Nat \ {0}
    /\ MaxParses \in Nat
    /\ Abstract!NoRequest \in Requests
    /\ \A r \in Requests : Abstract!IsRequest(r)

numLines == Len(request.lines)
numRows == Len(uniqueMsgs)
Workers == 0 .. MaxWorkers - 1
Active == ShardIds(numRows, workers)
Phases == {"idle", "called", "dedup", "keys", "merge", "index", "emit"}

TypeOK ==
    /\ request \in Requests
    /\ workers \in 1 .. MaxWorkers
    /\ pc \in Phases
    /\ next \in 1 .. MaxLines + 1
    /\ DOMAIN lineIndex \subseteq Messages
    /\ \A m \in DOMAIN lineIndex : lineIndex[m] \in 1 .. MaxLines
    /\ uniqueMsgs \in UNION {[1 .. k -> Messages] : k \in 0 .. MaxLines}
    /\ Len(counts) = numRows
    /\ \A k \in DOMAIN rowOf : rowOf[k] \in 0 .. MaxLines
    /\ \A k \in DOMAIN rowPos : rowPos[k] \in 0 .. MaxLines
    /\ at \in [Workers -> 1 .. MaxLines + 1]
    /\ DOMAIN merged \subseteq Keys
    /\ \A r \in DOMAIN rowGroup : rowGroup[r] \in DOMAIN merged
    /\ cid \in 0 .. MaxLines
    /\ parses \in 0 .. MaxParses

Init ==
    /\ request = Abstract!NoRequest
    /\ workers = 1
    /\ pc = "idle"
    /\ next = 1
    /\ lineIndex = <<>>
    /\ uniqueMsgs = <<>>
    /\ counts = <<>>
    /\ rowOf = <<>>
    /\ at = [w \in Workers |-> 1]
    /\ arena = [w \in Workers |-> <<>>]
    /\ merged = <<>>
    /\ rowGroup = <<>>
    /\ todo = <<>>
    /\ cid = 0
    /\ rowPos = <<>>
    /\ clusters = <<>>
    /\ templates = <<>>
    /\ masks = <<>>
    /\ answer = Abstract!NoAnswer
    /\ parses = 0
-----------------------------------------------------------------------------
\* New elements marked unset, as the cluster ids are.
EnsureUnset(buf, k) == IF Len(buf) < k THEN [j \in 1 .. k |-> -1] ELSE buf
\* ensureInt32Slice: the first k elements keep what they held.
EnsureInt32(buf, k) == IF Len(buf) < k THEN [j \in 1 .. k |-> 0] ELSE buf

\* A reuse that leaves the elements as they were.
EnsureNotReset(buf, k, value) ==
    IF Len(buf) < k THEN [j \in 1 .. k |-> value] ELSE buf
\* ensureIntSliceWithValue, and ensureStringSlice with its clear.
EnsureWithValue(buf, k, value) ==
    [j \in 1 .. IF Len(buf) < k THEN k ELSE Len(buf) |-> IF j <= k THEN value ELSE buf[j]]

\* parse is called.
Call(r) ==
    /\ pc = "idle"
    /\ parses < MaxParses
    /\ parses' = parses + 1
    /\ request' = r
    /\ pc' = "called"
    /\ UNCHANGED <<buffers, locals, answer>>

\* No lines: the results are empty and the buffers keep their capacity.
ReplyEmpty ==
    /\ pc = "called"
    /\ numLines = 0
    /\ answer' = Abstract!NoAnswer
    /\ request' = Abstract!NoRequest
    /\ pc' = "idle"
    /\ UNCHANGED <<buffers, locals, parses>>

\* The dedup buffers are emptied and sized.
BeginDedup ==
    /\ pc = "called"
    /\ numLines > 0
    /\ lineIndex' = <<>>
    /\ uniqueMsgs' = <<>>
    /\ counts' = <<>>
    /\ rowOf' = EnsureInt32(rowOf, numLines)
    /\ next' = 1
    /\ pc' = "dedup"
    /\ UNCHANGED <<request, workers, at, arena, merged, rowGroup, todo, cid, rowPos,
                   clusters, templates, masks, answer, parses>>

\* m[key] = value in a Go map: the entry is added or replaced.
With(m, key, value) ==
    [k \in DOMAIN m \cup {key} |-> IF k = key THEN value ELSE m[k]]

\* A new row whose count starts at the line that is about to be counted.
FirstCountOne == 1
\* counts = append(counts, 0)
FirstCount == 0

\* The row a line with a new text gets: len(uniqueMsgs) before the append.
NewRow == numRows + 1

\* One turn of the dedup loop.
DedupLine ==
    /\ pc = "dedup"
    /\ next <= numLines
    /\ LET msg == request.lines[next]
       IN  \/ /\ msg \in DOMAIN lineIndex
              /\ counts' = [counts EXCEPT ![lineIndex[msg]] = @ + 1]
              /\ rowOf' = [rowOf EXCEPT ![next] = lineIndex[msg]]
              /\ UNCHANGED <<lineIndex, uniqueMsgs>>
           \/ /\ msg \notin DOMAIN lineIndex
              /\ lineIndex' = With(lineIndex, msg, NewRow)
              /\ uniqueMsgs' = Append(uniqueMsgs, msg)
              /\ counts' = Append(counts, FirstCount + 1)
              /\ rowOf' = [rowOf EXCEPT ![next] = NewRow]
    /\ next' = next + 1
    /\ UNCHANGED <<request, workers, pc, at, arena, merged, rowGroup, todo, cid,
                   rowPos, clusters, templates, masks, answer, parses>>

\* Tokenizing and counting are done; the key computation starts, on w
\* goroutines when w > 1.  Any parallelism may have been asked for.
StartKeys(w) ==
    /\ pc = "dedup"
    /\ next > numLines
    /\ \E p \in 0 .. MaxWorkers : w = workersFor(numRows, p, MaxWorkers, RowsPerWorker)
    /\ workers' = w
    /\ next' = 1
    /\ at' = [v \in Workers |-> IF v \in ShardIds(numRows, w)
                                   THEN ShardLo(numRows, w, v) + 1 ELSE 1]
    /\ arena' = [v \in Workers |-> <<>>]
    /\ merged' = <<>>
    /\ rowGroup' = <<>>
    /\ pc' = "keys"
    /\ UNCHANGED <<request, lineIndex, uniqueMsgs, counts, rowOf, todo, cid, rowPos,
                   clusters, templates, masks, answer, parses>>

\* The key of the line in the row's place.
KeyOfLine(r) == request.key[request.lines[r]]
\* The canonical key of a row: anchorTokens then canonicalAnchorKey.
KeyOfRow(r) == request.key[uniqueMsgs[r]]

\* Rows added at the front of their group.
Prepend(rows, r) == <<r>> \o rows
\* group.rows = append(group.rows, row)
AddTo(rows, r) == Append(rows, r)

\* addRow: the row joins the group of its key.
AddRow(r, key) ==
    /\ merged' = IF key \in DOMAIN merged
                   THEN [merged EXCEPT ![key].rows = AddTo(@, r)]
                   ELSE With(merged, key, [rows |-> <<r>>, indices |-> <<>>])
    /\ rowGroup' = Append(rowGroup, key)

\* workers = 1: compute and add row after row.
SerialRow ==
    /\ pc = "keys"
    /\ workers = 1
    /\ next <= numRows
    /\ AddRow(next, KeyOfRow(next))
    /\ next' = next + 1
    /\ UNCHANGED <<request, workers, pc, at, arena, todo, cid, templates, buffers,
                   answer, parses>>

\* workers > 1: a goroutine computes the key of its next row.
ShardRow(w) ==
    /\ pc = "keys"
    /\ workers > 1
    /\ w \in Active
    /\ at[w] <= ShardHi(numRows, workers, w)
    /\ arena' = [arena EXCEPT ![w] = Append(@, KeyOfRow(at[w]))]
    /\ at' = [at EXCEPT ![w] = @ + 1]
    /\ UNCHANGED <<request, workers, pc, next, merged, rowGroup, todo, cid, templates,
                   buffers, answer, parses>>

\* The goroutine of range w has left its loop.
RangeDone(w) == at[w] > ShardHi(numRows, workers, w)
\* A wait for one goroutine per worker (wg.Add(workers)): the ranges can be fewer.
AskedDone == \A w \in 0 .. workers - 1 : w \in Active /\ RangeDone(w)
\* wg.Wait
AllDone == \A w \in Active : RangeDone(w)

Join ==
    /\ pc = "keys"
    /\ workers > 1
    /\ AllDone
    /\ pc' = "merge"
    /\ UNCHANGED <<request, buffers, locals, answer, parses>>

\* The key of row r read from the arena of the row's shard.
ArenaKey(r) ==
    LET s == CHOOSE s \in Active : r \in ShardRows(numRows, workers, s)
    IN  arena[s][r - ShardLo(numRows, workers, s)]

\* The shards are merged serially, in row order.
MergeRow ==
    /\ pc = "merge"
    /\ next <= numRows
    /\ AddRow(next, ArenaKey(next))
    /\ next' = next + 1
    /\ UNCHANGED <<request, workers, pc, at, arena, todo, cid, templates, buffers,
                   answer, parses>>

\* Every row has its group; the loop over rowOf begins.
BeginIndex ==
    /\ pc = IF workers > 1 THEN "merge" ELSE "keys"
    /\ next > numRows
    /\ next' = 1
    /\ pc' = "index"
    /\ UNCHANGED <<request, workers, at, arena, merged, rowGroup, todo, cid, templates,
                   buffers, answer, parses>>

\* One turn of it: the line's index goes to the group of its row.
IndexLine ==
    /\ pc = "index"
    /\ next <= numLines
    /\ merged' = [merged EXCEPT ![rowGroup[rowOf[next]]].indices = Append(@, next)]
    /\ next' = next + 1
    /\ UNCHANGED <<request, workers, pc, at, arena, rowGroup, todo, cid, templates,
                   buffers, answer, parses>>

\* sort.Slice by key: the keys of a map are distinct.
Sorted(keys) == Ascending(keys)

\* The groups are sorted by key; the results are sized and reset.
SortGroups ==
    /\ pc = "index"
    /\ next > numLines
    /\ todo' = Sorted(DOMAIN merged)
    /\ clusters' = EnsureWithValue(clusters, numLines, -1)
    /\ masks' = IF request.masks
                  THEN EnsureWithValue(masks, numLines, Abstract!NoMask) ELSE masks
    /\ rowPos' = IF request.masks THEN EnsureInt32(rowPos, numRows) ELSE rowPos
    /\ templates' = <<>>
    /\ cid' = 0
    /\ pc' = "emit"
    /\ UNCHANGED <<request, workers, next, at, arena, merged, rowGroup, lineIndex,
                   uniqueMsgs, counts, rowOf, answer, parses>>

\* The group of the empty key: its lines stay unclustered.
SkipGroup ==
    /\ pc = "emit"
    /\ todo # <<>>
    /\ Head(todo) = 0
    /\ todo' = Tail(todo)
    /\ UNCHANGED <<request, workers, pc, next, at, arena, merged, rowGroup, cid,
                   templates, buffers, answer, parses>>

\* The texts of the group's rows.
TextOf(group) == {uniqueMsgs[r] : r \in ToSet(group.rows)}
\* rowPos[row] = k for the k-th row of the group.
Placed(group) ==
    [r \in DOMAIN rowPos |->
        IF r \in ToSet(group.rows)
          THEN CHOOSE k \in DOMAIN group.rows : group.rows[k] = r
          ELSE rowPos[r]]
\* masks[idx] = rowMasks[rowPos[rowOf[idx]]], with the rowPos just placed.
Scattered(group, pos) ==
    LET rowMasks == [k \in DOMAIN group.rows |->
                        <<uniqueMsgs[group.rows[k]], TextOf(group)>>]
    IN  [k \in DOMAIN masks |->
            IF k \in ToSet(group.indices) THEN rowMasks[pos[rowOf[k]]] ELSE masks[k]]

\* Any other group: its templates, the masks of its rows scattered to their
\* lines through rowPos, and its cluster id.
EmitGroup ==
    /\ pc = "emit"
    /\ todo # <<>>
    /\ Head(todo) # 0
    /\ LET group == merged[Head(todo)]
       IN  /\ templates' = IF request.templates
                             THEN Append(templates, TextOf(group)) ELSE templates
           /\ rowPos' = IF request.masks THEN Placed(group) ELSE rowPos
           /\ masks' = IF request.masks THEN Scattered(group, rowPos') ELSE masks
           /\ clusters' = [k \in DOMAIN clusters |->
                 IF k \in ToSet(group.indices) THEN cid ELSE clusters[k]]
    /\ cid' = cid + 1
    /\ todo' = Tail(todo)
    /\ UNCHANGED <<request, workers, pc, next, at, arena, merged, rowGroup, lineIndex,
                   uniqueMsgs, counts, rowOf, answer, parses>>

\* The results are returned; masks nobody wanted drop the mask buffer.
Reply ==
    /\ pc = "emit"
    /\ todo = <<>>
    /\ answer' = [clusters  |-> SubSeq(clusters, 1, numLines),
                   templates |-> templates,
                   masks     |-> IF request.masks THEN SubSeq(masks, 1, numLines) ELSE <<>>]
    /\ masks' = IF request.masks THEN masks ELSE <<>>
    /\ request' = Abstract!NoRequest
    /\ workers' = 1
    /\ next' = 1
    /\ at' = [w \in Workers |-> 1]
    /\ arena' = [w \in Workers |-> <<>>]
    /\ merged' = <<>>
    /\ rowGroup' = <<>>
    /\ cid' = 0
    /\ templates' = <<>>
    /\ pc' = "idle"
    /\ UNCHANGED <<lineIndex, uniqueMsgs, counts, rowOf, rowPos, clusters, todo, parses>>

CallerStep ==
    \/ ReplyEmpty
    \/ BeginDedup
    \/ DedupLine
    \/ \E w \in 1 .. MaxWorkers : StartKeys(w)
    \/ SerialRow
    \/ Join
    \/ MergeRow
    \/ BeginIndex
    \/ IndexLine
    \/ SortGroups
    \/ SkipGroup
    \/ EmitGroup
    \/ Reply

Next ==
    \/ \E r \in Requests : Call(r)
    \/ CallerStep
    \/ \E w \in Workers : ShardRow(w)

Spec == Init /\ [][Next]_vars

\* Goroutines and the caller waiting for them are scheduled.
FairSpec ==
    /\ Spec
    /\ WF_vars(CallerStep)
    /\ \A w \in Workers : WF_vars(ShardRow(w))
-----------------------------------------------------------------------------
(* Deduplication loses nothing: the rows are distinct, every line points to  *)
(* its own text, and a row weighs as many lines as have that text, so that   *)
(* weighted counts are the counts of the lines.                              *)
DedupFaithful ==
    pc \in {"keys", "merge", "index", "emit"} =>
        /\ IsInjective(uniqueMsgs)
        /\ \A k \in 1 .. numLines : uniqueMsgs[rowOf[k]] = request.lines[k]
        /\ \A r \in 1 .. numRows :
              counts[r] = Cardinality({k \in 1 .. numLines : request.lines[k] = uniqueMsgs[r]})

(* The groups that are emitted are the same on every path: their rows are a   *)
(* partition of the unique rows, in first-appearance order, and their line    *)
(* indices ascend and are exactly the lines of those rows (the promises of    *)
(* anchorGroup's fields).                                                     *)
GroupsOrdered ==
    pc = "emit" =>
        /\ UNION {ToSet(merged[key].rows) : key \in DOMAIN merged} = 1 .. numRows
        /\ \A key \in DOMAIN merged :
              LET g == merged[key]
              IN  /\ \A j, k \in DOMAIN g.rows : j < k => g.rows[j] < g.rows[k]
                  /\ \A j, k \in DOMAIN g.indices : j < k => g.indices[j] < g.indices[k]
                  /\ ToSet(g.indices) = {k \in 1 .. numLines : rowOf[k] \in ToSet(g.rows)}
                  /\ \A r \in ToSet(g.rows) : KeyOfRow(r) = key

(* Every parse returns, and returns the clusters, templates and masks that    *)
(* its lines determine: the same at any parallelism ("Output is identical at  *)
(* any setting") and whatever the buffers were used for before.               *)
ImplementsClusterSpec == Abstract!FairSpec
=============================================================================
