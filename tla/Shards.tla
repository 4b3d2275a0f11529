------------------------------- MODULE Shards -------------------------------
(***************************************************************************)
(* How a parse divides its unique rows among goroutines: workersFor chooses *)
(* how many, shardRanges gives each a contiguous range (parser.go).  The    *)
(* s-th turn of shardRanges' loop, s from 0, has lo = s * chunk; rows are   *)
(* numbered from 1 here, so its range [lo, hi) is the rows lo + 1 .. hi.    *)
(***************************************************************************)
EXTENDS Integers

\* The goroutines a parse of rows unique rows may use; parallelism is the
\* value of WithParallelism, gomaxprocs the default that stands for 0.
workersFor(rows, parallelism, gomaxprocs, rowsPerWorker) ==
    LET asked == IF parallelism <= 0 THEN gomaxprocs ELSE parallelism
        byWork == rows \div rowsPerWorker
        limit == IF byWork < asked THEN byWork ELSE asked
    IN  IF limit < 2 THEN 1 ELSE limit

Chunk(n, workers) == (n + workers - 1) \div workers

\* The turns the loop takes: those whose lo is still below n.
ShardIds(n, workers) == {s \in 0 .. n - 1 : s * Chunk(n, workers) < n}

ShardLo(n, workers, s) == s * Chunk(n, workers)

ShardHi(n, workers, s) ==
    LET hi == s * Chunk(n, workers) + Chunk(n, workers)
    IN  IF hi > n THEN n ELSE hi

ShardRows(n, workers, s) == ShardLo(n, workers, s) + 1 .. ShardHi(n, workers, s)
=============================================================================
