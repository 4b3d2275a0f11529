# A verification project for tipping

`tipping` is a Go library that groups log lines by *token interdependency
parsing*: lines are cut into tokens, tokens that seldom occur without each other
become the *anchors* of a line, lines with the same anchors form a cluster, and
a cluster has templates (which tokens are constant) and masks (which bytes are
parameters).  A matcher then recognises templates in new messages.

This directory holds TLA+ modules that model the library, TLC configurations
that check them on small instances, and proofs checked by TLAPS for every
instance.  `PROJECT.json` lists the runs, the mutants that show each property
can fail, the source lines of every definition, the hazards and the findings.

## 1. The system

### Components, their state and their operations

| component | code | state | operations |
|---|---|---|---|
| parse orchestration and grouping | `parser.go` | result buffers, line index, `rowOf`, `rowPos`, counts (all kept in `ParseBuffers` between parses); shard arenas, groups | `parse` and its eight public variants, `groupByAnchorTokens` |
| row tables | `parser.go`, `TokenizeInto` in `tokenizer.go` | `tokenized`, `richTokenized`: slices over arrays that survive the parse | tokenize (serial or fan-out), retokenize, tokenize again |
| common-token set | `template.go` | one `uint32` mark per token id and a base epoch, shared by all clusters and parses | `sharedSlices`, `contains` |
| token record, filter | `token_record.go`, `token_filter.go` | weighted counts of ids and of pairs of ids | `newTokenRecord`, `keep` |
| anchor search | `graph.go` | one `anchorScratch` per goroutine | `anchorTokens` |
| templates, masks | `template.go` | none between calls | `templatesForCluster`, `parameterMasks` |
| pattern sampling | `parser.go` | none | `samplePositions` |
| tokenizer, SIMD scan | `tokenizer.go`, `tokenize_simd*` | a scratch per goroutine | `TokenizeInto`, `classifyBytes` |
| matcher | `matcher.go` | immutable after construction; a cache per batch | `NewMatcher`, `Match`, `MatchID`, `MatchAllIDs` |
| Aho-Corasick automaton | `aho_corasick.go` | the node table, immutable after construction | `newAhoCorasick`, `Search` with a callback |
| corpus codec | `corpus_codec.go` | template table and entries, immutable | `NewCorpusCodec`, `Encode`, `Decode` |
| command line tool | `cmd/tipping` | none | flags, one parse, JSON |

### How they interact

`parse` is a pipeline on the caller's goroutine.  It removes duplicate lines,
fans out the tokenization of unique lines, waits, interns token ids, counts,
fans out the anchor search, waits, merges the shards in row order, sorts the
groups, then fans out the "rich" tokenization used for templates and masks, and
scatters each group's results to its lines.  Goroutines share the row tables
(disjoint slots), the read-only record, and their own shard's arena.  All other
state is in one `ParseBuffers` that the next parse starts from.  The matcher
calls the automaton, which calls back for each literal it meets and may be told
to stop.

### What is hard here

* *Memory that outlives a call.*  Every table is resliced, never reallocated for
  its own sake: correctness depends on what earlier parses left behind, and on
  which headers share an array.
* *Epochs instead of clearing*, with `uint32` arithmetic, in two components.
* *Fan-out and merge* whose output must not depend on the number of workers.
* *Hand-written graph and automaton algorithms* with explicit stacks and queues.
* *Early exits* in the matcher that rely on sorted lists and exact ranks.
* *Two ways to the same tokens*, twice: a scalar and a vector split, and lines cut
  anew or tokens split further.
* *Two views of one row*, the template of a sample and the mask of the line, that
  the codec must bring together again.

Nothing is persisted and nothing is sent over a network, so there are no
crashes, retries or message losses to model; the only concurrency is the three
fan-outs, each closed by a `WaitGroup`.  The documentation says a
`ParseBuffers` is not safe for concurrent use, so one parse at a time uses it.

### What makes each component correct

* Grouping: the answer is a function of the lines alone (`ImplementsClusterSpec`).
* Row tables: every row read is the expansion of its line; rows share no memory.
* Common-token set: it is the intersection of the rows, always.
* Anchors: a largest strongly connected component of the row's dependency graph,
  with white tokens added and black tokens removed.
* Automaton: every occurrence of every pattern is reported until it is stopped.
* Tokenizer: tokens spell the line; both split paths cut it the same way.
* Patterns: samples hold both ends of a cluster; white tokens stay literal.
* Matcher: the best-ranked template that matches, and arguments that rebuild
  the message.
* Corpus codec: every line it was trained on decodes to itself.

## 2. The modules

| module | models | role |
|---|---|---|
| `SortedLists` | `sort.Ints`, loops over indices | one operator, `Ascending` |
| `BasicLemmas` | | facts about numbers, finite sets and sequences that several proofs cite, and the theorems about `Shards` and about `samplePositions` of `Patterns` |
| `CommonMarks` | `sharedSlices` | state machine |
| `CommonMarksProofs` | | proofs about it |
| `Shards` | `workersFor`, `shardRanges` | operators used by the two modules with fan-outs |
| `RowBuffers`, `MCRowBuffers` | row tables across parses | state machine over a heap of arrays |
| `RowBuffersProofs` | | proofs about it |
| `ClusterSpec` | what a parse promises | abstract specification |
| `ParseClusters`, `MCParseClusters` | deduplication, fan-out, merge, scatter | implements `ClusterSpec` |
| `ParseClustersProofs` | | proofs about it, the refinement of `ClusterSpec` among them |
| `TokenRecord` | `newTokenRecord`, `staticFilter` | operators |
| `Anchors`, `MCAnchors` | `anchorTokens` | state machine over `TokenRecord` |
| `AnchorsProofs` | | proofs about it |
| `AhoCorasick`, `MCAhoCorasick` | the automaton | state machine |
| `AhoCorasickProofs` | | proofs about it |
| `Templates` | `normalizeTemplate`, `compileTemplate`, the order of ranks, `matchInternal` | operators |
| `Matcher`, `MCMatcher` | the matcher | state machine over `Templates` |
| `MatcherProofs` | | proofs about the matcher and, after it, about the corpus codec, which rest on the same lemmas about `Templates` |
| `Tokenizer`, `MCTokenizer` | `TokenizeInto`, both splits, retokenization | state machine over operators |
| `TokenizerProofs` | | proofs about it |
| `Patterns` | templates, masks, `samplePositions` | operators |
| `CorpusCodec`, `MCCorpusCodec` | `NewCorpusCodec`, `Decode` | state machine, composes `Patterns` and `Templates`; proofs in `MatcherProofs` |

**CommonMarks.**  `mark` is the whole backing array (`cap` elements, the visible
ones are `0 .. numIDs - 1`), `base` the reserved epoch.  `Enter` is the prelude
of the call (resize or reslice, clear on overflow), its test computed in the
`uint32` of the code with the wrap (`U32`, `Minus`, `NeedsClear`); `Admitted` is the
limit that `parse` puts on the number of rows.  `FirstRow` and `NextRow` are the
two loops, one row per step, `Leave` the reservation and the choice of `final`.
A row is the set of its candidate ids, since the loops act once per id.  Only
"is count 0" is kept of `count`.  `tail` is a history variable: the last clear
missed a mark beyond the visible array.  `parse` never calls it with no row
(a group has at least one), so that early return is not an action.

**Shards.**  The `s`-th turn of the loop has `lo = s * chunk`.  Rows count from 1.

**RowBuffers.**  A slice is `[arr, len]`; its capacity is the length of the array
in `mem`.  `Table` is the reslice-or-make of an outer table, `Tokenized` what
`TokenizeInto` may do with its destination (fill it in place, or outgrow it and
leave a prefix behind), `KeepRow` the branch of retokenization that returns the
primary slice itself, `BeginSplit`/`SplitToken`/`EndSplit` the other branch, one
token per step so that other goroutines interleave.  `mode` says how the parse
gets its rich rows: not wanted, primary rows as they are, split, or a second
tokenization.  Which of them a parser uses is fixed by its symbols and by the
call, so `Modes` is a constant and any mode may follow any other on the same
buffers, as different parsers may share them.  Arrays that nothing names are
emptied, as the garbage collector does; allocation takes an array nothing names.
A line stands for its primary tokens, and what an impure token splits into is
the constant `Pieces`.

**ClusterSpec and ParseClusters.**  A request is any member of the constant
`Requests`: the lines, the anchor key of each
distinct line (any function: `Anchors` models how it is found) and what the
caller wants.  `ParseClusters` has one action per loop turn of the caller
(`DedupLine`, `SerialRow`, `MergeRow`, `IndexLine`, `EmitGroup`), one per goroutine
turn (`ShardRow`), and one per straight stretch between loops.  `SortGroups` is the
longest of these: the sort by key (`Sorted`, determined because the keys of a map
are distinct) and the sizing of the result buffers.  `Placed` and `Scattered` are
the two loops of `EmitGroup` that pass a row's mask to its lines through `rowPos`.  A template list and a
mask are functions of a cluster's lines, so the lines stand for them.  The
worker count is any that `workersFor` can give.  The refinement mapping is
`pending <- pc # "idle"`; `request` and `answer` map to themselves.  The module
takes rich rows as exact; `RowBuffers` says when they are not.

**TokenRecord and Anchors.**  The record is defined by what its loop computes:
the weight of the rows that hold an id, or a pair.  `Anchors` follows
`anchorTokens` step by step: collecting distinct nodes through epoch marks, the
dependency graph, the first pass with its frames, the second with its stack, the
largest component, white and black tokens.  The threshold is a fraction, compared
without rounding; the code multiplies floats.  One scratch serves rows in any
order, which covers both the serial loop and any shard.  Lists the code fills by a
loop over indices are `Ascending` sets; `Unseen` is the loop that pushes a node's
neighbours not yet visited, each once.

**AhoCorasick.**  The node table is its three fields, `next`, `fail` and `out`.
`InsertByte` and `InsertEnd` build the trie; `RootByte` is a turn of the first loop
of `buildFailures`; `SkipByte`, `StartChase`, `FollowFailure`, `LinkChild` and
`EndNode` are the branches of its second, one step along a failure link at a time;
`ScanFail` and `ScanByte` are those of `Search`, where the visitor may stop the scan
at any reported pattern.  `Stuck` and `Target` are the condition and the lookup that
the two walks share.  The code queues a child before it looks for its failure,
which does not read the queue, so `LinkChild` queues it.  A list with no pattern
gives no automaton, and the constant `PatternLists` holds none.  `word` is a history variable, the
bytes that lead to each node.

**Matcher.**  A template is a sequence of bytes and `*`, the placeholder, so a
literal `<*>` in a message is not represented.  `TryPrefix`, `TrySuffix` and
`Visit` are the turns of the three loops of `bestMatchID`; `Evaluate` is
`evaluateList`; `Cursors` follows `matchInternal`.  The automaton's visits come in
any order; that they are the literals that occur is what `AhoCorasick` checks.
`Matches` and `Args` share `Cursors`, as `matches` and `match` share
`matchInternal`; `Place` is one turn of its loop.  An index's list is the members of
its set in the order of their ranks (`Ranked`), which is one list because
`Outranks` is a strict total order; that it is one is a lemma of the proofs.
`Evaluate` breaks off at the first template that is not better than the best so
far, as the code does, so it relies on the order of the list.
`Fits` says what a template can stand for without saying how it is split: `ends[p]`
holds every place where the first `p` elements can end.

**Tokenizer.**  A character is a code point and a line a sequence of them.
`pre` and `next` are the two slices of `preTokenizeInto`, `turn` the matcher, and
`last`, `matched` the variables of one scan; `Match`, `SkipEmpty` and `EndScan` are
the branches of the loops of `appendSplitSpecialRegex` and, for a word,
`appendSplitSpecialLiteral`.  A regex sees the rest of the line only, as in the
code.  The scalar split, the vector split and the count are three folds over the
characters, each written from its own loop: the class bits and the nibble table of
`symLo` are in the second only.  What `FindStringIndex` answers is external:
leftmost, longest.

**Patterns.**  Operators on rows.  `sharedSlices` is the intersection that
`CommonMarks` shows the marks to compute.  A rounded product is any nearest
integer, so that a tie that a float64 product misses on either side is covered.

**CorpusCodec.**  `Parse` is what a parse hands to training: any anchors its lines
can have (`AnchorSets`: a choice among the line's nodes, the white tokens kept and the
black ones dropped, so possibly none), any sample `samplePositions` can give, templates, masks.  `LiteralLine`,
`KnownTemplate` and `UnknownTemplate` are the branches of the loop over the lines;
`Enter` is the part they share, its last disjunct the error for a repeated line
that got another encoding.  `Templates` is shared with `Matcher`: the same `Kept`,
`parts`, `Matches`, ranks and index rules answer `MatchID`, which is the answer that
`BestOfIndexed` proves of a lookup.  A slice is one character, so text, row, template
and mask have the same positions, and `*` in a line is the text `<*>`.
`CorpusCodecAssumption` says that lines with the same text have the same row: one
tokenizer makes them all.  The module's initial predicate, next-state relation and
type invariant are `CodecInit`, `CodecNext` and `CodecTypeOK`, so that one module can
prove about it and about `Matcher`.  `Decode` splits the template text at every `<*>`, whoever wrote it.

## 3. What is checked

Each row is a run; "bounds" says why they are large enough.

| run | properties | bounds |
|---|---|---|
| `common_marks` | `TypeOK`, `ExactUnlessTail`, `MarksFollowEpoch` | a 7-value word, 2 ids, clusters of up to 3 rows, the most that `parse` admits for this word (half of it, `parser.go:231-235`): two calls use the word up, the test for room is met at its largest argument, and parses with fewer ids leave marks hidden |
| `common_marks_wrap` | `Exact` (violated) | see finding 2 |
| `row_buffers` | `TypeOK`, `PrimaryExact`, `NoDataRace`, `PresizeFits`, `RichExactUnlessInPlace`, `EveryParseReturns` | 2 parses in any modes, 2 lines of 3, 2 workers, one token that splits in two, before a plain one and after it: every sharing a first parse can create meets every use a second can make of it |
| `row_buffers_reuse` | `RichExact` (violated) | 2 parses, 1 worker, one mode; see finding 1 |
| `parse_clusters` | `TypeOK`, `DedupFaithful`, `GroupsOrdered`, `ImplementsClusterSpec` | 2 parses of up to 3 lines, and of 4 different ones, 3 keys: duplicates, the empty key, shared keys, keys out of order, growing and shrinking buffers; serial, 2 and 3 workers, of which 4 lines need only two. Only equality of lines matters, so lines are numbered by first appearance |
| `anchors` | `AnchorsTypeOK`, `AnchorsExact`, `TiesGoUpstream`, `PostorderSeparates`, `ComponentsWhole`, `ScratchForgets`, `EveryRowEnds` | 4 tokens, up to 3 weighted rows, thresholds 0 and 1/2: graphs with cycles, equal components, one-way edges, a row each; and 3 rows of mixed kinds through one scratch, an id of two kinds, white, black and filtered tokens |
| `aho_corasick` | `TypeOK`, `FailuresLongest`, `OutputsComplete`, `ScanExact` | 2 byte values, up to 3 patterns, texts up to 4: suffixes, nested patterns, chains of two failures |
| `matcher` | `TypeOK`, `BestOfIndexed`, `ArgsRebuild`, `OnePlaceholderFound` | every pair of templates of up to 3 elements, triples of longer ones filed in every index, messages up to 4 bytes, batches with a repeated message |
| `matcher_miss` | `MissMeansNoFit` (violated) | see finding 3 |
| `tokenizer` | `TypeOK`, `NothingLost`, `TokensExact`, `SplitCounted`, `RetokenizeExact`, `NoWordMissed`, `TokenizeReturns` | lines of up to 4 of 8 characters (letter, digit, space, two symbols, a letter, a space and a symbol beyond ASCII), no matcher, words, classes, an anchored regex, an empty match; symbol sets with a space and with `N`, whose low nibble is that of `.`; the vector path for 2 and 3 bytes (32 to 1024 in the code), so that lines fall below, on, between and above its bounds |
| `corpus_codec` | `CodecTypeOK`, `RoundTrip`, `FailsOnlyAfterGrowth`, `SampleCovers`, `SpecialsRendered` | corpora of up to 3 of 14 lines, of 4 of 4 lines, and some of 6 in which a line comes again after others could add its template, in every clustering their anchors allow; patterns from all rows, 3/4, 1/2 and 1/4 |
| `corpus_codec_sampled` | `DecodesExactly` (violated) | 3 lines of 4, none with `<*>`, patterns from half the rows; see finding 4 |

What the passing runs show:

* `ExactUnlessTail`, `MarksFollowEpoch`: a cluster is never confused with an older
  one through the shared marks.  The test for room is computed with its wrap, so a
  test that wrapped would show here.
* `PrimaryExact`, `NoDataRace`, `PresizeFits`: rows are right whatever the arrays
  held, goroutines touch disjoint memory although tables may share arrays, and no
  split outgrows the array it was sized for.  `RichExactUnlessInPlace` bounds
  finding 1: no other rows are wrong.
* `DedupFaithful`, `GroupsOrdered`, `ImplementsClusterSpec`: weights, groups and
  the final answer do not depend on scheduling, on the number of workers or on
  earlier parses, and every parse returns, also where there are fewer ranges than
  workers and `wg.Done` is called once per range.
* `TiesGoUpstream`: which of several largest components wins does not depend on
  anything but the graph's direction: never one that another of them leads to.
* `AnchorsExact` and its two lemmas `PostorderSeparates` (the order of the first
  pass) and `ComponentsWhole` (each component of the second pass is complete and
  closed); `ScratchForgets`: two computations of a row on one scratch agree.
* `FailuresLongest`, `OutputsComplete`, `ScanExact`: the automaton.
* `BestOfIndexed`, `ArgsRebuild`, `OnePlaceholderFound`: the matcher's early exits
  lose nothing among indexed templates, arguments are never empty and rebuild the
  message, and leftmost matching is complete for one placeholder.
* `NothingLost`, `TokensExact`, `SplitCounted`, `RetokenizeExact`, `NoWordMissed`: the
  pre-tokens of every moment and the tokens at the end spell the line, provided no
  regex can match the empty string (such a regex drops the text it steps over, see
  section 6); the two split paths give the same exact tokens; the count that sizes
  a destination is exact; tokens split further are those of a line cut anew.
* `RoundTrip`: trained on patterns from all rows, the codec gives every line back,
  repeated, unclustered and empty lines included.  Lines with the text `<*>` are
  excluded: where all rows of a cluster share it, the template has one placeholder
  more than the mask has parameters, and `Decode` refuses the encoding.
* `FailsOnlyAfterGrowth`: with patterns from some rows, `RoundTrip` promises nothing,
  but training fails in one way only: on a repeated line that was filed under the
  matcher's template and whose own another line has added since.  The run reaches it
  (see finding 4).
* `SampleCovers`, `SpecialsRendered`: sampled rows are in order and hold both ends;
  white tokens are never parameters, in sampled rows or others; black ones always
  are, unless the same text is an ordinary token of every pattern row.  `^x` can
  leave such text; `parser.go:111` says "always parameterized" without exception.

`CHECK_DEADLOCK FALSE` is set where a bound on the number of parses or rows ends
the behaviour (`MaxParses`, `MaxRuns`): a program that makes no further call stops.

### Bounds by name

`MaxU32`, `MaxIDs`, `MaxRows` (CommonMarks); `MaxLines`, `MaxWorkers`,
`RowsPerWorker` (512 in the code), `MaxCap`, `MaxParses`, `NumArrays` (RowBuffers);
`MaxLines`, `MaxWorkers`, `RowsPerWorker`, `MaxParses` (ParseClusters);
`MaxRuns` (Anchors, per corpus); `SimdMin`, `SimdMax` (Tokenizer).  Weights are `uint32` in the code and unbounded here: a parse
refuses more than 2^31 - 1 lines, so they cannot wrap.

### Fairness

Weak fairness of each goroutine's steps and of the caller's: the Go scheduler
runs every runnable goroutine eventually, and no goroutine blocks on another
(the caller blocks only in `wg.Wait`).  `Anchors` needs only weak fairness of its
one goroutine, and `Tokenizer` of the one call it models.  Nothing assumes that a caller makes another call.

## 4. Findings

1. **A reused row can be overwritten while it is read** (`parser.go:706`,
   `row_buffers_reuse`).  A line with nothing to split has its primary slice as
   its rich slice.  If the next parse's line in that slot does have something to
   split, its primary tokens are written into that array and then split into the
   very same array, front to back.  The result is not the expansion of the line.
   It needs one parser, one worker, and two batches through the same buffers,
   with templates or masks wanted and symbols that are a proper subset of the
   punctuation (the default).  `README.md:45` recommends such reuse and
   `parser_test.go:133-143` requires equality with a fresh parse.
2. **A clear that misses the tail** (`template.go:37`, `common_marks_wrap`).  It
   takes about 2^32 rows through one `ParseBuffers`, a clear during a parse with
   few ids, and then a parse with more.
3. **A template that fits can be missed** (`matcher.go:362`, `matcher_miss`).  An
   interior literal found right at the cursor ends the attempt, although the same
   literal may occur later: `<*>a<*>` does not match `aab`.  A bare `<*>`, in
   addition, is filed in no index (`matcher.go:89-92`), so it answers nothing;
   `Matcher` models this and `BestOfIndexed` speaks of indexed templates only.
4. **A sampled codec can decode to another message** (`corpus_codec.go:77`,
   `corpus_codec_sampled`).  Masks are made for all rows, templates for the sampled
   ones.  A line whose own template is not in the table is given the id of any
   template that matches it, with the arguments of its own mask: of `a`, `a 1 a` and
   `1 a` at sample 1/2 the second is stored as `<*>a` with ` 1 `, and decodes to
   ` 1 a`, with `ok = true` (the run's rows leave the spaces out).  Templates with
   another number of placeholders make `Decode` fail instead.  With all rows, the default, none of this happens (`RoundTrip`).
   A repeated line can make training fail (`corpus_codec.go:86`): if another line with
   the same mask template, which the matcher cannot answer, adds that template, the
   line finds it when it comes again and gets another id than before.  At sample 1/4
   the corpus `a`, `b1`, `ba1`, `1a1`, `ba1`, `b2` of `corpus_codec` does so: the first
   `ba1` is filed under `b<*>`, `1a1` adds `<*>a<*>`, the second `ba1` finds it.
   `FailsOnlyAfterGrowth` says that training fails in no other way.

## 5. What is proved

All proofs are checked by TLAPS, with no bound on any constant.

**CommonMarks** (`CommonMarksProofs`), from `CommonMarksAssumption`: the constants
are naturals and some cluster has a row.  That a cluster's rows are at most half the
word is not assumed: `Enter` takes it from `parser.go:231-235`, which refuses more
than 2^31 - 1 lines.

* `TestIsExact`: for every row count `parse` admits and every base, the `uint32` test
  `base > ^uint32(0)-uint32(len)-1` does not wrap and asks whether `base + len + 1`
  exceeds the largest word.

* `TypeCorrect`: `Spec => []TypeOK`.
* `InvariantHolds`: `Spec => []Inv`.  `ExactUnlessTail` is not inductive by itself:
  that the returned marks are the intersection needs that the marks holding the
  current epoch are the intersection of the rows read so far, which needs that no
  older mark is above `base`, which needs that the epochs of a call do not wrap.
  `Inv` is the conjunction of these.  There is one lemma per action
  (`EnterKeepsInv`, `FirstRowKeepsInv`, `NextRowKeepsInv`, `LeaveKeepsInv`) and
  three about intersections of rows; `U32Word`, `TestIsExact` and `PlusIsSum`
  discharge the modular arithmetic.
* `SharedIsExact`, `OldMarksStayBehind`: with `TypeOK` the three properties the run checks, for every word size, number of ids and number of rows.

**Shards** (in `BasicLemmas`), with no assumption beyond positive numbers:
`ShardsCover`, `ShardsDisjoint`, `ShardsBounded`: the ranges partition the rows,
none is empty, and there are at most as many as workers.

**Patterns** (in `BasicLemmas`), for every number of rows and every fraction:

* `SpreadIsEven`: each position is the rounded product `i * (n-1)/(size-1)`, however
  ties round, so the corrections `idx <= prev` and `idx >= n` of the loop are never
  needed.  The argument takes the least position where it fails: the one before
  is a rounded product, a step is longer than a row (`RoundsAscend`), so the next
  is beyond it, and at most the last row (`RoundsBelow`).
* `SpreadCovers`: positions ascend strictly from the first row to the last.
* `PositionsCover`: the same for every branch of `samplePositions`; this is what
  `SampleCovers` checks, in terms of lines, on small corpora.

**RowBuffers** (`RowBuffersProofs`), from `RowBuffersAssumption`, `PiecesAssumption`
and `CapacityAssumption`: lines and pieces are sequences of tokens, no impure token
splits into nothing or into something to split again, `MaxCap` holds any line or expansion, and there are
at least `2 * MaxLines + MaxWorkers` arrays, so that an allocation always finds a
free one (memory does not run out).

* `RowsInvariant`: `Spec => []RowInv`.  None of the properties is inductive by
  itself.  That goroutines do not race needs that live headers of different rows
  never name one array; the rich and the primary header of *one* row may, after
  `KeepRow`, and then the row's owner is the only one to touch it.  `RowInv` says
  which pairs of headers may share (`RowsApart`), that a row below the cursor of its
  shard is finished and holds its line's tokens or their expansion, that a row
  being split holds the expansion of the tokens read so far in a destination with
  room for the rest, and that an in-place split is recorded.  One lemma per action.
* `RowTypes`, `PrimaryRowsExact`, `NoRaces`, `NoSplitOutgrows`,
  `OnlyInPlaceSplitsGoWrong`: the five invariants `row_buffers` checks, for every
  number of lines and workers, every content, every capacity left by earlier
  parses and every schedule.  The last is finding 1 seen from the other side: no
  other path corrupts a row.  `NoSplitOutgrows` holds for in-place splits too, where
  the loop reads what it has overwritten.

**ParseClusters** (`ParseClustersProofs`), from `ParseClustersAssumption`: the keys
are naturals, 0 among them, and every request is lines with their keys.

* `ParseInvariant`: `Spec => []ParseInv`, with five parts.  `Shapes`: types.  `Dedup`:
  the lines before the current one are deduplicated (`IsDedup`); it holds at the
  start of a parse because the buffers are emptied, not because they are new.
  `Arenas`: a shard's arena holds the keys of its rows up to the one it is at, so the
  merge reads the key of the right row (`ArenaKeyRight`, from `ShardsCover` and
  `ShardsDisjoint`) whatever the schedule.  `Grouping`: the rows given a group so far
  are divided by key, in order, and so are the lines indexed so far.  `Emitting`: the
  groups left are the largest keys, in order, the next cluster id counts the
  non-empty keys done, and clusters, masks and templates are right for the lines of
  those keys and unset for the others.
* `ParseTypes`, `NothingDeduplicatedAway`, `GroupsAreKeyClasses`: the invariants
  `parse_clusters` checks.
* `ParseRefinesClusterSpec`: `Spec => Abstract!Spec`, the safety half of
  `ImplementsClusterSpec`.  `Call` is `Ask`, both replies are `Reply` with the
  promised answer (`AnswerRight`, `EmptyAnswerRight`), every other step stutters.
  The crux is `CidIsNext`: the counter in the loop and "the number of used keys
  below this one" agree, because the queue ascends (`QueueNext`), and different keys
  have differently many below them (`BelowDiffers`).

**AhoCorasick** (`AhoCorasickProofs`), from `AhoCorasickAssumption`: patterns and texts
are sequences of bytes, and there is a pattern.  The number of byte values, the
patterns and the texts are any.

* `AutomatonInvariant`: `Spec => []AutomatonInv`, with seven parts.  `Shapes`: types.
  `Trie`: the edges spell the words, and no two nodes have the same word (`NewNode`:
  a child is grown only where there is none).  `Inserting`: every pattern before the
  current one has its node.  `Queueing`: the queue holds the nodes at the end of the
  edges visited so far, once each, by depth, and is less than a level ahead of its
  head; this is what makes breadth first matter.  `Linking`: a queued node has its
  final failure and all its reports, any other node reports its own patterns only.
  `Chasing` and `Scanning`: the node that a walk is at is a suffix of the word looked
  for, and no deeper one can go on with the byte.
* The argument.  All shallower nodes are queued when a node's children are linked
  (`LevelsLinked`), so every link the walk follows is final.  Following a failure
  skips no suffix node (`FollowReaches`), and where the walk stops its target is the
  longest suffix of the longer word (`AdvanceReaches`, `ChildFailure`).  The failure's
  reports are then exactly the patterns that end the word and are not it
  (`ReportOfFailure`), so appending them neither loses nor repeats one
  (`InjectiveConcat`).  The scan is the same walk over the text.
* `AutomatonTypes`, `FailuresAreLongest`, `ReportsComplete`, `ScansExact`: the four
  invariants `aho_corasick` checks.

**Anchors** (`AnchorsProofs`), from `AnchorsAssumption`: corpora are rows of tokens
with natural counts, thresholds are fractions of at most 1.  The graph of a row is
any relation the weights give; nothing is assumed of its size or shape.

* `AnchorsInvariant`: `Spec => []AnchorsInv`, with eight parts, a phase of
  `anchorTokens` or a set of variables each.  `Shapes`: types.  `Collecting` and
  `Collected`: the marks of this epoch, and no others, tell which tokens have a node,
  and each token counted has one.  `Graphed`: the lists hold the edges of the row's
  graph, forward and back.  `Searching`: the frames of the first pass are a path, and
  whatever a finished node leads to was finished before it, unless its own component
  still has a node on the path or one finished later (`Settled`).  `Gathering`: no
  node outside leads into a component already made, and all of the one in the making
  lead to the node that opened it.  `Comparing` and `Chosen`: the largest so far is a
  component at least as large as all made, and larger than any that leads to it.
* The argument is the one for two-pass component search, without paths.  That a node
  `Leads` to another is defined through sets closed under edges, so that facts about
  it (`ReachMeans`, `GrowthEnds`) need no induction on the length of a path.  The
  first pass gives the order (`FinishedLeads`): a component is finished after all
  it leads to, so a walk against the edges from the last unvisited node stays in its
  component and misses none of it.  `LeadsNumbered` carries this from node numbers to
  tokens.
* `AnchorsTypeCorrect`, `AnchorsAreExact`, `TiesResolved`,
  `PostorderOrdersComponents`, `WalksGatherComponents`: the first five invariants
  `anchors` checks, for every corpus, filter, threshold and sequence of rows through
  one scratch.
* `ScratchIsForgotten`: `Spec => []ScratchForgets`, the sixth: one row gives the same
  anchors whenever it is computed.  `AnchorsAreExact` does not give this, since it leaves a choice
  between largest components that do not lead to one another.  The proof
  carries, beside the inductive invariant, one more (`ScratchInv`): the computation of
  a row is a deterministic trace of the part of the state that its steps read.  The
  marks are not part of it, for what they hold of earlier rows differs; `Collecting`
  tells what they answer from the nodes made so far.

**Matcher** (`MatcherProofs`), from `MatcherAssumption`: templates are sequences of
bytes and placeholders, messages sequences of bytes.  The template lists, the
batches and the set of bytes are any.

* What `matchInternal` does, for any template and message (`CutFacts`, `PartsFacts`,
  `CursorStep`, `MatchMeans`): in a match the parts lie in the message one after
  another with a byte or more between them.  So a match is at least `minMsgLen` long
  and the length filter loses nothing (`MatchIsLongEnough`), and a template is found
  under its literal: at the front, at the end, or where the automaton reports it
  (`PrefixLiteralFits`, `SuffixLiteralFits`, `MiddleLiteralFits`).
* Ranks: `Outranks` is a strict total order and `Rank` counts it (`OutranksOrders`,
  `RankOrder`), so a sorted list's first match that improves on the best so far is
  the best of both (`EvaluateFacts`).
* `MatcherInvariant`: `Spec => []MatcherInv`.  `BestOfIndexed` is not inductive: the
  lookup must know what it has settled.  `LookupInv` says that the best so far is the
  best of the templates settled, which are those in the indexes done and, in the
  current one, those whose literal's length (or literal, in the automaton's visits)
  is no longer to be tried.  Ending a loop early settles the rest
  (`LengthsTried`: longer literals do not fit; `LookupDone`: a best of rank 0 cannot be
  beaten; `ExactIsBest`: a literal template that is the message outranks every other
  match).  `CacheInv` and `AnswersInv` say the same of the cache and the answers given.
* `MatcherTypeCorrect`, `BestIndexedFound`, `ArgumentsRebuild`,
  `OnePlaceholderAnswered`: the four invariants `matcher` checks.  `ArgumentsRebuild`
  rests on `ArgsFill`, which is about every template and message that match, not
  only those of a lookup; `OnePlaceholderAnswered` on `OneHoleMatches`: with one
  placeholder, fitting in any way is matching the leftmost way.  Finding 3 is what
  becomes of it with two.

**CorpusCodec** (in `MatcherProofs`), from `CorpusCodecAssumption`: lines are sequences
of tokens, the same text is the same row, a sample is a positive fraction of at most
1.  The corpora, clusters, samples and the matcher's answers are any.

* `MaskRebuilds` is about every text without `<*>` and every mask of its length: the
  template that `templateFromMask` makes, split at its placeholders and joined
  again with the arguments of `argsFromMask`, is the text.  `Reaches` is the argument: each
  element of the template reaches from the end of the one before it to a place in the
  text, a literal one by a character, a placeholder by its argument, so the parts
  and arguments are adjacent slices of the text (`PartIsSlice`, `ReachesFill`).  That
  the runs of ones are what the placeholders stand for, in order, is
  `StartsAreStars` and `MaskReaches`.  `LiteralRebuilds` is the same for a line without a mask.
* `RowTemplate`: the template of a row, which the parse gives the matcher, and the one of
  its mask, which training makes again from bytes, are equal.  With `RenderedIsNormal`
  and `KeptHolds`, a mask's template is in the table when patterns are made of all
  rows (`ParseGives`).
* `CodecInvariant`: `CodecSpec => []CodecInv`.  `RoundTrip` is not inductive: that an
  entry still decodes at the end needs that the table only grows and has no template
  twice (`TablesInv`, `TableGrows`), that the entries are those of the lines read
  (`EntriesInv`), and that each has its own line's template and arguments (`ExactInv`),
  which is so because the matcher is never asked with patterns from all rows, but for
  the empty line, which it does not answer (`MaskFacts`, `MatchIDFacts`).  A repeated line then
  gets the entry it has, so training cannot fail.  Finding 4 is `ExactInv` without the
  condition on the sample.
* `TrainingFailsOnlyAfterGrowth`: `CodecSpec => []FailsOnlyAfterGrowth`.  The proof
  carries one more invariant (`FilingInv`): a line entered was filed under its own
  template, or under the matcher's for a mask template that the parse did not give.
  Two answers of the matcher for one line are the same (`MatchIDIsOne`), so the second
  encoding can differ from the first only if the table has grown in between.
* `CodecTypes`, `LinesRoundTrip`, `TrainingFailsOnlyAfterGrowth`, `SamplesCover`,
  `SpecialsAreRendered`: the five invariants `corpus_codec` checks, for every corpus and clustering.  `SamplesCover` rests
  on `PositionsCover`.

**Tokenizer** (`TokenizerProofs`), from `TokenizerAssumption`: lines are sequences of
numbers, a word is looked for anywhere (never anchored, as `strings.Index` is), all
punctuation is ASCII and neither letters, digits nor spaces, and the Unicode classes
add nothing below 128.  Nothing is assumed of the words, classes and symbols, of the
two limits on a vector path's line, or of what the CPU offers.

* Each loop is a fold, and the community modules define a fold by a recursive
  function over sets of indices.  `FoldExists` gives that function and `FoldAppend`
  what it is on a sequence one longer; so each loop has a lemma for its next character
  (`ScanNext`, `VectorNext`, `CountNext`, `RetokNext`, `LayNext`), and what holds of a
  whole text is shown by `SeqOneByOne`.
* The scalar loop (`ScanInv`): the tokens so far and the open segment spell the text
  read, each token is exact, no two segments are neighbours.  `CutSound` is what
  follows for a whole text, `ScalarIsCut` that the tokens there were before do not matter.
* The vector loop (`Agrees`): while it has met ASCII only it has the scalar loop's
  tokens and segment, and its two accumulated bits say what `tokenWith` would find.
  `BitsExact` is about one character, with the symbol bit found by nibbles
  (`SymbolBitExact`).  `SplitIsCut`: `appendSplitToken` makes the same tokens on either
  path, and after a vector pass given up.
* The count (`CountIsLength`) runs beside the scalar loop: a segment is open in the one
  when it is in the other.
* Retokenizing (`RetokenizeExpands`): skipping to the first token that needs it and
  copying named tokens changes nothing.  `CutRefines`: cutting at all punctuation is
  cutting at fewer symbols and cutting the impure tokens again.  It goes along the
  text (`Follows`): the loop for all punctuation is where the other would be, had it
  taken its tokens apart.  Letters and digits are no punctuation (`NamedIsKept`), so
  only impure tokens need it.
* `TokenizerInvariant`: `Spec => []Inv`.  `NothingLost` and `NoWordMissed` are not
  inductive: `Placed` says where a scan can stand (at the start, if nothing matched
  and the matcher matches no empty text), `Held` that the pre-tokens of the
  matcher whose turn it is are free of its word as well, `Apart` that no two unrefined
  pre-tokens touch, without which two segments could meet in the tokens.  A match is
  the leftmost (`FoundFacts`), so the text before it has no other; none found means
  none there (`NoneFound`).
* `TokenizerTypeOK`, `TokenizerNothingLost`, `TokenizerTokensExact`,
  `TokenizerSplitCounted`, `TokenizerRetokenizeExact`, `TokenizerNoWordMissed`: the
  six invariants `tokenizer` checks, for lines, words and symbol sets of any size.

**BasicLemmas**: folds and inductions along a sequence, least and greatest elements, finite ranges and unions, what
replacing an element or appending one does to a sequence, ascending and injective
sequences, `Ascending` of any finite set, and `FlattenSeq` of one sequence more.  The
community modules define `FlattenSeq` by a recursive function, so its laws are proved
from the existence of that function on every length (`FlattenExists`); the cursors of
`matchInternal` and the ends of `Fits` are treated alike (`CursorsExist`, `EndsExist`).

Inductions over numbers (the sort of a set of any size, the concatenation of any
number of sequences, a counted position) take the least counterexample, which
`LeastNat` provides from well-foundedness (`OneByOne`): no theorem with an operator
parameter is used.

**Only model-checked.**  Every invariant that a passing run checks is proved.
Liveness (`EveryParseReturns`, `EveryRowEnds`, `TokenizeReturns`, the liveness half of
`ImplementsClusterSpec`) needs fairness and `ENABLED`, which the prover does not
handle.  The four runs that expect a violation show single behaviours, which a
model checker finds and a proof does not.

## 6. What is not modelled

* The assembly kernels of the vector scan, which promise the bytes of
  `classifyBytesGo`, and the detection of the CPU; `Vector` leaves both answers open.
* Regular expressions in general, and lines that are not valid UTF-8.  A regex is a
  repetition of a class, perhaps anchored.
* With a regex that can match the empty string, the text it steps over is lost when
  a match follows (`tokenizer.go:317`).  The model does the same; `NothingLost`
  excludes these regexes, `TokenizeReturns` does not.
* The bytes of canonical keys; `ParseClusters` takes keys as an arbitrary function.
  (Two anchor sets whose tokens hold NUL bytes can share a key, `parser.go:826`.)
* Floating-point rounding of thresholds, and of `n * sample` where the fraction is
  not exact in binary: its ceiling can be one row more.
* The aliasing of returned slices with `ParseBuffers`: results are read as they are
  when the parse returns.
* `Templates`, `Encode`, `EncodeID`: copies of what training made.
* The command line tool, regex compilation, benchmarks: I/O or library calls.

The hazards of these parts are listed in `PROJECT.json` with a note.

## 7. Plan

Done, in this order: `CommonMarks` and its proofs (the state that lives longest),
`Shards` and its proofs, `RowBuffers`, `ClusterSpec`/`ParseClusters`,
`TokenRecord`/`Anchors`, `AhoCorasick`, `Matcher`, `Tokenizer`, `Patterns` and its
proofs, `CorpusCodec`.

Next model: `canonicalAnchorKey` as an operator on bytes; equal keys exactly for
equal anchor sets without NUL.

Theorems done: `Shards`, `Patterns`, the refinement of `ClusterSpec`, and all
invariants of every passing run (`CommonMarks`, `RowBuffers`, `ParseClusters`,
`Anchors`, `AhoCorasick`, `Matcher`, `Tokenizer`, `CorpusCodec`).

Next theorems: that `sharedSlices` of `Patterns` is what `CommonMarks` returns, and that
`ScanExact` reports the visits `Matcher` takes in any order, so that the modules'
assumptions about one another are proved as well.
