----------------------------- MODULE RowBuffers -----------------------------
(***************************************************************************)
(* The token rows of a ParseBuffers (parser.go) across repeated parses: the *)
(* tables buffers.tokenized and buffers.richTokenized hold one token slice  *)
(* per unique line, and every parse reslices them and overwrites the        *)
(* backing arrays in place.  A slice is a header [arr, len] over an array   *)
(* of the heap; two headers may share an array.                             *)
(*                                                                          *)
(* A parse tokenizes its unique lines into tokenized, barrier, interns and  *)
(* groups them, then builds the rich rows (every punctuation rune a symbol) *)
(* in one of four ways, barrier, and reads them for templates and masks.    *)
(* Both fan-outs give each goroutine a shard of the rows (Shards); with one *)
(* worker the same loop runs on the caller.                                 *)
(*                                                                          *)
(* A unique line is the sequence of its primary tokens.                     *)
(***************************************************************************)
EXTENDS Naturals, SequencesExt, Shards

CONSTANTS
    Tokens,      \* the tokens rows are made of
    Lines,       \* the lines a parse can be given, as rows of primary tokens
    Impure,      \* the impure tokens tokenNeedsSplit accepts
    Pieces,      \* Pieces[t]: the tokens appendSplitToken makes of impure t
    MaxLines,    \* bound on the unique lines of one parse
    MaxWorkers,  \* GOMAXPROCS, and the bound on WithParallelism
    RowsPerWorker, \* parallelRowsPerWorker
    Modes,       \* how the parsers that share the buffers get their rich rows
    MaxCap,      \* bound on the capacity append's growth chooses
    MaxParses,   \* bound on the parses that reuse one ParseBuffers
    Blank,       \* the zero Token make fills an array with
    NumArrays    \* arrays of the modelled heap: two tables and one split each

ASSUME RowBuffersAssumption ==
    /\ MaxLines \in Nat \ {0}
    /\ MaxWorkers \in Nat \ {0}
    /\ RowsPerWorker \in Nat \ {0}
    /\ MaxCap \in Nat \ {0}
    /\ MaxParses \in Nat
    /\ NumArrays \in Nat
    /\ NumArrays >= 2 * MaxLines + MaxWorkers
    /\ Modes \subseteq {"none", "same", "retok", "full"}
    /\ Lines \subseteq Seq(Tokens)
    /\ Pieces \in [Impure -> Seq(Tokens) \ {<<>>}]

\* A piece is a symbol, a space, or a stretch between two of them: it has
\* nothing left to split.
ASSUME PiecesAssumption ==
    \A t \in Impure : \A j \in DOMAIN Pieces[t] : Pieces[t][j] \notin Impure

Arrays == 1 .. NumArrays
Workers == 0 .. MaxWorkers - 1
NoSlice == [arr |-> 0, len |-> 0]
VARIABLES
    mem,      \* mem[a]: the tokens of array a; its length is the capacity
    primary,  \* buffers.tokenized, up to its capacity: a sequence of slices
    rich,     \* buffers.richTokenized, likewise
    lines,    \* the unique lines of the parse in progress
    mode,     \* how this parse gets its rich rows
    shards,   \* the workers of this parse's fan-outs
    pc,       \* "idle" | "tokenize" | "grouped" | "retok" | "full" | "rich"
    row,      \* row[w]: the row worker w is at
    split,    \* split[w]: the split in progress, or Whole
    parses    \* parses begun, for the bound

vars == <<mem, primary, rich, lines, mode, shards, pc, row, split, parses>>

Whole == [active |-> FALSE, next |-> 0, out |-> NoSlice]

numLines == Len(lines)
SliceCap(s) == IF s.arr = 0 THEN 0 ELSE Len(mem[s.arr])
Content(s) == [j \in 1 .. s.len |-> mem[s.arr][j]]

\* The rows a worker owns; the serial path is a single shard.
MyRows(w) == ShardRows(numLines, shards, w)
Active == ShardIds(numLines, shards)
RowDone(w) == row[w] > ShardHi(numLines, shards, w)
\* A fan-out whose wg.Wait were missing.
NotWaiting == TRUE
\* A wait for as many goroutines as there could be.
AllWorkersDone == \A w \in Workers : w \in Active /\ RowDone(w)
\* wg.Wait returns when every goroutine has left its loop.
AllDone == \A w \in Active : RowDone(w)

\* Arrays some live header names.
Live(p, r, sp) == {p[k].arr : k \in DOMAIN p} \cup {r[k].arr : k \in DOMAIN r}
                     \cup {sp[w].out.arr : w \in Workers}
\* make and append's growth return an array nobody holds.
Fresh == Min(Arrays \ Live(primary, rich, split))
\* The garbage collector empties the arrays nothing names any more.
Collect(m, p, r, sp) ==
    [a \in Arrays |-> IF a \in Live(p, r, sp) THEN m[a] ELSE <<>>]

\* m with toks stored in array a from index at + 1, as far as they fit.
Store(m, a, at, toks) ==
    [m EXCEPT ![a] = [j \in DOMAIN @ |->
        IF j \in at + 1 .. at + Len(toks) THEN toks[j - at] ELSE @[j]]]
New(c) == [j \in 1 .. c |-> Blank]

Parts(t) == IF t \in Impure THEN Pieces[t] ELSE <<t>>
\* The rich row of a line: each impure token in its pieces.
RichRow(line) == FlattenSeq([j \in DOMAIN line |-> Parts(line[j])])

\* MaxCap holds every row.
ASSUME CapacityAssumption ==
    \A line \in Lines : Len(line) <= MaxCap /\ Len(RichRow(line)) <= MaxCap

TypeOK ==
    /\ DOMAIN mem = Arrays
    /\ \A a \in Arrays : Len(mem[a]) \in 0 .. MaxCap
    /\ \A t \in {primary, rich} : \A k \in DOMAIN t :
          /\ t[k].arr \in 0 .. NumArrays
          /\ t[k].len \in 0 .. SliceCap(t[k])
    /\ \A k \in DOMAIN lines : lines[k] \in Lines
    /\ mode \in Modes \cup {"none"}
    /\ shards \in 1 .. MaxWorkers
    /\ pc \in {"idle", "tokenize", "grouped", "retok", "full", "rich"}
    /\ parses \in 0 .. MaxParses

Init ==
    /\ mem = [a \in Arrays |-> <<>>]
    /\ primary = <<>>
    /\ rich = <<>>
    /\ lines = <<>>
    /\ mode = "none"
    /\ shards = 1
    /\ pc = "idle"
    /\ row = [w \in Workers |-> 0]
    /\ split = [w \in Workers |-> Whole]
    /\ parses = 0
-----------------------------------------------------------------------------
\* Reslice an outer table to k rows: a new one when the capacity is short.
Table(t, k) == IF Len(t) < k THEN [j \in 1 .. k |-> NoSlice] ELSE t

StartRows(k, s) == [w \in Workers |-> IF w \in ShardIds(k, s)
                                        THEN ShardLo(k, s, w) + 1 ELSE 0]

\* parse is called: any parser may bring its symbols, so any mode may follow
\* any other on the same buffers.  With every punctuation rune a symbol no
\* primary token is left to split.
Call(ls, md, s) ==
    /\ pc = "idle"
    /\ parses < MaxParses
    /\ \E p \in 0 .. MaxWorkers : s = workersFor(Len(ls), p, MaxWorkers, RowsPerWorker)
    /\ md = "same" => \A k \in DOMAIN ls : RichRow(ls[k]) = ls[k]
    /\ parses' = parses + 1
    /\ lines' = ls
    /\ mode' = md
    /\ shards' = s
    /\ primary' = Table(primary, Len(ls))
    /\ mem' = Collect(mem, primary', rich, split)
    /\ row' = StartRows(Len(ls), s)
    /\ pc' = "tokenize"
    /\ UNCHANGED <<rich, split>>

\* A reuse that only asks for some array.
AnyArray(d, k) == d.arr # 0
\* May k tokens be appended to d[:0] in place?
InPlace(d, k) == SliceCap(d) > 0 /\ SliceCap(d) >= k

\* TokenizeInto of line toks over slice d into one of the results a run may
\* give: [mem, slice].  Appends that outgrow the array move to a fresh one and
\* leave what they had written in the old.
Tokenized(toks, d) ==
    IF InPlace(d, Len(toks))
    THEN {[mem |-> Store(mem, d.arr, 0, toks), slice |-> [arr |-> d.arr, len |-> Len(toks)]]}
    ELSE LET old == IF d.arr = 0 THEN mem ELSE Store(mem, d.arr, 0, toks)
         IN  {[mem   |-> Store([old EXCEPT ![Fresh] = New(c)], Fresh, 0, toks),
               slice |-> [arr |-> Fresh, len |-> Len(toks)]]
              : c \in {c \in 1 .. MaxCap : c >= Len(toks)}}

\* A worker tokenizes its next line into the primary table.
TokenizeRow(w) ==
    /\ pc = "tokenize"
    /\ w \in Active
    /\ ~RowDone(w)
    /\ \E res \in Tokenized(lines[row[w]], primary[row[w]]) :
          /\ primary' = [primary EXCEPT ![row[w]] = res.slice]
          /\ mem' = Collect(res.mem, primary', rich, split)
    /\ row' = [row EXCEPT ![w] = @ + 1]
    /\ UNCHANGED <<rich, lines, mode, shards, pc, split, parses>>

\* wg.Wait, then internRows, newTokenRecord and groupByAnchorTokens read the
\* primary rows.
Group ==
    /\ pc = "tokenize"
    /\ AllDone
    /\ pc' = "grouped"
    /\ UNCHANGED <<mem, primary, rich, lines, mode, shards, row, split, parses>>

\* Templates or masks are wanted and the symbols are not all punctuation:
\* size the rich table.
BeginRich ==
    /\ pc = "grouped"
    /\ mode \in {"retok", "full"}
    /\ rich' = Table(rich, numLines)
    /\ mem' = Collect(mem, primary, rich', split)
    /\ row' = StartRows(numLines, shards)
    /\ pc' = mode
    /\ UNCHANGED <<primary, lines, mode, shards, split, parses>>

\* Otherwise the rich rows are not wanted, or are the primary ones.
SkipRich ==
    /\ pc = "grouped"
    /\ mode \in {"none", "same"}
    /\ pc' = "rich"
    /\ UNCHANGED <<mem, primary, rich, lines, mode, shards, row, split, parses>>

\* The symbols are not a subset of the punctuation: tokenize again.
TokenizeRich(w) ==
    /\ pc = "full"
    /\ w \in Active
    /\ ~RowDone(w)
    /\ \E res \in Tokenized(RichRow(lines[row[w]]), rich[row[w]]) :
          /\ rich' = [rich EXCEPT ![row[w]] = res.slice]
          /\ mem' = Collect(res.mem, primary, rich', split)
    /\ row' = [row EXCEPT ![w] = @ + 1]
    /\ UNCHANGED <<primary, lines, mode, shards, pc, split, parses>>

\* The symbols are a subset of the punctuation: split the primary row.  A row
\* with nothing to split is returned as it is, sharing the primary array.
KeepRow(w) ==
    /\ pc = "retok"
    /\ w \in Active
    /\ ~RowDone(w) /\ ~split[w].active
    /\ \A j \in 1 .. primary[row[w]].len : Content(primary[row[w]])[j] \notin Impure
    /\ rich' = [rich EXCEPT ![row[w]] = primary[row[w]]]
    /\ mem' = Collect(mem, primary, rich', split)
    /\ row' = [row EXCEPT ![w] = @ + 1]
    /\ UNCHANGED <<primary, lines, mode, shards, pc, split, parses>>

\* A search for the first split that starts one token late.
LateStart(toks) == Min({j \in DOMAIN toks : toks[j] \in Impure}) + 1
\* The first token to split.
SplitStart(toks) == Min({j \in DOMAIN toks : toks[j] \in Impure})

\* A size that counts each impure token once.
Unsplit(toks) == Len(toks)
\* The tokens of the row once every impure one is in its pieces.
Needed(toks) == Len(RichRow(toks))

\* One destination for all the rows of a fan-out.
SharedDst(k) == rich[1]
\* The slice a split of row k may overwrite.
Dst(k) == rich[k]

\* Otherwise the old rich row of the slot is the destination, when its array
\* is large enough for the result; the tokens before the first split move over.
BeginSplit(w) ==
    /\ pc = "retok"
    /\ w \in Active
    /\ ~RowDone(w) /\ ~split[w].active
    /\ LET toks   == Content(primary[row[w]])
           reuse  == SliceCap(Dst(row[w])) >= Needed(toks)
           arr    == IF reuse THEN Dst(row[w]).arr ELSE Fresh
           target == IF reuse THEN mem ELSE [mem EXCEPT ![arr] = New(Needed(toks))]
           start  == SplitStart(toks)
       IN  /\ \E j \in DOMAIN toks : toks[j] \in Impure
           /\ split' = [split EXCEPT ![w] = [active |-> TRUE, next |-> start,
                                             out |-> [arr |-> arr, len |-> start - 1]]]
           /\ mem' = Store(target, arr, 0, SubSeq(toks, 1, start - 1))
    /\ UNCHANGED <<primary, rich, lines, mode, shards, pc, row, parses>>

\* One turn of the loop: the next primary token, as the array holds it now, is
\* appended whole or in its pieces.
SplitToken(w) ==
    /\ pc = "retok"
    /\ split[w].active
    /\ split[w].next <= primary[row[w]].len
    /\ LET out == split[w].out
           parts == Parts(mem[primary[row[w]].arr][split[w].next])
       IN  /\ mem' = Store(mem, out.arr, out.len, parts)
           /\ split' = [split EXCEPT ![w].next = @ + 1, ![w].out.len = @ + Len(parts)]
    /\ UNCHANGED <<primary, rich, lines, mode, shards, pc, row, parses>>

EndSplit(w) ==
    /\ pc = "retok"
    /\ split[w].active
    /\ split[w].next > primary[row[w]].len
    /\ rich' = [rich EXCEPT ![row[w]] = split[w].out]
    /\ split' = [split EXCEPT ![w] = Whole]
    /\ mem' = Collect(mem, primary, rich', split')
    /\ row' = [row EXCEPT ![w] = @ + 1]
    /\ UNCHANGED <<primary, lines, mode, shards, pc, parses>>

\* wg.Wait: the rich rows are interned, and read for templates and masks.
ReadRich ==
    /\ pc \in {"retok", "full"}
    /\ AllDone
    /\ pc' = "rich"
    /\ UNCHANGED <<mem, primary, rich, lines, mode, shards, row, split, parses>>

\* The caller's locals go; the buffers keep both tables.
Return ==
    /\ pc = "rich"
    /\ pc' = "idle"
    /\ lines' = <<>>
    /\ mode' = "none"
    /\ shards' = 1
    /\ row' = [w \in Workers |-> 0]
    /\ UNCHANGED <<mem, primary, rich, split, parses>>

WorkerStep(w) ==
    \/ TokenizeRow(w)
    \/ TokenizeRich(w)
    \/ KeepRow(w)
    \/ BeginSplit(w)
    \/ SplitToken(w)
    \/ EndSplit(w)

CallerStep == Group \/ BeginRich \/ SkipRich \/ ReadRich \/ Return

Next ==
    \/ \E k \in 1 .. MaxLines, md \in Modes, s \in 1 .. MaxWorkers :
          \E ls \in Injection(1 .. k, Lines) : Call(ls, md, s)
    \/ \E w \in Workers : WorkerStep(w)
    \/ CallerStep

Spec == Init /\ [][Next]_vars

\* Goroutines and the caller waiting for them are scheduled.
FairSpec ==
    /\ Spec
    /\ \A w \in Workers : WF_vars(WorkerStep(w))
    /\ WF_vars(CallerStep)
-----------------------------------------------------------------------------
\* The rich rows a parse reads, when it reads any.
RichSlice(k) == IF mode = "same" THEN primary[k] ELSE rich[k]
HasRich == pc = "rich" /\ mode # "none"

(* A parse with reused buffers builds the rich rows a fresh parse builds:   *)
(* the expansion of each of its lines.                                      *)
RichExact == HasRich => \A k \in 1 .. numLines :
                            Content(RichSlice(k)) = RichRow(lines[k])

(* When the groups are computed, every primary row is its line's tokens,    *)
(* whatever the earlier parses left in the arrays and however the workers   *)
(* interleaved.                                                             *)
PrimaryExact == pc = "grouped" => \A k \in 1 .. numLines :
                            Content(primary[k]) = lines[k]

\* The arrays row k can write.
SlotArrays(k) ==
    ((IF k \in DOMAIN primary THEN {primary[k].arr} ELSE {})
        \cup (IF k \in DOMAIN rich THEN {rich[k].arr} ELSE {})
        \cup {split[w].out.arr : w \in {w \in Workers : split[w].active /\ row[w] = k}})
    \ {0}

(* The fan-outs have no data race, although a rich row may share its        *)
(* primary row's array: no array is reachable from two rows, and no two      *)
(* goroutines are at the same row.                                           *)
NoDataRace ==
    /\ \A j, k \in DOMAIN primary \cup DOMAIN rich :
          j # k => SlotArrays(j) \cap SlotArrays(k) = {}
    /\ \A v, w \in Active :
          (v # w /\ ~RowDone(v) /\ ~RowDone(w)) => row[v] # row[w]

(* The count made before the loop is enough for the loop: no append of a    *)
(* split outgrows the array, even when the loop reads tokens it has itself  *)
(* overwritten.                                                             *)
PresizeFits ==
    \A w \in Workers : split[w].active /\ split[w].next <= primary[row[w]].len =>
        split[w].out.len + Len(Parts(mem[primary[row[w]].arr][split[w].next]))
            <= SliceCap(split[w].out)

\* Row k was split in the array its own primary row occupies.
SplitInPlace(k) ==
    /\ mode = "retok"
    /\ rich[k].arr = primary[k].arr
    /\ RichRow(lines[k]) # lines[k]

(* The only rows that can come out wrong are those: rows that were kept,    *)
(* split elsewhere, tokenized again or taken from the primary table are     *)
(* exact in every parse.                                                    *)
RichExactUnlessInPlace == HasRich => \A k \in 1 .. numLines :
    SplitInPlace(k) \/ Content(RichSlice(k)) = RichRow(lines[k])

(* Every parse returns: no worker waits for another, and the caller waits   *)
(* for all of them.                                                         *)
EveryParseReturns == pc # "idle" ~> pc = "idle"
=============================================================================
