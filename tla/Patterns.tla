------------------------------ MODULE Patterns ------------------------------
(***************************************************************************)
(* From the rows of a cluster to its templates and masks (template.go), and *)
(* the choice of the rows the patterns are made from (samplePositions,      *)
(* parser.go).  A row is a sequence of tokens [kind, slice], a slice stands *)
(* for its text and for its id; "*" is the placeholder <*>.                 *)
(***************************************************************************)
EXTENDS Integers, Sequences, SortedLists
-----------------------------------------------------------------------------
\* A candidate test that forgets the white tokens.
OrdinaryCandidate(filter, kind) ==
    \/ kind \in {"whitespace", "symbolic"}
    \/ kind = "alphabetic" /\ filter.alphabetic
    \/ kind = "numeric" /\ filter.numeric
    \/ kind = "impure" /\ filter.impure
commonCandidate(filter, kind) == kind = "specialWhite" \/ OrdinaryCandidate(filter, kind)

\* sharedSlices: the slices that are a candidate of every row.  CommonMarks
\* models how the marks find them.
sharedSlices(filter, rows) ==
    LET Slices(row) == {row[j].slice : j \in {j \in DOMAIN row : commonCandidate(filter, row[j].kind)}}
    IN  IF rows = <<>> THEN {}
        ELSE {s \in Slices(rows[1]) : \A k \in DOMAIN rows : s \in Slices(rows[k])}

\* templatesForCluster, for one row: common slices, and a placeholder for each
\* run of others.
templateOf(row, common) ==
    LET kept == Ascending({j \in DOMAIN row :
                    row[j].slice \in common \/ j = 1 \/ row[j - 1].slice \in common})
    IN  [k \in DOMAIN kept |-> IF row[kept[k]].slice \in common THEN row[kept[k]].slice ELSE "*"]

templatesForCluster(rows, common) == {templateOf(rows[k], common) : k \in DOMAIN rows}

\* parameterMasks, for one row: 1 where a parameter is.
parameterMask(row, common) == [j \in DOMAIN row |-> IF row[j].slice \in common THEN 0 ELSE 1]
-----------------------------------------------------------------------------
\* math.Ceil(float64(n) * sample) and the clamp, for a sample that a float64
\* holds exactly.
sampleSize(n, sample) ==
    LET c == (n * sample.num + sample.den - 1) \div sample.den
    IN  IF c < 1 THEN 1 ELSE c

\* A step that counts a row too many.
ShortStep(n, size) == [num |-> n - 1, den |-> size]
\* step := (n-1)/(sampleN-1)
SampleStep(n, size) == [num |-> n - 1, den |-> size - 1]

\* q is what math.Round may make of i * step: an integer nearest to it, either
\* of two at a tie, where the float64 product can fall on either side.
Rounds(q, i, step) ==
    /\ 2 * step.den * q <= 2 * i * step.num + step.den
    /\ 2 * i * step.num - step.den <= 2 * step.den * q

\* The two corrections of the loop.
Corrected(q, prev, n) ==
    LET up == IF q <= prev THEN prev + 1 ELSE q
    IN  IF up >= n THEN n - 1 ELSE up

\* The positions, from 0 as in the code, of size rows of n when 1 < size < n.
Spread(n, size) ==
    {pos \in [1 .. size -> 0 .. n - 1] :
        \A i \in 1 .. size : \E q \in 0 .. n :
            /\ Rounds(q, i - 1, SampleStep(n, size))
            /\ pos[i] = Corrected(q, IF i = 1 THEN -1 ELSE pos[i - 1], n)}

\* samplePositions; every row where the code returns nil.
samplePositions(n, sample) ==
    LET size == sampleSize(n, sample)
    IN  IF n <= 1 \/ sample.num >= sample.den \/ size >= n
        THEN {[i \in 1 .. n |-> i - 1]}
        ELSE IF size = 1 THEN {<<0>>}
        ELSE Spread(n, size)
=============================================================================
