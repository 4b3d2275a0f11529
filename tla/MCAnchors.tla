----------------------------- MODULE MCAnchors -----------------------------
(***************************************************************************)
(* Corpora for Anchors.  A row is a set of tokens in a fixed order.          *)
(***************************************************************************)
EXTENDS Anchors

MCFilter == [alphabetic |-> TRUE, numeric |-> FALSE, impure |-> FALSE]

Tok(id, kind) == [id |-> id, kind |-> kind]
Words(k) == {Tok(id, "alphabetic") : id \in 1 .. k}

\* Tokens of several kinds: id 1 is both a word and a black slice, id 4 a
\* number the filter leaves out.
Mixed == Words(2) \cup {Tok(1, "specialBlack"), Tok(3, "specialWhite"), Tok(4, "numeric")}

Before(t, u) == t.id < u.id \/ (t.id = u.id /\ t.kind = "alphabetic" /\ u.kind # "alphabetic")
RowOf(S) == SetToSortSeq(S, Before)

CorpusOf(sets, cs) ==
    [rows |-> [k \in DOMAIN sets |-> RowOf(sets[k])], counts |-> cs]

\* Rows are taken in any order: of two sets the one with the smaller number
\* comes first.
Number(S) == MapThenSumSet(LAMBDA t : 2 ^ (2 * t.id + IF t.kind = "alphabetic" THEN 0 ELSE 1), S)

Counts(k, max) == [1 .. k -> 1 .. max]

\* One row of every word, beside up to two rows of some of the words.
GraphCorpora(k) ==
    LET some == SUBSET Words(k) \ {{}, Words(k)}
    IN  {CorpusOf(<<Words(k), A>>, cs) : A \in some, cs \in Counts(2, 2)}
        \cup UNION {{CorpusOf(<<Words(k), A, B>>, cs) :
                       B \in {B \in some : Number(B) <= Number(A)}, cs \in {<<1, c, d>> : c, d \in 1 .. 2}}
                    : A \in some}
MCGraphs == GraphCorpora(4)

\* Two rows of mixed tokens.
MCMixed == {CorpusOf(<<A, B>>, <<1, 1>>) : <<A, B>> \in
              {p \in (SUBSET Mixed \ {{}}) \X (SUBSET Mixed \ {{}}) :
                 Number(p[1]) < Number(p[2])}}

\* The graphs are for the passes: a row at a time shows them.  The mixed rows
\* are for the scratch: it takes three, so that another comes in between.
MCCorpora == MCGraphs \cup MCMixed
MCMaxRuns(c) == IF c \in MCMixed THEN 3 ELSE 1
=============================================================================
