--------------------------- MODULE MCCorpusCodec ---------------------------
(***************************************************************************)
(* CorpusCodec over lines of words, a white token, a black one, numbers,    *)
(* which the filter leaves out, and the text <*>.                          *)
(***************************************************************************)
EXTENDS CorpusCodec

MCFilter == [alphabetic |-> TRUE, numeric |-> FALSE, impure |-> FALSE]

\* The row of a text; the black regex is ^x, so that x is black at the start of
\* a line only.
Kind(slice) == CASE slice \in {"a", "b", "x"} -> "alphabetic"
                 [] slice = "w" -> "specialWhite"
                 [] slice = "*" -> "symbolic"
                 [] OTHER -> "numeric"
Row(t) == [j \in DOMAIN t |-> [kind |-> IF j = 1 /\ t[j] = "x" THEN "specialBlack" ELSE Kind(t[j]),
                               slice |-> t[j]]]
Rows(texts) == {Row(t) : t \in texts}

MCLines == Rows({<<>>, <<"1">>, <<"*">>, <<"a">>, <<"a", "1">>, <<"x", "a">>, <<"1", "a", "1">>,
                 <<"a", "b">>, <<"b", "a">>, <<"a", "1", "2">>, <<"a", "*", "1">>, <<"1", "w">>,
                 <<"a", "w">>, <<"x", "a", "x">>})
MCFew == Rows({<<"a">>, <<"1", "a">>, <<"a", "1", "a">>, <<"1", "a", "1">>})
\* Some line comes again after the table may have grown; enough lines have a b
\* for it not to be tied to the a.
MCRepeats == {<<Row(<<"a">>), Row(<<"b", "1">>), m, Row(<<"1", "a", "1">>), m, Row(<<"b", "2">>)>> :
                 m \in Rows({<<"b", "a", "1">>, <<"a", "1">>, <<"1", "a", "2">>})}
MCCorpora == UNION {[1 .. n -> MCLines] : n \in 0 .. 3} \cup [1 .. 4 -> MCFew] \cup MCRepeats
\* No line of these holds the text <*>.
MCFewCorpora == [1 .. 3 -> MCFew]
MCHalf == {[num |-> 1, den |-> 2]}
MCSamples == MCHalf \cup {[num |-> n, den |-> 4] : n \in {1, 3, 4}}
=============================================================================
