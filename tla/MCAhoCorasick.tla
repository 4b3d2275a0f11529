---------------------------- MODULE MCAhoCorasick ----------------------------
(***************************************************************************)
(* AhoCorasick over two byte values: every sorted list of three patterns of   *)
(* up to three bytes, and of one or two patterns of up to four; NewMatcher  *)
(* sorts the middle literals in byte order.                                 *)
(***************************************************************************)
EXTENDS AhoCorasick

MCNumBytes == 2
MCWords(k) == UNION {[1 .. l -> 1 .. MCNumBytes] : l \in 1 .. k}

\* Byte order of two words.
WordBefore(v, w) ==
    LET common == LongestCommonPrefix({v, w})
        k == Len(common) + 1
    IN  k <= Len(w) /\ (k <= Len(v) => v[k] < w[k])

MCPatternLists ==
    {SetToSortSeq(P, WordBefore) :
        P \in {{v, w} : v, w \in MCWords(4)} \cup {{u, v, w} : u, v, w \in MCWords(3)}}
MCTexts == MCWords(4)
=============================================================================
