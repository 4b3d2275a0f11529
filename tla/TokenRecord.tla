---------------------------- MODULE TokenRecord ----------------------------
(***************************************************************************)
(* How often tokens occur, and occur together, over a corpus                *)
(* (token_record.go, token_filter.go).  A token is [id, kind]: the id is    *)
(* that of its slice, so tokens of different kinds can share one.  A corpus *)
(* is [rows, counts]: the unique rows and how many lines each stands for.   *)
(***************************************************************************)
EXTENDS Integers, SequencesExt

\* staticFilter.keep: the kinds that take part in the counting.
keep(filter, kind) ==
    \/ kind = "alphabetic" /\ filter.alphabetic
    \/ kind = "numeric" /\ filter.numeric
    \/ kind = "impure" /\ filter.impure
    \/ kind = "specialWhite"

\* The ids a row counts: each once, however often the row holds it.
KeptIds(filter, row) == {row[j].id : j \in {j \in DOMAIN row : keep(filter, row[j].kind)}}

\* The lines whose row holds all of ids.
WeightOf(filter, corpus, ids) ==
    MapThenSumSet(LAMBDA r : corpus.counts[r],
                  {r \in DOMAIN corpus.rows : ids \subseteq KeptIds(filter, corpus.rows[r])})

\* record.occ[id]
occ(filter, corpus, id) == WeightOf(filter, corpus, {id})

\* record.co[newTokenPairID(a, b)]: a pair of one id is never counted.
co(filter, corpus, a, b) == IF a = b THEN 0 ELSE WeightOf(filter, corpus, {a, b})
=============================================================================
