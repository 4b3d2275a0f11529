---------------------------- MODULE SortedLists ----------------------------
(***************************************************************************)
(* A set of numbers in ascending order, as the loops over indices and        *)
(* sort.Ints leave them.                                                     *)
(***************************************************************************)
EXTENDS Integers, FiniteSets

\* The members of S in ascending order.
Ascending(S) ==
    CHOOSE s \in [1 .. Cardinality(S) -> S] : \A j, k \in DOMAIN s : j < k => s[j] < s[k]
=============================================================================
