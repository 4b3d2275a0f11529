-------------------------- MODULE MCParseClusters --------------------------
(***************************************************************************)
(* Requests for ParseClusters.  Only the equality of lines matters to a     *)
(* parse, so the lines of a request are numbered by first appearance: the    *)
(* first is message 1, and each is at most one more than those before it.   *)
(* Templates and masks are asked for together when the lines are many.      *)
(* Four different lines, which three workers take in two ranges, come with   *)
(* the empty key first, last and absent, shared keys and keys out of order.  *)
(***************************************************************************)
EXTENDS ParseClusters

MCLines == {l \in UNION {[1 .. k -> Messages] : k \in 0 .. 3} :
              \A k \in DOMAIN l : l[k] = 1 \/ \E j \in 1 .. k - 1 : l[k] <= l[j] + 1}
MCFour == {[lines |-> <<1, 2, 3, 4>>, key |-> k, templates |-> TRUE, masks |-> TRUE]
             : k \in {<<2, 1, 2, 0>>, <<0, 2, 1, 1>>, <<1, 1, 1, 2>>}}
MCRequests == MCFour \cup
    {r \in UNION {[lines : {l}, key : [ToSet(l) -> Keys], templates : BOOLEAN, masks : BOOLEAN]
                  : l \in MCLines} :
        Len(r.lines) = 3 => r.templates = r.masks}
=============================================================================
