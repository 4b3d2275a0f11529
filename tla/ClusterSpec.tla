---------------------------- MODULE ClusterSpec ----------------------------
(***************************************************************************)
(* What a parse promises (parser.go), with nothing of how it computes it:   *)
(* a cluster is the set of the lines that share a non-empty anchor key,     *)
(* clusters are numbered from 0 in the order of their keys, a line with no  *)
(* anchors has cluster -1, and a mask belongs to the line it was made from. *)
(* The answer depends on the lines alone: not on the parallelism, nor on    *)
(* what the buffers were used for before.                                   *)
(*                                                                          *)
(* A template list and a mask are functions of a cluster's lines, so the    *)
(* lines stand for them: a cluster's templates are its set of lines, a mask *)
(* is a line with the set of lines of its cluster.                          *)
(***************************************************************************)
EXTENDS Integers, Sequences, FiniteSets

CONSTANTS
    Messages,   \* the log lines
    Keys,       \* canonical anchor keys in byte order; 0 is the empty key
    MaxLines,   \* bound on the lines of a parse
    Requests    \* the parses that may be asked for

VARIABLES
    pending,    \* a parse is in progress
    request,    \* its lines, their anchor keys and what the caller wants
    answer      \* what the last finished parse returned

vars == <<pending, request, answer>>

NoRequest == [lines |-> <<>>, key |-> <<>>, templates |-> FALSE, masks |-> FALSE]
NoAnswer == [clusters |-> <<>>, templates |-> <<>>, masks |-> <<>>]

\* The mask of a line no cluster holds.
NoMask == <<>>

LinesOf(r) == {r.lines[k] : k \in DOMAIN r.lines}

\* What a caller passes: lines, each with the key of its anchors, and whether
\* templates and masks are wanted.
IsRequest(r) ==
    /\ r.lines \in Seq(Messages) /\ Len(r.lines) <= MaxLines
    /\ r.key \in [LinesOf(r) -> Keys]
    /\ {r.templates, r.masks} \subseteq BOOLEAN

UsedKeys(r) == {r.key[m] : m \in LinesOf(r)} \ {0}
Sharing(r, key) == {m \in LinesOf(r) : r.key[m] = key}
ClusterOf(r, m) ==
    IF r.key[m] = 0 THEN -1 ELSE Cardinality({k \in UsedKeys(r) : k < r.key[m]})

Answer(r) ==
    [clusters  |-> [k \in DOMAIN r.lines |-> ClusterOf(r, r.lines[k])],
     templates |->
        IF ~r.templates THEN <<>>
        ELSE [c \in 1 .. Cardinality(UsedKeys(r)) |->
                {m \in LinesOf(r) : ClusterOf(r, m) = c - 1}],
     masks     |->
        IF ~r.masks THEN <<>>
        ELSE [k \in DOMAIN r.lines |->
                IF r.key[r.lines[k]] = 0 THEN NoMask
                ELSE <<r.lines[k], Sharing(r, r.key[r.lines[k]])>>]]

Init ==
    /\ pending = FALSE
    /\ request = NoRequest
    /\ answer = NoAnswer

\* A parse is asked for.
Ask ==
    /\ ~pending
    /\ pending' = TRUE
    /\ request' \in Requests
    /\ UNCHANGED answer

\* It returns.
Reply ==
    /\ pending
    /\ pending' = FALSE
    /\ answer' = Answer(request)
    /\ request' = NoRequest

Next == Ask \/ Reply

Spec == Init /\ [][Next]_vars

\* Every parse that is asked for returns.
FairSpec == Spec /\ WF_vars(Reply)
=============================================================================
