---------------------------- MODULE AhoCorasick ----------------------------
(***************************************************************************)
(* The automaton with which the matcher finds, in one pass over a message,  *)
(* every middle literal that occurs in it (aho_corasick.go): a trie of the  *)
(* patterns, failure links computed breadth first, and a scan that reports  *)
(* the patterns ending at each byte until the visitor stops it.             *)
(*                                                                          *)
(* Nodes are numbered from 0, the root, as in the code; pattern ids and     *)
(* positions from 1.                                                        *)
(***************************************************************************)
EXTENDS Integers, SequencesExt

CONSTANTS
    NumBytes,      \* the byte values: 1 .. NumBytes (256 of them in the code)
    PatternLists,  \* the pattern lists an automaton can be built from
    Texts          \* the texts it can be asked to scan

ASSUME AhoCorasickAssumption ==
    /\ NumBytes \in Nat \ {0}
    /\ PatternLists \subseteq Seq(Seq(1 .. NumBytes)) \ {<<>>}
    /\ Texts \subseteq Seq(1 .. NumBytes)

VARIABLES
    patterns,   \* the patterns of this automaton
    next,       \* the fields of a.nodes: next[n][b] is the child of n by byte b,
    fail,       \* fail[n] its failure link,
    out,        \* out[n] the patterns it reports
    pc,
    pid, pos,   \* the pattern being inserted, and how much of it is in
    state,      \* the node the insertion or the scan is at
    queue, head,\* buildFailures' queue and its read position
    byte,       \* the byte its inner loop is at
    probe,      \* the node whose edges it tries
    text, i,    \* the text being scanned, and how much of it has been
    reported,   \* <<id, end>> for each call of visit
    stopped,    \* visit returned false
    word        \* history: the bytes that lead to each node

nodes == <<next, fail, out>>
insertion == <<pid, pos>>
building == <<queue, head, byte, probe>>
scanning == <<text, i, reported, stopped>>
vars == <<patterns, nodes, pc, insertion, state, building, scanning, word>>

Bytes == 1 .. NumBytes
Root == 0
Absent == -1
NoEdges == [b \in Bytes |-> Absent]
Nodes == DOMAIN next
numNodes == Cardinality(Nodes)
Linked == {Root} \cup ToSet(queue)

TypeOK ==
    /\ ToSet(patterns) \subseteq Seq(Bytes)
    /\ Nodes = 0 .. numNodes - 1
    /\ next \in [Nodes -> [Bytes -> {Absent} \cup 1 .. numNodes - 1]]
    /\ fail \in [Nodes -> Nodes]
    /\ DOMAIN out = Nodes /\ \A n \in Nodes : ToSet(out[n]) \subseteq DOMAIN patterns
    /\ pc \in {"insert", "roots", "fail", "chase", "ready", "scan"}
    /\ pid \in 1 .. Len(patterns) + 1
    /\ {state, probe} \subseteq Nodes
    /\ ToSet(queue) \subseteq Nodes
    /\ head \in 0 .. Len(queue)
    /\ byte \in 1 .. NumBytes + 1
    /\ i \in 0 .. Len(text)
    /\ DOMAIN word = Nodes

Init ==
    /\ patterns \in PatternLists
    /\ next = [n \in {Root} |-> NoEdges]
    /\ fail = [n \in {Root} |-> Root]
    /\ out = [n \in {Root} |-> <<>>]
    /\ pc = "insert"
    /\ pid = 1
    /\ pos = 0
    /\ state = Root
    /\ queue = <<>>
    /\ head = 0
    /\ byte = 1
    /\ probe = Root
    /\ text = <<>>
    /\ i = 0
    /\ reported = {}
    /\ stopped = FALSE
    /\ word = [n \in {Root} |-> <<>>]
-----------------------------------------------------------------------------
\* The length read after the append.
LateId == numNodes + 1
\* The id of a new node: int32(len(a.nodes)) before the append.
FreshId == numNodes

\* The node table with one node more.
Grown(field, value) ==
    [n \in Nodes \cup {FreshId} |-> IF n = FreshId THEN value ELSE field[n]]

\* One byte of a pattern: down an edge of the trie, grown where it is missing.
InsertByte ==
    /\ pc = "insert"
    /\ pid <= Len(patterns)
    /\ pos < Len(patterns[pid])
    /\ LET b == patterns[pid][pos + 1]
           edge == next[state][b]
       IN  \/ /\ edge # Absent
              /\ state' = edge
              /\ UNCHANGED <<nodes, word>>
           \/ /\ edge = Absent
              /\ state' = FreshId
              /\ next' = Grown([next EXCEPT ![state][b] = FreshId], NoEdges)
              /\ fail' = Grown(fail, Root)
              /\ out' = Grown(out, <<>>)
              /\ word' = Grown(word, Append(word[state], b))
    /\ pos' = pos + 1
    /\ UNCHANGED <<patterns, pc, pid, building, scanning>>

\* Its last node reports it; an empty pattern is skipped.
InsertEnd ==
    /\ pc = "insert"
    /\ pid <= Len(patterns)
    /\ pos = Len(patterns[pid])
    /\ out' = IF pos = 0 THEN out ELSE [out EXCEPT ![state] = Append(@, pid)]
    /\ pid' = pid + 1
    /\ pos' = 0
    /\ state' = Root
    /\ UNCHANGED <<patterns, next, fail, pc, building, scanning, word>>

\* buildFailures begins with the edges of the root.
StartFailures ==
    /\ pc = "insert"
    /\ pid > Len(patterns)
    /\ pc' = "roots"
    /\ UNCHANGED <<patterns, nodes, insertion, state, building, scanning, word>>

\* A child of the root fails to the root.
RootByte ==
    /\ pc = "roots"
    /\ byte <= NumBytes
    /\ LET c == next[Root][byte]
       IN  IF c = Absent THEN UNCHANGED <<fail, queue>>
           ELSE /\ fail' = [fail EXCEPT ![c] = Root]
                /\ queue' = Append(queue, c)
    /\ byte' = byte + 1
    /\ UNCHANGED <<patterns, next, out, pc, insertion, state, head, probe, scanning, word>>

\* Then the nodes of the queue, one after the other.
RootEnd ==
    /\ pc = "roots"
    /\ byte > NumBytes
    /\ byte' = 1
    /\ pc' = "fail"
    /\ UNCHANGED <<patterns, nodes, insertion, state, queue, head, probe, scanning, word>>

\* The node whose children are being linked.
Current == queue[head + 1]

\* It has no child by this byte.
SkipByte ==
    /\ pc = "fail"
    /\ head < Len(queue)
    /\ byte <= NumBytes
    /\ next[Current][byte] = Absent
    /\ byte' = byte + 1
    /\ UNCHANGED <<patterns, nodes, pc, insertion, state, queue, head, probe, scanning, word>>

\* It has one, whose failure is looked for from the node's own.
StartChase ==
    /\ pc = "fail"
    /\ head < Len(queue)
    /\ byte <= NumBytes
    /\ next[Current][byte] # Absent
    /\ probe' = fail[Current]
    /\ pc' = "chase"
    /\ UNCHANGED <<patterns, nodes, insertion, state, queue, head, byte, scanning, word>>

\* A byte that has no edge goes to the root at once.
NeverStuck(n, b) == FALSE
\* The failure of n must be followed to go on with byte b.
Stuck(n, b) == n # Root /\ next[n][b] = Absent

\* Where byte b leads from a node that is not stuck.
Target(n, b) == IF next[n][b] = Absent THEN Root ELSE next[n][b]

FollowFailure ==
    /\ pc = "chase"
    /\ Stuck(probe, byte)
    /\ probe' = fail[probe]
    /\ UNCHANGED <<patterns, nodes, pc, insertion, state, queue, head, byte, scanning, word>>

\* A node that only reports the pattern it ends.
OwnOut(n, f) == out[n]
\* What n reports once its failure f is known: f's patterns end here too.
WithFailOut(n, f) == out[n] \o out[f]

\* The newest node first, after the h that are read.
DepthFirst(q, h, new) == SubSeq(q, 1, h) \o <<new>> \o SubSeq(q, h + 1, Len(q))
\* queue = append(queue, next)
BreadthFirst(q, h, new) == Append(q, new)

\* The child is linked, and queued: the code queues it before it looks for the
\* failure, which does not read the queue.
LinkChild ==
    /\ pc = "chase"
    /\ ~Stuck(probe, byte)
    /\ LET c == next[Current][byte]
           f == Target(probe, byte)
       IN  /\ fail' = [fail EXCEPT ![c] = f]
           /\ out' = [out EXCEPT ![c] = WithFailOut(c, f)]
           /\ queue' = BreadthFirst(queue, head + 1, c)
    /\ byte' = byte + 1
    /\ pc' = "fail"
    /\ UNCHANGED <<patterns, next, insertion, state, head, probe, scanning, word>>

EndNode ==
    /\ pc = "fail"
    /\ head < Len(queue)
    /\ byte > NumBytes
    /\ head' = head + 1
    /\ byte' = 1
    /\ UNCHANGED <<patterns, nodes, pc, insertion, state, queue, probe, scanning, word>>

Built ==
    /\ pc = "fail"
    /\ head = Len(queue)
    /\ pc' = "ready"
    /\ UNCHANGED <<patterns, nodes, insertion, state, building, scanning, word>>

\* Search is called.
Search(t) ==
    /\ pc = "ready"
    /\ text' = t
    /\ i' = 0
    /\ state' = Root
    /\ reported' = {}
    /\ stopped' = FALSE
    /\ pc' = "scan"
    /\ UNCHANGED <<patterns, nodes, insertion, building, word>>

\* The next byte has no edge here: the failure link is followed.
ScanFail ==
    /\ pc = "scan"
    /\ i < Len(text)
    /\ Stuck(state, text[i + 1])
    /\ state' = fail[state]
    /\ UNCHANGED <<patterns, nodes, pc, insertion, building, scanning, word>>

\* It has: visit sees the patterns of the node it leads to, in order, and may
\* stop the scan at any of them.
ScanByte ==
    /\ pc = "scan"
    /\ i < Len(text)
    /\ ~Stuck(state, text[i + 1])
    /\ LET n == Target(state, text[i + 1])
           seen(k) == {<<out[n][j], i + 1>> : j \in 1 .. k}
       IN  /\ state' = n
           /\ \/ /\ reported' = reported \cup seen(Len(out[n]))
                 /\ UNCHANGED <<stopped, pc>>
              \/ /\ \E k \in DOMAIN out[n] : reported' = reported \cup seen(k)
                 /\ stopped' = TRUE
                 /\ pc' = "ready"
    /\ i' = i + 1
    /\ UNCHANGED <<patterns, nodes, insertion, building, text, word>>

ScanEnd ==
    /\ pc = "scan"
    /\ i = Len(text)
    /\ pc' = "ready"
    /\ UNCHANGED <<patterns, nodes, insertion, state, building, scanning, word>>

Next ==
    \/ InsertByte \/ InsertEnd
    \/ StartFailures \/ RootByte \/ RootEnd
    \/ SkipByte \/ StartChase \/ FollowFailure \/ LinkChild \/ EndNode \/ Built
    \/ \E t \in Texts : Search(t)
    \/ ScanFail \/ ScanByte \/ ScanEnd

Spec == Init /\ [][Next]_vars
-----------------------------------------------------------------------------
\* The patterns looked for: empty ones are skipped.
Sought == {p \in DOMAIN patterns : patterns[p] # <<>>}

EndsWith(w, p) == Len(p) <= Len(w) /\ SubSeq(w, Len(w) - Len(p) + 1, Len(w)) = p

\* The nodes whose word is a proper suffix of w.
SuffixNodes(w) == {m \in Nodes : Len(word[m]) < Len(w) /\ EndsWith(w, word[m])}

(* As soon as a node is in the queue, its failure link leads to the longest   *)
(* proper suffix of its word that the trie holds: the links of the nodes      *)
(* above it, which the computation follows, were already final.               *)
FailuresLongest ==
    pc # "insert" => \A n \in Linked \ {Root} :
        /\ fail[n] \in SuffixNodes(word[n])
        /\ \A m \in SuffixNodes(word[n]) : Len(word[m]) <= Len(word[fail[n]])

(* And it reports, once each, the patterns its word ends with: none that ends *)
(* inside a longer pattern is lost.                                           *)
OutputsComplete ==
    pc # "insert" => \A n \in Linked :
        /\ ToSet(out[n]) = {p \in Sought : EndsWith(word[n], patterns[p])}
        /\ IsInjective(out[n])

Occurrences(k) == {o \in Sought \X (1 .. k) : EndsWith(SubSeq(text, 1, o[2]), patterns[o[1]])}

(* The scan reports every occurrence of every pattern in what it has read,    *)
(* and nothing else; a scan that visit stopped reports some of them.          *)
ScanExact ==
    pc # "insert" =>
        /\ reported \subseteq Occurrences(i)
        /\ ~stopped => reported = Occurrences(i)
=============================================================================
