------------------------------ MODULE Anchors ------------------------------
(***************************************************************************)
(* anchorTokens (graph.go): the anchors of a row are the tokens of the      *)
(* largest strongly connected component of its dependency graph, the white  *)
(* tokens added and the black ones removed.  The graph has an edge from a   *)
(* token to each token it seldom occurs without; Kosaraju's two passes find *)
(* the components without recursion.                                        *)
(*                                                                          *)
(* One goroutine computes row after row with one anchorScratch.  The        *)
(* scratch is never reallocated for its own sake: marks are told apart by   *)
(* an epoch, the slices are resliced and refilled, the map is cleared.      *)
(* Nodes are numbered from 1.  The threshold is the fraction                *)
(* threshold / ThresholdDen.                                                *)
(***************************************************************************)
EXTENDS TokenRecord, SortedLists

CONSTANTS
    Corpora,       \* the corpora a parse can be given
    Thresholds,    \* numerators of the thresholds
    ThresholdDen,  \* their denominator
    Filter,        \* the parser's staticFilter
    MaxRuns(_)     \* bound on the rows of a corpus computed with one scratch

ASSUME AnchorsAssumption ==
    /\ ThresholdDen \in Nat \ {0}
    /\ Thresholds \subseteq 0 .. ThresholdDen
    /\ \A c \in Corpora :
          /\ c.rows \in Seq(Seq([id : Nat, kind : STRING]))
          /\ c.counts \in [DOMAIN c.rows -> Nat]
          /\ MaxRuns(c) \in Nat

VARIABLES
    corpus, threshold,   \* the parse's record and threshold
    row,                 \* the row in progress
    pc,
    epoch, nodeEpoch, nodeKinds,   \* scratch: which ids this row has seen
    nodes,                         \* scratch.nodes
    next,                          \* the index of the loop in progress
    adj, rev,                      \* scratch.adj, scratch.rev
    visited, frames, order,        \* the passes
    stack, comp, largest,
    anchors,                       \* scratch.anchors
    runs, found                    \* history: rows computed, with what anchors

parse == <<corpus, threshold>>
marks == <<epoch, nodeEpoch, nodeKinds>>
graph == <<adj, rev>>
pass1 == <<frames, order>>
pass2 == <<stack, comp, largest>>
history == <<runs, found>>
vars == <<parse, row, pc, marks, nodes, next, graph, visited, pass1, pass2,
          anchors, history>>

Tokens == UNION {ToSet(corpus.rows[r]) : r \in DOMAIN corpus.rows}
TokenIds == {t.id : t \in Tokens}
numNodes == Len(nodes)
Line == corpus.rows[row]
Occ(id) == occ(Filter, corpus, id)
Co(a, b) == co(Filter, corpus, a, b)

AnchorsTypeOK ==
    /\ row \in 0 .. Len(corpus.rows)
    /\ pc \in {"idle", "nodes", "edges", "pass1", "pass2", "special", "done"}
    /\ nodes \in Seq(Tokens)
    /\ \A id \in TokenIds : nodeEpoch[id] \in 0 .. epoch
    /\ \A k \in DOMAIN frames : frames[k].v \in 1 .. numNodes /\ frames[k].i <= Len(adj[frames[k].v])
    /\ ToSet(order) \cup ToSet(stack) \cup ToSet(comp) \subseteq 1 .. Len(adj)
    /\ anchors \subseteq Tokens
    /\ runs \in 0 .. MaxRuns(corpus)

Init ==
    /\ corpus \in Corpora
    /\ threshold \in Thresholds
    /\ row = 0
    /\ pc = "idle"
    /\ epoch = 0
    /\ nodeEpoch = [id \in TokenIds |-> 0]
    /\ nodeKinds = [id \in TokenIds |-> {}]
    /\ nodes = <<>>
    /\ next = 1
    /\ adj = <<>>
    /\ rev = <<>>
    /\ visited = {}
    /\ frames = <<>>
    /\ order = <<>>
    /\ stack = <<>>
    /\ comp = <<>>
    /\ largest = <<>>
    /\ anchors = {}
    /\ runs = 0
    /\ found = [r \in DOMAIN corpus.rows |-> {}]
-----------------------------------------------------------------------------
\* The goroutine takes a row; the marks of earlier rows are left behind by the
\* epoch.
Begin(r) ==
    /\ pc = "idle"
    /\ runs < MaxRuns(corpus)
    /\ row' = r
    /\ nodes' = <<>>
    /\ epoch' = epoch + 1
    /\ next' = 1
    /\ pc' = "nodes"
    /\ UNCHANGED <<parse, nodeEpoch, nodeKinds, graph, visited, pass1, pass2, anchors,
                   history>>

\* The kinds of id the marks say this row has given nodes, when the epoch is
\* not looked at.
AnyEpoch(id) == nodeKinds[id]
\* The same as the code reads it: an older epoch's kinds count for nothing.
SeenKinds(id) == IF nodeEpoch[id] = epoch THEN nodeKinds[id] ELSE {}

\* One turn of the loop over the tokens: a node per kind of each id that some
\* row counted.
CollectToken ==
    /\ pc = "nodes"
    /\ next <= Len(Line)
    /\ LET tok == Line[next]
       IN  \/ /\ Occ(tok.id) = 0
              /\ UNCHANGED <<nodes, nodeEpoch, nodeKinds>>
           \/ /\ Occ(tok.id) # 0
              /\ nodeEpoch' = [nodeEpoch EXCEPT ![tok.id] = epoch]
              /\ nodeKinds' = [nodeKinds EXCEPT ![tok.id] = SeenKinds(tok.id) \cup {tok.kind}]
              /\ nodes' = IF tok.kind \in SeenKinds(tok.id) THEN nodes ELSE Append(nodes, tok)
    /\ next' = next + 1
    /\ UNCHANGED <<parse, row, pc, epoch, graph, visited, pass1, pass2, anchors, history>>

\* No node: no anchors.  One node: it is the component.
FewNodes ==
    /\ pc = "nodes"
    /\ next > Len(Line)
    /\ numNodes <= 1
    /\ anchors' = ToSet(nodes)
    /\ pc' = IF numNodes = 0 THEN "done" ELSE "special"
    /\ UNCHANGED <<parse, row, marks, nodes, next, graph, visited, pass1, pass2, history>>

ManyNodes ==
    /\ pc = "nodes"
    /\ next > Len(Line)
    /\ numNodes > 1
    /\ anchors' = {}
    /\ pc' = "edges"
    /\ UNCHANGED <<parse, row, marks, nodes, next, graph, visited, pass1, pass2, history>>

\* A dependency counted without regard to how often the token occurs.
AnyTogether(i, j) == Co(nodes[i].id, nodes[j].id) > 0
\* Node i depends on node j: co > occ[i] * threshold.
Depends(i, j) ==
    /\ Co(nodes[i].id, nodes[j].id) > 0
    /\ Co(nodes[i].id, nodes[j].id) * ThresholdDen > Occ(nodes[i].id) * threshold

\* ensureEdgeBuffer without the truncation of each list.
KeepLists(buf, k) == [v \in 1 .. k |-> IF v \in DOMAIN buf THEN buf[v] ELSE <<>>]
\* ensureEdgeBuffer: k empty lists.
EmptyLists(buf, k) == [v \in 1 .. k |-> <<>>]

\* The double loop over pairs leaves every list in ascending order.
BuildGraph ==
    /\ pc = "edges"
    /\ LET N == 1 .. numNodes
           lists == EmptyLists(adj, numNodes)
           back == EmptyLists(rev, numNodes)
       IN  /\ adj' = [v \in N |-> lists[v] \o Ascending({u \in N \ {v} : Depends(v, u)})]
           /\ rev' = [v \in N |-> back[v] \o Ascending({u \in N \ {v} : Depends(u, v)})]
    /\ order' = <<>>
    /\ visited' = {}
    /\ frames' = <<>>
    /\ next' = 1
    /\ pc' = "pass1"
    /\ UNCHANGED <<parse, row, marks, nodes, pass2, anchors, history>>

\* Pass 1: the next root of the depth-first search.
PushRoot ==
    /\ pc = "pass1"
    /\ frames = <<>>
    /\ next <= numNodes
    /\ \/ /\ next \in visited
          /\ UNCHANGED <<visited, frames>>
       \/ /\ next \notin visited
          /\ visited' = visited \cup {next}
          /\ frames' = <<[v |-> next, i |-> 0]>>
    /\ next' = next + 1
    /\ UNCHANGED <<parse, row, pc, marks, nodes, graph, order, pass2, anchors, history>>

\* The top frame looks at its next edge.
FollowEdge ==
    /\ pc = "pass1"
    /\ frames # <<>>
    /\ LET f == Last(frames)
           moved == [frames EXCEPT ![Len(frames)].i = @ + 1]
           to == adj[f.v][f.i + 1]
       IN  /\ f.i < Len(adj[f.v])
           /\ visited' = visited \cup {to}
           /\ frames' = IF to \in visited THEN moved ELSE Append(moved, [v |-> to, i |-> 0])
    /\ UNCHANGED <<parse, row, pc, marks, nodes, next, graph, order, pass2, anchors, history>>

\* A node numbered when it is finished, or, wrongly, when it is met last.
Preorder(v) == <<v>> \o order
\* order = append(order, f.v)
Postorder(v) == Append(order, v)

\* The top frame has no edge left: its node is finished.
FinishNode ==
    /\ pc = "pass1"
    /\ frames # <<>>
    /\ Last(frames).i >= Len(adj[Last(frames).v])
    /\ order' = Postorder(Last(frames).v)
    /\ frames' = Front(frames)
    /\ UNCHANGED <<parse, row, pc, marks, nodes, next, graph, visited, pass2, anchors, history>>

EndPass1 ==
    /\ pc = "pass1"
    /\ frames = <<>>
    /\ next > numNodes
    /\ visited' = {}
    /\ largest' = <<>>
    /\ stack' = <<>>
    /\ comp' = <<>>
    /\ next' = Len(order)
    /\ pc' = "pass2"
    /\ UNCHANGED <<parse, row, marks, nodes, graph, pass1, anchors, history>>

\* A loop that meets a visited node and stays at it.
Stay(k) == k
\* The loop's i--.
Down(k) == k - 1

\* Pass 2, over order from its end: a node not yet visited opens a component.
OpenComponent ==
    /\ pc = "pass2"
    /\ stack = <<>> /\ comp = <<>>
    /\ next >= 1
    /\ \/ /\ order[next] \in visited
          /\ next' = Down(next)
          /\ UNCHANGED <<visited, stack>>
       \/ /\ order[next] \notin visited
          /\ visited' = visited \cup {order[next]}
          /\ stack' = <<order[next]>>
          /\ UNCHANGED next
    /\ UNCHANGED <<parse, row, pc, marks, nodes, graph, pass1, comp, largest, anchors, history>>

\* The lists pass 2 walks, were it to take the wrong ones.
Forward == adj
\* for _, to := range rev[x]
Backward == rev

\* The nodes of list not yet seen, each marked when it is pushed.
Unseen(list, seen) ==
    LET push[k \in 0 .. Len(list)] ==
            IF k = 0 THEN <<>>
            ELSE IF list[k] \in seen \cup ToSet(push[k - 1]) THEN push[k - 1]
                 ELSE Append(push[k - 1], list[k])
    IN  push[Len(list)]

\* The top of the stack joins the component and pushes its unvisited neighbours.
GrowComponent ==
    /\ pc = "pass2"
    /\ stack # <<>>
    /\ LET x == Last(stack)
           new == Unseen(Backward[x], visited)
       IN  /\ stack' = Front(stack) \o new
           /\ visited' = visited \cup ToSet(new)
           /\ comp' = Append(comp, x)
    /\ UNCHANGED <<parse, row, pc, marks, nodes, next, graph, pass1, largest, anchors, history>>

\* Among components of the same size the last one wins.
NotSmaller(c) == Len(c) >= Len(largest)
\* Only a strictly larger one does: the first one wins.
Larger(c) == Len(c) > Len(largest)

CloseComponent ==
    /\ pc = "pass2"
    /\ stack = <<>> /\ comp # <<>>
    /\ largest' = IF Larger(comp) THEN comp ELSE largest
    /\ comp' = <<>>
    /\ next' = Down(next)
    /\ UNCHANGED <<parse, row, pc, marks, nodes, graph, visited, pass1, stack, anchors, history>>

EndPass2 ==
    /\ pc = "pass2"
    /\ stack = <<>> /\ comp = <<>>
    /\ next < 1
    /\ anchors' = {nodes[v] : v \in ToSet(largest)}
    /\ pc' = "special"
    /\ UNCHANGED <<parse, row, marks, nodes, next, graph, visited, pass1, pass2, history>>

OfKind(kind) == {t \in ToSet(Line) : t.kind = kind}

\* White tokens are anchors, black ones never are.
Special ==
    /\ pc = "special"
    /\ anchors' = (anchors \cup OfKind("specialWhite")) \ OfKind("specialBlack")
    /\ pc' = "done"
    /\ UNCHANGED <<parse, row, marks, nodes, next, graph, visited, pass1, pass2, history>>

\* The caller copies the key and takes the next row.
Return ==
    /\ pc = "done"
    /\ found' = [found EXCEPT ![row] = @ \cup {anchors}]
    /\ runs' = runs + 1
    /\ pc' = "idle"
    /\ UNCHANGED <<parse, row, marks, nodes, next, graph, visited, pass1, pass2, anchors>>

Step ==
    \/ CollectToken \/ FewNodes \/ ManyNodes \/ BuildGraph
    \/ PushRoot \/ FollowEdge \/ FinishNode \/ EndPass1
    \/ OpenComponent \/ GrowComponent \/ CloseComponent \/ EndPass2
    \/ Special \/ Return

Next == (\E r \in DOMAIN corpus.rows : Begin(r)) \/ Step

Spec == Init /\ [][Next]_vars

\* The goroutine runs.
FairSpec == Spec /\ WF_vars(Step)
-----------------------------------------------------------------------------
\* The dependency graph of the row, from the counts alone.
RowNodes == {t \in ToSet(Line) : Occ(t.id) # 0}
RowEdges == {e \in RowNodes \X RowNodes :
                Co(e[1].id, e[2].id) * ThresholdDen > Occ(e[1].id) * threshold}

\* The pairs joined by a path of at most k edges, for k up to the nodes of N.
Reach(N, E) ==
    LET within[k \in 0 .. Cardinality(N)] ==
            IF k = 0 THEN {<<t, t>> : t \in N}
            ELSE LET shorter == within[k - 1]
                 IN  shorter \cup {<<q[1][1], q[2][2]>> :
                                     q \in {r \in shorter \X E : r[1][2] = r[2][1]}}
    IN  within[Cardinality(N)]
Component(N, E, t) ==
    LET R == Reach(N, E) IN {u \in N : <<t, u>> \in R /\ <<u, t>> \in R}
Components(N, E) ==
    LET R == Reach(N, E) IN {{u \in N : <<t, u>> \in R /\ <<u, t>> \in R} : t \in N}

(* The anchors are those of a largest strongly connected component of the    *)
(* row's graph, with every white token of the row and no black one; a row    *)
(* none of whose tokens was counted has none.                                *)
AnchorsExact ==
    pc = "done" =>
        LET N == RowNodes
            Cs == Components(N, RowEdges)
        IN  \/ N = {} /\ anchors = {}
            \/ \E C \in Cs :
                  /\ \A D \in Cs : Cardinality(D) <= Cardinality(C)
                  /\ anchors = (C \cup OfKind("specialWhite")) \ OfKind("specialBlack")

(* Of several largest components the anchors are of one that none of the     *)
(* others leads to: a tie is decided by the dependencies where they decide,  *)
(* not by the order the tokens stand in.                                     *)
TiesGoUpstream ==
    (pc = "done" /\ numNodes > 1) =>
        LET R == Reach(RowNodes, RowEdges)
            Cs == {{u \in RowNodes : {<<t, u>>, <<u, t>>} \subseteq R} : t \in RowNodes}
            Largest == {C \in Cs : \A D \in Cs : Cardinality(D) <= Cardinality(C)}
        IN  \E C \in Largest :
              /\ anchors = (C \cup OfKind("specialWhite")) \ OfKind("specialBlack")
              /\ \A D \in Largest \ {C} : \A d \in D, c \in C : <<d, c>> \notin R

(* Between the passes, a component is finished after every component it      *)
(* leads to: the fact that lets pass 2 separate components by walking the     *)
(* reversed edges from the end of order.                                     *)
PostorderSeparates ==
    (pc = "pass2" /\ next = Len(order) /\ comp = <<>> /\ stack = <<>>) =>
        LET E == RowEdges
            Cs == Components(RowNodes, E)
            Finished(C) == {j \in DOMAIN order : nodes[order[j]] \in C}
        IN  \A C, D \in Cs :
              (C # D /\ \E e \in E : e[1] \in C /\ e[2] \in D) =>
                  Max(Finished(C)) > Max(Finished(D))

(* Each walk of pass 2 gathers one whole component, each node once.           *)
ComponentsWhole ==
    (pc = "pass2" /\ stack = <<>> /\ comp # <<>>) =>
        /\ {nodes[v] : v \in ToSet(comp)} = Component(RowNodes, RowEdges, nodes[comp[1]])
        /\ IsInjective(comp)

(* What a row's anchors are does not depend on the rows the scratch served    *)
(* before, ties between components included: rows are grouped alike by one    *)
(* goroutine and by many ("grouping is identical to the serial path").        *)
ScratchForgets == \A r \in DOMAIN found : Cardinality(found[r]) <= 1

(* Both passes end on every graph.                                           *)
EveryRowEnds == pc # "idle" ~> pc = "idle"
=============================================================================
