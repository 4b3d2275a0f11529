------------------------------ MODULE Matcher ------------------------------
(***************************************************************************)
(* The runtime matcher (matcher.go): NewMatcher normalises, deduplicates    *)
(* and ranks templates and files each one in one of four indexes; a lookup  *)
(* consults the indexes and keeps the best-ranked template that matches;    *)
(* MatchAllIDs looks up a batch and caches the answers.  Nothing of the     *)
(* matcher changes after NewMatcher.                                        *)
(*                                                                          *)
(* What a template is, and which messages it matches, is in Templates.      *)
(* Template ids and positions count from 1 here; 0 is "no template", the    *)
(* code's -1.  The automaton's visits are what AhoCorasick shows them to    *)
(* be: the middle literals that occur in the message, here in any order.    *)
(***************************************************************************)
EXTENDS Templates

CONSTANTS
    Bytes,           \* the byte values, "*" not among them
    TemplateLists,   \* the raw template lists a matcher can be built from
    Batches          \* the message batches MatchAllIDs can be given

ASSUME MatcherAssumption ==
    /\ "*" \notin Bytes
    /\ TemplateLists \subseteq Seq(Seq(Bytes \cup {"*"}))
    /\ Batches \subseteq Seq(Seq(Bytes))

VARIABLES
    templates,   \* m.templates
    batch, ids,  \* MatchAllIDs' argument and result
    k,           \* the message of the batch in progress
    cache,       \* its cache
    pc,          \* what the lookup consults next
    lens,        \* the literal lengths it still has to try there
    visits,      \* the middle literals the automaton has still to report
    best         \* bestID

vars == <<templates, batch, ids, k, cache, pc, lens, visits, best>>

None == 0
msg == batch[k]

TypeOK ==
    /\ \A id \in DOMAIN templates : ToSet(templates[id]) \subseteq Bytes \cup {"*"}
    /\ \A j \in DOMAIN batch : ToSet(batch[j]) \subseteq Bytes
    /\ ids \in [DOMAIN batch -> {None} \cup DOMAIN templates]
    /\ k \in 1 .. Len(batch) + 1
    /\ DOMAIN cache \subseteq ToSet(batch)
    /\ pc \in {"idle", "message", "prefix", "suffix", "middle"}
    /\ best \in {None} \cup DOMAIN templates
-----------------------------------------------------------------------------
\* The order of the ranks.
Outranks(a, b) == Better(templates, a, b)
Rank(id) == Cardinality({j \in DOMAIN templates : Outranks(j, id)})

ById(P(_)) == {id \in DOMAIN templates : P(templates[id])}
\* The list as NewMatcher filled it, by id.
Unsorted(S) == Ascending(S)
\* An index's list for a literal, sorted by rank.
Ranked(S) ==
    CHOOSE list \in [1 .. Cardinality(S) -> S] :
        \A j, h \in DOMAIN list : j < h => Outranks(list[j], list[h])
prefixIndex(lit) == Ranked({id \in ById(InPrefixes) : firstLiteral(templates[id]) = lit})
suffixIndex(lit) == Ranked({id \in ById(InSuffixes) : lastLiteral(templates[id]) = lit})
middleIndex(lit) == Ranked({id \in ById(InMiddles) : strongestMiddleLiteral(templates[id]) = lit})
Lengths(lits) == Ascending({Len(l) : l \in lits})
prefixLens == Lengths({firstLiteral(templates[id]) : id \in ById(InPrefixes)})
suffixLens == Lengths({lastLiteral(templates[id]) : id \in ById(InSuffixes)})
middleLiterals == {strongestMiddleLiteral(templates[id]) : id \in ById(InMiddles)}

\* evaluateList: the loop breaks at the first template that does not outrank the
\* best so far.  After a match that is the next one, the list being sorted.
Evaluate(list, b) ==
    LET reached == {j \in DOMAIN list :
                      \A h \in 1 .. j : b # None => Rank(list[h]) < Rank(b)}
        better == {j \in reached : /\ Len(msg) >= minMsgLen(templates[list[j]])
                                   /\ Matches(templates[list[j]], msg)}
    IN  IF better = {} THEN b ELSE list[Min(better)]
-----------------------------------------------------------------------------
Init ==
    /\ \E raw \in TemplateLists : templates = Kept(raw)
    /\ batch = <<>>
    /\ ids = <<>>
    /\ k = 1
    /\ cache = <<>>
    /\ pc = "idle"
    /\ lens = <<>>
    /\ visits = {}
    /\ best = None

\* MatchAllIDs is called.
Begin(ms) ==
    /\ pc = "idle"
    /\ batch' = ms
    /\ ids' = [j \in DOMAIN ms |-> None]
    /\ k' = 1
    /\ cache' = <<>>
    /\ pc' = "message"
    /\ UNCHANGED <<templates, lens, visits, best>>

\* A message the batch has had before.
CacheHit ==
    /\ pc = "message"
    /\ k <= Len(batch)
    /\ msg \in DOMAIN cache
    /\ ids' = [ids EXCEPT ![k] = cache[msg]]
    /\ k' = k + 1
    /\ UNCHANGED <<templates, batch, cache, pc, lens, visits, best>>

\* The cache with the message's answer.
Cached(id) == [m \in DOMAIN cache \cup {msg} |-> IF m = msg THEN id ELSE cache[m]]

\* The message after it is skipped.
AnswerAndSkip(id) ==
    /\ ids' = [ids EXCEPT ![k] = id]
    /\ cache' = Cached(id)
    /\ k' = k + 2
    /\ pc' = "message"
\* The message is answered, a miss too.
Answer(id) ==
    /\ ids' = [ids EXCEPT ![k] = id]
    /\ cache' = Cached(id)
    /\ k' = k + 1
    /\ pc' = "message"

\* A template without placeholders that is the message.
ExactHit ==
    /\ pc = "message"
    /\ k <= Len(batch)
    /\ msg \notin DOMAIN cache
    /\ \E id \in ById(Exact) : templates[id] = msg /\ Answer(id)
    /\ UNCHANGED <<templates, batch, lens, visits, best>>

StartLookup ==
    /\ pc = "message"
    /\ k <= Len(batch)
    /\ msg \notin DOMAIN cache
    /\ \A id \in ById(Exact) : templates[id] # msg
    /\ best' = None
    /\ lens' = prefixLens
    /\ pc' = "prefix"
    /\ UNCHANGED <<templates, batch, ids, k, cache, visits>>

\* The lengths come in ascending order: the first too long ends the loop.
LensLeft == lens # <<>> /\ Head(lens) <= Len(msg)

TryPrefix ==
    /\ pc = "prefix"
    /\ LensLeft
    /\ best' = Evaluate(prefixIndex(SubSeq(msg, 1, Head(lens))), best)
    /\ lens' = Tail(lens)
    /\ UNCHANGED <<templates, batch, ids, k, cache, pc, visits>>

EndPrefixes ==
    /\ pc = "prefix"
    /\ ~LensLeft
    /\ lens' = suffixLens
    /\ pc' = "suffix"
    /\ UNCHANGED <<templates, batch, ids, k, cache, visits, best>>

TrySuffix ==
    /\ pc = "suffix"
    /\ LensLeft
    /\ best' = Evaluate(suffixIndex(SubSeq(msg, Len(msg) - Head(lens) + 1, Len(msg))), best)
    /\ lens' = Tail(lens)
    /\ UNCHANGED <<templates, batch, ids, k, cache, pc, visits>>

\* The automaton is asked for the middle literals of the message.
EndSuffixes ==
    /\ pc = "suffix"
    /\ ~LensLeft
    /\ lens' = <<>>
    /\ visits' = {l \in middleLiterals : Skips(msg, 0, l) # {}}
    /\ pc' = "middle"
    /\ UNCHANGED <<templates, batch, ids, k, cache, best>>

\* Is the best so far the best there can be?
AnyBest(b) == b # None
\* return bestRank > 0, the other way round
Unbeatable(b) == b # None /\ Rank(b) = 0

\* visit: the templates of one literal; the scan goes on unless the best
\* cannot be beaten.
Visit(l) ==
    /\ pc = "middle"
    /\ l \in visits
    /\ best' = Evaluate(middleIndex(l), best)
    /\ visits' = IF Unbeatable(best') THEN {} ELSE visits \ {l}
    /\ UNCHANGED <<templates, batch, ids, k, cache, pc, lens>>

EndLookup ==
    /\ pc = "middle"
    /\ visits = {}
    /\ Answer(best)
    /\ UNCHANGED <<templates, batch, lens, visits, best>>

Return ==
    /\ pc = "message"
    /\ k > Len(batch)
    /\ pc' = "idle"
    /\ UNCHANGED <<templates, batch, ids, k, cache, lens, visits, best>>

Next ==
    \/ \E ms \in Batches : Begin(ms)
    \/ CacheHit \/ ExactHit \/ StartLookup
    \/ TryPrefix \/ EndPrefixes \/ TrySuffix \/ EndSuffixes
    \/ \E l \in middleLiterals : Visit(l)
    \/ EndLookup \/ Return

Spec == Init /\ [][Next]_vars
-----------------------------------------------------------------------------
\* The messages of the batch that have been answered.
Answered == {j \in DOMAIN batch : j < k}

(* Whatever index it is filed in and in whatever order the indexes and the    *)
(* automaton offer it, the answer is the best-ranked of all the indexed       *)
(* templates that match, and there is none only when none matches; a message  *)
(* answered from the cache gets the answer it would get by itself.            *)
BestOfIndexed ==
    \A j \in Answered :
        LET fit == {id \in ById(Indexed) : Matches(templates[id], batch[j])}
        IN  IF fit = {} THEN ids[j] = None
            ELSE /\ ids[j] \in fit
                 /\ \A id \in fit :
                       /\ Rank(ids[j]) <= Rank(id)
                       /\ literalBytes(templates[id]) <= literalBytes(templates[ids[j]])

\* The message a template stands for, given its arguments.
Fill(t, args) ==
    FlattenSeq([j \in DOMAIN t |->
        IF t[j] = "*" THEN args[Cardinality({h \in 1 .. j : t[h] = "*"})] ELSE <<t[j]>>])

(* The arguments Match extracts, put back into the template it names, give    *)
(* the message; none of them is empty.                                        *)
ArgsRebuild ==
    \A j \in Answered :
        LET t == templates[ids[j]]
            args == Args(t, batch[j])
        IN  (ids[j] # None /\ ~Exact(t)) =>
                Fill(t, args) = batch[j] /\ \A h \in DOMAIN args : args[h] # <<>>

\* Some non-empty arguments make m of t: ends[p] holds the places of m where the
\* first p elements of t can end, however m is split.
Fits(t, m) ==
    LET ends[p \in 0 .. Len(t)] ==
            IF p = 0 THEN {0}
            ELSE IF t[p] = "*" THEN {r \in 1 .. Len(m) : \E q \in ends[p - 1] : q < r}
            ELSE {r \in 1 .. Len(m) : r - 1 \in ends[p - 1] /\ m[r] = t[p]}
    IN  Len(m) \in ends[Len(t)]

(* A message no template is found for is one that no template of a single     *)
(* placeholder and some literal can stand for, however it is split.           *)
OnePlaceholderFound ==
    \A j \in Answered : ids[j] = None =>
        \A id \in DOMAIN templates :
            (placeholderCount(templates[id]) <= 1 /\ literalBytes(templates[id]) > 0)
                => ~Fits(templates[id], batch[j])

(* "ok=false means no template matched": no template can stand for a message  *)
(* the lookup finds none for.                                                 *)
MissMeansNoFit ==
    \A j \in Answered : ids[j] = None =>
        \A id \in DOMAIN templates : ~Fits(templates[id], batch[j])
=============================================================================
