----------------------------- MODULE Templates -----------------------------
(***************************************************************************)
(* What a template is and which messages it matches (matcher.go), without   *)
(* the matcher's indexes: normalizeTemplate, compileTemplate, the order of   *)
(* the ranks, and matchInternal.                                            *)
(*                                                                          *)
(* A message is a sequence of bytes; a template also has the element "*",   *)
(* the placeholder <*>.                                                     *)
(***************************************************************************)
EXTENDS Integers, SequencesExt, SortedLists
-----------------------------------------------------------------------------
\* normalizeTemplate: a run of placeholders is one.
normalizeTemplate(t) ==
    LET kept == Ascending({j \in DOMAIN t : t[j] # "*" \/ j = 1 \/ t[j - 1] # "*"})
    IN  [j \in DOMAIN kept |-> t[kept[j]]]

\* The normalised templates, each at its first place.
Kept(raw) ==
    LET norm == [j \in DOMAIN raw |-> normalizeTemplate(raw[j])]
        first == Ascending({j \in DOMAIN raw : \A h \in 1 .. j - 1 : norm[h] # norm[j]})
    IN  [j \in DOMAIN first |-> norm[first[j]]]

\* compileTemplate.
placeholderCount(t) == Cardinality({j \in DOMAIN t : t[j] = "*"})
literalBytes(t) == Len(t) - placeholderCount(t)
\* strings.Split at the placeholders: the bytes between two of them.
parts(t) ==
    LET stars == Ascending({j \in DOMAIN t : t[j] = "*"})
        cut == <<0>> \o stars \o <<Len(t) + 1>>
    IN  [j \in 1 .. Len(stars) + 1 |-> SubSeq(t, cut[j] + 1, cut[j + 1] - 1)]
\* A byte for each part, not for each placeholder.
ByteForEachPart(t) == literalBytes(t) + Len(parts(t))
\* Every placeholder takes at least a byte.
minMsgLen(t) == literalBytes(t) + Len(parts(t)) - 1
firstLiteral(t) == Head(parts(t))
lastLiteral(t) == Last(parts(t))

Longest(S) == Max({0} \cup {Len(p) : p \in S})
\* The first of the longest interior parts.
strongestMiddleLiteral(t) ==
    LET inner == {j \in 2 .. Len(parts(t)) - 1 :
                    Len(parts(t)[j]) = Longest({parts(t)[h] : h \in 2 .. Len(parts(t)) - 1})}
    IN  IF inner = {} THEN <<>> ELSE parts(t)[Min(inner)]

\* The order of the ranks in a list of templates: more literal bytes, then fewer
\* placeholders; positions break ties.
Better(ts, a, b) ==
    LET s == ts[a]
        t == ts[b]
    IN  \/ literalBytes(s) > literalBytes(t)
        \/ /\ literalBytes(s) = literalBytes(t)
           /\ \/ placeholderCount(s) < placeholderCount(t)
              \/ placeholderCount(s) = placeholderCount(t) /\ a < b

\* The one index that files a template, by its literal.
Exact(t) == placeholderCount(t) = 0
InPrefixes(t) == ~Exact(t) /\ firstLiteral(t) # <<>>
InSuffixes(t) == ~Exact(t) /\ ~InPrefixes(t) /\ lastLiteral(t) # <<>>
InMiddles(t) ==
    ~Exact(t) /\ ~InPrefixes(t) /\ ~InSuffixes(t) /\ strongestMiddleLiteral(t) # <<>>

\* A template some index files: all but a bare placeholder.
Indexed(t) == Exact(t) \/ InPrefixes(t) \/ InSuffixes(t) \/ InMiddles(t)
-----------------------------------------------------------------------------
\* Where part p occurs in m from cursor c on: the bytes skipped before it.
Skips(m, c, p) == {d \in 0 .. Len(m) - c - Len(p) : SubSeq(m, c + d + 1, c + d + Len(p)) = p}

\* The end of an interior part p when the one before it ends at c.  A part right
\* at the cursor, which would leave an empty argument, cannot be placed.
Place(m, c, p) ==
    LET at == IF c < 0 \/ p = <<>> THEN {} ELSE Skips(m, c, p)
    IN  IF at = {} \/ 0 \in at THEN -1 ELSE c + Min(at) + Len(p)

\* matchInternal up to the last placeholder: the ends of the parts it places,
\* the leftmost way; -1 from the first part it cannot place.
Cursors(t, m) ==
    LET cursor[j \in 1 .. placeholderCount(t)] ==
            IF j > 1 THEN Place(m, cursor[j - 1], parts(t)[j])
            ELSE IF IsPrefix(parts(t)[1], m) THEN Len(parts(t)[1]) ELSE -1
    IN  cursor

\* Where the last argument ends.
ArgEnd(t, m) == Len(m) - Len(lastLiteral(t))
\* An argument that may be empty.
RoomOrNone(end, c) == end >= c
\* if end <= cursor: the last argument has a byte.
Room(end, c) == end > c

\* matches.
Matches(t, m) ==
    IF Exact(t) THEN m = t
    ELSE LET c == Cursors(t, m)[placeholderCount(t)]
         IN  /\ c >= 0
             /\ IsSuffix(lastLiteral(t), m)
             /\ Room(ArgEnd(t, m), c)

\* The arguments match captures.
Args(t, m) ==
    LET cs == Cursors(t, m)
        n == placeholderCount(t)
    IN  [j \in 1 .. n |->
            SubSeq(m, cs[j] + 1, IF j = n THEN ArgEnd(t, m) ELSE cs[j + 1] - Len(parts(t)[j + 1]))]
=============================================================================
