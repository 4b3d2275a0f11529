---------------------------- MODULE CorpusCodec ----------------------------
(***************************************************************************)
(* NewCorpusCodec, Encode and Decode (corpus_codec.go), composed with what  *)
(* a parse returns (Parser.parse over Patterns) and with the matcher's      *)
(* table and lookup (Matcher).  Training parses the corpus, then gives each *)
(* line in turn a template id and arguments, taken from the line's mask.    *)
(*                                                                          *)
(* A line is the row of its rich tokens and a slice is one character, so    *)
(* that text, row, template and mask are sequences of the same elements;    *)
(* "*" in a line is the text <*> (three symbols of it that all rows share). *)
(* Ids count from 1 here.                                                   *)
(***************************************************************************)
EXTENDS Patterns, Templates

CONSTANTS
    Corpora,    \* the corpora a codec can be trained on
    Samples,    \* WithPatternSample's argument, as [num, den]
    Filter      \* the parser's staticFilter

Text(m) == [j \in DOMAIN m |-> m[j].slice]

\* A line's row is a function of its text: the tokenizer's.
ASSUME CorpusCodecAssumption ==
    /\ Corpora \subseteq Seq(Seq([kind : STRING, slice : STRING]))
    /\ \A c \in Corpora : \A m, n \in ToSet(c) : Text(m) = Text(n) => m = n
    /\ Samples \subseteq {s \in [num : Nat \ {0}, den : Nat \ {0}] : s.num <= s.den}

VARIABLES
    corpus, sample,   \* the arguments
    anchors,          \* the anchors of each line, its cluster; {} when it has none
    stage,            \* "parse" | "lines" | "done" | "failed"
    sampled,          \* the lines whose rows made each cluster's patterns
    masks,            \* the masks of the parse
    known,            \* matcher.templates
    table,            \* templates: known and what was added to it
    entries,          \* by line: its template id and its arguments
    next              \* the line of the loop

codecVars == <<corpus, sample, anchors, stage, sampled, masks, known, table, entries, next>>

\* staticFilter.keep, of a token's kind.
keep(kind) == \/ kind = "specialWhite"
              \/ kind \in {"alphabetic", "numeric", "impure"} /\ commonCandidate(Filter, kind)
\* The slices that occur in some line as a token the record counts.
CountedSlices == UNION {{t.slice : t \in {t \in ToSet(m) : keep(t.kind)}} : m \in ToSet(corpus)}
Nodes(m) == {t \in ToSet(m) : t.slice \in CountedSlices}
Whites(m) == {t \in ToSet(m) : t.kind = "specialWhite"}
Blacks(m) == {t \in ToSet(m) : t.kind = "specialBlack"}
\* What anchorTokens may leave of a line: a component of its nodes with the white
\* tokens, without the black ones.
AnchorSets(m) ==
    IF Nodes(m) = {} THEN {{}}
    ELSE {(component \cup Whites(m)) \ Blacks(m) : component \in SUBSET Nodes(m) \ {{}}}
Clusters == {anchors[m] : m \in ToSet(corpus)} \ {{}}
Indices(c) == Ascending({i \in DOMAIN corpus : anchors[corpus[i]] = c})
RowsAt(s) == [p \in DOMAIN s |-> corpus[s[p]]]

CodecInit ==
    /\ corpus \in Corpora
    /\ sample \in Samples
    /\ anchors \in {f \in [ToSet(corpus) -> UNION {AnchorSets(m) : m \in ToSet(corpus)}] :
                      \A m \in DOMAIN f : f[m] \in AnchorSets(m)}
    /\ stage = "parse"
    /\ sampled = <<>>
    /\ masks = <<>>
    /\ known = <<>>
    /\ table = <<>>
    /\ entries = <<>>
    /\ next = 1

\* parse: each cluster's patterns come from a sample of its lines, its masks
\* are for all of them; a line without anchors has no mask.  The matcher is
\* built of all templates; their order, which decides nothing but ids, is left
\* open.
Parse ==
    /\ stage = "parse"
    /\ \E pick \in [Clusters -> UNION {samplePositions(n, sample) : n \in 1 .. Len(corpus)}] :
          /\ \A c \in Clusters : pick[c] \in samplePositions(Len(Indices(c)), sample)
          /\ sampled' = [c \in Clusters |-> [p \in DOMAIN pick[c] |-> Indices(c)[pick[c][p] + 1]]]
    /\ LET common == [c \in Clusters |-> sharedSlices(Filter, RowsAt(sampled'[c]))]
       IN  /\ known' = Kept(SetToSeq(UNION {templatesForCluster(RowsAt(sampled'[c]), common[c])
                                              : c \in Clusters}))
           /\ masks' = [i \in DOMAIN corpus |->
                IF anchors[corpus[i]] = {} THEN <<>>
                ELSE parameterMask(corpus[i], common[anchors[corpus[i]]])]
    /\ table' = known'
    /\ stage' = "lines"
    /\ UNCHANGED <<corpus, sample, anchors, entries, next>>
-----------------------------------------------------------------------------
\* A parameter of one byte each.
EachByte(bits, i, j) == i = j
\* The parameters: the runs of ones, from position i to j.
IsParameter(bits, i, j) ==
    /\ i <= j
    /\ \A h \in i .. j : bits[h] = 1
    /\ i > 1 => bits[i - 1] = 0
    /\ j < Len(bits) => bits[j + 1] = 0
\* templateAndArgsFromMask, of a text and its mask.
templateFromMask(m, bits) ==
    LET kept == Ascending({h \in DOMAIN bits : bits[h] = 0 \/ h = 1 \/ bits[h - 1] = 0})
    IN  [h \in DOMAIN kept |-> IF bits[kept[h]] = 0 THEN m[kept[h]] ELSE "*"]
argsFromMask(m, bits) ==
    LET starts == Ascending({i \in DOMAIN bits : \E j \in DOMAIN bits : IsParameter(bits, i, j)})
        End(i) == CHOOSE j \in DOMAIN bits : IsParameter(bits, i, j)
    IN  [r \in DOMAIN starts |-> SubSeq(m, starts[r], End(starts[r]))]

line == corpus[next]
text == Text(line)
mask == masks[next]
maskTemplate == templateFromMask(text, mask)
maskArgs == argsFromMask(text, mask)

\* An id for a template whether it has one or not.
AlwaysAppend(template) == Len(table) + 1
\* ensureTemplateID's answer: the id of the template in the table, or the next.
ensureTemplateID(template) ==
    IF template \in ToSet(table) THEN CHOOSE id \in DOMAIN table : table[id] = template
    ELSE Len(table) + 1

\* matcher.MatchID: what Matcher's BestOfIndexed says of it.
MatchID(m) ==
    LET fit == {id \in DOMAIN known : Indexed(known[id]) /\ Matches(known[id], m)}
    IN  {id \in fit : \A other \in fit \ {id} : Better(known, id, other)}

\* The line's entry is made; a line met before must get the entry it has.
Enter(id, template, args) ==
    /\ table' = IF id > Len(table) THEN Append(table, template) ELSE table
    /\ \/ /\ text \notin DOMAIN entries
          /\ entries' = [m \in DOMAIN entries \cup {text} |->
                IF m = text THEN [id |-> id, args |-> args] ELSE entries[m]]
          /\ next' = next + 1
          /\ UNCHANGED stage
       \/ /\ text \in DOMAIN entries
          /\ entries[text] = [id |-> id, args |-> args]
          /\ next' = next + 1
          /\ UNCHANGED <<entries, stage>>
       \/ /\ text \in DOMAIN entries
          /\ entries[text] # [id |-> id, args |-> args]
          /\ stage' = "failed"
          /\ UNCHANGED <<entries, next>>
    /\ UNCHANGED <<corpus, sample, anchors, sampled, masks, known>>

HasLine == stage = "lines" /\ next <= Len(corpus)

\* A line without a mask is its own template.
LiteralLine ==
    /\ HasLine
    /\ Len(mask) # Len(text)
    /\ Enter(ensureTemplateID(text), text, <<>>)

\* The template its mask gives is in the table.
KnownTemplate ==
    /\ HasLine
    /\ Len(mask) = Len(text)
    /\ maskTemplate \in ToSet(table)
    /\ Enter(ensureTemplateID(maskTemplate), maskTemplate, maskArgs)

\* It is not: the matcher is asked, and if it finds none the table grows.
UnknownTemplate ==
    /\ HasLine
    /\ Len(mask) = Len(text)
    /\ maskTemplate \notin ToSet(table)
    /\ \/ \E id \in MatchID(text) : Enter(id, maskTemplate, maskArgs)
       \/ /\ MatchID(text) = {}
          /\ Enter(ensureTemplateID(maskTemplate), maskTemplate, maskArgs)

Finish ==
    /\ stage = "lines"
    /\ next > Len(corpus)
    /\ stage' = "done"
    /\ UNCHANGED <<corpus, sample, anchors, sampled, masks, known, table, entries, next>>

CodecNext == Parse \/ LiteralLine \/ KnownTemplate \/ UnknownTemplate \/ Finish

CodecSpec == CodecInit /\ [][CodecNext]_codecVars
-----------------------------------------------------------------------------
\* Decode: the parts of the template with the arguments between them; none when
\* there is an argument too many or too few.
Decode(id, args) ==
    LET pieces == parts(table[id])
    IN  IF Len(args) # Len(pieces) - 1 THEN {}
        ELSE {FlattenSeq([j \in DOMAIN pieces |->
                 pieces[j] \o IF j \in DOMAIN args THEN args[j] ELSE <<>>])}

CodecTypeOK ==
    /\ stage \in {"parse", "lines", "done", "failed"}
    /\ next \in 1 .. Len(corpus) + 1
    /\ IsInjective(table)
    /\ IsPrefix(known, table)
    /\ \A m \in DOMAIN entries : /\ entries[m].id \in DOMAIN table
                                 /\ <<>> \notin ToSet(entries[m].args)

Decodes(m) == Decode(entries[m].id, entries[m].args) = {m}
MentionsPlaceholder == \E m \in ToSet(corpus) : "*" \in ToSet(Text(m))

(* When patterns are made of all rows, and no line holds the text <*>, the    *)
(* corpus can be trained on and every line of it decodes to itself, whatever  *)
(* the clusters, repeated and unclustered and empty lines included.           *)
RoundTrip ==
    (sample.num = sample.den /\ ~MentionsPlaceholder) =>
        /\ stage # "failed"
        /\ stage = "done" => \A i \in DOMAIN corpus : Decodes(Text(corpus[i]))

(* Training gives up on nothing but a line that comes again: when the line    *)
(* came first, no template was its mask's and it was filed under the          *)
(* matcher's, and since then another line has added its mask's template.      *)
FailsOnlyAfterGrowth ==
    stage = "failed" =>
        /\ Len(mask) = Len(text)
        /\ maskTemplate \in ToSet(table) \ ToSet(known)
        /\ \E i \in 1 .. next - 1 : Text(corpus[i]) = text
        /\ entries[text].id \in MatchID(text)
        /\ entries[text].args = maskArgs

(* "CorpusCodec is an exact-message codec": a line of the corpus that decodes *)
(* at all decodes to itself.                                                  *)
DecodesExactly ==
    stage = "done" => \A i \in DOMAIN corpus :
        LET e == entries[Text(corpus[i])]
        IN  Decode(e.id, e.args) \subseteq {Text(corpus[i])}

(* The rows a cluster's patterns are made from are different lines of it, in  *)
(* line order, the first among them, and the last when they are two or more.  *)
SampleCovers ==
    stage # "parse" => \A c \in Clusters :
        LET s == sampled[c]
            all == Indices(c)
        IN  /\ ToSet(s) \subseteq ToSet(all)
            /\ \A p \in 1 .. Len(s) - 1 : s[p] < s[p + 1]
            /\ s[1] = all[1]
            /\ Len(s) > 1 => s[Len(s)] = all[Len(all)]

(* White regexes "are never parameterized": a white token is an anchor of its *)
(* line, so all lines of the cluster share it, sampled or not.  Black ones    *)
(* "are always parameterized", except where the text of a black token is also *)
(* an ordinary token of every row the patterns are made from.                 *)
SpecialsRendered ==
    stage # "parse" => \A i \in DOMAIN corpus : \A j \in DOMAIN masks[i] :
        LET t == corpus[i][j]
            rows == RowsAt(sampled[anchors[corpus[i]]])
        IN  /\ t.kind = "specialWhite" => masks[i][j] = 0
            /\ t.kind = "specialBlack" =>
                  \/ masks[i][j] = 1
                  \/ \A k \in DOMAIN rows : \E h \in DOMAIN rows[k] :
                        rows[k][h].slice = t.slice /\ rows[k][h].kind # "specialBlack"
=============================================================================
