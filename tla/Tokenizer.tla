----------------------------- MODULE Tokenizer -----------------------------
(***************************************************************************)
(* Tokenizer.TokenizeInto (tokenizer.go): each special matcher in turn cuts *)
(* the text that is still unrefined, then what is left of it is split at    *)
(* white space and symbols, by the scalar loop or, on lines of a suitable   *)
(* length, by the vector kernel (tokenize_simd.go).  Also the expansion of  *)
(* a line's tokens to a larger symbol set (retokenizeTokensWithSymbolsInto, *)
(* parser.go).                                                              *)
(*                                                                          *)
(* A character is its code point; a text is a sequence of them, valid       *)
(* UTF-8.  Positions count characters; only the choice of the path counts   *)
(* bytes.  The scan of a matcher is a state machine, one step per match;    *)
(* the splits are folds over the characters.                                *)
(***************************************************************************)
EXTENDS Integers, SequencesExt

CONSTANTS
    Messages,     \* the lines
    Setups,       \* what a tokenizer is built with: special matchers, symbols
    Vector,       \* the values of simdTokenize: what the build and the CPU offer
    SimdMin,      \* simdMinLen
    SimdMax,      \* simdMaxLen
    Punctuation,  \* allPunctuationSymbolSet, all of it ASCII
    UniLetters,   \* unicode.IsLetter, unicode.IsDigit, unicode.IsSpace beyond
    UniDigits,    \* ASCII
    UniSpaces

VARIABLES
    setup, simd, \* the tokenizer
    msg,         \* the line
    pc,
    turn,        \* the matcher whose turn it is
    pre,         \* the pre-tokens of the earlier matchers, those not yet done
    next,        \* the pre-tokens of this one
    last,        \* where the scan of the first of pre has got to
    matched,     \* whether it has found anything there
    tokens       \* the result

Special == {"specialWhite", "specialBlack"}

ASSUME TokenizerAssumption ==
    /\ Messages \subseteq Seq(Nat)
    /\ Setups \subseteq [matchers : Seq([kind : Special, word : Seq(Nat), class : SUBSET Nat,
                                        least : Nat, anchored : BOOLEAN]),
                         symbols : SUBSET Nat]
    /\ \A su \in Setups : \A j \in DOMAIN su.matchers :  \* words are looked for anywhere
          su.matchers[j].word # <<>> => ~su.matchers[j].anchored
    /\ Vector \subseteq BOOLEAN
    /\ SimdMin \in Nat /\ SimdMax \in Nat
    /\ Punctuation \subseteq (33 .. 47) \cup (58 .. 64) \cup (91 .. 96) \cup (123 .. 126)
    /\ \A c \in UniLetters \cup UniDigits \cup UniSpaces : c >= 128

vars == <<setup, simd, msg, pc, turn, pre, next, last, matched, tokens>>

Tok(kind, slice) == [kind |-> kind, slice |-> slice]
Text(toks) == FlattenSeq([j \in DOMAIN toks |-> toks[j].slice])
-----------------------------------------------------------------------------
asciiSpace(c) == c = 32 \/ c \in 9 .. 13
asciiLetter(c) == c \in 65 .. 90 \cup 97 .. 122
asciiDigit(c) == c \in 48 .. 57
IsLetter(c) == asciiLetter(c) \/ c \in UniLetters
IsDigit(c) == asciiDigit(c) \/ c \in UniDigits
IsSpace(c) == asciiSpace(c) \/ c \in UniSpaces

\* A space stays a space when it is among the symbols.
isSymbolRune(c, symbols) == c \in symbols /\ ~asciiSpace(c)
Boundary(c, symbols) == IsSpace(c) \/ isSymbolRune(c, symbols)
BoundaryToken(c) == Tok(IF IsSpace(c) THEN "whitespace" ELSE "symbolic", <<c>>)

\* tokenWith and its slow path, on a segment without boundaries (callers pass
\* no other, so its branches for single spaces and symbols are never taken).
tokenWith(slice) ==
    Tok(IF \A c \in ToSet(slice) : IsLetter(c) THEN "alphabetic"
        ELSE IF \A c \in ToSet(slice) : IsDigit(c) THEN "numeric"
        ELSE "impure", slice)

appendSplitTokenScalar(dst, text, symbols) ==
    LET Flush(a) == IF a.seg = <<>> THEN a.out ELSE Append(a.out, tokenWith(a.seg))
        Step(a, c) == IF Boundary(c, symbols)
                      THEN [seg |-> <<>>, out |-> Append(Flush(a), BoundaryToken(c))]
                      ELSE [a EXCEPT !.seg = Append(@, c)]
    IN  Flush(FoldLeft(Step, [seg |-> <<>>, out |-> dst], text))

\* newSymbolTable's symLo: the high nibbles of the symbols with low nibble lo.
symLo(symbols) == [lo \in 0 .. 15 |-> {c \div 16 : c \in {s \in symbols : s < 128 /\ s % 16 = lo}}]
\* The nibbles the wrong way round.
SwappedNibbles(c, symbols) == c < 128 /\ c % 16 \in symLo(symbols)[c \div 16]
\* symLo[b&0xF] & (1 << (b>>4)) != 0
SymbolBit(c, symbols) == c < 128 /\ c \div 16 \in symLo(symbols)[c % 16]

\* classifyBytesGo, which the assembly is to match; the bytes of a character
\* beyond ASCII are all marked so.
classifyBytes(c, symbols) ==
    (IF c = 32 \/ c \in 9 .. 13 THEN {"space"} ELSE {})
    \cup (IF asciiLetter(c) THEN {"letter"} ELSE {})
    \cup (IF asciiDigit(c) THEN {"digit"} ELSE {})
    \cup (IF c >= 128 THEN {"nonASCII"} ELSE {})
    \cup (IF SymbolBit(c, symbols) THEN {"symbol"} ELSE {})
AllBits == {"space", "symbol", "letter", "digit", "nonASCII"}

segmentToken(slice, acc) ==
    Tok(IF "letter" \in acc THEN "alphabetic" ELSE IF "digit" \in acc THEN "numeric"
        ELSE "impure", slice)

\* The vector path: the tokens, or that the line has a character beyond ASCII.
appendSplitTokenSIMD(dst, text, symbols) ==
    LET Flush(a) == IF a.seg = <<>> THEN a.out ELSE Append(a.out, segmentToken(a.seg, a.acc))
        Step(a, c) ==
            LET bits == classifyBytes(c, symbols)
            IN  IF ~a.ok THEN a
                ELSE IF "nonASCII" \in bits THEN [a EXCEPT !.ok = FALSE]
                ELSE IF bits \cap {"space", "symbol"} = {}
                THEN [a EXCEPT !.seg = Append(@, c), !.acc = @ \cap bits]
                ELSE [ok |-> TRUE, seg |-> <<>>, acc |-> AllBits,
                      out |-> Append(Flush(a), Tok(IF "space" \in bits THEN "whitespace"
                                                   ELSE "symbolic", <<c>>))]
        end == FoldLeft(Step, [ok |-> TRUE, seg |-> <<>>, acc |-> AllBits, out |-> dst], text)
    IN  [ok |-> end.ok, out |-> IF end.ok THEN Flush(end) ELSE end.out]

utf8Len(c) == CASE c < 128 -> 1 [] c \in 128 .. 2047 -> 2 [] c \in 2048 .. 65535 -> 3 [] c > 65535 -> 4
Bytes(text) == FoldLeft(LAMBDA n, c : n + utf8Len(c), 0, text)

\* What the vector path appended before it gave up is kept.
Resume(dst, vec) == vec.out
\* tokens[:origLen]
Forget(dst, vec) == dst

appendSplitToken(dst, text, symbols) ==
    LET vec == appendSplitTokenSIMD(dst, text, symbols)
    IN  IF ~simd \/ Bytes(text) \notin SimdMin .. SimdMax
        THEN appendSplitTokenScalar(dst, text, symbols)
        ELSE IF vec.ok THEN vec.out
        ELSE appendSplitTokenScalar(Forget(dst, vec), text, symbols)

\* A segment before every boundary, empty or not.
AlwaysPending(open) == 1
\* if start < i, before a boundary; if start < len(msg), at the end
Pending(open) == IF open THEN 1 ELSE 0

splitTokenCount(text, symbols) ==
    LET Step(a, c) == IF Boundary(c, symbols)
                      THEN [open |-> FALSE, n |-> a.n + Pending(a.open) + 1]
                      ELSE [a EXCEPT !.open = TRUE]
        end == FoldLeft(Step, [open |-> FALSE, n |-> 0], text)
    IN  end.n + Pending(end.open)

\* Only boundaries the primary pass could not have cut at are looked for.
tokenNeedsSplit(slice, symbols) == \E c \in ToSet(slice) : isSymbolRune(c, symbols)

\* A token of any kind taken apart.
SplitAny(t, symbols) == t.kind \notin {"whitespace", "symbolic"}
\* The default branch of the loop's switch.
SplitImpure(t, symbols) == t.kind = "impure"

retokenizeTokensWithSymbolsInto(toks, symbols) ==
    LET needs == {j \in DOMAIN toks : toks[j].kind = "impure" /\ tokenNeedsSplit(toks[j].slice, symbols)}
        Step(out, t) == IF SplitImpure(t, symbols) THEN appendSplitToken(out, t.slice, symbols)
                        ELSE Append(out, t)
    IN  IF needs = {} THEN toks
        ELSE FoldLeft(Step, SubSeq(toks, 1, Min(needs) - 1), SubSeq(toks, Min(needs), Len(toks)))
-----------------------------------------------------------------------------
\* strings.Index and regexp.FindStringIndex: the leftmost longest match, as the
\* positions around it.  A matcher is a word, or a repetition of characters of
\* a class, perhaps at the start only.
Accepts(matcher, text) ==
    IF matcher.word # <<>> THEN text = matcher.word
    ELSE Len(text) >= matcher.least /\ ToSet(text) \subseteq matcher.class
Find(matcher, text) ==
    LET found == {p \in (0 .. Len(text)) \X (0 .. Len(text)) :
                    /\ p[1] <= p[2]
                    /\ matcher.anchored => p[1] = 0
                    /\ Accepts(matcher, SubSeq(text, p[1] + 1, p[2]))}
    IN  {p \in found : \A q \in found : p[1] < q[1] \/ (p[1] = q[1] /\ p[2] >= q[2])}

matcher == setup.matchers[turn]
\* A loop that stops one matcher short.
NotTheLast == turn < Len(setup.matchers)
MoreMatchers == turn <= Len(setup.matchers)
text == Head(pre).slice
Scanning == pc = "pre" /\ MoreMatchers /\ pre # <<>> /\ Head(pre).kind = "unrefined"
\* The match in msg[last:]; no match, or an empty one at the end, ends the scan.
Found == {<<last + p[1], last + p[2]>> : p \in Find(matcher, SubSeq(text, last + 1, Len(text)))}
\* A piece even where there is no text.
PieceAlways(from, to) == <<Tok("unrefined", SubSeq(text, from + 1, to))>>
\* The text between two positions, when there is any.
Piece(from, to) == IF from < to THEN <<Tok("unrefined", SubSeq(text, from + 1, to))>> ELSE <<>>

Init ==
    /\ setup \in Setups
    /\ simd \in Vector
    /\ msg \in Messages
    /\ pc = "pre"
    /\ turn = 1
    /\ pre = <<Tok("unrefined", msg)>>
    /\ next = <<>>
    /\ last = 0
    /\ matched = FALSE
    /\ tokens = <<>>

\* A pre-token some earlier matcher has claimed.
CopySpecial ==
    /\ pc = "pre" /\ MoreMatchers
    /\ pre # <<>> /\ Head(pre).kind \in Special
    /\ next' = Append(next, Head(pre))
    /\ pre' = Tail(pre)
    /\ UNCHANGED <<setup, simd, msg, pc, turn, last, matched, tokens>>

\* A match: the text before it stays unrefined.
Match ==
    /\ Scanning
    /\ \E p \in Found :
          /\ p[1] < p[2]
          /\ next' = next \o Piece(last, p[1])
                         \o <<Tok(matcher.kind, SubSeq(text, p[1] + 1, p[2]))>>
          /\ last' = p[2]
    /\ matched' = TRUE
    /\ UNCHANGED <<setup, simd, msg, pc, turn, pre, tokens>>

\* The scan goes on where it was.
AtMatch(start) == start
\* last = start + size
PastMatch(start) == start + 1

\* An empty match before the end: a character is stepped over.
SkipEmpty ==
    /\ Scanning
    /\ \E p \in Found : p[1] = p[2] /\ p[1] < Len(text) /\ last' = PastMatch(p[1])
    /\ UNCHANGED <<setup, simd, msg, pc, turn, pre, next, matched, tokens>>

\* The end of a text that matched, forgotten.
NoRemainder == <<>>
\* if last < len(msg)
Remainder == Piece(last, Len(text))

EndScan ==
    /\ Scanning
    /\ \A p \in Found : p[1] = p[2] /\ p[1] >= Len(text)
    /\ next' = next \o IF matched THEN Remainder ELSE <<Head(pre)>>
    /\ pre' = Tail(pre)
    /\ last' = 0
    /\ matched' = FALSE
    /\ UNCHANGED <<setup, simd, msg, pc, turn, tokens>>

\* The two slices of pre-tokens change places.
NextMatcher ==
    /\ pc = "pre" /\ MoreMatchers
    /\ pre = <<>>
    /\ pre' = next
    /\ next' = <<>>
    /\ turn' = turn + 1
    /\ UNCHANGED <<setup, simd, msg, pc, last, matched, tokens>>

\* TokenizeInto's loop over the pre-tokens.
TokensWith(symbols) ==
    FoldLeft(LAMBDA out, p : IF p.kind \in Special THEN Append(out, p)
                             ELSE appendSplitToken(out, p.slice, symbols), <<>>, pre)

Split ==
    /\ pc = "pre" /\ ~MoreMatchers
    /\ tokens' = TokensWith(setup.symbols)
    /\ pc' = "done"
    /\ UNCHANGED <<setup, simd, msg, turn, pre, next, last, matched>>

Next == CopySpecial \/ Match \/ SkipEmpty \/ EndScan \/ NextMatcher \/ Split

Spec == Init /\ [][Next]_vars

\* The call runs.
FairSpec == Spec /\ WF_vars(Next)
-----------------------------------------------------------------------------
Kinds == {"alphabetic", "numeric", "impure", "symbolic", "whitespace"} \cup Special

TypeOK ==
    /\ setup \in Setups /\ simd \in Vector /\ msg \in Messages
    /\ pc \in {"pre", "done"}
    /\ turn \in 1 .. Len(setup.matchers) + 1
    /\ \A p \in ToSet(pre) \cup ToSet(next) :
          p.kind \in {"unrefined"} \cup Special /\ (p.slice = <<>> => msg = <<>>)
    /\ last \in 0 .. Len(msg)
    /\ matched \in BOOLEAN
    /\ \A t \in ToSet(tokens) : t.kind \in Kinds /\ t.slice # <<>>

CanBeEmpty(m) == m.word = <<>> /\ m.least = 0

(* Masks are laid over the line token by token, so no text may be lost: the  *)
(* pre-tokens of every moment of the scan, and the tokens at the end, spell   *)
(* the line.  Only with a regex that can match the empty string it may not    *)
(* be so: the text it steps over is dropped if something matches later.       *)
NothingLost ==
    (\A j \in DOMAIN setup.matchers : ~CanBeEmpty(setup.matchers[j])) =>
        IF pc = "done" THEN Text(tokens) = msg
        ELSE Text(next) \o (IF pre = <<>> THEN <<>>
                            ELSE SubSeq(text, IF matched THEN last + 1 ELSE 1, Len(text))
                                     \o Text(Tail(pre))) = msg

Inner(t) == t.kind \in {"alphabetic", "numeric", "impure"}

(* Whichever path splits it, a line's tokens are its spaces, its symbols and  *)
(* the segments between them, each in one piece and of its kind.              *)
TokensExact ==
    pc = "done" =>
        /\ \A j \in DOMAIN tokens :
              LET t == tokens[j]
              IN  \/ t.kind \in Special
                  \/ Len(t.slice) = 1 /\ Boundary(t.slice[1], setup.symbols)
                       /\ t = BoundaryToken(t.slice[1])
                  \/ (\A c \in ToSet(t.slice) : ~Boundary(c, setup.symbols)) /\ t = tokenWith(t.slice)
        /\ \A j \in 1 .. Len(tokens) - 1 : ~(Inner(tokens[j]) /\ Inner(tokens[j + 1]))

(* The count that sizes the destination is the number of tokens the split     *)
(* makes, of the text it is made of and of each token it takes apart later.   *)
SplitCounted ==
    pc = "done" =>
        \A symbols \in {setup.symbols, Punctuation} : \A t \in ToSet(pre) \cup ToSet(tokens) :
            splitTokenCount(t.slice, symbols) = Len(appendSplitToken(<<>>, t.slice, symbols))

(* The shortcut the parser takes when its symbols are all punctuation: the    *)
(* tokens it has, split further, are those of the line with every punctuation *)
(* rune a symbol.                                                             *)
RetokenizeExact ==
    (pc = "done" /\ setup.symbols \subseteq Punctuation) =>
        retokenizeTokensWithSymbolsInto(tokens, Punctuation) = TokensWith(Punctuation)

(* No word the caller declared special is left inside ordinary tokens.        *)
NoWordMissed ==
    ~MoreMatchers => \A j \in DOMAIN setup.matchers : \A p \in ToSet(pre) :
        LET word == setup.matchers[j].word
        IN  (word # <<>> /\ p.kind = "unrefined") =>
                \A i \in 0 .. Len(p.slice) - Len(word) :
                    SubSeq(p.slice, i + 1, i + Len(word)) # word

(* Every scan comes to an end, empty matches or not.                          *)
TokenizeReturns == <>(pc = "done")
=============================================================================
