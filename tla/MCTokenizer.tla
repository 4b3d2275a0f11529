---------------------------- MODULE MCTokenizer ----------------------------
(***************************************************************************)
(* Tokenizer over short lines of letters, digits, spaces and symbols, ASCII *)
(* and not, with one and two special matchers of every form.                *)
(***************************************************************************)
EXTENDS Tokenizer

\* a, 7, space, '.', '>' and 'N' (their low nibble is that of '.'), e acute,
\* no-break space, middle dot.
MCChars == {97, 55, 32, 46, 62, 233, 160, 183}
MCPunctuation == {46, 62}
MCMessages == UNION {[1 .. k -> MCChars] : k \in 0 .. 3}
                  \cup {<<97>> \o m : m \in [1 .. 3 -> {97, 55, 46, 183}]}

Word(kind, w) == [kind |-> kind, word |-> w, class |-> {}, least |-> 1, anchored |-> FALSE]
Class(kind, chars, least, anchored) ==
    [kind |-> kind, word |-> <<>>, class |-> chars, least |-> least, anchored |-> anchored]

MCMatchers ==
    {<<>>,
     <<Word("specialWhite", <<97>>)>>,
     <<Word("specialWhite", <<55, 55>>), Class("specialBlack", {55, 46}, 1, FALSE)>>,
     <<Class("specialWhite", {97}, 1, TRUE), Word("specialBlack", <<97, 46>>)>>,
     <<Class("specialBlack", {55}, 0, FALSE)>>}
MCSymbols == {{}, {46}, {46, 62}, {46, 32, 78}, {183}}
MCSetups == [matchers : MCMatchers, symbols : MCSymbols]
=============================================================================
