----------------------------- MODULE MCMatcher -----------------------------
(***************************************************************************)
(* Matcher over two bytes: every pair of templates of up to three elements, *)
(* and longer templates filed in each index, in pairs and in threes.        *)
(***************************************************************************)
EXTENDS Matcher

MCBytes == {"a", "b"}
Strings(S, n) == UNION {[1 .. l -> S] : l \in 1 .. n}

MCLong == {<<"*", "a", "*">>, <<"*", "a", "b", "*">>, <<"*", "b", "*", "a">>,
           <<"a", "*", "b", "*">>, <<"*", "a", "*", "b", "*">>, <<"*", "*", "b">>,
           <<"*", "a", "*", "b", "b", "*">>, <<"*">>, <<"a", "*">>, <<"a", "b", "*">>}
MCTemplateLists ==
    {<<s, t>> : s, t \in Strings(MCBytes \cup {"*"}, 3)}
        \cup {<<s, t, u>> : s, t, u \in MCLong}

MCBatches == {<<m>> : m \in Strings(MCBytes, 4)} \cup {<<m, m>> : m \in Strings(MCBytes, 2)}

\* A single template, none of them a bare placeholder.
MCFewLists == {<<t>> : t \in MCLong \ {<<"*">>}}
=============================================================================
