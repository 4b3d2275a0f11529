---------------------------- MODULE MCRowBuffers ----------------------------
(***************************************************************************)
(* RowBuffers with one plain token and one impure token of two pieces       *)
(* ("a." is an alphabetic token and a symbol once '.' is a symbol).         *)
(***************************************************************************)
EXTENDS RowBuffers

MCTokens == {"w", "a.", "a", "."}
MCLines == {<<"w">>, <<"w", "a.">>, <<"a.", "w">>}
MCImpure == {"a."}
MCPieces == [t \in MCImpure |-> <<"a", ".">>]
=============================================================================
