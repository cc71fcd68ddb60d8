------------------------------ MODULE MCPrintf ------------------------------
(***************************************************************************)
(* Instance of Printf for TLC: longs of six bits, ints of four.            *)
(***************************************************************************)
EXTENDS Printf

MCStrings == {<<>>, <<"A">>, <<"A", " ", "B">>}
=============================================================================
