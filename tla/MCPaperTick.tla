---------------------------- MODULE MCPaperTick ----------------------------
(* One market in twentieths of a dollar, as a favourite and as a loser.      *)
EXTENDS PaperTick

MCBooks == {[bid |-> 3, ask |-> 4], [bid |-> 12, ask |-> 13]}
=============================================================================
