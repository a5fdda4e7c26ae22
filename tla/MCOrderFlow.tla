---------------------------- MODULE MCOrderFlow ----------------------------
(* Two tokens of one market.                                                *)
EXTENDS OrderFlow, TLC

CONSTANTS t1, t2, m1, e1

MCConditions == {m1}
MCTwoTokens == {t1, t2}
MCOneMarket == [t \in MCTwoTokens |-> m1]
MCEventOf == [c \in MCConditions |-> e1]
MCTwoSymmetric == Permutations(MCTwoTokens)
=============================================================================
