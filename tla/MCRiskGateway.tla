---------------------------- MODULE MCRiskGateway ----------------------------
(* Two markets of at most two events; one token is traded.                  *)
EXTENDS RiskGateway

CONSTANTS m1, m2, t1

MCConditions == {m1, m2}
MCConditionOf == [t \in {t1} |-> m1]
MCExposures == {-1, 0, 2}
MCPnls == {-3, 0}
=============================================================================
