--------------------------- MODULE MCAnalysisService ---------------------------
(* Two operation keys of one plan, the second an explicit retry of the first.  *)
EXTENDS AnalysisService, TLC

CONSTANTS op1, op2

MCPlanOf == [op \in Operations |-> "plan"]

RequestSymmetry == Permutations(Requests)
=============================================================================
