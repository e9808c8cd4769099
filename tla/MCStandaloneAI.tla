---------------------------- MODULE MCStandaloneAI ----------------------------
(* Two plans of one input, under different policies.                        *)
EXTENDS StandaloneAI, TLC

CONSTANTS plain, redacted, none, again, p1, p2

MCInputOf == [p \in Plans |-> "input"]

Symmetry == Permutations(Panels) \cup Permutations(Plans)
=============================================================================
