----------------------------- MODULE MCAgentInput -----------------------------
(* AgentInput for TLC: two calls and one of everything else. *)
EXTENDS AgentInput, TLC

Symmetry == Permutations(Calls)

=============================================================================
