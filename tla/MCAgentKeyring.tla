--------------------------- MODULE MCAgentKeyring ---------------------------
(***************************************************************************)
(* AgentKeyring for TLC: rings are compared for equality only.             *)
(***************************************************************************)
EXTENDS AgentKeyring, TLC

Symmetry == Permutations(Rings)
=============================================================================
