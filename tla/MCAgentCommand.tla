---------------------------- MODULE MCAgentCommand ----------------------------
(* Small instances of AgentCommand for TLC.                                *)
EXTENDS AgentCommand, TLC

(* Messages and people are interchangeable.                                *)
Symmetry == Permutations(Messages) \cup Permutations(People)
=============================================================================
