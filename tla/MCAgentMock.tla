---------------------------- MODULE MCAgentMock ----------------------------
(* AgentMock with one answer more than the script has questions. *)
EXTENDS AgentMock, TLC

Symmetry == Permutations(Requests)
=============================================================================
