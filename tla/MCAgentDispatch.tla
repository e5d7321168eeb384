-------------------------- MODULE MCAgentDispatch --------------------------
(***************************************************************************)
(* Small instances of AgentDispatch for TLC.                               *)
(***************************************************************************)
EXTENDS AgentDispatch, TLC

CONSTANTS c1, c2, t1, t2

Symmetric == Permutations({c1, c2}) \cup Permutations({t1, t2})
=============================================================================
