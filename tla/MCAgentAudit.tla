---------------------------- MODULE MCAgentAudit ----------------------------
(* Small instances of AgentAudit.                                           *)
EXTENDS AgentAudit, TLC

EventSymmetry == Permutations(Events)
=============================================================================
