---------------------------- MODULE MCAgentRuntime ----------------------------
(* Instances of AgentRuntime for TLC.                                        *)
EXTENDS AgentRuntime, TLC

AgentSymmetry ==
    Permutations(Runs) \cup Permutations(Inputs) \cup Permutations(Workers)
==============================================================================
