---------------------------- MODULE MCAgentRuns ----------------------------
(* Two agents that write to the same place, and one that only reads.       *)
EXTENDS AgentRuns

CONSTANTS a1, a2, a3

MCOverlap == [a \in Agent |-> IF a = a3 THEN {} ELSE {a1, a2}]
=============================================================================
