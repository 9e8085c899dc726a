---------------------------- MODULE MCAgentMail ----------------------------
(* One agent with a worktree of its own, so its scope meets nobody's.      *)
EXTENDS AgentMail

MCOverlap == [a \in Agent |-> {}]
=============================================================================
