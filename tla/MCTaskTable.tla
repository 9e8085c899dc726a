---------------------------- MODULE MCTaskTable ----------------------------
(* A small board for TLC: three tasks, two workers, one value for the base  *)
(* commit (no transition of the table looks at it) and a fuse of one reopen.*)
EXTENDS TaskTable, TLC

CONSTANTS path

MCScope  == [t \in TaskId |-> {path}]
MCSymmetry == Permutations(TaskId) \cup Permutations(Worker)

=============================================================================
