---------------------------- MODULE MCFileGuard ----------------------------
(* Three or four processes at one lock file. *)
EXTENDS FileGuard, TLC

MCSymmetry == Permutations(Proc)
=============================================================================
