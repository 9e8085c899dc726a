---------------------------- MODULE MCCoordRun -----------------------------
(* Two processes on a board of two tasks whose scopes conflict because one  *)
(* directory contains the other's file, or that form a dependency chain.    *)
EXTENDS CoordRun, TLC

CONSTANTS t1, t2
src  == <<"src">>
srca == <<"src", "a.py">>
docs == <<"docs">>

MCPath     == {src, srca, docs}
MCCommit   == SUBSET TaskId
Containing == (t1 :> {src}) @@ (t2 :> {srca})
Apart      == (t1 :> {src}) @@ (t2 :> {docs})
NoDeps     == [t \in TaskId |-> {}]
Chain      == (t1 :> {}) @@ (t2 :> {t1})
MCSymmetry == Permutations(Worker)
=============================================================================
