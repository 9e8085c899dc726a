------------------------------- MODULE Order -------------------------------
(***************************************************************************)
(* Sets of positions, listed in their order: what a query with ORDER BY    *)
(* seq returns, or a loop over a list that leaves some of it out.          *)
(***************************************************************************)
EXTENDS Naturals, Sequences, FiniteSets

\* The ways to list S from its least element to its greatest: there is one.
Listings(S) ==
  {s \in [1..Cardinality(S) -> S] :
     /\ \A x \in S : \E i \in DOMAIN s : s[i] = x
     /\ \A i, j \in DOMAIN s : i < j => s[i] < s[j]}

InOrder(S) == CHOOSE s \in Listings(S) : TRUE

\* The elements of the sequence s that are not in S.
Without(s, S) ==
  LET left == InOrder({i \in DOMAIN s : s[i] \notin S})
  IN  [k \in DOMAIN left |-> s[left[k]]]
=============================================================================
