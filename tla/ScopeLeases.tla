---------------------------- MODULE ScopeLeases ----------------------------
(***************************************************************************)
(* The scope leases of one workspace root: coord/store.py, "Scope lease",  *)
(* kept in one file by coord/file_store.py and read, changed and written   *)
(* back under the file lock scope-<root>.  Each operation is one action.   *)
(*                                                                         *)
(* A path is the sequence of its segments (src/a.py is <<"src","a.py">>);  *)
(* paths are already normalised (common/scope_paths.py).  A lease carries  *)
(* the paths its owner reserves.  Its expiry time is abstracted: an active *)
(* lease may stop being active at any moment (LeaseExpires), which is what *)
(* pruning on every read makes of a TTL nobody renews while working.       *)
(***************************************************************************)
EXTENDS Naturals, Sequences

CONSTANTS
  Owner,   \* the worker identities that take leases
  Path     \* the normalised paths tasks may declare

ASSUME PathAssumption == Path \subseteq Seq(STRING) /\ <<>> \notin Path

VARIABLE lease   \* the active leases

Lease == [owner : Owner, paths : SUBSET Path]

LeaseTypeOK == lease \subseteq Lease

LeaseInit == lease = {}

-----------------------------------------------------------------------------
\* q is p or lies below it.
Within(p, q) == \E n \in 1..Len(q) : p = SubSeq(q, 1, n)

\* (Mutant of Conflicts: only equal paths conflict.)
Conflicts_EqualOnly(P, Q) == P = {} \/ Q = {} \/ P \cap Q # {}

\* scope_conflicts: an empty side conflicts with everything; otherwise two
\* scopes conflict when a path of one equals or contains a path of the other.
Conflicts(P, Q) ==
  \/ P = {}
  \/ Q = {}
  \/ \E p \in P, q \in Q : Within(p, q) \/ Within(q, p)

OwnedBy(w) == {l \in lease : l.owner = w}

CanAcquire(w, P) ==
  /\ P # {}
  /\ \A l \in lease \ OwnedBy(w) : ~Conflicts(l.paths, P)

\* A worker that already holds a lease has the new paths merged into it and
\* renewed.  The loop of the code keeps only the first of its leases, the one
\* merged: had the owner several, the others would vanish from the file.  A
\* write that fails is not noticed; here that lease expires as soon as taken.
AcquireScope(w, P) ==
  /\ CanAcquire(w, P)
  /\ \/ /\ OwnedBy(w) = {}
        /\ lease' = lease \cup {[owner |-> w, paths |-> P]}
     \/ \E first \in OwnedBy(w) :
          lease' = (lease \ OwnedBy(w))
                     \cup {[owner |-> w, paths |-> first.paths \cup P]}

\* (Mutant of Shrunk: a lease that lost its last path is kept.)
Shrunk_KeepsEmpty(w, P) == {[owner |-> w, paths |-> l.paths \ P] : l \in OwnedBy(w)}

\* release_task_scope / release_scope_paths: the paths leave every lease of
\* the owner; a lease left without a path is deleted.
Shrunk(w, P) ==
  {m \in {[owner |-> w, paths |-> l.paths \ P] : l \in OwnedBy(w)} : m.paths # {}}

ReleasePaths(w, P) == lease' = (lease \ OwnedBy(w)) \cup Shrunk(w, P)

\* release_scope: one lease, by its identifier, if the owner is right.
ReleaseLease(l) == l \in lease /\ lease' = lease \ {l}

\* release_scope_by_owner
ReleaseOwner(w) == OwnedBy(w) # {} /\ lease' = lease \ OwnedBy(w)

\* The TTL of a lease runs out: prune_leases drops it at the next read.
LeaseExpires(l) == l \in lease /\ lease' = lease \ {l}

LeaseNext ==
  \/ \E w \in Owner, P \in SUBSET Path : AcquireScope(w, P) \/ ReleasePaths(w, P)
  \/ \E w \in Owner : ReleaseOwner(w)
  \/ \E l \in lease : ReleaseLease(l) \/ LeaseExpires(l)

LeaseSpec == LeaseInit /\ [][LeaseNext]_lease

-----------------------------------------------------------------------------
\* No path is reserved for two workers at once: the active leases of two
\* owners never conflict, not even by one containing the other, whatever
\* merges and partial releases have happened in between.
LeasesExclusive ==
  \A l, m \in lease : l.owner # m.owner =>
    \A p \in l.paths, q \in m.paths : ~Within(p, q)

\* An owner never has two active leases (the merge loop of acquire_scope
\* would lose the paths of the second one), and no lease is left empty (an
\* empty lease conflicts with every request, so it would close the whole
\* workspace until it expires).
OneLeasePerOwner ==
  /\ \A l, m \in lease : l.owner = m.owner => l = m
  /\ \A l \in lease : l.paths # {}

=============================================================================
