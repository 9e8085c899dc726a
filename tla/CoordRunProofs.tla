--------------------------- MODULE CoordRunProofs ---------------------------
(***************************************************************************)
(* What several worker processes promise together, for every number of     *)
(* workers and tasks, every scope, every plan and every number of faults.  *)
(*                                                                         *)
(* First, each step of a process is a step of the task table and a step of *)
(* the lease file (or changes neither), so both contracts hold of the      *)
(* system, with every invariant they have.                                 *)
(***************************************************************************)
EXTENDS CoordRun, BoardProofs

\* A process that handles a task knows which.
LEMMA HandlesTask ==
  ASSUME RunTypeOK, NEW w \in Worker, pc[w] \in Handling
  PROVE  job[w] \in TaskId
BY DEF RunTypeOK, ProcessTypeOK

\* Releasing the paths of nobody changes nothing.
LEMMA GiveUpIsLeaseStep ==
  ASSUME NEW w \in Worker \cup {NoOne}, NEW P \in SUBSET Path, LeaseTypeOK,
         GiveUpLease(w, P)
  PROVE  [LeaseNext]_lease
<1>1. CASE ReleasePaths(w, P) /\ w \in Worker
  BY <1>1, OwnerAssumption DEF LeaseNext
<1>2. CASE ReleasePaths(w, P) /\ w = NoOne
  <2>1. OwnedBy(w) = {}
    BY <1>2, OwnerAssumption, WorkerAssumption DEF LeaseTypeOK, Lease, OwnedBy
  <2> QED
    BY <1>2, <2>1 DEF ReleasePaths, Shrunk
<1> QED
  BY <1>1, <1>2 DEF GiveUpLease

\* What a reconciler does to the table and the leases.
LEMMA ReconcilerRefines ==
  ASSUME RunTypeOK, NEW w \in Worker,
         Reopen(w) \/ ReleaseReopened(w) \/ Mark(w) \/ ReleaseMerged(w)
  PROVE  [TableNext]_tableVars /\ [LeaseNext]_lease
<1>1. /\ job[w] \in TaskId /\ head[w] \in Commit /\ owner[w] \in Worker \cup {NoOne}
      /\ Scope[job[w]] \in SUBSET Path /\ LeaseTypeOK
  BY HandlesTask, ScopeAssumption
  DEF RunTypeOK, ProcessTypeOK, Reopen, ReleaseReopened, Mark, ReleaseMerged,
      Handling, Critical
<1>2. CASE Reopen(w)
  BY <1>1, <1>2 DEF Reopen, Try, Refused, TableNext, BoardStep, tableVars
<1>3. CASE Mark(w)
  BY <1>1, <1>3 DEF Mark, Try, Refused, TableNext, BoardStep, tableVars
<1>4. CASE ReleaseReopened(w)
  BY <1>1, <1>4, GiveUpIsLeaseStep DEF ReleaseReopened
<1>5. CASE ReleaseMerged(w)
  BY <1>1, <1>5, GiveUpIsLeaseStep DEF ReleaseMerged
<1> QED
  BY <1>2, <1>3, <1>4, <1>5

\* What a worker that claims, submits or gives up a task does to them.
LEMMA WorkerRefines ==
  ASSUME RunTypeOK, NEW w \in Worker,
         \/ \E t \in TaskId : TryLease(w, t)
         \/ Claim(w) \/ GiveBack(w) \/ Submit(w) \/ Fail(w)
  PROVE  [TableNext]_tableVars /\ [LeaseNext]_lease
<1>1. head[w] \in Commit /\ LeaseTypeOK
  BY DEF RunTypeOK, ProcessTypeOK
<1>2. ASSUME NEW t \in TaskId, TryLease(w, t)
      PROVE  [TableNext]_tableVars /\ [LeaseNext]_lease
  <2>1. Scope[t] \in SUBSET Path /\ w \in Owner
    BY ScopeAssumption, OwnerAssumption
  <2> QED
    BY <1>2, <2>1 DEF TryLease, LeaseNext, tableVars
<1>3. CASE Claim(w) \/ GiveBack(w) \/ Submit(w) \/ Fail(w)
  <2>1. job[w] \in TaskId /\ Scope[job[w]] \in SUBSET Path
    BY <1>3, HandlesTask, ScopeAssumption
    DEF Claim, GiveBack, Submit, Fail, Handling, Working
  <2>2. CASE Claim(w)
    BY <1>1, <2>1, <2>2 DEF Claim, Refused, TableNext, HolderStep, tableVars
  <2>3. CASE GiveBack(w)
    BY <1>1, <2>1, <2>3, GiveUpIsLeaseStep DEF GiveBack
  <2>4. CASE Submit(w)
    BY <2>1, <2>4 DEF Submit, Refused, TableNext, HolderStep, tableVars
  <2>5. CASE Fail(w)
    BY <2>1, <2>5 DEF Fail, Try, Refused, TableNext, HolderStep, tableVars
  <2> QED
    BY <1>3, <2>2, <2>3, <2>4, <2>5
<1> QED
  BY <1>2, <1>3

\* A planning round is a publication of the table.
LEMMA PlanRefines ==
  ASSUME Plan
  PROVE  [TableNext]_tableVars /\ [LeaseNext]_lease
<1>1. lease' = lease
  BY DEF Plan
<1>2. CASE \E batch \in SUBSET TaskId : BeginPublish(batch, [t \in batch |-> PlanDeps[t]])
  <2>1. PICK batch \in SUBSET TaskId : BeginPublish(batch, [t \in batch |-> PlanDeps[t]])
    BY <1>2
  <2> DEFINE deps == [t \in batch |-> PlanDeps[t]]
  <2>2. deps \in [batch -> SUBSET TaskId]
    BY PlanAssumption
  <2>3. BeginPublish(batch, deps)
    BY <2>1
  <2> HIDE DEF deps
  <2> QED
    BY <1>1, <2>2, <2>3 DEF TableNext, Publish
<1>3. CASE FinishPlan \/ AbandonPublish
  BY <1>1, <1>3 DEF FinishPlan, TableNext, Publish
<1> QED
  BY <1>2, <1>3, Zenon DEF Plan

\* Every step is a step of the table, and of the leases, or leaves them alone.
LEMMA StepRefines ==
  ASSUME RunTypeOK, [RunNext]_vars
  PROVE  [TableNext]_tableVars /\ [LeaseNext]_lease
<1>1. ASSUME NEW w \in Worker, Process(w)
      PROVE  [TableNext]_tableVars /\ [LeaseNext]_lease
  <2>1. CASE Reopen(w) \/ ReleaseReopened(w) \/ Mark(w) \/ ReleaseMerged(w)
    BY <2>1, ReconcilerRefines
  <2>2. CASE \/ \E t \in TaskId : TryLease(w, t)
             \/ Claim(w) \/ GiveBack(w) \/ Submit(w) \/ Fail(w)
    BY <2>2, WorkerRefines
  <2>3. CASE UNCHANGED tableVars /\ UNCHANGED lease
    BY <2>3
  <2> QED
    BY <1>1, <2>1, <2>2, <2>3
    DEF Process, Reconcile, SkipReconcile, EndReconcile, Rebase, DiscardTree,
        AdvanceMain, RemoveMerged, ReadCandidates, NothingToClaim, CreateTree,
        Work, Cleanup
<1>2. ASSUME NEW w \in Worker, Die(w)
      PROVE  [TableNext]_tableVars /\ [LeaseNext]_lease
  BY <1>2 DEF Die
<1>3. ASSUME NEW l \in lease, Expire(l)
      PROVE  [TableNext]_tableVars /\ [LeaseNext]_lease
  BY <1>3 DEF Expire, LeaseNext
<1>4. CASE Plan
  BY <1>4, PlanRefines
<1>5. CASE UNCHANGED vars
  BY <1>5 DEF vars, tableVars
<1> QED
  BY <1>1, <1>2, <1>3, <1>4, <1>5 DEF RunNext

-----------------------------------------------------------------------------
(* Types.                                                                   *)

\* A call that may be refused counts its refusals.
LEMMA FaultsBounded ==
  ASSUME RunTypeOK, Fault \/ UNCHANGED faults
  PROVE  faults' \in 0..MaxFaults
BY FaultAssumption DEF RunTypeOK, ProcessTypeOK, Fault

\* What a successful rebase or a commit leaves in a worktree.
LEMMA TreeOps ==
  ASSUME NEW r \in Tree, NEW c \in Commit, NEW t \in TaskId
  PROVE  /\ OnBase(r, c) \in Tree
         /\ OnBase(r, c).base = c /\ OnBase(r, c).work = r.work
         /\ Committed(r, t) \in Tree
         /\ Committed(r, t).base = r.base /\ Committed(r, t).work = {t}
BY DEF Tree, OnBase, Committed

\* The steps that leave main and the worktrees alone.
LEMMA LocalStepTypes ==
  ASSUME RunTypeOK, NEW w \in Worker,
         \/ Reconcile(w) \/ SkipReconcile(w) \/ EndReconcile(w)
         \/ Reopen(w) \/ ReleaseReopened(w) \/ Mark(w) \/ ReleaseMerged(w)
         \/ ReadCandidates(w) \/ NothingToClaim(w) \/ Claim(w) \/ GiveBack(w)
         \/ Submit(w) \/ Fail(w) \/ Die(w)
         \/ \E t \in TaskId : TryLease(w, t)
  PROVE  ProcessTypeOK'
<1> USE DEF RunTypeOK, ProcessTypeOK, Label, Handling, Critical, Working, Goto, Forget
<1>1. faults' \in 0..MaxFaults
  BY FaultsBounded, Zenon DEF Reconcile, SkipReconcile, EndReconcile, Reopen, ReleaseReopened, Mark, ReleaseMerged, ReadCandidates, NothingToClaim, Claim, GiveBack, Submit, Fail, Die, TryLease, Try, Refused, GiveUpLease
<1>2. CASE Reconcile(w)
  BY <1>1, <1>2, NoTaskAssumption DEF Reconcile
<1>3. CASE SkipReconcile(w)
  BY <1>1, <1>3, NoTaskAssumption DEF SkipReconcile
<1>4. CASE EndReconcile(w)
  BY <1>1, <1>4, NoTaskAssumption DEF EndReconcile
<1>5. CASE Reopen(w)
  BY <1>1, <1>5, NoTaskAssumption DEF Reopen
<1>6. CASE ReleaseReopened(w)
  BY <1>1, <1>6, NoTaskAssumption, CommitIsContent DEF ReleaseReopened
<1>7. CASE Mark(w)
  BY <1>1, <1>7, NoTaskAssumption DEF Mark
<1>8. CASE ReleaseMerged(w)
  BY <1>1, <1>8, NoTaskAssumption, CommitIsContent DEF ReleaseMerged
<1>9. CASE ReadCandidates(w)
  BY <1>1, <1>9, NoTaskAssumption DEF ReadCandidates
<1>10. CASE NothingToClaim(w)
  BY <1>1, <1>10, NoTaskAssumption, CommitIsContent DEF NothingToClaim
<1>11. CASE Claim(w)
  BY <1>1, <1>11, NoTaskAssumption, CommitIsContent DEF Claim
<1>12. CASE GiveBack(w)
  BY <1>1, <1>12, NoTaskAssumption, CommitIsContent DEF GiveBack
<1>13. CASE Submit(w)
  BY <1>1, <1>13, NoTaskAssumption, CommitIsContent DEF Submit
<1>14. CASE Fail(w)
  BY <1>1, <1>14, NoTaskAssumption DEF Fail
<1>15. CASE Die(w)
  BY <1>1, <1>15, NoTaskAssumption, CommitIsContent DEF Die
<1>16. ASSUME NEW t \in TaskId, TryLease(w, t)
       PROVE  ProcessTypeOK'
  BY <1>1, <1>16, NoTaskAssumption DEF TryLease
<1> QED
  BY <1>2, <1>3, <1>4, <1>5, <1>6, <1>7, <1>8, <1>9, <1>10, <1>11, <1>12, <1>13, <1>14, <1>15, <1>16, Zenon

\* The steps that touch a worktree or the main branch.
LEMMA TreeStepTypes ==
  ASSUME RunTypeOK, NEW w \in Worker,
         \/ \E t \in TaskId : Rebase(w, t)
         \/ DiscardTree(w) \/ AdvanceMain(w) \/ RemoveMerged(w)
         \/ CreateTree(w) \/ Work(w) \/ Cleanup(w)
  PROVE  ProcessTypeOK'
<1> USE DEF RunTypeOK, ProcessTypeOK, Label, Handling, Critical, Working, Goto, Forget
<1>1. faults' \in 0..MaxFaults
  BY FaultsBounded, Zenon DEF Rebase, DiscardTree, AdvanceMain, RemoveMerged, CreateTree, Work, Cleanup, RemoveTree
<1>2. ASSUME NEW t \in TaskId, Rebase(w, t)
      PROVE  ProcessTypeOK'
  <2>1. tree' \in [TaskId -> Tree \cup {NoTree}]
    <3>1. tree[t] # NoTree => OnBase(tree[t], main) \in Tree
      BY TreeOps
    <3>2. \/ tree' = tree
          \/ tree[t] # NoTree /\ tree' = [tree EXCEPT ![t] = OnBase(tree[t], main)]
      BY <1>2 DEF Rebase
    <3> QED
      BY <3>1, <3>2
  <2>2. head'[w] \in Commit /\ head' = [head EXCEPT ![w] = head'[w]]
    <3>1. tree[t] # NoTree => main \cup tree[t].base \cup tree[t].work \in Commit
      BY CommitIsContent DEF Tree
    <3> QED
      BY <1>2, <3>1 DEF Rebase
  <2>3. owner'[w] \in Worker \cup {NoOne} /\ owner' = [owner EXCEPT ![w] = owner'[w]]
    BY <1>2 DEF Rebase, TableTypeOK, Row
  <2>4. /\ main' = main /\ lock' = lock
        /\ job' = [job EXCEPT ![w] = t] /\ todo' = [todo EXCEPT ![w] = @ \ {t}]
        /\ \E l \in {"missing", "reopen", "advance"} : pc' = [pc EXCEPT ![w] = l]
    BY <1>2 DEF Rebase
  <2> QED
    BY <1>1, <2>1, <2>2, <2>3, <2>4, NoTaskAssumption
<1>3. CASE DiscardTree(w)
  BY <1>1, <1>3, NoTaskAssumption, CommitIsContent DEF DiscardTree, RemoveTree
<1>4. CASE AdvanceMain(w)
  BY <1>1, <1>4, NoTaskAssumption DEF AdvanceMain
<1>5. CASE RemoveMerged(w)
  BY <1>1, <1>5, NoTaskAssumption DEF RemoveMerged, RemoveTree
<1>6. CASE CreateTree(w)
  <2>1. job[w] \in TaskId
    BY <1>6 DEF CreateTree
  <2>2. task[job[w]].base \in Commit
    BY <2>1 DEF TableTypeOK, Row
  <2> DEFINE new == [by |-> w, base |-> task[job[w]].base, work |-> {}]
  <2>3. new \in Tree
    BY <2>2 DEF Tree
  <2>4. tree' = tree \/ tree' = [tree EXCEPT ![job[w]] = new]
    BY <1>6 DEF CreateTree
  <2> HIDE DEF new
  <2>5. tree' \in [TaskId -> Tree \cup {NoTree}]
    BY <2>3, <2>4
  <2> QED
    BY <1>1, <1>6, <2>5, NoTaskAssumption DEF CreateTree
<1>7. CASE Work(w)
  <2>1. tree' \in [TaskId -> Tree \cup {NoTree}]
    <3>1. job[w] \in TaskId
      BY <1>7 DEF Work
    <3>2. tree[job[w]] # NoTree => Committed(tree[job[w]], job[w]) \in Tree
      BY <3>1, TreeOps
    <3>3. \/ tree' = tree
          \/ /\ tree[job[w]] # NoTree
             /\ tree' = [tree EXCEPT ![job[w]] = Committed(tree[job[w]], job[w])]
      BY <1>7 DEF Work
    <3> QED
      BY <3>1, <3>2, <3>3
  <2> QED
    BY <1>1, <1>7, <2>1, NoTaskAssumption DEF Work
<1>8. CASE Cleanup(w)
  BY <1>1, <1>8, NoTaskAssumption, CommitIsContent DEF Cleanup, RemoveTree
<1> QED
  BY <1>2, <1>3, <1>4, <1>5, <1>6, <1>7, <1>8, Zenon

LEMMA StepTypes ==
  ASSUME RunTypeOK, [RunNext]_vars
  PROVE  ProcessTypeOK'
<1>1. ASSUME NEW w \in Worker, Process(w) \/ Die(w)
      PROVE  ProcessTypeOK'
  BY <1>1, LocalStepTypes, TreeStepTypes, Zenon DEF Process
<1>2. CASE UNCHANGED <<main, tree, lock, pc, job, owner, todo, head>> /\ (Fault \/ UNCHANGED faults)
  <2>1. faults' \in 0..MaxFaults
    BY <1>2, FaultsBounded
  <2> QED
    BY <1>2, <2>1 DEF RunTypeOK, ProcessTypeOK
<1>3. ASSUME NEW l \in lease, Expire(l)
      PROVE  ProcessTypeOK'
  BY <1>2, <1>3 DEF Expire, runVars
<1>4. CASE Plan
  BY <1>2, <1>4 DEF Plan
<1>5. CASE UNCHANGED vars
  BY <1>2, <1>5 DEF vars, runVars
<1> QED
  BY <1>1, <1>3, <1>4, <1>5 DEF RunNext

-----------------------------------------------------------------------------
(* The contracts of the table and of the leases, and their invariants.      *)

SafeInv == TableInv /\ LeaseInv /\ ProcessTypeOK

LEMMA SafeIsTyped ==
  ASSUME SafeInv
  PROVE  RunTypeOK
BY DEF SafeInv, TableInv, LeaseInv, RunTypeOK

LEMMA SafeInit ==
  ASSUME RunInit
  PROVE  SafeInv
<1>1. TableInv
  BY InitInv DEF RunInit
<1>2. LeaseInv
  BY DEF RunInit, LeaseInit, LeaseInv, LeaseTypeOK, LeasesExclusive, OneLeasePerOwner
<1>3. ProcessTypeOK
  BY CommitIsContent, FaultAssumption, NoTaskAssumption
  DEF RunInit, ProcessTypeOK, Label, Handling, Critical, Working
<1> QED
  BY <1>1, <1>2, <1>3 DEF SafeInv

LEMMA SafeStep ==
  ASSUME SafeInv, [RunNext]_vars
  PROVE  SafeInv' /\ [TableNext]_tableVars /\ [LeaseNext]_lease
<1>1. [TableNext]_tableVars /\ [LeaseNext]_lease
  BY SafeIsTyped, StepRefines
<1>2. TableInv'
  BY <1>1, NextInv, StutterInv DEF SafeInv
<1>3. LeaseInv'
  BY <1>1, LeaseNextInv DEF SafeInv
<1>4. ProcessTypeOK'
  BY SafeIsTyped, StepTypes
<1> QED
  BY <1>1, <1>2, <1>3, <1>4 DEF SafeInv

\* Types, the table's invariant and the leases' invariant, together.
THEOREM SafeTheorem == RunSpec => []SafeInv
BY SafeInit, SafeStep, PTL DEF RunSpec

\* Every variable of the system keeps its type.
THEOREM RunTypeTheorem == RunSpec => []RunTypeOK
BY SafeTheorem, SafeIsTyped, PTL

\* The workers together never change the board in a way, or by two ways at
\* once, that the task table does not offer as one operation.
THEOREM TableRefinement == RunSpec => ImplementsTable
<1>1. RunInit => TableInit
  BY DEF RunInit
<1>2. SafeInv /\ [RunNext]_vars => [TableNext]_tableVars
  BY SafeStep
<1> QED
  BY <1>1, <1>2, SafeTheorem, PTL DEF RunSpec, TableSpec, ImplementsTable

\* Nor the leases in a way the lease file does not offer.
THEOREM LeaseRefinement == RunSpec => ImplementsLeases
<1>1. RunInit => LeaseInit
  BY DEF RunInit
<1>2. SafeInv /\ [RunNext]_vars => [LeaseNext]_lease
  BY SafeStep
<1> QED
  BY <1>1, <1>2, SafeTheorem, PTL DEF RunSpec, LeaseSpec, ImplementsLeases

\* So no two workers ever hold leases on conflicting paths, however many
\* processes run.
THEOREM RunExclusionTheorem == RunSpec => []LeasesExclusive
BY SafeTheorem, PTL DEF SafeInv, LeaseInv

\* And a worker has one lease, never an empty one.
THEOREM RunOneLeaseTheorem == RunSpec => []OneLeasePerOwner
BY SafeTheorem, PTL DEF SafeInv, LeaseInv

-----------------------------------------------------------------------------
(***************************************************************************)
(* What reaches the main branch and stays there, as long as no reconciler  *)
(* outlives the TTL of its lock (SlowHolder = FALSE).                      *)
(*                                                                         *)
(* MergedOnMain is not inductive.  It needs the lock (one reconciler at a  *)
(* time, so main does not move between a rebase and its update-ref), the   *)
(* claim (one worker at a time commits in a task's worktree, so what a     *)
(* submitted task's worktree holds is that task's work), and every commit  *)
(* anybody remembers being part of main.                                   *)
(***************************************************************************)

\* One reconciler at a time.
LockHeld == \A w \in Worker : pc[w] \in Critical => lock = w

\* A worker at work has the claim of its task.
ClaimHeld == \A w \in Worker : pc[w] \in Working => HeldBy(job[w], w)

\* What the reconciler still has to do is still submitted.
SnapshotReady ==
  \A w \in Worker : pc[w] \in Critical =>
    \A t \in todo[w] : task[t].status = "ready_to_merge" /\ t # job[w]

\* The commits that tasks, worktrees and processes remember are on main.
BasesOnMain ==
  /\ \A t \in TaskId : task[t].base \subseteq main
  /\ \A t \in TaskId : tree[t] # NoTree => tree[t].base \subseteq main
  /\ \A w \in Worker : pc[w] # "advance" => head[w] \subseteq main

\* A rebased branch is main and the task; then main contains the task.
RebasedOnMain ==
  /\ \A w \in Worker : pc[w] = "advance" =>
       head[w] = main \cup {job[w]} /\ task[job[w]].status = "ready_to_merge"
  /\ \A w \in Worker : pc[w] = "mark" => job[w] \in main

\* A submitted worktree, or one about to be, holds the work of its task.
SubmittedWork ==
  /\ \A t \in TaskId : task[t].status = "ready_to_merge" /\ tree[t] # NoTree
                         => tree[t].work = {t}
  /\ \A w \in Worker : pc[w] = "submit" /\ tree[job[w]] # NoTree
                         => tree[job[w]].work = {job[w]}

\* The workers never complete a task without a merge.
MergedIn ==
  \A t \in TaskId : /\ task[t].status = "merged" => t \in main
                    /\ task[t].status # "completed"

MergeInv ==
  /\ LockHeld
  /\ ClaimHeld
  /\ SnapshotReady
  /\ BasesOnMain
  /\ RebasedOnMain
  /\ SubmittedWork
  /\ MergedIn

-----------------------------------------------------------------------------
\* The steps that change neither the table nor main nor a worktree.
LEMMA LocalSteps ==
  ASSUME SafeInv, MergeInv, SlowHolder = FALSE, NEW w \in Worker,
         \/ Reconcile(w) \/ SkipReconcile(w) \/ EndReconcile(w)
         \/ ReleaseReopened(w) \/ ReleaseMerged(w)
         \/ ReadCandidates(w) \/ NothingToClaim(w) \/ GiveBack(w) \/ Die(w)
         \/ \E t \in TaskId : TryLease(w, t)
  PROVE  MergeInv'
<1> USE SafeIsTyped, WorkerAssumption, NoTaskAssumption
    DEF RunTypeOK, ProcessTypeOK, Critical, Working, Goto, Forget
<1> USE DEF MergeInv, LockHeld, ClaimHeld, HeldBy, SnapshotReady, BasesOnMain,
            RebasedOnMain, SubmittedWork, MergedIn
<1>2. CASE Reconcile(w)
  <2>1. \A v \in Worker \ {w} : pc[v] \notin Critical
    BY <1>2 DEF Reconcile, CanLock
  <2>2. /\ pc' = [pc EXCEPT ![w] = "reconcile"] /\ lock' = w
        /\ todo' = [todo EXCEPT ![w] = {t \in TaskId : task[t].status = "ready_to_merge"}]
        /\ UNCHANGED <<task, main, tree, job, head>> /\ pc[w] = "top"
    BY <1>2 DEF Reconcile, tableVars
  <2>3. LockHeld'
    BY <2>1, <2>2
  <2>4. ClaimHeld' /\ BasesOnMain' /\ RebasedOnMain' /\ SubmittedWork' /\ MergedIn'
    BY <2>2
  <2>5. SnapshotReady'
    <3>1. job[w] = NoTask
      BY <2>2 DEF Handling
    <3> QED
      BY <2>1, <2>2, <3>1
  <2> QED
    BY <2>3, <2>4, <2>5
<1>3. CASE SkipReconcile(w)
  BY <1>3 DEF SkipReconcile, tableVars
<1>4. CASE EndReconcile(w)
  BY <1>4 DEF EndReconcile, tableVars
<1>5. CASE ReleaseReopened(w)
  BY <1>5 DEF ReleaseReopened, tableVars
<1>6. CASE ReleaseMerged(w)
  BY <1>6 DEF ReleaseMerged, tableVars
<1>7. CASE ReadCandidates(w)
  BY <1>7 DEF ReadCandidates, tableVars
<1>8. CASE NothingToClaim(w)
  BY <1>8 DEF NothingToClaim, tableVars
<1>9. CASE GiveBack(w)
  BY <1>9 DEF GiveBack, tableVars
<1>10. CASE Die(w)
  BY <1>10 DEF Die, tableVars
<1>11. ASSUME NEW t \in TaskId, TryLease(w, t)
       PROVE  MergeInv'
  BY <1>11 DEF TryLease, tableVars
<1> QED
  BY <1>2, <1>3, <1>4, <1>5, <1>6, <1>7, <1>8, <1>9, <1>10, <1>11, Zenon

\* Removing a worktree disturbs nothing, whoever still works in it.
LEMMA RemovalSteps ==
  ASSUME SafeInv, MergeInv, NEW w \in Worker,
         DiscardTree(w) \/ RemoveMerged(w) \/ Cleanup(w)
  PROVE  MergeInv'
<1> USE SafeIsTyped, NoTaskAssumption
    DEF RunTypeOK, ProcessTypeOK, Handling, Critical, Working, Goto, Forget
<1> USE DEF MergeInv, LockHeld, ClaimHeld, HeldBy, SnapshotReady, BasesOnMain,
            RebasedOnMain, SubmittedWork, MergedIn
<1>1. job[w] \in TaskId
  BY HandlesTask DEF DiscardTree, RemoveMerged, Cleanup, Handling
<1>2. tree' = tree \/ tree' = [tree EXCEPT ![job[w]] = NoTree]
  BY DEF DiscardTree, RemoveMerged, Cleanup, RemoveTree
<1>3. \A t \in TaskId : tree'[t] = tree[t] \/ tree'[t] = NoTree
  BY <1>1, <1>2
<1>4. CASE DiscardTree(w)
  BY <1>3, <1>4 DEF DiscardTree, tableVars
<1>5. CASE RemoveMerged(w)
  BY <1>3, <1>5 DEF RemoveMerged, tableVars
<1>6. CASE Cleanup(w)
  BY <1>3, <1>6 DEF Cleanup, tableVars
<1> QED
  BY <1>4, <1>5, <1>6

\* A worker that creates or uses the worktree of its task has the claim, so
\* nobody else is about to submit what is in it.
LEMMA WorkSteps ==
  ASSUME SafeInv, MergeInv, NEW w \in Worker, CreateTree(w) \/ Work(w)
  PROVE  MergeInv'
<1> USE SafeIsTyped, NoTaskAssumption
    DEF RunTypeOK, ProcessTypeOK, Handling, Critical, Working, Goto
<1> USE DEF MergeInv, LockHeld, ClaimHeld, HeldBy, SnapshotReady, BasesOnMain,
            RebasedOnMain, SubmittedWork, MergedIn
<1>1. /\ job[w] \in TaskId /\ pc[w] \in {"create", "work"}
      /\ task[job[w]].status = "claimed" /\ task[job[w]].by = w
  BY DEF CreateTree, Work, Handling
<1>2. \A v \in Worker \ {w} : pc[v] = "submit" => job[v] # job[w]
  BY <1>1
<1>3. /\ UNCHANGED <<task, main, lock, job, owner, todo, head>>
      /\ \E l \in {"work", "submit", "fail"} : pc' = [pc EXCEPT ![w] = l]
  BY DEF CreateTree, Work, tableVars
<1>4. /\ \A t \in TaskId \ {job[w]} : tree'[t] = tree[t]
      /\ tree'[job[w]] # NoTree => tree'[job[w]].base \subseteq main
      /\ pc'[w] = "submit" => tree'[job[w]].work = {job[w]}
  <2>1. CASE CreateTree(w)
    <3> DEFINE new == [by |-> w, base |-> task[job[w]].base, work |-> {}]
    <3>1. new.base = task[job[w]].base
      OBVIOUS
    <3>2. tree' = tree \/ tree' = [tree EXCEPT ![job[w]] = new]
      BY <2>1 DEF CreateTree
    <3>3. pc'[w] # "submit"
      BY <2>1 DEF CreateTree
    <3> HIDE DEF new
    <3> QED
      BY <1>1, <3>1, <3>2, <3>3
  <2>2. CASE Work(w)
    <3> DEFINE r == tree[job[w]]
    <3>1. r # NoTree => /\ Committed(r, job[w]).base = r.base
                        /\ Committed(r, job[w]).work = {job[w]}
      <4>1. r # NoTree => r \in Tree
        BY <1>1
      <4> QED
        BY <1>1, <4>1, TreeOps, CommitAssumption
    <3>2. \/ tree' = tree /\ pc'[w] = "fail"
          \/ /\ r # NoTree
             /\ tree' = [tree EXCEPT ![job[w]] = Committed(r, job[w])]
      BY <2>2 DEF Work
    <3> QED
      BY <1>1, <3>1, <3>2
  <2> QED
    BY <2>1, <2>2
<1>5. SubmittedWork'
  BY <1>1, <1>2, <1>3, <1>4
<1>6. BasesOnMain'
  BY <1>1, <1>3, <1>4
<1>7. LockHeld' /\ ClaimHeld' /\ SnapshotReady' /\ RebasedOnMain' /\ MergedIn'
  BY <1>1, <1>3
<1> QED
  BY <1>5, <1>6, <1>7

\* A rebase leaves main's content and the one task on the branch.
LEMMA RebaseStep ==
  ASSUME SafeInv, MergeInv, NEW w \in Worker, NEW t \in TaskId, Rebase(w, t)
  PROVE  MergeInv'
<1> USE SafeIsTyped, NoTaskAssumption
    DEF RunTypeOK, ProcessTypeOK, Handling, Critical, Working, Goto
<1> USE DEF MergeInv, LockHeld, ClaimHeld, HeldBy, SnapshotReady, BasesOnMain,
            RebasedOnMain, SubmittedWork, MergedIn
<1>1. /\ pc[w] = "reconcile" /\ t \in todo[w] /\ task[t].status = "ready_to_merge"
      /\ UNCHANGED <<task, main, lock>>
      /\ todo' = [todo EXCEPT ![w] = @ \ {t}] /\ job' = [job EXCEPT ![w] = t]
      /\ \E l \in {"missing", "reopen", "advance"} : pc' = [pc EXCEPT ![w] = l]
  BY DEF Rebase, tableVars
<1>2. tree[t] # NoTree =>
        /\ OnBase(tree[t], main).base = main
        /\ OnBase(tree[t], main).work = tree[t].work
  <2>1. tree[t] # NoTree => tree[t] \in Tree
    OBVIOUS
  <2> QED
    BY <2>1, TreeOps
<1>3. \/ tree' = tree
      \/ tree[t] # NoTree /\ tree' = [tree EXCEPT ![t] = OnBase(tree[t], main)]
  BY DEF Rebase
<1>4. \A u \in TaskId : tree'[u] # NoTree =>
        /\ tree[u] # NoTree /\ tree'[u].work = tree[u].work
        /\ tree'[u].base \subseteq main
  BY <1>2, <1>3
<1>5. /\ \A v \in Worker \ {w} : head'[v] = head[v]
      /\ pc'[w] = "advance" => head'[w] = main \cup {t}
      /\ pc'[w] # "advance" => head'[w] \subseteq main
  <2>1. tree[t] # NoTree => main \cup tree[t].base \cup tree[t].work = main \cup {t}
    BY <1>1
  <2>2. /\ \A v \in Worker \ {w} : head'[v] = head[v]
        /\ \/ head'[w] = main /\ pc'[w] \in {"missing", "reopen"}
           \/ /\ tree[t] # NoTree
              /\ head'[w] = main \cup tree[t].base \cup tree[t].work
              /\ pc'[w] = "advance"
    BY DEF Rebase
  <2> QED
    BY <2>1, <2>2
<1>6. SubmittedWork' /\ BasesOnMain' /\ RebasedOnMain'
  BY <1>1, <1>4, <1>5
<1>7. LockHeld' /\ ClaimHeld' /\ SnapshotReady' /\ MergedIn'
  BY <1>1
<1> QED
  BY <1>6, <1>7

\* update-ref: main gains the one task, and nobody else is between a rebase
\* and an update-ref.
LEMMA AdvanceStep ==
  ASSUME SafeInv, MergeInv, NEW w \in Worker, AdvanceMain(w)
  PROVE  /\ MergeInv'
         /\ main' = main \cup {job[w]} /\ task[job[w]].status = "ready_to_merge"
<1> USE SafeIsTyped, NoTaskAssumption
    DEF RunTypeOK, ProcessTypeOK, Handling, Critical, Working, Goto
<1> USE DEF MergeInv, LockHeld, ClaimHeld, HeldBy, SnapshotReady, BasesOnMain,
            RebasedOnMain, SubmittedWork, MergedIn
<1>1. /\ pc[w] = "advance" /\ main' = head[w] /\ pc' = [pc EXCEPT ![w] = "mark"]
      /\ UNCHANGED <<task, tree, lock, job, owner, todo, head>>
  BY DEF AdvanceMain, tableVars
<1>2. main' = main \cup {job[w]} /\ task[job[w]].status = "ready_to_merge"
  BY <1>1
<1>3. \A v \in Worker \ {w} : pc[v] # "advance"
  BY <1>1
<1>4. RebasedOnMain' /\ BasesOnMain'
  BY <1>1, <1>2, <1>3
<1>5. LockHeld' /\ ClaimHeld' /\ SnapshotReady' /\ SubmittedWork' /\ MergedIn'
  BY <1>1, <1>2
<1> QED
  BY <1>2, <1>4, <1>5

-----------------------------------------------------------------------------
(* The steps that move a task.                                              *)

OthersKept(t) == \A u \in TaskId \ {t} : task'[u] = task[u]

LEMMA ClaimRow ==
  ASSUME TableTypeOK, NEW t \in TaskId, NEW w \in Worker, NEW c \in Commit, ClaimTask(t, w, c)
  PROVE  /\ OthersKept(t) /\ task[t].status \in {"pending", "reopened"}
         /\ task'[t].status = "claimed" /\ task'[t].by = w /\ task'[t].base = c
<1> DEFINE row == [task[t] EXCEPT !.status = "claimed", !.by = w, !.base = c]
<1>1. row.status = "claimed" /\ row.by = w /\ row.base = c
  BY DEF TableTypeOK, Row
<1>2. task' = [task EXCEPT ![t] = row]
  BY DEF ClaimTask, Save
<1> HIDE DEF row
<1> QED
  BY <1>1, <1>2 DEF OthersKept, TableTypeOK, ClaimTask, Claimable

LEMMA StatusRow ==
  ASSUME TableTypeOK, NEW t \in TaskId, NEW s, Save(t, [task[t] EXCEPT !.status = s])
  PROVE  /\ OthersKept(t)
         /\ task'[t].status = s /\ task'[t].by = task[t].by /\ task'[t].base = task[t].base
<1> DEFINE row == [task[t] EXCEPT !.status = s]
<1>1. row.status = s /\ row.by = task[t].by /\ row.base = task[t].base
  BY DEF TableTypeOK, Row
<1>2. task' = [task EXCEPT ![t] = row]
  BY DEF Save
<1> HIDE DEF row
<1> QED
  BY <1>1, <1>2 DEF OthersKept, TableTypeOK

LEMMA SubmitRow ==
  ASSUME TableTypeOK, NEW t \in TaskId, NEW w \in Worker, SubmitResult(t, w)
  PROVE  /\ OthersKept(t)
         /\ task'[t].status = "ready_to_merge" /\ task'[t].base = task[t].base
BY StatusRow, Zenon DEF SubmitResult

LEMMA MergedRow ==
  ASSUME TableTypeOK, NEW t \in TaskId, MarkMerged(t)
  PROVE  /\ OthersKept(t) /\ task[t].status = "ready_to_merge"
         /\ task'[t].status = "merged" /\ task'[t].base = task[t].base
BY StatusRow, Zenon DEF MarkMerged

LEMMA ReopenRow ==
  ASSUME TableTypeOK, NEW t \in TaskId, NEW c \in Commit, ReopenOrBlock(t, c)
  PROVE  /\ OthersKept(t)
         /\ task'[t].status \in {"blocked", "reopened"}
         /\ task'[t].base \in {task[t].base, c}
<1> DEFINE s == IF task[t].reopens + 1 > ReopenLimit THEN "blocked" ELSE "reopened"
           n == task[t].reopens + 1
           b == IF c = NoCommit THEN task[t].base ELSE c
           row == [task[t] EXCEPT !.status = s, !.reopens = n, !.base = b]
<1>1. row.status = s /\ row.base = b
  BY DEF TableTypeOK, Row
<1>2. task' = [task EXCEPT ![t] = row]
  BY DEF ReopenOrBlock, Save
<1>3. s \in {"blocked", "reopened"} /\ b \in {task[t].base, c}
  OBVIOUS
<1> HIDE DEF row, s, n, b
<1> QED
  BY <1>1, <1>2, <1>3 DEF OthersKept, TableTypeOK

\* A planning round changes rows of unpublished tasks only.
LEMMA PlanRows ==
  ASSUME TableInv, Plan, NEW t \in TaskId
  PROVE  \/ task'[t] = task[t]
         \/ /\ task[t].status = "absent" /\ task'[t].status = "pending"
            /\ task'[t].base = task[t].base
<1>1. CASE PublishBatch
  <2>1. draft \in Draft /\ DraftClosed(draft)
    BY <1>1 DEF PublishBatch, TableInv, TableTypeOK, DraftInv
  <2>2. t \in draft.batch => task[t].status = "absent"
    BY <2>1 DEF DraftClosed, Published
  <2> DEFINE row == [task[t] EXCEPT !.status = "pending", !.deps = draft.deps[t]]
  <2>3. row.status = "pending" /\ row.base = task[t].base
    BY DEF TableInv, TableTypeOK, Row
  <2>4. task'[t] = IF t \in draft.batch THEN row ELSE task[t]
    BY <1>1 DEF PublishBatch
  <2> HIDE DEF row
  <2> QED
    BY <2>2, <2>3, <2>4
<1>2. CASE task' = task
  BY <1>2
<1> QED
  BY <1>1, <1>2
  DEF Plan, FinishPlan, BeginPublish, PeelReady, RejectCyclic, AbandonPublish

\* A claim takes a task nobody holds, on a commit that is on main.
LEMMA ClaimStep ==
  ASSUME SafeInv, MergeInv, NEW w \in Worker, Claim(w)
  PROVE  MergeInv'
<1> USE SafeIsTyped, NoTaskAssumption
    DEF RunTypeOK, ProcessTypeOK, Handling, Critical, Working, Goto, Forget
<1> USE DEF MergeInv, LockHeld, ClaimHeld, HeldBy, SnapshotReady, BasesOnMain,
            RebasedOnMain, SubmittedWork, MergedIn, OthersKept
<1>1. /\ pc[w] = "claim" /\ job[w] \in TaskId /\ head[w] \in Commit
      /\ UNCHANGED <<main, tree, lock, job>>
  BY DEF Claim
<1>2. CASE ClaimTask(job[w], w, head[w])
  <2>1. /\ OthersKept(job[w]) /\ task[job[w]].status \in {"pending", "reopened"}
        /\ task'[job[w]].status = "claimed" /\ task'[job[w]].by = w
        /\ task'[job[w]].base = head[w]
    <3>1. TableTypeOK
      BY DEF SafeInv, TableInv
    <3> QED
      BY <1>1, <1>2, <3>1, ClaimRow
  <2>2. /\ \A v \in Worker \ {w} : UNCHANGED <<pc[v], todo[v], head[v]>>
        /\ \/ pc'[w] = "create" /\ head'[w] = {} /\ todo'[w] = {}
           \/ pc'[w] = "giveback" /\ head'[w] = head[w] /\ todo'[w] = todo[w]
        /\ pc'[w] = "create" \/ task' = task
    BY <1>1 DEF Claim, Refused, tableVars
  <2>3. ClaimHeld'
    BY <1>1, <2>1, <2>2
  <2>4. LockHeld' /\ SnapshotReady' /\ BasesOnMain'
    BY <1>1, <2>1, <2>2
  <2>5. RebasedOnMain' /\ SubmittedWork' /\ MergedIn'
    BY <1>1, <2>1, <2>2
  <2> QED
    BY <2>3, <2>4, <2>5
<1>3. CASE task' = task /\ pc' = [pc EXCEPT ![w] = "giveback"] /\ UNCHANGED <<todo, head>>
  BY <1>1, <1>3
<1> QED
  BY <1>2, <1>3 DEF Claim, Refused, tableVars

\* A worker that fails gives its own claim up; a reconciler that sends a task
\* back does it to the one it has taken off its list.
LEMMA BackSteps ==
  ASSUME SafeInv, MergeInv, NEW w \in Worker, Fail(w) \/ Reopen(w)
  PROVE  MergeInv'
<1> USE SafeIsTyped, NoTaskAssumption
    DEF RunTypeOK, ProcessTypeOK, Handling, Critical, Working, Goto, Forget
<1> USE DEF MergeInv, LockHeld, ClaimHeld, HeldBy, SnapshotReady, BasesOnMain,
            RebasedOnMain, SubmittedWork, MergedIn, OthersKept
<1>1. /\ pc[w] \in {"fail", "missing", "reopen"} /\ job[w] \in TaskId
      /\ UNCHANGED <<main, tree, lock, job, todo, head>>
      /\ \A v \in Worker \ {w} : pc'[v] = pc[v]
      /\ pc[w] = "fail" => pc'[w] = "cleanup"
      /\ pc[w] # "fail" => pc'[w] \in {"forget", "release"}
  BY DEF Fail, Reopen
<1>2. CASE task' = task
  BY <1>1, <1>2
<1>3. ASSUME NEW c \in Commit, ReopenOrBlock(job[w], c), c \subseteq main,
             \/ pc[w] = "fail" /\ task[job[w]].status = "claimed" /\ task[job[w]].by = w
             \/ pc[w] # "fail" /\ task[job[w]].status = "ready_to_merge"
      PROVE  MergeInv'
  <2>1. /\ OthersKept(job[w])
        /\ task'[job[w]].status \in {"blocked", "reopened"}
        /\ task'[job[w]].base \subseteq main
    <3>1. /\ OthersKept(job[w])
          /\ task'[job[w]].status \in {"blocked", "reopened"}
          /\ task'[job[w]].base \in {task[job[w]].base, c}
      BY <1>1, <1>3, ReopenRow, Zenon DEF SafeInv, TableInv
    <3> QED
      BY <1>1, <1>3, <3>1
  <2>2. ClaimHeld'
    BY <1>1, <1>3, <2>1
  <2>3. SnapshotReady' /\ LockHeld'
    BY <1>1, <1>3, <2>1
  <2>4. RebasedOnMain' /\ BasesOnMain'
    BY <1>1, <1>3, <2>1
  <2>5. SubmittedWork' /\ MergedIn'
    BY <1>1, <1>3, <2>1
  <2> QED
    BY <2>2, <2>3, <2>4, <2>5
<1>4. CASE Fail(w) /\ WorkerFailed(job[w], w)
  <2>1. task[job[w]].base \in Commit /\ task[job[w]].base \subseteq main
    BY <1>1 DEF TableTypeOK, Row
  <2> QED
    BY <1>3, <1>4, <2>1 DEF Fail, WorkerFailed
<1>5. CASE Reopen(w) /\ ReopenConflict(job[w], head[w])
  <2>1. head[w] \in Commit /\ head[w] \subseteq main
    BY <1>5 DEF Reopen
  <2> QED
    BY <1>3, <1>5, <2>1 DEF Reopen, ReopenConflict
<1> QED
  BY <1>2, <1>4, <1>5 DEF Fail, Reopen, Try, Refused, tableVars

\* A submission hands over a worktree that holds the work; marking a task
\* merged comes after main got it.
LEMMA ForwardSteps ==
  ASSUME SafeInv, MergeInv, NEW w \in Worker, Submit(w) \/ Mark(w)
  PROVE  MergeInv'
<1> USE SafeIsTyped, NoTaskAssumption
    DEF RunTypeOK, ProcessTypeOK, Handling, Critical, Working, Goto, Forget
<1> USE DEF MergeInv, LockHeld, ClaimHeld, HeldBy, SnapshotReady, BasesOnMain,
            RebasedOnMain, SubmittedWork, MergedIn, OthersKept
<1>1. /\ pc[w] \in {"submit", "mark"} /\ job[w] \in TaskId
      /\ UNCHANGED <<main, tree, lock, todo>>
      /\ \A v \in Worker \ {w} : UNCHANGED <<pc[v], job[v], head[v]>>
      /\ pc[w] = "submit" => pc'[w] \in {"top", "cleanup"}
      /\ pc[w] = "mark" => pc'[w] = "remove" /\ job'[w] = job[w]
      /\ head'[w] = head[w] \/ head'[w] = {}
  BY DEF Submit, Mark
<1>2. CASE task' = task
  <2>1. LockHeld' /\ ClaimHeld' /\ SnapshotReady'
    BY <1>1, <1>2
  <2>2. BasesOnMain' /\ RebasedOnMain' /\ SubmittedWork' /\ MergedIn'
    BY <1>1, <1>2
  <2> QED
    BY <2>1, <2>2
<1>3. CASE Submit(w) /\ SubmitResult(job[w], w)
  <2>1. /\ OthersKept(job[w]) /\ pc[w] = "submit"
        /\ task'[job[w]].status = "ready_to_merge" /\ task'[job[w]].base = task[job[w]].base
    BY <1>1, <1>3, SubmitRow DEF SafeInv, TableInv, Submit
  <2>2. LockHeld' /\ ClaimHeld' /\ SnapshotReady'
    BY <1>1, <2>1
  <2>3. BasesOnMain' /\ RebasedOnMain'
    BY <1>1, <2>1
  <2>4. SubmittedWork' /\ MergedIn'
    BY <1>1, <2>1
  <2> QED
    BY <2>2, <2>3, <2>4
<1>4. CASE Mark(w) /\ MarkMerged(job[w])
  <2>1. /\ OthersKept(job[w]) /\ pc[w] = "mark" /\ task[job[w]].status = "ready_to_merge"
        /\ task'[job[w]].status = "merged" /\ task'[job[w]].base = task[job[w]].base
    BY <1>1, <1>4, MergedRow DEF SafeInv, TableInv, Mark
  <2>2. LockHeld' /\ ClaimHeld' /\ SnapshotReady'
    BY <1>1, <2>1
  <2>3. BasesOnMain' /\ RebasedOnMain'
    BY <1>1, <2>1
  <2>4. SubmittedWork' /\ MergedIn'
    BY <1>1, <2>1
  <2> QED
    BY <2>2, <2>3, <2>4
<1> QED
  BY <1>2, <1>3, <1>4 DEF Submit, Mark, Try, Refused, tableVars

\* Planning touches nothing a process works on.
LEMMA PlanStep ==
  ASSUME SafeInv, MergeInv, Plan
  PROVE  MergeInv'
<1> USE SafeIsTyped, NoTaskAssumption
    DEF RunTypeOK, ProcessTypeOK, Handling, Critical, Working, Goto, Forget
<1> USE DEF MergeInv, LockHeld, ClaimHeld, HeldBy, SnapshotReady, BasesOnMain,
            RebasedOnMain, SubmittedWork, MergedIn, OthersKept
<1>1. UNCHANGED <<main, tree, lock, pc, job, todo, head>>
  BY DEF Plan
<1>2. \A t \in TaskId :
        \/ task'[t] = task[t]
        \/ /\ task[t].status = "absent" /\ task'[t].status = "pending"
           /\ task'[t].base = task[t].base
  BY PlanRows DEF SafeInv
<1> QED
  BY <1>1, <1>2

-----------------------------------------------------------------------------
LEMMA MergeStep ==
  ASSUME SafeInv, MergeInv, SlowHolder = FALSE, [RunNext]_vars
  PROVE  MergeInv'
<1>1. ASSUME NEW w \in Worker, Process(w) \/ Die(w)
      PROVE  MergeInv'
  BY <1>1, LocalSteps, RemovalSteps, WorkSteps, RebaseStep, AdvanceStep, ClaimStep,
     BackSteps, ForwardSteps, Zenon DEF Process
<1>2. CASE Plan
  BY <1>2, PlanStep
<1>3. CASE UNCHANGED <<task, runVars>>
  BY <1>3 DEF runVars, MergeInv, LockHeld, ClaimHeld, HeldBy, SnapshotReady,
              BasesOnMain, RebasedOnMain, SubmittedWork, MergedIn
<1>4. ASSUME NEW l \in lease, Expire(l)
      PROVE  MergeInv'
  BY <1>3, <1>4 DEF Expire, tableVars
<1>5. CASE UNCHANGED vars
  BY <1>3, <1>5 DEF vars
<1> QED
  BY <1>1, <1>2, <1>4, <1>5 DEF RunNext

LEMMA MergeInit ==
  ASSUME RunInit
  PROVE  MergeInv
BY CommitIsContent
DEF RunInit, TableInit, MergeInv, LockHeld, ClaimHeld, SnapshotReady, BasesOnMain,
    RebasedOnMain, SubmittedWork, MergedIn, Critical, Working

\* The inductive invariant, on top of the types and the contracts.
THEOREM MergeTheorem ==
  ASSUME SlowHolder = FALSE
  PROVE  RunSpec => []MergeInv
<1>1. SafeInv /\ MergeInv /\ [RunNext]_vars => MergeInv'
  BY MergeStep
<1> QED
  BY <1>1, MergeInit, SafeTheorem, PTL DEF RunSpec

\* Whatever the workers, the plans and the faults: a task the board calls
\* merged is on main, and so are its dependencies.  The dependencies follow
\* from the board's own promise that they were done first.
THEOREM MergedTheorem ==
  ASSUME SlowHolder = FALSE
  PROVE  RunSpec => []MergedOnMain
<1>1. SafeInv /\ MergeInv => MergedOnMain
  <2> SUFFICES ASSUME SafeInv, MergeInv, NEW t \in TaskId, task[t].status = "merged"
               PROVE  {t} \cup task[t].deps \subseteq main
    BY DEF MergedOnMain
  <2>1. DepsDone(t) /\ task[t].deps \subseteq TaskId
    BY DEF SafeInv, TableInv, DependenciesFirst, GraphWellFounded, Published
  <2>2. \A d \in task[t].deps : task[d].status = "merged"
    BY <2>1 DEF DepsDone, Done, MergeInv, MergedIn
  <2> QED
    BY <2>1, <2>2 DEF MergeInv, MergedIn
<1> QED
  BY <1>1, SafeTheorem, MergeTheorem, PTL

\* Main changes only by gaining the one task a reconciler is merging.
LEMMA MainStep ==
  ASSUME SafeInv, MergeInv, [RunNext]_vars
  PROVE  \/ main' = main
         \/ \E w \in Worker : /\ main' = main \cup {job[w]}
                              /\ task[job[w]].status = "ready_to_merge"
<1>1. ASSUME NEW w \in Worker, AdvanceMain(w)
      PROVE  /\ main' = main \cup {job[w]}
             /\ task[job[w]].status = "ready_to_merge"
  BY <1>1, AdvanceStep
<1>2. ASSUME NEW w \in Worker, Process(w) \/ Die(w), ~AdvanceMain(w)
      PROVE  main' = main
  BY <1>2, Zenon
  DEF Process, Reconcile, SkipReconcile, EndReconcile, Rebase, TryLease, Reopen,
      ReleaseReopened, DiscardTree, Mark, RemoveMerged, ReleaseMerged,
      ReadCandidates, NothingToClaim, Claim, GiveBack, CreateTree, Work, Submit,
      Fail, Cleanup, Die
<1>3. ASSUME Plan \/ UNCHANGED vars \/ \E l \in lease : Expire(l)
      PROVE  main' = main
  BY <1>3 DEF Plan, Expire, vars, runVars
<1> QED
  BY <1>1, <1>2, <1>3 DEF RunNext

\* No merge ever takes a commit off main.
THEOREM FastForwardTheorem ==
  ASSUME SlowHolder = FALSE
  PROVE  RunSpec => MainFastForward
<1>1. SafeInv /\ MergeInv /\ [RunNext]_vars => main \subseteq main'
  BY MainStep
<1> QED
  BY <1>1, SafeTheorem, MergeTheorem, PTL DEF RunSpec, MainFastForward

\* Nothing reaches main but the work of a task that is submitted right then.
THEOREM OnlySubmittedTheorem ==
  ASSUME SlowHolder = FALSE
  PROVE  RunSpec => OnlySubmittedReachMain
<1>1. SafeInv /\ MergeInv /\ [RunNext]_vars =>
        \A t \in main' \ main : task[t].status = "ready_to_merge"
  BY MainStep
<1> QED
  BY <1>1, SafeTheorem, MergeTheorem, PTL DEF RunSpec, OnlySubmittedReachMain
=============================================================================
