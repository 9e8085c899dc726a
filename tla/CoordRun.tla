------------------------------ MODULE CoordRun ------------------------------
(***************************************************************************)
(* Several `xeyo coord run' processes (cli/coord_cmd.py) working off one   *)
(* board: each repeats  reconcile_ready - claim_next - run_task.           *)
(*                                                                         *)
(*   reconcile_ready  coord/reconciler.py   moves submitted work to main   *)
(*   claim_next       coord/planner.py      scope lease first, then claim  *)
(*   run_task         coord/worker_pool.py  worktree, work, commit, submit *)
(*                                                                         *)
(* A step of a process is one call that other processes can observe: one   *)
(* store operation, one worktree operation, one update of the main branch. *)
(*                                                                         *)
(* Abstractions.  A commit is the set of tasks whose change it contains.   *)
(* The order in which candidates and submissions are taken (updated_at) is *)
(* any order.  A rebase may always fail: git has a 120 s timeout, and the  *)
(* code treats every failure like a conflict.                              *)
(***************************************************************************)
EXTENDS TaskTable, ScopeLeases, FiniteSets

CONSTANTS
  PlanDeps,     \* [TaskId -> SUBSET TaskId]: the dependencies a plan declares
  NoTree,       \* there is no worktree at the task's path
  NoTask,       \* the process handles no task
  MaxFaults,    \* bound on injected faults (process deaths and refusals)
  SlowHolder    \* TRUE: a reconciler may outlive the 10 s TTL of its lock

ASSUME OwnerAssumption == Owner = Worker
ASSUME CommitIsContent == Commit = SUBSET TaskId /\ NoCommit = {}
ASSUME PlanAssumption  == PlanDeps \in [TaskId -> SUBSET TaskId]
ASSUME TreeAssumption  == NoTree \notin [by : Worker, base : Commit, work : SUBSET TaskId]
ASSUME NoTaskAssumption == NoTask \notin TaskId
ASSUME FaultAssumption == MaxFaults \in Nat /\ SlowHolder \in BOOLEAN
ASSUME ScopeAssumption == Scope \in [TaskId -> SUBSET Path]

VARIABLES
  main,    \* the content of refs/heads/main
  tree,    \* the worktree and branch of each task (paths depend on the task only)
  lock,    \* the process whose token is in reconciler.lock, or NoOne
  pc,      \* where each process is
  job,     \* the task it handles
  owner,   \* the lease owner the reconciler read for that task
  todo,    \* the tasks of its snapshot not handled yet
  head,    \* the commit it has read or produced
  faults   \* faults injected so far

runVars == <<main, tree, lock, pc, job, owner, todo, head, faults>>
vars == <<task, draft, lease, runVars>>

Tree == [by : Worker, base : Commit, work : SUBSET TaskId]

\* A worktree after a rebase onto c, and after a commit of task t's change.
OnBase(r, c)    == [r EXCEPT !.base = c]
Committed(r, t) == [r EXCEPT !.work = {t}]

\* A process that runs reconcile_ready, one that handles some task, and one
\* that works on the task it has claimed.
Critical == {"reconcile", "missing", "forget", "reopen", "release", "discard",
             "advance", "mark", "remove", "letgo"}
Working  == {"create", "work", "submit", "fail"}
Handling == (Critical \ {"reconcile"}) \cup {"claim", "giveback", "cleanup"} \cup Working
Label    == Critical \cup Handling \cup {"top", "pick", "lease", "dead"}

ProcessTypeOK ==
  /\ main \in Commit
  /\ tree \in [TaskId -> Tree \cup {NoTree}]
  /\ lock \in Worker \cup {NoOne}
  /\ pc \in [Worker -> Label]
  /\ job \in [Worker -> TaskId \cup {NoTask}]
  /\ owner \in [Worker -> Worker \cup {NoOne}]
  /\ todo \in [Worker -> SUBSET TaskId]
  /\ head \in [Worker -> Commit]
  /\ faults \in 0..MaxFaults
  /\ \A w \in Worker : pc[w] \in Handling <=> job[w] # NoTask

RunTypeOK == TableTypeOK /\ LeaseTypeOK /\ ProcessTypeOK

RunInit ==
  /\ TableInit
  /\ LeaseInit
  /\ main = {}
  /\ tree = [t \in TaskId |-> NoTree]
  /\ lock = NoOne
  /\ pc = [w \in Worker |-> "top"]
  /\ job = [w \in Worker |-> NoTask]
  /\ owner = [w \in Worker |-> NoOne]
  /\ todo = [w \in Worker |-> {}]
  /\ head = [w \in Worker |-> {}]
  /\ faults = 0

Goto(w, l) == pc' = [pc EXCEPT ![w] = l]

\* The locals of a call are gone when it returns.
Forget(w) ==
  /\ job' = [job EXCEPT ![w] = NoTask]
  /\ owner' = [owner EXCEPT ![w] = NoOne]
  /\ head' = [head EXCEPT ![w] = {}]

\* A call that is refused for want of a lock (graph guard or FileGuard timeout)
\* returns None and changes nothing; most callers ignore that.
Fault == faults < MaxFaults /\ faults' = faults + 1

Refused == Fault /\ UNCHANGED tableVars

\* A store transition the caller does not check: applied, refused by its own
\* guard, or refused for want of a lock.
Try(guard, step) ==
  \/ guard /\ step /\ UNCHANGED faults
  \/ ~guard /\ UNCHANGED <<tableVars, faults>>
  \/ Refused

GiveUpLease(w, P) ==
  \/ ReleasePaths(w, P) /\ UNCHANGED faults
  \/ Fault /\ UNCHANGED lease

\* wt.remove is best effort, and goes by the path of the task.
RemoveTree(t) ==
  \/ tree' = [tree EXCEPT ![t] = NoTree] /\ UNCHANGED faults
  \/ Fault /\ UNCHANGED tree

-----------------------------------------------------------------------------
(* reconcile_ready                                                         *)

\* (Mutant of CanLock: the lock does not exclude anyone.)
CanLock_Always(w) == TRUE

\* The lock is taken when free, when its holder died (its file goes stale), or,
\* with SlowHolder, when its holder has kept it longer than the TTL.
CanLock(w) == \A v \in Worker \ {w} : lock = v => pc[v] = "dead" \/ SlowHolder

\* (Mutant of Reconcile: claimed tasks that have a branch are taken as well.)
Reconcile_TakesClaimed(w) ==
  /\ pc[w] = "top"
  /\ CanLock(w)
  /\ lock' = w
  /\ todo' = [todo EXCEPT ![w] = {t \in TaskId : task[t].status \in {"ready_to_merge", "claimed"}}]
  /\ Goto(w, "reconcile")
  /\ UNCHANGED <<tableVars, lease, main, tree, job, owner, head, faults>>

Reconcile(w) ==
  /\ pc[w] = "top"
  /\ CanLock(w)
  /\ lock' = w
  /\ todo' = [todo EXCEPT ![w] = {t \in TaskId : task[t].status = "ready_to_merge"}]
  /\ Goto(w, "reconcile")
  /\ UNCHANGED <<tableVars, lease, main, tree, job, owner, head, faults>>

\* "reconciler_lock_busy": this round is skipped.
SkipReconcile(w) ==
  /\ pc[w] = "top"
  /\ lock \notin {NoOne, w}
  /\ Goto(w, "pick")
  /\ UNCHANGED <<tableVars, lease, main, tree, lock, job, owner, todo, head, faults>>

\* The guard removes the lock file only if it still holds its own token.
EndReconcile(w) ==
  /\ pc[w] = "reconcile"
  /\ todo[w] = {}
  /\ lock' = IF lock = w THEN NoOne ELSE lock
  /\ Goto(w, "pick")
  /\ UNCHANGED <<tableVars, lease, main, tree, job, owner, todo, head, faults>>

\* (Mutant of Rebase: a missing worktree is skipped, not sent back.)
Rebase_SkipsMissing(w, t) ==
  /\ pc[w] = "reconcile"
  /\ t \in todo[w]
  /\ todo' = [todo EXCEPT ![w] = @ \ {t}]
  /\ IF tree[t] = NoTree
     THEN UNCHANGED <<pc, job, owner, tree, head>>
     ELSE /\ job' = [job EXCEPT ![w] = t]
          /\ owner' = [owner EXCEPT ![w] = task[t].by]
          /\ head' = [head EXCEPT ![w] = main \cup tree[t].base \cup tree[t].work]
          /\ tree' = [tree EXCEPT ![t] = OnBase(@, main)]
          /\ Goto(w, "advance")
  /\ UNCHANGED <<tableVars, lease, main, lock, faults>>

\* _reconcile_one up to the rebase.  With no worktree, or when the rebase
\* fails, the task is sent back with the main head just read; a rebase that
\* succeeds leaves main's content plus the work on the task's branch.  The code
\* has the owner from the snapshot; while the lock holds it is the owner still.
Rebase(w, t) ==
  /\ pc[w] = "reconcile"
  /\ t \in todo[w]
  /\ todo' = [todo EXCEPT ![w] = @ \ {t}]
  /\ job' = [job EXCEPT ![w] = t]
  /\ owner' = [owner EXCEPT ![w] = task[t].by]
  /\ \/ /\ head' = [head EXCEPT ![w] = main]
        /\ Goto(w, IF tree[t] = NoTree THEN "missing" ELSE "reopen")
        /\ UNCHANGED tree
     \/ /\ tree[t] # NoTree
        /\ head' = [head EXCEPT ![w] = main \cup tree[t].base \cup tree[t].work]
        /\ tree' = [tree EXCEPT ![t] = OnBase(@, main)]
        /\ Goto(w, "advance")
  /\ UNCHANGED <<tableVars, lease, main, lock, faults>>

Reopen(w) ==
  /\ pc[w] \in {"missing", "reopen"}
  /\ Try(task[job[w]].status = "ready_to_merge", ReopenConflict(job[w], head[w]))
  /\ Goto(w, IF pc[w] = "missing" THEN "forget" ELSE "release")
  /\ UNCHANGED <<lease, main, tree, lock, job, owner, todo, head>>

\* _classify: the task has left the worker's hands, its scope is released.
ReleaseReopened(w) ==
  /\ pc[w] \in {"forget", "release"}
  /\ GiveUpLease(owner[w], Scope[job[w]])
  /\ IF pc[w] = "forget" THEN Goto(w, "reconcile") /\ Forget(w)
     ELSE Goto(w, "discard") /\ UNCHANGED <<job, owner, head>>
  /\ UNCHANGED <<tableVars, main, tree, lock, todo>>

DiscardTree(w) ==
  /\ pc[w] = "discard"
  /\ RemoveTree(job[w])
  /\ Goto(w, "reconcile") /\ Forget(w)
  /\ UNCHANGED <<tableVars, lease, main, lock, todo>>

\* (Mutant of AdvanceMain: the branch replaces main without the rebase.)
AdvanceMain_BranchOnly(w) ==
  /\ pc[w] = "advance"
  /\ main' = {job[w]}
  /\ Goto(w, "mark")
  /\ UNCHANGED <<tableVars, lease, tree, lock, job, owner, todo, head, faults>>

\* git update-ref refs/heads/main <new_head>: no expected old value is given.
AdvanceMain(w) ==
  /\ pc[w] = "advance"
  /\ main' = head[w]
  /\ Goto(w, "mark")
  /\ UNCHANGED <<tableVars, lease, tree, lock, job, owner, todo, head, faults>>

Mark(w) ==
  /\ pc[w] = "mark"
  /\ Try(task[job[w]].status = "ready_to_merge", MarkMerged(job[w]))
  /\ Goto(w, "remove")
  /\ UNCHANGED <<lease, main, tree, lock, job, owner, todo, head>>

RemoveMerged(w) ==
  /\ pc[w] = "remove"
  /\ RemoveTree(job[w])
  /\ Goto(w, "letgo")
  /\ UNCHANGED <<tableVars, lease, main, lock, job, owner, todo, head>>

ReleaseMerged(w) ==
  /\ pc[w] = "letgo"
  /\ GiveUpLease(owner[w], Scope[job[w]])
  /\ Goto(w, "reconcile") /\ Forget(w)
  /\ UNCHANGED <<tableVars, main, tree, lock, todo>>

-----------------------------------------------------------------------------
(* claim_next                                                              *)

\* The main head is read first, then the candidates.
ReadCandidates(w) ==
  /\ pc[w] = "pick"
  /\ head' = [head EXCEPT ![w] = main]
  /\ todo' = [todo EXCEPT ![w] = {t \in TaskId : task[t].status \in {"pending", "reopened"}}]
  /\ Goto(w, "lease")
  /\ UNCHANGED <<tableVars, lease, main, tree, lock, job, owner, faults>>

NothingToClaim(w) ==
  /\ pc[w] = "lease"
  /\ todo[w] = {}
  /\ Goto(w, "top") /\ Forget(w)
  /\ UNCHANGED <<tableVars, lease, main, tree, lock, todo, faults>>

\* (Mutant of TryLease: the lease is written without looking at the others.)
TryLease_NoCheck(w, t) ==
  /\ pc[w] = "lease"
  /\ t \in todo[w]
  /\ todo' = [todo EXCEPT ![w] = @ \ {t}]
  /\ lease' = lease \cup {[owner |-> w, paths |-> Scope[t]]}
  /\ job' = [job EXCEPT ![w] = t]
  /\ Goto(w, "claim")
  /\ UNCHANGED <<tableVars, main, tree, lock, owner, head, faults>>

TryLease(w, t) ==
  /\ pc[w] = "lease"
  /\ t \in todo[w]
  /\ todo' = [todo EXCEPT ![w] = @ \ {t}]
  /\ \/ /\ AcquireScope(w, Scope[t])
        /\ job' = [job EXCEPT ![w] = t]
        /\ Goto(w, "claim")
        /\ UNCHANGED faults
     \/ /\ (~CanAcquire(w, Scope[t]) /\ UNCHANGED faults) \/ Fault
        /\ UNCHANGED <<lease, job, pc>>
  /\ UNCHANGED <<tableVars, main, tree, lock, owner, head>>

\* (Mutant of Claim: the candidate list is trusted.)
Claim_Unchecked(w) ==
  /\ pc[w] = "claim"
  /\ Save(job[w], [task[job[w]] EXCEPT !.status = "claimed", !.by = w, !.base = head[w]])
  /\ Goto(w, "create")
  /\ todo' = [todo EXCEPT ![w] = {}]
  /\ head' = [head EXCEPT ![w] = {}]
  /\ UNCHANGED <<lease, main, tree, lock, job, owner, faults>>

Claim(w) ==
  /\ pc[w] = "claim"
  /\ \/ /\ ClaimTask(job[w], w, head[w])
        /\ Goto(w, "create")
        /\ todo' = [todo EXCEPT ![w] = {}]
        /\ head' = [head EXCEPT ![w] = {}]
        /\ UNCHANGED faults
     \/ /\ \/ ~Claimable(job[w]) /\ UNCHANGED <<tableVars, faults>>
           \/ Refused
        /\ Goto(w, "giveback")
        /\ UNCHANGED <<todo, head>>
  /\ UNCHANGED <<lease, main, tree, lock, job, owner>>

\* The claim was lost: only the candidate's own scope is given back.
GiveBack(w) ==
  /\ pc[w] = "giveback"
  /\ GiveUpLease(w, Scope[job[w]])
  /\ job' = [job EXCEPT ![w] = NoTask]
  /\ Goto(w, "lease")
  /\ UNCHANGED <<tableVars, main, tree, lock, owner, todo, head>>

-----------------------------------------------------------------------------
(* run_task, for a task this worker has just claimed                       *)

\* An existing path is "worktree_resource_busy"; git itself may fail too.
CreateTree(w) ==
  /\ pc[w] = "create"
  /\ \/ /\ tree[job[w]] = NoTree
        /\ tree' = [tree EXCEPT ![job[w]] =
                      [by |-> w, base |-> task[job[w]].base, work |-> {}]]
        /\ Goto(w, "work")
     \/ Goto(w, "fail") /\ UNCHANGED tree
  /\ UNCHANGED <<tableVars, lease, main, lock, job, owner, todo, head, faults>>

\* The session works and commits in whatever is at the task's path; it fails
\* when the session does, and always when the path is gone.
Work(w) ==
  /\ pc[w] = "work"
  /\ \/ /\ tree[job[w]] # NoTree
        /\ tree' = [tree EXCEPT ![job[w]] = Committed(@, job[w])]
        /\ Goto(w, "submit")
     \/ Goto(w, "fail") /\ UNCHANGED tree
  /\ UNCHANGED <<tableVars, lease, main, lock, job, owner, todo, head, faults>>

\* The worktree outlives the submission; only a refused one removes it.
Submit(w) ==
  /\ pc[w] = "submit"
  /\ \/ /\ SubmitResult(job[w], w)
        /\ Goto(w, "top") /\ Forget(w)
        /\ UNCHANGED faults
     \/ /\ \/ ~HeldBy(job[w], w) /\ UNCHANGED <<tableVars, faults>>
           \/ Refused
        /\ Goto(w, "cleanup")
        /\ UNCHANGED <<job, owner, head>>
  /\ UNCHANGED <<lease, main, tree, lock, todo>>

Fail(w) ==
  /\ pc[w] = "fail"
  /\ Try(HeldBy(job[w], w), WorkerFailed(job[w], w))
  /\ Goto(w, "cleanup")
  /\ UNCHANGED <<lease, main, tree, lock, job, owner, todo, head>>

\* wt.remove after a failure: by path, after the task was made claimable.
Cleanup(w) ==
  /\ pc[w] = "cleanup"
  /\ RemoveTree(job[w])
  /\ Goto(w, "top") /\ Forget(w)
  /\ UNCHANGED <<tableVars, lease, main, lock, todo>>

-----------------------------------------------------------------------------
(* The environment                                                         *)

\* A process is killed, or leaves (after --once or --tasks, or by an error of
\* git or of the disk, which gives the lock back): what it wrote stays.  The last
\* round of reconcile_ready that an error still lets it make is left out.
Die(w) ==
  /\ pc[w] # "dead"
  /\ Fault
  /\ Goto(w, "dead") /\ Forget(w)
  /\ todo' = [todo EXCEPT ![w] = {}]
  /\ lock' \in {lock, IF lock = w THEN NoOne ELSE lock}
  /\ UNCHANGED <<tableVars, lease, main, tree>>

Expire(l) ==
  LeaseExpires(l) /\ UNCHANGED <<tableVars, runVars>>

FinishPlan == PeelReady \/ RejectCyclic \/ PublishBatch

\* A planning round publishes tasks with the dependencies of the plan; the
\* planner may die in the middle of it.
Plan ==
  /\ \/ /\ \/ \E batch \in SUBSET TaskId :
                BeginPublish(batch, [t \in batch |-> PlanDeps[t]])
           \/ FinishPlan
        /\ UNCHANGED faults
     \/ AbandonPublish /\ Fault
  /\ UNCHANGED <<lease, main, tree, lock, pc, job, owner, todo, head>>

Process(w) ==
  \/ Reconcile(w) \/ SkipReconcile(w) \/ EndReconcile(w)
  \/ \E t \in TaskId : Rebase(w, t) \/ TryLease(w, t)
  \/ Reopen(w) \/ ReleaseReopened(w) \/ DiscardTree(w)
  \/ AdvanceMain(w) \/ Mark(w) \/ RemoveMerged(w) \/ ReleaseMerged(w)
  \/ ReadCandidates(w) \/ NothingToClaim(w) \/ Claim(w) \/ GiveBack(w)
  \/ CreateTree(w) \/ Work(w) \/ Submit(w) \/ Fail(w) \/ Cleanup(w)

RunNext ==
  \/ \E w \in Worker : Process(w) \/ Die(w)
  \/ \E l \in lease : Expire(l)
  \/ Plan

RunSpec == RunInit /\ [][RunNext]_vars

\* The operating system schedules every process that is alive, a publication
\* that began comes to an end, and a lease nobody renews reaches its TTL.
\* The lock a dead reconciler left goes stale after 10 s, the time a waiter
\* spins: it may miss it in one round but not in every round.  Nothing is
\* assumed of deaths, refusals or planning rounds.
StaleLock == \E v \in Worker : lock = v /\ pc[v] = "dead"

FairRunSpec ==
  /\ RunSpec
  /\ \A w \in Worker : WF_vars(Process(w)) /\ SF_vars(StaleLock /\ Reconcile(w))
  /\ WF_vars(FinishPlan /\ UNCHANGED <<lease, runVars>>)
  /\ \A w \in Worker : WF_vars(\E l \in OwnedBy(w) : Expire(l))

-----------------------------------------------------------------------------
(* Properties.                                                             *)

\* What the board calls merged is on the main branch, and so is everything it
\* was admitted on: update-ref comes before mark_merged, and no crash between
\* the two, no second reconciler and no later merge takes the change off main.
MergedOnMain ==
  \A t \in TaskId : task[t].status = "merged" => {t} \cup task[t].deps \subseteq main

\* The main branch only ever moves forward.
MainFastForward == [][main \subseteq main']_vars

\* What reaches main was submitted first: a change of a task that its worker
\* lost, failed or never finished is not merged, however stale its worktree.
OnlySubmittedReachMain ==
  [][\A t \in main' \ main : task[t].status = "ready_to_merge"]_vars

\* A worker at work in a worktree has its own task's worktree there: nobody
\* removed or replaced it since it was created.
TreeOfHolder ==
  \A w \in Worker :
    pc[w] = "work" => tree[job[w]] # NoTree /\ tree[job[w]].by = w

\* The board, seen from the processes, is the table that TaskTable promises and
\* the leases are the ones that ScopeLeases promises: no process changes a row
\* or a lease in any other way, nor by two of their steps at once.
ImplementsTable  == TableSpec
ImplementsLeases == LeaseSpec

\* A claim nobody will finish: its worker died, or went on after its submission
\* or its failure report was refused.
Orphaned(t) ==
  /\ task[t].status = "claimed"
  /\ \E w \in Worker : /\ task[t].by = w
                       /\ \/ job[w] # t
                          \/ pc[w] \notin {"create", "work", "submit", "fail"}

\* A task that is given up, or waits for one that is: a set of tasks none of
\* which can be done before another of the set is.
Hopeless(t) ==
  \E S \in SUBSET Published :
    /\ t \in S
    /\ \A s \in S : \/ task[s].status = "blocked" \/ Orphaned(s)
                     \/ (task[s].status = "pending" /\ task[s].deps \cap S # {})

\* Every published task is merged in the end, unless it is given up or orphaned
\* or waits for one that is: locks, leases, refusals, deaths of reconcilers and
\* the dependency graph never leave it waiting for nobody.
EveryTaskSettles ==
  \A t \in TaskId : task[t].status # "absent"
                      ~> (task[t].status = "merged" \/ Hopeless(t))

=============================================================================
