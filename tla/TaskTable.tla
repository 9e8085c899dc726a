----------------------------- MODULE TaskTable -----------------------------
(***************************************************************************)
(* The task table of the coordination board (coord/store.py for the        *)
(* transitions, coord/file_store.py for the way they reach the disk,       *)
(* coord/task_dependencies.py for the dependency graph).                   *)
(*                                                                         *)
(* Every operation of the store is load - pure function - save under the   *)
(* operating-system lock `graph_guard', so each is one atomic action here. *)
(* Publishing a batch is the one operation with a loop in it (the          *)
(* topological peeling that looks for a cycle): it is modelled step by     *)
(* step, with `draft' holding its local variables while the guard is held. *)
(*                                                                         *)
(* TableSpec lets any caller invoke any operation at any moment.  It is    *)
(* the contract the worker loop (CoordRun) and the human-in-the-loop       *)
(* gates (CoordReview) are shown to implement.                             *)
(***************************************************************************)
EXTENDS Naturals

CONSTANTS
  TaskId,       \* the task identifiers that may ever be published
  Worker,       \* the worker identities that may claim
  NoOne,        \* the empty claimed_by
  NoDraft,      \* no publication is under way
  Scope,        \* [TaskId -> sets of paths]: the declared write scope
  Commit,       \* the values base_commit can take
  NoCommit,     \* the empty base_commit of a task nobody claimed yet
  ReopenLimit   \* REOPEN_LIMIT

ASSUME WorkerAssumption == NoOne \notin Worker
ASSUME DraftAssumption  == NoDraft \notin [deps : [TaskId -> SUBSET TaskId], batch : SUBSET TaskId, pending : SUBSET TaskId]
ASSUME LimitAssumption  == ReopenLimit \in Nat
ASSUME CommitAssumption == NoCommit \in Commit

VARIABLES
  task,   \* the table: one row per identifier, status "absent" before publication
  draft   \* the publication holding the graph guard, or NoDraft

tableVars == <<task, draft>>

Status == {"absent", "pending", "claimed", "PENDING_REVIEW", "ready_to_merge",
           "merged", "completed", "reopened", "blocked", "superseded"}

Row == [status : Status, by : Worker \cup {NoOne}, reopens : Nat,
        deps : SUBSET TaskId, base : Commit]

\* A publication keeps the dependencies of the whole graph (existing rows and
\* drafts), the identifiers of the batch, and those not yet peeled away.
Draft == [deps : [TaskId -> SUBSET TaskId], batch : SUBSET TaskId,
          pending : SUBSET TaskId]

Done     == {"merged", "completed"}
Terminal == {"merged", "completed", "blocked", "superseded"}
Held     == {"claimed", "PENDING_REVIEW"}

Published == {t \in TaskId : task[t].status # "absent"}

TableTypeOK ==
  /\ task \in [TaskId -> Row]
  /\ draft \in Draft \cup {NoDraft}

TableInit ==
  /\ task = [t \in TaskId |-> [status |-> "absent", by |-> NoOne, reopens |-> 0,
                               deps |-> {}, base |-> NoCommit]]
  /\ draft = NoDraft

-----------------------------------------------------------------------------
(* Publication of a batch: task_dependencies.publish.                      *)

\* (Mutant of BeginPublish: a dependency need not exist.)
BeginPublish_UnknownDeps(batch, deps) ==
  /\ draft = NoDraft
  /\ batch # {}
  /\ batch \cap Published = {}
  /\ draft' = [deps    |-> [t \in TaskId |-> IF t \in batch THEN deps[t]
                                             ELSE task[t].deps],
               batch   |-> batch,
               pending |-> Published \cup batch]
  /\ UNCHANGED task

\* Duplicate identifiers and dependencies on unknown tasks are refused before
\* the graph is looked at; a refusal changes nothing and has no action.
BeginPublish(batch, deps) ==
  /\ draft = NoDraft
  /\ batch # {}
  /\ batch \cap Published = {}
  /\ \A t \in batch : deps[t] \subseteq Published \cup batch
  /\ draft' = [deps    |-> [t \in TaskId |-> IF t \in batch THEN deps[t]
                                             ELSE task[t].deps],
               batch   |-> batch,
               pending |-> Published \cup batch]
  /\ UNCHANGED task

\* (Mutant of Ready: a task that depends on itself is let through.)
Ready_IgnoresSelf(d) == {t \in d.pending : d.deps[t] \cap (d.pending \ {t}) = {}}

\* The tasks whose every dependency has been peeled already.
Ready(d) == {t \in d.pending : d.deps[t] \cap d.pending = {}}

PeelReady ==
  /\ draft # NoDraft
  /\ Ready(draft) # {}
  /\ draft' = [draft EXCEPT !.pending = @ \ Ready(draft)]
  /\ UNCHANGED task

\* "cyclic_dependencies": the whole batch is refused.
RejectCyclic ==
  /\ draft # NoDraft
  /\ draft.pending # {}
  /\ Ready(draft) = {}
  /\ draft' = NoDraft
  /\ UNCHANGED task

\* One atomic file makes the whole batch visible.
PublishBatch ==
  /\ draft # NoDraft
  /\ draft.pending = {}
  /\ task' = [t \in TaskId |->
                IF t \in draft.batch
                THEN [task[t] EXCEPT !.status = "pending", !.deps = draft.deps[t]]
                ELSE task[t]]
  /\ draft' = NoDraft

\* The publishing process dies (or its write fails): the operating system
\* releases the guard and nothing of the batch is visible.
AbandonPublish ==
  /\ draft # NoDraft
  /\ draft' = NoDraft
  /\ UNCHANGED task

-----------------------------------------------------------------------------
(* The transitions of one task.  Each is refused (returns None, writes      *)
(* nothing) when its guard is false.                                        *)

HeldBy(t, w)   == task[t].status = "claimed" /\ task[t].by = w
InReview(t, w) == task[t].status = "PENDING_REVIEW" /\ task[t].by = w
DepsDone(t)    == \A d \in task[t].deps : task[d].status \in Done

\* (Mutant of Claimable: dependencies are not looked at.)
Claimable_NoDeps(t) == task[t].status \in {"pending", "reopened"} /\ Scope[t] # {}

Claimable(t) ==
  /\ task[t].status \in {"pending", "reopened"}
  /\ Scope[t] # {}
  /\ DepsDone(t)

\* Every transition holds the graph guard while it loads and saves.
Save(t, row) ==
  /\ draft = NoDraft
  /\ task' = [task EXCEPT ![t] = row]
  /\ UNCHANGED draft

\* (Mutant of ReopenOrBlock: the fuse blows one reopen early.)
ReopenOrBlock_OffByOne(t, c) ==
  Save(t, [task[t] EXCEPT
             !.status  = IF task[t].reopens + 1 >= ReopenLimit THEN "blocked" ELSE "reopened",
             !.reopens = @ + 1,
             !.base    = IF c = NoCommit THEN @ ELSE c])

ReopenOrBlock(t, c) ==
  Save(t, [task[t] EXCEPT
             !.status  = IF task[t].reopens + 1 > ReopenLimit THEN "blocked" ELSE "reopened",
             !.reopens = @ + 1,
             !.base    = IF c = NoCommit THEN @ ELSE c])

ClaimTask(t, w, c) ==
  /\ Claimable(t)
  /\ Save(t, [task[t] EXCEPT !.status = "claimed", !.by = w, !.base = c])

\* (Mutant of MarkPendingReview: the one upper-case status is written like
\* the others.)
MarkPendingReview_LowerCase(t, w) ==
  HeldBy(t, w) /\ Save(t, [task[t] EXCEPT !.status = "pending_review"])

MarkPendingReview(t, w) ==
  HeldBy(t, w) /\ Save(t, [task[t] EXCEPT !.status = "PENDING_REVIEW"])

\* (Mutant of ResumeTask: whoever answers resumes the task.)
ResumeTask_Anyone(t, w) ==
  /\ task[t].status = "PENDING_REVIEW"
  /\ Save(t, [task[t] EXCEPT !.status = "claimed", !.by = w])

ResumeTask(t, w) ==
  InReview(t, w) /\ Save(t, [task[t] EXCEPT !.status = "claimed"])

SuspendRelease(t, w) ==
  InReview(t, w) /\ Save(t, [task[t] EXCEPT !.status = "pending", !.by = NoOne])

ReviewReopen(t, w) == InReview(t, w) /\ ReopenOrBlock(t, task[t].base)

\* (Mutant of Supersede: a blocked task can be replanned too.)
Supersede_Blocked(t) ==
  /\ task[t].status \in {"reopened", "claimed", "blocked"}
  /\ Save(t, [task[t] EXCEPT !.status = "superseded", !.by = NoOne])

Supersede(t) ==
  /\ task[t].status \in {"reopened", "claimed"}
  /\ Save(t, [task[t] EXCEPT !.status = "superseded", !.by = NoOne])

CompleteTask(t, w) ==
  HeldBy(t, w) /\ Save(t, [task[t] EXCEPT !.status = "completed"])

ReopenTask(t, w) == HeldBy(t, w) /\ ReopenOrBlock(t, task[t].base)

WorkerFailed(t, w) == HeldBy(t, w) /\ ReopenOrBlock(t, task[t].base)

\* (Mutant of SubmitResult: a status no reader knows.)
SubmitResult_Misspelt(t, w) ==
  HeldBy(t, w) /\ Save(t, [task[t] EXCEPT !.status = "submitted"])

SubmitResult(t, w) ==
  HeldBy(t, w) /\ Save(t, [task[t] EXCEPT !.status = "ready_to_merge"])

MarkMerged(t) ==
  /\ task[t].status = "ready_to_merge"
  /\ Save(t, [task[t] EXCEPT !.status = "merged"])

ReopenConflict(t, c) ==
  /\ task[t].status = "ready_to_merge"
  /\ ReopenOrBlock(t, c)

-----------------------------------------------------------------------------
Publish ==
  \/ \E batch \in SUBSET TaskId : \E deps \in [batch -> SUBSET TaskId] :
        BeginPublish(batch, deps)
  \/ PeelReady
  \/ RejectCyclic
  \/ PublishBatch
  \/ AbandonPublish

HolderStep(t, w) ==
  \/ \E c \in Commit : ClaimTask(t, w, c)
  \/ MarkPendingReview(t, w)
  \/ ResumeTask(t, w)
  \/ SuspendRelease(t, w)
  \/ ReviewReopen(t, w)
  \/ CompleteTask(t, w)
  \/ ReopenTask(t, w)
  \/ WorkerFailed(t, w)
  \/ SubmitResult(t, w)

BoardStep(t) ==
  \/ Supersede(t)
  \/ MarkMerged(t)
  \/ \E c \in Commit : ReopenConflict(t, c)

TableNext ==
  \/ Publish
  \/ \E t \in TaskId : \/ \E w \in Worker : HolderStep(t, w)
                       \/ BoardStep(t)

TableSpec == TableInit /\ [][TableNext]_tableVars

-----------------------------------------------------------------------------
(* Properties.                                                             *)

\* The dependency graph of the published tasks is closed (no dangling
\* dependency) and has no cycle: every non-empty set of published tasks has a
\* member none of whose dependencies is in the set.  The peeling loop of
\* publish must establish this across batches that refer to each other.
GraphWellFounded ==
  /\ \A t \in Published : task[t].deps \subseteq Published
  /\ \A S \in SUBSET Published :
        S # {} => \E t \in S : task[t].deps \cap S = {}

\* A task that has ever been claimed has all its dependencies merged or
\* completed, and keeps them so: no later transition of a dependency (reopen,
\* conflict, supersede) may undo what a dependent was admitted on.
DependenciesFirst ==
  \A t \in Published : task[t].status # "pending" => DepsDone(t)

\* Waiting on dependencies never deadlocks the board: while some published
\* task is unfinished and none was given up (blocked, superseded), there is an
\* unfinished one whose dependencies are all done.
SomeTaskNotWaiting ==
  LET unfinished == {t \in Published : task[t].status \notin Done} IN
    (unfinished # {} /\ \A t \in unfinished : task[t].status \notin Terminal)
      => \E t \in unfinished : DepsDone(t)

\* The reopen fuse: blocked exactly when the task was sent back more than
\* REOPEN_LIMIT times, whoever sent it back (worker, reviewer, ask gate,
\* reconciler), so no sequence of rejections retries for ever.
ReopenFuse ==
  \A t \in TaskId :
     /\ task[t].reopens <= ReopenLimit + 1
     /\ task[t].reopens > ReopenLimit <=> task[t].status = "blocked"

\* A task that was merged, completed, blocked or superseded never moves again.
TerminalIsFinal ==
  [][\A t \in TaskId : task[t].status \in Terminal => task'[t] = task[t]]_tableVars

\* A held task (claimed or under review) is never taken over: its holder
\* stays until the task is given back, sent back, submitted or replaced.
HolderKept ==
  [][\A t \in TaskId :
        task[t].status \in Held /\ task'[t].status \in Held
          => task'[t].by = task[t].by]_tableVars
=============================================================================
