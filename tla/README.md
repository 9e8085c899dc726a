# A TLA+ model of XEYO's engine

XEYO is a local-first coding-agent workbench: a Python engine runs
conversations with a model and their tools; a desktop client (Tauri/React), a
terminal client (Ink), an HTTP/SSE server and a command line use it. This
directory holds TLA+ modules of the parts of the engine where several processes,
crashes and timeouts meet, the TLC configurations that check them, and proofs
checked by TLAPS. There are two halves:

- the coordination board (`src/python/coord`, `src/python/cli/coord_cmd.py`):
  several `xeyo coord run` processes, each with a model session of its own,
  working off one table of tasks and merging into one main branch;
- what outlives a turn of a conversation: the runs of delegated agents and their
  mail (`engine/agent_run_store.py`, `agent_mailbox.py`), the publication of their
  work to the checkout (`engine/agent_workspaces.py`), the messages that users
  send during a turn (`server/inbox_registry.py`) and the transcripts
  (`session/record_transcript.py`).

    tlc -workers 2 -config CoordRun.cfg MCCoordRun      # a run
    tlapm CoordRunProofs.tla                            # the proofs of a module

## Inventory of the system

| part | state it keeps | operations | what is hard | correct when |
|---|---|---|---|---|
| task table (`coord/store.py`, `file_store.py`, `task_dependencies.py`, `task_batches.py`) | one JSON row per task, batch files; graph guard (an OS lock) | publish a batch, claim, review, resume, suspend, complete, submit, merge, reopen, supersede | cyclic batches across publications, the shared reopen fuse, answers that come late | the graph stays well-founded, dependencies come first, settled tasks stay settled, holders are not displaced |
| scope leases (same files) | one file of leases per root, TTL 600 s | acquire (with merge), release by path / lease / owner, prune | merging and partial release, containment of paths | no two owners hold conflicting paths; no empty lease |
| run loop (`cli/coord_cmd.py`, `reconciler.py`, `planner.py`, `worker_pool.py`, `worktree.py`) | refs/heads/main, a worktree and a branch per task, the locals of each process | reconcile_ready, claim_next, run_task | every pair of steps of two processes; crash between two writes; refusals that callers ignore; a lock with a TTL and no heartbeat | merged work is on main and stays there; only submitted work gets there; no task is left waiting for nobody |
| file lock (`coord/locking.py`) | one file per resource | enter, exit | age test and unlink are two steps; a file left by a dead process | exclusion; a left file is reclaimed |
| ask gate and reviewer (`ask_gate.py`, `reviewer.py`) | queue of asks per root (last 256) | suspend, allow, deny, remind, sweep, reject, plan_replacement | several store calls per operation with a crash or a refusal in between; late answers | no task is under review with nobody to answer; a replaced task does not compete with its replacement |
| presence, worker session, configuration | memory only | | | advisory |
| agent run store and mailbox (`engine/agent_run_store.py`, `agent_message_store.py`, `agent_mailbox.py`, `agent_delivery_guard.py`, `agent_identity.py`) | SQLite rows of agents, attempts, messages; OS leases; transcripts and what their writers keep | start, recover, finish, send, claim, record, acknowledge, drop_session | crash between flush and acknowledgement; rows of a failed append written later; recovery racing a new attempt; deletion racing all of it | whoever executes an agent is its current attempt; messages are heard in order, none is passed over, and one comes twice only after a failed append; nothing starts in a deleted session and no new mail reaches it |
| publication of sub-agent work (`engine/agent_workspaces.py`, `agent_artifact_state.py`) | journal, artifact file, target files | prepare, collect, reconcile, publish, recover | crash between two file writes, or during the rollback of an earlier crash | all files or none, never over an edit made since; no conflict without an edit; what began ends |
| server inbox (`server/inbox_registry.py`, `inbox_persistence.py`) | bounded persisted queue per session, steers waiting for a boundary | enqueue, steer, take, retry, settle, hold, withdraw | worker threads, drain, turn and settlement interleave; restart; a write that fails | no message lost or given to the model twice; a stopped queue stays stopped; the queue drains |
| server jobs, session pool, routes (`server/`) | jobs with event logs, live sessions | start, cancel, replay, evict | threads and coroutines at one pool | one turn per session at a time |
| local limits and locks (`common/rwlock.py`, `common/concurrency_budget.py`) | counters | acquire, release, forget | cancellation while waiting | no lost wake-up, no more slots than the limit |
| workspace lock, write transactions (`engine/workspace_lock.py`, ...) | lock file with heartbeat | acquire, renew, release | takeover from a slow owner | one writer per path |
| rewind (`rewind/`) | checkpoints, journal, blobs | record, restore, collect | crash during a restore; collection racing a new reference | a restore is all or nothing, no live blob is collected |
| transcripts (`session/record_transcript.py`) | queue, batch and failed rows of one writer thread; the files | record, append, retry, flush | partial appends, flushes of several threads, restart | rows in order and once; a flush certifies what is on disk |
| conversation engine, tools, memory, permissions, model clients, prompt, channels, indexing, diagnostics, interfaces | | | | outside: pure data processing, I/O or presentation (see "Not modelled") |

The parts of the board interact only through files: each process calls the store
(one JSON file per task or root, read, changed and written back under a lock), git
(worktrees, branches, `update-ref`) and the lock files. There are no messages and
no shared memory between processes.

The second half has more ways to meet. The run store is an SQLite file and a
directory of OS leases that several processes and threads use; the mailbox is two
more tables of it, and its deliveries go into the transcripts; publishing,
resuming and recovering an agent exclude one another by the lease of the agent.
The inbox is called by HTTP handlers, by worker threads, by its own drain task
and by the settlement of every turn; it decides after a restart from the
transcript what had been delivered.

## Modules

| module | models | state | 
|---|---|---|
| `TaskTable` | the table and its publication | `task` (rows), `draft` (a publication holding the graph guard) |
| `ScopeLeases` | the leases of one root | `lease` |
| `CoordRun` | the run loop; EXTENDS the two above and uses their actions | `main`, `tree`, `lock`, and per process `pc`, `job`, `owner`, `todo`, `head`; `faults` |
| `FileGuard` | the lock file, one system call per step | `file`, `pc`, and the ghost `robbed`; `faults` |
| `AgentRuns` | attempts of delegated agents over rows and OS leases | `agents`, `attempts`, `closed`, `lease`, and per call `pc`, `job`, `todo`, `own`; `faults` |
| `AgentMail` | the mailbox, delivery, and the transcript writer of each process; EXTENDS `AgentRuns` and uses its actions | `mailbox`, `disk`, `left`, `known`, `batch` |
| `MailPromise` | abstract: what a mailbox promises | `sent`, `withdrawn`, `acked`, `heard`, `strays`, `over`, `owed` |
| `Publication` | publishing an agent's files, one file operation per step | `target`, the artifact (`base`, `expected`, `after`, `head`, `applied`), `phase`, `dirty`, `journal`, `pub`; `edits`, `faults` |
| `AtomicPublication` | abstract: all files at once, over the contents expected | `files`, `changed`, `before`, `after`, `edits` |
| `Inbox` | the messages of one session around its turns | `reg`, `disk`, `load`, `staged`, `steer`, `turn`, `drain`, `log`, `durable`; ghosts `lost`; `humans`, `faults` |
| `Transcript` | the writer thread and those who wait for it | `file`, `torn`, `known`, `pending`, `inflight`, `failed`, `retry`, `todo`, `broken`, `flush`, `certified`; `faults` |
| `TranscriptLog` | abstract: an append-only log with certificates | `accepted`, `written`, `certified` |
| `Order` | the positions of a sequence in their order; used by `AgentMail`, `MailPromise` and `Transcript` | none |
| `MC*` | constants and symmetry for TLC | |
| `*Proofs` | proofs: `BoardProofs` of `TaskTable` and `ScopeLeases`, `CoordRunProofs`, `FileGuardProofs`, `AgentMailProofs` of `AgentRuns` and `AgentMail`, `PublicationProofs`, `InboxProofs`, `OrderProofs`, `TranscriptProofs` | |

How actions correspond to code, on the board:

- A store operation is load - pure function - save under a lock, so it is one
  action: `ClaimTask`, `SubmitResult`, `ReopenConflict`... Its guard is the
  guard of the function in `store.py`; when it is false the function returns None
  and nothing is written. A refusal for want of a lock is `Refused`.
- `publish` is the operation with a loop, the search for a cycle; it is taken
  apart (`BeginPublish`, `PeelReady`, `RejectCyclic`, `PublishBatch`), with its
  locals in `draft` while it holds the graph guard.
- A step of a process in `CoordRun` is one call whose effect other processes can
  see. `Reconcile` .. `EndReconcile` are `reconcile_ready` and its
  `_reconcile_one`; `ReadCandidates` .. `GiveBack` are `claim_next`;
  `CreateTree` .. `Cleanup` are `run_task`.
- A commit is the set of tasks whose change it contains, so "main goes forward"
  is set inclusion. A task whose session changed nothing counts as contained. A
  rebase may always fail (conflict, timeout). The main checkout is on main, so
  `rev-parse HEAD` and `rev-parse main` are the same.
- The environment: processes die or leave (`Die`), store calls and worktree
  removals are refused (`Fault`), leases expire (`Expire`), a planner publishes
  (`Plan`).

Simplified on the board: `Rebase` takes the owner of the task as it is, the code
that of its snapshot (the same while no reconciler outlives its lock); the round of
`reconcile_ready` that a process makes on its way out of an error
(`coord_cmd.py:111-113`) is left out of `Die`; a lease whose write failed is one
that expires as soon as it was taken.

Abstracted: time (a lease or a lock file may reach its TTL when its age bit says
so, or at any moment), the order of candidates (`updated_at`: any order), findings
and texts, identifiers, the file format. The agent runtime is enabled, as it is by
default; without it the graph guard is absent and dependencies are not enforced.
In `CoordRun` the file guards around a scope file and a task exclude (what
`FileGuard` shows to hold while no lock file was left behind), except for the
reconciler's, whose TTL is what `SlowHolder` is about.

In the engine:

- `AgentRuns`: a call is a thread in the store, in any process. A step is one
  SQLite transaction or one attempt at a lease. `Begin` is the first read of
  `recover` (with the attempt that the caller of a start saw); `Contend`, `Look`,
  `Interrupt` are the loop of `recover`; `Acquire`, `Admit`, `Finish`, `Release`
  are a start and the execution around it; `Drop` is `drop_session`. Every way out
  of a call, by return, exception or death, is `End`: all it held is free.
- `AgentMail`: `Send`, `RemoveMessage`, `Claim`, `Record`, `Acknowledge` are the
  transactions and the flush of a delivery; a settlement (`Settlement`) also sends
  the completion, in the same transaction. `disk` is the mail in each transcript.
  Every call is a process with a writer of its own, and so is the parent: what
  an append could not write the writer keeps (`left`, the list `_failed`), and
  tries again with the next append or flush of any transcript or at the end of
  the process (`CatchUp`), whatever became of the delivery, the execution or the
  session. A row is recorded unless its identity is `known`; `known` grows when a
  row is handed to the writer, not when it is on disk, and is read from the file
  when a conversation is (`Hydrate`): at an admission, when the session pool has
  dropped the conversation of the parent (`ParentReloads`), after a death. A
  repeated append looks at the file first (`Appends`), a new one does not.
  `Deletion` is `drop_session` and the removal of the transcripts by
  `delete_session`; it leaves the writers alone, as the code does.
- `Publication`: `Collect`, `Recover`, `Resume` with `Prepared` are `collect`,
  `recover_owner`, `reconcile` and `prepare`; `Begin` .. `Receipt` are
  `agent_apply` and `publish`: locks, conflict check, journal, writes, journal,
  receipt; `Undo`, `RolledBack` its rollback. A user of XEYO edits a file when
  nobody publishes it (`EditFile`).
- `Inbox`: every method of the registry is one step under its lock that changes
  memory and the file (`PersistOrRestore`, `Persist`, `Saved` are its three ways to
  treat a failing write). `Stage` and `Push` are the two halves of a steer in its
  worker thread; `Take`, `Skip`, `Submit`, `Refuse` the drain; `Commit`,
  `Boundary`, `Receipt`, `End` the turn; `SettleDelivery`, `SettleQueue`,
  `SettleSteer` the tenants of its settlement; `Crash`, `Load`, `Mend` a restart.
- `Transcript`: `Record` and `Flush` are the callers, `TakeBatch`, `AppendBatch`,
  `EndBatch` the writer thread, which appends one transcript at a time. The rows
  that wait are kept per transcript: the code has one list of each kind, but all
  it does with one it does for some transcripts whole, in the order of their rows.

Abstracted there: contents of messages and rows (an identity each), the order of
an inbox batch, file modes, identifiers. What a step cannot know of the model or
of the network is a choice: an execution ends, a submission is refused. In
`AgentMail`: a write with its comparison with the file is one step, and a flush
that takes longer than its limit counts as one that failed (the rows it still
writes are those of a `CatchUp`); the rows of a conversation that are not mail
are left out, except that they cause a `CatchUp`; deletion happens once, and its
two halves, the rows and the files, are one step. There the model can do more than
the code: the pool may drop the conversation of the parent also while an agent
works, a flush may succeed while rows of other transcripts still fail, and every
call has a writer, though calls of one process share it. It can do less where two
processes append to one transcript in the same moment: a comparison with the file
and the write that follows do not race there. The client
acknowledges a receipt of the inbox only after it has read the row
(`Inbox.Acknowledge`): the registry does not ask, and beyond 64 receipts it drops
the oldest, which is left out.

## Runs

| run | configuration | result |
|---|---|---|
| `table` | `TaskTable.cfg`: 3 tasks, 2 workers, fuse of 1 | 18 966 states; passes |
| `run` | `CoordRun.cfg`: 2 processes, 2 tasks with containing scopes, 1 fault, fuse of 1 | 927 790 states; passes |
| `run_live` | `CoordRunLive.cfg`: a chain of 2 tasks, 1 fault, fuse of 0, fairness | 75 811 states; passes |
| `trees` | `CoordRunTrees.cfg`: no fault | `TreeOfHolder` violated, 18 states |
| `slow` | `CoordRunSlow.cfg`: no fault, a slow reconciler | `MergedOnMain` violated, 26 states |
| `guard` | `FileGuard.cfg`: 4 processes, 2 faults | 38 841 states; passes |
| `guard_race` | `FileGuardRace.cfg`: 3 processes, 1 fault, short sections | `MutualExclusion` violated, 14 states |
| `runs` | `AgentRuns.cfg`: 3 agents (2 with overlapping scopes), 2 attempts, 2 calls, 2 faults, fairness | 184 354 states; passes |
| `mail` | `AgentMail.cfg`: a conversation and 1 agent, 2 attempts, 2 messages besides completions, 1 fault, fairness | 113 689 states; passes |
| `publication` | `Publication.cfg`: 2 files, 3 contents, 3 rounds of work, 1 edit, 2 faults, fairness | 586 736 states; passes |
| `inbox` | `Inbox.cfg`: 2 messages, 2 attempts each, 1 turn of a human, 2 faults, fairness | 220 471 states; passes |
| `transcript` | `Transcript.cfg`: 2 transcripts, 3 rows, 2 flushing threads, 3 faults | 380 159 states; passes |

What they show:

- `table` (any caller, any order): `GraphWellFounded`, `DependenciesFirst`,
  `SomeTaskNotWaiting`, `ReopenFuse`, `TerminalIsFinal`, `HolderKept`. Three
  tasks are enough for a cycle through two batches and for a chain with a task in
  the middle that is sent back; two workers for a takeover. The board may end
  with every task settled: deadlock is not checked here.
- `run`: `LeasesExclusive`, `OneLeasePerOwner`, `MergedOnMain`,
  `MainFastForward`, `OnlySubmittedReachMain`, and that the processes implement
  `TableSpec` and `LeaseSpec`. Two processes and one fault let every pair of
  calls race and every call be the one that fails; the scopes conflict by
  containment, so losing a claim and giving back a lease happen. No deadlock.
- `run_live`: `EveryTaskSettles`. Every published task is merged, or is
  `Hopeless`: blocked by the fuse, claimed by a process that went away
  (`Orphaned`: nothing in the code takes such a claim back), or waiting for one
  that is. With a fuse of 0 the first task that is sent back is blocked; with
  `ReopenLimit = 1` the reopened task is worked on once more, and the run passes
  as well (411 149 states, some minutes).
- `guard`: `HolderHasFile`, `RobberyNeedsLeftover`, `LeftoverGoes`. The first
  excuses a process whose file another one unlinked (`robbed`), so it says nothing
  of the windows between age test and unlink and between token and unlink; the
  second says when those are harmless, and the run `guard_race` shows that the
  first of them is not always.
- `runs`: `OwnerIsCurrent`, `ExecutionsCompatible`, `ClosedStaysEmpty`,
  `OrphansEnd`. Two calls are a recovery that works from rows read long ago
  against a start, or two starts; two attempts are one that was superseded.
  `OrphansEnd` has one excuse: starting that same agent in vain, again and again,
  holds its lease each time a recovery looks.
- `mail`: `AckedIsDurable`, `KeepsPromise` (the implementation of `MailPromise`),
  `ParentHears`. The one fault is a crash between recording and acknowledging, or
  an append that breaks off anywhere; what the writer makes of its rows later may
  break off as often as it likes. Two attempts are an execution that ends with rows
  still with the writer and one that reads the transcript without them.
  `MailPromise` says what is left of "once and in order": what waits is heard in
  the order of acceptance and none of it is passed over; a message comes again
  only while it is a stray, which came late, when the delivery that was to bring
  it had failed, and which its recipient has not noticed; what is acknowledged
  never comes again; after the deletion nothing is accepted or delivered, but what
  the writers still owe may come, each row once. With two faults the safety
  properties hold as well (589 171 states, without fairness), and the theorems
  have them for any number.
- `publication`: `PublishesAtomically` (the implementation of
  `AtomicPublication`, where the checkout is seen without the files of an
  unfinished publication), `OnlyEditsConflict`, `PublicationEnds`. Three rounds
  of work are a publication, a resumption from it and a second publication; two
  faults are a crash and a failure in the recovery from it.
- `inbox`: `LostOnlyUnflushed`, `EntersOnce`, `StopHolds`, `QueueDrains`.
- `transcript`: `KeepsLog` (the implementation of `TranscriptLog`). Three faults
  are two partial appends and a crash. A transcript with nothing to write, an
  idle session and a publication that is done may stop: deadlock is not checked
  in the last three.

Three runs disagree with what the repository says of itself (PROJECT.json,
"findings"):

- `trees`: "active resources are never replaced" (`worktree_identity.py:1`).
  `run_task` first makes a failed task claimable, then removes the worktree by
  path; a second process that claimed the task in between loses its worktree.
- `slow`: "only one reconciler converges at a time" (`reconciler.py:16`). The
  lock is stale after 10 s, without heartbeat; a git call may take 120 s; and
  `update-ref` is given no expected old value.
- `guard_race`: "mutual exclusion on one file" (`locking.py:25`), safe while
  sections are far shorter than the TTL. After a death two waiters can both find
  the file stale, and the second unlinks the first one's new file.

Other weaknesses have no run of their own. Properties name them as excuses, and
fail without the excuse; the first two go against what the code says of itself:

- `strays` (`KeepsPromise`): "append, each id once" (`record_transcript.py:1`), and
  `tests/test_agent_runtime_stress.py:263` asserts no doubles after a replay. But an
  execution that starts while the writer of its process keeps rows of its
  predecessor knows the identities in the file only (`record_transcript.py:291`,
  `subagent_runner.py:396,440`): the writer appends such a row, and so does the
  delivery that replays it, because a new append is not compared with the file.
  With "strays" empty TLC finds it: one append fails, the execution ends, the next
  one is admitted, the writer catches up, the delivery records.
- `owed` (`KeepsPromise`): "deleted means no longer on disk" (`sessions.py:358`).
  Neither `drop_session` nor `delete_session` takes back what a writer keeps after
  a failed append; the next append or flush of any transcript in that process
  writes it and makes the directory again (`record_transcript.py:202,226-266`).
- `blurred` (`OnlyEditsConflict`): after a publication, `prepare` takes the base
  hashes of the worktree as it is (`agent_workspaces.py:117`); with uncollected
  work in it, the hashes are no contents the checkout ever had, and complete work
  is refused as a conflict although nobody edited anything.
- `Conflicted` (`PublicationEnds`): an edit made between a crash and the next
  attempt leaves a publication unfinished for good, and the agent cannot resume.
- `Stranded` (`QueueDrains`): a batch whose turn never began stays in delivery
  until the next turn or restart.
- `lost` (`LostOnlyUnflushed`): a row whose flush failed is acknowledged all the
  same, and a crash before the writer catches up loses the message.
- `Restarted` (`OrphansEnd`), above. And an attempt superseded between a recovery
  that skipped it and the start that follows stays "running" in the table of
  attempts (`agent_run_store.py:122`), which nothing else reads.

Bounds: `MaxFaults` counts deaths, refusals and failing removals or reads;
`ReopenLimit` stands for REOPEN_LIMIT (3 in the code; the fuse is compared with
the constant only, and the theorem holds for every value). Symmetry is used in
safety runs only, on processes and on tasks where no constant tells them apart.

Fairness (`FairRunSpec`): the operating system runs every live process (weak
fairness of its next step); a publication that began ends; a lease reaches its
TTL; a lock file left by a dead reconciler is stale after the 10 s a waiter spins,
so a waiter cannot miss it in every round (strong fairness of taking over a stale
lock). Nothing is assumed of deaths, refusals, planning rounds, or of sessions
succeeding. In `FairGuardSpec` live processes run and time passes. In
`FairRunsSpec` threads in the store run, executions end, and the store is called
again and again: every call recovers first, and the server's polls are calls. In
`FairMailSpec` the parent conversation keeps coming to its
request boundary, where it takes its mail; nothing is assumed of the agents or of
the writers. In `FairPublicationSpec` a
publication runs, and one that was cut short is tried again (the model or the
user calls `agent_apply` until it succeeds or reports a conflict). In
`FairInboxSpec` tasks and worker threads run, a submission is answered (it has a
timeout), turns end (they have limits and can be cancelled), and the interface
polls the snapshot, which arms the drain. No fairness asks for an operation that
may fail to succeed; failures are bounded by `MaxFaults`.

## Proofs

All theorems hold for any sets of tasks, workers and paths, any plan and any
bounds; the assumptions are the named ASSUMEs (sentinels are not elements of the
sets they stand beside, `Commit` is the powerset of tasks, the lease owners are
the workers).

- `BoardProofs`, the table: publication is an algorithm with a loop invariant,
  `Peeled`: a set of tasks that is not entirely among the pending ones has a member that
  depends on none of the set; when nothing is pending no set can be a cycle, and
  the graph that becomes visible is well-founded (`DraftClosed` says that the
  draft still agrees with the table, which the graph guard ensures). Every other
  operation rewrites one row, and `GoodRow` is what such a rewrite respects; each
  transition is shown to be one. From `TableInv` follow each invariant of the run
  `table` and its two action properties.
- `BoardProofs`, the leases: exclusion, one lease per owner and non-emptiness are
  inductive only together: merging is harmless because the owner has one lease,
  and an acquired scope conflicts with no other lease.
- `CoordRunProofs`, the board: the types of the composition, and both refinements:
  every step of `RunNext` is a step of `TableNext` or leaves the table, and likewise for the
  leases. The leases' theorems are then carried over to the composed system.
- `CoordRunProofs`, the main branch: with `SlowHolder = FALSE`, `MergedOnMain`,
  `MainFastForward`, `OnlySubmittedReachMain`. `MergedOnMain` is not inductive:
  between a rebase and its `update-ref` main must not move (`LockHeld`), the
  rebased worktree must hold the work of that very task (`ClaimHeld`,
  `SubmittedWork`), the snapshot must not contain a task that is no longer
  submitted (`SnapshotReady`), and every commit anybody remembers must be part
  of main (`BasesOnMain`, `RebasedOnMain`). The dependencies of a merged task
  are on main because dependencies are done first (the table's theorem) and
  the run loop never completes a task without a merge (`MergedIn`).
- `FileGuardProofs`: `HolderHasFile` for every number of processes and faults and
  for slow sections too; `RobberyNeedsLeftover` from `CleanBeforeFault` (the file
  is young and its creator is inside, so nobody is about to unlink it).
- `AgentMailProofs`, the runs: `OwnerIsCurrent` for any agents, attempts, calls
  and bounds. What makes it inductive is the lease: while a call holds it, only that call
  changes the row of the agent (a settlement needs the lease and the current
  attempt, an admission needs the lease, and deletion an empty table). From the
  rows follow the limit and the scopes of executions, because each of them is an
  active row (`ExecutionsCompatible`), and that a deleted session stays empty.
- `OrderProofs`: `InOrder` lists every finite set of numbers, in one way only, and
  `Without` of a sequence whose first k members are known leaves the rest of it.
  A query "ORDER BY seq" and the loop of a retry are both stated with these; the
  sorting operators of the community modules are recursive, which no prover here
  can use.
- `AgentMailProofs`, the mail: `AckedIsDurable` and the refinement `KeepsPromise`
  for any agents, messages, limits and faults, late appends included. For every
  recipient of an open session (`Standing`, `Fine`): what is on disk, alone and
  together with what any one writer keeps, is a front of its mail (`Foremost`): it
  was claimed, and no mail before it that was not withdrawn is left out. A
  delivery holds the oldest undelivered rows and all that are being delivered
  (`Oldest`, `Few`, `InHand`); what it does not hand to its writer is on disk or
  with that writer already, and nothing between the rows the writer keeps is still
  to be recorded (`Reserved`). So whoever writes, and wherever an append breaks
  off, what is on disk remains a front (`HoldsFront`, `FineCatchUp`,
  `RecordFails`, `RecordWorks`). A death, and an execution that reads its
  transcript without the rows a writer keeps, only forget parts of what is kept or
  known (`FineForgets`, `FineHydrate`); a row so forgotten may be written twice,
  and it is a stray of the promise. What is recorded or acknowledged is on disk
  (`Recorded`, `Acked`), so nothing acknowledged is written again while the
  session lives. No guard keeps the writers from a deleted session: that only
  accepted mail comes there, each row once, follows from what they keep (`owed`).
  The composition keeps all that the runs keep on their own (`MailKeepsRuns`).
- `PublicationProofs`: `PublishesAtomically` for any files, contents, bounds. A
  journal that says applying pins the work (`UnfinishedIsPinned`: complete, the
  present head, the saved contents are those expected); every changed file is
  then between its two contents unless edited, those written are known, and
  those restored too; so each file operation is hidden and the visible checkout
  moves once, at `Commit`, or not at all. `OnlyEditsConflict` adds what holds while
  nobody has edited anything: outside a publication the checkout is what the last
  published work left (`Settled`), and the journal knows every head (`KnownHead`).
- `TranscriptProofs`: the refinement `KeepsLog` for any transcripts, rows, flushing
  threads and faults. Of the queue of a transcript (what failed, what is in the
  batch, what is new) the first k rows are on disk, for some k, and the others
  are not (`Shape`). An append that fails half-way makes k greater and leaves the
  queue as it is; the retry writes from the k-th row on; a batch leaves the queue
  when k is its length, or together with all that is behind it. What is on disk
  followed by what is left of the queue is therefore the log that has been
  accepted, and a step moves rows from the one to the other or drops the queue.
- `InboxProofs`: `EntersOnce`, `LostOnlyUnflushed`, `StopHolds` and the types for
  any messages, queue limit, attempts and faults. The first layer is `OnceInv`.
  Whoever works on a message (a thread that has staged it, the steer queue, a
  boundary that waits for its receipt, the drain, the turn) has it in delivery and is alone with it (`WaitersBusy`,
  `BatchBusy`, `TurnBusy`), and a row is only ever added by one of these; the rows
  are of messages that are past the queue (`RowsPlaced`, seen from memory and from
  the file, since a restart goes back to the file), so nobody takes them again;
  what is in delivery is so on disk (`DeliveriesSaved`), where the restart
  compares it with the transcript; before the registry is loaded nobody works
  (`ColdIsQuiet`). A hold on disk is one in memory (`HoldKept`). The second layer,
  `KeptInv`, is what `LostOnlyUnflushed` needs; it is kept because a step is
  `Gentle` (takes nothing on), a `Claim` of queued messages, or writes a row, loads
  or crashes. All that is delivered under the identity of one message shares the
  fate of that message (`Fates`), in memory and on disk alike, so an identity
  that is taken on again has no old followers; what waits for a boundary or a turn
  is the whole of its delivery (`Solo`), so the row that is written has all of it
  (`BatchInRow`); a receipt is dropped only of what has a row, or had one that a
  crash took unflushed (`DoneIn`); and the file says "new" or "withdrawn" only of
  what memory knows as such (`SavedAlike`).

Every safety property of a passing run is a theorem. Only model-checked: liveness
(`EveryTaskSettles`, `LeftoverGoes`, `OrphansEnd`, `ParentHears`,
`PublicationEnds`, `QueueDrains`), because the provers know neither ENABLED nor
fairness; and the three violations, which are single behaviours. The theorems about the
main branch have the hypothesis `SlowHolder = FALSE`; the run `slow` shows that
`MergedOnMain` fails without it.

## Plan

1. done: `TaskTable`, `ScopeLeases`, `CoordRun`, `FileGuard`, their runs, and the
   theorems above.
2. done: `AgentRuns` and `AgentMail`, `Publication`, `Inbox`, `Transcript`, each
   with its run, and the proofs of every safety property of them, the two
   refinements over sequences (`MailPromise`, `TranscriptLog`) included.
3. the safety halves of the liveness properties: for each of them the invariant
   that somebody is left who can take the next step.
4. `CoordReview`: ask queue, gate and reviewer over `TaskTable` and `ScopeLeases`
   (a refinement of the table again).
5. `RWLock`, `SpawnSlots`, the workspace lock: small modules, theorems of
   exclusion; then rewind's journal and blob collection.

## Not modelled, and why

`claim_specific`, the ask gate and the reviewer have no caller outside the tests
at this commit; their transitions are in `TaskTable` and their sequences are
planned. Presence is advisory. What a model session does to files is abstracted to
"it commits or it fails".

Of the parts that are modelled, left out: in the run store `import_legacy` (a
one-time migration), the migration of specifications, and "cancelling", which
nothing writes; in publication file modes, the size limit and the permission
check; in the inbox several sessions (they share nothing but the lock),
`drop_session`, editing and reordering (a batch has no order here), clients that
repeat a request with the same identity, the limit of sixteen steers, and the
switches `XEYO_INBOX_COALESCE=0` and `XEYO_INBOX_AUTORUN=0`; in transcripts
rotation, identities that conflict in content, and in `Transcript` a second owner of
a transcript with identities of its own (`AgentMail` has it). Nothing is modelled
of rewind,
the workspace lock, the read-write lock and the spawn slots yet.

Memory, permissions, prompt assembly, code index,
diagnostics, usage and evaluation process data without a protocol of their own;
model clients, channels and the HTTP layer are I/O; the clients are presentation.
