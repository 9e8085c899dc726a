---------------------------- MODULE BoardProofs -----------------------------
(***************************************************************************)
(* The invariants and action properties of TaskTable, for every set of     *)
(* tasks and workers, every scope and every reopen limit.                  *)
(*                                                                         *)
(* The argument has two halves.  Publication is an algorithm: the peeling  *)
(* loop keeps `Peeled', which says that a set of tasks not entirely inside *)
(* the pending ones cannot be a cycle; when nothing is pending, no set is  *)
(* one.  Every other operation rewrites one row: `GoodRow' is what such a  *)
(* rewrite respects, and each transition is shown to be one.               *)
(***************************************************************************)
EXTENDS TaskTable, ScopeLeases, TLAPS

\* The dependencies that draft and table agree on form a closed graph.
DraftClosed(d) ==
  /\ d.batch \cap Published = {}
  /\ d.pending \subseteq Published \cup d.batch
  /\ \A t \in Published : d.deps[t] = task[t].deps
  /\ \A t \in d.batch : d.deps[t] \subseteq Published \cup d.batch

\* A set of tasks that has lost a member to the peeling has a member that
\* depends on none of the set.
Peeled(d) ==
  \A S \in SUBSET (Published \cup d.batch) :
    ~(S \subseteq d.pending) => \E t \in S : d.deps[t] \cap S = {}

DraftInv == draft # NoDraft => DraftClosed(draft) /\ Peeled(draft)

TableInv ==
  /\ TableTypeOK
  /\ DraftInv
  /\ GraphWellFounded
  /\ DependenciesFirst
  /\ ReopenFuse

\* What rewriting the row of t respects, whichever transition it is.
GoodRow(t, row) ==
  /\ row \in Row
  /\ row.deps = task[t].deps
  /\ task[t].status \notin Terminal \cup {"absent"}
  /\ row.status # "absent"
  /\ row.status # "pending" => DepsDone(t)
  /\ row.reopens <= ReopenLimit + 1
  /\ row.reopens > ReopenLimit <=> row.status = "blocked"
  /\ task[t].status \in Held /\ row.status \in Held => row.by = task[t].by

-----------------------------------------------------------------------------
\* Sending a task back is a good rewrite from every status it is sent back from.
LEMMA ReopenIsGood ==
  ASSUME TableInv, NEW t \in TaskId, NEW c \in Commit, ReopenOrBlock(t, c),
         task[t].status \in {"claimed", "PENDING_REVIEW", "ready_to_merge"}
  PROVE  \E row \in Row : GoodRow(t, row) /\ Save(t, row)
<1> DEFINE row == [task[t] EXCEPT
             !.status  = IF task[t].reopens + 1 > ReopenLimit THEN "blocked" ELSE "reopened",
             !.reopens = @ + 1,
             !.base    = IF c = NoCommit THEN @ ELSE c]
<1>1. task[t] \in Row
  BY DEF TableInv, TableTypeOK
<1> DEFINE s == IF task[t].reopens + 1 > ReopenLimit THEN "blocked" ELSE "reopened"
           b == IF c = NoCommit THEN task[t].base ELSE c
<1> DEFINE n == task[t].reopens + 1
<1>2. s \in Status /\ n \in Nat /\ b \in Commit
  BY <1>1 DEF Row, Status
<1>3. task[t].reopens \in Nat /\ task[t].reopens <= ReopenLimit
  BY <1>1, LimitAssumption DEF TableInv, ReopenFuse, Row
<1>4. DepsDone(t)
  BY DEF TableInv, DependenciesFirst, Published
<1>5. /\ row \in Row
      /\ row.deps = task[t].deps /\ row.reopens = n /\ row.status = s
  <2> DEFINE new(x, y, z) == [task[t] EXCEPT !.status = x, !.reopens = y, !.base = z]
  <2>1. row = new(s, n, b)
    OBVIOUS
  <2>2. ASSUME NEW x \in Status, NEW y \in Nat, NEW z \in Commit
        PROVE  /\ new(x, y, z) \in Row
               /\ new(x, y, z).status = x /\ new(x, y, z).reopens = y
               /\ new(x, y, z).deps = task[t].deps
    BY <1>1 DEF Row
  <2> HIDE DEF row, new, s, n, b
  <2> QED
    BY <1>2, <2>1, <2>2
<1>6. GoodRow(t, row)
  BY <1>3, <1>4, <1>5, LimitAssumption DEF GoodRow, Terminal, Held
<1>7. Save(t, row)
  BY DEF ReopenOrBlock
<1> QED
  BY <1>5, <1>6, <1>7

\* A transition that keeps dependencies, base and reopen count is a good
\* rewrite if it leaves a status that may move for one that is neither absent
\* nor blocked.
LEMMA MoveIsGood ==
  ASSUME TableInv, NEW t \in TaskId, NEW s \in Status, NEW b \in Worker \cup {NoOne},
         NEW c \in Commit,
         task[t].status \notin Terminal \cup {"absent"},
         s \notin {"absent", "blocked"},
         s # "pending" => DepsDone(t),
         task[t].status \in Held /\ s \in Held => b = task[t].by
  PROVE  LET row == [task[t] EXCEPT !.status = s, !.by = b, !.base = c]
         IN  row \in Row /\ GoodRow(t, row)
<1> DEFINE row == [task[t] EXCEPT !.status = s, !.by = b, !.base = c]
<1>1. task[t] \in Row
  BY DEF TableInv, TableTypeOK
<1>2. /\ row \in Row
      /\ row.deps = task[t].deps
      /\ row.reopens = task[t].reopens
      /\ row.status = s
      /\ row.by = b
  BY <1>1 DEF Row
<1>3. task[t].reopens \in Nat /\ task[t].reopens <= ReopenLimit
  BY <1>1, LimitAssumption DEF TableInv, ReopenFuse, Row, Terminal
<1>4. GoodRow(t, row)
  BY <1>2, <1>3, LimitAssumption DEF GoodRow
<1> QED
  BY <1>2, <1>4

\* Every transition of a holder is a good rewrite of its task's row.
LEMMA HolderStepIsGood ==
  ASSUME TableInv, NEW t \in TaskId, NEW w \in Worker, HolderStep(t, w)
  PROVE  \E row \in Row : GoodRow(t, row) /\ Save(t, row)
<1>1. task[t] \in Row
  BY DEF TableInv, TableTypeOK
<1>2. task[t].by \in Worker \cup {NoOne} /\ task[t].base \in Commit
  BY <1>1 DEF Row
<1> DEFINE Moved(s, b, c) == [task[t] EXCEPT !.status = s, !.by = b, !.base = c]
<1>3. task[t].status \notin {"pending", "absent"} => DepsDone(t)
  BY DEF TableInv, DependenciesFirst, Published
<1>4. CASE \E c \in Commit : ClaimTask(t, w, c)
  <2>1. PICK c \in Commit : ClaimTask(t, w, c)
    BY <1>4
  <2>2. Moved("claimed", w, c) \in Row /\ GoodRow(t, Moved("claimed", w, c))
    BY <2>1, MoveIsGood DEF ClaimTask, Claimable, Status, Terminal, Held
  <2> QED
    BY <2>1, <2>2 DEF ClaimTask
<1>5. CASE MarkPendingReview(t, w)
  <2>1. Moved("PENDING_REVIEW", task[t].by, task[t].base) =
          [task[t] EXCEPT !.status = "PENDING_REVIEW"]
    BY <1>1 DEF Row
  <2>2. /\ Moved("PENDING_REVIEW", task[t].by, task[t].base) \in Row
        /\ GoodRow(t, Moved("PENDING_REVIEW", task[t].by, task[t].base))
    BY <1>2, <1>3, <1>5, MoveIsGood DEF MarkPendingReview, HeldBy, Status, Terminal
  <2> QED
    BY <1>5, <2>1, <2>2 DEF MarkPendingReview
<1>6. CASE ResumeTask(t, w)
  <2>1. Moved("claimed", task[t].by, task[t].base) = [task[t] EXCEPT !.status = "claimed"]
    BY <1>1 DEF Row
  <2>2. /\ Moved("claimed", task[t].by, task[t].base) \in Row
        /\ GoodRow(t, Moved("claimed", task[t].by, task[t].base))
    BY <1>2, <1>3, <1>6, MoveIsGood DEF ResumeTask, InReview, Status, Terminal
  <2> QED
    BY <1>6, <2>1, <2>2 DEF ResumeTask
<1>7. CASE SuspendRelease(t, w)
  <2>1. Moved("pending", NoOne, task[t].base) =
          [task[t] EXCEPT !.status = "pending", !.by = NoOne]
    BY <1>1 DEF Row
  <2>2. /\ Moved("pending", NoOne, task[t].base) \in Row
        /\ GoodRow(t, Moved("pending", NoOne, task[t].base))
    BY <1>2, <1>7, MoveIsGood DEF SuspendRelease, InReview, Status, Terminal, Held
  <2> QED
    BY <1>7, <2>1, <2>2 DEF SuspendRelease
<1>8. CASE ReviewReopen(t, w) \/ ReopenTask(t, w) \/ WorkerFailed(t, w)
  BY <1>2, <1>8, ReopenIsGood DEF ReviewReopen, ReopenTask, WorkerFailed, HeldBy, InReview
<1>9. CASE CompleteTask(t, w)
  <2>1. Moved("completed", task[t].by, task[t].base) = [task[t] EXCEPT !.status = "completed"]
    BY <1>1 DEF Row
  <2>2. /\ Moved("completed", task[t].by, task[t].base) \in Row
        /\ GoodRow(t, Moved("completed", task[t].by, task[t].base))
    BY <1>2, <1>3, <1>9, MoveIsGood DEF CompleteTask, HeldBy, Status, Terminal
  <2> QED
    BY <1>9, <2>1, <2>2 DEF CompleteTask
<1>10. CASE SubmitResult(t, w)
  <2>1. Moved("ready_to_merge", task[t].by, task[t].base) =
          [task[t] EXCEPT !.status = "ready_to_merge"]
    BY <1>1 DEF Row
  <2>2. /\ Moved("ready_to_merge", task[t].by, task[t].base) \in Row
        /\ GoodRow(t, Moved("ready_to_merge", task[t].by, task[t].base))
    BY <1>2, <1>3, <1>10, MoveIsGood DEF SubmitResult, HeldBy, Status, Terminal
  <2> QED
    BY <1>10, <2>1, <2>2 DEF SubmitResult
<1> QED
  BY <1>4, <1>5, <1>6, <1>7, <1>8, <1>9, <1>10 DEF HolderStep

\* So is every transition the board makes by itself.
LEMMA BoardStepIsGood ==
  ASSUME TableInv, NEW t \in TaskId, BoardStep(t)
  PROVE  \E row \in Row : GoodRow(t, row) /\ Save(t, row)
<1>1. task[t] \in Row
  BY DEF TableInv, TableTypeOK
<1>2. task[t].by \in Worker \cup {NoOne} /\ task[t].base \in Commit
  BY <1>1 DEF Row
<1> DEFINE Moved(s, b, c) == [task[t] EXCEPT !.status = s, !.by = b, !.base = c]
<1>3. task[t].status \notin {"pending", "absent"} => DepsDone(t)
  BY DEF TableInv, DependenciesFirst, Published
<1>4. CASE Supersede(t)
  <2>1. Moved("superseded", NoOne, task[t].base) =
          [task[t] EXCEPT !.status = "superseded", !.by = NoOne]
    BY <1>1 DEF Row
  <2>2. /\ Moved("superseded", NoOne, task[t].base) \in Row
        /\ GoodRow(t, Moved("superseded", NoOne, task[t].base))
    BY <1>2, <1>3, <1>4, MoveIsGood DEF Supersede, Status, Terminal, Held
  <2> QED
    BY <1>4, <2>1, <2>2 DEF Supersede
<1>5. CASE MarkMerged(t)
  <2>1. Moved("merged", task[t].by, task[t].base) = [task[t] EXCEPT !.status = "merged"]
    BY <1>1 DEF Row
  <2>2. /\ Moved("merged", task[t].by, task[t].base) \in Row
        /\ GoodRow(t, Moved("merged", task[t].by, task[t].base))
    BY <1>2, <1>3, <1>5, MoveIsGood DEF MarkMerged, Status, Terminal
  <2> QED
    BY <1>5, <2>1, <2>2 DEF MarkMerged
<1>6. CASE \E c \in Commit : ReopenConflict(t, c)
  BY <1>6, ReopenIsGood DEF ReopenConflict
<1> QED
  BY <1>4, <1>5, <1>6 DEF BoardStep

-----------------------------------------------------------------------------
\* A good rewrite of one row keeps the invariant.  The only thing that could
\* be undone is a dependency of another task, and a done task is terminal.
LEMMA RewriteKeepsInv ==
  ASSUME TableInv, NEW t \in TaskId, NEW row \in Row, GoodRow(t, row), Save(t, row)
  PROVE  TableInv'
<1>1. /\ task \in [TaskId -> Row] /\ task' \in [TaskId -> Row]
      /\ task' = [task EXCEPT ![t] = row]
      /\ draft = NoDraft /\ draft' = NoDraft
  BY DEF TableInv, TableTypeOK, Save
<1>2. \A u \in TaskId : task'[u] = IF u = t THEN row ELSE task[u]
  BY <1>1
<1>3. Published' = Published /\ \A u \in TaskId : task'[u].deps = task[u].deps
  BY <1>2 DEF Published, GoodRow
<1>4. TableTypeOK'
  BY <1>1 DEF TableTypeOK
<1>5. DraftInv'
  BY <1>1 DEF DraftInv
<1>6. GraphWellFounded'
  BY <1>3 DEF TableInv, GraphWellFounded, Published
<1>7. \A u \in TaskId : task[u].status \in Done => task'[u].status \in Done
  BY <1>2 DEF GoodRow, Terminal, Done
<1>8. DependenciesFirst'
  <2> SUFFICES ASSUME NEW u \in Published, task'[u].status # "pending"
               PROVE  DepsDone(u)'
    BY <1>3 DEF DependenciesFirst
  <2>1. DepsDone(u)
    BY <1>2 DEF TableInv, DependenciesFirst, GoodRow, Published
  <2>2. task[u].deps \subseteq TaskId
    BY <1>1 DEF Row, Published
  <2> QED
    BY <1>3, <1>7, <2>1, <2>2 DEF DepsDone, Published
<1>9. ReopenFuse'
  BY <1>2 DEF TableInv, ReopenFuse, GoodRow
<1> QED
  BY <1>4, <1>5, <1>6, <1>8, <1>9 DEF TableInv

\* Beginning a publication establishes the invariant of the peeling loop:
\* everything is pending, so no set has lost a member yet.
LEMMA BeginKeepsInv ==
  ASSUME TableInv, NEW batch \in SUBSET TaskId, NEW deps \in [batch -> SUBSET TaskId],
         BeginPublish(batch, deps)
  PROVE  TableInv'
<1>1. task' = task /\ Published' = Published
  BY DEF BeginPublish, Published
<1>2. /\ draft'.batch = batch /\ draft'.pending = Published \cup batch
      /\ draft'.deps = [t \in TaskId |-> IF t \in batch THEN deps[t] ELSE task[t].deps]
  BY DEF BeginPublish
<1>3. task \in [TaskId -> Row]
  BY DEF TableInv, TableTypeOK
<1>4. TableTypeOK'
  <2>1. draft'.deps \in [TaskId -> SUBSET TaskId]
    BY <1>2, <1>3 DEF Row
  <2>2. draft' = [deps |-> draft'.deps, batch |-> batch, pending |-> Published \cup batch]
    BY <1>2 DEF BeginPublish
  <2> QED
    BY <1>1, <1>3, <2>1, <2>2 DEF TableTypeOK, Draft, Published
<1>5. DraftClosed(draft)'
  BY <1>1, <1>2 DEF DraftClosed, BeginPublish, Published
<1>6. Peeled(draft)'
  BY <1>1, <1>2 DEF Peeled
<1>7. GraphWellFounded' /\ DependenciesFirst' /\ ReopenFuse'
  BY <1>1 DEF TableInv, GraphWellFounded, DependenciesFirst, DepsDone, ReopenFuse
<1> QED
  BY <1>4, <1>5, <1>6, <1>7 DEF TableInv, DraftInv

\* One round of peeling keeps it: a set that lies within the pending tasks and
\* contains a ready one has a member without a dependency in the set.
LEMMA PeelKeepsInv ==
  ASSUME TableInv, PeelReady
  PROVE  TableInv'
<1>1. task' = task /\ Published' = Published
  BY DEF PeelReady, Published
<1>2. draft \in Draft /\ DraftClosed(draft) /\ Peeled(draft)
  BY DEF PeelReady, TableInv, TableTypeOK, DraftInv
<1>3. /\ draft' \in Draft
      /\ draft'.deps = draft.deps /\ draft'.batch = draft.batch
      /\ draft'.pending = draft.pending \ Ready(draft)
  BY <1>2 DEF PeelReady, Draft
<1>4. TableTypeOK'
  BY <1>1, <1>3 DEF TableInv, TableTypeOK
<1>5. DraftClosed(draft)'
  BY <1>1, <1>2, <1>3 DEF DraftClosed, Published
<1>6. Peeled(draft)'
  <2> SUFFICES ASSUME NEW S \in SUBSET (Published \cup draft.batch),
                      ~(S \subseteq draft'.pending)
               PROVE  \E t \in S : draft.deps[t] \cap S = {}
    BY <1>1, <1>3 DEF Peeled
  <2>1. CASE ~(S \subseteq draft.pending)
    BY <1>2, <2>1 DEF Peeled
  <2>2. CASE S \subseteq draft.pending
    <3>1. PICK t \in S : t \in Ready(draft)
      BY <1>3, <2>2
    <3> QED
      BY <2>2, <3>1 DEF Ready
  <2> QED
    BY <2>1, <2>2
<1>7. GraphWellFounded' /\ DependenciesFirst' /\ ReopenFuse'
  BY <1>1 DEF TableInv, GraphWellFounded, DependenciesFirst, DepsDone, ReopenFuse
<1> QED
  BY <1>4, <1>5, <1>6, <1>7 DEF TableInv, DraftInv

\* Dropping a draft, because it is cyclic or because the publisher died,
\* leaves the table as it was.
LEMMA DropKeepsInv ==
  ASSUME TableInv, RejectCyclic \/ AbandonPublish
  PROVE  TableInv'
<1>1. task' = task /\ Published' = Published /\ draft' = NoDraft
  BY DEF RejectCyclic, AbandonPublish, Published
<1> QED
  BY <1>1 DEF TableInv, TableTypeOK, DraftInv, GraphWellFounded, DependenciesFirst,
              DepsDone, ReopenFuse

\* When nothing is pending any more, the graph of the table and the batch
\* together is well founded, and it becomes the graph of the table.
LEMMA PublishKeepsInv ==
  ASSUME TableInv, PublishBatch
  PROVE  TableInv'
<1>1. /\ task \in [TaskId -> Row] /\ draft \in Draft /\ draft.pending = {}
      /\ DraftClosed(draft) /\ Peeled(draft) /\ draft' = NoDraft
  BY DEF PublishBatch, TableInv, TableTypeOK, DraftInv
<1>2. draft.batch \subseteq TaskId /\ draft.deps \in [TaskId -> SUBSET TaskId]
  BY <1>1 DEF Draft
<1>3. \A t \in TaskId :
        task'[t] = IF t \in draft.batch
                   THEN [task[t] EXCEPT !.status = "pending", !.deps = draft.deps[t]]
                   ELSE task[t]
  BY DEF PublishBatch
<1>4. \A t \in TaskId :
        LET row == [task[t] EXCEPT !.status = "pending", !.deps = draft.deps[t]]
        IN  /\ row \in Row /\ row.status = "pending" /\ row.deps = draft.deps[t]
            /\ row.reopens = task[t].reopens
  <2> DEFINE new(t, s, d) == [task[t] EXCEPT !.status = s, !.deps = d]
  <2>1. ASSUME NEW t \in TaskId, NEW s \in Status, NEW d \in SUBSET TaskId
        PROVE  /\ new(t, s, d) \in Row
               /\ new(t, s, d).status = s /\ new(t, s, d).deps = d
               /\ new(t, s, d).reopens = task[t].reopens
    <3>1. task[t] \in Row
      BY <1>1
    <3> QED
      BY <3>1 DEF Row
  <2>2. \A t \in TaskId : draft.deps[t] \in SUBSET TaskId
    BY <1>2
  <2>3. "pending" \in Status
    BY DEF Status
  <2> HIDE DEF new
  <2>4. ASSUME NEW t \in TaskId
        PROVE  /\ new(t, "pending", draft.deps[t]) \in Row
               /\ new(t, "pending", draft.deps[t]).status = "pending"
               /\ new(t, "pending", draft.deps[t]).deps = draft.deps[t]
               /\ new(t, "pending", draft.deps[t]).reopens = task[t].reopens
    BY <2>1, <2>2, <2>3
  <2> QED
    BY <2>4 DEF new
<1>5. task' \in [TaskId -> Row]
  <2>1. task' = [t \in TaskId |->
                  IF t \in draft.batch
                  THEN [task[t] EXCEPT !.status = "pending", !.deps = draft.deps[t]]
                  ELSE task[t]]
    BY DEF PublishBatch
  <2>2. ASSUME NEW t \in TaskId
        PROVE  (IF t \in draft.batch
                THEN [task[t] EXCEPT !.status = "pending", !.deps = draft.deps[t]]
                ELSE task[t]) \in Row
    BY <1>1, <1>4
  <2> QED
    BY <2>1, <2>2
<1>6. Published' = Published \cup draft.batch
  BY <1>2, <1>3, <1>4 DEF Published
<1>7. \A t \in Published \cup draft.batch : task'[t].deps = draft.deps[t]
  BY <1>1, <1>2, <1>3, <1>4 DEF DraftClosed, Published
<1>8. GraphWellFounded'
  <2>1. \A t \in Published' : task'[t].deps \subseteq Published'
    BY <1>1, <1>6, <1>7 DEF DraftClosed, TableInv, GraphWellFounded
  <2>2. ASSUME NEW S \in SUBSET (Published \cup draft.batch), S # {}
        PROVE  \E t \in S : task'[t].deps \cap S = {}
    <3>1. PICK t \in S : draft.deps[t] \cap S = {}
      BY <1>1, <2>2 DEF Peeled
    <3> QED
      BY <1>7, <3>1
  <2> QED
    BY <1>6, <2>1, <2>2 DEF GraphWellFounded
<1>9. DependenciesFirst'
  <2> SUFFICES ASSUME NEW t \in Published', task'[t].status # "pending"
               PROVE  DepsDone(t)'
    BY DEF DependenciesFirst
  <2>1. t \in Published /\ t \notin draft.batch /\ task'[t] = task[t]
    BY <1>2, <1>3, <1>4, <1>6 DEF Published
  <2>2. DepsDone(t) /\ task[t].deps \subseteq Published
    BY <2>1 DEF TableInv, DependenciesFirst, GraphWellFounded
  <2>3. \A d \in task[t].deps : task'[d] = task[d]
    BY <1>1, <1>3, <2>2 DEF DraftClosed, Published
  <2> QED
    BY <2>1, <2>2, <2>3 DEF DepsDone
<1>10. ReopenFuse'
  <2>1. \A t \in draft.batch : task[t].status = "absent"
    BY <1>1, <1>2 DEF DraftClosed, Published
  <2> QED
    BY <1>2, <1>3, <1>4, <2>1 DEF TableInv, ReopenFuse
<1>11. TableTypeOK' /\ DraftInv'
  BY <1>1, <1>5 DEF TableTypeOK, DraftInv
<1> QED
  BY <1>8, <1>9, <1>10, <1>11 DEF TableInv

-----------------------------------------------------------------------------
LEMMA InitInv ==
  ASSUME TableInit
  PROVE  TableInv
<1>1. Published = {}
  BY DEF TableInit, Published
<1>2. TableTypeOK
  BY CommitAssumption DEF TableInit, TableTypeOK, Row, Status
<1>3. ReopenFuse
  <2>1. \A t \in TaskId : task[t].reopens = 0 /\ task[t].status = "absent"
    BY DEF TableInit
  <2>2. 0 <= ReopenLimit + 1 /\ ~(0 > ReopenLimit)
    BY LimitAssumption
  <2> QED
    BY <2>1, <2>2 DEF ReopenFuse
<1> QED
  BY <1>1, <1>2, <1>3 DEF TableInit, TableInv, DraftInv, GraphWellFounded, DependenciesFirst

LEMMA NextInv ==
  ASSUME TableInv, TableNext
  PROVE  TableInv'
<1>1. CASE Publish
  BY <1>1, BeginKeepsInv, PeelKeepsInv, DropKeepsInv, PublishKeepsInv DEF Publish
<1>2. ASSUME NEW t \in TaskId, NEW w \in Worker, HolderStep(t, w)
      PROVE  TableInv'
  BY <1>2, HolderStepIsGood, RewriteKeepsInv
<1>3. ASSUME NEW t \in TaskId, BoardStep(t)
      PROVE  TableInv'
  BY <1>3, BoardStepIsGood, RewriteKeepsInv
<1> QED
  BY <1>1, <1>2, <1>3 DEF TableNext

LEMMA StutterInv ==
  ASSUME TableInv, UNCHANGED tableVars
  PROVE  TableInv'
BY DEF tableVars, TableInv, TableTypeOK, DraftInv, DraftClosed, Peeled, Published,
       GraphWellFounded, DependenciesFirst, DepsDone, ReopenFuse

\* The inductive invariant.
THEOREM TableInvariant == TableSpec => []TableInv
BY InitInv, NextInv, StutterInv, PTL DEF TableSpec

\* The dependency graph stays closed and acyclic, whatever batches are published.
THEOREM GraphTheorem == TableSpec => []GraphWellFounded
BY TableInvariant, PTL DEF TableInv

\* No task is claimed, held, submitted or merged before its dependencies are done.
THEOREM DependenciesTheorem == TableSpec => []DependenciesFirst
BY TableInvariant, PTL DEF TableInv

\* blocked and an exhausted reopen budget are the same thing.
THEOREM FuseTheorem == TableSpec => []ReopenFuse
BY TableInvariant, PTL DEF TableInv

\* The rows and the draft keep their types.
THEOREM TypeTheorem == TableSpec => []TableTypeOK
BY TableInvariant, PTL DEF TableInv

\* Dependencies alone never deadlock the board: well-foundedness, applied to
\* the unfinished tasks, yields one that waits for none of them.
THEOREM NotWaitingTheorem == TableSpec => []SomeTaskNotWaiting
<1>1. TableInv => SomeTaskNotWaiting
  <2> DEFINE unfinished == {t \in Published : task[t].status \notin Done}
  <2> SUFFICES ASSUME TableInv, unfinished # {}
               PROVE  \E t \in unfinished : DepsDone(t)
    BY DEF SomeTaskNotWaiting
  <2>1. PICK t \in unfinished : task[t].deps \cap unfinished = {}
    BY DEF TableInv, GraphWellFounded
  <2>2. task[t].deps \subseteq Published
    BY DEF TableInv, GraphWellFounded
  <2> QED
    BY <2>1, <2>2 DEF DepsDone
<1> QED
  BY <1>1, TableInvariant, PTL

\* A step either rewrites one row in a good way, or leaves every row that is
\* already published as it was.
LEMMA StepShape ==
  ASSUME TableInv, [TableNext]_tableVars
  PROVE  \/ \E t \in TaskId, row \in Row : GoodRow(t, row) /\ Save(t, row)
         \/ \A t \in Published : task'[t] = task[t]
<1>1. CASE Publish
  <2>1. CASE PublishBatch
    <3>1. draft \in Draft /\ DraftClosed(draft)
      BY <2>1 DEF PublishBatch, TableInv, TableTypeOK, DraftInv
    <3> QED
      BY <2>1, <3>1 DEF PublishBatch, DraftClosed, Published
  <2>2. CASE task' = task
    BY <2>2
  <2> QED
    BY <1>1, <2>1, <2>2 DEF Publish, BeginPublish, PeelReady, RejectCyclic, AbandonPublish
<1>2. ASSUME NEW t \in TaskId, NEW w \in Worker, HolderStep(t, w)
      PROVE  \E row \in Row : GoodRow(t, row) /\ Save(t, row)
  BY <1>2, HolderStepIsGood
<1>3. ASSUME NEW t \in TaskId, BoardStep(t)
      PROVE  \E row \in Row : GoodRow(t, row) /\ Save(t, row)
  BY <1>3, BoardStepIsGood
<1>4. CASE UNCHANGED tableVars
  BY <1>4 DEF tableVars
<1> QED
  BY <1>1, <1>2, <1>3, <1>4 DEF TableNext

\* merged, completed, blocked and superseded are final: no interleaving of
\* operations moves such a task again.
THEOREM FinalTheorem == TableSpec => TerminalIsFinal
<1>1. ASSUME TableInv, [TableNext]_tableVars, NEW t \in TaskId, task[t].status \in Terminal
      PROVE  task'[t] = task[t]
  <2>1. t \in Published
    BY <1>1 DEF Published, Terminal
  <2>2. CASE \E u \in TaskId, row \in Row : GoodRow(u, row) /\ Save(u, row)
    <3>1. PICK u \in TaskId, row \in Row : GoodRow(u, row) /\ Save(u, row)
      BY <2>2
    <3>2. u # t
      BY <1>1, <3>1 DEF GoodRow
    <3> QED
      BY <1>1, <3>1, <3>2 DEF Save, TableInv, TableTypeOK
  <2> QED
    BY <1>1, <2>1, <2>2, StepShape
<1>2. TableInv /\ [TableNext]_tableVars =>
        \A t \in TaskId : task[t].status \in Terminal => task'[t] = task[t]
  BY <1>1
<1> QED
  BY <1>2, TableInvariant, PTL DEF TableSpec, TerminalIsFinal

\* A held task is never taken over by another worker.
THEOREM HolderTheorem == TableSpec => HolderKept
<1>1. ASSUME TableInv, [TableNext]_tableVars, NEW t \in TaskId,
             task[t].status \in Held, task'[t].status \in Held
      PROVE  task'[t].by = task[t].by
  <2>1. t \in Published
    BY <1>1 DEF Published, Held
  <2>2. CASE \E u \in TaskId, row \in Row : GoodRow(u, row) /\ Save(u, row)
    <3>1. PICK u \in TaskId, row \in Row : GoodRow(u, row) /\ Save(u, row)
      BY <2>2
    <3>2. task'[t] = IF t = u THEN row ELSE task[t]
      BY <1>1, <3>1 DEF Save, TableInv, TableTypeOK
    <3> QED
      BY <1>1, <3>1, <3>2 DEF GoodRow
  <2> QED
    BY <1>1, <2>1, <2>2, StepShape
<1>2. TableInv /\ [TableNext]_tableVars =>
        \A t \in TaskId : task[t].status \in Held /\ task'[t].status \in Held
                            => task'[t].by = task[t].by
  BY <1>1
<1> QED
  BY <1>2, TableInvariant, PTL DEF TableSpec, HolderKept

-----------------------------------------------------------------------------
(***************************************************************************)
(* The scope leases exclude each other, for every set of owners and paths. *)
(* Exclusion needs the shape of the leases: acquiring keeps one lease of   *)
(* the owner and drops the others, which is harmless because there are no  *)
(* others, and the merged paths were checked one by one or leased before.  *)
(***************************************************************************)

LeaseInv == LeaseTypeOK /\ LeasesExclusive /\ OneLeasePerOwner

\* Replacing the leases of one owner by at most one lease, whose paths are all
\* compatible with the leases of everybody else, keeps the invariant.
LEMMA ReplaceOwn ==
  ASSUME LeaseInv, NEW w \in Owner, NEW S \in SUBSET Lease,
         lease' = (lease \ OwnedBy(w)) \cup S,
         \A m \in S : m.owner = w /\ m.paths # {},
         \A m, n \in S : m = n,
         \A m \in S, l \in lease \ OwnedBy(w) :
            \A p \in m.paths, q \in l.paths : ~Within(p, q) /\ ~Within(q, p)
  PROVE  LeaseInv'
<1>1. LeaseTypeOK'
  BY DEF LeaseInv, LeaseTypeOK
<1>2. LeasesExclusive'
  <2> SUFFICES ASSUME NEW l \in lease', NEW m \in lease', l.owner # m.owner,
                      NEW p \in l.paths, NEW q \in m.paths
               PROVE  ~Within(p, q)
    BY DEF LeasesExclusive
  <2>1. CASE l \in S
    <3>1. m \in lease \ OwnedBy(w)
      BY <2>1
    <3> QED
      BY <2>1, <3>1
  <2>2. CASE m \in S
    <3>1. l \in lease \ OwnedBy(w)
      BY <2>2
    <3> QED
      BY <2>2, <3>1
  <2>3. CASE l \notin S /\ m \notin S
    BY <2>3 DEF LeaseInv, LeasesExclusive
  <2> QED
    BY <2>1, <2>2, <2>3
<1>3. OneLeasePerOwner'
  <2>1. \A l \in lease' : l.paths # {}
    BY DEF LeaseInv, OneLeasePerOwner
  <2>2. ASSUME NEW l \in lease', NEW m \in lease', l.owner = m.owner
        PROVE  l = m
    <3>1. CASE l.owner = w
      <4>1. l \in S /\ m \in S
        BY <2>2, <3>1 DEF OwnedBy
      <4> QED
        BY <4>1
    <3>2. CASE l.owner # w
      <4>1. l \in lease /\ m \in lease
        BY <2>2, <3>2
      <4> QED
        BY <2>2, <4>1 DEF LeaseInv, OneLeasePerOwner
    <3> QED
      BY <3>1, <3>2
  <2> QED
    BY <2>1, <2>2 DEF OneLeasePerOwner
<1> QED
  BY <1>1, <1>2, <1>3 DEF LeaseInv

\* Removing leases keeps the invariant.
LEMMA DropLeases ==
  ASSUME LeaseInv, lease' \subseteq lease
  PROVE  LeaseInv'
BY DEF LeaseInv, LeaseTypeOK, LeasesExclusive, OneLeasePerOwner

LEMMA AcquireKeepsInv ==
  ASSUME LeaseInv, NEW w \in Owner, NEW P \in SUBSET Path, AcquireScope(w, P)
  PROVE  LeaseInv'
<1>1. /\ P # {}
      /\ \A l \in lease \ OwnedBy(w) : \A p \in P, q \in l.paths :
            ~Within(p, q) /\ ~Within(q, p)
  BY DEF AcquireScope, CanAcquire, Conflicts
<1>2. CASE OwnedBy(w) = {} /\ lease' = lease \cup {[owner |-> w, paths |-> P]}
  <2> DEFINE S == {[owner |-> w, paths |-> P]}
  <2>1. S \in SUBSET Lease /\ lease' = (lease \ OwnedBy(w)) \cup S
    BY <1>2 DEF Lease
  <2>2. \A m \in S : m.owner = w /\ m.paths = P
    OBVIOUS
  <2>3. \A m, n \in S : m = n
    OBVIOUS
  <2> HIDE DEF S
  <2> QED
    BY <1>1, <2>1, <2>2, <2>3, ReplaceOwn
<1>3. ASSUME NEW first \in OwnedBy(w),
             lease' = (lease \ OwnedBy(w))
                        \cup {[owner |-> w, paths |-> first.paths \cup P]}
      PROVE  LeaseInv'
  <2> DEFINE S == {[owner |-> w, paths |-> first.paths \cup P]}
  <2>1. first \in Lease /\ first \in lease /\ first.owner = w
    BY DEF LeaseInv, LeaseTypeOK, OwnedBy
  <2>2. S \in SUBSET Lease /\ lease' = (lease \ OwnedBy(w)) \cup S
    BY <1>3, <2>1 DEF Lease
  <2>3. \A m \in S : m.owner = w /\ m.paths = first.paths \cup P
    OBVIOUS
  <2>4. \A m, n \in S : m = n
    OBVIOUS
  <2>5. \A l \in lease \ OwnedBy(w) : \A p \in first.paths, q \in l.paths :
          ~Within(p, q) /\ ~Within(q, p)
    BY <2>1 DEF LeaseInv, LeasesExclusive, OwnedBy
  <2> HIDE DEF S
  <2> QED
    BY <1>1, <2>2, <2>3, <2>4, <2>5, ReplaceOwn
<1> QED
  BY <1>2, <1>3 DEF AcquireScope

LEMMA ReleaseKeepsInv ==
  ASSUME LeaseInv, NEW w \in Owner, NEW P \in SUBSET Path, ReleasePaths(w, P)
  PROVE  LeaseInv'
<1>1. \A l \in OwnedBy(w) : l \in lease /\ l \in Lease /\ l.owner = w
  BY DEF LeaseInv, LeaseTypeOK, OwnedBy
<1>2. \A m \in Shrunk(w, P) :
        /\ m.owner = w /\ m.paths # {} /\ m \in Lease
        /\ \E l \in OwnedBy(w) : m.paths = l.paths \ P
                                 /\ m = [owner |-> w, paths |-> l.paths \ P]
  BY <1>1 DEF Shrunk, Lease
<1>3. \A m, n \in Shrunk(w, P) : m = n
  BY <1>1, <1>2 DEF LeaseInv, OneLeasePerOwner
<1>4. \A m \in Shrunk(w, P), l \in lease \ OwnedBy(w) :
        \A p \in m.paths, q \in l.paths : ~Within(p, q) /\ ~Within(q, p)
  BY <1>1, <1>2 DEF LeaseInv, LeasesExclusive, OwnedBy
<1> QED
  BY <1>2, <1>3, <1>4, ReplaceOwn DEF ReleasePaths

LEMMA LeaseNextInv ==
  ASSUME LeaseInv, [LeaseNext]_lease
  PROVE  LeaseInv'
<1>1. ASSUME NEW w \in Owner, NEW P \in SUBSET Path, AcquireScope(w, P)
      PROVE  LeaseInv'
  BY <1>1, AcquireKeepsInv
<1>2. ASSUME NEW w \in Owner, NEW P \in SUBSET Path, ReleasePaths(w, P)
      PROVE  LeaseInv'
  BY <1>2, ReleaseKeepsInv
<1>3. CASE lease' \subseteq lease
  BY <1>3, DropLeases
<1> QED
  BY <1>1, <1>2, <1>3 DEF LeaseNext, ReleaseOwner, ReleaseLease, LeaseExpires

\* Leases on paths stay apart, one for an owner.
THEOREM LeaseInvariant == LeaseSpec => []LeaseInv
<1>1. LeaseInit => LeaseInv
  BY DEF LeaseInit, LeaseInv, LeaseTypeOK, LeasesExclusive, OneLeasePerOwner
<1> QED
  BY <1>1, LeaseNextInv, PTL DEF LeaseSpec

\* No two owners ever hold conflicting paths, by equality or containment.
THEOREM ExclusionTheorem == LeaseSpec => []LeasesExclusive
BY LeaseInvariant, PTL DEF LeaseInv

\* No owner has two leases, and no lease is empty.
THEOREM OneLeaseTheorem == LeaseSpec => []OneLeasePerOwner
BY LeaseInvariant, PTL DEF LeaseInv
=============================================================================
