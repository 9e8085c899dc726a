----------------------------- MODULE Publication -----------------------------
(***************************************************************************)
(* Publishing the work of a delegated agent to the checkout it started     *)
(* from: engine/agent_workspaces.py (prepare, collect, publish),           *)
(* engine/agent_artifact_state.py (reconcile), tools/agent_control_tool.py *)
(* (agent_apply).  The files are written one after the other; a journal    *)
(* written before the first and after the last says what a crash left.     *)
(*                                                                         *)
(* One agent and its worktree.  The agent lease keeps publication,         *)
(* resumption and recovery apart; the workspace and path locks keep the    *)
(* users of XEYO off the files being published (editors outside XEYO are   *)
(* excluded by the module's own docstring).  A file has a content, its     *)
(* absence being one; modes are left out.  A step is one file operation.   *)
(* The copies of the artifact in artifact.json and in the agents table are *)
(* one here: publish and reconcile consult the journal besides.            *)
(***************************************************************************)
EXTENDS Naturals

CONSTANTS
  File,        \* the files of the repository
  Content,     \* what a file can contain, its absence included
  Checkout,    \* what the files contain at first
  MaxHead,     \* bound on the heads the agent collects
  MaxEdits,    \* bound on the edits of users
  MaxFaults    \* bound on crashes and failing file operations

ASSUME CheckoutAssumption == Checkout \in [File -> Content]
ASSUME CountAssumption == MaxHead \in Nat /\ MaxEdits \in Nat /\ MaxFaults \in Nat

VARIABLES
  target,    \* the source checkout
  base,      \* the content at the artifact's base commit
  expected,  \* base_hashes: the content a file must have to be replaced
  after,     \* the content of each file at the artifact's head
  head,      \* the head, numbered from 1, the base of the first attempt
  applied,   \* applied_head; 0 is none
  phase,     \* the agent "works", or its last attempt is "completed" or not
  dirty,     \* the worktree has changes that were never collected
  journal,   \* publication.json
  pub,       \* the publication under way
  blurred,   \* the hashes were taken of a worktree with new work in it
  edits, faults

artifact == <<base, expected, after, head, applied, blurred>>
agent    == <<phase, dirty>>
pubVars  == <<target, artifact, agent, journal, pub, edits, faults>>

Changed == {f \in File : base[f] # after[f]}
Idle    == [step |-> "idle", left |-> {}, undo |-> {}, recovering |-> FALSE]

PublicationTypeOK ==
  /\ target \in [File -> Content] /\ base \in [File -> Content]
  /\ expected \in [File -> Content] /\ after \in [File -> Content]
  /\ head \in Nat \ {0} /\ applied \in {0, head}
  /\ phase \in {"works", "completed", "interrupted"} /\ dirty \in BOOLEAN
  /\ journal \in [state : {"none", "applying", "rolled_back", "applied"}, head : Nat,
                  before : [File -> Content]]
  /\ pub \in [step : {"idle", "write", "undo", "receipt"}, left : SUBSET File,
              undo : SUBSET File, recovering : BOOLEAN]
  /\ blurred \in BOOLEAN /\ edits \in Nat /\ faults \in Nat

PublicationInit ==
  /\ target = Checkout
  /\ base = target /\ expected = target /\ after = target
  /\ head = 1 /\ applied = 0
  /\ phase = "works" /\ dirty = FALSE
  /\ journal = [state |-> "none", head |-> 0, before |-> target]
  /\ pub = Idle
  /\ blurred = FALSE /\ edits = 0 /\ faults = 0

Fault == faults < MaxFaults /\ faults' = faults + 1

Applying == journal.state = "applying" /\ journal.head = head
Applied  == journal.state = "applied"  /\ journal.head = head

\* collect: the worktree becomes the next head.
Collected ==
  /\ head < MaxHead
  /\ after' \in [File -> Content]
  /\ head' = head + 1
  /\ dirty' = FALSE

\* The execution ends and its work is collected.
Collect ==
  /\ phase = "works"
  /\ Collected
  /\ phase' \in {"completed", "interrupted"}
  /\ UNCHANGED <<target, base, expected, applied, blurred, journal, pub, edits, faults>>

\* (Mutant of Prepared: the receipt of the earlier head is kept.)
Prepared_KeepsReceipt(tree) ==
  IF applied = head \/ Applied
  THEN /\ base' = after /\ expected' = tree /\ blurred' = (tree # after)
       /\ UNCHANGED applied
  ELSE UNCHANGED <<base, expected, applied, blurred>>

\* (Mutant of Prepared: the hashes are those of the first base.)
Prepared_OldHashes(tree) ==
  IF applied = head \/ Applied
  THEN base' = after /\ applied' = 0 /\ blurred' = (tree # after) /\ UNCHANGED expected
  ELSE UNCHANGED <<base, expected, applied, blurred>>

\* prepare: after a publication the head is the new base, and the hashes are
\* those of the worktree, which contains tree.
Prepared(tree) ==
  IF applied = head \/ Applied
  THEN base' = after /\ expected' = tree /\ applied' = 0 /\ blurred' = (tree # after)
  ELSE UNCHANGED <<base, expected, applied, blurred>>

\* The owner has died, and whoever takes its lease prepares and collects for it
\* (recover_owner); or that fails, as collecting in the execution may.
Recover ==
  /\ phase = "works"
  /\ \/ Collected /\ Prepared(after') /\ UNCHANGED faults
     \/ Fault /\ dirty' = TRUE /\ UNCHANGED artifact
  /\ phase' = "interrupted"
  /\ UNCHANGED <<target, journal, pub, edits>>

\* (Mutant of Resume: reconcile does not look at an unfinished publication.)
Resume_Anyway ==
  /\ phase # "works" /\ pub = Idle
  /\ phase' = "works"
  /\ \E tree \in [File -> Content] : (dirty \/ tree = after) /\ Prepared(tree)
  /\ UNCHANGED <<target, after, head, dirty, journal, pub, edits, faults>>

\* The agent is started again: reconcile refuses while a publication is
\* unfinished.
Resume ==
  /\ phase # "works" /\ pub = Idle
  /\ journal.state # "applying"
  /\ phase' = "works"
  /\ \E tree \in [File -> Content] : (dirty \/ tree = after) /\ Prepared(tree)
  /\ UNCHANGED <<target, after, head, dirty, journal, pub, edits, faults>>

\* agent_apply of a head whose publication was finished without a receipt.
NoteApplied ==
  /\ phase = "completed" /\ pub = Idle
  /\ applied # head /\ Applied
  /\ applied' = head
  /\ UNCHANGED <<target, base, expected, after, head, blurred, agent, journal, pub, edits, faults>>

\* (Mutant of Unchanged: a recovering publication accepts any content.)
Unchanged_WhenRecovering(f) == target[f] = expected[f] \/ Applying

\* The file is as the work expects it, or as a publication cut short left it.
Unchanged(f) == target[f] = expected[f] \/ (Applying /\ target[f] = after[f])

\* (Mutant of Begin: what the files were is read again when recovering.)
Begin_ReadAgain ==
  /\ phase = "completed" /\ pub = Idle
  /\ applied # head /\ ~Applied
  /\ journal.state = "applying" => journal.head = head
  /\ \A f \in Changed : Unchanged(f)
  /\ journal' = [state |-> "applying", head |-> head, before |-> target]
  /\ pub' = [step |-> "write", left |-> Changed, undo |-> {}, recovering |-> Applying]
  /\ UNCHANGED <<target, artifact, agent, edits, faults>>

\* (Mutant of Begin: an unfinished publication is in the way of every other.)
Begin_NoRecovery ==
  /\ phase = "completed" /\ pub = Idle
  /\ applied # head /\ ~Applied
  /\ journal.state # "applying"
  /\ \A f \in Changed : Unchanged(f)
  /\ journal' = [state |-> "applying", head |-> head, before |-> target]
  /\ pub' = [step |-> "write", left |-> Changed, undo |-> {}, recovering |-> FALSE]
  /\ UNCHANGED <<target, artifact, agent, edits, faults>>

\* agent_apply: the locks, the conflict check, and the journal.
Begin ==
  /\ phase = "completed" /\ pub = Idle
  /\ applied # head /\ ~Applied
  /\ journal.state = "applying" => journal.head = head
  /\ \A f \in Changed : Unchanged(f)
  /\ journal' = [state |-> "applying", head |-> head,
                 before |-> IF Applying THEN journal.before ELSE target]
  /\ pub' = [step |-> "write", left |-> Changed, undo |-> {}, recovering |-> Applying]
  /\ UNCHANGED <<target, artifact, agent, edits, faults>>

\* A failure after the first write starts the rollback: of the files touched, or
\* of all when an earlier publication may have touched them.
Rollback(touched) ==
  pub' = [step |-> "undo", left |-> {},
          undo |-> IF pub.recovering THEN Changed ELSE touched,
          recovering |-> pub.recovering]

Write(f) ==
  /\ pub.step = "write" /\ f \in pub.left
  /\ \/ /\ target' = [target EXCEPT ![f] = after[f]]
        /\ pub' = [pub EXCEPT !.left = @ \ {f}]
        /\ UNCHANGED faults
     \/ /\ Fault
        /\ target' \in {target, [target EXCEPT ![f] = after[f]]}
        /\ Rollback((Changed \ pub.left) \cup {f})
  /\ UNCHANGED <<artifact, agent, journal, edits>>

\* Publishing is over, done or not; the locks are released.
Stop == pub' = Idle

\* A file restored, or not: then the journal stays as it is.
Undo(f) ==
  /\ pub.step = "undo" /\ f \in pub.undo
  /\ \/ /\ target' = [target EXCEPT ![f] = journal.before[f]]
        /\ pub' = [pub EXCEPT !.undo = @ \ {f}]
        /\ UNCHANGED faults
     \/ Fault /\ Stop /\ UNCHANGED target
  /\ UNCHANGED <<artifact, agent, journal, edits>>

\* (Mutant of RolledBack: the journal is closed before the files are restored.)
RolledBack_Early ==
  /\ pub.step = "undo"
  /\ \/ journal' = [journal EXCEPT !.state = "rolled_back"] /\ UNCHANGED faults
     \/ Fault /\ UNCHANGED journal
  /\ Stop
  /\ UNCHANGED <<target, artifact, agent, edits>>

RolledBack ==
  /\ pub.step = "undo" /\ pub.undo = {}
  /\ \/ journal' = [journal EXCEPT !.state = "rolled_back"] /\ UNCHANGED faults
     \/ Fault /\ UNCHANGED journal
  /\ Stop
  /\ UNCHANGED <<target, artifact, agent, edits>>

Commit ==
  /\ pub.step = "write" /\ pub.left = {}
  /\ \/ /\ journal' = [journal EXCEPT !.state = "applied"]
        /\ pub' = [pub EXCEPT !.step = "receipt"]
        /\ UNCHANGED faults
     \/ Fault /\ Stop /\ UNCHANGED journal
  /\ UNCHANGED <<target, artifact, agent, edits>>

\* artifact.json and the agents table take the receipt.
Receipt ==
  /\ pub.step = "receipt"
  /\ \/ applied' = head /\ UNCHANGED faults
     \/ Fault /\ UNCHANGED applied
  /\ Stop
  /\ UNCHANGED <<target, base, expected, after, head, blurred, agent, journal, edits>>

Crash ==
  /\ pub # Idle
  /\ Fault
  /\ Stop
  /\ UNCHANGED <<target, artifact, agent, journal, edits>>

\* A user of XEYO changes a file nobody is publishing.
EditFile(f) ==
  /\ edits < MaxEdits
  /\ pub = Idle \/ f \notin Changed
  /\ \E v \in Content \ {target[f]} : target' = [target EXCEPT ![f] = v]
  /\ edits' = edits + 1
  /\ UNCHANGED <<artifact, agent, journal, pub, faults>>

Publishing ==
  Begin \/ Commit \/ Receipt \/ RolledBack \/ \E f \in File : Write(f) \/ Undo(f)

PublicationNext ==
  \/ Collect \/ Recover \/ Resume \/ NoteApplied \/ Publishing \/ Crash
  \/ \E f \in File : EditFile(f)

PublicationSpec == PublicationInit /\ [][PublicationNext]_pubVars

\* A publication under way runs; one cut short is tried again.
FairPublicationSpec == PublicationSpec /\ WF_pubVars(Publishing)

-----------------------------------------------------------------------------
\* All or nothing, and never over an edit: the checkout without the files of an
\* unfinished publication changes as in AtomicPublication, where only users
\* change one file at a time (and each change of theirs is counted).
Visible == [f \in File |->
  IF Applying /\ f \in Changed /\ target[f] = after[f] THEN journal.before[f] ELSE target[f]]

Atomic == INSTANCE AtomicPublication
  WITH files <- Visible, changed <- Changed, before <- expected

PublishesAtomically == Atomic!AtomicSpec

\* What an unfinished publication is about does not change under it: the work
\* is complete, and its journal speaks of the present head and of what the work
\* expects.
UnfinishedIsPinned ==
  journal.state = "applying" =>
    /\ phase = "completed" /\ journal.head = head
    /\ \A f \in Changed : journal.before[f] = expected[f]

\* "Requires unchanged destination file versions", and no more: where no user
\* edits anything, complete work is published, is being published, or can be,
\* whatever crashed and was rolled back or recovered before: unless a recovery
\* or a resumption has taken the hashes of a worktree with new work in it.
OnlyEditsConflict ==
  edits = 0 /\ phase = "completed" =>
    \/ Applied \/ applied = head
    \/ \A f \in Changed : Unchanged(f)
    \/ blurred

Conflicted == \E f \in Changed : target[f] \notin {expected[f], after[f]}

\* A publication that began does not stay unfinished, whatever crashes, unless
\* somebody edited one of its files after a crash.
PublicationEnds ==
  journal.state = "applying" ~> journal.state # "applying" \/ Conflicted
=============================================================================
