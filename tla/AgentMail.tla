------------------------------ MODULE AgentMail ------------------------------
(***************************************************************************)
(* The mailbox of a session (engine/agent_message_store.py) and delivery   *)
(* into transcripts (engine/agent_mailbox.py), over the attempts of        *)
(* AgentRuns: an agent hears its mail while it executes, its parent        *)
(* conversation at any time, and settling an attempt sends the parent a    *)
(* completion.                                                             *)
(*                                                                         *)
(* A transcript is the sequence of the mail in it, by position in the      *)
(* mailbox.  A delivery claims rows, records them (hands those whose       *)
(* identity is not known yet to the writer, and flushes) and acknowledges  *)
(* them; the delivery lease is held from the first to the last of these.   *)
(*                                                                         *)
(* Each process has one transcript writer.  What it could not append it    *)
(* keeps, and tries again with the next flush of any transcript, whatever  *)
(* became of the delivery, the attempt and the session meanwhile.          *)
(*                                                                         *)
(* A write of several rows, with the check against the file that goes      *)
(* before a repeated one, is one step: within a process _disk_lock covers  *)
(* it.  A flush that takes too long counts as one that failed.             *)
(***************************************************************************)
EXTENDS AgentRuns, Order, SequencesExt

CONSTANTS
  Parent,       \* the recipient that is the conversation itself, and its process
  BatchLimit,   \* how many rows one delivery claims
  BoxLimit,     \* how many undelivered rows a recipient may have
  MaxSent       \* bound on the rows of the mailbox

ASSUME ParentAssumption == Parent \notin Agent \cup Call
ASSUME BoxAssumption    == BatchLimit \in Nat \ {0} /\ BoxLimit \in Nat /\ MaxSent \in Nat

VARIABLES
  mailbox,   \* the table mailbox, in the order of its key
  disk,      \* the mail in each transcript
  left,      \* what each process keeps for each transcript after a failed append
  known,     \* the mail a recipient's process takes for recorded
  batch      \* the rows a delivery holds, and how far it is

mailVars == <<mailbox, disk, left, known, batch>>
allVars  == <<runVars, mailVars>>

Recipient == Agent \cup {Parent}
Writer    == Call \cup {Parent}
Row       == Nat \ {0}
NoBatch   == [step |-> "none", rows |-> {}]
Nothing   == [r \in Recipient |-> <<>>]
Undelivered(r) ==
  {i \in 1..Len(mailbox) : mailbox[i].to = r /\ mailbox[i].state \in {"queued", "delivering"}}
Lowest(n, S) == {i \in S : Cardinality({j \in S : j < i}) < n}

\* The process in which a recipient is.
Hosts(w, r) == IF r = Parent THEN w = Parent ELSE w \in Call /\ Executes(w, r)

MailTypeOK ==
  /\ RunsTypeOK
  /\ mailbox \in Seq([to : Recipient, state : {"queued", "delivering", "delivered", "cancelled"}])
  /\ disk \in [Recipient -> Seq(Row)]
  /\ left \in [Writer -> [Recipient -> Seq(Row)]]
  /\ known \in [Recipient -> SUBSET Row]
  /\ batch \in [Recipient -> [step : {"none", "claimed", "recorded"}, rows : SUBSET Nat]]
  /\ \A r \in Recipient : batch[r] # NoBatch => \E w \in Writer : Hosts(w, r)

MailInit ==
  /\ RunsInit
  /\ mailbox = <<>>
  /\ disk = Nothing
  /\ left = [w \in Writer |-> Nothing]
  /\ known = [r \in Recipient |-> {}]
  /\ batch = [r \in Recipient |-> NoBatch]

SetState(S, s) ==
  mailbox' = [i \in 1..Len(mailbox) |->
    IF i \in S THEN [mailbox[i] EXCEPT !.state = s] ELSE mailbox[i]]

\* send: to the parent or to an agent that has a row.
Send(r) ==
  /\ ~closed
  /\ r \in Agent => agents[r].state # "absent"
  /\ Cardinality(Undelivered(r)) < BoxLimit
  /\ Len(mailbox) < MaxSent
  /\ mailbox' = Append(mailbox, [to |-> r, state |-> "queued"])
  /\ UNCHANGED <<runVars, disk, left, known, batch>>

\* (Mutant of RemoveMessage: a row that is being delivered is withdrawn too.)
RemoveMessage_Claimed(i) ==
  /\ i \in 1..Len(mailbox) /\ mailbox[i].state \in {"queued", "delivering"}
  /\ SetState({i}, "cancelled")
  /\ UNCHANGED <<runVars, disk, left, known, batch>>

\* remove_message
RemoveMessage(i) ==
  /\ i \in 1..Len(mailbox) /\ mailbox[i].state = "queued"
  /\ SetState({i}, "cancelled")
  /\ UNCHANGED <<runVars, disk, left, known, batch>>

\* _delivery_owner: the parent always, an agent for its current active attempt.
Owner(r) == ~closed /\ (r \in Agent => \E c \in Call : Executes(c, r) /\ Runs(r, own[c]))

\* (Mutant of Claim: rows claimed before a crash are not replayed.)
Claim_QueuedOnly(r) ==
  /\ batch[r] = NoBatch
  /\ Owner(r)
  /\ LET rows == Lowest(BatchLimit, {i \in Undelivered(r) : mailbox[i].state = "queued"})
     IN /\ rows # {}
        /\ SetState(rows, "delivering")
        /\ batch' = [batch EXCEPT ![r] = [step |-> "claimed", rows |-> rows]]
  /\ UNCHANGED <<runVars, disk, left, known>>

\* deliver_sync takes the delivery lease and claim_messages the oldest rows,
\* those of a delivery that did not end included.
Claim(r) ==
  /\ batch[r] = NoBatch
  /\ Owner(r)
  /\ LET rows == Lowest(BatchLimit, Undelivered(r))
     IN /\ rows # {}
        /\ SetState(rows, "delivering")
        /\ batch' = [batch EXCEPT ![r] = [step |-> "claimed", rows |-> rows]]
  /\ UNCHANGED <<runVars, disk, left, known>>

\* (Mutant of Fresh: rows are recorded although their identity is known.)
Fresh_All(r) == batch[r].rows

\* pending_messages: the rows of the batch that are not known.  What the
\* conversation in memory has is always known.
Fresh(r) == batch[r].rows \ known[r]

\* What the writer holds with them, in the order it was handed over.  One that
\* it keeps already is dropped when it is tried again (reconcile_retry).
Queue(w, r) == left[w][r] \o InOrder(Fresh(r) \ ToSet(left[w][r]))

\* (Mutant of Appends: the writer tries again without looking at the file.)
Appends_Blind(w, r, rows) == rows

\* _write_batch: rows of a transcript whose last append failed are looked up in
\* the file first, others are not.
Appends(w, r, rows) ==
  IF left[w][r] = <<>> THEN rows ELSE Without(rows, ToSet(disk[r]))

\* (Mutant of Record: a flush that failed is not noticed.)
Record_AnyFlush(w, r) ==
  /\ batch[r].step = "claimed" /\ Hosts(w, r)
  /\ known' = [known EXCEPT ![r] = @ \cup batch[r].rows]
  /\ LET rows == Appends(w, r, Queue(w, r))
     IN \/ /\ disk' = [disk EXCEPT ![r] = @ \o rows]
           /\ left' = [left EXCEPT ![w][r] = <<>>]
           /\ UNCHANGED faults
        \/ /\ Fault
           /\ left' = [left EXCEPT ![w][r] = Queue(w, r)]
           /\ UNCHANGED disk
  /\ batch' = [batch EXCEPT ![r].step = "recorded"]
  /\ UNCHANGED <<agents, attempts, closed, lease, pc, job, todo, own, mailbox>>

\* record_transcript_sync, flush_transcript.  The append may fail after some
\* rows; that is an error here, and the delivery ends, but the rows stay known,
\* and with the writer.
Record(w, r) ==
  /\ batch[r].step = "claimed" /\ Hosts(w, r)
  /\ known' = [known EXCEPT ![r] = @ \cup batch[r].rows]
  /\ LET rows == Appends(w, r, Queue(w, r))
     IN \/ /\ disk' = [disk EXCEPT ![r] = @ \o rows]
           /\ left' = [left EXCEPT ![w][r] = <<>>]
           /\ batch' = [batch EXCEPT ![r].step = "recorded"]
           /\ UNCHANGED faults
        \/ /\ Fault
           /\ \E n \in 0..Len(rows) : disk' = [disk EXCEPT ![r] = @ \o SubSeq(rows, 1, n)]
           /\ left' = [left EXCEPT ![w][r] = Queue(w, r)]
           /\ batch' = [batch EXCEPT ![r] = NoBatch]
  /\ UNCHANGED <<agents, attempts, closed, lease, pc, job, todo, own, mailbox>>

\* The process appends or flushes any transcript, or ends in an orderly way: what
\* the writer kept is tried again.  It may fail again after some rows.
CatchUp(w, r) ==
  /\ left[w][r] # <<>>
  /\ LET rows == Appends(w, r, left[w][r])
     IN \/ /\ disk' = [disk EXCEPT ![r] = @ \o rows]
           /\ left' = [left EXCEPT ![w][r] = <<>>]
        \/ /\ \E n \in 1..Len(rows) : disk' = [disk EXCEPT ![r] = @ \o SubSeq(rows, 1, n)]
           /\ UNCHANGED left
  /\ UNCHANGED <<runVars, mailbox, known, batch>>

\* acknowledge, and the delivery lease is released; or the transaction fails.
Acknowledge(r) ==
  /\ batch[r].step = "recorded"
  /\ \/ /\ Owner(r)
        /\ SetState(batch[r].rows, "delivered")
        /\ UNCHANGED faults
     \/ Fault /\ UNCHANGED mailbox
  /\ batch' = [batch EXCEPT ![r] = NoBatch]
  /\ UNCHANGED <<agents, attempts, closed, lease, pc, job, todo, own, disk, left, known>>

\* A conversation is read from its transcript.  What is there is known; what the
\* writer of this very process keeps is not.
Hydrate(r) == known' = [known EXCEPT ![r] = ToSet(disk[r])]

\* The pool drops the idle engine of the conversation, then the history it put
\* aside, and builds both again from the file.
ParentReloads ==
  /\ batch[Parent] = NoBatch
  /\ Hydrate(Parent)
  /\ UNCHANGED <<runVars, mailbox, disk, left, batch>>

\* The process of the parent conversation dies, and its writer with it.
ParentDies ==
  /\ Fault
  /\ Hydrate(Parent)
  /\ left' = [left EXCEPT ![Parent] = Nothing]
  /\ batch' = [batch EXCEPT ![Parent] = NoBatch]
  /\ UNCHANGED <<agents, attempts, closed, lease, pc, job, todo, own, mailbox, disk>>

\* Settling an attempt sends a completion in the same transaction; completions
\* are exempt from BoxLimit.
Completion(a) ==
  IF agents'[a].state = agents[a].state THEN <<>>
  ELSE <<[to |-> Parent, state |-> "queued"]>>

Settlement(c, a) ==
  /\ Interrupt(c, a) \/ (batch[a] = NoBatch /\ Finish(c, a))
  /\ mailbox' = mailbox \o Completion(a)
  /\ UNCHANGED <<disk, left, known, batch>>

\* An admitted execution hydrates its conversation from the transcript.
Admission(c, a) ==
  /\ Admit(c, a)
  /\ IF pc'[c] = "run" THEN Hydrate(a) ELSE UNCHANGED known
  /\ UNCHANGED <<mailbox, disk, left, batch>>

\* (Mutant of Deletion: without the delivery leases of deletion_guard.)
Deletion_Unguarded(c) ==
  /\ Drop(c)
  /\ mailbox' = IF closed' THEN <<>> ELSE mailbox
  /\ disk' = IF closed' /\ ~closed THEN Nothing ELSE disk
  /\ UNCHANGED <<left, known, batch>>

\* drop_session holds every delivery lease while it deletes; delete_session then
\* removes the transcripts, but what the writers keep stays with them.  It is
\* done once: the archive marker it asks for goes with the rest.
Deletion(c) ==
  /\ Drop(c)
  /\ IF closed' /\ ~closed
     THEN /\ \A r \in Recipient : batch[r] = NoBatch
          /\ mailbox' = <<>>
          /\ disk' = Nothing
     ELSE UNCHANGED <<mailbox, disk>>
  /\ UNCHANGED <<left, known, batch>>

\* (Mutant of Death: the delivery goes on without its execution.)
Death_Delivers(c) ==
  /\ Die(c)
  /\ left' = [left EXCEPT ![c] = Nothing]
  /\ UNCHANGED <<mailbox, disk, known, batch>>

\* The writer of the process dies with it.
Death(c) ==
  /\ Die(c)
  /\ batch' = [r \in Recipient |-> IF r \in Agent /\ Executes(c, r) THEN NoBatch ELSE batch[r]]
  /\ left' = [left EXCEPT ![c] = Nothing]
  /\ UNCHANGED <<mailbox, disk, known>>

Elsewhere(c) ==
  /\ Contend(c) \/ Acquire(c) \/ Return(c) \/ Release(c) \/ \E a \in Agent : Look(c, a)
  /\ UNCHANGED mailVars

RunStep(c) ==
  Elsewhere(c) \/ Deletion(c) \/ \E a \in Agent : Settlement(c, a) \/ Admission(c, a)

Deliver(r) == Claim(r) \/ (\E w \in Writer : Record(w, r)) \/ Acknowledge(r)

MailNext ==
  \/ \E c \in Call : (Begin(c) /\ UNCHANGED mailVars) \/ RunStep(c) \/ Death(c)
  \/ \E r \in Recipient : Send(r) \/ Deliver(r) \/ \E w \in Writer : CatchUp(w, r)
  \/ \E i \in 1..MaxSent : RemoveMessage(i)
  \/ ParentReloads \/ ParentDies

MailSpec == MailInit /\ [][MailNext]_allVars

\* The parent conversation comes back to its request boundary.
FairMailSpec == MailSpec /\ WF_allVars(Deliver(Parent))

-----------------------------------------------------------------------------
Kept(r) == UNION {ToSet(left[w][r]) : w \in Writer}

\* Messages are heard in order, and again only when they came behind the back of
\* a delivery that failed (strays: on disk and not known to be); a withdrawal that
\* reported success is one; a deleted session hears nothing but what a writer keeps
\* from before (owed).  Strays and what is owed are what the code does against its
\* own "each id once" and "no longer on disk": this says how far that goes.
Promise == INSTANCE MailPromise WITH
  sent      <- [i \in 1..Len(mailbox) |-> mailbox[i].to],
  withdrawn <- {i \in 1..Len(mailbox) : mailbox[i].state = "cancelled"},
  acked     <- {i \in 1..Len(mailbox) : mailbox[i].state = "delivered"},
  heard     <- disk,
  strays    <- [r \in Recipient |-> IF closed THEN {} ELSE ToSet(disk[r]) \ known[r]],
  over      <- closed,
  owed      <- [r \in Recipient |-> IF closed THEN Kept(r) \ ToSet(disk[r]) ELSE {}]

KeepsPromise == Promise!PromiseSpec

\* "Acknowledgement means recorded in the receiving transcript", whatever fails.
AckedIsDurable ==
  \A i \in 1..Len(mailbox) :
    mailbox[i].state = "delivered" => i \in ToSet(disk[mailbox[i].to])

\* What the parent was sent, completions included, it hears, unless it is
\* withdrawn or the session is deleted.
ParentHears ==
  \A i \in 1..MaxSent + Cardinality(Attempt) :
    i \in Promise!Waiting(Parent) ~> i \notin Promise!Waiting(Parent)
=============================================================================
