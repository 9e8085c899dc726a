----------------------------- MODULE Transcript -----------------------------
(***************************************************************************)
(* session/record_transcript.py: rows of all transcripts of the process go *)
(* through one queue to one writer thread, which appends them batch by     *)
(* batch, a transcript at a time.  An append may fail after some rows, or  *)
(* in the middle of one; its rows wait in _failed, with whatever of their  *)
(* transcript comes behind them, until a submission or a flush asks again, *)
(* and are then compared with what the file already holds.  The process    *)
(* may die at any time, in the middle of an append too.                    *)
(*                                                                         *)
(* A collection of known identities is only replaced when nothing of its   *)
(* transcript is queued (it is filled from the file alone).  Rotation is   *)
(* left out: a transcript is the sequence of its files.  The queues are    *)
(* kept by transcript: all the code does with them, it does for some       *)
(* transcripts whole, in the order of their rows.                          *)
(***************************************************************************)
EXTENDS Order, SequencesExt

CONSTANTS
  Path,      \* transcripts
  Row,       \* rows, each with an identity of its own
  Of,        \* [Row -> Path]: the transcript of a row
  Flusher,   \* threads that flush
  MaxFaults  \* bound on failing appends and crashes

ASSUME OfAssumption    == Of \in [Row -> Path]
ASSUME FaultAssumption == MaxFaults \in Nat

VARIABLES
  file,      \* the complete rows of each transcript
  torn,      \* the transcripts that end in the middle of a row
  known,     \* _known_ids_cache: identities reserved
  pending,   \* _pending
  inflight,  \* _inflight, the writer's batch
  failed,    \* _failed
  retry,     \* _retry_paths
  todo,      \* transcripts of the batch that the writer has yet to append to
  broken,    \* transcripts of the batch whose append failed
  flush,     \* what each flush waits for: {} when there is none
  certified, \* rows that a flush has answered for
  faults     \* faults so far

queues  == <<pending, inflight, failed>>
disk    == <<file, torn>>
writer  == <<todo, broken>>
transcriptVars == <<file, torn, known, pending, inflight, failed, retry, todo, broken,
                    flush, certified, faults>>

RowsOf(p) == {r \in Row : Of[r] = p}
Nothing   == [p \in Path |-> <<>>]
Queue(p)  == failed[p] \o inflight[p] \o pending[p]
Queued    == UNION {ToSet(Queue(p)) : p \in Path}
Fault     == faults < MaxFaults /\ faults' = faults + 1

TranscriptTypeOK ==
  /\ \A q \in {file, pending, inflight, failed} :
       q \in [Path -> Seq(Row)] /\ \A p \in Path : q[p] \in Seq(RowsOf(p))
  /\ torn \subseteq Path /\ retry \subseteq Path
  /\ todo \subseteq Path /\ broken \subseteq Path
  /\ known \subseteq Row /\ certified \subseteq Row
  /\ flush \in [Flusher -> SUBSET Row]
  /\ faults \in 0..MaxFaults

TranscriptInit ==
  /\ file = Nothing /\ torn = {} /\ known = {}
  /\ pending = Nothing /\ inflight = Nothing /\ failed = Nothing
  /\ retry = {} /\ todo = {} /\ broken = {}
  /\ flush = [f \in Flusher |-> {}] /\ certified = {} /\ faults = 0

\* record_transcript and submit_async_append: what has failed goes first; a row
\* whose identity is known only brings that about.
Record(r) ==
  /\ r \notin known \/ failed # Nothing
  /\ known' = known \cup {r}
  /\ pending' = [p \in Path |-> failed[p] \o pending[p] \o
                    (IF p = Of[r] /\ r \notin known THEN <<r>> ELSE <<>>)]
  /\ failed' = Nothing
  /\ UNCHANGED <<disk, inflight, retry, writer, flush, certified, faults>>

\* The writer takes the whole queue.
TakeBatch ==
  /\ inflight = Nothing /\ pending # Nothing
  /\ inflight' = pending /\ pending' = Nothing
  /\ todo' = {p \in Path : pending[p] # <<>>} /\ broken' = {}
  /\ UNCHANGED <<disk, known, failed, retry, flush, certified, faults>>

\* (Mutant of Lines: a batch is not split by transcript.)
Lines_Unsplit(p) == FlattenSeq(SetToSeq({inflight[q] : q \in Path}))

\* (Mutant of Lines: a retry trusts that nothing of the failed append was written.)
Lines_All(p) == inflight[p]

\* reconcile_retry: only after a failure or before a torn end is the batch
\* compared with the file; the torn row is cut off then.
Lines(p) ==
  IF p \in retry \cup torn THEN Without(inflight[p], ToSet(file[p])) ELSE inflight[p]

\* _write_batch for one transcript: all of it, or a part and perhaps a piece of
\* a row, or all of it without the confirmation of fsync.
AppendBatch(p) ==
  /\ p \in todo /\ todo' = todo \ {p}
  /\ \/ /\ file' = [file EXCEPT ![p] = @ \o Lines(p)] /\ torn' = torn \ {p}
        /\ retry' = retry \ {p} /\ UNCHANGED <<broken, faults>>
     \/ /\ Fault
        /\ \E n \in 0..Len(Lines(p)) :
             /\ file' = [file EXCEPT ![p] = @ \o SubSeq(Lines(p), 1, n)]
             /\ torn' \in {torn \ {p}} \cup IF n < Len(Lines(p)) THEN {torn \cup {p}} ELSE {}
        /\ broken' = broken \cup {p} /\ UNCHANGED retry
  /\ UNCHANGED <<known, queues, flush, certified>>

\* (Mutant of EndBatch: rows behind a failed append are not held back.)
EndBatch_Overtake ==
  /\ inflight # Nothing /\ todo = {}
  /\ failed' = [p \in Path |-> IF p \in broken THEN failed[p] \o inflight[p] ELSE failed[p]]
  /\ retry' = retry \cup broken
  /\ inflight' = Nothing
  /\ UNCHANGED <<disk, known, pending, writer, flush, certified, faults>>

\* The rows of a failed transcript leave the batch, and the queue behind it.
EndBatch ==
  /\ inflight # Nothing /\ todo = {}
  /\ failed' = [p \in Path |-> IF p \in broken THEN Queue(p) ELSE failed[p]]
  /\ pending' = [p \in Path |-> IF p \in broken THEN <<>> ELSE pending[p]]
  /\ retry' = retry \cup broken
  /\ inflight' = Nothing
  /\ UNCHANGED <<disk, known, writer, flush, certified, faults>>

\* flush_pending_sync, for all transcripts, or flush_path, for one: what has
\* failed there is asked for once more.
Flush(f, S) ==
  /\ flush[f] = {} /\ flush' = [flush EXCEPT ![f] = {r \in Queued : Of[r] \in S}]
  /\ flush'[f] # {}
  /\ pending' = [p \in Path |-> IF p \in S THEN failed[p] \o pending[p] ELSE pending[p]]
  /\ failed' = [p \in Path |-> IF p \in S THEN <<>> ELSE failed[p]]
  /\ UNCHANGED <<disk, known, inflight, retry, writer, certified, faults>>

\* Its rows have left the queue: it certifies them unless one has failed again.
\* Or it runs out of time and certifies nothing.
Flushed(f) ==
  /\ flush[f] # {} /\ flush' = [flush EXCEPT ![f] = {}]
  /\ \/ /\ flush[f] \cap Queued = {}
        /\ certified' = certified \cup flush[f]
     \/ UNCHANGED certified
  /\ UNCHANGED <<disk, known, queues, retry, writer, faults>>

\* The next process reads the identities of the complete rows.
Crash ==
  /\ Fault
  /\ known' = UNION {ToSet(file[p]) : p \in Path}
  /\ pending' = Nothing /\ inflight' = Nothing /\ failed' = Nothing
  /\ retry' = {} /\ todo' = {} /\ broken' = {}
  /\ flush' = [f \in Flusher |-> {}]
  /\ UNCHANGED <<disk, certified>>

TranscriptNext ==
  \/ \E r \in Row : Record(r)
  \/ TakeBatch \/ (\E p \in Path : AppendBatch(p)) \/ EndBatch
  \/ \E f \in Flusher : Flushed(f) \/ \E S \in {Path} \cup {{p} : p \in Path} : Flush(f, S)
  \/ Crash

TranscriptSpec == TranscriptInit /\ [][TranscriptNext]_transcriptVars
-----------------------------------------------------------------------------
\* What has been accepted for a transcript: its rows, then those in the queue
\* that are not among them.
Accepted == [p \in Path |-> file[p] \o Without(Queue(p), ToSet(file[p]))]

Log == INSTANCE TranscriptLog WITH accepted <- Accepted,
                                   written <- [p \in Path |-> Len(file[p])]

\* The queue, its partial appends and their retries, keep the promise of the
\* log: in order, once, and certified only when on disk.
KeepsLog == Log!LogSpec
=============================================================================
