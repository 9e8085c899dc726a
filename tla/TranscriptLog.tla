--------------------------- MODULE TranscriptLog ----------------------------
(***************************************************************************)
(* What session/record_transcript.py promises: the rows accepted for a     *)
(* transcript are appended to it in the order they were accepted, each of  *)
(* them once, whatever fails in between; a flush that succeeds certifies   *)
(* rows that are on disk; and only rows that no flush has certified may be *)
(* forgotten, by a restart.                                                *)
(***************************************************************************)
EXTENDS Naturals, Sequences, SequencesExt

CONSTANTS
  Path,  \* transcripts
  Row    \* rows, each with an identity of its own

VARIABLES
  accepted,  \* the rows of each transcript, in the order they were accepted
  written,   \* how many of them are on disk
  certified  \* the rows that a successful flush has answered for

logVars == <<accepted, written, certified>>

OnDisk(p) == {accepted[p][i] : i \in 1..written[p]}

LogInit ==
  /\ accepted = [p \in Path |-> <<>>] /\ written = [p \in Path |-> 0]
  /\ certified = {}

Accept(p, r) ==
  /\ r \notin ToSet(accepted[p])
  /\ accepted' = [accepted EXCEPT ![p] = Append(@, r)]
  /\ UNCHANGED <<written, certified>>

Write(p) ==
  /\ \E n \in written[p]..Len(accepted[p]) : written' = [written EXCEPT ![p] = n]
  /\ UNCHANGED <<accepted, certified>>

Certify ==
  /\ \E S \in SUBSET UNION {OnDisk(p) : p \in Path} : certified' = certified \cup S
  /\ UNCHANGED <<accepted, written>>

Restart ==
  /\ accepted' = [p \in Path |-> SubSeq(accepted[p], 1, written[p])]
  /\ UNCHANGED <<written, certified>>

LogNext ==
  \/ \E p \in Path : Write(p) \/ \E r \in Row : Accept(p, r)
  \/ Certify \/ Restart

LogSpec == LogInit /\ [][LogNext]_logVars
=============================================================================
