------------------------- MODULE AtomicPublication -------------------------
(***************************************************************************)
(* What publishing an agent's work promises: the files it changes appear   *)
(* in the checkout all at once, each over the content the work takes it to *)
(* have had.  Users edit the checkout meanwhile, one file at a time.       *)
(* Nothing here can fail or crash.                                         *)
(***************************************************************************)
EXTENDS Naturals

CONSTANTS File, Content

VARIABLES
  files,     \* the checkout
  changed,   \* the files the work changes
  before,    \* what the work takes the files to contain
  after,     \* what it makes of them
  edits      \* how often a user has edited the checkout

atomicVars == <<files, changed, before, after, edits>>

AtomicInit ==
  /\ files \in [File -> Content]
  /\ changed = {}
  /\ before = files
  /\ after = files
  /\ edits = 0

Edit ==
  /\ \E f \in File, v \in Content : files' = [files EXCEPT ![f] = v]
  /\ edits' = edits + 1
  /\ UNCHANGED <<changed, before, after>>

\* The agent works, or begins anew: the work is another one.
Work ==
  /\ changed' \in SUBSET File
  /\ before' \in [File -> Content] /\ after' \in [File -> Content]
  /\ UNCHANGED <<files, edits>>

Publish ==
  /\ \A f \in changed : files[f] = before[f]
  /\ files' = [f \in File |-> IF f \in changed THEN after[f] ELSE files[f]]
  /\ UNCHANGED <<changed, before, after, edits>>

AtomicNext == Edit \/ Work \/ Publish

AtomicSpec == AtomicInit /\ [][AtomicNext]_atomicVars
=============================================================================
