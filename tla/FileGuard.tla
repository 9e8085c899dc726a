----------------------------- MODULE FileGuard -----------------------------
(***************************************************************************)
(* coord/locking.py: the lock file behind every read-change-write of the   *)
(* coordination store and behind the reconciler.  It is created with       *)
(* O_EXCL, carries the token of its creator, has no heartbeat, and is      *)
(* unlinked by a waiter once its mtime is older than the TTL.              *)
(*                                                                         *)
(* A step is one system call: stat, unlink, create, the read of the token  *)
(* on the way out, and the unlink that follows it.  A token is fresh for   *)
(* every entry; its process stands for it, because a process is inside     *)
(* only after creating the file anew.  Creating and writing the token are  *)
(* one step: nobody but the creator reads the token.  Time is abstracted   *)
(* to one bit, whether the file that is there is older than the TTL.       *)
(***************************************************************************)
EXTENDS Naturals

CONSTANTS
  Proc,         \* the processes that contend for one lock file
  NoFile,       \* there is no lock file
  MaxFaults,    \* bound on faults: deaths, failing reads and unlinks
  SlowSection   \* TRUE: a critical section may last longer than the TTL

ASSUME FileAssumption  == NoFile \notin [by : Proc, old : BOOLEAN]
ASSUME GuardAssumption == MaxFaults \in Nat /\ SlowSection \in BOOLEAN

VARIABLES
  file,     \* the lock file: who created it, and whether it is past the TTL
  pc,       \* where each process is
  robbed,   \* processes inside whose own file another process has unlinked
  faults    \* faults so far

guardVars == <<file, pc, robbed, faults>>

LockFile == [by : Proc, old : BOOLEAN]

\* Inside: from the creation of the file to the end of __exit__.
Inside == {"in", "check", "remove"}

GuardTypeOK ==
  /\ file \in LockFile \cup {NoFile}
  /\ pc \in [Proc -> {"out", "stat", "unlink", "create", "dead"} \cup Inside]
  /\ robbed \subseteq {p \in Proc : pc[p] \in Inside}
  /\ faults \in 0..MaxFaults

GuardInit ==
  /\ file = NoFile
  /\ pc = [p \in Proc |-> "out"]
  /\ robbed = {}
  /\ faults = 0

Goto(p, l) == pc' = [pc EXCEPT ![p] = l]
Fault      == faults < MaxFaults /\ faults' = faults + 1

\* The file is of a process that is inside and relies on it.
Relied == IF file = NoFile THEN {} ELSE {q \in {file.by} : pc[q] \in Inside}

Enter(p) ==
  /\ pc[p] = "out"
  /\ Goto(p, "stat")
  /\ UNCHANGED <<file, robbed, faults>>

\* (Mutant of Stat: nothing is ever stale.)
Stat_NeverStale(p) ==
  /\ pc[p] = "stat"
  /\ Goto(p, "create")
  /\ UNCHANGED <<file, robbed, faults>>

\* (Mutant of Stat: a file is stale as soon as it is there.)
Stat_AlwaysStale(p) ==
  /\ pc[p] = "stat"
  /\ Goto(p, IF file # NoFile THEN "unlink" ELSE "create")
  /\ UNCHANGED <<file, robbed, faults>>

\* _stale
Stat(p) ==
  /\ pc[p] = "stat"
  /\ Goto(p, IF file # NoFile /\ file.old THEN "unlink" ELSE "create")
  /\ UNCHANGED <<file, robbed, faults>>

\* Whatever file is there now goes, not the one that was looked at.
Unlink(p) ==
  /\ pc[p] = "unlink"
  /\ Goto(p, "create")
  /\ \/ file' = NoFile /\ robbed' = robbed \cup Relied /\ UNCHANGED faults
     \/ Fault /\ UNCHANGED <<file, robbed>>

\* (Mutant of Create: the file is opened without O_EXCL.)
Create_NotExclusive(p) ==
  /\ pc[p] = "create"
  /\ file' = [by |-> p, old |-> FALSE]
  /\ Goto(p, "in")
  /\ UNCHANGED <<robbed, faults>>

\* Any error of open counts as "not acquired"; so does a file that exists.
\* The waiter then tries again, or gives up at its deadline.
Create(p) ==
  /\ pc[p] = "create"
  /\ \/ /\ file = NoFile
        /\ file' = [by |-> p, old |-> FALSE]
        /\ Goto(p, "in")
     \/ /\ Goto(p, "stat") \/ Goto(p, "out")
        /\ UNCHANGED file
  /\ UNCHANGED <<robbed, faults>>

Leave(p) ==
  /\ pc[p] = "in"
  /\ Goto(p, "check")
  /\ UNCHANGED <<file, robbed, faults>>

\* __exit__ goes on to unlink only a file that carries its own token; a file
\* it cannot read stays behind.
Check(p) ==
  /\ pc[p] = "check"
  /\ \/ /\ IF file # NoFile /\ file.by = p
           THEN Goto(p, "remove") /\ UNCHANGED robbed
           ELSE Goto(p, "out") /\ robbed' = robbed \ {p}
        /\ UNCHANGED faults
     \/ Fault /\ Goto(p, "out") /\ robbed' = robbed \ {p}
  /\ UNCHANGED file

Remove(p) ==
  /\ pc[p] = "remove"
  /\ Goto(p, "out")
  /\ \/ /\ file' = NoFile
        /\ robbed' = (robbed \cup Relied) \ {p}
        /\ UNCHANGED faults
     \/ Fault /\ robbed' = robbed \ {p} /\ UNCHANGED file

\* The process is killed; its file stays.
Die(p) ==
  /\ pc[p] # "dead"
  /\ Fault
  /\ Goto(p, "dead")
  /\ robbed' = robbed \ {p}
  /\ UNCHANGED file

\* The file reaches the TTL.
Age ==
  /\ file # NoFile
  /\ ~file.old
  /\ pc[file.by] \in Inside => SlowSection
  /\ file' = [file EXCEPT !.old = TRUE]
  /\ UNCHANGED <<pc, robbed, faults>>

Step(p) ==
  \/ Enter(p) \/ Stat(p) \/ Unlink(p) \/ Create(p)
  \/ Leave(p) \/ Check(p) \/ Remove(p)

GuardNext == Age \/ \E p \in Proc : Step(p) \/ Die(p)

GuardSpec == GuardInit /\ [][GuardNext]_guardVars

\* Every live process runs, and comes back to the lock (the run loop does, each
\* round); time passes.
FairGuardSpec ==
  GuardSpec /\ WF_guardVars(Age) /\ \A p \in Proc : WF_guardVars(Step(p))

-----------------------------------------------------------------------------
\* "One file, one holder": no two processes are in the critical section.
MutualExclusion ==
  \A p, q \in Proc : pc[p] = "in" /\ pc[q] = "in" => p = q

\* What the code does guarantee, whatever dies or fails: a process that is
\* inside has its own file there unless another process unlinked it, so two are
\* in the critical section together only after one of them lost its file.
HolderHasFile ==
  \A p \in Proc :
    pc[p] \in Inside /\ p \notin robbed => file # NoFile /\ file.by = p

\* While no file has been left behind by a death or a failed unlink, nobody is
\* robbed: the token comparison and the age test suffice, and sections much
\* shorter than the TTL exclude each other.
RobberyNeedsLeftover == ~SlowSection /\ faults = 0 => robbed = {} /\ MutualExclusion

\* A file left behind does not close the lock for ever.
LeftoverGoes == []<>(file = NoFile \/ pc[file.by] \in Inside)
=============================================================================
