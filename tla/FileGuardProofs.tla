-------------------------- MODULE FileGuardProofs --------------------------
(***************************************************************************)
(* Proofs about FileGuard, for any number of processes and faults.         *)
(***************************************************************************)
EXTENDS FileGuard, TLAPS

\* Before the first fault, with short sections: the file is always that of a
\* process inside, never old, and so nobody is about to unlink it.
CleanBeforeFault ==
  ~SlowSection /\ faults = 0 =>
    /\ robbed = {}
    /\ file # NoFile => ~file.old /\ pc[file.by] \in Inside
    /\ \A p \in Proc : pc[p] # "unlink"

GuardInv == GuardTypeOK /\ HolderHasFile /\ CleanBeforeFault

LEMMA GuardInitInv == GuardInit => GuardInv
<1> USE FileAssumption, GuardAssumption
<1> QED
  BY DEF GuardInit, GuardInv, GuardTypeOK, HolderHasFile, CleanBeforeFault,
         Inside, LockFile

\* The type invariant, step by step.
LEMMA GuardStepType ==
  ASSUME GuardTypeOK, [GuardNext]_guardVars
  PROVE  GuardTypeOK'
<1> USE FileAssumption, GuardAssumption DEF GuardTypeOK, Inside, LockFile
<1>1. ASSUME NEW p \in Proc, Enter(p) \/ Stat(p) \/ Leave(p)
      PROVE  GuardTypeOK'
  BY <1>1 DEF Enter, Stat, Leave, Goto
<1>2. ASSUME NEW p \in Proc, Unlink(p) \/ Remove(p)
      PROVE  GuardTypeOK'
  <2>1. Relied \subseteq {q \in Proc : pc[q] \in Inside}
    BY DEF Relied
  <2> QED
    BY <1>2, <2>1 DEF Unlink, Remove, Goto, Fault
<1>3. ASSUME NEW p \in Proc, Create(p)
      PROVE  GuardTypeOK'
  <2>1. CASE /\ file = NoFile
             /\ file' = [by |-> p, old |-> FALSE]
             /\ Goto(p, "in")
    BY <1>3, <2>1 DEF Create, Goto
  <2>2. CASE /\ Goto(p, "stat") \/ Goto(p, "out")
             /\ UNCHANGED file
    BY <1>3, <2>2 DEF Create, Goto
  <2> QED
    BY <1>3, <2>1, <2>2 DEF Create
<1>4. ASSUME NEW p \in Proc, Check(p) \/ Die(p)
      PROVE  GuardTypeOK'
  BY <1>4 DEF Check, Die, Goto, Fault
<1>5. ASSUME Age PROVE GuardTypeOK'
  BY <1>5 DEF Age
<1>6. CASE UNCHANGED guardVars
  BY <1>6 DEF guardVars
<1> QED
  BY <1>1, <1>2, <1>3, <1>4, <1>5, <1>6 DEF GuardNext, Step

\* A process inside that was not robbed keeps its file: the only steps that take
\* a file away name its creator among the robbed, and O_EXCL replaces none.
LEMMA GuardStepHolder ==
  ASSUME GuardTypeOK, HolderHasFile, [GuardNext]_guardVars
  PROVE  HolderHasFile'
<1> USE FileAssumption, GuardAssumption DEF GuardTypeOK, HolderHasFile, Inside, LockFile
<1>1. ASSUME NEW p \in Proc, Enter(p) \/ Stat(p) \/ Leave(p)
      PROVE  HolderHasFile'
  BY <1>1 DEF Enter, Stat, Leave, Goto
<1>2. ASSUME NEW p \in Proc, Unlink(p) \/ Remove(p)
      PROVE  HolderHasFile'
  <2>1. ASSUME NEW q \in Proc, file # NoFile, file.by = q, pc[q] \in Inside
        PROVE  q \in Relied
    BY <2>1 DEF Relied
  <2> QED
    BY <1>2, <2>1 DEF Unlink, Remove, Goto, Fault
<1>3. ASSUME NEW p \in Proc, Create(p)
      PROVE  HolderHasFile'
  <2>1. CASE /\ file = NoFile
             /\ file' = [by |-> p, old |-> FALSE]
             /\ Goto(p, "in")
    <3>0. file' = [by |-> p, old |-> FALSE]
      BY <2>1
    <3>1. file' # NoFile
      <4>1. [by |-> p, old |-> FALSE] \in LockFile
        BY Zenon DEF LockFile
      <4> QED
        BY <3>0, <4>1, Zenon DEF LockFile
    <3>2. file'.by = p
      BY <3>0
    <3>3. \A q \in Proc : q # p /\ pc[q] \in Inside => q \in robbed
      BY <2>1
    <3> QED
      BY <1>3, <2>1, <3>1, <3>2, <3>3 DEF Create, Goto
  <2>2. CASE /\ Goto(p, "stat") \/ Goto(p, "out")
             /\ UNCHANGED file
    BY <1>3, <2>2 DEF Create, Goto
  <2> QED
    BY <1>3, <2>1, <2>2 DEF Create
<1>4. ASSUME NEW p \in Proc, Check(p) \/ Die(p)
      PROVE  HolderHasFile'
  BY <1>4 DEF Check, Die, Goto, Fault
<1>5. ASSUME Age PROVE HolderHasFile'
  BY <1>5 DEF Age
<1>6. CASE UNCHANGED guardVars
  BY <1>6 DEF guardVars
<1> QED
  BY <1>1, <1>2, <1>3, <1>4, <1>5, <1>6 DEF GuardNext, Step

LEMMA GuardStepClean ==
  ASSUME GuardInv, [GuardNext]_guardVars
  PROVE  CleanBeforeFault'
<1> USE FileAssumption, GuardAssumption
    DEF GuardInv, GuardTypeOK, HolderHasFile, CleanBeforeFault, Inside, LockFile
<1>1. ASSUME NEW p \in Proc, Enter(p) \/ Stat(p) \/ Leave(p)
      PROVE  CleanBeforeFault'
  BY <1>1 DEF Enter, Stat, Leave, Goto
<1>2. ASSUME NEW p \in Proc, Unlink(p)
      PROVE  CleanBeforeFault'
  BY <1>2 DEF Unlink, Goto, Fault
<1>3. ASSUME NEW p \in Proc, Remove(p)
      PROVE  CleanBeforeFault'
  <2>1. CASE faults = 0 /\ ~SlowSection
    <3>1. pc[p] \in Inside /\ p \notin robbed
      BY <1>3, <2>1 DEF Remove
    <3>2. Relied = {p}
      BY <3>1 DEF Relied
    <3> QED
      BY <1>3, <2>1, <3>2 DEF Remove, Goto, Fault
  <2>2. CASE ~(faults = 0 /\ ~SlowSection)
    BY <1>3, <2>2 DEF Remove, Goto, Fault
  <2> QED
    BY <2>1, <2>2
<1>4. ASSUME NEW p \in Proc, Create(p)
      PROVE  CleanBeforeFault'
  BY <1>4 DEF Create, Goto
<1>5. ASSUME NEW p \in Proc, Check(p) \/ Die(p)
      PROVE  CleanBeforeFault'
  BY <1>5 DEF Check, Die, Goto, Fault
<1>6. ASSUME Age PROVE CleanBeforeFault'
  BY <1>6 DEF Age
<1>7. CASE UNCHANGED guardVars
  BY <1>7 DEF guardVars
<1> QED
  BY <1>1, <1>2, <1>3, <1>4, <1>5, <1>6, <1>7 DEF GuardNext, Step

\* GuardInv is inductive.
THEOREM GuardInvariant == GuardSpec => []GuardInv
<1>1. GuardInv /\ [GuardNext]_guardVars => GuardInv'
  BY GuardStepType, GuardStepHolder, GuardStepClean DEF GuardInv
<1> QED
  BY GuardInitInv, <1>1, PTL DEF GuardSpec

\* Types.
THEOREM GuardTypeTheorem == GuardSpec => []GuardTypeOK
<1>1. GuardInv => GuardTypeOK
  BY DEF GuardInv
<1> QED
  BY GuardInvariant, <1>1, PTL

\* A process inside that nobody robbed has its own file there.
THEOREM HolderTheorem == GuardSpec => []HolderHasFile
<1>1. GuardInv => HolderHasFile
  BY DEF GuardInv
<1> QED
  BY GuardInvariant, <1>1, PTL

\* Short sections exclude each other until a file is left behind.
THEOREM RobberyTheorem == GuardSpec => []RobberyNeedsLeftover
<1>1. GuardInv => RobberyNeedsLeftover
  BY DEF GuardInv, RobberyNeedsLeftover, MutualExclusion, HolderHasFile,
         CleanBeforeFault, Inside
<1> QED
  BY GuardInvariant, <1>1, PTL
=============================================================================
