-------------------------- MODULE AgentMailProofs ---------------------------
(***************************************************************************)
(* Proofs about AgentMail: what is acknowledged is durable, and delivery   *)
(* keeps the promise of the mailbox (MailPromise), for any agents, any     *)
(* traffic, any limit of a delivery and any number of faults.              *)
(*                                                                         *)
(* The argument: while the session is open, what is on disk of the mail of *)
(* a recipient, alone and together with what any one writer keeps for it,  *)
(* is a front of that mail (Foremost): it was claimed, and no mail before  *)
(* it is left out.  For a delivery has all that is being delivered, the    *)
(* oldest there is (Oldest, Few, InHand), and what it does not hand to the *)
(* writer is on disk or with that writer already (Reserved).  So whatever  *)
(* is written, by a delivery or later, and wherever an append breaks off,  *)
(* what is on disk stays a front.  A death or a reading of the transcript  *)
(* only drops parts of what is kept or known.  What is recorded or         *)
(* acknowledged is on disk (Recorded, Acked).  After the deletion nothing  *)
(* is left but what the writers keep.                                      *)
(***************************************************************************)
EXTENDS AgentMail, OrderProofs, TLAPS

(***************************************************************************)
(* Proofs about AgentRuns: whoever executes an agent owns it, executions   *)
(* respect the limit and the scopes, a deleted session stays empty.        *)
(*                                                                         *)
(* The argument: an execution holds the lease of its agent, and only the   *)
(* holder of a lease changes the row; so the row of an agent that executes *)
(* is the one its execution wrote.  What the store admits is compared with *)
(* rows, and the executions are among the active rows.                     *)
(***************************************************************************)
\* A call that may admit or execute holds the lease of the agent it is for.
Holds ==
  \A c \in Call : pc[c] \in {"admit", "run"} =>
    job[c].kind = "start" /\ lease[job[c].agent] = c

\* The row of an agent that executes is its execution's.
Current ==
  \A c \in Call : pc[c] = "run" =>
    /\ own[c] \in Attempt
    /\ Runs(job[c].agent, own[c])
    /\ attempts[own[c]] = "running"

\* No attempt is the current one of two agents, or may be drawn again.
Distinct ==
  \A a \in Agent : agents[a].attempt # NoAttempt =>
    /\ attempts[agents[a].attempt] # "unused"
    /\ \A b \in Agent : agents[a].attempt = agents[b].attempt => a = b

\* A call holds one lease at most.
OneLease == \A a, b \in Agent : Owned(a) /\ lease[a] = lease[b] => a = b

Within   == Cardinality(Active) <= Limit
Disjoint == \A a, b \in Active : a # b => b \notin Overlap[a]
Emptied  == closed => \A a \in Agent : agents[a].state = "absent"

RunsInv ==
  RunsTypeOK /\ OneLease /\ Holds /\ Current /\ Distinct /\ Within /\ Disjoint /\ Emptied

-----------------------------------------------------------------------------
\* A job that is a start names an agent.
LEMMA StartNamesAgent ==
  ASSUME NEW j \in Job, j.kind = "start"
  PROVE  j.agent \in Agent /\ j.seen \in MaybeAttempt
  BY DEF Job

\* What it is to be the current attempt.
LEMMA RunsRow ==
  ASSUME NEW a, NEW n, Runs(a, n)
  PROVE  agents[a].state = "running" /\ agents[a].attempt = n
  BY DEF Runs

\* The active rows are finitely many.
LEMMA ActiveFinite == IsFiniteSet(Active) /\ Cardinality(Active) \in Nat
<1>1. Active \subseteq Agent
  BY DEF Active
<1> QED  BY <1>1, AgentAssumption, FS_Subset, FS_CardinalityType

\* Steps that leave the tables alone and let no call start to admit or execute.
LEMMA Bystander ==
  ASSUME RunsInv, UNCHANGED tables,
         \A c \in Call : pc'[c] \in {"admit", "run"} =>
           /\ pc[c] = pc'[c] /\ job'[c] = job[c] /\ own'[c] = own[c]
           /\ lease'[job[c].agent] = c,
         RunsTypeOK' /\ OneLease'
  PROVE  RunsInv'
<1>1. Holds' /\ Current'
  BY DEF RunsInv, Holds, Current, tables, Runs
<1>2. Distinct' /\ Within' /\ Disjoint' /\ Emptied'
  BY DEF RunsInv, Distinct, Within, Disjoint, Emptied, tables, Active
<1> QED  BY <1>1, <1>2 DEF RunsInv

\* What End leaves behind.
LEMMA EndFacts ==
  ASSUME RunsInv, NEW c \in Call, End(c)
  PROVE  /\ pc' \in [Call -> {"idle", "recover", "look", "mend", "admit", "run", "release"}]
         /\ job' \in [Call -> Job]
         /\ todo' \in [Call -> SUBSET [agent : Agent, attempt : MaybeAttempt]]
         /\ own' \in [Call -> MaybeAttempt]
         /\ lease' \in [Agent -> Call \cup {NoCall}]
         /\ OneLease'
         /\ \A a \in Agent : lease'[a] # NoCall => pc'[lease'[a]] \notin {"idle", "recover"}
         /\ \A d \in Call : pc'[d] \in {"admit", "run"} =>
              /\ pc[d] = pc'[d] /\ job'[d] = job[d] /\ own'[d] = own[d]
              /\ lease'[job[d].agent] = d
<1>1. /\ pc' = [pc EXCEPT ![c] = "idle"] /\ job' = [job EXCEPT ![c] = Recover]
      /\ todo' = [todo EXCEPT ![c] = {}] /\ own' = [own EXCEPT ![c] = NoAttempt]
      /\ lease' = [a \in Agent |-> IF lease[a] = c THEN NoCall ELSE lease[a]]
  BY DEF End, Goto
<1>2. Recover \in Job
  BY DEF Job, Recover
<1>3. RunsTypeOK /\ Holds
  BY DEF RunsInv
<1>4. \A d \in Call : pc'[d] \in {"admit", "run"} => d # c /\ pc[d] = pc'[d]
  BY <1>1, <1>3 DEF RunsTypeOK
<1>5. \A d \in Call : pc[d] \in {"admit", "run"} => job[d].agent \in Agent
  BY <1>3, StartNamesAgent DEF RunsTypeOK, Holds
<1>6. \A d \in Call : pc'[d] \in {"admit", "run"} =>
        /\ job'[d] = job[d] /\ own'[d] = own[d] /\ lease'[job[d].agent] = d
  BY <1>1, <1>3, <1>4, <1>5 DEF RunsTypeOK, Holds
<1>7. \A a \in Agent : lease'[a] # NoCall => pc'[lease'[a]] \notin {"idle", "recover"}
  BY <1>1, <1>3 DEF RunsTypeOK, Owned
<1>8. /\ own' \in [Call -> MaybeAttempt]
      /\ lease' \in [Agent -> Call \cup {NoCall}]
      /\ job' \in [Call -> Job]
      /\ todo' \in [Call -> SUBSET [agent : Agent, attempt : MaybeAttempt]]
      /\ pc' \in [Call -> {"idle", "recover", "look", "mend", "admit", "run", "release"}]
  BY <1>1, <1>2, <1>3 DEF RunsTypeOK, MaybeAttempt
<1>9. OneLease'
  BY <1>1, <1>3 DEF RunsInv, OneLease, Owned, RunsTypeOK
<1> QED  BY <1>4, <1>6, <1>7, <1>8, <1>9

\* A call that ends, with the tables as they are, preserves the invariant.
LEMMA EndPreserves ==
  ASSUME RunsInv, NEW c \in Call, End(c), UNCHANGED tables, faults' \in 0..MaxFaults
  PROVE  RunsInv'
<1>1. RunsTypeOK'
  BY EndFacts DEF RunsInv, RunsTypeOK, tables, Owned
<1> QED  BY <1>1, EndFacts, Bystander

\* Fault counts one more within its bound.
LEMMA FaultBound ==
  ASSUME RunsInv, Fault \/ UNCHANGED faults
  PROVE  faults' \in 0..MaxFaults
  BY BoundAssumption DEF RunsInv, RunsTypeOK, Fault

-----------------------------------------------------------------------------
\* Reading the rows, contending for a lease and looking again.
LEMMA BeginPreserves ==
  ASSUME RunsInv, NEW c \in Call, Begin(c)
  PROVE  RunsInv'
<1>1. /\ pc[c] = "idle" /\ pc' = [pc EXCEPT ![c] = "recover"]
      /\ todo' = [todo EXCEPT ![c] = ActiveRows]
      /\ UNCHANGED <<tables, lease, own, faults>>
  BY DEF Begin, Goto
<1>2. RunsTypeOK
  BY DEF RunsInv
<1>3. PICK j \in Job : job' = [job EXCEPT ![c] = j]
  <2>1. CASE \E k \in {"recover", "drop"} : job' = [job EXCEPT ![c] = [kind |-> k]]
    BY <2>1 DEF Job
  <2>2. CASE \E a \in Agent : job' = [job EXCEPT ![c] =
               [kind |-> "start", agent |-> a, seen |-> agents[a].attempt]]
    <3>1. PICK a \in Agent : job' = [job EXCEPT ![c] =
               [kind |-> "start", agent |-> a, seen |-> agents[a].attempt]]
      BY <2>2
    <3>2. agents[a].attempt \in MaybeAttempt
      BY <1>2 DEF RunsTypeOK, AgentRow
    <3> QED  BY <3>1, <3>2 DEF Job
  <2> QED  BY <2>1, <2>2 DEF Begin
<1>4. ActiveRows \subseteq [agent : Agent, attempt : MaybeAttempt]
  BY <1>2 DEF ActiveRows, Active, RunsTypeOK, AgentRow
<1>5. RunsTypeOK'
  BY <1>1, <1>2, <1>3, <1>4 DEF RunsTypeOK, tables, Owned
<1>6. \A d \in Call : pc'[d] \in {"admit", "run"} => d # c /\ pc[d] = pc'[d]
  BY <1>1, <1>2 DEF RunsTypeOK
<1>7. OneLease'
  BY <1>1 DEF RunsInv, OneLease, Owned
<1> QED  BY <1>1, <1>2, <1>3, <1>5, <1>6, <1>7, Bystander DEF RunsTypeOK, RunsInv, Holds

\* A recovery takes the lease of a row, if it can.
LEMMA ContendPreserves ==
  ASSUME RunsInv, NEW c \in Call, Contend(c)
  PROVE  RunsInv'
<1>1. PICK r \in todo[c] :
        /\ todo' = [todo EXCEPT ![c] = @ \ {r}]
        /\ IF Owned(r.agent)
           THEN UNCHANGED <<lease, own, pc>>
           ELSE /\ lease' = [lease EXCEPT ![r.agent] = c]
                /\ own' = [own EXCEPT ![c] = r.attempt]
                /\ Goto(c, "look")
  BY DEF Contend
<1>2. pc[c] = "recover" /\ UNCHANGED <<tables, job, faults>>
  BY DEF Contend
<1>3. RunsTypeOK
  BY DEF RunsInv
<1>4. r.agent \in Agent /\ r.attempt \in MaybeAttempt
  BY <1>3 DEF RunsTypeOK
<1>5. CASE Owned(r.agent)
  <2>1. RunsTypeOK'
    BY <1>1, <1>2, <1>3, <1>5 DEF RunsTypeOK, tables, Owned
  <2>2. OneLease'
    BY <1>1, <1>5 DEF RunsInv, OneLease, Owned
  <2> QED  BY <1>1, <1>2, <1>5, <2>1, <2>2, Bystander DEF RunsInv, Holds
<1>6. CASE ~Owned(r.agent)
  <2>1. /\ lease' = [lease EXCEPT ![r.agent] = c]
        /\ own' = [own EXCEPT ![c] = r.attempt]
        /\ pc' = [pc EXCEPT ![c] = "look"]
    BY <1>1, <1>6 DEF Goto
  <2>2. RunsTypeOK'
    BY <1>1, <1>2, <1>3, <1>4, <2>1 DEF RunsTypeOK, tables, Owned
  <2>3. \A d \in Call : pc'[d] \in {"admit", "run"} => d # c /\ pc[d] = pc'[d]
    BY <1>3, <2>1 DEF RunsTypeOK
  <2>4. \A d \in Call : pc'[d] \in {"admit", "run"} =>
          job[d].agent \in Agent /\ lease[job[d].agent] = d
    BY <1>3, <2>3, StartNamesAgent DEF RunsInv, Holds, RunsTypeOK
  <2>5. \A d \in Call : pc'[d] \in {"admit", "run"} => job[d].agent # r.agent
    BY <1>6, <2>4, SentinelAssumption DEF Owned
  <2>6. \A d \in Call : pc'[d] \in {"admit", "run"} =>
          own'[d] = own[d] /\ lease'[job[d].agent] = d
    BY <1>3, <1>4, <2>1, <2>3, <2>4, <2>5 DEF RunsTypeOK
  <2>7. \A b \in Agent : lease[b] # c
    BY <1>2, <1>3, SentinelAssumption DEF RunsTypeOK, Owned
  <2>8. OneLease'
    BY <1>3, <1>4, <2>1, <2>7 DEF RunsInv, OneLease, Owned, RunsTypeOK
  <2> QED  BY <1>2, <2>2, <2>3, <2>6, <2>8, Bystander
<1> QED  BY <1>5, <1>6

\* A call that lets its lease go after looking at a row: then only the table
\* rows decide, and no other call loses its lease.
LEMMA LetGoFacts ==
  ASSUME RunsInv, NEW c \in Call, NEW a \in Agent, pc[c] \in {"look", "mend"},
         lease[a] = c, LetGo(c, a), Goto(c, "recover"), UNCHANGED <<job, todo>>
  PROVE  /\ pc' \in [Call -> {"idle", "recover", "look", "mend", "admit", "run", "release"}]
         /\ own' \in [Call -> MaybeAttempt]
         /\ lease' \in [Agent -> Call \cup {NoCall}]
         /\ \A d \in Call : pc'[d] \in {"admit", "run"} =>
              /\ pc[d] = pc'[d] /\ job'[d] = job[d] /\ own'[d] = own[d]
              /\ lease'[job[d].agent] = d /\ job[d].agent # a
         /\ OneLease'
         /\ \A b \in Agent : lease'[b] # NoCall => pc'[lease'[b]] \notin {"idle", "recover"}
<1>1. /\ lease' = [lease EXCEPT ![a] = NoCall] /\ own' = [own EXCEPT ![c] = NoAttempt]
      /\ pc' = [pc EXCEPT ![c] = "recover"]
  BY DEF LetGo, Goto
<1>2. RunsTypeOK /\ Holds
  BY DEF RunsInv
<1>3. \A d \in Call : pc'[d] \in {"admit", "run"} => d # c /\ pc[d] = pc'[d]
  BY <1>1, <1>2 DEF RunsTypeOK
<1>4. \A d \in Call : pc'[d] \in {"admit", "run"} =>
        job[d].agent \in Agent /\ lease[job[d].agent] = d
  BY <1>2, <1>3, StartNamesAgent DEF Holds, RunsTypeOK
<1>5. \A d \in Call : pc'[d] \in {"admit", "run"} =>
        own'[d] = own[d] /\ lease'[job[d].agent] = d /\ job[d].agent # a
  BY <1>1, <1>2, <1>3, <1>4 DEF RunsTypeOK
<1>6. /\ pc' \in [Call -> {"idle", "recover", "look", "mend", "admit", "run", "release"}]
      /\ own' \in [Call -> MaybeAttempt]
      /\ lease' \in [Agent -> Call \cup {NoCall}]
  BY <1>1, <1>2 DEF RunsTypeOK, MaybeAttempt
<1>7. \A b \in Agent : b # a /\ Owned(b) => lease[b] # c
  BY SentinelAssumption DEF RunsInv, OneLease, Owned
<1>8. /\ OneLease'
      /\ \A b \in Agent : lease'[b] # NoCall => pc'[lease'[b]] \notin {"idle", "recover"}
  BY <1>1, <1>2, <1>7 DEF RunsInv, OneLease, Owned, RunsTypeOK
<1> QED  BY <1>3, <1>5, <1>6, <1>8

\* It reads the row again.
LEMMA LookPreserves ==
  ASSUME RunsInv, NEW c \in Call, NEW a \in Agent, Look(c, a)
  PROVE  RunsInv'
<1>1. /\ pc[c] = "look" /\ lease[a] = c
      /\ UNCHANGED <<tables, job, todo, faults>>
  BY DEF Look
<1>2. RunsTypeOK
  BY DEF RunsInv
<1>3. CASE Goto(c, "mend") /\ UNCHANGED <<lease, own>>
  <2>1. RunsTypeOK' /\ OneLease'
    BY <1>1, <1>2, <1>3 DEF Goto, RunsTypeOK, tables, Owned, RunsInv, OneLease
  <2>2. \A d \in Call : pc'[d] \in {"admit", "run"} => pc[d] = pc'[d]
    BY <1>2, <1>3 DEF Goto, RunsTypeOK
  <2> QED  BY <1>1, <1>3, <2>1, <2>2, Bystander DEF RunsInv, Holds
<1>4. CASE Goto(c, "recover") /\ LetGo(c, a)
  <2>1. RunsTypeOK' /\ OneLease'
    BY <1>1, <1>2, <1>4, LetGoFacts DEF RunsTypeOK, tables, Owned
  <2> QED  BY <1>1, <1>4, <2>1, LetGoFacts, Bystander
<1> QED  BY <1>3, <1>4 DEF Look

-----------------------------------------------------------------------------
\* Settling an attempt changes the row of one agent and of one attempt, and
\* leaves fewer rows active.
LEMMA SettleFacts ==
  ASSUME RunsInv, NEW a \in Agent, NEW n, NEW state \in {"settled", "interrupted"},
         Settle(a, n, state)
  PROVE  /\ agents' \in [Agent -> AgentRow]
         /\ attempts' \in [Attempt -> {"unused", "running", "settled", "interrupted", "deleted"}]
         /\ closed' = closed
         /\ \A b \in Agent : b # a => agents'[b] = agents[b]
         /\ \A m \in Attempt : attempts'[m] # attempts[m] => Runs(a, m)
         /\ Distinct' /\ Within' /\ Disjoint' /\ Emptied'
<1>1. RunsTypeOK /\ Distinct /\ Within /\ Disjoint /\ Emptied /\ closed' = closed
  BY DEF RunsInv, Settle
<1>2. CASE Runs(a, n)
  <2>1. /\ agents' = [agents EXCEPT ![a].state = state]
        /\ attempts' = [attempts EXCEPT ![n] = state]
        /\ agents[a].attempt = n /\ agents[a].state = "running"
    BY <1>2 DEF Settle, Runs
  <2>2. /\ agents' \in [Agent -> AgentRow]
        /\ \A b \in Agent : agents'[b].attempt = agents[b].attempt
        /\ \A b \in Agent : b # a => agents'[b] = agents[b]
        /\ agents'[a].state = state
    BY <1>1, <2>1 DEF RunsTypeOK, AgentRow
  <2>3. /\ attempts' \in [Attempt -> {"unused", "running", "settled", "interrupted", "deleted"}]
        /\ \A m \in Attempt : m # n => attempts'[m] = attempts[m]
        /\ n \in Attempt => attempts'[n] = state
    BY <1>1, <2>1 DEF RunsTypeOK
  <2>4. \A b \in Agent : agents[b].attempt \in Attempt \cup {NoAttempt}
    BY <1>1 DEF RunsTypeOK, AgentRow, MaybeAttempt
  <2>5. Distinct'
    BY <1>1, <2>2, <2>3, <2>4 DEF Distinct
  <2>6. Active' \subseteq Active
    BY <2>2 DEF Active
  <2>7. Within'
    <3>1. IsFiniteSet(Active) /\ Cardinality(Active) \in Nat
      BY ActiveFinite
    <3>2. Cardinality(Active') <= Cardinality(Active) /\ Cardinality(Active') \in Nat
      BY <2>6, <3>1, FS_Subset, FS_CardinalityType
    <3> QED  BY <1>1, <3>1, <3>2, BoundAssumption DEF Within
  <2>8. Disjoint'
    BY <1>1, <2>6 DEF Disjoint
  <2>9. Emptied'
    BY <1>1, <2>1 DEF Emptied
  <2> QED  BY <1>1, <1>2, <2>2, <2>3, <2>5, <2>7, <2>8, <2>9
<1>3. CASE ~Runs(a, n)
  <2>1. UNCHANGED <<agents, attempts, closed>>
    BY <1>3 DEF Settle
  <2> QED  BY <1>1, <2>1 DEF RunsTypeOK, Distinct, Within, Disjoint, Emptied, Active
<1> QED  BY <1>2, <1>3

\* Executions of other agents do not notice.
LEMMA SettlePreserves ==
  ASSUME RunsInv, NEW a \in Agent, NEW n, NEW state \in {"settled", "interrupted"},
         Settle(a, n, state),
         \A c \in Call : pc'[c] \in {"admit", "run"} =>
           /\ pc[c] = pc'[c] /\ job'[c] = job[c] /\ own'[c] = own[c]
           /\ lease'[job[c].agent] = c /\ job[c].agent # a,
         RunsTypeOK' /\ OneLease'
  PROVE  RunsInv'
<1>1. Holds'
  BY DEF RunsInv, Holds
<1>2. Current'
  <2> SUFFICES ASSUME NEW c \in Call, pc'[c] = "run"
               PROVE  /\ own'[c] \in Attempt
                      /\ agents'[job'[c].agent] = [attempt |-> own'[c], state |-> "running"]
                      /\ attempts'[own'[c]] = "running"
    BY DEF Current, Runs
  <2> DEFINE b == job[c].agent
             m == own[c]
  <2>1. /\ b \in Agent /\ b # a /\ job'[c] = job[c] /\ own'[c] = own[c]
        /\ m \in Attempt /\ Runs(b, m) /\ attempts[m] = "running"
    BY StartNamesAgent DEF RunsInv, RunsTypeOK, Holds, Current
  <2>2. agents'[b] = agents[b]
    BY <2>1, SettleFacts
  <2>3. ~Runs(a, m)
    BY <2>1, SentinelAssumption DEF RunsInv, Distinct, Runs
  <2>4. attempts'[m] = "running"
    BY <2>1, <2>3, SettleFacts
  <2> QED  BY <2>1, <2>2, <2>4 DEF Runs
<1> QED  BY <1>1, <1>2, SettleFacts DEF RunsInv

\* It settles the attempt that is gone.
LEMMA InterruptPreserves ==
  ASSUME RunsInv, NEW c \in Call, NEW a \in Agent, Interrupt(c, a)
  PROVE  RunsInv'
<1>1. pc[c] = "mend" /\ lease[a] = c
  BY DEF Interrupt
<1>2. CASE /\ Settle(a, own[c], "interrupted")
           /\ LetGo(c, a) /\ Goto(c, "recover")
           /\ UNCHANGED <<job, todo, faults>>
  <2>1. RunsTypeOK' /\ OneLease'
    BY <1>1, <1>2, LetGoFacts, SettleFacts DEF RunsInv, RunsTypeOK, Owned
  <2> QED  BY <1>1, <1>2, <2>1, LetGoFacts, SettlePreserves
<1>3. CASE Fault /\ End(c) /\ UNCHANGED tables
  BY <1>3, FaultBound, EndPreserves
<1> QED  BY <1>2, <1>3 DEF Interrupt

\* An execution settles its own.
LEMMA FinishPreserves ==
  ASSUME RunsInv, NEW c \in Call, NEW a \in Agent, Finish(c, a)
  PROVE  RunsInv'
<1>1. /\ pc[c] = "run" /\ job[c].agent = a
      /\ pc' = [pc EXCEPT ![c] = "release"]
      /\ UNCHANGED <<lease, job, todo, own>>
  BY DEF Finish, Executes, Goto
<1>2. faults' \in 0..MaxFaults
  BY FaultBound DEF Finish
<1>3. RunsTypeOK /\ lease[a] = c
  BY <1>1 DEF RunsInv, Holds
<1>4. \A d \in Call : pc'[d] \in {"admit", "run"} =>
        /\ pc[d] = pc'[d] /\ job'[d] = job[d] /\ own'[d] = own[d]
        /\ lease'[job[d].agent] = d /\ job[d].agent # a
  <2>1. \A d \in Call : pc'[d] \in {"admit", "run"} => d # c /\ pc[d] = pc'[d]
    BY <1>1, <1>3 DEF RunsTypeOK
  <2> QED  BY <1>1, <1>3, <2>1 DEF RunsInv, Holds
<1>5. OneLease'
  BY <1>1 DEF RunsInv, OneLease, Owned
<1>6. CASE Settle(a, own[c], "settled")
  <2>1. RunsTypeOK'
    BY <1>1, <1>2, <1>3, <1>6, SettleFacts DEF RunsTypeOK, Owned
  <2> QED  BY <1>4, <1>5, <1>6, <2>1, SettlePreserves
<1>7. CASE UNCHANGED tables
  <2>1. RunsTypeOK'
    BY <1>1, <1>2, <1>3, <1>7 DEF RunsTypeOK, Owned, tables
  <2> QED  BY <1>4, <1>5, <1>7, <2>1, Bystander
<1> QED  BY <1>6, <1>7 DEF Finish

-----------------------------------------------------------------------------
\* Returning, releasing and dying only end the call.
LEMMA LeavePreserves ==
  ASSUME RunsInv, NEW c \in Call, Return(c) \/ Release(c) \/ Die(c)
  PROVE  RunsInv'
<1>1. End(c) /\ UNCHANGED tables
  BY DEF Return, Release, Die, tables
<1>2. Fault \/ UNCHANGED faults
  BY DEF Return, Release, Die
<1> QED  BY <1>1, <1>2, FaultBound, EndPreserves

\* A start takes the lease of its agent.
LEMMA AcquirePreserves ==
  ASSUME RunsInv, NEW c \in Call, Acquire(c)
  PROVE  RunsInv'
<1> DEFINE a == job[c].agent
<1>1. /\ pc[c] = "recover" /\ job[c].kind = "start"
      /\ UNCHANGED <<tables, faults>>
  BY DEF Acquire
<1>2. RunsTypeOK
  BY DEF RunsInv
<1>3. a \in Agent
  BY <1>1, <1>2, StartNamesAgent DEF RunsTypeOK
<1>4. CASE Owned(a)
  <2>1. End(c)
    BY <1>4 DEF Acquire
  <2> QED  BY <1>1, <2>1, FaultBound, EndPreserves
<1>5. CASE ~Owned(a)
  <2>1. /\ lease' = [lease EXCEPT ![a] = c]
        /\ pc' = [pc EXCEPT ![c] = "admit"]
        /\ UNCHANGED <<job, todo, own>>
    BY <1>5 DEF Acquire, Goto
  <2>2. \A b \in Agent : lease[b] # c
    BY <1>1, <1>2, SentinelAssumption DEF RunsTypeOK, Owned
  <2>3. RunsTypeOK'
    BY <1>1, <1>2, <1>3, <2>1 DEF RunsTypeOK, tables, Owned
  <2>4. OneLease'
    BY <1>2, <1>3, <2>1, <2>2 DEF RunsInv, OneLease, Owned, RunsTypeOK
  <2>5. Holds'
    <3> SUFFICES ASSUME NEW d \in Call, pc'[d] \in {"admit", "run"}
                 PROVE  job[d].kind = "start" /\ lease'[job[d].agent] = d
      BY <2>1 DEF Holds
    <3>1. CASE d = c
      BY <1>1, <1>2, <1>3, <2>1, <3>1 DEF RunsTypeOK
    <3>2. CASE d # c
      <4>1. pc[d] \in {"admit", "run"}
        BY <1>2, <2>1, <3>2 DEF RunsTypeOK
      <4>2. job[d].kind = "start" /\ lease[job[d].agent] = d /\ job[d].agent \in Agent
        BY <1>2, <4>1, StartNamesAgent DEF RunsInv, Holds, RunsTypeOK
      <4>3. job[d].agent # a
        BY <1>5, <4>2, SentinelAssumption DEF Owned
      <4> QED  BY <1>2, <2>1, <4>2, <4>3 DEF RunsTypeOK
    <3> QED  BY <3>1, <3>2
  <2>6. \A d \in Call : pc'[d] = "run" => pc[d] = "run"
    BY <1>2, <2>1 DEF RunsTypeOK
  <2>7. Current'
    BY <1>1, <2>1, <2>6 DEF RunsInv, Current, Runs, tables
  <2>8. Distinct' /\ Within' /\ Disjoint' /\ Emptied'
    BY <1>1 DEF RunsInv, Distinct, Within, Disjoint, Emptied, tables, Active
  <2> QED  BY <2>3, <2>4, <2>5, <2>7, <2>8 DEF RunsInv
<1> QED  BY <1>4, <1>5

\* An admission makes one more row active, which the checks of start compare
\* with all those that are.
LEMMA AdmitPreserves ==
  ASSUME RunsInv, NEW c \in Call, NEW a \in Agent, Admit(c, a)
  PROVE  RunsInv'
<1>1. /\ pc[c] = "admit" /\ lease[a] = c /\ UNCHANGED faults
  BY DEF Admit
<1>2. RunsTypeOK
  BY DEF RunsInv
<1>3. CASE End(c) /\ UNCHANGED tables
  BY <1>1, <1>3, FaultBound, EndPreserves
<1>4. CASE \E n \in Attempt :
             /\ Admissible(a, job[c].seen)
             /\ attempts[n] = "unused"
             /\ agents' = [agents EXCEPT ![a] = [attempt |-> n, state |-> "running"]]
             /\ attempts' = [attempts EXCEPT ![n] = "running"]
             /\ own' = [own EXCEPT ![c] = n]
             /\ Goto(c, "run")
             /\ UNCHANGED <<closed, lease, job, todo>>
  <2>1. PICK n \in Attempt :
          /\ attempts[n] = "unused"
          /\ agents' = [agents EXCEPT ![a] = [attempt |-> n, state |-> "running"]]
          /\ attempts' = [attempts EXCEPT ![n] = "running"]
          /\ own' = [own EXCEPT ![c] = n]
    BY <1>4
  <2>2. /\ ~closed /\ Cardinality(Active) < Limit /\ Overlap[a] \cap Active = {}
        /\ pc' = [pc EXCEPT ![c] = "run"]
        /\ UNCHANGED <<closed, lease, job, todo>>
    BY <1>4 DEF Admissible, Goto
  <2>3. n # NoAttempt /\ n \in MaybeAttempt
    BY SentinelAssumption DEF MaybeAttempt
  <2>4. [attempt |-> n, state |-> "running"] \in AgentRow
    BY <2>3 DEF AgentRow
  <2>5. RunsTypeOK'
    BY <1>1, <1>2, <2>1, <2>2, <2>3, <2>4 DEF RunsTypeOK, Owned
  <2>6. OneLease'
    BY <2>2 DEF RunsInv, OneLease, Owned
  <2>7. job[c].kind = "start" /\ lease[job[c].agent] = c /\ job[c].agent \in Agent
    BY <1>1, <1>2, StartNamesAgent DEF RunsInv, Holds, RunsTypeOK
  <2>8. job[c].agent = a
    BY <1>1, <2>7, SentinelAssumption DEF RunsInv, OneLease, Owned
  <2>9. \A d \in Call : pc'[d] \in {"admit", "run"} => pc[d] \in {"admit", "run"}
    BY <1>1, <1>2, <2>2 DEF RunsTypeOK
  <2>10. Holds'
    BY <2>2, <2>9 DEF RunsInv, Holds
  <2>11. \A b \in Agent : agents[b].attempt # n
    BY <2>1, <2>3 DEF RunsInv, Distinct
  <2>12. /\ agents'[a] = [attempt |-> n, state |-> "running"]
         /\ \A b \in Agent : b # a => agents'[b] = agents[b]
         /\ attempts'[n] = "running"
         /\ \A m \in Attempt : m # n => attempts'[m] = attempts[m]
    BY <1>2, <2>1 DEF RunsTypeOK
  <2>13. Current'
    <3> SUFFICES ASSUME NEW d \in Call, pc'[d] = "run"
                 PROVE  /\ own'[d] \in Attempt
                        /\ agents'[job[d].agent] = [attempt |-> own'[d], state |-> "running"]
                        /\ attempts'[own'[d]] = "running"
      BY <2>2 DEF Current, Runs
    <3>1. CASE d = c
      BY <1>2, <2>1, <2>8, <2>12, <3>1 DEF RunsTypeOK
    <3>2. CASE d # c
      <4>1. pc[d] = "run" /\ own'[d] = own[d]
        BY <1>2, <2>1, <2>2, <3>2 DEF RunsTypeOK
      <4>2. /\ job[d].agent \in Agent /\ lease[job[d].agent] = d
            /\ own[d] \in Attempt /\ attempts[own[d]] = "running"
            /\ agents[job[d].agent] = [attempt |-> own[d], state |-> "running"]
        BY <1>2, <4>1, StartNamesAgent DEF RunsInv, Holds, Current, Runs, RunsTypeOK
      <4>3. job[d].agent # a
        BY <1>1, <3>2, <4>2
      <4>4. own[d] # n
        BY <2>11, <4>2
      <4> QED  BY <2>12, <4>1, <4>2, <4>3, <4>4
    <3> QED  BY <3>1, <3>2
  <2>14. Distinct'
    <3>1. \A b \in Agent : agents[b].attempt \in Attempt \cup {NoAttempt}
      BY <1>2 DEF RunsTypeOK, AgentRow, MaybeAttempt
    <3> QED  BY <2>3, <2>11, <2>12, <3>1 DEF RunsInv, Distinct
  <2>15. Active' = Active \cup {a}
    BY <2>12 DEF Active
  <2>16. Within'
    <3>1. IsFiniteSet(Active) /\ Cardinality(Active) \in Nat
      BY ActiveFinite
    <3>2. Cardinality(Active') = IF a \in Active THEN Cardinality(Active)
                                 ELSE Cardinality(Active) + 1
      BY <2>15, <3>1, FS_AddElement
    <3> QED  BY <2>2, <3>1, <3>2, BoundAssumption DEF Within
  <2>17. Disjoint'
    BY <2>2, <2>15, OverlapAssumption DEF RunsInv, Disjoint, Active
  <2>18. Emptied'
    BY <2>2 DEF Emptied
  <2> QED  BY <2>5, <2>6, <2>10, <2>13, <2>14, <2>16, <2>17, <2>18 DEF RunsInv
<1> QED  BY <1>3, <1>4 DEF Admit

\* drop_session.
LEMMA DropPreserves ==
  ASSUME RunsInv, NEW c \in Call, Drop(c)
  PROVE  RunsInv'
<1>1. End(c) /\ UNCHANGED faults
  BY DEF Drop
<1>2. CASE UNCHANGED tables
  BY <1>1, <1>2, FaultBound, EndPreserves
<1>3. CASE /\ Active = {}
           /\ closed' = TRUE
           /\ agents' = [a \in Agent |-> [attempt |-> NoAttempt, state |-> "absent"]]
           /\ attempts' = [n \in Attempt |->
                IF attempts[n] = "unused" THEN "unused" ELSE "deleted"]
  <2>1. RunsTypeOK
    BY DEF RunsInv
  <2>2. [attempt |-> NoAttempt, state |-> "absent"] \in AgentRow
    BY DEF AgentRow, MaybeAttempt
  <2>3. RunsTypeOK' /\ OneLease'
    BY <1>1, <1>3, <2>1, <2>2, EndFacts DEF RunsTypeOK, Owned
  <2>4. Holds'
    BY <1>1, EndFacts DEF RunsInv, Holds
  <2>5. \A d \in Call : pc[d] # "run"
    <3> SUFFICES ASSUME NEW d \in Call, pc[d] = "run"
                 PROVE  FALSE
      OBVIOUS
    <3>1. job[d].agent \in Agent /\ Runs(job[d].agent, own[d])
      BY <2>1, StartNamesAgent DEF RunsInv, Holds, Current, RunsTypeOK
    <3> QED  BY <1>3, <3>1 DEF Active, Runs
  <2>6. Current'
    BY <1>1, <2>5, EndFacts DEF Current
  <2>7. Distinct' /\ Disjoint' /\ Emptied' /\ Active' = {}
    BY <1>3 DEF Distinct, Disjoint, Emptied, Active
  <2>8. Within'
    BY <2>7, FS_EmptySet, BoundAssumption DEF Within
  <2> QED  BY <2>3, <2>4, <2>6, <2>7, <2>8 DEF RunsInv
<1> QED  BY <1>2, <1>3 DEF Drop

-----------------------------------------------------------------------------
\* Nothing is active and nobody is in the store.
LEMMA RunsInitial ==
  ASSUME RunsInit
  PROVE  RunsInv
<1>1. Recover \in Job
  BY DEF Job, Recover
<1>2. [attempt |-> NoAttempt, state |-> "absent"] \in AgentRow
  BY DEF AgentRow, MaybeAttempt
<1>3. RunsTypeOK
  <2>1. agents \in [Agent -> AgentRow] /\ faults \in 0..MaxFaults
    BY <1>2, BoundAssumption DEF RunsInit
  <2>2. /\ lease \in [Agent -> Call \cup {NoCall}]
        /\ own \in [Call -> MaybeAttempt]
        /\ job \in [Call -> Job]
        /\ todo \in [Call -> SUBSET [agent : Agent, attempt : MaybeAttempt]]
    BY <1>1 DEF RunsInit, MaybeAttempt
  <2> QED  BY <2>1, <2>2 DEF RunsInit, RunsTypeOK, Owned
<1>4. OneLease /\ Holds /\ Current /\ Distinct /\ Disjoint /\ Emptied /\ Active = {}
  BY DEF RunsInit, OneLease, Owned, Holds, Current, Distinct, Disjoint, Emptied, Active
<1>5. Within
  BY <1>4, FS_EmptySet, BoundAssumption DEF Within
<1> QED  BY <1>3, <1>4, <1>5 DEF RunsInv

\* Every step preserves the invariant.
LEMMA RunsStep ==
  ASSUME RunsInv, [RunsNext]_runVars
  PROVE  RunsInv'
<1>1. CASE UNCHANGED runVars
  BY <1>1 DEF runVars, RunsInv, RunsTypeOK, OneLease, Owned, Holds, Current, Runs,
              Distinct, Within, Disjoint, Active, Emptied
<1>2. CASE RunsNext
  <2>1. PICK c \in Call : Begin(c) \/ CallStep(c) \/ Die(c)
    BY <1>2 DEF RunsNext
  <2> QED  BY <2>1, BeginPreserves, ContendPreserves, LookPreserves, InterruptPreserves,
              AcquirePreserves, AdmitPreserves, FinishPreserves, DropPreserves,
              LeavePreserves DEF CallStep
<1> QED  BY <1>1, <1>2

\* The strengthened invariant.
THEOREM RunsInvariant == RunsSpec => []RunsInv
<1>1. RunsInit => RunsInv
  BY RunsInitial
<1>2. RunsInv /\ [RunsNext]_runVars => RunsInv'
  BY RunsStep
<1> QED  BY <1>1, <1>2, PTL DEF RunsSpec

-----------------------------------------------------------------------------
\* The tables, the leases and the calls have the shapes declared for them, and
\* no lease outlives the call that took it.
THEOREM RunsTypeCorrect == RunsSpec => []RunsTypeOK
<1>1. RunsInv => RunsTypeOK
  BY DEF RunsInv
<1> QED  BY <1>1, RunsInvariant, PTL

\* An execution is the one its row names.
LEMMA OwnerFromLease ==
  ASSUME RunsInv
  PROVE  OwnerIsCurrent
BY DEF RunsInv, OwnerIsCurrent, Executes, Holds, Current

\* Whoever executes an agent holds its lease and is its current attempt, for any
\* number of agents, attempts, callers and deaths.
THEOREM ExecutorOwnsAgent == RunsSpec => []OwnerIsCurrent
<1>1. RunsInv => OwnerIsCurrent
  BY OwnerFromLease
<1> QED  BY <1>1, RunsInvariant, PTL

\* Executions are among the active rows, which are compatible.
LEMMA CompatibleFromRows ==
  ASSUME RunsInv
  PROVE  ExecutionsCompatible
<1> DEFINE busy == {a \in Agent : \E c \in Call : Executes(c, a)}
<1>1. \A c \in Call, a \in Agent : Executes(c, a) => a \in Active
  BY RunsRow DEF RunsInv, Executes, Current, Active
<1>2. busy \subseteq Active
  BY <1>1
<1>3. Cardinality(busy) <= Limit
  <2>1. IsFiniteSet(Active) /\ Cardinality(Active) \in Nat
    BY ActiveFinite
  <2>2. Cardinality(busy) <= Cardinality(Active) /\ Cardinality(busy) \in Nat
    BY <1>2, <2>1, FS_Subset, FS_CardinalityType
  <2> QED  BY <2>1, <2>2, BoundAssumption DEF RunsInv, Within
<1>4. \A c, d \in Call, a, b \in Agent :
        Executes(c, a) /\ Executes(d, b) /\ a # b => b \notin Overlap[a]
  BY <1>1 DEF RunsInv, Disjoint
<1> QED  BY <1>3, <1>4 DEF ExecutionsCompatible

\* Whatever executes at one time respects the limit and the write scopes.
THEOREM ExecutionsRespectScopes == RunsSpec => []ExecutionsCompatible
<1>1. RunsInv => ExecutionsCompatible
  BY CompatibleFromRows
<1> QED  BY <1>1, RunsInvariant, PTL

\* A deleted session has no row that an execution could be of.
LEMMA EmptyWhenClosed ==
  ASSUME RunsInv
  PROVE  ClosedStaysEmpty
<1> SUFFICES ASSUME closed
             PROVE  /\ \A a \in Agent : agents[a].state = "absent"
                    /\ \A c \in Call : pc[c] # "run"
  BY DEF ClosedStaysEmpty
<1>1. \A a \in Agent : agents[a].state = "absent"
  BY DEF RunsInv, Emptied
<1>2. \A c \in Call : pc[c] = "run" => agents[job[c].agent].state = "running"
  BY RunsRow DEF RunsInv, Current
<1>3. \A c \in Call : pc[c] = "run" => job[c].agent \in Agent
  BY StartNamesAgent DEF RunsInv, Holds, RunsTypeOK
<1> QED  BY <1>1, <1>2, <1>3

\* Nothing is started in a deleted session, whoever was on the way.
THEOREM DeletedStaysEmpty == RunsSpec => []ClosedStaysEmpty
<1>1. RunsInv => ClosedStaysEmpty
  BY EmptyWhenClosed
<1> QED  BY <1>1, RunsInvariant, PTL

-----------------------------------------------------------------------------
\* The invariant, and what each operation does to one recipient.

\* What is to r and not withdrawn.
Live(mb, r) == {m \in 1..Len(mb) : mb[m].to = r /\ mb[m].state # "cancelled"}
Open(mb, r) == {m \in 1..Len(mb) : mb[m].to = r /\ mb[m].state \in {"queued", "delivering"}}

Box   == Seq([to : Recipient, state : {"queued", "delivering", "delivered", "cancelled"}])
Batch == [step : {"none", "claimed", "recorded"}, rows : SUBSET Nat]
Conv  == Seq(Row)

\* The rows of S were claimed, and no mail before them is left out.
Foremost(mb, r, S) ==
  /\ S \subseteq Live(mb, r)
  /\ \A m \in S : mb[m].state # "queued"
  /\ \A m \in S, k \in Live(mb, r) : k < m => k \in S

Delivering(mb, r) == {m \in Live(mb, r) : mb[m].state = "delivering"}

Oldest(mb, r, b) == /\ b.rows \subseteq Delivering(mb, r)
                    /\ \A m \in b.rows, k \in Open(mb, r) : k < m => k \in b.rows
Recorded(D, b)   == b.step = "recorded" => b.rows \subseteq D
Acked(mb, r, D)  == \A m \in Live(mb, r) : mb[m].state = "delivered" => m \in D
Few(mb, r)       == Delivering(mb, r) \subseteq Lowest(BatchLimit, Open(mb, r))
InHand(mb, r, b) == b.step # "none" => Delivering(mb, r) \subseteq b.rows

\* Of what its process takes for recorded, the writer keeps what is not on disk;
\* and between what it keeps nothing is still to be recorded.
Reserved(mb, r, D, l, K) ==
  /\ K \subseteq D \cup l
  /\ \A y \in l, x \in Live(mb, r) : x < y => x \in l \cup K \/ mb[x].state = "delivered"

\* D is what is on disk, L what each writer keeps, K what is known, b the delivery
\* and H the processes in which r is.
Fine(mb, r, D, L, K, b, H) ==
  /\ Foremost(mb, r, D) /\ \A w \in Writer : Foremost(mb, r, D \cup L[w])
  /\ Oldest(mb, r, b) /\ Recorded(D, b) /\ Acked(mb, r, D)
  /\ Few(mb, r) /\ InHand(mb, r, b)
  /\ \A w \in H : w \in Writer /\ Reserved(mb, r, D, L[w], K)

OnDisk(r)     == ToSet(disk[r])
WithWriter(r) == [w \in Writer |-> ToSet(left[w][r])]
Hosting(r)    == {w \in Writer : Hosts(w, r)}

Rising(c) == \A i, j \in 1..Len(c) : i < j => c[i] < c[j]

\* How recipient r stands; nothing of the mailbox is left when it is deleted.
Standing(r) ==
  IF closed THEN mailbox = <<>> /\ batch[r] = NoBatch
            ELSE Fine(mailbox, r, OnDisk(r), WithWriter(r), known[r], batch[r], Hosting(r))

\* A delivery is one of a process in which its recipient is.
Hosted(r) == /\ batch[r].step = "none" => batch[r] = NoBatch
             /\ batch[r] # NoBatch => Hosting(r) # {}

MailShapes ==
  /\ mailbox \in Box
  /\ disk \in [Recipient -> Conv] /\ left \in [Writer -> [Recipient -> Conv]]
  /\ known \in [Recipient -> SUBSET Row]
  /\ batch \in [Recipient -> Batch]
  /\ \A w \in Writer, r \in Recipient : Rising(left[w][r])

MailInv == RunsInv /\ MailShapes /\ \A r \in Recipient : Standing(r) /\ Hosted(r)

-----------------------------------------------------------------------------
\* Listings as sequences: what a writer holds is in the order of the mailbox.

\* c lists S in order.
Lists(c, S) == c \in Conv /\ Rising(c) /\ ToSet(c) = S

\* What is in a sequence.
LEMMA InSeq ==
  ASSUME NEW c \in Conv
  PROVE  /\ Len(c) \in Nat /\ DOMAIN c = 1..Len(c)
         /\ \A i \in 1..Len(c) : c[i] \in Row /\ c[i] \in ToSet(c)
         /\ \A m \in ToSet(c) : m \in Row /\ \E i \in 1..Len(c) : c[i] = m
<1>1. Len(c) \in Nat /\ DOMAIN c = 1..Len(c)
  BY LenProperties DEF Conv
<1>2. \A i \in 1..Len(c) : c[i] \in Row
  BY ElementOfSeq DEF Conv
<1>3. ToSet(c) = {c[i] : i \in 1..Len(c)}
  BY <1>1 DEF ToSet
<1> QED BY <1>1, <1>2, <1>3

\* InOrder lists.
LEMMA InOrderLists ==
  ASSUME NEW k \in Nat, NEW S \in SUBSET (1..k)
  PROVE  Lists(InOrder(S), S)
<1> DEFINE q == Cardinality(S)
           f == InOrder(S)
<1>1. f \in Listings(S)
  BY InOrderIsListing
<1> HIDE DEF f
<1>2. /\ f \in [1..q -> S]
      /\ \A i \in 1..q : f[i] \in S
      /\ \A x \in S : \E i \in 1..q : f[i] = x
      /\ \A i, j \in 1..q : i < j => f[i] < f[j]
  BY <1>1, ListingParts
<1>3. q \in Nat
  <2>1. IsFiniteSet(1..k)
    BY FS_Interval
  <2>2. IsFiniteSet(S)
    BY <2>1, FS_Subset
  <2> QED BY <2>2, FS_CardinalityType
<1> HIDE DEF q
<1>4. f \in Conv /\ Len(f) = q
  <2>1. \A x \in S : x \in Row
    BY DEF Row
  <2>2. f \in [1..q -> Row]
    BY <2>1, <1>2
  <2> QED BY <2>2, <1>3 DEF Conv
<1>5. ToSet(f) = S
  <2>1. \A x : x \in ToSet(f) <=> \E i \in 1..q : f[i] = x
    BY <1>4, InSeq
  <2> QED BY <2>1, <1>2
<1>6. Lists(f, S)
  BY <1>2, <1>4, <1>5 DEF Lists, Rising
<1> QED BY <1>6 DEF f

\* Nothing else does, and what is listed is bounded.
LEMMA ListsIsInOrder ==
  ASSUME NEW c, NEW S, Lists(c, S)
  PROVE  c = InOrder(S) /\ \E k \in Nat : S \subseteq 1..k
<1>1. c \in Conv /\ Rising(c) /\ ToSet(c) = S
  BY DEF Lists
<1>2. /\ Len(c) \in Nat /\ DOMAIN c = 1..Len(c)
      /\ \A i \in 1..Len(c) : c[i] \in Row /\ c[i] \in S
      /\ \A m \in S : m \in Row /\ \E i \in 1..Len(c) : c[i] = m
  BY <1>1, InSeq
<1> DEFINE n == Len(c)
<1>n. /\ n \in Nat /\ n = Len(c) /\ DOMAIN c = 1..n
      /\ \A i \in 1..n : c[i] \in Nat /\ c[i] \in S /\ c[i] # 0
      /\ \A m \in S : m \in Nat /\ m # 0 /\ \E i \in 1..n : c[i] = m
      /\ \A i, j \in 1..n : i < j => c[i] < c[j]
  BY <1>1, <1>2 DEF Rising, Row
<1> HIDE DEF n
<1>3. CASE n = 0
  <2>1. S = {}
    BY <1>n, <1>3
  <2>2. S \in SUBSET (1..0)
    BY <2>1
  <2>3. c = <<>>
    BY <1>1, <1>n, <1>3, EmptySeq DEF Conv
  <2>4. Lists(InOrder(S), S)
    BY <2>2, InOrderLists
  <2>5. InOrder(S) \in Conv /\ ToSet(InOrder(S)) = {}
    BY <2>1, <2>4 DEF Lists
  <2>6. Len(InOrder(S)) = 0
    BY <2>5, InSeq
  <2>7. InOrder(S) = <<>>
    BY <2>5, <2>6, EmptySeq DEF Conv
  <2> QED BY <2>2, <2>3, <2>7
<1>4. CASE n # 0
  <2>1. n \in 1..n /\ c[n] \in Nat
    BY <1>n, <1>4
  <2>2. \A i \in 1..n : c[i] <= c[n] /\ c[i] \in Nat
    <3>1. \A i \in 1..n : i = n \/ i < n
      BY <1>n
    <3> QED BY <3>1, <2>1, <1>n
  <2>3. \A m \in S : m \in 1..c[n]
    BY <1>n, <2>1, <2>2
  <2>4. c \in Seq(Nat)
    <3>1. c = [i \in 1..n |-> c[i]]
      BY <1>1, <1>n DEF Conv
    <3>2. [i \in 1..n |-> c[i]] \in [1..n -> Nat]
      BY <1>n
    <3>3. c \in [1..n -> Nat]
      BY <3>1, <3>2
    <3> QED BY <3>3, <1>n
  <2>5. Stretch(c, c[n], S, 0, n)
    <3>1. c[n] \in Nat /\ S \in SUBSET (1..c[n])
      BY <2>1, <2>3
    <3>2. 0 \in Nat /\ n \in Nat /\ 0 < n /\ n <= Len(c)
      BY <1>n, <1>4
    <3>3. \A i \in 0+1..n : i \in 1..n /\ c[i] \in S
      BY <1>n
    <3>4. \A m \in S : \E i \in 0+1..n : c[i] = m
      BY <1>n
    <3>5. \A i, j \in 1..n : i < j => c[i] < c[j]
      BY <1>n
    <3>6. \A i \in 0+1..n : c[i] \in S
      BY <3>3
    <3>7. \A m \in S : m <= c[n] => \E i \in 0+1..n : c[i] = m
      BY <3>4
    <3> QED BY <2>4, <3>1, <3>2, <3>5, <3>6, <3>7, Zenon DEF Stretch
  <2>6. SubSeq(c, 1, n) = SubSeq(c, 1, 0) \o InOrder(UpTo(S, c[n]))
    <3>1. Follows(c, S, 0, n)
      BY <2>5, StretchInOrder
    <3> QED BY <3>1 DEF Follows
  <2>7. UpTo(S, c[n]) = S
    BY <2>1, <2>3 DEF UpTo
  <2>8. SubSeq(c, 1, n) = c
    <3>1. /\ SubSeq(c, 1, n) \in Seq(Nat) /\ Len(SubSeq(c, 1, n)) = n
          /\ \A i \in 1..n : SubSeq(c, 1, n)[i] = c[i]
      BY <2>1, <2>2, <1>n, SubSeqProperties
    <3> QED BY <1>n, <2>4, <3>1, SeqEqual
  <2>9. Lists(InOrder(S), S)
    BY <2>1, <2>3, InOrderLists
  <2>10. SubSeq(c, 1, 0) \o InOrder(S) = InOrder(S)
    <3>1. SubSeq(c, 1, 0) = <<>>
      BY <2>4
    <3>2. InOrder(S) \in Seq(Row)
      BY <2>9 DEF Lists, Conv
    <3> QED BY <3>1, <3>2, ConcatEmptySeq
  <2> QED BY <2>1, <2>3, <2>6, <2>7, <2>8, <2>10
<1> QED BY <1>3, <1>4

\* Two sequences one behind the other.
LEMMA Joined ==
  ASSUME NEW c \in Conv, NEW f \in Conv
  PROVE  /\ c \o f \in Conv /\ Len(c) \in Nat /\ Len(f) \in Nat
         /\ Len(c \o f) = Len(c) + Len(f)
         /\ \A i \in 1..Len(c) : (c \o f)[i] = c[i]
         /\ \A i \in Len(c)+1..Len(c)+Len(f) :
              i - Len(c) \in 1..Len(f) /\ (c \o f)[i] = f[i - Len(c)]
         /\ ToSet(c \o f) = ToSet(c) \cup ToSet(f)
<1> DEFINE u == c \o f
           p == Len(c)
           q == Len(f)
<1>1. p \in Nat /\ q \in Nat
  BY LenProperties DEF Conv
<1>2. /\ u \in Conv /\ Len(u) = p + q
      /\ \A i \in 1..p+q : u[i] = IF i <= p THEN c[i] ELSE f[i - p]
  BY ConcatProperties DEF Conv
<1> HIDE DEF u, p, q
<1>3. /\ \A i \in 1..p : i \in 1..p+q /\ i <= p
      /\ \A i \in p+1..p+q : i \in 1..p+q /\ ~(i <= p) /\ i - p \in 1..q
      /\ \A i \in 1..q : p + i \in p+1..p+q /\ (p + i) - p = i
      /\ \A i \in 1..p+q : i \in 1..p \/ i \in p+1..p+q
  BY <1>1
<1>4. \A i \in 1..p : u[i] = c[i]
  BY <1>2, <1>3
<1>5. \A i \in p+1..p+q : u[i] = f[i - p]
  BY <1>2, <1>3
<1>6. \A x : x \in ToSet(u) <=> x \in ToSet(c) \/ x \in ToSet(f)
  <2>1. /\ \A x : x \in ToSet(u) <=> \E i \in 1..p+q : u[i] = x
        /\ \A x : x \in ToSet(c) <=> \E i \in 1..p : c[i] = x
        /\ \A x : x \in ToSet(f) <=> \E i \in 1..q : f[i] = x
    BY <1>2, InSeq DEF p, q
  <2>2. \A i \in 1..q : u[p + i] = f[i] /\ p + i \in 1..p+q
    BY <1>3, <1>5
  <2> QED BY <2>1, <2>2, <1>3, <1>4, <1>5
<1> QED BY <1>1, <1>2, <1>3, <1>4, <1>5, <1>6 DEF u, p, q

\* A listing behind a listing of less.
LEMMA ListsJoined ==
  ASSUME NEW c, NEW S, Lists(c, S), NEW f, NEW T, Lists(f, T),
         \A x \in S, y \in T : x < y
  PROVE  Lists(c \o f, S \cup T)
<1> DEFINE u == c \o f
           p == Len(c)
           q == Len(f)
<1>0. /\ c \in Conv /\ Rising(c) /\ ToSet(c) = S
      /\ f \in Conv /\ Rising(f) /\ ToSet(f) = T
  BY DEF Lists
<1>1. /\ u \in Conv /\ p \in Nat /\ q \in Nat /\ Len(u) = p + q
      /\ \A i \in 1..p : u[i] = c[i]
      /\ \A i \in p+1..p+q : i - p \in 1..q /\ u[i] = f[i - p]
      /\ ToSet(u) = S \cup T
  BY <1>0, Joined
<1>2. \A i \in 1..p, j \in 1..q : c[i] < f[j]
  BY <1>0, InSeq
<1> HIDE DEF u, p, q
<1>3. Rising(u)
  <2> SUFFICES ASSUME NEW i \in 1..p+q, NEW j \in 1..p+q, i < j
               PROVE  u[i] < u[j]
    BY <1>1 DEF Rising
  <2>1. CASE i \in 1..p /\ j \in 1..p
    BY <2>1, <1>0, <1>1 DEF Rising, p
  <2>2. CASE i \in 1..p /\ j \in p+1..p+q
    BY <2>2, <1>1, <1>2
  <2>3. CASE i \in p+1..p+q /\ j \in p+1..p+q
    <3>1. i - p \in 1..q /\ j - p \in 1..q /\ i - p < j - p
      BY <2>3, <1>1
    <3>2. f[i - p] < f[j - p]
      BY <3>1, <1>0 DEF Rising, q
    <3> QED BY <2>3, <3>2, <1>1
  <2>4. (i \in 1..p \/ i \in p+1..p+q) /\ (j \in 1..p \/ j \in p+1..p+q) /\ (i \in p+1..p+q => j \notin 1..p)
    BY <1>1
  <2> QED BY <2>1, <2>2, <2>3, <2>4
<1>4. Lists(u, S \cup T)
  BY <1>1, <1>3 DEF Lists
<1> QED BY <1>4 DEF u

\* A listing without some of its rows.
LEMMA ListsWithout ==
  ASSUME NEW c, NEW S, Lists(c, S), NEW D
  PROVE  Lists(Without(c, D), S \ D)
<1> DEFINE I == {i \in DOMAIN c : c[i] \notin D}
           f == InOrder(I)
           u == [k \in DOMAIN f |-> c[f[k]]]
<1>0. c \in Conv /\ Rising(c) /\ ToSet(c) = S
  BY DEF Lists
<1>1. /\ Len(c) \in Nat /\ DOMAIN c = 1..Len(c)
      /\ \A i \in 1..Len(c) : c[i] \in Row /\ c[i] \in S
      /\ \A m \in S : \E i \in 1..Len(c) : c[i] = m
  BY <1>0, InSeq
<1>2. I \in SUBSET (1..Len(c))
  BY <1>1
<1>3. \A i : i \in I <=> i \in 1..Len(c) /\ c[i] \notin D
  BY <1>1
<1>4. Without(c, D) = u
  BY DEF Without
<1> HIDE DEF I
<1>5. f \in Conv /\ Rising(f) /\ ToSet(f) = I
  BY <1>1, <1>2, InOrderLists DEF Lists
<1> HIDE DEF f
<1>6. /\ Len(f) \in Nat /\ DOMAIN f = 1..Len(f)
      /\ \A k \in 1..Len(f) : f[k] \in I
      /\ \A i \in I : \E k \in 1..Len(f) : f[k] = i
  BY <1>5, InSeq
<1>7. \A k \in 1..Len(f) : u[k] = c[f[k]] /\ c[f[k]] \in Row /\ f[k] \in 1..Len(c)
  BY <1>1, <1>3, <1>6
<1>8. u \in Conv /\ Len(u) = Len(f)
  <2>1. u \in [1..Len(f) -> Row]
    BY <1>6, <1>7
  <2> QED BY <2>1, <1>6 DEF Conv
<1> HIDE DEF u
<1>9. Rising(u)
  <2> SUFFICES ASSUME NEW i \in 1..Len(f), NEW j \in 1..Len(f), i < j
               PROVE  u[i] < u[j]
    BY <1>8 DEF Rising
  <2>1. f[i] < f[j]
    BY <1>5 DEF Rising
  <2>2. c[f[i]] < c[f[j]]
    BY <2>1, <1>0, <1>7 DEF Rising
  <2> QED BY <2>2, <1>7
<1>10. \A x : x \in ToSet(u) <=> x \in S \ D
  <2>1. \A x : x \in ToSet(u) <=> \E k \in 1..Len(f) : u[k] = x
    BY <1>8, InSeq
  <2>2. ASSUME NEW x \in ToSet(u) PROVE x \in S \ D
    BY <2>1, <2>2, <1>1, <1>3, <1>6, <1>7
  <2>3. ASSUME NEW x \in S \ D PROVE x \in ToSet(u)
    <3>1. PICK i \in 1..Len(c) : c[i] = x
      BY <1>1
    <3>2. i \in I
      BY <3>1, <1>3
    <3> QED BY <3>1, <3>2, <2>1, <1>6, <1>7
  <2> QED BY <2>2, <2>3
<1> QED BY <1>4, <1>8, <1>9, <1>10 DEF Lists

\* T is a beginning of S.
Begins(T, S) == T \subseteq S /\ \A i \in T, j \in S : j < i => j \in T

\* The first rows of a listing.
LEMMA ListsPrefix ==
  ASSUME NEW c, NEW S, Lists(c, S), NEW n \in 0..Len(c)
  PROVE  \E T : Lists(SubSeq(c, 1, n), T) /\ Begins(T, S)
<1> DEFINE p == SubSeq(c, 1, n)
           T == ToSet(p)
<1>0. c \in Conv /\ Rising(c) /\ ToSet(c) = S
  BY DEF Lists
<1>1. /\ Len(c) \in Nat
      /\ \A i \in 1..Len(c) : c[i] \in Row /\ c[i] \in S
      /\ \A m \in S : m \in Row /\ \E i \in 1..Len(c) : c[i] = m
  BY <1>0, InSeq
<1>2. p \in Conv /\ Len(p) = n /\ \A i \in 1..n : p[i] = c[i]
  <2>1. \A i \in 1..n : i \in 1..Len(c)
    BY <1>1
  <2>2. c \in Seq(Row) /\ \A i \in 1..n : c[i] \in Row
    BY <2>1, <1>0, <1>1 DEF Conv
  <2>3. p \in Seq(Row) /\ Len(p) = n /\ \A i \in 1..n : p[i] = c[i]
    BY <2>2, SubSeqProperties
  <2> QED BY <2>3 DEF Conv
<1> HIDE DEF p
<1>3. \A i \in 1..n : i \in 1..Len(c)
  BY <1>1
<1>4. Rising(p)
  BY <1>0, <1>2, <1>3 DEF Rising
<1>5. \A x : x \in T <=> \E i \in 1..n : c[i] = x
  BY <1>2, InSeq
<1> HIDE DEF T
<1>6. T \subseteq S
  BY <1>1, <1>3, <1>5
<1>7. ASSUME NEW x \in T, NEW y \in S, y < x
      PROVE  y \in T
  <2>1. PICK i \in 1..n : c[i] = x
    BY <1>5
  <2>2. PICK j \in 1..Len(c) : c[j] = y
    BY <1>1
  <2>3. x \in Nat /\ y \in Nat
    BY <1>1, <1>6 DEF Row
  <2>4. ~(i < j)
    BY <2>1, <2>2, <2>3, <1>0, <1>3, <1>7 DEF Rising
  <2>5. j \in 1..n
    BY <2>4, <1>1
  <2> QED BY <2>2, <2>5, <1>5
<1>8. Lists(p, T)
  BY <1>2, <1>4 DEF Lists, T
<1>9. Begins(T, S)
  BY <1>6, <1>7 DEF Begins
<1> QED BY <1>8, <1>9 DEF p
-----------------------------------------------------------------------------
\* Rows of a mailbox.
LEMMA BoxRow ==
  ASSUME NEW mb \in Box, NEW m \in 1..Len(mb)
  PROVE  /\ mb[m].to \in Recipient
         /\ mb[m].state \in {"queued", "delivering", "delivered", "cancelled"}
<1>1. mb[m] \in [to : Recipient, state : {"queued", "delivering", "delivered", "cancelled"}]
  BY ElementOfSeq DEF Box
<1> QED BY <1>1

\* Two mailboxes agree on what is to r.
Agree(mb, mc, r) ==
  /\ Len(mb) = Len(mc)
  /\ \A m \in 1..Len(mb) : mc[m].to = mb[m].to
  /\ \A m \in 1..Len(mb) : mb[m].to = r => mc[m].state = mb[m].state

\* How a recipient stands depends on nothing else of the mailbox.
LEMMA FineAgree ==
  ASSUME NEW mb, NEW mc, NEW r, NEW D, NEW L, NEW K, NEW b, NEW H,
         Fine(mb, r, D, L, K, b, H), Agree(mb, mc, r)
  PROVE  Fine(mc, r, D, L, K, b, H)
<1>1. Live(mc, r) = Live(mb, r) /\ Open(mc, r) = Open(mb, r)
  BY DEF Agree, Live, Open
<1>2. \A m \in Live(mb, r) : mc[m].state = mb[m].state
  BY DEF Agree, Live
<1>3. Delivering(mc, r) = Delivering(mb, r)
  BY <1>1, <1>2 DEF Delivering
<1>4. \A S : Foremost(mb, r, S) => Foremost(mc, r, S)
  BY <1>1, <1>2 DEF Foremost
<1>5. Oldest(mc, r, b) /\ Acked(mc, r, D) /\ Few(mc, r) /\ InHand(mc, r, b)
  BY <1>1, <1>2, <1>3 DEF Fine, Oldest, Acked, Few, InHand
<1>6. \A l : Reserved(mb, r, D, l, K) => Reserved(mc, r, D, l, K)
  BY <1>1, <1>2 DEF Reserved
<1> QED BY <1>4, <1>5, <1>6 DEF Fine

\* A new row at the end.
LEMMA BoxGrows ==
  ASSUME NEW mb \in Box, NEW x \in Recipient
  PROVE  LET mc == Append(mb, [to |-> x, state |-> "queued"])
         IN  /\ mc \in Box /\ Len(mc) = Len(mb) + 1 /\ Len(mb) \in Nat
             /\ \A m \in 1..Len(mb) : mc[m] = mb[m]
             /\ mc[Len(mb) + 1] = [to |-> x, state |-> "queued"]
<1> DEFINE row == [to |-> x, state |-> "queued"]
<1>1. row \in [to : Recipient, state : {"queued", "delivering", "delivered", "cancelled"}]
  OBVIOUS
<1> HIDE DEF row
<1>2. /\ Append(mb, row) \in Box /\ Len(Append(mb, row)) = Len(mb) + 1 /\ Len(mb) \in Nat
      /\ \A m \in 1..Len(mb) : Append(mb, row)[m] = mb[m]
      /\ Append(mb, row)[Len(mb) + 1] = row
  BY <1>1, AppendProperties, LenProperties DEF Box
<1> QED BY <1>2 DEF row

\* What is lowest depends on what is below it.
LEMMA LowestBelow ==
  ASSUME NEW k \in Nat, NEW S \in SUBSET (1..k), NEW T, NEW n \in Nat,
         NEW m \in Lowest(n, S), m \in T, {x \in T : x < m} \subseteq {x \in S : x < m}
  PROVE  m \in Lowest(n, T)
<1> DEFINE I == {x \in S : x < m}
           J == {x \in T : x < m}
<1>1. Cardinality(I) < n /\ m \in S
  BY DEF Lowest
<1>2. IsFiniteSet(I) /\ J \subseteq I
  <2>1. \A x \in S : x \in 1..k
    OBVIOUS
  <2>2. I \subseteq 1..k /\ J \subseteq I
    BY <2>1
  <2>3. IsFiniteSet(1..k)
    BY FS_Interval
  <2> HIDE DEF I
  <2> QED BY <2>2, <2>3, FS_Subset
<1> HIDE DEF I
<1>3. Cardinality(J) < n
  <2> HIDE DEF J
  <2>1. Cardinality(J) <= Cardinality(I) /\ Cardinality(I) \in Nat /\ Cardinality(J) \in Nat
    BY <1>2, FS_Subset, FS_CardinalityType
  <2> QED BY <2>1, <1>1
<1> QED BY <1>3 DEF Lowest

\* What is lowest of a finite set is closed downwards in it.
LEMMA LowestFacts ==
  ASSUME NEW k \in Nat, NEW S \in SUBSET (1..k), NEW n \in Nat
  PROVE  /\ Lowest(n, S) \subseteq S
         /\ \A i \in Lowest(n, S), j \in S : j < i => j \in Lowest(n, S)
<1>1. \A i : i \in Lowest(n, S) <=> i \in S /\ Cardinality({x \in S : x < i}) < n
  BY DEF Lowest
<1> SUFFICES ASSUME NEW i \in S, Cardinality({x \in S : x < i}) < n, NEW j \in S, j < i
             PROVE  j \in Lowest(n, S)
  BY <1>1, Zenon
<1> DEFINE I == {x \in S : x < i}
           J == {x \in S : x < j}
<1>2. i \in S /\ Cardinality(I) < n
  OBVIOUS
<1>3. J \subseteq I /\ I \subseteq 1..k
  <2>1. i \in Nat /\ j \in Nat /\ \A x \in S : x \in Nat /\ x \in 1..k
    OBVIOUS
  <2>2. \A x \in S : x < j => x < i
    BY <2>1
  <2>3. J \subseteq I
    BY <2>2
  <2>4. I \subseteq 1..k
    BY <2>1
  <2> QED BY <2>3, <2>4
<1> HIDE DEF I
<1>4. IsFiniteSet(I)
  <2>1. IsFiniteSet(1..k)
    BY FS_Interval
  <2> QED BY <2>1, <1>3, FS_Subset
<1>5. Cardinality(J) < n
  <2> HIDE DEF J
  <2>1. Cardinality(J) <= Cardinality(I) /\ Cardinality(I) \in Nat /\ Cardinality(J) \in Nat
    BY <1>3, <1>4, FS_Subset, FS_CardinalityType
  <2> QED BY <2>1, <1>2
<1> QED BY <1>1, <1>5

\* send, or the completion of a settlement.
LEMMA FineGrows ==
  ASSUME NEW mb \in Box, NEW mc, NEW x \in Recipient,
         NEW r, NEW D, NEW L, NEW K, NEW b, NEW H, Fine(mb, r, D, L, K, b, H),
         mc = Append(mb, [to |-> x, state |-> "queued"])
  PROVE  Fine(mc, r, D, L, K, b, H)
<1>1. /\ Len(mc) = Len(mb) + 1 /\ Len(mb) \in Nat
      /\ \A m \in 1..Len(mb) : mc[m] = mb[m]
      /\ mc[Len(mb) + 1].state = "queued"
  BY BoxGrows
<1> DEFINE n == Len(mb) + 1
<1>2. \A m \in 1..Len(mc) : m \in 1..Len(mb) \/ m = n
  BY <1>1
<1>3. /\ Live(mb, r) \subseteq Live(mc, r) /\ Live(mc, r) \subseteq Live(mb, r) \cup {n}
      /\ Open(mb, r) \subseteq Open(mc, r) /\ Open(mc, r) \subseteq Open(mb, r) \cup {n}
      /\ \A m \in Live(mb, r) : mc[m] = mb[m] /\ m < n /\ m \in Nat /\ ~(n < m)
      /\ mc[n].state = "queued"
  BY <1>1, <1>2 DEF Live, Open
<1>4. Open(mb, r) \subseteq Live(mb, r) /\ Open(mb, r) \in SUBSET (1..Len(mb))
  BY DEF Open, Live
<1> HIDE DEF n
<1>5. Delivering(mc, r) = Delivering(mb, r)
  BY <1>3 DEF Delivering
<1>6. ASSUME NEW S, Foremost(mb, r, S)
      PROVE  Foremost(mc, r, S)
  BY <1>3, <1>6 DEF Foremost
<1>7. Acked(mc, r, D) /\ InHand(mc, r, b)
  BY <1>3, <1>5 DEF Fine, Acked, InHand
<1>8. Oldest(mc, r, b)
  <2> SUFFICES ASSUME NEW m \in b.rows, NEW k \in Open(mc, r), k < m
               PROVE  k \in b.rows
    BY <1>5 DEF Fine, Oldest
  <2>1. m \in Live(mb, r)
    BY DEF Fine, Oldest, Delivering
  <2>2. k \in Open(mb, r)
    BY <2>1, <1>3
  <2> QED BY <2>2 DEF Fine, Oldest
<1>9. Few(mc, r)
  <2> SUFFICES ASSUME NEW m \in Delivering(mb, r)
               PROVE  m \in Lowest(BatchLimit, Open(mc, r))
    BY <1>5 DEF Few
  <2>1. m \in Lowest(BatchLimit, Open(mb, r))
    BY DEF Fine, Few
  <2>2. m \in Live(mb, r) /\ m \in Open(mb, r)
    BY <2>1 DEF Delivering, Lowest
  <2>3. m \in Open(mc, r) /\ {y \in Open(mc, r) : y < m} \subseteq {y \in Open(mb, r) : y < m}
    BY <2>2, <1>3
  <2> QED BY <1>1, <1>4, <2>1, <2>3, BoxAssumption, LowestBelow
<1>10. ASSUME NEW l, Foremost(mb, r, D \cup l), Reserved(mb, r, D, l, K)
       PROVE  Reserved(mc, r, D, l, K)
  <2> SUFFICES ASSUME NEW y \in l, NEW z \in Live(mc, r), z < y
               PROVE  z \in l \cup K \/ mc[z].state = "delivered"
    BY <1>10 DEF Reserved
  <2>1. y \in Live(mb, r)
    BY <1>10 DEF Foremost
  <2>2. z \in Live(mb, r)
    BY <2>1, <1>3
  <2> QED BY <2>2, <1>3, <1>10 DEF Reserved
<1>11. /\ \A w \in Writer : Foremost(mb, r, D \cup L[w])
       /\ \A w \in H : w \in Writer /\ Reserved(mb, r, D, L[w], K)
  BY DEF Fine
<1> QED BY <1>6, <1>7, <1>8, <1>9, <1>10, <1>11 DEF Fine

\* Rows of S change their state.
Set(mb, S, s) == [i \in 1..Len(mb) |-> IF i \in S THEN [mb[i] EXCEPT !.state = s] ELSE mb[i]]

\* Only the states of rows in S change.
LEMMA SetFacts ==
  ASSUME NEW mb \in Box, NEW S, NEW s \in {"queued", "delivering", "delivered", "cancelled"}
  PROVE  /\ Set(mb, S, s) \in Box /\ Len(Set(mb, S, s)) = Len(mb) /\ Len(mb) \in Nat
         /\ \A m \in 1..Len(mb) : /\ Set(mb, S, s)[m].to = mb[m].to
                                  /\ Set(mb, S, s)[m].state = IF m \in S THEN s ELSE mb[m].state
<1>1. \A m \in 1..Len(mb) : mb[m] \in [to : Recipient, state : {"queued", "delivering", "delivered", "cancelled"}]
  BY ElementOfSeq DEF Box
<1>2. Len(mb) \in Nat
  BY LenProperties DEF Box
<1>3. Set(mb, S, s) \in [1..Len(mb) -> [to : Recipient, state : {"queued", "delivering", "delivered", "cancelled"}]]
  BY <1>1 DEF Set
<1>4. Set(mb, S, s) \in Box /\ Len(Set(mb, S, s)) = Len(mb)
  BY <1>2, <1>3 DEF Box
<1>5. \A m \in 1..Len(mb) : /\ Set(mb, S, s)[m].to = mb[m].to
                            /\ Set(mb, S, s)[m].state = IF m \in S THEN s ELSE mb[m].state
  BY <1>1 DEF Set
<1> QED BY <1>2, <1>4, <1>5

\* Rows to one recipient change: nobody else notices.
LEMMA SetAgrees ==
  ASSUME NEW mb \in Box, NEW r, NEW x, x # r, NEW S \in SUBSET Live(mb, r),
         NEW s \in {"queued", "delivering", "delivered", "cancelled"}
  PROVE  Agree(mb, Set(mb, S, s), x)
<1>1. \A m \in S : mb[m].to = r
  BY DEF Live
<1> QED BY <1>1, SetFacts DEF Agree

\* remove_message: what is on disk, with a writer or in a batch is not queued.
LEMMA FineWithdraw ==
  ASSUME NEW mb \in Box, NEW w \in 1..Len(mb), mb[w].state = "queued",
         NEW r, NEW D, NEW L, NEW K, NEW b, NEW H, Fine(mb, r, D, L, K, b, H)
  PROVE  Fine(Set(mb, {w}, "cancelled"), r, D, L, K, b, H)
<1> DEFINE mc == Set(mb, {w}, "cancelled")
<1>1. /\ Len(mc) = Len(mb) /\ Len(mb) \in Nat
      /\ \A m \in 1..Len(mb) : /\ mc[m].to = mb[m].to
                               /\ mc[m].state = IF m = w THEN "cancelled" ELSE mb[m].state
  BY SetFacts
<1> HIDE DEF mc
<1>2. /\ Live(mc, r) = Live(mb, r) \ {w} /\ Open(mc, r) = Open(mb, r) \ {w}
      /\ \A m \in Live(mc, r) : mc[m].state = mb[m].state
  BY <1>1 DEF Live, Open
<1>3. Delivering(mc, r) = Delivering(mb, r)
  BY <1>2 DEF Delivering
<1>4. Open(mb, r) \in SUBSET (1..Len(mb))
  BY DEF Open
<1>5. \A S : Foremost(mb, r, S) => Foremost(mc, r, S)
  BY <1>2 DEF Foremost
<1>6. Oldest(mc, r, b) /\ Acked(mc, r, D) /\ InHand(mc, r, b)
  BY <1>2, <1>3 DEF Fine, Oldest, Acked, InHand
<1>7. Few(mc, r)
  <2> SUFFICES ASSUME NEW m \in Delivering(mb, r)
               PROVE  m \in Lowest(BatchLimit, Open(mc, r))
    BY <1>3 DEF Few
  <2>1. m \in Lowest(BatchLimit, Open(mb, r)) /\ mb[m].state = "delivering"
    BY DEF Fine, Few, Delivering
  <2>2. m \in Open(mc, r) /\ {y \in Open(mc, r) : y < m} \subseteq {y \in Open(mb, r) : y < m}
    BY <2>1, <1>2 DEF Lowest
  <2> QED BY <1>1, <1>4, <2>1, <2>2, BoxAssumption, LowestBelow
<1>8. \A l : Reserved(mb, r, D, l, K) => Reserved(mc, r, D, l, K)
  BY <1>2 DEF Reserved
<1>9. Fine(mc, r, D, L, K, b, H)
  BY <1>5, <1>6, <1>7, <1>8 DEF Fine
<1> QED BY <1>9 DEF mc

\* claim_messages takes the oldest rows.
LEMMA FineClaim ==
  ASSUME NEW mb \in Box, NEW r, NEW D, NEW L, NEW K, NEW b, NEW H, Fine(mb, r, D, L, K, b, H)
  PROVE  LET S == Lowest(BatchLimit, Open(mb, r))
         IN  /\ Fine(Set(mb, S, "delivering"), r, D, L, K, [step |-> "claimed", rows |-> S], H)
             /\ S \subseteq Live(mb, r)
<1> DEFINE S == Lowest(BatchLimit, Open(mb, r))
           mc == Set(mb, S, "delivering")
           e == [step |-> "claimed", rows |-> S]
<1>1. /\ Len(mc) = Len(mb) /\ Len(mb) \in Nat
      /\ \A m \in 1..Len(mb) : /\ mc[m].to = mb[m].to
                               /\ mc[m].state = IF m \in S THEN "delivering" ELSE mb[m].state
  BY SetFacts
<1>2. Open(mb, r) \in SUBSET (1..Len(mb)) /\ Open(mb, r) \subseteq Live(mb, r)
  BY DEF Open, Live
<1>3. S \subseteq Open(mb, r) /\ \A m \in S, k \in Open(mb, r) : k < m => k \in S
  BY <1>1, <1>2, BoxAssumption, LowestFacts
<1>4. e.rows = S /\ e.step = "claimed"
  OBVIOUS
<1>s. S = Lowest(BatchLimit, Open(mb, r))
  OBVIOUS
<1> HIDE DEF S, mc, e
<1>5. Live(mc, r) = Live(mb, r) /\ Open(mc, r) = Open(mb, r)
  BY <1>1, <1>3 DEF Live, Open
<1>6. \A m \in Live(mb, r) : mc[m].state = IF m \in S THEN "delivering" ELSE mb[m].state
  BY <1>1 DEF Live
<1>7. Delivering(mc, r) = S
  <2>1. Delivering(mb, r) \subseteq S
    BY <1>s DEF Fine, Few
  <2> QED BY <2>1, <1>2, <1>3, <1>5, <1>6 DEF Delivering
<1>8. \A T : Foremost(mb, r, T) => Foremost(mc, r, T)
  BY <1>5, <1>6 DEF Foremost
<1>9. Acked(mc, r, D)
  BY <1>5, <1>6 DEF Fine, Acked
<1>10. Few(mc, r) /\ InHand(mc, r, e) /\ Oldest(mc, r, e) /\ Recorded(D, e)
  BY <1>3, <1>4, <1>s, <1>5, <1>7 DEF Few, InHand, Oldest, Recorded
<1>11. \A l : Reserved(mb, r, D, l, K) => Reserved(mc, r, D, l, K)
  <2> SUFFICES ASSUME NEW l, Reserved(mb, r, D, l, K),
                      NEW y \in l, NEW x \in Live(mb, r), x < y
               PROVE  x \in l \cup K \/ mc[x].state = "delivered"
    BY <1>5 DEF Reserved
  <2>1. x \in l \cup K \/ mb[x].state = "delivered"
    BY DEF Reserved
  <2>2. x \in S => mb[x].state # "delivered"
    BY <1>3 DEF Open
  <2> QED BY <2>1, <2>2, <1>6
<1>12. Fine(mc, r, D, L, K, e, H)
  BY <1>8, <1>9, <1>10, <1>11 DEF Fine
<1> QED BY <1>2, <1>3, <1>12 DEF S, mc, e

\* acknowledge: every row of the batch is on disk, and nothing else is in hand.
LEMMA FineAcknowledge ==
  ASSUME NEW mb \in Box, NEW r, NEW D, NEW L, NEW K, NEW b, NEW H, Fine(mb, r, D, L, K, b, H),
         b.step = "recorded"
  PROVE  Fine(Set(mb, b.rows, "delivered"), r, D, L, K, NoBatch, H)
<1> DEFINE mc == Set(mb, b.rows, "delivered")
<1>1. /\ Len(mc) = Len(mb) /\ Len(mb) \in Nat
      /\ \A m \in 1..Len(mb) : /\ mc[m].to = mb[m].to
                               /\ mc[m].state = IF m \in b.rows THEN "delivered" ELSE mb[m].state
  BY SetFacts
<1> HIDE DEF mc
<1>2. b.rows = Delivering(mb, r) /\ b.rows \subseteq D /\ b.rows \subseteq Live(mb, r)
  BY DEF Fine, Oldest, InHand, Recorded, Delivering
<1>3. Live(mc, r) = Live(mb, r)
  BY <1>1, <1>2 DEF Live
<1>4. \A m \in Live(mb, r) : mc[m].state = IF m \in b.rows THEN "delivered" ELSE mb[m].state
  BY <1>1 DEF Live
<1>5. Delivering(mc, r) = {}
  BY <1>2, <1>3, <1>4 DEF Delivering
<1>6. \A T : Foremost(mb, r, T) => Foremost(mc, r, T)
  BY <1>3, <1>4 DEF Foremost
<1>7. Acked(mc, r, D)
  BY <1>2, <1>3, <1>4 DEF Fine, Acked
<1>8. Few(mc, r) /\ InHand(mc, r, NoBatch) /\ Oldest(mc, r, NoBatch) /\ Recorded(D, NoBatch)
  BY <1>5 DEF Few, InHand, Oldest, Recorded, NoBatch
<1>9. \A l : Reserved(mb, r, D, l, K) => Reserved(mc, r, D, l, K)
  BY <1>3, <1>4 DEF Reserved
<1>10. Fine(mc, r, D, L, K, NoBatch, H)
  BY <1>6, <1>7, <1>8, <1>9 DEF Fine
<1> QED BY <1>10 DEF mc

\* A delivery is given up, writers lose what they keep, a process ends.
LEMMA FineForgets ==
  ASSUME NEW mb, NEW r, NEW D, NEW L, NEW K, NEW b, NEW H, Fine(mb, r, D, L, K, b, H),
         NEW M, \A w \in Writer : M[w] \in {L[w], {}},
         NEW G \in SUBSET H, \A w \in G : M[w] = L[w],
         NEW e \in {b, NoBatch}
  PROVE  Fine(mb, r, D, M, K, e, G)
<1>1. Foremost(mb, r, D) /\ \A w \in Writer : Foremost(mb, r, D \cup M[w])
  <2> SUFFICES ASSUME NEW w \in Writer PROVE Foremost(mb, r, D \cup M[w])
    BY DEF Fine
  <2>1. M[w] = {} => D \cup M[w] = D
    OBVIOUS
  <2> QED BY <2>1 DEF Fine
<1>2. Oldest(mb, r, e) /\ Recorded(D, e) /\ InHand(mb, r, e)
  BY DEF Fine, Oldest, Recorded, InHand, NoBatch
<1> QED BY <1>1, <1>2 DEF Fine

\* What is on disk is known: a conversation is read from its transcript.
LEMMA FineHydrate ==
  ASSUME NEW mb, NEW r, NEW D, NEW L, NEW K, NEW b, NEW H, Fine(mb, r, D, L, K, b, H),
         NEW G \in SUBSET Writer
  PROVE  Fine(mb, r, D, L, D, b, G)
<1>1. ASSUME NEW w \in Writer
      PROVE  Reserved(mb, r, D, L[w], D)
  <2>1. Foremost(mb, r, D \cup L[w])
    BY DEF Fine
  <2> QED BY <2>1 DEF Foremost, Reserved
<1> QED BY <1>1 DEF Fine

\* Two fronts are one.
LEMMA ForemostUnion ==
  ASSUME NEW mb, NEW r, NEW S, NEW T, Foremost(mb, r, S), Foremost(mb, r, T)
  PROVE  Foremost(mb, r, S \cup T)
BY DEF Foremost

\* Only w keeps something else.
ButFor(L, M, w) == \A v \in Writer : v # w => M[v] = L[v]

\* What a writer kept comes, its first rows or all of it.
LEMMA FineCatchUp ==
  ASSUME NEW mb, NEW r, NEW D, NEW L, NEW K, NEW b, NEW H, Fine(mb, r, D, L, K, b, H),
         NEW w \in Writer, NEW T, Begins(T, L[w] \ D),
         NEW M, ButFor(L, M, w), M[w] = L[w] \/ (M[w] = {} /\ T = L[w] \ D)
  PROVE  Fine(mb, r, D \cup T, M, K, b, H)
<1>1. Foremost(mb, r, D \cup T)
  <2>1. Foremost(mb, r, D) /\ Foremost(mb, r, D \cup L[w])
    BY DEF Fine
  <2> QED BY <2>1 DEF Foremost, Begins
<1>2. ASSUME NEW v \in Writer
      PROVE  Foremost(mb, r, (D \cup T) \cup M[v])
  <2>1. CASE M[v] = {}
    <3>1. (D \cup T) \cup M[v] = D \cup T
      BY <2>1
    <3> QED BY <1>1, <3>1
  <2>2. CASE M[v] = L[v]
    <3>1. Foremost(mb, r, D \cup L[v])
      BY DEF Fine
    <3>2. (D \cup T) \cup M[v] = (D \cup T) \cup (D \cup L[v])
      BY <2>2
    <3> QED BY <1>1, <3>1, <3>2, ForemostUnion
  <2> QED BY <2>1, <2>2 DEF ButFor
<1>3. ASSUME NEW v \in H
      PROVE  v \in Writer /\ Reserved(mb, r, D \cup T, M[v], K)
  <2>1. v \in Writer /\ Reserved(mb, r, D, L[v], K)
    BY DEF Fine
  <2>2. K \subseteq D \cup L[v]
    BY <2>1 DEF Reserved
  <2>3. CASE M[v] = L[v]
    BY <2>1, <2>3 DEF Reserved
  <2>4. CASE v = w /\ M[v] = {} /\ T = L[w] \ D
    BY <2>1, <2>2, <2>4 DEF Reserved
  <2> QED BY <2>1, <2>3, <2>4 DEF ButFor
<1>4. Recorded(D \cup T, b) /\ Acked(mb, r, D \cup T)
  BY DEF Fine, Recorded, Acked
<1> QED BY <1>1, <1>2, <1>3, <1>4 DEF Fine

\* With the rows of the batch that are not known the writer holds a front.
LEMMA HoldsFront ==
  ASSUME NEW mb \in Box, NEW r, NEW D, NEW L, NEW K, NEW b, NEW H, Fine(mb, r, D, L, K, b, H),
         NEW w \in H
  PROVE  /\ Foremost(mb, r, D \cup (L[w] \cup (b.rows \ K)))
         /\ K \cup b.rows \subseteq D \cup (L[w] \cup (b.rows \ K))
<1> DEFINE F == b.rows \ K
           P == L[w] \cup F
<1>1. /\ Foremost(mb, r, D \cup L[w]) /\ Reserved(mb, r, D, L[w], K)
      /\ Oldest(mb, r, b) /\ Acked(mb, r, D)
  BY DEF Fine
<1>2. K \cup b.rows \subseteq D \cup P
  BY <1>1 DEF Reserved
<1>3. b.rows \subseteq Live(mb, r) /\ \A m \in b.rows : mb[m].state = "delivering"
  BY <1>1 DEF Oldest, Delivering
<1>4. ASSUME NEW m \in b.rows, NEW k \in Live(mb, r), k < m
      PROVE  k \in D \cup P
  <2>1. CASE mb[k].state = "delivered"
    BY <2>1, <1>1 DEF Acked
  <2>2. CASE mb[k].state # "delivered"
    <3>1. mb[k].state \in {"queued", "delivering", "delivered", "cancelled"}
      BY BoxRow DEF Live
    <3>2. k \in Open(mb, r)
      BY <2>2, <3>1 DEF Live, Open
    <3>3. k \in b.rows
      BY <3>2, <1>1, <1>4 DEF Oldest
    <3> QED BY <3>3, <1>2
  <2> QED BY <2>1, <2>2
<1> HIDE DEF P
<1>5. D \cup P = (D \cup L[w]) \cup F /\ F \subseteq b.rows
  BY DEF P
<1> HIDE DEF F
<1>6. Foremost(mb, r, D \cup P)
  BY <1>1, <1>3, <1>4, <1>5 DEF Foremost
<1> QED BY <1>2, <1>6 DEF P, F

\* Some of what the writer holds is written, from the first row that is not on
\* disk; then it is a front that is on disk.
LEMMA WrittenFront ==
  ASSUME NEW mb, NEW r, NEW D, NEW P, Foremost(mb, r, D), Foremost(mb, r, D \cup P),
         NEW T \in SUBSET P, \A i \in T, j \in P \ D : j < i => j \in T
  PROVE  Foremost(mb, r, D \cup T)
BY DEF Foremost

\* The append fails after some rows.
LEMMA RecordFails ==
  ASSUME NEW mb \in Box, NEW r, NEW D, NEW L, NEW K, NEW b, NEW H, Fine(mb, r, D, L, K, b, H),
         NEW w \in H, \A v \in H : v = w,
         NEW T \in SUBSET (L[w] \cup (b.rows \ K)),
         \A i \in T, j \in (L[w] \cup (b.rows \ K)) \ D : j < i => j \in T,
         NEW M, ButFor(L, M, w), M[w] = L[w] \cup (b.rows \ K)
  PROVE  Fine(mb, r, D \cup T, M, K \cup b.rows, NoBatch, H)
<1> DEFINE P == L[w] \cup (b.rows \ K)
<1>1. Foremost(mb, r, D \cup P) /\ K \cup b.rows \subseteq D \cup P
  BY HoldsFront
<1>2. Foremost(mb, r, D)
  BY DEF Fine
<1>3. Foremost(mb, r, D \cup T)
  BY <1>1, <1>2, WrittenFront
<1>4. ASSUME NEW v \in Writer
      PROVE  Foremost(mb, r, (D \cup T) \cup M[v])
  <2>1. CASE v = w
    <3>1. (D \cup T) \cup M[v] = (D \cup T) \cup (D \cup P)
      BY <2>1
    <3> QED BY <1>1, <1>3, <3>1, ForemostUnion
  <2>2. CASE v # w
    <3>1. Foremost(mb, r, D \cup L[v])
      BY DEF Fine
    <3>2. (D \cup T) \cup M[v] = (D \cup T) \cup (D \cup L[v])
      BY <2>2 DEF ButFor
    <3> QED BY <1>3, <3>1, <3>2, ForemostUnion
  <2> QED BY <2>1, <2>2
<1>5. Reserved(mb, r, D \cup T, P, K \cup b.rows)
  <2> SUFFICES ASSUME NEW y \in P, NEW x \in Live(mb, r), x < y
               PROVE  x \in P \cup (K \cup b.rows) \/ mb[x].state = "delivered"
    BY <1>1 DEF Reserved
  <2>1. CASE y \in L[w]
    BY <2>1 DEF Fine, Reserved
  <2>2. CASE y \in b.rows
    <3>1. mb[x].state \in {"queued", "delivering", "delivered", "cancelled"}
      BY BoxRow DEF Live
    <3>2. x \in Open(mb, r) \/ mb[x].state = "delivered"
      BY <3>1 DEF Live, Open
    <3> QED BY <2>2, <3>2 DEF Fine, Oldest
  <2> QED BY <2>1, <2>2
<1>6. \A v \in H : v \in Writer /\ Reserved(mb, r, D \cup T, M[v], K \cup b.rows)
  BY <1>5 DEF Fine
<1>7. /\ Oldest(mb, r, NoBatch) /\ Recorded(D \cup T, NoBatch) /\ InHand(mb, r, NoBatch)
      /\ Acked(mb, r, D \cup T)
  BY DEF Fine, Oldest, Recorded, InHand, NoBatch, Acked
<1> QED BY <1>3, <1>4, <1>6, <1>7 DEF Fine

\* All that the writer holds is written.
LEMMA RecordWorks ==
  ASSUME NEW mb \in Box, NEW r, NEW D, NEW L, NEW K, NEW b, NEW H, Fine(mb, r, D, L, K, b, H),
         NEW w \in H, \A v \in H : v = w,
         NEW T, D \cup T = D \cup (L[w] \cup (b.rows \ K)),
         NEW M, ButFor(L, M, w), M[w] = {}, b.step # "none"
  PROVE  Fine(mb, r, D \cup T, M, K \cup b.rows, [step |-> "recorded", rows |-> b.rows], H)
<1> DEFINE P == L[w] \cup (b.rows \ K)
           e == [step |-> "recorded", rows |-> b.rows]
<1>1. Foremost(mb, r, D \cup T) /\ K \cup b.rows \subseteq D \cup T
  BY HoldsFront
<1>2. ASSUME NEW v \in Writer
      PROVE  Foremost(mb, r, (D \cup T) \cup M[v])
  <2>1. CASE v = w
    <3>1. (D \cup T) \cup M[v] = D \cup T
      BY <2>1
    <3> QED BY <1>1, <3>1
  <2>2. CASE v # w
    <3>1. Foremost(mb, r, D \cup L[v])
      BY DEF Fine
    <3>2. (D \cup T) \cup M[v] = (D \cup T) \cup (D \cup L[v])
      BY <2>2 DEF ButFor
    <3> QED BY <1>1, <3>1, <3>2, ForemostUnion
  <2> QED BY <2>1, <2>2
<1>3. \A v \in H : v \in Writer /\ Reserved(mb, r, D \cup T, M[v], K \cup b.rows)
  BY <1>1 DEF Fine, Reserved
<1>4. e.step = "recorded" /\ e.rows = b.rows
  OBVIOUS
<1> HIDE DEF e
<1>5. /\ Oldest(mb, r, e) /\ Recorded(D \cup T, e) /\ InHand(mb, r, e) /\ Acked(mb, r, D \cup T)
  BY <1>1, <1>4 DEF Fine, Oldest, Recorded, InHand, Acked
<1>6. Fine(mb, r, D \cup T, M, K \cup b.rows, e, H)
  BY <1>1, <1>2, <1>3, <1>5 DEF Fine
<1> QED BY <1>6 DEF e

-----------------------------------------------------------------------------
\* The steps of the mail.

\* A failing transaction or a dying process of the mail is a fault like another.
LEMMA FaultOnly ==
  ASSUME RunsInv, Fault, UNCHANGED <<agents, attempts, closed, lease, pc, job, todo, own>>
  PROVE  RunsInv'
<1>1. faults' \in 0..MaxFaults
  BY FaultBound DEF RunsInv, RunsTypeOK
<1> QED BY <1>1 DEF RunsInv, RunsTypeOK, OneLease, Owned, Holds, Current, Runs,
              Distinct, Within, Disjoint, Active, Emptied

\* Every step of the mail is one of the runs, or leaves all of it but the faults.
LEMMA MailStepRuns ==
  ASSUME RunsInv, [MailNext]_allVars
  PROVE  RunsInv'
<1>1. CASE UNCHANGED allVars
  <2>1. UNCHANGED runVars
    BY <1>1 DEF allVars
  <2> QED BY <2>1, RunsStep
<1>2. CASE \E c \in Call : (Begin(c) /\ UNCHANGED mailVars) \/ RunStep(c) \/ Death(c)
  <2>1. PICK c \in Call : Begin(c) \/ RunStep(c) \/ Death(c)
    BY <1>2
  <2>2. Begin(c) \/ CallStep(c) \/ Die(c)
    BY <2>1 DEF RunStep, Elsewhere, Deletion, Settlement, Admission, Death, CallStep
  <2>3. RunsNext
    BY <2>2 DEF RunsNext
  <2> QED BY <2>3, RunsStep
<1>3. CASE \E r \in Recipient : Send(r) \/ Deliver(r) \/ \E w \in Writer : CatchUp(w, r)
  <2> DEFINE Aside == UNCHANGED runVars
                      \/ (Fault /\ UNCHANGED <<agents, attempts, closed, lease, pc, job, todo, own>>)
  <2>1. PICK r \in Recipient : Send(r) \/ Deliver(r) \/ \E w \in Writer : CatchUp(w, r)
    BY <1>3
  <2>2. (\E w \in Writer : CatchUp(w, r)) => Aside
    BY DEF CatchUp
  <2>3. ASSUME NEW w \in Writer, Record(w, r) PROVE Aside
    BY <2>3 DEF Record, runVars
  <2>4. Send(r) \/ Claim(r) \/ Acknowledge(r) => Aside
    BY DEF Send, Claim, Acknowledge, runVars
  <2>5. Aside
    BY <2>1, <2>2, <2>3, <2>4 DEF Deliver
  <2> QED BY <2>5, RunsStep, FaultOnly
<1>4. CASE (\E i \in 1..MaxSent : RemoveMessage(i)) \/ ParentReloads \/ ParentDies
  <2>1. UNCHANGED runVars \/ (Fault /\ UNCHANGED <<agents, attempts, closed, lease, pc, job, todo, own>>)
    BY <1>4 DEF RemoveMessage, ParentReloads, ParentDies, runVars
  <2> QED BY <2>1, RunsStep, FaultOnly
<1> QED BY <1>1, <1>2, <1>3, <1>4 DEF MailNext

-----------------------------------------------------------------------------
MailRest == MailShapes /\ \A r \in Recipient : Standing(r) /\ Hosted(r)

\* The processes go on in which recipients are.
SameRuns == \A d \in Call : /\ pc'[d] = "run" <=> pc[d] = "run"
                            /\ pc[d] = "run" => job'[d] = job[d]

\* Then they are where they were.
LEMMA SameHosting ==
  ASSUME SameRuns
  PROVE  \A r : Hosting(r)' = Hosting(r)
<1>1. \A r, d : d \in Call => (Executes(d, r)' <=> Executes(d, r))
  BY DEF SameRuns, Executes
<1> QED BY <1>1 DEF Hosting, Hosts

\* An agent is in one process at a time, and in a process that delivers to it.
LEMMA OneHost ==
  ASSUME RunsInv, NEW r \in Recipient, NEW v \in Hosting(r), NEW w \in Hosting(r)
  PROVE  v = w
<1>1. CASE r = Parent
  BY <1>1 DEF Hosting, Hosts
<1>2. CASE r # Parent
  <2>1. r \in Agent /\ v \in Call /\ w \in Call /\ Executes(v, r) /\ Executes(w, r)
    BY <1>2 DEF Hosting, Hosts, Recipient
  <2>2. lease[r] = v /\ lease[r] = w
    BY <2>1 DEF RunsInv, Holds, Executes
  <2> QED BY <2>2
<1> QED BY <1>1, <1>2

\* The mailbox alone changes, or nothing of the mail.
LEMMA BoxChanges ==
  ASSUME MailRest, UNCHANGED <<closed, disk, left, known, batch>>, SameRuns, mailbox' \in Box,
         \/ mailbox' = mailbox
         \/ ~closed /\ \A r, D, L, K, b, H : Fine(mailbox, r, D, L, K, b, H)
                                          => Fine(mailbox', r, D, L, K, b, H)
  PROVE  MailRest'
<1>1. MailShapes'
  BY DEF MailRest, MailShapes
<1>2. \A r : OnDisk(r)' = OnDisk(r) /\ WithWriter(r)' = WithWriter(r) /\ Hosting(r)' = Hosting(r)
  BY SameHosting DEF OnDisk, WithWriter
<1>3. \A r \in Recipient : Hosted(r)'
  BY <1>2 DEF MailRest, Hosted
<1>4. \A r \in Recipient : Standing(r)'
  BY <1>2 DEF MailRest, Standing
<1> QED BY <1>1, <1>3, <1>4 DEF MailRest

\* What writers keep for one recipient changes.
KeptFor(r, M) ==
  /\ left' \in [Writer -> [Recipient -> Conv]]
  /\ \A w \in Writer, x \in Recipient : Rising(left'[w][x])
  /\ \A w \in Writer, x \in Recipient \ {r} : left'[w][x] = left[w][x]
  /\ M = [w \in Writer |-> ToSet(left'[w][r])]

\* One recipient and its mail change.
LEMMA OneChanges ==
  ASSUME MailRest, UNCHANGED closed, ~closed, SameRuns, mailbox' \in Box,
         NEW r \in Recipient, NEW c \in Conv, NEW M, NEW K \in SUBSET Row, NEW b \in Batch,
         disk' = [disk EXCEPT ![r] = c], KeptFor(r, M), known' = [known EXCEPT ![r] = K],
         batch' = [batch EXCEPT ![r] = b], b = NoBatch \/ (b.step # "none" /\ Hosting(r) # {}),
         Fine(mailbox', r, ToSet(c), M, K, b, Hosting(r)),
         \A x \in Recipient \ {r} : Agree(mailbox, mailbox', x)
  PROVE  MailRest'
<1>1. MailShapes'
  BY DEF MailRest, MailShapes, KeptFor
<1>2. disk'[r] = c /\ known'[r] = K /\ batch'[r] = b
  BY DEF MailRest, MailShapes
<1>3. \A x \in Recipient \ {r} : disk'[x] = disk[x] /\ known'[x] = known[x] /\ batch'[x] = batch[x]
  BY DEF MailRest, MailShapes
<1>4. \A x : Hosting(x)' = Hosting(x)
  BY SameHosting
<1>5. \A x \in Recipient \ {r} : OnDisk(x)' = OnDisk(x) /\ WithWriter(x)' = WithWriter(x)
  BY <1>3 DEF OnDisk, WithWriter, KeptFor
<1>6. OnDisk(r)' = ToSet(c) /\ WithWriter(r)' = M
  BY <1>2 DEF OnDisk, WithWriter, KeptFor
<1>7. ASSUME NEW x \in Recipient \ {r}
      PROVE  Standing(x)' /\ Hosted(x)'
  <2>1. Fine(mailbox, x, OnDisk(x), WithWriter(x), known[x], batch[x], Hosting(x)) /\ Hosted(x)
    BY DEF MailRest, Standing
  <2>2. Fine(mailbox', x, OnDisk(x), WithWriter(x), known[x], batch[x], Hosting(x))
    BY <2>1, FineAgree
  <2>3. Standing(x)'
    BY <2>2, <1>3, <1>4, <1>5 DEF Standing
  <2>4. Hosted(x)'
    BY <2>1, <1>3, <1>4 DEF Hosted
  <2> QED BY <2>3, <2>4
<1>8. Standing(r)'
  BY <1>2, <1>4, <1>6 DEF Standing
<1>9. Hosted(r)'
  BY <1>2, <1>4 DEF Hosted
<1> QED BY <1>1, <1>7, <1>8, <1>9 DEF MailRest

\* The mail of nobody else changes.
LEMMA KeptSame ==
  ASSUME MailRest, UNCHANGED left, NEW r
  PROVE  KeptFor(r, WithWriter(r))
BY DEF MailRest, MailShapes, KeptFor, WithWriter

\* A mailbox that does not change.
LEMMA AgreeSelf == \A mb, x : Agree(mb, mb, x)
BY DEF Agree

\* send adds a row.
LEMMA SendRest ==
  ASSUME MailRest, NEW r \in Recipient, Send(r)
  PROVE  MailRest'
<1>1. mailbox \in Box
  BY DEF MailRest, MailShapes
<1>2. mailbox' = Append(mailbox, [to |-> r, state |-> "queued"]) /\ ~closed
      /\ UNCHANGED <<closed, disk, left, known, batch, pc, job>>
  BY DEF Send, runVars
<1>3. mailbox' \in Box /\ SameRuns
  BY <1>1, <1>2, BoxGrows DEF SameRuns
<1>4. \A x, D, L, K, b, H : Fine(mailbox, x, D, L, K, b, H) => Fine(mailbox', x, D, L, K, b, H)
  BY <1>1, <1>2, FineGrows
<1> QED BY <1>2, <1>3, <1>4, BoxChanges

\* There is a recipient, so a deleted session has no mailbox.
LEMMA OpenWithMail ==
  ASSUME MailRest, NEW i \in 1..Len(mailbox)
  PROVE  ~closed
<1>1. mailbox = <<>> => 1..Len(mailbox) = {}
  OBVIOUS
<1>2. Parent \in Recipient
  BY DEF Recipient
<1> QED BY <1>1, <1>2 DEF MailRest, Standing

\* remove_message withdraws a row that nobody has claimed.
LEMMA RemoveRest ==
  ASSUME MailRest, NEW i, RemoveMessage(i)
  PROVE  MailRest'
<1>1. mailbox \in Box /\ i \in 1..Len(mailbox) /\ mailbox[i].state = "queued"
  BY DEF MailRest, MailShapes, RemoveMessage
<1>2. mailbox' = Set(mailbox, {i}, "cancelled") /\ UNCHANGED <<closed, disk, left, known, batch, pc, job>>
  BY DEF RemoveMessage, SetState, Set, runVars
<1>3. ~closed
  BY <1>1, OpenWithMail
<1>4. mailbox' \in Box /\ SameRuns
  BY <1>1, <1>2, SetFacts DEF SameRuns
<1>5. \A x, D, L, K, b, H : Fine(mailbox, x, D, L, K, b, H) => Fine(mailbox', x, D, L, K, b, H)
  BY <1>1, <1>2, FineWithdraw
<1> QED BY <1>2, <1>3, <1>4, <1>5, BoxChanges

\* claim_messages takes the oldest rows, where the recipient is.
LEMMA ClaimRest ==
  ASSUME MailRest, NEW r \in Recipient, Claim(r)
  PROVE  MailRest'
<1> DEFINE S == Lowest(BatchLimit, Undelivered(r))
           b == [step |-> "claimed", rows |-> S]
<1>1. /\ mailbox \in Box /\ disk[r] \in Conv /\ known[r] \in SUBSET Row
      /\ disk \in [Recipient -> Conv] /\ known \in [Recipient -> SUBSET Row]
  BY DEF MailRest, MailShapes
<1>2. /\ mailbox' = Set(mailbox, S, "delivering") /\ batch' = [batch EXCEPT ![r] = b]
      /\ ~closed /\ UNCHANGED <<closed, disk, left, known, pc, job>> /\ Owner(r)
  BY DEF Claim, SetState, Set, Owner, runVars
<1>3. Undelivered(r) = Open(mailbox, r)
  BY DEF Undelivered, Open
<1>4. Fine(mailbox, r, OnDisk(r), WithWriter(r), known[r], batch[r], Hosting(r))
  BY <1>2 DEF MailRest, Standing
<1>5. /\ Fine(mailbox', r, OnDisk(r), WithWriter(r), known[r], b, Hosting(r))
      /\ S \subseteq Live(mailbox, r)
  BY <1>1, <1>2, <1>3, <1>4, FineClaim
<1>6. Hosting(r) # {}
  <2>1. CASE r = Parent
    BY <2>1 DEF Hosting, Hosts, Writer
  <2>2. CASE r # Parent
    <3>1. \E c \in Call : Executes(c, r)
      BY <1>2, <2>2 DEF Owner, Recipient
    <3> QED BY <3>1, <2>2 DEF Hosting, Hosts, Writer
  <2> QED BY <2>1, <2>2
<1>7. \A m \in S : m \in Nat
  BY <1>5 DEF Live
<1>8. b \in Batch /\ b.step # "none"
  BY <1>7 DEF Batch
<1> HIDE DEF S
<1>9. mailbox' \in Box /\ \A x \in Recipient \ {r} : Agree(mailbox, mailbox', x)
  BY <1>1, <1>2, <1>5, SetFacts, SetAgrees
<1>10. disk' = [disk EXCEPT ![r] = disk[r]] /\ known' = [known EXCEPT ![r] = known[r]] /\ SameRuns
  BY <1>1, <1>2 DEF SameRuns
<1>11. KeptFor(r, WithWriter(r))
  BY <1>2, KeptSame
<1> HIDE DEF b
<1> QED BY <1>1, <1>2, <1>5, <1>6, <1>8, <1>9, <1>10, <1>11, OneChanges DEF OnDisk

\* acknowledge, or its transaction fails.
LEMMA AcknowledgeRest ==
  ASSUME MailRest, NEW r \in Recipient, Acknowledge(r)
  PROVE  MailRest'
<1>1. /\ mailbox \in Box /\ disk[r] \in Conv /\ known[r] \in SUBSET Row
      /\ disk \in [Recipient -> Conv] /\ known \in [Recipient -> SUBSET Row]
  BY DEF MailRest, MailShapes
<1>2. /\ batch[r].step = "recorded" /\ UNCHANGED <<closed, left, pc, job>>
      /\ disk' = [disk EXCEPT ![r] = disk[r]] /\ known' = [known EXCEPT ![r] = known[r]]
      /\ batch' = [batch EXCEPT ![r] = NoBatch]
  BY <1>1 DEF Acknowledge
<1>3. ~closed /\ SameRuns
  BY <1>2 DEF MailRest, Standing, NoBatch, SameRuns
<1>4. Fine(mailbox, r, OnDisk(r), WithWriter(r), known[r], batch[r], Hosting(r))
  BY <1>3 DEF MailRest, Standing
<1>5. NoBatch \in Batch /\ KeptFor(r, WithWriter(r))
  BY <1>2, KeptSame DEF NoBatch, Batch
<1>6. CASE mailbox' = mailbox
  <2>1. Fine(mailbox', r, OnDisk(r), WithWriter(r), known[r], NoBatch, Hosting(r))
    BY <1>4, <1>6, FineForgets
  <2>2. \A x \in Recipient \ {r} : Agree(mailbox, mailbox', x)
    BY <1>6, AgreeSelf
  <2> QED BY <1>1, <1>2, <1>3, <1>5, <1>6, <2>1, <2>2, OneChanges DEF OnDisk
<1>7. CASE SetState(batch[r].rows, "delivered")
  <2>1. mailbox' = Set(mailbox, batch[r].rows, "delivered")
    BY <1>7 DEF SetState, Set
  <2>2. Fine(mailbox', r, OnDisk(r), WithWriter(r), known[r], NoBatch, Hosting(r)) /\ mailbox' \in Box
    BY <1>1, <1>2, <1>4, <2>1, FineAcknowledge, SetFacts
  <2>3. batch[r].rows \subseteq Live(mailbox, r)
    BY <1>4 DEF Fine, Oldest, Delivering
  <2>4. \A x \in Recipient \ {r} : Agree(mailbox, mailbox', x)
    BY <1>1, <2>1, <2>3, SetAgrees
  <2> QED BY <1>1, <1>2, <1>3, <1>5, <2>2, <2>4, OneChanges DEF OnDisk
<1> QED BY <1>6, <1>7 DEF Acknowledge

\* T is appended to the transcript of r, in order.
Brings(r, T) == \E t : Lists(t, T) /\ disk' = [disk EXCEPT ![r] = disk[r] \o t]

\* Then it is on disk.
LEMMA BroughtOnDisk ==
  ASSUME MailShapes, NEW r \in Recipient, NEW t, NEW T, Lists(t, T)
  PROVE  disk[r] \o t \in Conv /\ ToSet(disk[r] \o t) = OnDisk(r) \cup T
<1>1. disk[r] \in Conv /\ t \in Conv /\ ToSet(t) = T
  BY DEF MailShapes, Lists
<1> QED BY <1>1, Joined DEF OnDisk

\* What a writer keeps for a recipient, as a set.
LEMMA KeptLists ==
  ASSUME MailShapes, NEW w \in Writer, NEW r \in Recipient
  PROVE  /\ left[w][r] \in Conv /\ Lists(left[w][r], WithWriter(r)[w])
         /\ left[w][r] = <<>> => WithWriter(r)[w] = {}
<1>1. left[w][r] \in Conv /\ Rising(left[w][r]) /\ WithWriter(r)[w] = ToSet(left[w][r])
  BY DEF MailShapes, WithWriter
<1>2. ASSUME left[w][r] = <<>> PROVE ToSet(left[w][r]) = {}
  <2>1. Len(left[w][r]) = 0
    BY <1>2
  <2> QED BY <2>1, <1>1, InSeq
<1> QED BY <1>1, <1>2 DEF Lists

\* Writer w keeps s for r, and everything else as before.
LEMMA KeptChanges ==
  ASSUME MailRest, NEW w \in Writer, NEW r \in Recipient, NEW s, NEW S, Lists(s, S),
         left' = [left EXCEPT ![w][r] = s]
  PROVE  /\ KeptFor(r, WithWriter(r)') /\ ButFor(WithWriter(r), WithWriter(r)', w)
         /\ WithWriter(r)'[w] = S
<1>1. s \in Conv /\ Rising(s) /\ ToSet(s) = S
  BY DEF Lists
<1>2. left \in [Writer -> [Recipient -> Conv]] /\ \A v \in Writer, x \in Recipient : Rising(left[v][x])
  BY DEF MailRest, MailShapes
<1>3. left' \in [Writer -> [Recipient -> Conv]]
  BY <1>1, <1>2
<1>4. \A v \in Writer, x \in Recipient : left'[v][x] = IF v = w /\ x = r THEN s ELSE left[v][x]
  BY <1>2
<1>5. KeptFor(r, WithWriter(r)')
  BY <1>1, <1>2, <1>3, <1>4 DEF KeptFor, WithWriter
<1>6. \A v \in Writer : WithWriter(r)'[v] = IF v = w THEN S ELSE WithWriter(r)[v]
  BY <1>1, <1>4 DEF WithWriter
<1> QED BY <1>5, <1>6 DEF ButFor

\* What the writer holds with the rows of a batch.
Held(w, r) == WithWriter(r)[w] \cup (batch[r].rows \ known[r])

\* It holds them in order: what it kept comes before what it is handed now,
\* because what is between what it kept is known or acknowledged.
LEMMA QueueLists ==
  ASSUME MailShapes, NEW r \in Recipient, NEW w \in Hosting(r),
         Fine(mailbox, r, OnDisk(r), WithWriter(r), known[r], batch[r], Hosting(r))
  PROVE  /\ Lists(Queue(w, r), Held(w, r))
         /\ left[w][r] = <<>> => Held(w, r) = batch[r].rows \ known[r]
<1> DEFINE L == WithWriter(r)[w]
           X == Fresh(r) \ L
<1>1. w \in Writer
  BY DEF Hosting
<1>2. Lists(left[w][r], L) /\ (left[w][r] = <<>> => L = {}) /\ L = ToSet(left[w][r])
  BY <1>1, KeptLists DEF WithWriter
<1>3. X = batch[r].rows \ (known[r] \cup L)
  BY DEF Fresh
<1>4. batch[r].rows \subseteq Delivering(mailbox, r) /\ Reserved(mailbox, r, OnDisk(r), L, known[r])
  BY DEF Fine, Oldest
<1>5. Queue(w, r) = left[w][r] \o InOrder(X)
  BY <1>2 DEF Queue
<1>6. \A x \in X : x \in Live(mailbox, r) /\ mailbox[x].state = "delivering" /\ x \in 1..Len(mailbox)
  BY <1>3, <1>4 DEF Delivering, Live
<1>7. \A y \in L : y \in Row
  <2>1. left[w][r] \in Conv /\ ToSet(left[w][r]) = L
    BY <1>2 DEF Lists
  <2> QED BY <2>1, InSeq
<1>8. Held(w, r) = L \cup X
  BY <1>3 DEF Held
<1> HIDE DEF X, L
<1>9. Len(mailbox) \in Nat
  BY LenProperties DEF MailShapes, Box
<1>10. Lists(InOrder(X), X)
  BY <1>6, <1>9, InOrderLists
<1>11. ASSUME NEW y \in L, NEW x \in X
       PROVE  y < x
  <2>1. y \in Nat /\ x \in Nat /\ y # x
    BY <1>3, <1>6, <1>7, <1>9 DEF Row
  <2>2. ~(x < y)
    BY <1>3, <1>4, <1>6 DEF Reserved
  <2> QED BY <2>1, <2>2
<1>12. Lists(left[w][r] \o InOrder(X), L \cup X)
  BY <1>2, <1>10, <1>11, ListsJoined
<1>13. left[w][r] = <<>> => Held(w, r) = batch[r].rows \ known[r]
  BY <1>2, <1>3, <1>8
<1> QED BY <1>5, <1>8, <1>12, <1>13

\* T is written of what the writer holds: from its first row that is not on disk
\* on, and again only what no conversation has.
Written(w, r, T) ==
  /\ T \subseteq Held(w, r)
  /\ \A i \in T, j \in Held(w, r) \ OnDisk(r) : j < i => j \in T
  /\ T \cap OnDisk(r) \subseteq batch[r].rows \ known[r]

\* What is appended of what the writer holds.
LEMMA AppendsWritten ==
  ASSUME MailShapes, NEW r \in Recipient, NEW w \in Hosting(r),
         Fine(mailbox, r, OnDisk(r), WithWriter(r), known[r], batch[r], Hosting(r)),
         NEW n \in 0..Len(Appends(w, r, Queue(w, r)))
  PROVE  /\ \E T : Written(w, r, T) /\ Lists(SubSeq(Appends(w, r, Queue(w, r)), 1, n), T)
         /\ \E T : /\ Written(w, r, T) /\ Lists(Appends(w, r, Queue(w, r)), T)
                   /\ OnDisk(r) \cup T = OnDisk(r) \cup Held(w, r)
<1> DEFINE rows == Appends(w, r, Queue(w, r))
           P == Held(w, r)
<1>1. Lists(Queue(w, r), P) /\ (left[w][r] = <<>> => P = batch[r].rows \ known[r])
  BY QueueLists
<1>2. \E Q : /\ Lists(rows, Q) /\ Q \subseteq P /\ P \ OnDisk(r) \subseteq Q
             /\ Q \cap OnDisk(r) \subseteq batch[r].rows \ known[r]
  <2>1. CASE left[w][r] = <<>>
    <3>1. rows = Queue(w, r)
      BY <2>1 DEF Appends
    <3> QED BY <2>1, <3>1, <1>1
  <2>2. CASE left[w][r] # <<>>
    <3>1. rows = Without(Queue(w, r), OnDisk(r))
      BY <2>2 DEF Appends, OnDisk
    <3>2. Lists(rows, P \ OnDisk(r))
      BY <3>1, <1>1, ListsWithout
    <3> HIDE DEF rows, P
    <3> QED BY <3>2
  <2> QED BY <2>1, <2>2
<1> HIDE DEF rows
<1>3. PICK Q : /\ Lists(rows, Q) /\ Q \subseteq P /\ P \ OnDisk(r) \subseteq Q
               /\ Q \cap OnDisk(r) \subseteq batch[r].rows \ known[r]
  BY <1>2
<1>4. Written(w, r, Q) /\ OnDisk(r) \cup Q = OnDisk(r) \cup P
  BY <1>3 DEF Written
<1>5. PICK T : Lists(SubSeq(rows, 1, n), T) /\ Begins(T, Q)
  BY <1>3, ListsPrefix DEF rows
<1>6. Written(w, r, T)
  BY <1>3, <1>5 DEF Written, Begins
<1> QED BY <1>3, <1>4, <1>5, <1>6 DEF rows

\* record_transcript and flush: what it does.
Recording(w, r, T) ==
  /\ Written(w, r, T) /\ Brings(r, T)
  /\ known' = [known EXCEPT ![r] = known[r] \cup batch[r].rows]
  /\ \/ /\ OnDisk(r) \cup T = OnDisk(r) \cup Held(w, r)
        /\ left' = [left EXCEPT ![w][r] = <<>>]
        /\ batch' = [batch EXCEPT ![r] = [step |-> "recorded", rows |-> batch[r].rows]]
     \/ /\ Lists(Queue(w, r), Held(w, r))
        /\ left' = [left EXCEPT ![w][r] = Queue(w, r)]
        /\ batch' = [batch EXCEPT ![r] = NoBatch]

\* In an open session, where the recipient is.
LEMMA RecordFacts ==
  ASSUME MailRest, NEW r \in Recipient, NEW w \in Writer, Record(w, r)
  PROVE  /\ ~closed /\ w \in Hosting(r) /\ batch[r].step = "claimed"
         /\ UNCHANGED <<closed, mailbox, pc, job>>
         /\ Fine(mailbox, r, OnDisk(r), WithWriter(r), known[r], batch[r], Hosting(r))
         /\ \E T : Recording(w, r, T)
<1> DEFINE rows == Appends(w, r, Queue(w, r))
<1>1. /\ MailShapes /\ batch[r] \in Batch /\ known \in [Recipient -> SUBSET Row]
      /\ disk \in [Recipient -> Conv] /\ batch \in [Recipient -> Batch]
  BY DEF MailRest, MailShapes
<1>2. /\ batch[r].step = "claimed" /\ w \in Hosting(r) /\ UNCHANGED <<closed, mailbox, pc, job>>
      /\ known' = [known EXCEPT ![r] = known[r] \cup batch[r].rows]
  BY <1>1 DEF Record, Hosting
<1>3. ~closed
  BY <1>2 DEF MailRest, Standing, NoBatch
<1>4. Fine(mailbox, r, OnDisk(r), WithWriter(r), known[r], batch[r], Hosting(r))
  BY <1>3 DEF MailRest, Standing
<1>5. rows \in Conv /\ Len(rows) \in Nat /\ 0 \in 0..Len(rows)
  <2>1. CASE left[w][r] = <<>>
    BY <2>1, <1>1, <1>2, <1>4, QueueLists, InSeq DEF Appends, Lists
  <2>2. CASE left[w][r] # <<>>
    <3>1. rows = Without(Queue(w, r), OnDisk(r))
      BY <2>2 DEF Appends, OnDisk
    <3>2. Lists(Queue(w, r), Held(w, r))
      BY <1>1, <1>2, <1>4, QueueLists
    <3>3. Lists(rows, Held(w, r) \ OnDisk(r))
      BY <3>1, <3>2, ListsWithout
    <3>4. rows \in Conv
      BY <3>3 DEF Lists
    <3> HIDE DEF rows
    <3> QED BY <3>4, InSeq
  <2> QED BY <2>1, <2>2
<1> HIDE DEF rows
<1>6. CASE /\ disk' = [disk EXCEPT ![r] = @ \o rows]
           /\ left' = [left EXCEPT ![w][r] = <<>>]
           /\ batch' = [batch EXCEPT ![r].step = "recorded"]
  <2>1. PICK T : Written(w, r, T) /\ Lists(rows, T) /\ OnDisk(r) \cup T = OnDisk(r) \cup Held(w, r)
    BY <1>1, <1>2, <1>4, <1>5, AppendsWritten DEF rows
  <2>2. [batch[r] EXCEPT !.step = "recorded"] = [step |-> "recorded", rows |-> batch[r].rows]
    BY <1>1 DEF Batch
  <2>3. batch' = [batch EXCEPT ![r] = [step |-> "recorded", rows |-> batch[r].rows]]
    BY <1>1, <1>6, <2>2
  <2>4. disk' = [disk EXCEPT ![r] = disk[r] \o rows]
    BY <1>1, <1>6
  <2>5. Recording(w, r, T)
    BY <1>2, <1>6, <2>1, <2>3, <2>4 DEF Recording, Brings
  <2> QED BY <1>2, <1>3, <1>4, <2>5
<1>7. CASE /\ \E n \in 0..Len(rows) : disk' = [disk EXCEPT ![r] = @ \o SubSeq(rows, 1, n)]
           /\ left' = [left EXCEPT ![w][r] = Queue(w, r)]
           /\ batch' = [batch EXCEPT ![r] = NoBatch]
  <2>1. PICK n \in 0..Len(rows) : disk' = [disk EXCEPT ![r] = @ \o SubSeq(rows, 1, n)]
    BY <1>7
  <2>2. PICK T : Written(w, r, T) /\ Lists(SubSeq(rows, 1, n), T)
    BY <1>1, <1>2, <1>4, AppendsWritten DEF rows
  <2>3. Lists(Queue(w, r), Held(w, r))
    BY <1>1, <1>2, <1>4, QueueLists
  <2>4. disk' = [disk EXCEPT ![r] = disk[r] \o SubSeq(rows, 1, n)]
    BY <1>1, <2>1
  <2>5. Recording(w, r, T)
    BY <1>2, <1>7, <2>2, <2>3, <2>4 DEF Recording, Brings
  <2> QED BY <1>2, <1>3, <1>4, <2>5
<1> QED BY <1>6, <1>7 DEF Record, rows

\* Nothing is listed by the empty sequence.
LEMMA ListsNothing == Lists(<<>>, {})
<1>1. <<>> \in Conv /\ Len(<<>>) = 0
  BY DEF Conv
<1>2. ToSet(<<>>) = {}
  BY <1>1, InSeq
<1> QED BY <1>1, <1>2 DEF Lists, Rising

\* The rows of the batch are appended, or some of them.
LEMMA RecordRest ==
  ASSUME RunsInv, MailRest, NEW r \in Recipient, NEW w \in Writer, Record(w, r)
  PROVE  MailRest'
<1>1. /\ ~closed /\ w \in Hosting(r) /\ batch[r].step = "claimed"
      /\ UNCHANGED <<closed, mailbox, pc, job>>
      /\ Fine(mailbox, r, OnDisk(r), WithWriter(r), known[r], batch[r], Hosting(r))
  BY RecordFacts
<1>2. PICK T : Recording(w, r, T)
  BY RecordFacts
<1>3. PICK t : Lists(t, T) /\ disk' = [disk EXCEPT ![r] = disk[r] \o t]
  BY <1>2 DEF Recording, Brings
<1>4. MailShapes /\ mailbox \in Box /\ batch[r] \in Batch /\ known[r] \in SUBSET Row
  BY DEF MailRest, MailShapes
<1>5. disk[r] \o t \in Conv /\ ToSet(disk[r] \o t) = OnDisk(r) \cup T
  BY <1>3, <1>4, BroughtOnDisk
<1> DEFINE K == known[r] \cup batch[r].rows
<1>6. K \in SUBSET Row /\ known' = [known EXCEPT ![r] = K]
  <2>1. batch[r].rows \subseteq Live(mailbox, r)
    BY <1>1 DEF Fine, Oldest, Delivering
  <2>2. Live(mailbox, r) \subseteq Row
    <3>1. Len(mailbox) \in Nat
      BY <1>4, LenProperties DEF Box
    <3> QED BY <3>1 DEF Live, Row
  <2> QED BY <2>1, <2>2, <1>2, <1>4 DEF Recording
<1>7. SameRuns /\ \A x \in Recipient \ {r} : Agree(mailbox, mailbox', x)
  BY <1>1, AgreeSelf DEF SameRuns
<1>8. \A v \in Hosting(r) : v = w
  BY <1>1, OneHost
<1>9. Written(w, r, T)
  BY <1>2 DEF Recording
<1> HIDE DEF K
<1>10. CASE /\ OnDisk(r) \cup T = OnDisk(r) \cup Held(w, r)
            /\ left' = [left EXCEPT ![w][r] = <<>>]
            /\ batch' = [batch EXCEPT ![r] = [step |-> "recorded", rows |-> batch[r].rows]]
  <2> DEFINE b == [step |-> "recorded", rows |-> batch[r].rows]
             M == WithWriter(r)'
  <2>1. KeptFor(r, M) /\ ButFor(WithWriter(r), M, w) /\ M[w] = {}
    BY <1>10, ListsNothing, KeptChanges
  <2>2. b \in Batch /\ b.step # "none"
    BY <1>4 DEF Batch
  <2> HIDE DEF M
  <2>3. Fine(mailbox, r, OnDisk(r) \cup T, M, K, b, Hosting(r))
    BY <1>1, <1>4, <1>8, <1>10, <2>1, RecordWorks DEF Held, K
  <2>4. Fine(mailbox', r, ToSet(disk[r] \o t), M, K, b, Hosting(r)) /\ mailbox' \in Box /\ Hosting(r) # {}
    BY <1>1, <1>4, <1>5, <2>3
  <2>5. batch' = [batch EXCEPT ![r] = b]
    BY <1>10
  <2> HIDE DEF b
  <2> QED BY <1>1, <1>3, <1>5, <1>6, <1>7, <2>1, <2>2, <2>4, <2>5, OneChanges
<1>11. CASE /\ Lists(Queue(w, r), Held(w, r))
            /\ left' = [left EXCEPT ![w][r] = Queue(w, r)]
            /\ batch' = [batch EXCEPT ![r] = NoBatch]
  <2> DEFINE M == WithWriter(r)'
  <2>1. KeptFor(r, M) /\ ButFor(WithWriter(r), M, w) /\ M[w] = Held(w, r)
    BY <1>11, KeptChanges
  <2>2. NoBatch \in Batch
    BY DEF NoBatch, Batch
  <2> HIDE DEF M
  <2>3. Fine(mailbox, r, OnDisk(r) \cup T, M, K, NoBatch, Hosting(r))
    BY <1>1, <1>4, <1>8, <1>9, <2>1, RecordFails DEF Held, K, Written
  <2>4. Fine(mailbox', r, ToSet(disk[r] \o t), M, K, NoBatch, Hosting(r)) /\ mailbox' \in Box
    BY <1>1, <1>4, <1>5, <2>3
  <2> QED BY <1>1, <1>3, <1>5, <1>6, <1>7, <1>11, <2>1, <2>2, <2>4, OneChanges
<1> QED BY <1>2, <1>10, <1>11 DEF Recording

\* What a writer kept is tried again.
Catching(w, r, T) ==
  /\ Begins(T, WithWriter(r)[w] \ OnDisk(r)) /\ Brings(r, T)
  /\ \/ left' = left
     \/ T = WithWriter(r)[w] \ OnDisk(r) /\ left' = [left EXCEPT ![w][r] = <<>>]

\* Whatever the session and the recipient do meanwhile.
LEMMA CatchUpFacts ==
  ASSUME MailRest, NEW r \in Recipient, NEW w \in Writer, CatchUp(w, r)
  PROVE  /\ UNCHANGED <<closed, mailbox, known, batch, pc, job>>
         /\ \E T : Catching(w, r, T)
<1> DEFINE rows == Appends(w, r, left[w][r])
           Q == WithWriter(r)[w] \ OnDisk(r)
<1>1. MailShapes /\ disk \in [Recipient -> Conv]
  BY DEF MailRest, MailShapes
<1>2. UNCHANGED <<closed, mailbox, known, batch, pc, job>> /\ left[w][r] # <<>>
  BY DEF CatchUp, runVars
<1>3. rows = Without(left[w][r], OnDisk(r))
  BY <1>2 DEF Appends, OnDisk
<1>4. Lists(left[w][r], WithWriter(r)[w])
  BY <1>1, KeptLists
<1>5. Lists(rows, Q)
  BY <1>3, <1>4, ListsWithout
<1> HIDE DEF rows
<1>6. rows \in Conv /\ Len(rows) \in Nat
  BY <1>5, InSeq DEF Lists
<1>7. CASE disk' = [disk EXCEPT ![r] = @ \o rows] /\ left' = [left EXCEPT ![w][r] = <<>>]
  <2>1. disk' = [disk EXCEPT ![r] = disk[r] \o rows]
    BY <1>1, <1>7
  <2>2. Begins(Q, Q)
    BY DEF Begins
  <2>3. Catching(w, r, Q)
    BY <1>5, <1>7, <2>1, <2>2 DEF Catching, Brings
  <2> QED BY <1>2, <2>3
<1>8. CASE (\E n \in 1..Len(rows) : disk' = [disk EXCEPT ![r] = @ \o SubSeq(rows, 1, n)]) /\ left' = left
  <2>1. PICK n \in 1..Len(rows) : disk' = [disk EXCEPT ![r] = @ \o SubSeq(rows, 1, n)]
    BY <1>8
  <2>2. n \in 0..Len(rows) /\ disk' = [disk EXCEPT ![r] = disk[r] \o SubSeq(rows, 1, n)]
    BY <1>1, <1>6, <2>1
  <2>3. PICK T : Lists(SubSeq(rows, 1, n), T) /\ Begins(T, Q)
    BY <1>5, <2>2, ListsPrefix
  <2>4. Catching(w, r, T)
    BY <1>8, <2>2, <2>3 DEF Catching, Brings
  <2> QED BY <1>2, <2>4
<1> QED BY <1>7, <1>8 DEF CatchUp, rows

\* In an open session.
LEMMA CatchUpOpen ==
  ASSUME MailRest, NEW r \in Recipient, NEW w \in Writer, CatchUp(w, r), ~closed
  PROVE  MailRest'
<1>1. UNCHANGED <<closed, mailbox, known, batch, pc, job>>
  BY CatchUpFacts
<1>2. PICK T : Catching(w, r, T)
  BY CatchUpFacts
<1>3. PICK t : Lists(t, T) /\ disk' = [disk EXCEPT ![r] = disk[r] \o t]
  BY <1>2 DEF Catching, Brings
<1>4. /\ MailShapes /\ mailbox \in Box /\ batch[r] \in Batch /\ known[r] \in SUBSET Row
      /\ known \in [Recipient -> SUBSET Row] /\ batch \in [Recipient -> Batch]
  BY DEF MailRest, MailShapes
<1>5. disk[r] \o t \in Conv /\ ToSet(disk[r] \o t) = OnDisk(r) \cup T
  BY <1>3, <1>4, BroughtOnDisk
<1>6. SameRuns /\ \A x \in Recipient \ {r} : Agree(mailbox, mailbox', x)
  BY <1>1, AgreeSelf DEF SameRuns
<1>7. known' = [known EXCEPT ![r] = known[r]] /\ batch' = [batch EXCEPT ![r] = batch[r]]
  BY <1>1, <1>4
<1>8. /\ Fine(mailbox, r, OnDisk(r), WithWriter(r), known[r], batch[r], Hosting(r))
      /\ Hosted(r)
  BY DEF MailRest, Standing
<1> DEFINE M == WithWriter(r)'
<1>9. /\ KeptFor(r, M) /\ ButFor(WithWriter(r), M, w)
      /\ M[w] = WithWriter(r)[w] \/ (M[w] = {} /\ T = WithWriter(r)[w] \ OnDisk(r))
  <2>1. CASE left' = left
    <3>1. M = WithWriter(r)
      BY <2>1 DEF WithWriter
    <3> QED BY <2>1, <3>1, KeptSame DEF ButFor
  <2>2. CASE T = WithWriter(r)[w] \ OnDisk(r) /\ left' = [left EXCEPT ![w][r] = <<>>]
    BY <2>2, ListsNothing, KeptChanges
  <2> QED BY <2>1, <2>2, <1>2 DEF Catching
<1> HIDE DEF M
<1>10. Begins(T, WithWriter(r)[w] \ OnDisk(r))
  BY <1>2 DEF Catching
<1>11. Fine(mailbox, r, OnDisk(r) \cup T, M, known[r], batch[r], Hosting(r))
  BY <1>8, <1>9, <1>10, FineCatchUp
<1>12. Fine(mailbox', r, ToSet(disk[r] \o t), M, known[r], batch[r], Hosting(r)) /\ mailbox' \in Box
  BY <1>1, <1>4, <1>5, <1>11
<1>13. batch[r] = NoBatch \/ (batch[r].step # "none" /\ Hosting(r) # {})
  BY <1>8 DEF Hosted
<1> QED BY <1>1, <1>3, <1>4, <1>5, <1>6, <1>7, <1>9, <1>12, <1>13, OneChanges

\* And in a deleted one.
LEMMA CatchUpRest ==
  ASSUME MailRest, NEW r \in Recipient, NEW w \in Writer, CatchUp(w, r)
  PROVE  MailRest'
<1>1. CASE ~closed
  BY <1>1, CatchUpOpen
<1>2. CASE closed
  <2>1. UNCHANGED <<closed, mailbox, known, batch, pc, job>>
    BY CatchUpFacts
  <2>2. PICK T : Catching(w, r, T)
    BY CatchUpFacts
  <2>3. PICK t : Lists(t, T) /\ disk' = [disk EXCEPT ![r] = disk[r] \o t]
    BY <2>2 DEF Catching, Brings
  <2>4. MailShapes
    BY DEF MailRest
  <2>5. disk' \in [Recipient -> Conv]
    BY <2>3, <2>4, BroughtOnDisk DEF MailShapes
  <2>6. left' \in [Writer -> [Recipient -> Conv]] /\ \A v \in Writer, x \in Recipient : Rising(left'[v][x])
    <3>1. CASE left' = left
      BY <3>1, <2>4 DEF MailShapes
    <3>2. CASE left' = [left EXCEPT ![w][r] = <<>>]
      BY <3>2, ListsNothing, KeptChanges DEF KeptFor
    <3> QED BY <3>1, <3>2, <2>2 DEF Catching
  <2>7. MailShapes'
    BY <2>1, <2>4, <2>5, <2>6 DEF MailShapes
  <2>8. SameRuns
    BY <2>1 DEF SameRuns
  <2>9. \A x \in Recipient : Standing(x)' /\ Hosted(x)'
    BY <1>2, <2>1, <2>8, SameHosting DEF MailRest, Standing, Hosted
  <2> QED BY <2>7, <2>9 DEF MailRest
<1> QED BY <1>1, <1>2


-----------------------------------------------------------------------------
\* The steps of the runs, and the invariant.

\* A call moves, and does not execute before or after.
LEMMA Moves ==
  ASSUME RunsInv, NEW c \in Call, NEW l, pc' = [pc EXCEPT ![c] = l], pc[c] # "run", l # "run",
         \A d \in Call \ {c} : job'[d] = job[d]
  PROVE  SameRuns
<1>1. pc \in [Call -> {"idle", "recover", "look", "mend", "admit", "run", "release"}]
  BY DEF RunsInv, RunsTypeOK
<1> QED BY <1>1 DEF SameRuns

\* So do all that neither begin nor end an execution.
LEMMA RestsMove ==
  ASSUME RunsInv, NEW c \in Call,
         \/ Begin(c) \/ Contend(c) \/ Acquire(c) \/ Return(c) \/ Release(c) \/ Drop(c)
         \/ \E a \in Agent : Look(c, a) \/ Interrupt(c, a) \/ (Admit(c, a) /\ pc'[c] # "run")
  PROVE  SameRuns
<1>0. /\ pc \in [Call -> {"idle", "recover", "look", "mend", "admit", "run", "release"}]
      /\ job \in [Call -> Job]
  BY DEF RunsInv, RunsTypeOK
<1>1. End(c) => pc' = [pc EXCEPT ![c] = "idle"] /\ \A d \in Call \ {c} : job'[d] = job[d]
  BY <1>0 DEF End, Goto
<1>2. CASE Begin(c)
  <2>1. pc' = [pc EXCEPT ![c] = "recover"] /\ pc[c] = "idle" /\ \A d \in Call \ {c} : job'[d] = job[d]
    BY <1>0, <1>2 DEF Begin, Goto
  <2> QED BY <2>1, Moves
<1>3. CASE Contend(c)
  <2>1. CASE pc' = pc
    BY <1>3, <2>1 DEF Contend, SameRuns
  <2>2. CASE pc' # pc
    <3>1. pc' = [pc EXCEPT ![c] = "look"] /\ pc[c] = "recover" /\ job' = job
      BY <1>3, <2>2 DEF Contend, Goto
    <3> QED BY <3>1, Moves
  <2> QED BY <2>1, <2>2
<1>4. CASE Acquire(c)
  <2>1. End(c) \/ (pc' = [pc EXCEPT ![c] = "admit"] /\ job' = job)
    BY <1>4 DEF Acquire, Goto
  <2>2. pc[c] = "recover"
    BY <1>4 DEF Acquire
  <2> QED BY <1>1, <2>1, <2>2, Moves
<1>5. CASE Return(c) \/ Release(c) \/ Drop(c)
  <2>1. End(c) /\ pc[c] # "run"
    BY <1>5 DEF Return, Release, Drop
  <2> QED BY <1>1, <2>1, Moves
<1>6. CASE \E a \in Agent : Look(c, a)
  <2>1. (pc' = [pc EXCEPT ![c] = "mend"] \/ pc' = [pc EXCEPT ![c] = "recover"]) /\ job' = job /\ pc[c] = "look"
    BY <1>6 DEF Look, Goto
  <2> QED BY <2>1, Moves
<1>7. CASE \E a \in Agent : Interrupt(c, a)
  <2>1. End(c) \/ (pc' = [pc EXCEPT ![c] = "recover"] /\ job' = job)
    BY <1>7 DEF Interrupt, Goto
  <2>2. pc[c] = "mend"
    BY <1>7 DEF Interrupt
  <2> QED BY <1>1, <2>1, <2>2, Moves
<1>8. CASE \E a \in Agent : Admit(c, a) /\ pc'[c] # "run"
  <2>1. pc[c] = "admit" /\ End(c)
    BY <1>0, <1>8 DEF Admit, Goto
  <2> QED BY <1>1, <2>1, Moves
<1> QED BY <1>2, <1>3, <1>4, <1>5, <1>6, <1>7, <1>8

\* x is in the process of c no longer.
Gone(c, x) ==
  /\ Hosting(x)' \subseteq Hosting(x) /\ c \notin Hosting(x)'
  /\ Hosting(x)' = Hosting(x) \/ (x \in Agent /\ Executes(c, x))

\* An execution ends: its agent is in no process any more.
LEMMA HostLeaves ==
  ASSUME RunsInv, NEW c \in Call, NEW l, pc' = [pc EXCEPT ![c] = l], l # "run",
         \A d \in Call \ {c} : job'[d] = job[d], NEW x \in Recipient
  PROVE  Gone(c, x)
<1>1. pc \in [Call -> {"idle", "recover", "look", "mend", "admit", "run", "release"}]
  BY DEF RunsInv, RunsTypeOK
<1>2. c # Parent
  BY ParentAssumption
<1>3. \A y : Executes(c, y)' = FALSE /\ \A d \in Call \ {c} : Executes(d, y)' <=> Executes(d, y)
  BY <1>1 DEF Executes
<1>4. CASE x = Parent
  BY <1>2, <1>4 DEF Gone, Hosting, Hosts
<1>5. CASE x # Parent
  <2>1. x \in Agent
    BY <1>5 DEF Recipient
  <2>2. /\ \A w : w \in Hosting(x) <=> w \in Call /\ Executes(w, x)
        /\ \A w : w \in Hosting(x)' <=> w \in Call /\ Executes(w, x)'
    BY <1>5 DEF Hosting, Hosts, Writer
  <2> QED BY <1>3, <2>1, <2>2 DEF Gone
<1> QED BY <1>4, <1>5

\* An execution begins: its agent is in that process.
LEMMA Enters ==
  ASSUME RunsInv, NEW c \in Call, NEW a \in Agent, Admit(c, a), pc'[c] = "run"
  PROVE  /\ ~closed /\ UNCHANGED closed /\ Hosting(a)' # {}
         /\ \A x \in Recipient \ {a} : Hosting(x)' = Hosting(x)
<1>1. /\ pc \in [Call -> {"idle", "recover", "look", "mend", "admit", "run", "release"}]
      /\ lease \in [Agent -> Call \cup {NoCall}]
  BY DEF RunsInv, RunsTypeOK
<1>2. /\ pc' = [pc EXCEPT ![c] = "run"] /\ job' = job /\ ~closed /\ closed' = closed
      /\ pc[c] = "admit" /\ lease[a] = c
  BY <1>1 DEF Admit, Goto, Admissible, End
<1>3. job[c].agent \in Agent /\ lease[job[c].agent] = c
  BY <1>2, StartNamesAgent DEF RunsInv, RunsTypeOK, Holds
<1>4. job[c].agent = a
  BY <1>2, <1>3, SentinelAssumption DEF RunsInv, OneLease, Owned
<1>5. Executes(c, a)' /\ \A x : x # a => \A d \in Call : Executes(d, x)' <=> Executes(d, x)
  BY <1>1, <1>2, <1>4 DEF Executes
<1>6. a # Parent
  BY ParentAssumption
<1>7. c \in Hosting(a)'
  BY <1>5, <1>6 DEF Hosting, Hosts, Writer
<1>8. \A x \in Recipient \ {a} : Hosting(x)' = Hosting(x)
  BY <1>5 DEF Hosting, Hosts
<1> QED BY <1>2, <1>7, <1>8

\* A step after which every recipient stands.
LEMMA AllStand ==
  ASSUME MailRest, UNCHANGED closed, MailShapes', closed => mailbox' = mailbox,
         \A x \in Recipient : batch'[x] \in {batch[x], NoBatch} /\ Hosted(x)',
         ~closed => \A x \in Recipient :
           Fine(mailbox', x, OnDisk(x)', WithWriter(x)', known'[x], batch'[x], Hosting(x)')
  PROVE  MailRest'
<1>1. ASSUME closed, NEW x \in Recipient PROVE Standing(x)'
  BY <1>1 DEF MailRest, Standing
<1>2. ASSUME ~closed, NEW x \in Recipient PROVE Standing(x)'
  BY <1>2 DEF Standing
<1> QED BY <1>1, <1>2 DEF MailRest

\* A delivery stays where its recipient is.
LEMMA StaysHosted ==
  ASSUME MailRest, NEW x \in Recipient,
         batch'[x] = NoBatch \/ (batch'[x] = batch[x] /\ (Hosting(x) # {} => Hosting(x)' # {}))
  PROVE  Hosted(x)'
<1>1. Hosted(x) /\ NoBatch = NoBatch'
  BY DEF MailRest, NoBatch
<1> QED BY <1>1 DEF Hosted

\* A settlement that changes the row is one of an active agent.
LEMMA CompletionFacts ==
  ASSUME RunsInv, NEW c \in Call, NEW a \in Agent, Settlement(c, a)
  PROVE  /\ closed' = closed /\ UNCHANGED <<disk, left, known, batch>>
         /\ \/ mailbox' = mailbox \o <<>>
            \/ ~closed /\ mailbox' = mailbox \o <<[to |-> Parent, state |-> "queued"]>>
<1>1. agents \in [Agent -> AgentRow]
  BY DEF RunsInv, RunsTypeOK
<1>2. closed' = closed
  BY DEF Settlement, Interrupt, Finish, Settle, tables
<1>3. agents'[a].state # agents[a].state => agents[a].state = "running"
  BY <1>1 DEF Settlement, Interrupt, Finish, Settle, tables, Runs
<1>4. agents'[a].state # agents[a].state => ~closed
  BY <1>3 DEF RunsInv, Emptied
<1> QED BY <1>2, <1>4 DEF Settlement, Completion

\* The completion goes to the end of the mailbox.
LEMMA ConcatIsAppend ==
  ASSUME NEW mb \in Box, NEW r \in Recipient
  PROVE  mb \o <<[to |-> r, state |-> "queued"]>> = Append(mb, [to |-> r, state |-> "queued"])
<1> DEFINE row == [to |-> r, state |-> "queued"]
<1>1. row \in [to : Recipient, state : {"queued", "delivering", "delivered", "cancelled"}]
  OBVIOUS
<1> HIDE DEF row
<1>2. mb \o <<row>> = Append(mb, row)
  BY <1>1, AppendIsConcat DEF Box
<1> QED BY <1>2 DEF row

\* A settlement sends a completion or nothing.
LEMMA SettlementSends ==
  ASSUME RunsInv, MailRest, NEW c \in Call, NEW a \in Agent, Settlement(c, a)
  PROVE  /\ mailbox' \in Box
         /\ \/ mailbox' = mailbox
            \/ ~closed /\ mailbox' = Append(mailbox, [to |-> Parent, state |-> "queued"])
<1>1. mailbox \in Box /\ Parent \in Recipient
  BY DEF MailRest, MailShapes, Recipient
<1>2. CASE mailbox' = mailbox \o <<>>
  <2>1. mailbox' = mailbox
    BY <1>1, <1>2, ConcatEmptySeq DEF Box
  <2> QED BY <1>1, <2>1
<1>3. CASE ~closed /\ mailbox' = mailbox \o <<[to |-> Parent, state |-> "queued"]>>
  <2>1. mailbox' = Append(mailbox, [to |-> Parent, state |-> "queued"])
    BY <1>1, <1>3, ConcatIsAppend
  <2> QED BY <1>1, <1>3, <2>1, BoxGrows
<1> QED BY <1>2, <1>3, CompletionFacts

\* The agent of an execution that ends has no delivery.
LEMMA SettlementRest ==
  ASSUME RunsInv, MailRest, NEW c \in Call, NEW a \in Agent, Settlement(c, a)
  PROVE  MailRest'
<1>1. mailbox \in Box /\ Parent \in Recipient
  BY DEF MailRest, MailShapes, Recipient
<1>2. UNCHANGED <<closed, disk, left, known, batch>> /\ mailbox' \in Box
  BY CompletionFacts, SettlementSends
<1>3. \/ mailbox' = mailbox
      \/ ~closed /\ \A r, D, L, K, b, H : Fine(mailbox, r, D, L, K, b, H)
                                       => Fine(mailbox', r, D, L, K, b, H)
  BY <1>1, SettlementSends, FineGrows
<1>4. CASE Interrupt(c, a)
  <2>1. SameRuns
    BY <1>4, RestsMove
  <2> QED BY <1>2, <1>3, <2>1, BoxChanges
<1>5. CASE batch[a] = NoBatch /\ Finish(c, a)
  <2>1. pc' = [pc EXCEPT ![c] = "release"] /\ job' = job /\ Executes(c, a)
    BY <1>5 DEF Finish, Goto
  <2>2. \A x \in Recipient : /\ Hosting(x)' \subseteq Hosting(x)
                             /\ Hosting(x)' = Hosting(x) \/ x = a
    <3>1. \A x \in Recipient : Gone(c, x)
      BY <2>1, HostLeaves
    <3>2. \A x : Executes(c, x) => x = a
      BY <2>1 DEF Executes
    <3> QED BY <3>1, <3>2 DEF Gone
  <2>3. \A x \in Recipient : batch'[x] = batch[x] /\ Hosted(x)'
    <3>1. \A x \in Recipient :
            batch'[x] = NoBatch \/ (batch'[x] = batch[x] /\ (Hosting(x) # {} => Hosting(x)' # {}))
      BY <1>2, <1>5, <2>2
    <3> QED BY <1>2, <3>1, StaysHosted
  <2>4. MailShapes'
    BY <1>2 DEF MailRest, MailShapes
  <2>5. \A x : OnDisk(x)' = OnDisk(x) /\ WithWriter(x)' = WithWriter(x)
    BY <1>2 DEF OnDisk, WithWriter
  <2>6. ASSUME ~closed, NEW x \in Recipient
        PROVE  Fine(mailbox', x, OnDisk(x)', WithWriter(x)', known'[x], batch'[x], Hosting(x)')
    <3>1. Fine(mailbox, x, OnDisk(x), WithWriter(x), known[x], batch[x], Hosting(x))
      BY <2>6 DEF MailRest, Standing
    <3>2. Fine(mailbox, x, OnDisk(x), WithWriter(x), known[x], batch[x], Hosting(x)')
      BY <2>2, <3>1, FineForgets
    <3>3. Fine(mailbox', x, OnDisk(x), WithWriter(x), known[x], batch[x], Hosting(x)')
      BY <1>3, <3>2
    <3> QED BY <1>2, <2>5, <3>3
  <2> QED BY <1>2, <1>3, <2>3, <2>4, <2>6, AllStand
<1> QED BY <1>4, <1>5 DEF Settlement

\* What a transcript says are rows.
LEMMA HydrateShape ==
  ASSUME MailShapes, NEW r \in Recipient, Hydrate(r)
  PROVE  /\ known' \in [Recipient -> SUBSET Row] /\ known'[r] = OnDisk(r)
         /\ \A x \in Recipient \ {r} : known'[x] = known[x]
<1>1. disk[r] \in Conv /\ known \in [Recipient -> SUBSET Row]
  BY DEF MailShapes
<1>2. OnDisk(r) \subseteq Row
  BY <1>1, InSeq DEF OnDisk
<1> QED BY <1>1, <1>2 DEF Hydrate, OnDisk

\* An execution begins with what is on disk.
LEMMA AdmissionRest ==
  ASSUME RunsInv, MailRest, NEW c \in Call, NEW a \in Agent, Admission(c, a)
  PROVE  MailRest'
<1>1. UNCHANGED <<mailbox, disk, left, batch>> /\ MailShapes
  BY DEF Admission, MailRest
<1>2. a \in Recipient
  BY DEF Recipient
<1>3. CASE pc'[c] # "run"
  <2>1. known' = known /\ closed' = closed
    BY <1>3 DEF Admission, Admit, Goto, tables
  <2>2. SameRuns
    BY <1>3, RestsMove DEF Admission
  <2> QED BY <1>1, <2>1, <2>2, BoxChanges DEF MailShapes
<1>4. CASE pc'[c] = "run"
  <2>1. Hydrate(a)
    BY <1>4 DEF Admission
  <2>2. /\ ~closed /\ UNCHANGED closed /\ Hosting(a)' # {}
        /\ \A x \in Recipient \ {a} : Hosting(x)' = Hosting(x)
    BY <1>4, Enters DEF Admission
  <2>3. /\ known' \in [Recipient -> SUBSET Row] /\ known'[a] = OnDisk(a)
        /\ \A x \in Recipient \ {a} : known'[x] = known[x]
    BY <1>1, <1>2, <2>1, HydrateShape
  <2>4. MailShapes'
    BY <1>1, <2>3 DEF MailShapes
  <2>5. \A x \in Recipient : batch'[x] = batch[x] /\ Hosted(x)'
    <3>1. \A x \in Recipient : batch'[x] = batch[x] /\ (Hosting(x) # {} => Hosting(x)' # {})
      BY <1>1, <2>2
    <3> QED BY <3>1, StaysHosted
  <2>6. \A x : OnDisk(x)' = OnDisk(x) /\ WithWriter(x)' = WithWriter(x)
    BY <1>1 DEF OnDisk, WithWriter
  <2>7. ASSUME NEW x \in Recipient
        PROVE  Fine(mailbox', x, OnDisk(x)', WithWriter(x)', known'[x], batch'[x], Hosting(x)')
    <3>1. Fine(mailbox, x, OnDisk(x), WithWriter(x), known[x], batch[x], Hosting(x))
      BY <2>2 DEF MailRest, Standing
    <3>2. CASE x # a
      BY <3>1, <3>2, <1>1, <2>2, <2>3, <2>6
    <3>3. CASE x = a
      <4>1. Hosting(x)' \in SUBSET Writer
        BY DEF Hosting, Writer
      <4>2. Fine(mailbox, x, OnDisk(x), WithWriter(x), OnDisk(x), batch[x], Hosting(x)')
        BY <3>1, <4>1, FineHydrate
      <4> QED BY <3>3, <4>2, <1>1, <2>3, <2>6
    <3> QED BY <3>2, <3>3
  <2> QED BY <1>1, <2>2, <2>4, <2>5, <2>7, AllStand
<1> QED BY <1>3, <1>4

\* The pool reads the conversation of the parent again.
LEMMA ParentReloadsRest ==
  ASSUME MailRest, ParentReloads
  PROVE  MailRest'
<1>1. /\ UNCHANGED <<closed, mailbox, disk, left, batch, pc, job>> /\ MailShapes
      /\ Parent \in Recipient /\ Hydrate(Parent)
  BY DEF ParentReloads, MailRest, Recipient, runVars
<1>2. /\ known' \in [Recipient -> SUBSET Row] /\ known'[Parent] = OnDisk(Parent)
      /\ \A x \in Recipient \ {Parent} : known'[x] = known[x]
  BY <1>1, HydrateShape
<1>3. MailShapes'
  BY <1>1, <1>2 DEF MailShapes
<1>4. \A x : OnDisk(x)' = OnDisk(x) /\ WithWriter(x)' = WithWriter(x) /\ Hosting(x)' = Hosting(x)
  BY <1>1, SameHosting DEF OnDisk, WithWriter, SameRuns
<1>5. \A x \in Recipient : batch'[x] = batch[x] /\ Hosted(x)'
  BY <1>1, <1>4, StaysHosted
<1>6. ASSUME ~closed, NEW x \in Recipient
      PROVE  Fine(mailbox', x, OnDisk(x)', WithWriter(x)', known'[x], batch'[x], Hosting(x)')
  <2>1. Fine(mailbox, x, OnDisk(x), WithWriter(x), known[x], batch[x], Hosting(x))
    BY <1>6 DEF MailRest, Standing
  <2>2. CASE x # Parent
    BY <2>1, <2>2, <1>1, <1>2, <1>4
  <2>3. CASE x = Parent
    <3>1. Fine(mailbox, x, OnDisk(x), WithWriter(x), OnDisk(x), batch[x], Hosting(x))
      BY <2>1, FineHydrate DEF Hosting
    <3> QED BY <3>1, <2>3, <1>1, <1>2, <1>4
  <2> QED BY <2>2, <2>3
<1> QED BY <1>1, <1>3, <1>5, <1>6, AllStand

\* What writer w kept for x is lost.
Lost(w, x) == \A v \in Writer : WithWriter(x)'[v] = IF v = w THEN {} ELSE WithWriter(x)[v]

\* A writer dies, and what it kept.
LEMMA WriterDies ==
  ASSUME MailShapes, NEW w \in Writer, left' = [left EXCEPT ![w] = Nothing]
  PROVE  /\ left' \in [Writer -> [Recipient -> Conv]]
         /\ \A v \in Writer, x \in Recipient : Rising(left'[v][x])
         /\ \A x \in Recipient : Lost(w, x)
<1>1. left \in [Writer -> [Recipient -> Conv]] /\ \A v \in Writer, x \in Recipient : Rising(left[v][x])
  BY DEF MailShapes
<1>2. <<>> \in Conv /\ Rising(<<>>) /\ ToSet(<<>>) = {}
  BY ListsNothing DEF Lists
<1>3. \A x \in Recipient : Nothing[x] = <<>>
  BY DEF Nothing
<1>4. Nothing \in [Recipient -> Conv]
  BY <1>2 DEF Nothing
<1>5. \A v \in Writer : left'[v] = IF v = w THEN Nothing ELSE left[v]
  BY <1>1
<1>6. left' \in [Writer -> [Recipient -> Conv]]
  BY <1>1, <1>4
<1>7. \A v \in Writer, x \in Recipient : left'[v][x] = IF v = w THEN <<>> ELSE left[v][x]
  BY <1>3, <1>5
<1>8. \A v \in Writer, x \in Recipient : Rising(left'[v][x])
  BY <1>1, <1>2, <1>7
<1>9. ASSUME NEW x \in Recipient PROVE Lost(w, x)
  <2>1. ASSUME NEW v \in Writer PROVE WithWriter(x)'[v] = ToSet(left'[v][x])
    BY DEF WithWriter
  <2>2. ASSUME NEW v \in Writer PROVE WithWriter(x)[v] = ToSet(left[v][x])
    BY DEF WithWriter
  <2>3. ASSUME NEW v \in Writer
        PROVE  WithWriter(x)'[v] = IF v = w THEN {} ELSE WithWriter(x)[v]
    <3>1. CASE v = w
      <4>1. left'[v][x] = <<>>
        BY <3>1, <1>7
      <4> QED BY <3>1, <4>1, <1>2, <2>1
    <3>2. CASE v # w
      <4>1. left'[v][x] = left[v][x]
        BY <3>2, <1>7
      <4> QED BY <3>2, <4>1, <2>1, <2>2
    <3> QED BY <3>1, <3>2
  <2> QED BY <2>3 DEF Lost
<1> QED BY <1>6, <1>8, <1>9

\* The process of the parent dies: it reads its conversation again.
LEMMA ParentDiesRest ==
  ASSUME MailRest, ParentDies
  PROVE  MailRest'
<1>1. /\ UNCHANGED <<closed, mailbox, disk, pc, job>> /\ MailShapes
      /\ Parent \in Recipient /\ Parent \in Writer /\ Hydrate(Parent)
      /\ left' = [left EXCEPT ![Parent] = Nothing] /\ batch' = [batch EXCEPT ![Parent] = NoBatch]
  BY DEF ParentDies, MailRest, Recipient, Writer
<1>2. /\ known' \in [Recipient -> SUBSET Row] /\ known'[Parent] = OnDisk(Parent)
      /\ \A x \in Recipient \ {Parent} : known'[x] = known[x]
  BY <1>1, HydrateShape
<1>3. /\ left' \in [Writer -> [Recipient -> Conv]]
      /\ \A v \in Writer, x \in Recipient : Rising(left'[v][x])
      /\ \A x \in Recipient : Lost(Parent, x)
  BY <1>1, WriterDies
<1>4. batch' \in [Recipient -> Batch] /\ batch'[Parent] = NoBatch
      /\ \A x \in Recipient \ {Parent} : batch'[x] = batch[x]
  <2>1. NoBatch \in Batch
    BY DEF NoBatch, Batch
  <2> QED BY <1>1, <2>1 DEF MailShapes
<1>5. MailShapes'
  BY <1>1, <1>2, <1>3, <1>4 DEF MailShapes
<1>6. \A x : OnDisk(x)' = OnDisk(x) /\ Hosting(x)' = Hosting(x)
  BY <1>1, SameHosting DEF OnDisk, SameRuns
<1>7. \A x \in Recipient : batch'[x] \in {batch[x], NoBatch} /\ Hosted(x)'
  BY <1>4, <1>6, StaysHosted
<1>8. ASSUME ~closed, NEW x \in Recipient
      PROVE  Fine(mailbox', x, OnDisk(x)', WithWriter(x)', known'[x], batch'[x], Hosting(x)')
  <2> DEFINE M == WithWriter(x)'
  <2>1. Fine(mailbox, x, OnDisk(x), WithWriter(x), known[x], batch[x], Hosting(x))
    BY <1>8 DEF MailRest, Standing
  <2>2. /\ \A v \in Writer : M[v] \in {WithWriter(x)[v], {}}
        /\ \A v \in Writer : v # Parent => M[v] = WithWriter(x)[v]
    BY <1>3 DEF Lost
  <2> HIDE DEF M
  <2>3. CASE x # Parent
    <3>1. \A v \in Hosting(x) : v \in Writer /\ v # Parent
      BY <2>3, ParentAssumption DEF Hosting, Hosts
    <3>2. Fine(mailbox, x, OnDisk(x), M, known[x], batch[x], Hosting(x))
      BY <2>1, <2>2, <3>1, FineForgets
    <3> QED BY <3>2, <2>3, <1>1, <1>2, <1>4, <1>6 DEF M
  <2>4. CASE x = Parent
    <3>1. Fine(mailbox, x, OnDisk(x), M, known[x], NoBatch, {})
      BY <2>1, <2>2, FineForgets
    <3>2. Fine(mailbox, x, OnDisk(x), M, OnDisk(x), NoBatch, Hosting(x))
      BY <3>1, FineHydrate DEF Hosting
    <3> QED BY <3>2, <2>4, <1>1, <1>2, <1>4, <1>6 DEF M
  <2> QED BY <2>3, <2>4
<1> QED BY <1>1, <1>5, <1>7, <1>8, AllStand

\* The mailbox and the transcripts go with the session, and no delivery is under
\* way then.
LEMMA DeletionFacts ==
  ASSUME RunsInv, MailRest, NEW c \in Call, Deletion(c)
  PROVE  /\ UNCHANGED <<left, known, batch>> /\ SameRuns
         /\ \/ UNCHANGED <<closed, mailbox, disk>>
            \/ /\ ~closed /\ closed' = TRUE /\ mailbox' = <<>> /\ disk' = Nothing
               /\ \A r \in Recipient : batch[r] = NoBatch
<1>1. closed' = TRUE \/ closed' = closed
  BY DEF Deletion, Drop, tables
<1>2. SameRuns
  BY RestsMove DEF Deletion
<1> QED BY <1>1, <1>2 DEF Deletion, RunsInv, RunsTypeOK

\* drop_session and delete_session.
LEMMA DeletionRest ==
  ASSUME RunsInv, MailRest, NEW c \in Call, Deletion(c)
  PROVE  MailRest'
<1>1. UNCHANGED <<left, known, batch>> /\ SameRuns
  BY DeletionFacts
<1>2. CASE UNCHANGED <<closed, mailbox, disk>>
  BY <1>1, <1>2, BoxChanges DEF MailRest, MailShapes
<1>3. CASE /\ ~closed /\ closed' = TRUE /\ mailbox' = <<>> /\ disk' = Nothing
           /\ \A r \in Recipient : batch[r] = NoBatch
  <2>1. <<>> \in Box /\ Nothing \in [Recipient -> Conv]
    BY ListsNothing DEF Box, Nothing, Lists
  <2>2. MailShapes'
    BY <1>1, <1>3, <2>1 DEF MailRest, MailShapes
  <2>3. \A x \in Recipient : batch'[x] = NoBatch /\ Hosted(x)'
    BY <1>1, <1>3, StaysHosted
  <2>4. \A x \in Recipient : Standing(x)'
    BY <1>3, <2>3 DEF Standing, NoBatch
  <2> QED BY <2>2, <2>3, <2>4 DEF MailRest
<1> QED BY <1>2, <1>3, DeletionFacts

\* With a process die the deliveries into what it executed, and its writer.
LEMMA DeathRest ==
  ASSUME RunsInv, MailRest, NEW c \in Call, Death(c)
  PROVE  MailRest'
<1>1. /\ UNCHANGED <<closed, mailbox, disk, known>> /\ MailShapes /\ c \in Writer
      /\ left' = [left EXCEPT ![c] = Nothing]
  BY DEF Death, Die, tables, MailRest, Writer
<1>2. NoBatch \in Batch
  BY DEF NoBatch, Batch
<1>3. /\ batch' \in [Recipient -> Batch]
      /\ \A r \in Recipient : batch'[r] = IF r \in Agent /\ Executes(c, r) THEN NoBatch ELSE batch[r]
  BY <1>1, <1>2 DEF Death, MailShapes
<1>4. /\ left' \in [Writer -> [Recipient -> Conv]]
      /\ \A v \in Writer, x \in Recipient : Rising(left'[v][x])
      /\ \A x \in Recipient : Lost(c, x)
  BY <1>1, WriterDies
<1>5. MailShapes'
  BY <1>1, <1>3, <1>4 DEF MailShapes
<1>6. pc' = [pc EXCEPT ![c] = "idle"] /\ \A d \in Call \ {c} : job'[d] = job[d]
  BY DEF Death, Die, End, Goto, RunsInv, RunsTypeOK
<1>7. \A x \in Recipient : Gone(c, x)
  BY <1>6, HostLeaves
<1>8. \A x \in Recipient : batch'[x] \in {batch[x], NoBatch} /\ Hosted(x)'
  BY <1>3, <1>7, StaysHosted DEF Gone
<1>9. ASSUME ~closed, NEW x \in Recipient
      PROVE  Fine(mailbox', x, OnDisk(x)', WithWriter(x)', known'[x], batch'[x], Hosting(x)')
  <2> DEFINE M == WithWriter(x)'
             G == Hosting(x)'
             e == batch'[x]
  <2>1. Fine(mailbox, x, OnDisk(x), WithWriter(x), known[x], batch[x], Hosting(x))
    BY <1>9 DEF MailRest, Standing
  <2>2. /\ \A v \in Writer : M[v] \in {WithWriter(x)[v], {}}
        /\ \A v \in Writer : v # c => M[v] = WithWriter(x)[v]
    BY <1>4 DEF Lost
  <2>3. G \in SUBSET Hosting(x) /\ e \in {batch[x], NoBatch} /\ \A v \in G : v \in Writer /\ v # c
    BY <1>7, <1>8 DEF Gone, Hosting
  <2> HIDE DEF M, G, e
  <2>4. Fine(mailbox, x, OnDisk(x), M, known[x], e, G)
    BY <2>1, <2>2, <2>3, FineForgets
  <2>5. OnDisk(x)' = OnDisk(x)
    BY <1>1 DEF OnDisk
  <2> QED BY <2>4, <2>5, <1>1 DEF M, G, e
<1> QED BY <1>1, <1>5, <1>8, <1>9, AllStand

\* No rows, no transcript, no delivery.
LEMMA MailInitial ==
  ASSUME MailInit
  PROVE  MailInv
<1>1. RunsInv
  BY RunsInitial DEF MailInit
<1>2. ~closed /\ mailbox = <<>> /\ disk = Nothing /\ left = [w \in Writer |-> Nothing]
      /\ \A r \in Recipient : known[r] = {} /\ batch[r] = NoBatch
  BY DEF MailInit, RunsInit
<1>3. <<>> \in Conv /\ Rising(<<>>) /\ ToSet(<<>>) = {} /\ Len(<<>>) = 0
  BY ListsNothing DEF Lists
<1>4. NoBatch \in Batch /\ NoBatch.rows = {} /\ NoBatch.step = "none"
  BY DEF NoBatch, Batch
<1>5. Nothing \in [Recipient -> Conv] /\ \A r \in Recipient : Nothing[r] = <<>>
  BY <1>3 DEF Nothing
<1>6. MailShapes
  BY <1>2, <1>3, <1>4, <1>5 DEF MailInit, MailShapes, Box
<1>7. ASSUME NEW r \in Recipient
      PROVE  Standing(r) /\ Hosted(r)
  <2>1. OnDisk(r) = {} /\ \A w \in Writer : WithWriter(r)[w] = {}
    BY <1>2, <1>3, <1>5 DEF OnDisk, WithWriter
  <2>2. Live(<<>>, r) = {} /\ Open(<<>>, r) = {} /\ Delivering(<<>>, r) = {}
    BY DEF Live, Open, Delivering
  <2>3. Fine(<<>>, r, OnDisk(r), WithWriter(r), {}, NoBatch, Hosting(r))
    BY <1>4, <2>1, <2>2 DEF Fine, Foremost, Oldest, Recorded, Acked, Few, InHand, Reserved, Hosting
  <2> QED BY <1>2, <1>4, <2>3 DEF Standing, Hosted
<1> QED BY <1>1, <1>6, <1>7 DEF MailInv

\* Every step preserves the invariant.
LEMMA MailStep ==
  ASSUME MailInv, [MailNext]_allVars
  PROVE  MailInv'
<1>1. RunsInv'
  BY MailStepRuns DEF MailInv
<1>2. MailRest /\ RunsInv /\ mailbox \in Box
  BY DEF MailInv, MailRest, MailShapes
<1>3. MailRest'
  <2>1. CASE UNCHANGED allVars
    <3>1. SameRuns /\ UNCHANGED <<closed, mailbox, disk, left, known, batch>>
      BY <2>1 DEF allVars, runVars, mailVars, SameRuns
    <3> QED BY <1>2, <3>1, BoxChanges
  <2>2. CASE \E c \in Call : (Begin(c) /\ UNCHANGED mailVars) \/ RunStep(c) \/ Death(c)
    <3>1. PICK c \in Call : (Begin(c) /\ UNCHANGED mailVars) \/ RunStep(c) \/ Death(c)
      BY <2>2
    <3>2. CASE (Begin(c) /\ UNCHANGED mailVars) \/ Elsewhere(c)
      <4>1. UNCHANGED <<closed, mailbox, disk, left, known, batch>>
        BY <3>2 DEF Elsewhere, Begin, Contend, Acquire, Return, Release, Look, tables, mailVars
      <4>2. SameRuns
        BY <1>2, <3>2, RestsMove DEF Elsewhere
      <4> QED BY <1>2, <4>1, <4>2, BoxChanges
    <3> QED BY <1>2, <3>1, <3>2, DeletionRest, SettlementRest, AdmissionRest, DeathRest
            DEF RunStep
  <2>3. CASE \E r \in Recipient : Send(r) \/ Deliver(r) \/ \E w \in Writer : CatchUp(w, r)
    BY <1>2, <2>3, SendRest, ClaimRest, RecordRest, AcknowledgeRest, CatchUpRest DEF Deliver
  <2>4. CASE (\E i \in 1..MaxSent : RemoveMessage(i)) \/ ParentReloads \/ ParentDies
    BY <1>2, <2>4, RemoveRest, ParentReloadsRest, ParentDiesRest
  <2> QED BY <2>1, <2>2, <2>3, <2>4 DEF MailNext
<1> QED BY <1>1, <1>3 DEF MailInv, MailRest

\* The strengthened invariant.
THEOREM MailInvariant == MailSpec => []MailInv
<1>1. MailInit => MailInv
  BY MailInitial
<1>2. MailInv /\ [MailNext]_allVars => MailInv'
  BY MailStep
<1> QED  BY <1>1, <1>2, PTL DEF MailSpec

-----------------------------------------------------------------------------
\* The mailbox, the transcripts, what the writers keep and the deliveries have the
\* shapes declared for them, and a delivery is one of a process that lives.
THEOREM MailTypeCorrect == MailSpec => []MailTypeOK
<1>1. ASSUME MailInv PROVE MailTypeOK
  <2>1. \A r \in Recipient : batch[r] # NoBatch => \E w \in Writer : Hosts(w, r)
    BY <1>1 DEF MailInv, Hosted, Hosting
  <2> QED BY <1>1, <2>1 DEF MailInv, RunsInv, MailShapes, MailTypeOK, Box, Conv, Batch
<1> QED  BY <1>1, MailInvariant, PTL

\* A row is acknowledged only when it is in the transcript of its recipient, and
\* it stays there, through deaths, flushes that fail and replayed deliveries.
THEOREM AcknowledgedIsDurable == MailSpec => []AckedIsDurable
<1>1. ASSUME MailInv
      PROVE  AckedIsDurable
  <2> SUFFICES ASSUME NEW i \in 1..Len(mailbox), mailbox[i].state = "delivered"
               PROVE  i \in ToSet(disk[mailbox[i].to])
    BY DEF AckedIsDurable
  <2> DEFINE r == mailbox[i].to
  <2>1. r \in Recipient
    BY <1>1, BoxRow DEF MailInv, MailShapes
  <2>2. i \in Live(mailbox, r)
    BY DEF Live
  <2>3. ~closed
    BY <1>1, OpenWithMail DEF MailInv, MailRest
  <2> HIDE DEF r
  <2>4. Fine(mailbox, r, OnDisk(r), WithWriter(r), known[r], batch[r], Hosting(r))
    BY <1>1, <2>1, <2>3 DEF MailInv, Standing
  <2>5. i \in OnDisk(r)
    BY <2>2, <2>4 DEF Fine, Acked
  <2> QED BY <2>5 DEF OnDisk, r
<1> QED  BY <1>1, MailInvariant, PTL

-----------------------------------------------------------------------------
\* With mail among them, and with its faults, the attempts keep what they keep on
\* their own: executions own their agents, stay within the limit and the write
\* scopes, and a deleted session stays empty.
THEOREM MailKeepsRuns ==
  MailSpec => [](OwnerIsCurrent /\ ExecutionsCompatible /\ ClosedStaysEmpty)
<1>1. MailInv => OwnerIsCurrent /\ ExecutionsCompatible /\ ClosedStaysEmpty
  BY OwnerFromLease, CompatibleFromRows, EmptyWhenClosed DEF MailInv
<1> QED  BY <1>1, MailInvariant, PTL

-----------------------------------------------------------------------------
\* The promise.

\* What the promise sees.
Sent      == [i \in 1..Len(mailbox) |-> mailbox[i].to]
Withdrawn == {i \in 1..Len(mailbox) : mailbox[i].state = "cancelled"}
AckedRows == {i \in 1..Len(mailbox) : mailbox[i].state = "delivered"}
Strays    == [r \in Recipient |-> IF closed THEN {} ELSE OnDisk(r) \ known[r]]
Owed      == [r \in Recipient |-> IF closed THEN Kept(r) \ OnDisk(r) ELSE {}]
Nobody    == [r \in Recipient |-> {}]

MailOf(r) == {i \in 1..Len(Sent) : Sent[i] = r} \ Withdrawn
Waits(r)  == MailOf(r) \ OnDisk(r)

\* What waits is not passed over.
InLine(r, S) == \A i \in S, j \in Waits(r) : j < i => j \in S

Keeps == [Promise!PromiseNext]_(Promise!promiseVars)

\* Sets, order and counting mean the same there and here.
LEMMA SameToSet == \A s : Promise!ToSet(s) = ToSet(s)
BY DEF Promise!ToSet, ToSet

LEMMA SameCount == \A S : Promise!Cardinality(S) = Cardinality(S)
BY DEF Promise!Cardinality, Cardinality

LEMMA SameOrder == \A S : Promise!InOrder(S) = InOrder(S)
BY SameCount DEF Promise!InOrder, Promise!Listings, InOrder, Listings

\* So do the mail and what waits.
LEMMA SameMail == \A r : Promise!Mail(r) = MailOf(r)
BY DEF Promise!Mail, MailOf, Sent, Withdrawn

LEMMA SameWaiting == \A r : Promise!Waiting(r) = Waits(r)
BY SameMail, SameToSet DEF Promise!Waiting, Waits, OnDisk

LEMMA SameLine == \A r, S : Promise!NextInLine(r, S) = InLine(r, S)
BY SameWaiting DEF Promise!NextInLine, InLine

\* The ways to see a step.  Nothing of it can be seen.
LEMMA AsStutter ==
  ASSUME UNCHANGED <<Sent, Withdrawn, AckedRows, disk, Strays, closed, Owed>>
  PROVE  Keeps
BY DEF Keeps, Promise!promiseVars, Sent, Withdrawn, AckedRows, Strays, Owed, OnDisk

\* A message is accepted.
LEMMA AsAccept ==
  ASSUME NEW r \in Recipient, ~closed, Sent' = Append(Sent, r),
         UNCHANGED <<Withdrawn, AckedRows, disk, Strays, closed, Owed>>
  PROVE  Keeps
<1>1. Promise!Accept
  BY DEF Promise!Accept, Sent, Withdrawn, AckedRows, Strays, Owed, OnDisk
<1> QED BY <1>1 DEF Keeps, Promise!PromiseNext

\* A message is withdrawn.
LEMMA AsWithdraw ==
  ASSUME NEW r \in Recipient, NEW i \in Waits(r), ~closed, Withdrawn' = Withdrawn \cup {i},
         UNCHANGED <<Sent, AckedRows, disk, Strays, closed, Owed>>
  PROVE  Keeps
<1>1. Promise!Withdraw
  BY SameWaiting DEF Promise!Withdraw, Sent, Withdrawn, AckedRows, Strays, Owed, OnDisk
<1> QED BY <1>1 DEF Keeps, Promise!PromiseNext

\* A delivery brings messages.
LEMMA AsHear ==
  ASSUME NEW r \in Recipient, NEW S \in SUBSET (MailOf(r) \ AckedRows), InLine(r, S),
         S \subseteq Waits(r) \cup Strays[r], NEW T \in SUBSET Strays[r], ~closed,
         disk' = [disk EXCEPT ![r] = @ \o InOrder(S)], Strays' = [Strays EXCEPT ![r] = T],
         UNCHANGED <<Sent, Withdrawn, AckedRows, closed, Owed>>
  PROVE  Keeps
<1>1. Promise!Hears(r, S)
  BY SameOrder DEF Promise!Hears
<1>2. Promise!Hear
  BY <1>1, SameMail, SameWaiting, SameLine
     DEF Promise!Hear, Sent, Withdrawn, AckedRows, Strays, Owed, OnDisk
<1> QED BY <1>2 DEF Keeps, Promise!PromiseNext

\* Some come when no delivery brings them.
LEMMA AsStray ==
  ASSUME NEW r \in Recipient, NEW S \in SUBSET Waits(r), InLine(r, S),
         NEW T \in SUBSET (Strays[r] \cup S), ~closed,
         disk' = [disk EXCEPT ![r] = @ \o InOrder(S)], Strays' = [Strays EXCEPT ![r] = T],
         UNCHANGED <<Sent, Withdrawn, AckedRows, closed, Owed>>
  PROVE  Keeps
<1>1. Promise!Hears(r, S)
  BY SameOrder DEF Promise!Hears
<1>2. S \in SUBSET Promise!Waiting(r) /\ Promise!NextInLine(r, S)
  BY SameWaiting, SameLine
<1>3. \E X \in SUBSET (Strays[r] \cup S) : Strays' = [Strays EXCEPT ![r] = X]
  OBVIOUS
<1>4. Promise!Stray
  BY <1>1, <1>2, <1>3 DEF Promise!Stray, Sent, Withdrawn, AckedRows, Strays, Owed, OnDisk
<1> QED BY <1>4 DEF Keeps, Promise!PromiseNext

\* A recipient looks at its transcript.
LEMMA AsNotice ==
  ASSUME NEW r \in Recipient, ~closed, Strays' = [Strays EXCEPT ![r] = {}],
         UNCHANGED <<Sent, Withdrawn, AckedRows, disk, closed, Owed>>
  PROVE  Keeps
<1>1. Promise!Notice
  BY DEF Promise!Notice, Sent, Withdrawn, AckedRows, Strays, Owed, OnDisk
<1> QED BY <1>1 DEF Keeps, Promise!PromiseNext

\* Messages are acknowledged.
LEMMA AsAcknowledge ==
  ASSUME NEW r \in Recipient, NEW S \in SUBSET (MailOf(r) \cap OnDisk(r)), ~closed,
         AckedRows' = AckedRows \cup S,
         UNCHANGED <<Sent, Withdrawn, disk, Strays, closed, Owed>>
  PROVE  Keeps
<1>1. Promise!Acknowledge
  BY SameMail, SameToSet DEF Promise!Acknowledge, Sent, Withdrawn, AckedRows, Strays, Owed, OnDisk
<1> QED BY <1>1 DEF Keeps, Promise!PromiseNext

\* The session is deleted.
LEMMA AsDelete ==
  ASSUME ~closed, closed' = TRUE, Sent' = <<>>, Withdrawn' = {}, AckedRows' = {},
         disk' = Nothing, Strays' = Nobody, DOMAIN Owed' = Recipient,
         \A r \in Recipient : Owed'[r] \subseteq MailOf(r)
  PROVE  Keeps
<1>1. Promise!Delete
  BY SameMail
     DEF Promise!Delete, Promise!None, Sent, Withdrawn, AckedRows, Strays, Owed, OnDisk, Nothing, Nobody
<1> QED BY <1>1 DEF Keeps, Promise!PromiseNext

\* What was owed comes after all.
LEMMA AsLinger ==
  ASSUME closed, NEW r \in Recipient, NEW S \in SUBSET Owed[r],
         disk' = [disk EXCEPT ![r] = @ \o InOrder(S)], Owed' = [Owed EXCEPT ![r] = @ \ S],
         UNCHANGED <<Sent, Withdrawn, AckedRows, Strays, closed>>
  PROVE  Keeps
<1>1. Promise!Hears(r, S)
  BY SameOrder DEF Promise!Hears
<1>2. Promise!Linger
  BY <1>1 DEF Promise!Linger, Sent, Withdrawn, AckedRows, Strays, Owed, OnDisk
<1> QED BY <1>2 DEF Keeps, Promise!PromiseNext

\* Or it is lost.
LEMMA AsForget ==
  ASSUME closed, \A r \in Recipient : Owed'[r] \subseteq Owed[r],
         UNCHANGED <<Sent, Withdrawn, AckedRows, disk, Strays, closed>>
  PROVE  Keeps
<1>1. Owed' \in [Recipient -> SUBSET UNION {Owed[r] : r \in Recipient}]
  BY DEF Owed
<1>2. Promise!Forget
  BY <1>1 DEF Promise!Forget, Sent, Withdrawn, AckedRows, Strays, Owed, OnDisk
<1> QED BY <1>2 DEF Keeps, Promise!PromiseNext

-----------------------------------------------------------------------------
\* Every step is one of the promise.

\* The mail of a recipient is what is live.
LEMMA MailIsLive ==
  ASSUME MailShapes
  PROVE  \A r : MailOf(r) = Live(mailbox, r)
<1>1. Len(mailbox) \in Nat
  BY LenProperties DEF MailShapes, Box
<1>2. Len(Sent) = Len(mailbox) /\ \A i \in 1..Len(mailbox) : Sent[i] = mailbox[i].to
  BY <1>1 DEF Sent
<1> QED BY <1>2 DEF MailOf, Withdrawn, Live

\* What is seen of a mailbox that does not change.
LEMMA BoxSame ==
  ASSUME UNCHANGED mailbox
  PROVE  UNCHANGED <<Sent, Withdrawn, AckedRows>>
BY DEF Sent, Withdrawn, AckedRows

\* What is seen of transcripts that nobody writes or reads.
LEMMA StraysSame ==
  ASSUME UNCHANGED <<closed, disk, known>>
  PROVE  UNCHANGED Strays
BY DEF Strays, OnDisk

\* Nothing is owed while the session is open, nothing is astray when it is deleted.
LEMMA OwedOpen ==
  ASSUME ~closed, UNCHANGED closed
  PROVE  UNCHANGED Owed
BY DEF Owed

LEMMA StraysClosed ==
  ASSUME closed, UNCHANGED closed
  PROVE  UNCHANGED Strays
BY DEF Strays

LEMMA OwedSame ==
  ASSUME UNCHANGED <<closed, disk, left>>
  PROVE  UNCHANGED Owed
BY DEF Owed, Kept, OnDisk

\* One transcript is written or read.
LEMMA StraysOne ==
  ASSUME ~closed, UNCHANGED closed, NEW r \in Recipient,
         \A x \in Recipient \ {r} : disk'[x] = disk[x] /\ known'[x] = known[x]
  PROVE  Strays' = [Strays EXCEPT ![r] = OnDisk(r)' \ known'[r]]
<1>1. \A x \in Recipient \ {r} : Strays'[x] = Strays[x]
  BY DEF Strays, OnDisk
<1>2. Strays'[r] = OnDisk(r)' \ known'[r]
  BY DEF Strays, OnDisk
<1> QED BY <1>1, <1>2 DEF Strays

\* Steps in which nothing of the mail changes but who holds what.
LEMMA UnseenKeeps ==
  ASSUME UNCHANGED <<closed, mailbox, disk, left, known>>
  PROVE  Keeps
BY BoxSame, StraysSame, OwedSame, AsStutter

\* A row is added.
LEMMA GrownKeeps ==
  ASSUME MailShapes, NEW r \in Recipient, ~closed,
         mailbox' = Append(mailbox, [to |-> r, state |-> "queued"]),
         UNCHANGED <<closed, disk, left, known>>
  PROVE  Keeps
<1> DEFINE n == Len(mailbox)
           row == [to |-> r, state |-> "queued"]
<1>1. mailbox \in Box
  BY DEF MailShapes
<1>2. /\ n \in Nat /\ Len(mailbox') = n + 1 /\ mailbox'[n + 1] = row
      /\ \A m \in 1..n : mailbox'[m] = mailbox[m]
  BY <1>1, BoxGrows
<1>3. row.to = r /\ row.state = "queued"
  OBVIOUS
<1>n. n = Len(mailbox)
  OBVIOUS
<1> HIDE DEF n, row
<1>4. \A m : m \in 1..n+1 <=> m \in 1..n \/ m = n+1
  BY <1>2
<1>5. Withdrawn' = Withdrawn /\ AckedRows' = AckedRows
  BY <1>2, <1>3, <1>4, <1>n DEF Withdrawn, AckedRows
<1>6. Sent' = Append(Sent, r)
  <2>1. \A m \in 1..n : mailbox[m].to \in Recipient
    BY <1>1, <1>n, BoxRow
  <2>2. Sent \in Seq(Recipient) /\ Len(Sent) = n /\ \A m \in 1..n : Sent[m] = mailbox[m].to
    BY <1>2, <1>n, <2>1 DEF Sent
  <2>3. /\ Append(Sent, r) \in Seq(Recipient) /\ Len(Append(Sent, r)) = n + 1
        /\ \A m \in 1..n : Append(Sent, r)[m] = Sent[m]
        /\ Append(Sent, r)[n + 1] = r
    BY <2>2, AppendProperties
  <2>4. \A m \in 1..n+1 : mailbox'[m].to = Append(Sent, r)[m] /\ mailbox'[m].to \in Recipient
    BY <1>2, <1>3, <1>4, <2>1, <2>2, <2>3
  <2>5. Sent' = [m \in 1..n+1 |-> mailbox'[m].to]
    BY <1>2 DEF Sent
  <2>6. Sent' \in Seq(Recipient) /\ Len(Sent') = n + 1 /\ \A m \in 1..n+1 : Sent'[m] = mailbox'[m].to
    BY <1>2, <2>4, <2>5
  <2> QED BY <2>3, <2>4, <2>6, SeqEqual
<1> QED BY <1>5, <1>6, StraysSame, OwedSame, AsAccept

\* send.
LEMMA SendKeeps ==
  ASSUME MailRest, NEW r \in Recipient, Send(r)
  PROVE  Keeps
BY GrownKeeps DEF MailRest, Send, runVars

\* The completion of an attempt.
LEMMA SettlementKeeps ==
  ASSUME RunsInv, MailRest, NEW c \in Call, NEW a \in Agent, Settlement(c, a)
  PROVE  Keeps
<1>1. UNCHANGED <<closed, disk, left, known>> /\ Parent \in Recipient
  BY CompletionFacts DEF Recipient
<1> QED BY <1>1, SettlementSends, UnseenKeeps, GrownKeeps DEF MailRest

\* What is seen when rows change their state.
LEMMA SetSeen ==
  ASSUME MailShapes, NEW S, NEW s \in {"queued", "delivering", "delivered", "cancelled"},
         mailbox' = Set(mailbox, S, s)
  PROVE  /\ Sent' = Sent
         /\ \A i : i \in Withdrawn' <=> i \in 1..Len(mailbox)
                     /\ (IF i \in S THEN s ELSE mailbox[i].state) = "cancelled"
         /\ \A i : i \in AckedRows' <=> i \in 1..Len(mailbox)
                     /\ (IF i \in S THEN s ELSE mailbox[i].state) = "delivered"
<1>1. /\ Len(mailbox') = Len(mailbox)
      /\ \A m \in 1..Len(mailbox) : /\ mailbox'[m].to = mailbox[m].to
                                    /\ mailbox'[m].state = IF m \in S THEN s ELSE mailbox[m].state
  BY SetFacts DEF MailShapes
<1>2. Sent' = Sent
  BY <1>1 DEF Sent
<1> QED BY <1>1, <1>2 DEF Withdrawn, AckedRows

\* remove_message: what is withdrawn was not heard.
LEMMA RemoveKeeps ==
  ASSUME MailRest, NEW i, RemoveMessage(i)
  PROVE  Keeps
<1>1. /\ MailShapes /\ i \in 1..Len(mailbox) /\ mailbox[i].state = "queued"
      /\ UNCHANGED <<closed, disk, left, known>>
      /\ mailbox' = Set(mailbox, {i}, "cancelled")
  BY DEF MailRest, RemoveMessage, SetState, Set, runVars
<1>2. ~closed
  BY <1>1, OpenWithMail
<1> DEFINE r == mailbox[i].to
<1>3. r \in Recipient
  BY <1>1, BoxRow DEF MailShapes
<1>4. i \in Live(mailbox, r)
  BY <1>1 DEF Live
<1>r. r = mailbox[i].to
  OBVIOUS
<1> HIDE DEF r
<1>5. Foremost(mailbox, r, OnDisk(r))
  BY <1>2, <1>3 DEF MailRest, Standing, Fine
<1>6. i \in Waits(r)
  BY <1>1, <1>4, <1>5, MailIsLive DEF Waits, Foremost
<1>7. Sent' = Sent /\ Withdrawn' = Withdrawn \cup {i} /\ AckedRows' = AckedRows
  <2>1. /\ Sent' = Sent
        /\ \A k : k \in Withdrawn' <=> k \in 1..Len(mailbox)
                     /\ (IF k \in {i} THEN "cancelled" ELSE mailbox[k].state) = "cancelled"
        /\ \A k : k \in AckedRows' <=> k \in 1..Len(mailbox)
                     /\ (IF k \in {i} THEN "cancelled" ELSE mailbox[k].state) = "delivered"
    BY <1>1, SetSeen
  <2>2. \A k : k \in Withdrawn' <=> k \in Withdrawn \cup {i}
    BY <1>1, <2>1 DEF Withdrawn
  <2>3. \A k : k \in AckedRows' <=> k \in AckedRows
    BY <1>1, <2>1 DEF AckedRows
  <2> QED BY <2>1, <2>2, <2>3
<1> QED BY <1>1, <1>2, <1>3, <1>6, <1>7, StraysSame, OwedSame, AsWithdraw

\* claim_messages cannot be seen.
LEMMA ClaimKeeps ==
  ASSUME MailRest, NEW r \in Recipient, Claim(r)
  PROVE  Keeps
<1> DEFINE S == Lowest(BatchLimit, Undelivered(r))
<1>1. /\ MailShapes /\ UNCHANGED <<closed, disk, left, known>>
      /\ mailbox' = Set(mailbox, S, "delivering")
  BY DEF MailRest, Claim, SetState, Set, runVars
<1>2. \A i \in S : mailbox[i].state # "cancelled" /\ mailbox[i].state # "delivered"
  BY DEF Lowest, Undelivered
<1> HIDE DEF S
<1>3. Sent' = Sent /\ Withdrawn' = Withdrawn /\ AckedRows' = AckedRows
  BY <1>1, <1>2, SetSeen DEF Withdrawn, AckedRows
<1> QED BY <1>1, <1>3, StraysSame, OwedSame, AsStutter

\* acknowledge: what is acknowledged was heard.
LEMMA AcknowledgeKeeps ==
  ASSUME MailRest, NEW r \in Recipient, Acknowledge(r)
  PROVE  Keeps
<1>1. MailShapes /\ UNCHANGED <<closed, disk, left, known>> /\ batch[r].step = "recorded"
  BY DEF MailRest, Acknowledge
<1>2. ~closed
  BY <1>1 DEF MailRest, Standing, NoBatch
<1>3. CASE mailbox' = mailbox
  BY <1>1, <1>3, UnseenKeeps
<1>4. CASE SetState(batch[r].rows, "delivered")
  <2> DEFINE S == batch[r].rows
  <2>1. mailbox' = Set(mailbox, S, "delivered")
    BY <1>4 DEF SetState, Set
  <2>2. S \subseteq Live(mailbox, r) /\ S \subseteq OnDisk(r)
    BY <1>1, <1>2 DEF MailRest, Standing, Fine, Oldest, Delivering, Recorded
  <2>3. \A i \in S : i \in 1..Len(mailbox) /\ mailbox[i].state # "cancelled"
    BY <2>2 DEF Live
  <2> HIDE DEF S
  <2>4. Sent' = Sent /\ Withdrawn' = Withdrawn /\ AckedRows' = AckedRows \cup S
    BY <1>1, <2>1, <2>3, SetSeen DEF Withdrawn, AckedRows
  <2>5. S \in SUBSET (MailOf(r) \cap OnDisk(r))
    BY <1>1, <2>2, MailIsLive
  <2> QED BY <1>1, <1>2, <2>4, <2>5, StraysSame, OwedSame, AsAcknowledge
<1> QED BY <1>3, <1>4 DEF Acknowledge

\* What is brought is brought in order.
LEMMA BringsInOrder ==
  ASSUME MailShapes, NEW r \in Recipient, NEW T, Brings(r, T)
  PROVE  /\ disk' = [disk EXCEPT ![r] = @ \o InOrder(T)]
         /\ OnDisk(r)' = OnDisk(r) \cup T
         /\ \A x \in Recipient \ {r} : disk'[x] = disk[x]
<1>1. PICK t : Lists(t, T) /\ disk' = [disk EXCEPT ![r] = disk[r] \o t]
  BY DEF Brings
<1>2. t = InOrder(T)
  BY <1>1, ListsIsInOrder
<1>3. disk \in [Recipient -> Conv] /\ ToSet(disk[r] \o t) = OnDisk(r) \cup T
  BY <1>1, BroughtOnDisk DEF MailShapes
<1>4. disk'[r] = disk[r] \o t
  BY <1>1, <1>3
<1> QED BY <1>1, <1>2, <1>3, <1>4 DEF OnDisk

\* A delivery of b may bring T to r, with D on disk and K known: mail in line that
\* is not acknowledged, and of what is on disk only what is not known.
MayBring(mb, r, D, K, b, T) ==
  /\ T \subseteq Live(mb, r) /\ \A i \in T : mb[i].state # "delivered"
  /\ T \subseteq (Live(mb, r) \ D) \cup (D \ K)
  /\ \A i \in T, j \in Live(mb, r) \ D : j < i => j \in T
  /\ (D \cup T) \ (K \cup b.rows) \subseteq D \ K

\* It may bring what is written.
LEMMA WrittenKeeps ==
  ASSUME NEW mb \in Box, NEW r, NEW D, NEW L, NEW K, NEW b, NEW H, Fine(mb, r, D, L, K, b, H),
         b.step # "none", NEW w \in H, NEW T \in SUBSET (L[w] \cup (b.rows \ K)),
         \A i \in T, j \in (L[w] \cup (b.rows \ K)) \ D : j < i => j \in T,
         T \cap D \subseteq b.rows \ K
  PROVE  MayBring(mb, r, D, K, b, T)
<1> DEFINE P == L[w] \cup (b.rows \ K)
<1>1. Foremost(mb, r, D \cup P)
  BY HoldsFront
<1>2. /\ Foremost(mb, r, D) /\ Acked(mb, r, D) /\ b.rows \subseteq Delivering(mb, r)
      /\ Delivering(mb, r) \subseteq b.rows
  BY DEF Fine, Oldest, InHand
<1>3. T \subseteq P /\ \A i \in T, j \in P \ D : j < i => j \in T
  OBVIOUS
<1> HIDE DEF P
<1>4. T \subseteq Live(mb, r)
  BY <1>1, <1>3 DEF Foremost
<1>5. \A i \in T : mb[i].state # "delivered"
  BY <1>2, <1>4 DEF Acked, Delivering
<1>6. \A i \in T, j \in Live(mb, r) \ D : j < i => j \in T
  BY <1>1, <1>3 DEF Foremost
<1>7. ASSUME NEW i \in T, i \notin D
      PROVE  i \in b.rows
  <2>1. i \in Live(mb, r) /\ i \in P /\ mb[i].state # "delivered" /\ mb[i].state # "cancelled"
    BY <1>3, <1>4, <1>5 DEF Live
  <2>2. mb[i].state # "queued"
    BY <1>1, <2>1 DEF Foremost
  <2>3. mb[i].state \in {"queued", "delivering", "delivered", "cancelled"}
    BY <2>1, BoxRow DEF Live
  <2> QED BY <1>2, <2>1, <2>2, <2>3 DEF Delivering
<1> QED BY <1>4, <1>5, <1>6, <1>7 DEF MayBring

\* record_transcript and flush: a delivery brings mail that waits, and again what
\* came behind the back of its recipient.
LEMMA RecordKeeps ==
  ASSUME RunsInv, MailRest, NEW r \in Recipient, NEW w \in Writer, Record(w, r)
  PROVE  Keeps
<1>1. /\ ~closed /\ w \in Hosting(r) /\ batch[r].step = "claimed"
      /\ UNCHANGED <<closed, mailbox, pc, job>>
      /\ Fine(mailbox, r, OnDisk(r), WithWriter(r), known[r], batch[r], Hosting(r))
  BY RecordFacts
<1>2. PICK T : Recording(w, r, T)
  BY RecordFacts
<1>3. MailShapes /\ mailbox \in Box /\ known \in [Recipient -> SUBSET Row]
  BY DEF MailRest, MailShapes
<1>4. Written(w, r, T) /\ Brings(r, T) /\ known' = [known EXCEPT ![r] = known[r] \cup batch[r].rows]
  BY <1>2 DEF Recording
<1>5. /\ T \subseteq Live(mailbox, r) /\ \A i \in T : mailbox[i].state # "delivered"
      /\ T \subseteq (Live(mailbox, r) \ OnDisk(r)) \cup (OnDisk(r) \ known[r])
      /\ \A i \in T, j \in Live(mailbox, r) \ OnDisk(r) : j < i => j \in T
      /\ (OnDisk(r) \cup T) \ (known[r] \cup batch[r].rows) \subseteq OnDisk(r) \ known[r]
  <2> DEFINE D == OnDisk(r)
             L == WithWriter(r)
             K == known[r]
             b == batch[r]
             H == Hosting(r)
  <2>1. /\ Fine(mailbox, r, D, L, K, b, H) /\ b.step # "none" /\ w \in H
        /\ T \in SUBSET (L[w] \cup (b.rows \ K)) /\ T \cap D \subseteq b.rows \ K
        /\ \A i \in T, j \in (L[w] \cup (b.rows \ K)) \ D : j < i => j \in T
    BY <1>1, <1>4 DEF Written, Held
  <2> HIDE DEF D, L, K, b, H
  <2>2. MayBring(mailbox, r, D, K, b, T)
    BY <1>3, <2>1, WrittenKeeps
  <2> QED BY <2>2 DEF MayBring, D, K, b
<1>6. /\ disk' = [disk EXCEPT ![r] = @ \o InOrder(T)]
      /\ OnDisk(r)' = OnDisk(r) \cup T
      /\ \A x \in Recipient \ {r} : disk'[x] = disk[x] /\ known'[x] = known[x]
  BY <1>3, <1>4, BringsInOrder
<1>7. known'[r] = known[r] \cup batch[r].rows
  BY <1>3, <1>4
<1> DEFINE U == OnDisk(r)' \ known'[r]
<1>8. Strays' = [Strays EXCEPT ![r] = U]
  BY <1>1, <1>6, StraysOne
<1>9. Strays[r] = OnDisk(r) \ known[r]
  BY <1>1 DEF Strays
<1>10. U \in SUBSET Strays[r]
  BY <1>5, <1>6, <1>7, <1>9
<1> HIDE DEF U
<1>11. MailOf(r) = Live(mailbox, r) /\ Waits(r) = Live(mailbox, r) \ OnDisk(r)
  BY <1>3, MailIsLive DEF Waits
<1>12. T \in SUBSET (MailOf(r) \ AckedRows)
  BY <1>5, <1>11 DEF AckedRows
<1>13. InLine(r, T) /\ T \subseteq Waits(r) \cup Strays[r]
  BY <1>5, <1>9, <1>11 DEF InLine
<1> QED BY <1>1, <1>6, <1>8, <1>10, <1>12, <1>13, BoxSame, OwedOpen, AsHear

\* What the writers keep, over all of them.
LEMMA KeptIs ==
  \A r : /\ \A x : x \in Kept(r) <=> \E w \in Writer : x \in WithWriter(r)[w]
         /\ \A x : x \in Kept(r)' <=> \E w \in Writer : x \in WithWriter(r)'[w]
BY DEF Kept, WithWriter

\* The process tries again in an open session: mail comes that waits.
LEMMA CatchUpStrays ==
  ASSUME MailRest, NEW r \in Recipient, NEW w \in Writer, CatchUp(w, r), ~closed
  PROVE  Keeps
<1>1. UNCHANGED <<closed, mailbox, known>>
  BY CatchUpFacts
<1>2. PICK T : Catching(w, r, T)
  BY CatchUpFacts
<1>3. Begins(T, WithWriter(r)[w] \ OnDisk(r)) /\ Brings(r, T) /\ MailShapes
  BY <1>2 DEF Catching, MailRest
<1>4. Foremost(mailbox, r, OnDisk(r) \cup WithWriter(r)[w])
  BY DEF MailRest, Standing, Fine
<1>5. /\ disk' = [disk EXCEPT ![r] = @ \o InOrder(T)]
      /\ OnDisk(r)' = OnDisk(r) \cup T
      /\ \A x \in Recipient \ {r} : disk'[x] = disk[x] /\ known'[x] = known[x]
  BY <1>1, <1>3, BringsInOrder
<1>6. Waits(r) = Live(mailbox, r) \ OnDisk(r)
  BY <1>3, MailIsLive DEF Waits
<1>7. T \in SUBSET Waits(r) /\ InLine(r, T)
  BY <1>3, <1>4, <1>6 DEF Begins, Foremost, InLine
<1> DEFINE U == OnDisk(r)' \ known'[r]
<1>8. Strays' = [Strays EXCEPT ![r] = U]
  BY <1>1, <1>5, StraysOne
<1>9. U \in SUBSET (Strays[r] \cup T)
  BY <1>1, <1>5 DEF Strays
<1> HIDE DEF U
<1> QED BY <1>1, <1>5, <1>7, <1>8, <1>9, BoxSame, OwedOpen, AsStray

\* And in a deleted one: what it kept is owed no longer.
LEMMA CatchUpLingers ==
  ASSUME MailRest, NEW r \in Recipient, NEW w \in Writer, CatchUp(w, r), closed
  PROVE  Keeps
<1>1. UNCHANGED <<closed, mailbox, known>>
  BY CatchUpFacts
<1>2. PICK T : Catching(w, r, T)
  BY CatchUpFacts
<1>3. Begins(T, WithWriter(r)[w] \ OnDisk(r)) /\ Brings(r, T) /\ MailShapes
  BY <1>2 DEF Catching, MailRest
<1>4. /\ disk' = [disk EXCEPT ![r] = @ \o InOrder(T)]
      /\ OnDisk(r)' = OnDisk(r) \cup T
      /\ \A x \in Recipient \ {r} : disk'[x] = disk[x]
  BY <1>1, <1>3, BringsInOrder
<1>5. T \subseteq Kept(r) \ OnDisk(r)
  BY <1>3, KeptIs DEF Begins
<1>6. \A x \in Recipient \ {r} : Kept(x)' = Kept(x)
  <2>1. CASE left' = left
    BY <2>1 DEF Kept
  <2>2. CASE left' = [left EXCEPT ![w][r] = <<>>]
    <3>1. \A v \in Writer, x \in Recipient \ {r} : left'[v][x] = left[v][x]
      BY <1>3, <2>2 DEF MailShapes
    <3> QED BY <3>1 DEF Kept
  <2> QED BY <1>2, <2>1, <2>2 DEF Catching
<1>7. Kept(r)' \ (OnDisk(r) \cup T) = (Kept(r) \ OnDisk(r)) \ T
  <2>1. CASE left' = left
    <3>1. Kept(r)' = Kept(r)
      BY <2>1 DEF Kept
    <3> QED BY <3>1
  <2>2. CASE T = WithWriter(r)[w] \ OnDisk(r) /\ left' = [left EXCEPT ![w][r] = <<>>]
    <3>1. ButFor(WithWriter(r), WithWriter(r)', w) /\ WithWriter(r)'[w] = {}
      BY <2>2, ListsNothing, KeptChanges
    <3>2. \A x : x \in Kept(r)' <=> \E v \in Writer : v # w /\ x \in WithWriter(r)[v]
      BY <3>1, KeptIs DEF ButFor
    <3> QED BY <3>2, <2>2, KeptIs
  <2> QED BY <1>2, <2>1, <2>2 DEF Catching
<1>8. Owed' = [Owed EXCEPT ![r] = @ \ T]
  <2>1. \A x \in Recipient \ {r} : Owed'[x] = Owed[x]
    BY <1>1, <1>4, <1>6 DEF Owed, OnDisk
  <2>2. Owed'[r] = Kept(r)' \ OnDisk(r)' /\ Owed[r] = Kept(r) \ OnDisk(r)
    BY <1>1 DEF Owed, OnDisk
  <2>3. Owed'[r] = Owed[r] \ T
    BY <1>4, <1>7, <2>2
  <2> QED BY <2>1, <2>3 DEF Owed
<1>9. T \in SUBSET Owed[r]
  BY <1>5 DEF Owed
<1> QED BY <1>1, <1>4, <1>8, <1>9, BoxSame, StraysClosed, AsLinger

\* A conversation is read from its transcript: nothing is astray any more.
LEMMA HydrateKeeps ==
  ASSUME MailShapes, NEW r \in Recipient, Hydrate(r), ~closed, UNCHANGED <<closed, mailbox, disk>>
  PROVE  Keeps
<1>1. known'[r] = OnDisk(r) /\ \A x \in Recipient \ {r} : known'[x] = known[x]
  BY HydrateShape
<1>2. Strays' = [Strays EXCEPT ![r] = OnDisk(r)' \ known'[r]]
  BY <1>1, StraysOne
<1>3. OnDisk(r)' \ known'[r] = {}
  BY <1>1 DEF OnDisk
<1>4. Strays' = [Strays EXCEPT ![r] = {}]
  BY <1>2, <1>3
<1> QED BY <1>4, BoxSame, OwedOpen, AsNotice

\* An admitted execution does.
LEMMA AdmissionKeeps ==
  ASSUME RunsInv, MailRest, NEW c \in Call, NEW a \in Agent, Admission(c, a)
  PROVE  Keeps
<1>1. UNCHANGED <<mailbox, disk, left, batch>> /\ MailShapes /\ a \in Recipient
  BY DEF Admission, MailRest, Recipient
<1>2. CASE pc'[c] # "run"
  <2>1. known' = known /\ closed' = closed
    BY <1>2 DEF Admission, Admit, Goto, tables
  <2> QED BY <1>1, <2>1, UnseenKeeps
<1>3. CASE pc'[c] = "run"
  <2>1. Hydrate(a) /\ ~closed /\ UNCHANGED closed
    BY <1>3, Enters DEF Admission
  <2> QED BY <1>1, <2>1, HydrateKeeps
<1> QED BY <1>2, <1>3

\* What a writer kept is lost with it.
LEMMA LostKeeps ==
  ASSUME MailShapes, NEW w \in Writer, left' = [left EXCEPT ![w] = Nothing], closed,
         UNCHANGED <<closed, mailbox, disk>>
  PROVE  Keeps
<1>1. \A x \in Recipient : Lost(w, x)
  BY WriterDies
<1>2. ASSUME NEW x \in Recipient PROVE Kept(x)' \subseteq Kept(x)
  <2>1. \A v \in Writer : WithWriter(x)'[v] = {} \/ WithWriter(x)'[v] = WithWriter(x)[v]
    BY <1>1 DEF Lost
  <2> QED BY <2>1, KeptIs
<1>3. ASSUME NEW x \in Recipient PROVE Owed'[x] \subseteq Owed[x]
  <2>1. Owed'[x] = Kept(x)' \ OnDisk(x)' /\ Owed[x] = Kept(x) \ OnDisk(x)
    BY DEF Owed, OnDisk
  <2>2. OnDisk(x)' = OnDisk(x)
    BY DEF OnDisk
  <2> QED BY <2>1, <2>2, <1>2
<1> QED BY <1>3, BoxSame, StraysClosed, AsForget

\* The pool reads the conversation of the parent again, or its process dies.
LEMMA ParentKeeps ==
  ASSUME MailRest, ParentReloads \/ ParentDies
  PROVE  Keeps
<1>1. /\ UNCHANGED <<closed, mailbox, disk>> /\ Hydrate(Parent) /\ MailShapes
      /\ Parent \in Recipient /\ Parent \in Writer
      /\ left' = left \/ left' = [left EXCEPT ![Parent] = Nothing]
  BY DEF ParentReloads, ParentDies, MailRest, Recipient, Writer, runVars
<1>2. CASE ~closed
  BY <1>1, <1>2, HydrateKeeps
<1>3. CASE closed /\ left' = left
  BY <1>1, <1>3, BoxSame, StraysClosed, OwedSame, AsStutter
<1>4. CASE closed /\ left' = [left EXCEPT ![Parent] = Nothing]
  BY <1>1, <1>4, LostKeeps
<1> QED BY <1>1, <1>2, <1>3, <1>4

\* A process dies.
LEMMA DeathKeeps ==
  ASSUME MailRest, NEW c \in Call, Death(c)
  PROVE  Keeps
<1>1. /\ UNCHANGED <<closed, mailbox, disk, known>> /\ MailShapes /\ c \in Writer
      /\ left' = [left EXCEPT ![c] = Nothing]
  BY DEF Death, Die, tables, MailRest, Writer
<1>2. CASE closed
  BY <1>1, <1>2, LostKeeps
<1>3. CASE ~closed
  BY <1>1, <1>3, BoxSame, StraysSame, OwedOpen, AsStutter
<1> QED BY <1>2, <1>3

\* drop_session and delete_session: what writers keep was mail, so no more is owed.
LEMMA DeletionKeeps ==
  ASSUME RunsInv, MailRest, NEW c \in Call, Deletion(c)
  PROVE  Keeps
<1>1. UNCHANGED <<left, known, batch>> /\ MailShapes
  BY DeletionFacts DEF MailRest
<1>2. CASE UNCHANGED <<closed, mailbox, disk>>
  BY <1>1, <1>2, UnseenKeeps
<1>3. CASE ~closed /\ closed' = TRUE /\ mailbox' = <<>> /\ disk' = Nothing
  <2>0. 1..Len(mailbox') = {}
    BY <1>3
  <2>1. Withdrawn' = {} /\ AckedRows' = {}
    BY <2>0 DEF Withdrawn, AckedRows
  <2>2. Sent' = <<>>
    BY <1>3, <2>0 DEF Sent
  <2>3. Strays' = Nobody
    BY <1>3 DEF Strays, Nobody
  <2>4. ASSUME NEW r \in Recipient PROVE Owed'[r] \subseteq MailOf(r)
    <3>1. Kept(r)' = Kept(r)
      BY <1>1 DEF Kept
    <3>2. Owed'[r] \subseteq Kept(r)
      BY <1>3, <3>1 DEF Owed
    <3>3. \A w \in Writer : Foremost(mailbox, r, OnDisk(r) \cup WithWriter(r)[w])
      BY <1>3 DEF MailRest, Standing, Fine
    <3>4. Kept(r) \subseteq Live(mailbox, r)
      BY <3>3, KeptIs DEF Foremost
    <3> QED BY <3>2, <3>4, <1>1, MailIsLive
  <2>5. DOMAIN Owed' = Recipient
    BY DEF Owed
  <2> QED BY <1>3, <2>1, <2>2, <2>3, <2>4, <2>5, AsDelete
<1> QED BY <1>2, <1>3, DeletionFacts

\* Every step is one of the promise, or cannot be seen.
LEMMA PromiseStep ==
  ASSUME MailInv, [MailNext]_allVars
  PROVE  Keeps
<1>1. MailRest /\ RunsInv
  BY DEF MailInv, MailRest
<1>2. CASE UNCHANGED allVars
  BY <1>2, UnseenKeeps DEF allVars, runVars, mailVars
<1>3. CASE \E c \in Call : (Begin(c) /\ UNCHANGED mailVars) \/ RunStep(c) \/ Death(c)
  <2>1. PICK c \in Call : (Begin(c) /\ UNCHANGED mailVars) \/ RunStep(c) \/ Death(c)
    BY <1>3
  <2>2. CASE (Begin(c) /\ UNCHANGED mailVars) \/ Elsewhere(c)
    <3>1. UNCHANGED <<closed, mailbox, disk, left, known>>
      BY <2>2 DEF Elsewhere, Begin, Contend, Acquire, Return, Release, Look, tables, mailVars
    <3> QED BY <3>1, UnseenKeeps
  <2> QED BY <1>1, <2>1, <2>2, DeletionKeeps, SettlementKeeps, AdmissionKeeps, DeathKeeps DEF RunStep
<1>4. CASE \E r \in Recipient : Send(r) \/ Deliver(r) \/ \E w \in Writer : CatchUp(w, r)
  BY <1>1, <1>4, SendKeeps, ClaimKeeps, RecordKeeps, AcknowledgeKeeps, CatchUpStrays, CatchUpLingers
     DEF Deliver
<1>5. CASE (\E i \in 1..MaxSent : RemoveMessage(i)) \/ ParentReloads \/ ParentDies
  BY <1>1, <1>5, RemoveKeeps, ParentKeeps
<1> QED BY <1>2, <1>3, <1>4, <1>5 DEF MailNext

\* Whatever dies, fails or is replayed: messages are heard in the order in which
\* they were accepted, and none that waits is passed over; again comes only what
\* came late behind the back of a delivery that failed; what is acknowledged does
\* not come again; a withdrawal that reported success is one; and after the
\* deletion of the session come at most rows the writers keep from before.
THEOREM MailKeepsPromise == MailSpec => KeepsPromise
<1>1. MailInit => Promise!PromiseInit
  <2> SUFFICES ASSUME MailInit PROVE Promise!PromiseInit
    OBVIOUS
  <2>1. mailbox = <<>> /\ closed = FALSE /\ disk = Nothing
    BY DEF MailInit, RunsInit
  <2>2. 1..Len(mailbox) = {}
    BY <2>1
  <2>3. \A r \in Recipient : ToSet(disk[r]) = {}
    BY <2>1, ListsNothing DEF Nothing, Lists
  <2> QED BY <2>1, <2>2, <2>3 DEF Promise!PromiseInit, Promise!None, Nothing
<1>2. MailInv /\ [MailNext]_allVars => [Promise!PromiseNext]_(Promise!promiseVars)
  BY PromiseStep DEF Keeps
<1> QED  BY <1>1, <1>2, MailInvariant, PTL DEF MailSpec, KeepsPromise, Promise!PromiseSpec
=============================================================================
