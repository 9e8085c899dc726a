------------------------------ MODULE AgentRuns ------------------------------
(***************************************************************************)
(* engine/agent_run_store.py: which attempt of a delegated agent may run.  *)
(* A row per agent names its current attempt; an operating-system lease    *)
(* per agent belongs to whoever executes or recovers it, and is freed by   *)
(* the death of its process and by nothing else.                           *)
(*                                                                         *)
(* A call is one thread inside the store, each possibly in a process of    *)
(* its own.  Every call begins by recovering the rows whose owner is gone  *)
(* (recover), and goes on to start an execution (start, then the lifetime  *)
(* of agent_runtime's execute), to delete the session (drop_session), or   *)
(* to end there (control).  A step is one transaction or one attempt at a  *)
(* lease.  One session; "cancelling" is never written and is left out.     *)
(***************************************************************************)
EXTENDS Naturals, FiniteSets

CONSTANTS
  Agent,        \* the agents of the session
  Attempt,      \* the attempt identifiers that uuid4 may yield
  NoAttempt,    \* the attempt of an agent without a row
  Call,         \* threads that may be inside the store
  NoCall,       \* nobody holds the lease
  Overlap,      \* [Agent -> SUBSET Agent]: whose write scopes meet mine
  Limit,        \* how many executions may be active at once
  MaxFaults     \* bound on deaths and failing transactions

ASSUME SentinelAssumption == NoAttempt \notin Attempt /\ NoCall \notin Call
ASSUME AgentAssumption    == IsFiniteSet(Agent)
ASSUME OverlapAssumption  ==
  /\ Overlap \in [Agent -> SUBSET Agent]
  /\ \A a, b \in Agent : b \in Overlap[a] => a \in Overlap[b]
ASSUME BoundAssumption    == Limit \in Nat /\ MaxFaults \in Nat

VARIABLES
  agents,    \* the table agents: current attempt and its state
  attempts,  \* the table attempts
  closed,    \* the session is in closed_sessions
  lease,     \* who holds the lease of each agent
  pc,        \* where each call is
  job,       \* what it was called for
  todo,      \* the active rows recover has read and not yet looked at
  own,       \* the attempt it recovers or executes
  faults     \* faults so far

tables  == <<agents, attempts, closed>>
runVars == <<agents, attempts, closed, lease, pc, job, todo, own, faults>>

MaybeAttempt == Attempt \cup {NoAttempt}
AgentRow     == [attempt : MaybeAttempt,
                 state : {"absent", "running", "settled", "interrupted"}]
Job          == [kind : {"recover", "drop"}] \cup
                [kind : {"start"}, agent : Agent, seen : MaybeAttempt]
Recover      == [kind |-> "recover"]

Runs(a, n)   == agents[a] = [attempt |-> n, state |-> "running"]
Active       == {a \in Agent : agents[a].state = "running"}
ActiveRows   == {[agent |-> a, attempt |-> agents[a].attempt] : a \in Active}
Owned(a)     == lease[a] # NoCall
Executes(c, a) == pc[c] = "run" /\ job[c].agent = a

RunsTypeOK ==
  /\ agents \in [Agent -> AgentRow]
  /\ attempts \in [Attempt -> {"unused", "running", "settled", "interrupted", "deleted"}]
  /\ closed \in BOOLEAN
  /\ lease \in [Agent -> Call \cup {NoCall}]
  /\ pc \in [Call -> {"idle", "recover", "look", "mend", "admit", "run", "release"}]
  /\ job \in [Call -> Job]
  /\ todo \in [Call -> SUBSET [agent : Agent, attempt : MaybeAttempt]]
  /\ own \in [Call -> MaybeAttempt]
  /\ faults \in 0..MaxFaults
  /\ \A a \in Agent : Owned(a) => pc[lease[a]] \notin {"idle", "recover"}

RunsInit ==
  /\ agents = [a \in Agent |-> [attempt |-> NoAttempt, state |-> "absent"]]
  /\ attempts = [n \in Attempt |-> "unused"]
  /\ closed = FALSE
  /\ lease = [a \in Agent |-> NoCall]
  /\ pc = [c \in Call |-> "idle"]
  /\ job = [c \in Call |-> Recover]
  /\ todo = [c \in Call |-> {}]
  /\ own = [c \in Call |-> NoAttempt]
  /\ faults = 0

Goto(c, l) == pc' = [pc EXCEPT ![c] = l]
Fault      == faults < MaxFaults /\ faults' = faults + 1

\* The call is over, by return, exception or death: it holds nothing any more.
End(c) ==
  /\ Goto(c, "idle")
  /\ job'   = [job  EXCEPT ![c] = Recover]
  /\ todo'  = [todo EXCEPT ![c] = {}]
  /\ own'   = [own  EXCEPT ![c] = NoAttempt]
  /\ lease' = [a \in Agent |-> IF lease[a] = c THEN NoCall ELSE lease[a]]

\* The first read of recover; a start comes with the attempt its caller saw.
Begin(c) ==
  /\ pc[c] = "idle"
  /\ \/ \E k \in {"recover", "drop"} : job' = [job EXCEPT ![c] = [kind |-> k]]
     \/ \E a \in Agent : job' = [job EXCEPT ![c] =
          [kind |-> "start", agent |-> a, seen |-> agents[a].attempt]]
  /\ todo' = [todo EXCEPT ![c] = ActiveRows]
  /\ Goto(c, "recover")
  /\ UNCHANGED <<tables, lease, own, faults>>

\* (Mutant of Contend: a lease is taken over although its holder lives.)
Contend_Steal(c) ==
  /\ pc[c] = "recover"
  /\ \E r \in todo[c] :
       /\ todo' = [todo EXCEPT ![c] = @ \ {r}]
       /\ lease' = [lease EXCEPT ![r.agent] = c]
       /\ own' = [own EXCEPT ![c] = r.attempt]
       /\ Goto(c, "look")
  /\ UNCHANGED <<tables, job, faults>>

\* "Only an obtainable OS lease proves that an active owner is gone."
Contend(c) ==
  /\ pc[c] = "recover"
  /\ \E r \in todo[c] :
       /\ todo' = [todo EXCEPT ![c] = @ \ {r}]
       /\ IF Owned(r.agent)
          THEN UNCHANGED <<lease, own, pc>>
          ELSE /\ lease' = [lease EXCEPT ![r.agent] = c]
               /\ own' = [own EXCEPT ![c] = r.attempt]
               /\ Goto(c, "look")
  /\ UNCHANGED <<tables, job, faults>>

\* (Mutant of LetGo: a row that was looked at leaves its lease with the call.)
LetGo_Leak(c, a) ==
  /\ UNCHANGED lease
  /\ own' = [own EXCEPT ![c] = NoAttempt]

\* The lease is released in a finally.
LetGo(c, a) ==
  /\ lease' = [lease EXCEPT ![a] = NoCall]
  /\ own' = [own EXCEPT ![c] = NoAttempt]

\* (Mutant of Look: a row that still runs is taken for one that does not.)
Look_Skip(c, a) ==
  /\ pc[c] = "look" /\ lease[a] = c
  /\ LetGo(c, a) /\ Goto(c, "recover")
  /\ UNCHANGED <<tables, job, todo, faults>>

\* The row is read again under the lease.
Look(c, a) ==
  /\ pc[c] = "look" /\ lease[a] = c
  /\ IF Runs(a, own[c])
     THEN Goto(c, "mend") /\ UNCHANGED <<lease, own>>
     ELSE Goto(c, "recover") /\ LetGo(c, a)
  /\ UNCHANGED <<tables, job, todo, faults>>

\* finish: one transaction over both tables; nothing unless the attempt is the
\* current one and active.
Settle(a, n, state) ==
  /\ IF Runs(a, n)
     THEN /\ agents' = [agents EXCEPT ![a].state = state]
          /\ attempts' = [attempts EXCEPT ![n] = state]
     ELSE UNCHANGED <<agents, attempts>>
  /\ UNCHANGED closed

\* recover_owner (its errors are swallowed), finish as interrupted, release.  An
\* error of finish ends the whole call.
Interrupt(c, a) ==
  /\ pc[c] = "mend" /\ lease[a] = c
  /\ \/ /\ Settle(a, own[c], "interrupted")
        /\ LetGo(c, a) /\ Goto(c, "recover")
        /\ UNCHANGED <<job, todo, faults>>
     \/ Fault /\ End(c) /\ UNCHANGED tables

\* Nothing (more) to recover: a start takes the lease of its agent.
Acquire(c) ==
  /\ pc[c] = "recover" /\ todo[c] = {} /\ job[c].kind = "start"
  /\ IF Owned(job[c].agent)
     THEN End(c)
     ELSE /\ lease' = [lease EXCEPT ![job[c].agent] = c]
          /\ Goto(c, "admit")
          /\ UNCHANGED <<job, todo, own>>
  /\ UNCHANGED <<tables, faults>>

Return(c) ==
  /\ pc[c] = "recover" /\ todo[c] = {} /\ job[c].kind = "recover"
  /\ End(c)
  /\ UNCHANGED <<tables, faults>>

\* (Mutant of Admissible: the session may have been deleted meanwhile.)
Admissible_EvenClosed(a, seen) ==
  /\ Cardinality(Active) < Limit
  /\ Overlap[a] \cap Active = {}
  /\ agents[a].attempt = seen

\* (Mutant of Admissible: only rows of other agents are compared... not at all.)
Admissible_AnyScope(a, seen) ==
  /\ ~closed
  /\ Cardinality(Active) < Limit
  /\ agents[a].attempt = seen

\* What start checks inside its transaction.  Rows count as active whether or
\* not somebody executes them, the agent's own row included.
Admissible(a, seen) ==
  /\ ~closed
  /\ Cardinality(Active) < Limit
  /\ Overlap[a] \cap Active = {}
  /\ agents[a].attempt = seen

\* A start may also be refused for its specification, its artifact or an error.
Admit(c, a) ==
  /\ pc[c] = "admit" /\ lease[a] = c
  /\ \/ /\ Admissible(a, job[c].seen)
        /\ \E n \in Attempt :
             /\ attempts[n] = "unused"
             /\ agents' = [agents EXCEPT ![a] = [attempt |-> n, state |-> "running"]]
             /\ attempts' = [attempts EXCEPT ![n] = "running"]
             /\ own' = [own EXCEPT ![c] = n]
        /\ Goto(c, "run")
        /\ UNCHANGED <<closed, lease, job, todo>>
     \/ End(c) /\ UNCHANGED tables
  /\ UNCHANGED faults

\* The execution is over, or was cancelled at admission.  The lease is released
\* afterwards, also when the transaction failed.
Finish(c, a) ==
  /\ Executes(c, a)
  /\ \/ Settle(a, own[c], "settled") /\ UNCHANGED faults
     \/ Fault /\ UNCHANGED tables
  /\ Goto(c, "release")
  /\ UNCHANGED <<lease, job, todo, own>>

Release(c) ==
  /\ pc[c] = "release"
  /\ End(c)
  /\ UNCHANGED <<tables, faults>>

\* drop_session; it may also be refused by a delivery in progress.
Drop(c) ==
  /\ pc[c] = "recover" /\ todo[c] = {} /\ job[c].kind = "drop"
  /\ \/ /\ Active = {}
        /\ closed' = TRUE
        /\ agents' = [a \in Agent |-> [attempt |-> NoAttempt, state |-> "absent"]]
        /\ attempts' = [n \in Attempt |-> IF attempts[n] = "unused" THEN "unused" ELSE "deleted"]
     \/ UNCHANGED tables
  /\ End(c)
  /\ UNCHANGED faults

\* The process of the call dies; the system frees its lease.
Die(c) ==
  /\ pc[c] # "idle"
  /\ Fault
  /\ End(c)
  /\ UNCHANGED tables

CallStep(c) ==
  \/ Contend(c) \/ Acquire(c) \/ Return(c) \/ Release(c) \/ Drop(c)
  \/ \E a \in Agent : Look(c, a) \/ Interrupt(c, a) \/ Admit(c, a) \/ Finish(c, a)

RunsNext == \E c \in Call : Begin(c) \/ CallStep(c) \/ Die(c)

RunsSpec == RunsInit /\ [][RunsNext]_runVars

\* Live threads run, an execution ends, and the store goes on being called:
\* whatever the call is for, it recovers first.
FairRunsSpec ==
  RunsSpec /\ \A c \in Call : WF_runVars(Begin(c)) /\ WF_runVars(CallStep(c))

-----------------------------------------------------------------------------
\* Whoever executes an agent is its current attempt, and nobody settles or
\* supersedes it meanwhile: not a recovery working from rows read long ago, not
\* a resume that raced it.
OwnerIsCurrent ==
  \A c \in Call, a \in Agent :
    Executes(c, a) => lease[a] = c /\ Runs(a, own[c]) /\ attempts[own[c]] = "running"

\* Executions at one time respect the limit, and none writes where another does.
ExecutionsCompatible ==
  /\ Cardinality({a \in Agent : \E c \in Call : Executes(c, a)}) <= Limit
  /\ \A c, d \in Call, a, b \in Agent :
       Executes(c, a) /\ Executes(d, b) /\ a # b => b \notin Overlap[a]

\* A deleted session stays empty: a start that was under way is not admitted.
ClosedStaysEmpty ==
  closed => /\ \A a \in Agent : agents[a].state = "absent"
            /\ \A c \in Call : pc[c] # "run"

Orphaned(a, n) == Runs(a, n) /\ \A c \in Call : ~(Executes(c, a) /\ own[c] = n)
Restarted(a)   == \E c \in Call : pc[c] = "admit" /\ job[c].agent = a

\* An attempt whose owner is gone does not stay active (and does not count
\* against the limit) for ever, unless that very agent is started again and
\* again in vain, each time keeping the recoveries out.
OrphansEnd ==
  \A a \in Agent, n \in Attempt : Orphaned(a, n) ~> ~Runs(a, n) \/ Restarted(a)
=============================================================================
