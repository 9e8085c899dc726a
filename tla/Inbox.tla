------------------------------- MODULE Inbox --------------------------------
(***************************************************************************)
(* server/inbox_registry.py and what surrounds it: the messages a user     *)
(* sends while a turn is running.  A message is accepted (202) once it is  *)
(* in the session's file; it reaches the model either in the turn that     *)
(* the drain submits after a settlement, together with everything that     *)
(* was queued, or at a sampling boundary of the running turn (steer).      *)
(*                                                                         *)
(* Every method of the registry is one step, taken under its lock, that    *)
(* changes memory and writes the whole session to disk: or, when the write *)
(* fails, either undoes the change or goes on and only warns.  The worker  *)
(* threads of a steer, the drain, the turn and its settlement interleave,  *)
(* and the process may die between any two of their steps.                 *)
(*                                                                         *)
(* One session.  The order of a batch is left out: any of its messages may *)
(* be the first, whose identity the turn takes; reordering and editing     *)
(* then change nothing.  Every client gives its messages an identity.      *)
(***************************************************************************)
EXTENDS Naturals, FiniteSets

CONSTANTS
  Msg,          \* messages; also their identities, and those of the rows
  NoId,         \* no identity: an item out of delivery, the turn of a human
  MaxQueued,    \* XEYO_INBOX_MAX_QUEUED
  MaxAttempts,  \* _DEFAULT_MAX_ATTEMPTS
  MaxTurns,     \* bound on the turns that a human starts
  MaxFaults     \* bound on crashes, failing writes and failing turns

ASSUME InboxAssumption ==
  /\ NoId \notin Msg
  /\ IsFiniteSet(Msg)
  /\ MaxQueued \in Nat \ {0} /\ MaxAttempts \in Nat \ {0}
  /\ MaxTurns \in Nat /\ MaxFaults \in Nat

VARIABLES
  reg,     \* the registry in memory: its items, and whether it is on hold
  disk,    \* the session's inbox file
  load,    \* memory is "cold", "loaded", or "dirty" (_reconcile_pending)
  staged,  \* steers saved by a worker thread that has not yet pushed them
  steer,   \* t_now_steer's queue
  turn,    \* the session's turn and its settlement
  drain,   \* the drain task and the batch it is submitting
  log,     \* the user rows of the conversation, as the model sees it
  durable, \* the identities of those in the transcript file
  lost,    \* messages whose row a crash has caught before it was flushed
  humans,  \* turns started by a human
  faults   \* faults so far

inboxVars == <<reg, disk, load, staged, steer, turn, drain, log, durable, lost, humans, faults>>
registry  == <<reg, disk, load>>

MaybeId  == Msg \cup {NoId}
Item     == [st : {"new", "queued", "stuck", "delivering", "delivered", "done", "removed"},
             did : MaybeId, tries : 0..MaxAttempts]
Registry == [item : [Msg -> Item], paused : BOOLEAN]
Row      == [id : Msg, texts : SUBSET Msg, copy : Nat]

InboxTypeOK ==
  /\ reg \in Registry /\ disk \in Registry
  /\ load \in {"cold", "loaded", "dirty"}
  /\ staged \subseteq Msg /\ steer \subseteq Msg
  /\ turn \in [st : {"idle", "begun", "running", "ended", "settled", "fallback"},
               id : MaybeId, stopped : BOOLEAN, due : SUBSET Msg]
  /\ drain \in [st : {"none", "scheduled", "submitting"}, id : MaybeId, batch : SUBSET Msg]
  /\ log \subseteq Row /\ durable \subseteq Msg /\ lost \subseteq Msg
  /\ humans \in 0..MaxTurns /\ faults \in 0..MaxFaults

Idle    == [st |-> "idle", id |-> NoId, stopped |-> FALSE, due |-> {}]
NoDrain == [st |-> "none", id |-> NoId, batch |-> {}]

InboxInit ==
  /\ reg = [item |-> [m \in Msg |-> [st |-> "new", did |-> NoId, tries |-> 0]],
            paused |-> FALSE]
  /\ disk = reg /\ load = "loaded"
  /\ staged = {} /\ steer = {}
  /\ turn = Idle /\ drain = NoDrain
  /\ log = {} /\ durable = {} /\ lost = {}
  /\ humans = 0 /\ faults = 0

In(S)      == {m \in Msg : reg.item[m].st \in S}
Queued     == In({"queued"})
Bound(id)  == {m \in In({"delivering"}) : reg.item[m].did = id}
RowIds     == {r.id : r \in log}
LateRows   == RowIds \ durable
Quiet      == turn.st \notin {"begun", "running"}
Fault      == faults < MaxFaults /\ faults' = faults + 1
NoFault    == UNCHANGED faults

\* The registry with the messages of S in state st, bound to the delivery did.
Move(S, st, did) ==
  [item |-> [m \in Msg |->
     IF m \in S THEN [st |-> st, did |-> did, tries |-> reg.item[m].tries] ELSE reg.item[m]],
   paused |-> reg.paused]

\* The file is replaced as a whole.  PersistOrRestore undoes the change when
\* that fails; Persist keeps it and warns.
PersistOrRestore(new) ==
  /\ load = "loaded" /\ UNCHANGED load
  /\ \/ reg' = new /\ disk' = new /\ NoFault
     \/ UNCHANGED <<reg, disk>> /\ Fault
Persist(new) ==
  /\ reg' = new /\ UNCHANGED load
  /\ \/ disk' = new /\ NoFault
     \/ UNCHANGED disk /\ Fault
Saved(new) == reg' = new /\ disk' = new /\ load = "loaded" /\ UNCHANGED load /\ NoFault

\* enqueue: 202 after the file is written, otherwise nothing has happened.
Enqueue(m) ==
  /\ reg.item[m].st = "new" /\ Cardinality(In({"queued", "stuck"})) < MaxQueued
  /\ Saved(Move({m}, "queued", NoId))
  /\ UNCHANGED <<staged, steer, turn, drain, log, durable, humans>>

\* submit_boundary, in a worker thread: first the owner in the registry ...
Stage(m) ==
  /\ reg.item[m].st = "new"
  /\ Saved(Move({m}, "delivering", m))
  /\ staged' = staged \cup {m}
  /\ UNCHANGED <<steer, turn, drain, log, durable, humans>>

\* fallback_pending: what waits for a boundary goes back to its queue slot; an
\* item whose write fails goes on waiting.
Fallback(waiting) ==
  \/ /\ IF waiting = {} THEN UNCHANGED <<registry, faults>>
                      ELSE Saved(Move(waiting, "queued", NoId))
     /\ steer' = {}
  \/ /\ waiting # {} /\ Fault
     /\ steer' = waiting /\ UNCHANGED registry

\* ... then the push; the turn it was meant for may have been settled since.
Push(m) ==
  /\ m \in staged /\ staged' = staged \ {m}
  /\ IF Quiet
     THEN Fallback(steer \cup {m})
     ELSE steer' = steer \cup {m} /\ UNCHANGED <<registry, faults>>
  /\ UNCHANGED <<turn, drain, log, durable, humans>>

\* A queued message is sent to the next boundary (session_inbox_item_steer).
SteerQueued(m) ==
  /\ m \in Queued
  /\ PersistOrRestore(Move({m}, "delivering", m))
  /\ steer' = IF reg' = reg THEN steer ELSE steer \cup {m}
  /\ UNCHANGED <<staged, turn, drain, log, durable, humans>>

\* remove
Withdraw(m) ==
  /\ m \in In({"queued", "stuck"})
  /\ PersistOrRestore(Move({m}, "removed", NoId))
  /\ UNCHANGED <<staged, steer, turn, drain, log, durable, humans>>

\* The interface drops a receipt when it has read the row in the transcript: that
\* the row is durable is how the client behaves, the registry does not ask.
Acknowledge(m) ==
  /\ m \in In({"delivered"}) /\ reg.item[m].did \in durable
  /\ PersistOrRestore(Move({m}, "done", NoId))
  /\ UNCHANGED <<staged, steer, turn, drain, log, durable, humans>>

Schedule == drain' = IF drain.st = "none" /\ ~reg'.paused
                     THEN [drain EXCEPT !.st = "scheduled"] ELSE drain

Resumed == [item |-> [m \in Msg |-> IF reg.item[m].st = "stuck"
                        THEN [st |-> "queued", did |-> NoId, tries |-> 0]
                        ELSE reg.item[m]],
            paused |-> FALSE]

\* (Mutant of Resume: the hold is lifted in memory although the write failed.)
Resume_Anyway ==
  /\ load = "loaded" /\ (reg.paused \/ In({"stuck"}) # {})
  /\ Persist(Resumed)
  /\ Schedule
  /\ UNCHANGED <<staged, steer, turn, log, durable, humans>>

\* The user lifts the hold and retries what is stuck.
Resume ==
  /\ reg.paused \/ In({"stuck"}) # {}
  /\ PersistOrRestore(Resumed)
  /\ IF reg' = reg THEN UNCHANGED drain ELSE Schedule
  /\ UNCHANGED <<staged, steer, turn, log, durable, humans>>

\* snapshot: the interface's poll also arms the drain.
Poll ==
  /\ load = "loaded" /\ Queued # {} /\ drain.st = "none" /\ ~reg.paused
  /\ drain' = [drain EXCEPT !.st = "scheduled"]
  /\ UNCHANGED <<registry, staged, steer, turn, log, durable, humans, faults>>

\* pop_active: all that is queued leaves in one batch.
Take ==
  /\ drain.st = "scheduled" /\ Quiet /\ ~reg.paused
  /\ \E f \in Queued :
       /\ PersistOrRestore(Move(Queued, "delivering", f))
       /\ drain' = IF reg' = reg THEN NoDrain
                   ELSE [st |-> "submitting", id |-> f, batch |-> Queued]
  /\ UNCHANGED <<staged, steer, turn, log, durable, humans>>

\* A turn runs, the queue is on hold, or there is nothing: the drain ends.
Skip ==
  /\ drain.st = "scheduled" /\ (~Quiet \/ reg.paused \/ Queued = {} \/ load # "loaded")
  /\ drain' = NoDrain
  /\ UNCHANGED <<registry, staged, steer, turn, log, durable, humans, faults>>

\* The chat route has the lease and answers 200; the turn then starts, or the
\* record of its start fails and nobody will ever settle it.
Submit ==
  /\ drain.st = "submitting" /\ turn.st = "idle"
  /\ drain' = NoDrain
  /\ \/ turn' = [st |-> "begun", id |-> drain.id, stopped |-> FALSE, due |-> {}] /\ NoFault
     \/ UNCHANGED turn /\ Fault
  /\ UNCHANGED <<registry, staged, steer, log, durable, humans>>

\* (Mutant of Tried: one attempt too many.)
Tried_OneMore(m) ==
  LET n == reg.item[m].tries + 1
  IN [st |-> IF n > MaxAttempts THEN "stuck" ELSE "queued", did |-> NoId, tries |-> n]

Tried(m) ==
  LET n == reg.item[m].tries + 1
  IN [st |-> IF n >= MaxAttempts THEN "stuck" ELSE "queued", did |-> NoId, tries |-> n]

\* (Mutant of Refuse: a refusal is not counted.)
Refuse_Uncounted ==
  /\ drain.st = "submitting"
  /\ drain' = NoDrain
  /\ Persist(Move(drain.batch, "queued", NoId))
  /\ UNCHANGED <<staged, steer, turn, log, durable, humans>>

\* Busy, no request to imitate since the restart, no answer in 20 s: the batch
\* returns to the queue, stuck after MaxAttempts (_requeue_failed).
Refuse ==
  /\ drain.st = "submitting"
  /\ drain' = NoDrain
  /\ Persist([item |-> [m \in Msg |-> IF m \in drain.batch THEN Tried(m) ELSE reg.item[m]],
              paused |-> reg.paused])
  /\ UNCHANGED <<staged, steer, turn, log, durable, humans>>

\* A human's own message starts a turn; its row is of no interest here.
HumanTurn ==
  /\ turn.st = "idle" /\ humans < MaxTurns
  /\ humans' = humans + 1
  /\ turn' = [st |-> "running", id |-> NoId, stopped |-> FALSE, due |-> {}]
  /\ UNCHANGED <<registry, staged, steer, drain, log, durable, faults>>

\* The new rows, then a flush; what it leaves undone is the writer's.
Extend(new) ==
  /\ log' = log \cup {[id |-> n.id, texts |-> n.texts, copy |-> Cardinality({r \in log : r.id = n.id})]
                      : n \in new}
  /\ \/ durable' = {r.id : r \in log'} /\ NoFault
     \/ UNCHANGED durable /\ Fault

\* submit_message: the user's row is written before the model is called.
Commit ==
  /\ turn.st = "begun"
  /\ Extend({[id |-> turn.id, texts |-> Bound(turn.id)]})
  /\ turn' = [turn EXCEPT !.st = "running"]
  /\ UNCHANGED <<registry, staged, steer, drain, humans>>

\* deliver, before the next sampling: what waits becomes part of the history.
Boundary ==
  /\ turn.st = "running" /\ turn.due = {} /\ steer # {}
  /\ Extend({[id |-> m, texts |-> {m}] : m \in steer \ RowIds})
  /\ steer' = {}
  /\ turn' = [turn EXCEPT !.due = steer]
  /\ UNCHANGED <<registry, staged, drain, humans>>

\* The turn's event of it reaches the chat route (finish_boundary_delivery).
Receipt ==
  /\ turn.st = "running" /\ turn.due # {} /\ load = "loaded"
  /\ Persist(Move({m \in turn.due : m \in Bound(m)}, "done", NoId))
  /\ turn' = [turn EXCEPT !.due = {}]
  /\ UNCHANGED <<staged, steer, drain, log, durable, humans>>

\* pause_queue: "failed durability cannot turn into execution".
Hold ==
  /\ load = "loaded"
  /\ reg' = [reg EXCEPT !.paused = TRUE]
  /\ \/ disk' = reg' /\ UNCHANGED load /\ NoFault
     \/ UNCHANGED disk /\ load' = "dirty" /\ Fault

\* interrupt_turn puts the queue on hold at once.
Stop ==
  /\ turn.st \in {"begun", "running"} /\ ~turn.stopped
  /\ turn' = [turn EXCEPT !.stopped = TRUE]
  /\ Hold
  /\ UNCHANGED <<staged, steer, drain, log, durable, humans>>

\* The turn ends, cancelled or not; early when the engine cannot start it.
End ==
  /\ \/ turn.st = "running" /\ NoFault
     \/ turn.st = "begun" /\ Fault
  /\ \E stopped \in {turn.stopped, TRUE} :
       turn' = [st |-> "ended", id |-> turn.id, stopped |-> stopped, due |-> {}]
  /\ UNCHANGED <<registry, staged, steer, drain, log, durable, humans>>

\* (Mutant of SettleDelivery: no receipt is kept.)
SettleDelivery_NoReceipt ==
  /\ turn.st = "ended" /\ load = "loaded"
  /\ Persist(Move(Bound(turn.id), "done", NoId))
  /\ turn' = [turn EXCEPT !.st = "settled"]
  /\ UNCHANGED <<staged, steer, drain, log, durable, humans>>

\* _finish_settled_delivery, whatever became of the turn.
SettleDelivery ==
  /\ turn.st = "ended" /\ load = "loaded"
  /\ IF Bound(turn.id) = {}
     THEN UNCHANGED <<registry, faults>>
     ELSE Persist(Move(Bound(turn.id), "delivered", turn.id))
  /\ turn' = [turn EXCEPT !.st = "settled"]
  /\ UNCHANGED <<staged, steer, drain, log, durable, humans>>

\* The file cannot be read or mended: this tenant of the settlement gives up.
SettleFails ==
  /\ turn.st = "ended" /\ load # "loaded" /\ Fault
  /\ turn' = [turn EXCEPT !.st = "fallback"]
  /\ UNCHANGED <<registry, staged, steer, drain, log, durable, humans>>

SettleQueue ==
  /\ turn.st = "settled"
  /\ turn' = [turn EXCEPT !.st = "fallback"]
  /\ IF turn.stopped
     THEN Hold /\ UNCHANGED drain
     ELSE UNCHANGED <<registry, faults>> /\ Schedule
  /\ UNCHANGED <<staged, steer, log, durable, humans>>

\* The second tenant, steer_settle_fallback: hold if stopped, then take back
\* what no boundary came for; nothing of that when it cannot hold.
SettleSteer ==
  /\ turn.st = "fallback"
  /\ turn' = Idle
  /\ IF turn.stopped /\ ~(reg.paused /\ load = "loaded")
     THEN \/ Hold /\ UNCHANGED <<steer, drain>>
          \/ load # "loaded" /\ Fault /\ UNCHANGED <<registry, steer, drain>>
     ELSE Fallback(steer) /\ Schedule
  /\ UNCHANGED <<staged, log, durable, humans>>

\* The writer thread catches up with what a flush left behind.
CatchUp ==
  /\ LateRows # {}
  /\ durable' = RowIds
  /\ UNCHANGED <<registry, staged, steer, turn, drain, log, humans, faults>>

\* The process dies; the transcript is read again, the inbox when it is needed.
Crash ==
  /\ Fault
  /\ reg' = disk /\ load' = "cold" /\ UNCHANGED disk
  /\ staged' = {} /\ steer' = {} /\ turn' = Idle /\ drain' = NoDrain
  /\ log' = {r \in log : r.id \in durable}
  /\ lost' = lost \cup UNION {r.texts : r \in log \ log'}
  /\ UNCHANGED <<durable, humans>>

\* (Mutant of Reconciled: the transcript is not consulted.)
Reconciled_Blind ==
  [disk EXCEPT !.item = [m \in Msg |->
     IF @[m].st = "delivering" THEN [@[m] EXCEPT !.st = "queued", !.did = NoId] ELSE @[m]]]

\* A delivery whose row is in the transcript was made; any other was not.
Reconciled ==
  [item |-> [m \in Msg |->
     IF disk.item[m].st # "delivering" THEN disk.item[m]
     ELSE IF disk.item[m].did \in durable
          THEN [st |-> "delivered", did |-> disk.item[m].did, tries |-> disk.item[m].tries]
          ELSE [st |-> "queued", did |-> NoId, tries |-> disk.item[m].tries]],
   paused |-> disk.paused]

\* _ensure_loaded_locked: the outcome is written back before any use of it.
Load ==
  /\ load = "cold"
  /\ reg' = Reconciled
  /\ \/ disk' = reg' /\ load' = "loaded" /\ NoFault
     \/ disk # reg' /\ UNCHANGED disk /\ load' = "dirty" /\ Fault
  /\ UNCHANGED <<staged, steer, turn, drain, log, durable, humans, lost>>

\* The next call of any method writes what could not be written.
Mend ==
  /\ load = "dirty"
  /\ disk' = reg /\ load' = "loaded" /\ UNCHANGED reg
  /\ UNCHANGED <<staged, steer, turn, drain, log, durable, humans, faults, lost>>

SettleStep == SettleDelivery \/ SettleFails \/ SettleQueue \/ SettleSteer

InboxNext ==
  \/ /\ UNCHANGED lost
     /\ \/ \E m \in Msg : \/ Enqueue(m) \/ Stage(m) \/ Push(m) \/ SteerQueued(m)
                          \/ Withdraw(m) \/ Acknowledge(m)
        \/ Resume \/ Poll \/ Take \/ Skip \/ Submit \/ Refuse
        \/ HumanTurn \/ Commit \/ Boundary \/ Receipt \/ Stop \/ End
        \/ SettleStep \/ CatchUp
  \/ Crash \/ Load \/ Mend

InboxSpec == InboxInit /\ [][InboxNext]_inboxVars

\* Tasks and threads run, a submission is answered, turns end, the interface
\* polls, and the registry is loaded when it is asked for.
FairInboxSpec ==
  /\ InboxSpec
  /\ WF_inboxVars(Poll /\ UNCHANGED lost)
  /\ WF_inboxVars((Take \/ Skip) /\ UNCHANGED lost)
  /\ WF_inboxVars((Submit \/ Refuse) /\ UNCHANGED lost)
  /\ WF_inboxVars((Commit \/ Receipt \/ End) /\ UNCHANGED lost)
  /\ WF_inboxVars(SettleStep /\ UNCHANGED lost)
  /\ WF_inboxVars(Load \/ Mend)
  /\ \A m \in Msg : WF_inboxVars(Push(m) /\ UNCHANGED lost)
-----------------------------------------------------------------------------
Kept(m)    == disk.item[m].st \in {"queued", "stuck", "delivering", "delivered"}
Entered(m) == {r \in log : m \in r.texts}

\* An accepted message is in the inbox file or in the conversation until its
\* user withdraws it, through refusals, failing writes, races with the end of
\* a turn and crashes; only a crash that finds the flush of its row undone
\* may take it away (enqueue, submit_boundary, pop_active, restoring).
LostOnlyUnflushed ==
  \A m \in Msg : reg.item[m].st \notin {"new", "removed"} =>
    Kept(m) \/ Entered(m) # {} \/ m \in lost

\* No message is given to the model twice, whichever of its two ways it takes
\* and however often it is retried or recovered.
EntersOnce == \A m \in Msg : Cardinality(Entered(m)) <= 1

\* While the file says that the user has stopped the queue, no batch is taken
\* from it, after a failed resume or a restart either.
StopHolds ==
  [][disk.paused /\ drain.st = "scheduled" => drain'.st # "submitting"]_inboxVars

\* What is left in delivery with nobody at work on it.
Stranded(m) == /\ reg.item[m].st = "delivering" /\ m \notin staged
               /\ turn.st = "idle" /\ drain.st = "none"

\* A queued message does not stay so: it is delivered, withdrawn or stuck, the
\* queue is on hold, or it is stranded until the next turn or restart.
QueueDrains ==
  \A m \in Msg : reg.item[m].st = "queued" ~>
    \/ reg.item[m].st \in {"stuck", "delivered", "done", "removed"}
    \/ reg.paused \/ Stranded(m)
=============================================================================
