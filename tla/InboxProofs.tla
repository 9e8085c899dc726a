----------------------------- MODULE InboxProofs -----------------------------
(***************************************************************************)
(* Proofs about Inbox: types, the hold of a stopped queue, and that no     *)
(* message is given to the model twice or lost.                            *)
(***************************************************************************)
EXTENDS Inbox, FiniteSetTheorems, TLAPS

St(R, m)  == R.item[m].st
Did(R, m) == R.item[m].did
States    == {"new", "queued", "stuck", "delivering", "delivered", "done", "removed"}

\* A registry of its type, where whatever can still be tried has tries left.
Good(R) ==
  /\ R \in Registry
  /\ \A m \in Msg : St(R, m) \in {"new", "queued", "delivering"} => R.item[m].tries < MaxAttempts

HoldKept == disk.paused => reg.paused

Typed ==
  /\ InboxTypeOK
  /\ Good(reg) /\ Good(disk)
  /\ IsFiniteSet(log)
  /\ HoldKept

\* The rows a message is in, seen from the registry in memory or on disk.
Past          == {"delivering", "delivered", "done"}
RowsPlaced(R) == \A r \in log : \A m \in r.texts :
  St(R, m) \in Past /\ (St(R, m) = "delivering" => Did(R, m) = r.id)
RowsNamed == \A r \in log : r.id \in r.texts
RowsApart == \A r, s \in log : \A m \in r.texts : m \in s.texts => r = s

\* What is in delivery is so on disk too, with the same identity.
DeliveriesSaved ==
  \A m \in Msg : St(reg, m) = "delivering" =>
    St(disk, m) = "delivering" /\ Did(disk, m) = Did(reg, m)

\* Whoever works on a message has it in delivery, and nobody else does.
Busy(m) == St(reg, m) = "delivering" /\ Did(reg, m) = m
Waits   == staged \cup steer
Submits == drain.st = "submitting"
Live    == turn.st \in {"begun", "running", "ended"} /\ turn.id # NoId

WaitersBusy ==
  /\ staged \cap steer = {} /\ Waits \cap turn.due = {} /\ Waits \cap RowIds = {}
  /\ \A m \in Waits \cup turn.due : Busy(m)
  /\ turn.st # "running" => turn.due = {}

BatchBusy ==
  Submits =>
    /\ drain.id \in drain.batch /\ drain.id \notin Waits \cup turn.due \cup RowIds
    /\ \A m \in drain.batch : St(reg, m) = "delivering" /\ Did(reg, m) = drain.id

TurnBusy ==
  /\ turn.st = "begun" => turn.id # NoId /\ turn.id \notin RowIds
  /\ Live => /\ Busy(turn.id) /\ turn.id \notin Waits \cup turn.due
             /\ Submits => turn.id # drain.id

\* Before the registry is loaded nobody works on anything, and the rows are
\* those on disk.
ColdIsQuiet ==
  load = "cold" => /\ Waits = {} /\ ~Submits /\ ~Live /\ turn.due = {}
                   /\ RowIds \subseteq durable /\ reg = disk

OnceInv ==
  /\ Typed
  /\ RowsPlaced(reg) /\ RowsPlaced(disk) /\ RowsNamed /\ RowsApart
  /\ DeliveriesSaved /\ WaitersBusy /\ BatchBusy /\ TurnBusy /\ ColdIsQuiet

-----------------------------------------------------------------------------
\* The types

LEMMA RegistryParts ==
  ASSUME NEW R \in Registry
  PROVE  /\ R.item \in [Msg -> Item] /\ R.paused \in BOOLEAN
         /\ \A m \in Msg : /\ R.item[m] \in Item
                           /\ St(R, m) \in States /\ Did(R, m) \in MaybeId
                           /\ R.item[m].tries \in 0..MaxAttempts
BY DEF Registry, Item, St, Did, States

LEMMA NewRegistry ==
  ASSUME NEW f \in [Msg -> Item], NEW b \in BOOLEAN
  PROVE  [item |-> f, paused |-> b] \in Registry
BY DEF Registry

LEMMA NewItem ==
  ASSUME NEW s \in States, NEW i \in MaybeId, NEW n \in 0..MaxAttempts
  PROVE  [st |-> s, did |-> i, tries |-> n] \in Item
BY DEF Item, States

LEMMA NewTurn ==
  ASSUME NEW s \in {"idle", "begun", "running", "ended", "settled", "fallback"},
         NEW i \in MaybeId, NEW b \in BOOLEAN, NEW S \in SUBSET Msg
  PROVE  [st |-> s, id |-> i, stopped |-> b, due |-> S]
           \in [st : {"idle", "begun", "running", "ended", "settled", "fallback"},
                id : MaybeId, stopped : BOOLEAN, due : SUBSET Msg]
OBVIOUS

LEMMA NewDrain ==
  ASSUME NEW s \in {"none", "scheduled", "submitting"}, NEW i \in MaybeId, NEW S \in SUBSET Msg
  PROVE  [st |-> s, id |-> i, batch |-> S]
           \in [st : {"none", "scheduled", "submitting"}, id : MaybeId, batch : SUBSET Msg]
OBVIOUS

\* What Move does to each message.
Becomes(new, S, s, i) ==
  /\ Good(new) /\ new.paused = reg.paused
  /\ \A m \in Msg : St(new, m)  = (IF m \in S THEN s ELSE St(reg, m))
  /\ \A m \in Msg : Did(new, m) = (IF m \in S THEN i ELSE Did(reg, m))

LEMMA MoveFacts ==
  ASSUME Good(reg), NEW S \in SUBSET Msg, NEW s \in States, NEW i \in MaybeId,
         s \in {"new", "queued", "delivering"} =>
           \A m \in S : St(reg, m) \in {"new", "queued", "delivering"}
  PROVE  Becomes(Move(S, s, i), S, s, i)
<1> DEFINE new(m) == [st |-> s, did |-> i, tries |-> reg.item[m].tries]
           f == [m \in Msg |-> IF m \in S THEN new(m) ELSE reg.item[m]]
<1>1. Move(S, s, i) = [item |-> f, paused |-> reg.paused]
  BY DEF Move
<1>2. \A m \in Msg : new(m) \in Item
  BY RegistryParts, NewItem DEF Good
<1>3. f \in [Msg -> Item]
  BY <1>2, RegistryParts DEF Good
<1>4. Move(S, s, i) \in Registry
  BY <1>1, <1>3, NewRegistry, RegistryParts DEF Good
<1>5. \A m \in Msg :
        /\ St(Move(S, s, i), m) = IF m \in S THEN s ELSE St(reg, m)
        /\ Did(Move(S, s, i), m) = IF m \in S THEN i ELSE Did(reg, m)
        /\ Move(S, s, i).item[m].tries = reg.item[m].tries
  BY <1>1 DEF St, Did
<1>6. Move(S, s, i).paused = reg.paused
  BY <1>1
<1> HIDE DEF f, new
<1>7. Good(Move(S, s, i))
  BY <1>4, <1>5 DEF Good
<1> QED
  BY <1>5, <1>6, <1>7 DEF Becomes

LEMMA FaultBound ==
  ASSUME faults \in 0..MaxFaults, Fault \/ NoFault
  PROVE  faults' \in 0..MaxFaults
BY InboxAssumption DEF Fault, NoFault

\* The three ways to save.
LEMMA SaveFacts ==
  ASSUME Typed, NEW new, Good(new), new.paused = reg.paused,
         PersistOrRestore(new) \/ Persist(new) \/ Saved(new)
  PROVE  /\ Good(reg') /\ Good(disk') /\ HoldKept'
         /\ faults' \in 0..MaxFaults /\ load' = load
<1>1. /\ reg' \in {reg, new} /\ disk' \in {disk, reg'} /\ load' = load
      /\ Fault \/ NoFault
  BY DEF PersistOrRestore, Persist, Saved
<1>2. Good(reg') /\ Good(disk')
  BY <1>1 DEF Typed
<1>3. HoldKept'
  BY <1>1 DEF Typed, HoldKept
<1>4. faults' \in 0..MaxFaults
  BY <1>1, FaultBound DEF Typed, InboxTypeOK
<1> QED
  BY <1>1, <1>2, <1>3, <1>4

LEMMA Unsaved ==
  ASSUME Typed, UNCHANGED <<registry, faults>>
  PROVE  /\ Good(reg') /\ Good(disk') /\ HoldKept'
         /\ faults' \in 0..MaxFaults /\ load' = load
BY DEF Typed, InboxTypeOK, registry, HoldKept

LEMMA StatesOf ==
  ASSUME Good(reg), NEW S
  PROVE  In(S) = {m \in Msg : St(reg, m) \in S}
BY DEF In, St

\* The registry after a refusal, a resumption, and a reconciliation.
LEMMA TriedFacts ==
  ASSUME Good(reg), NEW m \in Msg, St(reg, m) = "delivering"
  PROVE  /\ Tried(m) \in Item /\ Tried(m).st \in {"queued", "stuck"} /\ Tried(m).did = NoId
         /\ Tried(m).st = "queued" => Tried(m).tries < MaxAttempts
<1> DEFINE n == reg.item[m].tries + 1
<1>1. n \in 1..MaxAttempts
  BY RegistryParts, InboxAssumption DEF Good
<1>2. Tried(m) = [st |-> IF n >= MaxAttempts THEN "stuck" ELSE "queued", did |-> NoId, tries |-> n]
  BY DEF Tried
<1> HIDE DEF n
<1> QED
  BY <1>1, <1>2, InboxAssumption DEF Item, MaybeId

RefusedReg == [item |-> [m \in Msg |-> IF m \in drain.batch THEN Tried(m) ELSE reg.item[m]],
               paused |-> reg.paused]

LEMMA RefusedFacts ==
  ASSUME Good(reg), drain.batch \subseteq Msg, \A m \in drain.batch : St(reg, m) = "delivering"
  PROVE  /\ Good(RefusedReg) /\ RefusedReg.paused = reg.paused
         /\ \A m \in Msg :
              IF m \in drain.batch
              THEN St(RefusedReg, m) \in {"queued", "stuck"}
              ELSE St(RefusedReg, m) = St(reg, m) /\ Did(RefusedReg, m) = Did(reg, m)
<1> DEFINE f == [m \in Msg |-> IF m \in drain.batch THEN Tried(m) ELSE reg.item[m]]
<1>1. RefusedReg = [item |-> f, paused |-> reg.paused]
  BY DEF RefusedReg
<1>2. f \in [Msg -> Item]
  BY TriedFacts, RegistryParts DEF Good
<1>3. RefusedReg \in Registry
  BY <1>1, <1>2, NewRegistry, RegistryParts DEF Good
<1>4. \A m \in Msg : IF m \in drain.batch THEN RefusedReg.item[m] = Tried(m)
                                         ELSE RefusedReg.item[m] = reg.item[m]
  BY <1>1
<1>5. RefusedReg.paused = reg.paused
  BY <1>1
<1> QED
  BY <1>3, <1>4, <1>5, TriedFacts DEF Good, St, Did

LEMMA ResumedFacts ==
  ASSUME Good(reg)
  PROVE  /\ Good(Resumed) /\ Resumed.paused = FALSE
         /\ \A m \in Msg :
              IF St(reg, m) = "stuck"
              THEN St(Resumed, m) = "queued"
              ELSE St(Resumed, m) = St(reg, m) /\ Did(Resumed, m) = Did(reg, m)
<1> DEFINE fresh == [st |-> "queued", did |-> NoId, tries |-> 0]
           f == [m \in Msg |-> IF reg.item[m].st = "stuck" THEN fresh ELSE reg.item[m]]
<1>1. Resumed = [item |-> f, paused |-> FALSE]
  BY DEF Resumed
<1>2. fresh \in Item
  BY NewItem, InboxAssumption DEF States, MaybeId
<1>3. f \in [Msg -> Item]
  BY <1>2, RegistryParts DEF Good
<1>4. Resumed \in Registry
  BY <1>1, <1>3, NewRegistry
<1>5. \A m \in Msg : IF St(reg, m) = "stuck" THEN Resumed.item[m] = fresh
                                            ELSE Resumed.item[m] = reg.item[m]
  BY <1>1 DEF St
<1>6. Resumed.paused = FALSE
  BY <1>1
<1>7. fresh.st = "queued" /\ fresh.tries = 0 /\ 0 < MaxAttempts
  BY InboxAssumption
<1> HIDE DEF f, fresh
<1> QED
  BY <1>4, <1>5, <1>6, <1>7 DEF Good, St, Did

LEMMA ReconciledFacts ==
  ASSUME Good(disk)
  PROVE  /\ Good(Reconciled) /\ Reconciled.paused = disk.paused
         /\ \A m \in Msg :
              IF St(disk, m) = "delivering"
              THEN IF Did(disk, m) \in durable
                   THEN St(Reconciled, m) = "delivered" /\ Did(Reconciled, m) = Did(disk, m)
                   ELSE St(Reconciled, m) = "queued"
              ELSE St(Reconciled, m) = St(disk, m) /\ Did(Reconciled, m) = Did(disk, m)
<1> DEFINE made(m) == [st |-> "delivered", did |-> disk.item[m].did, tries |-> disk.item[m].tries]
           back(m) == [st |-> "queued", did |-> NoId, tries |-> disk.item[m].tries]
           f == [m \in Msg |-> IF disk.item[m].st # "delivering" THEN disk.item[m]
                               ELSE IF disk.item[m].did \in durable THEN made(m) ELSE back(m)]
<1>1. Reconciled = [item |-> f, paused |-> disk.paused]
  BY DEF Reconciled
<1>2. \A m \in Msg : made(m) \in Item /\ back(m) \in Item
  BY NewItem, RegistryParts DEF Good, States, Did, MaybeId
<1>3. f \in [Msg -> Item]
  BY <1>2, RegistryParts DEF Good
<1>4. Reconciled \in Registry
  BY <1>1, <1>3, NewRegistry, RegistryParts DEF Good
<1>5. \A m \in Msg :
        Reconciled.item[m] = IF St(disk, m) # "delivering" THEN disk.item[m]
                             ELSE IF Did(disk, m) \in durable THEN made(m) ELSE back(m)
  BY <1>1 DEF St, Did
<1>6. Reconciled.paused = disk.paused
  BY <1>1
<1>7. \A m \in Msg : /\ made(m).st = "delivered" /\ made(m).did = Did(disk, m)
                     /\ back(m).st = "queued" /\ back(m).tries = disk.item[m].tries
  BY DEF Did
<1> HIDE DEF f, made, back
<1> QED
  BY <1>4, <1>5, <1>6, <1>7 DEF Good, St, Did

LEMMA HoldFacts ==
  ASSUME Typed, Hold
  PROVE  /\ Good(reg') /\ Good(disk') /\ HoldKept'
         /\ faults' \in 0..MaxFaults /\ load' \in {"loaded", "dirty"}
         /\ disk' \in {disk, reg'} /\ reg'.paused = TRUE
         /\ \A m \in Msg : St(reg', m) = St(reg, m) /\ Did(reg', m) = Did(reg, m)
<1>1. disk' \in {disk, reg'} /\ load' \in {"loaded", "dirty"} /\ (Fault \/ NoFault)
  BY DEF Hold
<1>2. /\ reg' \in Registry /\ reg'.item = reg.item /\ reg'.paused = TRUE
  BY DEF Typed, Good, Registry, Hold
<1>3. Good(reg')
  BY <1>2 DEF Typed, Good, St
<1>4. faults' \in 0..MaxFaults
  BY <1>1, FaultBound DEF Typed, InboxTypeOK
<1>5. \A m \in Msg : St(reg', m) = St(reg, m) /\ Did(reg', m) = Did(reg, m)
  BY <1>2 DEF St, Did
<1>6. HoldKept'
  BY <1>2 DEF HoldKept
<1>7. Good(disk')
  BY <1>1, <1>3 DEF Typed
<1> QED
  BY <1>1, <1>2, <1>3, <1>4, <1>5, <1>6, <1>7

-----------------------------------------------------------------------------
\* The rows

InRows(m) == \E r \in log : m \in r.texts

\* What waits, and what is not in delivery, is in no row.
LEMMA NotInRows ==
  ASSUME OnceInv
  PROVE  /\ \A m \in Msg : St(reg, m) \notin Past => ~InRows(m)
         /\ \A m \in Msg : St(disk, m) \notin Past => ~InRows(m)
         /\ \A m \in Waits : ~InRows(m)
         /\ Submits => \A m \in drain.batch : ~InRows(m)
         /\ turn.st = "begun" => \A m \in Bound(turn.id) : ~InRows(m)
         /\ Waits \subseteq Msg /\ drain.batch \subseteq Msg
<1>1. \A r \in log : r.id \in RowIds
  BY DEF RowIds
<1>2. \A i : Bound(i) = {m \in Msg : St(reg, m) = "delivering" /\ Did(reg, m) = i}
  BY DEF Bound, In, St, Did
<1>3. Waits \subseteq Msg /\ drain.batch \subseteq Msg
  BY DEF OnceInv, Typed, InboxTypeOK, Waits
<1> QED
  BY <1>1, <1>2, <1>3 DEF OnceInv, RowsPlaced, InRows, WaitersBusy, BatchBusy, TurnBusy, Busy, Past

\* A step that writes no row leaves the rows placed, unless it takes back a
\* message that is in one.
LEMMA RowsKept ==
  ASSUME OnceInv, log' = log, disk' \in {disk, reg'},
         \A m \in Msg : \/ St(reg', m) = St(reg, m) /\ Did(reg', m) = Did(reg, m)
                        \/ St(reg', m) \in {"delivered", "done"}
                        \/ ~InRows(m)
  PROVE  RowsPlaced(reg)' /\ RowsPlaced(disk)' /\ RowsNamed' /\ RowsApart' /\ RowIds' = RowIds
<1>1. \A r \in log : r.texts \subseteq Msg
  BY DEF OnceInv, Typed, InboxTypeOK, Row
<1>2. \A r \in log : \A m \in r.texts :
        St(reg', m) \in Past /\ (St(reg', m) = "delivering" => Did(reg', m) = r.id)
  BY <1>1 DEF OnceInv, RowsPlaced, InRows, Past
<1>3. RowsPlaced(reg)'
  BY <1>2 DEF RowsPlaced
<1>4. RowsPlaced(disk)'
  BY <1>2 DEF OnceInv, RowsPlaced
<1>5. RowsNamed' /\ RowsApart' /\ RowIds' = RowIds
  BY DEF OnceInv, RowsNamed, RowsApart, RowIds
<1> QED
  BY <1>3, <1>4, <1>5

\* Nobody takes anything on: who worked on a message lets go of it, or goes on
\* and finds it as it was.
Same(m)  == St(reg', m) = St(reg, m) /\ Did(reg', m) = Did(reg, m)
Releases ==
  /\ Waits' \subseteq Waits /\ staged' \cap steer' = {}
  /\ turn.due' \subseteq turn.due /\ (turn.st' # "running" => turn.due' = {})
  /\ Submits' => Submits /\ drain.id' = drain.id /\ drain.batch' = drain.batch
  /\ Live' => Live /\ turn.id' = turn.id
  /\ turn.st' = "begun" => turn.st = "begun" /\ turn.id' = turn.id
  /\ \A m \in Waits' \cup turn.due' : Same(m)
  /\ Submits' => \A m \in drain.batch : Same(m)
  /\ Live' => Same(turn.id)

LEMMA ReleaseOnce ==
  ASSUME OnceInv, Typed', Releases, log' = log, disk' \in {disk, reg'}, durable' \in {durable, RowIds},
         load' = "cold" => load = "cold" /\ reg' = reg /\ disk' = disk,
         \A m \in Msg : \/ Same(m)
                        \/ St(reg', m) \in {"delivered", "done"}
                        \/ ~InRows(m) /\ St(reg', m) # "delivering"
  PROVE  OnceInv'
<1>1. RowsPlaced(reg)' /\ RowsPlaced(disk)' /\ RowsNamed' /\ RowsApart' /\ RowIds' = RowIds
  BY RowsKept DEF Same
<1>2. DeliveriesSaved'
  BY DEF OnceInv, DeliveriesSaved, Same
<1>3. ColdIsQuiet'
  BY <1>1 DEF OnceInv, ColdIsQuiet, Releases
<1>4. WaitersBusy'
  BY <1>1 DEF OnceInv, WaitersBusy, Releases, Busy, Same
<1>5. BatchBusy'
  BY <1>1 DEF OnceInv, BatchBusy, Releases, Same
<1>6. TurnBusy'
  BY <1>1 DEF OnceInv, TurnBusy, Releases, Busy, Same
<1> QED
  BY <1>1, <1>2, <1>3, <1>4, <1>5, <1>6 DEF OnceInv

\* What may become of a message that nobody takes on: it moves in the queue or
\* leaves it, returns to it, is read, or is delivered by the end of its turn.
LetGo(m) ==
  \/ Same(m)
  \/ /\ St(reg, m) \in {"new", "queued", "stuck"} /\ St(reg', m) \in {"queued", "stuck", "removed"}
     /\ St(reg, m) = "new" => disk' = reg'
  \/ /\ m \in Waits \/ (Submits /\ m \in drain.batch)
     /\ St(reg', m) \in {"queued", "stuck"}
  \/ /\ m \in turn.due \/ (St(reg, m) = "delivered" /\ Did(reg, m) \in durable)
     /\ St(reg', m) = "done"
  \/ /\ turn.st = "ended" /\ St(reg, m) = "delivering" /\ Did(reg, m) = turn.id
     /\ St(reg', m) = "delivered" /\ Did(reg', m) = turn.id

\* A step that takes nothing on and writes no row.  A batch returns as a whole,
\* and nothing of a turn is delivered without the message it is named after.
Gentle ==
  /\ Releases /\ log' = log /\ lost' = lost
  /\ disk' \in {disk, reg'} /\ durable' \in {durable, RowIds}
  /\ \A m \in Msg : LetGo(m)
  /\ Submits => \/ \A m \in drain.batch : Same(m)
                \/ \A m \in drain.batch : St(reg', m) \in {"queued", "stuck"}
  /\ \A m \in Msg : ~Same(m) /\ St(reg', m) = "delivered" /\ turn.id \in Msg
                   => St(reg', turn.id) = "delivered"

\* Such a step keeps the first layer.
LEMMA GentleOnce ==
  ASSUME OnceInv, Typed', Gentle,
         load' = "cold" => load = "cold" /\ reg' = reg /\ disk' = disk
  PROVE  OnceInv'
<1>1. \A m \in Msg : \/ Same(m)
                     \/ St(reg', m) \in {"delivered", "done"}
                     \/ ~InRows(m) /\ St(reg', m) # "delivering"
  <2> SUFFICES ASSUME NEW m \in Msg, ~Same(m), St(reg', m) \notin {"delivered", "done"}
               PROVE  ~InRows(m) /\ St(reg', m) # "delivering"
    OBVIOUS
  <2>1. \/ St(reg, m) \in {"new", "queued", "stuck"}
        \/ m \in Waits \/ (Submits /\ m \in drain.batch)
    BY DEF Gentle, LetGo
  <2>2. St(reg', m) \in {"queued", "stuck", "removed"}
    BY DEF Gentle, LetGo
  <2> QED
    BY <2>1, <2>2, NotInRows DEF Past
<1> QED
  BY <1>1, ReleaseOnce DEF Gentle

\* Types of the parts, for actions that leave most of them alone.
LEMMA Parts ==
  ASSUME OnceInv
  PROVE  /\ Typed /\ Good(reg) /\ Good(disk) /\ Waits \subseteq Msg /\ turn.due \subseteq Msg
         /\ drain.batch \subseteq Msg /\ turn.id \in MaybeId /\ drain.id \in MaybeId
         /\ NoId \in MaybeId /\ Msg \subseteq MaybeId /\ NoId \notin Msg
         /\ \A r \in log : r.id \in Msg /\ r.texts \subseteq Msg
BY InboxAssumption DEF OnceInv, Typed, InboxTypeOK, Waits, MaybeId, Row

\* One message changes its state.
LEMMA OneMoves ==
  ASSUME OnceInv, NEW m \in Msg, NEW s \in States, NEW i \in MaybeId,
         s \in {"new", "queued", "delivering"} => St(reg, m) \in {"new", "queued", "delivering"}
  PROVE  Becomes(Move({m}, s, i), {m}, s, i)
<1>1. \A x \in {m} : s \in {"new", "queued", "delivering"} => St(reg, x) \in {"new", "queued", "delivering"}
  OBVIOUS
<1>2. {m} \in SUBSET Msg /\ Good(reg)
  BY Parts
<1> QED
  BY <1>1, <1>2, MoveFacts

\* Nobody works on a message that is not in delivery.
LEMMA NotHeld ==
  ASSUME OnceInv
  PROVE  /\ \A m \in Waits \cup turn.due : St(reg, m) = "delivering"
         /\ Submits => \A m \in drain.batch : St(reg, m) = "delivering"
         /\ Live => St(reg, turn.id) = "delivering"
<1>1. \A m \in Waits \cup turn.due : St(reg, m) = "delivering"
  BY DEF OnceInv, WaitersBusy, Busy
<1>2. Submits => \A m \in drain.batch : St(reg, m) = "delivering"
  BY DEF OnceInv, BatchBusy
<1>3. Live => St(reg, turn.id) = "delivering"
  BY DEF OnceInv, TurnBusy, Busy
<1> QED
  BY <1>1, <1>2, <1>3

\* Nothing that is in delivery is touched.
LEMMA GentleSame ==
  ASSUME OnceInv, Releases, log' = log, lost' = lost, disk' \in {disk, reg'}, durable' \in {durable, RowIds},
         \A m \in Msg : Same(m) \/ (St(reg, m) # "delivering" /\ LetGo(m))
  PROVE  Gentle
<1>1. \A m \in Msg : LetGo(m)
  BY DEF LetGo
<1>2. Submits => \A m \in drain.batch : Same(m)
  BY NotHeld, Parts
<1>3. \A m \in Msg : ~Same(m) => St(reg', m) # "delivered"
  BY DEF LetGo
<1> QED
  BY <1>1, <1>2, <1>3 DEF Gentle

LEMMA OthersMove ==
  ASSUME OnceInv, UNCHANGED <<staged, steer, turn>>, drain' = drain \/ ~Submits',
         \A m \in Msg : Same(m) \/ St(reg, m) # "delivering"
  PROVE  Releases
<1>1. Waits' = Waits /\ Live' = Live /\ (Submits' => Submits /\ drain' = drain)
  BY DEF Waits, Live, Submits
<1>2. \A m \in Waits \cup turn.due : Same(m)
  BY NotHeld, Parts
<1>3. Submits => \A m \in drain.batch : Same(m)
  BY NotHeld, Parts
<1>4. Live => Same(turn.id)
  BY NotHeld, Parts DEF Live, MaybeId
<1>5. staged \cap steer = {} /\ (turn.st # "running" => turn.due = {})
  BY DEF OnceInv, WaitersBusy
<1> QED
  BY <1>1, <1>2, <1>3, <1>4, <1>5 DEF Releases

LEMMA EnqueueOnce ==
  ASSUME OnceInv, NEW m \in Msg, Enqueue(m), UNCHANGED lost
  PROVE  OnceInv' /\ Gentle
<1> DEFINE new == Move({m}, "queued", NoId)
<1>1. St(reg, m) = "new" /\ Saved(new)
  BY DEF Enqueue, St
<1>a. "queued" \in States /\ NoId \in MaybeId
  BY DEF States, MaybeId
<1>b. "queued" \in {"new", "queued", "delivering"} => St(reg, m) \in {"new", "queued", "delivering"}
  BY <1>1
<1>c. Becomes(new, {m}, "queued", NoId)
  BY <1>a, <1>b, OneMoves
<1> HIDE DEF new
<1>2. /\ Good(new) /\ new.paused = reg.paused
      /\ \A x \in Msg : x # m => St(new, x) = St(reg, x) /\ Did(new, x) = Did(reg, x)
      /\ St(new, m) = "queued"
  BY <1>c DEF Becomes
<1>3. reg' \in {reg, new} /\ disk' \in {disk, reg'} /\ load = "loaded" /\ load' = load
  BY <1>1 DEF Saved
<1>4. Typed'
  BY <1>1, <1>2, SaveFacts DEF OnceInv, Typed, InboxTypeOK, Enqueue, Good
<1>5. \A x \in Msg : x # m => Same(x)
  BY <1>2, <1>3 DEF Same
<1>6. Releases
  BY <1>1, <1>5, OthersMove DEF Enqueue
<1>7. Same(m) \/ St(reg', m) = "queued"
  BY <1>2, <1>3 DEF Same
<1>8. Same(m) \/ (St(reg, m) # "delivering" /\ LetGo(m))
  BY <1>1, <1>3, <1>7 DEF LetGo, Saved
<1>9. log' = log /\ durable' = durable
  BY DEF Enqueue
<1>10. Gentle
  BY <1>3, <1>5, <1>6, <1>8, <1>9, GentleSame
<1> QED
  BY <1>3, <1>4, <1>10, GentleOnce

\* A message nobody works on goes on: withdrawn, or its receipt read.
LEMMA WithdrawOnce ==
  ASSUME OnceInv, NEW m \in Msg, Withdraw(m), UNCHANGED lost
  PROVE  OnceInv' /\ Gentle
<1> DEFINE new == Move({m}, "removed", NoId)
<1>1. St(reg, m) \in {"queued", "stuck"} /\ PersistOrRestore(new)
  BY DEF Withdraw, In, St
<1>a. "removed" \in States /\ NoId \in MaybeId
  BY DEF States, MaybeId
<1>b. "removed" \in {"new", "queued", "delivering"} => St(reg, m) \in {"new", "queued", "delivering"}
  BY <1>1
<1>c. Becomes(new, {m}, "removed", NoId)
  BY <1>a, <1>b, OneMoves
<1> HIDE DEF new
<1>2. /\ Good(new) /\ new.paused = reg.paused
      /\ \A x \in Msg : x # m => St(new, x) = St(reg, x) /\ Did(new, x) = Did(reg, x)
      /\ St(new, m) = "removed"
  BY <1>c DEF Becomes
<1>3. reg' \in {reg, new} /\ disk' \in {disk, reg'} /\ load = "loaded" /\ load' = load
  BY <1>1 DEF PersistOrRestore
<1>4. Typed'
  BY <1>1, <1>2, SaveFacts DEF OnceInv, Typed, InboxTypeOK, Withdraw, Good
<1>5. \A x \in Msg : x # m => Same(x)
  BY <1>2, <1>3 DEF Same
<1>6. Releases
  BY <1>1, <1>5, OthersMove DEF Withdraw
<1>7. Same(m) \/ St(reg', m) = "removed"
  BY <1>2, <1>3 DEF Same
<1>8. Same(m) \/ (St(reg, m) # "delivering" /\ LetGo(m))
  BY <1>1, <1>3, <1>7 DEF LetGo, Saved
<1>9. log' = log /\ durable' = durable
  BY DEF Withdraw
<1>10. Gentle
  BY <1>3, <1>5, <1>6, <1>8, <1>9, GentleSame
<1> QED
  BY <1>3, <1>4, <1>10, GentleOnce

LEMMA AcknowledgeOnce ==
  ASSUME OnceInv, NEW m \in Msg, Acknowledge(m), UNCHANGED lost
  PROVE  OnceInv' /\ Gentle
<1> DEFINE new == Move({m}, "done", NoId)
<1>1. St(reg, m) = "delivered" /\ PersistOrRestore(new)
  BY DEF Acknowledge, In, St
<1>a. "done" \in States /\ NoId \in MaybeId
  BY DEF States, MaybeId
<1>b. "done" \in {"new", "queued", "delivering"} => St(reg, m) \in {"new", "queued", "delivering"}
  BY <1>1
<1>c. Becomes(new, {m}, "done", NoId)
  BY <1>a, <1>b, OneMoves
<1> HIDE DEF new
<1>2. /\ Good(new) /\ new.paused = reg.paused
      /\ \A x \in Msg : x # m => St(new, x) = St(reg, x) /\ Did(new, x) = Did(reg, x)
      /\ St(new, m) = "done"
  BY <1>c DEF Becomes
<1>3. reg' \in {reg, new} /\ disk' \in {disk, reg'} /\ load = "loaded" /\ load' = load
  BY <1>1 DEF PersistOrRestore
<1>4. Typed'
  BY <1>1, <1>2, SaveFacts DEF OnceInv, Typed, InboxTypeOK, Acknowledge, Good
<1>5. \A x \in Msg : x # m => Same(x)
  BY <1>2, <1>3 DEF Same
<1>6. Releases
  BY <1>1, <1>5, OthersMove DEF Acknowledge
<1>7. Same(m) \/ St(reg', m) = "done"
  BY <1>2, <1>3 DEF Same
<1>8. Same(m) \/ (St(reg, m) # "delivering" /\ LetGo(m))
  BY <1>1, <1>7 DEF LetGo, Acknowledge, Did
<1>9. log' = log /\ durable' = durable
  BY DEF Acknowledge
<1>10. Gentle
  BY <1>3, <1>5, <1>6, <1>8, <1>9, GentleSame
<1> QED
  BY <1>3, <1>4, <1>10, GentleOnce

\* The parts that are not the registry have their types.
OthersTyped ==
  /\ staged \subseteq Msg /\ steer \subseteq Msg
  /\ turn \in [st : {"idle", "begun", "running", "ended", "settled", "fallback"},
               id : MaybeId, stopped : BOOLEAN, due : SUBSET Msg]
  /\ drain \in [st : {"none", "scheduled", "submitting"}, id : MaybeId, batch : SUBSET Msg]
  /\ log \subseteq Row /\ durable \subseteq Msg /\ lost \subseteq Msg
  /\ humans \in 0..MaxTurns /\ IsFiniteSet(log)

RegistryTyped ==
  /\ Good(reg) /\ Good(disk) /\ HoldKept
  /\ faults \in 0..MaxFaults /\ load \in {"cold", "loaded", "dirty"}

LEMMA TypedParts == Typed <=> OthersTyped /\ RegistryTyped
BY DEF Typed, InboxTypeOK, OthersTyped, RegistryTyped, Good

LEMMA TypedPartsNext == Typed' <=> OthersTyped' /\ RegistryTyped'
BY DEF Typed, InboxTypeOK, OthersTyped, RegistryTyped, Good

LEMMA ScheduleFacts ==
  ASSUME OnceInv, Schedule
  PROVE  /\ drain' \in [st : {"none", "scheduled", "submitting"}, id : MaybeId, batch : SUBSET Msg]
         /\ drain' = drain \/ ~Submits'
<1>1. drain \in [st : {"none", "scheduled", "submitting"}, id : MaybeId, batch : SUBSET Msg]
  BY DEF OnceInv, Typed, InboxTypeOK
<1>2. drain' = drain \/ drain' = [drain EXCEPT !.st = "scheduled"]
  BY DEF Schedule
<1>3. CASE drain' = drain
  BY <1>1, <1>3
<1>4. CASE drain' = [drain EXCEPT !.st = "scheduled"]
  BY <1>1, <1>4 DEF Submits
<1> QED
  BY <1>2, <1>3, <1>4

LEMMA UntouchedRegistry ==
  ASSUME OnceInv, UNCHANGED <<registry, faults>>
  PROVE  /\ RegistryTyped' /\ disk' \in {disk, reg'} /\ load' = load
         /\ \A m \in Msg : Same(m)
BY Unsaved, Parts, TypedParts DEF RegistryTyped, Same, registry

\* An action that leaves the registry, and only lets go.
LEMMA QuietOnce ==
  ASSUME OnceInv, OthersTyped', UNCHANGED <<registry, faults>>, Releases,
         log' = log, lost' = lost, durable' \in {durable, RowIds}
  PROVE  OnceInv' /\ Gentle
<1>1. RegistryTyped' /\ disk' \in {disk, reg'} /\ load' = load /\ \A m \in Msg : Same(m)
  BY UntouchedRegistry
<1>2. Gentle
  BY <1>1, GentleSame
<1> QED
  BY <1>1, <1>2, TypedPartsNext, GentleOnce DEF registry

LEMMA ResumeOnce ==
  ASSUME OnceInv, Resume, UNCHANGED lost
  PROVE  OnceInv' /\ Gentle
<1>1. CASE reg' = Resumed /\ disk' = Resumed /\ load = "loaded" /\ load' = load /\ NoFault
  <2>1. /\ Good(Resumed) /\ Resumed.paused = FALSE
        /\ \A m \in Msg : IF St(reg, m) = "stuck" THEN St(Resumed, m) = "queued"
                           ELSE St(Resumed, m) = St(reg, m) /\ Did(Resumed, m) = Did(reg, m)
    BY Parts, ResumedFacts
  <2>2. drain' \in [st : {"none", "scheduled", "submitting"}, id : MaybeId, batch : SUBSET Msg]
        /\ (drain' = drain \/ ~Submits')
    <3>1. CASE reg' = reg
      BY <3>1 DEF Resume, OnceInv, Typed, InboxTypeOK
    <3>2. CASE reg' # reg
      BY <3>2, ScheduleFacts DEF Resume
    <3> QED
      BY <3>1, <3>2
  <2>3. faults' \in 0..MaxFaults
    BY <1>1, FaultBound DEF OnceInv, Typed, InboxTypeOK
  <2>4. RegistryTyped'
    BY <1>1, <2>1, <2>3 DEF RegistryTyped, HoldKept
  <2>5. OthersTyped'
    BY <2>2, Parts, TypedParts DEF OthersTyped, Resume
  <2>6. \A m \in Msg : Same(m) \/ (St(reg, m) = "stuck" /\ St(reg', m) = "queued")
    BY <1>1, <2>1 DEF Same
  <2>7. Releases
    BY <2>2, <2>6, OthersMove DEF Resume
  <2>8. \A m \in Msg : Same(m) \/ (St(reg, m) # "delivering" /\ LetGo(m))
    BY <2>6 DEF LetGo
  <2>9. Gentle
    BY <1>1, <2>7, <2>8, GentleSame DEF Resume
  <2> QED
    BY <1>1, <2>4, <2>5, <2>9, TypedPartsNext, GentleOnce
<1>2. CASE UNCHANGED <<reg, disk>> /\ Fault /\ load' = load
  <2>1. \A m \in Msg : Same(m)
    BY <1>2 DEF Same
  <2>2. drain' = drain
    BY <1>2 DEF Resume
  <2>3. RegistryTyped'
    BY <1>2, FaultBound, Parts, TypedParts DEF RegistryTyped, HoldKept
  <2>4. OthersTyped'
    BY <2>2, Parts, TypedParts DEF OthersTyped, Resume
  <2>5. Releases
    BY <2>1, <2>2, OthersMove DEF Resume
  <2>6. Gentle
    BY <1>2, <2>1, <2>5, GentleSame DEF Resume
  <2> QED
    BY <1>2, <2>3, <2>4, <2>6, TypedPartsNext, GentleOnce
<1> QED
  BY <1>1, <1>2 DEF Resume, PersistOrRestore

LEMMA PollOnce ==
  ASSUME OnceInv, Poll \/ Skip \/ CatchUp, UNCHANGED lost
  PROVE  OnceInv' /\ Gentle
<1>1. UNCHANGED <<registry, faults, staged, steer, turn, log, humans>>
  BY DEF Poll, Skip, CatchUp
<1>2. \A m \in Msg : Same(m)
  BY <1>1, UntouchedRegistry
<1>3. /\ drain' \in [st : {"none", "scheduled", "submitting"}, id : MaybeId, batch : SUBSET Msg]
      /\ drain' = drain \/ ~Submits'
  BY Parts DEF OnceInv, Typed, InboxTypeOK, Poll, Skip, CatchUp, NoDrain, Submits
<1>4. RowIds \subseteq Msg
  BY Parts DEF RowIds
<1>5. durable' \in {durable, RowIds}
  BY DEF Poll, Skip, CatchUp
<1>6. OthersTyped'
  BY <1>1, <1>3, <1>4, <1>5, Parts, TypedParts DEF OthersTyped
<1>7. Releases
  BY <1>1, <1>2, <1>3, OthersMove
<1> QED
  BY <1>1, <1>5, <1>6, <1>7, QuietOnce

\* What a refusal takes back nobody else works on.
LEMMA BatchApart ==
  ASSUME OnceInv, Submits
  PROVE  /\ drain.batch \cap (Waits \cup turn.due) = {}
         /\ Live => turn.id \notin drain.batch
BY DEF OnceInv, BatchBusy, WaitersBusy, TurnBusy, Busy, Live

LEMMA RefuseOnce ==
  ASSUME OnceInv, Refuse, UNCHANGED lost
  PROVE  OnceInv' /\ Gentle
<1>1. Submits /\ drain' = NoDrain /\ Persist(RefusedReg) /\ UNCHANGED <<staged, steer, turn, log, durable, humans>>
  BY DEF Refuse, Submits, RefusedReg
<1>2. /\ Good(RefusedReg) /\ RefusedReg.paused = reg.paused
      /\ \A m \in Msg : IF m \in drain.batch THEN St(RefusedReg, m) \in {"queued", "stuck"}
                         ELSE St(RefusedReg, m) = St(reg, m) /\ Did(RefusedReg, m) = Did(reg, m)
  BY <1>1, Parts, NotHeld, RefusedFacts
<1>3. reg' = RefusedReg /\ disk' \in {disk, reg'} /\ load' = load
  BY <1>1 DEF Persist
<1>4. RegistryTyped'
  BY <1>1, <1>2, Parts, SaveFacts, TypedParts DEF RegistryTyped
<1>5. OthersTyped'
  BY <1>1, Parts, TypedParts DEF OthersTyped, NoDrain
<1>6. \A m \in Msg : IF m \in drain.batch THEN St(reg', m) \in {"queued", "stuck"} ELSE Same(m)
  BY <1>2, <1>3 DEF Same
<1>7. ~Submits' /\ Waits' = Waits /\ Live' = Live /\ load # "cold"
  BY <1>1 DEF Submits, NoDrain, Waits, Live, OnceInv, ColdIsQuiet
<1>8. staged \cap steer = {} /\ (turn.st # "running" => turn.due = {})
  BY DEF OnceInv, WaitersBusy
<1>9. Releases
  BY <1>1, <1>6, <1>7, <1>8, BatchApart, Parts DEF Releases, Live, MaybeId
<1>10. \A m \in Msg : LetGo(m) /\ (Same(m) \/ St(reg', m) # "delivered")
  BY <1>1, <1>6 DEF LetGo
<1>11. \A m \in drain.batch : St(reg', m) \in {"queued", "stuck"}
  BY <1>6, Parts
<1>12. Gentle
  BY <1>1, <1>3, <1>9, <1>10, <1>11 DEF Gentle
<1> QED
  BY <1>3, <1>4, <1>5, <1>7, <1>12, TypedPartsNext, GentleOnce

\* The turn goes to a later state and keeps its identity, or has none.
TurnPasses ==
  /\ turn' \in [st : {"idle", "begun", "running", "ended", "settled", "fallback"},
                id : MaybeId, stopped : BOOLEAN, due : SUBSET Msg]
  /\ turn'.due \subseteq turn.due /\ (turn'.st # "running" => turn'.due = {})
  /\ Live' => Live /\ turn'.id = turn.id
  /\ turn'.st = "begun" => turn.st = "begun" /\ turn'.id = turn.id

LEMMA TurnReleases ==
  ASSUME OnceInv, TurnPasses, staged' = staged, steer' = steer, drain' = drain \/ ~Submits',
         \A m \in Msg : Same(m) \/ St(reg, m) # "delivering"
  PROVE  Releases
<1>1. Waits' = Waits /\ (Submits' => Submits /\ drain' = drain)
  BY DEF Waits, Submits
<1>2. \A m \in Waits \cup turn.due : Same(m)
  BY NotHeld, Parts
<1>3. Submits => \A m \in drain.batch : Same(m)
  BY NotHeld, Parts
<1>4. Live => Same(turn.id)
  BY NotHeld, Parts DEF Live, MaybeId
<1>5. staged \cap steer = {}
  BY DEF OnceInv, WaitersBusy
<1> QED
  BY <1>1, <1>2, <1>3, <1>4, <1>5 DEF Releases, TurnPasses

\* Where the turn may go.
LEMMA TurnSteps ==
  ASSUME OnceInv
  PROVE  /\ \A b \in BOOLEAN :
              turn.st \in {"begun", "running"} /\ turn' = [st |-> "ended", id |-> turn.id, stopped |-> b, due |-> {}]
              => TurnPasses
         /\ turn.st \in {"ended", "settled"} /\ turn' \in {[turn EXCEPT !.st = "settled"], [turn EXCEPT !.st = "fallback"]}
              => TurnPasses
         /\ turn' = Idle => TurnPasses
         /\ turn.st = "idle" /\ turn' = [st |-> "running", id |-> NoId, stopped |-> FALSE, due |-> {}] => TurnPasses
         /\ turn' = [turn EXCEPT !.stopped = TRUE] => TurnPasses
         /\ turn.st = "running" /\ turn' = [turn EXCEPT !.due = {}] => TurnPasses
<1>1. /\ turn \in [st : {"idle", "begun", "running", "ended", "settled", "fallback"},
                   id : MaybeId, stopped : BOOLEAN, due : SUBSET Msg]
      /\ turn.st # "running" => turn.due = {}
  BY DEF OnceInv, Typed, InboxTypeOK, WaitersBusy
<1>2. NoId \in MaybeId
  BY DEF MaybeId
<1>3. ASSUME NEW b \in BOOLEAN, turn.st \in {"begun", "running"},
             turn' = [st |-> "ended", id |-> turn.id, stopped |-> b, due |-> {}]
      PROVE  TurnPasses
  BY <1>1, <1>3 DEF TurnPasses, Live
<1>4. ASSUME turn.st \in {"ended", "settled"},
             turn' \in {[turn EXCEPT !.st = "settled"], [turn EXCEPT !.st = "fallback"]}
      PROVE  TurnPasses
  BY <1>1, <1>4 DEF TurnPasses, Live
<1>5. ASSUME turn' = Idle PROVE TurnPasses
  BY <1>1, <1>2, <1>5 DEF TurnPasses, Live, Idle
<1>6. ASSUME turn.st = "idle", turn' = [st |-> "running", id |-> NoId, stopped |-> FALSE, due |-> {}]
      PROVE  TurnPasses
  BY <1>1, <1>2, <1>6 DEF TurnPasses, Live
<1>7. ASSUME turn' = [turn EXCEPT !.stopped = TRUE] PROVE TurnPasses
  BY <1>1, <1>7 DEF TurnPasses, Live
<1>8. ASSUME turn.st = "running", turn' = [turn EXCEPT !.due = {}] PROVE TurnPasses
  BY <1>1, <1>8 DEF TurnPasses, Live
<1> QED
  BY <1>3, <1>4, <1>5, <1>6, <1>7, <1>8

LEMMA TurnTyped ==
  ASSUME OnceInv, TurnPasses, UNCHANGED <<staged, steer, log, durable, lost>>, humans' \in 0..MaxTurns,
         drain' \in [st : {"none", "scheduled", "submitting"}, id : MaybeId, batch : SUBSET Msg]
  PROVE  OthersTyped'
BY Parts, TypedParts DEF OthersTyped, TurnPasses

LEMMA OthersNow == ASSUME OnceInv PROVE OthersTyped /\ RegistryTyped
BY Parts, TypedParts

\* The registry is left, but for a fault that may be counted.
LEMMA HumanTurnOnce ==
  ASSUME OnceInv, HumanTurn, UNCHANGED lost
  PROVE  OnceInv' /\ Gentle
<1>1. TurnPasses
  BY TurnSteps DEF HumanTurn
<1>2. humans' \in 0..MaxTurns
  BY OthersNow, InboxAssumption DEF OthersTyped, HumanTurn
<1>3. OthersTyped'
  BY <1>1, <1>2, TurnTyped, OthersNow DEF OthersTyped, HumanTurn
<1>4. \A m \in Msg : Same(m)
  BY UntouchedRegistry DEF HumanTurn
<1>5. Releases
  BY <1>1, <1>4, TurnReleases DEF HumanTurn
<1> QED
  BY <1>3, <1>5, QuietOnce DEF HumanTurn

LEMMA EndOnce ==
  ASSUME OnceInv, End \/ SettleFails, UNCHANGED lost
  PROVE  OnceInv' /\ Gentle
<1>1. TurnPasses
  <2>1. CASE End
    BY <2>1, TurnSteps, OthersNow DEF End, OthersTyped
  <2>2. CASE SettleFails
    BY <2>2, TurnSteps DEF SettleFails
  <2> QED
    BY <2>1, <2>2
<1>2. /\ UNCHANGED <<registry, staged, steer, drain, log, durable, humans>>
      /\ Fault \/ NoFault
  BY DEF End, SettleFails
<1>3. OthersTyped'
  BY <1>1, <1>2, TurnTyped, OthersNow DEF OthersTyped
<1>4. \A m \in Msg : Same(m)
  BY <1>2 DEF Same, registry
<1>5. Releases
  BY <1>1, <1>2, <1>4, TurnReleases
<1>6. RegistryTyped'
  BY <1>2, FaultBound, OthersNow DEF RegistryTyped, registry, HoldKept
<1>7. Gentle
  BY <1>2, <1>4, <1>5, GentleSame DEF registry
<1> QED
  BY <1>2, <1>3, <1>6, <1>7, TypedPartsNext, GentleOnce DEF registry

\* The hold, with a turn that goes on or is settled.
LEMMA HoldOnce ==
  ASSUME OnceInv, Hold, TurnPasses, UNCHANGED <<staged, steer, drain, log, durable, humans, lost>>
  PROVE  OnceInv' /\ Gentle
<1>1. /\ Good(reg') /\ Good(disk') /\ HoldKept'
      /\ faults' \in 0..MaxFaults /\ load' \in {"loaded", "dirty"}
      /\ disk' \in {disk, reg'}
      /\ \A m \in Msg : St(reg', m) = St(reg, m) /\ Did(reg', m) = Did(reg, m)
  BY HoldFacts, Parts
<1>2. RegistryTyped'
  BY <1>1 DEF RegistryTyped
<1>3. OthersTyped'
  BY TurnTyped, OthersNow DEF OthersTyped
<1>4. \A m \in Msg : Same(m)
  BY <1>1 DEF Same
<1>5. Releases
  BY <1>4, TurnReleases
<1>6. Gentle
  BY <1>1, <1>4, <1>5, GentleSame
<1> QED
  BY <1>1, <1>2, <1>3, <1>6, TypedPartsNext, GentleOnce

LEMMA StopOnce ==
  ASSUME OnceInv, Stop, UNCHANGED lost
  PROVE  OnceInv' /\ Gentle
BY TurnSteps, HoldOnce DEF Stop

LEMMA SettleQueueOnce ==
  ASSUME OnceInv, SettleQueue, UNCHANGED lost
  PROVE  OnceInv' /\ Gentle
<1>1. TurnPasses
  BY TurnSteps DEF SettleQueue
<1>2. CASE turn.stopped
  BY <1>1, <1>2, HoldOnce DEF SettleQueue
<1>3. CASE ~turn.stopped
  <2>1. /\ UNCHANGED <<registry, faults, staged, steer, log, durable, humans>> /\ Schedule
    BY <1>3 DEF SettleQueue
  <2>2. OthersTyped'
    BY <1>1, <2>1, TurnTyped, OthersNow, ScheduleFacts DEF OthersTyped
  <2>3. \A m \in Msg : Same(m)
    BY <2>1, UntouchedRegistry
  <2>4. Releases
    BY <1>1, <2>1, <2>3, ScheduleFacts, TurnReleases
  <2> QED
    BY <2>1, <2>2, <2>4, QuietOnce
<1> QED
  BY <1>2, <1>3

\* What waited for a boundary returns to the queue, or goes on waiting.
LEMMA FallbackFacts ==
  ASSUME OnceInv, NEW W \in SUBSET Waits, Fallback(W)
  PROVE  /\ RegistryTyped' /\ disk' \in {disk, reg'} /\ load' = load
         /\ load = "cold" => reg' = reg /\ disk' = disk
         /\ \A m \in Msg : Same(m) \/ (m \in W /\ St(reg', m) = "queued")
         /\ steer' = {} \/ (steer' = W /\ \A m \in Msg : Same(m))
<1>1. CASE W = {} /\ UNCHANGED <<registry, faults>> /\ steer' = {}
  BY <1>1, UntouchedRegistry DEF registry
<1>2. CASE W # {} /\ Saved(Move(W, "queued", NoId)) /\ steer' = {}
  <2> DEFINE new == Move(W, "queued", NoId)
  <2>1. \A m \in W : St(reg, m) = "delivering"
    BY NotHeld
  <2>2. W \in SUBSET Msg /\ "queued" \in States /\ NoId \in MaybeId /\ Good(reg)
    BY Parts DEF States
  <2>3. Becomes(new, W, "queued", NoId)
    BY <2>1, <2>2, MoveFacts
  <2> HIDE DEF new
  <2>4. Good(new) /\ new.paused = reg.paused
    BY <2>3 DEF Becomes
  <2>5. Saved(new)
    BY <1>2 DEF new
  <2>6. RegistryTyped'
    BY <2>4, <2>5, Parts, SaveFacts, OthersNow DEF RegistryTyped
  <2>7. reg' = new /\ disk' = reg' /\ load = "loaded" /\ load' = load
    BY <2>5 DEF Saved
  <2>8. \A m \in Msg : Same(m) \/ (m \in W /\ St(reg', m) = "queued")
    BY <2>3, <2>7 DEF Becomes, Same
  <2> QED
    BY <1>2, <2>6, <2>7, <2>8
<1>3. CASE W # {} /\ Fault /\ steer' = W /\ UNCHANGED registry
  <2>1. \A m \in Msg : Same(m)
    BY <1>3 DEF Same, registry
  <2>2. RegistryTyped'
    BY <1>3, FaultBound, OthersNow DEF RegistryTyped, registry, HoldKept
  <2> QED
    BY <1>3, <2>1, <2>2 DEF registry
<1> QED
  BY <1>1, <1>2, <1>3 DEF Fallback

\* Who else works on what does not wait finds it unchanged.
LEMMA WaitersApart ==
  ASSUME OnceInv
  PROVE  /\ turn.due \cap Waits = {} /\ staged \cap steer = {}
         /\ Submits => drain.batch \cap Waits = {}
         /\ Live => turn.id \notin Waits
         /\ turn.st # "running" => turn.due = {}
BY BatchApart DEF OnceInv, WaitersBusy, TurnBusy

LEMMA PushOnce ==
  ASSUME OnceInv, NEW m \in Msg, Push(m), UNCHANGED lost
  PROVE  OnceInv' /\ Gentle
<1> DEFINE W == steer \cup {m}
<1>1. /\ m \in staged /\ staged' = staged \ {m} /\ UNCHANGED <<turn, drain, log, durable, humans>>
      /\ W \in SUBSET Waits /\ W \in SUBSET Msg
  BY Parts DEF Push, Waits
<1>2. /\ RegistryTyped' /\ disk' \in {disk, reg'} /\ load' = load
      /\ load = "cold" => reg' = reg /\ disk' = disk
      /\ \A x \in Msg : Same(x) \/ (x \in W /\ St(reg', x) = "queued")
      /\ steer' = {} \/ (steer' = W /\ \A x \in Msg : Same(x))
  <2>1. CASE Quiet
    BY <1>1, <2>1, FallbackFacts DEF Push
  <2>2. CASE ~Quiet
    BY <2>2, UntouchedRegistry DEF Push, registry
  <2> QED
    BY <2>1, <2>2
<1>3. OthersTyped'
  BY <1>1, <1>2, OthersNow DEF OthersTyped
<1>4. Waits' \subseteq Waits /\ staged' \cap steer' = {}
  BY <1>1, <1>2, WaitersApart DEF Waits
<1>5. \A x \in Waits' : Same(x)
  <2>1. CASE steer' = {}
    BY <1>1, <1>2, <2>1, Parts, WaitersApart DEF Waits
  <2>2. CASE \A x \in Msg : Same(x)
    BY <1>4, <2>2, Parts
  <2> QED
    BY <1>2, <2>1, <2>2
<1>6. /\ \A x \in turn.due : Same(x)
      /\ Submits => \A x \in drain.batch : Same(x)
      /\ Live => Same(turn.id)
  BY <1>1, <1>2, WaitersApart, Parts DEF Live, MaybeId
<1>7. Live' = Live /\ Submits' = Submits
  BY <1>1 DEF Live, Submits
<1>8. Releases
  BY <1>1, <1>4, <1>5, <1>6, <1>7, WaitersApart DEF Releases
<1>9. \A x \in Msg : LetGo(x) /\ (Same(x) \/ St(reg', x) # "delivered")
  BY <1>1, <1>2 DEF LetGo
<1>10. Gentle
  BY <1>1, <1>2, <1>6, <1>8, <1>9 DEF Gentle
<1> QED
  BY <1>2, <1>3, <1>10, TypedPartsNext, GentleOnce

LEMMA SettleSteerOnce ==
  ASSUME OnceInv, SettleSteer, UNCHANGED lost
  PROVE  OnceInv' /\ Gentle
<1>1. TurnPasses /\ UNCHANGED <<staged, log, durable, humans>>
  BY TurnSteps DEF SettleSteer
<1>2. CASE Hold /\ UNCHANGED <<steer, drain>>
  BY <1>1, <1>2, HoldOnce
<1>3. CASE Fault /\ UNCHANGED <<registry, steer, drain>>
  <2>1. \A m \in Msg : Same(m)
    BY <1>3 DEF Same, registry
  <2>2. RegistryTyped'
    BY <1>3, FaultBound, OthersNow DEF RegistryTyped, registry, HoldKept
  <2>3. OthersTyped'
    BY <1>1, <1>3, TurnTyped, OthersNow DEF OthersTyped
  <2>4. Releases
    BY <1>1, <1>3, <2>1, TurnReleases
  <2>5. Gentle
    BY <1>1, <1>3, <2>1, <2>4, GentleSame DEF registry
  <2> QED
    BY <1>3, <2>2, <2>3, <2>5, TypedPartsNext, GentleOnce DEF registry
<1>4. CASE Fallback(steer) /\ Schedule
  <2>1. steer \in SUBSET Waits /\ steer \subseteq Msg /\ staged \subseteq Msg
    BY Parts DEF Waits
  <2>2. /\ RegistryTyped' /\ disk' \in {disk, reg'} /\ load' = load
        /\ load = "cold" => reg' = reg /\ disk' = disk
        /\ \A x \in Msg : Same(x) \/ (x \in steer /\ St(reg', x) = "queued")
        /\ steer' = {} \/ (steer' = steer /\ \A x \in Msg : Same(x))
    BY <1>4, <2>1, FallbackFacts
  <2>3. OthersTyped'
    BY <1>1, <1>4, <2>1, <2>2, ScheduleFacts, OthersNow DEF OthersTyped, TurnPasses
  <2>4. Waits' \subseteq Waits /\ staged' \cap steer' = {}
    BY <1>1, <2>2, WaitersApart DEF Waits
  <2>5. \A x \in Waits' : Same(x)
    <3>1. CASE steer' = {}
      BY <1>1, <2>1, <2>2, <3>1, WaitersApart DEF Waits
    <3>2. CASE \A x \in Msg : Same(x)
      BY <2>4, <3>2, Parts
    <3> QED
      BY <2>2, <3>1, <3>2
  <2>6. /\ \A x \in turn.due : Same(x)
        /\ Submits => \A x \in drain.batch : Same(x)
    BY <2>1, <2>2, WaitersApart, Parts DEF Waits
  <2>7. Submits' => Submits /\ drain' = drain
    BY <1>4, ScheduleFacts DEF Submits
  <2>8. ~Live' /\ turn'.due = {} /\ turn'.st = "idle"
    BY DEF SettleSteer, Live, Idle
  <2>9. Releases
    BY <2>4, <2>5, <2>6, <2>7, <2>8 DEF Releases
  <2>10. \A x \in Msg : LetGo(x) /\ (Same(x) \/ St(reg', x) # "delivered")
    BY <2>1, <2>2 DEF LetGo
  <2>11. Gentle
    BY <1>1, <2>2, <2>6, <2>9, <2>10 DEF Gentle
  <2> QED
    BY <2>2, <2>3, <2>11, TypedPartsNext, GentleOnce
<1> QED
  BY <1>2, <1>3, <1>4 DEF SettleSteer

LEMMA SettleDeliveryOnce ==
  ASSUME OnceInv, SettleDelivery, UNCHANGED lost
  PROVE  OnceInv' /\ Gentle
<1> DEFINE S == Bound(turn.id)
           new == Move(S, "delivered", turn.id)
<1>1. /\ turn.st = "ended" /\ load = "loaded" /\ TurnPasses
      /\ UNCHANGED <<staged, steer, drain, log, durable, humans>>
  BY TurnSteps DEF SettleDelivery
<1>2. S = {m \in Msg : St(reg, m) = "delivering" /\ Did(reg, m) = turn.id}
  BY DEF Bound, In, St, Did
<1>3. S \in SUBSET Msg /\ "delivered" \in States /\ turn.id \in MaybeId /\ Good(reg)
      /\ "delivered" \notin {"new", "queued", "delivering"}
  BY <1>2, Parts DEF States
<1> HIDE DEF S
<1>4. Becomes(new, S, "delivered", turn.id)
  BY <1>3, MoveFacts
<1>5. Persist(new) \/ UNCHANGED <<registry, faults>>
  BY DEF SettleDelivery, S
<1> HIDE DEF new
<1>6. Good(new) /\ new.paused = reg.paused
  BY <1>4 DEF Becomes
<1>7. RegistryTyped' /\ disk' \in {disk, reg'} /\ load' = load
  <2>1. CASE Persist(new)
    BY <1>6, <2>1, Parts, SaveFacts, OthersNow DEF RegistryTyped, Persist
  <2>2. CASE UNCHANGED <<registry, faults>>
    BY <2>2, UntouchedRegistry
  <2> QED
    BY <1>5, <2>1, <2>2
<1>8. \A m \in Msg : Same(m) \/ (m \in S /\ St(reg', m) = "delivered")
  <2>1. CASE Persist(new)
    BY <1>4, <2>1 DEF Persist, Becomes, Same
  <2>2. CASE UNCHANGED <<registry, faults>>
    BY <2>2, UntouchedRegistry
  <2> QED
    BY <1>5, <2>1, <2>2
<1>9. OthersTyped'
  BY <1>1, TurnTyped, OthersNow DEF OthersTyped
<1>10. ~Live' /\ turn'.due = {} /\ turn'.st = "settled"
  BY <1>1, OthersNow, WaitersApart DEF SettleDelivery, Live, OthersTyped
<1>11. Waits \cap S = {}
  <2> SUFFICES ASSUME NEW m \in Waits, m \in S PROVE FALSE
    OBVIOUS
  <2>1. m = turn.id /\ m \in Msg
    BY <1>2, Parts DEF OnceInv, WaitersBusy, Busy
  <2>2. Live
    BY <1>1, <2>1, Parts DEF Live
  <2> QED
    BY <2>1, <2>2, WaitersApart
<1>12. Submits => drain.batch \cap S = {}
  <2> SUFFICES ASSUME Submits, NEW m \in drain.batch, m \in S PROVE FALSE
    OBVIOUS
  <2>1. turn.id = drain.id /\ drain.id \in Msg
    BY <1>2, Parts DEF OnceInv, BatchBusy
  <2>2. Live
    BY <1>1, <2>1, Parts DEF Live
  <2> QED
    BY <2>1, <2>2 DEF OnceInv, TurnBusy
<1>13. Waits' = Waits /\ Submits' = Submits
  BY <1>1 DEF Waits, Submits
<1>14. Releases
  BY <1>1, <1>8, <1>10, <1>11, <1>12, <1>13, Parts, WaitersApart DEF Releases
<1>15. \A m \in Msg : LetGo(m)
  <2>1. \A m \in Msg : Same(m) \/ (m \in S /\ St(reg', m) = "delivered" /\ Did(reg', m) = turn.id)
    BY <1>4, <1>5, UntouchedRegistry DEF Persist, Becomes, Same
  <2> QED
    BY <1>1, <1>2, <2>1 DEF LetGo
<1>16. Submits => \A m \in drain.batch : Same(m)
  BY <1>8, <1>12, Parts
<1>17. ASSUME NEW m \in Msg, ~Same(m), turn.id \in Msg PROVE St(reg', turn.id) = "delivered"
  <2>1. turn.id \in S
    BY <1>1, <1>2, <1>17, Parts DEF OnceInv, TurnBusy, Busy, Live
  <2>2. Persist(new)
    BY <1>5, <1>17, UntouchedRegistry
  <2> QED
    BY <1>4, <1>17, <2>1, <2>2 DEF Persist, Becomes
<1>18. Gentle
  BY <1>1, <1>7, <1>14, <1>15, <1>16, <1>17 DEF Gentle
<1> QED
  BY <1>1, <1>7, <1>9, <1>18, TypedPartsNext, GentleOnce

LEMMA ReceiptOnce ==
  ASSUME OnceInv, Receipt, UNCHANGED lost
  PROVE  OnceInv' /\ Gentle
<1> DEFINE S == {m \in turn.due : m \in Bound(m)}
           new == Move(S, "done", NoId)
<1>1. /\ turn.st = "running" /\ load = "loaded" /\ TurnPasses
      /\ UNCHANGED <<staged, steer, drain, log, durable, humans>>
      /\ turn' = [turn EXCEPT !.due = {}]
  BY TurnSteps DEF Receipt
<1>2. S \subseteq turn.due
  OBVIOUS
<1>3. S \in SUBSET Msg /\ "done" \in States /\ NoId \in MaybeId /\ Good(reg)
      /\ "done" \notin {"new", "queued", "delivering"}
  BY <1>2, Parts DEF States
<1> HIDE DEF S
<1>4. Becomes(new, S, "done", NoId)
  BY <1>3, MoveFacts
<1>5. Persist(new)
  BY DEF Receipt, S
<1> HIDE DEF new
<1>6. Good(new) /\ new.paused = reg.paused
  BY <1>4 DEF Becomes
<1>7. RegistryTyped' /\ disk' \in {disk, reg'} /\ load' = load
  BY <1>5, <1>6, Parts, SaveFacts, OthersNow DEF RegistryTyped, Persist
<1>8. \A m \in Msg : Same(m) \/ (m \in S /\ St(reg', m) = "done")
  BY <1>4, <1>5 DEF Persist, Becomes, Same
<1>9. OthersTyped'
  BY <1>1, TurnTyped, OthersNow DEF OthersTyped
<1>10. turn'.due = {} /\ turn'.st = "running" /\ turn'.id = turn.id
  BY <1>1, OthersNow DEF OthersTyped
<1>11. Waits \cap turn.due = {} /\ (Submits => drain.batch \cap turn.due = {})
       /\ (Live => turn.id \notin turn.due)
  BY WaitersApart, BatchApart DEF OnceInv, TurnBusy
<1>12. Waits' = Waits /\ Submits' = Submits /\ Live' = Live
  BY <1>1, <1>10 DEF Waits, Submits, Live
<1>13. Live => Same(turn.id)
  BY <1>2, <1>8, <1>11, Parts DEF Live, MaybeId
<1>14. Releases
  BY <1>1, <1>2, <1>8, <1>10, <1>11, <1>12, <1>13, Parts, WaitersApart DEF Releases
<1>15. \A m \in Msg : LetGo(m) /\ (Same(m) \/ St(reg', m) # "delivered")
  BY <1>2, <1>8 DEF LetGo
<1>16. Submits => \A m \in drain.batch : Same(m)
  BY <1>2, <1>8, <1>11, Parts
<1>17. Gentle
  BY <1>1, <1>7, <1>14, <1>15, <1>16 DEF Gentle
<1> QED
  BY <1>1, <1>7, <1>9, <1>17, TypedPartsNext, GentleOnce

LEMMA MendOnce ==
  ASSUME OnceInv, Mend
  PROVE  OnceInv' /\ Gentle
<1>1. /\ disk' = reg /\ load' = "loaded" /\ reg' = reg
      /\ UNCHANGED <<staged, steer, turn, drain, log, durable, humans, faults, lost>>
  BY DEF Mend
<1>2. \A m \in Msg : Same(m)
  BY <1>1 DEF Same
<1>3. RegistryTyped' /\ OthersTyped'
  BY <1>1, OthersNow DEF RegistryTyped, OthersTyped, HoldKept
<1>4. Releases
  BY <1>1, <1>2, OthersMove
<1>5. Gentle
  BY <1>1, <1>2, <1>4, GentleSame
<1> QED
  BY <1>1, <1>3, <1>5, TypedPartsNext, GentleOnce

LEMMA LoadOnce ==
  ASSUME OnceInv, Load
  PROVE  OnceInv'
<1>1. /\ load = "cold" /\ reg' = Reconciled /\ disk' \in {disk, reg'}
      /\ load' \in {"loaded", "dirty"} /\ (Fault \/ NoFault)
      /\ UNCHANGED <<staged, steer, turn, drain, log, durable, humans, lost>>
  BY DEF Load
<1>2. /\ Good(Reconciled) /\ Reconciled.paused = disk.paused
      /\ \A m \in Msg :
           IF St(disk, m) = "delivering"
           THEN IF Did(disk, m) \in durable
                THEN St(Reconciled, m) = "delivered" /\ Did(Reconciled, m) = Did(disk, m)
                ELSE St(Reconciled, m) = "queued"
           ELSE St(Reconciled, m) = St(disk, m) /\ Did(Reconciled, m) = Did(disk, m)
  BY Parts, OthersNow, ReconciledFacts DEF RegistryTyped
<1>3. /\ reg = disk /\ RowIds \subseteq durable /\ Waits = {} /\ ~Submits /\ ~Live /\ turn.due = {}
  BY <1>1 DEF OnceInv, ColdIsQuiet
<1>4. faults' \in 0..MaxFaults
  BY <1>1, FaultBound, OthersNow DEF RegistryTyped
<1>5. RegistryTyped'
  BY <1>1, <1>2, <1>4, OthersNow DEF RegistryTyped, HoldKept
<1>6. OthersTyped'
  BY <1>1, OthersNow DEF OthersTyped
<1>7. \A m \in Msg : Same(m) \/ St(reg', m) = "delivered"
                     \/ (St(reg', m) = "queued" /\ St(disk, m) = "delivering" /\ Did(disk, m) \notin durable)
  BY <1>1, <1>2, <1>3 DEF Same
<1>8. \A m \in Msg : St(disk, m) = "delivering" /\ Did(disk, m) \notin durable => ~InRows(m)
  BY <1>3 DEF OnceInv, RowsPlaced, InRows, RowIds
<1>9. Waits' = {} /\ ~Submits' /\ ~Live' /\ turn' = turn
  BY <1>1, <1>3 DEF Waits, Submits, Live
<1>10. Releases
  BY <1>1, <1>3, <1>9, WaitersApart DEF Releases
<1> QED
  BY <1>1, <1>5, <1>6, <1>7, <1>8, <1>10, TypedPartsNext, ReleaseOnce

-----------------------------------------------------------------------------
\* Taking messages on

\* A message that nobody works on can be taken on: no row is named by it.
LEMMA FreshId ==
  ASSUME OnceInv, NEW m \in Msg, St(reg, m) \notin Past
  PROVE  /\ m \notin RowIds /\ m \notin Waits \cup turn.due
         /\ Submits => m \notin drain.batch /\ m # drain.id
         /\ Live => m # turn.id
<1>1. m \notin RowIds
  BY NotInRows DEF OnceInv, RowsNamed, RowIds, InRows
<1>2. St(reg, m) # "delivering"
  BY DEF Past
<1>3. Submits => drain.id \in drain.batch
  BY DEF OnceInv, BatchBusy
<1> QED
  BY <1>1, <1>2, <1>3, NotHeld

\* The messages of S, all new or queued, are taken on under the identity f of
\* one of them, to wait for a boundary or as the batch of the drain.
Claims(S, f) ==
  /\ f \in S /\ disk' = reg' /\ turn' = turn /\ log' = log /\ durable' = durable /\ lost' = lost
  /\ \A m \in S : St(reg, m) \in {"new", "queued"}
  /\ \A x \in Msg : IF x \in S THEN St(reg', x) = "delivering" /\ Did(reg', x) = f ELSE Same(x)
  /\ \/ S = {f} /\ Waits' = Waits \cup {f} /\ drain' = drain
     \/ Waits' = Waits /\ drain'.id = f /\ drain'.batch = S

Claim == \E S \in SUBSET Msg : \E f \in S : Claims(S, f)

\* One message begins to wait for a boundary.
LEMMA WaitOnce ==
  ASSUME OnceInv, Typed', NEW m \in Msg, St(reg, m) \in {"new", "queued"},
         \A x \in Msg : x # m => Same(x),
         St(reg', m) = "delivering", Did(reg', m) = m, disk' = reg', load = "loaded", load' = load,
         UNCHANGED <<turn, drain, log, durable, lost>>,
         \/ staged' = staged \cup {m} /\ steer' = steer
         \/ steer' = steer \cup {m} /\ staged' = staged
  PROVE  OnceInv' /\ Claim
<1>1. ~InRows(m)
  BY NotInRows DEF Past
<1>2. /\ m \notin RowIds /\ m \notin Waits \cup turn.due
      /\ Submits => m \notin drain.batch /\ m # drain.id
      /\ Live => m # turn.id
  BY FreshId DEF Past
<1>3. RowsPlaced(reg)' /\ RowsPlaced(disk)' /\ RowsNamed' /\ RowsApart' /\ RowIds' = RowIds
  BY <1>1, RowsKept DEF Same
<1>4. DeliveriesSaved' /\ ColdIsQuiet'
  BY DEF DeliveriesSaved, ColdIsQuiet
<1>5. Waits' = Waits \cup {m} /\ staged' \cap steer' = {}
  BY <1>2, WaitersApart DEF Waits
<1>6. WaitersBusy'
  <2>1. \A x \in Waits \cup turn.due : Busy(x)'
    BY <1>2, Parts DEF OnceInv, WaitersBusy, Busy, Same
  <2>2. Busy(m)'
    BY DEF Busy
  <2> QED
    BY <1>2, <1>3, <1>5, <2>1, <2>2 DEF OnceInv, WaitersBusy
<1>7. BatchBusy'
  <2>1. Submits => \A x \in drain.batch : Same(x)
    BY <1>2, Parts
  <2> QED
    BY <1>2, <1>3, <1>5, <2>1 DEF OnceInv, BatchBusy, Submits, Same
<1>8. TurnBusy'
  <2>1. Live => Same(turn.id)
    BY <1>2, Parts DEF Live, MaybeId
  <2> QED
    BY <1>2, <1>3, <1>5, <2>1 DEF OnceInv, TurnBusy, Busy, Live, Submits, Same
<1>9. Claim
  <2>1. \A x \in Msg : IF x \in {m} THEN St(reg', x) = "delivering" /\ Did(reg', x) = m ELSE Same(x)
    OBVIOUS
  <2>2. Claims({m}, m)
    BY <1>5, <2>1 DEF Claims
  <2>3. {m} \in SUBSET Msg /\ m \in {m}
    OBVIOUS
  <2> QED
    BY <2>2, <2>3 DEF Claim
<1> QED
  BY <1>3, <1>4, <1>6, <1>7, <1>8, <1>9 DEF OnceInv

LEMMA StageOnce ==
  ASSUME OnceInv, NEW m \in Msg, Stage(m), UNCHANGED lost
  PROVE  OnceInv' /\ Claim
<1> DEFINE new == Move({m}, "delivering", m)
<1>1. /\ St(reg, m) = "new" /\ Saved(new) /\ staged' = staged \cup {m}
      /\ UNCHANGED <<steer, turn, drain, log, durable, humans>>
  BY DEF Stage, St
<1>2. "delivering" \in States /\ m \in MaybeId
  BY DEF States, MaybeId
<1>3. Becomes(new, {m}, "delivering", m)
  BY <1>1, <1>2, OneMoves
<1> HIDE DEF new
<1>4. /\ Good(new) /\ new.paused = reg.paused
      /\ \A x \in Msg : x # m => St(new, x) = St(reg, x) /\ Did(new, x) = Did(reg, x)
      /\ St(new, m) = "delivering" /\ Did(new, m) = m
  BY <1>3 DEF Becomes
<1>5. reg' = new /\ disk' = reg' /\ load = "loaded" /\ load' = load
  BY <1>1 DEF Saved
<1>6. RegistryTyped'
  BY <1>1, <1>4, <1>5, Parts, SaveFacts DEF RegistryTyped
<1>7. OthersTyped'
  BY <1>1, OthersNow DEF OthersTyped
<1>8. \A x \in Msg : x # m => Same(x)
  BY <1>4, <1>5 DEF Same
<1> QED
  BY <1>1, <1>4, <1>5, <1>6, <1>7, <1>8, TypedPartsNext, WaitOnce

\* A registry that could not be saved is what it was.
LEMMA FaultOnce ==
  ASSUME OnceInv, UNCHANGED <<registry, staged, steer, turn, log, durable, humans, lost>>, Fault \/ NoFault,
         drain' = drain \/ drain' = NoDrain
  PROVE  OnceInv' /\ Gentle
<1>1. \A m \in Msg : Same(m)
  BY DEF Same, registry
<1>2. RegistryTyped'
  BY FaultBound, OthersNow DEF RegistryTyped, registry, HoldKept
<1>3. OthersTyped'
  BY Parts, OthersNow DEF OthersTyped, NoDrain
<1>4. Releases
  BY <1>1, OthersMove DEF NoDrain, Submits
<1>5. Gentle
  BY <1>1, <1>4, GentleSame DEF registry
<1> QED
  BY <1>2, <1>3, <1>5, TypedPartsNext, GentleOnce DEF registry

LEMMA SteerQueuedOnce ==
  ASSUME OnceInv, NEW m \in Msg, SteerQueued(m), UNCHANGED lost
  PROVE  OnceInv' /\ (Gentle \/ Claim)
<1> DEFINE new == Move({m}, "delivering", m)
<1>1. /\ St(reg, m) = "queued" /\ PersistOrRestore(new)
      /\ steer' = (IF reg' = reg THEN steer ELSE steer \cup {m})
      /\ UNCHANGED <<staged, turn, drain, log, durable, humans>>
  BY DEF SteerQueued, Queued, In, St
<1>2. "delivering" \in States /\ m \in MaybeId
  BY DEF States, MaybeId
<1>3. Becomes(new, {m}, "delivering", m)
  BY <1>1, <1>2, OneMoves
<1> HIDE DEF new
<1>4. /\ Good(new) /\ new.paused = reg.paused
      /\ \A x \in Msg : x # m => St(new, x) = St(reg, x) /\ Did(new, x) = Did(reg, x)
      /\ St(new, m) = "delivering" /\ Did(new, m) = m
  BY <1>3 DEF Becomes
<1>5. CASE reg' = new /\ disk' = new /\ load = "loaded" /\ load' = load /\ NoFault
  <2>1. reg' # reg
    BY <1>1, <1>4, <1>5
  <2>2. RegistryTyped'
    BY <1>1, <1>4, <1>5, Parts, SaveFacts DEF RegistryTyped
  <2>3. OthersTyped'
    BY <1>1, <2>1, OthersNow DEF OthersTyped
  <2>4. \A x \in Msg : x # m => Same(x)
    BY <1>4, <1>5 DEF Same
  <2> QED
    BY <1>1, <1>4, <1>5, <2>1, <2>2, <2>3, <2>4, TypedPartsNext, WaitOnce
<1>6. CASE UNCHANGED <<reg, disk, load>> /\ Fault
  BY <1>1, <1>6, FaultOnce DEF registry
<1> QED
  BY <1>1, <1>5, <1>6 DEF PersistOrRestore

LEMMA TakeOnce ==
  ASSUME OnceInv, Take, UNCHANGED lost
  PROVE  OnceInv' /\ (Gentle \/ Claim)
<1>1. /\ drain.st = "scheduled" /\ Quiet /\ UNCHANGED <<staged, steer, turn, log, durable, humans>>
  BY DEF Take
<1>2. PICK f \in Queued :
        /\ PersistOrRestore(Move(Queued, "delivering", f))
        /\ drain' = IF reg' = reg THEN NoDrain
                    ELSE [st |-> "submitting", id |-> f, batch |-> Queued]
  BY DEF Take
<1>3. Queued = {m \in Msg : St(reg, m) = "queued"}
  BY DEF Queued, In, St
<1> DEFINE new == Move(Queued, "delivering", f)
<1>4. /\ "delivering" \in States /\ f \in MaybeId /\ f \in Msg /\ Queued \in SUBSET Msg /\ Good(reg)
      /\ \A m \in Queued : St(reg, m) = "queued"
  BY <1>3, Parts DEF States
<1>5. Becomes(new, Queued, "delivering", f)
  BY <1>4, MoveFacts
<1> HIDE DEF new
<1>6. /\ Good(new) /\ new.paused = reg.paused
      /\ \A x \in Msg : x \notin Queued => St(new, x) = St(reg, x) /\ Did(new, x) = Did(reg, x)
      /\ \A x \in Queued : St(new, x) = "delivering" /\ Did(new, x) = f
  BY <1>4, <1>5 DEF Becomes
<1>7. CASE reg' = new /\ disk' = new /\ load = "loaded" /\ load' = load /\ NoFault
  <2>1. reg' # reg
    BY <1>2, <1>4, <1>6, <1>7
  <2>2. drain' = [st |-> "submitting", id |-> f, batch |-> Queued]
    BY <1>2, <2>1
  <2>3. RegistryTyped'
    BY <1>2, <1>6, <1>7, Parts, SaveFacts DEF RegistryTyped, new
  <2>4. OthersTyped'
    BY <1>1, <1>4, <2>2, OthersNow DEF OthersTyped
  <2>5. \A x \in Msg : IF x \in Queued THEN St(reg', x) = "delivering" /\ Did(reg', x) = f ELSE Same(x)
    BY <1>6, <1>7 DEF Same
  <2>6. \A x \in Queued : ~InRows(x) /\ x \notin RowIds /\ x \notin Waits \cup turn.due /\ (Live => x # turn.id)
    BY <1>4, NotInRows, FreshId DEF Past
  <2>7. RowsPlaced(reg)' /\ RowsPlaced(disk)' /\ RowsNamed' /\ RowsApart' /\ RowIds' = RowIds
    BY <1>1, <1>7, <2>5, <2>6, RowsKept DEF Same
  <2>8. DeliveriesSaved' /\ ColdIsQuiet'
    BY <1>7 DEF DeliveriesSaved, ColdIsQuiet
  <2>9. Waits' = Waits /\ Live' = Live /\ turn' = turn
    BY <1>1 DEF Waits, Live
  <2>10. WaitersBusy'
    <3>1. \A x \in Waits \cup turn.due : Busy(x)'
      BY <2>5, <2>6, Parts DEF OnceInv, WaitersBusy, Busy, Same
    <3> QED
      BY <1>1, <2>7, <2>9, <3>1, WaitersApart DEF OnceInv, WaitersBusy
  <2>11. BatchBusy'
    <3>1. drain'.id = f /\ drain'.batch = Queued /\ f \in Queued
      BY <1>2, <2>2
    <3>2. f \notin Waits' \cup turn'.due \cup RowIds'
      BY <2>6, <2>7, <2>9, <3>1
    <3>3. \A m \in Queued : St(reg', m) = "delivering" /\ Did(reg', m) = f
      BY <1>4, <2>5
    <3> QED
      BY <3>1, <3>2, <3>3 DEF BatchBusy
  <2>12. TurnBusy'
    <3>1. Live => Same(turn.id)
      BY <2>5, <2>6, Parts DEF Live, MaybeId
    <3>2. turn.st # "begun"
      BY <1>1 DEF Quiet
    <3>3. Live => Busy(turn.id)'
      BY <2>9, <3>1 DEF OnceInv, TurnBusy, Busy, Same
    <3>4. Live => turn.id # drain'.id
      BY <1>2, <2>2, <2>6
    <3> QED
      BY <2>9, <3>2, <3>3, <3>4 DEF OnceInv, TurnBusy, Busy
  <2>13. Claims(Queued, f)
    BY <1>1, <1>2, <1>4, <1>7, <2>2, <2>5, <2>9 DEF Claims
  <2>14. Claim
    BY <1>2, <1>4, <2>13 DEF Claim
  <2> QED
    BY <2>3, <2>4, <2>7, <2>8, <2>10, <2>11, <2>12, <2>14, TypedPartsNext DEF OnceInv
<1>8. CASE UNCHANGED <<reg, disk, load>> /\ Fault
  BY <1>1, <1>2, <1>8, FaultOnce DEF registry
<1> QED
  BY <1>2, <1>7, <1>8 DEF PersistOrRestore, new

LEMMA SubmitOnce ==
  ASSUME OnceInv, Submit, UNCHANGED lost
  PROVE  OnceInv'
<1>1. /\ Submits /\ turn.st = "idle" /\ drain' = NoDrain
      /\ UNCHANGED <<registry, staged, steer, log, durable, humans>>
  BY DEF Submit, Submits
<1>2. CASE turn' = [st |-> "begun", id |-> drain.id, stopped |-> FALSE, due |-> {}] /\ NoFault
  <2>1. \A x \in Msg : Same(x)
    BY <1>1 DEF Same, registry
  <2>2. RegistryTyped'
    BY <1>1, <1>2, FaultBound, OthersNow DEF RegistryTyped, registry, HoldKept
  <2>3. OthersTyped'
    BY <1>1, <1>2, Parts, OthersNow DEF OthersTyped, NoDrain
  <2>4. RowsPlaced(reg)' /\ RowsPlaced(disk)' /\ RowsNamed' /\ RowsApart' /\ RowIds' = RowIds
    BY <1>1 DEF OnceInv, RowsPlaced, RowsNamed, RowsApart, RowIds, registry
  <2>5. DeliveriesSaved'
    BY <1>1 DEF OnceInv, DeliveriesSaved, registry
  <2>6. load' # "cold"
    BY <1>1 DEF OnceInv, ColdIsQuiet, registry
  <2>7. Waits' = Waits /\ ~Submits' /\ turn'.due = {} /\ turn'.id = drain.id /\ turn'.st = "begun"
    BY <1>1, <1>2 DEF Waits, Submits, NoDrain
  <2>8. drain.id \in drain.batch /\ drain.id \in Msg /\ drain.id \notin Waits \cup RowIds /\ Busy(drain.id)
    BY <1>1, Parts DEF OnceInv, BatchBusy, Busy
  <2>9. WaitersBusy'
    BY <1>1, <2>4, <2>7 DEF OnceInv, WaitersBusy, Busy, registry
  <2>10. TurnBusy'
    BY <1>1, <2>4, <2>7, <2>8, Parts DEF TurnBusy, Live, Busy, registry
  <2> QED
    BY <2>2, <2>3, <2>4, <2>5, <2>6, <2>7, <2>9, <2>10, TypedPartsNext DEF OnceInv, ColdIsQuiet, BatchBusy
<1>3. CASE UNCHANGED turn /\ Fault
  BY <1>1, <1>3, FaultOnce
<1> QED
  BY <1>2, <1>3 DEF Submit

\* New rows: of messages in delivery under the identity of the row, which are in
\* no row yet and in one of the new ones only.
FreshRows(N) ==
  /\ IsFiniteSet(N)
  /\ \A n \in N : /\ n.id \in Msg /\ n.texts \subseteq Msg /\ n.id \in n.texts
                 /\ \A m \in n.texts : St(reg, m) = "delivering" /\ Did(reg, m) = n.id /\ ~InRows(m)
  /\ \A n, k \in N : \A m \in n.texts : m \in k.texts => n = k

LEMMA ExtendFacts ==
  ASSUME OnceInv, NEW N, FreshRows(N), Extend(N), UNCHANGED <<registry, lost>>
  PROVE  /\ log \subseteq log' /\ log' \subseteq Row /\ IsFiniteSet(log') /\ durable' \subseteq Msg
         /\ RowIds' = RowIds \cup {n.id : n \in N}
         /\ RegistryTyped'
         /\ RowsPlaced(reg)' /\ RowsPlaced(disk)' /\ RowsNamed' /\ RowsApart'
         /\ DeliveriesSaved'
         /\ durable' \in {durable, RowIds'}
         /\ \A m \in Msg : InRows(m)' <=> InRows(m) \/ \E n \in N : m \in n.texts
<1> DEFINE row(n) == [id |-> n.id, texts |-> n.texts, copy |-> Cardinality({r \in log : r.id = n.id})]
           New == {row(n) : n \in N}
<1>1. log' = log \cup New /\ durable' \in {durable, RowIds'} /\ (Fault \/ NoFault)
  BY DEF Extend, RowIds
<1>2. IsFiniteSet(log) /\ log \subseteq Row /\ durable \subseteq Msg
  BY OthersNow DEF OthersTyped
<1>3. \A n \in N : row(n) \in Row
  <2> SUFFICES ASSUME NEW n \in N PROVE row(n) \in Row
    OBVIOUS
  <2>1. Cardinality({r \in log : r.id = n.id}) \in Nat
    BY <1>2, FS_Subset, FS_CardinalityType
  <2> QED
    BY <2>1 DEF FreshRows, Row
<1>4. IsFiniteSet(New)
  <2> DEFINE f == [n \in N |-> row(n)]
  <2>1. f \in Surjection(N, New)
    BY DEF Surjection
  <2> QED
    BY <2>1, FS_Surjection DEF FreshRows
<1>5. \A n \in N : row(n).id = n.id /\ row(n).texts = n.texts
  OBVIOUS
<1> HIDE DEF row
<1>6. log' \subseteq Row
  BY <1>1, <1>2, <1>3
<1>7. IsFiniteSet(log')
  BY <1>1, <1>2, <1>4, FS_Union
<1>8. RowIds' = RowIds \cup {n.id : n \in N}
  BY <1>1, <1>5 DEF RowIds
<1>9. RowIds' \subseteq Msg
  BY <1>6 DEF RowIds, Row
<1>10. \A m \in Msg : InRows(m)' <=> InRows(m) \/ \E n \in N : m \in n.texts
  BY <1>1, <1>5 DEF InRows
<1>11. RegistryTyped'
  BY <1>1, FaultBound, OthersNow DEF RegistryTyped, registry, HoldKept
<1>12. reg' = reg /\ disk' = disk
  BY DEF registry
<1>13. RowsPlaced(reg)'
  BY <1>1, <1>5, <1>12 DEF OnceInv, RowsPlaced, FreshRows, Past
<1>14. RowsPlaced(disk)'
  BY <1>1, <1>5, <1>12 DEF OnceInv, RowsPlaced, FreshRows, Past, DeliveriesSaved
<1>15. RowsNamed'
  BY <1>1, <1>5 DEF OnceInv, RowsNamed, FreshRows
<1>16. RowsApart'
  <2> SUFFICES ASSUME NEW r \in log', NEW q \in log', NEW m \in r.texts, m \in q.texts PROVE r = q
    BY DEF RowsApart
  <2>1. CASE r \in log /\ q \in log
    BY <2>1 DEF OnceInv, RowsApart
  <2>2. CASE r \in New /\ q \in New
    BY <1>5, <2>2 DEF FreshRows
  <2>3. CASE r \in log /\ q \in New
    BY <1>5, <2>3 DEF FreshRows, InRows
  <2>4. CASE r \in New /\ q \in log
    BY <1>5, <2>4 DEF FreshRows, InRows
  <2> QED
    BY <1>1, <2>1, <2>2, <2>3, <2>4
<1>17. DeliveriesSaved'
  BY <1>12 DEF OnceInv, DeliveriesSaved
<1>18. durable' \subseteq Msg
  BY <1>1, <1>2, <1>9
<1> QED
  BY <1>1, <1>6, <1>7, <1>8, <1>10, <1>11, <1>13, <1>14, <1>15, <1>16, <1>17, <1>18

\* The turn's own row.
LEMMA CommitRow ==
  ASSUME OnceInv, turn.st = "begun"
  PROVE  /\ FreshRows({[id |-> turn.id, texts |-> Bound(turn.id)]})
         /\ turn.id \in Msg /\ Busy(turn.id) /\ turn.id \notin Waits
<1> DEFINE n == [id |-> turn.id, texts |-> Bound(turn.id)]
<1>1. Bound(turn.id) = {m \in Msg : St(reg, m) = "delivering" /\ Did(reg, m) = turn.id}
  BY DEF Bound, In, St, Did
<1>2. turn.id # NoId /\ Live
  BY DEF OnceInv, TurnBusy, Live
<1>3. turn.id \in Msg /\ Busy(turn.id) /\ turn.id \notin Waits
  BY <1>2, Parts DEF OnceInv, TurnBusy, MaybeId
<1>4. turn.id \in Bound(turn.id)
  BY <1>1, <1>3 DEF Busy
<1>5. \A m \in Bound(turn.id) : ~InRows(m)
  BY NotInRows
<1>6. n.id = turn.id /\ n.texts = Bound(turn.id) /\ IsFiniteSet({n})
  BY FS_Singleton
<1> HIDE DEF n
<1>7. FreshRows({n})
  BY <1>1, <1>3, <1>4, <1>5, <1>6 DEF FreshRows
<1> QED
  BY <1>3, <1>7 DEF n

LEMMA CommitOnce ==
  ASSUME OnceInv, Commit, UNCHANGED lost
  PROVE  OnceInv'
<1> DEFINE N == {[id |-> turn.id, texts |-> Bound(turn.id)]}
<1>1. /\ turn.st = "begun" /\ Extend(N) /\ turn' = [turn EXCEPT !.st = "running"]
      /\ UNCHANGED <<registry, staged, steer, drain, humans>>
  BY DEF Commit
<1>2. FreshRows(N) /\ turn.id \in Msg /\ Busy(turn.id) /\ turn.id \notin Waits
  BY <1>1, CommitRow
<1>3. /\ log' \subseteq Row /\ IsFiniteSet(log') /\ durable' \subseteq Msg
      /\ RowIds' = RowIds \cup {n.id : n \in N}
      /\ RegistryTyped'
      /\ RowsPlaced(reg)' /\ RowsPlaced(disk)' /\ RowsNamed' /\ RowsApart' /\ DeliveriesSaved'
  BY <1>1, <1>2, ExtendFacts
<1>4. RowIds' = RowIds \cup {turn.id}
  BY <1>3
<1>5. turn' = [st |-> "running", id |-> turn.id, stopped |-> turn.stopped, due |-> turn.due]
  BY <1>1, OthersNow DEF OthersTyped
<1>6. OthersTyped'
  BY <1>1, <1>3, <1>5, OthersNow DEF OthersTyped
<1>7. Live /\ turn.due = {} /\ load # "cold"
  BY <1>1, <1>2, Parts, WaitersApart DEF Live, OnceInv, ColdIsQuiet
<1>8. Waits' = Waits /\ Submits' = Submits /\ reg' = reg /\ load' = load /\ drain' = drain
  BY <1>1 DEF Waits, Submits, registry
<1>9. WaitersBusy'
  BY <1>1, <1>2, <1>4, <1>5, <1>7, <1>8 DEF OnceInv, WaitersBusy, Busy
<1>10. BatchBusy'
  BY <1>1, <1>4, <1>5, <1>7, <1>8 DEF OnceInv, BatchBusy, TurnBusy
<1>11. TurnBusy'
  BY <1>1, <1>2, <1>5, <1>7, <1>8 DEF OnceInv, TurnBusy, Busy
<1> QED
  BY <1>3, <1>6, <1>7, <1>8, <1>9, <1>10, <1>11, TypedPartsNext DEF OnceInv, ColdIsQuiet

\* The rows of what waited for a boundary.
LEMMA BoundaryRows ==
  ASSUME OnceInv
  PROVE  /\ FreshRows({[id |-> m, texts |-> {m}] : m \in steer \ RowIds})
         /\ steer \cap RowIds = {} /\ steer \subseteq Msg
<1> DEFINE row(m) == [id |-> m, texts |-> {m}]
           N == {row(m) : m \in steer \ RowIds}
<1>1. steer \subseteq Msg /\ steer \subseteq Waits
  BY Parts DEF Waits
<1>2. steer \cap RowIds = {}
  BY <1>1 DEF OnceInv, WaitersBusy
<1>3. IsFiniteSet(steer \ RowIds)
  BY <1>1, InboxAssumption, FS_Subset
<1>4. IsFiniteSet(N)
  <2> DEFINE f == [m \in steer \ RowIds |-> row(m)]
  <2>1. f \in Surjection(steer \ RowIds, N)
    BY DEF Surjection
  <2> QED
    BY <1>3, <2>1, FS_Surjection
<1>5. \A m \in steer : row(m).id = m /\ row(m).texts = {m}
  OBVIOUS
<1>6. \A m \in steer : St(reg, m) = "delivering" /\ Did(reg, m) = m /\ ~InRows(m)
  BY <1>1, NotInRows DEF OnceInv, WaitersBusy, Busy
<1>7. \A n \in N : n = row(n.id) /\ n.id \in steer /\ n.texts = {n.id}
  BY <1>5
<1> HIDE DEF row, N
<1>8. FreshRows(N)
  BY <1>1, <1>4, <1>6, <1>7 DEF FreshRows
<1> QED
  BY <1>1, <1>2, <1>8 DEF N, row

LEMMA BoundaryOnce ==
  ASSUME OnceInv, Boundary, UNCHANGED lost
  PROVE  OnceInv'
<1> DEFINE N == {[id |-> m, texts |-> {m}] : m \in steer \ RowIds}
<1>1. /\ turn.st = "running" /\ turn.due = {} /\ Extend(N) /\ turn' = [turn EXCEPT !.due = steer]
      /\ steer' = {} /\ UNCHANGED <<registry, staged, drain, humans>>
  BY DEF Boundary
<1>2. FreshRows(N) /\ steer \cap RowIds = {} /\ steer \subseteq Msg
  BY BoundaryRows
<1>3. /\ log' \subseteq Row /\ IsFiniteSet(log') /\ durable' \subseteq Msg
      /\ RowIds' = RowIds \cup {n.id : n \in N}
      /\ RegistryTyped'
      /\ RowsPlaced(reg)' /\ RowsPlaced(disk)' /\ RowsNamed' /\ RowsApart' /\ DeliveriesSaved'
  BY <1>1, <1>2, ExtendFacts
<1>4. RowIds' = RowIds \cup steer
  <2>1. \A m \in steer : [id |-> m, texts |-> {m}].id = m
    OBVIOUS
  <2>2. {n.id : n \in N} = steer \ RowIds
    BY <2>1
  <2> QED
    BY <1>2, <1>3, <2>2
<1>5. turn' = [st |-> "running", id |-> turn.id, stopped |-> turn.stopped, due |-> steer]
  BY <1>1, OthersNow DEF OthersTyped
<1>6. OthersTyped'
  BY <1>1, <1>2, <1>3, <1>5, OthersNow DEF OthersTyped
<1>7. Waits' = staged /\ Waits = staged \cup steer /\ Submits' = Submits /\ reg' = reg
      /\ load' = load /\ drain' = drain /\ Live' = Live
  BY <1>1, <1>5 DEF Waits, Submits, registry, Live
<1>8. staged \cap steer = {}
  BY WaitersApart
<1>9. WaitersBusy'
  BY <1>1, <1>4, <1>5, <1>7, <1>8 DEF OnceInv, WaitersBusy, Busy
<1>10. BatchBusy'
  BY <1>1, <1>4, <1>5, <1>7 DEF OnceInv, BatchBusy
<1>11. TurnBusy'
  BY <1>1, <1>5, <1>7 DEF OnceInv, TurnBusy, Busy
<1>12. load # "cold"
  BY <1>7 DEF OnceInv, ColdIsQuiet, Boundary
<1> QED
  BY <1>3, <1>6, <1>7, <1>9, <1>10, <1>11, <1>12, TypedPartsNext DEF OnceInv, ColdIsQuiet

LEMMA CrashOnce ==
  ASSUME OnceInv, Crash
  PROVE  OnceInv'
<1>1. /\ reg' = disk /\ disk' = disk /\ load' = "cold" /\ Fault
      /\ staged' = {} /\ steer' = {} /\ turn' = Idle /\ drain' = NoDrain
      /\ log' = {r \in log : r.id \in durable} /\ lost' = lost \cup UNION {r.texts : r \in log \ log'}
      /\ UNCHANGED <<durable, humans>>
  BY DEF Crash
<1>2. log' \subseteq log
  BY <1>1
<1>3. lost' \subseteq Msg
  BY <1>1, Parts, OthersNow DEF OthersTyped
<1>4. OthersTyped'
  BY <1>1, <1>2, <1>3, Parts, OthersNow, FS_Subset DEF OthersTyped, Idle, NoDrain
<1>5. RegistryTyped'
  BY <1>1, FaultBound, OthersNow DEF RegistryTyped, HoldKept
<1>6. RowsPlaced(reg)' /\ RowsPlaced(disk)' /\ RowsNamed' /\ RowsApart' /\ RowIds' \subseteq durable
  BY <1>1, <1>2 DEF OnceInv, RowsPlaced, RowsNamed, RowsApart, RowIds
<1>7. DeliveriesSaved'
  BY <1>1 DEF DeliveriesSaved
<1>8. Waits' = {} /\ ~Submits' /\ ~Live' /\ turn'.due = {} /\ turn'.st = "idle"
  BY <1>1 DEF Waits, Submits, Live, Idle, NoDrain
<1>9. WaitersBusy' /\ BatchBusy' /\ TurnBusy'
  BY <1>1, <1>8 DEF WaitersBusy, BatchBusy, TurnBusy
<1>10. ColdIsQuiet'
  BY <1>1, <1>6, <1>8 DEF ColdIsQuiet
<1> QED
  BY <1>4, <1>5, <1>6, <1>7, <1>9, <1>10, TypedPartsNext DEF OnceInv

-----------------------------------------------------------------------------
\* Nothing is lost

InDelivery(R, m) == St(R, m) \in {"delivering", "delivered"}
Alone(R, i, S)   == \A g \in Msg : InDelivery(R, g) /\ Did(R, g) = i => g \in S

\* What is delivered under the name of a message shares its fate.
Fates(R) ==
  \A g, f \in Msg : InDelivery(R, g) /\ Did(R, g) = f =>
    \/ St(R, f) \in {"delivered", "done"}
    \/ St(R, g) = "delivering" /\ St(R, f) = "delivering" /\ Did(R, f) = f

\* A row has all that is delivered under its name.
BatchInRow(R) ==
  \A r \in log : Alone(R, r.id, r.texts)

DoneIn(R) == \A m \in Msg : St(R, m) = "done" => InRows(m) \/ m \in lost

\* So will the rows that are to be written.
Solo(R) ==
  /\ \A m \in Waits : Alone(R, m, {m})
  /\ Submits => Alone(R, drain.id, drain.batch)
  /\ turn.st = "begun" => Alone(R, turn.id, Bound(turn.id))

Whole(R) == Fates(R) /\ BatchInRow(R) /\ DoneIn(R) /\ Solo(R)

\* The file knows a message that has been accepted, until it is withdrawn.
SavedAlike == \A m \in Msg : St(disk, m) \in {"new", "removed"} => St(reg, m) = St(disk, m)

KeptInv ==
  /\ Whole(reg) /\ Whole(disk) /\ SavedAlike
  /\ turn.due \subseteq RowIds /\ durable \subseteq RowIds

\* Whoever is in delivery after such a step was so before, in the same one.
LEMMA GentleFewer ==
  ASSUME OnceInv, KeptInv, Gentle
  PROVE  /\ \A g \in Msg : InDelivery(reg', g) => InDelivery(reg, g) /\ Did(reg', g) = Did(reg, g)
         /\ \A i, S : Alone(reg, i, S) => Alone(reg', i, S)
<1>1. \A g \in Msg : InDelivery(reg', g) => InDelivery(reg, g) /\ Did(reg', g) = Did(reg, g)
  BY DEF Gentle, LetGo, InDelivery, Same
<1> QED
  BY <1>1 DEF Alone

\* The messages of a turn that has begun stay as they are.
LEMMA GentleBegun ==
  ASSUME OnceInv, Gentle, turn.st = "begun"
  PROVE  \A m \in Bound(turn.id) : Same(m)
<1> SUFFICES ASSUME NEW m \in Bound(turn.id), ~Same(m) PROVE FALSE
  OBVIOUS
<1>1. m \in Msg /\ St(reg, m) = "delivering" /\ Did(reg, m) = turn.id
  BY DEF Bound, In, St, Did
<1>2. Live /\ turn.due = {}
  BY Parts DEF OnceInv, TurnBusy, WaitersBusy, Live
<1>3. m \in Waits \/ (Submits /\ m \in drain.batch)
  BY <1>1, <1>2 DEF Gentle, LetGo
<1>4. CASE m \in Waits
  BY <1>1, <1>2, <1>4 DEF OnceInv, WaitersBusy, TurnBusy, Busy
<1>5. CASE Submits /\ m \in drain.batch
  BY <1>1, <1>2, <1>5 DEF OnceInv, BatchBusy, TurnBusy
<1> QED
  BY <1>3, <1>4, <1>5

\* Who goes on works on all of its delivery still, in memory and on disk.
LEMMA GentleSolo ==
  ASSUME OnceInv, KeptInv, Gentle
  PROVE  /\ \A m \in Waits' : Alone(reg', m, {m}) /\ Alone(disk, m, {m})
         /\ Submits' => /\ Alone(reg', drain'.id, drain'.batch)
                        /\ Alone(disk, drain'.id, drain'.batch)
         /\ turn'.st = "begun" => /\ Alone(reg', turn'.id, Bound(turn.id)')
                                  /\ Alone(disk, turn'.id, Bound(turn.id)')
<1>1. \A m \in Waits' : Alone(reg', m, {m}) /\ Alone(disk, m, {m})
  BY GentleFewer DEF Gentle, Releases, KeptInv, Whole, Solo
<1>2. Submits' => /\ Alone(reg', drain'.id, drain'.batch)
                  /\ Alone(disk, drain'.id, drain'.batch)
  BY GentleFewer DEF Gentle, Releases, KeptInv, Whole, Solo
<1>3. ASSUME turn'.st = "begun"
      PROVE  Alone(reg', turn'.id, Bound(turn.id)') /\ Alone(disk, turn'.id, Bound(turn.id)')
  <2>1. turn.st = "begun" /\ turn'.id = turn.id
    BY <1>3 DEF Gentle, Releases
  <2>2. Alone(reg', turn.id, Bound(turn.id)) /\ Alone(disk, turn.id, Bound(turn.id))
    BY <2>1, GentleFewer DEF KeptInv, Whole, Solo
  <2>3. \A m \in Bound(turn.id) : m \in Bound(turn.id)'
    BY <2>1, GentleBegun DEF Bound, In, Same, St, Did
  <2> QED
    BY <2>1, <2>2, <2>3 DEF Alone
<1> QED
  BY <1>1, <1>2, <1>3

\* A message does not leave delivery before those that are named after it.
LEMMA GentleFates ==
  ASSUME OnceInv, KeptInv, Gentle
  PROVE  Fates(reg')
<1> SUFFICES ASSUME NEW g \in Msg, NEW f \in Msg, InDelivery(reg', g), Did(reg', g) = f,
                    St(reg', f) \notin {"delivered", "done"}
             PROVE  St(reg', g) = "delivering" /\ St(reg', f) = "delivering" /\ Did(reg', f) = f
  BY DEF Fates
<1>1. InDelivery(reg, g) /\ Did(reg, g) = f
  BY GentleFewer
<1>2. St(reg, f) \notin {"delivered", "done"}
  BY NotHeld DEF Gentle, LetGo, Same
<1>3. St(reg, g) = "delivering" /\ St(reg, f) = "delivering" /\ Did(reg, f) = f
  BY <1>1, <1>2 DEF KeptInv, Whole, Fates
<1>4. Same(f)
  <2> SUFFICES ASSUME ~Same(f) PROVE FALSE
    OBVIOUS
  <2>1. f \in Waits \/ (Submits /\ f \in drain.batch)
    BY <1>3 DEF Gentle, LetGo
  <2>2. CASE f \in Waits
    <3>1. g = f
      BY <1>1, <2>2 DEF KeptInv, Whole, Solo, Alone
    <3> QED
      BY <1>3, <2>1, <3>1 DEF Gentle, LetGo, InDelivery
  <2>3. CASE Submits /\ f \in drain.batch
    <3>1. drain.id = f
      BY <1>3, <2>3 DEF OnceInv, BatchBusy
    <3>2. g \in drain.batch
      BY <1>1, <2>3, <3>1 DEF KeptInv, Whole, Solo, Alone
    <3>3. St(reg', g) \in {"queued", "stuck"}
      BY <2>3, <3>2 DEF Gentle
    <3> QED
      BY <3>3 DEF InDelivery
  <2> QED
    BY <2>1, <2>2, <2>3
<1>5. St(reg', g) = "delivering"
  <2> SUFFICES ASSUME St(reg', g) = "delivered" PROVE FALSE
    BY DEF InDelivery
  <2>1. ~Same(g)
    BY <1>3 DEF Same
  <2>2. turn.id = f
    BY <1>1, <1>3, <2>1 DEF Gentle, LetGo
  <2> QED
    BY <2>1, <2>2 DEF Gentle
<1> QED
  BY <1>3, <1>4, <1>5 DEF Same

\* A receipt is dropped only of what has a row.
LEMMA GentleDone ==
  ASSUME OnceInv, KeptInv, Gentle
  PROVE  DoneIn(reg')
<1> SUFFICES ASSUME NEW m \in Msg, St(reg', m) = "done" PROVE InRows(m) \/ m \in lost
  BY DEF DoneIn
<1>1. CASE Same(m)
  BY <1>1 DEF Same, KeptInv, Whole, DoneIn
<1>2. CASE m \in turn.due
  BY <1>2 DEF KeptInv, OnceInv, RowsNamed, RowIds, InRows
<1>3. CASE St(reg, m) = "delivered" /\ Did(reg, m) \in durable
  <2>1. PICK r \in log : Did(reg, m) = r.id
    BY <1>3 DEF KeptInv, RowIds
  <2>2. m \in r.texts
    BY <1>3, <2>1 DEF KeptInv, Whole, BatchInRow, Alone, InDelivery
  <2> QED
    BY <2>2 DEF InRows
<1> QED
  BY <1>1, <1>2, <1>3 DEF Gentle, LetGo

\* Such a step keeps the second layer, whether or not it was saved.
LEMMA GentleKept ==
  ASSUME OnceInv, KeptInv, Gentle
  PROVE  KeptInv'
<1>1. log' = log /\ lost' = lost /\ disk' \in {disk, reg'} /\ RowIds' = RowIds
  BY DEF Gentle, RowIds
<1>2. Fates(reg') /\ Fates(disk)
  BY GentleFates DEF KeptInv, Whole
<1>3. DoneIn(reg') /\ DoneIn(disk)
  BY GentleDone DEF KeptInv, Whole
<1>4. BatchInRow(reg') /\ BatchInRow(disk)
  BY GentleFewer DEF BatchInRow, KeptInv, Whole
<1>5. Whole(reg)'
  BY <1>1, <1>2, <1>3, <1>4, GentleSolo DEF Whole, Fates, DoneIn, BatchInRow, Solo, InRows
<1>6. Whole(disk)'
  BY <1>1, <1>2, <1>3, <1>4, GentleSolo DEF Whole, Fates, DoneIn, BatchInRow, Solo, InRows
<1>7. SavedAlike'
  <2> SUFFICES ASSUME NEW m \in Msg, St(disk', m) \in {"new", "removed"}, disk' = disk
               PROVE  St(reg', m) = St(disk', m)
    BY <1>1 DEF SavedAlike
  <2>1. St(reg, m) = St(disk, m)
    BY DEF KeptInv, SavedAlike
  <2>2. CASE Same(m)
    BY <2>1, <2>2 DEF Same
  <2>3. CASE disk' = reg'
    BY <2>3
  <2> QED
    BY <2>1, <2>2, <2>3, NotHeld DEF Gentle, LetGo
<1>8. turn'.due \subseteq RowIds' /\ durable' \subseteq RowIds'
  BY <1>1 DEF KeptInv, Gentle, Releases
<1> QED
  BY <1>5, <1>6, <1>7, <1>8 DEF KeptInv

\* What is taken on was nobody's.
LEMMA ClaimKept ==
  ASSUME OnceInv, KeptInv, Claim
  PROVE  KeptInv'
<1>0. PICK S \in SUBSET Msg : \E f \in S : Claims(S, f)
  BY DEF Claim
<1>1. PICK f \in S : Claims(S, f)
  BY <1>0
<1>2. /\ disk' = reg' /\ turn' = turn /\ log' = log /\ durable' = durable /\ lost' = lost
      /\ \A x \in S : St(reg, x) \in {"new", "queued"} /\ St(reg', x) = "delivering" /\ Did(reg', x) = f
      /\ \A x \in Msg : x \notin S => Same(x)
  BY <1>1 DEF Claims
<1>3. \A x \in S : /\ x \notin RowIds /\ x \notin Waits
                   /\ Submits => x # drain.id
                   /\ Live => x # turn.id
  BY <1>2, FreshId DEF Past
<1>4. \A x \in S, g \in Msg : InDelivery(reg, g) => Did(reg, g) # x
  BY <1>2 DEF KeptInv, Whole, Fates
<1>5. \A i, T : i # f /\ Alone(reg, i, T) => Alone(reg', i, T)
  BY <1>2 DEF Alone, InDelivery, Same
<1>6. Alone(reg', f, S)
  BY <1>2, <1>4 DEF Alone, InDelivery, Same
<1>7. Fates(reg')
  <2> SUFFICES ASSUME NEW g \in Msg, NEW h \in Msg, InDelivery(reg', g), Did(reg', g) = h
               PROVE  \/ St(reg', h) \in {"delivered", "done"}
                      \/ St(reg', g) = "delivering" /\ St(reg', h) = "delivering" /\ Did(reg', h) = h
    BY DEF Fates
  <2>1. CASE g \in S
    BY <1>2, <2>1
  <2>2. CASE g \notin S
    <3>1. InDelivery(reg, g) /\ Did(reg, g) = h /\ St(reg', g) = St(reg, g)
      BY <1>2, <2>2 DEF InDelivery, Same
    <3>2. h \notin S
      BY <1>4, <3>1
    <3> QED
      BY <1>2, <3>1, <3>2 DEF KeptInv, Whole, Fates, Same
  <2> QED
    BY <2>1, <2>2
<1>8. BatchInRow(reg')
  BY <1>3, <1>5 DEF KeptInv, Whole, BatchInRow, RowIds
<1>9. DoneIn(reg')
  BY <1>2 DEF KeptInv, Whole, DoneIn, Same
<1>10. \A m \in Waits' : Alone(reg', m, {m})
  <2>1. \A m \in Waits : Alone(reg', m, {m})
    BY <1>3, <1>5 DEF KeptInv, Whole, Solo
  <2> QED
    BY <1>1, <1>6, <2>1 DEF Claims
<1>11. Submits' => Alone(reg', drain'.id, drain'.batch)
  <2>1. CASE drain' = drain
    BY <1>3, <1>5, <2>1 DEF KeptInv, Whole, Solo, Submits
  <2>2. CASE drain'.id = f /\ drain'.batch = S
    BY <1>6, <2>2
  <2> QED
    BY <1>1, <2>1, <2>2 DEF Claims
<1>12. turn'.st = "begun" => Alone(reg', turn'.id, Bound(turn.id)')
  <2> SUFFICES ASSUME turn.st = "begun" PROVE Alone(reg', turn.id, Bound(turn.id)')
    BY <1>2
  <2>1. Alone(reg', turn.id, Bound(turn.id))
    BY <1>3, <1>5 DEF KeptInv, Whole, Solo, OnceInv, TurnBusy, Live
  <2>2. \A m \in Bound(turn.id) : m \in Bound(turn.id)'
    BY <1>2 DEF Bound, In, Same, St, Did
  <2> QED
    BY <2>1, <2>2 DEF Alone
<1>13. Whole(reg)' /\ Whole(disk)'
  BY <1>2, <1>7, <1>8, <1>9, <1>10, <1>11, <1>12 DEF Whole, Fates, DoneIn, BatchInRow, Solo, InRows
<1>14. SavedAlike'
  BY <1>2 DEF SavedAlike
<1>15. turn'.due \subseteq RowIds' /\ durable' \subseteq RowIds'
  BY <1>2 DEF KeptInv, RowIds
<1> QED
  BY <1>13, <1>14, <1>15 DEF KeptInv

\* The batch of the drain becomes that of a turn.
LEMMA SubmitKept ==
  ASSUME OnceInv, KeptInv, Submit, lost' = lost
  PROVE  KeptInv'
<1>1. /\ Submits /\ turn.st = "idle" /\ reg' = reg /\ disk' = disk /\ log' = log /\ durable' = durable
      /\ Waits' = Waits /\ ~Submits'
      /\ \/ turn' = turn
         \/ turn'.id = drain.id /\ turn'.due = {}
  BY DEF Submit, Submits, registry, Waits, NoDrain
<1>2. drain.batch \subseteq Bound(drain.id)
  BY <1>1, Parts DEF OnceInv, BatchBusy, Bound, In, St, Did
<1>3. Alone(reg, drain.id, Bound(drain.id)) /\ Alone(disk, drain.id, Bound(drain.id))
  BY <1>1, <1>2 DEF KeptInv, Whole, Solo, Alone
<1>4. \A i : Bound(i)' = Bound(i)
  BY <1>1 DEF Bound, In
<1>5. turn'.st = "begun" => turn'.id = drain.id
  BY <1>1
<1>6. \A R : Whole(R) => Fates(R) /\ BatchInRow(R) /\ DoneIn(R) /\ \A m \in Waits : Alone(R, m, {m})
  BY DEF Whole, Solo
<1>7. Whole(reg)' /\ Whole(disk)'
  BY <1>1, <1>3, <1>4, <1>5, <1>6 DEF KeptInv, Whole, Fates, DoneIn, BatchInRow, Solo, InRows
<1>8. SavedAlike'
  BY <1>1 DEF KeptInv, SavedAlike
<1>9. turn'.due \subseteq RowIds' /\ durable' \subseteq RowIds'
  BY <1>1 DEF KeptInv, RowIds
<1> QED
  BY <1>7, <1>8, <1>9 DEF KeptInv

\* New rows, each with all that is in delivery under its name.
LEMMA ExtendKept ==
  ASSUME OnceInv, KeptInv, NEW N, FreshRows(N), Extend(N), UNCHANGED <<registry, lost, drain>>,
         \A n \in N : Alone(reg, n.id, n.texts) /\ Alone(disk, n.id, n.texts),
         Waits' \subseteq Waits, turn'.st # "begun", turn'.due \subseteq RowIds'
  PROVE  KeptInv'
<1>1. reg' = reg /\ disk' = disk /\ lost' = lost /\ drain' = drain /\ Submits' = Submits
  BY DEF registry, Submits
<1>2. /\ log \subseteq log' /\ durable' \in {durable, RowIds'}
      /\ \A m \in Msg : InRows(m) => InRows(m)'
  BY ExtendFacts
<1>3. \A r \in log' : r \in log \/ \E n \in N : r.id = n.id /\ r.texts = n.texts
  <2> DEFINE row(n) == [id |-> n.id, texts |-> n.texts, copy |-> Cardinality({r \in log : r.id = n.id})]
  <2>1. log' = log \cup {row(n) : n \in N}
    BY DEF Extend
  <2>2. \A n \in N : row(n).id = n.id /\ row(n).texts = n.texts
    OBVIOUS
  <2> HIDE DEF row
  <2> QED
    BY <2>1, <2>2
<1>4. \A R \in {reg, disk} : \A r \in log' : Alone(R, r.id, r.texts)
  BY <1>3 DEF KeptInv, Whole, BatchInRow
<1>5. \A R \in {reg, disk} : Fates(R) /\ (\A m \in Msg : St(R, m) = "done" => InRows(m)' \/ m \in lost)
  BY <1>2 DEF KeptInv, Whole, DoneIn
<1>6. \A R \in {reg, disk} : (\A m \in Waits' : Alone(R, m, {m})) /\ (Submits => Alone(R, drain.id, drain.batch))
  BY DEF KeptInv, Whole, Solo
<1>7. Whole(reg)' /\ Whole(disk)'
  BY <1>1, <1>4, <1>5, <1>6 DEF Whole, Fates, DoneIn, BatchInRow, Solo
<1>8. SavedAlike'
  BY <1>1 DEF KeptInv, SavedAlike
<1>9. durable' \subseteq RowIds'
  BY <1>2 DEF KeptInv, RowIds
<1> QED
  BY <1>7, <1>8, <1>9 DEF KeptInv

\* The row of a turn that has begun.
LEMMA CommitKept ==
  ASSUME OnceInv, KeptInv, Commit, lost' = lost
  PROVE  KeptInv'
<1> DEFINE N == {[id |-> turn.id, texts |-> Bound(turn.id)]}
<1>1. /\ turn.st = "begun" /\ Extend(N) /\ turn' = [turn EXCEPT !.st = "running"]
      /\ UNCHANGED <<registry, staged, steer, drain, humans>>
  BY DEF Commit
<1>2. FreshRows(N)
  BY <1>1, CommitRow
<1>3. \A n \in N : Alone(reg, n.id, n.texts) /\ Alone(disk, n.id, n.texts)
  BY <1>1 DEF KeptInv, Whole, Solo
<1>4. turn'.st = "running" /\ turn'.due = {} /\ Waits' = Waits
  BY <1>1, OthersNow, WaitersApart DEF OthersTyped, Waits
<1> HIDE DEF N
<1> QED
  BY <1>1, <1>2, <1>3, <1>4, ExtendKept

\* The rows of what waited for a boundary.
LEMMA BoundaryKept ==
  ASSUME OnceInv, KeptInv, Boundary, lost' = lost
  PROVE  KeptInv'
<1> DEFINE N == {[id |-> m, texts |-> {m}] : m \in steer \ RowIds}
<1>1. /\ turn.st = "running" /\ Extend(N) /\ turn' = [turn EXCEPT !.due = steer]
      /\ steer' = {} /\ UNCHANGED <<registry, staged, drain, humans>>
  BY DEF Boundary
<1>2. FreshRows(N) /\ steer \cap RowIds = {}
  BY BoundaryRows
<1>3. \A n \in N : n.id \in Waits /\ n.texts = {n.id}
  BY DEF Waits
<1>4. \A n \in N : Alone(reg, n.id, n.texts) /\ Alone(disk, n.id, n.texts)
  BY <1>3 DEF KeptInv, Whole, Solo
<1>5. turn'.st = "running" /\ turn'.due = steer /\ Waits' \subseteq Waits
  BY <1>1, OthersNow DEF OthersTyped, Waits
<1>6. RowIds' = RowIds \cup {n.id : n \in N}
  BY <1>1, <1>2, ExtendFacts
<1>7. steer \subseteq {n.id : n \in N}
  <2> SUFFICES ASSUME NEW m \in steer PROVE m \in {n.id : n \in N}
    OBVIOUS
  <2>1. [id |-> m, texts |-> {m}] \in N /\ [id |-> m, texts |-> {m}].id = m
    BY <1>2
  <2> QED
    BY <2>1
<1> HIDE DEF N
<1> QED
  BY <1>1, <1>2, <1>4, <1>5, <1>6, <1>7, ExtendKept

\* A crash takes only rows that were not flushed, and counts what was in them.
LEMMA CrashKept ==
  ASSUME OnceInv, KeptInv, Crash
  PROVE  KeptInv'
<1>1. /\ reg' = disk /\ disk' = disk /\ staged' = {} /\ steer' = {} /\ turn' = Idle /\ drain' = NoDrain
      /\ log' = {r \in log : r.id \in durable} /\ lost' = lost \cup UNION {r.texts : r \in log \ log'}
      /\ durable' = durable
  BY DEF Crash
<1>2. Fates(disk) /\ \A r \in log' : Alone(disk, r.id, r.texts)
  BY <1>1 DEF KeptInv, Whole, BatchInRow
<1>3. \A m \in Msg : InRows(m) => InRows(m)' \/ m \in lost'
  BY <1>1 DEF InRows
<1>4. \A m \in Msg : St(disk, m) = "done" => InRows(m)' \/ m \in lost'
  BY <1>1, <1>3 DEF KeptInv, Whole, DoneIn
<1>5. Waits' = {} /\ ~Submits' /\ turn'.st = "idle" /\ turn'.due = {}
  BY <1>1 DEF Waits, Submits, Idle, NoDrain
<1>6. Whole(reg)' /\ Whole(disk)'
  BY <1>1, <1>2, <1>4, <1>5 DEF Whole, Fates, DoneIn, BatchInRow, Solo
<1>7. SavedAlike'
  BY <1>1 DEF SavedAlike
<1>8. durable' \subseteq RowIds'
  BY <1>1 DEF KeptInv, RowIds
<1> QED
  BY <1>5, <1>6, <1>7, <1>8 DEF KeptInv

\* A delivery is found to be made or not: all of a row at once.
LEMMA LoadKept ==
  ASSUME OnceInv, KeptInv, Load
  PROVE  KeptInv'
<1>1. /\ load = "cold" /\ reg' = Reconciled /\ disk' \in {disk, reg'}
      /\ UNCHANGED <<staged, steer, turn, drain, log, durable, lost>>
  BY DEF Load
<1>2. \A m \in Msg :
        IF St(disk, m) = "delivering"
        THEN IF Did(disk, m) \in durable
             THEN St(reg', m) = "delivered" /\ Did(reg', m) = Did(disk, m)
             ELSE St(reg', m) = "queued"
        ELSE St(reg', m) = St(disk, m) /\ Did(reg', m) = Did(disk, m)
  BY <1>1, Parts, OthersNow, ReconciledFacts DEF RegistryTyped
<1>3. reg = disk /\ Waits = {} /\ ~Submits /\ ~Live
  BY <1>1 DEF OnceInv, ColdIsQuiet
<1>4. turn.st # "begun"
  BY <1>3 DEF OnceInv, TurnBusy, Live
<1>5. \A g \in Msg : InDelivery(reg', g) => InDelivery(disk, g) /\ Did(reg', g) = Did(disk, g)
  BY <1>2 DEF InDelivery
<1>6. Fates(reg')
  <2> SUFFICES ASSUME NEW g \in Msg, NEW f \in Msg, InDelivery(reg', g), Did(reg', g) = f
               PROVE  St(reg', f) \in {"delivered", "done"}
    BY DEF Fates
  <2>1. InDelivery(disk, g) /\ Did(disk, g) = f
    BY <1>5
  <2>2. CASE St(disk, f) \in {"delivered", "done"}
    BY <1>2, <2>2
  <2>3. CASE St(disk, g) = "delivering" /\ St(disk, f) = "delivering" /\ Did(disk, f) = f
    BY <1>2, <2>1, <2>3 DEF InDelivery
  <2> QED
    BY <2>1, <2>2, <2>3 DEF KeptInv, Whole, Fates
<1>7. BatchInRow(reg') /\ BatchInRow(disk) /\ Fates(disk)
  BY <1>5 DEF KeptInv, Whole, BatchInRow, Alone
<1>8. DoneIn(reg') /\ DoneIn(disk)
  BY <1>2 DEF KeptInv, Whole, DoneIn
<1>9. Waits' = {} /\ ~Submits' /\ turn'.st # "begun"
  BY <1>1, <1>3, <1>4 DEF Waits, Submits
<1>10. Whole(reg)' /\ Whole(disk)'
  BY <1>1, <1>6, <1>7, <1>8, <1>9 DEF Whole, Fates, DoneIn, BatchInRow, Solo, InRows
<1>11. SavedAlike'
  BY <1>1, <1>2 DEF SavedAlike
<1>12. turn'.due \subseteq RowIds' /\ durable' \subseteq RowIds'
  BY <1>1 DEF KeptInv, RowIds
<1> QED
  BY <1>10, <1>11, <1>12 DEF KeptInv

\* Every step keeps the second layer.
LEMMA KeptStep == OnceInv /\ KeptInv /\ [InboxNext]_inboxVars => KeptInv'
<1> SUFFICES ASSUME OnceInv, KeptInv, [InboxNext]_inboxVars PROVE KeptInv'
  OBVIOUS
<1>1. CASE UNCHANGED inboxVars
  <2>1. UNCHANGED <<registry, staged, steer, turn, drain, log, durable, humans, lost>> /\ NoFault
    BY <1>1 DEF inboxVars, registry, NoFault
  <2> QED
    BY <2>1, FaultOnce, GentleKept
<1>2. ASSUME UNCHANGED lost,
             NEW m \in Msg, Enqueue(m) \/ Stage(m) \/ Push(m) \/ SteerQueued(m) \/ Withdraw(m) \/ Acknowledge(m)
      PROVE  KeptInv'
  BY <1>2, EnqueueOnce, StageOnce, PushOnce, SteerQueuedOnce, WithdrawOnce, AcknowledgeOnce, GentleKept, ClaimKept
<1>3. ASSUME UNCHANGED lost, Resume \/ Poll \/ Take \/ Skip \/ Submit \/ Refuse \/ CatchUp
      PROVE  KeptInv'
  BY <1>3, ResumeOnce, PollOnce, TakeOnce, SubmitKept, RefuseOnce, GentleKept, ClaimKept
<1>4. ASSUME UNCHANGED lost, HumanTurn \/ Commit \/ Boundary \/ Receipt \/ Stop \/ End
      PROVE  KeptInv'
  BY <1>4, HumanTurnOnce, CommitKept, BoundaryKept, ReceiptOnce, StopOnce, EndOnce, GentleKept
<1>5. ASSUME UNCHANGED lost, SettleStep
      PROVE  KeptInv'
  BY <1>5, SettleDeliveryOnce, EndOnce, SettleQueueOnce, SettleSteerOnce, GentleKept DEF SettleStep
<1> QED
  BY <1>1, <1>2, <1>3, <1>4, <1>5, CrashKept, LoadKept, MendOnce, GentleKept DEF InboxNext

\* And it holds at first, when there is no message.
LEMMA KeptInitial == InboxInit => KeptInv
<1> SUFFICES ASSUME InboxInit PROVE KeptInv
  OBVIOUS
<1>1. \A m \in Msg : St(reg, m) = "new"
  BY DEF InboxInit, St
<1>2. disk = reg /\ log = {} /\ durable = {}
  BY DEF InboxInit
<1>3. turn.due = {} /\ turn.st = "idle" /\ Waits = {} /\ ~Submits
  BY DEF InboxInit, Waits, Submits, Idle, NoDrain
<1> QED
  BY <1>1, <1>2, <1>3 DEF KeptInv, Whole, Fates, DoneIn, BatchInRow, Solo, SavedAlike, InDelivery

-----------------------------------------------------------------------------
\* The theorems

LEMMA OnceInitial == InboxInit => OnceInv
<1> SUFFICES ASSUME InboxInit PROVE OnceInv
  OBVIOUS
<1> DEFINE blank == [st |-> "new", did |-> NoId, tries |-> 0]
           f == [m \in Msg |-> blank]
<1>1. reg = [item |-> f, paused |-> FALSE] /\ disk = reg
  BY DEF InboxInit
<1>2. blank \in Item
  BY NewItem, InboxAssumption DEF States, MaybeId
<1>3. f \in [Msg -> Item]
  BY <1>2
<1>4. reg \in Registry
  BY <1>1, <1>3, NewRegistry
<1>5. \A m \in Msg : St(reg, m) = "new" /\ reg.item[m].tries = 0
  BY <1>1 DEF St
<1>6. Good(reg) /\ Good(disk)
  BY <1>1, <1>4, <1>5, InboxAssumption DEF Good
<1>7. OthersTyped
  BY InboxAssumption, FS_EmptySet DEF InboxInit, OthersTyped, Idle, NoDrain, MaybeId
<1>8. RegistryTyped
  BY <1>1, <1>6, InboxAssumption DEF RegistryTyped, HoldKept, InboxInit
<1>9. RowsPlaced(reg) /\ RowsPlaced(disk) /\ RowsNamed /\ RowsApart
  BY DEF InboxInit, RowsPlaced, RowsNamed, RowsApart
<1>10. DeliveriesSaved /\ ColdIsQuiet
  BY <1>5 DEF InboxInit, DeliveriesSaved, ColdIsQuiet
<1>11. Waits = {} /\ turn.due = {} /\ ~Submits /\ ~Live /\ turn.st = "idle"
  BY DEF InboxInit, Waits, Submits, Live, Idle, NoDrain
<1>12. WaitersBusy /\ BatchBusy /\ TurnBusy
  BY <1>11 DEF WaitersBusy, BatchBusy, TurnBusy, InboxInit
<1> QED
  BY <1>7, <1>8, <1>9, <1>10, <1>12, TypedParts DEF OnceInv

LEMMA OnceStep == OnceInv /\ [InboxNext]_inboxVars => OnceInv'
<1> SUFFICES ASSUME OnceInv, [InboxNext]_inboxVars PROVE OnceInv'
  OBVIOUS
<1>1. CASE UNCHANGED inboxVars
  <2>1. UNCHANGED <<registry, staged, steer, turn, drain, log, durable, humans, lost>> /\ NoFault
    BY <1>1 DEF inboxVars, registry, NoFault
  <2> QED
    BY <2>1, FaultOnce
<1>2. ASSUME UNCHANGED lost,
             NEW m \in Msg, Enqueue(m) \/ Stage(m) \/ Push(m) \/ SteerQueued(m) \/ Withdraw(m) \/ Acknowledge(m)
      PROVE  OnceInv'
  BY <1>2, EnqueueOnce, StageOnce, PushOnce, SteerQueuedOnce, WithdrawOnce, AcknowledgeOnce
<1>3. ASSUME UNCHANGED lost, Resume \/ Poll \/ Take \/ Skip \/ Submit \/ Refuse \/ CatchUp
      PROVE  OnceInv'
  BY <1>3, ResumeOnce, PollOnce, TakeOnce, SubmitOnce, RefuseOnce
<1>4. ASSUME UNCHANGED lost, HumanTurn \/ Commit \/ Boundary \/ Receipt \/ Stop \/ End
      PROVE  OnceInv'
  BY <1>4, HumanTurnOnce, CommitOnce, BoundaryOnce, ReceiptOnce, StopOnce, EndOnce
<1>5. ASSUME UNCHANGED lost, SettleStep
      PROVE  OnceInv'
  BY <1>5, SettleDeliveryOnce, EndOnce, SettleQueueOnce, SettleSteerOnce DEF SettleStep
<1> QED
  BY <1>1, <1>2, <1>3, <1>4, <1>5, CrashOnce, LoadOnce, MendOnce DEF InboxNext

\* Everything below follows from one inductive invariant: who works on a message
\* has it in delivery, alone, and the rows are of messages past the queue.
THEOREM InboxInvariant == InboxSpec => []OnceInv
<1>1. InboxInit => OnceInv
  BY OnceInitial
<1>2. OnceInv /\ [InboxNext]_inboxVars => OnceInv'
  BY OnceStep
<1> QED
  BY <1>1, <1>2, PTL DEF InboxSpec

\* The registry, its file, the turn and the drain keep their shapes, and no
\* message is tried more often than the limit (_requeue_failed).
THEOREM InboxTypeCorrect == InboxSpec => []InboxTypeOK
<1>1. OnceInv => InboxTypeOK
  BY DEF OnceInv, Typed
<1> QED
  BY <1>1, InboxInvariant, PTL

\* No message is given to the model twice, by the drain, at a boundary, after a
\* refusal or after a restart.
THEOREM GivenOnce == InboxSpec => []EntersOnce
<1>1. OnceInv => EntersOnce
  <2> SUFFICES ASSUME OnceInv, NEW m \in Msg PROVE Cardinality(Entered(m)) <= 1
    BY DEF EntersOnce
  <2>1. \A r, q \in Entered(m) : r = q
    BY DEF OnceInv, RowsApart, Entered
  <2>2. CASE Entered(m) = {}
    BY <2>2, FS_EmptySet
  <2>3. ASSUME NEW r \in Entered(m) PROVE Cardinality(Entered(m)) <= 1
    <3>1. Entered(m) = {r}
      BY <2>1
    <3> QED
      BY <3>1, FS_Singleton
  <2> QED
    BY <2>2, <2>3
<1> QED
  BY <1>1, InboxInvariant, PTL

\* The second layer: what the file, the rows and those who work on a message
\* know of it agrees, so that a receipt is dropped only of what has a row.
THEOREM InboxKeeps == InboxSpec => []KeptInv
<1>1. InboxInit => KeptInv
  BY KeptInitial
<1>2. OnceInv /\ KeptInv /\ [InboxNext]_inboxVars => KeptInv'
  BY KeptStep
<1> QED
  BY <1>1, <1>2, InboxInvariant, PTL DEF InboxSpec

\* An accepted message is in the inbox file or in the conversation until it is
\* withdrawn; only a crash that finds the flush of its row undone takes it away.
THEOREM NothingElseLost == InboxSpec => []LostOnlyUnflushed
<1>1. OnceInv /\ KeptInv => LostOnlyUnflushed
  <2> SUFFICES ASSUME OnceInv, KeptInv, NEW m \in Msg, reg.item[m].st \notin {"new", "removed"}
               PROVE  Kept(m) \/ Entered(m) # {} \/ m \in lost
    BY DEF LostOnlyUnflushed
  <2>1. St(disk, m) \in States
    BY Parts, RegistryParts DEF Good
  <2>2. St(disk, m) \notin {"new", "removed"}
    BY DEF KeptInv, SavedAlike, St
  <2>3. CASE St(disk, m) = "done"
    <3>1. InRows(m) \/ m \in lost
      BY <2>3 DEF KeptInv, Whole, DoneIn
    <3> QED
      BY <3>1 DEF InRows, Entered
  <2>4. CASE St(disk, m) # "done"
    BY <2>1, <2>2, <2>4 DEF States, Kept, St
  <2> QED
    BY <2>3, <2>4
<1> QED
  BY <1>1, InboxInvariant, InboxKeeps, PTL

\* While the file says that the queue is stopped no batch is taken from it:
\* memory never forgets a hold that is on disk (pause_queue, _resume).
THEOREM HoldIsKept == InboxSpec => StopHolds
<1> DEFINE Held == disk.paused /\ drain.st = "scheduled" => drain'.st # "submitting"
<1>1. OnceInv /\ [InboxNext]_inboxVars => [Held]_inboxVars
  <2> SUFFICES ASSUME OnceInv, InboxNext, disk.paused, drain.st = "scheduled"
               PROVE  drain'.st # "submitting"
    OBVIOUS
  <2>1. reg.paused
    BY DEF OnceInv, Typed, HoldKept
  <2>2. ASSUME Schedule PROVE drain' = drain
    BY <2>2 DEF Schedule
  <2>3. ASSUME NEW m \in Msg, Enqueue(m) \/ Stage(m) \/ Push(m) \/ SteerQueued(m) \/ Withdraw(m) \/ Acknowledge(m)
        PROVE  drain' = drain
    BY <2>3 DEF Enqueue, Stage, Push, SteerQueued, Withdraw, Acknowledge
  <2>4. ASSUME Resume \/ Poll \/ Take \/ Skip \/ Submit \/ Refuse \/ CatchUp
        PROVE  drain' = drain \/ drain' = NoDrain
    BY <2>1, <2>2, <2>4 DEF Resume, Poll, Take, Skip, Submit, Refuse, CatchUp
  <2>5. ASSUME HumanTurn \/ Commit \/ Boundary \/ Receipt \/ Stop \/ End
        PROVE  drain' = drain
    BY <2>5 DEF HumanTurn, Commit, Boundary, Receipt, Stop, End
  <2>6. ASSUME SettleStep PROVE drain' = drain
    BY <2>2, <2>6 DEF SettleStep, SettleDelivery, SettleFails, SettleQueue, SettleSteer
  <2>7. ASSUME Crash \/ Load \/ Mend PROVE drain' = drain \/ drain' = NoDrain
    BY <2>7 DEF Crash, Load, Mend
  <2>8. drain' = drain \/ drain' = NoDrain
    BY <2>3, <2>4, <2>5, <2>6, <2>7 DEF InboxNext
  <2> QED
    BY <2>8 DEF NoDrain
<1> QED
  BY <1>1, InboxInvariant, PTL DEF InboxSpec, StopHolds
=============================================================================
