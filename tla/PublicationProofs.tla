-------------------------- MODULE PublicationProofs --------------------------
(***************************************************************************)
(* Proofs about Publication: it implements AtomicPublication, for any set  *)
(* of files and contents and any number of crashes, failing operations,    *)
(* edits and heads.                                                        *)
(*                                                                         *)
(* The argument: while a journal says "applying", what it keeps of the     *)
(* files is what the work started from (UnfinishedIsPinned), and as long   *)
(* as somebody publishes, each file of the work is as it was or as it will *)
(* be.  Then no write and no undo is visible, and the commit is the one    *)
(* step in which all of them appear.  Where nobody edits, the checkout is  *)
(* besides the base of the work until it is published (Settled).           *)
(***************************************************************************)
EXTENDS Publication, TLAPS

\* Only complete work is published, and working outdates a receipt.
Apart == (pub # Idle => phase = "completed") /\ (phase # "completed" => applied = 0)

\* Under the locks a file of the work has one of two contents.
Between ==
  pub.step \in {"write", "undo"} =>
    Applying /\ \A f \in Changed : target[f] = expected[f] \/ target[f] = after[f]

\* What is written, and what a first attempt has left to write.
Written ==
  pub.step = "write" =>
    /\ pub.left \subseteq Changed
    /\ \A f \in Changed \ pub.left : target[f] = after[f]
    /\ ~pub.recovering => \A f \in pub.left : target[f] = expected[f]

\* What is restored.
Restored ==
  pub.step = "undo" =>
    /\ pub.undo \subseteq Changed
    /\ \A f \in Changed \ pub.undo : target[f] = expected[f]

PubInv == PublicationTypeOK /\ UnfinishedIsPinned /\ Apart /\ Between /\ Written /\ Restored

JournalType == [state : {"none", "applying", "rolled_back", "applied"}, head : Nat,
                before : [File -> Content]]
PubType     == [step : {"idle", "write", "undo", "receipt"}, left : SUBSET File,
                undo : SUBSET File, recovering : BOOLEAN]

-----------------------------------------------------------------------------
\* Facts about the two records.
LEMMA IdleIsPub ==
  /\ Idle \in PubType /\ Idle.step = "idle"
<1>1. Idle \in PubType
  BY Zenon DEF Idle, PubType
<1> QED  BY <1>1 DEF Idle

LEMMA JournalState ==
  ASSUME NEW j \in JournalType, NEW s \in {"none", "applying", "rolled_back", "applied"}
  PROVE  /\ [j EXCEPT !.state = s] \in JournalType
         /\ [j EXCEPT !.state = s].state = s
         /\ [j EXCEPT !.state = s].head = j.head
         /\ [j EXCEPT !.state = s].before = j.before
  BY DEF JournalType

LEMMA NewJournal ==
  ASSUME NEW n \in Nat, NEW b \in [File -> Content]
  PROVE  [state |-> "applying", head |-> n, before |-> b] \in JournalType
  BY DEF JournalType

LEMMA NewPub ==
  ASSUME NEW s \in {"idle", "write", "undo", "receipt"}, NEW l \in SUBSET File,
         NEW u \in SUBSET File, NEW r \in BOOLEAN
  PROVE  [step |-> s, left |-> l, undo |-> u, recovering |-> r] \in PubType
  BY Zenon DEF PubType

LEMMA PubParts ==
  ASSUME NEW p \in PubType
  PROVE  /\ p.step \in {"idle", "write", "undo", "receipt"}
         /\ p.left \in SUBSET File /\ p.undo \in SUBSET File /\ p.recovering \in BOOLEAN
         /\ p = [step |-> p.step, left |-> p.left, undo |-> p.undo, recovering |-> p.recovering]
  BY Zenon DEF PubType

LEMMA JournalParts ==
  ASSUME NEW j \in JournalType
  PROVE  /\ j.state \in {"none", "applying", "rolled_back", "applied"}
         /\ j.head \in Nat /\ j.before \in [File -> Content]
  BY DEF JournalType

\* The parts of the type invariant.
LEMMA TypeParts ==
  PublicationTypeOK <=>
    /\ target \in [File -> Content] /\ base \in [File -> Content]
    /\ expected \in [File -> Content] /\ after \in [File -> Content]
    /\ head \in Nat \ {0} /\ applied \in {0, head}
    /\ phase \in {"works", "completed", "interrupted"} /\ dirty \in BOOLEAN
    /\ journal \in JournalType /\ pub \in PubType
    /\ blurred \in BOOLEAN /\ edits \in Nat /\ faults \in Nat
  BY DEF PublicationTypeOK, JournalType, PubType

LEMMA TypePartsNext ==
  PublicationTypeOK' <=>
    /\ target' \in [File -> Content] /\ base' \in [File -> Content]
    /\ expected' \in [File -> Content] /\ after' \in [File -> Content]
    /\ head' \in Nat \ {0} /\ applied' \in {0, head'}
    /\ phase' \in {"works", "completed", "interrupted"} /\ dirty' \in BOOLEAN
    /\ journal' \in JournalType /\ pub' \in PubType
    /\ blurred' \in BOOLEAN /\ edits' \in Nat /\ faults' \in Nat
  BY DEF PublicationTypeOK, JournalType, PubType

-----------------------------------------------------------------------------
\* The invariant holds at first, and every step preserves it.
LEMMA PubInitial ==
  ASSUME PublicationInit
  PROVE  PubInv
<1>1. journal \in JournalType
  BY CheckoutAssumption DEF PublicationInit, JournalType
<1>2. journal.state = "none"
  BY DEF PublicationInit
<1>3. PublicationTypeOK
  <2>1. /\ target \in [File -> Content] /\ base \in [File -> Content]
        /\ expected \in [File -> Content] /\ after \in [File -> Content] /\ pub \in PubType
    BY IdleIsPub, CheckoutAssumption DEF PublicationInit
  <2>2. phase \in {"works", "completed", "interrupted"}
    BY DEF PublicationInit
  <2>3. dirty \in BOOLEAN /\ blurred \in BOOLEAN
    BY Zenon DEF PublicationInit
  <2>4. head \in Nat \ {0} /\ applied \in {0, head} /\ edits \in Nat /\ faults \in Nat
    BY DEF PublicationInit
  <2> QED  BY <1>1, <2>1, <2>2, <2>3, <2>4, TypeParts
<1>4. pub = Idle /\ pub.step = "idle" /\ applied = 0
  BY IdleIsPub DEF PublicationInit
<1> QED  BY <1>2, <1>3, <1>4 DEF PubInv, UnfinishedIsPinned, Apart, Between, Written, Restored

LEMMA FaultNat ==
  ASSUME PubInv, Fault \/ UNCHANGED faults
  PROVE  faults' \in Nat
  BY TypeParts DEF PubInv, Fault

\* What preparing leaves: hashes and a base of the right shape, no receipt.
LEMMA PreparedFacts ==
  ASSUME PubInv, NEW tree \in [File -> Content], Prepared(tree)
  PROVE  /\ base' \in [File -> Content] /\ expected' \in [File -> Content]
         /\ blurred' \in BOOLEAN /\ applied' = 0
<1>1. /\ base \in [File -> Content] /\ after \in [File -> Content]
      /\ expected \in [File -> Content] /\ blurred \in BOOLEAN /\ applied \in {0, head}
  BY TypeParts DEF PubInv
<1>2. CASE applied = head \/ Applied
  BY <1>1, <1>2 DEF Prepared
<1>3. CASE ~(applied = head \/ Applied)
  BY <1>1, <1>3 DEF Prepared
<1> QED  BY <1>2, <1>3

\* Between publications only the shapes and the receipt matter.
LEMMA Unpublished ==
  ASSUME PublicationTypeOK', pub' = Idle, journal'.state # "applying",
         phase' # "completed" => applied' = 0
  PROVE  PubInv'
  BY IdleIsPub DEF PubInv, UnfinishedIsPinned, Apart, Between, Written, Restored

LEMMA CollectedFacts ==
  ASSUME PubInv, Collected
  PROVE  after' \in [File -> Content] /\ head' \in Nat \ {0} /\ dirty' \in BOOLEAN
<1>1. head \in Nat \ {0}
  BY TypeParts DEF PubInv
<1>2. head' \in Nat \ {0}
  BY <1>1 DEF Collected
<1>3. after' \in [File -> Content] /\ dirty' \in BOOLEAN
  BY Zenon DEF Collected
<1> QED  BY <1>2, <1>3

\* Steps of the agent between publications.
LEMMA WorksPreserves ==
  ASSUME PubInv, Collect \/ Recover
  PROVE  PubInv'
<1>1. phase = "works" /\ UNCHANGED <<target, journal, pub, edits>>
  BY DEF Collect, Recover
<1>2. PublicationTypeOK /\ pub = Idle /\ journal.state # "applying" /\ applied = 0
  BY <1>1 DEF PubInv, Apart, UnfinishedIsPinned
<1>3. faults' \in Nat
  BY FaultNat DEF Collect, Recover
<1>4. phase' \in {"works", "completed", "interrupted"}
  BY DEF Collect, Recover
<1>5. CASE Collect
  <2>1. Collected /\ UNCHANGED <<base, expected, applied, blurred>>
    BY <1>5 DEF Collect
  <2>2. after' \in [File -> Content] /\ head' \in Nat \ {0} /\ dirty' \in BOOLEAN
    BY <2>1, CollectedFacts
  <2>3. PublicationTypeOK'
    BY <1>1, <1>2, <1>3, <1>4, <2>1, <2>2, TypeParts, TypePartsNext
  <2> QED  BY <1>1, <1>2, <2>1, <2>3, Unpublished
<1>6. CASE Collected /\ Prepared(after')
  <2>1. after' \in [File -> Content] /\ head' \in Nat \ {0} /\ dirty' \in BOOLEAN
    BY <1>6, CollectedFacts
  <2>2. /\ base' \in [File -> Content] /\ expected' \in [File -> Content]
        /\ blurred' \in BOOLEAN /\ applied' = 0
    <3>1. /\ base \in [File -> Content] /\ after \in [File -> Content]
          /\ expected \in [File -> Content] /\ blurred \in BOOLEAN
      BY <1>2, TypeParts
    <3> QED  BY <1>2, <1>6, <2>1, <3>1 DEF Prepared
  <2>3. PublicationTypeOK'
    BY <1>1, <1>2, <1>3, <1>4, <2>1, <2>2, TypeParts, TypePartsNext
  <2> QED  BY <1>1, <1>2, <2>2, <2>3, Unpublished
<1>7. CASE dirty' = TRUE /\ UNCHANGED artifact
  <2>1. PublicationTypeOK'
    BY <1>1, <1>2, <1>3, <1>4, <1>7, TypeParts, TypePartsNext DEF artifact
  <2> QED  BY <1>1, <1>2, <1>7, <2>1, Unpublished DEF artifact
<1> QED  BY <1>5, <1>6, <1>7 DEF Recover

LEMMA ResumePreserves ==
  ASSUME PubInv, Resume
  PROVE  PubInv'
<1>1. /\ pub = Idle /\ journal.state # "applying" /\ phase' = "works"
      /\ UNCHANGED <<target, after, head, dirty, journal, pub, edits, faults>>
  BY DEF Resume
<1>2. PICK tree \in [File -> Content] : Prepared(tree)
  BY DEF Resume
<1>3. /\ base' \in [File -> Content] /\ expected' \in [File -> Content]
      /\ blurred' \in BOOLEAN /\ applied' = 0
  BY <1>2, PreparedFacts
<1>4. PublicationTypeOK'
  BY <1>1, <1>3, TypeParts, TypePartsNext DEF PubInv
<1> QED  BY <1>1, <1>3, <1>4, Unpublished

LEMMA NoteAppliedPreserves ==
  ASSUME PubInv, NoteApplied
  PROVE  PubInv'
<1>1. /\ phase = "completed" /\ pub = Idle /\ journal.state = "applied" /\ applied' = head
      /\ UNCHANGED <<target, base, expected, after, head, blurred, agent, journal, pub, edits, faults>>
  BY DEF NoteApplied, Applied
<1>2. PublicationTypeOK'
  BY <1>1, TypeParts, TypePartsNext DEF PubInv, agent
<1> QED  BY <1>1, <1>2, Unpublished DEF agent

LEMMA BeginPreserves ==
  ASSUME PubInv, Begin
  PROVE  PubInv'
<1> DEFINE b == IF Applying THEN journal.before ELSE target
<1>1. /\ phase = "completed" /\ pub = Idle
      /\ journal.state = "applying" => journal.head = head
      /\ \A f \in Changed : Unchanged(f)
      /\ journal' = [state |-> "applying", head |-> head, before |-> b]
      /\ pub' = [step |-> "write", left |-> Changed, undo |-> {}, recovering |-> Applying]
      /\ UNCHANGED <<target, artifact, agent, edits, faults>>
  BY DEF Begin
<1>2. PublicationTypeOK /\ Changed \subseteq File /\ Applying \in BOOLEAN
  BY DEF PubInv, Changed, Applying
<1>3. b \in [File -> Content]
  BY <1>2, TypeParts, JournalParts
<1>4. Changed' = Changed
  BY <1>1 DEF artifact, Changed
<1>5. journal' \in JournalType /\ pub' \in PubType
  BY <1>1, <1>2, <1>3, NewJournal, NewPub, TypeParts
<1>6. PublicationTypeOK'
  BY <1>1, <1>2, <1>5, TypeParts, TypePartsNext DEF artifact, agent
<1>7. journal'.state = "applying" /\ journal'.head = head /\ journal'.before = b
  BY <1>1
<1>8. pub'.step = "write" /\ pub'.left = Changed /\ pub'.recovering = Applying
  BY <1>1
<1>9. ~Applying => \A f \in Changed : target[f] = expected[f]
  BY <1>1 DEF Unchanged
<1>10. UnfinishedIsPinned'
  BY <1>1, <1>4, <1>7, <1>9 DEF PubInv, UnfinishedIsPinned, artifact, agent, Applying
<1>11. Apart'
  BY <1>1, <1>8 DEF Apart, agent
<1>12. Between'
  BY <1>1, <1>4, <1>7, <1>8 DEF Between, Unchanged, Applying, artifact
<1>13. Written'
  BY <1>1, <1>4, <1>8, <1>9 DEF Written, artifact
<1>14. Restored'
  BY <1>8 DEF Restored
<1> QED  BY <1>6, <1>10, <1>11, <1>12, <1>13, <1>14 DEF PubInv

\* Steps that leave the artifact, the journal and the agent alone.
LEMMA FilesOnly ==
  ASSUME PubInv, UNCHANGED <<artifact, agent, journal, edits>>,
         target' \in [File -> Content], pub' \in PubType, faults' \in Nat,
         pub.step # "idle", Between', Written', Restored'
  PROVE  PubInv'
<1>1. PublicationTypeOK'
  BY TypeParts, TypePartsNext DEF PubInv, artifact, agent
<1>2. UnfinishedIsPinned' /\ Apart'
  BY IdleIsPub DEF PubInv, UnfinishedIsPinned, Apart, Changed, artifact, agent
<1> QED  BY <1>1, <1>2 DEF PubInv

LEMMA WritePreserves ==
  ASSUME PubInv, NEW f \in File, Write(f)
  PROVE  PubInv'
<1>1. /\ pub.step = "write" /\ f \in pub.left
      /\ UNCHANGED <<artifact, agent, journal, edits>>
  BY DEF Write
<1>2. PublicationTypeOK /\ pub \in PubType /\ f \in Changed /\ Changed \subseteq File
  BY <1>1, TypeParts DEF PubInv, Written, Changed
<1>3. Changed' = Changed /\ Applying' = Applying
  BY <1>1 DEF Changed, artifact, Applying
<1>4. faults' \in Nat
  BY FaultNat DEF Write
<1>5. \/ target' = [target EXCEPT ![f] = after[f]]
      \/ target' = target
  BY DEF Write
<1>6. /\ target' \in [File -> Content]
      /\ \A g \in File : g # f => target'[g] = target[g]
      /\ target'[f] = target[f] \/ target'[f] = after[f]
  BY <1>2, <1>5, TypeParts
<1>7. /\ Applying
      /\ \A g \in Changed : target'[g] = expected[g] \/ target'[g] = after[g]
  BY <1>1, <1>2, <1>6 DEF PubInv, Between
<1>8. CASE /\ target' = [target EXCEPT ![f] = after[f]]
           /\ pub' = [pub EXCEPT !.left = @ \ {f}]
  <2>1. /\ pub' \in PubType /\ pub'.step = "write" /\ pub'.left = pub.left \ {f}
        /\ pub'.recovering = pub.recovering
    <3>1. pub' = [step |-> pub.step, left |-> pub.left \ {f}, undo |-> pub.undo,
                  recovering |-> pub.recovering]
      BY <1>2, <1>8, PubParts
    <3> QED  BY <1>1, <1>2, <3>1, PubParts, NewPub
  <2>2. target'[f] = after[f]
    BY <1>2, <1>8, TypeParts
  <2>3. Between'
    BY <1>1, <1>3, <1>7 DEF Between, artifact
  <2>4. Written'
    BY <1>1, <1>2, <1>3, <1>6, <2>1, <2>2 DEF PubInv, Written, artifact
  <2>5. Restored'
    BY <2>1 DEF Restored
  <2> QED  BY <1>1, <1>4, <1>6, <2>1, <2>3, <2>4, <2>5, FilesOnly
<1>9. CASE Rollback((Changed \ pub.left) \cup {f})
  <2> DEFINE u == IF pub.recovering THEN Changed ELSE (Changed \ pub.left) \cup {f}
  <2>1. pub' = [step |-> "undo", left |-> {}, undo |-> u, recovering |-> pub.recovering]
    BY <1>9 DEF Rollback
  <2>2. u \subseteq Changed /\ pub.recovering \in BOOLEAN
    BY <1>2, PubParts
  <2>3. pub' \in PubType /\ pub'.step = "undo" /\ pub'.undo = u
    BY <1>2, <2>1, <2>2, NewPub
  <2>4. Between'
    BY <1>1, <1>3, <1>7 DEF Between, artifact
  <2>5. Written'
    BY <2>3 DEF Written
  <2>6. \A g \in Changed \ u : target'[g] = expected[g]
    BY <1>1, <1>2, <1>6, <2>2 DEF PubInv, Written
  <2>7. Restored'
    BY <1>1, <1>3, <2>2, <2>3, <2>6 DEF Restored, artifact
  <2> QED  BY <1>1, <1>4, <1>6, <2>3, <2>4, <2>5, <2>7, FilesOnly
<1> QED  BY <1>8, <1>9 DEF Write

LEMMA UndoPreserves ==
  ASSUME PubInv, NEW f \in File, Undo(f)
  PROVE  PubInv'
<1>1. /\ pub.step = "undo" /\ f \in pub.undo
      /\ UNCHANGED <<artifact, agent, journal, edits>>
  BY DEF Undo
<1>2. /\ PublicationTypeOK /\ pub \in PubType /\ f \in Changed /\ Changed \subseteq File
      /\ pub.undo \subseteq Changed /\ Applying
  BY <1>1, TypeParts DEF PubInv, Restored, Between, Changed
<1>3. Changed' = Changed /\ Applying' = Applying
  BY <1>1 DEF Changed, artifact, Applying
<1>4. faults' \in Nat
  BY FaultNat DEF Undo
<1>5. journal.before[f] = expected[f]
  BY <1>2 DEF PubInv, UnfinishedIsPinned, Applying
<1>6. CASE /\ target' = [target EXCEPT ![f] = journal.before[f]]
           /\ pub' = [pub EXCEPT !.undo = @ \ {f}]
  <2>1. pub' \in PubType /\ pub'.step = "undo" /\ pub'.undo = pub.undo \ {f}
    <3>1. pub' = [step |-> pub.step, left |-> pub.left, undo |-> pub.undo \ {f},
                  recovering |-> pub.recovering]
      BY <1>2, <1>6, PubParts
    <3> QED  BY <1>1, <1>2, <3>1, PubParts, NewPub
  <2>2. /\ target' \in [File -> Content] /\ target'[f] = expected[f]
        /\ \A g \in File : g # f => target'[g] = target[g]
    BY <1>2, <1>5, <1>6, TypeParts
  <2>3. Between'
    BY <1>1, <1>2, <1>3, <2>2 DEF PubInv, Between, artifact
  <2>4. Written'
    BY <2>1 DEF Written
  <2>5. Restored'
    BY <1>1, <1>2, <1>3, <2>1, <2>2 DEF PubInv, Restored, artifact
  <2> QED  BY <1>1, <1>4, <2>1, <2>2, <2>3, <2>4, <2>5, FilesOnly
<1>7. CASE Stop /\ UNCHANGED target
  <2>1. pub' \in PubType /\ pub'.step = "idle"
    BY <1>7, IdleIsPub DEF Stop
  <2> QED  BY <1>1, <1>2, <1>4, <1>7, <2>1, FilesOnly, TypeParts DEF Between, Written, Restored
<1> QED  BY <1>6, <1>7 DEF Undo

\* A publication that is over, with the journal closed or as it was.
LEMMA StopPreserves ==
  ASSUME PubInv, Stop, phase = "completed",
         UNCHANGED <<target, base, expected, after, head, blurred, phase, dirty, edits>>,
         journal' \in JournalType, applied' \in {0, head}, faults' \in Nat,
         journal'.state = "applying" => UNCHANGED journal
  PROVE  PubInv'
<1>1. pub' \in PubType /\ pub'.step = "idle"
  BY IdleIsPub DEF Stop
<1>2. PublicationTypeOK'
  BY <1>1, TypeParts, TypePartsNext DEF PubInv
<1>3. UnfinishedIsPinned'
  BY DEF PubInv, UnfinishedIsPinned, Changed
<1> QED  BY <1>1, <1>2, <1>3 DEF PubInv, Apart, Between, Written, Restored

LEMMA EndPreserves ==
  ASSUME PubInv, RolledBack \/ Receipt \/ Crash
  PROVE  PubInv'
<1>1. /\ Stop /\ phase = "completed"
      /\ UNCHANGED <<target, base, expected, after, head, blurred, phase, dirty, edits>>
      /\ applied' \in {applied, head}
  BY IdleIsPub DEF PubInv, Apart, RolledBack, Receipt, Crash, artifact, agent, PubType
<1>2. faults' \in Nat
  BY FaultNat DEF RolledBack, Receipt, Crash
<1>3. \/ journal' = journal
      \/ journal' = [journal EXCEPT !.state = "rolled_back"]
  BY DEF RolledBack, Receipt, Crash
<1>4. journal' \in JournalType /\ (journal'.state = "applying" => UNCHANGED journal)
  BY <1>3, TypeParts, JournalState DEF PubInv
<1> QED  BY <1>1, <1>2, <1>4, StopPreserves, TypeParts DEF PubInv

LEMMA CommitPreserves ==
  ASSUME PubInv, Commit
  PROVE  PubInv'
<1>1. /\ pub.step = "write" /\ phase = "completed"
      /\ UNCHANGED <<target, base, expected, after, head, applied, blurred, phase, dirty, edits>>
  BY IdleIsPub DEF Commit, PubInv, Apart, artifact, agent
<1>2. faults' \in Nat
  BY FaultNat DEF Commit
<1>3. CASE Stop /\ UNCHANGED journal
  BY <1>1, <1>2, <1>3, StopPreserves, TypeParts DEF PubInv
<1>4. CASE /\ journal' = [journal EXCEPT !.state = "applied"]
           /\ pub' = [pub EXCEPT !.step = "receipt"]
  <2>1. journal' \in JournalType /\ journal'.state = "applied"
    BY <1>4, JournalState, TypeParts DEF PubInv
  <2>2. pub' \in PubType /\ pub'.step = "receipt"
    <3>1. pub \in PubType
      BY TypeParts DEF PubInv
    <3>2. pub' = [step |-> "receipt", left |-> pub.left, undo |-> pub.undo,
                  recovering |-> pub.recovering]
      BY <1>4, <3>1, PubParts
    <3> QED  BY <3>1, <3>2, PubParts, NewPub
  <2>3. PublicationTypeOK'
    BY <1>1, <1>2, <2>1, <2>2, TypeParts, TypePartsNext DEF PubInv
  <2> QED  BY <1>1, <2>1, <2>2, <2>3
           DEF PubInv, UnfinishedIsPinned, Apart, Between, Written, Restored
<1> QED  BY <1>3, <1>4 DEF Commit

LEMMA EditPreserves ==
  ASSUME PubInv, NEW f \in File, EditFile(f)
  PROVE  PubInv'
<1>1. /\ pub = Idle \/ f \notin Changed
      /\ edits' = edits + 1
      /\ UNCHANGED <<artifact, agent, journal, pub, faults>>
  BY DEF EditFile
<1>2. PICK v \in Content : target' = [target EXCEPT ![f] = v]
  BY DEF EditFile
<1>3. PublicationTypeOK
  BY DEF PubInv
<1>4. /\ target' \in [File -> Content]
      /\ \A g \in File : g # f => target'[g] = target[g]
  BY <1>2, <1>3, TypeParts
<1>5. PublicationTypeOK'
  BY <1>1, <1>3, <1>4, TypeParts, TypePartsNext DEF artifact, agent
<1>6. UnfinishedIsPinned' /\ Apart'
  BY <1>1 DEF PubInv, UnfinishedIsPinned, Apart, Changed, artifact, agent
<1>7. CASE pub = Idle
  BY <1>1, <1>5, <1>6, <1>7, IdleIsPub DEF PubInv, Between, Written, Restored
<1>8. CASE f \notin Changed
  <2>1. \A g \in Changed : target'[g] = target[g]
    BY <1>4, <1>8 DEF Changed
  <2>2. Changed' = Changed /\ Applying' = Applying
    BY <1>1 DEF Changed, artifact, Applying
  <2>3. Between'
    BY <1>1, <2>1, <2>2 DEF PubInv, Between, artifact
  <2>4. Written' /\ Restored'
    BY <1>1, <2>1, <2>2 DEF PubInv, Written, Restored, artifact
  <2> QED  BY <1>5, <1>6, <2>3, <2>4 DEF PubInv
<1> QED  BY <1>1, <1>7, <1>8

LEMMA PubStep ==
  ASSUME PubInv, [PublicationNext]_pubVars
  PROVE  PubInv'
<1>1. CASE UNCHANGED pubVars
  BY <1>1 DEF pubVars, artifact, agent, PubInv, PublicationTypeOK, UnfinishedIsPinned, Apart,
              Between, Written, Restored, Changed, Applying
<1>2. CASE PublicationNext
  BY <1>2, WorksPreserves, ResumePreserves, NoteAppliedPreserves, BeginPreserves,
     WritePreserves, UndoPreserves, EndPreserves, CommitPreserves, EditPreserves
     DEF PublicationNext, Publishing
<1> QED  BY <1>1, <1>2

\* The strengthened invariant.
THEOREM PubInvariant == PublicationSpec => []PubInv
<1>1. PublicationInit => PubInv
  BY PubInitial
<1>2. PubInv /\ [PublicationNext]_pubVars => PubInv'
  BY PubStep
<1> QED  BY <1>1, <1>2, PTL DEF PublicationSpec

\* The checkout, the artifact, the journal and the publication under way have
\* the shapes declared for them; a receipt is for the present head.
THEOREM PublicationTypeCorrect == PublicationSpec => []PublicationTypeOK
<1>1. PubInv => PublicationTypeOK
  BY DEF PubInv
<1> QED  BY <1>1, PubInvariant, PTL

\* While a journal says "applying" the work, its head and what the journal keeps
\* of the files are those the publication began with, after any crash.
THEOREM UnfinishedStaysPinned == PublicationSpec => []UnfinishedIsPinned
<1>1. PubInv => UnfinishedIsPinned
  BY DEF PubInv
<1> QED  BY <1>1, PubInvariant, PTL

-----------------------------------------------------------------------------
\* What is visible of the checkout, without a publication and with one.
LEMMA VisibleFacts ==
  ASSUME PubInv
  PROVE  /\ Visible \in [File -> Content]
         /\ ~Applying => Visible = target
         /\ \A f \in File \ Changed : Visible[f] = target[f]
         /\ Applying => \A f \in Changed :
              Visible[f] = IF target[f] = after[f] THEN expected[f] ELSE target[f]
<1>1. target \in [File -> Content] /\ journal.before \in [File -> Content]
  BY TypeParts, JournalParts DEF PubInv
<1>2. Applying => \A f \in Changed : journal.before[f] = expected[f]
  BY DEF PubInv, UnfinishedIsPinned, Applying
<1> QED  BY <1>1, <1>2 DEF Visible, Changed

\* A step of the agent changes the work, or nothing.
LEMMA AgentRefines ==
  ASSUME PubInv, PubInv', Collect \/ Recover \/ Resume \/ NoteApplied
  PROVE  [Atomic!AtomicNext]_(Atomic!atomicVars)
<1>1. journal.state # "applying" /\ UNCHANGED <<target, journal, edits>>
  BY DEF PubInv, UnfinishedIsPinned, Collect, Recover, Resume, NoteApplied, Applied
<1>2. ~Applying /\ ~Applying'
  BY <1>1 DEF Applying
<1>3. Visible = target /\ Visible' = target'
  BY <1>1, <1>2, VisibleFacts, TypePartsNext DEF PubInv, Visible
<1>4. Changed' \in SUBSET File
  BY DEF Changed
<1>5. expected' \in [File -> Content] /\ after' \in [File -> Content]
  BY TypePartsNext DEF PubInv
<1>6. Atomic!Work
  BY <1>1, <1>3, <1>4, <1>5 DEF Atomic!Work
<1> QED  BY <1>6 DEF Atomic!AtomicNext

\* What a publication does before it commits, and after it, nobody sees.
LEMMA HiddenStep ==
  ASSUME UNCHANGED <<base, expected, after, head, edits>>,
         \A f \in File : Visible'[f] = Visible[f]
  PROVE  UNCHANGED Atomic!atomicVars
<1>1. Visible = [f \in File |-> Visible[f]] /\ Visible' = [f \in File |-> Visible'[f]]
  BY DEF Visible
<1>2. Visible' = Visible
  BY <1>1
<1>3. Changed' = Changed
  BY DEF Changed
<1> QED  BY <1>2, <1>3 DEF Atomic!atomicVars

LEMMA PublishingRefines ==
  ASSUME PubInv, PubInv', Begin \/ RolledBack \/ Receipt \/ Crash
  PROVE  UNCHANGED Atomic!atomicVars
<1>1. UNCHANGED <<target, base, expected, after, head, edits>>
  BY DEF Begin, RolledBack, Receipt, Crash, artifact
<1>2. Changed' = Changed /\ Changed \subseteq File
  BY <1>1 DEF Changed
<1>3. target \in [File -> Content] /\ journal.before \in [File -> Content]
  BY TypeParts, JournalParts DEF PubInv
<1>4. CASE UNCHANGED journal
  <2>1. Visible' = Visible
    BY <1>1, <1>2, <1>4 DEF Visible, Applying
  <2> QED  BY <1>1, <2>1, HiddenStep
<1>5. CASE Begin
  <2>1. /\ Applying' /\ journal'.before = IF Applying THEN journal.before ELSE target
    BY <1>5 DEF Begin, Applying, artifact
  <2>2. \A f \in File : Visible'[f] = Visible[f]
    BY <1>1, <1>2, <2>1 DEF Visible
  <2> QED  BY <1>1, <2>2, HiddenStep
<1>6. CASE RolledBack /\ journal' = [journal EXCEPT !.state = "rolled_back"]
  <2>1. Applying /\ \A f \in Changed : target[f] = expected[f]
    BY <1>6 DEF RolledBack, PubInv, Restored, Between
  <2>2. Visible = target
    <3>1. \A f \in File : Visible[f] = target[f]
      BY <2>1, VisibleFacts
    <3>2. Visible \in [File -> Content]
      BY VisibleFacts
    <3> QED  BY <1>3, <3>1, <3>2
  <2>3. journal'.state = "rolled_back"
    BY <1>6, JournalState, TypeParts DEF PubInv
  <2>4. \A f \in File : Visible'[f] = Visible[f]
    BY <1>1, <2>2, <2>3 DEF Visible, Applying
  <2> QED  BY <1>1, <2>4, HiddenStep
<1> QED  BY <1>4, <1>5, <1>6 DEF RolledBack, Receipt, Crash

\* A write shows what was there before, an undo shows the same.
LEMMA FileStepRefines ==
  ASSUME PubInv, PubInv', NEW f \in File, Write(f) \/ Undo(f)
  PROVE  UNCHANGED Atomic!atomicVars
<1>1. UNCHANGED <<base, expected, after, head, journal, edits>>
  BY DEF Write, Undo, artifact
<1>2. Changed' = Changed /\ Applying' = Applying
  BY <1>1 DEF Changed, Applying
<1>3. f \in Changed /\ Applying
  BY DEF Write, Undo, PubInv, Written, Restored, Between
<1>4. target[f] \in {expected[f], after[f]}
  BY <1>3 DEF Write, Undo, PubInv, Between
<1>5. journal.before[f] = expected[f]
  BY <1>3 DEF PubInv, UnfinishedIsPinned, Applying
<1>6. /\ target \in [File -> Content]
      /\ \/ target' = target
         \/ target' = [target EXCEPT ![f] = after[f]]
         \/ target' = [target EXCEPT ![f] = journal.before[f]]
  BY TypeParts DEF PubInv, Write, Undo
<1>7. /\ \A g \in File : g # f => target'[g] = target[g]
      /\ target'[f] \in {expected[f], after[f]}
  BY <1>4, <1>5, <1>6
<1>8. Visible[f] = expected[f] /\ Visible'[f] = expected[f]
  <2>1. Visible[f] = expected[f]
    BY <1>3, <1>4, VisibleFacts
  <2>2. Visible' = [g \in File |-> IF Applying' /\ g \in Changed' /\ target'[g] = after'[g]
                                   THEN journal'.before[g] ELSE target'[g]]
    BY DEF Visible
  <2> QED  BY <1>1, <1>2, <1>3, <1>5, <1>7, <2>1, <2>2
<1>9. \A g \in File : g # f => Visible'[g] = Visible[g]
  BY <1>1, <1>2, <1>7 DEF Visible
<1> QED  BY <1>1, <1>8, <1>9, HiddenStep

\* The commit publishes, and every file of the work was as the work expects.
LEMMA CommitRefines ==
  ASSUME PubInv, PubInv', Commit
  PROVE  [Atomic!AtomicNext]_(Atomic!atomicVars)
<1>1. /\ pub.step = "write" /\ pub.left = {}
      /\ UNCHANGED <<target, base, expected, after, head, edits>>
  BY DEF Commit, artifact
<1>2. Changed' = Changed
  BY <1>1 DEF Changed
<1>3. CASE UNCHANGED journal
  <2>1. Visible' = Visible
    BY <1>1, <1>2, <1>3 DEF Visible, Applying
  <2> QED  BY <1>1, <1>2, <2>1 DEF Atomic!atomicVars
<1>4. CASE journal' = [journal EXCEPT !.state = "applied"]
  <2>1. Applying /\ \A f \in Changed : target[f] = after[f]
    BY <1>1 DEF PubInv, Between, Written
  <2>2. \A f \in Changed : Visible[f] = expected[f]
    BY <2>1, VisibleFacts
  <2>3. journal'.state = "applied"
    BY <1>4, JournalState, TypeParts DEF PubInv
  <2>4. target' \in [File -> Content] /\ target \in [File -> Content]
    BY TypeParts, TypePartsNext DEF PubInv
  <2>5. Visible' = target'
    BY <2>3, <2>4 DEF Visible, Applying
  <2>6. Visible' = [f \in File |-> IF f \in Changed THEN after[f] ELSE Visible[f]]
    <3>1. \A f \in File \ Changed : Visible[f] = target[f]
      BY VisibleFacts
    <3> QED  BY <1>1, <2>1, <2>4, <2>5, <3>1
  <2>7. Atomic!Publish
    BY <1>1, <1>2, <2>2, <2>6 DEF Atomic!Publish
  <2> QED  BY <2>7 DEF Atomic!AtomicNext
<1> QED  BY <1>3, <1>4 DEF Commit

\* An edit is an edit, of a file nobody is publishing.
LEMMA EditRefines ==
  ASSUME PubInv, PubInv', NEW f \in File, EditFile(f)
  PROVE  [Atomic!AtomicNext]_(Atomic!atomicVars)
<1>1. edits' = edits + 1 /\ UNCHANGED <<base, expected, after, head, journal>>
  BY DEF EditFile, artifact
<1>2. PICK v \in Content : target' = [target EXCEPT ![f] = v]
  BY DEF EditFile
<1>3. target \in [File -> Content] /\ journal.before \in [File -> Content]
  BY TypeParts, JournalParts DEF PubInv
<1>4. Changed' = Changed /\ Applying' = Applying
  BY <1>1 DEF Changed, Applying
<1>5. \A g \in File : g # f => Visible'[g] = Visible[g]
  BY <1>1, <1>2, <1>3, <1>4 DEF Visible
<1>6. Visible'[f] \in Content
  BY <1>1, <1>2, <1>3, <1>4 DEF Visible
<1>7. Visible' = [Visible EXCEPT ![f] = Visible'[f]]
  <2>1. Visible = [g \in File |-> Visible[g]] /\ Visible' = [g \in File |-> Visible'[g]]
    BY DEF Visible
  <2> QED  BY <1>5, <2>1
<1>8. Atomic!Edit
  BY <1>1, <1>4, <1>6, <1>7 DEF Atomic!Edit
<1> QED  BY <1>8 DEF Atomic!AtomicNext

\* Publishing is atomic: whatever crashes or fails and whoever edits, the
\* checkout without the files of an unfinished publication behaves as the
\* abstract one, in which a publication is one step over unedited files.
THEOREM PublicationIsAtomic == PublicationSpec => PublishesAtomically
<1>1. PublicationInit => Atomic!AtomicInit
  <2> SUFFICES ASSUME PublicationInit
               PROVE  Atomic!AtomicInit
    OBVIOUS
  <2>1. /\ target \in [File -> Content] /\ base = target /\ expected = target
        /\ after = target /\ edits = 0
    BY CheckoutAssumption DEF PublicationInit
  <2>2. ~Applying /\ Changed = {}
    BY <2>1 DEF PublicationInit, Applying, Changed
  <2>3. Visible = target
    BY <2>1, <2>2 DEF Visible
  <2> QED  BY <2>1, <2>2, <2>3 DEF Atomic!AtomicInit
<1>2. PubInv /\ PubInv' /\ [PublicationNext]_pubVars => [Atomic!AtomicNext]_(Atomic!atomicVars)
  <2> SUFFICES ASSUME PubInv, PubInv', [PublicationNext]_pubVars
               PROVE  [Atomic!AtomicNext]_(Atomic!atomicVars)
    OBVIOUS
  <2>1. CASE UNCHANGED pubVars
    BY <2>1 DEF pubVars, artifact, Atomic!atomicVars, Visible, Applying, Changed
  <2>2. CASE PublicationNext
    BY <2>2, AgentRefines, PublishingRefines, FileStepRefines, CommitRefines, EditRefines
       DEF PublicationNext, Publishing
  <2> QED  BY <2>1, <2>2
<1> QED  BY <1>1, <1>2, PubInvariant, PTL DEF PublicationSpec, PublishesAtomically, Atomic!AtomicSpec
-----------------------------------------------------------------------------
\* Where nobody edits, the checkout is the base of the work until the work is
\* published, and then what the work makes of it; in between, a file is one or
\* the other.  The hashes are those of the base, unless blurred.
Settled ==
  edits = 0 =>
    /\ applied # 0 => Applied
    /\ Applied => target = after
    /\ phase = "works" => target = base
    /\ journal.state # "applying" /\ ~Applied => target = base
    /\ journal.state = "applying" =>
         /\ \A f \in File : target[f] = base[f] \/ target[f] = after[f]
         /\ \A f \in Changed : journal.before[f] = base[f]
    /\ ~blurred => expected = base

\* The journal speaks of a head the agent has collected.
KnownHead == journal.head <= head

\* The receipt is written after the journal.
Committed == pub.step = "receipt" => Applied

SettledInv == PubInv /\ KnownHead /\ Committed /\ Settled

LEMMA SettledInitial ==
  ASSUME PublicationInit
  PROVE  KnownHead /\ Committed /\ Settled
<1>1. Committed
  BY IdleIsPub DEF PublicationInit, Committed
<1>2. KnownHead /\ Settled
  BY DEF PublicationInit, KnownHead, Settled, Applied
<1> QED  BY <1>1, <1>2

LEMMA CommittedStep ==
  ASSUME SettledInv, PublicationNext
  PROVE  Committed'
<1>1. CASE UNCHANGED <<head, pub, journal>>
  BY <1>1 DEF SettledInv, Committed, Applied
<1>2. CASE pub' = Idle
  BY <1>2, IdleIsPub DEF Committed
<1>3. CASE Begin \/ \E f \in File : Write(f) \/ Undo(f)
  <2>1. pub \in PubType /\ (Begin \/ pub.step \in {"write", "undo"})
    BY <1>3, TypeParts DEF Write, Undo, SettledInv, PubInv
  <2>2. CASE Begin
    BY <2>2 DEF Begin, Committed
  <2>3. CASE \E f \in File : Write(f) \/ Undo(f)
    <3>1. PICK f \in File : Write(f) \/ Undo(f)
      BY <2>3
    <3>2. CASE pub' = [pub EXCEPT !.left = @ \ {f}] \/ pub' = [pub EXCEPT !.undo = @ \ {f}]
      <4>1. pub'.step = pub.step
        BY <2>1, <3>2, PubParts
      <4> QED  BY <2>1, <3>1, <4>1 DEF Committed, Write, Undo
    <3>3. CASE Rollback((Changed \ pub.left) \cup {f})
      BY <3>3 DEF Rollback, Committed
    <3> QED  BY <1>2, <3>1, <3>2, <3>3 DEF Write, Undo, Stop
  <2> QED  BY <1>3, <2>2, <2>3
<1>4. CASE Commit /\ pub' # Idle
  <2>1. journal' = [journal EXCEPT !.state = "applied"] /\ pub.step = "write" /\ UNCHANGED head
    BY <1>4 DEF Commit, Stop, artifact
  <2>2. journal'.state = "applied" /\ journal'.head = journal.head
    BY <2>1, JournalState, TypeParts DEF SettledInv, PubInv
  <2>3. journal.head = head
    BY <2>1 DEF SettledInv, PubInv, Between, Applying
  <2> QED  BY <2>1, <2>2, <2>3 DEF Committed, Applied
<1>5. CASE (Collect \/ Recover)
  <2>1. pub = Idle /\ pub' = pub
    BY <1>5 DEF Collect, Recover, SettledInv, PubInv, Apart
  <2> QED  BY <1>2, <2>1
<1> QED  BY <1>1, <1>2, <1>3, <1>4, <1>5
         DEF PublicationNext, Publishing, Resume, NoteApplied, RolledBack, Receipt, Crash, EditFile,
             Stop, artifact

LEMMA PreparedSettles ==
  ASSUME SettledInv, edits = 0, journal.state # "applying", NEW tree, Prepared(tree)
  PROVE  target = base' /\ applied' = 0
<1>1. applied = head => Applied
  BY TypeParts DEF SettledInv, PubInv, Settled
<1>2. CASE applied = head \/ Applied
  BY <1>1, <1>2 DEF Prepared, SettledInv, Settled
<1>3. CASE ~(applied = head \/ Applied)
  BY <1>3, TypeParts DEF Prepared, SettledInv, Settled, PubInv
<1> QED  BY <1>2, <1>3

LEMMA WorksSettled ==
  ASSUME SettledInv, Collect \/ Recover
  PROVE  KnownHead' /\ Settled'
<1>1. /\ phase = "works" /\ phase' # "works"
      /\ UNCHANGED <<target, journal, pub, edits>>
  BY DEF Collect, Recover
<1>2. /\ journal.state # "applying" /\ applied = 0
      /\ head \in Nat /\ journal.head \in Nat /\ journal.head <= head
  BY <1>1, TypeParts, JournalParts DEF SettledInv, PubInv, Apart, UnfinishedIsPinned, KnownHead
<1>3. CASE UNCHANGED artifact
  BY <1>1, <1>2, <1>3 DEF SettledInv, KnownHead, Settled, Applied, artifact
<1>4. CASE Collected
  <2>1. head' = head + 1 /\ ~Applied' /\ KnownHead'
    BY <1>1, <1>2, <1>4 DEF Collected, Applied, KnownHead
  <2>2. CASE UNCHANGED <<base, expected, applied, blurred>>
    BY <1>1, <1>2, <2>1, <2>2 DEF SettledInv, Settled
  <2>3. CASE Prepared(after')
    <3>1. CASE applied = head \/ Applied
      BY <1>1, <1>2, <2>1, <2>3, <3>1, TypeParts DEF Prepared, SettledInv, PubInv, Settled
    <3>2. CASE ~(applied = head \/ Applied)
      BY <1>1, <1>2, <2>1, <2>3, <3>2 DEF Prepared, SettledInv, Settled
    <3> QED  BY <3>1, <3>2
  <2> QED  BY <1>4, <2>2, <2>3, <1>3 DEF Collect, Recover, artifact
<1> QED  BY <1>3, <1>4 DEF Collect, Recover

LEMMA ResumeSettled ==
  ASSUME SettledInv, Resume
  PROVE  KnownHead' /\ Settled'
<1>1. /\ journal.state # "applying"
      /\ UNCHANGED <<target, after, head, dirty, journal, pub, edits, faults>>
  BY DEF Resume
<1>2. PICK tree \in [File -> Content] : Prepared(tree)
  BY DEF Resume
<1>3. KnownHead' /\ Applied' = Applied
  BY <1>1 DEF SettledInv, KnownHead, Applied
<1>4. CASE edits = 0
  <2>1. target = base' /\ applied' = 0
    BY <1>1, <1>2, <1>4, PreparedSettles
  <2>2. ~blurred' => expected' = base'
    <3>1. CASE applied = head \/ Applied
      BY <1>2, <3>1 DEF Prepared
    <3>2. CASE ~(applied = head \/ Applied)
      BY <1>2, <1>4, <3>2 DEF Prepared, SettledInv, Settled
    <3> QED  BY <3>1, <3>2
  <2> QED  BY <1>1, <1>3, <1>4, <2>1, <2>2 DEF SettledInv, Settled
<1>5. CASE edits # 0
  BY <1>1, <1>3, <1>5 DEF Settled
<1> QED  BY <1>4, <1>5

LEMMA BeginSettled ==
  ASSUME SettledInv, Begin
  PROVE  KnownHead' /\ Settled'
<1>1. /\ phase = "completed" /\ applied # head /\ ~Applied
      /\ journal.state = "applying" => journal.head = head
      /\ journal' = [state |-> "applying", head |-> head,
                     before |-> IF Applying THEN journal.before ELSE target]
      /\ UNCHANGED <<target, artifact, agent, edits, faults>>
  BY DEF Begin
<1>2. /\ journal'.state = "applying" /\ journal'.head = head
      /\ journal'.before = IF Applying THEN journal.before ELSE target
  BY <1>1
<1>3. head \in Nat /\ applied = 0 /\ ~Applied'
  BY <1>1, <1>2, TypeParts DEF SettledInv, PubInv, Applied
<1>4. KnownHead'
  BY <1>1, <1>2, <1>3 DEF KnownHead, artifact
<1>5. ~Applying => journal.state # "applying"
  BY <1>1 DEF Applying
<1>6. Changed' = Changed /\ Changed \subseteq File
  BY <1>1 DEF Changed, artifact
<1> QED  BY <1>1, <1>2, <1>3, <1>4, <1>5, <1>6 DEF SettledInv, Settled, artifact, agent, Applying

\* A file written or restored, and the last step of a publication cut short.
LEMMA FilesSettled ==
  ASSUME SettledInv, NEW f \in File, Write(f) \/ Undo(f)
  PROVE  KnownHead' /\ Settled'
<1>1. UNCHANGED <<artifact, agent, journal, edits>>
  BY DEF Write, Undo
<1>2. f \in Changed /\ Applying
  BY DEF Write, Undo, SettledInv, PubInv, Written, Restored, Between
<1>3. /\ target \in [File -> Content]
      /\ \/ target' = target
         \/ target' = [target EXCEPT ![f] = after[f]]
         \/ target' = [target EXCEPT ![f] = journal.before[f]]
  BY TypeParts DEF SettledInv, PubInv, Write, Undo
<1>4. KnownHead' /\ Applied' = Applied /\ Changed' = Changed
  BY <1>1 DEF SettledInv, KnownHead, Applied, Changed, artifact
<1>5. phase = "completed" /\ ~Applied /\ journal.state = "applying"
  BY <1>2 DEF SettledInv, PubInv, UnfinishedIsPinned, Applying, Applied
<1>6. ASSUME edits = 0, NEW g \in File
      PROVE  target'[g] = base[g] \/ target'[g] = after[g]
  <2>1. target[g] = base[g] \/ target[g] = after[g]
    BY <1>5, <1>6 DEF SettledInv, Settled
  <2>2. journal.before[f] = base[f]
    BY <1>2, <1>5, <1>6 DEF SettledInv, Settled
  <2> QED  BY <1>3, <2>1, <2>2
<1> QED  BY <1>1, <1>4, <1>5, <1>6 DEF SettledInv, Settled, artifact, agent

LEMMA RolledBackSettled ==
  ASSUME SettledInv, RolledBack
  PROVE  KnownHead' /\ Settled'
<1>1. /\ pub.step = "undo" /\ pub.undo = {}
      /\ UNCHANGED <<target, artifact, agent, edits>>
  BY DEF RolledBack
<1>2. CASE UNCHANGED journal
  BY <1>1, <1>2 DEF SettledInv, KnownHead, Settled, Applied, Changed, artifact, agent
<1>3. CASE journal' = [journal EXCEPT !.state = "rolled_back"]
  <2>1. journal'.state = "rolled_back" /\ journal'.head = journal.head
    BY <1>3, JournalState, TypeParts DEF SettledInv, PubInv
  <2>2. KnownHead' /\ ~Applied'
    BY <1>1, <2>1 DEF SettledInv, KnownHead, Applied, artifact
  <2>3. /\ journal.state = "applying" /\ ~Applied
        /\ \A f \in Changed : target[f] = expected[f] /\ journal.before[f] = expected[f]
    BY <1>1 DEF SettledInv, PubInv, Restored, Between, Applying, Applied, UnfinishedIsPinned
  <2>4. edits = 0 => target = base
    <3> SUFFICES ASSUME edits = 0
                 PROVE  target = base
      OBVIOUS
    <3>1. \A f \in Changed : target[f] = base[f]
      BY <2>3 DEF SettledInv, Settled
    <3>2. \A f \in File \ Changed : target[f] = base[f]
      BY <2>3 DEF SettledInv, Settled, Changed
    <3>3. target \in [File -> Content] /\ base \in [File -> Content]
      BY TypeParts DEF SettledInv, PubInv
    <3> QED  BY <3>1, <3>2, <3>3
  <2> QED  BY <1>1, <2>1, <2>2, <2>3, <2>4 DEF SettledInv, Settled, artifact, agent
<1> QED  BY <1>2, <1>3 DEF RolledBack

LEMMA CommitSettled ==
  ASSUME SettledInv, Commit
  PROVE  KnownHead' /\ Settled'
<1>1. /\ pub.step = "write" /\ pub.left = {}
      /\ UNCHANGED <<target, artifact, agent, edits>>
  BY DEF Commit
<1>2. CASE UNCHANGED journal
  BY <1>1, <1>2 DEF SettledInv, KnownHead, Settled, Applied, Changed, artifact, agent
<1>3. CASE journal' = [journal EXCEPT !.state = "applied"]
  <2>1. journal'.state = "applied" /\ journal'.head = journal.head
    BY <1>3, JournalState, TypeParts DEF SettledInv, PubInv
  <2>2. /\ journal.state = "applying" /\ journal.head = head /\ phase = "completed"
        /\ \A f \in Changed : target[f] = after[f]
    BY <1>1 DEF SettledInv, PubInv, Between, Written, Applying, UnfinishedIsPinned
  <2>3. KnownHead' /\ Applied'
    BY <1>1, <2>1, <2>2 DEF SettledInv, KnownHead, Applied, artifact
  <2>4. edits = 0 => target = after
    <3> SUFFICES ASSUME edits = 0
                 PROVE  target = after
      OBVIOUS
    <3>1. \A f \in File \ Changed : target[f] = after[f]
      BY <2>2 DEF SettledInv, Settled, Changed
    <3>2. target \in [File -> Content] /\ after \in [File -> Content]
      BY TypeParts DEF SettledInv, PubInv
    <3> QED  BY <2>2, <3>1, <3>2
  <2> QED  BY <1>1, <2>1, <2>2, <2>3, <2>4 DEF SettledInv, Settled, artifact, agent
<1> QED  BY <1>2, <1>3 DEF Commit

\* A receipt, written at last or found in the journal, and a crash.
LEMMA ReceiptSettled ==
  ASSUME SettledInv, Receipt \/ NoteApplied \/ Crash, PubInv'
  PROVE  KnownHead' /\ Settled'
<1>1. UNCHANGED <<target, base, expected, after, head, blurred, phase, journal, edits>>
  BY DEF Receipt, NoteApplied, Crash, artifact, agent
<1>2. KnownHead' /\ Applied' = Applied /\ Changed' = Changed
  BY <1>1 DEF SettledInv, KnownHead, Applied, Changed
<1>3. applied' # 0 => Applied \/ applied # 0
  BY DEF Receipt, NoteApplied, Crash, artifact, SettledInv, PubInv, Committed
<1> QED  BY <1>1, <1>2, <1>3 DEF SettledInv, Settled

LEMMA SettledStep ==
  ASSUME SettledInv, [PublicationNext]_pubVars
  PROVE  SettledInv'
<1>1. PubInv' /\ (PublicationNext => Committed')
  BY PubStep, CommittedStep DEF SettledInv
<1>2. CASE UNCHANGED pubVars
  BY <1>1, <1>2 DEF pubVars, artifact, agent, SettledInv, KnownHead, Committed, Settled,
                   Applied, Changed
<1>3. CASE \E f \in File : EditFile(f)
  <2>1. edits \in Nat /\ edits' = edits + 1 /\ UNCHANGED <<artifact, journal>>
    BY <1>3, TypeParts DEF EditFile, SettledInv, PubInv
  <2> QED  BY <1>1, <1>3, <2>1 DEF PublicationNext, SettledInv, KnownHead, Settled, artifact
<1>4. CASE PublicationNext /\ ~\E f \in File : EditFile(f)
  BY <1>1, <1>4, WorksSettled, ResumeSettled, BeginSettled, FilesSettled, RolledBackSettled,
     CommitSettled, ReceiptSettled DEF PublicationNext, Publishing, SettledInv
<1> QED  BY <1>2, <1>3, <1>4

\* Where no user edits, complete work is not refused, whatever crashed before,
\* unless the hashes were taken of a worktree with new work in it.
THEOREM OnlyEditsMakeConflicts == PublicationSpec => []OnlyEditsConflict
<1>1. PublicationInit => SettledInv
  BY PubInitial, SettledInitial DEF SettledInv
<1>2. SettledInv /\ [PublicationNext]_pubVars => SettledInv'
  BY SettledStep
<1>3. SettledInv => OnlyEditsConflict
  <2> SUFFICES ASSUME SettledInv, edits = 0, phase = "completed", ~Applied, ~blurred,
                      NEW f \in Changed
               PROVE  Unchanged(f)
    BY DEF OnlyEditsConflict
  <2>1. f \in File
    BY DEF Changed
  <2>2. CASE journal.state = "applying"
    BY <2>1, <2>2 DEF SettledInv, Settled, PubInv, UnfinishedIsPinned, Applying, Unchanged
  <2>3. CASE journal.state # "applying"
    BY <2>1, <2>3 DEF SettledInv, Settled, Unchanged
  <2> QED  BY <2>2, <2>3
<1> QED  BY <1>1, <1>2, <1>3, PTL DEF PublicationSpec
=============================================================================
