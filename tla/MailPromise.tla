---------------------------- MODULE MailPromise ----------------------------
(***************************************************************************)
(* What the mailbox of a session promises.  A message that was accepted    *)
(* and not withdrawn before is heard by its recipient, in the order of     *)
(* acceptance, and none is passed over.  It is heard again only while it   *)
(* is a stray: it came late, when the delivery that was to bring it had    *)
(* failed, and the recipient has not looked at its transcript since.  What *)
(* is acknowledged is not heard again.  After the deletion of the session  *)
(* nothing is accepted; what was accepted before may still come once, for  *)
(* the writer may owe it.  Nothing here can crash.                         *)
(***************************************************************************)
EXTENDS Order, SequencesExt

CONSTANTS Recipient

VARIABLES
  sent,        \* the recipients of the accepted messages, in order
  withdrawn,   \* the positions in sent of those withdrawn
  acked,       \* and of those acknowledged
  heard,       \* [Recipient -> Seq(Nat)]: positions in the order heard
  strays,      \* [Recipient -> SUBSET Nat]: those heard late
  over,        \* the session is deleted
  owed         \* [Recipient -> SUBSET Nat]: what may come after the deletion

promiseVars == <<sent, withdrawn, acked, heard, strays, over, owed>>

None == [r \in Recipient |-> {}]

PromiseInit ==
  /\ sent = <<>>
  /\ withdrawn = {} /\ acked = {}
  /\ heard = [r \in Recipient |-> <<>>]
  /\ strays = None /\ owed = None
  /\ over = FALSE

Mail(r)    == {i \in 1..Len(sent) : sent[i] = r} \ withdrawn
Waiting(r) == Mail(r) \ ToSet(heard[r])

\* No message that waits is passed over.
NextInLine(r, S) == \A i \in S, j \in Waiting(r) : j < i => j \in S

Accept ==
  /\ \E r \in Recipient : sent' = Append(sent, r)
  /\ UNCHANGED <<withdrawn, acked, heard, strays, over, owed>>

Withdraw ==
  /\ \E r \in Recipient : \E i \in Waiting(r) : withdrawn' = withdrawn \cup {i}
  /\ UNCHANGED <<sent, acked, heard, strays, over, owed>>

Hears(r, S) == heard' = [heard EXCEPT ![r] = @ \o InOrder(S)]

\* A delivery brings messages that wait, and strays it does not know of.
Hear ==
  /\ \E r \in Recipient : \E S \in SUBSET (Mail(r) \ acked) :
       /\ NextInLine(r, S) /\ S \subseteq Waiting(r) \cup strays[r]
       /\ Hears(r, S)
       /\ \E T \in SUBSET strays[r] : strays' = [strays EXCEPT ![r] = T]
  /\ UNCHANGED <<sent, withdrawn, acked, over, owed>>

\* Some come when no delivery brings them.
Stray ==
  /\ \E r \in Recipient : \E S \in SUBSET Waiting(r) :
       /\ NextInLine(r, S)
       /\ Hears(r, S)
       /\ \E T \in SUBSET (strays[r] \cup S) : strays' = [strays EXCEPT ![r] = T]
  /\ UNCHANGED <<sent, withdrawn, acked, over, owed>>

\* The recipient looks at its transcript.
Notice ==
  /\ \E r \in Recipient : strays' = [strays EXCEPT ![r] = {}]
  /\ UNCHANGED <<sent, withdrawn, acked, heard, over, owed>>

Acknowledge ==
  /\ \E r \in Recipient : \E S \in SUBSET (Mail(r) \cap ToSet(heard[r])) :
       acked' = acked \cup S
  /\ UNCHANGED <<sent, withdrawn, heard, strays, over, owed>>

\* The transcripts go; only what was mail may be owed.
Delete ==
  /\ over' = TRUE
  /\ sent' = <<>> /\ withdrawn' = {} /\ acked' = {}
  /\ heard' = [r \in Recipient |-> <<>>] /\ strays' = None
  /\ \A r \in Recipient : owed'[r] \subseteq Mail(r)
  /\ DOMAIN owed' = Recipient

Linger ==
  /\ \E r \in Recipient : \E S \in SUBSET owed[r] :
       Hears(r, S) /\ owed' = [owed EXCEPT ![r] = @ \ S]
  /\ UNCHANGED <<sent, withdrawn, acked, strays, over>>

\* What is owed is lost with the process that owes it.
Forget ==
  /\ owed' \in [Recipient -> SUBSET UNION {owed[r] : r \in Recipient}]
  /\ \A r \in Recipient : owed'[r] \subseteq owed[r]
  /\ UNCHANGED <<sent, withdrawn, acked, heard, strays, over>>

PromiseNext ==
  \/ ~over /\ (Accept \/ Withdraw \/ Hear \/ Stray \/ Notice \/ Acknowledge \/ Delete)
  \/ over /\ (Linger \/ Forget)

PromiseSpec == PromiseInit /\ [][PromiseNext]_promiseVars
=============================================================================
