------------------------- MODULE EventBusInductive -------------------------
(***************************************************************************)
(* The inductive invariant of EventBus, from which NoEventLost and         *)
(* TrimKeepsUnacked follow.  TLC checks it on small instances; the proofs  *)
(* are in EventBus_proofs.                                                 *)
(***************************************************************************)
EXTENDS EventBus

\* Steps in which a worker has a current entry.
Busy == {"duplicate", "handle", "mark", "ack", "failed", "toDlq", "ackDlq"}

\* Ids stay within what has been added to the stream: a batch holds existing
\* entries, the current entry is one of them, a group has been given no more
\* than there is, and what is pending has been given to it.
IdsInRange ==
    /\ lo <= Top + 1
    /\ aged <= Top
    /\ trim.floor <= Top + 1
    /\ \A w \in Workers :
         /\ batch[w] \subseteq 1 .. Top
         /\ step[w] \in Busy => cur[w] \in batch[w]
    /\ \A g \in Groups :
         /\ delivered[g] <= Top
         /\ \A i \in Ids : pending[g][i] > 0 => i <= delivered[g]

\* The floor of the running trim job already lies below every entry the groups
\* it has looked at still need, and the snapshot of the others is not ahead.
TrimBelowUnacked ==
    trim.on =>
        /\ \A g \in Groups \ trim.todo :
             \A i \in 1 .. Top : Unacked(g, i) => trim.floor <= i
        /\ \A g \in trim.todo :
             /\ trim.last[g] <= delivered[g]
             /\ g \notin trim.busy =>
                  \A i \in 1 .. Top : Unacked(g, i) => trim.last[g] < i

\* Marks, and what a worker remembers of them, speak only of handled events.
MarkedIsDone ==
    /\ \A g \in Groups : marks[g] \subseteq done[g]
    /\ \A w \in Workers :
         /\ seen[w] \subseteq done[Home(w)]
         /\ step[w] \in {"duplicate", "mark", "ack"} =>
              stream[cur[w]].event \in done[Home(w)]

\* A retrier holds one dead letter at a time, with an id already given, and has
\* returned no other.
RetrierShape ==
    /\ \A d \in dlq : d.id <= dlqTop
    /\ \A a \in Retriers :
         /\ \A d \in retry[a] : d.id <= dlqTop
         /\ \A d1, d2 \in retry[a] : d1 = d2
         /\ \A n \in resent[a] : \E d \in retry[a] : d.id = n

\* An entry that no worker is about to acknowledge as dead-lettered.
Standing(e, g, i) ==
    /\ stream[i].event = e
    /\ Addressed(i, g)
    /\ Unacked(g, i)
    /\ \A w \in Workers : Home(w) = g /\ step[w] = "ackDlq" => cur[w] # i

\* A dead letter that no retrier is about to delete.
Lying(e, g, d) ==
    /\ d.event = e /\ d.group = g
    /\ \A a \in Retriers : d \in retry[a] => d.id \notin resent[a]

\* The pair does not depend on an entry or a letter on its way out.
Solid(e, g) ==
    \/ e \in done[g]
    \/ \E i \in 1 .. Top : Standing(e, g, i)
    \/ \E d \in dlq : Lying(e, g, d)

\* Rows the bus has taken over: published, or accepted by Redis in a pass that
\* has not committed yet.
TakenOver(e) ==
    \/ outbox[e] \in {"published", "deleted"}
    \/ \E r \in Replicas : e \in sent[r]

\* An event that has been in the stream, also one whose row was charged with a
\* refusal all the same.
Returned == dlq \cup UNION {retry[a] : a \in Retriers}
Travelled(e) ==
    \/ \E i \in 1 .. Top : stream[i].event = e
    \/ \E g \in Groups : e \in done[g]
    \/ \E d \in Returned : d.event = e

TravelledIsSolid ==
    \A e \in Events : TakenOver(e) \/ Travelled(e) => \A g \in Wants[e] : Solid(e, g)

\* From the first reading on, a worker remembers every mark its batch came with,
\* and has kept of the batch only what is addressed to its group.
BatchIsRead ==
    \A w \in Workers :
      /\ known[w] \subseteq marks[Home(w)]
      /\ step[w] \in Busy \cup {"check"} => known[w] \subseteq seen[w]
      /\ step[w] \in Busy \cup {"unread", "check"} =>
           \A i \in batch[w] : Addressed(i, Home(w))
      /\ step[w] = "handle" => stream[cur[w]].event \notin seen[w]

\* A dead letter, and an entry that was one, names a pair that has been buried;
\* only a subscriber that wants an event buries it.
LettersAreBuried ==
    /\ \A p \in buried : p[2] \in Wants[p[1]]
    /\ \A d \in Returned : <<d.event, d.group>> \in buried
    /\ \A i \in 1 .. Top : stream[i].only # Everyone =>
         <<stream[i].event, stream[i].only>> \in buried

\* A row is in the hands of one dispatcher, pending, and sent or unsent there.
RowsInOneHand ==
    /\ \A r, q \in Replicas : r # q => held[r] \cap held[q] = {}
    /\ \A r \in Replicas :
         /\ unsent[r] \cup sent[r] \cup refused[r] \subseteq held[r]
         /\ unsent[r] \cap sent[r] = {}
         /\ \A e \in held[r] : outbox[e] = "pending"

\* A copy that is not the one its row is taken over with was paid for by a fault.
CopiesArePaid ==
    \A e \in Events :
      Cardinality(CopiesOf(e)) <= faults + (IF TakenOver(e) THEN 1 ELSE 0)

\* An attempt charged to a row that Redis does not refuse for its own sake was
\* paid for by a fault, and it goes into quarantine only for want of attempts.
Charged(e) == \E r \in Replicas : e \in refused[r]
ChargesArePaid ==
    \A e \in Events \ Poison :
      /\ attempts[e] + (IF Charged(e) THEN 1 ELSE 0) <= faults
      /\ outbox[e] = "quarantined" => OutboxMaxAttempts <= attempts[e]

\* Only events that were committed, and that Redis takes, leave the outbox.
OnlyCommittedTravel ==
    \A e \in Events : Travelled(e) => outbox[e] # "none" /\ e \notin Poison

\* The inductive invariant: its parts hold together in every reachable state.
IndInv ==
    /\ TypeOK
    /\ IdsInRange
    /\ TrimKeepsUnacked
    /\ TrimBelowUnacked
    /\ MarkedIsDone
    /\ RetrierShape
    /\ TravelledIsSolid
    /\ BatchIsRead
    /\ LettersAreBuried
    /\ RowsInOneHand
    /\ CopiesArePaid
    /\ ChargesArePaid
    /\ OnlyCommittedTravel
=============================================================================
