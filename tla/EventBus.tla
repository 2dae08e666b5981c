------------------------------ MODULE EventBus ------------------------------
(***************************************************************************)
(* The kernel's event bus (apps/api/src/kernel/events): a transactional    *)
(* outbox in Postgres, dispatchers that copy it to one Redis stream, a     *)
(* consumer group per subscriber read by every replica, processing marks,  *)
(* a dead-letter stream with retry, and the maintenance jobs that trim the *)
(* stream and delete old outbox rows and marks.                            *)
(*                                                                         *)
(* One stream stands for one event domain: domains share nothing but the   *)
(* outbox.  A replica is one API process; it runs one dispatcher and one   *)
(* worker loop per subscriber (runSubscriber).                             *)
(***************************************************************************)
EXTENDS Naturals, FiniteSets, Sequences

CONSTANTS
    Events,             \* outbox row ids, in identity (ORDER BY id) order
    Groups,             \* registered subscribers = consumer groups
    Replicas,           \* API processes
    Retriers,           \* callers of retryDlqEntry: requests and redrive jobs
    Wants,              \* Wants[e]: subscribers whose types match event e
    Poison,             \* events Redis itself refuses (not a systemic error)
    Everyone,           \* an entry without the `only` field
    BatchSize,          \* BATCH_SIZE of the dispatcher
    ReadCount,          \* READ_COUNT of the consumer
    MaxAttempts,        \* Subscriber.maxAttempts ?? DEFAULT_MAX_ATTEMPTS
    OutboxMaxAttempts,  \* OUTBOX_MAX_ATTEMPTS
    MaxEntries,         \* bound: entries ever added to the stream
    MaxFaults,          \* bound: crashes, lost connections and slow batches
    MaxAged,            \* bound: entries that may pass the retention time
    TrimRounds          \* bound: runs of the trim job

ASSUME IdsAssumption == Events \subseteq Nat /\ Poison \subseteq Events
ASSUME WantsAssumption == Wants \in [Events -> SUBSET Groups]
ASSUME EveryoneAssumption == Everyone \notin Groups
ASSUME LimitsAssumption ==
    /\ BatchSize \in Nat \ {0}
    /\ ReadCount \in Nat \ {0}
    /\ MaxAttempts \in Nat \ {0}
    /\ OutboxMaxAttempts \in Nat \ {0}
    /\ MaxEntries \in Nat
    /\ MaxFaults \in Nat
    /\ MaxAged \in Nat
    /\ TrimRounds \in Nat

Workers == Replicas \X Groups       \* one runSubscriber loop each
Home(w) == w[2]                     \* the worker's consumer group
Loops(r) == {w \in Workers : w[1] = r}
Entry == [event : Events, only : Groups \cup {Everyone}]
DeadLetter == [id : Nat, event : Events, group : Groups]

VARIABLES
    outbox,      \* outbox[e]: what the row of e says, "none" before its commit
    attempts,    \* attempts[e]: refusals charged to the row
    held,        \* held[r]: rows locked by the dispatcher transaction of r
    unsent,      \* unsent[r]: rows of it whose XADD has not answered yet
    sent,        \* sent[r]: rows of it Redis accepted
    refused,     \* refused[r]: rows of it whose reply is charged as a refusal
    stream,      \* every entry ever added; an entry's id is its position
    lo,          \* first entry XTRIM has kept
    delivered,   \* delivered[g]: last-delivered-id of the group
    pending,     \* pending[g][i]: delivery count of i in the PEL, 0: not there
    step,        \* step[w]: where the worker is in its loop
    batch,       \* batch[w]: entries of its reply not finished yet
    cur,         \* cur[w]: the entry being processed
    seen,        \* seen[w]: ProcessedSet of the batch
    known,       \* known[w]: history, marks that existed when the batch came
    marks,       \* marks[g]: ops.event_consumptions
    done,        \* done[g]: history, events a handler of g has completed
    dlq,         \* entries of the dead-letter stream
    dlqTop,      \* last id given in the dead-letter stream
    buried,      \* history, pairs that have ever been dead-lettered
    retry,       \* retry[a]: dead letters the retrier is returning (0 or 1)
    resent,      \* resent[a]: ids of those it has already added to the stream
    aged,        \* entries up to this id are older than the retention time
    trim,        \* the running trim job
    trims,       \* trim jobs started
    faults       \* faults so far

outboxVars == <<outbox, attempts>>
dispatchVars == <<held, unsent, sent, refused>>
streamVars == <<stream, lo>>
groupVars == <<delivered, pending>>
workerVars == <<step, batch, cur, seen, known>>
handlerVars == <<marks, done>>
dlqVars == <<dlq, dlqTop, buried>>
retryVars == <<retry, resent>>
trimVars == <<aged, trim, trims>>

vars == <<outboxVars, dispatchVars, streamVars, groupVars, workerVars,
          handlerVars, dlqVars, retryVars, trimVars, faults>>

-----------------------------------------------------------------------------

Ids == 1 .. MaxEntries
Top == Len(stream)

\* x is the smallest element of the set S of numbers.
IsFirst(x, S) == x \in S /\ \A y \in S : x <= y

\* The first n elements of a set of numbers.
FirstOf(S, n) == {x \in S : Cardinality({y \in S : y < x}) < n}

\* Slip: the `only` field of a returned dead letter is not looked at.
AddressedToAll(i, g) == g \in Wants[stream[i].event]

\* The entry is handled by the group and not just acknowledged (readEntry).
Addressed(i, g) ==
    /\ stream[i].only \in {Everyone, g}
    /\ g \in Wants[stream[i].event]

\* The group has not acknowledged the entry: it is still to be delivered, or
\* it was delivered and sits in the pending list.
Unacked(g, i) == i \in 1 .. Top /\ (i > delivered[g] \/ pending[g][i] > 0)

PendingOf(g) == {i \in Ids : pending[g][i] > 0}
InHands(g) == UNION {batch[w] : w \in {v \in Workers : Home(v) = g}}

\* XADD of one event.  The bound on entries stands below STREAM_HARD_CAP.
Append1(e, only) ==
    /\ Top < MaxEntries
    /\ stream' = Append(stream, [event |-> e, only |-> only])

\* One of the few things that may go wrong, as long as the bound allows it.
Fault == faults < MaxFaults /\ faults' = faults + 1

NoTrim == [on |-> FALSE, todo |-> {}, last |-> [g \in Groups |-> 0],
           busy |-> {}, floor |-> 0]

Init ==
    /\ outbox = [e \in Events |-> "none"]
    /\ attempts = [e \in Events |-> 0]
    /\ held = [r \in Replicas |-> {}]
    /\ unsent = [r \in Replicas |-> {}]
    /\ sent = [r \in Replicas |-> {}]
    /\ refused = [r \in Replicas |-> {}]
    /\ stream = <<>>
    /\ lo = 1
    /\ delivered = [g \in Groups |-> 0]
    /\ pending = [g \in Groups |-> [i \in Ids |-> 0]]
    /\ step = [w \in Workers |-> "idle"]
    /\ batch = [w \in Workers |-> {}]
    /\ cur = [w \in Workers |-> 0]
    /\ seen = [w \in Workers |-> {}]
    /\ known = [w \in Workers |-> {}]
    /\ marks = [g \in Groups |-> {}]
    /\ done = [g \in Groups |-> {}]
    /\ dlq = {}
    /\ dlqTop = 0
    /\ buried = {}
    /\ retry = [a \in Retriers |-> {}]
    /\ resent = [a \in Retriers |-> {}]
    /\ aged = 0
    /\ trim = NoTrim
    /\ trims = 0
    /\ faults = 0

-----------------------------------------------------------------------------
(* Publishing: the outbox and its dispatchers.                              *)

\* A business transaction that called publishEvent commits.
PublishEvent(e) ==
    /\ outbox[e] = "none"
    /\ outbox' = [outbox EXCEPT ![e] = "pending"]
    /\ UNCHANGED <<attempts, dispatchVars, streamVars, groupVars, workerVars,
                   handlerVars, dlqVars, retryVars, trimVars, faults>>

\* Slip: the rows another dispatcher has locked are taken too.
FreeOrLocked == {e \in Events : outbox[e] = "pending"}

\* Rows a dispatcher may take: unpublished, not in quarantine, and not locked
\* by another dispatcher (FOR UPDATE SKIP LOCKED).
Free == {e \in Events : outbox[e] = "pending"} \ UNION {held[q] : q \in Replicas}

SelectRows(r) ==
    /\ held[r] = {}
    /\ Free # {}
    /\ held' = [held EXCEPT ![r] = FirstOf(Free, BatchSize)]
    /\ unsent' = [unsent EXCEPT ![r] = FirstOf(Free, BatchSize)]
    /\ UNCHANGED <<outboxVars, sent, refused, streamVars, groupVars, workerVars,
                   handlerVars, dlqVars, retryVars, trimVars, faults>>

\* Redis accepts the next XADD of the pipeline.
XaddAccepted(r) ==
    \E e \in Events \ Poison :
        /\ IsFirst(e, unsent[r])
        /\ Append1(e, Everyone)
        /\ unsent' = [unsent EXCEPT ![r] = @ \ {e}]
        /\ sent' = [sent EXCEPT ![r] = @ \cup {e}]
        /\ UNCHANGED <<outboxVars, held, refused, lo, groupVars, workerVars,
                       handlerVars, dlqVars, retryVars, trimVars, faults>>

\* Slip: no refusal is ever charged to the row.
XaddRefusedFree(r) ==
    \E e \in Poison :
        /\ IsFirst(e, unsent[r])
        /\ unsent' = [unsent EXCEPT ![r] = @ \ {e}]
        /\ UNCHANGED <<outboxVars, held, sent, refused, streamVars, groupVars,
                       workerVars, handlerVars, dlqVars, retryVars, trimVars, faults>>

\* Redis refuses the command itself: this row will be charged an attempt.
XaddRefused(r) ==
    \E e \in Poison :
        /\ IsFirst(e, unsent[r])
        /\ unsent' = [unsent EXCEPT ![r] = @ \ {e}]
        /\ refused' = [refused EXCEPT ![r] = @ \cup {e}]
        /\ UNCHANGED <<outboxVars, held, sent, streamVars, groupVars, workerVars,
                       handlerVars, dlqVars, retryVars, trimVars, faults>>

\* The reply to the XADD is missing or is some other error, a connection lost
\* under this command: the row is charged as if it were refused, whether or not
\* Redis has added the entry.
XaddUnanswered(r) ==
    /\ Fault
    /\ \E e \in Events :
        /\ IsFirst(e, unsent[r])
        /\ unsent' = [unsent EXCEPT ![r] = @ \ {e}]
        /\ refused' = [refused EXCEPT ![r] = @ \cup {e}]
        /\ UNCHANGED stream \/ (e \notin Poison /\ Append1(e, Everyone))
    /\ UNCHANGED <<outboxVars, held, sent, lo, groupVars, workerVars, handlerVars,
                   dlqVars, retryVars, trimVars>>

\* Redis answers with a state of its own (OOM, LOADING, READONLY...): the row
\* is neither published nor charged.
XaddSystemic(r) ==
    /\ Fault
    /\ \E e \in Events :
        /\ IsFirst(e, unsent[r])
        /\ unsent' = [unsent EXCEPT ![r] = @ \ {e}]
    /\ UNCHANGED <<outboxVars, held, sent, refused, streamVars, groupVars,
                   workerVars, handlerVars, dlqVars, retryVars, trimVars>>

\* What the row says once the pass of r has updated it.
RowAfter(r, e) ==
    IF e \in sent[r] THEN "published"
    ELSE IF e \in refused[r] /\ attempts[e] + 1 >= OutboxMaxAttempts
         THEN "quarantined"
         ELSE outbox[e]

\* Every command has answered: mark the rows and commit, releasing the locks.
CommitRows(r) ==
    /\ held[r] # {} /\ unsent[r] = {}
    /\ outbox' = [e \in Events |-> RowAfter(r, e)]
    /\ attempts' = [e \in Events |->
                      IF e \in refused[r] THEN attempts[e] + 1 ELSE attempts[e]]
    /\ held' = [held EXCEPT ![r] = {}]
    /\ sent' = [sent EXCEPT ![r] = {}]
    /\ refused' = [refused EXCEPT ![r] = {}]
    /\ UNCHANGED <<unsent, streamVars, groupVars, workerVars, handlerVars,
                   dlqVars, retryVars, trimVars, faults>>

\* pipeline.exec itself throws, or the database is lost: the transaction rolls
\* back, its rows wait for another pass, its entries stay in the stream.  An
\* error of a single command does not come this way (XaddUnanswered).
DispatchFails(r) ==
    /\ held[r] # {}
    /\ Fault
    /\ held' = [held EXCEPT ![r] = {}]
    /\ unsent' = [unsent EXCEPT ![r] = {}]
    /\ sent' = [sent EXCEPT ![r] = {}]
    /\ refused' = [refused EXCEPT ![r] = {}]
    /\ UNCHANGED <<outboxVars, streamVars, groupVars, workerVars, handlerVars,
                   dlqVars, retryVars, trimVars>>

\* Maintenance deletes a row published long ago.
PruneOutbox(e) ==
    /\ outbox[e] = "published"
    /\ outbox' = [outbox EXCEPT ![e] = "deleted"]
    /\ UNCHANGED <<attempts, dispatchVars, streamVars, groupVars, workerVars,
                   handlerVars, dlqVars, retryVars, trimVars, faults>>

-----------------------------------------------------------------------------
(* Consuming: worker loops over the consumer groups.                        *)

\* A worker gets a non-empty reply: nothing is known about its events yet.
StartBatch(w, ids) ==
    /\ step' = [step EXCEPT ![w] = "skim"]
    /\ batch' = [batch EXCEPT ![w] = ids]
    /\ seen' = [seen EXCEPT ![w] = {}]
    /\ known' = [known EXCEPT ![w] = marks[Home(w)]]

\* XREADGROUP with '>': up to ReadCount entries nobody in the group has got.
ReadGroup(w) ==
    LET g == Home(w)
        new == FirstOf({i \in Ids : i > delivered[g] /\ i >= lo /\ i <= Top},
                       ReadCount)
    IN  /\ step[w] = "idle"
        /\ new # {}
        /\ \E last \in new :
             /\ \A i \in new : i <= last
             /\ delivered' = [delivered EXCEPT ![g] = last]
        /\ pending' = [pending EXCEPT ![g] =
                         [i \in Ids |-> IF i \in new THEN 1 ELSE @[i]]]
        /\ StartBatch(w, new)
        /\ UNCHANGED <<outboxVars, dispatchVars, streamVars, cur, handlerVars,
                       dlqVars, retryVars, trimVars, faults>>

\* Slip: an entry that has used up its deliveries is not reclaimed.
ClaimableBelowMax(g) == {i \in PendingOf(g) : pending[g][i] < MaxAttempts}

\* Any pending entry may be reclaimed, whoever has got it.
Claimable(g) == PendingOf(g)

\* XAUTOCLAIM: entries idle for retryIdleMs pass to this worker, whoever had
\* them, and their delivery count grows.  Entries nobody works on are always
\* idle in the end; entries of a live worker only when its batch is slow,
\* which counts as a fault.
ReclaimStale(w) ==
    LET g == Home(w)
    IN  /\ step[w] = "idle"
        /\ \E ids \in SUBSET Claimable(g) \ {{}} :
             /\ Cardinality(ids) <= ReadCount
             /\ IF ids \cap InHands(g) = {} THEN UNCHANGED faults ELSE Fault
             /\ pending' = [pending EXCEPT ![g] =
                              [i \in Ids |-> IF i \in ids THEN @[i] + 1 ELSE @[i]]]
             /\ StartBatch(w, ids)
        /\ UNCHANGED <<outboxVars, dispatchVars, streamVars, delivered, cur,
                       handlerVars, dlqVars, retryVars, trimVars>>

\* XACK of a set of entries.
Xack(g, ids) ==
    pending' = [pending EXCEPT ![g] =
                  [i \in Ids |-> IF i \in ids THEN 0 ELSE @[i]]]

\* Entries of other subscribers and of other types are acknowledged unread.
AckSkipped(w) ==
    LET g == Home(w)
        skipped == {i \in batch[w] : ~Addressed(i, g)}
    IN  /\ step[w] = "skim"
        /\ Xack(g, skipped)
        /\ batch' = [batch EXCEPT ![w] = @ \ skipped]
        /\ step' = [step EXCEPT ![w] =
                      IF batch[w] = skipped THEN "idle" ELSE "unread"]
        /\ UNCHANGED <<outboxVars, dispatchVars, streamVars, delivered, cur, seen,
                       known, handlerVars, dlqVars, retryVars, trimVars, faults>>

\* Slip: a new batch trusts the marks of nobody.
RereadWhenOld(w) == FALSE

\* checkedAt = 0: the set has not been read since the batch came.
MustRead(w) == step[w] = "unread"

\* processed.has: the first event of a batch always reads the marks, a later
\* one only when the last reading is older than PROCESSED_RECHECK_MS.
CheckProcessed(w) ==
    /\ step[w] \in {"unread", "check"}
    /\ \E fresh \in BOOLEAN :
         /\ MustRead(w) => fresh
         /\ seen' = [seen EXCEPT ![w] = IF fresh THEN @ \cup marks[Home(w)] ELSE @]
    /\ \E i \in batch[w] :
         /\ IsFirst(i, batch[w])
         /\ cur' = [cur EXCEPT ![w] = i]
         /\ step' = [step EXCEPT ![w] =
                       IF stream[i].event \in seen'[w] THEN "duplicate" ELSE "handle"]
    /\ UNCHANGED <<outboxVars, dispatchVars, streamVars, groupVars, batch, known,
                   handlerVars, dlqVars, retryVars, trimVars, faults>>

\* The worker is done with its current entry and turns to the next one.
NextEntry(w) ==
    /\ batch' = [batch EXCEPT ![w] = @ \ {cur[w]}]
    /\ step' = [step EXCEPT ![w] = IF batch[w] = {cur[w]} THEN "idle" ELSE "check"]
    /\ cur' = [cur EXCEPT ![w] = 0]
    /\ UNCHANGED <<seen, known>>

\* XACK of the current entry: it was a duplicate, it was processed, or it is
\* in the dead-letter stream.
AckEntry(w) ==
    /\ step[w] \in {"duplicate", "ack", "ackDlq"}
    /\ Xack(Home(w), {cur[w]})
    /\ NextEntry(w)
    /\ UNCHANGED <<outboxVars, dispatchVars, streamVars, delivered, handlerVars,
                   dlqVars, retryVars, trimVars, faults>>

\* subscriber.handle returns.
HandleReturns(w) ==
    /\ step[w] = "handle"
    /\ done' = [done EXCEPT ![Home(w)] = @ \cup {stream[cur[w]].event}]
    /\ step' = [step EXCEPT ![w] = "mark"]
    /\ UNCHANGED <<outboxVars, dispatchVars, streamVars, groupVars, batch, cur,
                   seen, known, marks, dlqVars, retryVars, trimVars, faults>>

\* Slip: the mark is written even when the handler throws.
HandleThrowsMarked(w) ==
    /\ step[w] = "handle"
    /\ marks' = [marks EXCEPT ![Home(w)] = @ \cup {stream[cur[w]].event}]
    /\ step' = [step EXCEPT ![w] = "failed"]
    /\ UNCHANGED <<outboxVars, dispatchVars, streamVars, groupVars, batch, cur,
                   seen, known, done, dlqVars, retryVars, trimVars, faults>>

\* subscriber.handle throws.
HandleThrows(w) ==
    /\ step[w] = "handle"
    /\ step' = [step EXCEPT ![w] = "failed"]
    /\ UNCHANGED <<outboxVars, dispatchVars, streamVars, groupVars, batch, cur,
                   seen, known, handlerVars, dlqVars, retryVars, trimVars, faults>>

\* The mark is written only after the handler has returned.
MarkProcessed(w) ==
    LET e == stream[cur[w]].event
    IN  /\ step[w] = "mark"
        /\ marks' = [marks EXCEPT ![Home(w)] = @ \cup {e}]
        /\ seen' = [seen EXCEPT ![w] = @ \cup {e}]
        /\ step' = [step EXCEPT ![w] = "ack"]
        /\ UNCHANGED <<outboxVars, dispatchVars, streamVars, groupVars, batch, cur,
                       known, done, dlqVars, retryVars, trimVars, faults>>

\* Writing the mark or acknowledging throws inside the try block: the event is
\* treated as failed although its handler has returned.
MarkOrAckThrows(w) ==
    /\ step[w] \in {"mark", "ack"}
    /\ Fault
    /\ step' = [step EXCEPT ![w] = "failed"]
    /\ UNCHANGED <<outboxVars, dispatchVars, streamVars, groupVars, batch, cur,
                   seen, known, handlerVars, dlqVars, retryVars, trimVars>>

\* deliveryCount: an entry no longer pending counts as delivered once.
Deliveries(g, i) == IF pending[g][i] = 0 THEN 1 ELSE pending[g][i]

\* Too few deliveries: the entry stays pending and will be reclaimed.
LeaveForRetry(w) ==
    /\ step[w] = "failed"
    /\ Deliveries(Home(w), cur[w]) < MaxAttempts
    /\ NextEntry(w)
    /\ UNCHANGED <<outboxVars, dispatchVars, streamVars, groupVars, handlerVars,
                   dlqVars, retryVars, trimVars, faults>>

GiveUp(w) ==
    /\ step[w] = "failed"
    /\ Deliveries(Home(w), cur[w]) >= MaxAttempts
    /\ step' = [step EXCEPT ![w] = "toDlq"]
    /\ UNCHANGED <<outboxVars, dispatchVars, streamVars, groupVars, batch, cur,
                   seen, known, handlerVars, dlqVars, retryVars, trimVars, faults>>

SendToDlq(w) ==
    LET e == stream[cur[w]].event
    IN  /\ step[w] = "toDlq"
        /\ dlqTop' = dlqTop + 1
        /\ dlq' = dlq \cup {[id |-> dlqTop + 1, event |-> e, group |-> Home(w)]}
        /\ buried' = buried \cup {<<e, Home(w)>>}
        /\ step' = [step EXCEPT ![w] = "ackDlq"]
        /\ UNCHANGED <<outboxVars, dispatchVars, streamVars, groupVars, batch, cur,
                       seen, known, handlerVars, retryVars, trimVars, faults>>

\* An exception that leaves handleEntries: the batch is forgotten, its entries
\* stay pending, the loop goes on after a pause.
Forget(W) ==
    /\ step' = [w \in Workers |-> IF w \in W THEN "idle" ELSE step[w]]
    /\ batch' = [w \in Workers |-> IF w \in W THEN {} ELSE batch[w]]
    /\ cur' = [w \in Workers |-> IF w \in W THEN 0 ELSE cur[w]]
    /\ seen' = [w \in Workers |-> IF w \in W THEN {} ELSE seen[w]]
    /\ known' = [w \in Workers |-> IF w \in W THEN {} ELSE known[w]]

WorkerAborts(w) ==
    /\ step[w] \in {"skim", "unread", "check", "duplicate", "failed", "toDlq", "ackDlq"}
    /\ Fault
    /\ Forget({w})
    /\ UNCHANGED <<outboxVars, dispatchVars, streamVars, groupVars, handlerVars,
                   dlqVars, retryVars, trimVars>>

\* The process dies: its dispatcher transaction rolls back, its workers lose
\* their batches; a new process takes its place.
Crash(r) ==
    /\ held[r] # {} \/ \E w \in Loops(r) : step[w] # "idle"
    /\ Fault
    /\ held' = [held EXCEPT ![r] = {}]
    /\ unsent' = [unsent EXCEPT ![r] = {}]
    /\ sent' = [sent EXCEPT ![r] = {}]
    /\ refused' = [refused EXCEPT ![r] = {}]
    /\ Forget(Loops(r))
    /\ UNCHANGED <<outboxVars, streamVars, groupVars, handlerVars, dlqVars,
                   retryVars, trimVars>>

-----------------------------------------------------------------------------
(* The dead-letter stream and maintenance.                                  *)

\* retryDlqEntry reads the dead letter.
RetryRead(a) ==
    /\ retry[a] = {}
    /\ \E d \in dlq : retry' = [retry EXCEPT ![a] = {d}]
    /\ UNCHANGED <<outboxVars, dispatchVars, streamVars, groupVars, workerVars,
                   handlerVars, dlqVars, resent, trimVars, faults>>

\* It returns the event to the stream, addressed to the one that failed.
RetryXadd(a) ==
    \E d \in retry[a] :
        /\ d.id \notin resent[a]
        /\ Append1(d.event, d.group)
        /\ resent' = [resent EXCEPT ![a] = {d.id}]
        /\ UNCHANGED <<outboxVars, dispatchVars, lo, groupVars, workerVars,
                       handlerVars, dlqVars, retry, trimVars, faults>>

\* Slip: the dead letter is deleted whether or not it has been returned.
RetryXdelEarly(a) ==
    \E d \in retry[a] :
        /\ dlq' = dlq \ {d}
        /\ retry' = [retry EXCEPT ![a] = {}]
        /\ resent' = [resent EXCEPT ![a] = {}]
        /\ UNCHANGED <<outboxVars, dispatchVars, streamVars, groupVars, workerVars,
                       handlerVars, dlqTop, buried, trimVars, faults>>

\* Only then is the dead letter deleted.
RetryXdel(a) ==
    \E d \in retry[a] :
        /\ d.id \in resent[a]
        /\ dlq' = dlq \ {d}
        /\ retry' = [retry EXCEPT ![a] = {}]
        /\ resent' = [resent EXCEPT ![a] = {}]
        /\ UNCHANGED <<outboxVars, dispatchVars, streamVars, groupVars, workerVars,
                       handlerVars, dlqTop, buried, trimVars, faults>>

\* The retrier fails or dies on the way.
RetryFails(a) ==
    /\ retry[a] # {}
    /\ Fault
    /\ retry' = [retry EXCEPT ![a] = {}]
    /\ resent' = [resent EXCEPT ![a] = {}]
    /\ UNCHANGED <<outboxVars, dispatchVars, streamVars, groupVars, workerVars,
                   handlerVars, dlqVars, trimVars>>

\* The next entry becomes older than the retention time.
AgeEntry ==
    /\ aged < Top /\ aged < MaxAged
    /\ aged' = aged + 1
    /\ UNCHANGED <<outboxVars, dispatchVars, streamVars, groupVars, workerVars,
                   handlerVars, dlqVars, retryVars, trim, trims, faults>>

\* trimThreshold: the bound by time, and XINFO GROUPS of the stream.
TrimStart ==
    /\ ~trim.on /\ Top > 0
    /\ trims < TrimRounds
    /\ trim' = [on |-> TRUE, todo |-> Groups, last |-> delivered,
                busy |-> {g \in Groups : PendingOf(g) # {}}, floor |-> aged + 1]
    /\ trims' = trims + 1
    /\ UNCHANGED <<outboxVars, dispatchVars, streamVars, groupVars, workerVars,
                   handlerVars, dlqVars, retryVars, aged, faults>>

\* Slip: only what the group has not been given yet holds the stream.
KeepFromUndelivered(g, keep) == keep = trim.last[g] + 1

\* XPENDING is asked only for a group that had pending entries in the reply of
\* XINFO, and answers with those of now.
KeepFrom(g, keep) ==
    IF g \in trim.busy /\ PendingOf(g) # {}
    THEN IsFirst(keep, PendingOf(g))
    ELSE keep = trim.last[g] + 1

\* groupsFloor looks at one group of that reply.
TrimGroup(g) ==
    /\ trim.on
    /\ g \in trim.todo
    /\ \E keep \in 1 .. MaxEntries + 1 :
         /\ KeepFrom(g, keep)
         /\ trim' = [on |-> TRUE, todo |-> trim.todo \ {g}, last |-> trim.last,
                     busy |-> trim.busy,
                     floor |-> IF keep < trim.floor THEN keep ELSE trim.floor]
    /\ UNCHANGED <<outboxVars, dispatchVars, streamVars, groupVars, workerVars,
                   handlerVars, dlqVars, retryVars, aged, trims, faults>>

\* XTRIM MINID ~: entries below the floor go, or fewer of them.
TrimCut ==
    /\ trim.on
    /\ trim.todo = {}
    /\ \E kept \in lo .. MaxEntries + 1 :
         /\ kept = lo \/ kept <= trim.floor
         /\ lo' = kept
    /\ trim' = NoTrim
    /\ UNCHANGED <<outboxVars, dispatchVars, stream, groupVars, workerVars,
                   handlerVars, dlqVars, retryVars, aged, trims, faults>>

\* Marks live longer than stream entries: a mark old enough to be deleted
\* belongs to an event whose entry is past the retention time.
PruneMark(g, e) ==
    /\ e \in marks[g]
    /\ \E i \in 1 .. aged : stream[i].event = e
    /\ marks' = [marks EXCEPT ![g] = @ \ {e}]
    /\ known' = [w \in Workers |-> IF Home(w) = g THEN known[w] \ {e} ELSE known[w]]
    /\ UNCHANGED <<outboxVars, dispatchVars, streamVars, groupVars, step, batch,
                   cur, seen, done, dlqVars, retryVars, trimVars, faults>>

-----------------------------------------------------------------------------

DispatcherStep(r) ==
    \/ SelectRows(r) \/ XaddAccepted(r) \/ XaddRefused(r) \/ CommitRows(r)

ProcessingStep(w) ==
    \/ AckSkipped(w) \/ CheckProcessed(w) \/ AckEntry(w)
    \/ HandleReturns(w) \/ HandleThrows(w) \/ MarkProcessed(w)
    \/ LeaveForRetry(w) \/ GiveUp(w) \/ SendToDlq(w)

WorkerStep(w) == ReadGroup(w) \/ ReclaimStale(w) \/ ProcessingStep(w)

Next ==
    \/ \E e \in Events : PublishEvent(e) \/ PruneOutbox(e)
    \/ \E r \in Replicas :
         \/ DispatcherStep(r) \/ XaddUnanswered(r) \/ XaddSystemic(r)
         \/ DispatchFails(r) \/ Crash(r)
    \/ \E w \in Workers : WorkerStep(w) \/ MarkOrAckThrows(w) \/ WorkerAborts(w)
    \/ \E a \in Retriers :
         RetryRead(a) \/ RetryXadd(a) \/ RetryXdel(a) \/ RetryFails(a)
    \/ AgeEntry \/ TrimStart \/ TrimCut
    \/ \E g \in Groups : TrimGroup(g) \/ \E e \in Events : PruneMark(g, e)

Spec == Init /\ [][Next]_vars

\* Both loops of a live process keep running (startDispatcher, runSubscriber);
\* a process that dies is started again.  Nothing forces a fault, an
\* administrator's retry or a maintenance job to happen.
FairSpec ==
    /\ Spec
    /\ \A r \in Replicas : WF_vars(DispatcherStep(r))
    /\ \A w \in Workers : WF_vars(WorkerStep(w))

-----------------------------------------------------------------------------
(* Properties.                                                              *)

Rows == {"none", "pending", "published", "quarantined", "deleted"}
Steps == {"idle", "skim", "unread", "check", "duplicate", "handle", "mark",
          "ack", "failed", "toDlq", "ackDlq"}
TrimJob == [on : BOOLEAN, todo : SUBSET Groups, last : [Groups -> Nat],
            busy : SUBSET Groups, floor : Nat]

\* Every variable keeps its type.
TypeOK ==
    /\ outbox \in [Events -> Rows]
    /\ attempts \in [Events -> Nat]
    /\ held \in [Replicas -> SUBSET Events]
    /\ unsent \in [Replicas -> SUBSET Events]
    /\ sent \in [Replicas -> SUBSET Events]
    /\ refused \in [Replicas -> SUBSET Events]
    /\ stream \in Seq(Entry) /\ Top <= MaxEntries
    /\ lo \in Nat
    /\ delivered \in [Groups -> Nat]
    /\ pending \in [Groups -> [Ids -> Nat]]
    /\ step \in [Workers -> Steps]
    /\ batch \in [Workers -> SUBSET Ids]
    /\ cur \in [Workers -> Nat]
    /\ seen \in [Workers -> SUBSET Events]
    /\ known \in [Workers -> SUBSET Events]
    /\ marks \in [Groups -> SUBSET Events]
    /\ done \in [Groups -> SUBSET Events]
    /\ dlq \in SUBSET DeadLetter
    /\ dlqTop \in Nat
    /\ buried \in SUBSET (Events \X Groups)
    /\ retry \in [Retriers -> SUBSET DeadLetter]
    /\ resent \in [Retriers -> SUBSET Nat]
    /\ aged \in Nat
    /\ trim \in TrimJob
    /\ trims \in Nat
    /\ faults \in Nat

\* An entry of the stream that will still bring e to g.
InFlight(e, g) ==
    \E i \in lo .. Top : stream[i].event = e /\ Addressed(i, g) /\ Unacked(g, i)

IsDead(e, g) == \E d \in dlq : d.event = e /\ d.group = g

\* Once the outbox has forgotten about an event, each subscriber that wants it
\* has handled it, or will still get it from the stream, or has its dead
\* letter -- whatever crashed, was republished, reclaimed, retried, trimmed or
\* pruned in between.
NoEventLost ==
    \A e \in Events : outbox[e] \in {"published", "deleted"} =>
        \A g \in Wants[e] : e \in done[g] \/ InFlight(e, g) \/ IsDead(e, g)

\* groupsFloor is computed from replies of different moments while the groups
\* go on reading, yet the stream is never cut above an entry that a group has
\* not acknowledged.
TrimKeepsUnacked ==
    \A g \in Groups : \A i \in 1 .. Top : Unacked(g, i) => lo <= i

\* A mark cuts off every later delivery: an event that was marked when a batch
\* arrived is not handled from that batch, whatever the batch remembers of its
\* earlier readings.
NoRerunOfMarked ==
    \A w \in Workers : step[w] = "handle" => stream[cur[w]].event \notin known[w]

\* A returned dead letter is handled only by a subscriber that once failed on
\* that event, even when the marks of the others are long deleted.
RetryWakesOnlyItsSubscriber ==
    \A w \in Workers : step[w] = "handle" =>
        LET n == stream[cur[w]]
        IN  n.only # Everyone => <<n.event, Home(w)>> \in buried

\* Parallel dispatchers do not publish the same row: each copy of an event in
\* the stream beyond the first is owed to a fault.
CopiesOf(e) == {i \in 1 .. Top : stream[i] = [event |-> e, only |-> Everyone]}
OneCopyPerFault == \A e \in Events : Cardinality(CopiesOf(e)) <= 1 + faults

\* A row Redis refuses for its own sake is put in quarantine and does not hold
\* the others back: every other committed row is published, unless as many
\* faults as a row has attempts have come between.
OutboxDrains ==
    \A e \in Events :
        outbox[e] = "pending" ~>
            \/ outbox[e] = "quarantined" /\ (e \in Poison \/ OutboxMaxAttempts <= faults)
            \/ outbox[e] \in {"published", "deleted"} /\ e \notin Poison

\* The promise of the bus as Delivery states it.
Owed == {p \in Events \X Groups :
           p[2] \in Wants[p[1]] /\ (outbox[p[1]] = "pending" \/ InFlight(p[1], p[2]))}

DonePairs == {p \in Events \X Groups : p[1] \in done[p[2]]}
DeadPairs == {p \in Events \X Groups : IsDead(p[1], p[2])}
Parked == {e \in Events : outbox[e] = "quarantined"}

Promise == INSTANCE Delivery WITH
    owed <- Owed, done <- DonePairs, dead <- DeadPairs, parked <- Parked

\* The bus delivers at least once: no step makes a pair vanish.
DeliversAtLeastOnce == Promise!AtLeastOnce

\* Every owed pair is settled in the end.
DeliversPromptly == Promise!Prompt

\* What the comment on reclaimStale says: deliveries are counted, and after
\* maxAttempts the event goes to the dead-letter stream.  So no handler is
\* entered for a delivery beyond that count.
NoDeliveryBeyondMax ==
    \A w \in Workers : step[w] = "handle" => pending[Home(w)][cur[w]] <= MaxAttempts
=============================================================================
