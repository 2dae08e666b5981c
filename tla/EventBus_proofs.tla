--------------------------- MODULE EventBus_proofs ---------------------------
(***************************************************************************)
(* Proofs about EventBus, for every choice of its constants.               *)
(***************************************************************************)
EXTENDS EventBusInductive, FiniteSetTheorems, TLAPS

USE IdsAssumption, WantsAssumption, EveryoneAssumption, LimitsAssumption

-----------------------------------------------------------------------------
(* Types.                                                                   *)

\* Every variable keeps its type, and ids stay in range: the ground the other
\* invariants stand on.
LEMMA InitTyped == Init => TypeOK /\ IdsInRange
  BY DEF Init, TypeOK, IdsInRange, NoTrim, TrimJob, Rows, Steps, Entry, Top, Ids,
         Workers, Busy, DeadLetter

\* A worker's home is a registered group.
LEMMA HomeIsGroup == \A w \in Workers : Home(w) \in Groups
  BY DEF Workers, Home

\* A worker with a current entry holds an entry that exists.
LEMMA CurrentEntry ==
    ASSUME TypeOK, IdsInRange, NEW w \in Workers, step[w] \in Busy
    PROVE  /\ cur[w] \in 1 .. Top
           /\ stream[cur[w]] \in Entry
           /\ stream[cur[w]].event \in Events
  <1>1. cur[w] \in 1 .. Top
    BY DEF IdsInRange
  <1>2. stream[cur[w]] \in Entry
    BY <1>1 DEF TypeOK, Top
  <1> QED BY <1>1, <1>2 DEF Entry

\* What adding an entry does to the stream.
LEMMA AppendEntry ==
    ASSUME TypeOK, NEW e \in Events, NEW only \in Groups \cup {Everyone},
           Append1(e, only)
    PROVE  /\ stream' \in Seq(Entry)
           /\ Top' = Top + 1 /\ Top' <= MaxEntries
           /\ \A i \in 1 .. Top : stream'[i] = stream[i]
           /\ stream'[Top + 1] = [event |-> e, only |-> only]
  BY DEF TypeOK, Append1, Top, Entry

\* What XREADGROUP delivers.
NewTo(g) ==
    FirstOf({i \in Ids : i > delivered[g] /\ i >= lo /\ i <= Top}, ReadCount)

\* What one XREADGROUP hands out: existing entries the group had not been given.
LEMMA ReadEntries ==
    ASSUME TypeOK, NEW w \in Workers, ReadGroup(w)
    PROVE  /\ step[w] = "idle"
           /\ NewTo(Home(w)) \subseteq Ids \cap 1 .. Top
           /\ \A i \in NewTo(Home(w)) : i > delivered[Home(w)]
           /\ \E last \in NewTo(Home(w)) :
                /\ \A i \in NewTo(Home(w)) : i <= last
                /\ delivered' = [delivered EXCEPT ![Home(w)] = last]
           /\ pending' = [pending EXCEPT ![Home(w)] =
                            [i \in Ids |-> IF i \in NewTo(Home(w)) THEN 1
                                           ELSE pending[Home(w)][i]]]
           /\ StartBatch(w, NewTo(Home(w)))
  <1> DEFINE new == NewTo(Home(w))
  <1>1. new \subseteq {i \in Ids : i > delivered[Home(w)] /\ i >= lo /\ i <= Top}
    BY DEF NewTo, FirstOf
  <1>2. ReadGroup(w) => /\ step[w] = "idle"
                        /\ \E last \in new :
                             /\ \A i \in new : i <= last
                             /\ delivered' = [delivered EXCEPT ![Home(w)] = last]
                        /\ pending' = [pending EXCEPT ![Home(w)] =
                             [i \in Ids |-> IF i \in new THEN 1
                                            ELSE pending[Home(w)][i]]]
                        /\ StartBatch(w, new)
    BY DEF ReadGroup, NewTo
  <1>3. new \subseteq Ids \cap 1 .. Top /\ \A i \in new : i > delivered[Home(w)]
    BY <1>1 DEF Ids, TypeOK, Top
  <1> QED BY <1>1, <1>2, <1>3

\* Every step keeps the types and the ranges of ids.
LEMMA StepTyped ==
    ASSUME TypeOK, IdsInRange, Next
    PROVE  TypeOK' /\ IdsInRange'
  <1> USE HomeIsGroup
      DEF outboxVars, dispatchVars, streamVars, groupVars, workerVars, handlerVars,
          dlqVars, retryVars, trimVars, Top
  <1>1. ASSUME NEW e \in Events, PublishEvent(e) PROVE TypeOK' /\ IdsInRange'
    <2>1. TypeOK'
      BY <1>1 DEF TypeOK, PublishEvent, Rows
    <2>2. IdsInRange'
      BY <1>1 DEF TypeOK, IdsInRange, PublishEvent
    <2> QED BY <2>1, <2>2
  <1>2. ASSUME NEW e \in Events, PruneOutbox(e) PROVE TypeOK' /\ IdsInRange'
    <2>1. TypeOK'
      BY <1>2 DEF TypeOK, PruneOutbox, Rows
    <2>2. IdsInRange'
      BY <1>2 DEF TypeOK, IdsInRange, PruneOutbox
    <2> QED BY <2>1, <2>2
  <1>3. ASSUME NEW r \in Replicas, SelectRows(r) PROVE TypeOK' /\ IdsInRange'
    <2>1. TypeOK'
      BY <1>3 DEF TypeOK, SelectRows, Free, FirstOf
    <2>2. IdsInRange'
      BY <1>3 DEF TypeOK, IdsInRange, SelectRows, Free, FirstOf
    <2> QED BY <2>1, <2>2
  <1>4. ASSUME NEW r \in Replicas, XaddAccepted(r) PROVE TypeOK' /\ IdsInRange'
    <2>1. TypeOK'
      BY <1>4 DEF TypeOK, XaddAccepted, Append1, IsFirst, Entry
    <2>2. IdsInRange'
      <3>1. Top' = Top + 1
        BY <1>4, AppendEntry DEF XaddAccepted
      <3>2. Top \in Nat /\ lo \in Nat /\ aged \in Nat
        BY DEF TypeOK
      <3>3. UNCHANGED <<lo, aged, trim, batch, step, cur, delivered, pending>>
        BY <1>4 DEF XaddAccepted
      <3> QED BY <3>1, <3>2, <3>3 DEF TypeOK, TrimJob, IdsInRange
    <2> QED BY <2>1, <2>2
  <1>5. ASSUME NEW r \in Replicas, XaddRefused(r) PROVE TypeOK' /\ IdsInRange'
    <2>1. TypeOK'
      BY <1>5 DEF TypeOK, XaddRefused, IsFirst
    <2>2. IdsInRange'
      BY <1>5 DEF TypeOK, IdsInRange, XaddRefused, IsFirst
    <2> QED BY <2>1, <2>2
  <1>5a. ASSUME NEW r \in Replicas, XaddUnanswered(r) PROVE TypeOK' /\ IdsInRange'
    <2>1. PICK e \in Events :
            /\ unsent' = [unsent EXCEPT ![r] = @ \ {e}]
            /\ refused' = [refused EXCEPT ![r] = @ \cup {e}]
            /\ UNCHANGED stream \/ Append1(e, Everyone)
      BY <1>5a DEF XaddUnanswered
    <2>2. UNCHANGED <<lo, aged, trim, batch, step, cur, delivered, pending>>
      BY <1>5a DEF XaddUnanswered
    <2>3. stream' \in Seq(Entry) /\ Top' <= MaxEntries
      <3>1. ASSUME Append1(e, Everyone)
            PROVE  stream' \in Seq(Entry) /\ Top' <= MaxEntries
        BY <3>1, AppendEntry, LimitsAssumption DEF Append1, Entry, TypeOK
      <3> QED BY <2>1, <3>1 DEF TypeOK
    <2>4. TypeOK'
      BY <1>5a, <2>1, <2>3 DEF TypeOK, XaddUnanswered, Fault
    <2>5. Top' \in {Top, Top + 1}
      BY <2>1, AppendEntry
    <2>6. Top \in Nat /\ lo \in Nat /\ aged \in Nat
      BY DEF TypeOK
    <2>7. IdsInRange'
      BY <2>2, <2>5, <2>6 DEF TypeOK, TrimJob, IdsInRange
    <2> QED BY <2>4, <2>7
  <1>6. ASSUME NEW r \in Replicas, XaddSystemic(r) PROVE TypeOK' /\ IdsInRange'
    <2>1. TypeOK'
      BY <1>6 DEF TypeOK, XaddSystemic, IsFirst, Fault
    <2>2. IdsInRange'
      BY <1>6 DEF TypeOK, IdsInRange, XaddSystemic, IsFirst, Fault
    <2> QED BY <2>1, <2>2
  <1>7. ASSUME NEW r \in Replicas, CommitRows(r) PROVE TypeOK' /\ IdsInRange'
    <2>1. TypeOK'
      BY <1>7 DEF TypeOK, CommitRows, RowAfter, Rows
    <2>2. IdsInRange'
      BY <1>7 DEF TypeOK, IdsInRange, CommitRows, RowAfter
    <2> QED BY <2>1, <2>2
  <1>8. ASSUME NEW r \in Replicas, DispatchFails(r) PROVE TypeOK' /\ IdsInRange'
    <2>1. TypeOK'
      BY <1>8 DEF TypeOK, DispatchFails, Fault
    <2>2. IdsInRange'
      BY <1>8 DEF TypeOK, IdsInRange, DispatchFails, Fault
    <2> QED BY <2>1, <2>2
  <1>9. ASSUME NEW r \in Replicas, Crash(r) PROVE TypeOK' /\ IdsInRange'
    <2>1. TypeOK'
      BY <1>9 DEF TypeOK, Crash, Forget, Fault, Loops, Steps
    <2>2. IdsInRange'
      BY <1>9 DEF TypeOK, IdsInRange, Crash, Forget, Fault, Loops, Busy
    <2> QED BY <2>1, <2>2
  <1>10. ASSUME NEW w \in Workers, ReadGroup(w) PROVE TypeOK' /\ IdsInRange'
    <2>1. TypeOK'
      <3>1. PICK last \in NewTo(Home(w)) :
                delivered' = [delivered EXCEPT ![Home(w)] = last]
        BY <1>10, ReadEntries
      <3>2. last \in Nat /\ NewTo(Home(w)) \subseteq Ids
        BY <1>10, ReadEntries DEF Ids
      <3>3. delivered' \in [Groups -> Nat] /\ pending' \in [Groups -> [Ids -> Nat]]
        <4>1. delivered' \in [Groups -> Nat]
          BY <3>1, <3>2 DEF TypeOK
        <4>2. pending' = [pending EXCEPT ![Home(w)] =
                           [i \in Ids |-> IF i \in NewTo(Home(w)) THEN 1
                                          ELSE pending[Home(w)][i]]]
          BY <1>10, ReadEntries
        <4>3. [i \in Ids |-> IF i \in NewTo(Home(w)) THEN 1
                             ELSE pending[Home(w)][i]] \in [Ids -> Nat]
          BY DEF TypeOK
        <4> QED BY <4>1, <4>2, <4>3 DEF TypeOK
      <3>4. StartBatch(w, NewTo(Home(w)))
        BY <1>10, ReadEntries
      <3>5. /\ step' \in [Workers -> Steps] /\ batch' \in [Workers -> SUBSET Ids]
            /\ seen' \in [Workers -> SUBSET Events]
            /\ known' \in [Workers -> SUBSET Events]
        BY <3>2, <3>4 DEF TypeOK, StartBatch, Steps
      <3> QED BY <1>10, <3>3, <3>5 DEF TypeOK, ReadGroup
    <2>2. IdsInRange'
      <3>1. PICK last \in NewTo(Home(w)) :
                /\ \A i \in NewTo(Home(w)) : i <= last
                /\ delivered' = [delivered EXCEPT ![Home(w)] = last]
        BY <1>10, ReadEntries
      <3>2. /\ last \in 1 .. Top /\ last > delivered[Home(w)]
            /\ NewTo(Home(w)) \subseteq 1 .. Top
        BY <1>10, ReadEntries
      <3>3. StartBatch(w, NewTo(Home(w)))
        BY <1>10, ReadEntries
      <3>4. \A v \in Workers : /\ batch'[v] \subseteq 1 .. Top
                               /\ step'[v] \in Busy => cur[v] \in batch'[v]
        BY <3>2, <3>3 DEF TypeOK, IdsInRange, StartBatch, Busy
      <3>5. pending' = [pending EXCEPT ![Home(w)] =
                          [i \in Ids |-> IF i \in NewTo(Home(w)) THEN 1
                                         ELSE pending[Home(w)][i]]]
        BY <1>10, ReadEntries
      <3>6. ASSUME NEW g \in Groups
            PROVE  /\ delivered'[g] <= Top
                   /\ \A i \in Ids : pending'[g][i] > 0 => i <= delivered'[g]
        <4>1. CASE g = Home(w)
          <5>1. delivered \in [Groups -> Nat] /\ pending \in [Groups -> [Ids -> Nat]]
            BY DEF TypeOK
          <5>2. delivered'[g] = last /\ last \in 1 .. Top
            BY <4>1, <3>1, <3>2, <5>1
          <5>3. \A i \in Ids : pending'[g][i] = IF i \in NewTo(g) THEN 1 ELSE pending[g][i]
            BY <4>1, <3>5, <5>1
          <5>4. \A i \in Ids : pending'[g][i] > 0 => i \in NewTo(g) \/ pending[g][i] > 0
            BY <5>3
          <5>5. \A i \in Ids : pending[g][i] > 0 => i <= delivered[g]
            BY DEF IdsInRange
          <5>6. \A i \in Ids : i \in NewTo(g) \/ pending[g][i] > 0 => i <= last
            <6>1. \A i \in Ids : i \in NewTo(g) => i <= last
              BY <3>1, <4>1
            <6>2. delivered[g] \in Nat /\ last \in Nat /\ delivered[g] < last
              BY <3>2, <4>1, <5>1
            <6>3. \A i \in Ids : i \in Nat
              BY DEF Ids
            <6>4. \A i \in Ids : i <= delivered[g] => i <= last
              BY <6>2, <6>3
            <6> QED BY <5>5, <6>1, <6>4
          <5> QED BY <5>2, <5>4, <5>6
        <4>2. CASE g # Home(w)
          BY <4>2, <3>1, <3>5 DEF TypeOK, IdsInRange
        <4> QED BY <4>1, <4>2
      <3> QED BY <1>10, <3>4, <3>6 DEF IdsInRange, ReadGroup
    <2> QED BY <2>1, <2>2
  <1>11. ASSUME NEW w \in Workers, ReclaimStale(w) PROVE TypeOK' /\ IdsInRange'
    <2>1. TypeOK'
      <3>1. PICK ids \in SUBSET Ids : StartBatch(w, ids)
        BY <1>11 DEF ReclaimStale, Claimable, PendingOf
      <3>2. /\ step' \in [Workers -> Steps] /\ batch' \in [Workers -> SUBSET Ids]
            /\ seen' \in [Workers -> SUBSET Events]
            /\ known' \in [Workers -> SUBSET Events]
        BY <3>1 DEF TypeOK, StartBatch, Steps
      <3>3. pending' \in [Groups -> [Ids -> Nat]] /\ faults' \in Nat
        BY <1>11 DEF TypeOK, ReclaimStale, Fault
      <3> QED BY <1>11, <3>2, <3>3 DEF TypeOK, ReclaimStale
    <2>2. IdsInRange'
      <3>1. PICK ids \in SUBSET PendingOf(Home(w)) :
              /\ StartBatch(w, ids)
              /\ pending' = [pending EXCEPT ![Home(w)] =
                   [i \in Ids |-> IF i \in ids THEN pending[Home(w)][i] + 1
                                                ELSE pending[Home(w)][i]]]
        BY <1>11 DEF ReclaimStale, Claimable
      <3>2. \A i \in ids : /\ i \in Ids /\ i <= Top
                           /\ i <= delivered[Home(w)] /\ pending[Home(w)][i] > 0
        BY DEF TypeOK, IdsInRange, PendingOf, Ids
      <3>3. \A v \in Workers : /\ batch'[v] \subseteq 1 .. Top
                               /\ step'[v] \in Busy => cur[v] \in batch'[v]
        BY <3>1, <3>2 DEF TypeOK, IdsInRange, StartBatch, Busy, Ids
      <3>4. \A g \in Groups : \A i \in Ids :
              pending'[g][i] > 0 => pending[g][i] > 0
        BY <3>1, <3>2 DEF TypeOK
      <3> QED BY <1>11, <3>3, <3>4 DEF IdsInRange, ReclaimStale
    <2> QED BY <2>1, <2>2
  <1>12. ASSUME NEW w \in Workers, AckSkipped(w) PROVE TypeOK' /\ IdsInRange'
    <2>1. TypeOK'
      BY <1>12 DEF TypeOK, AckSkipped, Xack, Steps
    <2>2. IdsInRange'
      BY <1>12 DEF TypeOK, IdsInRange, AckSkipped, Xack, Busy
    <2> QED BY <2>1, <2>2
  <1>13. ASSUME NEW w \in Workers, CheckProcessed(w) PROVE TypeOK' /\ IdsInRange'
    <2>1. TypeOK'
      <3>1. seen' \in [Workers -> SUBSET Events]
        BY <1>13 DEF TypeOK, CheckProcessed
      <3>2. cur' \in [Workers -> Nat] /\ step' \in [Workers -> Steps]
        BY <1>13 DEF TypeOK, CheckProcessed, IsFirst, Steps, Ids
      <3> QED BY <1>13, <3>1, <3>2 DEF TypeOK, CheckProcessed
    <2>2. IdsInRange'
      BY <1>13 DEF TypeOK, IdsInRange, CheckProcessed, IsFirst, Busy
    <2> QED BY <2>1, <2>2
  <1>14. ASSUME NEW w \in Workers, AckEntry(w) PROVE TypeOK' /\ IdsInRange'
    <2>1. TypeOK'
      BY <1>14 DEF TypeOK, AckEntry, Xack, NextEntry, Steps
    <2>2. IdsInRange'
      BY <1>14 DEF TypeOK, IdsInRange, AckEntry, Xack, NextEntry, Busy
    <2> QED BY <2>1, <2>2
  <1>15. ASSUME NEW w \in Workers, HandleReturns(w) PROVE TypeOK' /\ IdsInRange'
    <2>1. TypeOK'
      BY <1>15, CurrentEntry DEF TypeOK, HandleReturns, Steps, Busy
    <2>2. IdsInRange'
      BY <1>15 DEF TypeOK, IdsInRange, HandleReturns, Busy
    <2> QED BY <2>1, <2>2
  <1>16. ASSUME NEW w \in Workers, HandleThrows(w) PROVE TypeOK' /\ IdsInRange'
    <2>1. TypeOK'
      BY <1>16 DEF TypeOK, HandleThrows, Steps
    <2>2. IdsInRange'
      BY <1>16 DEF TypeOK, IdsInRange, HandleThrows, Busy
    <2> QED BY <2>1, <2>2
  <1>17. ASSUME NEW w \in Workers, MarkProcessed(w) PROVE TypeOK' /\ IdsInRange'
    <2>1. TypeOK'
      BY <1>17, CurrentEntry DEF TypeOK, MarkProcessed, Steps, Busy
    <2>2. IdsInRange'
      BY <1>17 DEF TypeOK, IdsInRange, MarkProcessed, Busy
    <2> QED BY <2>1, <2>2
  <1>18. ASSUME NEW w \in Workers, MarkOrAckThrows(w) PROVE TypeOK' /\ IdsInRange'
    <2>1. TypeOK'
      BY <1>18 DEF TypeOK, MarkOrAckThrows, Fault, Steps
    <2>2. IdsInRange'
      BY <1>18 DEF TypeOK, IdsInRange, MarkOrAckThrows, Fault, Busy
    <2> QED BY <2>1, <2>2
  <1>19. ASSUME NEW w \in Workers, LeaveForRetry(w) PROVE TypeOK' /\ IdsInRange'
    <2>1. TypeOK'
      BY <1>19 DEF TypeOK, LeaveForRetry, NextEntry, Steps
    <2>2. IdsInRange'
      BY <1>19 DEF TypeOK, IdsInRange, LeaveForRetry, NextEntry, Busy
    <2> QED BY <2>1, <2>2
  <1>20. ASSUME NEW w \in Workers, GiveUp(w) PROVE TypeOK' /\ IdsInRange'
    <2>1. TypeOK'
      BY <1>20 DEF TypeOK, GiveUp, Steps
    <2>2. IdsInRange'
      BY <1>20 DEF TypeOK, IdsInRange, GiveUp, Busy
    <2> QED BY <2>1, <2>2
  <1>21. ASSUME NEW w \in Workers, SendToDlq(w) PROVE TypeOK' /\ IdsInRange'
    <2>1. TypeOK'
      <3>1. stream[cur[w]].event \in Events
        BY <1>21, CurrentEntry DEF SendToDlq, Busy
      <3>2. dlq' \in SUBSET DeadLetter /\ buried' \in SUBSET (Events \X Groups)
        BY <1>21, <3>1 DEF TypeOK, SendToDlq, DeadLetter
      <3>3. step' \in [Workers -> Steps]
        BY <1>21 DEF TypeOK, SendToDlq, Steps
      <3> QED BY <1>21, <3>2, <3>3 DEF TypeOK, SendToDlq
    <2>2. IdsInRange'
      BY <1>21 DEF TypeOK, IdsInRange, SendToDlq, Busy
    <2> QED BY <2>1, <2>2
  <1>22. ASSUME NEW w \in Workers, WorkerAborts(w) PROVE TypeOK' /\ IdsInRange'
    <2>1. TypeOK'
      BY <1>22 DEF TypeOK, WorkerAborts, Forget, Fault, Steps
    <2>2. IdsInRange'
      BY <1>22 DEF TypeOK, IdsInRange, WorkerAborts, Forget, Fault, Busy
    <2> QED BY <2>1, <2>2
  <1>23. ASSUME NEW a \in Retriers, RetryRead(a) PROVE TypeOK' /\ IdsInRange'
    <2>1. TypeOK'
      BY <1>23 DEF TypeOK, RetryRead
    <2>2. IdsInRange'
      BY <1>23 DEF TypeOK, IdsInRange, RetryRead
    <2> QED BY <2>1, <2>2
  <1>24. ASSUME NEW a \in Retriers, RetryXadd(a) PROVE TypeOK' /\ IdsInRange'
    <2>1. TypeOK'
      BY <1>24 DEF TypeOK, RetryXadd, Append1, Entry, DeadLetter
    <2>2. IdsInRange'
      <3>1. Top' = Top + 1
        <4>1. PICK d \in retry[a] : Append1(d.event, d.group)
          BY <1>24 DEF RetryXadd
        <4>2. d.event \in Events /\ d.group \in Groups
          BY DEF TypeOK, DeadLetter
        <4> QED BY <4>1, <4>2, AppendEntry
      <3>2. Top \in Nat /\ lo \in Nat /\ aged \in Nat
        BY DEF TypeOK
      <3>3. UNCHANGED <<lo, aged, trim, batch, step, cur, delivered, pending>>
        BY <1>24 DEF RetryXadd
      <3> QED BY <3>1, <3>2, <3>3 DEF TypeOK, TrimJob, IdsInRange
    <2> QED BY <2>1, <2>2
  <1>25. ASSUME NEW a \in Retriers, RetryXdel(a) PROVE TypeOK' /\ IdsInRange'
    <2>1. TypeOK'
      BY <1>25 DEF TypeOK, RetryXdel
    <2>2. IdsInRange'
      BY <1>25 DEF TypeOK, IdsInRange, RetryXdel
    <2> QED BY <2>1, <2>2
  <1>26. ASSUME NEW a \in Retriers, RetryFails(a) PROVE TypeOK' /\ IdsInRange'
    <2>1. TypeOK'
      BY <1>26 DEF TypeOK, RetryFails, Fault
    <2>2. IdsInRange'
      BY <1>26 DEF TypeOK, IdsInRange, RetryFails, Fault
    <2> QED BY <2>1, <2>2
  <1>27. ASSUME AgeEntry PROVE TypeOK' /\ IdsInRange'
    <2>1. TypeOK'
      BY <1>27 DEF TypeOK, AgeEntry
    <2>2. IdsInRange'
      BY <1>27 DEF TypeOK, IdsInRange, AgeEntry
    <2> QED BY <2>1, <2>2
  <1>28. ASSUME TrimStart PROVE TypeOK' /\ IdsInRange'
    <2>1. TypeOK'
      BY <1>28 DEF TypeOK, TrimStart, TrimJob
    <2>2. IdsInRange'
      BY <1>28 DEF TypeOK, IdsInRange, TrimStart
    <2> QED BY <2>1, <2>2
  <1>29. ASSUME NEW g \in Groups, TrimGroup(g) PROVE TypeOK' /\ IdsInRange'
    <2>1. TypeOK'
      BY <1>29 DEF TypeOK, TrimGroup, KeepFrom, TrimJob
    <2>2. IdsInRange'
      BY <1>29 DEF TypeOK, IdsInRange, TrimGroup, KeepFrom, TrimJob
    <2> QED BY <2>1, <2>2
  <1>30. ASSUME TrimCut PROVE TypeOK' /\ IdsInRange'
    <2>1. TypeOK'
      BY <1>30 DEF TypeOK, TrimCut, NoTrim, TrimJob
    <2>2. IdsInRange'
      BY <1>30 DEF TypeOK, IdsInRange, TrimCut, NoTrim, TrimJob
    <2> QED BY <2>1, <2>2
  <1>31. ASSUME NEW g \in Groups, NEW e \in Events, PruneMark(g, e) PROVE TypeOK' /\ IdsInRange'
    <2>1. TypeOK'
      BY <1>31 DEF TypeOK, PruneMark
    <2>2. IdsInRange'
      BY <1>31 DEF TypeOK, IdsInRange, PruneMark
    <2> QED BY <2>1, <2>2
  <1> QED
    BY <1>1, <1>2, <1>3, <1>4, <1>5, <1>5a, <1>6, <1>7, <1>8, <1>9, <1>10, <1>11,
       <1>12, <1>13, <1>14, <1>15, <1>16, <1>17, <1>18, <1>19, <1>20, <1>21,
       <1>22, <1>23, <1>24, <1>25, <1>26, <1>27, <1>28, <1>29, <1>30, <1>31
       DEF Next, DispatcherStep, WorkerStep, ProcessingStep

-----------------------------------------------------------------------------
(* Which actions touch what.                                                *)

\* A group's position and pending list move only by these steps.
LEMMA GroupFrame ==
    ASSUME Next
    PROVE  \/ UNCHANGED <<delivered, pending>>
           \/ \E w \in Workers :
                ReadGroup(w) \/ ReclaimStale(w) \/ AckSkipped(w) \/ AckEntry(w)
  BY ZenonT(40) DEF Next, DispatcherStep, WorkerStep, ProcessingStep, PublishEvent, PruneOutbox,
         SelectRows, XaddAccepted, XaddRefused, XaddUnanswered, XaddSystemic, CommitRows,
         DispatchFails, Crash, CheckProcessed, HandleReturns, HandleThrows,
         MarkProcessed, MarkOrAckThrows, LeaveForRetry, GiveUp, SendToDlq,
         WorkerAborts, RetryRead, RetryXadd, RetryXdel, RetryFails, AgeEntry,
         TrimStart, TrimGroup, TrimCut, PruneMark, groupVars

\* The actions that add to the stream.
LEMMA StreamSources ==
    ASSUME Next
    PROVE  \/ UNCHANGED stream
           \/ \E r \in Replicas : XaddAccepted(r) \/ XaddUnanswered(r)
           \/ \E a \in Retriers : RetryXadd(a)
  BY ZenonT(40) DEF Next, DispatcherStep, WorkerStep, ProcessingStep, PublishEvent,
         PruneOutbox, SelectRows, XaddRefused, XaddSystemic, CommitRows,
         DispatchFails, Crash, ReadGroup, ReclaimStale, AckSkipped, CheckProcessed,
         AckEntry, HandleReturns, HandleThrows, MarkProcessed, MarkOrAckThrows,
         LeaveForRetry, GiveUp, SendToDlq, WorkerAborts, RetryRead, RetryXdel,
         RetryFails, AgeEntry, TrimStart, TrimGroup, TrimCut, PruneMark, streamVars

\* An unanswered XADD leaves the stream alone, or adds a row of its pass that
\* Redis takes, and nothing else of the stream moves.
LEMMA UnansweredAdds ==
    ASSUME NEW r \in Replicas, XaddUnanswered(r)
    PROVE  /\ UNCHANGED <<delivered, pending, workerVars, outboxVars, held, sent>>
           /\ faults' = faults + 1
           /\ \/ UNCHANGED stream
              \/ \E e \in Events \ Poison : e \in unsent[r] /\ Append1(e, Everyone)
  BY DEF XaddUnanswered, IsFirst, Fault, groupVars

\* The stream is added to by XADD only, and what was added stays.
LEMMA StreamFrame ==
    ASSUME TypeOK, Next
    PROVE  \/ UNCHANGED stream
           \/ \E e \in Events, only \in Groups \cup {Everyone} :
                Append1(e, only) /\ UNCHANGED <<delivered, pending>>
  <1>1. ASSUME NEW r \in Replicas, XaddAccepted(r)
        PROVE  \E e \in Events : /\ Append1(e, Everyone)
                                 /\ UNCHANGED <<delivered, pending>>
    BY <1>1 DEF XaddAccepted, groupVars
  <1>1a. ASSUME NEW r \in Replicas, XaddUnanswered(r)
         PROVE  \/ UNCHANGED stream
                \/ \E e \in Events : /\ Append1(e, Everyone)
                                     /\ UNCHANGED <<delivered, pending>>
    BY <1>1a, UnansweredAdds
  <1>2. ASSUME NEW a \in Retriers, RetryXadd(a)
        PROVE  \E e \in Events, only \in Groups :
                 Append1(e, only) /\ UNCHANGED <<delivered, pending>>
    <2>1. PICK d \in retry[a] : Append1(d.event, d.group)
      BY <1>2 DEF RetryXadd
    <2>2. d.event \in Events /\ d.group \in Groups
      BY DEF TypeOK, DeadLetter
    <2> QED BY <1>2, <2>1, <2>2 DEF RetryXadd, groupVars
  <1> QED BY <1>1, <1>1a, <1>2, StreamSources

\* The actions by which the outbox and its dispatchers move.
LEMMA OutboxFrame ==
    ASSUME Next
    PROVE  \/ UNCHANGED <<outboxVars, dispatchVars>>
           \/ \E e \in Events : PublishEvent(e) \/ PruneOutbox(e)
           \/ \E r \in Replicas : DispatcherStep(r) \/ XaddUnanswered(r) \/ XaddSystemic(r)
                                  \/ DispatchFails(r) \/ Crash(r)
  BY ZenonT(40) DEF Next, WorkerStep, ProcessingStep, ReadGroup, ReclaimStale,
     AckSkipped, CheckProcessed, AckEntry, HandleReturns, HandleThrows, MarkProcessed,
     MarkOrAckThrows, LeaveForRetry, GiveUp, SendToDlq, WorkerAborts, RetryRead,
     RetryXadd, RetryXdel, RetryFails, AgeEntry, TrimStart, TrimGroup, TrimCut,
     PruneMark

\* The actions by which a worker moves, a mark comes or a mark goes.
LEMMA WorkerFrame ==
    ASSUME Next
    PROVE  \/ UNCHANGED <<handlerVars, workerVars>>
           \/ \E w \in Workers : WorkerStep(w) \/ MarkOrAckThrows(w) \/ WorkerAborts(w)
           \/ \E r \in Replicas : Crash(r)
           \/ \E g \in Groups : \E e \in Events : PruneMark(g, e)
  BY DEF Next, DispatcherStep, PublishEvent, PruneOutbox, SelectRows, XaddAccepted,
         XaddRefused, XaddUnanswered, XaddSystemic, CommitRows, DispatchFails, RetryRead, RetryXadd,
         RetryXdel, RetryFails, AgeEntry, TrimStart, TrimGroup, TrimCut

\* The actions by which events are handled or travel as dead letters.
LEMMA LetterFrame ==
    ASSUME Next
    PROVE  \/ UNCHANGED <<done, dlq, retry>>
           \/ \E w \in Workers : HandleReturns(w) \/ SendToDlq(w)
           \/ \E a \in Retriers :
                RetryRead(a) \/ RetryXadd(a) \/ RetryXdel(a) \/ RetryFails(a)
  BY ZenonT(40) DEF Next, DispatcherStep, WorkerStep, ProcessingStep, PublishEvent,
         PruneOutbox, SelectRows, XaddAccepted, XaddRefused, XaddUnanswered, XaddSystemic, CommitRows,
         DispatchFails, Crash, ReadGroup, ReclaimStale, AckSkipped, CheckProcessed,
         AckEntry, HandleThrows, MarkProcessed, MarkOrAckThrows, LeaveForRetry, GiveUp,
         WorkerAborts, AgeEntry, TrimStart, TrimGroup, TrimCut, PruneMark, handlerVars,
         dlqVars, retryVars

\* The trim job and the retention time move only by their own steps.
LEMMA TrimFrame ==
    ASSUME Next
    PROVE  \/ UNCHANGED <<lo, trim>>
           \/ /\ UNCHANGED <<stream, delivered, pending>>
              /\ TrimStart \/ TrimCut \/ \E g \in Groups : TrimGroup(g)
  BY ZenonT(40) DEF Next, DispatcherStep, WorkerStep, ProcessingStep, PublishEvent, PruneOutbox,
         SelectRows, XaddAccepted, XaddRefused, XaddUnanswered, XaddSystemic, CommitRows,
         DispatchFails, Crash, ReadGroup, ReclaimStale, AckSkipped, CheckProcessed,
         AckEntry, HandleReturns, HandleThrows, MarkProcessed, MarkOrAckThrows,
         LeaveForRetry, GiveUp, SendToDlq, WorkerAborts, RetryRead, RetryXadd,
         RetryXdel, RetryFails, AgeEntry, TrimStart, TrimGroup, TrimCut, PruneMark,
         streamVars, groupVars, trimVars

-----------------------------------------------------------------------------
(* The trim job.                                                            *)

\* Whatever a group still needs after a step it needed before, unless it is the
\* entry that has just been added.
LEMMA UnackedShrinks ==
    ASSUME TypeOK, IdsInRange, Next, NEW g \in Groups
    PROVE  /\ delivered[g] <= delivered'[g]
           /\ Top' \in {Top, Top + 1}
           /\ \A i \in 1 .. Top' : Unacked(g, i)' => Unacked(g, i) \/ i = Top + 1
  <1>0. TypeOK' /\ Top \in Nat
    <2>1. TypeOK'
      BY StepTyped
    <2>2. stream \in Seq(Entry)
      BY DEF TypeOK
    <2> QED BY <2>1, <2>2 DEF Top
  <1>1. ASSUME NEW e \in Events, NEW only \in Groups \cup {Everyone},
               Append1(e, only), UNCHANGED <<delivered, pending>>
        PROVE  /\ delivered[g] <= delivered'[g]
               /\ Top' \in {Top, Top + 1}
               /\ \A i \in 1 .. Top' : Unacked(g, i)' => Unacked(g, i) \/ i = Top + 1
    <2>1. Top' = Top + 1
      BY <1>1, AppendEntry
    <2> QED BY <1>0, <1>1, <2>1 DEF TypeOK, Unacked
  <1>2. ASSUME UNCHANGED stream, UNCHANGED <<delivered, pending>>
        PROVE  /\ delivered[g] <= delivered'[g]
               /\ Top' \in {Top, Top + 1}
               /\ \A i \in 1 .. Top' : Unacked(g, i)' => Unacked(g, i) \/ i = Top + 1
    BY <1>0, <1>2 DEF TypeOK, Unacked, Top
  <1>3. ASSUME NEW w \in Workers, ReadGroup(w)
        PROVE  /\ delivered[g] <= delivered'[g]
               /\ Top' = Top
               /\ \A i \in 1 .. Top' : Unacked(g, i)' => Unacked(g, i)
    <2> USE HomeIsGroup
    <2>1. PICK last \in NewTo(Home(w)) :
            delivered' = [delivered EXCEPT ![Home(w)] = last]
      BY <1>3, ReadEntries
    <2>2. last > delivered[Home(w)] /\ last \in Nat
      BY <1>3, ReadEntries DEF Ids
    <2>3. pending' = [pending EXCEPT ![Home(w)] =
                        [i \in Ids |-> IF i \in NewTo(Home(w)) THEN 1
                                       ELSE pending[Home(w)][i]]]
      BY <1>3, ReadEntries
    <2>4. \A i \in NewTo(Home(w)) : i > delivered[Home(w)]
      BY <1>3, ReadEntries
    <2>5. Top' = Top
      BY <1>3 DEF ReadGroup, streamVars, Top
    <2>6. \A i \in 1 .. Top : i \in Ids
      BY <1>0 DEF TypeOK, Ids
    <2>7. CASE g = Home(w)
      BY <1>0, <2>1, <2>2, <2>3, <2>4, <2>5, <2>6, <2>7 DEF TypeOK, Unacked
    <2>8. CASE g # Home(w)
      BY <1>0, <2>1, <2>3, <2>5, <2>8 DEF TypeOK, Unacked
    <2> QED BY <2>5, <2>7, <2>8
  <1>4. ASSUME NEW w \in Workers, ReclaimStale(w)
        PROVE  /\ delivered[g] <= delivered'[g]
               /\ Top' = Top
               /\ \A i \in 1 .. Top' : Unacked(g, i)' => Unacked(g, i)
    <2> USE HomeIsGroup
    <2>1. PICK ids \in SUBSET PendingOf(Home(w)) :
            pending' = [pending EXCEPT ![Home(w)] =
               [i \in Ids |-> IF i \in ids THEN pending[Home(w)][i] + 1
                                            ELSE pending[Home(w)][i]]]
      BY <1>4 DEF ReclaimStale, Claimable
    <2>2. Top' = Top /\ delivered' = delivered
      BY <1>4 DEF ReclaimStale, streamVars, Top
    <2>3. \A i \in 1 .. Top : i \in Ids
      BY <1>0 DEF TypeOK, Ids
    <2> QED BY <1>0, <2>1, <2>2, <2>3 DEF TypeOK, Unacked, PendingOf
  <1>5. ASSUME NEW w \in Workers, AckSkipped(w) \/ AckEntry(w)
        PROVE  /\ delivered[g] <= delivered'[g]
               /\ Top' = Top
               /\ \A i \in 1 .. Top' : Unacked(g, i)' => Unacked(g, i)
    <2> USE HomeIsGroup
    <2>1. PICK ids : Xack(Home(w), ids)
      BY <1>5 DEF AckSkipped, AckEntry
    <2>2. Top' = Top /\ delivered' = delivered
      BY <1>5 DEF AckSkipped, AckEntry, streamVars, Top
    <2>3. \A i \in 1 .. Top : i \in Ids
      BY <1>0 DEF TypeOK, Ids
    <2>4. delivered \in [Groups -> Nat] /\ pending \in [Groups -> [Ids -> Nat]]
      BY DEF TypeOK
    <2>5. \A i \in Ids : pending'[g][i] > 0 => pending[g][i] > 0
      BY <2>1, <2>4 DEF Xack
    <2>6. delivered[g] <= delivered'[g]
      BY <2>2, <2>4
    <2>7. ASSUME NEW i \in 1 .. Top', Unacked(g, i)' PROVE Unacked(g, i)
      <3>1. i \in Ids
        BY <2>2, <2>3
      <3> QED BY <2>2, <2>5, <2>7, <3>1 DEF Unacked
    <2> QED BY <2>2, <2>6, <2>7
  <1> QED BY <1>1, <1>2, <1>3, <1>4, <1>5, GroupFrame, StreamFrame

\* The cut never passes an entry some group still needs.
LEMMA StepTrim ==
    ASSUME TypeOK, IdsInRange, TrimKeepsUnacked, TrimBelowUnacked, Next
    PROVE  TrimKeepsUnacked' /\ TrimBelowUnacked'
  <1>0. TypeOK' /\ IdsInRange' /\ Top \in Nat
    <2>1. stream \in Seq(Entry)
      BY DEF TypeOK
    <2> QED BY <2>1, StepTyped DEF Top
  <1>1. CASE UNCHANGED <<lo, trim>>
    <2>1. ASSUME NEW g \in Groups, NEW i \in 1 .. Top', Unacked(g, i)'
          PROVE  i = Top + 1 \/ (i \in 1 .. Top /\ Unacked(g, i))
      BY <1>0, <2>1, UnackedShrinks DEF Unacked
    <2>2. TrimKeepsUnacked'
      BY <1>0, <1>1, <2>1 DEF TrimKeepsUnacked, IdsInRange, TypeOK
    <2>3. ASSUME NEW g \in Groups
          PROVE  delivered[g] <= delivered'[g] /\ delivered[g] <= Top
      BY UnackedShrinks DEF IdsInRange
    <2>4. TrimBelowUnacked'
      <3> SUFFICES ASSUME trim.on
                   PROVE  /\ \A g \in Groups \ trim.todo :
                               \A i \in 1 .. Top' : Unacked(g, i)' => trim.floor <= i
                          /\ \A g \in trim.todo :
                               /\ trim.last[g] <= delivered'[g]
                               /\ g \notin trim.busy =>
                                    \A i \in 1 .. Top' :
                                       Unacked(g, i)' => trim.last[g] < i
        BY <1>1 DEF TrimBelowUnacked
      <3>1. ASSUME NEW g \in Groups \ trim.todo, NEW i \in 1 .. Top', Unacked(g, i)'
            PROVE  trim.floor <= i
        BY <2>1, <3>1 DEF TrimBelowUnacked, IdsInRange
      <3>2. ASSUME NEW g \in trim.todo
            PROVE  /\ trim.last[g] \in Nat /\ delivered[g] \in Nat /\ delivered'[g] \in Nat
                   /\ g \in Groups /\ trim.last[g] <= delivered[g]
        BY <1>0 DEF TrimBelowUnacked, TypeOK, TrimJob
      <3>3. ASSUME NEW g \in trim.todo
            PROVE  trim.last[g] <= delivered'[g]
        BY <2>3, <3>2
      <3>4. ASSUME NEW g \in trim.todo, g \notin trim.busy,
                   NEW i \in 1 .. Top', Unacked(g, i)'
            PROVE  trim.last[g] < i
        BY <1>0, <2>1, <2>3, <3>2, <3>4 DEF TrimBelowUnacked
      <3> QED BY <3>1, <3>3, <3>4
    <2> QED BY <2>2, <2>4
  <1>2. ASSUME UNCHANGED <<stream, delivered, pending>>
        PROVE  Top' = Top /\ \A g \in Groups, i \in 1 .. Top :
                                Unacked(g, i)' <=> Unacked(g, i)
    BY <1>2 DEF Top, Unacked
  <1>3. ASSUME TrimStart, UNCHANGED <<stream, delivered, pending>>
        PROVE  TrimKeepsUnacked' /\ TrimBelowUnacked'
    <2>1. TrimKeepsUnacked'
      BY <1>2, <1>3 DEF TrimStart, TrimKeepsUnacked, streamVars
    <2>2. /\ trim'.todo = Groups /\ trim'.last = delivered
          /\ trim'.busy = {g \in Groups : PendingOf(g) # {}}
      BY <1>3 DEF TrimStart
    <2>3. ASSUME NEW g \in Groups, g \notin trim'.busy, NEW i \in 1 .. Top,
                 Unacked(g, i)
          PROVE  delivered[g] < i
      <3>1. i \in Ids
        BY <1>0 DEF TypeOK, Ids
      <3>2. PendingOf(g) = {}
        BY <2>2, <2>3
      <3> QED BY <2>3, <3>1, <3>2 DEF Unacked, PendingOf
    <2>4. \A g \in trim'.todo : /\ trim'.last[g] <= delivered'[g]
                                /\ g \notin trim'.busy =>
                                     \A i \in 1 .. Top' :
                                        Unacked(g, i)' => trim'.last[g] < i
      <3>1. Top' = Top /\ delivered' = delivered
        BY <1>2, <1>3
      <3>2. \A g \in Groups : delivered[g] \in Nat /\ delivered[g] <= delivered[g]
        BY DEF TypeOK
      <3>3. \A g \in Groups : g \notin trim'.busy =>
              \A i \in 1 .. Top : Unacked(g, i)' => delivered[g] < i
        BY <1>2, <1>3, <2>3
      <3> QED BY <2>2, <3>1, <3>2, <3>3
    <2> QED BY <2>1, <2>2, <2>4 DEF TrimBelowUnacked
  <1>4. ASSUME NEW g \in Groups, TrimGroup(g), UNCHANGED <<stream, delivered, pending>>
        PROVE  TrimKeepsUnacked' /\ TrimBelowUnacked'
    <2>1. TrimKeepsUnacked'
      BY <1>2, <1>4 DEF TrimGroup, TrimKeepsUnacked, streamVars
    <2>2. PICK keep \in 1 .. MaxEntries + 1 :
            /\ KeepFrom(g, keep)
            /\ trim' = [on |-> TRUE, todo |-> trim.todo \ {g}, last |-> trim.last,
                        busy |-> trim.busy,
                        floor |-> IF keep < trim.floor THEN keep ELSE trim.floor]
      BY <1>4 DEF TrimGroup
    <2>3. ASSUME NEW i \in 1 .. Top, Unacked(g, i) PROVE keep <= i
      <3>1. i \in Ids /\ delivered[g] \in Nat /\ trim.last[g] \in Nat /\ pending[g][i] \in Nat
        BY <1>0 DEF TypeOK, TrimJob, Ids
      <3>2. trim.on /\ g \in trim.todo
        BY <1>4 DEF TrimGroup
      <3>3. i > delivered[g] \/ i \in PendingOf(g)
        BY <2>3, <3>1 DEF Unacked, PendingOf
      <3>4. CASE g \in trim.busy /\ PendingOf(g) # {}
        <4>1. IsFirst(keep, PendingOf(g))
          BY <2>2, <3>4 DEF KeepFrom
        <4>2. keep <= delivered[g]
          BY <4>1 DEF IsFirst, PendingOf, IdsInRange
        <4> QED BY <3>1, <3>3, <4>1, <4>2 DEF IsFirst
      <3>5. CASE ~(g \in trim.busy /\ PendingOf(g) # {})
        <4>1. keep = trim.last[g] + 1
          BY <2>2, <3>5 DEF KeepFrom
        <4>2. trim.last[g] < i
          BY <2>3, <3>1, <3>2, <3>3, <3>5 DEF TrimBelowUnacked
        <4> QED BY <3>1, <4>1, <4>2
      <3> QED BY <3>4, <3>5
    <2> QED BY <1>2, <1>4, <2>1, <2>2, <2>3
            DEF TrimGroup, TrimBelowUnacked, TypeOK, TrimJob
  <1>5. ASSUME TrimCut, UNCHANGED <<stream, delivered, pending>>
        PROVE  TrimKeepsUnacked' /\ TrimBelowUnacked'
    BY <1>2, <1>5 DEF TrimCut, NoTrim, TrimKeepsUnacked, TrimBelowUnacked, TypeOK,
                      TrimJob
  <1> QED BY <1>1, <1>3, <1>4, <1>5, TrimFrame

-----------------------------------------------------------------------------
(* Marks.                                                                   *)

\* The event of an entry does not change while a worker holds it.
LEMMA EntryStays ==
    ASSUME TypeOK, Next
    PROVE  \A i \in 1 .. Top : i \in 1 .. Top' /\ stream'[i] = stream[i]
  <1>1. ASSUME NEW e \in Events, NEW only \in Groups \cup {Everyone}, Append1(e, only)
        PROVE  \A i \in 1 .. Top : i \in 1 .. Top' /\ stream'[i] = stream[i]
    <2>1. Top \in Nat
      BY DEF TypeOK, Top
    <2>2. Top' = Top + 1 /\ \A i \in 1 .. Top : stream'[i] = stream[i]
      BY <1>1, AppendEntry
    <2> QED BY <2>1, <2>2
  <1>2. ASSUME UNCHANGED stream
        PROVE  \A i \in 1 .. Top : i \in 1 .. Top' /\ stream'[i] = stream[i]
    BY <1>2 DEF Top
  <1> QED BY <1>1, <1>2, StreamFrame

\* Every step keeps marks and memories of marks to handled events.
LEMMA StepMarked ==
    ASSUME TypeOK, IdsInRange, MarkedIsDone, Next
    PROVE  MarkedIsDone'
  <1> DEFINE Told == {"duplicate", "mark", "ack"}
             Event(i) == stream[i].event
  <1> USE HomeIsGroup DEF handlerVars, workerVars
  <1>1. \A v \in Workers : step[v] \in Told =>
            /\ cur[v] \in 1 .. Top
            /\ stream'[cur[v]] = stream[cur[v]]
            /\ Event(cur[v]) \in done[Home(v)]
    BY CurrentEntry, EntryStays DEF MarkedIsDone, Busy
  <1>2. CASE UNCHANGED <<handlerVars, workerVars>>
    BY <1>1, <1>2 DEF MarkedIsDone
  <1>3. ASSUME NEW w \in Workers, NEW ids, StartBatch(w, ids),
               UNCHANGED <<cur, handlerVars>>
        PROVE  MarkedIsDone'
    BY <1>1, <1>3 DEF MarkedIsDone, StartBatch, TypeOK
  <1>4. ASSUME NEW w \in Workers, ReadGroup(w) \/ ReclaimStale(w)
        PROVE  MarkedIsDone'
    BY <1>3, <1>4 DEF ReadGroup, ReclaimStale
  <1>5. ASSUME NEW w \in Workers, AckSkipped(w) PROVE MarkedIsDone'
    BY <1>1, <1>5 DEF MarkedIsDone, AckSkipped, TypeOK
  <1>6. ASSUME NEW w \in Workers, CheckProcessed(w) PROVE MarkedIsDone'
    <2>1. stream' = stream /\ UNCHANGED handlerVars
      BY <1>6 DEF CheckProcessed, streamVars
    <2>2. \A v \in Workers : seen'[v] \subseteq done[Home(v)]
      BY <1>6 DEF CheckProcessed, MarkedIsDone, TypeOK
    <2>3. step'[w] \in Told => stream[cur'[w]].event \in seen'[w]
      BY <1>6 DEF CheckProcessed, TypeOK
    <2>4. \A v \in Workers : v # w => step'[v] = step[v] /\ cur'[v] = cur[v]
      BY <1>6 DEF CheckProcessed, TypeOK
    <2> QED BY <1>1, <2>1, <2>2, <2>3, <2>4 DEF MarkedIsDone
  <1>7. ASSUME NEW w \in Workers, NextEntry(w), UNCHANGED handlerVars
        PROVE  MarkedIsDone'
    BY <1>1, <1>7 DEF MarkedIsDone, NextEntry, TypeOK
  <1>8. ASSUME NEW w \in Workers, AckEntry(w) \/ LeaveForRetry(w)
        PROVE  MarkedIsDone'
    BY <1>7, <1>8 DEF AckEntry, LeaveForRetry
  <1>9. ASSUME NEW w \in Workers, HandleReturns(w) PROVE MarkedIsDone'
    <2>1. done' = [done EXCEPT ![Home(w)] = @ \cup {stream[cur[w]].event}]
      BY <1>9 DEF HandleReturns
    <2>2. \A g \in Groups : done[g] \subseteq done'[g]
      BY <2>1 DEF TypeOK
    <2>3. stream[cur[w]].event \in done'[Home(w)]
      BY <2>1 DEF TypeOK
    <2>4. /\ \A v \in Workers : v # w => step'[v] = step[v]
          /\ UNCHANGED <<marks, seen, cur, stream>>
      BY <1>9 DEF HandleReturns, streamVars, TypeOK
    <2> QED BY <1>1, <2>2, <2>3, <2>4 DEF MarkedIsDone
  <1>10. ASSUME NEW w \in Workers,
                HandleThrows(w) \/ MarkOrAckThrows(w) \/ GiveUp(w) \/ SendToDlq(w)
         PROVE  MarkedIsDone'
    <2>1. step'[w] \notin Told
      BY <1>10 DEF HandleThrows, MarkOrAckThrows, GiveUp, SendToDlq, TypeOK
    <2>2. /\ \A v \in Workers : v # w => step'[v] = step[v]
          /\ UNCHANGED <<marks, done, seen, cur, stream>>
      BY <1>10 DEF HandleThrows, MarkOrAckThrows, GiveUp, SendToDlq, TypeOK, streamVars
    <2> QED BY <1>1, <2>1, <2>2 DEF MarkedIsDone
  <1>11. ASSUME NEW w \in Workers, MarkProcessed(w) PROVE MarkedIsDone'
    <2>1. stream[cur[w]].event \in done[Home(w)]
      BY <1>1, <1>11 DEF MarkProcessed
    <2>2. /\ marks' = [marks EXCEPT ![Home(w)] = @ \cup {stream[cur[w]].event}]
          /\ seen' = [seen EXCEPT ![w] = @ \cup {stream[cur[w]].event}]
          /\ UNCHANGED <<done, cur, stream>>
      BY <1>11 DEF MarkProcessed, streamVars
    <2>3. /\ \A g \in Groups : marks'[g] \subseteq done[g]
          /\ \A v \in Workers : seen'[v] \subseteq done[Home(v)]
      BY <2>1, <2>2 DEF MarkedIsDone, TypeOK
    <2>4. \A v \in Workers : v # w => step'[v] = step[v]
      BY <1>11 DEF MarkProcessed, TypeOK
    <2> QED BY <1>1, <2>1, <2>2, <2>3, <2>4 DEF MarkedIsDone
  <1>12. ASSUME NEW W, Forget(W), UNCHANGED handlerVars PROVE MarkedIsDone'
    BY <1>1, <1>12 DEF MarkedIsDone, Forget, TypeOK
  <1>13. ASSUME NEW w \in Workers, WorkerAborts(w) PROVE MarkedIsDone'
    BY <1>12, <1>13 DEF WorkerAborts
  <1>14. ASSUME NEW r \in Replicas, Crash(r) PROVE MarkedIsDone'
    BY <1>12, <1>14 DEF Crash
  <1>15. ASSUME NEW g \in Groups, NEW e \in Events, PruneMark(g, e)
         PROVE  MarkedIsDone'
    BY <1>1, <1>15 DEF MarkedIsDone, PruneMark, TypeOK, streamVars
  <1> QED BY <1>2, <1>4, <1>5, <1>6, <1>8, <1>9, <1>10, <1>11, <1>13, <1>14, <1>15,
             WorkerFrame DEF WorkerStep, ProcessingStep

-----------------------------------------------------------------------------
(* Dead letters and the callers that return them.                           *)

\* Every step keeps a retrier with at most one dead letter of a known id.
LEMMA StepRetrier ==
    ASSUME TypeOK, RetrierShape, Next
    PROVE  RetrierShape'
  <1> USE DEF RetrierShape, dlqVars, retryVars
  <1>1. CASE UNCHANGED <<dlqVars, retryVars>>
    BY <1>1
  <1>2. ASSUME NEW w \in Workers, SendToDlq(w) PROVE RetrierShape'
    BY <1>2 DEF SendToDlq, TypeOK, DeadLetter
  <1>3. ASSUME NEW a \in Retriers, RetryRead(a) PROVE RetrierShape'
    BY <1>3 DEF RetryRead, TypeOK
  <1>4. ASSUME NEW a \in Retriers, RetryXadd(a) PROVE RetrierShape'
    BY <1>4 DEF RetryXadd, TypeOK
  <1>5. ASSUME NEW a \in Retriers, RetryXdel(a) PROVE RetrierShape'
    BY <1>5 DEF RetryXdel, TypeOK
  <1>6. ASSUME NEW a \in Retriers, RetryFails(a) PROVE RetrierShape'
    BY <1>6 DEF RetryFails, TypeOK
  <1>7. \/ UNCHANGED <<dlqVars, retryVars>>
        \/ \E w \in Workers : SendToDlq(w)
        \/ \E a \in Retriers :
             RetryRead(a) \/ RetryXadd(a) \/ RetryXdel(a) \/ RetryFails(a)
    BY ZenonT(40) DEF Next, DispatcherStep, WorkerStep, ProcessingStep, PublishEvent, PruneOutbox,
         SelectRows, XaddAccepted, XaddRefused, XaddUnanswered, XaddSystemic, CommitRows,
         DispatchFails, Crash, ReadGroup, ReclaimStale, AckSkipped, CheckProcessed,
         AckEntry, HandleReturns, HandleThrows, MarkProcessed, MarkOrAckThrows,
         LeaveForRetry, GiveUp, WorkerAborts, AgeEntry, TrimStart, TrimGroup,
         TrimCut, PruneMark
  <1> QED BY <1>1, <1>2, <1>3, <1>4, <1>5, <1>6, <1>7

-----------------------------------------------------------------------------
(* Nothing is lost.                                                         *)

\* No worker begins to acknowledge a dead-lettered entry.
NobodyBuries ==
    \A w \in Workers : step'[w] = "ackDlq" => step[w] = "ackDlq" /\ cur'[w] = cur[w]

\* FirstOf takes an initial part: what lies below a taken element is taken.
LEMMA FirstOfIsInitial ==
    ASSUME NEW S \in SUBSET Ids, NEW n \in Nat,
           NEW x \in FirstOf(S, n), NEW y \in S, y < x
    PROVE  y \in FirstOf(S, n)
  <1>1. IsFiniteSet(Ids)
    BY FS_Interval DEF Ids
  <1>2. /\ IsFiniteSet({z \in S : z < x})
        /\ {z \in S : z < y} \subseteq {z \in S : z < x}
    <2>1. {z \in S : z < x} \subseteq Ids
      OBVIOUS
    <2>2. x \in Nat /\ y \in Nat /\ S \subseteq Nat
      BY DEF Ids, FirstOf
    <2>3. IsFiniteSet({z \in S : z < x})
      BY <1>1, <2>1, FS_Subset
    <2>4. ASSUME NEW z \in S, z < y PROVE z < x
      BY <2>2, <2>4
    <2> QED BY <2>3, <2>4
  <1>3. /\ Cardinality({z \in S : z < y}) <= Cardinality({z \in S : z < x})
        /\ Cardinality({z \in S : z < y}) \in Nat
        /\ Cardinality({z \in S : z < x}) \in Nat
    BY <1>2, FS_Subset, FS_CardinalityType
  <1> QED BY <1>3 DEF FirstOf

\* An entry a group needs is still needed after a step that does not
\* acknowledge it, also when the group has just been given it.
LEMMA StaysUnacked ==
    ASSUME TypeOK, IdsInRange, TrimKeepsUnacked, Next,
           NEW g \in Groups, NEW i \in 1 .. Top, Unacked(g, i)
    PROVE  \/ Unacked(g, i)'
           \/ \E w \in Workers : /\ Home(w) = g
                                 /\ AckSkipped(w) /\ ~Addressed(i, g)
           \/ \E w \in Workers : /\ Home(w) = g
                                 /\ AckEntry(w) /\ cur[w] = i
  <1> USE HomeIsGroup
  <1>0. i \in 1 .. Top' /\ i \in Ids
    <2>1. i \in 1 .. Top'
      BY EntryStays
    <2>2. i \in Ids
      BY DEF TypeOK, Ids, Top
    <2> QED BY <2>1, <2>2
  <1>1. CASE UNCHANGED <<delivered, pending>>
    BY <1>0, <1>1 DEF Unacked
  <1>2. ASSUME NEW w \in Workers, ReadGroup(w) PROVE Unacked(g, i)'
    <2> DEFINE S == {j \in Ids : j > delivered[g] /\ j >= lo /\ j <= Top}
    <2>1. PICK last \in NewTo(Home(w)) :
            delivered' = [delivered EXCEPT ![Home(w)] = last]
      BY <1>2, ReadEntries
    <2>2. pending' = [pending EXCEPT ![Home(w)] =
                        [j \in Ids |-> IF j \in NewTo(Home(w)) THEN 1
                                       ELSE pending[Home(w)][j]]]
      BY <1>2, ReadEntries
    <2>3. CASE g # Home(w)
      BY <1>0, <2>1, <2>2, <2>3 DEF Unacked, TypeOK
    <2>4. CASE g = Home(w) /\ pending[g][i] > 0
      BY <1>0, <2>2, <2>4 DEF Unacked, TypeOK
    <2>5. CASE g = Home(w) /\ i > delivered[g]
      <3>1. last \in FirstOf(S, ReadCount) /\ last \in Nat
        BY <2>1, <2>5 DEF NewTo, FirstOf, Ids
      <3>2. i \in S
        BY <1>0, <2>5 DEF TrimKeepsUnacked, TypeOK
      <3>3. i > last \/ i \in FirstOf(S, ReadCount)
        BY <3>1, <3>2, <1>0, FirstOfIsInitial DEF Ids
      <3>4. CASE i > last
        BY <1>0, <2>1, <2>5, <3>4 DEF Unacked, TypeOK
      <3>5. CASE i \in FirstOf(S, ReadCount)
        BY <1>0, <2>2, <2>5, <3>5 DEF Unacked, TypeOK, NewTo
      <3> QED BY <3>3, <3>4, <3>5
    <2> QED BY <2>3, <2>4, <2>5 DEF Unacked
  <1>3. ASSUME NEW w \in Workers, ReclaimStale(w) PROVE Unacked(g, i)'
    <2>1. PICK ids : pending' = [pending EXCEPT ![Home(w)] =
               [j \in Ids |-> IF j \in ids THEN pending[Home(w)][j] + 1
                                            ELSE pending[Home(w)][j]]]
      BY <1>3 DEF ReclaimStale
    <2>2. delivered' = delivered
      BY <1>3 DEF ReclaimStale
    <2> QED BY <1>0, <2>1, <2>2 DEF Unacked, TypeOK
  <1>4. ASSUME NEW w \in Workers, NEW ids, Xack(Home(w), ids), delivered' = delivered
        PROVE  Unacked(g, i)' \/ (Home(w) = g /\ i \in ids)
    BY <1>0, <1>4 DEF Xack, Unacked, TypeOK
  <1>5. ASSUME NEW w \in Workers, AckSkipped(w)
        PROVE  Unacked(g, i)' \/ (Home(w) = g /\ ~Addressed(i, g))
    BY <1>4, <1>5 DEF AckSkipped
  <1>6. ASSUME NEW w \in Workers, AckEntry(w)
        PROVE  Unacked(g, i)' \/ (Home(w) = g /\ cur[w] = i)
    BY <1>4, <1>6 DEF AckEntry
  <1> QED BY <1>1, <1>2, <1>3, <1>5, <1>6, GroupFrame

\* Whom an entry is addressed to never changes.
LEMMA DeliveredEntryStaysAddressed ==
    ASSUME TypeOK, Next, NEW i \in 1 .. Top, NEW g \in Groups, Addressed(i, g)
    PROVE  Addressed(i, g)'
  BY EntryStays DEF Addressed

\* A standing entry stands on, unless the step acknowledges it or puts its
\* event into the dead-letter stream.
LEMMA StandingStays ==
    ASSUME TypeOK, IdsInRange, TrimKeepsUnacked, MarkedIsDone, Next,
           NEW e \in Events, NEW g \in Groups, NEW i \in 1 .. Top,
           Standing(e, g, i)
    PROVE  \/ Standing(e, g, i)'
           \/ e \in done[g]
           \/ \E w \in Workers : Home(w) = g /\ SendToDlq(w) /\ stream[cur[w]].event = e
  <1>1. CASE \E w \in Workers : Home(w) = g /\ AckSkipped(w) /\ ~Addressed(i, g)
    BY <1>1 DEF Standing
  <1>2. ASSUME NEW w \in Workers, Home(w) = g, AckEntry(w), cur[w] = i
        PROVE  e \in done[g]
    <2>1. step[w] \in {"duplicate", "ack", "ackDlq"}
      BY <1>2 DEF AckEntry
    <2>2. step[w] # "ackDlq"
      BY <1>2 DEF Standing
    <2> QED BY <1>2, <2>1, <2>2 DEF MarkedIsDone, Standing
  <1>3. CASE Unacked(g, i)'
    <2>1. /\ i \in 1 .. Top' /\ stream'[i].event = e
          /\ Addressed(i, g)'
      BY EntryStays, DeliveredEntryStaysAddressed DEF Standing
    <2>2. CASE NobodyBuries
      BY <1>3, <2>1, <2>2 DEF Standing, NobodyBuries
    <2>3. ASSUME NEW w \in Workers, SendToDlq(w)
          PROVE  Standing(e, g, i)' \/ (Home(w) = g /\ stream[cur[w]].event = e)
      <3>1. \A v \in Workers : step'[v] = "ackDlq" => v = w \/ step[v] = "ackDlq"
        BY <2>3 DEF SendToDlq, TypeOK
      <3>2. cur' = cur
        BY <2>3 DEF SendToDlq
      <3> QED BY <1>3, <2>1, <3>1, <3>2 DEF Standing
    <2>4. NobodyBuries \/ \E w \in Workers : SendToDlq(w)
      <3>1. CASE UNCHANGED workerVars
        BY <3>1 DEF NobodyBuries, workerVars
      <3>2. ASSUME NEW w \in Workers,
                   ReadGroup(w) \/ ReclaimStale(w) \/ AckSkipped(w) \/ HandleReturns(w)
                     \/ HandleThrows(w) \/ MarkProcessed(w) \/ GiveUp(w)
                     \/ MarkOrAckThrows(w)
            PROVE  NobodyBuries
        BY <3>2 DEF ReadGroup, ReclaimStale, StartBatch, AckSkipped, HandleReturns,
             HandleThrows, MarkProcessed, GiveUp, MarkOrAckThrows, NobodyBuries, TypeOK
      <3>3. ASSUME NEW w \in Workers,
                   CheckProcessed(w) \/ AckEntry(w) \/ LeaveForRetry(w)
            PROVE  NobodyBuries
        BY <3>3 DEF CheckProcessed, AckEntry, LeaveForRetry, NextEntry, NobodyBuries,
             TypeOK
      <3>4. ASSUME NEW W, Forget(W) PROVE NobodyBuries
        BY <3>4 DEF Forget, NobodyBuries, TypeOK
      <3>5. ASSUME NEW w \in Workers, WorkerAborts(w) PROVE NobodyBuries
        BY <3>4, <3>5 DEF WorkerAborts
      <3>6. ASSUME NEW r \in Replicas, Crash(r) PROVE NobodyBuries
        BY <3>4, <3>6 DEF Crash
      <3>7. ASSUME NEW h \in Groups, NEW f \in Events, PruneMark(h, f)
            PROVE  NobodyBuries
        BY <3>7 DEF PruneMark, NobodyBuries
      <3> QED BY <3>1, <3>2, <3>3, <3>5, <3>6, <3>7, WorkerFrame
              DEF WorkerStep, ProcessingStep
    <2> QED BY <2>2, <2>3, <2>4
  <1> QED BY <1>1, <1>2, <1>3, StaysUnacked DEF Standing

\* A lying letter lies on, unless a retrier has just returned its event.
LEMMA LyingStays ==
    ASSUME TypeOK, RetrierShape, Next, NEW e \in Events, NEW g \in Groups,
           NEW d \in dlq, Lying(e, g, d)
    PROVE  \/ d \in dlq' /\ Lying(e, g, d)'
           \/ \E a \in Retriers : d \in retry[a] /\ RetryXadd(a)
  <1> USE DEF dlqVars, retryVars
  <1>1. CASE UNCHANGED retryVars /\ dlq \subseteq dlq'
    BY <1>1 DEF Lying
  <1>2. ASSUME NEW a \in Retriers, RetryRead(a)
        PROVE  d \in dlq' /\ Lying(e, g, d)'
    BY <1>2 DEF RetryRead, Lying, TypeOK, RetrierShape
  <1>3. ASSUME NEW a \in Retriers, RetryXadd(a), d \notin retry[a]
        PROVE  d \in dlq' /\ Lying(e, g, d)'
    BY <1>3 DEF RetryXadd, Lying, TypeOK
  <1>4. ASSUME NEW a \in Retriers, RetryXdel(a)
        PROVE  d \in dlq' /\ Lying(e, g, d)'
    BY <1>4 DEF RetryXdel, Lying, TypeOK
  <1>5. ASSUME NEW a \in Retriers, RetryFails(a)
        PROVE  d \in dlq' /\ Lying(e, g, d)'
    BY <1>5 DEF RetryFails, Lying, TypeOK
  <1>6. \/ UNCHANGED retryVars /\ dlq \subseteq dlq'
        \/ \E a \in Retriers :
             RetryRead(a) \/ RetryXadd(a) \/ RetryXdel(a) \/ RetryFails(a)
    BY ZenonT(40) DEF Next, DispatcherStep, WorkerStep, ProcessingStep, PublishEvent, PruneOutbox,
         SelectRows, XaddAccepted, XaddRefused, XaddUnanswered, XaddSystemic, CommitRows,
         DispatchFails, Crash, ReadGroup, ReclaimStale, AckSkipped, CheckProcessed,
         AckEntry, HandleReturns, HandleThrows, MarkProcessed, MarkOrAckThrows,
         LeaveForRetry, GiveUp, SendToDlq, WorkerAborts, AgeEntry, TrimStart,
         TrimGroup, TrimCut, PruneMark
  <1> QED BY <1>1, <1>2, <1>3, <1>4, <1>5, <1>6

\* What has just been added stands for every group it is addressed to.
LEMMA NewEntryStands ==
    ASSUME TypeOK, IdsInRange, Next, NEW e \in Events,
           NEW only \in Groups \cup {Everyone}, Append1(e, only),
           UNCHANGED <<delivered, pending, workerVars>>,
           NEW g \in Wants[e], only \in {Everyone, g}
    PROVE  Solid(e, g)'
  <1>0. Top \in Nat
    BY DEF TypeOK, Top
  <1> PICK n \in Nat : n = Top + 1
    BY <1>0
  <1>1. Top' = n /\ stream'[n] = [event |-> e, only |-> only]
    BY AppendEntry
  <1>2. g \in Groups
    OBVIOUS
  <1>3. Unacked(g, n)'
    <2>1. delivered'[g] \in Nat /\ delivered'[g] < n
      BY <1>0, <1>2 DEF IdsInRange, TypeOK
    <2> QED BY <1>1, <2>1 DEF Unacked
  <1>4. \A w \in Workers : step'[w] = "ackDlq" => cur'[w] # n
    BY <1>0, CurrentEntry DEF Busy, workerVars
  <1>5. Standing(e, g, n)'
    BY <1>1, <1>3, <1>4 DEF Standing, Addressed
  <1>6. n \in 1 .. Top'
    BY <1>0, <1>1
  <1> QED BY <1>5, <1>6 DEF Solid

\* A pair that rests on a handler, an entry or a dead letter goes on resting on one.
LEMMA SolidStays ==
    ASSUME IndInv, Next, NEW e \in Events, NEW g \in Wants[e], Solid(e, g)
    PROVE  Solid(e, g)'
  <1> USE DEF IndInv
  <1>0. g \in Groups
    OBVIOUS
  <1>1. done[g] \subseteq done'[g]
    <2>1. UNCHANGED done \/ \E w \in Workers : HandleReturns(w)
      BY ZenonT(40) DEF Next, DispatcherStep, WorkerStep, ProcessingStep, PublishEvent, PruneOutbox,
         SelectRows, XaddAccepted, XaddRefused, XaddUnanswered, XaddSystemic, CommitRows,
         DispatchFails, Crash, ReadGroup, ReclaimStale, AckSkipped, CheckProcessed,
         AckEntry, HandleThrows, MarkProcessed, MarkOrAckThrows, LeaveForRetry,
         GiveUp, SendToDlq, WorkerAborts, RetryRead, RetryXadd, RetryXdel,
         RetryFails, AgeEntry, TrimStart, TrimGroup, TrimCut, PruneMark, handlerVars
    <2>2. ASSUME NEW w \in Workers, HandleReturns(w) PROVE done[g] \subseteq done'[g]
      <3>1. done' = [done EXCEPT ![Home(w)] = @ \cup {stream[cur[w]].event}]
        BY <2>2 DEF HandleReturns
      <3>2. g = Home(w) => done'[g] = done[g] \cup {stream[cur[w]].event}
        BY <1>0, <3>1 DEF TypeOK
      <3>3. g # Home(w) => done'[g] = done[g]
        BY <1>0, <3>1 DEF TypeOK
      <3> QED BY <3>2, <3>3
    <2> QED BY <2>1, <2>2
  <1>2. CASE e \in done[g]
    BY <1>1, <1>2 DEF Solid
  <1>3. ASSUME NEW w \in Workers, Home(w) = g, SendToDlq(w), stream[cur[w]].event = e
        PROVE  Solid(e, g)'
    <2> PICK d : d = [id |-> dlqTop + 1, event |-> e, group |-> g]
      OBVIOUS
    <2>1. d \in dlq' /\ UNCHANGED <<retry, resent>>
      BY <1>3 DEF SendToDlq, retryVars
    <2>2. \A a \in Retriers : d \notin retry[a]
      BY DEF RetrierShape, TypeOK
    <2>3. Lying(e, g, d)'
      BY <2>1, <2>2 DEF Lying
    <2> QED BY <2>1, <2>3 DEF Solid
  <1>4. ASSUME NEW i \in 1 .. Top, Standing(e, g, i) PROVE Solid(e, g)'
    <2>1. Standing(e, g, i)' => Solid(e, g)'
      BY EntryStays DEF Solid
    <2> QED BY <1>0, <1>2, <1>3, <1>4, <2>1, StandingStays
  <1>5. ASSUME NEW d \in dlq, Lying(e, g, d), NEW a \in Retriers, d \in retry[a],
               RetryXadd(a)
        PROVE  Solid(e, g)'
    <2>1. Append1(e, g) /\ UNCHANGED <<delivered, pending, workerVars>>
      BY <1>5 DEF RetryXadd, RetrierShape, Lying, groupVars
    <2> QED BY <1>0, <2>1, NewEntryStands
  <1>6. ASSUME NEW d \in dlq, Lying(e, g, d) PROVE Solid(e, g)'
    BY <1>0, <1>5, <1>6, LyingStays DEF Solid
  <1> QED BY <1>2, <1>4, <1>6 DEF Solid

-----------------------------------------------------------------------------
(* What a worker knows of its batch.                                        *)

\* Every step keeps what a worker knows of its batch.
LEMMA StepBatch ==
    ASSUME TypeOK, IdsInRange, BatchIsRead, Next
    PROVE  BatchIsRead'
  <1> USE HomeIsGroup DEF handlerVars, workerVars, streamVars
  <1>0. \A w \in Workers : /\ batch[w] \subseteq 1 .. Top
                           /\ step[w] \in Busy => cur[w] \in 1 .. Top
    BY CurrentEntry DEF IdsInRange
  <1>1. CASE UNCHANGED <<handlerVars, workerVars>>
    <2>1. \A w \in Workers : \A i \in batch[w] :
            Addressed(i, Home(w)) => Addressed(i, Home(w))'
      BY <1>0, DeliveredEntryStaysAddressed
    <2>2. \A w \in Workers : step[w] = "handle" => stream'[cur[w]] = stream[cur[w]]
      BY <1>0, EntryStays DEF Busy
    <2> QED BY <1>1, <2>1, <2>2 DEF BatchIsRead
  <1>2. ASSUME NEW w \in Workers, NEW ids, StartBatch(w, ids),
               UNCHANGED <<cur, stream, handlerVars>>
        PROVE  BatchIsRead'
    BY <1>2 DEF BatchIsRead, StartBatch, TypeOK, Busy, Addressed
  <1>3. ASSUME NEW w \in Workers, ReadGroup(w) \/ ReclaimStale(w)
        PROVE  BatchIsRead'
    BY <1>2, <1>3 DEF ReadGroup, ReclaimStale
  <1>4. ASSUME NEW w \in Workers, AckSkipped(w) PROVE BatchIsRead'
    <2>1. /\ batch' = [batch EXCEPT ![w] = {i \in batch[w] : Addressed(i, Home(w))}]
          /\ step'[w] \in {"idle", "unread"}
          /\ \A v \in Workers : v # w => step'[v] = step[v]
          /\ UNCHANGED <<cur, seen, known, marks, stream>>
      BY <1>4 DEF AckSkipped, TypeOK
    <2> QED BY <2>1 DEF BatchIsRead, Busy, Addressed, TypeOK
  <1>5. ASSUME NEW w \in Workers, CheckProcessed(w) PROVE BatchIsRead'
    <2>1. /\ UNCHANGED <<batch, known, marks, stream>>
          /\ step[w] \in {"unread", "check"}
          /\ \A v \in Workers : v # w => step'[v] = step[v] /\ cur'[v] = cur[v]
                                           /\ seen'[v] = seen[v]
          /\ step'[w] \in {"duplicate", "handle"}
          /\ step'[w] = "handle" => stream[cur'[w]].event \notin seen'[w]
          /\ seen[w] \subseteq seen'[w]
          /\ step[w] = "unread" => marks[Home(w)] \subseteq seen'[w]
      BY <1>5 DEF CheckProcessed, MustRead, TypeOK
    <2> QED BY <2>1 DEF BatchIsRead, Busy, Addressed
  <1>6. ASSUME NEW w \in Workers, NextEntry(w), step[w] \in Busy,
               UNCHANGED <<marks, stream>>
        PROVE  BatchIsRead'
    <2>1. /\ UNCHANGED <<known, seen>>
          /\ step'[w] \in {"idle", "check"}
          /\ batch'[w] \subseteq batch[w]
          /\ \A v \in Workers : v # w => /\ step'[v] = step[v] /\ cur'[v] = cur[v]
                                          /\ batch'[v] = batch[v]
      BY <1>6 DEF NextEntry, TypeOK
    <2> QED BY <1>6, <2>1 DEF BatchIsRead, Busy, Addressed
  <1>7. ASSUME NEW w \in Workers, AckEntry(w) \/ LeaveForRetry(w)
        PROVE  BatchIsRead'
    BY <1>6, <1>7 DEF AckEntry, LeaveForRetry, Busy
  <1>8. ASSUME NEW w \in Workers,
               HandleReturns(w) \/ HandleThrows(w) \/ MarkOrAckThrows(w) \/ GiveUp(w)
                 \/ SendToDlq(w)
        PROVE  BatchIsRead'
    <2>1. /\ UNCHANGED <<batch, cur, seen, known, marks, stream>>
          /\ step[w] \in Busy /\ step'[w] \in Busy \ {"handle"}
          /\ \A v \in Workers : v # w => step'[v] = step[v]
      BY <1>8 DEF HandleReturns, HandleThrows, MarkOrAckThrows, GiveUp, SendToDlq,
                  Busy, TypeOK
    <2> QED BY <2>1 DEF BatchIsRead, Addressed
  <1>9. ASSUME NEW w \in Workers, MarkProcessed(w) PROVE BatchIsRead'
    <2>1. /\ UNCHANGED <<batch, cur, known, stream>>
          /\ step[w] \in Busy /\ step'[w] \in Busy \ {"handle"}
          /\ \A v \in Workers : v # w => step'[v] = step[v] /\ seen'[v] = seen[v]
          /\ seen[w] \subseteq seen'[w]
          /\ \A g \in Groups : marks[g] \subseteq marks'[g]
      BY <1>9 DEF MarkProcessed, Busy, TypeOK
    <2> QED BY <2>1 DEF BatchIsRead, Addressed
  <1>10. ASSUME NEW W, Forget(W), UNCHANGED <<marks, stream>> PROVE BatchIsRead'
    BY <1>10 DEF BatchIsRead, Forget, TypeOK, Busy, Addressed
  <1>11. ASSUME NEW w \in Workers, WorkerAborts(w) PROVE BatchIsRead'
    BY <1>10, <1>11 DEF WorkerAborts
  <1>12. ASSUME NEW r \in Replicas, Crash(r) PROVE BatchIsRead'
    BY <1>10, <1>12 DEF Crash
  <1>13. ASSUME NEW g \in Groups, NEW e \in Events, PruneMark(g, e)
         PROVE  BatchIsRead'
    <2>1. /\ UNCHANGED <<step, batch, cur, seen, stream>>
          /\ marks' = [marks EXCEPT ![g] = @ \ {e}]
          /\ \A v \in Workers : known'[v] = IF Home(v) = g THEN known[v] \ {e} ELSE known[v]
      BY <1>13 DEF PruneMark
    <2>2. ASSUME NEW v \in Workers
          PROVE  known'[v] \subseteq known[v] /\ known'[v] \subseteq marks'[Home(v)]
      <3>1. CASE Home(v) = g
        BY <2>1, <3>1 DEF BatchIsRead, TypeOK
      <3>2. CASE Home(v) # g
        BY <2>1, <3>2 DEF BatchIsRead, TypeOK
      <3> QED BY <3>1, <3>2
    <2> QED BY <2>1, <2>2 DEF BatchIsRead, Addressed
  <1> QED BY <1>1, <1>3, <1>4, <1>5, <1>7, <1>8, <1>9, <1>11, <1>12, <1>13, WorkerFrame
          DEF WorkerStep, ProcessingStep

-----------------------------------------------------------------------------
(* Rows and their copies.                                                   *)

\* Every step keeps a row with one dispatcher.
LEMMA StepRows ==
    ASSUME TypeOK, RowsInOneHand, Next
    PROVE  RowsInOneHand'
  <1> USE DEF outboxVars, dispatchVars
  <1>1. CASE UNCHANGED <<outboxVars, dispatchVars>>
    BY <1>1 DEF RowsInOneHand
  <1>2. ASSUME NEW e \in Events, PublishEvent(e) PROVE RowsInOneHand'
    BY <1>2 DEF RowsInOneHand, PublishEvent, TypeOK
  <1>3. ASSUME NEW e \in Events, PruneOutbox(e) PROVE RowsInOneHand'
    BY <1>3 DEF RowsInOneHand, PruneOutbox, TypeOK
  <1>4. ASSUME NEW r \in Replicas, SelectRows(r) PROVE RowsInOneHand'
    <2> DEFINE new == FirstOf(Free, BatchSize)
    <2>1. /\ held[r] = {}
          /\ held' = [held EXCEPT ![r] = new]
          /\ unsent' = [unsent EXCEPT ![r] = new]
          /\ UNCHANGED <<outbox, sent, refused>>
      BY <1>4 DEF SelectRows
    <2>2. \A e \in new : /\ outbox[e] = "pending"
                         /\ \A q \in Replicas : e \notin held[q]
      BY DEF FirstOf, Free
    <2> HIDE DEF new
    <2>3. sent[r] = {} /\ refused[r] = {}
      BY <2>1 DEF RowsInOneHand
    <2> QED BY <2>1, <2>2, <2>3 DEF RowsInOneHand, TypeOK
  <1>5. ASSUME NEW r \in Replicas, XaddAccepted(r) PROVE RowsInOneHand'
    <2>1. PICK e \in unsent[r] :
            /\ unsent' = [unsent EXCEPT ![r] = @ \ {e}]
            /\ sent' = [sent EXCEPT ![r] = @ \cup {e}]
            /\ UNCHANGED <<outbox, held, refused>>
      BY <1>5 DEF XaddAccepted, IsFirst
    <2> QED BY <2>1 DEF RowsInOneHand, TypeOK
  <1>6. ASSUME NEW r \in Replicas, XaddRefused(r) \/ XaddUnanswered(r)
        PROVE  RowsInOneHand'
    <2>1. PICK e \in unsent[r] :
            /\ unsent' = [unsent EXCEPT ![r] = @ \ {e}]
            /\ refused' = [refused EXCEPT ![r] = @ \cup {e}]
            /\ UNCHANGED <<outbox, held, sent>>
      BY <1>6 DEF XaddRefused, XaddUnanswered, IsFirst
    <2> QED BY <2>1 DEF RowsInOneHand, TypeOK
  <1>7. ASSUME NEW r \in Replicas, XaddSystemic(r) PROVE RowsInOneHand'
    <2>1. PICK e \in unsent[r] :
            /\ unsent' = [unsent EXCEPT ![r] = @ \ {e}]
            /\ UNCHANGED <<outbox, held, sent, refused>>
      BY <1>7 DEF XaddSystemic, IsFirst
    <2> QED BY <2>1 DEF RowsInOneHand, TypeOK
  <1>8. ASSUME NEW r \in Replicas, CommitRows(r) PROVE RowsInOneHand'
    <2>1. /\ held' = [held EXCEPT ![r] = {}]
          /\ sent' = [sent EXCEPT ![r] = {}]
          /\ refused' = [refused EXCEPT ![r] = {}]
          /\ unsent' = unsent /\ unsent[r] = {}
      BY <1>8 DEF CommitRows
    <2>2. \A e \in Events : e \notin held[r] => outbox'[e] = outbox[e]
      BY <1>8 DEF CommitRows, RowAfter, RowsInOneHand
    <2> QED BY <2>1, <2>2 DEF RowsInOneHand, TypeOK
  <1>9. ASSUME NEW r \in Replicas, DispatchFails(r) \/ Crash(r) PROVE RowsInOneHand'
    <2>1. /\ held' = [held EXCEPT ![r] = {}]
          /\ unsent' = [unsent EXCEPT ![r] = {}]
          /\ sent' = [sent EXCEPT ![r] = {}]
          /\ refused' = [refused EXCEPT ![r] = {}]
          /\ outbox' = outbox
      BY <1>9 DEF DispatchFails, Crash
    <2> QED BY <2>1 DEF RowsInOneHand, TypeOK
  <1> QED BY <1>1, <1>2, <1>3, <1>4, <1>5, <1>6, <1>7, <1>8, <1>9, OutboxFrame
          DEF DispatcherStep

\* Faults are only ever counted up.
LEMMA FaultsGrow == ASSUME TypeOK, Next PROVE faults' \in Nat /\ faults <= faults'
  <1>1. faults' = faults \/ faults' = faults + 1
    BY ZenonT(40) DEF Next, DispatcherStep, WorkerStep, ProcessingStep, PublishEvent,
         PruneOutbox, SelectRows, XaddAccepted, XaddRefused, XaddUnanswered, XaddSystemic, CommitRows,
         DispatchFails, Crash, ReadGroup, ReclaimStale, AckSkipped, CheckProcessed,
         AckEntry, HandleReturns, HandleThrows, MarkProcessed, MarkOrAckThrows,
         LeaveForRetry, GiveUp, SendToDlq, WorkerAborts, RetryRead, RetryXadd, RetryXdel,
         RetryFails, AgeEntry, TrimStart, TrimGroup, TrimCut, PruneMark, Fault
  <1> QED BY <1>1 DEF TypeOK

\* A row the bus has taken over stays taken over, unless a pass breaks.
LEMMA TakenOverStays ==
    ASSUME TypeOK, RowsInOneHand, Next, NEW e \in Events, TakenOver(e)
    PROVE  TakenOver(e)' \/ faults' = faults + 1
  <1>1. CASE UNCHANGED <<outboxVars, dispatchVars>>
    BY <1>1 DEF TakenOver, outboxVars, dispatchVars
  <1>2. ASSUME NEW f \in Events, PublishEvent(f) \/ PruneOutbox(f)
        PROVE  TakenOver(e)'
    BY <1>2 DEF PublishEvent, PruneOutbox, TakenOver, dispatchVars, TypeOK
  <1>3. ASSUME NEW r \in Replicas,
               SelectRows(r) \/ XaddAccepted(r) \/ XaddRefused(r) \/ XaddUnanswered(r) \/ XaddSystemic(r)
        PROVE  TakenOver(e)'
    BY <1>3 DEF SelectRows, XaddAccepted, XaddRefused, XaddUnanswered, XaddSystemic, TakenOver,
                outboxVars, TypeOK
  <1>4. ASSUME NEW r \in Replicas, CommitRows(r) PROVE TakenOver(e)'
    <2>1. /\ sent' = [sent EXCEPT ![r] = {}]
          /\ outbox'[e] = RowAfter(r, e)
      BY <1>4 DEF CommitRows
    <2>2. e \in refused[r] => outbox[e] = "pending"
      BY DEF RowsInOneHand
    <2> QED BY <2>1, <2>2 DEF RowAfter, TakenOver, TypeOK
  <1>5. ASSUME NEW r \in Replicas, DispatchFails(r) \/ Crash(r)
        PROVE  faults' = faults + 1
    BY <1>5 DEF DispatchFails, Crash, Fault
  <1> QED BY <1>1, <1>2, <1>3, <1>4, <1>5, OutboxFrame DEF DispatcherStep

\* Every step that adds a copy beyond the first pays for it.
LEMMA StepCopies ==
    ASSUME TypeOK, RowsInOneHand, CopiesArePaid, Next
    PROVE  CopiesArePaid'
  <1> SUFFICES ASSUME NEW e \in Events
               PROVE  Cardinality(CopiesOf(e)') <=
                        faults' + (IF TakenOver(e)' THEN 1 ELSE 0)
    BY DEF CopiesArePaid
  <1>0. /\ Top \in Nat /\ faults \in Nat
        /\ IsFiniteSet(CopiesOf(e))
        /\ Cardinality(CopiesOf(e)) \in Nat
    <2>1. Top \in Nat /\ faults \in Nat
      BY DEF TypeOK, Top
    <2>2. IsFiniteSet(CopiesOf(e))
      <3>1. IsFiniteSet(1 .. Top) /\ CopiesOf(e) \subseteq 1 .. Top
        BY <2>1, FS_Interval DEF CopiesOf
      <3> QED BY <3>1, FS_Subset
    <2> QED BY <2>1, <2>2, FS_CardinalityType
  <1>1. CASE CopiesOf(e)' = CopiesOf(e)
    <2>1. TakenOver(e) => TakenOver(e)' \/ faults' = faults + 1
      BY TakenOverStays
    <2> QED BY <1>0, <1>1, <2>1, FaultsGrow DEF CopiesArePaid
  <1>2. ASSUME NEW f \in Events, NEW only \in Groups \cup {Everyone}, Append1(f, only)
        PROVE  CopiesOf(e)' = IF f = e /\ only = Everyone
                              THEN CopiesOf(e) \cup {Top + 1} ELSE CopiesOf(e)
    <2>1. /\ Top' = Top + 1
          /\ \A i \in 1 .. Top : stream'[i] = stream[i]
          /\ stream'[Top + 1] = [event |-> f, only |-> only]
      BY <1>2, AppendEntry
    <2>2. 1 .. Top' = 1 .. Top \cup {Top + 1} /\ Top + 1 \notin 1 .. Top
      BY <1>0, <2>1
    <2>3. [event |-> f, only |-> only] = [event |-> e, only |-> Everyone]
            <=> f = e /\ only = Everyone
      OBVIOUS
    <2> QED BY <2>1, <2>2, <2>3 DEF CopiesOf
  <1>3. ASSUME NEW a \in Retriers, RetryXadd(a) PROVE CopiesOf(e)' = CopiesOf(e)
    <2>1. PICK d \in retry[a] : Append1(d.event, d.group)
      BY <1>3 DEF RetryXadd
    <2>2. d.event \in Events /\ d.group \in Groups
      BY DEF TypeOK, DeadLetter
    <2> QED BY <1>2, <2>1, <2>2
  <1>4. ASSUME NEW r \in Replicas, XaddAccepted(r), CopiesOf(e)' # CopiesOf(e)
        PROVE  Cardinality(CopiesOf(e)') <=
                 faults' + (IF TakenOver(e)' THEN 1 ELSE 0)
    <2>1. PICK f \in Events :
            /\ f \in unsent[r] /\ Append1(f, Everyone)
            /\ sent' = [sent EXCEPT ![r] = @ \cup {f}]
            /\ UNCHANGED faults
      BY <1>4 DEF XaddAccepted, IsFirst
    <2>2. f = e /\ CopiesOf(e)' = CopiesOf(e) \cup {Top + 1}
      BY <1>2, <1>4, <2>1
    <2>3. Cardinality(CopiesOf(e)') = Cardinality(CopiesOf(e)) + 1
      <3>1. Top + 1 \notin CopiesOf(e)
        BY <1>0 DEF CopiesOf
      <3> QED BY <1>0, <2>2, <3>1, FS_AddElement
    <2>4. ~TakenOver(e)
      <3>1. e \in unsent[r] /\ e \in held[r] /\ outbox[e] = "pending" /\ e \notin sent[r]
        BY <2>1, <2>2 DEF RowsInOneHand
      <3>2. \A q \in Replicas : q # r => e \notin sent[q]
        BY <3>1 DEF RowsInOneHand
      <3> QED BY <3>1, <3>2 DEF TakenOver
    <2>5. TakenOver(e)'
      BY <2>1, <2>2 DEF TakenOver, TypeOK
    <2> QED BY <1>0, <2>1, <2>3, <2>4, <2>5 DEF CopiesArePaid
  <1>4a. ASSUME NEW r \in Replicas, XaddUnanswered(r), CopiesOf(e)' # CopiesOf(e)
         PROVE  Cardinality(CopiesOf(e)') <=
                  faults' + (IF TakenOver(e)' THEN 1 ELSE 0)
    <2>1. /\ faults' = faults + 1
          /\ UNCHANGED <<outboxVars, sent>>
          /\ UNCHANGED stream \/ \E f \in Events : Append1(f, Everyone)
      BY <1>4a, UnansweredAdds
    <2>2. CopiesOf(e)' = CopiesOf(e) \cup {Top + 1}
      BY <1>2, <1>4a, <2>1 DEF CopiesOf, Top
    <2>3. Cardinality(CopiesOf(e)') = Cardinality(CopiesOf(e)) + 1
      <3>1. Top + 1 \notin CopiesOf(e)
        BY <1>0 DEF CopiesOf
      <3> QED BY <1>0, <2>2, <3>1, FS_AddElement
    <2>4. TakenOver(e)' <=> TakenOver(e)
      BY <2>1 DEF TakenOver, outboxVars
    <2> QED BY <1>0, <2>1, <2>3, <2>4 DEF CopiesArePaid
  <1>5. UNCHANGED stream => CopiesOf(e)' = CopiesOf(e)
    BY DEF CopiesOf, Top
  <1> QED BY <1>1, <1>3, <1>4, <1>4a, <1>5, StreamSources

\* Every step that charges a row Redis does not refuse pays for it.
LEMMA StepCharges ==
    ASSUME TypeOK, RowsInOneHand, ChargesArePaid, Next
    PROVE  ChargesArePaid'
  <1> USE DEF outboxVars, dispatchVars
  <1> SUFFICES ASSUME NEW e \in Events \ Poison
               PROVE  /\ attempts'[e] + (IF Charged(e)' THEN 1 ELSE 0) <= faults'
                      /\ outbox'[e] = "quarantined" => OutboxMaxAttempts <= attempts'[e]
    BY DEF ChargesArePaid
  <1>0. /\ attempts[e] \in Nat /\ faults \in Nat /\ OutboxMaxAttempts \in Nat
        /\ faults' \in Nat /\ faults <= faults'
        /\ attempts[e] + (IF Charged(e) THEN 1 ELSE 0) <= faults
        /\ outbox[e] = "quarantined" => OutboxMaxAttempts <= attempts[e]
    BY FaultsGrow, LimitsAssumption DEF TypeOK, ChargesArePaid
  <1>1. ASSUME attempts'[e] = attempts[e], Charged(e)' => Charged(e),
               outbox'[e] = "quarantined" => outbox[e] = "quarantined"
        PROVE  /\ attempts'[e] + (IF Charged(e)' THEN 1 ELSE 0) <= faults'
               /\ outbox'[e] = "quarantined" => OutboxMaxAttempts <= attempts'[e]
    BY <1>0, <1>1
  <1>2. CASE UNCHANGED <<outboxVars, dispatchVars>>
    BY <1>1, <1>2 DEF Charged
  <1>3. ASSUME NEW f \in Events, PublishEvent(f) \/ PruneOutbox(f)
        PROVE  /\ attempts'[e] = attempts[e] /\ (Charged(e)' => Charged(e))
               /\ outbox'[e] = "quarantined" => outbox[e] = "quarantined"
    BY <1>3 DEF PublishEvent, PruneOutbox, Charged, TypeOK
  <1>4. ASSUME NEW r \in Replicas,
               \/ SelectRows(r) \/ XaddAccepted(r) \/ XaddRefused(r) \/ XaddSystemic(r)
               \/ DispatchFails(r) \/ Crash(r)
        PROVE  /\ attempts'[e] = attempts[e] /\ (Charged(e)' => Charged(e))
               /\ outbox'[e] = "quarantined" => outbox[e] = "quarantined"
    <2>1. UNCHANGED <<outbox, attempts>>
      BY <1>4 DEF SelectRows, XaddAccepted, XaddRefused, XaddSystemic, DispatchFails, Crash
    <2>2. CASE SelectRows(r) \/ XaddAccepted(r) \/ XaddSystemic(r)
      BY <2>1, <2>2 DEF SelectRows, XaddAccepted, XaddSystemic, Charged
    <2>3. CASE XaddRefused(r)
      <3>1. PICK f \in Poison : refused' = [refused EXCEPT ![r] = @ \cup {f}]
        BY <2>3 DEF XaddRefused
      <3> QED BY <2>1, <3>1 DEF Charged, TypeOK
    <2>4. CASE DispatchFails(r) \/ Crash(r)
      <3>1. refused' = [refused EXCEPT ![r] = {}]
        BY <2>4 DEF DispatchFails, Crash
      <3> QED BY <2>1, <3>1 DEF Charged, TypeOK
    <2> QED BY <1>4, <2>2, <2>3, <2>4
  <1>5. ASSUME NEW r \in Replicas, XaddUnanswered(r)
        PROVE  /\ attempts'[e] + (IF Charged(e)' THEN 1 ELSE 0) <= faults'
               /\ outbox'[e] = "quarantined" => OutboxMaxAttempts <= attempts'[e]
    <2>1. UNCHANGED <<outbox, attempts>> /\ faults' = faults + 1
      BY <1>5, UnansweredAdds
    <2> QED BY <1>0, <2>1
  <1>6. ASSUME NEW r \in Replicas, CommitRows(r)
        PROVE  /\ attempts'[e] + (IF Charged(e)' THEN 1 ELSE 0) <= faults'
               /\ outbox'[e] = "quarantined" => OutboxMaxAttempts <= attempts'[e]
    <2>1. /\ refused' = [refused EXCEPT ![r] = {}]
          /\ outbox'[e] = RowAfter(r, e)
          /\ attempts'[e] = IF e \in refused[r] THEN attempts[e] + 1 ELSE attempts[e]
      BY <1>6 DEF CommitRows
    <2>2. CASE e \in refused[r]
      <3>1. \A q \in Replicas : q # r => e \notin refused[q]
        BY <2>2 DEF RowsInOneHand
      <3>2. Charged(e) /\ ~Charged(e)'
        BY <2>1, <2>2, <3>1 DEF Charged, TypeOK
      <3>3. outbox[e] = "pending"
        BY <2>2 DEF RowsInOneHand
      <3>4. outbox'[e] = "quarantined" => attempts[e] + 1 >= OutboxMaxAttempts
        BY <2>1, <3>3 DEF RowAfter
      <3> QED BY <1>0, <2>1, <2>2, <3>2, <3>4
    <2>3. CASE e \notin refused[r]
      <3>1. Charged(e)' => Charged(e)
        BY <2>1 DEF Charged, TypeOK
      <3>2. outbox'[e] = "quarantined" => outbox[e] = "quarantined"
        BY <2>1, <2>3 DEF RowAfter
      <3> QED BY <1>1, <2>1, <2>3, <3>1, <3>2
    <2> QED BY <2>2, <2>3
  <1> QED BY <1>1, <1>2, <1>3, <1>4, <1>5, <1>6, OutboxFrame DEF DispatcherStep

-----------------------------------------------------------------------------
(* What travels.                                                            *)

\* Every step keeps dead letters, and entries that were one, to buried pairs.
LEMMA StepLetters ==
    ASSUME TypeOK, IdsInRange, BatchIsRead, LettersAreBuried, Next
    PROVE  LettersAreBuried'
  <1> USE DEF dlqVars, retryVars
  <1>1. buried \subseteq buried'
    BY ZenonT(40) DEF Next, DispatcherStep, WorkerStep, ProcessingStep, PublishEvent,
         PruneOutbox, SelectRows, XaddAccepted, XaddRefused, XaddUnanswered, XaddSystemic, CommitRows,
         DispatchFails, Crash, ReadGroup, ReclaimStale, AckSkipped, CheckProcessed,
         AckEntry, HandleReturns, HandleThrows, MarkProcessed, MarkOrAckThrows,
         LeaveForRetry, GiveUp, SendToDlq, WorkerAborts, RetryRead, RetryXadd, RetryXdel,
         RetryFails, AgeEntry, TrimStart, TrimGroup, TrimCut, PruneMark
  <1>4. \A p \in buried' : p[2] \in Wants[p[1]]
    <2>1. UNCHANGED buried \/ \E w \in Workers : SendToDlq(w)
      BY ZenonT(40) DEF Next, DispatcherStep, WorkerStep, ProcessingStep, PublishEvent,
         PruneOutbox, SelectRows, XaddAccepted, XaddRefused, XaddUnanswered, XaddSystemic, CommitRows,
         DispatchFails, Crash, ReadGroup, ReclaimStale, AckSkipped, CheckProcessed,
         AckEntry, HandleReturns, HandleThrows, MarkProcessed, MarkOrAckThrows,
         LeaveForRetry, GiveUp, WorkerAborts, RetryRead, RetryXadd, RetryXdel,
         RetryFails, AgeEntry, TrimStart, TrimGroup, TrimCut, PruneMark
    <2>2. ASSUME NEW w \in Workers, SendToDlq(w)
          PROVE  \A p \in buried' : p[2] \in Wants[p[1]]
      <3>1. Addressed(cur[w], Home(w))
        BY <2>2 DEF SendToDlq, IdsInRange, BatchIsRead, Busy
      <3>2. buried' = buried \cup {<<stream[cur[w]].event, Home(w)>>}
        BY <2>2 DEF SendToDlq
      <3> QED BY <3>1, <3>2 DEF Addressed, LettersAreBuried
    <2> QED BY <2>1, <2>2 DEF LettersAreBuried
  <1>2. \A d \in Returned' : <<d.event, d.group>> \in buried'
    <2>1. CASE UNCHANGED <<dlq, retry>>
      BY <1>1, <2>1 DEF Returned, LettersAreBuried
    <2>2. ASSUME NEW w \in Workers, SendToDlq(w)
          PROVE  \A d \in Returned' : <<d.event, d.group>> \in buried'
      <3> PICK d : d = [id |-> dlqTop + 1, event |-> stream[cur[w]].event,
                        group |-> Home(w)]
        OBVIOUS
      <3>1. Returned' = Returned \cup {d} /\ <<d.event, d.group>> \in buried'
        BY <2>2 DEF SendToDlq, Returned
      <3> QED BY <1>1, <3>1 DEF LettersAreBuried
    <2>3. ASSUME NEW a \in Retriers,
                 RetryRead(a) \/ RetryXadd(a) \/ RetryXdel(a) \/ RetryFails(a)
          PROVE  \A d \in Returned' : <<d.event, d.group>> \in buried'
      <3>1. dlq' \subseteq dlq /\ \A b \in Retriers : retry'[b] \subseteq Returned
        <4>1. CASE RetryRead(a)
          BY <4>1 DEF RetryRead, Returned, TypeOK
        <4>2. CASE RetryXadd(a)
          BY <4>2 DEF RetryXadd, Returned
        <4>3. CASE RetryXdel(a)
          BY <4>3 DEF RetryXdel, Returned, TypeOK
        <4>4. CASE RetryFails(a)
          BY <4>4 DEF RetryFails, Returned, TypeOK
        <4> QED BY <2>3, <4>1, <4>2, <4>3, <4>4
      <3> QED BY <1>1, <3>1 DEF Returned, LettersAreBuried
    <2>4. \/ UNCHANGED <<dlq, retry>>
          \/ \E w \in Workers : SendToDlq(w)
          \/ \E a \in Retriers :
               RetryRead(a) \/ RetryXadd(a) \/ RetryXdel(a) \/ RetryFails(a)
      BY ZenonT(40) DEF Next, DispatcherStep, WorkerStep, ProcessingStep, PublishEvent,
         PruneOutbox, SelectRows, XaddAccepted, XaddRefused, XaddUnanswered, XaddSystemic, CommitRows,
         DispatchFails, Crash, ReadGroup, ReclaimStale, AckSkipped, CheckProcessed,
         AckEntry, HandleReturns, HandleThrows, MarkProcessed, MarkOrAckThrows,
         LeaveForRetry, GiveUp, WorkerAborts, AgeEntry, TrimStart, TrimGroup,
         TrimCut, PruneMark
    <2> QED BY <2>1, <2>2, <2>3, <2>4
  <1>3. ASSUME NEW i \in 1 .. Top', stream'[i].only # Everyone
        PROVE  <<stream'[i].event, stream'[i].only>> \in buried'
    <2>1. CASE i \in 1 .. Top
      BY <1>1, <1>3, <2>1, EntryStays DEF LettersAreBuried
    <2>2. ASSUME NEW e \in Events, NEW only \in Groups \cup {Everyone}, Append1(e, only),
                 i \notin 1 .. Top
          PROVE  stream'[i] = [event |-> e, only |-> only]
      BY <2>2, AppendEntry DEF TypeOK, Top
    <2>3. ASSUME NEW r \in Replicas, XaddAccepted(r), i \notin 1 .. Top PROVE FALSE
      <3>1. PICK e \in Events : Append1(e, Everyone)
        BY <2>3 DEF XaddAccepted
      <3>2. stream'[i] = [event |-> e, only |-> Everyone]
        BY <2>2, <2>3, <3>1
      <3> QED BY <1>3, <3>2
    <2>3a. ASSUME NEW r \in Replicas, XaddUnanswered(r), i \notin 1 .. Top PROVE FALSE
      <3>1. UNCHANGED stream \/ \E e \in Events : Append1(e, Everyone)
        BY <2>3a, UnansweredAdds
      <3>2. PICK e \in Events : Append1(e, Everyone)
        BY <2>3a, <3>1 DEF Top
      <3>3. stream'[i] = [event |-> e, only |-> Everyone]
        BY <2>2, <2>3a, <3>2
      <3> QED BY <1>3, <3>3
    <2>4. ASSUME NEW a \in Retriers, RetryXadd(a), i \notin 1 .. Top
          PROVE  <<stream'[i].event, stream'[i].only>> \in buried'
      <3>1. PICK d \in retry[a] : Append1(d.event, d.group)
        BY <2>4 DEF RetryXadd
      <3>2. d.event \in Events /\ d.group \in Groups /\ <<d.event, d.group>> \in buried
        BY DEF TypeOK, DeadLetter, LettersAreBuried, Returned
      <3>3. stream'[i] = [event |-> d.event, only |-> d.group]
        BY <2>2, <2>4, <3>1, <3>2
      <3> QED BY <1>1, <3>2, <3>3
    <2>5. UNCHANGED stream => i \in 1 .. Top
      BY DEF Top
    <2> QED BY <2>1, <2>3, <2>3a, <2>4, <2>5, StreamSources
  <1> QED BY <1>2, <1>3, <1>4 DEF LettersAreBuried

\* An event begins to travel when Redis adds it for everyone, and only then.
Begins(e) ==
    /\ outbox[e] = "pending" /\ e \notin Poison
    /\ Append1(e, Everyone)
    /\ UNCHANGED <<delivered, pending, workerVars>>
LEMMA TravelBegins ==
    ASSUME TypeOK, IdsInRange, RowsInOneHand, Next, NEW e \in Events, Travelled(e)'
    PROVE  Travelled(e) \/ Begins(e)
  <1>1. ASSUME NEW i \in 1 .. Top', stream'[i].event = e, ~Travelled(e)
        PROVE  Begins(e)
    <2>0. i \notin 1 .. Top
      BY <1>1, EntryStays DEF Travelled
    <2>1. ASSUME NEW f \in Events, NEW only \in Groups \cup {Everyone}, Append1(f, only)
          PROVE  f = e
      <3>1. Top' = Top + 1 /\ stream'[Top + 1] = [event |-> f, only |-> only]
        BY <2>1, AppendEntry
      <3>2. i = Top + 1
        BY <1>1, <2>0, <3>1 DEF TypeOK, Top
      <3> QED BY <1>1, <3>1, <3>2
    <2>2. ASSUME NEW a \in Retriers, RetryXadd(a) PROVE FALSE
      <3>1. PICK d \in retry[a] : Append1(d.event, d.group)
        BY <2>2 DEF RetryXadd
      <3>2. d.event \in Events /\ d.group \in Groups
        BY DEF TypeOK, DeadLetter
      <3>3. d.event = e
        BY <2>1, <3>1, <3>2
      <3> QED BY <1>1, <3>3 DEF Travelled, Returned
    <2>4. UNCHANGED stream => i \in 1 .. Top
      BY DEF Top
    <2>3. ASSUME NEW r \in Replicas, XaddAccepted(r) \/ XaddUnanswered(r)
          PROVE  Begins(e)
      <3>1. UNCHANGED <<delivered, pending, workerVars>>
        BY <2>3, UnansweredAdds DEF XaddAccepted, groupVars
      <3>2. \/ UNCHANGED stream
            \/ \E f \in Events \ Poison : f \in unsent[r] /\ Append1(f, Everyone)
        BY <2>3, UnansweredAdds DEF XaddAccepted, IsFirst
      <3>3. PICK f \in Events \ Poison : f \in unsent[r] /\ Append1(f, Everyone)
        BY <2>0, <2>4, <3>2
      <3>4. f = e
        BY <2>1, <3>3
      <3> QED BY <3>1, <3>3, <3>4 DEF RowsInOneHand, Begins
    <2> QED BY <2>0, <2>2, <2>3, <2>4, StreamSources
  <1>2. ASSUME NEW g \in Groups, e \in done'[g] PROVE Travelled(e)
    <2>1. ASSUME NEW w \in Workers, HandleReturns(w) PROVE Travelled(e)
      <3>1. cur[w] \in 1 .. Top
        BY <2>1, CurrentEntry DEF HandleReturns, Busy
      <3>2. done' = [done EXCEPT ![Home(w)] = @ \cup {stream[cur[w]].event}]
        BY <2>1 DEF HandleReturns
      <3>3. e \in done[g] \/ e = stream[cur[w]].event
        BY <1>2, <3>2 DEF TypeOK
      <3> QED BY <3>1, <3>3 DEF Travelled
    <2>2. ASSUME done' = done PROVE Travelled(e)
      BY <1>2, <2>2 DEF Travelled
    <2>3. done' = done \/ \E w \in Workers : HandleReturns(w)
      BY LetterFrame DEF SendToDlq, RetryRead, RetryXadd, RetryXdel, RetryFails,
                         handlerVars
    <2> QED BY <2>1, <2>2, <2>3
  <1>3. ASSUME NEW d \in Returned', d.event = e PROVE Travelled(e)
    <2>1. ASSUME NEW w \in Workers, SendToDlq(w) PROVE Travelled(e)
      <3>1. cur[w] \in 1 .. Top
        BY <2>1, CurrentEntry DEF SendToDlq, Busy
      <3>2. d \in Returned \/ d.event = stream[cur[w]].event
        <4>1. Returned' = Returned \cup {[id |-> dlqTop + 1, event |-> stream[cur[w]].event,
                                         group |-> Home(w)]}
          BY <2>1 DEF SendToDlq, Returned, retryVars
        <4> QED BY <4>1
      <3> QED BY <1>3, <3>1, <3>2 DEF Travelled
    <2>2. Returned' \subseteq Returned \/ \E w \in Workers : SendToDlq(w)
      <3>1. CASE UNCHANGED <<done, dlq, retry>>
        BY <3>1 DEF Returned
      <3>2. ASSUME NEW w \in Workers, HandleReturns(w) PROVE Returned' \subseteq Returned
        BY <3>2 DEF HandleReturns, Returned, dlqVars, retryVars
      <3>3. ASSUME NEW a \in Retriers, RetryRead(a) PROVE Returned' \subseteq Returned
        BY <3>3 DEF RetryRead, Returned, TypeOK, dlqVars
      <3>4. ASSUME NEW a \in Retriers, RetryXadd(a) PROVE Returned' \subseteq Returned
        BY <3>4 DEF RetryXadd, Returned, dlqVars
      <3>5. ASSUME NEW a \in Retriers, RetryXdel(a) PROVE Returned' \subseteq Returned
        BY <3>5 DEF RetryXdel, Returned, TypeOK
      <3>6. ASSUME NEW a \in Retriers, RetryFails(a) PROVE Returned' \subseteq Returned
        BY <3>6 DEF RetryFails, Returned, TypeOK, dlqVars
      <3> QED BY <3>1, <3>2, <3>3, <3>4, <3>5, <3>6, LetterFrame
    <2> QED BY <1>3, <2>1, <2>2 DEF Travelled
  <1> QED BY <1>1, <1>2, <1>3 DEF Travelled

\* A row never returns to a state before its commit, and a row in quarantine
\* stays there.
LEMMA RowsMoveOn ==
    ASSUME TypeOK, RowsInOneHand, Next, NEW e \in Events
    PROVE  /\ outbox[e] # "none" => outbox'[e] # "none"
           /\ outbox[e] = "quarantined" => outbox'[e] = "quarantined"
  <1>1. CASE UNCHANGED <<outboxVars, dispatchVars>>
    BY <1>1 DEF outboxVars
  <1>2. ASSUME NEW f \in Events, PublishEvent(f) \/ PruneOutbox(f)
        PROVE  /\ outbox[e] # "none" => outbox'[e] # "none"
               /\ outbox'[e] = "quarantined" <=> outbox[e] = "quarantined"
    BY <1>2 DEF PublishEvent, PruneOutbox, TypeOK
  <1>3. ASSUME NEW r \in Replicas, CommitRows(r)
        PROVE  /\ outbox[e] # "none" => outbox'[e] # "none"
               /\ outbox[e] = "quarantined" => outbox'[e] = "quarantined"
    BY <1>3 DEF CommitRows, RowAfter, RowsInOneHand
  <1>4. ASSUME NEW r \in Replicas,
               SelectRows(r) \/ XaddAccepted(r) \/ XaddRefused(r) \/ XaddUnanswered(r) \/ XaddSystemic(r)
                 \/ DispatchFails(r) \/ Crash(r)
        PROVE  UNCHANGED outbox
    BY <1>4 DEF SelectRows, XaddAccepted, XaddRefused, XaddUnanswered, XaddSystemic, DispatchFails,
                Crash, outboxVars
  <1> QED BY <1>1, <1>2, <1>3, <1>4, OutboxFrame DEF DispatcherStep

\* Every step keeps what travels committed and acceptable.
LEMMA StepTravel ==
    ASSUME TypeOK, IdsInRange, RowsInOneHand, OnlyCommittedTravel, Next
    PROVE  OnlyCommittedTravel'
  BY TravelBegins, RowsMoveOn DEF OnlyCommittedTravel, Begins

\* A row is taken over when Redis accepts it, and only then.
LEMMA TakenOverBegins ==
    ASSUME TypeOK, RowsInOneHand, Next, NEW e \in Events, TakenOver(e)'
    PROVE  TakenOver(e) \/ (Append1(e, Everyone) /\ UNCHANGED <<delivered, pending, workerVars>>)
  <1>2. ASSUME NEW r \in Replicas, XaddAccepted(r), ~TakenOver(e)
        PROVE  Append1(e, Everyone) /\ UNCHANGED <<delivered, pending, workerVars>>
    BY <1>2 DEF XaddAccepted, TakenOver, outboxVars, groupVars, TypeOK
  <1>3. ASSUME ~\E r \in Replicas : XaddAccepted(r) PROVE TakenOver(e)
    <2>1. CASE UNCHANGED <<outboxVars, dispatchVars>>
      BY <2>1 DEF TakenOver, outboxVars, dispatchVars
    <2>2. ASSUME NEW f \in Events, PublishEvent(f) \/ PruneOutbox(f)
          PROVE  TakenOver(e)
      BY <2>2 DEF PublishEvent, PruneOutbox, TakenOver, dispatchVars, TypeOK
    <2>3. ASSUME NEW r \in Replicas,
                 \/ SelectRows(r) \/ XaddRefused(r) \/ XaddUnanswered(r)
                 \/ XaddSystemic(r)
          PROVE  TakenOver(e)
      BY <2>3 DEF SelectRows, XaddRefused, XaddUnanswered, XaddSystemic, TakenOver,
                  outboxVars
    <2>4. ASSUME NEW r \in Replicas, CommitRows(r) PROVE TakenOver(e)
      BY <2>4 DEF CommitRows, RowAfter, TakenOver, TypeOK
    <2>5. ASSUME NEW r \in Replicas, DispatchFails(r) \/ Crash(r) PROVE TakenOver(e)
      BY <2>5 DEF DispatchFails, Crash, TakenOver, outboxVars, TypeOK
    <2> QED BY <1>3, <2>1, <2>2, <2>3, <2>4, <2>5, OutboxFrame DEF DispatcherStep
  <1> QED BY <1>2, <1>3

\* Every step keeps each event that travels, or that the bus has taken over,
\* solid for its subscribers.
LEMMA StepSolid ==
    ASSUME IndInv, Next
    PROVE  TravelledIsSolid'
  <1> SUFFICES ASSUME NEW e \in Events, TakenOver(e)' \/ Travelled(e)', NEW g \in Wants[e]
               PROVE  Solid(e, g)'
    BY DEF TravelledIsSolid
  <1>1. CASE TakenOver(e) \/ Travelled(e)
    BY <1>1, SolidStays DEF IndInv, TravelledIsSolid
  <1>2. CASE Append1(e, Everyone) /\ UNCHANGED <<delivered, pending, workerVars>>
    BY <1>2, NewEntryStands DEF IndInv
  <1> QED BY <1>1, <1>2, TakenOverBegins, TravelBegins DEF Begins, IndInv

-----------------------------------------------------------------------------
(* The theorems.                                                            *)

\* The initial states satisfy the inductive invariant.
LEMMA InitInductive == Init => IndInv
  <1> SUFFICES ASSUME Init PROVE IndInv
    OBVIOUS
  <1>1. TypeOK /\ IdsInRange
    BY InitTyped
  <1>2. Top = 0
    BY DEF Init, Top
  <1>3. TrimKeepsUnacked /\ TrimBelowUnacked
    BY <1>2 DEF Init, NoTrim, TrimKeepsUnacked, TrimBelowUnacked
  <1>4. MarkedIsDone
    BY HomeIsGroup DEF Init, MarkedIsDone
  <1>5. RetrierShape
    BY DEF Init, RetrierShape
  <1>6. TravelledIsSolid
    BY <1>2 DEF Init, TravelledIsSolid, TakenOver, Travelled, Returned
  <1>7. BatchIsRead
    BY HomeIsGroup DEF Init, BatchIsRead, Busy
  <1>8. LettersAreBuried /\ OnlyCommittedTravel
    BY <1>2 DEF Init, LettersAreBuried, OnlyCommittedTravel, Travelled, Returned
  <1>9. RowsInOneHand /\ ChargesArePaid
    BY DEF Init, RowsInOneHand, ChargesArePaid, Charged
  <1>10. CopiesArePaid
    <2>1. ASSUME NEW e \in Events PROVE Cardinality(CopiesOf(e)) = 0
      <3>1. CopiesOf(e) = {}
        BY <1>2 DEF CopiesOf
      <3>2. Cardinality({}) = 0
        BY FS_EmptySet
      <3> QED BY <3>1, <3>2
    <2>2. faults = 0
      BY DEF Init
    <2> QED BY <2>1, <2>2 DEF CopiesArePaid
  <1> QED BY <1>1, <1>3, <1>4, <1>5, <1>6, <1>7, <1>8, <1>9, <1>10 DEF IndInv

\* Every step preserves the inductive invariant.
LEMMA StepInductive == IndInv /\ [Next]_vars => IndInv'
  <1>1. ASSUME IndInv, Next PROVE IndInv'
    BY <1>1, StepTyped, StepTrim, StepMarked, StepRetrier, StepSolid, StepBatch,
       StepLetters, StepRows, StepCopies, StepCharges, StepTravel DEF IndInv
  <1>2. ASSUME IndInv, UNCHANGED vars PROVE IndInv'
    <2> USE <1>2 DEF IndInv, vars, outboxVars, dispatchVars, streamVars, groupVars,
              workerVars, handlerVars, dlqVars, retryVars, trimVars
    <2>1. TypeOK'
      BY DEF TypeOK, Top
    <2>2. IdsInRange'
      BY DEF IdsInRange, Top
    <2>3. TrimKeepsUnacked' /\ TrimBelowUnacked'
      BY DEF TrimKeepsUnacked, TrimBelowUnacked, Unacked, Top
    <2>4. MarkedIsDone' /\ RetrierShape'
      BY DEF MarkedIsDone, RetrierShape
    <2>5. TravelledIsSolid'
      BY DEF TravelledIsSolid, TakenOver, Travelled, Returned, Solid, Standing, Lying,
             Addressed, Unacked, Top
    <2>6. BatchIsRead' /\ LettersAreBuried'
      BY DEF BatchIsRead, LettersAreBuried, Returned, Addressed, Top
    <2>7. RowsInOneHand'
      BY DEF RowsInOneHand
    <2>8. CopiesArePaid' /\ ChargesArePaid'
      BY DEF CopiesArePaid, CopiesOf, TakenOver, ChargesArePaid, Charged, Top
    <2>9. OnlyCommittedTravel'
      BY DEF OnlyCommittedTravel, Travelled, Returned, Top
    <2> QED BY <2>1, <2>2, <2>3, <2>4, <2>5, <2>6, <2>7, <2>8, <2>9
  <1> QED BY <1>1, <1>2

\* The inductive invariant holds in every reachable state.
THEOREM Invariance == Spec => []IndInv
  BY InitInductive, StepInductive, PTL DEF Spec

\* Every variable keeps its type in every reachable state.
THEOREM TypeCorrect == Spec => []TypeOK
  <1>1. IndInv => TypeOK
    BY DEF IndInv
  <1> QED BY <1>1, Invariance, PTL

\* trimStreams never removes an entry that a registered group has not
\* acknowledged, whatever moves while groupsFloor is computed.
THEOREM TrimSafe == Spec => []TrimKeepsUnacked
  <1>1. IndInv => TrimKeepsUnacked
    BY DEF IndInv
  <1> QED BY <1>1, Invariance, PTL

\* A solid pair is handled, or its event will still come to the subscriber, or
\* it has its dead letter.
Kept(e, g) == e \in done[g] \/ InFlight(e, g) \/ IsDead(e, g)
LEMMA SolidIsKept ==
    IndInv => \A e \in Events : \A g \in Wants[e] : Solid(e, g) => Kept(e, g)
  <1>1. ASSUME IndInv, NEW e \in Events, NEW g \in Wants[e], Solid(e, g)
        PROVE  e \in done[g] \/ InFlight(e, g) \/ IsDead(e, g)
    <2>2. ASSUME NEW i \in 1 .. Top, Standing(e, g, i) PROVE InFlight(e, g)
      <3>1. lo <= i /\ lo \in Nat /\ Top \in Nat
        <4>1. lo \in Nat /\ Top \in Nat /\ g \in Groups
          BY <1>1 DEF IndInv, TypeOK, Top
        <4> QED BY <1>1, <2>2, <4>1 DEF IndInv, TrimKeepsUnacked, Standing
      <3>2. i \in lo .. Top
        BY <3>1
      <3> QED BY <2>2, <3>2 DEF InFlight, Standing
    <2>3. ASSUME NEW d \in dlq, Lying(e, g, d) PROVE IsDead(e, g)
      BY <2>3 DEF IsDead, Lying
    <2> QED BY <1>1, <2>2, <2>3 DEF Solid
  <1> QED BY <1>1 DEF Kept

\* No event is lost, in the form the later lemmas use.
LEMMA NoLossFromInvariant == IndInv => NoEventLost
  BY SolidIsKept DEF IndInv, TravelledIsSolid, NoEventLost, Kept, TakenOver

\* No published event is lost for any subscriber that wants it.
THEOREM NothingLost == Spec => []NoEventLost
  BY NoLossFromInvariant, Invariance, PTL

\* What was marked when a batch arrived is not handled from that batch.
THEOREM MarkedNotRerun == Spec => []NoRerunOfMarked
  <1>1. IndInv => NoRerunOfMarked
    BY DEF IndInv, BatchIsRead, NoRerunOfMarked, Busy
  <1> QED BY <1>1, Invariance, PTL

\* A returned dead letter is handled only by the subscriber that failed on it.
THEOREM RetryIsAddressed == Spec => []RetryWakesOnlyItsSubscriber
  <1>1. ASSUME IndInv, NEW w \in Workers, step[w] = "handle",
               stream[cur[w]].only # Everyone
        PROVE  <<stream[cur[w]].event, Home(w)>> \in buried
    <2>1. cur[w] \in 1 .. Top /\ cur[w] \in batch[w]
      BY <1>1, CurrentEntry DEF IndInv, IdsInRange, Busy
    <2>2. stream[cur[w]].only = Home(w)
      BY <1>1, <2>1 DEF IndInv, BatchIsRead, Busy, Addressed
    <2> QED BY <1>1, <2>1, <2>2 DEF IndInv, LettersAreBuried
  <1>2. IndInv => RetryWakesOnlyItsSubscriber
    BY <1>1 DEF RetryWakesOnlyItsSubscriber
  <1> QED BY <1>2, Invariance, PTL

\* Parallel dispatchers do not publish the same row: copies are owed to faults.
THEOREM CopiesPaid == Spec => []OneCopyPerFault
  <1>1. ASSUME IndInv, NEW e \in Events
        PROVE  Cardinality(CopiesOf(e)) <= 1 + faults
    <2>1. Top \in Nat /\ faults \in Nat
      BY <1>1 DEF IndInv, TypeOK, Top
    <2>2. IsFiniteSet(CopiesOf(e))
      <3>1. IsFiniteSet(1 .. Top) /\ CopiesOf(e) \subseteq 1 .. Top
        BY <2>1, FS_Interval DEF CopiesOf
      <3> QED BY <3>1, FS_Subset
    <2>3. Cardinality(CopiesOf(e)) \in Nat
      BY <2>2, FS_CardinalityType
    <2> QED BY <1>1, <2>1, <2>3 DEF IndInv, CopiesArePaid
  <1>2. IndInv => OneCopyPerFault
    BY <1>1 DEF OneCopyPerFault
  <1> QED BY <1>2, Invariance, PTL

-----------------------------------------------------------------------------
(* The promise of the bus.                                                  *)

\* Every pair of an event that travels is known: owed, handled or dead.
Known == Owed \cup DonePairs \cup DeadPairs
LEMMA TravelledIsKnown ==
    ASSUME IndInv, NEW e \in Events, Travelled(e), NEW g \in Wants[e]
    PROVE  <<e, g>> \in Known
  <1> PICK p \in Events \X Groups : p = <<e, g>>
    OBVIOUS
  <1>0. p[1] = e /\ p[2] = g
    OBVIOUS
  <1>3. e \in done[g] \/ InFlight(e, g) \/ IsDead(e, g)
    BY SolidIsKept DEF IndInv, TravelledIsSolid, Kept
  <1>4. e \in done[g] => p \in DonePairs
    BY <1>0 DEF DonePairs
  <1>5. IsDead(e, g) => p \in DeadPairs
    BY <1>0 DEF DeadPairs
  <1>6. InFlight(e, g) => p \in Owed
    BY <1>0 DEF Owed
  <1> QED BY <1>3, <1>4, <1>5, <1>6 DEF Known

\* An entry in flight was added to the stream.
LEMMA FlightIsTravel ==
    ASSUME TypeOK, NEW e \in Events, NEW g, InFlight(e, g)
    PROVE  Travelled(e) /\ g \in Wants[e]
  <1>1. PICK i \in lo .. Top : stream[i].event = e /\ Addressed(i, g) /\ Unacked(g, i)
    BY DEF InFlight
  <1>2. i \in 1 .. Top
    BY <1>1 DEF Unacked
  <1> QED BY <1>1, <1>2 DEF Travelled, Addressed

\* The cut moves up only.
LEMMA CutMovesUp == ASSUME TypeOK, Next PROVE lo' \in Nat /\ lo <= lo'
  <1>1. CASE UNCHANGED <<lo, trim>>
    BY <1>1 DEF TypeOK
  <1>2. ASSUME TrimStart \/ \E g \in Groups : TrimGroup(g) PROVE lo' = lo
    BY <1>2 DEF TrimStart, TrimGroup, streamVars
  <1>3. CASE TrimCut
    BY <1>3 DEF TrimCut, TypeOK
  <1> QED BY <1>1, <1>2, <1>3, TrimFrame DEF TypeOK

\* Nothing comes into flight but by an XADD of that event to that subscriber.
LEMMA FlightBegins ==
    ASSUME TypeOK, IdsInRange, Next, NEW e \in Events, NEW g \in Groups, InFlight(e, g)'
    PROVE  \/ InFlight(e, g)
           \/ \E r \in Replicas : e \in unsent[r]
           \/ \E a \in Retriers : \E d \in retry[a] :
                RetryXadd(a) /\ d.event = e /\ d.group = g
  <1>0. Top \in Nat /\ lo \in Nat /\ lo' \in Nat /\ lo <= lo'
    BY CutMovesUp DEF TypeOK, Top
  <1>1. PICK i \in lo' .. Top' : /\ stream'[i].event = e
                                 /\ Addressed(i, g)' /\ Unacked(g, i)'
    BY DEF InFlight
  <1>2. i \in 1 .. Top' /\ lo <= i
    BY <1>0, <1>1 DEF Unacked
  <1>3. CASE i \in 1 .. Top
    <2>1. stream'[i] = stream[i] /\ Unacked(g, i)
      BY <1>0, <1>1, <1>3, EntryStays, UnackedShrinks
    <2>2. i \in lo .. Top
      BY <1>0, <1>2, <1>3
    <2> QED BY <1>1, <2>1, <2>2 DEF InFlight, Addressed
  <1>4. ASSUME NEW f \in Events, NEW only \in Groups \cup {Everyone}, Append1(f, only),
               i \notin 1 .. Top
        PROVE  f = e /\ only \in {Everyone, g}
    <2>1. Top' = Top + 1 /\ stream'[Top + 1] = [event |-> f, only |-> only]
      BY <1>4, AppendEntry
    <2>2. i = Top + 1
      BY <1>0, <1>2, <1>4, <2>1
    <2> QED BY <1>1, <2>1, <2>2 DEF Addressed
  <1>5. ASSUME NEW r \in Replicas, XaddAccepted(r) \/ XaddUnanswered(r), i \notin 1 .. Top
        PROVE  e \in unsent[r]
    <2>1. \/ UNCHANGED stream
          \/ \E f \in Events : f \in unsent[r] /\ Append1(f, Everyone)
      BY <1>5, UnansweredAdds DEF XaddAccepted, IsFirst
    <2> QED BY <1>2, <1>4, <1>5, <2>1 DEF Top
  <1>6. ASSUME NEW a \in Retriers, RetryXadd(a), i \notin 1 .. Top
        PROVE  \E d \in retry[a] : d.event = e /\ d.group = g
    <2>1. PICK d \in retry[a] : Append1(d.event, d.group)
      BY <1>6 DEF RetryXadd
    <2>2. d.event \in Events /\ d.group \in Groups
      BY DEF TypeOK, DeadLetter
    <2> QED BY <1>4, <1>6, <2>1, <2>2
  <1>7. UNCHANGED stream => i \in 1 .. Top
    BY <1>2 DEF Top
  <1> QED BY <1>3, <1>5, <1>6, <1>7, StreamSources

\* A pair stops being owed only when it is handled or dead, or its event is parked.
LEMMA OwedIsSettled ==
    ASSUME IndInv, Next, NEW p \in Owed, p \notin Owed'
    PROVE  p \in DonePairs' \/ p \in DeadPairs' \/ p[1] \in Parked'
  <1> USE DEF IndInv
  <1> DEFINE e == p[1]
             g == p[2]
  <1>0. IndInv'
    BY StepInductive
  <1>1. p \in Events \X Groups /\ e \in Events /\ g \in Groups /\ g \in Wants[e]
    BY DEF Owed
  <1>2. outbox[e] # "none"
    <2>1. outbox[e] = "pending" \/ InFlight(e, g)
      BY DEF Owed
    <2> QED BY <1>1, <2>1, FlightIsTravel DEF OnlyCommittedTravel
  <1>3. outbox'[e] # "pending" /\ ~InFlight(e, g)'
    BY <1>1 DEF Owed
  <1>4. outbox'[e] \in {"published", "deleted", "quarantined"}
    BY <1>0, <1>1, <1>2, <1>3, RowsMoveOn DEF TypeOK, Rows
  <1>5. CASE outbox'[e] = "quarantined"
    BY <1>1, <1>5 DEF Parked
  <1>6. CASE outbox'[e] \in {"published", "deleted"}
    <2>1. NoEventLost'
      BY <1>0, NoLossFromInvariant, PTL
    <2>2. e \in done'[g] \/ IsDead(e, g)'
      BY <1>1, <1>3, <1>6, <2>1 DEF NoEventLost
    <2> QED BY <1>1, <2>2 DEF DonePairs, DeadPairs
  <1> QED BY <1>4, <1>5, <1>6

\* A pair becomes owed only when its event is published or its letter returned.
LEMMA OwedBegins ==
    ASSUME IndInv, Next, NEW p \in Owed', p \notin Owed
    PROVE  \/ PublishEvent(p[1])
           \/ \E a \in Retriers : \E d \in retry[a] :
                RetryXadd(a) /\ d.event = p[1] /\ d.group = p[2]
  <1> USE DEF IndInv
  <1> DEFINE e == p[1]
             g == p[2]
  <1>1. p \in Events \X Groups /\ e \in Events /\ g \in Groups /\ g \in Wants[e]
    BY DEF Owed
  <1>2. outbox[e] # "pending" /\ ~InFlight(e, g)
    BY <1>1 DEF Owed
  <1>3. CASE outbox'[e] = "pending"
    <2>1. CASE UNCHANGED <<outboxVars, dispatchVars>>
      BY <1>2, <1>3, <2>1 DEF outboxVars
    <2>2. ASSUME NEW f \in Events, PublishEvent(f) PROVE f = e
      BY <1>1, <1>2, <1>3, <2>2 DEF PublishEvent, TypeOK
    <2>3. ASSUME NEW f \in Events, PruneOutbox(f) PROVE FALSE
      BY <1>1, <1>2, <1>3, <2>3 DEF PruneOutbox, TypeOK
    <2>4. ASSUME NEW r \in Replicas, CommitRows(r) PROVE FALSE
      BY <1>1, <1>2, <1>3, <2>4 DEF CommitRows, RowAfter
    <2>5. ASSUME NEW r \in Replicas,
                 SelectRows(r) \/ XaddAccepted(r) \/ XaddRefused(r) \/ XaddUnanswered(r) \/ XaddSystemic(r)
                   \/ DispatchFails(r) \/ Crash(r)
          PROVE  FALSE
      BY <1>2, <1>3, <2>5 DEF SelectRows, XaddAccepted, XaddRefused, XaddUnanswered, XaddSystemic,
         DispatchFails, Crash, outboxVars
    <2> QED BY <2>1, <2>2, <2>3, <2>4, <2>5, OutboxFrame DEF DispatcherStep
  <1>4. CASE InFlight(e, g)'
    <2>1. ASSUME NEW r \in Replicas, e \in unsent[r] PROVE FALSE
      BY <1>2, <2>1 DEF RowsInOneHand
    <2>2. \/ InFlight(e, g)
          \/ \E r \in Replicas : e \in unsent[r]
          \/ \E a \in Retriers : \E d \in retry[a] :
               RetryXadd(a) /\ d.event = e /\ d.group = g
      <3> HIDE DEF e, g
      <3> QED BY <1>1, <1>4, FlightBegins
    <2> QED BY <1>2, <2>1, <2>2
  <1> QED BY <1>1, <1>3, <1>4 DEF Owed

\* What a handler's return, or a dead letter of it, is about: a known pair.
LEMMA CurrentPair ==
    ASSUME IndInv, NEW w \in Workers, step[w] \in Busy
    PROVE  /\ <<stream[cur[w]].event, Home(w)>> \in Events \X Groups
           /\ Home(w) \in Wants[stream[cur[w]].event]
           /\ <<stream[cur[w]].event, Home(w)>> \in Known
  <1> USE DEF IndInv
  <1>1. cur[w] \in 1 .. Top /\ stream[cur[w]].event \in Events
    BY CurrentEntry
  <1>2. Home(w) \in Wants[stream[cur[w]].event]
    BY DEF IdsInRange, BatchIsRead, Addressed
  <1>3. Travelled(stream[cur[w]].event)
    BY <1>1 DEF Travelled
  <1> QED BY <1>1, <1>2, <1>3, HomeIsGroup, TravelledIsKnown

\* Every step of the bus is a step of its promise, or leaves it alone.
LEMMA StepKeepsPromise ==
    ASSUME IndInv, Next
    PROVE  Promise!Next \/ UNCHANGED <<Owed, DonePairs, DeadPairs, Parked>>
  <1> USE DEF IndInv
  <1>1. ASSUME NEW e \in Events, PublishEvent(e) PROVE Promise!Commit(e)
    <2>1. /\ outbox[e] = "none"
          /\ outbox' = [outbox EXCEPT ![e] = "pending"]
          /\ UNCHANGED <<stream, lo, delivered, pending, done, dlq>>
      BY <1>1 DEF PublishEvent, streamVars, groupVars, handlerVars, dlqVars
    <2>2. ~Travelled(e)
      BY <2>1 DEF OnlyCommittedTravel
    <2>3. \A g \in Groups : <<e, g>> \notin Known
      <3> SUFFICES ASSUME NEW g \in Groups, <<e, g>> \in Known PROVE FALSE
        OBVIOUS
      <3>1. <<e, g>> \notin Owed
        BY <2>1, <2>2, FlightIsTravel DEF Owed
      <3>2. <<e, g>> \notin DonePairs
        BY <2>2 DEF DonePairs, Travelled
      <3>3. <<e, g>> \notin DeadPairs
        BY <2>2 DEF DeadPairs, IsDead, Travelled, Returned
      <3> QED BY <3>1, <3>2, <3>3 DEF Known
    <2>4. e \notin Parked /\ Parked' = Parked
      BY <2>1 DEF Parked, TypeOK
    <2>5. DonePairs' = DonePairs /\ DeadPairs' = DeadPairs
      BY <2>1 DEF DonePairs, DeadPairs, IsDead
    <2>6. Owed' = Owed \cup {p \in Promise!Pairs : p[1] = e}
      <3>1. \A f \in Events, g \in Groups : InFlight(f, g)' <=> InFlight(f, g)
        BY <2>1 DEF InFlight, Addressed, Unacked, Top
      <3>2. \A f \in Events : outbox'[f] = "pending" <=> outbox[f] = "pending" \/ f = e
        BY <2>1 DEF TypeOK
      <3> QED BY <3>1, <3>2 DEF Owed, Promise!Pairs
    <2> QED BY <2>3, <2>4, <2>5, <2>6 DEF Promise!Commit, Promise!Known, Known
  <1>2. ASSUME NEW w \in Workers, HandleReturns(w)
        PROVE  \E p \in Promise!Pairs : Promise!Handle(p)
    <2> DEFINE p == <<stream[cur[w]].event, Home(w)>>
    <2>1. p \in Promise!Pairs /\ p \in Known
      BY <1>2, CurrentPair DEF HandleReturns, Busy, Promise!Pairs
    <2>2. done' = [done EXCEPT ![Home(w)] = @ \cup {stream[cur[w]].event}]
      BY <1>2 DEF HandleReturns
    <2>3. UNCHANGED <<outbox, stream, lo, delivered, pending, dlq>>
      BY <1>2 DEF HandleReturns, outboxVars, streamVars, groupVars, dlqVars
    <2>4. DonePairs' = DonePairs \cup {p}
      BY <2>1, <2>2 DEF DonePairs, TypeOK, Promise!Pairs
    <2>5. UNCHANGED <<Owed, DeadPairs, Parked>>
      BY <2>3 DEF Owed, DeadPairs, Parked, IsDead, InFlight, Addressed, Unacked, Top
    <2> QED BY <2>1, <2>4, <2>5 DEF Promise!Handle, Promise!Known, Known
  <1>3. ASSUME NEW w \in Workers, SendToDlq(w)
        PROVE  \E p \in Promise!Pairs : Promise!Bury(p)
    <2> DEFINE p == <<stream[cur[w]].event, Home(w)>>
    <2>1. p \in Promise!Pairs /\ p \in Known
      BY <1>3, CurrentPair DEF SendToDlq, Busy, Promise!Pairs
    <2>2. dlq' = dlq \cup {[id |-> dlqTop + 1, event |-> stream[cur[w]].event,
                            group |-> Home(w)]}
      BY <1>3 DEF SendToDlq
    <2>3. UNCHANGED <<outbox, stream, lo, delivered, pending, done>>
      BY <1>3 DEF SendToDlq, outboxVars, streamVars, groupVars, handlerVars
    <2>4. ASSUME NEW f \in Events, NEW g \in Groups
          PROVE  IsDead(f, g)' <=> IsDead(f, g) \/ (f = p[1] /\ g = p[2])
      <3> PICK d : d = [id |-> dlqTop + 1, event |-> p[1], group |-> p[2]]
        OBVIOUS
      <3>1. dlq' = dlq \cup {d} /\ d.event = p[1] /\ d.group = p[2]
        BY <2>2
      <3> QED BY <3>1 DEF IsDead
    <2>5. DeadPairs' = DeadPairs \cup {p}
      BY <2>1, <2>4 DEF DeadPairs, Promise!Pairs
    <2>6. UNCHANGED <<Owed, DonePairs, Parked>>
      BY <2>3 DEF Owed, DonePairs, Parked, InFlight, Addressed, Unacked, Top
    <2> QED BY <2>1, <2>5, <2>6 DEF Promise!Bury, Promise!Known, Known
  <1>4. ASSUME NEW a \in Retriers, RetryXadd(a)
        PROVE  \E p \in Promise!Pairs : Promise!Renew(p)
    <2>1. PICK d \in retry[a] : Append1(d.event, d.group)
      BY <1>4 DEF RetryXadd
    <2> DEFINE p == <<d.event, d.group>>
    <2>2. d.event \in Events /\ d.group \in Groups /\ d \in Returned
      BY DEF TypeOK, DeadLetter, Returned
    <2>3. d.group \in Wants[d.event] /\ Travelled(d.event)
      <3>1. p \in buried
        BY <2>2 DEF LettersAreBuried
      <3>2. p[2] \in Wants[p[1]]
        BY <3>1 DEF LettersAreBuried
      <3> QED BY <2>2, <3>2 DEF Travelled
    <2>4. p \in Promise!Pairs /\ p \in Known
      BY <2>2, <2>3, TravelledIsKnown DEF Promise!Pairs
    <2>5. UNCHANGED <<outbox, lo, delivered, pending, done, dlq>>
      BY <1>4 DEF RetryXadd, outboxVars, groupVars, handlerVars, dlqVars
    <2>6. UNCHANGED <<DonePairs, DeadPairs, Parked>>
      BY <2>5 DEF DonePairs, DeadPairs, Parked, IsDead
    <2>7. Owed \subseteq Owed'
      <3>1. ASSUME NEW e \in Events, NEW g \in Groups, InFlight(e, g) PROVE InFlight(e, g)'
        <4>1. PICK i \in lo .. Top : stream[i].event = e /\ Addressed(i, g) /\ Unacked(g, i)
          BY <3>1 DEF InFlight
        <4>2. i \in 1 .. Top
          BY <4>1 DEF Unacked
        <4>3. i \in 1 .. Top' /\ stream'[i] = stream[i]
          BY <4>2, EntryStays
        <4>4. i \in lo' .. Top'
          BY <2>5, <4>1, <4>3
        <4> QED BY <2>5, <4>1, <4>3, <4>4 DEF InFlight, Addressed, Unacked
      <3> QED BY <2>5, <3>1 DEF Owed
    <2>8. p \in Owed'
      <3>1. Top \in Nat /\ lo \in Nat /\ lo <= Top + 1 /\ delivered[d.group] <= Top
              /\ delivered[d.group] \in Nat
        BY <2>2 DEF TypeOK, IdsInRange, Top
      <3>2. Top' = Top + 1 /\ stream'[Top + 1] = [event |-> d.event, only |-> d.group]
        BY <2>1, <2>2, AppendEntry
      <3> PICK n \in Nat : n = Top + 1
        BY <3>1
      <3>3. n \in lo' .. Top' /\ Unacked(d.group, n)'
        BY <2>5, <3>1, <3>2 DEF Unacked
      <3>4. stream'[n].event = d.event /\ Addressed(n, d.group)'
        BY <2>3, <3>2 DEF Addressed
      <3>5. InFlight(d.event, d.group)'
        BY <3>3, <3>4 DEF InFlight
      <3> QED BY <2>2, <2>3, <3>5 DEF Owed
    <2>9. Owed' \subseteq Owed \cup {p}
      <3> SUFFICES ASSUME NEW q \in Owed', q \notin Owed PROVE q = p
        OBVIOUS
      <3>1. PublishEvent(q[1]) => FALSE
        BY <2>1 DEF PublishEvent, Append1, streamVars, TypeOK, Top
      <3>2. PICK b \in Retriers : \E f \in retry[b] :
              RetryXadd(b) /\ f.event = q[1] /\ f.group = q[2]
        BY <3>1, OwedBegins
      <3>3. PICK f \in retry[b] : f.event = q[1] /\ f.group = q[2] /\ RetryXadd(b)
        BY <3>2
      <3>4. PICK h \in retry[b] : Append1(h.event, h.group)
        BY <3>3 DEF RetryXadd
      <3>5. h = f
        BY <3>3, <3>4 DEF RetrierShape
      <3>6. /\ f.event \in Events /\ f.group \in Groups
            /\ stream'[Top + 1] = [event |-> f.event, only |-> f.group]
        <4>1. f.event \in Events /\ f.group \in Groups
          BY <3>3 DEF TypeOK, DeadLetter
        <4>2. Append1(f.event, f.group)
          BY <3>4, <3>5
        <4> QED BY <4>1, <4>2, AppendEntry
      <3>7. stream'[Top + 1] = [event |-> d.event, only |-> d.group]
        BY <2>1, <2>2, AppendEntry
      <3>8. f.event = d.event /\ f.group = d.group
        BY <3>6, <3>7
      <3>9. q \in Events \X Groups
        BY DEF Owed
      <3>10. q = <<q[1], q[2]>>
        BY <3>9
      <3> QED BY <3>3, <3>8, <3>10
    <2>10. Owed' = Owed \cup {p}
      BY <2>7, <2>8, <2>9
    <2> QED BY <2>4, <2>6, <2>10 DEF Promise!Renew, Promise!Known, Known
  <1>5. ASSUME NEW a \in Retriers, RetryXdel(a)
        PROVE  (\E p \in Promise!Pairs : Promise!Unbury(p))
               \/ UNCHANGED <<Owed, DonePairs, DeadPairs, Parked>>
    <2>1. PICK d \in retry[a] : dlq' = dlq \ {d}
      BY <1>5 DEF RetryXdel
    <2> DEFINE p == <<d.event, d.group>>
    <2>2. d.event \in Events /\ d.group \in Groups /\ d \in Returned
      BY DEF TypeOK, DeadLetter, Returned
    <2>3. d.group \in Wants[d.event] /\ Travelled(d.event)
      <3>1. p \in buried
        BY <2>2 DEF LettersAreBuried
      <3>2. p[2] \in Wants[p[1]]
        BY <3>1 DEF LettersAreBuried
      <3> QED BY <2>2, <3>2 DEF Travelled
    <2>4. UNCHANGED <<outbox, stream, lo, delivered, pending, done>>
      BY <1>5 DEF RetryXdel, outboxVars, streamVars, groupVars, handlerVars
    <2>5. UNCHANGED <<Owed, DonePairs, Parked>>
      BY <2>4 DEF Owed, DonePairs, Parked, InFlight, Addressed, Unacked, Top
    <2>6. \A q \in Events \X Groups : q # p => (q \in DeadPairs' <=> q \in DeadPairs)
      <3>1. \A e \in Events, g \in Groups :
              <<e, g>> # p => (IsDead(e, g)' <=> IsDead(e, g))
        BY <2>1 DEF IsDead
      <3> QED BY <3>1 DEF DeadPairs
    <2>7. CASE IsDead(d.event, d.group)'
      <3>1. IsDead(d.event, d.group)
        BY <2>1, <2>7 DEF IsDead
      <3>2. p \in DeadPairs' /\ p \in DeadPairs
        BY <2>2, <2>7, <3>1 DEF DeadPairs
      <3>3. DeadPairs' = DeadPairs
        BY <2>6, <3>2 DEF DeadPairs
      <3> QED BY <2>5, <3>3
    <2>8. CASE ~IsDead(d.event, d.group)'
      <3>1. p \notin DeadPairs'
        BY <2>8 DEF DeadPairs
      <3>2. DeadPairs' = DeadPairs \ {p}
        BY <2>6, <3>1 DEF DeadPairs
      <3>3. p \in Owed' \cup DonePairs' \cup DeadPairs'
        <4>1. IndInv'
          BY StepInductive
        <4>2. (\A e \in Events : \A g \in Wants[e] : Solid(e, g) => Kept(e, g))'
          BY <4>1, SolidIsKept, PTL
        <4>3. Solid(d.event, d.group)'
          BY <2>2, <2>3, SolidStays DEF TravelledIsSolid
        <4>4. Kept(d.event, d.group)'
          BY <2>2, <2>3, <4>2, <4>3
        <4> QED BY <2>2, <2>3, <4>4 DEF Kept, Owed, DonePairs, DeadPairs
      <3>4. p \in Promise!Pairs /\ p \in Owed \cup DonePairs
        BY <2>2, <2>3, <2>5, <3>1, <3>3 DEF Promise!Pairs
      <3> QED BY <2>5, <3>2, <3>4 DEF Promise!Unbury
    <2> QED BY <2>7, <2>8
  <1>6. ASSUME \A e \in Events : ~PublishEvent(e),
               \A a \in Retriers : ~RetryXadd(a),
               UNCHANGED <<done, dlq>>
        PROVE  \E S \in SUBSET Owed, E \in SUBSET Events : Promise!Settle(S, E)
    <2>1. Owed' \subseteq Owed
      <3> SUFFICES ASSUME NEW p \in Owed', p \notin Owed PROVE FALSE
        OBVIOUS
      <3>1. p[1] \in Events
        BY DEF Owed
      <3> QED BY <1>6, <3>1, OwedBegins
    <2>2. DonePairs' = DonePairs /\ DeadPairs' = DeadPairs
      BY <1>6 DEF DonePairs, DeadPairs, IsDead
    <2>3. Parked \subseteq Parked' /\ Parked' \in SUBSET Events
      BY RowsMoveOn DEF Parked
    <2> DEFINE S == Owed \ Owed'
    <2>4. \A p \in S : p \in DonePairs \cup DeadPairs \/ p[1] \in Parked'
      BY <2>2, OwedIsSettled
    <2>5. Owed' = Owed \ S /\ Parked' = Parked \cup Parked'
      BY <2>1, <2>3
    <2>6. Promise!Settle(S, Parked')
      BY <2>2, <2>4, <2>5 DEF Promise!Settle
    <2> QED BY <2>3, <2>6
  <1>7. \/ UNCHANGED <<done, dlq>>
        \/ \E w \in Workers : HandleReturns(w) \/ SendToDlq(w)
        \/ \E a \in Retriers : RetryXdel(a)
    <2>1. ASSUME NEW a \in Retriers, RetryRead(a) \/ RetryXadd(a) \/ RetryFails(a)
          PROVE  UNCHANGED <<done, dlq>>
      BY <2>1 DEF RetryRead, RetryXadd, RetryFails, handlerVars, dlqVars
    <2> QED BY <2>1, LetterFrame
  <1> QED BY <1>1, <1>2, <1>3, <1>4, <1>5, <1>6, <1>7 DEF Promise!Next

\* The bus implements its promise: whatever crashes, is sent twice, reclaimed,
\* dead-lettered, returned, trimmed or pruned, a pair that is owed is never
\* forgotten, and every step of the bus is one the promise allows.
THEOREM PromiseKept == Spec => DeliversAtLeastOnce
  <1>1. Init => Promise!Init
    <2> SUFFICES ASSUME Init PROVE Promise!Init
      OBVIOUS
    <2>1. Top = 0 /\ TypeOK
      BY InitInductive DEF IndInv, Init, Top
    <2>2. \A e \in Events, g \in Groups : ~InFlight(e, g)
      BY <2>1 DEF InFlight, Unacked
    <2>3. Owed = {}
      BY <2>2 DEF Owed, Init
    <2> QED BY <2>3 DEF Init, Promise!Init, DonePairs, DeadPairs, Parked, IsDead
  <1>2. IndInv /\ [Next]_vars => [Promise!Next]_(Promise!vars)
    <2>1. CASE IndInv /\ Next
      BY <2>1, StepKeepsPromise DEF Promise!vars
    <2>2. CASE UNCHANGED vars
      BY <2>2 DEF vars, outboxVars, streamVars, groupVars, handlerVars, dlqVars, Owed,
         DonePairs, DeadPairs, Parked, IsDead, InFlight, Addressed, Unacked, Top,
         Promise!vars
    <2> QED BY <2>1, <2>2
  <1> QED BY <1>1, <1>2, Invariance, PTL DEF Spec, DeliversAtLeastOnce, Promise!AtLeastOnce
=============================================================================
