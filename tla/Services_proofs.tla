--------------------------- MODULE Services_proofs ---------------------------
(* Machine-checked theorems about the services, for all values of their       *)
(* constants: a run of a rule, the timers of a route, the items of the inbox, *)
(* the rows of documents edited together, upload sessions and the numbers of  *)
(* a journal.  Nothing is shared between the parts of this module.            *)
EXTENDS RuleRuns, Inbox, StepTimers, SharedDocument, Uploads, Numbering,
        FiniteSetTheorems, TLAPS

-----------------------------------------------------------------------------
(* RuleRuns: for every branch of actions, any number of executors and faults. *)

USE RuleRunsAssumption

Works == [at : Stages, next : Positions]

\* What becomes of the executors when one of them goes on.
LEMMA GoMoves ==
    ASSUME exec \in [Executors -> Works], NEW w \in Executors,
           NEW at \in Stages, NEW next \in Positions, Go(w, at, next)
    PROVE  /\ exec' \in [Executors -> Works]
           /\ exec'[w].at = at /\ exec'[w].next = next
           /\ \A v \in Executors \ {w} : exec'[v] = exec[v]
<1>1. [at |-> at, next |-> next] \in Works
  BY DEF Works
<1> QED
  BY <1>1 DEF Go

\* An action that was covered stays covered.
LEMMA CoverGrows ==
    ASSUME performed \subseteq performed', NEW i, Covered(i)
    PROVE  Covered(i)'
BY DEF Covered

\* Nothing was done and nobody works.
LEMMA RunInitial == RunInit => RunInv
<1> SUFFICES ASSUME RunInit PROVE RunInv
  OBVIOUS
<1>1. \A w \in Executors : exec[w].at = "idle" /\ exec[w].next = 0
  BY DEF RunInit
<1>2. RunTypeOK
  <2>1. exec \in [Executors -> [at : Stages, next : Positions]]
    BY DEF RunInit, Stages, Positions
  <2>2. runStatus \in RunOpen \cup RunClosed /\ resumeAt \in Positions
    BY DEF RunInit, RunOpen, Positions
  <2>3. /\ finishedAt \in BOOLEAN /\ leaseLive \in BOOLEAN /\ waitOver \in BOOLEAN
        /\ leaseOwner \in Executors \cup {NoExecutor} /\ dedupe \in {"free", "mine", "other"}
    BY DEF RunInit
  <2>4. /\ tickets \in Nat /\ delayed \in Nat /\ performed \subseteq 0..(Actions - 1)
        /\ runFaults \in 0..RunFaults /\ overruns \in 0..RunOverruns
    BY DEF RunInit
  <2> QED
    BY <2>1, <2>2, <2>3, <2>4 DEF RunTypeOK
<1>3. BehindIsCovered
  BY <1>1 DEF RunInit, BehindIsCovered, AtWork, Stands
<1>4. SucceededDidAll
  BY DEF RunInit, SucceededDidAll
<1>5. OneExecutor /\ WorkIsLeased
  BY <1>1 DEF OneExecutor, WorkIsLeased, AtWork
<1> QED
  BY <1>2, <1>3, <1>4, <1>5 DEF RunInv

-----------------------------------------------------------------------------
(* Types.                                                                     *)

\* The row is written within its types whoever writes it.
LEMMA RowTyped ==
    ASSUME RunTypeOK, RunNext
    PROVE  /\ runStatus' \in RunOpen \cup RunClosed /\ finishedAt' \in BOOLEAN
           /\ leaseOwner' \in Executors \cup {NoExecutor} /\ leaseLive' \in BOOLEAN
           /\ waitOver' \in BOOLEAN /\ dedupe' \in {"free", "mine", "other"}
<1> USE DEF RunTypeOK, RunOpen, RunClosed, runRow
<1>1. ASSUME NEW how \in {"succeeded", "failed", "skipped", "repeat"}, Finish(how)
      PROVE  /\ runStatus' \in RunOpen \cup RunClosed /\ finishedAt' \in BOOLEAN
             /\ leaseOwner' \in Executors \cup {NoExecutor} /\ leaseLive' \in BOOLEAN
  BY <1>1 DEF Finish
<1>2. ASSUME NEW w \in Executors, TakeTicket(w) \/ Sweep(w) \/ Perform(w) \/ PlanResume(w) \/ ExecutorDies(w)
      PROVE  UNCHANGED <<runRow, dedupe>>
  BY <1>2 DEF TakeTicket, Sweep, Perform, PlanResume, ExecutorDies
<1>3. ASSUME NEW w \in Executors, RefuseRun(w) \/ Succeed(w) \/ ActionThrows(w)
      PROVE  /\ UNCHANGED <<waitOver, dedupe>>
             /\ \E how \in {"succeeded", "failed", "skipped", "repeat"} : Finish(how)
  BY <1>3 DEF RefuseRun, Succeed, ActionThrows
<1>4. ASSUME NEW w \in Executors, Claim(w)
      PROVE  /\ UNCHANGED <<finishedAt, waitOver, dedupe>>
             /\ \/ runStatus' = "running" /\ leaseOwner' = w /\ leaseLive' = TRUE
                \/ UNCHANGED runRow
  BY <1>4 DEF Claim
<1>5. ASSUME NEW w \in Executors, BeginRun(w)
      PROVE  /\ waitOver' = waitOver /\ dedupe' \in {dedupe, "mine"}
             /\ Finish("repeat") \/ UNCHANGED <<runStatus, finishedAt, leaseOwner, leaseLive>>
  BY <1>5 DEF BeginRun
<1>6. ASSUME NEW w \in Executors, RecordStep(w)
      PROVE  /\ UNCHANGED <<runStatus, finishedAt, leaseOwner, waitOver, dedupe>>
             /\ leaseLive' \in {leaseLive, TRUE}
  BY <1>6 DEF RecordStep, Records
<1>7. ASSUME NEW w \in Executors, PauseRun(w)
      PROVE  /\ UNCHANGED <<finishedAt, dedupe>> /\ waitOver' = FALSE
             /\ runStatus' = "waiting" /\ leaseOwner' = NoExecutor /\ leaseLive' = FALSE
  BY <1>7 DEF PauseRun
<1>8. ASSUME NEW w \in Executors, ErrorOutside(w)
      PROVE  /\ UNCHANGED <<runStatus, finishedAt, waitOver, dedupe>>
             /\ leaseOwner' \in {leaseOwner, NoExecutor} /\ leaseLive' \in {leaseLive, FALSE}
  BY <1>8 DEF ErrorOutside
<1>9. ASSUME LoseEntries \/ JobClosed \/ LeaseEnds \/ WaitElapses \/ KeyMoves
      PROVE  /\ UNCHANGED leaseOwner /\ leaseLive' \in {leaseLive, FALSE}
             /\ runStatus' \in {runStatus, "failed"} /\ finishedAt' \in {finishedAt, TRUE}
             /\ waitOver' \in {waitOver, TRUE} /\ dedupe' \in {dedupe, "free", "other"}
  <2>1. UNCHANGED leaseOwner /\ leaseLive' \in {leaseLive, FALSE}
    BY <1>9 DEF LoseEntries, JobClosed, LeaseEnds, WaitElapses, KeyMoves
  <2>2. runStatus' \in {runStatus, "failed"} /\ finishedAt' \in {finishedAt, TRUE}
    BY <1>9 DEF LoseEntries, JobClosed, LeaseEnds, WaitElapses, KeyMoves
  <2>3. waitOver' \in {waitOver, TRUE} /\ dedupe' \in {dedupe, "free", "other"}
    BY <1>9 DEF LoseEntries, JobClosed, LeaseEnds, WaitElapses, KeyMoves
  <2> QED
    BY <2>1, <2>2, <2>3
<1> DEFINE Typed == /\ runStatus' \in RunOpen \cup RunClosed /\ finishedAt' \in BOOLEAN
                    /\ leaseOwner' \in Executors \cup {NoExecutor} /\ leaseLive' \in BOOLEAN
                    /\ waitOver' \in BOOLEAN /\ dedupe' \in {"free", "mine", "other"}
<1>10. ASSUME NEW w \in Executors, TakeTicket(w) \/ Sweep(w) \/ Perform(w) \/ PlanResume(w) \/ ExecutorDies(w)
       PROVE  Typed
  BY <1>2, <1>10
<1>11. ASSUME NEW w \in Executors, RefuseRun(w) \/ Succeed(w) \/ ActionThrows(w) PROVE Typed
  BY <1>1, <1>3, <1>11
<1>12. ASSUME NEW w \in Executors, Claim(w) PROVE Typed
  BY <1>4, <1>12
<1>13. ASSUME NEW w \in Executors, BeginRun(w) PROVE Typed
  BY <1>1, <1>5, <1>13
<1>14. ASSUME NEW w \in Executors, RecordStep(w) \/ PauseRun(w) \/ ErrorOutside(w) PROVE Typed
  BY <1>6, <1>7, <1>8, <1>14
<1>15. ASSUME LoseEntries \/ JobClosed \/ LeaseEnds \/ WaitElapses \/ KeyMoves PROVE Typed
  BY <1>9, <1>15
<1> HIDE DEF Typed, RunTypeOK, RunOpen, RunClosed, runRow
<1>16. Typed
  <2>1. ASSUME NEW w \in Executors, RunWork(w) PROVE Typed
    BY <1>10, <1>11, <1>12, <1>13, <1>14, <2>1 DEF RunWork
  <2>2. ASSUME NEW w \in Executors, TakeTicket(w) \/ Sweep(w) \/ ErrorOutside(w) \/ ExecutorDies(w)
        PROVE  Typed
    BY <1>10, <1>14, <2>2
  <2> QED
    BY <1>15, <2>1, <2>2 DEF RunNext
<1> QED
  BY <1>16 DEF Typed

\* So are the queue and the bounds.
LEMMA QueueTyped ==
    ASSUME RunTypeOK, RunNext
    PROVE  /\ tickets' \in Nat /\ delayed' \in Nat
           /\ runFaults' \in 0..RunFaults /\ overruns' \in 0..RunOverruns
<1> USE DEF RunTypeOK, runQueue
<1>1. ASSUME NEW w \in Executors, RunWork(w)
      PROVE  UNCHANGED <<tickets, overruns>> /\ delayed' \in {delayed, delayed + 1}
             /\ (runFaults' = runFaults \/ RunFault)
  <2>1. CASE PlanResume(w) \/ ActionThrows(w)
    BY <2>1 DEF PlanResume, ActionThrows
  <2>2. CASE Claim(w) \/ RefuseRun(w) \/ BeginRun(w) \/ Perform(w) \/ RecordStep(w)
             \/ PauseRun(w) \/ Succeed(w)
    BY <2>2 DEF Claim, RefuseRun, BeginRun, Perform, RecordStep, PauseRun, Succeed
  <2> QED
    BY <1>1, <2>1, <2>2 DEF RunWork
<1>2. ASSUME NEW w \in Executors, TakeTicket(w) \/ Sweep(w) \/ ErrorOutside(w) \/ ExecutorDies(w)
      PROVE  /\ tickets' \in {tickets, tickets - 1, tickets + 1} /\ (tickets' = tickets - 1 => tickets > 0)
             /\ UNCHANGED <<delayed, overruns>> /\ (runFaults' = runFaults \/ RunFault)
  BY <1>2 DEF TakeTicket, Sweep, ErrorOutside, ExecutorDies, Requeued
<1>3. CASE LoseEntries \/ JobClosed \/ LeaseEnds \/ WaitElapses \/ KeyMoves
  <2>1. tickets' \in Nat /\ delayed' \in Nat
    BY <1>3 DEF LoseEntries, JobClosed, LeaseEnds, WaitElapses, KeyMoves
  <2>2. runFaults' = runFaults \/ RunFault
    BY <1>3 DEF LoseEntries, JobClosed, LeaseEnds, WaitElapses, KeyMoves
  <2>3. overruns' = overruns \/ (overruns < RunOverruns /\ overruns' = overruns + 1)
    BY <1>3 DEF LoseEntries, JobClosed, LeaseEnds, WaitElapses, KeyMoves
  <2> QED
    BY <2>1, <2>2, <2>3 DEF RunFault
<1> QED
  BY <1>1, <1>2, <1>3 DEF RunNext, RunFault

-----------------------------------------------------------------------------
(* One executor leaves: it goes to a stage in which it does not act for the   *)
(* run, with the row closed, left alone, given back by its owner, or paused   *)
(* at the position where the executor stands.                                 *)

LEMMA LeavesInv ==
    ASSUME RunInv, NEW w \in Executors, NEW at \in Stages \ AtWork, NEW next \in Positions,
           Go(w, at, next), UNCHANGED <<performed, overruns>>,
           \/ exec[w].at \in AtWork /\ resumeAt' = exec[w].next
           \/ /\ UNCHANGED resumeAt
              /\ \/ runStatus' \in RunClosed
                 \/ UNCHANGED <<runStatus, leaseOwner, leaseLive>>
                 \/ leaseOwner = w /\ UNCHANGED runStatus
    PROVE  /\ exec' \in [Executors -> Works]
           /\ BehindIsCovered' /\ OneExecutor' /\ WorkIsLeased'
<1> USE DEF RunInv, RunTypeOK
<1>1. /\ exec' \in [Executors -> Works]
      /\ exec'[w].at = at /\ \A v \in Executors \ {w} : exec'[v] = exec[v]
  BY GoMoves DEF Works
<1>2. ASSUME NEW v \in Executors, exec'[v].at \in AtWork
      PROVE  v # w /\ exec'[v] = exec[v] /\ exec[v].at \in AtWork
  BY <1>1, <1>2
<1>3. BehindIsCovered'
  <2>1. \A i \in 0..(Actions - 1) : Covered(i) <=> Covered(i)'
    BY DEF Covered
  <2>2. \A i \in 0..(Actions - 1) : i < resumeAt' => Covered(i)'
    BY <2>1 DEF BehindIsCovered
  <2>3. ASSUME NEW v \in Executors, exec'[v].at \in AtWork
        PROVE  \A i \in 0..(Actions - 1) : i < exec'[v].next => Covered(i)'
    BY <1>2, <2>1, <2>3 DEF BehindIsCovered
  <2>4. ASSUME NEW v \in Executors
        PROVE  /\ Stands(v, "acted")' => exec'[v].next \in performed'
               /\ Stands(v, "closing")' => \A i \in 0..(Actions - 1) : Covered(i)'
    BY <1>2, <2>1, <2>4 DEF BehindIsCovered, Stands, AtWork
  <2> QED
    BY <2>2, <2>3, <2>4 DEF BehindIsCovered
<1>4. OneExecutor'
  BY <1>2 DEF OneExecutor
<1>5. WorkIsLeased'
  <2> SUFFICES ASSUME overruns' = 0, NEW v \in Executors, exec'[v].at \in AtWork
               PROVE  /\ runStatus' \in RunClosed \/ (leaseOwner' = v /\ leaseLive')
                      /\ exec'[v].next >= resumeAt'
    BY DEF WorkIsLeased
  <2>1. v # w /\ exec'[v] = exec[v] /\ exec[v].at \in AtWork
    BY <1>2
  <2>2. runStatus \in RunClosed \/ (leaseOwner = v /\ leaseLive)
    BY <2>1 DEF WorkIsLeased
  <2>3. exec[v].next >= resumeAt
    BY <2>1 DEF WorkIsLeased
  <2>4. exec[w].at \notin AtWork
    BY <2>1 DEF OneExecutor
  <2> QED
    BY <2>1, <2>2, <2>3, <2>4
<1> QED
  BY <1>1, <1>3, <1>4, <1>5

\* The executor at work goes on working, alone, with what it did covered.
LEMMA WorksOn ==
    ASSUME RunInv, NEW w \in Executors, NEW at \in AtWork, NEW next \in Positions,
           Go(w, at, next), performed \subseteq performed', overruns' = overruns,
           overruns = 0 => \A v \in Executors : exec[v].at \in AtWork => v = w,
           resumeAt' \in {resumeAt, next},
           \A i \in 0..(Actions - 1) : i < next => Covered(i)',
           at = "acted" => next \in performed',
           at = "closing" => \A i \in 0..(Actions - 1) : Covered(i)',
           overruns = 0 => /\ runStatus' \in RunClosed \/ (leaseOwner' = w /\ leaseLive')
                           /\ next >= resumeAt'
    PROVE  /\ exec' \in [Executors -> Works]
           /\ BehindIsCovered' /\ OneExecutor' /\ WorkIsLeased'
<1> USE DEF RunInv, RunTypeOK
<1>1. /\ exec' \in [Executors -> Works] /\ exec'[w].at = at /\ exec'[w].next = next
      /\ \A v \in Executors \ {w} : exec'[v] = exec[v]
  BY GoMoves DEF Works, AtWork, Stages
<1>2. BehindIsCovered'
  <2>1. \A i \in 0..(Actions - 1) : Covered(i) => Covered(i)'
    BY CoverGrows
  <2>2. \A i \in 0..(Actions - 1) : i < resumeAt' => Covered(i)'
    BY <2>1 DEF BehindIsCovered
  <2>3. ASSUME NEW v \in Executors, exec'[v].at \in AtWork
        PROVE  \A i \in 0..(Actions - 1) : i < exec'[v].next => Covered(i)'
    BY <1>1, <2>1, <2>3 DEF BehindIsCovered
  <2>4. ASSUME NEW v \in Executors
        PROVE  /\ Stands(v, "acted")' => exec'[v].next \in performed'
               /\ Stands(v, "closing")' => \A i \in 0..(Actions - 1) : Covered(i)'
    BY <1>1, <2>1, <2>4 DEF BehindIsCovered, Stands
  <2> QED
    BY <2>2, <2>3, <2>4 DEF BehindIsCovered
<1>3. OneExecutor'
  BY <1>1 DEF OneExecutor
<1>4. WorkIsLeased'
  <2> SUFFICES ASSUME overruns' = 0, NEW v \in Executors, exec'[v].at \in AtWork
               PROVE  /\ runStatus' \in RunClosed \/ (leaseOwner' = v /\ leaseLive')
                      /\ exec'[v].next >= resumeAt'
    BY DEF WorkIsLeased
  <2>1. v = w
    BY <1>1
  <2> QED
    BY <1>1, <2>1
<1> QED
  BY <1>1, <1>2, <1>3, <1>4

-----------------------------------------------------------------------------
(* The actions.                                                               *)

\* Nobody is called succeeded without having done everything.
SuccessKept ==
    \/ runStatus' # "succeeded"
    \/ runStatus' = runStatus /\ performed' = performed

LEMMA SuccessStays ==
    ASSUME SucceededDidAll, SuccessKept
    PROVE  SucceededDidAll'
BY DEF SucceededDidAll, SuccessKept

Behind == BehindIsCovered /\ OneExecutor /\ WorkIsLeased

\* An executor that is led to the run, refused by it, or leaves it open.
LEMMA OpenLeavers ==
    ASSUME RunInv, NEW w \in Executors,
           \/ TakeTicket(w) \/ Sweep(w) \/ PlanResume(w) \/ ErrorOutside(w) \/ ExecutorDies(w)
           \/ Claim(w) /\ ~Claimable(w)
    PROVE  exec' \in [Executors -> Works] /\ Behind' /\ SuccessKept
<1> USE DEF RunInv, RunTypeOK, runRow
<1>1. PICK at \in {"idle", "picked"} : Go(w, at, 0)
  BY DEF TakeTicket, Sweep, PlanResume, ErrorOutside, ExecutorDies, Claim, Leave
<1>2. at \in Stages \ AtWork /\ 0 \in Positions
  BY DEF Stages, AtWork, Positions
<1>3. UNCHANGED <<resumeAt, performed, overruns, runStatus>>
  BY DEF TakeTicket, Sweep, PlanResume, ErrorOutside, ExecutorDies, Claim
<1>4. UNCHANGED <<leaseOwner, leaseLive>> \/ leaseOwner = w
  BY DEF TakeTicket, Sweep, PlanResume, ErrorOutside, ExecutorDies, Claim
<1>5. exec' \in [Executors -> Works] /\ BehindIsCovered' /\ OneExecutor' /\ WorkIsLeased'
  BY <1>1, <1>2, <1>3, <1>4, LeavesInv
<1>6. SuccessKept
  BY <1>3 DEF SuccessKept
<1> QED
  BY <1>5, <1>6 DEF Behind

\* An executor that closes the run, or pauses it.
LEMMA ClosingLeavers ==
    ASSUME RunInv, NEW w \in Executors,
           \/ RefuseRun(w) \/ ActionThrows(w) \/ PauseRun(w) \/ Succeed(w)
           \/ BeginRun(w) /\ RunKeyed /\ exec[w].next = 0 /\ dedupe # "free"
    PROVE  exec' \in [Executors -> Works] /\ Behind' /\ SucceededDidAll'
<1> USE DEF RunInv, RunTypeOK
<1>1. CASE PauseRun(w)
  <2>1. Go(w, "resuming", exec[w].next) /\ UNCHANGED <<performed, overruns>>
    BY <1>1 DEF PauseRun
  <2>2. exec[w].at \in AtWork /\ resumeAt' = exec[w].next /\ exec[w].next \in Positions
    BY <1>1 DEF PauseRun, Stands, AtWork
  <2>3. "resuming" \in Stages \ AtWork
    BY DEF Stages, AtWork
  <2>4. exec' \in [Executors -> Works] /\ BehindIsCovered' /\ OneExecutor' /\ WorkIsLeased'
    BY <2>1, <2>2, <2>3, LeavesInv
  <2>5. SucceededDidAll'
    BY <1>1 DEF PauseRun, SucceededDidAll
  <2> QED
    BY <2>4, <2>5 DEF Behind
<1>2. CASE ~PauseRun(w)
  <2>1. PICK how \in RunClosed : Finish(how) /\ (how = "succeeded" => Succeed(w))
    BY <1>2 DEF RefuseRun, ActionThrows, Succeed, BeginRun, RunClosed
  <2>2. Go(w, "idle", 0) /\ UNCHANGED <<performed, overruns>>
    BY <1>2 DEF RefuseRun, ActionThrows, Succeed, BeginRun, Leave
  <2>3. UNCHANGED resumeAt /\ runStatus' = how
    BY <2>1 DEF Finish
  <2>4. "idle" \in Stages \ AtWork /\ 0 \in Positions
    BY DEF Stages, AtWork, Positions
  <2>5. exec' \in [Executors -> Works] /\ BehindIsCovered' /\ OneExecutor' /\ WorkIsLeased'
    BY <2>1, <2>2, <2>3, <2>4, LeavesInv
  <2>6. CASE how # "succeeded"
    BY <2>3, <2>5, <2>6 DEF SucceededDidAll, Behind
  <2>7. CASE Succeed(w)
    <3>1. \A i \in 0..(Actions - 1) : Covered(i)
      <4>1. CASE Stands(w, "closing")
        BY <4>1 DEF BehindIsCovered
      <4>2. CASE Stands(w, "ready") /\ AllDone(w)
        <5>1. exec[w].at \in AtWork /\ exec[w].next \in Positions /\ exec[w].next >= Actions
          BY <4>2 DEF Stands, AtWork, AllDone
        <5>2. \A i \in 0..(Actions - 1) : i < exec[w].next => Covered(i)
          BY <5>1 DEF BehindIsCovered
        <5> QED
          BY <5>1, <5>2 DEF Positions
      <4> QED
        BY <2>7, <4>1, <4>2 DEF Succeed
    <3>2. SucceededDidAll'
      BY <2>2, <3>1 DEF SucceededDidAll, Covered
    <3> QED
      BY <2>5, <3>2 DEF Behind
  <2> QED
    BY <2>1, <2>6, <2>7
<1> QED
  BY <1>1, <1>2

\* An executor that takes the run, or goes on with it.
LEMMA Workers ==
    ASSUME RunInv, NEW w \in Executors,
           \/ Claim(w) /\ Claimable(w)
           \/ Perform(w)
           \/ RecordStep(w)
           \/ BeginRun(w) /\ ~(RunKeyed /\ exec[w].next = 0 /\ dedupe # "free")
    PROVE  /\ exec' \in [Executors -> Works] /\ Behind' /\ SucceededDidAll'
           /\ resumeAt' \in Positions /\ performed' \subseteq 0..(Actions - 1)
<1> USE DEF RunInv, RunTypeOK, runRow
<1>1. CASE Claim(w) /\ Claimable(w)
  <2>1. Go(w, "claimed", resumeAt) /\ UNCHANGED <<performed, overruns, resumeAt>>
    BY <1>1 DEF Claim, StartsAt
  <2>2. runStatus' = "running" /\ leaseOwner' = w /\ leaseLive'
    BY <1>1 DEF Claim
  <2>3. overruns = 0 => \A v \in Executors : exec[v].at \notin AtWork
    BY <1>1 DEF Claimable, WorkIsLeased, RunOpen, RunClosed
  <2>4. \A i \in 0..(Actions - 1) : i < resumeAt => Covered(i)'
    BY <2>1 DEF BehindIsCovered, Covered
  <2>5. "claimed" \in AtWork
    BY DEF AtWork
  <2>6. exec' \in [Executors -> Works] /\ BehindIsCovered' /\ OneExecutor' /\ WorkIsLeased'
    BY <2>1, <2>2, <2>3, <2>4, <2>5, WorksOn DEF Positions
  <2>7. SucceededDidAll'
    BY <2>2 DEF SucceededDidAll
  <2> QED
    BY <2>1, <2>6, <2>7 DEF Behind
<1>2. ASSUME exec[w].at \in AtWork
      PROVE  /\ overruns = 0 => \A v \in Executors : exec[v].at \in AtWork => v = w
             /\ overruns = 0 => runStatus \in RunClosed \/ (leaseOwner = w /\ leaseLive)
             /\ overruns = 0 => exec[w].next >= resumeAt
             /\ \A i \in 0..(Actions - 1) : i < exec[w].next => Covered(i)
  BY <1>2 DEF OneExecutor, WorkIsLeased, BehindIsCovered
<1>3. CASE BeginRun(w) /\ ~(RunKeyed /\ exec[w].next = 0 /\ dedupe # "free")
  <2>1. Go(w, "ready", exec[w].next) /\ exec[w].at \in AtWork /\ exec[w].next \in Positions
    BY <1>3 DEF BeginRun, Stands, AtWork
  <2>2. UNCHANGED <<performed, overruns, resumeAt, runStatus, leaseOwner, leaseLive>>
    BY <1>3 DEF BeginRun
  <2>3. \A i \in 0..(Actions - 1) : i < exec[w].next => Covered(i)'
    BY <1>2, <2>1, <2>2 DEF Covered
  <2>4. "ready" \in AtWork
    BY DEF AtWork
  <2>5. exec' \in [Executors -> Works] /\ BehindIsCovered' /\ OneExecutor' /\ WorkIsLeased'
    BY <1>2, <2>1, <2>2, <2>3, <2>4, WorksOn
  <2>6. SucceededDidAll'
    BY <2>2, SuccessStays DEF SuccessKept
  <2> QED
    BY <2>2, <2>5, <2>6 DEF Behind
<1>4. CASE Perform(w)
  <2>1. /\ Go(w, "acted", exec[w].next) /\ exec[w].at \in AtWork
        /\ exec[w].next \in Positions /\ exec[w].next < Actions
    BY <1>4 DEF Perform, Stands, AtWork
  <2>2. performed' = performed \cup {exec[w].next}
    BY <1>4 DEF Perform
  <2>3. UNCHANGED <<overruns, resumeAt, runStatus, leaseOwner, leaseLive>>
    BY <1>4 DEF Perform
  <2>4. \A i \in 0..(Actions - 1) : i < exec[w].next => Covered(i)'
    BY <1>2, <2>1, <2>2, CoverGrows
  <2>5. "acted" \in AtWork
    BY DEF AtWork
  <2>6. exec' \in [Executors -> Works] /\ BehindIsCovered' /\ OneExecutor' /\ WorkIsLeased'
    BY <1>2, <2>1, <2>2, <2>3, <2>4, <2>5, WorksOn
  <2>7. SucceededDidAll'
    BY <2>2, <2>3 DEF SucceededDidAll
  <2>8. performed' \subseteq 0..(Actions - 1)
    <3>1. exec[w].next \in 0..(Actions - 1)
      BY <2>1 DEF Positions
    <3> QED
      BY <2>2, <3>1
  <2> QED
    BY <2>3, <2>6, <2>7, <2>8 DEF Behind
<1>5. CASE RecordStep(w)
  <2> DEFINE n == exec[w].next
  <2>1. exec[w].at \in AtWork /\ n \in performed /\ n \in 0..(Actions - 1)
    BY <1>5 DEF RecordStep, Stands, AtWork, BehindIsCovered
  <2>2. PICK at \in {"pausing", "closing", "ready"} : Go(w, at, n + 1) /\ (at = "closing" => n \in Stops)
    BY <1>5 DEF RecordStep
  <2>3. UNCHANGED <<performed, overruns, runStatus, leaseOwner>>
    BY <1>5 DEF RecordStep
  <2>4. \/ leaseOwner = w /\ resumeAt' = n + 1 /\ leaseLive' = TRUE
        \/ leaseOwner # w /\ UNCHANGED <<resumeAt, leaseLive>>
    BY <1>5 DEF RecordStep, Records
  <2>5. n + 1 \in Positions /\ resumeAt' \in Positions
    BY <2>1, <2>4 DEF Positions
  <2>6. \A i \in 0..(Actions - 1) : i < n + 1 => Covered(i)'
    <3>1. \A i \in 0..(Actions - 1) : i < n => Covered(i)
      BY <1>2, <2>1
    <3>2. Covered(n)
      BY <2>1 DEF Covered
    <3>3. \A i \in 0..(Actions - 1) : i < n + 1 => Covered(i)
      BY <2>1, <3>1, <3>2
    <3> QED
      BY <2>3, <3>3 DEF Covered
  <2>7. at = "closing" => \A i \in 0..(Actions - 1) : Covered(i)'
    <3>1. at = "closing" => \A i \in 0..(Actions - 1) : n < i => Covered(i)'
      BY <2>1, <2>2, <2>3 DEF Covered
    <3> QED
      BY <2>1, <2>6, <3>1
  <2>8. overruns = 0 => /\ runStatus' \in RunClosed \/ (leaseOwner' = w /\ leaseLive')
                        /\ n + 1 >= resumeAt'
    BY <1>2, <2>1, <2>3, <2>4 DEF Positions
  <2>9. at \in AtWork /\ at # "acted" /\ resumeAt' \in {resumeAt, n + 1}
    BY <2>2, <2>4 DEF AtWork
  <2>10. exec' \in [Executors -> Works] /\ BehindIsCovered' /\ OneExecutor' /\ WorkIsLeased'
    BY <1>2, <2>1, <2>2, <2>3, <2>5, <2>6, <2>7, <2>8, <2>9, WorksOn
  <2>11. SucceededDidAll'
    BY <2>3, SuccessStays DEF SuccessKept
  <2> QED
    BY <2>3, <2>5, <2>10, <2>11 DEF Behind
<1> QED
  BY <1>1, <1>3, <1>4, <1>5

\* What happens to the run while its executors stand still.
LEMMA Outsiders ==
    ASSUME RunInv, LoseEntries \/ JobClosed \/ LeaseEnds \/ WaitElapses \/ KeyMoves
    PROVE  UNCHANGED <<exec, resumeAt, performed>> /\ Behind' /\ SucceededDidAll'
<1> USE DEF RunInv, RunTypeOK, runRow, runQueue
<1>1. UNCHANGED <<exec, resumeAt, performed>>
  BY DEF LoseEntries, JobClosed, LeaseEnds, WaitElapses, KeyMoves
<1>2. UNCHANGED leaseOwner /\ runStatus' \in {runStatus, "failed"}
  BY DEF LoseEntries, JobClosed, LeaseEnds, WaitElapses, KeyMoves
<1>3. overruns' = 0 => overruns = 0
  BY DEF LoseEntries, JobClosed, LeaseEnds, WaitElapses, KeyMoves
<1>4. \/ UNCHANGED leaseLive
      \/ overruns' # 0
      \/ \A w \in Executors : ~(leaseOwner = w /\ exec[w].at \in AtWork)
  BY DEF LoseEntries, JobClosed, LeaseEnds, WaitElapses, KeyMoves
<1>5. BehindIsCovered'
  BY <1>1 DEF BehindIsCovered, Covered, Stands
<1>6. OneExecutor'
  BY <1>1, <1>3 DEF OneExecutor
<1>7. WorkIsLeased'
  BY <1>1, <1>2, <1>3, <1>4 DEF WorkIsLeased, RunClosed
<1>8. SucceededDidAll'
  BY <1>1, <1>2, SuccessStays DEF SuccessKept
<1> QED
  BY <1>1, <1>5, <1>6, <1>7, <1>8 DEF Behind

-----------------------------------------------------------------------------
LEMMA RunInductive == RunInv /\ [RunNext]_runVars => RunInv'
<1> SUFFICES ASSUME RunInv, [RunNext]_runVars PROVE RunInv'
  OBVIOUS
<1>1. CASE UNCHANGED runVars
  <2>1. RunTypeOK'
    BY <1>1 DEF RunInv, RunTypeOK, runVars
  <2>2. BehindIsCovered' /\ SucceededDidAll'
    BY <1>1 DEF RunInv, BehindIsCovered, SucceededDidAll, Covered, Stands, runVars
  <2>3. OneExecutor' /\ WorkIsLeased'
    BY <1>1 DEF RunInv, OneExecutor, WorkIsLeased, runVars
  <2> QED
    BY <2>1, <2>2, <2>3 DEF RunInv
<1>2. CASE RunNext
  <2> USE DEF RunInv, RunTypeOK
  <2> DEFINE Kept == /\ exec' \in [Executors -> Works] /\ Behind' /\ SucceededDidAll'
                     /\ resumeAt' \in Positions /\ performed' \subseteq 0..(Actions - 1)
  <2>1. ASSUME NEW w \in Executors,
               \/ TakeTicket(w) \/ Sweep(w) \/ PlanResume(w) \/ ErrorOutside(w) \/ ExecutorDies(w)
               \/ Claim(w) /\ ~Claimable(w)
        PROVE  Kept
    <3>1. UNCHANGED <<resumeAt, performed>>
      BY <2>1 DEF TakeTicket, Sweep, PlanResume, ErrorOutside, ExecutorDies, Claim, runRow
    <3> QED
      BY <2>1, <3>1, OpenLeavers, SuccessStays
  <2>2. ASSUME NEW w \in Executors,
               \/ RefuseRun(w) \/ ActionThrows(w) \/ PauseRun(w) \/ Succeed(w)
               \/ BeginRun(w) /\ RunKeyed /\ exec[w].next = 0 /\ dedupe # "free"
        PROVE  Kept
    <3>1. performed' = performed
      BY <2>2 DEF RefuseRun, ActionThrows, PauseRun, Succeed, BeginRun
    <3>2. resumeAt' \in {resumeAt, exec[w].next} /\ exec[w].next \in Positions
      BY <2>2 DEF RefuseRun, ActionThrows, PauseRun, Succeed, BeginRun, Finish
    <3> QED
      BY <2>2, <3>1, <3>2, ClosingLeavers
  <2>3. ASSUME NEW w \in Executors,
               \/ Claim(w) /\ Claimable(w)
               \/ Perform(w)
               \/ RecordStep(w)
               \/ BeginRun(w) /\ ~(RunKeyed /\ exec[w].next = 0 /\ dedupe # "free")
        PROVE  Kept
    BY <2>3, Workers
  <2>4. ASSUME LoseEntries \/ JobClosed \/ LeaseEnds \/ WaitElapses \/ KeyMoves PROVE Kept
    <3>1. UNCHANGED <<exec, resumeAt, performed>>
      BY <2>4, Outsiders
    <3>2. exec \in [Executors -> Works]
      BY DEF Works
    <3> QED
      BY <2>4, <3>1, <3>2, Outsiders
  <2>5. Kept
    <3> HIDE DEF Kept
    <3>1. ASSUME NEW w \in Executors, RunWork(w) \/ TakeTicket(w) \/ Sweep(w) \/ ErrorOutside(w) \/ ExecutorDies(w)
          PROVE  Kept
      BY <2>1, <2>2, <2>3, <3>1 DEF RunWork
    <3> QED
      BY <1>2, <2>4, <3>1 DEF RunNext
  <2>6. RunTypeOK'
    BY <1>2, <2>5, RowTyped, QueueTyped DEF Works
  <2> QED
    BY <2>5, <2>6 DEF Behind
<1> QED
  BY <1>1, <1>2

\* The strengthened invariant of a run.
THEOREM RunInvariance == RunSpec => []RunInv
<1>1. RunInit => RunInv
  BY RunInitial
<1> QED
  BY <1>1, RunInductive, PTL DEF RunSpec

\* While no action outlasts its lease, one executor at a time works on a run
\* (claim of runs.ts).
THEOREM RunsAreExclusive == RunSpec => []OneExecutor
<1>1. RunInv => OneExecutor
  BY DEF RunInv
<1> QED
  BY <1>1, RunInvariance, PTL

\* A succeeded run did every action before a stop (executeRun of runner.ts).
THEOREM SuccessMeansDone == RunSpec => []SucceededDidAll
<1>1. RunInv => SucceededDidAll
  BY DEF RunInv
<1> QED
  BY <1>1, RunInvariance, PTL

\* What was recorded is not performed again (recordStep and the position the
\* claim returns).
THEOREM RecordedStays == RunSpec => RecordedNotRepeated
<1>1. RunInv => (overruns = 0 => \A w \in Executors : Perform(w) => exec[w].next >= resumeAt)
  BY DEF RunInv, WorkIsLeased, Perform, Stands, AtWork
<1>2. RunInv /\ [RunNext]_runVars =>
        [overruns = 0 => \A w \in Executors : Perform(w) => exec[w].next >= resumeAt]_runVars
  BY <1>1
<1> QED
  BY <1>2, RunInvariance, PTL DEF RunSpec, RecordedNotRepeated

-----------------------------------------------------------------------------
(* StepTimers: for every route, every offset and every lost or early job.   *)

USE StepTimersAssumption

-----------------------------------------------------------------------------
(* The pure part: what the operators on timers return.                        *)

\* The nearest moment of timers is one of them: three naturals have a least.
LEMMA NearestMoment ==
    ASSUME NEW t \in [TimerKinds -> Timer]
    PROVE  NextTimerAt(t) \in Nat \cup {NoMoment}
<1> DEFINE S == Unfired(t)
<1>1. S \subseteq Nat
  BY DEF Unfired, Timer
<1>2. \A w \in S : w = t["remind"].at \/ w = t["overdue"].at \/ w = t["wait"].at
  BY DEF Unfired, TimerKinds
<1>3. ASSUME S # {} PROVE \E x \in S : \A y \in S : x <= y
  <2> SUFFICES ASSUME \A x \in S : \E y \in S : ~(x <= y) PROVE FALSE
    OBVIOUS
  <2>1. PICK x \in S : TRUE
    BY <1>3
  <2>2. PICK y \in S : ~(x <= y)
    BY <2>1
  <2>3. PICK z \in S : ~(y <= z)
    BY <2>2
  <2>4. PICK w \in S : ~(z <= w)
    BY <2>3
  <2>5. x \in Nat /\ y \in Nat /\ z \in Nat /\ w \in Nat
    BY <1>1
  <2>6. w < z /\ z < y /\ y < x
    BY <2>2, <2>3, <2>4, <2>5
  <2> HIDE DEF S
  <2> QED
    BY <1>2, <2>5, <2>6
<1>4. S # {} => Min(S) \in S
  BY <1>3 DEF Min
<1> QED
  BY <1>1, <1>4 DEF NextTimerAt

\* The timers of a step that begins: none of them has fired.
LEMMA FreshTimers ==
    ASSUME NEW n \in RouteSteps, NEW now \in Nat
    PROVE  /\ TimersFrom(n, now) \in [TimerKinds -> Timer]
           /\ \A k \in TimerKinds : ~TimersFrom(n, now)[k].fired
<1>1. NoTimer \in Timer /\ ~NoTimer.fired
  BY DEF NoTimer, Timer
<1>2. \A k \in TimerKinds : now + Offset[k] \in Nat
  OBVIOUS
<1>3. \A k \in TimerKinds : [at |-> now + Offset[k], fired |-> FALSE] \in Timer
  BY <1>2 DEF Timer
<1> QED
  BY <1>1, <1>3 DEF TimersFrom

-----------------------------------------------------------------------------
(* A step that is completed, by whatever closes it.                           *)

\* What completion does to types, order and outcomes, when the step is active.
LEMMA CompletionIsSafe ==
    ASSUME TimersInv, NEW s \in RouteSteps, stage[s] = "active",
           NEW fired \in [TimerKinds -> Timer], NEW rest \in SUBSET (RouteSteps \X Nat),
           Complete(s, fired, rest)
    PROVE  /\ route' \in {"running", "completed", "cancelled"}
           /\ stage' \in [RouteSteps -> {"none", "active", "completed", "cancelled"}]
           /\ timer' \in [RouteSteps -> [TimerKinds -> Timer]]
           /\ nextTimer' \in [RouteSteps -> Nat \cup {NoMoment}]
           /\ timerJobs' \subseteq RouteSteps \X Nat
           /\ outcomes' \in [RouteSteps -> Nat]
           /\ StepsInOrder' /\ OneOutcome' /\ NearestIsPlanned'
<1> DEFINE Entered(n) == n \in RouteSteps /\ n = s + 1
<1>1. /\ route \in {"running", "completed", "cancelled"} /\ clock \in Nat
      /\ stage \in [RouteSteps -> {"none", "active", "completed", "cancelled"}]
      /\ timer \in [RouteSteps -> [TimerKinds -> Timer]]
      /\ nextTimer \in [RouteSteps -> Nat \cup {NoMoment}]
      /\ outcomes \in [RouteSteps -> Nat]
  BY DEF TimersInv, TimersTypeOK
<1>2. StepsInOrder /\ OneOutcome /\ NearestIsPlanned
  BY DEF TimersInv
<1>3. /\ stage' = [n \in RouteSteps |-> IF n = s THEN "completed"
                        ELSE IF Entered(n) THEN "active" ELSE stage[n]]
      /\ timer' = [n \in RouteSteps |-> IF n = s THEN fired
                        ELSE IF Entered(n) THEN TimersFrom(n, clock) ELSE timer[n]]
      /\ nextTimer' = [n \in RouteSteps |-> IF n = s THEN NoMoment
                        ELSE IF Entered(n) THEN NextTimerAt(TimersFrom(n, clock))
                        ELSE nextTimer[n]]
      /\ outcomes' = [outcomes EXCEPT ![s] = @ + 1]
      /\ route' = IF \E n \in RouteSteps : n = s + 1 THEN route ELSE "completed"
  BY DEF Complete
<1>4. s \in Nat /\ \A n \in RouteSteps : n \in Nat
  BY DEF RouteSteps
<1>5. \A n \in RouteSteps : TimersFrom(n, clock) \in [TimerKinds -> Timer]
  BY <1>1, FreshTimers
<1>6. \A n \in RouteSteps : NextTimerAt(TimersFrom(n, clock)) \in Nat \cup {NoMoment}
  BY <1>5, NearestMoment
<1>7. timerJobs' \subseteq RouteSteps \X Nat
  BY <1>6 DEF Complete, Planned
<1>8. \A n \in RouteSteps : n # s => stage[n] # "active"
  BY <1>2 DEF OneOutcome
<1>9. StepsInOrder'
  <2>1. \A n \in RouteSteps : stage'[n] = "active" => n = s + 1
    BY <1>3, <1>8
  <2>2. \A n \in RouteSteps : n > s => stage[n] = "none"
    BY <1>2 DEF StepsInOrder
  <2>3. \A n, m \in RouteSteps : stage'[n] = "active" /\ m > n => stage'[m] = "none"
    BY <1>3, <1>4, <2>1, <2>2
  <2>4. \A n \in RouteSteps : stage'[n] # "completed" => outcomes'[n] = 0
    BY <1>1, <1>2, <1>3, <1>4, <2>2 DEF StepsInOrder
  <2>5. \A n \in RouteSteps : n < s => stage[n] # "none"
    BY <1>2 DEF StepsInOrder
  <2>6. \A n, m \in RouteSteps : stage'[n] = "none" /\ n < m => stage'[m] = "none"
    <3> SUFFICES ASSUME NEW n \in RouteSteps, NEW m \in RouteSteps,
                        stage'[n] = "none", n < m
                 PROVE  stage'[m] = "none"
      OBVIOUS
    <3>1. n # s /\ n # s + 1 /\ stage[n] = "none"
      BY <1>3
    <3>2. n > s + 1
      BY <1>4, <2>5, <3>1
    <3>3. m # s /\ m # s + 1 /\ stage[m] = "none"
      BY <1>4, <2>2, <3>2
    <3> QED
      BY <1>3, <3>3
  <2>7. \A n \in RouteSteps : stage'[n] = "active" => route' = "running"
    BY <1>2, <1>3, <2>1 DEF StepsInOrder
  <2> QED
    BY <2>3, <2>4, <2>6, <2>7 DEF StepsInOrder
<1>10. OneOutcome'
  <2>1. outcomes[s] = 0
    BY <1>2 DEF StepsInOrder
  <2>2. \A n \in RouteSteps : outcomes'[n] <= 1
    BY <1>1, <1>2, <1>3, <2>1 DEF OneOutcome
  <2>3. \A n \in RouteSteps : stage'[n] = "cancelled" => outcomes'[n] = 0
    BY <1>1, <1>2, <1>3 DEF OneOutcome
  <2>4. \A n, m \in RouteSteps : stage'[n] = "active" /\ stage'[m] = "active" => n = m
    BY <1>3, <1>8
  <2> QED
    BY <2>2, <2>3, <2>4 DEF OneOutcome
<1>11. NearestIsPlanned'
  BY <1>2, <1>3 DEF NearestIsPlanned
<1> QED
  BY <1>1, <1>3, <1>5, <1>6, <1>7, <1>9, <1>10, <1>11

\* A completed step keeps its marks, the next one has none yet.
LEMMA CompletionCounts ==
    ASSUME TimersInv, NEW s \in RouteSteps, stage[s] = "active",
           NEW fired \in [TimerKinds -> Timer], NEW rest, Complete(s, fired, rest),
           \A k \in TimerKinds : fires'[s][k] = IF fired[k].fired THEN 1 ELSE 0,
           \A n \in RouteSteps : n # s => fires'[n] = fires[n]
    PROVE  MarksCount'
<1>1. /\ stage' = [n \in RouteSteps |-> IF n = s THEN "completed"
                        ELSE IF n \in RouteSteps /\ n = s + 1 THEN "active" ELSE stage[n]]
      /\ timer' = [n \in RouteSteps |-> IF n = s THEN fired
                        ELSE IF n \in RouteSteps /\ n = s + 1 THEN TimersFrom(n, clock)
                        ELSE timer[n]]
  BY DEF Complete
<1>2. MarksCount /\ StepsInOrder /\ clock \in Nat
  BY DEF TimersInv, TimersTypeOK
<1>3. \A n \in RouteSteps, k \in TimerKinds : ~TimersFrom(n, clock)[k].fired
  BY <1>2, FreshTimers
<1>4. ASSUME NEW n \in RouteSteps, n # s, n = s + 1, NEW k \in TimerKinds
      PROVE  fires'[n][k] = 0
  <2>1. stage[n] = "none"
    BY <1>2, <1>4 DEF StepsInOrder, RouteSteps
  <2>2. ~timer[n][k].fired
    BY <1>2, <2>1 DEF MarksCount, NoTimers, NoTimer
  <2> QED
    BY <1>2, <1>4, <2>2 DEF MarksCount
<1>5. ASSUME NEW n \in RouteSteps
      PROVE  /\ stage'[n] = "none" => timer'[n] = NoTimers
             /\ \A k \in TimerKinds : fires'[n][k] = IF timer'[n][k].fired THEN 1 ELSE 0
  <2>1. CASE n = s
    BY <1>1, <2>1
  <2>2. CASE n # s /\ n = s + 1
    BY <1>1, <1>3, <1>4, <2>2
  <2>3. CASE n # s /\ n # s + 1
    BY <1>1, <1>2, <2>3 DEF MarksCount
  <2> QED
    BY <2>1, <2>2, <2>3
<1> QED
  BY <1>5 DEF MarksCount
-----------------------------------------------------------------------------
(* The invariant.                                                             *)

\* The first step is active, with its timers and their job.
LEMMA TimersInitial == TimersInit => TimersInv
<1> SUFFICES ASSUME TimersInit PROVE TimersInv
  OBVIOUS
<1>1. 1 \in RouteSteps /\ \A n \in RouteSteps : n \in Nat /\ n >= 1
  BY DEF RouteSteps
<1>2. /\ TimersFrom(1, 0) \in [TimerKinds -> Timer]
      /\ \A k \in TimerKinds : ~TimersFrom(1, 0)[k].fired
  BY <1>1, FreshTimers
<1>3. NextTimerAt(TimersFrom(1, 0)) \in Nat \cup {NoMoment}
  BY <1>2, NearestMoment
<1>4. NoTimers \in [TimerKinds -> Timer] /\ \A k \in TimerKinds : ~NoTimers[k].fired
  BY DEF NoTimers, NoTimer, Timer
<1>5. TimersTypeOK
  <2>1. timer \in [RouteSteps -> [TimerKinds -> Timer]]
    BY <1>2, <1>4 DEF TimersInit
  <2>2. nextTimer \in [RouteSteps -> Nat \cup {NoMoment}]
    BY <1>3 DEF TimersInit
  <2>3. timerJobs \subseteq RouteSteps \X Nat
    BY <1>1, <1>3 DEF TimersInit
  <2>4. stage \in [RouteSteps -> {"none", "active", "completed", "cancelled"}]
    BY DEF TimersInit
  <2>5. fires \in [RouteSteps -> [TimerKinds -> Nat]] /\ outcomes \in [RouteSteps -> Nat]
    BY DEF TimersInit
  <2> QED
    BY <2>1, <2>2, <2>3, <2>4, <2>5 DEF TimersInit, TimersTypeOK
<1>6. StepsInOrder /\ OneOutcome
  BY <1>1 DEF TimersInit, StepsInOrder, OneOutcome
<1>7. MarksCount
  BY <1>2, <1>4 DEF TimersInit, MarksCount
<1>8. NearestIsPlanned
  BY DEF TimersInit, NearestIsPlanned
<1> QED
  BY <1>5, <1>6, <1>7, <1>8 DEF TimersInv

\* A timer that is due is marked and has its effect at once; the term of a wait
\* completes the step as well.
LEMMA FiringIsSafe ==
    ASSUME TimersInv, NEW s \in RouteSteps, NEW rest \in SUBSET (RouteSteps \X Nat),
           Fire(s, rest), timerFaults' \in 0..TimerFaults
    PROVE  TimersInv'
<1> DEFINE due == IF ActiveStep(s) THEN Due(s) ELSE {}
           fired == [k \in TimerKinds |-> IF k \in due THEN [timer[s][k] EXCEPT !.fired = TRUE]
                                                       ELSE timer[s][k]]
           next == MomentAfter(s, fired)
<1>1. /\ timer \in [RouteSteps -> [TimerKinds -> Timer]] /\ clock \in Nat
      /\ fires \in [RouteSteps -> [TimerKinds -> Nat]]
      /\ nextTimer \in [RouteSteps -> Nat \cup {NoMoment}]
  BY DEF TimersInv, TimersTypeOK
<1>2. MarksCount
  BY DEF TimersInv
<1>3. \A k \in due : k \in TimerKinds /\ ~timer[s][k].fired
  BY DEF Due, DueAgain
<1>4. \A k \in TimerKinds :
        /\ fired[k] \in Timer
        /\ fired[k].fired = (k \in due \/ timer[s][k].fired)
  <2> SUFFICES ASSUME NEW k \in TimerKinds
               PROVE  /\ fired[k] \in Timer
                      /\ fired[k].fired = (k \in due \/ timer[s][k].fired)
    OBVIOUS
  <2>1. timer[s][k] \in Timer
    BY <1>1
  <2>2. CASE k \in due
    BY <2>1, <2>2 DEF Timer
  <2>3. CASE k \notin due
    BY <2>1, <2>3 DEF Timer
  <2> QED
    BY <2>2, <2>3
<1>5. fired \in [TimerKinds -> Timer]
  BY <1>4
<1>6. fires' = [fires EXCEPT ![s] = [k \in TimerKinds |->
                    IF k \in due THEN fires[s][k] + 1 ELSE fires[s][k]]]
  BY <1>1 DEF Fire
<1>7. fires' \in [RouteSteps -> [TimerKinds -> Nat]]
  BY <1>1, <1>6
<1>8. \A k \in TimerKinds : fires'[s][k] = IF fired[k].fired THEN 1 ELSE 0
  BY <1>1, <1>2, <1>3, <1>4, <1>6 DEF MarksCount
<1>9. \A n \in RouteSteps : n # s => fires'[n] = fires[n]
  BY <1>1, <1>6
<1>10. clock' = clock /\ signals' = signals
  BY DEF Fire
<1>11. signals' \subseteq WaitSteps /\ clock' \in Nat
  BY <1>10 DEF TimersInv, TimersTypeOK
<1>12. CASE "wait" \in due
  <2>1. stage[s] = "active"
    BY <1>12 DEF ActiveStep
  <2>2. Complete(s, fired, rest)
    BY <1>12 DEF Fire
  <2>3. MarksCount'
    BY <1>5, <1>8, <1>9, <2>1, <2>2, CompletionCounts
  <2> HIDE DEF fired
  <2> QED
    BY <1>5, <1>7, <1>11, <2>1, <2>2, <2>3, CompletionIsSafe DEF TimersInv, TimersTypeOK
<1>13. CASE "wait" \notin due
  <2>1. /\ timer' = [timer EXCEPT ![s] = fired]
        /\ nextTimer' = [nextTimer EXCEPT ![s] = next]
        /\ timerJobs' = rest \cup Planned(s, next)
        /\ UNCHANGED <<route, stage, outcomes>>
    BY <1>13 DEF Fire
  <2>2. next \in Nat \cup {NoMoment}
    BY <1>5, NearestMoment DEF MomentAfter
  <2>3. timer' \in [RouteSteps -> [TimerKinds -> Timer]]
    BY <1>1, <1>5, <2>1
  <2>4. nextTimer' \in [RouteSteps -> Nat \cup {NoMoment}] /\ timerJobs' \subseteq RouteSteps \X Nat
    BY <1>1, <2>1, <2>2 DEF Planned
  <2>5. TimersTypeOK'
    BY <1>7, <1>11, <2>1, <2>3, <2>4 DEF TimersInv, TimersTypeOK
  <2>6. StepsInOrder' /\ OneOutcome'
    BY <2>1 DEF TimersInv, StepsInOrder, OneOutcome
  <2>7. MarksCount'
    <3>1. stage[s] = "none" => due = {}
      BY DEF ActiveStep
    <3>2. stage[s] = "none" => fired = timer[s]
      BY <1>1, <3>1
    <3>3. ASSUME NEW n \in RouteSteps
          PROVE  /\ stage'[n] = "none" => timer'[n] = NoTimers
                 /\ \A k \in TimerKinds : fires'[n][k] = IF timer'[n][k].fired THEN 1 ELSE 0
      <4>1. CASE n = s
        BY <1>1, <1>2, <1>8, <2>1, <3>2, <4>1 DEF MarksCount
      <4>2. CASE n # s
        BY <1>1, <1>2, <1>9, <2>1, <4>2 DEF MarksCount
      <4> QED
        BY <4>1, <4>2
    <3> QED
      BY <3>3 DEF MarksCount
  <2>8. NearestIsPlanned'
    <3>1. \A n \in RouteSteps : n # s => nextTimer'[n] = nextTimer[n] /\ timer'[n] = timer[n]
      BY <1>1, <2>1
    <3>2. nextTimer'[s] = next /\ timer'[s] = fired
      BY <1>1, <2>1
    <3> QED
      BY <2>1, <3>1, <3>2 DEF TimersInv, NearestIsPlanned, MomentAfter
  <2> QED
    BY <2>5, <2>6, <2>7, <2>8 DEF TimersInv
<1> QED
  BY <1>12, <1>13

\* An answer or an event that comes to an active step completes it.
LEMMA ClosingIsSafe ==
    ASSUME TimersInv, NEW s \in RouteSteps, stage[s] = "active",
           Complete(s, timer[s], timerJobs),
           signals' \subseteq WaitSteps, UNCHANGED <<clock, timerFaults, fires>>
    PROVE  TimersInv'
<1>1. timer[s] \in [TimerKinds -> Timer] /\ timerJobs \in SUBSET (RouteSteps \X Nat)
  BY DEF TimersInv, TimersTypeOK
<1>2. MarksCount'
  <2>1. \A k \in TimerKinds : fires'[s][k] = IF timer[s][k].fired THEN 1 ELSE 0
    BY DEF TimersInv, MarksCount
  <2> QED
    BY <1>1, <2>1, CompletionCounts
<1> QED
  BY <1>1, <1>2, CompletionIsSafe DEF TimersInv, TimersTypeOK

\* Every step preserves the invariant.
LEMMA TimersInductive == TimersInv /\ [TimersNext]_timerVars => TimersInv'
<1> SUFFICES ASSUME TimersInv, [TimersNext]_timerVars PROVE TimersInv'
  OBVIOUS
<1> USE DEF TimersInv
<1>1. ASSUME NEW s \in RouteSteps, AnswerStep(s) PROVE TimersInv'
  BY <1>1, ClosingIsSafe DEF AnswerStep, ActiveStep, TimersTypeOK
<1>2. ASSUME NEW s \in RouteSteps, ReadSignal(s) PROVE TimersInv'
  BY <1>2 DEF ReadSignal, TimersTypeOK, StepsInOrder, OneOutcome, MarksCount, NearestIsPlanned
<1>3. ASSUME NEW s \in RouteSteps, TakeSignal(s) PROVE TimersInv'
  <2>1. signals' \subseteq WaitSteps
    BY <1>3 DEF TakeSignal, TimersTypeOK
  <2>2. CASE StillWaits(s)
    BY <1>3, <2>1, <2>2, ClosingIsSafe DEF TakeSignal, StillWaits
  <2>3. CASE ~StillWaits(s)
    BY <1>3, <2>1, <2>3
       DEF TakeSignal, TimersTypeOK, StepsInOrder, OneOutcome, MarksCount, NearestIsPlanned
  <2> QED
    BY <2>2, <2>3
<1>4. ASSUME NEW s \in RouteSteps, SweepTimers(s) PROVE TimersInv'
  BY <1>4, FiringIsSafe DEF SweepTimers, TimersTypeOK
<1>5. ASSUME NEW j \in timerJobs, TimerJob(j) PROVE TimersInv'
  <2>1. PICK early \in {0, 1}, kept \in SUBSET {j} :
           /\ timerFaults' = timerFaults + early + Cardinality(kept)
           /\ timerFaults' <= TimerFaults
           /\ Fire(j[1], (timerJobs \ {j}) \cup kept)
    BY <1>5 DEF TimerJob
  <2>2. Cardinality(kept) \in Nat
    BY FS_Singleton, FS_Subset, FS_CardinalityType
  <2>3. timerFaults' \in 0..TimerFaults
    BY <2>1, <2>2 DEF TimersTypeOK
  <2>4. j[1] \in RouteSteps /\ (timerJobs \ {j}) \cup kept \in SUBSET (RouteSteps \X Nat)
    BY DEF TimersTypeOK
  <2> QED
    BY <2>1, <2>3, <2>4, FiringIsSafe
<1>6. ASSUME NEW j \in timerJobs, JobLost(j) PROVE TimersInv'
  BY <1>6 DEF JobLost, TimersTypeOK, StepsInOrder, OneOutcome, MarksCount, NearestIsPlanned
<1>7. CASE CancelRoute
  <2>1. /\ route' = "cancelled" /\ UNCHANGED <<timer, timerJobs, signals, clock, timerFaults, fires, outcomes>>
        /\ stage' = [s \in RouteSteps |-> IF stage[s] = "active" THEN "cancelled" ELSE stage[s]]
        /\ nextTimer' = [s \in RouteSteps |-> IF stage[s] = "active" THEN NoMoment ELSE nextTimer[s]]
    BY <1>7 DEF CancelRoute
  <2>2. TimersTypeOK'
    BY <2>1 DEF TimersTypeOK
  <2>3. \A s \in RouteSteps : stage'[s] # "active"
    BY <2>1
  <2>4. StepsInOrder'
    BY <2>1, <2>3 DEF StepsInOrder
  <2>5. OneOutcome'
    BY <2>1, <2>3 DEF OneOutcome, StepsInOrder
  <2>6. MarksCount'
    BY <2>1 DEF MarksCount
  <2>7. NearestIsPlanned'
    BY <2>1, <2>3 DEF NearestIsPlanned
  <2> QED
    BY <2>2, <2>4, <2>5, <2>6, <2>7
<1>8. CASE Tick
  BY <1>8 DEF Tick, TimersTypeOK, StepsInOrder, OneOutcome, MarksCount, NearestIsPlanned
<1>9. CASE UNCHANGED timerVars
  BY <1>9 DEF timerVars, TimersTypeOK, StepsInOrder, OneOutcome, MarksCount, NearestIsPlanned
<1> QED
  BY <1>1, <1>2, <1>3, <1>4, <1>5, <1>6, <1>7, <1>8, <1>9 DEF TimersNext

\* The invariant of the timers holds in every reachable state.
THEOREM TimersInvariance == TimersSpec => []TimersInv
BY TimersInitial, TimersInductive, PTL DEF TimersSpec

\* A step ends once, by whichever of answer, event, term and cancellation comes
\* first to the lock.
THEOREM StepsEndOnce == TimersSpec => []OneOutcome
<1>1. TimersInv => OneOutcome
  BY DEF TimersInv
<1> QED
  BY TimersInvariance, <1>1, PTL

\* No reminder, escalation or term comes twice, however often its job does.
THEOREM TimersFireOnce == TimersSpec => []FiresOnce
<1>1. TimersInv => FiresOnce
  BY DEF TimersInv, MarksCount, FiresOnce
<1> QED
  BY TimersInvariance, <1>1, PTL

\* What makes a lost job good - the nearest moment in the row - is right.
THEOREM MomentsAreKept == TimersSpec => []NearestIsPlanned
<1>1. TimersInv => NearestIsPlanned
  BY DEF TimersInv
<1> QED
  BY TimersInvariance, <1>1, PTL

-----------------------------------------------------------------------------
(* Inbox: for every number of questions, delegations and snoozes.           *)

USE InboxAssumption

\* Nothing is asked and nothing waits.
LEMMA InboxInitial == InboxInit => InboxInv
<1> SUFFICES ASSUME InboxInit PROVE InboxInv
  OBVIOUS
<1>1. InboxTypeOK
  <2>1. item \in [ItemRows -> ItemStates]
    BY DEF InboxInit, ItemStates
  <2>2. engine \in Engines
    BY DEF InboxInit, EngineIdle, EngineAt, Engines
  <2>3. syncing \in [Syncs -> Readings]
    BY DEF InboxInit, SyncIdle, SyncAt, Readings
  <2>4. pending \in BOOLEAN /\ grant \in Grants
    BY DEF InboxInit, Grants
  <2>5. /\ copyNo \in Nat /\ news \in Nat /\ pressed \subseteq ItemRows /\ stray \subseteq ItemRows
        /\ openings \in Nat /\ calls \in Nat /\ answers \in Nat
    BY DEF InboxInit
  <2> QED
    BY <2>1, <2>2, <2>3, <2>4, <2>5 DEF InboxTypeOK
<1>2. CaseMatchesStep
  BY DEF InboxInit, CaseMatchesStep, Active, ActiveIn, ItemRows
<1>3. EngineInv
  BY DEF InboxInit, EngineInv, EngineIdle, EngineAt, Owed
<1> QED
  BY <1>1, <1>2, <1>3 DEF InboxInv

-----------------------------------------------------------------------------
(* Types.                                                                     *)

\* Of three numbers there is one that neither synchronisation has read.
LEMMA FreshCopyTyped == FreshCopy \in Nat
<1>1. \E n \in 1..3 : \A s \in Syncs : syncing[s].present # n
  <2>1. Syncs = {"event", "sweep"}
    BY DEF Syncs
  <2> DEFINE e == syncing["event"].present
             w == syncing["sweep"].present
  <2>2. PICK n \in 1..3 : n # e /\ n # w
    <3> HIDE DEF e, w
    <3>1. \/ 1 # e /\ 1 # w
          \/ 2 # e /\ 2 # w
          \/ 3 # e /\ 3 # w
      OBVIOUS
    <3> QED
      BY <3>1
  <2> QED
    BY <2>1, <2>2
<1>2. FreshCopy \in 1..3
  BY <1>1 DEF FreshCopy
<1> QED
  BY <1>2

\* The transactions of the engine and the buttons keep the types.
LEMMA EngineTyped ==
    ASSUME InboxTypeOK,
           \/ OpenBegin \/ OpenCommit \/ CloseBegin \/ CloseCommit
           \/ \E r \in ItemRows : Press(r) \/ Answer(r)
    PROVE  InboxTypeOK'
<1> USE DEF InboxTypeOK, inboxBounds
<1>1. EngineIdle \in Engines /\ Closing \in Engines
  BY DEF EngineIdle, Closing, EngineAt, Engines, Resolves
<1>2. CASE OpenBegin
  <2>1. EngineAt("opening", Effective, {}) \in Engines
    BY DEF EngineAt, Engines, Effective
  <2> QED
    BY <1>2, <2>1 DEF OpenBegin
<1>3. CASE OpenCommit
  <2>1. item' \in [ItemRows -> ItemStates]
    BY <1>3 DEF OpenCommit, ItemStates
  <2>2. copyNo' \in Nat /\ stray' \subseteq ItemRows
    BY <1>3, FreshCopyTyped DEF OpenCommit
  <2> QED
    BY <1>1, <1>3, <2>1, <2>2 DEF OpenCommit
<1>4. CASE CloseBegin
  BY <1>1, <1>4 DEF CloseBegin
<1>5. CASE CloseCommit
  <2>1. item' \in [ItemRows -> ItemStates] /\ stray' \subseteq ItemRows
    BY <1>5 DEF CloseCommit, ItemStates
  <2> QED
    BY <1>1, <1>5, <2>1 DEF CloseCommit
<1>6. ASSUME NEW r \in ItemRows, Press(r) PROVE InboxTypeOK'
  BY <1>6 DEF Press
<1>7. ASSUME NEW r \in ItemRows, Answer(r) PROVE InboxTypeOK'
  <2>1. CASE Accepts
    BY <1>1, <1>7, <2>1 DEF Answer
  <2>2. CASE ~Accepts
    BY <1>7, <2>2 DEF Answer
  <2> QED
    BY <2>1, <2>2
<1> QED
  BY <1>2, <1>3, <1>4, <1>5, <1>6, <1>7

\* Snoozing, waking and the delegation keep the types.
LEMMA OwnersTyped ==
    ASSUME InboxTypeOK,
           \/ \E r \in ItemRows : Snooze(r) \/ BulkSnooze(r) \/ Wake(r)
           \/ StartDelegation \/ DateComes \/ TermEnds \/ StopDelegation \/ ExpireDue
    PROVE  InboxTypeOK'
<1> USE DEF InboxTypeOK, inboxBounds
<1>1. ASSUME NEW r \in ItemRows, Snooze(r) PROVE InboxTypeOK'
  <2>1. item' \in [ItemRows -> ItemStates] /\ stray' \subseteq ItemRows
    BY <1>1 DEF Snooze, ItemStates
  <2> QED
    BY <1>1, <2>1 DEF Snooze
<1>2. ASSUME NEW r \in ItemRows, BulkSnooze(r) PROVE InboxTypeOK'
  BY <1>2 DEF BulkSnooze, ItemStates
<1>3. ASSUME NEW r \in ItemRows, Wake(r) PROVE InboxTypeOK'
  BY <1>3 DEF Wake, ItemStates
<1>4. ASSUME NEW from, NEW to \in Grants, NEW tells \in BOOLEAN, GrantStep(from, to, tells),
             calls' \in Nat
      PROVE  InboxTypeOK'
  BY <1>4 DEF GrantStep, Told
<1>5. CASE StartDelegation
  <2>1. PICK to \in {"planned", "on"} : GrantStep({"none", "over"}, to, TRUE)
    BY <1>5 DEF StartDelegation
  <2>2. to \in Grants /\ calls' \in Nat
    BY <1>5 DEF StartDelegation, Grants
  <2> QED
    BY <1>4, <2>1, <2>2
<1>6. CASE DateComes \/ TermEnds \/ StopDelegation \/ ExpireDue
  BY <1>4, <1>6 DEF DateComes, TermEnds, StopDelegation, ExpireDue, Grants
<1> QED
  BY <1>1, <1>2, <1>3, <1>5, <1>6

\* So does the synchronisation of the copies.
LEMMA SyncTyped ==
    ASSUME InboxTypeOK, NEW s \in Syncs,
           SyncBegin(s) \/ SyncOriginals(s) \/ SyncCopies(s) \/ SyncCommit(s)
    PROVE  InboxTypeOK'
<1> USE DEF InboxTypeOK, inboxBounds
<1>1. ASSUME NEW r \in Readings, SyncStep(s, r) PROVE syncing' \in [Syncs -> Readings]
  BY <1>1 DEF SyncStep
<1>2. CASE SyncBegin(s)
  <2>1. SyncAt("scope", Effective, FALSE, 0) \in Readings
    BY DEF SyncAt, Readings, Effective
  <2>2. syncing' \in [Syncs -> Readings]
    BY <1>1, <1>2, <2>1 DEF SyncBegin
  <2>3. news' \in Nat
    BY <1>2 DEF SyncBegin
  <2> QED
    BY <1>2, <2>2, <2>3 DEF SyncBegin, SyncStep
<1>3. CASE SyncOriginals(s)
  <2>1. SyncAt("originals", FALSE, syncing[s].scope /\ Active("own"), 0) \in Readings
    BY DEF SyncAt, Readings, Active, ActiveIn
  <2>2. syncing' \in [Syncs -> Readings]
    BY <1>1, <1>3, <2>1 DEF SyncOriginals
  <2> QED
    BY <1>3, <2>2 DEF SyncOriginals, SyncStep
<1>5. CASE SyncCopies(s)
  <2>1. syncing[s].wanted \in BOOLEAN
    BY DEF Readings
  <2>2. SyncAt("read", FALSE, syncing[s].wanted,
               IF Active("copy") THEN copyNo ELSE 0) \in Readings
    BY <2>1 DEF SyncAt, Readings
  <2>3. syncing' \in [Syncs -> Readings]
    BY <1>1, <1>5, <2>2 DEF SyncCopies
  <2> QED
    BY <1>5, <2>3 DEF SyncCopies, SyncStep
<1>4. CASE SyncCommit(s)
  <2>1. SyncIdle \in Readings
    BY DEF SyncIdle, SyncAt, Readings
  <2>2. syncing' \in [Syncs -> Readings]
    BY <1>1, <1>4, <2>1 DEF SyncCommit
  <2>3. item' \in [ItemRows -> ItemStates]
    BY <1>4 DEF SyncCommit, ItemStates, ItemRows
  <2>4. copyNo' \in Nat /\ stray' \subseteq ItemRows
    BY <1>4, FreshCopyTyped DEF SyncCommit
  <2> QED
    BY <1>4, <2>2, <2>3, <2>4 DEF SyncCommit, SyncStep
<1> QED
  BY <1>2, <1>3, <1>4, <1>5

-----------------------------------------------------------------------------
(* The case and its answers.  A row in the state it had keeps its half of     *)
(* CaseMatchesStep; the actions that move the person's row are taken in turn. *)

\* What an engine transaction, a button or an answer leaves.
LEMMA EngineKeeps ==
    ASSUME InboxInv,
           \/ OpenBegin \/ OpenCommit \/ CloseBegin \/ CloseCommit
           \/ \E r \in ItemRows : Press(r) \/ Answer(r)
    PROVE  CaseMatchesStep' /\ EngineInv'
<1> USE DEF InboxInv, InboxTypeOK, EngineInv, CaseMatchesStep, Active, ActiveIn, inboxBounds
<1>1. CASE OpenBegin
  <2>1. CaseMatchesStep'
    BY <1>1 DEF OpenBegin
  <2>2. EngineInv'
    BY <1>1 DEF OpenBegin, EngineAt, Owed
  <2> QED
    BY <2>1, <2>2
<1>2. CASE OpenCommit
  <2>1. item'["own"] = IF Active("own") THEN item["own"] ELSE "open"
    BY <1>2 DEF OpenCommit, Opened, ItemRows
  <2>2. CaseMatchesStep'
    BY <1>2, <2>1 DEF OpenCommit
  <2>3. engine.at = "opening" /\ engine'.at = "idle" /\ ~pending /\ pending'
    BY <1>2 DEF OpenCommit, EngineIdle, EngineAt
  <2>4. EngineInv'
    BY <1>2, <2>3 DEF OpenCommit, Owed
  <2> QED
    BY <2>2, <2>4
<1>3. ASSUME pending PROVE Closing.at = "closing" /\ "own" \in Closing.rows
  BY <1>3 DEF Closing, EngineAt, Resolves, ItemRows
<1>4. CASE CloseBegin
  <2>1. engine.at = "idle" /\ engine'.at = "closing" /\ "own" \in engine'.rows
    BY <1>3, <1>4 DEF CloseBegin
  <2>2. EngineInv'
    BY <1>4, <2>1 DEF CloseBegin, Owed
  <2>3. CaseMatchesStep'
    BY <1>4 DEF CloseBegin
  <2> QED
    BY <2>2, <2>3
<1>5. CASE CloseCommit
  <2>1. item'["own"] = "closed" /\ "own" \notin stray' /\ ~pending'
    BY <1>5 DEF CloseCommit, ItemRows
  <2>2. engine.at = "closing" /\ engine'.at = "idle"
    BY <1>5 DEF CloseCommit, EngineIdle, EngineAt
  <2>3. EngineInv'
    BY <1>5, <2>1, <2>2 DEF CloseCommit, Owed
  <2> QED
    BY <2>1, <2>3
<1>6. ASSUME NEW r \in ItemRows, Press(r) PROVE CaseMatchesStep' /\ EngineInv'
  BY <1>6 DEF Press, Owed
<1>7. ASSUME NEW r \in ItemRows, Answer(r) PROVE CaseMatchesStep' /\ EngineInv'
  <2>1. CaseMatchesStep'
    BY <1>7 DEF Answer
  <2>2. CASE ~Accepts
    BY <1>7, <2>2, <2>1 DEF Answer, Owed
  <2>3. CASE Accepts
    <3>1. pending /\ engine.at = "idle" /\ engine'.at = "closing" /\ "own" \in engine'.rows
      BY <1>3, <1>7, <2>3 DEF Answer, Accepts
    <3>2. EngineInv'
      BY <1>7, <2>3, <3>1 DEF Answer, Owed
    <3> QED
      BY <2>1, <3>2
  <2> QED
    BY <2>2, <2>3
<1> QED
  BY <1>1, <1>2, <1>4, <1>5, <1>6, <1>7

\* Nobody but the engine asks, answers or closes for good.
LEMMA OthersKeep ==
    ASSUME InboxInv,
           \/ \E r \in ItemRows : Snooze(r) \/ BulkSnooze(r) \/ Wake(r)
           \/ StartDelegation \/ DateComes \/ TermEnds \/ StopDelegation \/ ExpireDue
           \/ \E s \in Syncs : SyncBegin(s) \/ SyncOriginals(s) \/ SyncCopies(s) \/ SyncCommit(s)
    PROVE  CaseMatchesStep' /\ EngineInv'
<1>1. UNCHANGED <<pending, engine, answers, openings>>
  BY DEF Snooze, BulkSnooze, Wake, StartDelegation, DateComes, TermEnds, StopDelegation,
         ExpireDue, GrantStep, SyncBegin, SyncOriginals, SyncCopies, SyncCommit, SyncStep, inboxBounds
<1>2. EngineInv'
  BY <1>1 DEF InboxInv, EngineInv, Owed
<1> USE DEF InboxInv, InboxTypeOK, CaseMatchesStep, Active, ActiveIn
<1>3. ASSUME NEW r \in ItemRows, Snooze(r) PROVE CaseMatchesStep'
  <2>1. CASE r = "own"
    <3>1. item'["own"] = "snoozed"
      BY <1>3, <2>1 DEF Snooze, ItemRows
    <3>2. pending' \/ "own" \in stray'
      BY <1>1, <1>3, <2>1 DEF Snooze
    <3> QED
      BY <3>1, <3>2
  <2>2. CASE r # "own"
    <3>1. item'["own"] = item["own"]
      BY <1>3, <2>2 DEF Snooze
    <3>2. "own" \in stray' <=> "own" \in stray
      BY <1>3, <2>2 DEF Snooze
    <3> QED
      BY <1>1, <3>1, <3>2
  <2> QED
    BY <2>1, <2>2
<1>4. ASSUME NEW r \in ItemRows, BulkSnooze(r) \/ Wake(r) PROVE CaseMatchesStep'
  <2>1. stray' = stray
    BY <1>4 DEF BulkSnooze, Wake
  <2>2. Active("own")' <=> Active("own")
    BY <1>4 DEF BulkSnooze, Wake, ItemRows
  <2> QED
    BY <1>1, <2>1, <2>2
<1>5. CASE StartDelegation \/ DateComes \/ TermEnds \/ StopDelegation \/ ExpireDue
  <2>1. UNCHANGED <<item, stray>>
    BY <1>5 DEF StartDelegation, DateComes, TermEnds, StopDelegation, ExpireDue, GrantStep
  <2> QED
    BY <1>1, <1>2, <2>1
<1>6. ASSUME NEW s \in Syncs, SyncBegin(s) \/ SyncOriginals(s) \/ SyncCopies(s) \/ SyncCommit(s)
      PROVE  CaseMatchesStep'
  <2>1. item'["own"] = item["own"]
    BY <1>6 DEF SyncBegin, SyncOriginals, SyncCopies, SyncCommit, ItemRows
  <2>2. "own" \in stray' <=> "own" \in stray
    BY <1>6 DEF SyncBegin, SyncOriginals, SyncCopies, SyncCommit
  <2> QED
    BY <1>1, <2>1, <2>2
<1> QED
  BY <1>2, <1>3, <1>4, <1>5, <1>6

LEMMA InboxInductive == InboxInv /\ [InboxNext]_inboxVars => InboxInv'
<1> SUFFICES ASSUME InboxInv, [InboxNext]_inboxVars PROVE InboxInv'
  OBVIOUS
<1>1. CASE UNCHANGED inboxVars
  BY <1>1 DEF inboxVars, InboxInv, InboxTypeOK, CaseMatchesStep, EngineInv, Owed, Active, ActiveIn
<1>2. CASE \/ OpenBegin \/ OpenCommit \/ CloseBegin \/ CloseCommit
           \/ \E r \in ItemRows : Press(r) \/ Answer(r)
  BY <1>2, EngineTyped, EngineKeeps DEF InboxInv
<1>3. CASE \/ \E r \in ItemRows : Snooze(r) \/ BulkSnooze(r) \/ Wake(r)
           \/ StartDelegation \/ DateComes \/ TermEnds \/ StopDelegation \/ ExpireDue
  BY <1>3, OwnersTyped, OthersKeep DEF InboxInv
<1>4. CASE \E s \in Syncs : SyncBegin(s) \/ SyncOriginals(s) \/ SyncCopies(s) \/ SyncCommit(s)
  BY <1>4, SyncTyped, OthersKeep DEF InboxInv
<1> QED
  BY <1>1, <1>2, <1>3, <1>4 DEF InboxNext

\* The strengthened invariant of the case.
THEOREM InboxInvariance == InboxSpec => []InboxInv
<1>1. InboxInit => InboxInv
  BY InboxInitial
<1> QED
  BY <1>1, InboxInductive, PTL DEF InboxSpec

\* The person has an active item exactly while the step awaits the answer
\* (openItem, resolveItems, snooze of kernel/inbox/service.ts), the snoozed
\* closed item apart.
THEOREM ItemsFollowTheStep == InboxSpec => []CaseMatchesStep
<1>1. InboxInv => CaseMatchesStep
  BY DEF InboxInv
<1> QED
  BY <1>1, InboxInvariance, PTL

\* However many copies and buttons there are, a question is answered once
\* (executeAction and the handler's own check under the instance's lock).
THEOREM AnsweredOnce == InboxSpec => []OneAnswer
<1>1. InboxInv => OneAnswer
  BY DEF InboxInv, InboxTypeOK, EngineInv, OneAnswer, Owed
<1> QED
  BY <1>1, InboxInvariance, PTL

-----------------------------------------------------------------------------
(* SharedDocument: where the row of the document exists, a save keeps it all.*)

USE SharedDocumentAssumption

\* Nobody saves yet, into a row that is there or is not.
LEMMA SavingInitial == DocumentInit => DocumentInv
<1> SUFFICES ASSUME DocumentInit PROVE DocumentInv
  OBVIOUS
<1>1. DocumentTypeOK
  <2>1. stored \subseteq Edits /\ typed \subseteq Edits
    BY DEF DocumentInit
  <2>2. doc \in [Processes -> [open : BOOLEAN, edits : SUBSET Edits, dirty : BOOLEAN]]
    BY DEF DocumentInit, ClosedDoc
  <2>3. saving \in [Processes -> [on : BOOLEAN, state : SUBSET Edits, locks : BOOLEAN]]
    BY DEF DocumentInit, NoSave
  <2>4. hasRow \in BOOLEAN
    BY DEF DocumentInit
  <2>5. documentFaults \in 0..DocumentFaults
    BY DEF DocumentInit
  <2> QED
    BY <2>1, <2>2, <2>3, <2>4, <2>5 DEF DocumentTypeOK
<1>2. RowExists => SaveInv
  BY DEF DocumentInit, SaveInv, NoSave
<1> QED
  BY <1>1, <1>2 DEF DocumentInv

\* Every step keeps the types.
LEMMA SavingTyped == DocumentTypeOK /\ [DocumentNext]_documentVars => DocumentTypeOK'
<1> SUFFICES ASSUME DocumentTypeOK, [DocumentNext]_documentVars PROVE DocumentTypeOK'
  OBVIOUS
<1> USE DEF DocumentTypeOK
<1>1. ASSUME NEW p \in Processes, OpenDocument(p) PROVE DocumentTypeOK'
  BY <1>1 DEF OpenDocument
<1>2. ASSUME NEW p \in Processes, NEW e \in Edits, Edit(p, e) PROVE DocumentTypeOK'
  <2>1. doc' \in [Processes -> [open : BOOLEAN, edits : SUBSET Edits, dirty : BOOLEAN]]
    <3> DEFINE Docs == [open : BOOLEAN, edits : SUBSET Edits, dirty : BOOLEAN]
               more == [doc EXCEPT ![p].edits = @ \cup {e}]
    <3>1. doc[p] \in Docs
      OBVIOUS
    <3>2. [doc[p] EXCEPT !.edits = @ \cup {e}] \in Docs
      BY <3>1
    <3> HIDE DEF DocumentTypeOK
    <3>3. more \in [Processes -> Docs]
      BY <3>2 DEF DocumentTypeOK
    <3>4. doc' = [more EXCEPT ![p].dirty = TRUE]
      BY <1>2 DEF Edit
    <3> HIDE DEF more
    <3>5. [more[p] EXCEPT !.dirty = TRUE] \in Docs
      BY <3>3
    <3> QED
      BY <3>3, <3>4, <3>5
  <2>2. typed' \subseteq Edits /\ UNCHANGED <<stored, hasRow, saving, documentFaults>>
    BY <1>2 DEF Edit
  <2> QED
    BY <2>1, <2>2
<1>3. ASSUME NEW p \in Processes, SaveBegin(p) PROVE DocumentTypeOK'
  <2>1. Merged(p) \subseteq Edits
    BY DEF Merged
  <2> QED
    BY <1>3, <2>1 DEF SaveBegin
<1>4. ASSUME NEW p \in Processes, SaveCommit(p) PROVE DocumentTypeOK'
  BY <1>4 DEF SaveCommit, NoSave
<1>5. ASSUME NEW p \in Processes, SaveFails(p) PROVE DocumentTypeOK'
  <2>1. saving' \in [Processes -> [on : BOOLEAN, state : SUBSET Edits, locks : BOOLEAN]]
    BY <1>5 DEF SaveFails, NoSave
  <2>2. documentFaults' \in 0..DocumentFaults
    BY <1>5 DEF SaveFails, DocumentFault
  <2>3. doc' \in [Processes -> [open : BOOLEAN, edits : SUBSET Edits, dirty : BOOLEAN]]
    <3> DEFINE Docs == [open : BOOLEAN, edits : SUBSET Edits, dirty : BOOLEAN]
    <3>1. doc \in [Processes -> Docs]
      OBVIOUS
    <3> HIDE DEF DocumentTypeOK
    <3>2. [doc[p] EXCEPT !.dirty = TRUE] \in Docs
      BY <3>1
    <3>3. doc' = [doc EXCEPT ![p] = [doc[p] EXCEPT !.dirty = TRUE]]
      BY <1>5 DEF SaveFails
    <3> QED
      BY <3>1, <3>2, <3>3
  <2>4. UNCHANGED <<stored, hasRow, typed>>
    BY <1>5 DEF SaveFails
  <2> QED
    BY <2>1, <2>2, <2>3, <2>4
<1>6. ASSUME NEW p \in Processes, CloseDocument(p) PROVE DocumentTypeOK'
  BY <1>6 DEF CloseDocument, NoSave, ClosedDoc
<1>7. ASSUME NEW p \in Processes, ProcessDies(p) PROVE DocumentTypeOK'
  BY <1>7 DEF ProcessDies, NoSave, ClosedDoc, DocumentFault
<1>8. CASE UNCHANGED documentVars
  BY <1>8 DEF documentVars
<1> QED
  BY <1>1, <1>2, <1>3, <1>4, <1>5, <1>6, <1>7, <1>8 DEF DocumentNext

\* One save at a time holds the row, and holds what the row had.
LEMMA SavingLocked == DocumentTypeOK /\ SaveInv /\ [DocumentNext]_documentVars => SaveInv'
<1> SUFFICES ASSUME DocumentTypeOK, SaveInv, [DocumentNext]_documentVars PROVE SaveInv'
  OBVIOUS
<1> USE DEF SaveInv
<1>1. saving \in [Processes -> [on : BOOLEAN, state : SUBSET Edits, locks : BOOLEAN]]
  BY DEF DocumentTypeOK
<1>2. ASSUME UNCHANGED <<stored, hasRow, saving>> PROVE SaveInv'
  BY <1>2
<1>3. ASSUME NEW p \in Processes, OpenDocument(p) PROVE SaveInv'
  BY <1>2, <1>3 DEF OpenDocument
<1>4. ASSUME NEW p \in Processes, NEW e \in Edits, Edit(p, e) PROVE SaveInv'
  BY <1>2, <1>4 DEF Edit
<1>5. ASSUME NEW p \in Processes, SaveBegin(p) PROVE SaveInv'
  <2>1. \A q \in Processes : ~saving[q].on
    BY <1>5 DEF SaveBegin, RowLocked
  <2>2. saving' = [saving EXCEPT ![p] = [on |-> TRUE, state |-> Merged(p), locks |-> TRUE]]
    BY <1>5 DEF SaveBegin
  <2>3. stored \subseteq Merged(p)
    BY DEF Merged
  <2>4. UNCHANGED <<stored, hasRow>>
    BY <1>5 DEF SaveBegin
  <2> QED
    BY <1>1, <2>1, <2>2, <2>3, <2>4
<1>6. ASSUME NEW p \in Processes, SaveCommit(p) PROVE SaveInv'
  <2>1. \A q \in Processes : q # p => ~saving[q].on
    BY <1>6 DEF SaveCommit
  <2>2. saving' = [saving EXCEPT ![p] = NoSave] /\ hasRow'
    BY <1>6 DEF SaveCommit
  <2>3. \A q \in Processes : ~saving'[q].on /\ ~saving'[q].locks
    BY <1>1, <2>1, <2>2 DEF NoSave
  <2> QED
    BY <2>2, <2>3
<1>7. ASSUME NEW p \in Processes, SaveFails(p) \/ CloseDocument(p) \/ ProcessDies(p)
      PROVE  SaveInv'
  <2>1. saving' = [saving EXCEPT ![p] = NoSave] /\ UNCHANGED <<stored, hasRow>>
    BY <1>7 DEF SaveFails, CloseDocument, ProcessDies
  <2> QED
    BY <1>1, <2>1 DEF NoSave
<1>8. CASE UNCHANGED documentVars
  BY <1>2, <1>8 DEF documentVars
<1> QED
  BY <1>3, <1>4, <1>5, <1>6, <1>7, <1>8 DEF DocumentNext

\* Only the commit of a save writes the row, and it holds all the row had.
LEMMA RowGrows == SaveInv /\ [DocumentNext]_documentVars => stored \subseteq stored'
<1> SUFFICES ASSUME SaveInv, [DocumentNext]_documentVars PROVE stored \subseteq stored'
  OBVIOUS
<1>1. ASSUME NEW p \in Processes, SaveCommit(p) PROVE stored \subseteq stored'
  BY <1>1 DEF SaveCommit, SaveInv
<1>2. ASSUME NEW p \in Processes,
             \/ OpenDocument(p) \/ (\E e \in Edits : Edit(p, e)) \/ SaveBegin(p)
             \/ SaveFails(p) \/ CloseDocument(p) \/ ProcessDies(p)
      PROVE  stored' = stored
  BY <1>2 DEF OpenDocument, Edit, SaveBegin, SaveFails, CloseDocument, ProcessDies
<1>3. CASE UNCHANGED documentVars
  BY <1>3 DEF documentVars
<1> QED
  BY <1>1, <1>2, <1>3 DEF DocumentNext

\* Documents and saves keep their types; where the row was created with the
\* object (CollabStore.create), a save holds it and has merged it.
THEOREM DocumentInvariance == DocumentSpec => []DocumentInv
<1>1. DocumentInv /\ [DocumentNext]_documentVars => DocumentInv'
  BY SavingTyped, SavingLocked DEF DocumentInv
<1> QED
  BY SavingInitial, <1>1, PTL DEF DocumentSpec

\* A save of one process never takes out of the row what another has saved,
\* where the row was created with the object.
THEOREM SavedIsKept == ASSUME RowExists PROVE DocumentSpec => StoredStays
<1>1. DocumentInv => SaveInv
  BY DEF DocumentInv
<1>2. SaveInv /\ [DocumentNext]_documentVars => [stored \subseteq stored']_documentVars
  BY RowGrows
<1> QED
  BY DocumentInvariance, <1>1, <1>2, PTL DEF DocumentSpec, StoredStays

-----------------------------------------------------------------------------
(* Uploads: an upload session, its requests and its failures.               *)

USE UploadsAssumption

\* A session begins with nothing recorded and no request under way.
LEMMA UploadInitial == UploadInit => UploadInv
<1> SUFFICES ASSUME UploadInit PROVE UploadInv
  OBVIOUS
<1>1. UploadTypeOK
  <2>1. caller \in [Callers -> CallerPlaces]
    BY DEF UploadInit, CallerPlaces
  <2>2. parts \in {"open", "gone", "none"}
    BY DEF UploadInit
  <2>3. uploadFaults \in 0..UploadFaults
    BY DEF UploadInit
  <2>4. recorded \subseteq {"planned"}
    BY DEF UploadInit
  <2>5. expired \in BOOLEAN /\ object \in BOOLEAN
    BY DEF UploadInit
  <2> QED
    BY <2>1, <2>2, <2>3, <2>4, <2>5 DEF UploadInit, UploadTypeOK
<1>2. RequestsInv /\ OneFileWithItsObject
  BY DEF UploadInit, RequestsInv, OneFileWithItsObject
<1> QED
  BY <1>1, <1>2 DEF UploadInv

\* Every step preserves the invariant.
LEMMA UploadInductive == UploadInv /\ [UploadNext]_uploadVars => UploadInv'
<1> SUFFICES ASSUME UploadInv, [UploadNext]_uploadVars PROVE UploadInv'
  OBVIOUS
<1> USE DEF UploadInv, UploadTypeOK, CallerPlaces, RequestsInv, OneFileWithItsObject
<1>1. CASE PutWhole
  BY <1>1 DEF PutWhole
<1>2. ASSUME NEW c \in Callers, AskComplete(c) PROVE UploadInv'
  BY <1>2 DEF AskComplete, CallerGoes
<1>3. ASSUME NEW c \in Callers, JoinParts(c) PROVE UploadInv'
  BY <1>3 DEF JoinParts, CallerGoes
<1>4. ASSUME NEW c \in Callers, HeadObject(c) PROVE UploadInv'
  BY <1>4 DEF HeadObject, CallerGoes, Found
<1>5. ASSUME NEW c \in Callers, RecordFile(c) PROVE UploadInv'
  <2>1. VersionId(c) \in recorded' /\ recorded' \subseteq {"planned"} /\ object'
    BY <1>5 DEF RecordFile, CallerGoes, VersionId
  <2> QED
    BY <1>5, <2>1 DEF RecordFile, CallerGoes
<1>6. ASSUME NEW c \in Callers, MarkCompleted(c) PROVE UploadInv'
  BY <1>6 DEF MarkCompleted, CallerGoes
<1>7. ASSUME NEW c \in Callers, AskAgain(c) PROVE UploadInv'
  BY <1>7 DEF AskAgain
<1>8. CASE Expire \/ PruneFind \/ PruneAbort \/ PruneMark
  BY <1>8 DEF Expire, PruneFind, PruneAbort, PruneMark
<1>9. CASE UNCHANGED uploadVars
  BY <1>9 DEF uploadVars
<1> QED
  BY <1>1, <1>2, <1>3, <1>4, <1>5, <1>6, <1>7, <1>8, <1>9 DEF UploadNext

\* What is in the store and in the registry follows from how far each request
\* has come.
THEOREM UploadInvariance == UploadSpec => []UploadInv
BY UploadInitial, UploadInductive, PTL DEF UploadSpec

\* One session gives one file, with its object in the store, however many
\* requests complete it, die and are sent again, and whenever the prune comes.
THEOREM UploadGivesOneFile == UploadSpec => []OneFileWithItsObject
<1>1. UploadInv => OneFileWithItsObject
  BY DEF UploadInv
<1> QED
  BY UploadInvariance, <1>1, PTL

-----------------------------------------------------------------------------
(* Numbering: the numbers of a journal, registered at once.                 *)

USE NumberingAssumption DEF Numbers

\* A journal begins without numbers and with no registration under way.
LEMMA NumberingInitial == NumberingInit => NumberingInv
<1> SUFFICES ASSUME NumberingInit PROVE NumberingInv
  OBVIOUS
<1> USE DEF NumberingInit, NoRegistration, Registering
<1>1. NumberingTypeOK
  <2>1. status \in [Documents -> Statuses] /\ reservation \in [Numbers -> ReservationStates]
    BY DEF Statuses, ReservationStates
  <2>2. lastSeq \in 0..MaxNumber /\ counterOf \in Registrars \cup {NoRegistrar}
    OBVIOUS
  <2>3. registered \subseteq Numbers \X Documents
    OBVIOUS
  <2>4. reg \in [Registrars -> Registration]
    BY DEF Registration
  <2> QED
    BY <2>1, <2>2, <2>3, <2>4 DEF NumberingTypeOK
<1>2. InProgress
  BY DEF InProgress
<1>3. OneNumberEach /\ NoNumberLost
  BY DEF OneNumberEach, NoNumberLost, Given
<1> QED
  BY <1>1, <1>2, <1>3 DEF NumberingInv

\* Every step keeps the types.
LEMMA NumberingTyped == NumberingInv /\ [NumberingNext]_numberVars => NumberingTypeOK'
<1> SUFFICES ASSUME NumberingInv, [NumberingNext]_numberVars PROVE NumberingTypeOK'
  OBVIOUS
<1> USE DEF NumberingInv, NumberingTypeOK
<1>1. ASSUME NEW t \in Registrars, NEW d \in Documents, RegisterBegin(t, d) PROVE NumberingTypeOK'
  <2>1. Registering("checked", d, 0, FALSE) \in Registration
    BY DEF Registering, Registration
  <2> QED
    BY <1>1, <2>1 DEF RegisterBegin
<1>2. ASSUME NEW t \in Registrars, IssueNext(t) PROVE NumberingTypeOK'
  <2>1. Registering("numbered", reg[t].doc, lastSeq + 1, FALSE) \in Registration
    BY <1>2 DEF IssueNext, Registering, Registration
  <2> QED
    BY <1>2, <2>1 DEF IssueNext
<1>3. ASSUME NEW t \in Registrars, NEW q \in Numbers, IssueReserved(t, q) PROVE NumberingTypeOK'
  <2>1. Registering("numbered", reg[t].doc, q, TRUE) \in Registration
    BY <1>3 DEF IssueReserved, Registering, Registration
  <2> QED
    BY <1>3, <2>1 DEF IssueReserved
<1>4. ASSUME NEW t \in Registrars, RegisterCommit(t) PROVE NumberingTypeOK'
  <2>1. reg[t].doc \in Documents /\ reg[t].seq \in Numbers
    BY <1>4 DEF RegisterCommit, InProgress
  <2>2. status' \in [Documents -> Statuses]
    BY <1>4 DEF RegisterCommit, Statuses
  <2>3. reservation' \in [Numbers -> ReservationStates]
    BY <1>4 DEF RegisterCommit, ReservationStates
  <2> QED
    BY <1>4, <2>1, <2>2, <2>3 DEF RegisterCommit, NoRegistration, Registering, Registration
<1>5. ASSUME NEW t \in Registrars, RegisterAbort(t) PROVE NumberingTypeOK'
  BY <1>5 DEF RegisterAbort, RollsBack, NoRegistration, Registering, Registration
<1>6. ASSUME NEW n \in Numbers, ReserveNumbers(n) PROVE NumberingTypeOK'
  BY <1>6 DEF ReserveNumbers, ReservationStates
<1>7. ASSUME NEW q \in Numbers, CancelReservation(q) PROVE NumberingTypeOK'
  BY <1>7 DEF CancelReservation, ReservationStates
<1>8. ASSUME NEW d \in Documents, CancelDocument(d) PROVE NumberingTypeOK'
  BY <1>8 DEF CancelDocument, Statuses
<1>9. CASE UNCHANGED numberVars
  BY <1>9 DEF numberVars
<1> QED
  BY <1>1, <1>2, <1>3, <1>4, <1>5, <1>6, <1>7, <1>8, <1>9 DEF NumberingNext

\* What a registration in progress has in its hands stays its own.
LEMMA NumberingProgress == NumberingInv /\ [NumberingNext]_numberVars => InProgress'
<1> SUFFICES ASSUME NumberingInv, [NumberingNext]_numberVars PROVE InProgress'
  OBVIOUS
<1> USE DEF NumberingInv, NumberingTypeOK, InProgress
<1>1. ASSUME NEW t \in Registrars, NEW d \in Documents, RegisterBegin(t, d) PROVE InProgress'
  BY <1>1 DEF RegisterBegin, NoRegistration, Registering, DocumentLocked
<1>2. ASSUME NEW t \in Registrars, IssueNext(t) PROVE InProgress'
  BY <1>2 DEF IssueNext, CounterFree, Registering
<1>3. ASSUME NEW t \in Registrars, NEW q \in Numbers, IssueReserved(t, q) PROVE InProgress'
  BY <1>3 DEF IssueReserved, ReservationLocked, Registering
<1>4. ASSUME NEW t \in Registrars, RegisterCommit(t) PROVE InProgress'
  BY <1>4 DEF RegisterCommit, NoRegistration, Registering
<1>5. ASSUME NEW t \in Registrars, RegisterAbort(t) PROVE InProgress'
  BY <1>5 DEF RegisterAbort, RollsBack, NoRegistration, Registering
<1>6. ASSUME NEW n \in Numbers, ReserveNumbers(n) PROVE InProgress'
  BY <1>6 DEF ReserveNumbers
<1>7. ASSUME NEW q \in Numbers, CancelReservation(q) PROVE InProgress'
  BY <1>7 DEF CancelReservation, ReservationLocked
<1>8. ASSUME NEW d \in Documents, CancelDocument(d) PROVE InProgress'
  BY <1>8 DEF CancelDocument, DocumentLocked
<1>9. CASE UNCHANGED numberVars
  BY <1>9 DEF numberVars
<1> QED
  BY <1>1, <1>2, <1>3, <1>4, <1>5, <1>6, <1>7, <1>8, <1>9 DEF NumberingNext

\* A number and a document meet once, and the numbers have no gap: only the
\* commit, a reservation and its cancellation touch what these speak of.
LEMMA NumberingExact ==
    NumberingInv /\ [NumberingNext]_numberVars => OneNumberEach' /\ NoNumberLost'
<1> SUFFICES ASSUME NumberingInv, [NumberingNext]_numberVars
             PROVE  OneNumberEach' /\ NoNumberLost'
  OBVIOUS
<1> USE DEF NumberingInv, NumberingTypeOK, OneNumberEach, NoNumberLost
<1>1. ASSUME UNCHANGED <<lastSeq, reservation, registered>>
      PROVE  OneNumberEach' /\ NoNumberLost'
  BY <1>1 DEF Given
<1>2. ASSUME NEW t \in Registrars, RegisterCommit(t) PROVE OneNumberEach' /\ NoNumberLost'
  <2> DEFINE r == reg[t]
  <2>1. /\ r.doc \in Documents /\ r.seq \in Numbers /\ status[r.doc] = "draft"
        /\ r.reserved => reservation[r.seq] = "open"
        /\ ~r.reserved => r.seq = lastSeq + 1
    BY <1>2 DEF RegisterCommit, InProgress
  <2>2. registered' = registered \cup {<<r.seq, r.doc>>}
    BY <1>2 DEF RegisterCommit
  <2>3. ~Given(r.seq)
    <3>1. CASE r.reserved
      BY <2>1, <3>1
    <3>2. CASE ~r.reserved
      <4>1. ~(r.seq <= lastSeq)
        BY <2>1, <3>2
      <4> QED
        BY <2>1, <4>1
    <3> QED
      BY <3>1, <3>2
  <2>4. \A x \in registered : x[1] # r.seq /\ x[2] # r.doc
    <3>1. \A q \in Numbers, d \in Documents : <<q, d>> \in registered => q # r.seq
      BY <2>3 DEF Given
    <3>3. \A x \in registered : x = <<x[1], x[2]>> /\ x[1] \in Numbers /\ x[2] \in Documents
      OBVIOUS
    <3>2. \A x \in registered : x[2] # r.doc
      BY <2>1 DEF InProgress
    <3> QED
      BY <3>1, <3>2, <3>3
  <2>5. OneNumberEach'
    <3> SUFFICES ASSUME NEW x \in registered', NEW y \in registered',
                        x[1] = y[1] \/ x[2] = y[2]
                 PROVE  x = y
      OBVIOUS
    <3>1. CASE x \in registered /\ y \in registered
      BY <3>1
    <3>2. CASE x \notin registered \/ y \notin registered
      BY <2>2, <2>4, <3>2
    <3> QED
      BY <3>1, <3>2
  <2>6. \A q \in Numbers : Given(q)' <=> q = r.seq \/ Given(q)
    BY <2>1, <2>2 DEF Given
  <2>7. NoNumberLost'
    <3>1. CASE r.reserved
      <4>1. lastSeq' = lastSeq /\ reservation' = [reservation EXCEPT ![r.seq] = "used"]
        BY <1>2, <3>1 DEF RegisterCommit
      <4> QED
        BY <2>1, <2>6, <3>1, <4>1
    <3>2. CASE ~r.reserved
      <4>1. lastSeq' = lastSeq + 1 /\ UNCHANGED reservation
        BY <1>2, <2>1, <3>2 DEF RegisterCommit
      <4> QED
        BY <2>1, <2>6, <3>2, <4>1
    <3> QED
      BY <3>1, <3>2
  <2> QED
    BY <2>5, <2>7
<1>3. ASSUME NEW n \in Numbers, ReserveNumbers(n) PROVE OneNumberEach' /\ NoNumberLost'
  <2>1. lastSeq' = lastSeq + n /\ UNCHANGED registered
    BY <1>3 DEF ReserveNumbers
  <2>2. \A q \in Numbers : reservation'[q] = IF q > lastSeq /\ q <= lastSeq + n
                                              THEN "open" ELSE reservation[q]
    BY <1>3 DEF ReserveNumbers
  <2>3. \A q \in Numbers : Given(q)' <=> Given(q)
    BY <2>1 DEF Given
  <2>4. NoNumberLost'
    BY <2>1, <2>2, <2>3
  <2> QED
    BY <2>1, <2>4
<1>4. ASSUME NEW q \in Numbers, CancelReservation(q) PROVE OneNumberEach' /\ NoNumberLost'
  BY <1>4 DEF CancelReservation, Cancellable, Given
<1>5. ASSUME NEW t \in Registrars, NEW d \in Documents, RegisterBegin(t, d)
      PROVE  UNCHANGED <<lastSeq, reservation, registered>>
  BY <1>5 DEF RegisterBegin
<1>6. ASSUME NEW t \in Registrars, IssueNext(t) \/ RegisterAbort(t)
      PROVE  UNCHANGED <<lastSeq, reservation, registered>>
  BY <1>6 DEF IssueNext, RegisterAbort, RollsBack
<1>7. ASSUME NEW t \in Registrars, NEW q \in Numbers, IssueReserved(t, q)
      PROVE  UNCHANGED <<lastSeq, reservation, registered>>
  BY <1>7 DEF IssueReserved
<1>8. ASSUME NEW d \in Documents, CancelDocument(d)
      PROVE  UNCHANGED <<lastSeq, reservation, registered>>
  BY <1>8 DEF CancelDocument
<1>9. CASE UNCHANGED numberVars
  BY <1>1, <1>9 DEF numberVars
<1> QED
  BY <1>1, <1>2, <1>3, <1>4, <1>5, <1>6, <1>7, <1>8, <1>9 DEF NumberingNext

\* The invariant of the numbering holds in every reachable state.
THEOREM NumberingInvariance == NumberingSpec => []NumberingInv
<1>1. NumberingInv /\ [NumberingNext]_numberVars => NumberingInv'
  BY NumberingTyped, NumberingProgress, NumberingExact DEF NumberingInv
<1> QED
  BY NumberingInitial, <1>1, PTL DEF NumberingSpec

\* Registrations side by side give no number twice and no document two.
THEOREM NumbersAreUnique == NumberingSpec => []OneNumberEach
<1>1. NumberingInv => OneNumberEach
  BY DEF NumberingInv
<1> QED
  BY NumberingInvariance, <1>1, PTL

\* A registration that fails after it was given a number leaves no gap.
THEOREM NumbersHaveNoGap == NumberingSpec => []NoNumberLost
<1>1. NumberingInv => NoNumberLost
  BY DEF NumberingInv
<1> QED
  BY NumberingInvariance, <1>1, PTL

=============================================================================
