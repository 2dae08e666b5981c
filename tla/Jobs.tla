-------------------------------- MODULE Jobs --------------------------------
(* The background jobs of the kernel (kernel/jobs): the registry in Postgres, *)
(* the BullMQ queue that delivers and repeats attempts, the runners that      *)
(* execute them (TypeScript workers and the Python engine), cancellation, the *)
(* single-run locks, and the reconciliation that closes what a lost report    *)
(* left open.  One job is one registry row; its queue entry has the same id.  *)
EXTENDS Naturals, Sequences, FiniteSets

CONSTANTS
    Jobs,           \* registry rows that may be scheduled
    Runners,        \* processes with one queue slot each
    Settlers,       \* reconcileJobs and the listeners of queue events
    EngineJobs,     \* the jobs the Python engine executes
    EngineRunners,  \* the runners that are engine processes
    Keys,           \* single-run keys (exclusiveKey)
    KeyOf,          \* KeyOf[j]: the key of a job, or NoKey
    Defers,         \* jobs with whenBusy = 'defer'; the others skip
    MaxAttempts,    \* the attempts BullMQ gives a job
    MaxStalls,      \* how often BullMQ takes a stalled job back
    MaxFaults,      \* bound on crashes, losses and cleared queues
    NoKey, Nobody, NoJob

ASSUME JobsAssumption ==
    /\ EngineJobs \subseteq Jobs /\ Defers \subseteq Jobs
    /\ EngineRunners \subseteq Runners
    /\ \A j \in EngineJobs : KeyOf[j] = NoKey
    /\ KeyOf \in [Jobs -> Keys \cup {NoKey}] /\ NoKey \notin Keys
    /\ MaxAttempts \in Nat \ {0} /\ MaxStalls \in Nat /\ MaxFaults \in Nat
    /\ Nobody \notin Runners /\ Nobody \notin Jobs /\ Nobody \notin Runners \X Jobs
    /\ NoJob \notin Jobs

VARIABLES
    status,       \* registry: the status of each row
    published,    \* the closing events a row has published, in order
    owed,         \* jobs whose job.queued event the bus still owes kernel-jobs
    dispatching,  \* dispatches that have read 'queued' and not yet added: <<who, job>>
    bull,         \* the job's state in the queue
    owner,        \* the runner whose queue lock holds an active job
    tries, stalls,\* attemptsMade and the stalled counter of the queue entry
    flag,         \* jobs with the cancel flag in Redis
    canceller,    \* what is left to do of a cancel whose transaction committed
    run,          \* what each runner's slot is doing
    stray,        \* handlers still working after their slot was freed
    lock,         \* the advisory lock of each key: <<runner, job>> or Nobody
    reports,      \* status reports of the engine on their way to the api
    settler,      \* what each settler has read
    did,          \* history: jobs whose handler has returned a result
    busyWith,     \* history: whose work a skipped job found running
    faults

registry == <<status, published>>
queue    == <<bull, owner, tries, stalls>>
vars == <<status, published, owed, dispatching, bull, owner, tries, stalls, flag,
          canceller, run, stray, lock, reports, settler, did, busyWith, faults>>

OPEN_STATUSES == {"queued", "running"}
Closed        == {"succeeded", "failed", "cancelled"}
RowState      == OPEN_STATUSES \cup Closed \cup {"none"}
QueueState    == {"absent", "waiting", "active", "completed", "failed"}
Report        == [kind : {"running", "succeeded", "retry", "failed"}, job : EngineJobs]

Places == {"idle", "lock", "skipped", "start", "check", "work", "returned",
           "threw", "complete", "failing", "flag", "engine"}
Slot     == [at : Places, job : Jobs \cup {NoJob}, tried : 0..MaxAttempts, fatal : BOOLEAN]
Settling == [at : {"idle", "row", "apply"}, job : Jobs \cup {NoJob}, row : RowState,
             seen : QueueState]
Idle       == [at |-> "idle", job |-> NoJob, tried |-> 0, fatal |-> FALSE]
SettleIdle == [at |-> "idle", job |-> NoJob, row |-> "none", seen |-> "absent"]

IsOpen(j)   == status[j] \in OPEN_STATUSES
MyJob(r)    == run[r].job
At(r, p)    == run[r].at = p
Move(r, p, fatal) ==
    run' = [run EXCEPT ![r] = [at |-> p, job |-> run[r].job, tried |-> run[r].tried,
                               fatal |-> fatal]]
Goto(r, p)  == Move(r, p, run[r].fatal)
Rest(r)     == run' = [run EXCEPT ![r] = Idle]
CanRun(r, j) == (r \in EngineRunners) <=> (j \in EngineJobs)

\* Handlers that are at work for job j on runner r, in a slot or left behind.
Working(r, j) == \/ MyJob(r) = j /\ run[r].at \in {"work", "engine"}
                 \/ j \in stray[r]
Init ==
    /\ status = [j \in Jobs |-> "none"] /\ published = [j \in Jobs |-> <<>>]
    /\ owed = {} /\ dispatching = {}
    /\ bull = [j \in Jobs |-> "absent"] /\ owner = [j \in Jobs |-> Nobody]
    /\ tries = [j \in Jobs |-> 0] /\ stalls = [j \in Jobs |-> 0]
    /\ flag = {} /\ canceller = [j \in Jobs |-> "no"]
    /\ run = [r \in Runners |-> Idle] /\ stray = [r \in Runners |-> {}]
    /\ lock = [k \in Keys |-> Nobody]
    /\ reports = {} /\ settler = [s \in Settlers |-> SettleIdle]
    /\ did = {} /\ busyWith = [j \in Jobs |-> Nobody]
    /\ faults = 0

-----------------------------------------------------------------------------
(* The registry.  Every transition leaves an open status only; a closing one  *)
(* publishes its event in the same transaction.                               *)

\* Slip: the outcome is written whatever the row says (before ADR-0172).
CloseAnyway(j, how) ==
    /\ status' = [status EXCEPT ![j] = how]
    /\ published' = [published EXCEPT ![j] = Append(@, how)]

\* finish, fail(final) and the transaction of cancel.
Close(j, how) ==
    \/ /\ IsOpen(j)
       /\ status' = [status EXCEPT ![j] = how]
       /\ published' = [published EXCEPT ![j] = Append(@, how)]
    \/ ~IsOpen(j) /\ UNCHANGED registry

\* start: a late delivery of a closed job changes nothing.
StartRow(j) ==
    /\ status' = [status EXCEPT ![j] = IF IsOpen(j) THEN "running" ELSE @]
    /\ UNCHANGED published

\* fail with final = false: the row waits for the next attempt.
FailAttempt(j) ==
    /\ status' = [status EXCEPT ![j] = IF IsOpen(j) THEN "queued" ELSE @]
    /\ UNCHANGED published

\* requeue: only a row still 'running' goes back.
Requeue(j) ==
    /\ status' = [status EXCEPT ![j] = IF @ = "running" THEN "queued" ELSE @]
    /\ UNCHANGED published

\* JobService.schedule: the row and its job.queued event in one transaction.
Schedule(j) ==
    /\ status[j] = "none"
    /\ status' = [status EXCEPT ![j] = "queued"]
    /\ owed' = owed \cup {j}
    /\ UNCHANGED <<published, dispatching, queue, flag, canceller, run, stray, lock,
                   reports, settler, did, busyWith, faults>>

-----------------------------------------------------------------------------
(* Dispatch: read the row, then add the queue entry under the row's id.       *)

\* kernel-jobs receives job.queued; a row that is not 'queued' needs nothing.
HandleQueued(j) ==
    /\ j \in owed /\ <<"bus", j>> \notin dispatching
    /\ \/ /\ status[j] = "queued"
          /\ dispatching' = dispatching \cup {<<"bus", j>>}
          /\ UNCHANGED owed
       \/ status[j] # "queued" /\ owed' = owed \ {j} /\ UNCHANGED dispatching
    /\ UNCHANGED <<registry, queue, flag, canceller, run, stray, lock, reports,
                   settler, did, busyWith, faults>>

\* Queue.add with jobId: an entry that exists under this id is left alone.
AddToQueue(who, j) ==
    /\ <<who, j>> \in dispatching
    /\ dispatching' = dispatching \ {<<who, j>>}
    /\ owed' = IF who = "bus" THEN owed \ {j} ELSE owed
    /\ \/ /\ bull[j] = "absent"
          /\ bull' = [bull EXCEPT ![j] = "waiting"]
          /\ tries' = [tries EXCEPT ![j] = 0] /\ stalls' = [stalls EXCEPT ![j] = 0]
          /\ UNCHANGED owner
       \/ bull[j] # "absent" /\ UNCHANGED queue
    /\ UNCHANGED <<registry, flag, canceller, run, stray, lock, reports, settler,
                   did, busyWith, faults>>

-----------------------------------------------------------------------------
(* Cancellation: the row first, then the flag, then the queue entry.          *)

\* Slip: the flag is raised although the transaction was rolled back.
CancelFlagsFirst(j) ==
    /\ IsOpen(j) /\ canceller[j] = "no"
    /\ \/ flag' = flag \cup {j} /\ UNCHANGED <<registry, canceller>>
       \/ /\ Close(j, "cancelled") /\ UNCHANGED flag
          /\ canceller' = [canceller EXCEPT ![j] = "signal"]
    /\ UNCHANGED <<owed, dispatching, queue, run, stray, lock, reports, settler, did,
                   busyWith, faults>>

CancelRow(j) ==
    /\ IsOpen(j) /\ canceller[j] = "no"
    /\ Close(j, "cancelled")
    /\ canceller' = [canceller EXCEPT ![j] = "signal"]
    /\ UNCHANGED <<owed, dispatching, queue, flag, run, stray, lock, reports, settler,
                   did, busyWith, faults>>

SignalCancel(j) ==
    /\ canceller[j] = "signal"
    /\ flag' = flag \cup {j}
    /\ canceller' = [canceller EXCEPT ![j] = "remove"]
    /\ UNCHANGED <<registry, owed, dispatching, queue, run, stray, lock, reports,
                   settler, did, busyWith, faults>>

\* bull.remove(): an entry locked by a runner stays, its error is swallowed.
RemoveFromQueue(j) ==
    /\ canceller[j] = "remove"
    /\ canceller' = [canceller EXCEPT ![j] = "no"]
    /\ \/ owner[j] = Nobody /\ bull' = [bull EXCEPT ![j] = "absent"]
       \/ owner[j] # Nobody /\ UNCHANGED bull
    /\ UNCHANGED <<registry, owed, dispatching, owner, tries, stalls, flag, run, stray,
                   lock, reports, settler, did, busyWith, faults>>

-----------------------------------------------------------------------------
(* A slot of a TypeScript worker (runner.ts).                                 *)

Take(r, j) ==
    /\ At(r, "idle") /\ bull[j] = "waiting" /\ CanRun(r, j)
    /\ bull' = [bull EXCEPT ![j] = "active"] /\ owner' = [owner EXCEPT ![j] = r]
    /\ run' = [run EXCEPT ![r] = [at |-> IF j \in EngineJobs THEN "flag" ELSE "lock",
                                  job |-> j, tried |-> tries[j], fatal |-> FALSE]]
    /\ UNCHANGED <<registry, owed, dispatching, tries, stalls, flag, canceller, stray,
                   lock, reports, settler, did, busyWith, faults>>

\* tryJobLock succeeds, or the job has no key.
GetLock(r) ==
    /\ At(r, "lock") /\ Goto(r, "start")
    /\ \/ KeyOf[MyJob(r)] = NoKey /\ UNCHANGED lock
       \/ /\ KeyOf[MyJob(r)] # NoKey /\ lock[KeyOf[MyJob(r)]] = Nobody
          /\ lock' = [lock EXCEPT ![KeyOf[MyJob(r)]] = <<r, MyJob(r)>>]
    /\ UNCHANGED <<registry, owed, dispatching, queue, flag, canceller, stray, reports,
                   settler, did, busyWith, faults>>

LockIsBusy(r) == /\ At(r, "lock") /\ KeyOf[MyJob(r)] # NoKey
                 /\ lock[KeyOf[MyJob(r)]] # Nobody

\* moveToDelayed: the entry waits; a slot that lost the entry leaves it alone.
DeferBusy(r) ==
    /\ LockIsBusy(r) /\ MyJob(r) \in Defers
    /\ Rest(r)
    /\ \/ /\ owner[MyJob(r)] = r
          /\ bull' = [bull EXCEPT ![MyJob(r)] = "waiting"]
          /\ owner' = [owner EXCEPT ![MyJob(r)] = Nobody]
       \/ owner[MyJob(r)] # r /\ UNCHANGED <<bull, owner>>
    /\ UNCHANGED <<registry, owed, dispatching, tries, stalls, flag, canceller, stray,
                   lock, reports, settler, did, busyWith, faults>>

\* The skipped run starts the row ...
SkipBusy(r) ==
    /\ LockIsBusy(r) /\ MyJob(r) \notin Defers
    /\ StartRow(MyJob(r))
    /\ busyWith' = [busyWith EXCEPT ![MyJob(r)] =
                       IF IsOpen(MyJob(r)) THEN lock[KeyOf[MyJob(r)]][2] ELSE @]
    /\ Goto(r, IF IsOpen(MyJob(r)) THEN "skipped" ELSE "complete")
    /\ UNCHANGED <<owed, dispatching, queue, flag, canceller, stray, lock, reports,
                   settler, did, faults>>

\* ... and finishes it as skipped.
FinishSkipped(r) ==
    /\ At(r, "skipped")
    /\ Close(MyJob(r), "succeeded") /\ Goto(r, "complete")
    /\ UNCHANGED <<owed, dispatching, queue, flag, canceller, stray, lock, reports,
                   settler, did, busyWith, faults>>

\* The lock belongs to this run: its session frees it.
MyLock(r, j) == KeyOf[j] # NoKey /\ lock[KeyOf[j]] = <<r, j>>

\* JobService.start decides whether there is anything left to execute.
StartAttempt(r) ==
    /\ At(r, "start") /\ StartRow(MyJob(r))
    /\ \/ IsOpen(MyJob(r)) /\ Goto(r, "check") /\ UNCHANGED lock
       \/ /\ ~IsOpen(MyJob(r)) /\ Goto(r, "complete")
          /\ lock' = [k \in Keys |-> IF k = KeyOf[MyJob(r)] /\ MyLock(r, MyJob(r))
                                     THEN Nobody ELSE lock[k]]
    /\ UNCHANGED <<owed, dispatching, queue, flag, canceller, stray, reports, settler,
                   did, busyWith, faults>>

\* isCancelRequested, then handler.handle: an aborted signal frees the slot at
\* once and leaves the handler to itself.
BeginWork(r) ==
    /\ At(r, "check")
    /\ \/ /\ MyJob(r) \in flag
          /\ stray' = [stray EXCEPT ![r] = @ \cup {MyJob(r)}] /\ Goto(r, "complete")
       \/ MyJob(r) \notin flag /\ Goto(r, "work") /\ UNCHANGED stray
    /\ UNCHANGED <<registry, owed, dispatching, queue, flag, canceller, lock, reports,
                   settler, did, busyWith, faults>>

HandlerReturns(r) ==
    /\ At(r, "work") /\ Goto(r, "returned")
    /\ did' = did \cup {MyJob(r)}
    /\ UNCHANGED <<registry, owed, dispatching, queue, flag, canceller, stray, lock,
                   reports, settler, busyWith, faults>>

\* The handler throws; an UnrecoverableError is not repeated.
HandlerThrows(r, fatal) ==
    /\ At(r, "work")
    /\ Move(r, "threw", fatal)
    /\ UNCHANGED <<registry, owed, dispatching, queue, flag, canceller, stray, lock,
                   reports, settler, did, busyWith, faults>>

\* The time limit or the cancel flag aborts the signal (untilAborted).
AbortWork(r) ==
    /\ At(r, "work")
    /\ stray' = [stray EXCEPT ![r] = @ \cup {MyJob(r)}]
    /\ \/ Goto(r, "threw")
       \/ MyJob(r) \in flag /\ Goto(r, "complete")
    /\ UNCHANGED <<registry, owed, dispatching, queue, flag, canceller, lock, reports,
                   settler, did, busyWith, faults>>

FinishAttempt(r) ==
    /\ At(r, "returned")
    /\ Close(MyJob(r), "succeeded") /\ Goto(r, "complete")
    /\ UNCHANGED <<owed, dispatching, queue, flag, canceller, stray, lock, reports,
                   settler, did, busyWith, faults>>

\* isFinalAttempt, with attemptsMade as it was when the slot took the job.
IsFinalAttempt(r) == run[r].fatal \/ run[r].tried + 1 >= MaxAttempts

ReportFailure(r) ==
    /\ At(r, "threw") /\ Goto(r, "failing")
    /\ \/ IsFinalAttempt(r) /\ Close(MyJob(r), "failed")
       \/ ~IsFinalAttempt(r) /\ FailAttempt(MyJob(r))
    /\ UNCHANGED <<owed, dispatching, queue, flag, canceller, stray, lock, reports,
                   settler, did, busyWith, faults>>

\* BullMQ moves the entry of a slot that still holds it.
QueueCompletes(r) ==
    /\ At(r, "complete") /\ Rest(r)
    /\ \/ /\ owner[MyJob(r)] = r
          /\ bull' = [bull EXCEPT ![MyJob(r)] = "completed"]
          /\ owner' = [owner EXCEPT ![MyJob(r)] = Nobody]
       \/ owner[MyJob(r)] # r /\ UNCHANGED <<bull, owner>>
    /\ UNCHANGED <<registry, owed, dispatching, tries, stalls, flag, canceller, stray,
                   lock, reports, settler, did, busyWith, faults>>

QueueRetriesOrFails(r) ==
    /\ At(r, "failing") /\ Rest(r)
    /\ \/ /\ owner[MyJob(r)] = r
          /\ tries' = [tries EXCEPT ![MyJob(r)] = @ + 1]
          /\ bull' = [bull EXCEPT ![MyJob(r)] =
                        IF run[r].fatal \/ tries[MyJob(r)] + 1 >= MaxAttempts
                        THEN "failed" ELSE "waiting"]
          /\ owner' = [owner EXCEPT ![MyJob(r)] = Nobody]
       \/ owner[MyJob(r)] # r /\ UNCHANGED <<tries, bull, owner>>
    /\ UNCHANGED <<registry, owed, dispatching, stalls, flag, canceller, stray, lock,
                   reports, settler, did, busyWith, faults>>

StrayEnds(r, j) ==
    /\ j \in stray[r]
    /\ stray' = [stray EXCEPT ![r] = @ \ {j}]
    /\ UNCHANGED <<registry, owed, dispatching, queue, flag, canceller, run, lock,
                   reports, settler, did, busyWith, faults>>

\* The slot is still between taking the lock and leaving runLocked.
InLocked(r, j) == MyJob(r) = j /\ run[r].at \in {"start", "check", "work", "returned", "threw"}

\* Slip: the lock is freed with the slot, not with the work.
UnlockWithSlot(r, j) ==
    /\ MyLock(r, j) /\ ~InLocked(r, j)
    /\ lock' = [lock EXCEPT ![KeyOf[j]] = Nobody]
    /\ UNCHANGED <<registry, owed, dispatching, queue, flag, canceller, run, stray,
                   reports, settler, did, busyWith, faults>>

\* holder.work.then(settle, settle): the lock goes when the work has ended,
\* which may be after the slot took another job.
Unlock(r, j) ==
    /\ MyLock(r, j) /\ ~InLocked(r, j) /\ j \notin stray[r]
    /\ lock' = [lock EXCEPT ![KeyOf[j]] = Nobody]
    /\ UNCHANGED <<registry, owed, dispatching, queue, flag, canceller, run, stray,
                   reports, settler, did, busyWith, faults>>

-----------------------------------------------------------------------------
(* A slot of the engine (kchs_engine/worker.py) and its reports over HTTP.    *)

\* _run: a flagged job is not begun; else report_started, then the handler.
EngineBegins(r) ==
    /\ At(r, "flag")
    /\ \/ MyJob(r) \in flag /\ Goto(r, "complete") /\ UNCHANGED reports
       \/ /\ MyJob(r) \notin flag /\ Goto(r, "engine")
          /\ reports' = reports \cup {[kind |-> "running", job |-> MyJob(r)]}
    /\ UNCHANGED <<registry, owed, dispatching, queue, flag, canceller, stray, lock,
                   settler, did, busyWith, faults>>

EngineReturns(r) ==
    /\ At(r, "engine") /\ Goto(r, "complete")
    /\ did' = did \cup {MyJob(r)}
    /\ reports' = reports \cup {[kind |-> "succeeded", job |-> MyJob(r)]}
    /\ UNCHANGED <<registry, owed, dispatching, queue, flag, canceller, stray, lock,
                   settler, busyWith, faults>>

\* An error or the time limit; a PermanentJobError is not repeated.
EngineThrows(r, fatal) ==
    /\ At(r, "engine")
    /\ Move(r, "failing", fatal)
    /\ reports' = reports \cup
         {[kind |-> IF fatal \/ IsFinalAttempt(r) THEN "failed" ELSE "retry",
           job |-> MyJob(r)]}
    /\ UNCHANGED <<registry, owed, dispatching, queue, flag, canceller, stray, lock,
                   settler, did, busyWith, faults>>

\* run_cancellable sees the flag and cancels the task.
EngineAborts(r) ==
    /\ At(r, "engine") /\ MyJob(r) \in flag /\ Goto(r, "complete")
    /\ UNCHANGED <<registry, owed, dispatching, queue, flag, canceller, stray, lock,
                   reports, settler, did, busyWith, faults>>

\* POST /internal/jobs/:id/status, at any later moment.
ApplyReport(m) ==
    \/ m.kind = "running" /\ StartRow(m.job)
    \/ m.kind = "succeeded" /\ Close(m.job, "succeeded")
    \/ m.kind = "failed" /\ Close(m.job, "failed")
    \/ m.kind = "retry" /\ FailAttempt(m.job)

ReceiveReport(m) ==
    /\ m \in reports /\ ApplyReport(m)
    /\ reports' = reports \ {m}
    /\ UNCHANGED <<owed, dispatching, queue, flag, canceller, run, stray, lock, settler,
                   did, busyWith, faults>>

\* The engine gives up after its retries: the queue keeps the outcome.
LoseReport(m) ==
    /\ m \in reports /\ reports' = reports \ {m}
    /\ UNCHANGED <<registry, owed, dispatching, queue, flag, canceller, run, stray,
                   lock, settler, did, busyWith, faults>>

-----------------------------------------------------------------------------
(* Reconciliation (reconcile.ts): read a row, read the queue, then settle.    *)

Settle(s, f) == settler' = [settler EXCEPT ![s] = f]

ReadOpenRow(s, j) ==
    /\ settler[s].at = "idle" /\ IsOpen(j)
    /\ Settle(s, [at |-> "row", job |-> j, row |-> status[j], seen |-> "absent"])
    /\ UNCHANGED <<registry, owed, dispatching, queue, flag, canceller, run, stray,
                   lock, reports, did, busyWith, faults>>

ReadQueueState(s) ==
    /\ settler[s].at = "row"
    /\ Settle(s, [at |-> "apply", job |-> settler[s].job, row |-> settler[s].row,
                  seen |-> bull[settler[s].job]])
    /\ UNCHANGED <<registry, owed, dispatching, queue, flag, canceller, run, stray,
                   lock, reports, did, busyWith, faults>>

\* Slip: only 'running' rows are looked for in the queue.
SettleLostOnly(j, row) ==
    \/ row = "queued" /\ UNCHANGED <<registry, dispatching>>
    \/ row = "running" /\ Close(j, "failed") /\ UNCHANGED dispatching

\* Not in the queue: dispatch again (which reads the row), or give it up.
SettleMissing(j, row) ==
    \/ /\ row = "queued" /\ UNCHANGED registry
       /\ dispatching' = IF status[j] = "queued" THEN dispatching \cup {<<"settler", j>>}
                                                 ELSE dispatching
    \/ row = "running" /\ Close(j, "failed") /\ UNCHANGED dispatching

ApplySettle(s) ==
    LET j == settler[s].job  seen == settler[s].seen  row == settler[s].row
    IN  /\ settler[s].at = "apply"
        /\ Settle(s, SettleIdle)
        /\ \/ seen = "completed" /\ Close(j, "succeeded") /\ UNCHANGED dispatching
           \/ seen = "failed" /\ Close(j, "failed") /\ UNCHANGED dispatching
           \/ seen = "active" /\ UNCHANGED <<registry, dispatching>>
           \/ seen = "waiting" /\ row = "running" /\ Requeue(j) /\ UNCHANGED dispatching
           \/ seen = "waiting" /\ row = "queued" /\ UNCHANGED <<registry, dispatching>>
           \/ seen = "absent" /\ SettleMissing(j, row)
        /\ UNCHANGED <<owed, queue, flag, canceller, run, stray, lock, reports, did,
                       busyWith, faults>>

-----------------------------------------------------------------------------
(* What goes wrong.  Each costs one fault, except BullMQ's own stalled check. *)

StalledCheck(j) ==
    /\ bull[j] = "active" /\ owner[j] = Nobody
    /\ \/ /\ stalls[j] < MaxStalls /\ bull' = [bull EXCEPT ![j] = "waiting"]
          /\ stalls' = [stalls EXCEPT ![j] = @ + 1]
       \/ /\ stalls[j] >= MaxStalls /\ bull' = [bull EXCEPT ![j] = "failed"]
          /\ UNCHANGED stalls
    /\ UNCHANGED <<registry, owed, dispatching, owner, tries, flag, canceller, run,
                   stray, lock, reports, settler, did, busyWith, faults>>

Fault == faults < MaxFaults /\ faults' = faults + 1

\* The process dies: its handlers end and its database sessions close.
Crash(r) ==
    /\ Fault /\ (~At(r, "idle") \/ stray[r] # {})
    /\ Rest(r) /\ stray' = [stray EXCEPT ![r] = {}]
    /\ owner' = [j \in Jobs |-> IF owner[j] = r THEN Nobody ELSE owner[j]]
    /\ lock' = [k \in Keys |-> IF \E j \in Jobs : lock[k] = <<r, j>> THEN Nobody
                                                                   ELSE lock[k]]
    /\ UNCHANGED <<registry, owed, dispatching, bull, tries, stalls, flag, canceller,
                   reports, settler, did, busyWith>>

\* A blocked event loop misses the renewal of its queue lock and works on.
LoseQueueLock(j) ==
    /\ Fault /\ owner[j] # Nobody
    /\ owner' = [owner EXCEPT ![j] = Nobody]
    /\ UNCHANGED <<registry, owed, dispatching, bull, tries, stalls, flag, canceller,
                   run, stray, lock, reports, settler, did, busyWith>>

\* finish throws (the database is away): the catch branch fails the attempt, or
\* takes it for cancelled if the signal has been aborted meanwhile.
FinishThrows(r) ==
    /\ Fault /\ At(r, "returned")
    /\ Goto(r, "threw") \/ (MyJob(r) \in flag /\ Goto(r, "complete"))
    /\ UNCHANGED <<registry, owed, dispatching, queue, flag, canceller, stray, lock,
                   reports, settler, did, busyWith>>

\* tryJobLock, start, fail or the finish of a skipped run throws: nobody catches
\* it, and the queue counts an attempt the registry does not hear of.
AttemptThrows(r) ==
    /\ Fault /\ run[r].at \in {"lock", "skipped", "start", "threw"}
    /\ Move(r, "failing", FALSE)
    /\ lock' = [k \in Keys |-> IF /\ At(r, "start") /\ k = KeyOf[MyJob(r)]
                                  /\ MyLock(r, MyJob(r))
                               THEN Nobody ELSE lock[k]]
    /\ UNCHANGED <<registry, owed, dispatching, queue, flag, canceller, stray, reports,
                   settler, did, busyWith>>

\* job.queued ends in the dead-letter stream of kernel-jobs.
DropQueuedEvent(j) ==
    /\ Fault /\ j \in owed /\ owed' = owed \ {j}
    /\ dispatching' = dispatching \ {<<"bus", j>>}
    /\ UNCHANGED <<registry, queue, flag, canceller, run, stray, lock, reports, settler,
                   did, busyWith>>

\* The queue forgets an entry: cleared, or kept for less than reconciling took.
ForgetEntry(j) ==
    /\ Fault /\ bull[j] # "absent"
    /\ bull' = [bull EXCEPT ![j] = "absent"] /\ owner' = [owner EXCEPT ![j] = Nobody]
    /\ UNCHANGED <<registry, owed, dispatching, tries, stalls, flag, canceller, run,
                   stray, lock, reports, settler, did, busyWith>>

\* The api dies between the transaction of cancel and its last step.
CancelStops(j) ==
    /\ Fault /\ canceller[j] # "no"
    /\ canceller' = [canceller EXCEPT ![j] = "no"]
    /\ UNCHANGED <<registry, owed, dispatching, queue, flag, run, stray, lock, reports,
                   settler, did, busyWith>>

-----------------------------------------------------------------------------
SlotStep(r) ==
    \/ GetLock(r) \/ DeferBusy(r) \/ SkipBusy(r) \/ FinishSkipped(r) \/ StartAttempt(r)
    \/ BeginWork(r) \/ HandlerReturns(r) \/ AbortWork(r) \/ FinishAttempt(r)
    \/ \E fatal \in BOOLEAN : HandlerThrows(r, fatal) \/ EngineThrows(r, fatal)
    \/ ReportFailure(r) \/ QueueCompletes(r) \/ QueueRetriesOrFails(r)
    \/ EngineBegins(r) \/ EngineReturns(r) \/ EngineAborts(r)

JobStep(j) ==
    \/ HandleQueued(j) \/ (\E who \in {"bus", "settler"} : AddToQueue(who, j))
    \/ SignalCancel(j) \/ RemoveFromQueue(j) \/ StalledCheck(j)

SettlerStep(s) == ReadQueueState(s) \/ ApplySettle(s)

FaultStep ==
    \/ \E r \in Runners : Crash(r) \/ FinishThrows(r) \/ AttemptThrows(r)
    \/ \E j \in Jobs : \/ LoseQueueLock(j) \/ DropQueuedEvent(j)
                       \/ ForgetEntry(j) \/ CancelStops(j)

Next ==
    \/ \E j \in Jobs : Schedule(j) \/ CancelRow(j) \/ JobStep(j)
    \/ \E r \in Runners : SlotStep(r)
    \/ \E r \in Runners, j \in Jobs : Take(r, j) \/ StrayEnds(r, j) \/ Unlock(r, j)
    \/ \E m \in reports : ReceiveReport(m) \/ LoseReport(m)
    \/ \E s \in Settlers : SettlerStep(s)
    \/ \E s \in Settlers, j \in Jobs : ReadOpenRow(s, j)
    \/ FaultStep

Spec == Init /\ [][Next]_vars

\* What keeps running: slots, BullMQ, the api's consumers and the reconciling
\* job; a queue is FIFO and the reconciling job visits every open row.
Fairness ==
    /\ \A r \in Runners : WF_vars(SlotStep(r))
    /\ \A j \in Jobs : /\ WF_vars(JobStep(j))
                       /\ SF_vars(\E r \in Runners : Take(r, j))
                       /\ SF_vars(\E s \in Settlers : ReadOpenRow(s, j))
    /\ \A s \in Settlers : WF_vars(SettlerStep(s))
    \* A handler that was aborted ends some day, and its lock with it.
    /\ \A r \in Runners, j \in Jobs : WF_vars(StrayEnds(r, j)) /\ WF_vars(Unlock(r, j))

FairSpec == Spec /\ Fairness

-----------------------------------------------------------------------------
TypeOK ==
    /\ status \in [Jobs -> RowState]
    /\ owed \subseteq Jobs /\ dispatching \subseteq {"bus", "settler"} \X Jobs
    /\ bull \in [Jobs -> QueueState] /\ owner \in [Jobs -> Runners \cup {Nobody}]
    /\ tries \in [Jobs -> 0..MaxAttempts] /\ stalls \in [Jobs -> 0..MaxStalls]
    /\ flag \subseteq Jobs /\ canceller \in [Jobs -> {"no", "signal", "remove"}]
    /\ run \in [Runners -> Slot]
    /\ stray \in [Runners -> SUBSET Jobs]
    /\ lock \in [Keys -> (Runners \X Jobs) \cup {Nobody}]
    /\ reports \subseteq Report /\ did \subseteq Jobs
    /\ settler \in [Settlers -> Settling]
    /\ busyWith \in [Jobs -> Jobs \cup {Nobody}]
    /\ faults \in 0..MaxFaults

\* A job closes once: the events it has published are exactly the status it
\* closed with, however many reports, settlers, slots and cancels raced for it.
ClosesOnce ==
    \A j \in Jobs : published[j] = IF status[j] \in Closed THEN <<status[j]>> ELSE <<>>

\* A job recorded as done was done, or was skipped in favour of a running one;
\* a job with a payload (whenBusy = 'defer') is never skipped.
SucceededWasDone ==
    \A j \in Jobs : status[j] = "succeeded" =>
        j \in did \/ (busyWith[j] # Nobody /\ j \notin Defers)

\* One handler at a time per single-run key, in all processes, also after the
\* time limit or a cancel has freed the slot of the first.
OneWorkPerKey ==
    \A r, q \in Runners, i, j \in Jobs :
        /\ KeyOf[i] # NoKey /\ KeyOf[i] = KeyOf[j]
        /\ Working(r, i) /\ Working(q, j)
        => r = q /\ i = j

\* Every job closes: whatever was lost on the way, the reconciliation finds it.
EveryJobCloses == \A j \in Jobs : status[j] \in OPEN_STATUSES ~> status[j] \in Closed

\* ADR-0172: a timed-out attempt is repeated while attempts remain; a job is
\* therefore skipped as busy only for the work of another job.
SkippedForAnother == \A j \in Jobs : busyWith[j] # j
=============================================================================
