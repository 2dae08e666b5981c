------------------------------ MODULE RuleRuns ------------------------------
(* One run of an automation rule (modules/automation/domain): the row of      *)
(* rule_runs, the queue entries that lead an executor to it, the lease under  *)
(* which it is executed action by action, the pause of a `wait`, and the      *)
(* sweep that finds runs whose entry was lost.                                *)
EXTENDS Naturals, FiniteSets

CONSTANTS
    Executors,      \* attempts of rule.run and of the sweep, one per worker slot
    NoExecutor,
    Actions,        \* how many actions the branch of the rule has
    Waits, Stops,   \* the positions of `wait` and of a conditional `stop`
    RunKeyed,       \* the rule has a dedupe key
    RunFaults,      \* bound on errors, crashes, losses and cancellations
    RunOverruns     \* bound on leases that end while their holder still works

ASSUME RuleRunsAssumption ==
    /\ NoExecutor \notin Executors /\ Actions \in Nat
    /\ Waits \subseteq 0..(Actions - 1) /\ Stops \subseteq 0..(Actions - 1)
    /\ RunKeyed \in BOOLEAN /\ RunFaults \in Nat /\ RunOverruns \in Nat

VARIABLES
    runStatus, finishedAt,  \* the row: its status, and whether finishedAt is set
    resumeAt,               \* the row: the position to continue from
    leaseOwner, leaseLive,  \* the row: who holds it, and leasedUntil > now
    waitOver,               \* waitUntil has passed
    dedupe,                 \* who has the rule's key: free, mine, other
    tickets, delayed,       \* queue entries of this run, ready and delayed
    exec,                   \* what each executor is doing, and its position
    performed,              \* history: the actions that had their effect
    runFaults, overruns

runVars == <<runStatus, finishedAt, resumeAt, leaseOwner, leaseLive, waitOver,
             dedupe, tickets, delayed, exec, performed, runFaults, overruns>>
runRow  == <<runStatus, finishedAt, resumeAt, leaseOwner, leaseLive, waitOver>>
runQueue == <<tickets, delayed>>

RunOpen   == {"queued", "running", "waiting"}
RunClosed == {"succeeded", "failed", "skipped", "repeat"}  \* repeat: skipped by the key
Stages == {"idle", "picked", "claimed", "ready", "acted", "pausing", "resuming", "closing"}
\* The stages in which an executor acts for the run under its lease.
AtWork == {"claimed", "ready", "acted", "pausing", "closing"}

Stands(w, at)     == exec[w].at = at
Go(w, at, next)   == exec' = [exec EXCEPT ![w] = [at |-> at, next |-> next]]
Leave(w)          == Go(w, "idle", 0)
RunFault == runFaults < RunFaults /\ runFaults' = runFaults + 1

RunInit ==
    /\ runStatus = "queued" /\ finishedAt = FALSE /\ resumeAt = 0
    /\ leaseOwner = NoExecutor /\ leaseLive = FALSE /\ waitOver = FALSE
    /\ dedupe \in {"free", "other"} /\ tickets = 1 /\ delayed = 0
    /\ exec = [w \in Executors |-> [at |-> "idle", next |-> 0]]
    /\ performed = {} /\ runFaults = 0 /\ overruns = 0

-----------------------------------------------------------------------------
(* An executor is led to the run by a queue entry or by the sweep; what       *)
(* either of them read is checked again only by the claim.                    *)

TakeTicket(w) ==
    /\ Stands(w, "idle") /\ tickets > 0
    /\ tickets' = tickets - 1 /\ Go(w, "picked", 0)
    /\ UNCHANGED <<runRow, dedupe, delayed, performed, runFaults, overruns>>

\* Slip: a run whose executor died is left to its entry.
StaleUnlessRunning == ~finishedAt /\ (runStatus = "queued" \/ (runStatus = "waiting" /\ waitOver))
\* The runs the sweep takes for stuck; every age limit may have passed.
Stale ==
    /\ ~finishedAt
    /\ \/ runStatus = "queued"
       \/ runStatus = "running" /\ ~leaseLive
       \/ runStatus = "waiting" /\ waitOver

Sweep(w) ==
    /\ Stands(w, "idle") /\ Stale
    /\ Go(w, "picked", 0)
    /\ UNCHANGED <<runRow, dedupe, runQueue, performed, runFaults, overruns>>

\* Slip: the claim looks at the status and not at the lease.
ClaimableByAnyone(w) == runStatus \in RunOpen
Claimable(w) == runStatus \in RunOpen /\ ~leaseLive

\* Slip: the executor starts from the first action.
StartsAtZero(w) == 0
StartsAt(w) == resumeAt

Claim(w) ==
    /\ Stands(w, "picked")
    /\ IF Claimable(w)
       THEN /\ runStatus' = "running" /\ leaseOwner' = w /\ leaseLive' = TRUE
            /\ Go(w, "claimed", StartsAt(w))
            /\ UNCHANGED <<finishedAt, resumeAt, waitOver>>
       ELSE Leave(w) /\ UNCHANGED runRow
    /\ UNCHANGED <<dedupe, runQueue, performed, runFaults, overruns>>

-----------------------------------------------------------------------------
(* The claimed run.  finish writes the row whoever holds it.                  *)

Finish(how) ==
    /\ runStatus' = how
    /\ finishedAt' = (how # "waiting" \/ finishedAt)
    /\ leaseOwner' = NoExecutor /\ leaseLive' = FALSE
    /\ UNCHANGED resumeAt

\* The rule is off or broken, its run_as is refused, the condition is false.
RefuseRun(w) ==
    /\ Stands(w, "claimed")
    /\ \E how \in {"skipped", "failed"} : Finish(how)
    /\ Leave(w)
    /\ UNCHANGED <<waitOver, dedupe, runQueue, performed, runFaults, overruns>>

\* A run from its first action takes the dedupe key before it.
BeginRun(w) ==
    /\ Stands(w, "claimed")
    /\ LET asks == RunKeyed /\ exec[w].next = 0 IN
       IF asks /\ dedupe # "free"
       THEN Finish("repeat") /\ Leave(w) /\ UNCHANGED dedupe
       ELSE /\ dedupe' = IF asks THEN "mine" ELSE dedupe
            /\ Go(w, "ready", exec[w].next)
            /\ UNCHANGED <<runStatus, finishedAt, resumeAt, leaseOwner, leaseLive>>
    /\ UNCHANGED <<waitOver, runQueue, performed, runFaults, overruns>>

Perform(w) ==
    /\ Stands(w, "ready") /\ exec[w].next < Actions
    /\ performed' = performed \cup {exec[w].next}
    /\ Go(w, "acted", exec[w].next)
    /\ UNCHANGED <<runRow, dedupe, runQueue, runFaults, overruns>>

\* The step and the position, if the lease is still this executor's; renewed.
Records(w) ==
    IF leaseOwner = w THEN resumeAt' = exec[w].next + 1 /\ leaseLive' = TRUE
                      ELSE UNCHANGED <<resumeAt, leaseLive>>

RecordStep(w) ==
    /\ Stands(w, "acted")
    /\ Records(w)
    /\ \/ exec[w].next \in Waits /\ Go(w, "pausing", exec[w].next + 1)
       \/ exec[w].next \in Stops /\ Go(w, "closing", exec[w].next + 1)
       \/ exec[w].next \notin Waits /\ Go(w, "ready", exec[w].next + 1)
    /\ UNCHANGED <<runStatus, finishedAt, leaseOwner, waitOver, dedupe, runQueue,
                   performed, runFaults, overruns>>

PauseRun(w) ==
    /\ Stands(w, "pausing")
    /\ runStatus' = "waiting" /\ resumeAt' = exec[w].next /\ waitOver' = FALSE
    /\ leaseOwner' = NoExecutor /\ leaseLive' = FALSE
    /\ Go(w, "resuming", exec[w].next)
    /\ UNCHANGED <<finishedAt, dedupe, runQueue, performed, runFaults, overruns>>

PlanResume(w) ==
    /\ Stands(w, "resuming")
    /\ delayed' = delayed + 1 /\ Leave(w)
    /\ UNCHANGED <<runRow, dedupe, tickets, performed, runFaults, overruns>>

\* Slip: a short branch is taken for done one action early.
AllDoneEarly(w) == exec[w].next + 1 >= Actions
AllDone(w) == exec[w].next >= Actions

Succeed(w) ==
    /\ Stands(w, "closing") \/ (Stands(w, "ready") /\ AllDone(w))
    /\ Finish("succeeded") /\ Leave(w)
    /\ UNCHANGED <<waitOver, dedupe, runQueue, performed, runFaults, overruns>>

\* An action refuses, or a write after it fails: the run fails there.
ActionThrows(w) ==
    /\ \/ Stands(w, "ready") /\ exec[w].next < Actions /\ UNCHANGED runFaults
       \/ exec[w].at \in {"acted", "pausing", "resuming"} /\ RunFault
    /\ Finish("failed") /\ Leave(w)
    /\ UNCHANGED <<waitOver, dedupe, runQueue, performed, overruns>>

-----------------------------------------------------------------------------
(* Faults and time.                                                           *)

Requeued == tickets' \in {tickets, tickets + 1}

\* An error outside the actions: the lease is given back (unless that fails
\* too) and the job is tried again while it has attempts.
ErrorOutside(w) ==
    /\ exec[w].at \notin {"idle", "picked"} /\ RunFault
    /\ \/ leaseOwner = w /\ leaseOwner' = NoExecutor /\ leaseLive' = FALSE
       \/ UNCHANGED <<leaseOwner, leaseLive>>
    /\ Requeued /\ Leave(w)
    /\ UNCHANGED <<runStatus, finishedAt, resumeAt, waitOver, dedupe, delayed,
                   performed, overruns>>

\* The process dies: its entry is delivered again, or is given up as stalled.
ExecutorDies(w) ==
    /\ ~Stands(w, "idle") /\ RunFault /\ Requeued /\ Leave(w)
    /\ UNCHANGED <<runRow, dedupe, delayed, performed, overruns>>

\* The queue is cleared.
LoseEntries ==
    /\ tickets + delayed > 0 /\ RunFault
    /\ tickets' = 0 /\ delayed' = 0
    /\ UNCHANGED <<runRow, dedupe, exec, performed, overruns>>

\* A job of the run is cancelled, or failed for good: failOpen.
JobClosed ==
    /\ runStatus \in RunOpen /\ RunFault
    /\ runStatus' = "failed" /\ finishedAt' = TRUE
    /\ UNCHANGED <<resumeAt, leaseOwner, leaseLive, waitOver, dedupe, runQueue,
                   exec, performed, overruns>>

LeaseEnds ==
    /\ leaseLive /\ leaseLive' = FALSE
    /\ IF \E w \in Executors : leaseOwner = w /\ exec[w].at \in AtWork
       THEN overruns < RunOverruns /\ overruns' = overruns + 1
       ELSE UNCHANGED overruns
    /\ UNCHANGED <<runStatus, finishedAt, resumeAt, leaseOwner, waitOver, dedupe,
                   runQueue, exec, performed, runFaults>>

WaitElapses ==
    /\ (runStatus = "waiting" /\ ~waitOver) \/ delayed > 0
    /\ waitOver' = TRUE
    /\ tickets' = tickets + delayed /\ delayed' = 0
    /\ UNCHANGED <<runStatus, finishedAt, resumeAt, leaseOwner, leaseLive, dedupe,
                   exec, performed, runFaults, overruns>>

\* The window of the key ends, or another event of the rule takes the key.
KeyMoves ==
    /\ RunKeyed
    /\ dedupe' = IF dedupe = "free" THEN "other" ELSE "free"
    /\ UNCHANGED <<runRow, runQueue, exec, performed, runFaults, overruns>>

RunWork(w) == \/ Claim(w) \/ RefuseRun(w) \/ BeginRun(w) \/ Perform(w)
              \/ RecordStep(w) \/ PauseRun(w) \/ PlanResume(w) \/ Succeed(w)
              \/ ActionThrows(w)

RunNext ==
    \/ \E w \in Executors : \/ TakeTicket(w) \/ Sweep(w) \/ RunWork(w)
                            \/ ErrorOutside(w) \/ ExecutorDies(w)
    \/ LoseEntries \/ JobClosed \/ LeaseEnds \/ WaitElapses \/ KeyMoves

\* A worker finishes what it holds, entries are taken, the sweep runs every
\* five minutes, time passes.
RunFairness ==
    /\ \A w \in Executors : WF_runVars(RunWork(w))
    /\ WF_runVars(\E w \in Executors : TakeTicket(w))
    /\ WF_runVars(\E w \in Executors : Sweep(w))
    /\ WF_runVars(WaitElapses)
    /\ WF_runVars(LeaseEnds /\ overruns' = overruns)
RunSpec == RunInit /\ [][RunNext]_runVars
RunFairSpec == RunSpec /\ RunFairness

-----------------------------------------------------------------------------
Positions == 0..Actions
RunTypeOK ==
    /\ runStatus \in RunOpen \cup RunClosed /\ finishedAt \in BOOLEAN
    /\ resumeAt \in Positions
    /\ leaseOwner \in Executors \cup {NoExecutor} /\ leaseLive \in BOOLEAN
    /\ waitOver \in BOOLEAN /\ dedupe \in {"free", "mine", "other"}
    /\ tickets \in Nat /\ delayed \in Nat
    /\ exec \in [Executors -> [at : Stages, next : Positions]]
    /\ performed \subseteq 0..(Actions - 1)
    /\ runFaults \in 0..RunFaults /\ overruns \in 0..RunOverruns

\* While no action outlasts the lease, two executors never work on one run:
\* a repeated job, the sweep and the continuation of a wait are all refused
\* (ADR-0228, RuleRuns.claim).
OneExecutor ==
    overruns = 0 =>
        \A v, w \in Executors : exec[v].at \in AtWork /\ exec[w].at \in AtWork => v = w

\* An action recorded as done is not done again by a repeat, however the
\* attempts before it ended (ADR-0228: "сделанное не повторяет").
RecordedNotRepeated ==
    [][overruns = 0 => \A w \in Executors :
            Perform(w) => exec[w].next >= resumeAt]_runVars

\* A run that is called succeeded had the effect of every action before a stop,
\* whichever executors it went through.
SucceededDidAll ==
    runStatus = "succeeded" =>
        \A i \in 0..(Actions - 1) :
            i \in performed \/ \E s \in Stops : s < i /\ s \in performed

\* Every run comes to an end, though entries are lost, executors die and the
\* second one finds the lease of the first: unless it was closed while it was
\* being executed and then paused, after which the sweep no longer sees it.
RunEnded == runStatus \in RunClosed \/ finishedAt
RunEnds == <>[]RunEnded

\* A run is not left waiting for ever (module.ts: "запуск не остаётся
\* «выполняется» или «ждёт» навсегда").
NeverLeftOpen == <>[](runStatus \in RunClosed)

\* A `wait` is continued when its moment has come, and not before.
WaitIsKept == [][runStatus = "waiting" /\ runStatus' = "running" => waitOver]_runVars

\* The key that silences a run as a repeat belongs to another run: an attempt
\* that broke off before its first action is continued, not silenced.
KeyIsForOthers == [][runStatus' = "repeat" /\ runStatus # "repeat" => dedupe = "other"]_runVars

(* What makes them inductive.                                                 *)

\* Done, or cut off by a stop before it.
Covered(i) == i \in performed \/ \E s \in Stops : s < i /\ s \in performed

\* What an executor has behind it is covered; a stop that was reached covers
\* the rest.
BehindIsCovered ==
    /\ \A i \in 0..(Actions - 1) : i < resumeAt => Covered(i)
    /\ \A w \in Executors :
        /\ exec[w].at \in AtWork =>
                \A i \in 0..(Actions - 1) : i < exec[w].next => Covered(i)
        /\ Stands(w, "acted") => exec[w].next \in performed
        /\ Stands(w, "closing") => \A i \in 0..(Actions - 1) : Covered(i)

\* The executor at work holds the lease, or the run was closed under it; and
\* stands where the row stands or further.
WorkIsLeased ==
    overruns = 0 =>
        \A w \in Executors : exec[w].at \in AtWork =>
            /\ runStatus \in RunClosed \/ (leaseOwner = w /\ leaseLive)
            /\ exec[w].next >= resumeAt

RunInv == RunTypeOK /\ BehindIsCovered /\ SucceededDidAll /\ OneExecutor /\ WorkIsLeased
=============================================================================
