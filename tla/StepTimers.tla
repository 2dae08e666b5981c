----------------------------- MODULE StepTimers -----------------------------
(* The timers of the steps of one route (kernel/process/timers.ts, engine.ts, *)
(* timer-schedule.ts, subscribers.ts): reminders and the deadline of a        *)
(* decision step, the term of a wait step, the delayed job for the nearest    *)
(* moment, the sweep over the rows, and the answers, events and cancellations *)
(* that close the same steps.  Every transition holds the instance's row      *)
(* FOR UPDATE; what a job or a signal read before it is checked again there.  *)
EXTENDS Naturals, FiniteSets, FiniteSetsExt

CONSTANTS
    Route,          \* how many steps the route has, one after another
    WaitSteps,      \* the steps that wait for a term or for an event
    Offset,         \* Offset[k]: when timer k is due after the activation
    TimerFaults,    \* bound on lost, repeated and early jobs
    NoMoment        \* a null moment

TimerKinds == {"remind", "overdue", "wait"}
RouteSteps == 1..Route
KindsOf(s) == IF s \in WaitSteps THEN {"wait"} ELSE {"remind", "overdue"}

ASSUME StepTimersAssumption ==
    /\ Route \in Nat \ {0} /\ WaitSteps \subseteq 1..Route /\ TimerFaults \in Nat
    /\ Offset \in [TimerKinds -> Nat] /\ NoMoment \notin Nat

VARIABLES
    route,          \* running, completed or cancelled
    stage,          \* the status of each step's activation
    timer,          \* timer[s][k]: its moment, and whether firedAt is set
    nextTimer,      \* nextTimerAt of each step; NoMoment when it is null
    timerJobs,      \* the delayed jobs: <<step, moment>>
    signals,        \* wait steps an event's handler has found waiting
    clock, timerFaults,
    fires,          \* history: how often each timer has had its effect
    outcomes        \* history: how often each step has been completed

timerVars == <<route, stage, timer, nextTimer, timerJobs, signals, clock, timerFaults,
               fires, outcomes>>

NoTimer == [at |-> NoMoment, fired |-> FALSE]
NoTimers == [k \in TimerKinds |-> NoTimer]
ActiveStep(s) == route = "running" /\ stage[s] = "active"

\* A reminder whose moment has passed is not set; a deadline or a term is.
TimersFrom(s, now) ==
    [k \in TimerKinds |->
        IF k \in KindsOf(s) /\ (k = "remind" => Offset[k] > 0)
        THEN [at |-> now + Offset[k], fired |-> FALSE] ELSE NoTimer]

Unfired(t) == {t[k].at : k \in {x \in TimerKinds : t[x].at # NoMoment /\ ~t[x].fired}}
NextTimerAt(t) == IF Unfired(t) = {} THEN NoMoment ELSE Min(Unfired(t))

\* A job is scheduled when the nearest moment of an active step has changed;
\* its key is the step and the moment.
Planned(s, next) == IF next # NoMoment /\ next # nextTimer[s] THEN {<<s, next>>} ELSE {}

TimersInit ==
    /\ route = "running" /\ clock = 0
    /\ stage = [s \in RouteSteps |-> IF s = 1 THEN "active" ELSE "none"]
    /\ timer = [s \in RouteSteps |-> IF s = 1 THEN TimersFrom(1, 0) ELSE NoTimers]
    /\ nextTimer = [s \in RouteSteps |-> IF s = 1 THEN NextTimerAt(TimersFrom(1, 0)) ELSE NoMoment]
    /\ timerJobs = {<<1, at>> : at \in {NextTimerAt(TimersFrom(1, 0))} \ {NoMoment}}
    /\ signals = {} /\ timerFaults = 0
    /\ fires = [s \in RouteSteps |-> [k \in TimerKinds |-> 0]]
    /\ outcomes = [s \in RouteSteps |-> 0]

\* The step is completed and the next one entered: its timers and their job.
Complete(s, fired, rest) ==
    LET entered == {n \in RouteSteps : n = s + 1} IN
        /\ stage' = [n \in RouteSteps |-> IF n = s THEN "completed"
                        ELSE IF n \in entered THEN "active" ELSE stage[n]]
        /\ timer' = [n \in RouteSteps |-> IF n = s THEN fired
                        ELSE IF n \in entered THEN TimersFrom(n, clock) ELSE timer[n]]
        /\ nextTimer' = [n \in RouteSteps |-> IF n = s THEN NoMoment
                        ELSE IF n \in entered THEN NextTimerAt(TimersFrom(n, clock))
                        ELSE nextTimer[n]]
        /\ timerJobs' = rest \cup UNION {Planned(n, NextTimerAt(TimersFrom(n, clock))) : n \in entered}
        /\ route' = IF entered = {} THEN "completed" ELSE route
        /\ outcomes' = [outcomes EXCEPT ![s] = @ + 1]

\* A participant's answer decides a decision step.
AnswerStep(s) ==
    /\ ActiveStep(s) /\ s \notin WaitSteps
    /\ Complete(s, timer[s], timerJobs)
    /\ UNCHANGED <<signals, clock, timerFaults, fires>>

\* The event a wait step waits for: found unlocked, completed under the lock.
ReadSignal(s) ==
    /\ stage[s] = "active" /\ s \in WaitSteps /\ s \notin signals
    /\ signals' = signals \cup {s}
    /\ UNCHANGED <<route, stage, timer, nextTimer, timerJobs, clock, timerFaults, fires, outcomes>>

\* Slip: the step is completed because it was found waiting.
StillWaitsAsRead(s) == route = "running"
StillWaits(s) == stage[s] = "active"

TakeSignal(s) ==
    /\ s \in signals /\ signals' = signals \ {s}
    /\ IF StillWaits(s)
       THEN Complete(s, timer[s], timerJobs)
       ELSE UNCHANGED <<route, stage, timer, nextTimer, timerJobs, outcomes>>
    /\ UNCHANGED <<clock, timerFaults, fires>>

\* The initiator, an administrator, or the object moved to the trash.
CancelRoute ==
    /\ route = "running" /\ route' = "cancelled"
    /\ stage' = [s \in RouteSteps |-> IF stage[s] = "active" THEN "cancelled" ELSE stage[s]]
    /\ nextTimer' = [s \in RouteSteps |-> IF stage[s] = "active" THEN NoMoment ELSE nextTimer[s]]
    /\ UNCHANGED <<timer, timerJobs, signals, clock, timerFaults, fires, outcomes>>

\* Slip: whatever is due has its effect, fired before or not.
DueAgain(s) == {k \in TimerKinds : timer[s][k].at # NoMoment /\ timer[s][k].at <= clock}
Due(s) == {k \in DueAgain(s) : ~timer[s][k].fired}

\* Slip: the moment is cleared when it has come.
MomentCleared(s, fired) == NoMoment
\* What is left to come of an active step.
MomentAfter(s, fired) == IF stage[s] = "active" THEN NextTimerAt(fired) ELSE NoMoment

\* fireStepTimers, for the job or for the sweep; `rest` is the queue without
\* the job that runs.
Fire(s, rest) ==
    LET due == IF ActiveStep(s) THEN Due(s) ELSE {}
        fired == [k \in TimerKinds |-> IF k \in due THEN [timer[s][k] EXCEPT !.fired = TRUE]
                                                    ELSE timer[s][k]]
        next == MomentAfter(s, fired)
    IN  /\ fires' = [fires EXCEPT ![s] = [k \in TimerKinds |->
                        IF k \in due THEN @[k] + 1 ELSE @[k]]]
        /\ IF "wait" \in due
           THEN Complete(s, fired, rest)
           ELSE /\ timer' = [timer EXCEPT ![s] = fired]
                /\ nextTimer' = [nextTimer EXCEPT ![s] = next]
                /\ timerJobs' = rest \cup Planned(s, next)
                /\ UNCHANGED <<route, stage, outcomes>>
        /\ UNCHANGED <<signals, clock>>

\* The job is taken when its delay is over, or a tick early (clocks differ); a
\* repeat of it stays in the queue.
TimerJob(j) ==
    /\ j \in timerJobs
    /\ \E early \in {0, 1}, kept \in SUBSET {j} :
        /\ j[2] <= clock + early
        /\ timerFaults' = timerFaults + early + Cardinality(kept) /\ timerFaults' <= TimerFaults
        /\ Fire(j[1], (timerJobs \ {j}) \cup kept)

JobLost(j) ==
    /\ j \in timerJobs /\ timerFaults < TimerFaults
    /\ timerJobs' = timerJobs \ {j} /\ timerFaults' = timerFaults + 1
    /\ UNCHANGED <<route, stage, timer, nextTimer, signals, clock, fires, outcomes>>

\* The sweep: active steps whose nearest moment has passed.
SweepTimers(s) ==
    /\ stage[s] = "active" /\ nextTimer[s] # NoMoment /\ nextTimer[s] <= clock
    /\ Fire(s, timerJobs) /\ UNCHANGED timerFaults

\* Time passes while somebody waits for a moment to come.
Tick ==
    /\ \E s \in RouteSteps, k \in TimerKinds :
            ActiveStep(s) /\ timer[s][k].at # NoMoment /\ timer[s][k].at > clock
    /\ clock' = clock + 1
    /\ UNCHANGED <<route, stage, timer, nextTimer, timerJobs, signals, timerFaults, fires, outcomes>>

TimersNext ==
    \/ \E s \in RouteSteps : AnswerStep(s) \/ ReadSignal(s) \/ TakeSignal(s) \/ SweepTimers(s)
    \/ \E j \in timerJobs : TimerJob(j) \/ JobLost(j)
    \/ CancelRoute \/ Tick

\* Time passes and the sweep runs; a job may be lost, an answer may not come.
TimersFairness ==
    /\ WF_timerVars(Tick)
    /\ \A s \in RouteSteps : WF_timerVars(SweepTimers(s))
TimersSpec == TimersInit /\ [][TimersNext]_timerVars
TimersFairSpec == TimersSpec /\ TimersFairness

-----------------------------------------------------------------------------
Timer == [at : Nat \cup {NoMoment}, fired : BOOLEAN]
TimersTypeOK ==
    /\ route \in {"running", "completed", "cancelled"}
    /\ stage \in [RouteSteps -> {"none", "active", "completed", "cancelled"}]
    /\ timer \in [RouteSteps -> [TimerKinds -> Timer]]
    /\ nextTimer \in [RouteSteps -> Nat \cup {NoMoment}]
    /\ timerJobs \subseteq RouteSteps \X Nat /\ signals \subseteq WaitSteps
    /\ clock \in Nat /\ timerFaults \in 0..TimerFaults
    /\ fires \in [RouteSteps -> [TimerKinds -> Nat]] /\ outcomes \in [RouteSteps -> Nat]

\* A step ends once: by its answer, its event, its term or a cancellation,
\* whichever of them came to the lock first; and one step is active at most.
OneOutcome ==
    /\ \A s \in RouteSteps : outcomes[s] <= 1 /\ (stage[s] = "cancelled" => outcomes[s] = 0)
    /\ \A s, t \in RouteSteps : stage[s] = "active" /\ stage[t] = "active" => s = t

\* No reminder, escalation or term comes twice, though its job is repeated,
\* early or lost and the sweep runs beside it.
FiresOnce == \A s \in RouteSteps, k \in TimerKinds : fires[s][k] <= 1

\* nextTimerAt, by which alone a lost job is made good, is the nearest moment
\* that has not fired while the step is active, and nothing after it.
NearestIsPlanned ==
    \A s \in RouteSteps :
        nextTimer[s] = IF stage[s] = "active" THEN NextTimerAt(timer[s]) ELSE NoMoment

\* Every timer of a step fires, unless the step ends first: none is left
\* behind by a lost job or by a job that came before its moment.
AllFired ==
    \A s \in RouteSteps, k \in TimerKinds :
        ActiveStep(s) /\ timer[s][k].at # NoMoment => timer[s][k].fired
TimersFire == <>[]AllFired

\* What makes the invariants inductive: the steps are entered in their order,
\* each once, and a timer has fired as often as its mark says.
StepsInOrder ==
    /\ \A s \in RouteSteps : stage[s] = "active" => \A t \in RouteSteps : t > s => stage[t] = "none"
    /\ \A s \in RouteSteps : stage[s] # "completed" => outcomes[s] = 0
    /\ \A s, t \in RouteSteps : stage[s] = "none" /\ s < t => stage[t] = "none"
    /\ \A s \in RouteSteps : stage[s] = "active" => route = "running"
MarksCount ==
    \A s \in RouteSteps :
        /\ stage[s] = "none" => timer[s] = NoTimers
        /\ \A k \in TimerKinds : fires[s][k] = IF timer[s][k].fired THEN 1 ELSE 0
TimersInv == TimersTypeOK /\ StepsInOrder /\ OneOutcome /\ MarksCount /\ NearestIsPlanned
=============================================================================
