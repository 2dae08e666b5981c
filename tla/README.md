# A formal model of kchs

kchs is a work platform for a public organisation: a registry of objects with
access control, and on it documents, tasks, data, maps, mail, meetings and their
processes. The server is one TypeScript program (`src/apps/api`) that runs in several
copies and roles (API, worker), a Python service (`src/apps/engine`) for heavy work, Postgres
for state, Redis for streams and queues, and an S3 store for files.

This directory holds TLA+ modules for the parts of it whose correctness
depends on order, failure and repetition, the TLC configurations that check them
and proofs that TLAPS checks. Paths below are relative to the repository; `kernel/` means
`src/apps/api/src/kernel/`, `modules/` means `src/apps/api/src/modules/`.

## 1. Inventory

Each row: what the part keeps, what is done to it, whom it talks to, what is hard, and
what has to be true of it. `PROJECT.json` lists the same parts with their state in this project
and each hazard at its line.

| part | state | operations | interacts with | hard because | has to be true |
|---|---|---|---|---|---|
| **Event bus** `kernel/events` | outbox rows (Postgres), one Redis stream per domain with a consumer group per subscriber, processing marks, dead letters | publish in the caller's transaction, dispatch, read, reclaim, handle, mark, acknowledge, dead-letter, return, trim, delete old rows and marks | every module publishes and subscribes | several dispatchers and replicas, crashes between any two steps, reclaiming from a replica that is only slow, trimming while groups move | nothing published is forgotten; a mark stops later deliveries; trimming removes nothing needed |
| **Background jobs** `kernel/jobs`, `kchs_engine/worker.py` | registry row (Postgres), queue entry and its lock (BullMQ in Redis), cancellation flag, advisory lock of single-run jobs | schedule, dispatch, take, run, retry, report, cancel, settle | bus (`job.queued`), engine (HTTP reports), all modules | three places know the outcome and tell it at different times; time limits free a slot while its work goes on; queue locks expire | a job closes once, its status is true, single-run work is single, every job closes |
| **Process machine** `src/packages/process` | instance: round, runs of steps, entries of people | activate, assign, decide, add, delegate, reassign, complete, cancel | called by the process engine under a row lock | long sequences of legal calls: quorum over a changing list, queue, hand-overs, rounds, branches and joins | the outcome is what the answers say, an answer stands, the step never waits for nobody |
| **Process engine** `kernel/process` | instances, steps, timers, waits | start, act, work after a transition, timers, sweep, module events | machine, inbox, bus, jobs | a timer, an event and an answer for one step at the same moment | one outcome per step, a due timer fires once |
| **Inbox** `kernel/inbox` | items with a key, deputy copies | open, resolve, act, snooze, wake | process engine, tasks, notifications | an item is answered while its cause is closed | one open item per key, none left open after its cause |
| **Notifications** `kernel/notifications` | notifications, deliveries per channel | create, group, deliver, quiet hours, retry | bus, mail, push, telegram | repeated events, channels that fail | not lost, not sent twice by one channel |
| **Acknowledgments** `kernel/acknowledgments` | lists and answers | start, answer, remind, close | processes, inbox | the list changes while people answer | closes when and only when everybody answered |
| **Schedules** `kernel/schedules` | declared jobs, switched-off keys, repeatable jobs of the queue | declare, synchronise, switch, run now | jobs | replicas synchronise with answers of different age | the queue follows the table |
| **Collaborative editing** `kernel/collab` | Yjs documents in memory and in Postgres | open, change, store, recheck access | access control, realtime | two processes hold one document | no change is lost by storing |
| **Realtime** `kernel/realtime` | sockets, presence | subscribe, signal | bus, access control | best effort | access is rechecked |
| **Access control** `kernel/access` | grants, breaks of inheritance, share links | grant, revoke, break, restore, authorize, list, index | every request | inheritance along a tree; one object, lists and the search index each have a query of their own | the three agree with the tree; what a break changes is named |
| **Objects, spaces, links, tags** `kernel/objects` … | registry rows | create, move, trash, restore | every module | subtree operations | a trashed subtree is trashed and restored whole |
| **File storage** `kernel/storage`, `modules/files` | upload sessions, versions | begin, upload, complete, abort, prune | S3 | two stores without a common transaction | no version without its object in the store |
| **Documents** `modules/documents` | documents, journals, numbers | register, reserve, route, archive | processes, files, access | concurrent registration | no number twice, no gap |
| **Automation** `modules/automation` | rules, runs with leases | match, queue, claim, execute, wait, resume | bus, jobs | a lease that expires under a working executor, repeats, lost entries, rules that wake rules | one executor at a time, what is recorded is not repeated, every run ends |
| **Identity** `modules/identity` | sessions, one-time tokens, second factors | log in, renew, revoke | every request | one-time tokens used twice | a token is used once |
| **Tasks, calendar, data, alerts, chat, mail, knowledge, forms, reports, gis, integrations …** `modules/*` | records of their domain | one transaction per request, jobs and subscribers | bus, jobs | mostly what the bus and the jobs already are | — |
| **Engine** `src/apps/engine` | none of its own but jobs in hand | data, rendering, media, signing, AI | jobs | see jobs | see jobs |
| **Web client, query language, shared packages** | — | — | — | pure functions and screens | — |

## 2. Plan

In this order, the parts whose failures reach furthest first:

1. `EventBus` with its promise `Delivery` - written, proved.
2. `Jobs`, which the bus starts and the engine reports to - written, proved.
3. `DecisionStep`, one decision step of a process - written, proved.
4. `ParallelRoute`, the route around such a step - written, proved.
5. `StepTimers` and `Inbox`, what the process engine keeps beside a route - written, proved.
6. `RuleRuns` (automation), `Numbering` (journals), `Uploads` (files), `SharedDocument`
   (collaborative editing), one module each - written, proved.
7. `Access`, inheritance along the tree with its three queries - written, proved.

Next, in this order:

8. `Trash`: a subtree that is trashed, restored and purged while parts of it are moved
   or trashed by themselves; over the tree of `Access`.
9. `WebhookDelivery`: rows of deliveries against their queue entries, the streak of failures that
   switches a webhook off (see section 7 for what reading it has shown).
10. `ScheduleSync` and the runs recorded when they start (`ensureRecord`), beside `Jobs`.
11. Refinement: a step of `ParallelRoute`, which is only decided or cancelled, by `DecisionStep`.

## 3. Modules

| module | what it is |
|---|---|
| `Delivery` | the promise of the bus: an event that was committed is owed to each subscriber until handled, dead-lettered or quarantined |
| `EventBus`, `EventBusInductive`, `EventBus_proofs` | the bus as the code runs it, the strengthened invariant `IndInv`, its proof and what follows |
| `Jobs`, `JobsInductive`, `Jobs_proofs` | the same three for the jobs |
| `DecisionStep`, `DecisionStepInductive`, `DecisionStep_proofs` | a decision step of a process, through rounds, with its `StepInv` |
| `ParallelRoute`, `ParallelRouteInductive`, `ParallelRoute_proofs` | the steps of a whole route: branches, joins, conditions, returns; `RouteInv`, what holds between two moves of a transition; its proof |
| `StepTimers`, `Inbox` | timers of the steps of a route; one case of the inbox, with a deputy |
| `RuleRuns` | one run of an automation rule |
| `SharedDocument`, `Uploads`, `Numbering` | a document edited together, in several processes; one upload session; the numbers of a journal |
| `Services_proofs` | the proofs about these six modules |
| `Access`, `Access_proofs` | grants, breaks of inheritance, moves, and who may see what |
| `LeastNumber` | what stands in for induction in the proofs: numbers have a least, those below a bound a greatest, and a function defined step by step keeps what each step keeps |
| `MCEventBus`, `MCJobs`, `MCDecisionStep` | values for the constants of the runs |
| `MCServices`, `MCServices_proofs` | the modules from `ParallelRoute` on, side by side, and the proof that this implements each of them |

The services of `MCServices` share nothing but the bus and the jobs, whose promises
(an event comes at least once, a job may be repeated, late or lost to a sweep) each module takes as its own
actions. So `MCServices` works one of them at a time: its variable `part` is chosen in the initial
state and stays, and the variables of the others do not move. No behaviour is lost by that, and
no product of their states is built.

Operators preceded by a comment `Slip:` are not part of a specification. Each is what
the definition after it would be with a mistake a programmer could have made there; replacing the
definition by its slip makes TLC report the property it is paired with in `PROJECT.json`.
They show that a property depends on the code it is about.

### 3.1 EventBus

One stream stands for one event domain (domains share only the outbox). A *replica* is a
process with one dispatcher and one worker loop per subscriber; a *worker* is the pair
<<replica, group>>.

| variables | code |
|---|---|
| `outbox`, `attempts` | rows of `ops.outbox` and their refusals (`schema.ts`, `publisher.ts`) |
| `held`, `unsent`, `sent`, `refused` | the dispatcher's transaction (`dispatcher.ts`) |
| `stream`, `lo` | entries of the stream, the id of an entry being its position; what XTRIM left |
| `delivered`, `pending` | last-delivered-id and pending list of each consumer group |
| `step`, `batch`, `cur`, `seen` | a worker's loop: where it is, its batch, its entry, the marks it read (`consumer.ts`) |
| `marks` | `ops.event_consumptions` |
| `dlq`, `dlqTop`, `retry`, `resent` | dead letters and those being returned (`streams.ts`) |
| `aged`, `trim`, `trims` | the retention job (`streams.ts`) |
| `done`, `known`, `buried` | history for the properties, not in the code |

Actions follow the code's awaits: every call to Postgres or Redis that another process can
come between is a step of its own (`SelectRows`, `XaddAccepted`, `XaddRefused`, `XaddSystemic`, `XaddUnanswered`,
`CommitRows`; `ReadGroup`, `ReclaimStale`, `CheckProcessed`, `HandleReturns`, `HandleThrows`,
`MarkProcessed`, `AckEntry`, `SendToDlq`; `RetryRead`, `RetryXadd`, `RetryXdel`; `TrimStart`,
`TrimGroup`, `TrimCut`). `Crash` of a replica rolls its transaction back and forgets
its batches; it is then running again. `WorkerAborts` is a lost connection in mid-batch.
The reply to each command of a pipeline is judged by itself, as in `dispatcher.ts:54-78`: `XaddRefused` and `XaddUnanswered`
charge the row an attempt, the second for any row whose reply is missing or is another error, whether or not Redis has added
the entry; `XaddSystemic` charges nothing; `DispatchFails` is the pipeline or the database throwing as a whole, which rolls the
pass back. A healthy row can so end in quarantine, at the price of as many faults as a row has attempts; `OutboxDrains` says it, and
`ChargesArePaid` of the invariant counts it.
`ReclaimStale` takes pending entries from a consumer that is dead for free, and from one
that is alive but slow at the price of a fault.

Abstracted: payloads (an event is a number), the size limits and the hard cap of the stream
(`MaxEntries` is below it), batching across domains, groups added by a later version (all
groups exist, having read nothing, when the model starts).

### 3.2 Jobs

| variables | code |
|---|---|
| `status`, `published` | the row in `ops.jobs` and the closing events published with it (`service.ts`) |
| `owed`, `dispatching` | `job.queued` still to be handled; a dispatcher between reading the row and adding to the queue |
| `bull`, `owner`, `tries`, `stalls` | the queue's entry, who holds its lock, attempts and stalls used |
| `run` | each slot: where in `runner.ts` (or `worker.py`) it is, its job and attempt |
| `stray`, `lock` | handlers still at work after their slot was freed; advisory locks (`exclusive.ts`) |
| `flag`, `canceller` | the cancellation flag and who is cancelling (`cancellation.ts`) |
| `reports` | reports of the engine on their way (`api.py`, `internal-http.ts`) |
| `settler` | queue events and the reconciliation, which read the row, then the queue, then write (`reconcile.ts`, `outcomes.ts`) |
| `did`, `busyWith` | history: the handler was completed; whose work a skipped run found |

Abstracted: the grace periods of the reconciliation and its two-hour limit (a settler may look at
any open row at any time, which allows more than the code), idempotency keys, recurring runs
recorded when they start, progress, priorities, pruning. A process has one slot, and
strays of one job in one process count as one. Reports arrive in any order, late or
never. Not modelled: the database session of an advisory lock breaking while its
process lives.

### 3.3 DecisionStep

| variables | code (`src/packages/process/src/machine.ts`) |
|---|---|
| `step` | the step's definition |
| `at` | the instance: at the step (`review`), at the author (`back`), past the step (`onward`), over |
| `round`, `previous` | `state.round` and the entries of the step's run in the round before |
| `resolved`, `entries`, `outcome` | the step's run |

Every action is one exported transition (`assignStep`, `decideStep`, `addStepAssignee`,
`delegateStep`, `reassignStep` with and without a person to replace, `cancelProcess`) or the author's answer on the `return`
step. The kernel calls them under the lock of the instance's row and a call that throws is
rolled back, so each is atomic and its errors are guards. The directory may give another list in every
round. Abstracted: names, comments, deadlines, the substitution of a person by a
deputy (the answer is the person's all the same), and the rest of the route.
`AddedBefore` picks the approvers a round takes over by their positions, without the code's check for a name that is
twice among them: `OnePerPerson` of the round before, which is proved, leaves no such name.

### 3.4 ParallelRoute

`instance` is the state of a route (`machine.ts`): its status, its round, its runs in the order of their activation -
the key, the status, the round, the parent run and branch - and the work a transition left. The code's methods call
each other; the calls still to be made are two more fields, which are empty between transitions: `after`, the completed run
to go on after (`advanceAfter`), and `opens`, the steps to activate (`activate`). A *move* (`MakeCall`) makes one of these calls or takes the next
work, and `Apply` makes moves until nothing is left. `Definition` is a
process definition as `validate.ts` lets it through (`DefinitionAssumption`). One action is one call of the engine:
`StartProcess`, `DecideStep`, `CompleteStep`, `CancelProcess`, each with the work it leaves
(`engine.ts:281`), first in first out, under whatever conditions evaluate to (`holds`) and whichever
steps end at once (`atOnce`): an automatic step whose handler does not wait, an acknowledgment with nobody to ask, an
approval that is carried over whole. `ActivateRun`, `AdvanceAfter`, `Negative`, `Conclude` are the methods of the
same names. A step is decided as a whole here; how people get there is `DecisionStep`. Abstracted: a task or a notice with people is
resolved and run in two turns of the queue in the code and in one here; the code's two limits, on activations and on work, are one bound on the
moves of a transition, `MovesBound`, and a transition that needs more is refused, as the code throws and rolls back.

### 3.5 StepTimers

| variables | code (`kernel/process`) |
|---|---|
| `route`, `stage` | the instance and the status of each step's activation |
| `timer`, `nextTimer` | `timers` and `next_timer_at` of the step's row (`timer-schedule.ts`) |
| `timerJobs` | delayed jobs `process.timer`, keyed by step and moment |
| `signals` | wait steps that an event's handler has found waiting and not yet locked (`subscribers.ts:275-298`) |
| `clock`, `fires`, `outcomes` | time; history: effects of each timer, completions of each step |

Every transition holds the row of the instance; what was read before it is read again inside. A job may be lost
(`JobLost`), repeated or early (`TimerJob`); the sweep (`SweepTimers`) goes by `next_timer_at` alone. The route is a row of
steps. Business calendars are the offsets of the timers.

### 3.6 Inbox

One person is asked by a step, a deputy has a copy of the item while a delegation lasts. Openings, delegations and snoozes
are counted together, and `MaxCalls` bounds them; `MaxNews` bounds the events of the delegation that wait for the subscriber.
`syncDeputyCopies` reads the scope, the originals and the copies in three statements and then writes: `SyncBegin`, `SyncOriginals`, `SyncCopies`,
`SyncCommit`, each seeing what is committed by then. A copy has a number so that a synchronisation closes the row it has read and no
later one; `FreshCopy` is a number that no synchronisation remembers, as a new row has a new id.

| variables | code (`kernel/inbox/service.ts`, `process/engine.ts`, `directory/delegation-service.ts`) |
|---|---|
| `pending`, `engine` | the step awaits the answer; the transaction of the engine that opens or closes the case |
| `item`, `copyNo` | the newest rows of the person and of the deputy |
| `grant`, `news` | the delegation and its events not yet handled |
| `syncing` | the two runs of `syncDeputyCopies`, by the subscriber and by the job, between their reads and their write |
| `pressed` | buttons checked and not yet executed |
| `stray` | history: closed items that a snooze took out |

### 3.7 RuleRuns

| variables | code (`modules/automation/domain`) |
|---|---|
| `runStatus`, `finishedAt`, `resumeAt`, `leaseOwner`, `leaseLive`, `waitOver` | the row of `rule_runs` (`runs.ts`) |
| `dedupe` | who holds the rule's key |
| `tickets`, `delayed` | queue entries of this run |
| `exec` | each executor: where in `executeClaimed` it is and at which action |
| `performed` | history: actions that had their effect |

Executors are led to the run by an entry, a repeat, the continuation of a wait or the sweep; the claim is one
statement. `ErrorOutside` is an exception outside an action, `ExecutorDies` the death of the process,
`LoseEntries` a cleared queue, `JobClosed` a job that failed for good or was cancelled; `LeaseEnds` under a working executor is
counted in `overruns`, which the properties name.

### 3.8 SharedDocument, Uploads, Numbering

`SharedDocument`: `stored`, `hasRow` are the row (`collab/store.ts`), `doc` each process's Yjs document - a set of edits - with
whether it must be saved, `saving` a save between `FOR UPDATE` and its upsert. The debounce of Hocuspocus and
its unloading are modelled from how `server.ts` uses them.

`Uploads`: `session` is the row, `parts` and `object` the S3 store, `caller` each request to complete the
session between its awaits (`file-service.ts:326-395`), `pruner` the clean-up, `recorded` the versions in the registry.

`Numbering`: `status` of the documents, `lastSeq` the committed counter and `counterOf` the transaction that holds its
row, `reservation` and `registered` the rows, `reg` each registration between its first lock and its commit or roll-back.

### 3.9 Access

| variables | code |
|---|---|
| `parent`, `accessMode` | `objects.parent_id`, `objects.access_mode` |
| `depth` | `object_ancestors`, the table `rebuildSubtreeAncestors` keeps (`objects/service.ts:620`) |
| `acl` | `acl_entries` of a person: the level, and whether it holds for ever, until later, or no more |
| `role` | the person's role in the space, named by its default level |
| `RoleGives` (constant) | the level each role gives: `settings.roleLevels` of the space, or the default (`authorize.ts:341-343`); the settings are written when the space is created and not afterwards |

`EffectiveLevel` is `effectiveLevel` (`authorize.ts`), `ShownInLists` is `visibleObjectsSql`, `IndexedFor` is
`readPrincipalsFor`; `BreakInheritance` is `setAccessMode` with the copies, `SetMode` without. `MayView` is the reference: it goes by
`Line`, the smallest set of objects that is closed under going up to the parent, and knows nothing of the table. Not in it: confidentiality, share links, policies of types and attachments, which are
added to each of the three answers by code of their own; groups, which are more principals of one person.

An entry has a level 0 to 4, 0 being `none`, which the contract (`packages/contracts/src/access/acl.ts`) and `grantAccess` accept; what a role gives may be
anything from `none` to `owner`. So the three queries differ, as in the code: the check of one object goes by the level, a list shows an
object to whom any entry in force or role reaches, the index drops entries of level `none` and keeps roles. `AnswersAgree` states for each of the
three what it answers over the tree; `OneAnswerButNone`, which is proved, that they are one answer for everybody whom no level `none` reaches.
`CopiedRole` is what a break copies, the default level of the role and not what the space gives it
(`acl-service.ts:200-204`); `BreakKeepsAccess` says how far a level may change by that.

## 4. Runs

| run | what it shows | size |
|---|---|---|
| `bus_faults` | two replicas of a subscriber, a fault, retention reading the groups while they move: nothing published is lost, marked events are not handled again, only acknowledged entries are trimmed, a second copy costs a fault; and every owed event is settled in the end | one event, three entries, one of them old, one trim, one fault |
| `bus_dlq` | two subscribers; dead letters returned while marks are deleted, or a row Redis refuses beside one it takes: `EventBus` implements `Delivery`, only the subscriber that failed sees the returned event, the outbox empties though a reply is lost or a state of Redis refuses a row; `IndInv` | two events, three entries, one fault in a pass, which is all a row's attempts (`OutboxMaxAttempts = 1`) |
| `bus_crash_loop` | *violation*, see findings | |
| `jobs_engine` | two engine slots, queue events, reconciliation, cancel, one fault: closes once, truthfully; `IndInv` | one job, two attempts |
| `jobs_single` | two jobs under one key, one that defers and one that skips: never two handlers at work | two workers, one fault |
| `jobs_live` | every job closes, two faults | one job |
| `jobs_skip_self` | *violation*, see findings | |
| `step_rounds` | every kind of step, all changes of the list, a return and a re-approval: answers stand, hand-overs are answered, the outcome comes exactly when the answers have decided it, somebody is always asked, nobody twice; and `StepInv`, from which all of this is proved | three people, three entries, two rounds, quorums all, 1, 2 |
| `step_rejecter`, `step_added` | *violations*, see findings | two people, four entries |
| `services` | the parts of `MCServices`, below | |
| `rules_own_key` | *violation*, see findings | one executor's attempt, one error |

What `services` asks of each part:

| part | properties | bounds |
|---|---|---|
| rules | `OneExecutor`, `SucceededDidAll`, `RecordedNotRepeated`; `EveryRunEnds` | two executors, two actions (a wait, a stop), one fault, one lease outrun |
| inbox | `CaseMatchesStep`, `OneAnswer`; `CopiesFollow` | three openings, delegations and snoozes in all, one event of the delegation waiting |
| timers | `OneOutcome`, `FiresOnce`; `EveryTimerFires` | three steps, the second a wait, one lost or repeated job |
| document | `StoredStays`; `EditsReachTheRow` | two processes, three edits, one crash or failed save |
| uploads | `OneFileWithItsObject` | three requests, two repeats |
| numbers | `OneNumberEach`, `NoNumberLost` | two documents, three transactions, three numbers |
| route | `RouteIsWhole` | a condition, a fan with an inner `any` and a deeper `all`, a return, two rounds, at most 40 moves a transition |
| access | `AnswersAgree`, `BreakKeepsAccess` | three objects in every tree they form, one person; an entry of level `none` and one with a term, given to one object at a time beside the copies of breaks (`EntriesBound`); a role with its default level and one that the space gives `none` |

`ServicesInv` is the conjunction of the inductive invariants, of section 5, of all eight parts.

**Bounds.** Two replicas or slots are what it takes for one to be slow, dead or reclaimed
from; two attempts are what it takes to tell a retry from a last attempt; three stream entries
hold an event, its second copy and a returned dead letter. Faults are counted
because every one of them can be followed by a complete recovery; two of
them (`bus_crash_loop`, `jobs_live`, uploads) allow a failure during the recovery from the first, and
the proofs of section 5 hold for any number. In a decision step three people
and three entries allow a hand-over and its return, an addition or a replacement by two, beside
answers in any order; two rounds are enough because a round only looks at the one before
it. Three calls in the inbox are an opening, a delegation and a snooze in any order, or a second opening or delegation beside two of
them. The route of part `route` has each join, refusal and return once at the place where it meets
another, its second round meets the runs of the first, and no transition of it needs 40 moves. Three objects make every line with a break above, on and
below the object in question, and every move of a branch with something in it; one person
is enough because no rule relates two people. The second executor, process or transaction is the one that comes in between;
a third registration is the one that waits while two hold counter and reservation.
People are interchangeable in `step_rounds`, and slots in `jobs_engine`
and `jobs_single`, so TLC looks at one of each set of permuted states. Every cfg switches the deadlock check off where
the system may rest: loops that only poll change nothing, and closed jobs, finished routes and
completed sessions take no more calls.

**Fairness.** `EventBus!FairSpec`: weak fairness of each dispatcher and worker loop, which
`setInterval` and the `while (!stopped)` loop give; none for faults, administrators or
maintenance. `LettersAndRowsSpec` has the same fairness and asks two questions in one run (`RetriesOrPoison`): only publishing, the
return of a dead letter and faults after the first entry, none of which is owed, are held back. `Jobs!FairSpec`: weak fairness of the slots, of the dispatch by the bus and of the stalled
check; strong fairness of taking a waiting entry and of looking at an open row, since entries come
and go between the polls of BullMQ and of the reconciliation, which repeat for ever;
and that an aborted handler ends some day (`StrayEnds`), which nothing in the code
enforces and which is an assumption about handlers. `RunFairness`: an executor goes on with what it holds, entries are
taken, the sweep (every five minutes) finds what it may, leases and waits run out. `InboxFairness`: open transactions end, events of a delegation are
handled, the five-minute job and the expiry run. `TimersFairness`: time passes and the sweep runs; no answer and no job is owed, so what is
shown rests on the sweep. `DocumentFairness`: transactions end, and the save of a changed document is strongly fair because the debounce has an
upper limit of ten seconds, and another process's save may hold the row at any one moment.
`ServicesFairness` is the conjunction of the last four, each while its part is at work. `DecisionStep`, `ParallelRoute`, `Uploads`, `Numbering` and `Access` have
none: people need not answer or ask.

## 5. Proofs

`EventBus_proofs` proves for all sets of events, subscribers, replicas and all limits:
`TypeCorrect`, `TrimSafe` (`TrimKeepsUnacked`) and `NothingLost` (`NoEventLost`), each from
`Invariance` (`Spec => []IndInv`). Neither property is inductive alone. `NoEventLost`
counts an event as safe if it is handled, unacknowledged or dead-lettered, and an entry about to be
acknowledged as dead-lettered and a letter about to be deleted must not be counted on: `TravelledIsSolid` says
the event is safe without them, `MarkedIsDone` that a duplicate is acknowledged only if
handled, `RetrierShape` that a letter is deleted only once its copy is in the stream. `TrimKeepsUnacked`
needs `TrimBelowUnacked`: the floor the job is computing already lies below what the groups it has looked at
need, and what it remembers of the others is not ahead of them. `IdsInRange` ties batches, cursors and
pending lists to the stream. `MarkedNotRerun` (`NoRerunOfMarked`) rests on `BatchIsRead`: the marks a worker has read stay
with it until it handles, and its batch holds entries addressed to its group. `RetryIsAddressed` (`RetryWakesOnlyItsSubscriber`) rests on `LettersAreBuried`: a copy for one
subscriber was, at some time, a dead letter of that subscriber. `CopiesPaid` (`OneCopyPerFault`) counts: `CopiesArePaid` allows
as many copies as faults, and one more only once a row is taken over, which `RowsInOneHand` says one dispatcher can do at a time; `ChargesArePaid` counts the attempts of a row that Redis does not refuse.

`PromiseKept` is the refinement: `Spec => DeliversAtLeastOnce`, where `DeliversAtLeastOnce` is the safety part of
`Delivery` under the mapping `owed <- Owed`, `done <- DonePairs`, `dead <- DeadPairs`, `parked <- Parked`.
`PublishEvent` commits, `HandleReturns` handles, `SendToDlq` buries, `RetryXadd` and `RetryXdel` return a
letter; every other action lets pairs go that are handled or dead already, parks a row, or changes nothing the promise sees. That a pair is
never let go otherwise, and a letter never deleted before its copy is owed, is `NoEventLost` and what makes it inductive; `OnlyCommittedTravel` says that what
is handled or buried was committed. Assumptions used: those stated in `EventBus` on the constants.

`Jobs_proofs` proves for all sets of jobs, slots, settlers and keys and all limits:
`JobsTypeCorrect`, `JobsCloseOnce` (`ClosesOnce`), `JobsSucceedTruly` (`SucceededWasDone`) and
`JobsSingleRun` (`OneWorkPerKey`), each from `JobsInvariance`. `SucceededWasDone` needs a
statement for each place a success passes through before the row says it: the slot, the
report, the queue's entry, the settler that has read it (`DoneSlot`, `DoneReport`, `DoneEntry`,
`DoneSettler`, `DoneRow`); a cancelled handler may complete its entry because the row is then closed
(`FlagAfterRow`: the flag never precedes the row). `OneWorkPerKey` needs `WorkHoldsLock`:
whoever works, in a slot or as a stray, holds the lock of the key.

`DecisionStep_proofs` proves for all sets of people, all definitions of a step, all answers of the directory and any
number of entries and rounds: `QueueNeverStops` (`SomebodyIsAsked`), `NobodyTwice` (`OnePerPerson`), `EarlyOutcomeStands`
(`EarlyOutcomeIsFinal`), `WaitingHasAReason` (`WaitingIsWorthwhile`), `HandedOverCounts` (`HandedOverIsAnswered`) and
`AnswersAreKept` (`AnswersStand`), each from `StepInvariant` (`Spec => []StepInv`). `StepInv` says of the list
what always holds - the states fit the kind of step, no person has two live entries, whoever a question was handed to is in the
list (`Standing`) - and of a step that waits that somebody is being asked and that the outcome is open (`Waits`). None of
the properties is inductive without the others: that a hand-over leaves the outcome open needs that the newcomer takes no
part yet, that the queue can always move needs that no entry but those of a queue is ever `waiting`. The argument runs over
lists in three steps. *Spliced*: a list into which another is put has a place for every entry of either, so the counts add up,
whatever the position (`SplicedCount`). *Restated*: entries that only change their state keep people and
positions. Then every handler is shown to keep `More`: as many live entries are added as open
ones, and no approval comes or goes, so an undecided step stays undecided (`MoreUndecided`: the quorum grows by no
more than those who can still approve). What a conclusion cancels is counted in `OutcomeIsFinal`. What `carryOver` takes from the round before is
a list without repeats (`AddedBeforeIs`) whatever `Approvers` is: nothing is assumed of it, as it is recursive.

`Access_proofs` proves for all trees, people and levels, with moves, for every level an entry may have and whatever a space makes of its
roles: `AccessTyped` (`AccessInv`: `object_ancestors` is the table of the
tree), `QueriesFollowTheTree` (`AnswersAgree`), `OneAnswerEverywhere` (`OneAnswerButNone`) and `BreakChangesNoLevel` (`BreakKeepsAccess`). `TableIsTree` says row by row what
the table is - an object's row is its parent's, one further -, `AncestorsAdd` and `AncestorsInLine` what follows for whole lines,
`MoveKeepsTree` that deleting and inserting the links of a moved branch is right. `ScopeIsLine`
shows that the scope cut from the table at the nearest break is `Line`, which knows of parents only; each query is then a
formula over it, and a role counts exactly where the line has no break (`RoleCountsOnLine`). A break splits every scope that reaches the broken object (`BreakSplitsScope`), and the copies carry over
what was above (`BreakLevels`); the exceptions the property names are a role that does not give its default level and a person whose own entry was over.

`ParallelRoute_proofs` proves for every definition that `DefinitionAssumption` admits - branches within branches to any depth, any joins -
and any bounds: `RouteInvariance` (`RouteInv`) and from it `RoutesAreWhole` (`RouteIsWhole`). What `RouteIsWhole` says holds between transitions and
is broken within one: a join is due and not yet passed, a branch has its step completed and the next not begun. `BetweenMoves` says what holds
between two moves instead: every line that goes on stands at exactly one step, counting the active run, the run to go on after and the step
still to be opened (`OneAtATime`); only the run to go on after may have made its join due (`JoinsOpen`); what is to be opened is the first step of its branch that has
no run (`OpensInPlace`). When no call is left, this is `RouteIsWhole`. There are four ways from one machine to the next, and each is a lemma on
its own, with the code's methods mapped onto them: a run is *passed on* after (`PassedOn`: a step is completed), everything
is *cleared up* (`ClearedUp`: the end, a refusal that goes elsewhere), a step is *entered* (`Entered`), a *branch goes on* (`BranchGoesOn`), with
the passing of a join as its last case (`JoinPasses`). That the runs a join cancels are all that is active below it (`DescendantsAreBelow`) is
shown for the one pass over the runs in their order: a run is later than its parent, so an active run below that the pass
missed would have an earlier one above it that it missed too, and so on without end (`NoDescent`).

The services, for all values of their constants, all in `Services_proofs`, each from the inductive invariant its own module ends with:

| module | theorems | what makes the property inductive |
|---|---|---|
| `RuleRuns` | `RunInvariance`; `RunsAreExclusive` (`OneExecutor`), `SuccessMeansDone` (`SucceededDidAll`), `RecordedStays` (`RecordedNotRepeated`) | `WorkIsLeased`: an executor at work holds a live lease or the run was closed under it, and stands where the row stands or further; `BehindIsCovered`: what lies behind a position was done or cut off by a stop |
| `Inbox` | `InboxInvariance`; `ItemsFollowTheStep` (`CaseMatchesStep`), `AnsweredOnce` (`OneAnswer`) | `EngineInv`: every question asked, or about to be, is paid for by an opening until it is answered; the closing transaction holds the person's row |
| `StepTimers` | `TimersInvariance`; `StepsEndOnce` (`OneOutcome`), `TimersFireOnce` (`FiresOnce`), `MomentsAreKept` (`NearestIsPlanned`) | `StepsInOrder`: each step is entered once; `MarksCount`: a timer fired as often as its mark says |
| `SharedDocument` | `DocumentInvariance`; `SavedIsKept` (`StoredStays`) | `SaveInv`: a save holds the row and has merged it; it assumes that the row exists |
| `Uploads` | `UploadInvariance`; `UploadGivesOneFile` (`OneFileWithItsObject`) | `RequestsInv`: how far a request has come says what is in the store and in the registry |
| `Numbering` | `NumberingInvariance`; `NumbersAreUnique` (`OneNumberEach`), `NumbersHaveNoGap` (`NoNumberLost`) | `InProgress`: what a registration has in its hands, and that no other has it |

`MCServices_proofs` puts them together. `ServicesImplementEach`: `ServicesSpec` implements the specification of each of the eight parts, since a step is
a step of one of them and leaves the variables of the others alone. So what is proved of each by itself holds of all: `ServicesInvariance`
(`ServicesInv`), `ServicesAreSafe` (every safety property that the run `services` checks, but one) and, where the row of a document exists,
`ServicesKeepWhatIsStored` (`StoredStays`, that one).

Where a proof would go by induction - along the line of ancestors, over the ranks of positions, up from a branch to the top - it takes the least number for
which the claim fails, which `LeastNumber` provides. What a function defined by steps keeps (the moves of a
transition) follows the same way, from what one step keeps (`StepByStep`).

Model-checked only: what is temporal under fairness, which is out of the provers' reach (`DeliversPromptly`,
`OutboxDrains`, `EveryJobCloses`, `EveryRunEnds`, `CopiesFollow`, `EveryTimerFires`, `EditsReachTheRow`). That `Apply` needs no more than `MovesBound` moves is
no theorem either, as it is false of some definitions: conditions may lead back to each other. `RouteInv` speaks of the transitions that the bound
lets through. Every invariant and every other action property of the passing runs is proved.

## 6. Findings

- **An event that kills its process is delivered for ever** (`bus_crash_loop`). Attempts are judged only
  when the handler throws (`kernel/events/consumer.ts:286`), while the comment at line 305 expects the
  dead-letter stream after `maxAttempts`. In the run the process dies twice with the entry in its batch, before the handler is entered, and the
  handler is entered for the third delivery where `maxAttempts` is 2; a death inside the handler is counted, and judged, the same.
- **A timed-out single-run job skips itself** (`jobs_skip_self`). The handler keeps its lock past the time
  limit; the retry finds the key busy with its own first attempt and is recorded as succeeded
  (`kernel/jobs/runner.ts:147`), where ADR-0172 says the attempt is repeated.
- **A rejecter is counted as having approved** (`step_rejecter`). A hands the question to B, B adds A back, B
  approves, A rejects. In the next round `carryOver` counts A through B's approval and, B not
  being in the list, the step is approved with nobody asked (`machine.ts:369`; ADR-0079:55 says the rejecters decide).
- **An added approver who had not answered is dropped** (`step_added`). `carryOver` skips cancelled
  entries (`machine.ts:387`); the comment above it and ADR-0079 say the added approvers stay.
- **A run is silenced as a repeat of itself** (`rules_own_key`). The dedupe key is claimed in a row that does not know the
  run (`runs.ts:271`, `runner.ts:268`); an attempt that breaks off outside an action before its first one is recorded finds its own key taken
  when it is repeated, and the run is recorded as skipped, where `runner.ts:173` says that the repeat continues.

Seen while modelling, stated in the modules or here, with no run of their own:

- `RuleRuns!NeverLeftOpen`: a run closed by `JobClosed` while it is being executed and then paused is left `waiting` with
  `finished_at` set, and the sweep does not look at it; hence `RunEnded` counts either. `RuleRuns!WaitIsKept`: a repeat, or an entry of before the pause,
  may continue a `wait` before its moment.
- `Inbox!NoItemReopens`: snoozing one item does not look at its state (`inbox/service.ts:561`), so a closed one comes back; the exception is
  `stray` in `CaseMatchesStep`. `Inbox!CopiesEnd`: a copy may outlive the delegation when its synchronisation read before the stop and writes after it.
- `SucceededDidAll` counts a conditional stop whose condition does not hold as performed: the code records it as a step with status `skipped` and goes on behind it.
- With `RowExists = FALSE` neither `StoredStays` nor `EditsReachTheRow` of `SharedDocument` holds: `FOR UPDATE` of a row that is not there
  locks nothing, and the second of two first saves overwrites the other. Rows are created with their object, except for objects older than shared editing.
- Access: a break of inheritance copies the default level of a role, not the one that `settings.roleLevels` of the space gives it (`acl-service.ts:200-204`
  against `authorize.ts:341-343`), so where the two differ people lose or gain a level at a break. The comment at `acl-service.ts:207` says «Ничего не исчезает: у принципала
  остаётся максимальный из действовавших уровней», `docs/02-architecture/03-access-model.md:71` that what is effective is copied; `BreakKeepsAccess` names
  the case (`asDefault`) and bounds it. No test sets `roleLevels`, and its levels are any text to the contract (`packages/contracts/src/spaces/space.ts:17`).
- Bus: a row is charged an attempt for a reply that was lost, though the comment at `dispatcher.ts:27-28` says that an unreachable Redis costs none, and it may be
  quarantined while its entry is in the stream and delivered. Whether a connection that breaks shows as one exception or as an error of each command is the client library's.
- Access: an own entry whose term is over swallows the copy at a break (`acl-service.ts:219`; the conflict keeps the old
  `expires_at`), a copy of an entry with a term has none, and a grant of level `none`, which the contract admits,
  shows an object in lists that then opens as not found (`visibleObjectsSql` looks at no level), as a role of level `none` does there and in
  the index; `AnswersAgree` states it so. Two moves at once are kept apart by nothing (`objects/service.ts:306`): each checks the ancestors before the other's are
  written, so that two objects can each end under the other although line 308 refuses a move into one's own branch. `Access` takes a move as one step.

## 7. Not modelled

Left out of the parts that are modelled: section 3 and the notes in `PROJECT.json` say what. Webhook deliveries are planned
(section 2); reading them has shown a row left pending when the process dies before its job is queued, and a late failing
attempt that overwrites a delivered one. The other parts of section 1 without a module are screens, schemas and
dictionaries, which have no behaviour to check; the query compiler, geometry, rendering
and recurrence, pure computation over data too large for an enumeration; or, as backup, mail, push,
telegram and AI, sequences of calls to external services. They make up most of the repository's lines. `PROJECT.json` says so for each.
