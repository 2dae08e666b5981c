---------------------------- MODULE JobsInductive ----------------------------
(* The invariants of Jobs strengthened until every step preserves them.       *)
EXTENDS Jobs

\* A record says of a job that it was done, or rightly skipped.
WasDone(j) == j \in did \/ (busyWith[j] # Nobody /\ j \notin Defers)
\* A job for which nothing is left to be done: 'completed' in the queue is true.
Over(j)    == WasDone(j) \/ status[j] \in Closed

\* Whoever is about to write, or to let others conclude, that a job succeeded.
DoneRow     == \A j \in Jobs : status[j] = "succeeded" => WasDone(j)
DoneEntry   == \A j \in Jobs : bull[j] = "completed" => Over(j)
DoneSlot    == \A r \in Runners :
                  /\ run[r].at \in {"skipped", "returned"} => WasDone(run[r].job)
                  /\ run[r].at = "complete" => Over(run[r].job)
DoneReport  == \A m \in reports : m.kind = "succeeded" => WasDone(m.job)
DoneSettler == \A s \in Settlers :
                  settler[s].at = "apply" /\ settler[s].seen = "completed"
                    => Over(settler[s].job)

\* The flag follows the cancelling transaction, never precedes it.
FlagAfterRow ==
    \A j \in Jobs : j \in flag \/ canceller[j] # "no" => status[j] \in Closed

\* A slot that works has a job of its own kind, a settler a job it has read.
BusyHasJob ==
    /\ \A r \in Runners : run[r].at # "idle" => run[r].job \in Jobs
    /\ \A r \in Runners : run[r].at \in {"flag", "engine"} => run[r].job \in EngineJobs
    /\ \A s \in Settlers : settler[s].at # "idle" => settler[s].job \in Jobs

\* Only a row that exists is dispatched, queued and taken.
Scheduled ==
    /\ \A who \in {"bus", "settler"}, j \in Jobs :
          <<who, j>> \in dispatching => status[j] # "none"
    /\ \A j \in Jobs : bull[j] # "absent" => status[j] # "none"
    /\ \A r \in Runners : run[r].at # "idle" => status[run[r].job] # "none"

\* BullMQ: only an active entry is locked, and one that will run has attempts left.
QueueShape ==
    \A j \in Jobs : /\ owner[j] # Nobody => bull[j] = "active"
                    /\ bull[j] \in {"waiting", "active"} => tries[j] < MaxAttempts

\* The lock of a key is held by whoever works, or is between lock and unlock;
\* a run that is about to start has left no work of an earlier run behind.
WorkHoldsLock ==
    \A r \in Runners, j \in Jobs :
        /\ KeyOf[j] # NoKey
        /\ InLocked(r, j) \/ j \in stray[r]
        => lock[KeyOf[j]] = <<r, j>> /\ ~(At(r, "start") /\ MyJob(r) = j /\ j \in stray[r])

IndInv ==
    /\ TypeOK /\ BusyHasJob /\ Scheduled /\ QueueShape
    /\ ClosesOnce /\ FlagAfterRow
    /\ DoneRow /\ DoneEntry /\ DoneSlot /\ DoneReport /\ DoneSettler
    /\ WorkHoldsLock
=============================================================================
