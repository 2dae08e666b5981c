----------------------------- MODULE Jobs_proofs -----------------------------
(* Machine-checked theorems about Jobs, for every number of jobs, runners,    *)
(* settlers, attempts and faults.                                             *)
EXTENDS JobsInductive, TLAPS

USE JobsAssumption DEF OPEN_STATUSES, Closed, RowState, QueueState

\* Every step keeps the types, given that busy slots have a job.
LEMMA StepTyped ==
    TypeOK /\ BusyHasJob /\ QueueShape /\ [Next]_vars => TypeOK'
<1> SUFFICES ASSUME TypeOK, BusyHasJob, QueueShape, [Next]_vars PROVE TypeOK'
  OBVIOUS
<1> USE DEF TypeOK, registry, queue
<1>1. ASSUME NEW j \in Jobs, Schedule(j) PROVE TypeOK'
  <2>1. status' \in [Jobs -> RowState]
    BY <1>1 DEF Schedule
  <2>2. owed' \subseteq Jobs
    BY <1>1 DEF Schedule
  <2> QED
    BY <1>1, <2>1, <2>2 DEF Schedule
<1>2. ASSUME NEW j \in Jobs, HandleQueued(j) PROVE TypeOK'
  <2>1. owed' \subseteq Jobs
    BY <1>2 DEF HandleQueued
  <2>2. dispatching' \subseteq {"bus", "settler"} \X Jobs
    BY <1>2 DEF HandleQueued
  <2> QED
    BY <1>2, <2>1, <2>2 DEF HandleQueued
<1>3. ASSUME NEW who \in {"bus", "settler"}, NEW j \in Jobs, AddToQueue(who, j) PROVE TypeOK'
  <2>1. dispatching' \subseteq {"bus", "settler"} \X Jobs
    BY <1>3 DEF AddToQueue
  <2>2. owed' \subseteq Jobs
    BY <1>3 DEF AddToQueue
  <2>3. bull' \in [Jobs -> QueueState]
    BY <1>3 DEF AddToQueue, queue
  <2>4. tries' \in [Jobs -> 0..MaxAttempts]
    BY <1>3 DEF AddToQueue, queue
  <2>5. stalls' \in [Jobs -> 0..MaxStalls]
    BY <1>3 DEF AddToQueue, queue
  <2> QED
    BY <1>3, <2>1, <2>2, <2>3, <2>4, <2>5 DEF AddToQueue
<1>4. ASSUME NEW j \in Jobs, CancelRow(j) PROVE TypeOK'
  <2>1. status' \in [Jobs -> RowState]
    BY <1>4 DEF CancelRow, Close
  <2>2. canceller' \in [Jobs -> {"no", "signal", "remove"}]
    BY <1>4 DEF CancelRow
  <2> QED
    BY <1>4, <2>1, <2>2 DEF CancelRow
<1>5. ASSUME NEW j \in Jobs, SignalCancel(j) PROVE TypeOK'
  <2>1. flag' \subseteq Jobs
    BY <1>5 DEF SignalCancel
  <2>2. canceller' \in [Jobs -> {"no", "signal", "remove"}]
    BY <1>5 DEF SignalCancel
  <2> QED
    BY <1>5, <2>1, <2>2 DEF SignalCancel
<1>6. ASSUME NEW j \in Jobs, RemoveFromQueue(j) PROVE TypeOK'
  <2>1. bull' \in [Jobs -> QueueState]
    BY <1>6 DEF RemoveFromQueue
  <2>2. canceller' \in [Jobs -> {"no", "signal", "remove"}]
    BY <1>6 DEF RemoveFromQueue
  <2> QED
    BY <1>6, <2>1, <2>2 DEF RemoveFromQueue
<1>7. ASSUME NEW j \in Jobs, StalledCheck(j) PROVE TypeOK'
  <2>1. bull' \in [Jobs -> QueueState]
    BY <1>7 DEF StalledCheck
  <2>2. stalls' \in [Jobs -> 0..MaxStalls]
    BY <1>7 DEF StalledCheck
  <2> QED
    BY <1>7, <2>1, <2>2 DEF StalledCheck
<1>8. ASSUME NEW r \in Runners, NEW j \in Jobs, Take(r, j) PROVE TypeOK'
  <2>1. bull' \in [Jobs -> QueueState]
    BY <1>8 DEF Take
  <2>2. owner' \in [Jobs -> Runners \cup {Nobody}]
    BY <1>8 DEF Take
  <2>3. run' \in [Runners -> Slot]
    BY <1>8 DEF Take, Slot, Places
  <2> QED
    BY <1>8, <2>1, <2>2, <2>3 DEF Take
<1>9. ASSUME NEW r \in Runners, GetLock(r) PROVE TypeOK'
  <2>1. MyJob(r) \in Jobs
    BY <1>9 DEF GetLock, At, MyJob, BusyHasJob
  <2>2. <<r, MyJob(r)>> \in Runners \X Jobs
    BY <2>1
  <2>3. run' \in [Runners -> Slot]
    BY <1>9 DEF GetLock, Goto, Move, Slot, Places
  <2>4. lock' \in [Keys -> (Runners \X Jobs) \cup {Nobody}]
    BY <1>9, <2>1, <2>2 DEF GetLock
  <2> QED
    BY <1>9, <2>1, <2>2, <2>3, <2>4 DEF GetLock
<1>10. ASSUME NEW r \in Runners, DeferBusy(r) PROVE TypeOK'
  <2>1. run' \in [Runners -> Slot]
    BY <1>10 DEF DeferBusy, Rest, Idle, Slot, Places
  <2>2. bull' \in [Jobs -> QueueState]
    BY <1>10 DEF DeferBusy
  <2>3. owner' \in [Jobs -> Runners \cup {Nobody}]
    BY <1>10 DEF DeferBusy
  <2> QED
    BY <1>10, <2>1, <2>2, <2>3 DEF DeferBusy
<1>11. ASSUME NEW r \in Runners, SkipBusy(r) PROVE TypeOK'
  <2>1. MyJob(r) \in Jobs
    BY <1>11 DEF SkipBusy, LockIsBusy, At, MyJob, BusyHasJob
  <2>2. lock[KeyOf[MyJob(r)]][2] \in Jobs
    BY <1>11, <2>1 DEF SkipBusy, LockIsBusy
  <2>3. status' \in [Jobs -> RowState]
    BY <1>11 DEF SkipBusy, StartRow
  <2>4. busyWith' \in [Jobs -> Jobs \cup {Nobody}]
    BY <1>11, <2>1, <2>2 DEF SkipBusy
  <2>5. run' \in [Runners -> Slot]
    BY <1>11 DEF SkipBusy, Goto, Move, Slot, Places
  <2> QED
    BY <1>11, <2>1, <2>2, <2>3, <2>4, <2>5 DEF SkipBusy
<1>12. ASSUME NEW r \in Runners, FinishSkipped(r) PROVE TypeOK'
  <2>1. status' \in [Jobs -> RowState]
    BY <1>12 DEF FinishSkipped, Close
  <2>2. run' \in [Runners -> Slot]
    BY <1>12 DEF FinishSkipped, Goto, Move, Slot, Places
  <2> QED
    BY <1>12, <2>1, <2>2 DEF FinishSkipped
<1>13. ASSUME NEW r \in Runners, StartAttempt(r) PROVE TypeOK'
  <2>1. status' \in [Jobs -> RowState]
    BY <1>13 DEF StartAttempt, StartRow
  <2>2. run' \in [Runners -> Slot]
    BY <1>13 DEF StartAttempt, Goto, Move, Slot, Places
  <2>3. lock' \in [Keys -> (Runners \X Jobs) \cup {Nobody}]
    BY <1>13 DEF StartAttempt
  <2> QED
    BY <1>13, <2>1, <2>2, <2>3 DEF StartAttempt
<1>14. ASSUME NEW r \in Runners, BeginWork(r) PROVE TypeOK'
  <2>1. MyJob(r) \in Jobs
    BY <1>14 DEF BeginWork, At, MyJob, BusyHasJob
  <2>2. stray' \in [Runners -> SUBSET Jobs]
    BY <1>14, <2>1 DEF BeginWork
  <2>3. run' \in [Runners -> Slot]
    BY <1>14 DEF BeginWork, Goto, Move, Slot, Places
  <2> QED
    BY <1>14, <2>1, <2>2, <2>3 DEF BeginWork
<1>15. ASSUME NEW r \in Runners, HandlerReturns(r) PROVE TypeOK'
  <2>1. MyJob(r) \in Jobs
    BY <1>15 DEF HandlerReturns, At, MyJob, BusyHasJob
  <2>2. run' \in [Runners -> Slot]
    BY <1>15 DEF HandlerReturns, Goto, Move, Slot, Places
  <2>3. did' \subseteq Jobs
    BY <1>15, <2>1 DEF HandlerReturns
  <2> QED
    BY <1>15, <2>1, <2>2, <2>3 DEF HandlerReturns
<1>16. ASSUME NEW r \in Runners, NEW fatal \in BOOLEAN, HandlerThrows(r, fatal) PROVE TypeOK'
  <2>1. run' \in [Runners -> Slot]
    BY <1>16 DEF HandlerThrows, Move, Slot, Places
  <2> QED
    BY <1>16, <2>1 DEF HandlerThrows
<1>17. ASSUME NEW r \in Runners, AbortWork(r) PROVE TypeOK'
  <2>1. MyJob(r) \in Jobs
    BY <1>17 DEF AbortWork, At, MyJob, BusyHasJob
  <2>2. stray' \in [Runners -> SUBSET Jobs]
    BY <1>17, <2>1 DEF AbortWork
  <2>3. run' \in [Runners -> Slot]
    <3>1. ASSUME NEW p \in {"threw", "complete"}, Goto(r, p) PROVE run' \in [Runners -> Slot]
      BY <3>1 DEF Goto, Move, Slot, Places
    <3> QED
      BY <1>17, <3>1 DEF AbortWork
  <2> QED
    BY <1>17, <2>1, <2>2, <2>3 DEF AbortWork
<1>18. ASSUME NEW r \in Runners, FinishAttempt(r) PROVE TypeOK'
  <2>1. status' \in [Jobs -> RowState]
    <3>1. \/ status' = [status EXCEPT ![MyJob(r)] = "succeeded"]
          \/ status' = status
      BY <1>18 DEF FinishAttempt, Close
    <3> QED
      BY <3>1
  <2>2. run' \in [Runners -> Slot]
    BY <1>18 DEF FinishAttempt, Goto, Move, Slot, Places
  <2> QED
    BY <1>18, <2>1, <2>2 DEF FinishAttempt
<1>19. ASSUME NEW r \in Runners, ReportFailure(r) PROVE TypeOK'
  <2>1. status' \in [Jobs -> RowState]
    <3>1. CASE Close(MyJob(r), "failed")
      BY <3>1 DEF Close
    <3>2. CASE FailAttempt(MyJob(r))
      BY <3>2 DEF FailAttempt
    <3> QED
      BY <1>19, <3>1, <3>2 DEF ReportFailure
  <2>2. run' \in [Runners -> Slot]
    BY <1>19 DEF ReportFailure, Goto, Move, Slot, Places
  <2> QED
    BY <1>19, <2>1, <2>2 DEF ReportFailure
<1>20. ASSUME NEW r \in Runners, QueueCompletes(r) PROVE TypeOK'
  <2>1. run' \in [Runners -> Slot]
    BY <1>20 DEF QueueCompletes, Rest, Idle, Slot, Places
  <2>2. bull' \in [Jobs -> QueueState]
    BY <1>20 DEF QueueCompletes
  <2>3. owner' \in [Jobs -> Runners \cup {Nobody}]
    BY <1>20 DEF QueueCompletes
  <2> QED
    BY <1>20, <2>1, <2>2, <2>3 DEF QueueCompletes
<1>21. ASSUME NEW r \in Runners, QueueRetriesOrFails(r) PROVE TypeOK'
  <2>1. MyJob(r) \in Jobs
    BY <1>21 DEF QueueRetriesOrFails, At, MyJob, BusyHasJob
  <2>2. owner[MyJob(r)] = r => tries[MyJob(r)] + 1 \in 0..MaxAttempts
    <3>1. SUFFICES ASSUME owner[MyJob(r)] = r PROVE tries[MyJob(r)] < MaxAttempts
      BY <2>1
    <3>2. owner[MyJob(r)] # Nobody
      BY <3>1
    <3>3. bull[MyJob(r)] = "active"
      BY <2>1, <3>2 DEF QueueShape
    <3> QED
      BY <2>1, <3>3 DEF QueueShape
  <2>3. run' \in [Runners -> Slot]
    BY <1>21 DEF QueueRetriesOrFails, Rest, Idle, Slot, Places
  <2>4. tries' \in [Jobs -> 0..MaxAttempts]
    BY <1>21, <2>2 DEF QueueRetriesOrFails
  <2>5. bull' \in [Jobs -> QueueState]
    BY <1>21 DEF QueueRetriesOrFails
  <2>6. owner' \in [Jobs -> Runners \cup {Nobody}]
    BY <1>21 DEF QueueRetriesOrFails
  <2> QED
    BY <1>21, <2>1, <2>2, <2>3, <2>4, <2>5, <2>6 DEF QueueRetriesOrFails
<1>22. ASSUME NEW r \in Runners, NEW j \in Jobs, StrayEnds(r, j) PROVE TypeOK'
  <2>1. stray' \in [Runners -> SUBSET Jobs]
    BY <1>22 DEF StrayEnds
  <2> QED
    BY <1>22, <2>1 DEF StrayEnds
<1>23. ASSUME NEW r \in Runners, NEW j \in Jobs, Unlock(r, j) PROVE TypeOK'
  <2>1. lock' \in [Keys -> (Runners \X Jobs) \cup {Nobody}]
    BY <1>23 DEF Unlock
  <2> QED
    BY <1>23, <2>1 DEF Unlock
<1>24. ASSUME NEW r \in Runners, EngineBegins(r) PROVE TypeOK'
  <2>1. MyJob(r) \in Jobs
    BY <1>24 DEF EngineBegins, At, MyJob, BusyHasJob
  <2>2. MyJob(r) \in EngineJobs
    BY <1>24 DEF EngineBegins, At, MyJob, BusyHasJob
  <2>3. run' \in [Runners -> Slot]
    BY <1>24 DEF EngineBegins, Goto, Move, Slot, Places
  <2>4. reports' \subseteq Report
    BY <1>24, <2>2 DEF EngineBegins, Report
  <2> QED
    BY <1>24, <2>1, <2>2, <2>3, <2>4 DEF EngineBegins
<1>25. ASSUME NEW r \in Runners, EngineReturns(r) PROVE TypeOK'
  <2>1. MyJob(r) \in Jobs
    BY <1>25 DEF EngineReturns, At, MyJob, BusyHasJob
  <2>2. MyJob(r) \in EngineJobs
    BY <1>25 DEF EngineReturns, At, MyJob, BusyHasJob
  <2>3. run' \in [Runners -> Slot]
    BY <1>25 DEF EngineReturns, Goto, Move, Slot, Places
  <2>4. did' \subseteq Jobs
    BY <1>25, <2>1 DEF EngineReturns
  <2>5. reports' \subseteq Report
    BY <1>25, <2>2 DEF EngineReturns, Report
  <2> QED
    BY <1>25, <2>1, <2>2, <2>3, <2>4, <2>5 DEF EngineReturns
<1>26. ASSUME NEW r \in Runners, NEW fatal \in BOOLEAN, EngineThrows(r, fatal) PROVE TypeOK'
  <2>1. MyJob(r) \in Jobs
    BY <1>26 DEF EngineThrows, At, MyJob, BusyHasJob
  <2>2. MyJob(r) \in EngineJobs
    BY <1>26 DEF EngineThrows, At, MyJob, BusyHasJob
  <2>3. run' \in [Runners -> Slot]
    BY <1>26 DEF EngineThrows, Move, Slot, Places
  <2>4. reports' \subseteq Report
    BY <1>26, <2>2 DEF EngineThrows, Report
  <2> QED
    BY <1>26, <2>1, <2>2, <2>3, <2>4 DEF EngineThrows
<1>27. ASSUME NEW r \in Runners, EngineAborts(r) PROVE TypeOK'
  <2>1. run' \in [Runners -> Slot]
    BY <1>27 DEF EngineAborts, Goto, Move, Slot, Places
  <2> QED
    BY <1>27, <2>1 DEF EngineAborts
<1>28. ASSUME NEW m \in reports, ReceiveReport(m) PROVE TypeOK'
  <2>1. reports' \subseteq Report
    BY <1>28 DEF ReceiveReport
  <2>2. status' \in [Jobs -> RowState]
    BY <1>28 DEF ReceiveReport, ApplyReport, Close, StartRow, FailAttempt
  <2> QED
    BY <1>28, <2>1, <2>2 DEF ReceiveReport
<1>29. ASSUME NEW m \in reports, LoseReport(m) PROVE TypeOK'
  <2>1. reports' \subseteq Report
    BY <1>29 DEF LoseReport
  <2> QED
    BY <1>29, <2>1 DEF LoseReport
<1>30. ASSUME NEW s \in Settlers, NEW j \in Jobs, ReadOpenRow(s, j) PROVE TypeOK'
  <2>1. settler' \in [Settlers -> Settling]
    BY <1>30 DEF ReadOpenRow, Settle, Settling
  <2> QED
    BY <1>30, <2>1 DEF ReadOpenRow
<1>31. ASSUME NEW s \in Settlers, ReadQueueState(s) PROVE TypeOK'
  <2>1. settler' \in [Settlers -> Settling]
    BY <1>31 DEF ReadQueueState, Settle, Settling, BusyHasJob
  <2> QED
    BY <1>31, <2>1 DEF ReadQueueState
<1>32. ASSUME NEW s \in Settlers, ApplySettle(s) PROVE TypeOK'
  <2>1. \/ status' = status
        \/ Close(settler[s].job, "succeeded") \/ Close(settler[s].job, "failed")
        \/ Requeue(settler[s].job)
    BY <1>32 DEF ApplySettle, SettleMissing
  <2>2. settler[s].job \in Jobs
    BY <1>32 DEF ApplySettle, BusyHasJob
  <2>3. settler' \in [Settlers -> Settling]
    BY <1>32 DEF ApplySettle, Settle, Settling, SettleIdle
  <2>4. status' \in [Jobs -> RowState]
    BY <2>1 DEF Close, Requeue
  <2>5. dispatching' \subseteq {"bus", "settler"} \X Jobs
    BY <1>32, <2>2 DEF ApplySettle, SettleMissing
  <2> QED
    BY <1>32, <2>1, <2>2, <2>3, <2>4, <2>5 DEF ApplySettle
<1>33. ASSUME NEW r \in Runners, Crash(r) PROVE TypeOK'
  <2>1. faults' \in 0..MaxFaults
    BY <1>33 DEF Crash, Fault
  <2>2. run' \in [Runners -> Slot]
    BY <1>33 DEF Crash, Rest, Idle, Slot, Places
  <2>3. stray' \in [Runners -> SUBSET Jobs]
    BY <1>33 DEF Crash
  <2>4. owner' \in [Jobs -> Runners \cup {Nobody}]
    BY <1>33 DEF Crash
  <2>5. lock' \in [Keys -> (Runners \X Jobs) \cup {Nobody}]
    BY <1>33 DEF Crash
  <2> QED
    BY <1>33, <2>1, <2>2, <2>3, <2>4, <2>5 DEF Crash
<1>34. ASSUME NEW j \in Jobs, LoseQueueLock(j) PROVE TypeOK'
  <2>1. faults' \in 0..MaxFaults
    BY <1>34 DEF LoseQueueLock, Fault
  <2>2. owner' \in [Jobs -> Runners \cup {Nobody}]
    BY <1>34 DEF LoseQueueLock
  <2> QED
    BY <1>34, <2>1, <2>2 DEF LoseQueueLock
<1>35. ASSUME NEW r \in Runners, FinishThrows(r) PROVE TypeOK'
  <2>1. faults' \in 0..MaxFaults
    BY <1>35 DEF FinishThrows, Fault
  <2>2. run' \in [Runners -> Slot]
    BY <1>35 DEF FinishThrows, Goto, Move, Slot, Places
  <2> QED
    BY <1>35, <2>1, <2>2 DEF FinishThrows
<1>36. ASSUME NEW j \in Jobs, DropQueuedEvent(j) PROVE TypeOK'
  <2>1. faults' \in 0..MaxFaults
    BY <1>36 DEF DropQueuedEvent, Fault
  <2>2. owed' \subseteq Jobs
    BY <1>36 DEF DropQueuedEvent
  <2>3. dispatching' \subseteq {"bus", "settler"} \X Jobs
    BY <1>36 DEF DropQueuedEvent
  <2> QED
    BY <1>36, <2>1, <2>2, <2>3 DEF DropQueuedEvent
<1>37. ASSUME NEW j \in Jobs, ForgetEntry(j) PROVE TypeOK'
  <2>1. faults' \in 0..MaxFaults
    BY <1>37 DEF ForgetEntry, Fault
  <2>2. bull' \in [Jobs -> QueueState]
    BY <1>37 DEF ForgetEntry
  <2>3. owner' \in [Jobs -> Runners \cup {Nobody}]
    BY <1>37 DEF ForgetEntry
  <2> QED
    BY <1>37, <2>1, <2>2, <2>3 DEF ForgetEntry
<1>38. ASSUME NEW j \in Jobs, CancelStops(j) PROVE TypeOK'
  <2>1. faults' \in 0..MaxFaults
    BY <1>38 DEF CancelStops, Fault
  <2>2. canceller' \in [Jobs -> {"no", "signal", "remove"}]
    BY <1>38 DEF CancelStops
  <2> QED
    BY <1>38, <2>1, <2>2 DEF CancelStops
<1>39. CASE UNCHANGED vars
  BY <1>39 DEF vars
<1>44. ASSUME NEW r \in Runners, AttemptThrows(r) PROVE TypeOK'
  <2>1. faults' \in 0..MaxFaults
    BY <1>44 DEF AttemptThrows, Fault
  <2>2. run' \in [Runners -> Slot]
    BY <1>44 DEF AttemptThrows, Move, Slot, Places
  <2>3. lock' \in [Keys -> (Runners \X Jobs) \cup {Nobody}]
    BY <1>44 DEF AttemptThrows
  <2> QED
    BY <1>44, <2>1, <2>2, <2>3 DEF AttemptThrows
<1>40. ASSUME NEW r \in Runners, SlotStep(r) PROVE TypeOK'
  BY <1>40, <1>9, <1>10, <1>11, <1>12, <1>13, <1>14, <1>15, <1>16, <1>17, <1>18, <1>19, <1>20, <1>21, <1>24, <1>25, <1>26, <1>27
     DEF SlotStep
<1>41. ASSUME NEW j \in Jobs, JobStep(j) PROVE TypeOK'
  BY <1>41, <1>2, <1>3, <1>5, <1>6, <1>7 DEF JobStep
<1>42. ASSUME NEW s \in Settlers, SettlerStep(s) PROVE TypeOK'
  BY <1>42, <1>31, <1>32 DEF SettlerStep
<1>43. CASE FaultStep
  BY <1>43, <1>44, <1>33, <1>34, <1>35, <1>36, <1>37, <1>38 DEF FaultStep
<1> QED
  BY <1>1, <1>4, <1>8, <1>22, <1>23, <1>28, <1>29, <1>30,
     <1>39, <1>40, <1>41, <1>42, <1>43 DEF Next
-----------------------------------------------------------------------------
(* Which steps touch what.                                                    *)

\* What a settler has read changes only by its own steps.
LEMMA SettlerFrame ==
    ASSUME [Next]_vars
    PROVE  \/ UNCHANGED settler
           \/ \E s \in Settlers, j \in Jobs : ReadOpenRow(s, j)
           \/ \E s \in Settlers : ReadQueueState(s)
           \/ \E s \in Settlers : ApplySettle(s)
BY ZenonT(40) DEF Next, SlotStep, JobStep, SettlerStep, FaultStep, vars, registry, queue,
       Schedule, HandleQueued, AddToQueue, CancelRow, SignalCancel,
       RemoveFromQueue, StalledCheck, Take, GetLock, DeferBusy, SkipBusy,
       FinishSkipped, StartAttempt, BeginWork, HandlerReturns, HandlerThrows,
       AbortWork, FinishAttempt, ReportFailure, QueueCompletes,
       QueueRetriesOrFails, StrayEnds, Unlock, EngineBegins, EngineReturns,
       EngineThrows, EngineAborts, ReceiveReport, LoseReport, Crash,
       LoseQueueLock, FinishThrows, AttemptThrows, DropQueuedEvent, ForgetEntry, CancelStops

\* Flags and cancels move only along a cancel.
LEMMA FlagFrame ==
    ASSUME [Next]_vars
    PROVE  \/ UNCHANGED <<flag, canceller>>
           \/ \E j \in Jobs : CancelRow(j)
           \/ \E j \in Jobs : SignalCancel(j)
           \/ \E j \in Jobs : RemoveFromQueue(j)
           \/ \E j \in Jobs : CancelStops(j)
BY ZenonT(40) DEF Next, SlotStep, JobStep, SettlerStep, FaultStep, vars, registry, queue,
       Schedule, HandleQueued, AddToQueue, StalledCheck, Take, GetLock,
       DeferBusy, SkipBusy, FinishSkipped, StartAttempt, BeginWork,
       HandlerReturns, HandlerThrows, AbortWork, FinishAttempt, ReportFailure,
       QueueCompletes, QueueRetriesOrFails, StrayEnds, Unlock, EngineBegins,
       EngineReturns, EngineThrows, EngineAborts, ReceiveReport, LoseReport,
       ReadOpenRow, ReadQueueState, ApplySettle, Crash, LoseQueueLock,
       FinishThrows, AttemptThrows, DropQueuedEvent, ForgetEntry

\* The queue entry of a job moves only by these steps.
LEMMA EntryFrame ==
    ASSUME [Next]_vars
    PROVE  \/ UNCHANGED <<bull, owner, tries>>
           \/ \E who \in {"bus", "settler"}, j \in Jobs : AddToQueue(who, j)
           \/ \E j \in Jobs : RemoveFromQueue(j)
           \/ \E j \in Jobs : StalledCheck(j)
           \/ \E r \in Runners, j \in Jobs : Take(r, j)
           \/ \E r \in Runners : DeferBusy(r)
           \/ \E r \in Runners : QueueCompletes(r)
           \/ \E r \in Runners : QueueRetriesOrFails(r)
           \/ \E r \in Runners : Crash(r)
           \/ \E j \in Jobs : LoseQueueLock(j)
           \/ \E j \in Jobs : ForgetEntry(j)
BY ZenonT(40) DEF Next, SlotStep, JobStep, SettlerStep, FaultStep, vars, registry, queue,
       Schedule, HandleQueued, CancelRow, SignalCancel, GetLock, SkipBusy,
       FinishSkipped, StartAttempt, BeginWork, HandlerReturns, HandlerThrows,
       AbortWork, FinishAttempt, ReportFailure, StrayEnds, Unlock,
       EngineBegins, EngineReturns, EngineThrows, EngineAborts, ReceiveReport,
       LoseReport, ReadOpenRow, ReadQueueState, ApplySettle, FinishThrows, AttemptThrows,
       DropQueuedEvent, CancelStops

\* What a slot does changes only by its own steps.
LEMMA RunFrame ==
    ASSUME [Next]_vars
    PROVE  \/ UNCHANGED run
           \/ \E r \in Runners, j \in Jobs : Take(r, j)
           \/ \E r \in Runners : GetLock(r)
           \/ \E r \in Runners : DeferBusy(r)
           \/ \E r \in Runners : SkipBusy(r)
           \/ \E r \in Runners : FinishSkipped(r)
           \/ \E r \in Runners : StartAttempt(r)
           \/ \E r \in Runners : BeginWork(r)
           \/ \E r \in Runners : HandlerReturns(r)
           \/ \E r \in Runners, fatal \in BOOLEAN : HandlerThrows(r, fatal)
           \/ \E r \in Runners : AbortWork(r)
           \/ \E r \in Runners : FinishAttempt(r)
           \/ \E r \in Runners : ReportFailure(r)
           \/ \E r \in Runners : QueueCompletes(r)
           \/ \E r \in Runners : QueueRetriesOrFails(r)
           \/ \E r \in Runners : EngineBegins(r)
           \/ \E r \in Runners : EngineReturns(r)
           \/ \E r \in Runners, fatal \in BOOLEAN : EngineThrows(r, fatal)
           \/ \E r \in Runners : EngineAborts(r)
           \/ \E r \in Runners : Crash(r)
           \/ \E r \in Runners : FinishThrows(r)
           \/ \E r \in Runners : AttemptThrows(r)
BY ZenonT(40) DEF Next, SlotStep, JobStep, SettlerStep, FaultStep, vars, registry, queue,
       Schedule, HandleQueued, AddToQueue, CancelRow, SignalCancel,
       RemoveFromQueue, StalledCheck, StrayEnds, Unlock, ReceiveReport,
       LoseReport, ReadOpenRow, ReadQueueState, ApplySettle, LoseQueueLock,
       DropQueuedEvent, ForgetEntry, CancelStops

\* Who works under which lock changes only by these steps.
LEMMA LockFrame ==
    ASSUME [Next]_vars
    PROVE  \/ UNCHANGED <<run, stray, lock>>
           \/ \E r \in Runners, j \in Jobs : Take(r, j)
           \/ \E r \in Runners : GetLock(r)
           \/ \E r \in Runners : DeferBusy(r)
           \/ \E r \in Runners : SkipBusy(r)
           \/ \E r \in Runners : FinishSkipped(r)
           \/ \E r \in Runners : StartAttempt(r)
           \/ \E r \in Runners : BeginWork(r)
           \/ \E r \in Runners : HandlerReturns(r)
           \/ \E r \in Runners, fatal \in BOOLEAN : HandlerThrows(r, fatal)
           \/ \E r \in Runners : AbortWork(r)
           \/ \E r \in Runners : FinishAttempt(r)
           \/ \E r \in Runners : ReportFailure(r)
           \/ \E r \in Runners : QueueCompletes(r)
           \/ \E r \in Runners : QueueRetriesOrFails(r)
           \/ \E r \in Runners, j \in Jobs : StrayEnds(r, j)
           \/ \E r \in Runners, j \in Jobs : Unlock(r, j)
           \/ \E r \in Runners : EngineBegins(r)
           \/ \E r \in Runners : EngineReturns(r)
           \/ \E r \in Runners, fatal \in BOOLEAN : EngineThrows(r, fatal)
           \/ \E r \in Runners : EngineAborts(r)
           \/ \E r \in Runners : Crash(r)
           \/ \E r \in Runners : FinishThrows(r)
           \/ \E r \in Runners : AttemptThrows(r)
BY ZenonT(40) DEF Next, SlotStep, JobStep, SettlerStep, FaultStep, vars, registry, queue,
       Schedule, HandleQueued, AddToQueue, CancelRow, SignalCancel,
       RemoveFromQueue, StalledCheck, ReceiveReport, LoseReport, ReadOpenRow,
       ReadQueueState, ApplySettle, LoseQueueLock, DropQueuedEvent,
       ForgetEntry, CancelStops

\* Reports are sent by the engine, received or lost.
LEMMA ReportFrame ==
    ASSUME [Next]_vars
    PROVE  \/ UNCHANGED reports
           \/ \E r \in Runners : EngineBegins(r)
           \/ \E r \in Runners : EngineReturns(r)
           \/ \E r \in Runners, fatal \in BOOLEAN : EngineThrows(r, fatal)
           \/ \E m \in reports : ReceiveReport(m)
           \/ \E m \in reports : LoseReport(m)
BY ZenonT(40) DEF Next, SlotStep, JobStep, SettlerStep, FaultStep, vars, registry, queue,
       Schedule, HandleQueued, AddToQueue, CancelRow, SignalCancel,
       RemoveFromQueue, StalledCheck, Take, GetLock, DeferBusy, SkipBusy,
       FinishSkipped, StartAttempt, BeginWork, HandlerReturns, HandlerThrows,
       AbortWork, FinishAttempt, ReportFailure, QueueCompletes,
       QueueRetriesOrFails, StrayEnds, Unlock, EngineAborts, ReadOpenRow,
       ReadQueueState, ApplySettle, Crash, LoseQueueLock, FinishThrows, AttemptThrows,
       DropQueuedEvent, ForgetEntry, CancelStops

\* A dispatch is begun, ended or lost by these steps.
LEMMA DispatchFrame ==
    ASSUME [Next]_vars
    PROVE  \/ UNCHANGED dispatching
           \/ \E j \in Jobs : HandleQueued(j)
           \/ \E who \in {"bus", "settler"}, j \in Jobs : AddToQueue(who, j)
           \/ \E s \in Settlers : ApplySettle(s)
           \/ \E j \in Jobs : DropQueuedEvent(j)
BY ZenonT(40) DEF Next, SlotStep, JobStep, SettlerStep, FaultStep, vars, registry, queue,
       Schedule, CancelRow, SignalCancel, RemoveFromQueue, StalledCheck, Take,
       GetLock, DeferBusy, SkipBusy, FinishSkipped, StartAttempt, BeginWork,
       HandlerReturns, HandlerThrows, AbortWork, FinishAttempt, ReportFailure,
       QueueCompletes, QueueRetriesOrFails, StrayEnds, Unlock, EngineBegins,
       EngineReturns, EngineThrows, EngineAborts, ReceiveReport, LoseReport,
       ReadOpenRow, ReadQueueState, Crash, LoseQueueLock, FinishThrows, AttemptThrows,
       ForgetEntry, CancelStops

\* Results and skips are recorded by these steps only.
LEMMA HistoryFrame ==
    ASSUME [Next]_vars
    PROVE  \/ UNCHANGED <<did, busyWith>>
           \/ \E r \in Runners : SkipBusy(r)
           \/ \E r \in Runners : HandlerReturns(r)
           \/ \E r \in Runners : EngineReturns(r)
BY ZenonT(40) DEF Next, SlotStep, JobStep, SettlerStep, FaultStep, vars, registry, queue,
       Schedule, HandleQueued, AddToQueue, CancelRow, SignalCancel,
       RemoveFromQueue, StalledCheck, Take, GetLock, DeferBusy, FinishSkipped,
       StartAttempt, BeginWork, HandlerThrows, AbortWork, FinishAttempt,
       ReportFailure, QueueCompletes, QueueRetriesOrFails, StrayEnds, Unlock,
       EngineBegins, EngineThrows, EngineAborts, ReceiveReport, LoseReport,
       ReadOpenRow, ReadQueueState, ApplySettle, Crash, LoseQueueLock,
       FinishThrows, AttemptThrows, DropQueuedEvent, ForgetEntry, CancelStops

\* The registry is written only by these steps.
LEMMA RowFrame ==
    ASSUME [Next]_vars
    PROVE  \/ UNCHANGED <<status, published>>
           \/ \E j \in Jobs : Schedule(j)
           \/ \E j \in Jobs : CancelRow(j)
           \/ \E r \in Runners : SkipBusy(r)
           \/ \E r \in Runners : FinishSkipped(r)
           \/ \E r \in Runners : StartAttempt(r)
           \/ \E r \in Runners : FinishAttempt(r)
           \/ \E r \in Runners : ReportFailure(r)
           \/ \E m \in reports : ReceiveReport(m)
           \/ \E s \in Settlers : ApplySettle(s)
BY ZenonT(40) DEF Next, SlotStep, JobStep, SettlerStep, FaultStep, vars, registry, queue,
       HandleQueued, AddToQueue, SignalCancel, RemoveFromQueue, StalledCheck,
       Take, GetLock, DeferBusy, BeginWork, HandlerReturns, HandlerThrows,
       AbortWork, QueueCompletes, QueueRetriesOrFails, StrayEnds, Unlock,
       EngineBegins, EngineReturns, EngineThrows, EngineAborts, LoseReport,
       ReadOpenRow, ReadQueueState, Crash, LoseQueueLock, FinishThrows, AttemptThrows,
       DropQueuedEvent, ForgetEntry, CancelStops

\* A slot that is not idle has a job.
LEMMA SlotJob ==
    ASSUME BusyHasJob, NEW r \in Runners, ~At(r, "idle")
    PROVE  MyJob(r) \in Jobs
BY DEF BusyHasJob, At, MyJob

\* Every step of a slot that has a job keeps the job or ends with it.
LEMMA RunMoves ==
    ASSUME TypeOK, [Next]_vars
    PROVE  \/ UNCHANGED run
           \/ \E r \in Runners, j \in Jobs : Take(r, j)
           \/ \E r \in Runners, p \in Places \ {"flag", "engine"}, fatal \in BOOLEAN :
                 Move(r, p, fatal) /\ ~At(r, "idle")
           \/ \E r \in Runners : EngineBegins(r) \/ Rest(r)
<1>1. \A r \in Runners : run[r].fatal \in BOOLEAN
  BY DEF TypeOK, Slot
<1>2. ASSUME NEW r \in Runners, \/ GetLock(r) \/ SkipBusy(r) \/ FinishSkipped(r)
                              \/ StartAttempt(r) \/ BeginWork(r) \/ HandlerReturns(r)
                              \/ AbortWork(r) \/ FinishAttempt(r) \/ ReportFailure(r)
                              \/ EngineReturns(r) \/ EngineAborts(r)
                              \/ FinishThrows(r)
      PROVE  ~At(r, "idle") /\ \E p \in Places \ {"flag", "engine"} : Move(r, p, run[r].fatal)
  BY <1>2 DEF GetLock, SkipBusy, LockIsBusy, FinishSkipped, StartAttempt, BeginWork,
              HandlerReturns, AbortWork, FinishAttempt, ReportFailure,
              EngineReturns, EngineAborts, FinishThrows, Goto, Places, At
<1>3. ASSUME NEW r \in Runners, NEW fatal \in BOOLEAN,
             HandlerThrows(r, fatal) \/ EngineThrows(r, fatal)
      PROVE  ~At(r, "idle") /\ \E p \in Places \ {"flag", "engine"} : Move(r, p, fatal)
  BY <1>3 DEF HandlerThrows, EngineThrows, Places, At
<1>4. ASSUME NEW r \in Runners, AttemptThrows(r)
      PROVE  ~At(r, "idle") /\ \E p \in Places \ {"flag", "engine"} : Move(r, p, FALSE)
  BY <1>4 DEF AttemptThrows, Places, At
<1>5. ASSUME NEW r \in Runners, AttemptThrows(r)
      PROVE  \E p \in Places \ {"flag", "engine"}, fatal \in BOOLEAN :
                Move(r, p, fatal) /\ ~At(r, "idle")
  <2>1. FALSE \in BOOLEAN
    OBVIOUS
  <2> QED
    BY <1>4, <1>5, <2>1
<1> QED
  BY RunFrame, <1>1, <1>2, <1>3, <1>5 DEF DeferBusy, QueueCompletes, QueueRetriesOrFails, Crash

\* The ways in which a step writes the registry.
LEMMA RegistryMoves ==
    ASSUME TypeOK, BusyHasJob, [Next]_vars
    PROVE  \/ UNCHANGED registry
           \/ \E j \in Jobs : Schedule(j)
           \/ \E j \in Jobs, how \in Closed : Close(j, how)
           \/ \E j \in Jobs : StartRow(j) \/ FailAttempt(j) \/ Requeue(j)
<1>1. ASSUME NEW j \in Jobs, CancelRow(j) PROVE Close(j, "cancelled")
  BY <1>1 DEF CancelRow
<1>2. ASSUME NEW r \in Runners, SkipBusy(r) PROVE StartRow(MyJob(r)) /\ MyJob(r) \in Jobs
  BY <1>2, SlotJob DEF SkipBusy, LockIsBusy, At
<1>3. ASSUME NEW r \in Runners, FinishSkipped(r) \/ FinishAttempt(r)
      PROVE  Close(MyJob(r), "succeeded") /\ MyJob(r) \in Jobs
  BY <1>3, SlotJob DEF FinishSkipped, FinishAttempt, At
<1>4. ASSUME NEW r \in Runners, StartAttempt(r) PROVE StartRow(MyJob(r)) /\ MyJob(r) \in Jobs
  BY <1>4, SlotJob DEF StartAttempt, At
<1>5. ASSUME NEW r \in Runners, ReportFailure(r)
      PROVE  (Close(MyJob(r), "failed") \/ FailAttempt(MyJob(r))) /\ MyJob(r) \in Jobs
  BY <1>5, SlotJob DEF ReportFailure, At
<1>6. ASSUME NEW m \in reports, ReceiveReport(m)
      PROVE  /\ m.job \in Jobs
             /\ \/ StartRow(m.job) \/ FailAttempt(m.job)
                \/ Close(m.job, "succeeded") \/ Close(m.job, "failed")
  <2>1. m.job \in Jobs
    BY DEF TypeOK, Report
  <2> QED
    BY <1>6, <2>1 DEF ReceiveReport, ApplyReport
<1>7. ASSUME NEW s \in Settlers, ApplySettle(s)
      PROVE  /\ settler[s].job \in Jobs
             /\ \/ UNCHANGED registry \/ Requeue(settler[s].job)
                \/ Close(settler[s].job, "succeeded") \/ Close(settler[s].job, "failed")
  <2>1. settler[s].job \in Jobs
    BY <1>7 DEF ApplySettle, BusyHasJob
  <2> QED
    BY <1>7, <2>1 DEF ApplySettle, SettleMissing
<1> QED
  BY RowFrame, <1>1, <1>2, <1>3, <1>4, <1>5, <1>6, <1>7 DEF registry

\* A closed row stays as it is.
LEMMA ClosedStays ==
    ASSUME TypeOK, BusyHasJob, [Next]_vars, NEW i \in Jobs, status[i] \in Closed
    PROVE  status'[i] = status[i]
<1>1. ASSUME NEW j \in Jobs, Schedule(j) PROVE status'[i] = status[i]
  BY <1>1 DEF TypeOK, Schedule
<1>2. ASSUME NEW j \in Jobs, NEW how \in Closed, Close(j, how) PROVE status'[i] = status[i]
  BY <1>2 DEF TypeOK, Close, IsOpen, registry
<1>3. ASSUME NEW j \in Jobs, StartRow(j) \/ FailAttempt(j) \/ Requeue(j)
      PROVE  status'[i] = status[i]
  BY <1>3 DEF TypeOK, StartRow, FailAttempt, Requeue, IsOpen
<1> QED
  BY RegistryMoves, <1>1, <1>2, <1>3 DEF registry

-----------------------------------------------------------------------------
(* Jobs close once.                                                           *)

\* No step reopens a row, closes it twice or closes it without its event.
LEMMA StepCloses ==
    ASSUME TypeOK, BusyHasJob, ClosesOnce, [Next]_vars,
           published \in [Jobs -> Seq(Closed)]
    PROVE  ClosesOnce' /\ published' \in [Jobs -> Seq(Closed)]
<1> USE DEF ClosesOnce
<1>0. status \in [Jobs -> RowState]
  BY DEF TypeOK
<1>1. ASSUME NEW j \in Jobs, Schedule(j)
      PROVE  ClosesOnce' /\ published' \in [Jobs -> Seq(Closed)]
  <2>1. status[j] \notin Closed
    BY <1>1 DEF Schedule
  <2>2. /\ published' = published
        /\ status' = [status EXCEPT ![j] = "queued"]
    BY <1>1 DEF Schedule
  <2> QED
    BY <1>0, <2>1, <2>2
<1>2. ASSUME NEW j \in Jobs, NEW how \in Closed, Close(j, how)
      PROVE  ClosesOnce' /\ published' \in [Jobs -> Seq(Closed)]
  <2>1. CASE ~IsOpen(j)
    BY <1>2, <2>1 DEF Close, registry
  <2>2. CASE IsOpen(j)
    <3>1. published[j] = <<>>
      BY <2>2 DEF IsOpen
    <3>2. Append(published[j], how) = <<how>>
      BY <3>1
    <3>3. /\ status' = [status EXCEPT ![j] = how]
          /\ published' = [published EXCEPT ![j] = <<how>>]
      BY <1>2, <2>2, <3>2 DEF Close
    <3>4. <<how>> \in Seq(Closed)
      OBVIOUS
    <3> QED
      BY <1>0, <3>3, <3>4
  <2> QED
    BY <2>1, <2>2
<1>3. ASSUME NEW j \in Jobs, StartRow(j) \/ FailAttempt(j) \/ Requeue(j)
      PROVE  ClosesOnce' /\ published' \in [Jobs -> Seq(Closed)]
  <2>1. published' = published
    BY <1>3 DEF StartRow, FailAttempt, Requeue
  <2>2. /\ \A k \in Jobs \ {j} : status'[k] = status[k]
        /\ \/ status'[j] = status[j]
           \/ status[j] \notin Closed /\ status'[j] \notin Closed
    BY <1>0, <1>3 DEF StartRow, FailAttempt, Requeue, IsOpen
  <2> QED
    BY <2>1, <2>2
<1>4. CASE UNCHANGED registry
  <2>1. status' = status /\ published' = published
    BY <1>4 DEF registry
  <2> QED
    BY <2>1
<1> HIDE DEF ClosesOnce
<1> QED
  BY RegistryMoves, <1>1, <1>2, <1>3, <1>4

-----------------------------------------------------------------------------
(* The shape of slots, settlers, entries and cancels.                         *)

\* Slots and settlers that are busy keep a job.
LEMMA StepBusy ==
    ASSUME TypeOK, BusyHasJob, [Next]_vars
    PROVE  BusyHasJob'
<1> DEFINE SlotOK(r) == /\ run'[r].at # "idle" => run'[r].job \in Jobs
                        /\ run'[r].at \in {"flag", "engine"} => run'[r].job \in EngineJobs
           SettlerOK(s) == settler'[s].at # "idle" => settler'[s].job \in Jobs
<1>1. \A q \in Runners : SlotOK(q)
  <2> SUFFICES ASSUME NEW q \in Runners PROVE SlotOK(q)
    OBVIOUS
  <2> USE DEF BusyHasJob, TypeOK, Slot
  <2>1. ASSUME run'[q] = run[q] PROVE SlotOK(q)
    BY <2>1
  <2>2. ASSUME NEW r \in Runners, NEW j \in Jobs, Take(r, j) PROVE SlotOK(q)
    BY <2>1, <2>2 DEF Take
  <2>3. ASSUME NEW r \in Runners, NEW p \in Places \ {"flag", "engine"},
               NEW fatal \in BOOLEAN, Move(r, p, fatal), ~At(r, "idle")
        PROVE  SlotOK(q)
    BY <2>1, <2>3 DEF Move, At
  <2>4. ASSUME NEW r \in Runners, EngineBegins(r) PROVE SlotOK(q)
    BY <2>1, <2>4 DEF EngineBegins, Goto, Move, At
  <2>5. ASSUME NEW r \in Runners, Rest(r) PROVE SlotOK(q)
    BY <2>1, <2>5 DEF Rest, Idle
  <2> QED
    BY RunMoves, <2>1, <2>2, <2>3, <2>4, <2>5
<1>2. \A s \in Settlers : SettlerOK(s)
  <2> SUFFICES ASSUME NEW q \in Settlers PROVE SettlerOK(q)
    OBVIOUS
  <2> USE DEF BusyHasJob, TypeOK, Settle
  <2>1. ASSUME NEW s \in Settlers, NEW j \in Jobs, ReadOpenRow(s, j) PROVE SettlerOK(q)
    BY <2>1 DEF ReadOpenRow
  <2>2. ASSUME NEW s \in Settlers, ReadQueueState(s) PROVE SettlerOK(q)
    BY <2>2 DEF ReadQueueState
  <2>3. ASSUME NEW s \in Settlers, ApplySettle(s) PROVE SettlerOK(q)
    BY <2>3 DEF ApplySettle, SettleIdle
  <2> QED
    BY SettlerFrame, <2>1, <2>2, <2>3
<1>3. \A r \in Runners : run'[r].at # "idle" => run'[r].job \in Jobs
  BY <1>1
<1>4. \A r \in Runners : run'[r].at \in {"flag", "engine"} => run'[r].job \in EngineJobs
  BY <1>1
<1>5. \A s \in Settlers : settler'[s].at # "idle" => settler'[s].job \in Jobs
  BY <1>2
<1> QED
  BY <1>3, <1>4, <1>5 DEF BusyHasJob

\* A row is scheduled once.
LEMMA RowExists ==
    ASSUME TypeOK, BusyHasJob, [Next]_vars, NEW i \in Jobs, status[i] # "none"
    PROVE  status'[i] # "none"
<1>1. ASSUME NEW j \in Jobs, Schedule(j) PROVE status'[i] # "none"
  BY <1>1 DEF TypeOK, Schedule
<1>2. ASSUME NEW j \in Jobs, NEW how \in Closed, Close(j, how) PROVE status'[i] # "none"
  BY <1>2 DEF TypeOK, Close, registry
<1>3. ASSUME NEW j \in Jobs, StartRow(j) \/ FailAttempt(j) \/ Requeue(j)
      PROVE  status'[i] # "none"
  BY <1>3 DEF TypeOK, StartRow, FailAttempt, Requeue, IsOpen
<1> QED
  BY RegistryMoves, <1>1, <1>2, <1>3 DEF registry

\* What is dispatched, queued or taken has been scheduled.
LEMMA StepScheduled ==
    ASSUME TypeOK, BusyHasJob, Scheduled, [Next]_vars
    PROVE  Scheduled'
<1> USE DEF TypeOK
<1>1. ASSUME NEW who \in {"bus", "settler"}, NEW i \in Jobs, <<who, i>> \in dispatching'
      PROVE  status'[i] # "none"
  <2>1. ASSUME <<who, i>> \in dispatching PROVE status'[i] # "none"
    BY <2>1, RowExists DEF Scheduled
  <2>2. ASSUME NEW j \in Jobs, HandleQueued(j) PROVE status'[i] # "none"
    BY <1>1, <2>1, <2>2 DEF HandleQueued, registry
  <2>3. ASSUME NEW s \in Settlers, ApplySettle(s) PROVE status'[i] # "none"
    <3>1. \/ dispatching' = dispatching
          \/ /\ status[settler[s].job] = "queued" /\ UNCHANGED registry
             /\ dispatching' = dispatching \cup {<<"settler", settler[s].job>>}
      BY <2>3 DEF ApplySettle, SettleMissing
    <3> QED
      BY <1>1, <2>1, <3>1 DEF registry
  <2> QED
    BY <1>1, DispatchFrame, <2>1, <2>2, <2>3 DEF AddToQueue, DropQueuedEvent
<1>2. ASSUME NEW i \in Jobs, bull'[i] # "absent" PROVE status'[i] # "none"
  <2>1. ASSUME bull[i] # "absent" PROVE status'[i] # "none"
    BY <2>1, RowExists DEF Scheduled
  <2>2. ASSUME NEW who \in {"bus", "settler"}, NEW j \in Jobs, AddToQueue(who, j)
        PROVE  status'[i] # "none"
    BY <1>2, <2>1, <2>2, RowExists DEF AddToQueue, Scheduled, queue
  <2>3. ASSUME NEW r \in Runners, NEW j \in Jobs, Take(r, j) PROVE bull[i] # "absent"
    BY <1>2, <2>3 DEF Take
  <2>4. ASSUME NEW r \in Runners, \/ DeferBusy(r) \/ QueueCompletes(r)
                                \/ QueueRetriesOrFails(r)
        PROVE  status'[i] # "none"
    <3>1. MyJob(r) \in Jobs /\ run[r].at # "idle" /\ MyJob(r) = run[r].job
      BY <2>4, SlotJob DEF DeferBusy, LockIsBusy, QueueCompletes, QueueRetriesOrFails, At, MyJob
    <3>2. i = MyJob(r) \/ bull[i] # "absent"
      BY <1>2, <2>4, <3>1 DEF DeferBusy, QueueCompletes, QueueRetriesOrFails
    <3> QED
      BY <2>1, <3>1, <3>2, RowExists DEF Scheduled
  <2>5. ASSUME NEW j \in Jobs, \/ RemoveFromQueue(j) \/ StalledCheck(j)
                               \/ ForgetEntry(j) \/ LoseQueueLock(j)
        PROVE  bull[i] # "absent"
    BY <1>2, <2>5 DEF RemoveFromQueue, StalledCheck, ForgetEntry, LoseQueueLock
  <2>6. ASSUME NEW r \in Runners, Crash(r) PROVE bull[i] # "absent"
    BY <1>2, <2>6 DEF Crash
  <2> QED
    BY <1>2, EntryFrame, <2>1, <2>2, <2>3, <2>4, <2>5, <2>6
<1>3. ASSUME NEW q \in Runners, run'[q].at # "idle" PROVE status'[run'[q].job] # "none"
  <2>1. ASSUME run'[q].job = run[q].job, run[q].at # "idle"
        PROVE  status'[run'[q].job] # "none"
    BY <2>1, RowExists DEF Scheduled, BusyHasJob
  <2>2. ASSUME NEW r \in Runners, NEW j \in Jobs, Take(r, j)
        PROVE  status'[run'[q].job] # "none"
    BY <1>3, <2>1, <2>2, RowExists DEF Take, Scheduled
  <2>3. ASSUME NEW r \in Runners, NEW p \in Places, NEW fatal \in BOOLEAN,
               Move(r, p, fatal), ~At(r, "idle")
        PROVE  status'[run'[q].job] # "none"
    BY <1>3, <2>1, <2>3 DEF Move, At
  <2>4. ASSUME NEW r \in Runners, EngineBegins(r) PROVE status'[run'[q].job] # "none"
    BY <1>3, <2>1, <2>4 DEF EngineBegins, Goto, Move, At
  <2>5. ASSUME NEW r \in Runners, Rest(r) PROVE status'[run'[q].job] # "none"
    BY <1>3, <2>1, <2>5 DEF Rest, Idle
  <2> QED
    BY <1>3, RunMoves, <2>1, <2>2, <2>3, <2>4, <2>5
<1> QED
  BY <1>1, <1>2, <1>3 DEF Scheduled

\* An entry that may still run keeps an attempt for it.
LEMMA StepQueue ==
    ASSUME TypeOK, BusyHasJob, QueueShape, [Next]_vars
    PROVE  QueueShape'
<1> USE DEF TypeOK, QueueShape
<1>1. ASSUME NEW who \in {"bus", "settler"}, NEW j \in Jobs, AddToQueue(who, j) PROVE QueueShape'
  BY <1>1 DEF AddToQueue, queue
<1>2. ASSUME NEW j \in Jobs, RemoveFromQueue(j) PROVE QueueShape'
  BY <1>2 DEF RemoveFromQueue
<1>3. ASSUME NEW j \in Jobs, StalledCheck(j) PROVE QueueShape'
  BY <1>3 DEF StalledCheck
<1>4. ASSUME NEW r \in Runners, NEW j \in Jobs, Take(r, j) PROVE QueueShape'
  BY <1>4 DEF Take
<1>5. ASSUME NEW r \in Runners, DeferBusy(r) PROVE QueueShape'
  BY <1>5 DEF DeferBusy, LockIsBusy, At, MyJob
<1>6. ASSUME NEW r \in Runners, QueueCompletes(r) PROVE QueueShape'
  BY <1>6, SlotJob DEF QueueCompletes, At
<1>7. ASSUME NEW r \in Runners, QueueRetriesOrFails(r) PROVE QueueShape'
  <2>1. MyJob(r) \in Jobs
    BY <1>7, SlotJob DEF QueueRetriesOrFails, At
  <2>2. CASE owner[MyJob(r)] # r
    BY <1>7, <2>2 DEF QueueRetriesOrFails
  <2>3. CASE owner[MyJob(r)] = r
    <3>1. \A j \in Jobs \ {MyJob(r)} :
             bull'[j] = bull[j] /\ owner'[j] = owner[j] /\ tries'[j] = tries[j]
      BY <1>7, <2>1, <2>3 DEF QueueRetriesOrFails
    <3>2. /\ owner'[MyJob(r)] = Nobody
          /\ tries'[MyJob(r)] = tries[MyJob(r)] + 1
          /\ bull'[MyJob(r)] = IF run[r].fatal \/ tries[MyJob(r)] + 1 >= MaxAttempts
                               THEN "failed" ELSE "waiting"
      BY <1>7, <2>1, <2>3 DEF QueueRetriesOrFails
    <3> QED
      BY <2>1, <3>1, <3>2
  <2> QED
    BY <2>2, <2>3
<1>8. ASSUME NEW r \in Runners, Crash(r) PROVE QueueShape'
  BY <1>8 DEF Crash
<1>9. ASSUME NEW j \in Jobs, LoseQueueLock(j) PROVE QueueShape'
  BY <1>9 DEF LoseQueueLock
<1>10. ASSUME NEW j \in Jobs, ForgetEntry(j) PROVE QueueShape'
  BY <1>10 DEF ForgetEntry
<1> QED
  BY EntryFrame, <1>1, <1>2, <1>3, <1>4, <1>5, <1>6, <1>7, <1>8, <1>9, <1>10

\* The flag is raised, and a cancel goes on, only for a closed row.
LEMMA StepFlag ==
    ASSUME TypeOK, BusyHasJob, FlagAfterRow, [Next]_vars
    PROVE  FlagAfterRow'
<1> SUFFICES ASSUME NEW i \in Jobs, i \in flag' \/ canceller'[i] # "no"
             PROVE  status'[i] \in Closed
  BY DEF FlagAfterRow
<1>1. ASSUME i \in flag \/ canceller[i] # "no" PROVE status'[i] \in Closed
  BY <1>1, ClosedStays DEF FlagAfterRow
<1> USE DEF TypeOK
<1>2. ASSUME NEW j \in Jobs, CancelRow(j) PROVE status'[i] \in Closed
  BY <1>1, <1>2 DEF CancelRow, Close
<1>3. ASSUME NEW j \in Jobs, SignalCancel(j) PROVE status'[i] \in Closed
  BY <1>1, <1>3 DEF SignalCancel
<1>4. ASSUME NEW j \in Jobs, RemoveFromQueue(j) PROVE status'[i] \in Closed
  BY <1>1, <1>4 DEF RemoveFromQueue
<1>5. ASSUME NEW j \in Jobs, CancelStops(j) PROVE status'[i] \in Closed
  BY <1>1, <1>5 DEF CancelStops
<1> QED
  BY FlagFrame, <1>1, <1>2, <1>3, <1>4, <1>5

-----------------------------------------------------------------------------
(* A job recorded as done was done.                                           *)

\* WasDone and Over of a job in the next state.
DoneNext(i) == i \in did' \/ (busyWith'[i] # Nobody /\ i \notin Defers)
OverNext(i) == DoneNext(i) \/ status'[i] \in Closed

\* What was done stays done, and a closed row stays closed.
LEMMA DoneStays ==
    ASSUME TypeOK, BusyHasJob, [Next]_vars, NEW i \in Jobs
    PROVE  (WasDone(i) => DoneNext(i)) /\ (Over(i) => OverNext(i))
<1>1. did \subseteq did'
  BY HistoryFrame DEF HandlerReturns, EngineReturns, SkipBusy
<1>2. busyWith[i] # Nobody => busyWith'[i] # Nobody
  <2>1. ASSUME NEW r \in Runners, SkipBusy(r), busyWith[i] # Nobody
        PROVE  busyWith'[i] # Nobody
    <3>1. MyJob(r) \in Jobs /\ KeyOf[MyJob(r)] \in Keys
      BY <2>1, SlotJob DEF SkipBusy, LockIsBusy, At
    <3>2. lock[KeyOf[MyJob(r)]][2] \in Jobs
      BY <2>1, <3>1 DEF SkipBusy, LockIsBusy, TypeOK
    <3> QED
      BY <2>1, <3>1, <3>2 DEF SkipBusy, TypeOK
  <2> QED
    BY HistoryFrame, <2>1 DEF HandlerReturns, EngineReturns
<1>3. WasDone(i) => DoneNext(i)
  BY <1>1, <1>2 DEF WasDone, DoneNext
<1> QED
  BY <1>3, ClosedStays DEF Over, OverNext

\* A slot that skips writes down whose work it found, unless the row is closed.
LEMMA SkipIsRecorded ==
    ASSUME TypeOK, BusyHasJob, NEW r \in Runners, SkipBusy(r)
    PROVE  /\ MyJob(r) \in Jobs
           /\ IsOpen(MyJob(r)) => DoneNext(MyJob(r))
<1>1. MyJob(r) \in Jobs /\ KeyOf[MyJob(r)] \in Keys /\ MyJob(r) \notin Defers
  BY SlotJob DEF SkipBusy, LockIsBusy, At
<1>2. lock[KeyOf[MyJob(r)]][2] \in Jobs
  BY <1>1 DEF SkipBusy, LockIsBusy, TypeOK
<1> QED
  BY <1>1, <1>2 DEF SkipBusy, TypeOK, DoneNext

\* 'succeeded' is written by a slot whose handler returned or was rightly
\* skipped, by a true report, or from a queue entry that completed.
LEMMA StepDoneRow ==
    ASSUME TypeOK, BusyHasJob, DoneRow, DoneSlot, DoneReport, DoneSettler, [Next]_vars
    PROVE  DoneRow'
<1> SUFFICES ASSUME NEW i \in Jobs, status'[i] = "succeeded", status[i] # "succeeded"
             PROVE  WasDone(i)
  BY DoneStays DEF DoneRow, WasDone, DoneNext
<1> USE DEF TypeOK, registry
<1>1. ASSUME NEW j \in Jobs, Schedule(j) \/ CancelRow(j) PROVE FALSE
  BY <1>1 DEF Schedule, CancelRow, Close
<1>2. ASSUME NEW r \in Runners, SkipBusy(r) \/ StartAttempt(r) PROVE FALSE
  BY <1>2 DEF SkipBusy, StartAttempt, StartRow
<1>3. ASSUME NEW r \in Runners, FinishSkipped(r) \/ FinishAttempt(r) PROVE WasDone(i)
  BY <1>3 DEF FinishSkipped, FinishAttempt, Close, DoneSlot, MyJob, At
<1>4. ASSUME NEW r \in Runners, ReportFailure(r) PROVE FALSE
  BY <1>4 DEF ReportFailure, Close, FailAttempt
<1>5. ASSUME NEW m \in reports, ReceiveReport(m) PROVE WasDone(i)
  BY <1>5 DEF ReceiveReport, ApplyReport, Close, StartRow, FailAttempt, DoneReport
<1>6. ASSUME NEW s \in Settlers, ApplySettle(s) PROVE WasDone(i)
  <2>1. \/ Close(settler[s].job, "failed") \/ Requeue(settler[s].job)
        \/ UNCHANGED registry
        \/ settler[s].seen = "completed" /\ Close(settler[s].job, "succeeded")
    BY <1>6 DEF ApplySettle, SettleMissing
  <2>2. settler[s].at = "apply"
    BY <1>6 DEF ApplySettle
  <2>3. ASSUME Close(settler[s].job, "failed") \/ Requeue(settler[s].job)
        PROVE  FALSE
    BY <2>3 DEF Close, Requeue
  <2>4. ASSUME settler[s].seen = "completed", Close(settler[s].job, "succeeded")
        PROVE  WasDone(i)
    <3>1. i = settler[s].job /\ IsOpen(i)
      BY <2>4 DEF Close
    <3> QED
      BY <2>2, <2>4, <3>1 DEF DoneSettler, Over, IsOpen
  <2> QED
    BY <2>1, <2>3, <2>4
<1> QED
  BY RowFrame, <1>1, <1>2, <1>3, <1>4, <1>5, <1>6

\* BullMQ completes an entry only for a slot that is done with its job.
LEMMA StepDoneEntry ==
    ASSUME TypeOK, BusyHasJob, DoneEntry, DoneSlot, [Next]_vars
    PROVE  DoneEntry'
<1> SUFFICES ASSUME NEW i \in Jobs, bull'[i] = "completed", bull[i] # "completed"
             PROVE  Over(i)
  BY DoneStays DEF DoneEntry, Over, WasDone, OverNext, DoneNext
<1> USE DEF TypeOK, queue
<1>1. ASSUME NEW j \in Jobs, \/ RemoveFromQueue(j) \/ StalledCheck(j)
                             \/ ForgetEntry(j) \/ LoseQueueLock(j)
      PROVE  FALSE
  BY <1>1 DEF RemoveFromQueue, StalledCheck, ForgetEntry, LoseQueueLock
<1>2. ASSUME NEW who \in {"bus", "settler"}, NEW j \in Jobs, AddToQueue(who, j) PROVE FALSE
  BY <1>2 DEF AddToQueue
<1>3. ASSUME NEW r \in Runners, NEW j \in Jobs, Take(r, j) PROVE FALSE
  BY <1>3 DEF Take
<1>4. ASSUME NEW r \in Runners, DeferBusy(r) \/ QueueRetriesOrFails(r) \/ Crash(r) PROVE FALSE
  BY <1>4 DEF DeferBusy, QueueRetriesOrFails, Crash
<1>5. ASSUME NEW r \in Runners, QueueCompletes(r) PROVE Over(i)
  BY <1>5 DEF QueueCompletes, DoneSlot, MyJob, At
<1> QED
  BY EntryFrame, <1>1, <1>2, <1>3, <1>4, <1>5

\* A slot comes to its end only with a result, a skip or a closed row.
LEMMA StepDoneSlot ==
    ASSUME TypeOK, BusyHasJob, Scheduled, FlagAfterRow, DoneSlot, [Next]_vars
    PROVE  DoneSlot'
<1> DEFINE SlotDone(q) ==
             /\ run'[q].at \in {"skipped", "returned"} => DoneNext(run'[q].job)
             /\ run'[q].at = "complete" => OverNext(run'[q].job)
<1> SUFFICES ASSUME NEW q \in Runners PROVE SlotDone(q)
  BY DEF DoneSlot, WasDone, Over, DoneNext, OverNext
<1> USE DEF TypeOK
<1>1. ASSUME run'[q] = run[q] PROVE SlotDone(q)
  BY <1>1, DoneStays DEF DoneSlot, BusyHasJob

<1>2. ASSUME NEW r \in Runners, NEW j \in Jobs, Take(r, j) PROVE SlotDone(q)
  BY <1>1, <1>2 DEF Take

<1>3. ASSUME NEW r \in Runners, GetLock(r) PROVE SlotDone(q)
  BY <1>1, <1>3 DEF GetLock, Goto, Move

<1>4. ASSUME NEW r \in Runners, DeferBusy(r) PROVE SlotDone(q)
  BY <1>1, <1>4 DEF DeferBusy, Rest, Idle

<1>5. ASSUME NEW r \in Runners, SkipBusy(r) PROVE SlotDone(q)
  <2>1. CASE q # r
    BY <1>1, <1>5, <2>1 DEF SkipBusy, Goto, Move
  <2>2. CASE q = r
    <3>1. /\ run[r].at = "lock" /\ MyJob(r) = run[r].job /\ run[r].job \in Jobs
          /\ run'[r].job = run[r].job
      BY <1>5, SlotJob DEF SkipBusy, Goto, Move, At, MyJob, LockIsBusy
    <3>2. \/ IsOpen(run[r].job) /\ run'[r].at = "skipped"
          \/ run'[r].at = "complete" /\ status[run[r].job] \in Closed
      BY <1>5, <3>1 DEF SkipBusy, Goto, Move, IsOpen, Scheduled
    <3>3. IsOpen(run[r].job) => DoneNext(run[r].job)
      BY <1>5, <3>1, SkipIsRecorded
    <3> QED
      BY <2>2, <3>1, <3>2, <3>3, ClosedStays DEF OverNext
  <2> QED
    BY <2>1, <2>2

<1>6. ASSUME NEW r \in Runners, FinishSkipped(r) PROVE SlotDone(q)
  <2>1. CASE q # r
    BY <1>1, <1>6, <2>1 DEF FinishSkipped, Goto, Move
  <2>2. CASE q = r
    <3>1. /\ run[r].at = "skipped" /\ MyJob(r) = run[r].job /\ run[r].job \in Jobs
          /\ run'[r].job = run[r].job
      BY <1>6, SlotJob DEF FinishSkipped, Goto, Move, At, MyJob
    <3>2. DoneNext(run[r].job) /\ run'[r].at = "complete"
      BY <1>6, <3>1, DoneStays DEF FinishSkipped, Goto, Move, DoneSlot
    <3> QED
      BY <2>2, <3>1, <3>2 DEF OverNext
  <2> QED
    BY <2>1, <2>2

<1>7. ASSUME NEW r \in Runners, StartAttempt(r) PROVE SlotDone(q)
  <2>1. CASE q # r
    BY <1>1, <1>7, <2>1 DEF StartAttempt, Goto, Move
  <2>2. CASE q = r
    <3>1. /\ run[r].at = "start" /\ MyJob(r) = run[r].job /\ run[r].job \in Jobs
          /\ run'[r].job = run[r].job
      BY <1>7, SlotJob DEF StartAttempt, Goto, Move, At, MyJob
    <3>2. \/ run'[r].at = "check"
          \/ run'[r].at = "complete" /\ status[run[r].job] \in Closed
      BY <1>7, <3>1 DEF StartAttempt, Goto, Move, IsOpen, Scheduled
    <3> QED
      BY <2>2, <3>1, <3>2, ClosedStays DEF OverNext
  <2> QED
    BY <2>1, <2>2

<1>8. ASSUME NEW r \in Runners, BeginWork(r) PROVE SlotDone(q)
  <2>1. CASE q # r
    BY <1>1, <1>8, <2>1 DEF BeginWork, Goto, Move
  <2>2. CASE q = r
    <3>1. /\ run[r].at = "check" /\ MyJob(r) = run[r].job /\ run[r].job \in Jobs
          /\ run'[r].job = run[r].job
      BY <1>8, SlotJob DEF BeginWork, Goto, Move, At, MyJob
    <3>2. \/ run'[r].at \in {"work", "threw", "engine"}
          \/ run'[r].at = "complete" /\ run[r].job \in flag
      BY <1>8, <3>1 DEF BeginWork, Goto, Move
    <3> QED
      BY <2>2, <3>1, <3>2, ClosedStays DEF OverNext, FlagAfterRow
  <2> QED
    BY <2>1, <2>2

<1>9. ASSUME NEW r \in Runners, HandlerReturns(r) PROVE SlotDone(q)
  <2>1. CASE q # r
    BY <1>1, <1>9, <2>1 DEF HandlerReturns, Goto, Move
  <2>2. CASE q = r
    <3>1. /\ run[r].at = "work" /\ MyJob(r) = run[r].job /\ run[r].job \in Jobs
          /\ run'[r].job = run[r].job
      BY <1>9, SlotJob DEF HandlerReturns, Goto, Move, At, MyJob
    <3>2. run[r].job \in did' /\ run'[r].at \in {"returned", "complete"}
      BY <1>9, <3>1 DEF HandlerReturns, Goto, Move
    <3> QED
      BY <2>2, <3>1, <3>2 DEF DoneNext, OverNext
  <2> QED
    BY <2>1, <2>2

<1>10. ASSUME NEW r \in Runners, NEW fatal \in BOOLEAN, HandlerThrows(r, fatal) PROVE SlotDone(q)
  BY <1>1, <1>10 DEF HandlerThrows, Move

<1>11. ASSUME NEW r \in Runners, AbortWork(r) PROVE SlotDone(q)
  <2>1. CASE q # r
    BY <1>1, <1>11, <2>1 DEF AbortWork, Goto, Move
  <2>2. CASE q = r
    <3>1. /\ run[r].at = "work" /\ MyJob(r) = run[r].job /\ run[r].job \in Jobs
          /\ run'[r].job = run[r].job
      BY <1>11, SlotJob DEF AbortWork, Goto, Move, At, MyJob
    <3>2. \/ run'[r].at \in {"work", "threw", "engine"}
          \/ run'[r].at = "complete" /\ run[r].job \in flag
      BY <1>11, <3>1 DEF AbortWork, Goto, Move
    <3> QED
      BY <2>2, <3>1, <3>2, ClosedStays DEF OverNext, FlagAfterRow
  <2> QED
    BY <2>1, <2>2

<1>12. ASSUME NEW r \in Runners, FinishAttempt(r) PROVE SlotDone(q)
  <2>1. CASE q # r
    BY <1>1, <1>12, <2>1 DEF FinishAttempt, Goto, Move
  <2>2. CASE q = r
    <3>1. /\ run[r].at = "returned" /\ MyJob(r) = run[r].job /\ run[r].job \in Jobs
          /\ run'[r].job = run[r].job
      BY <1>12, SlotJob DEF FinishAttempt, Goto, Move, At, MyJob
    <3>2. DoneNext(run[r].job) /\ run'[r].at = "complete"
      BY <1>12, <3>1, DoneStays DEF FinishAttempt, Goto, Move, DoneSlot
    <3> QED
      BY <2>2, <3>1, <3>2 DEF OverNext
  <2> QED
    BY <2>1, <2>2

<1>13. ASSUME NEW r \in Runners, ReportFailure(r) PROVE SlotDone(q)
  BY <1>1, <1>13 DEF ReportFailure, Goto, Move

<1>14. ASSUME NEW r \in Runners, QueueCompletes(r) PROVE SlotDone(q)
  BY <1>1, <1>14 DEF QueueCompletes, Rest, Idle

<1>15. ASSUME NEW r \in Runners, QueueRetriesOrFails(r) PROVE SlotDone(q)
  BY <1>1, <1>15 DEF QueueRetriesOrFails, Rest, Idle

<1>16. ASSUME NEW r \in Runners, EngineBegins(r) PROVE SlotDone(q)
  <2>1. CASE q # r
    BY <1>1, <1>16, <2>1 DEF EngineBegins, Goto, Move
  <2>2. CASE q = r
    <3>1. /\ run[r].at = "flag" /\ MyJob(r) = run[r].job /\ run[r].job \in Jobs
          /\ run'[r].job = run[r].job
      BY <1>16, SlotJob DEF EngineBegins, Goto, Move, At, MyJob
    <3>2. \/ run'[r].at \in {"work", "threw", "engine"}
          \/ run'[r].at = "complete" /\ run[r].job \in flag
      BY <1>16, <3>1 DEF EngineBegins, Goto, Move
    <3> QED
      BY <2>2, <3>1, <3>2, ClosedStays DEF OverNext, FlagAfterRow
  <2> QED
    BY <2>1, <2>2

<1>17. ASSUME NEW r \in Runners, EngineReturns(r) PROVE SlotDone(q)
  <2>1. CASE q # r
    BY <1>1, <1>17, <2>1 DEF EngineReturns, Goto, Move
  <2>2. CASE q = r
    <3>1. /\ run[r].at = "engine" /\ MyJob(r) = run[r].job /\ run[r].job \in Jobs
          /\ run'[r].job = run[r].job
      BY <1>17, SlotJob DEF EngineReturns, Goto, Move, At, MyJob
    <3>2. run[r].job \in did' /\ run'[r].at \in {"returned", "complete"}
      BY <1>17, <3>1 DEF EngineReturns, Goto, Move
    <3> QED
      BY <2>2, <3>1, <3>2 DEF DoneNext, OverNext
  <2> QED
    BY <2>1, <2>2

<1>18. ASSUME NEW r \in Runners, NEW fatal \in BOOLEAN, EngineThrows(r, fatal) PROVE SlotDone(q)
  BY <1>1, <1>18 DEF EngineThrows, Move

<1>19. ASSUME NEW r \in Runners, EngineAborts(r) PROVE SlotDone(q)
  <2>1. CASE q # r
    BY <1>1, <1>19, <2>1 DEF EngineAborts, Goto, Move
  <2>2. CASE q = r
    <3>1. /\ run[r].at = "engine" /\ MyJob(r) = run[r].job /\ run[r].job \in Jobs
          /\ run'[r].job = run[r].job
      BY <1>19, SlotJob DEF EngineAborts, Goto, Move, At, MyJob
    <3>2. \/ run'[r].at \in {"work", "threw", "engine"}
          \/ run'[r].at = "complete" /\ run[r].job \in flag
      BY <1>19, <3>1 DEF EngineAborts, Goto, Move
    <3> QED
      BY <2>2, <3>1, <3>2, ClosedStays DEF OverNext, FlagAfterRow
  <2> QED
    BY <2>1, <2>2

<1>20. ASSUME NEW r \in Runners, Crash(r) PROVE SlotDone(q)
  BY <1>1, <1>20 DEF Crash, Rest, Idle

<1>21. ASSUME NEW r \in Runners, FinishThrows(r) PROVE SlotDone(q)
  <2>1. CASE q # r
    BY <1>1, <1>21, <2>1 DEF FinishThrows, Goto, Move
  <2>2. CASE q = r
    <3>1. /\ run[r].at = "returned" /\ MyJob(r) = run[r].job /\ run[r].job \in Jobs
          /\ run'[r].job = run[r].job
      BY <1>21, SlotJob DEF FinishThrows, Goto, Move, At, MyJob
    <3>2. \/ run'[r].at = "threw"
          \/ run'[r].at = "complete" /\ run[r].job \in flag
      BY <1>21, <3>1 DEF FinishThrows, Goto, Move
    <3> QED
      BY <2>2, <3>1, <3>2, ClosedStays DEF OverNext, FlagAfterRow
  <2> QED
    BY <2>1, <2>2

<1>22. ASSUME NEW r \in Runners, AttemptThrows(r) PROVE SlotDone(q)
  BY <1>1, <1>22 DEF AttemptThrows, Move

<1> QED
  BY RunFrame,
     <1>1, <1>2, <1>3, <1>4, <1>5, <1>6, <1>7, <1>8, <1>9, <1>10, <1>11,
     <1>12, <1>13, <1>14, <1>15, <1>16, <1>17, <1>18, <1>19, <1>20, <1>21, <1>22

\* The engine reports success after its handler has returned.
LEMMA StepDoneReport ==
    ASSUME TypeOK, BusyHasJob, DoneReport, [Next]_vars
    PROVE  DoneReport'
<1> SUFFICES ASSUME NEW m \in reports', m.kind = "succeeded" PROVE DoneNext(m.job)
  BY DEF DoneReport, WasDone, DoneNext
<1>1. ASSUME m \in reports PROVE DoneNext(m.job)
  BY <1>1, DoneStays DEF DoneReport, TypeOK, Report
<1>2. ASSUME NEW r \in Runners, EngineReturns(r) PROVE DoneNext(m.job)
  BY <1>1, <1>2 DEF EngineReturns, DoneNext
<1>3. ASSUME NEW r \in Runners, EngineBegins(r) PROVE m \in reports
  BY <1>3 DEF EngineBegins
<1>4. ASSUME NEW r \in Runners, NEW fatal \in BOOLEAN, EngineThrows(r, fatal)
      PROVE  m \in reports
  BY <1>4 DEF EngineThrows
<1>5. ASSUME NEW n \in reports, ReceiveReport(n) \/ LoseReport(n) PROVE m \in reports
  BY <1>5 DEF ReceiveReport, LoseReport
<1> QED
  BY ReportFrame, <1>1, <1>2, <1>3, <1>4, <1>5

\* A settler that saw 'completed' saw it of a job with nothing left to do.
LEMMA StepDoneSettler ==
    ASSUME TypeOK, BusyHasJob, DoneEntry, DoneSettler, [Next]_vars
    PROVE  DoneSettler'
<1> SUFFICES ASSUME NEW q \in Settlers, settler'[q].at = "apply",
                    settler'[q].seen = "completed"
             PROVE  OverNext(settler'[q].job)
  BY DEF DoneSettler, Over, WasDone, OverNext, DoneNext
<1> USE DEF TypeOK
<1>1. ASSUME settler'[q] = settler[q] PROVE OverNext(settler'[q].job)
  BY <1>1, DoneStays DEF DoneSettler, BusyHasJob
<1>2. ASSUME NEW s \in Settlers, NEW j \in Jobs, ReadOpenRow(s, j)
      PROVE  OverNext(settler'[q].job)
  BY <1>1, <1>2 DEF ReadOpenRow, Settle
<1>3. ASSUME NEW s \in Settlers, ReadQueueState(s) PROVE OverNext(settler'[q].job)
  <2>1. CASE q # s
    BY <1>1, <1>3, <2>1 DEF ReadQueueState, Settle
  <2>2. CASE q = s
    <3>1. /\ settler'[q].job = settler[q].job /\ settler[q].job \in Jobs
          /\ bull[settler[q].job] = "completed"
      BY <1>3, <2>2 DEF ReadQueueState, Settle, BusyHasJob
    <3> QED
      BY <3>1, DoneStays DEF DoneEntry
  <2> QED
    BY <2>1, <2>2
<1>4. ASSUME NEW s \in Settlers, ApplySettle(s) PROVE OverNext(settler'[q].job)
  BY <1>1, <1>4 DEF ApplySettle, Settle, SettleIdle
<1> QED
  BY SettlerFrame, <1>1, <1>2, <1>3, <1>4

-----------------------------------------------------------------------------
(* One handler per key.                                                       *)

\* Whoever is inside runLocked, or left work behind, holds the key's lock.
Holds(r, j) == InLocked(r, j) \/ j \in stray[r]

\* A run about to start whose earlier work goes on: what the lock forbids.
Overlaps(r, j) == At(r, "start") /\ MyJob(r) = j /\ j \in stray[r]

\* A step that leaves the locks alone and makes nobody a holder is harmless.
LEMMA NoNewHolder ==
    ASSUME WorkHoldsLock, lock' = lock,
           \A r \in Runners, j \in Jobs :
             Holds(r, j)' => Holds(r, j) /\ (Overlaps(r, j)' => Overlaps(r, j))
    PROVE  WorkHoldsLock'
BY DEF WorkHoldsLock, Holds, Overlaps

\* Every step leaves each key's lock with whoever works for it.
LEMMA StepLock ==
    ASSUME TypeOK, BusyHasJob, WorkHoldsLock, [Next]_vars
    PROVE  WorkHoldsLock'
<1> USE DEF TypeOK
<1>1. ASSUME UNCHANGED <<run, stray, lock>> PROVE WorkHoldsLock'
  BY <1>1 DEF WorkHoldsLock, InLocked, At, MyJob
<1>2. ASSUME NEW r \in Runners, NEW j \in Jobs, Take(r, j) PROVE WorkHoldsLock'
  BY <1>2, NoNewHolder DEF Take, Overlaps, Holds, InLocked, At, MyJob
<1>3. ASSUME NEW r \in Runners, GetLock(r) PROVE WorkHoldsLock'
  <2> DEFINE m == MyJob(r)
  <2>1. m \in Jobs /\ run[r].at = "lock" /\ run[r].job = m
    BY <1>3, SlotJob DEF GetLock, At, MyJob
  <2>2. /\ run'[r].at = "start" /\ run'[r].job = m /\ UNCHANGED stray
        /\ \A q \in Runners \ {r} : run'[q] = run[q]
    BY <1>3, <2>1 DEF GetLock, Goto, Move
  <2>3. CASE KeyOf[m] = NoKey
    <3>1. lock' = lock
      BY <1>3, <2>1, <2>3 DEF GetLock
    <3> QED
      BY <2>1, <2>2, <2>3, <3>1 DEF WorkHoldsLock, InLocked, At, MyJob
  <2>4. CASE KeyOf[m] # NoKey
    <3>1. /\ KeyOf[m] \in Keys /\ lock[KeyOf[m]] = Nobody
          /\ lock' = [lock EXCEPT ![KeyOf[m]] = <<r, m>>]
      BY <1>3, <2>1, <2>4 DEF GetLock
    <3>2. \A q \in Runners, j \in Jobs : KeyOf[j] = KeyOf[m] => ~Holds(q, j)
      <4> SUFFICES ASSUME NEW q \in Runners, NEW j \in Jobs, KeyOf[j] = KeyOf[m], Holds(q, j)
                   PROVE  FALSE
        OBVIOUS
      <4>1. lock[KeyOf[j]] = <<q, j>>
        BY <2>4 DEF WorkHoldsLock, Holds
      <4>2. <<q, j>> \in Runners \X Jobs
        OBVIOUS
      <4> QED
        BY <3>1, <4>1, <4>2
    <3>3. ASSUME NEW q \in Runners, NEW j \in Jobs, KeyOf[j] # NoKey, Holds(q, j)'
          PROVE  lock'[KeyOf[j]] = <<q, j>> /\ ~(At(q, "start")' /\ MyJob(q)' = j /\ j \in stray'[q])
      <4>1. CASE q = r /\ j = m
        <5>1. j \notin stray[q]
          BY <3>2, <4>1 DEF Holds
        <5> QED
          BY <2>2, <3>1, <4>1, <5>1
      <4>2. CASE ~(q = r /\ j = m)
        <5>1. Holds(q, j) /\ (At(q, "start")' /\ MyJob(q)' = j => At(q, "start") /\ MyJob(q) = j)
          BY <2>1, <2>2, <3>3, <4>2 DEF Overlaps, Holds, InLocked, At, MyJob
        <5>2. KeyOf[j] \in Keys /\ KeyOf[j] # KeyOf[m]
          BY <3>2, <3>3, <5>1
        <5> QED
          BY <2>2, <3>1, <3>3, <5>1, <5>2 DEF WorkHoldsLock, Holds
      <4> QED
        BY <4>1, <4>2
    <3> QED
      BY <3>3 DEF WorkHoldsLock, Holds
  <2> QED
    BY <2>3, <2>4
<1>4. ASSUME NEW r \in Runners, \/ DeferBusy(r) \/ SkipBusy(r) \/ FinishSkipped(r)
                              \/ HandlerReturns(r) \/ FinishAttempt(r) \/ ReportFailure(r)
                              \/ QueueCompletes(r) \/ QueueRetriesOrFails(r) \/ FinishThrows(r)
                              \/ EngineBegins(r) \/ EngineReturns(r) \/ EngineAborts(r)
      PROVE  WorkHoldsLock'
  <2>1. /\ UNCHANGED <<stray, lock>>
        /\ \/ Rest(r)
           \/ /\ run[r].at \in {"work", "returned"}
              /\ \E p \in {"returned", "complete", "threw"} : Goto(r, p)
           \/ \E p \in {"skipped", "complete", "failing", "engine"} : Goto(r, p)
    BY <1>4 DEF DeferBusy, SkipBusy, FinishSkipped, HandlerReturns, FinishAttempt,
                ReportFailure, QueueCompletes, QueueRetriesOrFails, FinishThrows,
                EngineBegins, EngineReturns, EngineAborts, At
  <2>2. \A q \in Runners, j \in Jobs :
          Holds(q, j)' => Holds(q, j) /\ (Overlaps(q, j)' => Overlaps(q, j))
    BY <2>1 DEF Overlaps, Holds, InLocked, At, MyJob, Rest, Idle, Goto, Move
  <2> QED
    BY <2>1, <2>2, NoNewHolder
<1>5. ASSUME NEW r \in Runners, NEW fatal \in BOOLEAN,
             HandlerThrows(r, fatal) \/ EngineThrows(r, fatal)
      PROVE  WorkHoldsLock'
  <2>1. \A q \in Runners, j \in Jobs :
          Holds(q, j)' => Holds(q, j) /\ (Overlaps(q, j)' => Overlaps(q, j))
    BY <1>5 DEF HandlerThrows, EngineThrows, Overlaps, Holds, InLocked, At, MyJob, Move
  <2> QED
    BY <1>5, <2>1, NoNewHolder DEF HandlerThrows, EngineThrows
<1>6. ASSUME NEW r \in Runners, At(r, "start"), StartAttempt(r) \/ AttemptThrows(r)
      PROVE  WorkHoldsLock'
  <2> DEFINE m == MyJob(r)
  <2>1. m \in Jobs /\ run[r].at = "start" /\ run[r].job = m
    BY <1>6, SlotJob DEF At, MyJob
  <2>2. /\ run'[r].job = m /\ UNCHANGED stray
        /\ \A q \in Runners \ {r} : run'[q] = run[q]
        /\ \/ run'[r].at = "check" /\ lock' = lock
           \/ /\ run'[r].at \in {"complete", "failing"}
              /\ lock' = [k \in Keys |-> IF k = KeyOf[m] /\ MyLock(r, m) THEN Nobody ELSE lock[k]]
    BY <1>6, <2>1 DEF StartAttempt, AttemptThrows, Goto, Move
  <2>3. ASSUME NEW q \in Runners, NEW j \in Jobs, Holds(q, j)'
        PROVE  Holds(q, j) /\ (Overlaps(q, j)' => Overlaps(q, j))
    BY <2>1, <2>2, <2>3 DEF Overlaps, Holds, InLocked, At, MyJob
  <2>4. CASE lock' = lock
    BY <2>3, <2>4, NoNewHolder
  <2>5. CASE /\ run'[r].at \in {"complete", "failing"}
             /\ lock' = [k \in Keys |-> IF k = KeyOf[m] /\ MyLock(r, m) THEN Nobody ELSE lock[k]]
    <3>1. ASSUME NEW q \in Runners, NEW j \in Jobs, KeyOf[j] # NoKey, Holds(q, j)'
          PROVE  lock'[KeyOf[j]] = <<q, j>> /\ ~(At(q, "start")' /\ MyJob(q)' = j /\ j \in stray'[q])
      <4>1. Holds(q, j) /\ KeyOf[j] \in Keys /\ lock[KeyOf[j]] = <<q, j>>
        BY <2>3, <3>1 DEF WorkHoldsLock, Holds
      <4>2. ~(q = r /\ j = m)
        <5> SUFFICES ASSUME q = r, j = m PROVE FALSE
          OBVIOUS
        <5>1. InLocked(r, m) /\ At(r, "start") /\ MyJob(r) = m
          BY <2>1 DEF InLocked, At, MyJob
        <5>2. m \notin stray[r]
          BY <2>1, <3>1, <5>1 DEF WorkHoldsLock
        <5> QED
          BY <2>2, <2>5, <3>1, <5>2 DEF Overlaps, Holds, InLocked
      <4>3. ~(KeyOf[j] = KeyOf[m] /\ MyLock(r, m))
        BY <4>1, <4>2 DEF MyLock
      <4>4. lock'[KeyOf[j]] = lock[KeyOf[j]]
        BY <2>5, <4>1, <4>3
      <4>5. ~(At(q, "start")' /\ MyJob(q)' = j /\ j \in stray'[q])
        BY <2>2, <2>5, <3>1, <4>1 DEF WorkHoldsLock, Holds, At, MyJob
      <4> QED
        BY <4>1, <4>4, <4>5
    <3> QED
      BY <3>1 DEF WorkHoldsLock, Holds
  <2> QED
    BY <2>2, <2>4, <2>5
<1>7. ASSUME NEW r \in Runners, BeginWork(r) \/ AbortWork(r) PROVE WorkHoldsLock'
  <2>1. /\ run[r].at \in {"check", "work"} /\ MyJob(r) \in Jobs
        /\ UNCHANGED lock
        /\ stray' = stray \/ stray' = [stray EXCEPT ![r] = @ \cup {MyJob(r)}]
        /\ \E p \in {"complete", "work", "threw"} : Goto(r, p)
    BY <1>7, SlotJob DEF BeginWork, AbortWork, At
  <2>2. \A q \in Runners, j \in Jobs :
          Holds(q, j)' => Holds(q, j) /\ (Overlaps(q, j)' => Overlaps(q, j))
    BY <2>1 DEF Overlaps, Holds, InLocked, At, MyJob, Goto, Move
  <2> QED
    BY <2>1, <2>2, NoNewHolder
<1>8. ASSUME NEW r \in Runners, NEW j \in Jobs, StrayEnds(r, j) PROVE WorkHoldsLock'
  BY <1>8, NoNewHolder DEF StrayEnds, Overlaps, Holds, InLocked, At, MyJob
<1>9. ASSUME NEW r \in Runners, NEW j \in Jobs, Unlock(r, j) PROVE WorkHoldsLock'
  <2>1. ~Holds(r, j) /\ lock[KeyOf[j]] = <<r, j>> /\ UNCHANGED <<run, stray>>
    BY <1>9 DEF Unlock, Holds, MyLock
  <2>2. ASSUME NEW q \in Runners, NEW i \in Jobs, KeyOf[i] # NoKey, Holds(q, i)
        PROVE  lock'[KeyOf[i]] = <<q, i>>
    <3>1. lock[KeyOf[i]] = <<q, i>> /\ KeyOf[i] \in Keys
      BY <2>2 DEF WorkHoldsLock, Holds
    <3>2. KeyOf[i] # KeyOf[j]
      BY <2>1, <2>2, <3>1
    <3> QED
      BY <1>9, <3>1, <3>2 DEF Unlock
  <2> QED
    BY <2>1, <2>2 DEF WorkHoldsLock, Holds, InLocked, At, MyJob
<1>10. ASSUME NEW r \in Runners, Crash(r) PROVE WorkHoldsLock'
  <2>1. ASSUME NEW q \in Runners, NEW i \in Jobs, KeyOf[i] # NoKey, Holds(q, i)'
        PROVE  q # r /\ run'[q] = run[q] /\ stray'[q] = stray[q]
    BY <1>10, <2>1 DEF Crash, Rest, Idle, Holds, InLocked, MyJob
  <2>2. ASSUME NEW q \in Runners, NEW i \in Jobs, KeyOf[i] # NoKey, Holds(q, i)'
        PROVE  /\ lock'[KeyOf[i]] = <<q, i>>
               /\ ~(At(q, "start")' /\ MyJob(q)' = i /\ i \in stray'[q])
    <3>1. Holds(q, i) /\ q # r
      BY <2>1, <2>2 DEF Overlaps, Holds, InLocked, MyJob
    <3>2. /\ KeyOf[i] \in Keys /\ lock[KeyOf[i]] = <<q, i>>
          /\ ~(At(q, "start") /\ MyJob(q) = i /\ i \in stray[q])
      BY <2>2, <3>1 DEF WorkHoldsLock, Holds
    <3>3. \A j \in Jobs : lock[KeyOf[i]] # <<r, j>>
      BY <3>1, <3>2
    <3>4. lock'[KeyOf[i]] = lock[KeyOf[i]]
      BY <1>10, <3>2, <3>3 DEF Crash
    <3> QED
      BY <2>1, <2>2, <3>2, <3>4 DEF At, MyJob
  <2> QED
    BY <2>2 DEF WorkHoldsLock, Holds
<1>11. ASSUME NEW r \in Runners, ~At(r, "start"), AttemptThrows(r) PROVE WorkHoldsLock'
  <2>1. \A q \in Runners, j \in Jobs :
          Holds(q, j)' => Holds(q, j) /\ (Overlaps(q, j)' => Overlaps(q, j))
    BY <1>11 DEF AttemptThrows, Holds, Overlaps, InLocked, At, MyJob, Move
  <2>2. lock' = lock
    BY <1>11 DEF AttemptThrows
  <2> QED
    BY <2>1, <2>2, NoNewHolder
<1>12. ASSUME NEW r \in Runners, StartAttempt(r) PROVE At(r, "start")
  BY <1>12 DEF StartAttempt
<1> QED
  BY LockFrame, <1>1, <1>2, <1>3, <1>4, <1>5, <1>6, <1>7, <1>8, <1>9, <1>10, <1>11, <1>12

-----------------------------------------------------------------------------
(* The theorems.                                                              *)

\* The strengthened invariant with the type of the published events.
JobsInv == IndInv /\ published \in [Jobs -> Seq(Closed)]

\* The initial states satisfy the invariant.
LEMMA InitInductive == Init => JobsInv
<1> SUFFICES ASSUME Init PROVE JobsInv
  OBVIOUS
<1>1. TypeOK
  BY DEF Init, TypeOK, Idle, Slot, Places, SettleIdle, Settling
<1>2. BusyHasJob /\ QueueShape /\ Scheduled
  BY DEF Init, Idle, SettleIdle, BusyHasJob, QueueShape, Scheduled
<1>3. ClosesOnce /\ FlagAfterRow /\ published \in [Jobs -> Seq(Closed)]
  BY DEF Init, ClosesOnce, FlagAfterRow
<1>4. DoneRow /\ DoneEntry /\ DoneSlot /\ DoneReport /\ DoneSettler
  BY DEF Init, Idle, SettleIdle, DoneRow, DoneEntry, DoneSlot, DoneReport, DoneSettler
<1>5. WorkHoldsLock
  BY DEF Init, Idle, WorkHoldsLock, InLocked, MyJob, At
<1> QED
  BY <1>1, <1>2, <1>3, <1>4, <1>5 DEF JobsInv, IndInv

\* Every step preserves the invariant.
LEMMA StepInductive == JobsInv /\ [Next]_vars => JobsInv'
BY StepTyped, StepBusy, StepScheduled, StepQueue, StepCloses, StepFlag, StepDoneRow,
   StepDoneEntry, StepDoneSlot, StepDoneReport, StepDoneSettler, StepLock
   DEF JobsInv, IndInv

\* The invariant holds in every reachable state.
THEOREM JobsInvariance == Spec => []IndInv
<1>1. JobsInv => IndInv
  BY DEF JobsInv
<1> QED
  BY InitInductive, StepInductive, <1>1, PTL DEF Spec

\* Every variable keeps its type.
THEOREM JobsTypeCorrect == Spec => []TypeOK
<1>1. IndInv => TypeOK
  BY DEF IndInv
<1> QED
  BY JobsInvariance, <1>1, PTL

\* A job publishes exactly one closing event, that of the status it closed with.
THEOREM JobsCloseOnce == Spec => []ClosesOnce
<1>1. IndInv => ClosesOnce
  BY DEF IndInv
<1> QED
  BY JobsInvariance, <1>1, PTL

\* A job recorded as done was done or rightly skipped.
THEOREM JobsSucceedTruly == Spec => []SucceededWasDone
<1>1. IndInv => SucceededWasDone
  BY DEF IndInv, DoneRow, WasDone, SucceededWasDone
<1> QED
  BY JobsInvariance, <1>1, PTL

\* No two handlers of one single-run key are at work at the same time.
THEOREM JobsSingleRun == Spec => []OneWorkPerKey
<1>1. IndInv => OneWorkPerKey
  <2> SUFFICES ASSUME IndInv, NEW r \in Runners, NEW q \in Runners,
                      NEW i \in Jobs, NEW j \in Jobs,
                      KeyOf[i] # NoKey, KeyOf[i] = KeyOf[j], Working(r, i), Working(q, j)
               PROVE  r = q /\ i = j
    BY DEF OneWorkPerKey
  <2>1. ASSUME NEW p \in Runners, NEW n \in Jobs, KeyOf[n] # NoKey, Working(p, n)
        PROVE  lock[KeyOf[n]] = <<p, n>>
    BY <2>1 DEF IndInv, WorkHoldsLock, Working, InLocked, BusyHasJob, MyJob
  <2>2. lock[KeyOf[i]] = <<r, i>> /\ lock[KeyOf[j]] = <<q, j>>
    BY <2>1
  <2> QED
    BY <2>2
<1> QED
  BY JobsInvariance, <1>1, PTL
=============================================================================
