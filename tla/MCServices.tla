----------------------------- MODULE MCServices -----------------------------
(* Small instances of the services of the platform.  They share nothing but   *)
(* the bus and the jobs, which have modules of their own, so a run works one   *)
(* of them at a time: `part` is chosen in the initial state and stays.        *)
EXTENDS RuleRuns, Inbox, StepTimers, SharedDocument, Uploads, Numbering,
        ParallelRouteInductive, Access, TLC

CONSTANT Parts
VARIABLE part
servicesVars == <<part, runVars, inboxVars, timerVars, documentVars, uploadVars, numberVars,
                  routeVars, accessVars>>

RemindThenTerm == [k \in TimerKinds |-> IF k = "remind" THEN 1 ELSE 2]

\* An entry of the level none and one with a term; a role with its default level
\* and one that the space takes everything from.
PlainAndTimed == {[level |-> 0, until |-> "ever"], [level |-> 2, until |-> "later"]}
OneRoleOff == [level \in RoleLevels |-> IF level = 2 THEN 0 ELSE level]

\* A route with a condition, a fan whose second branch holds an inner fan, a
\* return from a branch, a refusal that goes on and one that ends the route.
NestedRoute ==
    [fits  |-> [type |-> "condition", then |-> "fan", else |-> "firm"],
     fan   |-> [type |-> "parallel", branches |-> <<<<"legal", "note">>, <<"inner">>>>,
                join |-> "all", next |-> "firm"],
     legal |-> [type |-> "approval", onReject |-> "back"],
     note  |-> [type |-> "acknowledge"],
     inner |-> [type |-> "parallel", branches |-> <<<<"it">>, <<"deep">>>>, join |-> "any"],
     it    |-> [type |-> "approval", onReject |-> "continue"],
     deep  |-> [type |-> "parallel", branches |-> <<<<"x">>, <<"y">>>>, join |-> "all"],
     x     |-> [type |-> "auto"],
     y     |-> [type |-> "sign", onReject |-> "end"],
     back  |-> [type |-> "return", next |-> "fits"],
     firm  |-> [type |-> "sign", next |-> "done", onReject |-> "back"],
     done  |-> [type |-> "end"]]

ServicesInit ==
    /\ part \in Parts
    /\ RunInit /\ InboxInit /\ TimersInit /\ DocumentInit /\ UploadInit /\ NumberingInit
    /\ ParallelInit /\ AccessInit
    /\ part # "rules" => dedupe = "free"
    /\ part # "uploads" => parts = "open"
    /\ part # "access" => \A u \in Members : role[u] = 0

ServicesNext ==
    \/ /\ part = "rules" /\ RunNext
       /\ UNCHANGED <<part, inboxVars, timerVars, documentVars, uploadVars, numberVars, routeVars, accessVars>>
    \/ /\ part = "inbox" /\ InboxNext
       /\ UNCHANGED <<part, runVars, timerVars, documentVars, uploadVars, numberVars, routeVars, accessVars>>
    \/ /\ part = "timers" /\ TimersNext
       /\ UNCHANGED <<part, runVars, inboxVars, documentVars, uploadVars, numberVars, routeVars, accessVars>>
    \/ /\ part = "document" /\ DocumentNext
       /\ UNCHANGED <<part, runVars, inboxVars, timerVars, uploadVars, numberVars, routeVars, accessVars>>
    \/ /\ part = "uploads" /\ UploadNext
       /\ UNCHANGED <<part, runVars, inboxVars, timerVars, documentVars, numberVars, routeVars, accessVars>>
    \/ /\ part = "numbers" /\ NumberingNext
       /\ UNCHANGED <<part, runVars, inboxVars, timerVars, documentVars, uploadVars, routeVars, accessVars>>
    \/ /\ part = "route" /\ ParallelNext
       /\ UNCHANGED <<part, runVars, inboxVars, timerVars, documentVars, uploadVars, numberVars, accessVars>>
    \/ /\ part = "access" /\ AccessNext
       /\ UNCHANGED <<part, runVars, inboxVars, timerVars, documentVars, uploadVars, numberVars, routeVars>>

\* The fairness of each module, while its part is the one at work.
ServicesFairness ==
    /\ \A w \in Executors : WF_runVars(part = "rules" /\ RunWork(w))
    /\ WF_runVars(part = "rules" /\ \E w \in Executors : TakeTicket(w))
    /\ WF_runVars(part = "rules" /\ \E w \in Executors : Sweep(w))
    /\ WF_runVars(part = "rules" /\ WaitElapses)
    /\ WF_runVars(part = "rules" /\ LeaseEnds /\ overruns' = overruns)
    /\ WF_inboxVars(part = "inbox" /\ (OpenCommit \/ CloseCommit))
    /\ WF_inboxVars(part = "inbox" /\ ExpireDue)
    /\ \A s \in Syncs :
         WF_inboxVars(part = "inbox" /\ (SyncBegin(s) \/ SyncOriginals(s) \/ SyncCopies(s)
                                                      \/ SyncCommit(s)))
    /\ WF_timerVars(part = "timers" /\ Tick)
    /\ \A s \in RouteSteps : WF_timerVars(part = "timers" /\ SweepTimers(s))
    /\ \A p \in Processes : /\ SF_documentVars(part = "document" /\ SaveBegin(p))
                            /\ WF_documentVars(part = "document" /\ SaveCommit(p))

ServicesSpec == ServicesInit /\ [][ServicesNext]_servicesVars /\ ServicesFairness

\* The types, and what the proofs add to them to make the invariants inductive.
ServicesInv ==
    /\ RunInv /\ InboxInv /\ TimersInv /\ UploadInv /\ NumberingInv /\ AccessInv
    /\ RouteInv /\ DocumentInv

\* RunEnds and TimersFire, where their part is the one at work.
EveryRunEnds == <>[](part = "rules" => RunEnded)
EveryTimerFires == <>[](part = "timers" => AllFired)
=============================================================================
