------------------------ MODULE ParallelRouteInductive ------------------------
(* What is true of the machine of ParallelRoute after every move of a         *)
(* transition, and makes RouteIsWhole inductive: where the runs stand, which  *)
(* line is about to take a step, and which join is about to be passed.        *)
EXTENDS ParallelRoute

Places == [key : StepKeys, parent : Nat, branch : Nat]
Runs == [key : StepKeys, parent : Nat, branch : Nat, round : Nat,
         status : {"active", "completed", "cancelled"}]
Machines == [status : {"none", "running", "finished", "cancelled"}, round : Nat,
             runs : Seq(Runs), work : Seq(Nat), after : Nat, opens : Seq(Places)]
WorkIsOfRuns(m) == \A k \in DOMAIN m.work : m.work[k] \in DOMAIN m.runs

IsParallel(m, p) == p \in DOMAIN m.runs /\ StepOfRun(m, p).type = "parallel"
\* What may have steps in it: the top line, while the route goes on, and each
\* open parallel step.
Goes(m, p) == IF p = Top THEN m.status = "running" ELSE IsParallel(m, p) /\ IsActive(m, p)
LinesOf(m, p) == IF p = Top THEN {0} ELSE DOMAIN StepOfRun(m, p).branches
At(x, p, b) == x.parent = p /\ x.branch = b
RunsAt(m, p, b) == {i \in DOMAIN m.runs : At(m.runs[i], p, b)}
\* The runs that a line stands at: an active one, or the one to go on after.
StandsAt(m, p, b) == {i \in RunsAt(m, p, b) : IsActive(m, i) \/ i = m.after}
WaitsAt(m, p, b) == {k \in DOMAIN m.opens : At(m.opens[k], p, b)}
IsAfter(m, p, b) == m.after # Top /\ At(m.runs[m.after], p, b)
AllCompleted(m, S) == \A i \in S : m.runs[i].status = "completed"

\* A run stands in the top line or in a branch of an earlier, parallel one.
PlacedBelow(m, x, n) ==
    IF x.parent = Top THEN x.branch = 0 /\ x.key \in TopKeys
    ELSE /\ x.parent < n /\ IsParallel(m, x.parent)
         /\ x.branch \in LinesOf(m, x.parent) /\ StandsIn(x.key, m.runs[x.parent].key, x.branch)
\* It is the n-th of its branch when n - 1 runs were there before.
IsNth(m, x, before) ==
    x.parent # Top =>
        LET keys == StepOfRun(m, x.parent).branches[x.branch] IN
        \E n \in DOMAIN keys : x.key = keys[n] /\ Cardinality(before) = n - 1
Earlier(m, i) == {j \in RunsAt(m, m.runs[i].parent, m.runs[i].branch) : j < i}

RunsInPlace(m) ==
    \A i \in DOMAIN m.runs :
        LET x == m.runs[i] IN
        /\ PlacedBelow(m, x, i) /\ IsNth(m, x, Earlier(m, i))
        /\ x.parent # Top => AllCompleted(m, Earlier(m, i))
ActiveBelow(m) == \A i \in DOMAIN m.runs : IsActive(m, i) => Goes(m, m.runs[i].parent)
OpensInPlace(m) ==
    \A k \in DOMAIN m.opens :
        LET x == m.opens[k] IN
        /\ PlacedBelow(m, x, Len(m.runs) + 1) /\ IsNth(m, x, RunsAt(m, x.parent, x.branch))
        /\ x.parent # Top => AllCompleted(m, RunsAt(m, x.parent, x.branch))
        /\ Goes(m, x.parent)
\* The run to go on after is the last of its branch, which is not done unless
\* that was its last step.
AfterInPlace(m) ==
    m.after # Top =>
        /\ m.after \in DOMAIN m.runs /\ m.runs[m.after].status = "completed" /\ m.opens = <<>>
        /\ StepOfRun(m, m.after).type \notin {"end", "condition"}
        /\ LET x == m.runs[m.after]
               keys == StepOfRun(m, x.parent).branches[x.branch]
           IN  /\ Goes(m, x.parent)
               /\ x.parent # Top =>
                    /\ \A i \in RunsAt(m, x.parent, x.branch) : i <= m.after
                    /\ x.key = keys[Len(keys)] \/ ~BranchDone(m, x.parent, x.branch)
\* Each line that goes stands at one step, is about to, or is done.
OneAtATime(m) ==
    \A p \in {Top} \cup DOMAIN m.runs : Goes(m, p) =>
      \A b \in LinesOf(m, p) :
        /\ \A i, j \in StandsAt(m, p, b) : i = j
        /\ \A k, l \in WaitsAt(m, p, b) : k = l
        /\ StandsAt(m, p, b) = {} \/ WaitsAt(m, p, b) = {}
        /\ p # Top /\ BranchDone(m, p, b) =>
             WaitsAt(m, p, b) = {} /\ \A i \in StandsAt(m, p, b) : i = m.after
        /\ p = Top \/ ~BranchDone(m, p, b) => StandsAt(m, p, b) # {} \/ WaitsAt(m, p, b) # {}
TopAlone(m) ==
    /\ m.status # "running" => m.after = Top /\ m.opens = <<>>
    /\ m.status = "none" => m.runs = <<>> /\ m.work = <<>>
    /\ \/ m.status # "running"
       \/ WaitsAt(m, Top, 0) # {}
       \/ IsAfter(m, Top, 0)
       => \A i \in DOMAIN m.runs : ~IsActive(m, i)
\* A join is passed when it is due, and an open one is not due but for the run
\* to go on after.
MayPass(m, p) ==
    IF StepOfRun(m, p).join = "all" THEN \A b \in LinesOf(m, p) : BranchDone(m, p, b)
                                    ELSE \E b \in LinesOf(m, p) : BranchDone(m, p, b)
JoinsPassed(m) ==
    \A p \in DOMAIN m.runs : IsParallel(m, p) /\ m.runs[p].status = "completed" => MayPass(m, p)
JoinsOpen(m) ==
    \A p \in DOMAIN m.runs : IsParallel(m, p) /\ IsActive(m, p) =>
        IF StepOfRun(m, p).join = "all"
        THEN \E b \in LinesOf(m, p) : ~BranchDone(m, p, b) \/ IsAfter(m, p, b)
        ELSE \A b \in LinesOf(m, p) : BranchDone(m, p, b) => IsAfter(m, p, b)

BetweenMoves(m) ==
    /\ m \in Machines /\ WorkIsOfRuns(m)
    /\ RunsInPlace(m) /\ ActiveBelow(m) /\ OpensInPlace(m) /\ AfterInPlace(m)
    /\ OneAtATime(m) /\ TopAlone(m) /\ JoinsPassed(m) /\ JoinsOpen(m)
RouteInv == BetweenMoves(instance) /\ Settled(instance)
=============================================================================
