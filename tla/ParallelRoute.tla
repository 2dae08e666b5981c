---------------------------- MODULE ParallelRoute ----------------------------
(* The steps of a whole route (packages/process/src/machine.ts): the line of  *)
(* steps, parallel branches and their joins, nested, conditions, the return   *)
(* to the author, the end.  DecisionStep says when one step is decided; here  *)
(* a step is decided as a whole, and the question is what runs afterwards.    *)
(* One action is one transition, with the work it leaves (engine.ts: apply):  *)
(* steps that end as soon as they are resolved or run, each of which is a     *)
(* transition of its own.  The row of the instance is locked meanwhile.       *)
(*                                                                            *)
(* The code's methods call each other; here the calls still to be made are    *)
(* part of the machine, a move makes one of them, and a transition is the     *)
(* moves until none is left.                                                  *)
EXTENDS Integers, Sequences, FiniteSets, Functions

CONSTANTS
    Definition,     \* the steps of the definition, by their keys
    StartKey,       \* the key of the first
    RoundsBound,    \* bound on the rounds
    MovesBound      \* the moves of one transition after which it is refused
                    \* (MAX_ACTIVATIONS, MAX_WORK)

\* What a step of each type may be decided to.
Verdicts == [approval    |-> {"approved", "remarks", "rejected"},
             sign        |-> {"signed", "refused"},
             acknowledge |-> {"acknowledged"}, register |-> {"registered"},
             return      |-> {"resubmitted", "withdrawn"}]
Refusals == {"remarks", "rejected", "refused"}

StepKeys == DOMAIN Definition
KeysOfType(T) == {k \in StepKeys : Definition[k].type \in T}
\* A step stands in branch n of the parallel step p.
StandsIn(k, p, n) == \E i \in DOMAIN Definition[p].branches[n] : Definition[p].branches[n][i] = k
InBranches ==
    {k \in StepKeys : \E p \in KeysOfType({"parallel"}) :
                        \E n \in DOMAIN Definition[p].branches : StandsIn(k, p, n)}
TopKeys == StepKeys \ InBranches

(* What validate.ts and the schema let through.                             *)
ASSUME DefinitionAssumption ==
    /\ RoundsBound \in Nat /\ MovesBound \in Nat /\ StartKey \in TopKeys
    /\ \A k \in StepKeys :
         LET step == Definition[k] IN
         /\ step.type \in DOMAIN Verdicts \cup {"auto", "condition", "parallel", "end"}
         /\ step.type \in {"end", "return", "condition"} => k \in TopKeys
         /\ k \in TopKeys /\ step.type \notin {"end", "condition"} => step.next \in TopKeys
         /\ step.type = "condition" => step.then \in TopKeys /\ step.else \in TopKeys
         /\ step.type \in {"approval", "sign"} => step.onReject \in {"continue", "end"} \cup TopKeys
         /\ step.type = "parallel" =>
              /\ step.join \in {"all", "any"}
              /\ step.branches \in Seq(Seq(StepKeys)) /\ step.branches # <<>>
              /\ \A n \in DOMAIN step.branches : /\ step.branches[n] # <<>>
                                                 /\ IsInjective(step.branches[n])

VARIABLE instance   \* status, round, runs in the order of their activation, the
                    \* work left; and, between moves only, the calls to be made:
                    \* the completed run to go on after, the steps to activate
routeVars == <<instance>>

Top == 0            \* the parent of a run of the top line: null in the code
ParallelInit ==
    instance = [status |-> "none", round |-> 1, runs |-> <<>>, work |-> <<>>,
                after |-> Top, opens |-> <<>>]

IsActive(m, id) == m.runs[id].status = "active"
StepOfRun(m, id) == Definition[m.runs[id].key]
CompleteRun(m, id) == [m EXCEPT !.runs[id].status = "completed"]
CancelRuns(m, ids) ==
    [m EXCEPT !.runs = [i \in DOMAIN m.runs |->
        IF i \in ids /\ m.runs[i].status = "active"
        THEN [m.runs[i] EXCEPT !.status = "cancelled"] ELSE m.runs[i]]]
FinishRoute(m, status) == [CancelRuns(m, DOMAIN m.runs) EXCEPT !.status = status]

Opening(key, parent, branch) == [key |-> key, parent |-> parent, branch |-> branch]
\* The first step of each branch of a parallel step.
Branches(id, step) ==
    [n \in DOMAIN step.branches |-> Opening(step.branches[n][1], id, n)]

\* The next step is activated: an end ends the route, a condition goes on at
\* once, a parallel step activates the first of each branch, others leave work.
ActivateRun(m, holds) ==
    LET o == Head(m.opens)
        step == Definition[o.key]
        id == Len(m.runs) + 1
        m1 == [m EXCEPT !.opens = Tail(m.opens),
                        !.runs = Append(m.runs, [key |-> o.key, parent |-> o.parent,
                            branch |-> o.branch, round |-> m.round, status |-> "active"])]
        target == IF o.key \in holds THEN step.then ELSE step.else
    IN CASE step.type = "end" -> FinishRoute(CompleteRun(m1, id), "finished")
         [] step.type = "condition" ->
              [CompleteRun(m1, id) EXCEPT !.opens = <<Opening(target, o.parent, o.branch)>> \o m1.opens]
         [] step.type = "parallel" -> [m1 EXCEPT !.opens = Branches(id, step) \o m1.opens]
         [] OTHER -> [m1 EXCEPT !.work = Append(m.work, id)]

ChildrenOf(m, id) == {i \in DOMAIN m.runs : m.runs[i].parent = id}
\* Slip: only the runs of the parallel step's own branches are cancelled.
ChildrenOnly(m, id) == ChildrenOf(m, id)
\* The active runs in the branches of a run and in those of what is found there:
\* a run is activated after its parent, so one pass in that order finds them.
Gather(m, id, found, i) ==
    found \cup {j \in {i} : IsActive(m, j) /\ m.runs[j].parent \in {id} \cup found}
Descendants(m, id) ==
    LET found[i \in 0..Len(m.runs)] == IF i = 0 THEN {} ELSE Gather(m, id, found[i - 1], i)
    IN found[Len(m.runs)]

\* A branch is done with a completed run of its last key.
BranchDone(m, id, branch) ==
    LET keys == StepOfRun(m, id).branches[branch]
    IN \E i \in ChildrenOf(m, id) :
         /\ m.runs[i].branch = branch /\ m.runs[i].key = keys[Len(keys)]
         /\ m.runs[i].status = "completed"

JoinIsDue(m, id) ==
    \/ StepOfRun(m, id).join = "any"
    \/ \A branch \in DOMAIN StepOfRun(m, id).branches : BranchDone(m, id, branch)

\* What follows a completed run: the next step of the line or of the branch,
\* or the join, and then what follows that.
AdvanceAfter(m) ==
    LET run == m.runs[m.after]
        keys == StepOfRun(m, run.parent).branches[run.branch]
        index == CHOOSE n \in DOMAIN keys : keys[n] = run.key
        m1 == [m EXCEPT !.after = Top]
    IN CASE m.status # "running" -> m1
         [] m.status = "running" /\ run.parent = Top ->
              [m1 EXCEPT !.opens = <<Opening(StepOfRun(m, m.after).next, Top, 0)>>]
         [] m.status = "running" /\ run.parent # Top /\ ~IsActive(m, run.parent) -> m1
         [] OTHER ->
              IF index < Len(keys)
              THEN [m1 EXCEPT !.opens = <<Opening(keys[index + 1], run.parent, run.branch)>>]
              ELSE IF JoinIsDue(m, run.parent)
              THEN [CompleteRun(CancelRuns(m, Descendants(m, run.parent)), run.parent)
                      EXCEPT !.after = run.parent]
              ELSE m1

\* A refusal goes where onReject says; a return takes down every branch.
Negative(m, id) ==
    LET where == StepOfRun(m, id).onReject
    IN CASE where = "continue" -> [m EXCEPT !.after = id]
         [] where = "end" -> FinishRoute(m, "finished")
         [] OTHER -> [CancelRuns(m, DOMAIN m.runs) EXCEPT !.opens = <<Opening(where, Top, 0)>>]

Conclude(m, id, verdict) ==
    LET m1 == CompleteRun(m, id)
    IN CASE verdict = "withdrawn" -> FinishRoute(m1, "cancelled")
         [] verdict = "resubmitted" -> [m1 EXCEPT !.round = m.round + 1, !.after = id]
         [] verdict \in Refusals -> Negative(m1, id)
         [] OTHER -> [m1 EXCEPT !.after = id]

\* An automatic step may end where it stands; an acknowledgment has nobody to
\* ask; an approval may be carried over whole from a round before.
EndsAtOnce(m, id) ==
    \/ StepOfRun(m, id).type \in {"auto", "acknowledge"}
    \/ /\ StepOfRun(m, id).type = "approval"
       /\ \E i \in DOMAIN m.runs : /\ m.runs[i].key = m.runs[id].key
                                   /\ m.runs[i].round < m.runs[id].round

\* The work a transition leaves, first in first out; a run that is no longer
\* active is passed over.
TakeWork(m, atOnce) ==
    LET id == Head(m.work)
        rest == [m EXCEPT !.work = Tail(m.work)]
    IN IF IsActive(m, id) /\ m.runs[id].key \in atOnce /\ EndsAtOnce(m, id)
       THEN Conclude(rest, id, "done") ELSE rest

MakeCall(m, a) ==
    IF m.after # Top THEN AdvanceAfter(m)
    ELSE IF m.opens # <<>> THEN ActivateRun(m, a.holds)
    ELSE IF m.work # <<>> THEN TakeWork(m, a.atOnce)
    ELSE m
Settled(m) == m.after = Top /\ m.opens = <<>> /\ m.work = <<>>
Apply(m, a) ==
    LET moved[n \in 0..MovesBound] == IF n = 0 THEN m ELSE MakeCall(moved[n - 1], a)
    IN moved[MovesBound]

\* What conditions and handlers answer in a transition; a transition is a
\* change and the work it leaves, under the same answers.
Answers == [holds  : SUBSET KeysOfType({"condition"}),
            atOnce : SUBSET KeysOfType({"auto", "acknowledge", "approval"})]
Transition(m) == \E a \in Answers : instance' = Apply(m, a) /\ Settled(instance')

StartProcess ==
    /\ instance.status = "none"
    /\ Transition([instance EXCEPT !.status = "running", !.opens = <<Opening(StartKey, Top, 0)>>])

CanEnd(id) == instance.status = "running" /\ id \in DOMAIN instance.runs /\ IsActive(instance, id)

\* The decision that decides the step; the others change its entries only.
DecideStep(id, verdict) ==
    /\ CanEnd(id) /\ StepOfRun(instance, id).type \in DOMAIN Verdicts
    /\ verdict \in Verdicts[StepOfRun(instance, id).type]
    /\ verdict = "resubmitted" => instance.round < RoundsBound
    /\ Transition(Conclude(instance, id, verdict))

\* A module, an event or a timer completes a step that waited for it.
CompleteStep(id) ==
    /\ CanEnd(id) /\ StepOfRun(instance, id).type = "auto"
    /\ Transition(Conclude(instance, id, "done"))

CancelProcess ==
    instance.status = "running" /\ instance' = FinishRoute(instance, "cancelled")

ParallelNext ==
    \/ StartProcess \/ CancelProcess
    \/ \E id \in DOMAIN instance.runs :
         \/ CompleteStep(id)
         \/ \E verdict \in UNION {Verdicts[t] : t \in DOMAIN Verdicts} : DecideStep(id, verdict)
ParallelSpec == ParallelInit /\ [][ParallelNext]_routeVars

-----------------------------------------------------------------------------
RunIds == DOMAIN instance.runs
ActiveRuns == {i \in RunIds : IsActive(instance, i)}
ParallelRuns == {i \in RunIds : StepOfRun(instance, i).type = "parallel"}
InBranch(p, b) == {i \in ChildrenOf(instance, p) : instance.runs[i].branch = b}

\* A route that goes on stands at one step of its top line; in a parallel step
\* that is open, each branch stands at one step or is done, and the join is not
\* due yet; nothing is left open under a closed step, or after the end.
LinesAreWhole ==
    /\ instance.status # "running" => ActiveRuns = {}
    /\ instance.status = "running" =>
         Cardinality({i \in ActiveRuns : instance.runs[i].parent = Top}) = 1
    /\ \A i \in ActiveRuns : instance.runs[i].parent # Top => instance.runs[i].parent \in ActiveRuns
    /\ \A p \in ParallelRuns \cap ActiveRuns :
         /\ \A b \in DOMAIN StepOfRun(instance, p).branches :
              Cardinality(InBranch(p, b) \cap ActiveRuns)
                = IF BranchDone(instance, p, b) THEN 0 ELSE 1
         /\ StepOfRun(instance, p).join = "all" => ~JoinIsDue(instance, p)
         /\ StepOfRun(instance, p).join = "any" =>
              \A b \in DOMAIN StepOfRun(instance, p).branches : ~BranchDone(instance, p, b)

\* The runs of a branch are its steps in their order, each begun when the one
\* before was completed; a join is passed with every branch done, or with one.
JoinsInFull ==
    \A p \in ParallelRuns :
      LET step == StepOfRun(instance, p)
          Done(b) == BranchDone(instance, p, b)
      IN /\ \A b \in DOMAIN step.branches : \A i \in InBranch(p, b) :
              \E n \in DOMAIN step.branches[b] :
                /\ instance.runs[i].key = step.branches[b][n]
                /\ Cardinality({j \in InBranch(p, b) : j < i}) = n - 1
                /\ \A j \in InBranch(p, b) : j < i => instance.runs[j].status = "completed"
         /\ instance.runs[p].status = "completed" =>
              IF step.join = "all" THEN \A b \in DOMAIN step.branches : Done(b)
              ELSE \E b \in DOMAIN step.branches : Done(b)

\* Whatever the branches' steps are decided to, and in whatever order, a route
\* neither stalls nor leaves a step behind: no test goes through the orders in
\* which nested joins, refusals and returns can meet.
RouteIsWhole == LinesAreWhole /\ JoinsInFull
=============================================================================
