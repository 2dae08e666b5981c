---------------------------- MODULE DecisionStep ----------------------------
(***************************************************************************)
(* One decision step of a process route (packages/process/src/machine.ts): *)
(* who is asked, in what order, what the answers add up to, and what a     *)
(* return to the author keeps of them.                                     *)
(*                                                                         *)
(* The route modelled is the usual one: a decision step that goes onward   *)
(* when it is granted and, when it is not, follows its onReject: the end   *)
(* of the route, the next step all the same, or a `return` step from which *)
(* the author resubmits (a new round of the same step) or withdraws.       *)
(*                                                                         *)
(* The transitions are pure functions that the kernel calls under the      *)
(* instance's row lock, and a transition that throws is rolled back with   *)
(* its transaction: an action here is one such call, and its guards are    *)
(* the conditions under which the call does not throw.                     *)
(***************************************************************************)
EXTENDS Integers, FiniteSets, SequencesExt

CONSTANTS
    People,           \* the employees
    NoOne,            \* null in the code's addedBy, delegatedTo and outcome
    Steps,            \* the step definitions to consider
    Resolutions,      \* the lists of assignees the directory may answer with
    MaxReplacements,  \* people one reassignment of a waiting person may name
    MaxAppends,       \* people one reassignment of the whole step may name
    MaxEntries,       \* bound on the entries of one run of the step
    MaxRounds         \* bound on the rounds of the route

All == 0              \* the quorum 'all'; 'any' is the quorum 1

(* The outcomes of a step; those of the first kind let the route go on.     *)
Granted == {"approved", "signed", "acknowledged", "registered"}
Outcomes == Granted \cup {"rejected", "remarks", "refused"}

ASSUME StepsAssumption ==
    /\ NoOne \notin People \cup Outcomes
    /\ Steps \subseteq
         [type : {"approval", "sign", "acknowledge", "register"},
          mode : {"parallel", "sequential", "any", "none"},
          quorum : Nat,
          onReject : {"end", "continue", "return"},
          reapproval : {"full", "rejecters_only"},
          allowAddApprover : BOOLEAN,
          allowDelegate : BOOLEAN]
    /\ \A s \in Steps :
         /\ s.type \in {"acknowledge", "register"} <=> s.mode = "none"
         /\ s.type = "sign" => s.mode # "any"

(* The resolver drops repetitions, so a list never names a person twice.   *)
ASSUME ResolutionsAssumption ==
    \A list \in Resolutions : list \in Seq(People) /\ IsInjective(list)

ASSUME BoundsAssumption ==
    /\ MaxReplacements \in Nat /\ MaxAppends \in Nat
    /\ MaxEntries \in Nat /\ MaxRounds \in Nat

VARIABLES
    step,       \* the definition of the step, fixed for the instance
    at,         \* where the route stands
    round,      \* state.round
    resolved,   \* run.resolved of the current run of the step
    entries,    \* run.entries
    outcome,    \* run.outcome
    previous    \* the entries of the step's run in the round before

vars == <<step, at, round, resolved, entries, outcome, previous>>

-----------------------------------------------------------------------------
(* The states of an entry.                                                 *)

OpenStates == {"pending", "waiting"}
DeadStates == {"cancelled", "delegated"}
ApprovedStates == {"approved", "carried"}
DecisionsOf == [approval    |-> {"approved", "remarks", "rejected"},
                sign        |-> {"signed", "refused"},
                acknowledge |-> {"acknowledged"},
                register    |-> {"registered"}]
DecidedStates == UNION {DecisionsOf[t] : t \in DOMAIN DecisionsOf}
EntryStates == OpenStates \cup DeadStates \cup DecidedStates \cup {"carried"}

Entry(user, state) ==
    [user |-> user, state |-> state, addedBy |-> NoOne, delegatedTo |-> NoOne]

Entries == [user : People, state : EntryStates, addedBy : People \cup {NoOne},
            delegatedTo : People \cup {NoOne}]

(* The positions of the list s whose entries are in one of the states.     *)
Within(s, states) == {i \in DOMAIN s : s[i].state \in states}
Live(s) == DOMAIN s \ Within(s, DeadStates)
Open(s) == Within(s, OpenStates)
Asked(s, user) == {i \in Within(s, {"pending"}) : s[i].user = user}

WithState(s, positions, state) ==
    [i \in DOMAIN s |-> IF i \in positions THEN [s[i] EXCEPT !.state = state]
                                           ELSE s[i]]

(* Whether an employee already takes part in the step (`duplicate`).       *)
TakesPart(s, user) == \E i \in Live(s) : s[i].user = user
-----------------------------------------------------------------------------
(* What the answers add up to.                                             *)

Needed(s) ==
    IF step.quorum = All THEN Cardinality(Live(s))
                         ELSE Min({step.quorum, Cardinality(Live(s))})

Approvals(s) == Cardinality(Within(s, ApprovedStates))

\* Slip: a person who can still answer is not counted as a possible approval.
ImpossibleEarly(s) == Approvals(s) + Cardinality(Open(s)) <= Needed(s)

\* Slip: a rejection waits for everybody's answer.
ImpossibleAtTheEnd(s) == Open(s) = {} /\ Approvals(s) < Needed(s)

(* Not even everybody who has yet to answer could make up the quorum.       *)
Impossible(s) == Approvals(s) + Cardinality(Open(s)) < Needed(s)

ApprovalOutcome(s) ==
    LET rejected == Within(s, {"rejected"}) # {}
        negative == IF rejected THEN "rejected" ELSE "remarks"
    IN CASE step.mode = "any" /\ Approvals(s) > 0 -> "approved"
         [] step.mode = "any" /\ Approvals(s) = 0 ->
              IF Within(s, {"rejected", "remarks"}) # {} THEN negative ELSE NoOne
         [] step.mode # "any" /\ Approvals(s) >= Needed(s) -> "approved"
         [] step.mode # "any" /\ Approvals(s) < Needed(s) ->
              IF /\ Impossible(s)
                 /\ step.mode = "sequential" \/ rejected \/ Open(s) = {}
              THEN negative ELSE NoOne

SignOutcome(s) ==
    CASE Within(s, {"refused"}) # {} -> "refused"
      [] Within(s, {"refused"}) = {} /\ Open(s) = {} -> "signed"
      [] OTHER -> NoOne

(* The outcome of the step, NoOne while it has to wait.                     *)
OutcomeOf(s) ==
    CASE step.type = "approval" -> ApprovalOutcome(s)
      [] step.type = "sign" -> SignOutcome(s)
      [] step.type = "acknowledge" -> IF Open(s) = {} THEN "acknowledged" ELSE NoOne
      [] step.type = "register" ->
           IF Within(s, {"registered"}) # {} THEN "registered" ELSE NoOne

\* Slip: the words of onReject are taken for the name of a step.
AfterByName(o) == IF o \in Granted THEN "onward" ELSE step.onReject

(* Where the route goes with an outcome of the step.                        *)
After(o) ==
    IF o \in Granted THEN "onward"
    ELSE CASE step.onReject = "continue" -> "onward"
           [] step.onReject = "end" -> "finished"
           [] step.onReject = "return" -> "back"

\* Slip: the queue does not move on.
PromoteNobody(s) == s

(* A sequential queue asks the next person once nobody is being asked.      *)
Promote(s) ==
    LET waiting == Within(s, {"waiting"})
    IN IF step.mode = "sequential" /\ Within(s, {"pending"}) = {} /\ waiting # {}
       THEN WithState(s, {Min(waiting)}, "pending")
       ELSE s

(* In a sequential queue only the first of those being asked stays asked.   *)
Queue(s) ==
    LET pending == Within(s, {"pending"})
    IN IF step.mode = "sequential" /\ pending # {}
       THEN WithState(s, pending \ {Min(pending)}, "waiting")
       ELSE s

CancelOpen(s) == WithState(s, Open(s), "cancelled")

(* The tail of every handler: complete the step with the outcome its        *)
(* answers have, or move the queue.                                         *)
Conclude(s) ==
    IF OutcomeOf(s) = NoOne
    THEN /\ entries' = Promote(s)
         /\ UNCHANGED <<at, outcome>>
    ELSE /\ entries' = CancelOpen(s)
         /\ outcome' = OutcomeOf(s)
         /\ at' = After(OutcomeOf(s))

-----------------------------------------------------------------------------
(* What a round keeps of the round before.                                  *)

(* The people whose approval of the previous round counts: those who        *)
(* approved, and those whose delegate's approval counts.                    *)
Approvers ==
    LET approved[n \in 0..Len(previous)] ==
          IF n = 0
          THEN {previous[i].user : i \in Within(previous, ApprovedStates)}
          ELSE approved[n - 1] \cup
                 {previous[i].user : i \in
                    {j \in Within(previous, {"delegated"}) :
                       previous[j].delegatedTo \in approved[n - 1]}}
    IN approved[Len(previous)]

(* The people at these positions of the previous round, in their order, are *)
(* asked again.                                                             *)
AskAgain(kept) ==
    [k \in 1..Cardinality(kept) |->
        LET e == previous[CHOOSE i \in kept : Cardinality({j \in kept : j <= i}) = k]
        IN [Entry(e.user, "pending") EXCEPT !.addedBy = e.addedBy]]

\* Slip: whether the new list names them already is not looked at.
AddedBeforeAgain(list) == AskAgain({i \in Live(previous) : previous[i].addedBy # NoOne})

(* The approvers added in the previous round that the new list lacks.       *)
AddedBefore(list) ==
    AskAgain({i \in Live(previous) :
                /\ previous[i].addedBy # NoOne
                /\ \A j \in DOMAIN list : list[j].user # previous[i].user})

CarryOver(list) ==
    IF round = 1 \/ step.reapproval # "rejecters_only" THEN list
    ELSE LET all == list \o AddedBefore(list)
         IN WithState(all, {i \in DOMAIN all : all[i].user \in Approvers}, "carried")

-----------------------------------------------------------------------------
(* Changing the list.                                                       *)

\* Slip: the entry does not say whom the question went to.
HandOverUnnamed(s, i, to) ==
    InsertAt([s EXCEPT ![i].state = "delegated"], i + 1, Entry(to, s[i].state))

(* The person at position i hands the question over: the entry is closed    *)
(* and the newcomer stands right behind it, in the same state.              *)
HandOver(s, i, to) ==
    InsertAt([s EXCEPT ![i].state = "delegated", ![i].delegatedTo = to],
             i + 1, Entry(to, s[i].state))

(* The remaining people of a replacement: each is put right behind the      *)
(* first, so the last one named comes first.                                *)
Alongside(s, i, state, users) ==
    LET newcomers == Reverse([k \in DOMAIN users |-> Entry(users[k], state)])
    IN SubSeq(s, 1, i + 1) \o newcomers \o SubSeq(s, i + 2, Len(s))

(* The lists of at most n people a reassignment may name, without repeats.  *)
Nominations(n) == {l \in UNION {[1..k -> People] : k \in 1..n} : IsInjective(l)}
-----------------------------------------------------------------------------
(* Actions: one call of the machine each.                                  *)

Init ==
    /\ step \in Steps
    /\ at = "review"
    /\ round = 1
    /\ resolved = FALSE
    /\ entries = <<>>
    /\ outcome = NoOne
    /\ previous = <<>>

(* assignStep: the directory has answered whom the step asks. A step that   *)
(* nobody is assigned to waits for an administrator, except an acquaintance *)
(* list, which is then done.                                                *)
Assign(list) ==
    LET all == [i \in DOMAIN list |-> Entry(list[i], "pending")]
        asked == IF step.type = "approval" THEN CarryOver(all) ELSE all
    IN /\ at = "review" /\ ~resolved
       /\ resolved' = TRUE
       /\ IF asked # <<>> THEN Conclude(Queue(asked))
          ELSE /\ entries' = <<>>
               /\ IF step.type = "acknowledge"
                  THEN outcome' = "acknowledged" /\ at' = "onward"
                  ELSE UNCHANGED <<at, outcome>>
       /\ UNCHANGED <<step, round, previous>>

(* decideStep: a person who is being asked answers.                         *)
Decide(user, decision) ==
    /\ at = "review" /\ resolved
    /\ decision \in DecisionsOf[step.type]
    /\ Asked(entries, user) # {}
    /\ Conclude(WithState(entries, {Min(Asked(entries, user))}, decision))
    /\ UNCHANGED <<step, round, resolved, previous>>

(* addStepAssignee: an approver who is being asked adds another one.        *)
Add(by, user) ==
    /\ at = "review"
    /\ step.type = "approval" /\ step.allowAddApprover
    /\ Asked(entries, by) # {}
    /\ ~TakesPart(entries, user)
    /\ Len(entries) < MaxEntries
    /\ LET state == IF step.mode = "sequential" THEN "waiting" ELSE "pending"
       IN entries' = InsertAt(entries, Min(Asked(entries, by)) + 1,
                              [Entry(user, state) EXCEPT !.addedBy = by])
    /\ UNCHANGED <<step, at, round, resolved, outcome, previous>>

(* delegateStep: an approver who is being asked hands the question over.    *)
Delegate(from, to) ==
    /\ at = "review"
    /\ step.type = "approval" /\ step.allowDelegate
    /\ Asked(entries, from) # {}
    /\ from # to /\ ~TakesPart(entries, to)
    /\ Len(entries) < MaxEntries
    /\ entries' = HandOver(entries, Min(Asked(entries, from)), to)
    /\ UNCHANGED <<step, at, round, resolved, outcome, previous>>

\* Slip: a person who has answered is replaced all the same.
ReplaceAnyone(from, users) ==
    LET theirs == {i \in Live(entries) : entries[i].user = from}
        i == Min(theirs)
        handed == HandOver(entries, i, Head(users))
    IN /\ at = "review" /\ resolved
       /\ theirs # {}
       /\ Head(users) # from
       /\ \A u \in Range(users) : u = from \/ ~TakesPart(entries, u)
       /\ Len(entries) + Len(users) <= MaxEntries
       /\ entries' = Alongside(handed, i, entries[i].state, Tail(users))
       /\ UNCHANGED <<step, at, round, resolved, outcome, previous>>

(* reassignStep with a person to replace, who has not answered yet.         *)
Replace(from, users) ==
    LET theirs == {i \in Open(entries) : entries[i].user = from}
        i == Min(theirs)
        handed == HandOver(entries, i, Head(users))
    IN /\ at = "review" /\ resolved
       /\ theirs # {}
       /\ Head(users) # from
       /\ \A u \in Range(users) : u = from \/ ~TakesPart(entries, u)
       /\ Len(entries) + Len(users) <= MaxEntries
       /\ entries' = Alongside(handed, i, entries[i].state, Tail(users))
       /\ UNCHANGED <<step, at, round, resolved, outcome, previous>>

(* reassignStep without one: the people named join the end of the list.     *)
Extend(users) ==
    LET state == IF step.mode = "sequential" /\ Open(entries) # {}
                 THEN "waiting" ELSE "pending"
    IN /\ at = "review" /\ resolved
       /\ \A u \in Range(users) : ~TakesPart(entries, u)
       /\ Len(entries) + Len(users) <= MaxEntries
       /\ Conclude(Queue(entries \o [i \in DOMAIN users |-> Entry(users[i], state)]))
       /\ UNCHANGED <<step, round, resolved, previous>>

(* The author resubmits: the next round activates the step anew.            *)
Resubmit ==
    /\ at = "back"
    /\ round < MaxRounds
    /\ at' = "review"
    /\ round' = round + 1
    /\ previous' = entries
    /\ resolved' = FALSE
    /\ entries' = <<>>
    /\ outcome' = NoOne
    /\ UNCHANGED step

(* The author withdraws the returned object.                                *)
Withdraw ==
    /\ at = "back"
    /\ at' = "cancelled"
    /\ UNCHANGED <<step, round, resolved, entries, outcome, previous>>

(* cancelProcess: the initiator or a manager stops the route.               *)
Cancel ==
    /\ at \in {"review", "back"}
    /\ at' = "cancelled"
    /\ entries' = CancelOpen(entries)
    /\ UNCHANGED <<step, round, resolved, outcome, previous>>

Next ==
    \/ \E list \in Resolutions : Assign(list)
    \/ \E user \in People, decision \in DecidedStates : Decide(user, decision)
    \/ \E by, user \in People : Add(by, user)
    \/ \E from, to \in People : Delegate(from, to)
    \/ \E from \in People, users \in Nominations(MaxReplacements) : Replace(from, users)
    \/ \E users \in Nominations(MaxAppends) : Extend(users)
    \/ Resubmit
    \/ Withdraw
    \/ Cancel

Spec == Init /\ [][Next]_vars

-----------------------------------------------------------------------------
(* Properties.                                                             *)

(* The variables have the types the machine gives them.                     *)
TypeOK ==
    /\ step \in Steps
    /\ at \in {"review", "back", "onward", "finished", "cancelled"}
    /\ round \in 1..(MaxRounds + 1)
    /\ resolved \in BOOLEAN
    /\ outcome \in Outcomes \cup {NoOne}
    /\ entries \in Seq(Entries) /\ previous \in Seq(Entries)

(* A step that waits for answers is asking somebody: whatever order people  *)
(* answer, hand over, join and are replaced in, a queue never stops with    *)
(* everybody behind waiting for nobody (promote, queue, insert).            *)
SomebodyIsAsked ==
    at = "review" /\ resolved /\ Live(entries) # {}
      => Within(entries, {"pending"}) # {}

(* Nobody is asked twice, or asked after having answered: a person has at   *)
(* most one live entry, across lists, carried approvals, added approvers,   *)
(* delegations and reassignments (insert's `duplicate`, carryOver).         *)
OnePerPerson ==
    \A i, j \in Live(entries) : entries[i].user = entries[j].user => i = j

(* An answer that was given stands: no later call of the same round takes   *)
(* it away or turns it into another (reassign's OPEN filter, conclude's     *)
(* cancelling of the open entries only).                                    *)
AnswersStand ==
    [][round' = round =>
         \A i \in Within(entries, DecidedStates) : entries[i] \in Range(entries')]_vars

(* The approval rule of the documents, over a list with every question      *)
(* answered: enough of the live entries approve.                            *)
Approves(s) ==
    Cardinality(Within(s, ApprovedStates)) >=
      IF step.quorum = All THEN Cardinality(Live(s))
                           ELSE Min({step.quorum, Cardinality(Live(s))})

(* The ways in which the people at these positions might yet have answered. *)
Answers(s, positions) ==
    {[i \in DOMAIN s |->
        IF i \in positions
        THEN [s[i] EXCEPT !.state = IF i \in yes THEN "approved" ELSE "rejected"]
        ELSE s[i]] : yes \in SUBSET positions}

(* An approval ends early only when it is decided: whatever the people      *)
(* whose questions were withdrawn had answered, the outcome would have been *)
(* the same (outcomeOf's `impossible`, its numeric quorum and conclude).    *)
EarlyOutcomeIsFinal ==
    step.type = "approval" /\ step.mode # "any" /\ outcome # NoOne =>
      \A s \in Answers(entries, Within(entries, {"cancelled"})) :
        Approves(s) <=> outcome = "approved"

(* An approval that still waits has a reason to: the answers it waits for   *)
(* can still approve it and can still fail it, or remarks are being         *)
(* gathered, which in parallel waits for everybody.                         *)
WaitingIsWorthwhile ==
    step.type = "approval" /\ step.mode # "any" /\ at = "review"
      /\ resolved /\ Live(entries) # {} =>
      LET ends == Answers(entries, Open(entries))
      IN \/ (\E s \in ends : Approves(s)) /\ (\E s \in ends : ~Approves(s))
         \/ /\ step.mode = "parallel"
            /\ Within(entries, {"remarks"}) # {} /\ Within(entries, {"rejected"}) = {}

(* The entries a question went to, from position i on.                      *)
Successors(i) ==
    {j \in DOMAIN entries : entries[j].user = entries[i].delegatedTo}

(* A question that was handed over is not lost: when everybody's approval   *)
(* is needed and the step is approved, the person every entry was handed to *)
(* is in the list and has approved, or has handed it on.                    *)
HandedOverIsAnswered ==
    step.type = "approval" /\ step.mode # "any" /\ step.quorum = All
      /\ outcome = "approved" =>
      \A i \in Within(entries, {"delegated"}) :
        \E j \in Successors(i) :
          entries[j].state \in ApprovedStates \cup {"delegated"}

(* Re-approval by those who did not approve: a person whose own answer in   *)
(* the previous round was a rejection or remarks is not counted as having   *)
(* approved (ADR-0079:55: those who did not approve decide, the rejecters   *)
(* among them).                                                             *)
RejecterDecidesAgain ==
    \A i \in Within(previous, {"rejected", "remarks"}),
       j \in Within(entries, {"carried"}) :
      previous[i].user # entries[j].user

(* The approvers added in the previous round stay in the next one           *)
(* (machine.ts:354-355 and ADR-0079:55-56), those who had not got round to  *)
(* answering among them.                                                    *)
AddedApproversStay ==
    round > 1 /\ resolved /\ step.reapproval = "rejecters_only" =>
      \A i \in DOMAIN previous :
        previous[i].addedBy # NoOne /\ previous[i].state # "delegated" =>
          \E j \in DOMAIN entries : entries[j].user = previous[i].user
=============================================================================
