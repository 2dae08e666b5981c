------------------------ MODULE DecisionStepInductive ------------------------
(* The invariants of DecisionStep strengthened until every step preserves      *)
(* them: what is always so of a list of entries (Standing), and what is so of  *)
(* the list of a step that waits for answers (Waits).                          *)
EXTENDS DecisionStep

\* The states that an entry of this kind of step can be in.
StatesHere ==
    OpenStates \cup DeadStates \cup DecisionsOf[step.type]
      \cup (IF step.type = "approval" THEN {"carried"} ELSE {})
Fits(s) ==
    \A i \in DOMAIN s : /\ s[i].state \in StatesHere
                        /\ s[i].state = "waiting" => step.mode = "sequential"

\* Nobody has two live entries.
OneEach(s) == \A i, j \in Live(s) : s[i].user = s[j].user => i = j

\* Whoever a question was handed to is in the list.
Followed(s) ==
    \A i \in Within(s, {"delegated"}) : \E j \in DOMAIN s : s[j].user = s[i].delegatedTo

\* Not enough approvals yet; and enough can still come, or remarks are gathered.
Undecided(s) ==
    /\ Approvals(s) < Needed(s)
    /\ Impossible(s) => step.mode = "parallel" /\ Within(s, {"rejected"}) = {}

\* EarlyOutcomeIsFinal and HandedOverIsAnswered of an outcome and a list.
Counted == step.type = "approval" /\ step.mode # "any"
Final(o, s) ==
    Counted => \A r \in Answers(s, Within(s, {"cancelled"})) : Approves(r) <=> o = "approved"
HandedOn(o, s) ==
    Counted /\ step.quorum = All /\ o = "approved" =>
      \A i \in Within(s, {"delegated"}) : \E j \in DOMAIN s :
        s[j].user = s[i].delegatedTo /\ s[j].state \in ApprovedStates \cup {"delegated"}

Standing(a, o, s) ==
    /\ Fits(s) /\ OneEach(s) /\ Followed(s)
    /\ a = "review" => o = NoOne /\ Within(s, {"cancelled"}) = {}
    /\ a = "back" => o \in Outcomes \ Granted
    /\ o # NoOne => Open(s) = {} /\ Final(o, s) /\ HandedOn(o, s)

Waits(s) ==
    Live(s) # {} => /\ Within(s, {"pending"}) # {}
                    /\ Counted => Undecided(s)

\* Every step preserves this: the lists as they always are, and what a step that
\* waits for answers is waiting for (reassign, add, delegate, conclude, promote).
StepInv ==
    /\ TypeOK
    /\ ~resolved => entries = <<>>
    /\ OneEach(previous)
    /\ Standing(at, outcome, entries)
    /\ at = "review" /\ resolved => Waits(entries)
=============================================================================
