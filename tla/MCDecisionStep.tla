--------------------------- MODULE MCDecisionStep ---------------------------
(* Small instances of DecisionStep.                                           *)
EXTENDS DecisionStepInductive, TLC
CONSTANTS a, b, c

Approval(mode, quorum) ==
    [type |-> "approval", mode |-> mode, quorum |-> quorum, onReject |-> "return",
     reapproval |-> "rejecters_only", allowAddApprover |-> TRUE,
     allowDelegate |-> TRUE]
Other(type, mode, onReject) ==
    [type |-> type, mode |-> mode, quorum |-> All, onReject |-> onReject,
     reapproval |-> "full", allowAddApprover |-> FALSE, allowDelegate |-> FALSE]

EveryKind ==
    {Approval(mode, q) : mode \in {"parallel", "sequential"}, q \in {All, 2}}
      \cup {Approval("any", All)}
      \cup {Other("sign", "parallel", "end"), Other("sign", "sequential", "continue"),
            Other("acknowledge", "none", "end"), Other("register", "none", "end")}
OneApproval == {Approval("parallel", All)}

(* Every list of at most two people; people are interchangeable.             *)
Lists == {l \in UNION {[1..k -> People] : k \in 0..2} : IsInjective(l)}
PeopleSymmetry == Permutations(People)
Pair  == {<<a>>, <<a, b>>}
=============================================================================
