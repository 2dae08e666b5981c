\* Re-approval after an approver was added who had not answered.
CONSTANTS
    a = a
    b = b
    c = c
    People = {a, b}
    NoOne = NoOne
    Steps <- OneApproval
    Resolutions <- Pair
    MaxReplacements = 1
    MaxAppends = 0
    MaxEntries = 4
    MaxRounds = 2
SPECIFICATION Spec
\* A route that went on, ended or was cancelled takes no more calls.
CHECK_DEADLOCK FALSE
INVARIANTS AddedApproversStay
