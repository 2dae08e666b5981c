\* Every kind of step with three people, two rounds and every change of the list.
CONSTANTS
    a = a
    b = b
    c = c
    People = {a, b, c}
    NoOne = NoOne
    Steps <- EveryKind
    Resolutions <- Lists
    MaxReplacements = 2
    MaxAppends = 1
    MaxEntries = 3
    MaxRounds = 2
SPECIFICATION Spec
\* A route that went on, ended or was cancelled takes no more calls.
CHECK_DEADLOCK FALSE
SYMMETRY PeopleSymmetry
INVARIANTS
    StepInv
    SomebodyIsAsked
    OnePerPerson
    EarlyOutcomeIsFinal
    WaitingIsWorthwhile
    HandedOverIsAnswered
PROPERTIES
    AnswersStand
