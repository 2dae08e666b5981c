\* Two subscribers of one process; an administrator returns dead letters while
\* old marks are deleted, or a pass of the dispatcher meets a refusal or a fault.
SPECIFICATION LettersAndRowsSpec
CONSTANTS
    g1 = g1
    g2 = g2
    Events = {1, 2}
    Groups = {g1, g2}
    Replicas = {r1}
    Retriers = {a1}
    Wants <- AllWant
    Poison = {2}
    Everyone = Everyone
    BatchSize = 2
    ReadCount = 2
    MaxAttempts = 2
    OutboxMaxAttempts = 1
    MaxEntries = 3
    MaxFaults = 1
    MaxAged = 1
    TrimRounds = 0
INVARIANTS
    RetryWakesOnlyItsSubscriber
    IndInv
PROPERTIES
    DeliversAtLeastOnce
    OutboxDrains
\* Every event settled and every bound spent: the loops only poll.
CHECK_DEADLOCK FALSE
