\* A process that dies with an entry in its hands: what the comment on reclaimStale says.
SPECIFICATION Spec
CONSTANTS
    g1 = g1
    g2 = g2
    Events = {1}
    Groups = {g1}
    Replicas = {r1}
    Retriers = {}
    Wants <- AllWant
    Poison = {}
    Everyone = Everyone
    BatchSize = 2
    ReadCount = 2
    MaxAttempts = 2
    OutboxMaxAttempts = 2
    MaxEntries = 3
    MaxFaults = 2
    MaxAged = 0
    TrimRounds = 0
INVARIANTS
    NoDeliveryBeyondMax
\* Every event settled and every bound spent: the loops only poll.
CHECK_DEADLOCK FALSE
