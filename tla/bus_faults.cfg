\* Two fair replicas of one subscriber; a crash, a slow batch or a lost connection;
\* the trim job reads the groups while the replicas go on reading and acking.
SPECIFICATION FairSpec
CONSTANTS
    g1 = g1
    g2 = g2
    Events = {1}
    Groups = {g1}
    Replicas = {r1, r2}
    Retriers = {}
    Wants <- AllWant
    Poison = {}
    Everyone = Everyone
    BatchSize = 2
    ReadCount = 2
    MaxAttempts = 2
    OutboxMaxAttempts = 2
    MaxEntries = 3
    MaxFaults = 1
    MaxAged = 1
    TrimRounds = 1
INVARIANTS
    NoEventLost
    NoRerunOfMarked
    TrimKeepsUnacked
    OneCopyPerFault
PROPERTIES
    DeliversPromptly
\* Every event settled and every bound spent: the loops only poll.
CHECK_DEADLOCK FALSE
