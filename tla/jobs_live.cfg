\* One deferring job on one worker, a settler, two faults, fair loops.
CONSTANTS
    j1 = j1
    j2 = j2
    k1 = k1
    Jobs = {j1}
    Runners = {w1}
    Settlers = {s1}
    EngineJobs = {}
    EngineRunners = {}
    Keys = {k1}
    KeyOf <- OneKey
    Defers = {j1}
    MaxAttempts = 2
    MaxStalls = 1
    MaxFaults = 2
    NoKey = NoKey
    Nobody = Nobody
    NoJob = NoJob
SPECIFICATION FairSpec
\* Every job closed and every bound spent: the slots only wait.
CHECK_DEADLOCK FALSE
PROPERTIES EveryJobCloses
