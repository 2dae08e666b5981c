\* One job that skips when busy, two attempts, no fault.
CONSTANTS
    j1 = j1
    j2 = j2
    k1 = k1
    Jobs = {j1}
    Runners = {w1, w2}
    Settlers = {s1}
    EngineJobs = {}
    EngineRunners = {}
    Keys = {k1}
    KeyOf <- OneKey
    Defers = {}
    MaxAttempts = 2
    MaxStalls = 1
    MaxFaults = 0
    NoKey = NoKey
    Nobody = Nobody
    NoJob = NoJob
SPECIFICATION Spec
\* Every job closed and every bound spent: the slots only wait.
CHECK_DEADLOCK FALSE
INVARIANTS SkippedForAnother
