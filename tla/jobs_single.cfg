\* Two jobs under one key on two workers, one defers and one skips; one fault.
CONSTANTS
    j1 = j1
    j2 = j2
    k1 = k1
    Jobs = {j1, j2}
    Runners = {w1, w2}
    Settlers = {}
    EngineJobs = {}
    EngineRunners = {}
    Keys = {k1}
    KeyOf <- OneKey
    Defers = {j1}
    MaxAttempts = 2
    MaxStalls = 1
    MaxFaults = 1
    NoKey = NoKey
    Nobody = Nobody
    NoJob = NoJob
SPECIFICATION Spec
\* Every job closed and every bound spent: the slots only wait.
CHECK_DEADLOCK FALSE
SYMMETRY RunnerSymmetry
INVARIANTS OneWorkPerKey
