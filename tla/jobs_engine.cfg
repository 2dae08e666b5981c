\* One engine job, two engines, one settler: reports late, lost and doubled by
\* a crash, a lost queue lock or a cleared queue.
CONSTANTS
    j1 = j1
    j2 = j2
    k1 = k1
    Jobs = {j1}
    Runners = {e1, e2}
    Settlers = {s1}
    EngineJobs = {j1}
    EngineRunners = {e1, e2}
    Keys = {}
    KeyOf <- NoKeys
    Defers = {}
    MaxAttempts = 2
    MaxStalls = 1
    MaxFaults = 1
    NoKey = NoKey
    Nobody = Nobody
    NoJob = NoJob
SPECIFICATION Spec
\* Every job closed and every bound spent: the slots only wait.
CHECK_DEADLOCK FALSE
SYMMETRY RunnerSymmetry
INVARIANTS ClosesOnce SucceededWasDone IndInv
