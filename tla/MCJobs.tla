------------------------------- MODULE MCJobs -------------------------------
(* Small instances of Jobs.                                                   *)
EXTENDS JobsInductive, TLC
CONSTANTS j1, j2, k1
OneKey  == [j \in Jobs |-> IF j \in EngineJobs THEN NoKey ELSE k1]
RunnerSymmetry == Permutations(Runners)
NoKeys  == [j \in Jobs |-> NoKey]
=============================================================================
