SPECIFICATION Spec
CONSTANTS
    Runs = {r1, r2, r3}
    MaxFaulty = 1
    MaxVisitors = 1
SYMMETRY Interchangeable
INVARIANTS RerunRepairs
PROPERTIES CompleteMeansSeeded LastToCompleteSeeds
CHECK_DEADLOCK FALSE
