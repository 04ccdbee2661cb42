\* Three jobs, every page and page size, one failing statement.
SPECIFICATION Spec
CONSTANTS
    Jobs = {j1, j2, j3}
    MaxTime = 3
    MaxPageSize = 2
    DefaultPageSize = 1
    WordMax = 4
    MaxDbErrors = 1
SYMMETRY AnyJob
INVARIANTS AnswerFits NothingMissed NothingTwice
CHECK_DEADLOCK FALSE
