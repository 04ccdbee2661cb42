\* Two slots, two tasks, a restart and a failing statement.
SPECIFICATION Spec
CONSTANTS
    Tasks = {t1, t2}
    MaxRetry = 1
    Seekers = {s1}
    Recruiters = {r1}
    r1 = r1
    r2 = r2
    Jobs = {j1}
    JobOwner <- SingleOwner
    Statuses = {"submitted"}
    Workers = {w1, w2}
    Handlers = {h1}
    MaxRestarts = 1
    MaxDbErrors = 1
SYMMETRY Interchangeable
INVARIANTS TypeOK ExclusiveDelivery CompletedWasRecorded EffectMatchesStatus RewritesNeedAFault NoOrphans DuplicatesAreBounded
PROPERTIES PollIsFinal ClosedJobsGetNoApplications WorkRunsOut
CHECK_DEADLOCK FALSE
