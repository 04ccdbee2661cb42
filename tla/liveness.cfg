\* Every fault, and the fairness of workers and timers.
SPECIFICATION FairSpec
CONSTANTS
    Tasks = {t1, t2}
    MaxRetry = 1
    Seekers = {s1}
    Recruiters = {r1}
    r1 = r1
    r2 = r2
    Jobs = {j1}
    JobOwner <- SingleOwner
    Statuses = {"submitted"}
    Workers = {w1}
    Handlers = {h1}
    MaxRestarts = 1
    MaxDbErrors = 1
PROPERTIES EveryTaskEnds
CHECK_DEADLOCK FALSE
