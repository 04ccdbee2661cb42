\* Two slots take two requests of one seeker for one job.
SPECIFICATION Spec
CONSTANTS
    Tasks = {t1, t2}
    MaxRetry = 0
    Seekers = {s1}
    Recruiters = {r1}
    r1 = r1
    r2 = r2
    Jobs = {j1}
    JobOwner <- SingleOwner
    Statuses = {"submitted"}
    Workers = {w1, w2}
    Handlers = {h1}
    MaxRestarts = 0
    MaxDbErrors = 0

INVARIANTS OneApplicationEach
CHECK_DEADLOCK FALSE
