\* One slot, two seekers, two recruiters and two requests at once.
SPECIFICATION Spec
CONSTANTS
    Tasks = {t1, t2}
    MaxRetry = 0
    Seekers = {s1, s2}
    Recruiters = {r1, r2}
    r1 = r1
    r2 = r2
    Jobs = {j1, j2}
    JobOwner <- TwoOwners
    Statuses = {"submitted", "rejected"}
    Workers = {w1}
    Handlers = {h1, h2}
    MaxRestarts = 0
    MaxDbErrors = 0
SYMMETRY Interchangeable
INVARIANTS OneApplicationEach SaveFailsOnlyWithoutJob CheckedIdStaysOwn
PROPERTIES ImplementsBoard OnlyOwnersRemove OnlyOwnersDecide
CHECK_DEADLOCK FALSE
