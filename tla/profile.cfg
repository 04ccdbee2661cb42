SPECIFICATION Spec
CONSTANTS
    Seekers = {s1}
    Recruiters = {r1}
    r1 = r1
    r2 = r1
    Jobs = {j1}
    JobOwner <- OneOwner
    AppIds = {a1}
    Fields = {"title"}
    Statuses = {"submitted"}
    Handlers = {h1}
    MaxDbErrors = 0
PROPERTIES ProfileIsFound
CHECK_DEADLOCK FALSE
