\* Two requests at once; two columns, or two applications.
SPECIFICATION Spec
CONSTANTS
    Seekers = {s1}
    Recruiters = {r1, r2}
    r1 = r1
    r2 = r2
    Jobs = {j1}
    JobOwner <- OneOwner
    AppIds = {"application1", "application2"}
    Fields = {"title", "category"}
    Statuses = {"submitted", "rejected"}
    Handlers = {h1, h2}
    MaxDbErrors = 1
SYMMETRY Interchangeable
VIEW Unanswered
CONSTRAINT Apart
PROPERTIES EditsAreTheOwners OkMeansDone NotFoundIsTrue ServerErrorsHaveACause ImplementsBoard
CHECK_DEADLOCK FALSE
