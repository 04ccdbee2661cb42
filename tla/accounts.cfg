\* Two requests at once of one browser, two addresses.
SPECIFICATION Spec
CONSTANTS
    Users = {u1, u2, u3}
    Emails = {e1, e2}
    Browsers = {b1}
    Handlers = {h1, h2}
    MaxConns = 2
SYMMETRY Interchangeable
INVARIANTS EmailsUnique ProfilesMatchRoles TokensHonest
PROPERTIES ImplementsDirectory LockedOutForGood
CHECK_DEADLOCK FALSE
