\* Three requests, two connections: they wait for the pool and for rows.
SPECIFICATION FairSpec
CONSTANTS
    Users = {u1}
    Emails = {e1}
    Browsers = {b1}
    Handlers = {h1, h2, h3}
    MaxConns = 2
PROPERTIES EveryRequestAnswered
CHECK_DEADLOCK FALSE
