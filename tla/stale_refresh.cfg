\* A refresh overtakes an upgrade.
SPECIFICATION Spec
CONSTANTS
    Users = {u1}
    Emails = {e1}
    Browsers = {b1}
    Handlers = {h1, h2}
    MaxConns = 2
PROPERTIES RoleStaysActive
CHECK_DEADLOCK FALSE
