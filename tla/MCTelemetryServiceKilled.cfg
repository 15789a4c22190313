SPECIFICATION Spec
CONSTANTS
    Clients = {c1, c2}
    NoClient = NoClient
    MaxKills = 1
INVARIANTS ServesPastDeaths
CHECK_DEADLOCK FALSE
