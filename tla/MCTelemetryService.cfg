SPECIFICATION FairSpec
CONSTANTS
    Clients = {c1, c2}
    NoClient = NoClient
    MaxKills = 2
INVARIANTS RepliesAreAwaited ServesUntilStopped
PROPERTIES ServiceStops RequestsEnd
CHECK_DEADLOCK FALSE
