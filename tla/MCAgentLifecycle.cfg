SPECIFICATION FairSpec
CONSTANTS
    Agents = {a1, a2}
    Requests = {r1, r2}
    MaxPolls = 1
INVARIANTS OneAgent NoStaleShutdown
PROPERTIES TrueMeansGone AgentsLeave
