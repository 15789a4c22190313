SPECIFICATION FairSocketSpec
CONSTANTS
    Sockets = {k1, k2}
    NoSocket = NoSocket
INVARIANTS OneConnection ShownTruthfully
PROPERTIES KeepsTrying
