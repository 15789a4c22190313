SPECIFICATION Spec
CONSTANTS
    Threads = {t1, t2}
    Devices = {d1, d2}
    PairingIds = {p1, p2}
    NoThread = NoThread
    NoDevice = NoDevice
    MaxAttempts = 2
    MaxPending = 1
    TTL = 1
    MaxTime = 1
    MaxFaults = 1
SYMMETRY Symmetry
INVARIANTS SingleUse GuessBudget NobodyStuck
PROPERTIES KeptUntilExpiry FairRefusal NoAccessAfterRevocation ImplementsAuthority ImplementsOffers
