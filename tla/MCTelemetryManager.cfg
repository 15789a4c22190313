SPECIFICATION FairSpec
CONSTANTS
    Callers = {c1, c2, c3}
    Workers = {w1, w2}
    NoWorker = NoWorker
    MaxSequence = 2
INVARIANTS OneWorker NoLostWakeup
PROPERTIES ImplementsSource StopEnds
