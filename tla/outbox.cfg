SPECIFICATION FairSpec
CONSTANTS
    Terminals = {t1, t2}
    Folios = {v1, v2}
    Threshold = 2
    Batch = 1
    MaxAttempts = 2
    MaxFaults = 3
INVARIANT MarkedHasArrived
PROPERTY ImplementsMailbox
PROPERTY QueuedArrives
