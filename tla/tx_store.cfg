SPECIFICATION StoreSpec
CONSTANTS
    Conns = {c1, c2}
    NoOne = noone
    MaxSteps = 3
    MaxDepth = 3
    EngineMayRollBack = FALSE
INVARIANT FramesFindTheirSavepoint
PROPERTY ImplementsStore
PROPERTY NothingHalfway
PROPERTY LockComesFree
CHECK_DEADLOCK FALSE
