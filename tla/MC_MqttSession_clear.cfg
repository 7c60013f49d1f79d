CONSTANTS
    t1 = t1
    t2 = t2
    Topics <- MC_Topics
    MaxMsgs = 1
    MaxQuirks = 0
    QueueCapacity = 2

SPECIFICATION Spec

SYMMETRY MC_Symmetry

INVARIANTS
    ClearOkClearsSession
