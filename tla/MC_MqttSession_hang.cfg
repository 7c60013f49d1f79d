CONSTANTS
    t1 = t1
    t2 = t2
    Topics <- MC_Topics
    MaxMsgs = 0
    MaxQuirks = 0
    QueueCapacity = 1

SPECIFICATION Spec

\* The hang this run exhibits is a state with no successor.
CHECK_DEADLOCK FALSE

PROPERTIES
    CallsReturn
