\* init_session and clear_session calls against the broker: safety and liveness.
\* No SYMMETRY: it is unsound for the liveness property CallsReturn.
CONSTANTS
    t1 = t1
    t2 = t2
    Topics <- MC_Topics
    MaxMsgs = 1
    MaxQuirks = 1
    QueueCapacity = 2

SPECIFICATION Spec

INVARIANTS
    TypeOK
    InitOkEstablishesSession
    ClearOkAfterConnAckClears

PROPERTIES
    InitPreservesSession
    CallsReturn
