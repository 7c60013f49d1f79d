CONSTANTS
    c1 = c1
    c2 = c2
    c3 = c3
    None = None
    Clients <- MC_Clients
    Outcomes <- MC_Outcomes
    Cap = 1
    MaxReqs = 2
SPECIFICATION Spec
\* The actor system stops once every client and the server are done.
CHECK_DEADLOCK FALSE
INVARIANTS
    TypeOK
    ResponseToRequester
    RequestAccounted
PROPERTIES
    CallsAnswered
    FaultEndsCalls
    ShutdownCompletes
