CONSTANTS
    a = a
    b = b
    None = None
    Ids <- MC_Ids
    Cap = 2
    MaxDups = 1
SPECIFICATION Spec
\* The agent idles, waiting for MQTT messages, once every command ended.
CHECK_DEADLOCK FALSE
INVARIANTS
    TypeOK
    PublishedInOrder
