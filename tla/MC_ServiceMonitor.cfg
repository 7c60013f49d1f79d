\* Names of up to two tokens, type and status strings of up to two characters.
CONSTANTS
    NameLen = 2
    FieldLen = 2
    DeviceName <- MC_Device
    DefaultTypes <- MC_DefaultTypes
SPECIFICATION Spec
\* One message is converted; the conversion returns and the behaviour ends.
CHECK_DEADLOCK FALSE
INVARIANTS TypeOK RecordReadsBack ConversionMatchesTests
