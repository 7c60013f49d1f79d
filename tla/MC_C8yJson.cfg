\* One software list, event or alarm converted to Cumulocity JSON.
CONSTANTS
    None = none
    none = none
    Names <- MC_Names
    Texts <- MC_Texts
    Severities <- MC_Severities
    EventKeys <- MC_EventKeys
    AlarmKeys <- MC_AlarmKeys
    ExternalIds <- MC_ExternalIds
    MaxModules = 2

SPECIFICATION Spec

\* A conversion is a single step: the behaviour ends once the input has
\* been converted.
CHECK_DEADLOCK FALSE

INVARIANTS
    TypeOK
    SoftwareListWellFormed
    EventJsonWellFormed
    AlarmJsonWellFormed
    ClearMatchesRaise
    ConversionsMatchTests
