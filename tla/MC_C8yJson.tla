------------------------------ MODULE MC_C8yJson ------------------------------
EXTENDS C8yJson

CONSTANTS none

MC_Names       == {"", "login"}
MC_Texts       == {"t"}
\* Two of the four accepted severities, an upper-case one (rejected by
\* try_from) and another string.
MC_Severities  == {"critical", "warning", "CRITICAL", "bad"}
MC_EventKeys   == {"type", "externalSource", "frag"}
MC_AlarmKeys   == {"externalSource", "frag"}
MC_ExternalIds == {"dev_child"}

=============================================================================
