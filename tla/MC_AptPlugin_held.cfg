\* tedge-apt-plugin list, checked against the doc comment of PluginOp::List.
CONSTANTS
    None = none
    none = none
    PkgNames <- MC_PkgNames
    Versions <- MC_Versions
    BadRegex <- MC_BadRegex
    Maintainers <- MC_Maintainers
    Databases <- MC_Databases
    Ops <- MC_Ops
    Configs <- MC_Configs
    DebFile <- MC_DebFile
    MaxUpdates = 2

SPECIFICATION Spec

\* The plugin process ends with std::process::exit: a behaviour stops there.
CHECK_DEADLOCK FALSE

INVARIANTS
    ListsAllInstalled
