\* One tedge process at a time, killed at any step.
CONSTANTS
    p1 = p1  p2 = p2  k1 = k1  k2 = k2  x = x  y = y
    NoVal = NoVal
    Procs <- MC_One
    Keys <- MC_Keys
    Vals <- MC_Vals
SPECIFICATION Spec
INVARIANTS TypeOK NoLostUpdate MigratedOnReturn
PROPERTIES SettingsSpec
