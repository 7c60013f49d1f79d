\* Two tedge processes running update_toml or load concurrently.
CONSTANTS
    p1 = p1  p2 = p2  k1 = k1  k2 = k2  x = x  y = y
    NoVal = NoVal
    Procs <- MC_Two
    Keys <- MC_Keys
    Vals <- MC_Vals
SPECIFICATION Spec
INVARIANTS NoLostUpdate
