--------------------------- MODULE MC_ConfigStore ---------------------------
EXTENDS ConfigStore, TLC

CONSTANTS p1, p2, k1, k2, x, y

MC_Keys == {k1, k2}
MC_Vals == {x, y}
MC_One == {p1}
MC_Two == {p1, p2}

=============================================================================
