--------------------------- MODULE MC_MqttSession ---------------------------
(* Model-checking instance of MqttSession: two topic filters as model      *)
(* values; the published messages, refusals and request channel slots are  *)
(* set per run in the .cfg files.  MC_Symmetry is used by the safety-only  *)
(* violation runs; it is unsound for the liveness property CallsReturn.    *)
EXTENDS MqttSession, TLC

CONSTANTS t1, t2

MC_Topics == {t1, t2}

MC_Symmetry == Permutations(MC_Topics)
=============================================================================
