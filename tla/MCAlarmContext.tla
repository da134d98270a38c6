--------------------------- MODULE MCAlarmContext -----------------------------
(* Small instances of AlarmContext for TLC.  No definition tells the alarms  *)
(* other than Raster and Fetch apart.                                        *)
EXTENDS AlarmContext, TLC

Symmetry == Permutations(Alarms \ {Raster, Fetch})
=============================================================================
