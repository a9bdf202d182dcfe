--------------------------- MODULE MCHorpkgInit ---------------------------
(* HorpkgInit with the constants its configurations give.                  *)
EXTENDS HorpkgInit
=============================================================================
