--------------------------- MODULE MCHorpkgCore ---------------------------
(* A package with a file per version, and two whose files have one name.   *)
EXTENDS HorpkgCore

FileName(p, v) == IF p = "git" THEN <<p, v>> ELSE <<"vim", 1>>
=============================================================================
