--------------------------- MODULE MCSchemaUpgrade ---------------------------
(* Two processes open one database, in which there are a job and two       *)
(* views.                                                                  *)
EXTENDS SchemaUpgrade, TLC
Symmetric == Permutations(Openers)
=============================================================================
