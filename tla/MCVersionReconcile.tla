------------------------- MODULE MCVersionReconcile -------------------------
(* Small instances of VersionReconcile.                                      *)
EXTENDS VersionReconcile, TLC

CONSTANTS f1, f2

\* Nothing tells the flows apart but what has happened to them.
Alike == Permutations(Flows)
=============================================================================
