------------------------------- MODULE MCUpload -------------------------------
(* Instances of Upload for TLC.  The run with liveness properties does not *)
(* use the symmetry set.                                                   *)
EXTENDS Upload, TLC

Symmetry == Permutations(Key) \cup Permutations(Index)
==============================================================================
