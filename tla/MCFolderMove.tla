----------------------------- MODULE MCFolderMove -----------------------------
(* Instances of FolderMove for TLC.  Requests and folders are model values *)
(* and the runs with liveness use no symmetry.                             *)
EXTENDS FolderMove, TLC

Symmetry == Permutations(Folder) \cup Permutations(Request)
==============================================================================
