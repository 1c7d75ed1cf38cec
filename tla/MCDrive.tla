------------------------------- MODULE MCDrive -------------------------------
(* Instances of Drive and DriveViews for TLC: users, folders and files are *)
(* model values that no action tells apart.                                *)
EXTENDS DriveViews, TLC

Symmetry ==
    Permutations(Creator) \cup Permutations(User \ Creator) \cup Permutations(Folder) \cup Permutations(File)

(* A bound of the run drive_shared: no folder has subfolders.  The trees   *)
(* are explored by the run drive_solo.                                     *)
SideBySide == \A d \in folders : parent[d] = NULL
==============================================================================
