----------------------------- MODULE FolderForest -----------------------------
(***************************************************************************)
(* What the tree of folders promises to everything that walks it: folders  *)
(* are inserted as leaves, one folder moves at a time and the result is a  *)
(* forest, and a folder is removed together with all it contains.  Drive   *)
(* and FolderMove are shown to implement this.                             *)
(***************************************************************************)
CONSTANTS
    Folder,   \* slots for folder ids
    NULL      \* the parent of a folder at the root

VARIABLES
    folders,  \* the folders that exist
    parent    \* the parent of each folder

ForestVars == <<folders, parent>>

Init ==
    /\ folders = {}
    /\ parent = [d \in Folder |-> NULL]

(* No set of folders holds all its own parents: there is no cycle. *)
Forest == \A S \in SUBSET folders : S # {} => \E d \in S : parent[d] \notin S

Insert(d, p) ==
    /\ d \notin folders
    /\ p \in folders \cup {NULL}
    /\ folders' = folders \cup {d}
    /\ parent' = [parent EXCEPT ![d] = p]

Move(d, p) ==
    /\ d \in folders
    /\ p \in folders \cup {NULL}
    /\ parent' = [parent EXCEPT ![d] = p]
    /\ UNCHANGED folders
    /\ Forest'

Remove(D) ==
    /\ \A d \in folders : parent[d] \in D => d \in D
    /\ folders' = folders \ D
    /\ parent' = [d \in Folder |-> IF d \in D THEN NULL ELSE parent[d]]

Next ==
    \/ \E d \in Folder, p \in folders \cup {NULL} : Insert(d, p) \/ Move(d, p)
    \/ \E D \in SUBSET folders : Remove(D)

Spec == Init /\ [][Next]_ForestVars
==============================================================================
