----------------------------- MODULE DriveViews -----------------------------
(***************************************************************************)
(* What the listings of the drive show a user: get_file_folder_handler and *)
(* the queries behind it, and what of the drive can be found by opening    *)
(* one folder after the other.  Uploads are over here (is_fully_uploaded   *)
(* is in module Upload), so every file counts as fully uploaded.           *)
(***************************************************************************)
EXTENDS Drive

(* get_files_and_folders_list, for a folder p or, with p = NULL, the root. *)
FoldersIn(u, p) ==
    {d \in folders : /\ Listed(folderAccess[u][d])
                     /\ parent[d] = p \/ (p = NULL /\ folderAccess[u][d].anchor)}

FilesListedIn(u, p) ==
    {f \in files : Listed(fileAccess[u][f]) /\ fileAccess[u][f].folder = p}

(* get_corbeille_contents.  It has no folders in it. *)
TrashedFiles(u) == {f \in files : Trashed(fileAccess[u][f])}

(* The folders that u comes to from the root, opening what is listed:      *)
(* those that are in every set that holds what the root lists and, with a  *)
(* folder, what that folder lists.                                         *)
Navigable(u) ==
    {d \in folders : \A S \in SUBSET folders :
        FoldersIn(u, NULL) \cup UNION {FoldersIn(u, e) : e \in S} \subseteq S => d \in S}

FilesShown(u) ==
    TrashedFiles(u) \cup UNION {FilesListedIn(u, p) : p \in Navigable(u) \cup {NULL}}

(* A folder of u that hangs where u cannot get: in a folder that u has no  *)
(* row for, or, though itself active, in one that is not.                  *)
Loose(u, d) ==
    /\ HasRow(folderAccess[u][d])
    /\ parent[d] # NULL
    /\ \/ ~HasRow(folderAccess[u][parent[d]])
       \/ Active(folderAccess[u][d]) /\ ~Active(folderAccess[u][parent[d]])

LooseFile(u, f) ==
    LET row == fileAccess[u][f] IN
    /\ HasRow(row)
    /\ row.folder # NULL
    /\ \/ ~HasRow(folderAccess[u][row.folder])
       \/ Active(row) /\ ~Active(folderAccess[u][row.folder])

(* The folder d is loose, or is somewhere below one that is. *)
Astray(u, d) == \E e \in folders : Loose(u, e) /\ d \in Tree(e)

-----------------------------------------------------------------------------
(* Nothing that is not shared is lost: every file is listed in the trash   *)
(* or in a folder that can be opened from the root, and every folder not   *)
(* in the trash can be opened.  The exception is what is astray, and by    *)
(* OnlyCreationStrands that is only what was put below a folder created in *)
(* a place its creator could no longer open.                               *)
NothingIsLost ==
    \A u \in User :
        /\ \A f \in files : HasRow(fileAccess[u][f]) =>
               f \in FilesShown(u) \/ Astray(u, fileAccess[u][f].folder)
        /\ \A d \in folders : Active(folderAccess[u][d]) =>
               d \in Navigable(u) \/ Astray(u, d)

(* In a drive that is not shared, no move, deletion, restoration or        *)
(* emptied trash cuts an item off from the folder above it (a restored one *)
(* comes back with its trashed ancestors): the one request that leaves a   *)
(* folder loose is its own creation, which does not look at the parent.    *)
OnlyCreationStrands ==
    [][\A u \in User :
          /\ \A d \in Folder : Loose(u, d)' => Loose(u, d) \/ d \notin folders
          /\ \A f \in File : ~LooseFile(u, f)']_vars

(* The comments in create_folder_in_db and in the migration                *)
(* fix_is_root_anchor say that the root does not list the subfolders of    *)
(* their owner.                                                            *)
SubfoldersAreNotAtTheRoot ==
    \A u \in User : \A d \in FoldersIn(u, NULL) :
        IsOwner(folderAccess[u][d]) => parent[d] = NULL
==============================================================================
