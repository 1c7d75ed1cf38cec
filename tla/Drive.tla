-------------------------------- MODULE Drive --------------------------------
(***************************************************************************)
(* The drive's metadata: the tables folders, folder_access, files and      *)
(* file_access, and one action per operation of src/drive/repo.rs that     *)
(* changes them.  An operation that runs in one SQL transaction is one     *)
(* step.  The steps inside move_folder, an upload and a quota check are    *)
(* the subject of other modules.                                           *)
(*                                                                         *)
(* A row of an access table is a record; a missing row is the record whose *)
(* level is "none".  Ids are UUIDs: a slot of Folder or File that no row   *)
(* mentions any more stands for the next fresh id.  Names, keys, sizes and *)
(* timestamps are abstracted: no statement modelled here branches on them. *)
(*                                                                         *)
(* An operator X_Variant is X with a fault in it.  No specification uses   *)
(* it: it stands there to show which property notices the fault.           *)
(***************************************************************************)
EXTENDS Naturals, FiniteSets

CONSTANTS
    User,         \* rows of the table users
    Creator,      \* the users that create files and folders in this instance
    Folder,       \* slots for folder ids
    File,         \* slots for file ids
    NULL,         \* SQL NULL in parent_folder_id and folder_id
    FileLevel,    \* levels that requests about one file grant
    FolderLevel,  \* levels that requests about a folder grant
    Faults        \* which of AllFaults may happen

Level == {"owner", "editor", "viewer"}

(* "second_insert": the second of two INSERTs that are not in one          *)
(* transaction fails.                                                      *)
AllFaults == {"second_insert"}

ASSUME NullAssumption == NULL \notin Folder
ASSUME LevelAssumption == FileLevel \cup FolderLevel \subseteq Level
ASSUME CreatorAssumption == Creator \subseteq User
ASSUME FaultAssumption == Faults \subseteq AllFaults

VARIABLES
    folders,       \* ids of the rows of folders
    parent,        \* folders.parent_folder_id
    isRoot,        \* folders.is_root
    files,         \* ids of the rows of files
    fileDeleted,   \* the files whose column files.is_deleted is TRUE
    folderAccess,  \* folderAccess[u][d]: the row (d, u) of folder_access
    fileAccess     \* fileAccess[u][f]: the row (f, u) of file_access

folderVars == <<folders, parent, isRoot>>
fileVars == <<files, fileDeleted>>
vars == <<folders, parent, isRoot, files, fileDeleted, folderAccess, fileAccess>>

NoFolderRow == [level |-> "none", deleted |-> FALSE,
                accepted |-> FALSE, anchor |-> FALSE]
NoFileRow == [level |-> "none", deleted |-> FALSE,
              accepted |-> FALSE, folder |-> NULL]

FolderRow == {NoFolderRow} \cup
    [level : Level, deleted : BOOLEAN, accepted : BOOLEAN, anchor : BOOLEAN]
FileRow == {NoFileRow} \cup
    [level : Level, deleted : BOOLEAN, accepted : BOOLEAN, folder : Folder \cup {NULL}]

-----------------------------------------------------------------------------
(* Predicates on rows, as the WHERE clauses of the queries spell them.     *)

HasRow(row) == row.level # "none"
IsOwner(row) == row.level = "owner"
CanEdit_Unchecked(row) == row.level \in Level \cup {"none"}
CanEdit(row) == row.level \in {"owner", "editor"}
Active(row) == HasRow(row) /\ ~row.deleted
Listed(row) == Active(row) /\ row.accepted
Trashed(row) == HasRow(row) /\ row.deleted
NonOwner(row) == HasRow(row) /\ ~IsOwner(row)

Discard(row) == IF HasRow(row) THEN [row EXCEPT !.deleted = TRUE] ELSE row
Restore(row) == IF HasRow(row) THEN [row EXCEPT !.deleted = FALSE] ELSE row
Accept(row) == IF Active(row) THEN [row EXCEPT !.accepted = TRUE] ELSE row

-----------------------------------------------------------------------------
(* The folder tree.  Below(d, via), for a folder d, is the least set that  *)
(* holds d and, with a folder, its children in via: the fixed point the    *)
(* recursive queries compute.                                              *)

Below(d, via) ==
    {e \in folders : \A S \in SUBSET folders :
        (d \in S /\ \A x \in via : parent[x] \in S => x \in S) => e \in S}

Tree(d) == Below(d, folders)

Ancestors_ParentOnly(d) == {e \in folders : e = d \/ (d \in folders /\ parent[d] = e)}

Ancestors(d) == {e \in folders : d \in Tree(e)}

FilesIn(u, S) == {f \in files : HasRow(fileAccess[u][f]) /\ fileAccess[u][f].folder \in S}

-----------------------------------------------------------------------------
Init ==
    /\ folders = {}
    /\ parent = [d \in Folder |-> NULL]
    /\ isRoot = [d \in Folder |-> FALSE]
    /\ files = {}
    /\ fileDeleted = {}
    /\ folderAccess = [u \in User |-> [d \in Folder |-> NoFolderRow]]
    /\ fileAccess = [u \in User |-> [f \in File |-> NoFileRow]]

-----------------------------------------------------------------------------
(* Creating files and folders.                                             *)

CanPutIn_AnyFolder(u, d) == d \in folders \cup {NULL}

CanPutIn(u, d) == d = NULL \/ (d \in folders /\ Listed(folderAccess[u][d]))

InitializeFile(u, f, d) ==
    /\ u \in Creator
    /\ f \notin files
    /\ CanPutIn(u, d)
    /\ files' = files \cup {f}
    /\ fileAccess' = [fileAccess EXCEPT ![u][f] =
           [level |-> "owner", deleted |-> FALSE, accepted |-> TRUE, folder |-> d]]
    /\ UNCHANGED <<folderVars, fileDeleted, folderAccess>>

(* Nothing is asked about the parent: it may be in the caller's trash, or  *)
(* in somebody else's drive.                                               *)
InsertFolder(d, p) ==
    /\ d \notin folders
    /\ p \in folders \cup {NULL}
    /\ folders' = folders \cup {d}
    /\ parent' = [parent EXCEPT ![d] = p]
    /\ isRoot' = [isRoot EXCEPT ![d] = (p = NULL)]

CreateFolder(u, d, p) ==
    /\ u \in Creator
    /\ InsertFolder(d, p)
    /\ folderAccess' = [folderAccess EXCEPT ![u][d] =
           [level |-> "owner", deleted |-> FALSE, accepted |-> TRUE,
            anchor |-> (p = NULL)]]
    /\ UNCHANGED <<fileVars, fileAccess>>

(* The two INSERTs are separate statements: the second one may fail.       *)
CreateFolderFails(u, d, p) ==
    /\ "second_insert" \in Faults
    /\ u \in Creator
    /\ InsertFolder(d, p)
    /\ UNCHANGED <<fileVars, folderAccess, fileAccess>>

-----------------------------------------------------------------------------
(* Moving.  A file's place is per user, a folder's place is global.        *)

MoveFile(u, f, d) ==
    /\ CanEdit(fileAccess[u][f])
    /\ CanPutIn(u, d)
    /\ fileAccess' = [fileAccess EXCEPT ![u][f].folder = d]
    /\ UNCHANGED <<folderVars, fileVars, folderAccess>>

MayMoveUnder_NoCycleCheck(u, d, p) == CanPutIn(u, p) /\ d # p

MayMoveUnder(u, d, p) == CanPutIn(u, p) /\ p \notin Tree(d)

MoveFolder(u, d, p) ==
    /\ CanEdit(folderAccess[u][d])
    /\ MayMoveUnder(u, d, p)
    /\ parent' = [parent EXCEPT ![d] = p]
    /\ isRoot' = [isRoot EXCEPT ![d] = (p = NULL)]
    /\ UNCHANGED <<folders, fileVars, folderAccess, fileAccess>>

-----------------------------------------------------------------------------
(* Deleting.                                                               *)

(* The rows of S go, and with them their rows in file_access (and s3_keys, *)
(* see module Upload).                                                     *)
RemoveFiles(S) ==
    /\ files' = files \ S
    /\ fileDeleted' = fileDeleted \ S

WithoutFiles(S) ==
    [v \in User |-> [g \in File |-> IF g \in S THEN NoFileRow ELSE fileAccess[v][g]]]

LeaveFile(u, f) ==
    /\ fileAccess' = [fileAccess EXCEPT ![u][f] = NoFileRow]
    /\ UNCHANGED fileVars

SoleHolder_Unchecked(u, f) == HasRow(fileAccess[u][f])

SoleHolder(u, f) == \A v \in User \ {u} : ~HasRow(fileAccess[v][f])

AbortUpload(u, f) ==
    /\ HasRow(fileAccess[u][f])
    /\ IF SoleHolder(u, f)
       THEN RemoveFiles({f}) /\ fileAccess' = WithoutFiles({f})
       ELSE LeaveFile(u, f)
    /\ UNCHANGED <<folderVars, folderAccess>>

DeleteFileForever(u, f) ==
    /\ IsOwner(fileAccess[u][f]) /\ fileAccess[u][f].deleted
    /\ RemoveFiles({f})
    /\ fileAccess' = WithoutFiles({f})

TrashFile(u, f) ==
    /\ IsOwner(fileAccess[u][f]) /\ ~fileAccess[u][f].deleted
    /\ fileAccess' = [WithoutFiles({f}) EXCEPT ![u][f] = Discard(fileAccess[u][f])]
    /\ fileDeleted' = fileDeleted \cup {f}
    /\ UNCHANGED files

DeleteFile(u, f) ==
    /\ \/ DeleteFileForever(u, f)
       \/ TrashFile(u, f)
       \/ NonOwner(fileAccess[u][f]) /\ LeaveFile(u, f)
    /\ UNCHANGED <<folderVars, folderAccess>>

(* The owner's rows of the tree go to the trash, everyone else's are       *)
(* deleted, and the files the owner still places there are marked.         *)
TrashFolder(u, d) ==
    LET T == Tree(d) IN
    /\ IsOwner(folderAccess[u][d])
    /\ folderAccess' = [v \in User |-> [e \in Folder |->
           IF e \notin T THEN folderAccess[v][e]
           ELSE IF v = u THEN Discard(folderAccess[v][e]) ELSE NoFolderRow]]
    /\ fileAccess' = [v \in User |-> [g \in File |->
           IF fileAccess[v][g].folder \notin T THEN fileAccess[v][g]
           ELSE IF v = u THEN Discard(fileAccess[v][g]) ELSE NoFileRow]]
    /\ fileDeleted' = fileDeleted \cup FilesIn(u, T)

(* v loses its rows of the tree of d: what revoke_folder_access does to    *)
(* its target, and delete_folder to a caller that is not the owner.        *)
LeaveFolder(v, d) ==
    LET T == Tree(d) IN
    /\ folderAccess' = [folderAccess EXCEPT ![v] = [e \in Folder |->
           IF e \in T THEN NoFolderRow ELSE folderAccess[v][e]]]
    /\ fileAccess' = [fileAccess EXCEPT ![v] = [g \in File |->
           IF fileAccess[v][g].folder \in T THEN NoFileRow ELSE fileAccess[v][g]]]
    /\ UNCHANGED fileDeleted

DeleteFolder(u, d) ==
    /\ \/ TrashFolder(u, d)
       \/ NonOwner(folderAccess[u][d]) /\ LeaveFolder(u, d)
    /\ UNCHANGED <<folderVars, files>>

-----------------------------------------------------------------------------
(* The trash ("corbeille").                                                *)

(* u's rows of the folders S leave the trash. *)
RestoredFolders(u, S) ==
    [folderAccess EXCEPT ![u] = [e \in Folder |->
        IF e \in S THEN Restore(folderAccess[u][e]) ELSE folderAccess[u][e]]]

RestoreFile(u, f) ==
    /\ Trashed(fileAccess[u][f])
    /\ folderAccess' = RestoredFolders(u, Ancestors(fileAccess[u][f].folder))
    /\ fileAccess' = [fileAccess EXCEPT ![u][f] = Restore(fileAccess[u][f])]
    /\ fileDeleted' = fileDeleted \ {f}
    /\ UNCHANGED <<folderVars, files>>

RestoreFolder(u, d) ==
    LET T == Tree(d) IN
    /\ Trashed(folderAccess[u][d])
    /\ folderAccess' = RestoredFolders(u, Ancestors(d) \cup T)
    /\ fileAccess' = [fileAccess EXCEPT ![u] = [g \in File |->
           IF fileAccess[u][g].folder \in T THEN Restore(fileAccess[u][g])
           ELSE fileAccess[u][g]]]
    /\ UNCHANGED <<folderVars, fileVars>>

DoomedFiles_Untrashed(u) == {f \in files : IsOwner(fileAccess[u][f])}

DoomedFiles(u) == {f \in files : IsOwner(fileAccess[u][f]) /\ fileAccess[u][f].deleted}

DoomedFolders_NoCascade(u) ==
    {d \in folders : IsOwner(folderAccess[u][d]) /\ folderAccess[u][d].deleted}

(* Folders whose row the caller trashed as owner, and with each of them,   *)
(* by ON DELETE CASCADE on parent_folder_id, its whole subtree.            *)
DoomedFolders(u) ==
    UNION {Tree(d) : d \in {e \in folders : IsOwner(folderAccess[u][e])
                                          /\ folderAccess[u][e].deleted}}

EmptyTrash(u) ==
    LET F == DoomedFiles(u)
        D == DoomedFolders(u) IN
    /\ RemoveFiles(F)
    /\ fileAccess' = [v \in User |-> [g \in File |->
           IF g \in F \/ (v = u /\ fileAccess[v][g].deleted) THEN NoFileRow
           ELSE IF fileAccess[v][g].folder \in D
                THEN [fileAccess[v][g] EXCEPT !.folder = NULL]
                ELSE fileAccess[v][g]]]
    /\ folders' = folders \ D
    /\ parent' = [d \in Folder |-> IF d \in D THEN NULL ELSE parent[d]]
    /\ isRoot' = [d \in Folder |-> isRoot[d] /\ d \notin D]
    /\ folderAccess' = [v \in User |-> [d \in Folder |->
           IF d \in D \/ (v = u /\ folderAccess[v][d].deleted) THEN NoFolderRow
           ELSE folderAccess[v][d]]]

-----------------------------------------------------------------------------
(* Sharing.  A row that exists is updated in place (ON CONFLICT), so it    *)
(* keeps its folder_id; share_* leaves it pending and unanchored.          *)

PendingFile(row, l, d) ==
    [level |-> l, deleted |-> FALSE, accepted |-> FALSE,
     folder |-> IF HasRow(row) THEN row.folder ELSE d]

PendingFolder(l) ==
    [level |-> l, deleted |-> FALSE, accepted |-> FALSE, anchor |-> FALSE]

OwnsFile(u, f) == IsOwner(fileAccess[u][f])

ShareFile(u, f, v, l) ==
    /\ v # u
    /\ OwnsFile(u, f)
    /\ fileAccess' = [fileAccess EXCEPT ![v][f] = PendingFile(fileAccess[v][f], l, NULL)]
    /\ UNCHANGED <<folderVars, fileVars, folderAccess>>

(* The request names the folder d, which its caller must own, and comes    *)
(* with a key for each folder of D and for each file.  The folders of D    *)
(* need only exist; files that the caller does not own are skipped, which  *)
(* leaves F.                                                               *)
ShareFolderBatch(u, d, v, l, D, F) ==
    /\ v # u
    /\ IsOwner(folderAccess[u][d])
    /\ D \subseteq folders
    /\ \A f \in F : OwnsFile(u, f)
    /\ folderAccess' = [folderAccess EXCEPT ![v] = [e \in Folder |->
           IF e \in D THEN PendingFolder(l) ELSE folderAccess[v][e]]]
    /\ fileAccess' = [fileAccess EXCEPT ![v] = [g \in File |->
           IF g \in F THEN PendingFile(fileAccess[v][g], l, fileAccess[u][g].folder)
           ELSE fileAccess[v][g]]]
    /\ UNCHANGED <<folderVars, fileVars>>

(* A client that uploads into a shared folder passes the access on to the  *)
(* folder's other users; the row is accepted at once.  The query for the   *)
(* caller's folder decodes a Uuid, so for a file at the root it fails.     *)
PropagateFile(u, f, v, l) ==
    /\ v # u
    /\ OwnsFile(u, f)
    /\ fileAccess[u][f].folder # NULL
    /\ fileAccess' = [fileAccess EXCEPT ![v][f] =
           [PendingFile(fileAccess[v][f], l, fileAccess[u][f].folder)
               EXCEPT !.accepted = TRUE]]
    /\ UNCHANGED <<folderVars, fileVars, folderAccess>>

PropagateFolder(u, d, v, l) ==
    /\ v # u
    /\ IsOwner(folderAccess[u][d])
    /\ folderAccess' = [folderAccess EXCEPT ![v][d] =
           [level |-> l, deleted |-> FALSE, accepted |-> TRUE,
            anchor |-> folderAccess[v][d].anchor]]
    /\ UNCHANGED <<folderVars, fileVars, fileAccess>>

RevokeFile(u, f, v) ==
    /\ OwnsFile(u, f)
    /\ fileAccess' = [fileAccess EXCEPT ![v][f] = NoFileRow]
    /\ UNCHANGED <<folderVars, fileVars, folderAccess>>

RevokeFolder(u, d, v) ==
    /\ IsOwner(folderAccess[u][d])
    /\ LeaveFolder(v, d)
    /\ UNCHANGED <<folderVars, files>>

-----------------------------------------------------------------------------
(* Answering a share.                                                      *)

MayAnswer(row) == NonOwner(row) /\ ~row.deleted

AcceptFile(u, f) ==
    LET row == fileAccess[u][f] IN
    /\ MayAnswer(row)
    /\ fileAccess' = [fileAccess EXCEPT ![u][f] =
           [row EXCEPT !.accepted = TRUE,
                       !.folder = IF CanPutIn(u, row.folder) THEN row.folder ELSE NULL]]
    /\ UNCHANGED <<folderVars, fileVars, folderAccess>>

AcceptFolder(u, d) ==
    LET T == Tree(d) IN
    /\ MayAnswer(folderAccess[u][d])
    /\ folderAccess' = [folderAccess EXCEPT ![u] = [e \in Folder |->
           IF e = d THEN [folderAccess[u][e] EXCEPT !.accepted = TRUE, !.anchor = TRUE]
           ELSE IF e \in T THEN Accept(folderAccess[u][e])
           ELSE folderAccess[u][e]]]
    /\ fileAccess' = [fileAccess EXCEPT ![u] = [g \in File |->
           IF fileAccess[u][g].folder \in T THEN Accept(fileAccess[u][g])
           ELSE fileAccess[u][g]]]
    /\ UNCHANGED <<folderVars, fileVars>>

RejectFile(u, f) ==
    /\ MayAnswer(fileAccess[u][f])
    /\ fileAccess' = [fileAccess EXCEPT ![u][f] = Discard(fileAccess[u][f])]
    /\ UNCHANGED <<folderVars, fileVars, folderAccess>>

RejectFolder(u, d) ==
    LET T == Tree(d) IN
    /\ MayAnswer(folderAccess[u][d])
    /\ folderAccess' = [folderAccess EXCEPT ![u] = [e \in Folder |->
           IF e \in T THEN Discard(folderAccess[u][e]) ELSE folderAccess[u][e]]]
    /\ fileAccess' = [fileAccess EXCEPT ![u] = [g \in File |->
           IF fileAccess[u][g].folder \in T THEN Discard(fileAccess[u][g])
           ELSE fileAccess[u][g]]]
    /\ UNCHANGED <<folderVars, fileVars>>

-----------------------------------------------------------------------------
FileStep(u, f) ==
    \/ \E d \in folders \cup {NULL} : InitializeFile(u, f, d) \/ MoveFile(u, f, d)
    \/ AbortUpload(u, f) \/ DeleteFile(u, f) \/ RestoreFile(u, f)
    \/ AcceptFile(u, f) \/ RejectFile(u, f)
    \/ \E v \in User : RevokeFile(u, f, v)
    \/ \E v \in User, l \in FileLevel : ShareFile(u, f, v, l) \/ PropagateFile(u, f, v, l)

FolderStep(u, d) ==
    \/ \E p \in folders \cup {NULL} :
           CreateFolder(u, d, p) \/ CreateFolderFails(u, d, p) \/ MoveFolder(u, d, p)
    \/ DeleteFolder(u, d) \/ RestoreFolder(u, d)
    \/ AcceptFolder(u, d) \/ RejectFolder(u, d)
    \/ \E v \in User : RevokeFolder(u, d, v)
    \/ \E v \in User, l \in FolderLevel :
           \/ \E D \in SUBSET folders, F \in SUBSET files : ShareFolderBatch(u, d, v, l, D, F)
           \/ PropagateFolder(u, d, v, l)

(* One request of user u. *)
Step(u) ==
    \/ \E f \in File : FileStep(u, f)
    \/ \E d \in Folder : FolderStep(u, d)
    \/ EmptyTrash(u)

Next == \E u \in User : Step(u)

Spec == Init /\ [][Next]_vars

-----------------------------------------------------------------------------
(* Properties.                                                             *)

(* Every table has its columns' types; a missing row has no contents. *)
TypeOK ==
    /\ folders \subseteq Folder
    /\ parent \in [Folder -> Folder \cup {NULL}]
    /\ isRoot \in [Folder -> BOOLEAN]
    /\ files \subseteq File
    /\ fileDeleted \subseteq files
    /\ folderAccess \in [User -> [Folder -> FolderRow]]
    /\ fileAccess \in [User -> [File -> FileRow]]

(* What the requests do to the tree of folders, in the words of            *)
(* FolderForest: leaves are inserted, one folder moves at a time and no    *)
(* cycle results, and a folder goes together with all it contains.         *)
Abstract == INSTANCE FolderForest WITH
    Folder <- Folder, NULL <- NULL, folders <- folders, parent <- parent
ImplementsForest == Abstract!Spec

(* The folders form a forest: no set of folders holds all its own parents. *)
Forest == Abstract!Forest

(* is_root says the same as parent_folder_id, and parents exist. *)
ParentsExist == \A d \in folders : /\ parent[d] \in folders \cup {NULL}
                                   /\ isRoot[d] <=> parent[d] = NULL

(* Access rows are about folders and files that exist. *)
RowsReferToItems ==
    /\ \A u \in User, d \in Folder : HasRow(folderAccess[u][d]) => d \in folders
    /\ \A u \in User, f \in File : HasRow(fileAccess[u][f]) =>
           f \in files /\ fileAccess[u][f].folder \in folders \cup {NULL}

(* Whatever the users do, by moving, trashing, emptying and sharing, the   *)
(* tree the recursive queries walk stays a forest over existing folders,   *)
(* and every access row refers into it.                                    *)
Integrity == Forest /\ ParentsExist /\ RowsReferToItems

(* What user u may decide about for others: the folders it owns and all    *)
(* they contain.                                                           *)
OwnedTree(u) == UNION {Tree(d) : d \in {e \in folders : IsOwner(folderAccess[u][e])}}

(* A share that its recipient has not answered. *)
Pending(row) == Active(row) /\ ~row.accepted

(* The rows of user v that a step of u changes are about items that u      *)
(* decides about, or are folder rows that it leaves pending.               *)
WithinReach(u, v) ==
    /\ \A d \in Folder : folderAccess'[v][d] # folderAccess[v][d] =>
           \/ d \in OwnedTree(u)
           \/ OwnedTree(u) # {} /\ Pending(folderAccess'[v][d])
    /\ \A f \in File : fileAccess'[v][f] # fileAccess[v][f] =>
           OwnsFile(u, f) \/ fileAccess[v][f].folder \in OwnedTree(u)

(* What a request does to another user (take access away, trash, move,     *)
(* grant and accept in the recipient's place) it does only to items that   *)
(* the caller owns or keeps below a folder it owns.  Beyond these, all     *)
(* that reaches another user's row is the batch of a caller who shares     *)
(* some folder: share_folder_batch asks nothing about the other folders    *)
(* the batch names, and whatever row it writes is a share to be answered.  *)
OnlyOffersReachFurther ==
    [][\A u \in User : (\A v \in User \ {u} : WithinReach(u, v)) \/ ~Step(u)]_vars

(* A file is destroyed by a user who aborts its upload and is its only     *)
(* holder, or by one of its owners, with delete_file or empty_corbeille,   *)
(* out of that owner's own trash.  Other holders are not asked: the file   *)
(* may be active in their drives.                                          *)
FilesEndInTrash ==
    [][\A f \in files \ files' : \E u \in User :
          \/ AbortUpload(u, f) /\ SoleHolder(u, f)
          \/ /\ DeleteFile(u, f) \/ EmptyTrash(u)
             /\ OwnsFile(u, f)
             /\ Trashed(fileAccess[u][f])]_vars

(* revoke_folder_access revokes "incluant enfants": afterwards the target  *)
(* has no access to a file that the revoking owner keeps in the tree.      *)
RevocationCoversFiles ==
    [][\A u \in User, v \in User, d \in folders :
          v # u /\ RevokeFolder(u, d, v) =>
              \A f \in FilesIn(u, Tree(d)) : ~HasRow(fileAccess'[v][f])]_vars

(* docs/API_DOCUMENTATION.md: deleting a folder is a soft delete that      *)
(* marks the folder and all its files.  So an owner who deletes a folder   *)
(* leaves every file that someone held in someone's drive or trash.        *)
Held(f) == \E u \in User : HasRow(fileAccess[u][f])

DeleteFolderIsSoft ==
    [][\A u \in User, d \in folders :
          TrashFolder(u, d) => \A f \in files : Held(f) => Held(f)']_vars
==============================================================================
