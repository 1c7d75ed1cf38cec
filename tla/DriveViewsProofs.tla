--------------------------- MODULE DriveViewsProofs ---------------------------
(***************************************************************************)
(* Theorems about what a drive that nobody shares keeps in sight, for any  *)
(* number of users, folders and files: no request but the creation of a    *)
(* folder cuts it off from the folder above it, and nothing that is not    *)
(* below such a folder gets out of sight.                                  *)
(***************************************************************************)
EXTENDS DriveViews, DriveProofs

(* Nobody shares.  This is the hypothesis: a share that is not accepted    *)
(* yet is in no listing.                                                   *)
Unshared == FileLevel = {} /\ FolderLevel = {}

(* A folder is one user's alone.                                           *)
FoldersOwned ==
    \A u \in User, d \in Folder :
        HasRow(folderAccess[u][d]) =>
            /\ IsOwner(folderAccess[u][d]) /\ folderAccess[u][d].accepted
            /\ \A v \in User \ {u} : ~HasRow(folderAccess[v][d])

(* A file is in a folder of its user, out of the trash when the file is.   *)
FilesPlaced ==
    \A u \in User, f \in File :
        HasRow(fileAccess[u][f]) =>
            /\ IsOwner(fileAccess[u][f]) /\ fileAccess[u][f].accepted
            /\ fileAccess[u][f].folder # NULL =>
                  /\ HasRow(folderAccess[u][fileAccess[u][f].folder])
                  /\ Active(fileAccess[u][f]) =>
                        Active(folderAccess[u][fileAccess[u][f].folder])

Private == FoldersOwned /\ FilesPlaced

(* What a step may do to the places of the folders. *)
OnlyNewLoose ==
    \A u \in User, d \in Folder : Loose(u, d)' => Loose(u, d) \/ d \notin folders

-----------------------------------------------------------------------------
(* Rows.                                                                   *)

LEMMA FolderRowOps ==
    ASSUME NEW row \in FolderRow
    PROVE  /\ ~HasRow(NoFolderRow) /\ ~Active(NoFolderRow)
           /\ HasRow(Discard(row)) <=> HasRow(row)
           /\ IsOwner(Discard(row)) <=> IsOwner(row)
           /\ Discard(row).accepted = row.accepted
           /\ ~Active(Discard(row))
           /\ HasRow(Restore(row)) <=> HasRow(row)
           /\ IsOwner(Restore(row)) <=> IsOwner(row)
           /\ Restore(row).accepted = row.accepted
           /\ Active(Restore(row)) <=> HasRow(row)
  BY DEF FolderRow, NoFolderRow, HasRow, IsOwner, Active, Discard, Restore, Level

LEMMA FileRowOps ==
    ASSUME NEW row \in FileRow
    PROVE  /\ ~HasRow(NoFileRow) /\ ~Active(NoFileRow)
           /\ HasRow(Discard(row)) <=> HasRow(row)
           /\ IsOwner(Discard(row)) <=> IsOwner(row)
           /\ Discard(row).accepted = row.accepted /\ Discard(row).folder = row.folder
           /\ ~Active(Discard(row))
           /\ HasRow(Restore(row)) <=> HasRow(row)
           /\ IsOwner(Restore(row)) <=> IsOwner(row)
           /\ Restore(row).accepted = row.accepted /\ Restore(row).folder = row.folder
           /\ Active(Restore(row)) <=> HasRow(row)
  BY DEF FileRow, NoFileRow, HasRow, IsOwner, Active, Discard, Restore, Level

LEMMA Tables ==
    ASSUME IInv
    PROVE  /\ folderAccess \in [User -> [Folder -> FolderRow]]
           /\ fileAccess \in [User -> [File -> FileRow]]
           /\ parent \in [Folder -> Folder \cup {NULL}] /\ folders \subseteq Folder
           /\ \A u \in User, d \in Folder : HasRow(folderAccess[u][d]) => d \in folders
           /\ \A u \in User, f \in File :
                 HasRow(fileAccess[u][f]) => /\ f \in files
                                             /\ fileAccess[u][f].folder \in folders \cup {NULL}
           /\ \A d \in folders : parent[d] \in folders \cup {NULL}
  BY DEF IInv, TreeOK, ParentsExist, FolderTable, FolderCell, FileTable, FileCell

-----------------------------------------------------------------------------
(* The tree.                                                               *)

(* Every folder of a tree but the top has its parent in the tree. *)
LEMMA TreeParents ==
    ASSUME NEW d \in folders, NEW x \in Tree(d), x # d
    PROVE  parent[x] \in Tree(d)
  <1> SUFFICES ASSUME parent[x] \notin Tree(d) PROVE FALSE
    OBVIOUS
  <1> DEFINE S == Tree(d) \ {x}
  <1>1. d \in S /\ S \in SUBSET folders /\ \A y \in folders : parent[y] \in S => y \in S
    BY TreeFacts
  <1>2. x \in S
    BY <1>1 DEF Tree, Below
  <1> QED BY <1>2

(* The ancestors of a folder hold their own parents. *)
LEMMA AncestorParents ==
    ASSUME IInv, NEW d \in folders
    PROVE  /\ d \in Ancestors(d)
           /\ \A e \in Ancestors(d) : parent[e] # NULL => parent[e] \in Ancestors(d)
  <1>1. d \in Ancestors(d)
    BY TreeFacts DEF Ancestors
  <1>2. ASSUME NEW e \in Ancestors(d), parent[e] # NULL
        PROVE  parent[e] \in Ancestors(d)
    <2>1. e \in folders /\ d \in Tree(e) /\ parent[e] \in folders
      BY <1>2, Tables DEF Ancestors
    <2>2. e \in Tree(parent[e]) /\ Tree(parent[e]) \in SUBSET folders
      BY <2>1, TreeFacts
    <2>3. \A y \in folders : parent[y] \in Tree(parent[e]) => y \in Tree(parent[e])
      BY <2>1, TreeFacts
    <2>4. d \in Tree(parent[e])
      BY <2>1, <2>2, <2>3 DEF Tree, Below
    <2> QED BY <2>1, <2>4 DEF Ancestors
  <1> QED BY <1>1, <1>2

-----------------------------------------------------------------------------
(* Steps.                                                                  *)

(* The rows and places of the folders stay; u's row of one file changes. *)
LEMMA OneFilePrivate ==
    ASSUME IInv, Private, NEW u \in User, NEW f \in File, NEW row,
           fileAccess' \in [User -> [File -> FileRow]],
           \A v \in User, g \in File :
               fileAccess'[v][g] \in {fileAccess[v][g], NoFileRow}
                   \/ (v = u /\ g = f /\ fileAccess'[v][g] = row),
           UNCHANGED <<parent, folderAccess>>,
           HasRow(row) =>
               /\ IsOwner(row) /\ row.accepted
               /\ row.folder # NULL => /\ HasRow(folderAccess[u][row.folder])
                                       /\ Active(row) => Active(folderAccess[u][row.folder])
    PROVE  Private' /\ OnlyNewLoose
  <1>1. FoldersOwned' /\ OnlyNewLoose
    BY DEF Private, FoldersOwned, OnlyNewLoose, Loose
  <1>2. FilesPlaced'
    <2> SUFFICES ASSUME NEW v \in User, NEW g \in File, HasRow(fileAccess'[v][g])
                 PROVE  /\ IsOwner(fileAccess'[v][g]) /\ fileAccess'[v][g].accepted
                        /\ fileAccess'[v][g].folder # NULL =>
                              /\ HasRow(folderAccess[v][fileAccess'[v][g].folder])
                              /\ Active(fileAccess'[v][g]) =>
                                    Active(folderAccess[v][fileAccess'[v][g].folder])
      BY DEF FilesPlaced
    <2>1. ~HasRow(NoFileRow)
      BY DEF NoFileRow, HasRow
    <2>2. CASE fileAccess'[v][g] = fileAccess[v][g]
      BY <2>2 DEF Private, FilesPlaced
    <2>3. CASE fileAccess'[v][g] = row /\ v = u
      BY <2>3
    <2> QED BY <2>1, <2>2, <2>3
  <1> QED BY <1>1, <1>2 DEF Private

LEMMA FileStepPrivate ==
    ASSUME IInv, IInv', Private, Unshared, NEW u \in User, NEW f \in File,
           FileStep(u, f), ~RestoreFile(u, f)
    PROVE  Private' /\ OnlyNewLoose
  <1> DEFINE row == fileAccess[u][f]
             Placed(r) == HasRow(r) =>
                 /\ IsOwner(r) /\ r.accepted
                 /\ r.folder # NULL => /\ HasRow(folderAccess[u][r.folder])
                                       /\ Active(r) => Active(folderAccess[u][r.folder])
             Changes(r) == \A v \in User, g \in File :
                 fileAccess'[v][g] \in {fileAccess[v][g], NoFileRow}
                     \/ (v = u /\ g = f /\ fileAccess'[v][g] = r)
  <1>1. /\ fileAccess \in [User -> [File -> FileRow]]
        /\ fileAccess' \in [User -> [File -> FileRow]]
        /\ row \in FileRow /\ Placed(row)
    <2>1. fileAccess' \in [User -> [File -> FileRow]]
      BY DEF IInv, FileTable
    <2> QED BY <2>1, Tables DEF Private, FilesPlaced
  <1>2. ASSUME NEW r, Placed(r), Changes(r), UNCHANGED <<parent, folderAccess>>
        PROVE  Private' /\ OnlyNewLoose
    BY <1>1, <1>2, OneFilePrivate
  <1>3. Placed(NoFileRow)
    BY DEF NoFileRow, HasRow
  <1>4. ASSUME NEW d \in folders \cup {NULL}, CanPutIn(u, d)
        PROVE  d # NULL => HasRow(folderAccess[u][d]) /\ Active(folderAccess[u][d])
    BY <1>4 DEF CanPutIn, Listed, Active
  <1>5. ASSUME NEW d \in folders \cup {NULL}, InitializeFile(u, f, d) PROVE Private' /\ OnlyNewLoose
    <2> DEFINE r == [level |-> "owner", deleted |-> FALSE, accepted |-> TRUE, folder |-> d]
    <2>1. Placed(r)
      BY <1>4, <1>5 DEF InitializeFile, IsOwner
    <2>2. Changes(r) /\ UNCHANGED <<parent, folderAccess>>
      BY <1>1, <1>5 DEF InitializeFile, folderVars
    <2> HIDE DEF r, Placed, Changes
    <2> QED BY <1>2, <2>1, <2>2
  <1>6. ASSUME NEW d \in folders \cup {NULL}, MoveFile(u, f, d) PROVE Private' /\ OnlyNewLoose
    <2> DEFINE r == [row EXCEPT !.folder = d]
    <2>1. HasRow(row) /\ CanPutIn(u, d)
      BY <1>6 DEF MoveFile, CanEdit, HasRow
    <2>2. r.level = row.level /\ r.accepted = row.accepted /\ r.folder = d
      BY <1>1, <2>1 DEF FileRow, NoFileRow, HasRow
    <2>3. Placed(r)
      BY <1>1, <1>4, <2>1, <2>2 DEF IsOwner, HasRow
    <2>4. Changes(r) /\ UNCHANGED <<parent, folderAccess>>
      BY <1>1, <1>6 DEF MoveFile, folderVars
    <2> HIDE DEF r, Placed, Changes
    <2> QED BY <1>2, <2>3, <2>4
  <1>7. ASSUME AbortUpload(u, f) \/ \E v \in User : RevokeFile(u, f, v) PROVE Private' /\ OnlyNewLoose
    <2>1. Changes(NoFileRow) /\ UNCHANGED <<parent, folderAccess>>
      BY <1>1, <1>7 DEF AbortUpload, WithoutFiles, LeaveFile, RevokeFile, folderVars
    <2> HIDE DEF Placed, Changes
    <2> QED BY <1>2, <1>3, <2>1
  <1>8. CASE DeleteFile(u, f)
    <2> DEFINE r == Discard(row)
    <2>1. Placed(r)
      BY <1>1, FileRowOps
    <2>2. UNCHANGED <<parent, folderAccess>>
      BY <1>8 DEF DeleteFile, folderVars
    <2>3. CASE DeleteFileForever(u, f) \/ LeaveFile(u, f)
      <3>1. Changes(NoFileRow)
        BY <1>1, <2>3 DEF DeleteFileForever, LeaveFile, WithoutFiles
      <3> HIDE DEF Placed, Changes
      <3> QED BY <1>2, <1>3, <2>2, <3>1
    <2>4. CASE TrashFile(u, f)
      <3>1. Changes(r)
        BY <1>1, <2>4 DEF TrashFile, WithoutFiles
      <3> HIDE DEF r, Placed, Changes
      <3> QED BY <1>2, <2>1, <2>2, <3>1
    <2> QED BY <1>8, <2>3, <2>4 DEF DeleteFile
  <1>9. ~AcceptFile(u, f) /\ ~RejectFile(u, f)
    BY <1>1 DEF AcceptFile, RejectFile, MayAnswer, NonOwner
  <1> QED BY <1>5, <1>6, <1>7, <1>8, <1>9 DEF FileStep, Unshared

(* A folder is moved where its user can put it; it is created anywhere. *)
LEMMA PlaceFolderPrivate ==
    ASSUME IInv, IInv', Private, Unshared, NEW u \in User, NEW d \in Folder,
           NEW p \in folders \cup {NULL},
           CreateFolder(u, d, p) \/ CreateFolderFails(u, d, p) \/ MoveFolder(u, d, p)
    PROVE  Private' /\ OnlyNewLoose
  <1>1. parent' = [parent EXCEPT ![d] = p] /\ fileAccess' = fileAccess
    BY DEF CreateFolder, CreateFolderFails, MoveFolder, InsertFolder
  <1>2. CASE MoveFolder(u, d, p)
    <2>1. folderAccess' = folderAccess /\ HasRow(folderAccess[u][d])
      BY <1>2 DEF MoveFolder, CanEdit, HasRow
    <2>2. \A v \in User \ {u} : ~HasRow(folderAccess[v][d])
      BY <2>1 DEF Private, FoldersOwned
    <2>3. p # NULL => Active(folderAccess[u][p])
      BY <1>2 DEF MoveFolder, MayMoveUnder, CanPutIn, Listed
    <2>4. ASSUME NEW v \in User, NEW e \in Folder, Loose(v, e)' PROVE Loose(v, e)
      <3>1. CASE e = d
        <4>1. parent'[e] = p /\ v = u
          BY <1>1, <2>1, <2>2, <2>4, <3>1, Tables DEF Loose
        <4> QED BY <2>1, <2>3, <2>4, <4>1 DEF Loose, Active
      <3>2. CASE e # d
        BY <1>1, <2>1, <2>4, <3>2, Tables DEF Loose
      <3> QED BY <3>1, <3>2
    <2> QED BY <1>1, <2>1, <2>4 DEF Private, FoldersOwned, FilesPlaced, OnlyNewLoose
  <1>3. CASE CreateFolder(u, d, p) \/ CreateFolderFails(u, d, p)
    <2> DEFINE row == folderAccess'[u][d]
    <2>1. /\ d \notin folders /\ d # p
          /\ \A v \in User, e \in Folder : v # u \/ e # d =>
                                           folderAccess'[v][e] = folderAccess[v][e]
      BY <1>3, Tables, NullAssumption DEF CreateFolder, CreateFolderFails, InsertFolder
    <2>2. HasRow(row) => IsOwner(row) /\ row.accepted
      <3>1. CASE CreateFolder(u, d, p)
        BY <3>1, Tables DEF CreateFolder, IsOwner
      <3>2. CASE CreateFolderFails(u, d, p)
        BY <3>2, <2>1, Tables DEF CreateFolderFails
      <3> QED BY <1>3, <3>1, <3>2
    <2>3. \A v \in User : ~HasRow(folderAccess[v][d])
      BY <2>1, Tables
    <2>4. FoldersOwned'
      <3> SUFFICES ASSUME NEW v \in User, NEW e \in Folder, HasRow(folderAccess'[v][e])
                   PROVE  /\ IsOwner(folderAccess'[v][e]) /\ folderAccess'[v][e].accepted
                          /\ \A w \in User \ {v} : ~HasRow(folderAccess'[w][e])
        BY DEF FoldersOwned
      <3>1. CASE e = d
        BY <2>1, <2>2, <2>3, <3>1
      <3>2. CASE e # d
        BY <2>1, <3>2 DEF Private, FoldersOwned
      <3> QED BY <3>1, <3>2
    <2>5. ASSUME NEW v \in User, NEW e \in Folder, e # d, Loose(v, e)' PROVE Loose(v, e)
      <3>1. /\ parent'[e] = parent[e] /\ HasRow(folderAccess[v][e])
            /\ folderAccess'[v][e] = folderAccess[v][e] /\ parent[e] # NULL
        BY <1>1, <2>1, <2>5, Tables DEF Loose
      <3>2. parent[e] \in folders
        BY <3>1, Tables
      <3>3. folderAccess'[v][parent[e]] = folderAccess[v][parent[e]]
        BY <2>1, <3>2, Tables
      <3> QED BY <2>5, <3>1, <3>3 DEF Loose
    <2>6. FilesPlaced'
      <3>1. ASSUME NEW v \in User, NEW f \in File, HasRow(fileAccess[v][f]),
                   fileAccess[v][f].folder # NULL
            PROVE  folderAccess'[v][fileAccess[v][f].folder] = folderAccess[v][fileAccess[v][f].folder]
        BY <2>1, <3>1, Tables
      <3> QED BY <1>1, <3>1 DEF Private, FilesPlaced
    <2> QED BY <2>1, <2>4, <2>5, <2>6 DEF Private, OnlyNewLoose
  <1> QED BY <1>2, <1>3

(* A step that keeps the places of the folders and makes no row: rows go,  *)
(* or go into the trash, or leave it, together with what they depend on.   *)
LEMMA RowsChangePrivate ==
    ASSUME IInv, Private, parent' = parent,
           \A v \in User, e \in Folder :
               HasRow(folderAccess'[v][e]) =>
                   /\ HasRow(folderAccess[v][e])
                   /\ IsOwner(folderAccess[v][e]) => IsOwner(folderAccess'[v][e])
                   /\ folderAccess[v][e].accepted => folderAccess'[v][e].accepted
                   /\ HasRow(folderAccess[v][parent[e]]) /\ parent[e] \in folders =>
                         HasRow(folderAccess'[v][parent[e]])
                   /\ Active(folderAccess'[v][e]) /\ parent[e] \in folders /\ ~Loose(v, e) =>
                         Active(folderAccess'[v][parent[e]]),
           \A v \in User, g \in File :
               HasRow(fileAccess'[v][g]) =>
                   /\ HasRow(fileAccess[v][g])
                   /\ IsOwner(fileAccess[v][g]) => IsOwner(fileAccess'[v][g])
                   /\ fileAccess[v][g].accepted => fileAccess'[v][g].accepted
                   /\ fileAccess'[v][g].folder = fileAccess[v][g].folder
                   /\ fileAccess[v][g].folder \in folders =>
                         /\ HasRow(folderAccess'[v][fileAccess[v][g].folder])
                         /\ Active(fileAccess'[v][g]) =>
                               Active(folderAccess'[v][fileAccess[v][g].folder])
    PROVE  Private' /\ OnlyNewLoose
  <1>1. FoldersOwned'
    BY DEF Private, FoldersOwned
  <1>2. ASSUME NEW v \in User, NEW e \in Folder, Loose(v, e)', ~Loose(v, e) PROVE FALSE
    <2>1. HasRow(folderAccess'[v][e]) /\ HasRow(folderAccess[v][e]) /\ parent[e] # NULL
      BY <1>2 DEF Loose
    <2>2. parent[e] \in folders
      BY <2>1, Tables
    <2> QED BY <1>2, <2>1, <2>2 DEF Loose
  <1>3. FilesPlaced'
    BY Tables DEF Private, FilesPlaced
  <1> QED BY <1>1, <1>2, <1>3 DEF Private, OnlyNewLoose

LEMMA TrashFolderPrivate ==
    ASSUME IInv, Private, NEW u \in User, NEW d \in Folder, TrashFolder(u, d),
           UNCHANGED folderVars
    PROVE  Private' /\ OnlyNewLoose
  <1> DEFINE T == Tree(d)
  <1>1. d \in folders
    BY Tables DEF TrashFolder, IsOwner, HasRow
  <1>2. T \subseteq folders /\ \A x \in folders : parent[x] \in T => x \in T
    BY <1>1, TreeFacts
  <1>3. \A v \in User, e \in Folder :
            folderAccess'[v][e] = IF e \notin T THEN folderAccess[v][e]
                                  ELSE IF v = u THEN Discard(folderAccess[v][e]) ELSE NoFolderRow
    BY DEF TrashFolder
  <1>4. \A v \in User, g \in File :
            fileAccess'[v][g] = IF fileAccess[v][g].folder \notin T THEN fileAccess[v][g]
                                ELSE IF v = u THEN Discard(fileAccess[v][g]) ELSE NoFileRow
    BY DEF TrashFolder
  <1> HIDE DEF T
  <1>5. ASSUME NEW v \in User, NEW e \in Folder, HasRow(folderAccess'[v][e])
        PROVE  /\ HasRow(folderAccess[v][e])
               /\ IsOwner(folderAccess[v][e]) => IsOwner(folderAccess'[v][e])
               /\ folderAccess[v][e].accepted => folderAccess'[v][e].accepted
               /\ HasRow(folderAccess[v][parent[e]]) /\ parent[e] \in folders =>
                     HasRow(folderAccess'[v][parent[e]])
               /\ Active(folderAccess'[v][e]) /\ parent[e] \in folders /\ ~Loose(v, e) =>
                     Active(folderAccess'[v][parent[e]])
    <2>1. folderAccess[v][e] \in FolderRow /\ e \in folders
      <3>1. folderAccess[v][e] \in FolderRow
        BY Tables
      <3> QED BY <1>3, <1>5, <3>1, FolderRowOps, Tables
    <2>2. CASE e \notin T
      <3>1. parent[e] \notin T /\ folderAccess'[v][e] = folderAccess[v][e]
        BY <1>2, <1>3, <2>1, <2>2
      <3>2. parent[e] \in folders => folderAccess'[v][parent[e]] = folderAccess[v][parent[e]]
        BY <1>3, <3>1, Tables
      <3> QED BY <1>5, <3>1, <3>2, Tables, NullAssumption DEF Loose, Active
    <2>3. CASE e \in T
      <3>1. v = u /\ folderAccess'[v][e] = Discard(folderAccess[v][e])
        BY <1>3, <1>5, <2>1, <2>3, FolderRowOps
      <3>2. parent[e] \in folders =>
                /\ folderAccess[v][parent[e]] \in FolderRow
                /\ folderAccess'[v][parent[e]] \in {folderAccess[v][parent[e]],
                                                    Discard(folderAccess[v][parent[e]])}
        BY <1>3, <3>1, Tables
      <3> QED BY <1>5, <2>1, <3>1, <3>2, FolderRowOps
    <2> QED BY <2>2, <2>3
  <1>6. ASSUME NEW v \in User, NEW g \in File, HasRow(fileAccess'[v][g])
        PROVE  /\ HasRow(fileAccess[v][g])
               /\ IsOwner(fileAccess[v][g]) => IsOwner(fileAccess'[v][g])
               /\ fileAccess[v][g].accepted => fileAccess'[v][g].accepted
               /\ fileAccess'[v][g].folder = fileAccess[v][g].folder
               /\ fileAccess[v][g].folder \in folders =>
                     /\ HasRow(folderAccess'[v][fileAccess[v][g].folder])
                     /\ Active(fileAccess'[v][g]) =>
                           Active(folderAccess'[v][fileAccess[v][g].folder])
    <2> DEFINE at == fileAccess[v][g].folder
    <2>1. fileAccess[v][g] \in FileRow
      BY Tables
    <2>2. CASE at \notin T
      <3>1. fileAccess'[v][g] = fileAccess[v][g]
        BY <1>4, <2>2
      <3>2. at \in folders => folderAccess'[v][at] = folderAccess[v][at]
        BY <1>3, <2>2, Tables
      <3> QED BY <1>6, <3>1, <3>2, Tables, NullAssumption DEF Private, FilesPlaced
    <2>3. CASE at \in T
      <3>1. v = u /\ fileAccess'[v][g] = Discard(fileAccess[v][g])
        BY <1>4, <1>6, <2>1, <2>3, FileRowOps
      <3>2. HasRow(fileAccess[v][g])
        BY <1>6, <2>1, <3>1, FileRowOps
      <3>3. HasRow(folderAccess[v][at]) /\ at \in Folder
        BY <1>2, <2>3, <3>2, Tables, NullAssumption DEF Private, FilesPlaced
      <3>4. HasRow(folderAccess'[v][at])
        BY <1>3, <2>3, <3>1, <3>3, Tables, FolderRowOps
      <3> QED BY <2>1, <3>1, <3>2, <3>4, FileRowOps
    <2> QED BY <2>2, <2>3
  <1>7. parent' = parent
    BY DEF folderVars
  <1> QED BY <1>5, <1>6, <1>7, RowsChangePrivate

LEMMA LeaveFolderPrivate ==
    ASSUME IInv, Private, NEW v \in User, NEW d \in folders, LeaveFolder(v, d),
           UNCHANGED folderVars
    PROVE  Private' /\ OnlyNewLoose
  <1> DEFINE T == Tree(d)
  <1>1. T \subseteq folders /\ \A x \in folders : parent[x] \in T => x \in T
    BY TreeFacts
  <1>2. \A w \in User, e \in Folder :
            folderAccess'[w][e] = IF w = v /\ e \in T THEN NoFolderRow ELSE folderAccess[w][e]
    BY Tables DEF LeaveFolder
  <1>3. \A w \in User, g \in File :
            fileAccess'[w][g] = IF w = v /\ fileAccess[w][g].folder \in T THEN NoFileRow
                                ELSE fileAccess[w][g]
    BY Tables DEF LeaveFolder
  <1> HIDE DEF T
  <1>4. ~HasRow(NoFolderRow) /\ ~HasRow(NoFileRow)
    BY DEF HasRow, NoFolderRow, NoFileRow
  <1>5. ASSUME NEW w \in User, NEW e \in Folder, HasRow(folderAccess'[w][e])
        PROVE  /\ folderAccess'[w][e] = folderAccess[w][e]
               /\ parent[e] \in folders => folderAccess'[w][parent[e]] = folderAccess[w][parent[e]]
    BY <1>1, <1>2, <1>4, <1>5, Tables
  <1>6. ASSUME NEW w \in User, NEW g \in File, HasRow(fileAccess'[w][g])
        PROVE  /\ fileAccess'[w][g] = fileAccess[w][g]
               /\ fileAccess[w][g].folder \in folders =>
                     folderAccess'[w][fileAccess[w][g].folder]
                         = folderAccess[w][fileAccess[w][g].folder]
    BY <1>2, <1>3, <1>4, <1>6, Tables
  <1>7. FoldersOwned'
    BY <1>2, <1>4, <1>5 DEF Private, FoldersOwned
  <1>8. OnlyNewLoose
    BY <1>5, Tables DEF OnlyNewLoose, Loose, folderVars
  <1>9. FilesPlaced'
    BY <1>6, Tables DEF Private, FilesPlaced
  <1> QED BY <1>7, <1>8, <1>9 DEF Private

(* Folders leave the trash together with all above them, and files with    *)
(* the folders that they are in.                                           *)
LEMMA RestorePrivate ==
    ASSUME IInv, Private, parent' = parent, NEW u \in User,
           NEW S, \A e \in S : parent[e] # NULL => parent[e] \in S,
           folderAccess' = RestoredFolders(u, S),
           \A v \in User, g \in File :
               \/ fileAccess'[v][g] = fileAccess[v][g]
               \/ /\ v = u /\ fileAccess'[v][g] = Restore(fileAccess[v][g])
                  /\ fileAccess[v][g].folder \in folders => fileAccess[v][g].folder \in S
    PROVE  Private' /\ OnlyNewLoose
  <1>1. \A v \in User, e \in Folder :
            /\ folderAccess[v][e] \in FolderRow
            /\ folderAccess'[v][e] = IF v = u /\ e \in S THEN Restore(folderAccess[v][e])
                                     ELSE folderAccess[v][e]
    BY Tables DEF RestoredFolders
  <1>2. \A v \in User, e \in Folder :
            /\ HasRow(folderAccess'[v][e]) <=> HasRow(folderAccess[v][e])
            /\ IsOwner(folderAccess'[v][e]) <=> IsOwner(folderAccess[v][e])
            /\ folderAccess'[v][e].accepted = folderAccess[v][e].accepted
            /\ Active(folderAccess'[v][e]) <=>
                  \/ Active(folderAccess[v][e])
                  \/ v = u /\ e \in S /\ HasRow(folderAccess[v][e])
    BY <1>1, FolderRowOps DEF Active
  <1>3. ASSUME NEW v \in User, NEW e \in Folder, HasRow(folderAccess'[v][e]),
               parent[e] \in folders
        PROVE  /\ HasRow(folderAccess[v][parent[e]]) => HasRow(folderAccess'[v][parent[e]])
               /\ Active(folderAccess'[v][e]) /\ ~Loose(v, e) =>
                     Active(folderAccess'[v][parent[e]])
    <2>1. parent[e] \in Folder /\ parent[e] # NULL
      BY <1>3, Tables, NullAssumption
    <2>2. ~Loose(v, e) => /\ HasRow(folderAccess[v][parent[e]])
                          /\ Active(folderAccess[v][e]) => Active(folderAccess[v][parent[e]])
      BY <1>2, <1>3, <2>1 DEF Loose
    <2> QED BY <1>2, <2>1, <2>2
  <1>4. ASSUME NEW v \in User, NEW g \in File, HasRow(fileAccess'[v][g])
        PROVE  /\ HasRow(fileAccess[v][g])
               /\ IsOwner(fileAccess[v][g]) => IsOwner(fileAccess'[v][g])
               /\ fileAccess[v][g].accepted => fileAccess'[v][g].accepted
               /\ fileAccess'[v][g].folder = fileAccess[v][g].folder
               /\ fileAccess[v][g].folder \in folders =>
                     /\ HasRow(folderAccess'[v][fileAccess[v][g].folder])
                     /\ Active(fileAccess'[v][g]) =>
                           Active(folderAccess'[v][fileAccess[v][g].folder])
    <2> DEFINE at == fileAccess[v][g].folder
    <2>1. fileAccess[v][g] \in FileRow
      BY Tables
    <2>2. /\ HasRow(fileAccess[v][g])
          /\ IsOwner(fileAccess[v][g]) => IsOwner(fileAccess'[v][g])
          /\ fileAccess[v][g].accepted => fileAccess'[v][g].accepted
          /\ fileAccess'[v][g].folder = at
      BY <1>4, <2>1, FileRowOps
    <2>3. ASSUME at \in folders
          PROVE  /\ HasRow(folderAccess'[v][at])
                 /\ Active(fileAccess'[v][g]) => Active(folderAccess'[v][at])
      <3>1. /\ at \in Folder /\ HasRow(folderAccess[v][at])
            /\ Active(fileAccess[v][g]) => Active(folderAccess[v][at])
        BY <2>2, <2>3, Tables, NullAssumption DEF Private, FilesPlaced
      <3> QED BY <1>2, <2>3, <3>1
    <2> QED BY <2>2, <2>3
  <1> QED BY <1>2, <1>3, <1>4, RowsChangePrivate

LEMMA RestoreFilePrivate ==
    ASSUME IInv, Private, NEW u \in User, NEW f \in File, RestoreFile(u, f)
    PROVE  Private' /\ OnlyNewLoose
  <1> DEFINE at == fileAccess[u][f].folder
             S == Ancestors(at)
  <1>1. at \in folders \cup {NULL}
    BY Tables DEF RestoreFile, Trashed
  <1>2. \A e \in S : parent[e] # NULL => parent[e] \in S
    <2>1. CASE at = NULL
      BY <2>1, Tables, NullAssumption, TreeFacts DEF Ancestors
    <2> QED BY <1>1, <2>1, AncestorParents
  <1>3. at \in folders => at \in S
    BY AncestorParents
  <1>4. \A v \in User, g \in File :
            \/ fileAccess'[v][g] = fileAccess[v][g]
            \/ v = u /\ g = f /\ fileAccess'[v][g] = Restore(fileAccess[v][g])
    BY Tables DEF RestoreFile
  <1>5. parent' = parent /\ folderAccess' = RestoredFolders(u, S)
    BY DEF RestoreFile, folderVars
  <1> HIDE DEF S
  <1> QED BY <1>2, <1>3, <1>4, <1>5, RestorePrivate

LEMMA RestoreFolderPrivate ==
    ASSUME IInv, Private, NEW u \in User, NEW d \in Folder, RestoreFolder(u, d)
    PROVE  Private' /\ OnlyNewLoose
  <1> DEFINE S == Ancestors(d) \cup Tree(d)
  <1>1. d \in folders
    BY Tables DEF RestoreFolder, Trashed
  <1>2. \A e \in S : parent[e] # NULL => parent[e] \in S
    BY <1>1, AncestorParents, TreeParents
  <1>3. \A v \in User, g \in File :
            \/ fileAccess'[v][g] = fileAccess[v][g]
            \/ /\ v = u /\ fileAccess'[v][g] = Restore(fileAccess[v][g])
               /\ fileAccess[v][g].folder \in S
    BY Tables DEF RestoreFolder
  <1>4. parent' = parent /\ folderAccess' = RestoredFolders(u, S)
    BY DEF RestoreFolder, folderVars
  <1> HIDE DEF S
  <1> QED BY <1>2, <1>3, <1>4, RestorePrivate

LEMMA EmptyTrashPrivate ==
    ASSUME IInv, Private, NEW u \in User, EmptyTrash(u)
    PROVE  Private' /\ OnlyNewLoose
  <1> DEFINE D == DoomedFolders(u)
             F == DoomedFiles(u)
  <1>1. \A x \in folders : parent[x] \in D => x \in D
    BY DoomedFacts
  <1>2. /\ \A v \in User, d \in Folder :
               folderAccess'[v][d] = IF d \in D \/ (v = u /\ folderAccess[v][d].deleted)
                                     THEN NoFolderRow ELSE folderAccess[v][d]
        /\ \A d \in Folder : parent'[d] = IF d \in D THEN NULL ELSE parent[d]
    BY DEF EmptyTrash
  <1>3. \A v \in User, g \in File :
            fileAccess'[v][g] =
                IF g \in F \/ (v = u /\ fileAccess[v][g].deleted) THEN NoFileRow
                ELSE IF fileAccess[v][g].folder \in D
                     THEN [fileAccess[v][g] EXCEPT !.folder = NULL]
                     ELSE fileAccess[v][g]
    BY DEF EmptyTrash
  <1> HIDE DEF D, F
  <1>4. ~HasRow(NoFolderRow) /\ ~HasRow(NoFileRow)
    BY DEF HasRow, NoFolderRow, NoFileRow
  <1>5. FoldersOwned'
    BY <1>2, <1>4 DEF Private, FoldersOwned
  <1>6. ASSUME NEW v \in User, NEW e \in Folder, Loose(v, e)', ~Loose(v, e) PROVE FALSE
    <2>1. /\ e \notin D /\ parent'[e] = parent[e] /\ folderAccess'[v][e] = folderAccess[v][e]
          /\ v = u => ~folderAccess[v][e].deleted
      BY <1>2, <1>4, <1>6 DEF Loose
    <2>2. HasRow(folderAccess[v][e]) /\ e \in folders /\ parent[e] \in folders
      BY <1>6, <2>1, Tables DEF Loose
    <2>3. parent[e] \notin D /\ parent[e] \in Folder /\ parent[e] # NULL
      BY <1>1, <2>1, <2>2, Tables, NullAssumption
    <2>4. /\ HasRow(folderAccess[v][parent[e]])
          /\ Active(folderAccess[v][e]) => Active(folderAccess[v][parent[e]])
      BY <1>6, <2>2, <2>3 DEF Loose
    <2>5. folderAccess'[v][parent[e]] = folderAccess[v][parent[e]]
      BY <1>2, <2>1, <2>2, <2>3, <2>4 DEF Active
    <2> QED BY <1>6, <2>1, <2>4, <2>5 DEF Loose
  <1>7. FilesPlaced'
    <2> SUFFICES ASSUME NEW v \in User, NEW g \in File, HasRow(fileAccess'[v][g])
                 PROVE  /\ IsOwner(fileAccess'[v][g]) /\ fileAccess'[v][g].accepted
                        /\ fileAccess'[v][g].folder # NULL =>
                              /\ HasRow(folderAccess'[v][fileAccess'[v][g].folder])
                              /\ Active(fileAccess'[v][g]) =>
                                    Active(folderAccess'[v][fileAccess'[v][g].folder])
      BY DEF FilesPlaced
    <2> DEFINE row == fileAccess[v][g]
    <2>1. /\ v = u => ~row.deleted
          /\ fileAccess'[v][g] = IF row.folder \in D THEN [row EXCEPT !.folder = NULL] ELSE row
      BY <1>3, <1>4
    <2>2. row \in FileRow
      BY Tables
    <2>3. CASE row.folder \in D
      <3>1. /\ fileAccess'[v][g].level = row.level /\ fileAccess'[v][g].folder = NULL
            /\ fileAccess'[v][g].accepted = row.accepted
        BY <2>1, <2>2, <2>3 DEF FileRow, NoFileRow
      <3> QED BY <3>1 DEF Private, FilesPlaced, HasRow, IsOwner
    <2>4. CASE row.folder \notin D /\ row.folder # NULL
      <3>1. /\ fileAccess'[v][g] = row /\ HasRow(row)
            /\ row.folder \in Folder /\ row.folder \notin D
        BY <2>1, <2>4, Tables
      <3>2. /\ IsOwner(row) /\ row.accepted
            /\ HasRow(folderAccess[v][row.folder])
            /\ Active(row) => Active(folderAccess[v][row.folder])
        BY <2>4, <3>1 DEF Private, FilesPlaced
      <3>3. folderAccess'[v][row.folder] = folderAccess[v][row.folder]
        BY <1>2, <2>1, <3>1, <3>2 DEF Active
      <3> QED BY <3>1, <3>2, <3>3
    <2>5. CASE row.folder = NULL /\ row.folder \notin D
      BY <2>1, <2>5 DEF Private, FilesPlaced
    <2> QED BY <2>3, <2>4, <2>5
  <1> QED BY <1>5, <1>6, <1>7 DEF Private, OnlyNewLoose

-----------------------------------------------------------------------------
LEMMA FolderStepPrivate ==
    ASSUME IInv, IInv', Private, Unshared, NEW u \in User, NEW d \in Folder, FolderStep(u, d)
    PROVE  Private' /\ OnlyNewLoose
  <1>1. ASSUME NEW p \in folders \cup {NULL},
               CreateFolder(u, d, p) \/ CreateFolderFails(u, d, p) \/ MoveFolder(u, d, p)
        PROVE  Private' /\ OnlyNewLoose
    BY <1>1, PlaceFolderPrivate
  <1>2. HasRow(folderAccess[u][d]) => IsOwner(folderAccess[u][d]) /\ d \in folders
    BY Tables DEF Private, FoldersOwned
  <1>3. CASE DeleteFolder(u, d)
    BY <1>2, <1>3, TrashFolderPrivate DEF DeleteFolder, NonOwner
  <1>4. ASSUME NEW v \in User, RevokeFolder(u, d, v) PROVE Private' /\ OnlyNewLoose
    BY <1>2, <1>4, LeaveFolderPrivate DEF RevokeFolder, IsOwner, HasRow
  <1>5. ~AcceptFolder(u, d) /\ ~RejectFolder(u, d)
    BY <1>2 DEF AcceptFolder, RejectFolder, MayAnswer, NonOwner
  <1> QED BY <1>1, <1>3, <1>4, <1>5, RestoreFolderPrivate DEF FolderStep, Unshared

LEMMA PrivateInductive ==
    ASSUME Unshared
    PROVE  Spec => [](IInv /\ Private) /\ [][Private' /\ OnlyNewLoose]_vars
  <1>1. Init => Private
    BY DEF Init, Private, FoldersOwned, FilesPlaced, NoFolderRow, NoFileRow, HasRow
  <1>2. ASSUME IInv, Private, [Next]_vars PROVE Private' /\ OnlyNewLoose
    <2>1. IInv'
      BY <1>2, NextIInv
    <2>2. CASE UNCHANGED vars
      BY <1>2, <2>2 DEF vars, Private, FoldersOwned, FilesPlaced, OnlyNewLoose, Loose
    <2>3. ASSUME NEW u \in User, Step(u) PROVE Private' /\ OnlyNewLoose
      BY <1>2, <2>1, <2>3, FileStepPrivate, RestoreFilePrivate, FolderStepPrivate, EmptyTrashPrivate
      DEF Step
    <2> QED BY <1>2, <2>2, <2>3 DEF Next
  <1>3. IInv /\ Private /\ [Next]_vars => Private' /\ OnlyNewLoose
    BY <1>2
  <1> QED BY <1>1, <1>3, InitIInv, NextIInv, PTL DEF Spec

-----------------------------------------------------------------------------
(* The theorems.                                                           *)

(* In a drive that is not shared, a folder gets loose from the one above   *)
(* it only by its own creation, and a file never: moves, deletions,        *)
(* restorations, revocations and emptied trashes of any users, in any      *)
(* order, keep every item reachable from where it is.                      *)
THEOREM CreationAloneStrands ==
    ASSUME Unshared
    PROVE  Spec => OnlyCreationStrands
  <1>1. Private' => \A u \in User, f \in File : ~LooseFile(u, f)'
    BY DEF Private, FilesPlaced, LooseFile
  <1>2. [Private' /\ OnlyNewLoose]_vars =>
            [\A u \in User : /\ \A d \in Folder : Loose(u, d)' => Loose(u, d) \/ d \notin folders
                             /\ \A f \in File : ~LooseFile(u, f)']_vars
    BY <1>1 DEF OnlyNewLoose
  <1> QED BY <1>2, PrivateInductive, PTL DEF OnlyCreationStrands

(* An active folder that is not astray can be opened from the root: if it  *)
(* could not, the folders that cannot would hold all their own parents.    *)
LEMMA ActiveIsNavigable ==
    ASSUME IInv, Private, NEW u \in User, NEW d \in folders, Active(folderAccess[u][d]),
           ~Astray(u, d)
    PROVE  d \in Navigable(u)
  <1> SUFFICES ASSUME NEW S \in SUBSET folders,
                      FoldersIn(u, NULL) \cup UNION {FoldersIn(u, e) : e \in S} \subseteq S,
                      d \notin S
               PROVE  FALSE
    BY DEF Navigable
  <1> DEFINE X == {e \in folders : Active(folderAccess[u][e]) /\ e \notin S /\ ~Astray(u, e)}
  <1>1. ASSUME NEW e \in X PROVE parent[e] \in X
    <2>1. e \in folders /\ e \in Folder /\ Listed(folderAccess[u][e])
      BY Tables DEF Private, FoldersOwned, Listed, Active
    <2>2. parent[e] # NULL
      BY <1>1, <2>1 DEF FoldersIn
    <2>3. ~Loose(u, e)
      BY <2>1, TreeFacts DEF Astray
    <2>4. parent[e] \in folders /\ Active(folderAccess[u][parent[e]])
      BY <2>1, <2>2, <2>3, Tables DEF Loose, Active
    <2>5. ~Astray(u, parent[e])
      BY <2>1, TreeFacts DEF Astray
    <2>6. e \in FoldersIn(u, parent[e])
      BY <2>1 DEF FoldersIn
    <2>7. parent[e] \notin S
      BY <1>1, <2>6
    <2> QED BY <2>4, <2>5, <2>7
  <1>2. X \in SUBSET folders /\ d \in X
    OBVIOUS
  <1>3. \E e \in X : parent[e] \notin X
    <2> HIDE DEF X
    <2> QED BY <1>2 DEF IInv, Forest, Abstract!Forest
  <1> QED BY <1>1, <1>3

(* Of a drive that is not shared, every file is listed in the trash or in  *)
(* a folder that can be opened from the root, and every folder that is not *)
(* in the trash can be opened, whatever its users create, move, trash,     *)
(* restore and revoke, save below the folders that were created in a place *)
(* where their creator could not open them.                                *)
THEOREM NothingGetsOutOfSight ==
    ASSUME Unshared
    PROVE  Spec => []NothingIsLost
  <1>1. ASSUME IInv, Private PROVE NothingIsLost
    <2>1. ASSUME NEW u \in User, NEW d \in folders, Active(folderAccess[u][d]), ~Astray(u, d)
          PROVE  d \in Navigable(u)
      BY <1>1, <2>1, ActiveIsNavigable
    <2>2. ASSUME NEW u \in User, NEW f \in files, HasRow(fileAccess[u][f]),
                 ~Astray(u, fileAccess[u][f].folder)
          PROVE  f \in FilesShown(u)
      <3> DEFINE row == fileAccess[u][f]
      <3>1. CASE row.deleted
        BY <2>2, <3>1 DEF FilesShown, TrashedFiles, Trashed
      <3>2. CASE ~row.deleted
        <4>1. f \in File /\ Active(row) /\ Listed(row)
          BY <1>1, <2>2, <3>2 DEF IInv, FilesOK, Active, Listed, Private, FilesPlaced
        <4>2. f \in FilesListedIn(u, row.folder)
          BY <4>1 DEF FilesListedIn
        <4>3. row.folder \in Navigable(u) \cup {NULL}
          BY <1>1, <2>1, <4>1, <2>2, Tables DEF Private, FilesPlaced
        <4> QED BY <4>2, <4>3 DEF FilesShown
      <3> QED BY <3>1, <3>2
    <2> QED BY <2>1, <2>2 DEF NothingIsLost
  <1>2. IInv /\ Private => NothingIsLost
    BY <1>1
  <1> QED BY <1>2, PrivateInductive, PTL
==============================================================================
