----------------------------- MODULE DriveProofs -----------------------------
(***************************************************************************)
(* Proofs about Drive: the types of the tables, the integrity of the tree  *)
(* and of the references into it, and what a request may do to others.     *)
(***************************************************************************)
EXTENDS Drive, TLAPS

-----------------------------------------------------------------------------
(* Cells.  A cell of an access table is sound when its row has the type of *)
(* the table and refers to a folder or file that exists.                   *)

FolderCell(d, row, D) == row \in FolderRow /\ (HasRow(row) => d \in D)

FileCell(f, row, S, D) ==
    /\ row \in FileRow
    /\ HasRow(row) => f \in S /\ row.folder \in D \cup {NULL}

FolderTable(A, D) ==
    /\ A \in [User -> [Folder -> FolderRow]]
    /\ \A u \in User, d \in Folder : FolderCell(d, A[u][d], D)

FileTable(A, S, D) ==
    /\ A \in [User -> [File -> FileRow]]
    /\ \A u \in User, f \in File : FileCell(f, A[u][f], S, D)

(* What the operations of Drive do to one row of folder_access keeps its   *)
(* cell sound.                                                             *)
LEMMA FolderCellOps ==
    ASSUME NEW d, NEW row, NEW D, FolderCell(d, row, D)
    PROVE  /\ FolderCell(d, NoFolderRow, D)
           /\ FolderCell(d, Discard(row), D)
           /\ FolderCell(d, Restore(row), D)
           /\ FolderCell(d, Accept(row), D)
  <1>1. CASE row = NoFolderRow
    BY <1>1 DEF FolderCell, FolderRow, NoFolderRow, Discard, Restore, Accept,
                HasRow, Active, Level
  <1>2. CASE row # NoFolderRow
    <2>1. row \in [level : Level, deleted : BOOLEAN, accepted : BOOLEAN, anchor : BOOLEAN]
      BY <1>2 DEF FolderCell, FolderRow
    <2>2. HasRow(row) /\ d \in D
      BY <2>1 DEF FolderCell, HasRow, Level
    <2>3. /\ [row EXCEPT !.deleted = TRUE] \in FolderRow
          /\ [row EXCEPT !.deleted = FALSE] \in FolderRow
          /\ [row EXCEPT !.accepted = TRUE] \in FolderRow
      BY <2>1 DEF FolderRow
    <2> QED
      BY <2>1, <2>2, <2>3
      DEF FolderCell, FolderRow, NoFolderRow, Discard, Restore, Accept, HasRow, Active
  <1> QED BY <1>1, <1>2

(* A row with known columns makes a sound cell of a folder that exists. *)
LEMMA NewFolderCell ==
    ASSUME NEW D, NEW d \in D, NEW l \in Level,
           NEW a \in BOOLEAN, NEW b \in BOOLEAN, NEW c \in BOOLEAN
    PROVE  FolderCell(d, [level |-> l, deleted |-> a, accepted |-> b, anchor |-> c], D)
  BY DEF FolderCell, FolderRow

LEMMA FileCellOps ==
    ASSUME NEW f, NEW row, NEW S, NEW D, FileCell(f, row, S, D), D \subseteq Folder
    PROVE  /\ FileCell(f, NoFileRow, S, D)
           /\ FileCell(f, Discard(row), S, D)
           /\ FileCell(f, Restore(row), S, D)
           /\ FileCell(f, Accept(row), S, D)
           /\ \A d \in D \cup {NULL} :
                 HasRow(row) => /\ FileCell(f, [row EXCEPT !.folder = d], S, D)
                                /\ FileCell(f, [row EXCEPT !.accepted = TRUE, !.folder = d], S, D)
           /\ HasRow(row) => FileCell(f, [row EXCEPT !.accepted = TRUE], S, D)
  <1>1. CASE row = NoFileRow
    BY <1>1 DEF FileCell, FileRow, NoFileRow, Discard, Restore, Accept,
                HasRow, Active, Level
  <1>2. CASE row # NoFileRow
    <2>1. row \in [level : Level, deleted : BOOLEAN, accepted : BOOLEAN, folder : Folder \cup {NULL}]
      BY <1>2 DEF FileCell, FileRow
    <2>2. HasRow(row) /\ f \in S /\ row.folder \in D \cup {NULL}
      BY <2>1 DEF FileCell, HasRow, Level
    <2>3. /\ [row EXCEPT !.deleted = TRUE] \in FileRow
          /\ [row EXCEPT !.deleted = FALSE] \in FileRow
          /\ [row EXCEPT !.accepted = TRUE] \in FileRow
      BY <2>1 DEF FileRow
    <2>4. ASSUME NEW d \in D \cup {NULL}
          PROVE  /\ FileCell(f, [row EXCEPT !.folder = d], S, D)
                 /\ FileCell(f, [row EXCEPT !.accepted = TRUE, !.folder = d], S, D)
      BY <2>1, <2>2 DEF FileCell, FileRow
    <2>5. /\ FileCell(f, Discard(row), S, D)
          /\ FileCell(f, Restore(row), S, D)
          /\ FileCell(f, Accept(row), S, D)
          /\ FileCell(f, [row EXCEPT !.accepted = TRUE], S, D)
      BY <2>1, <2>2, <2>3 DEF FileCell, Discard, Restore, Accept, Active
    <2>6. FileCell(f, NoFileRow, S, D)
      BY DEF FileCell, FileRow, NoFileRow, HasRow
    <2> QED
      BY <2>4, <2>5, <2>6
  <1> QED BY <1>1, <1>2

LEMMA NewFileCell ==
    ASSUME NEW S, NEW f \in S, NEW D, D \subseteq Folder, NEW d \in D \cup {NULL},
           NEW l \in Level, NEW a \in BOOLEAN, NEW b \in BOOLEAN
    PROVE  FileCell(f, [level |-> l, deleted |-> a, accepted |-> b, folder |-> d], S, D)
  BY DEF FileCell, FileRow

(* An upsert of a share keeps the place of a row that exists. *)
LEMMA PendingFileCell ==
    ASSUME NEW S, NEW f \in S, NEW D, D \subseteq Folder, NEW d \in D \cup {NULL},
           NEW l \in Level, NEW row, FileCell(f, row, S, D)
    PROVE  /\ FileCell(f, PendingFile(row, l, d), S, D)
           /\ FileCell(f, [PendingFile(row, l, d) EXCEPT !.accepted = TRUE], S, D)
  <1> DEFINE place == IF HasRow(row) THEN row.folder ELSE d
  <1>1. place \in D \cup {NULL}
    BY DEF FileCell
  <1>2. PendingFile(row, l, d) =
            [level |-> l, deleted |-> FALSE, accepted |-> FALSE, folder |-> place]
    BY DEF PendingFile
  <1>3. FileCell(f, PendingFile(row, l, d), S, D)
    BY <1>1, <1>2, NewFileCell
  <1>4. HasRow(PendingFile(row, l, d))
    BY <1>2 DEF HasRow, Level
  <1> QED BY <1>3, <1>4, FileCellOps

-----------------------------------------------------------------------------
(* Tables.                                                                 *)

LEMMA SetFolderCell ==
    ASSUME NEW A, NEW D, FolderTable(A, D),
           NEW u \in User, NEW d \in Folder, NEW row, FolderCell(d, row, D)
    PROVE  FolderTable([A EXCEPT ![u][d] = row], D)
  BY DEF FolderTable, FolderCell

LEMMA SetFolderRows ==
    ASSUME NEW A, NEW D, FolderTable(A, D), NEW u \in User,
           NEW r \in [Folder -> FolderRow], \A e \in Folder : FolderCell(e, r[e], D)
    PROVE  FolderTable([A EXCEPT ![u] = r], D)
  BY DEF FolderTable

LEMMA SetFileCell ==
    ASSUME NEW A, NEW S, NEW D, FileTable(A, S, D),
           NEW u \in User, NEW f \in File, NEW row, FileCell(f, row, S, D)
    PROVE  FileTable([A EXCEPT ![u][f] = row], S, D)
  BY DEF FileTable, FileCell

LEMMA SetFileRows ==
    ASSUME NEW A, NEW S, NEW D, FileTable(A, S, D), NEW u \in User,
           NEW r \in [File -> FileRow], \A g \in File : FileCell(g, r[g], S, D)
    PROVE  FileTable([A EXCEPT ![u] = r], S, D)
  BY DEF FileTable

(* Inserting folders and files leaves sound tables sound. *)
LEMMA TablesGrow ==
    ASSUME NEW A, NEW B, NEW S, NEW S2, S \subseteq S2, NEW D, NEW D2, D \subseteq D2
    PROVE  /\ FolderTable(A, D) => FolderTable(A, D2)
           /\ FileTable(B, S, D) => FileTable(B, S2, D2)
  BY DEF FolderTable, FolderCell, FileTable, FileCell

-----------------------------------------------------------------------------
(* The folder tree.  Tree(d) is given as the least closed set, so that its *)
(* facts follow from its definition without induction.                     *)

LEMMA TreeFacts ==
    ASSUME NEW d \in folders
    PROVE  /\ d \in Tree(d)
           /\ Tree(d) \subseteq folders
           /\ \A x \in folders : parent[x] \in Tree(d) => x \in Tree(d)
  BY DEF Tree, Below

LEMMA AncestorsWithinFolders ==
    ASSUME NEW d
    PROVE  Ancestors(d) \subseteq folders
  BY DEF Ancestors

LEMMA DoomedFacts ==
    ASSUME NEW u
    PROVE  /\ DoomedFolders(u) \subseteq folders
           /\ \A x \in folders : parent[x] \in DoomedFolders(u) => x \in DoomedFolders(u)
  <1>1. ASSUME NEW d \in folders
        PROVE  Tree(d) \subseteq folders /\ \A x \in folders : parent[x] \in Tree(d) => x \in Tree(d)
    BY TreeFacts
  <1> QED BY <1>1 DEF DoomedFolders

-----------------------------------------------------------------------------
(* The inductive invariant.  It says no more than TypeOK and Integrity do, *)
(* in the terms the lemmas above use: the types alone are not inductive,   *)
(* because trashing a file marks it, and only RowsReferToItems knows that  *)
(* a file someone has a row of is a row of files.                          *)

TreeOK ==
    /\ folders \subseteq Folder
    /\ parent \in [Folder -> Folder \cup {NULL}]
    /\ isRoot \in [Folder -> BOOLEAN]
    /\ ParentsExist

FilesOK == files \subseteq File /\ fileDeleted \subseteq files

IInv ==
    /\ TreeOK
    /\ FilesOK
    /\ FolderTable(folderAccess, folders)
    /\ FileTable(fileAccess, files, folders)
    /\ Forest

LEMMA InitIInv == Init => IInv
  <1> SUFFICES ASSUME Init PROVE IInv
    OBVIOUS
  <1> USE DEF Init
  <1>1. TreeOK /\ FilesOK
    BY DEF TreeOK, FilesOK, ParentsExist
  <1>2. FolderTable(folderAccess, folders)
    BY DEF FolderTable, FolderCell, FolderRow, NoFolderRow, HasRow
  <1>3. FileTable(fileAccess, files, folders)
    BY DEF FileTable, FileCell, FileRow, NoFileRow, HasRow
  <1>4. Forest
    BY DEF Forest, Abstract!Forest
  <1> QED BY <1>1, <1>2, <1>3, <1>4 DEF IInv

LEMMA IInvImplies == IInv => TypeOK /\ Integrity
  BY DEF IInv, TreeOK, FilesOK, FolderTable, FolderCell, FileTable, FileCell,
         TypeOK, Integrity, RowsReferToItems

-----------------------------------------------------------------------------
(* Requests that touch only access rows.                                   *)

(* The one thing such a request can break is the soundness of the tables.  *)
LEMMA RowsOnly ==
    ASSUME IInv, UNCHANGED <<folderVars, files>>,
           fileDeleted' \subseteq files,
           FolderTable(folderAccess', folders),
           FileTable(fileAccess', files, folders)
    PROVE  IInv'
  BY DEF IInv, TreeOK, FilesOK, ParentsExist, Forest, Abstract!Forest, folderVars

LEMMA FileCellStep ==
    ASSUME IInv, UNCHANGED <<folderVars, fileVars, folderAccess>>,
           NEW u \in User, NEW f \in File, NEW row, FileCell(f, row, files, folders),
           fileAccess' = [fileAccess EXCEPT ![u][f] = row]
    PROVE  IInv'
  <1>1. FileTable(fileAccess', files, folders)
    BY SetFileCell DEF IInv
  <1> QED BY <1>1, RowsOnly DEF IInv, FilesOK, fileVars

LEMMA MoveFileIInv ==
    ASSUME IInv, NEW u \in User, NEW f \in File, NEW d \in folders \cup {NULL},
           MoveFile(u, f, d)
    PROVE  IInv'
  <1> DEFINE row == [fileAccess[u][f] EXCEPT !.folder = d]
  <1>1. HasRow(fileAccess[u][f]) /\ FileCell(f, fileAccess[u][f], files, folders)
    BY DEF MoveFile, CanEdit, HasRow, IInv, FileTable
  <1>2. FileCell(f, row, files, folders)
    BY <1>1, FileCellOps DEF IInv, TreeOK
  <1>3. fileAccess' = [fileAccess EXCEPT ![u][f] = row]
    BY DEF MoveFile
  <1> HIDE DEF row
  <1> QED BY <1>2, <1>3, FileCellStep DEF MoveFile

LEMMA ShareFileIInv ==
    ASSUME IInv, NEW u \in User, NEW f \in File, NEW v \in User, NEW l \in FileLevel,
           ShareFile(u, f, v, l) \/ PropagateFile(u, f, v, l)
    PROVE  IInv'
  <1>1. /\ FileCell(f, fileAccess[u][f], files, folders)
        /\ FileCell(f, fileAccess[v][f], files, folders)
        /\ folders \subseteq Folder /\ l \in Level
    BY LevelAssumption DEF IInv, TreeOK, FileTable
  <1>2. f \in files /\ fileAccess[u][f].folder \in folders \cup {NULL}
    BY <1>1 DEF FileCell, ShareFile, PropagateFile, OwnsFile, IsOwner, HasRow
  <1>3. CASE ShareFile(u, f, v, l)
    <2> DEFINE row == PendingFile(fileAccess[v][f], l, NULL)
    <2>1. FileCell(f, row, files, folders)
      BY <1>1, <1>2, PendingFileCell
    <2> HIDE DEF row
    <2> QED BY <1>3, <2>1, FileCellStep DEF ShareFile, row
  <1>4. CASE PropagateFile(u, f, v, l)
    <2> DEFINE row == [PendingFile(fileAccess[v][f], l, fileAccess[u][f].folder)
                          EXCEPT !.accepted = TRUE]
    <2>1. FileCell(f, row, files, folders)
      BY <1>1, <1>2, PendingFileCell
    <2> HIDE DEF row
    <2> QED BY <1>4, <2>1, FileCellStep DEF PropagateFile, row
  <1> QED BY <1>3, <1>4

LEMMA RevokeFileIInv ==
    ASSUME IInv, NEW u \in User, NEW f \in File, NEW v \in User, RevokeFile(u, f, v)
    PROVE  IInv'
  <1>1. FileCell(f, NoFileRow, files, folders)
    BY FileCellOps DEF IInv, TreeOK, FileTable
  <1> QED BY <1>1, FileCellStep DEF RevokeFile

LEMMA AcceptFileIInv ==
    ASSUME IInv, NEW u \in User, NEW f \in File, AcceptFile(u, f)
    PROVE  IInv'
  <1> DEFINE place == IF CanPutIn(u, fileAccess[u][f].folder)
                      THEN fileAccess[u][f].folder ELSE NULL
             row == [fileAccess[u][f] EXCEPT !.accepted = TRUE, !.folder = place]
  <1>1. FileCell(f, fileAccess[u][f], files, folders) /\ HasRow(fileAccess[u][f])
    BY DEF AcceptFile, MayAnswer, NonOwner, IInv, FileTable
  <1>2. place \in folders \cup {NULL}
    BY <1>1 DEF FileCell
  <1>3. FileCell(f, row, files, folders)
    BY <1>1, <1>2, FileCellOps DEF IInv, TreeOK
  <1>4. fileAccess' = [fileAccess EXCEPT ![u][f] = row]
    BY DEF AcceptFile
  <1> HIDE DEF row
  <1> QED BY <1>3, <1>4, FileCellStep DEF AcceptFile

LEMMA RejectFileIInv ==
    ASSUME IInv, NEW u \in User, NEW f \in File, RejectFile(u, f)
    PROVE  IInv'
  <1>1. FileCell(f, Discard(fileAccess[u][f]), files, folders)
    BY FileCellOps DEF IInv, TreeOK, FileTable
  <1> QED BY <1>1, FileCellStep DEF RejectFile

-----------------------------------------------------------------------------
(* Requests that insert, trash or remove files.                            *)

LEMMA InitializeFileIInv ==
    ASSUME IInv, NEW u \in User, NEW f \in File, NEW d \in folders \cup {NULL},
           InitializeFile(u, f, d)
    PROVE  IInv'
  <1> DEFINE row == [level |-> "owner", deleted |-> FALSE, accepted |-> TRUE, folder |-> d]
  <1>1. FileCell(f, row, files', folders)
    BY NewFileCell DEF IInv, TreeOK, InitializeFile, Level
  <1>2. FileTable(fileAccess, files', folders)
    BY TablesGrow DEF IInv, InitializeFile
  <1>3. FileTable(fileAccess', files', folders)
    BY <1>1, <1>2, SetFileCell DEF InitializeFile
  <1>4. FilesOK'
    BY DEF InitializeFile, IInv, FilesOK
  <1> QED BY <1>3, <1>4 DEF InitializeFile, IInv, TreeOK, ParentsExist, Forest, Abstract!Forest, folderVars

(* When the rows of S go, so do the access rows that refer to them. *)
LEMMA RemoveFilesTable ==
    ASSUME IInv, NEW S
    PROVE  FileTable(WithoutFiles(S), files \ S, folders)
  <1>1. ASSUME NEW v \in User, NEW g \in File
        PROVE  FileCell(g, IF g \in S THEN NoFileRow ELSE fileAccess[v][g], files \ S, folders)
    <2>1. FileCell(g, fileAccess[v][g], files, folders)
      BY DEF IInv, FileTable
    <2>2. FileCell(g, NoFileRow, files \ S, folders)
      BY DEF FileCell, FileRow, NoFileRow, HasRow
    <2> QED BY <2>1, <2>2 DEF FileCell
  <1>2. \A v \in User, g \in File : FileCell(g, WithoutFiles(S)[v][g], files \ S, folders)
    BY <1>1 DEF WithoutFiles
  <1>3. WithoutFiles(S) \in [User -> [File -> FileRow]]
    BY <1>1 DEF WithoutFiles, FileCell
  <1> QED BY <1>2, <1>3 DEF FileTable

LEMMA RemoveFilesIInv ==
    ASSUME IInv, NEW S, RemoveFiles(S), fileAccess' = WithoutFiles(S),
           UNCHANGED <<folderVars, folderAccess>>
    PROVE  IInv'
  <1>1. FileTable(fileAccess', files', folders)
    BY RemoveFilesTable DEF RemoveFiles
  <1>2. FilesOK'
    BY DEF RemoveFiles, IInv, FilesOK
  <1> QED BY <1>1, <1>2 DEF IInv, TreeOK, ParentsExist, Forest, Abstract!Forest, folderVars

LEMMA LeaveFileIInv ==
    ASSUME IInv, NEW u \in User, NEW f \in File, LeaveFile(u, f),
           UNCHANGED <<folderVars, folderAccess>>
    PROVE  IInv'
  <1>1. FileCell(f, NoFileRow, files, folders)
    BY FileCellOps DEF IInv, TreeOK, FileTable
  <1> QED BY <1>1, FileCellStep DEF LeaveFile

LEMMA AbortUploadIInv ==
    ASSUME IInv, NEW u \in User, NEW f \in File, AbortUpload(u, f)
    PROVE  IInv'
  BY RemoveFilesIInv, LeaveFileIInv DEF AbortUpload

LEMMA DeleteFileIInv ==
    ASSUME IInv, NEW u \in User, NEW f \in File, DeleteFile(u, f)
    PROVE  IInv'
  <1>1. CASE DeleteFileForever(u, f)
    BY <1>1, RemoveFilesIInv DEF DeleteFile, DeleteFileForever
  <1>2. CASE TrashFile(u, f)
    <2> DEFINE row == Discard(fileAccess[u][f])
    <2>1. FileTable(WithoutFiles({f}), files, folders)
      BY RemoveFilesTable, TablesGrow
    <2>2. FileCell(f, fileAccess[u][f], files, folders) /\ HasRow(fileAccess[u][f])
      BY <1>2 DEF IInv, FileTable, TrashFile, IsOwner, HasRow
    <2>3. FileCell(f, row, files, folders)
      BY <2>2, FileCellOps DEF IInv, TreeOK
    <2> HIDE DEF row
    <2>4. FileTable([WithoutFiles({f}) EXCEPT ![u][f] = row], files, folders)
      BY <2>1, <2>3, SetFileCell
    <2>5. fileDeleted' \subseteq files
      BY <1>2, <2>2 DEF TrashFile, IInv, FilesOK, FileCell
    <2> QED BY <1>2, <2>4, <2>5, RowsOnly DEF DeleteFile, TrashFile, IInv, row
  <1>3. CASE NonOwner(fileAccess[u][f]) /\ LeaveFile(u, f)
    BY <1>3, LeaveFileIInv DEF DeleteFile
  <1> QED BY <1>1, <1>2, <1>3 DEF DeleteFile

(* Taking rows out of the trash, whichever they are. *)
LEMMA RestoredFoldersTable ==
    ASSUME IInv, NEW u \in User, NEW S
    PROVE  FolderTable(RestoredFolders(u, S), folders)
  <1> DEFINE r == [e \in Folder |-> IF e \in S THEN Restore(folderAccess[u][e])
                                    ELSE folderAccess[u][e]]
  <1>1. ASSUME NEW e \in Folder
        PROVE  FolderCell(e, r[e], folders)
    <2>1. FolderCell(e, folderAccess[u][e], folders)
      BY DEF IInv, FolderTable
    <2> QED BY <2>1, FolderCellOps
  <1>2. r \in [Folder -> FolderRow]
    BY <1>1 DEF FolderCell
  <1>3. RestoredFolders(u, S) = [folderAccess EXCEPT ![u] = r]
    BY DEF RestoredFolders
  <1> HIDE DEF r
  <1>4. FolderTable([folderAccess EXCEPT ![u] = r], folders)
    BY <1>1, <1>2, SetFolderRows DEF IInv
  <1> QED BY <1>3, <1>4

LEMMA RestoreFileIInv ==
    ASSUME IInv, NEW u \in User, NEW f \in File, RestoreFile(u, f)
    PROVE  IInv'
  <1>1. FileCell(f, Restore(fileAccess[u][f]), files, folders)
    BY FileCellOps DEF IInv, TreeOK, FileTable
  <1>2. FileTable(fileAccess', files, folders)
    BY <1>1, SetFileCell DEF IInv, RestoreFile
  <1>3. FolderTable(folderAccess', folders)
    BY RestoredFoldersTable DEF RestoreFile
  <1> QED BY <1>2, <1>3, RowsOnly DEF RestoreFile, IInv, FilesOK

-----------------------------------------------------------------------------
(* Requests that change the access rows of a folder's tree.                *)

(* u's rows are replaced by rows that are sound one by one. *)
LEMMA UserRowsStep ==
    ASSUME IInv, NEW u \in User, UNCHANGED <<folderVars, fileVars>>,
           NEW r \in [Folder -> FolderRow], \A e \in Folder : FolderCell(e, r[e], folders),
           NEW q \in [File -> FileRow], \A g \in File : FileCell(g, q[g], files, folders),
           folderAccess' = [folderAccess EXCEPT ![u] = r],
           fileAccess' = [fileAccess EXCEPT ![u] = q]
    PROVE  IInv'
  <1>1. FolderTable([folderAccess EXCEPT ![u] = r], folders)
    BY SetFolderRows DEF IInv
  <1>2. FileTable([fileAccess EXCEPT ![u] = q], files, folders)
    BY SetFileRows DEF IInv
  <1> QED BY <1>1, <1>2, RowsOnly DEF IInv, FilesOK, fileVars

(* The rows that exist, and what the operations on rows make of them. *)
LEMMA CellsOfState ==
    ASSUME IInv
    PROVE  /\ \A u \in User, d \in Folder :
                 /\ FolderCell(d, folderAccess[u][d], folders)
                 /\ FolderCell(d, NoFolderRow, folders)
                 /\ FolderCell(d, Discard(folderAccess[u][d]), folders)
                 /\ FolderCell(d, Restore(folderAccess[u][d]), folders)
                 /\ FolderCell(d, Accept(folderAccess[u][d]), folders)
           /\ \A u \in User, f \in File :
                 /\ FileCell(f, fileAccess[u][f], files, folders)
                 /\ FileCell(f, NoFileRow, files, folders)
                 /\ FileCell(f, Discard(fileAccess[u][f]), files, folders)
                 /\ FileCell(f, Restore(fileAccess[u][f]), files, folders)
                 /\ FileCell(f, Accept(fileAccess[u][f]), files, folders)
  <1>1. ASSUME NEW u \in User, NEW d \in Folder
        PROVE  FolderCell(d, folderAccess[u][d], folders)
    BY DEF IInv, FolderTable
  <1>2. ASSUME NEW u \in User, NEW f \in File
        PROVE  FileCell(f, fileAccess[u][f], files, folders)
    BY DEF IInv, FileTable
  <1>3. folders \subseteq Folder
    BY DEF IInv, TreeOK
  <1> QED BY <1>1, <1>2, <1>3, FolderCellOps, FileCellOps

LEMMA LeaveFolderIInv ==
    ASSUME IInv, NEW v \in User, NEW d \in Folder, LeaveFolder(v, d),
           UNCHANGED <<folderVars, files>>
    PROVE  IInv'
  <1> DEFINE T == Tree(d)
             r == [e \in Folder |-> IF e \in T THEN NoFolderRow ELSE folderAccess[v][e]]
             q == [g \in File |-> IF fileAccess[v][g].folder \in T THEN NoFileRow
                                  ELSE fileAccess[v][g]]
  <1>1. ASSUME NEW e \in Folder PROVE FolderCell(e, r[e], folders)
    BY CellsOfState
  <1>2. ASSUME NEW g \in File PROVE FileCell(g, q[g], files, folders)
    BY CellsOfState
  <1>3. r \in [Folder -> FolderRow] /\ q \in [File -> FileRow]
    BY <1>1, <1>2 DEF FolderCell, FileCell
  <1>4. /\ folderAccess' = [folderAccess EXCEPT ![v] = r]
        /\ fileAccess' = [fileAccess EXCEPT ![v] = q]
        /\ UNCHANGED <<folderVars, fileVars>>
    BY DEF LeaveFolder, fileVars
  <1> HIDE DEF r, q
  <1> QED BY <1>1, <1>2, <1>3, <1>4, UserRowsStep

LEMMA TrashFolderIInv ==
    ASSUME IInv, NEW u \in User, NEW d \in Folder, TrashFolder(u, d),
           UNCHANGED <<folderVars, files>>
    PROVE  IInv'
  <1>1. FolderTable(folderAccess', folders)
    <2>1. ASSUME NEW v \in User, NEW e \in Folder
          PROVE  FolderCell(e, folderAccess'[v][e], folders)
      BY CellsOfState DEF TrashFolder
    <2>2. folderAccess' \in [User -> [Folder -> FolderRow]]
      <3>1. ASSUME NEW v \in User, NEW e \in Folder
            PROVE  folderAccess'[v][e] \in FolderRow
        BY <2>1 DEF FolderCell
      <3> QED BY <3>1 DEF TrashFolder
    <2> QED BY <2>1, <2>2 DEF FolderTable
  <1>2. FileTable(fileAccess', files, folders)
    <2>1. ASSUME NEW v \in User, NEW g \in File
          PROVE  FileCell(g, fileAccess'[v][g], files, folders)
      BY CellsOfState DEF TrashFolder
    <2>2. fileAccess' \in [User -> [File -> FileRow]]
      <3>1. ASSUME NEW v \in User, NEW g \in File
            PROVE  fileAccess'[v][g] \in FileRow
        BY <2>1 DEF FileCell
      <3> QED BY <3>1 DEF TrashFolder
    <2> QED BY <2>1, <2>2 DEF FileTable
  <1>3. fileDeleted' \subseteq files
    BY DEF TrashFolder, FilesIn, IInv, FilesOK
  <1> QED BY <1>1, <1>2, <1>3, RowsOnly

LEMMA DeleteFolderIInv ==
    ASSUME IInv, NEW u \in User, NEW d \in Folder, DeleteFolder(u, d)
    PROVE  IInv'
  BY TrashFolderIInv, LeaveFolderIInv DEF DeleteFolder

LEMMA RevokeFolderIInv ==
    ASSUME IInv, NEW u \in User, NEW d \in Folder, NEW v \in User, RevokeFolder(u, d, v)
    PROVE  IInv'
  BY LeaveFolderIInv DEF RevokeFolder

LEMMA RestoreFolderIInv ==
    ASSUME IInv, NEW u \in User, NEW d \in Folder, RestoreFolder(u, d)
    PROVE  IInv'
  <1> DEFINE T == Tree(d)
             q == [g \in File |-> IF fileAccess[u][g].folder \in T
                                  THEN Restore(fileAccess[u][g]) ELSE fileAccess[u][g]]
  <1>1. FolderTable(folderAccess', folders)
    BY RestoredFoldersTable DEF RestoreFolder
  <1>2. ASSUME NEW g \in File PROVE FileCell(g, q[g], files, folders)
    BY CellsOfState
  <1>3. q \in [File -> FileRow]
    BY <1>2 DEF FileCell
  <1>4. fileAccess' = [fileAccess EXCEPT ![u] = q]
    BY DEF RestoreFolder
  <1> HIDE DEF q
  <1>5. FileTable(fileAccess', files, folders)
    <2>1. FileTable([fileAccess EXCEPT ![u] = q], files, folders)
      BY <1>2, <1>3, SetFileRows DEF IInv
    <2> QED BY <2>1, <1>4
  <1> QED BY <1>1, <1>5, RowsOnly DEF RestoreFolder, IInv, FilesOK, fileVars

LEMMA AcceptFolderIInv ==
    ASSUME IInv, NEW u \in User, NEW d \in Folder, AcceptFolder(u, d)
    PROVE  IInv'
  <1> DEFINE T == Tree(d)
             top == [folderAccess[u][d] EXCEPT !.accepted = TRUE, !.anchor = TRUE]
             r == [e \in Folder |-> IF e = d
                                    THEN [folderAccess[u][e] EXCEPT !.accepted = TRUE,
                                                                    !.anchor = TRUE]
                                    ELSE IF e \in T THEN Accept(folderAccess[u][e])
                                    ELSE folderAccess[u][e]]
             q == [g \in File |-> IF fileAccess[u][g].folder \in T
                                  THEN Accept(fileAccess[u][g]) ELSE fileAccess[u][g]]
  <1>1. FolderCell(d, top, folders)
    <2>1. FolderCell(d, folderAccess[u][d], folders) /\ HasRow(folderAccess[u][d])
      BY CellsOfState DEF AcceptFolder, MayAnswer, NonOwner
    <2>2. folderAccess[u][d] \in
            [level : Level, deleted : BOOLEAN, accepted : BOOLEAN, anchor : BOOLEAN]
      BY <2>1 DEF FolderCell, FolderRow, NoFolderRow, HasRow
    <2>3. top \in FolderRow
      BY <2>2 DEF FolderRow
    <2> QED BY <2>1, <2>3 DEF FolderCell
  <1>2. ASSUME NEW e \in Folder PROVE FolderCell(e, r[e], folders)
    BY <1>1, CellsOfState
  <1>3. ASSUME NEW g \in File PROVE FileCell(g, q[g], files, folders)
    BY CellsOfState
  <1>4. r \in [Folder -> FolderRow] /\ q \in [File -> FileRow]
    BY <1>2, <1>3 DEF FolderCell, FileCell
  <1>5. /\ folderAccess' = [folderAccess EXCEPT ![u] = r]
        /\ fileAccess' = [fileAccess EXCEPT ![u] = q]
        /\ UNCHANGED <<folderVars, fileVars>>
    BY DEF AcceptFolder
  <1> HIDE DEF r, q
  <1> QED BY <1>2, <1>3, <1>4, <1>5, UserRowsStep

LEMMA RejectFolderIInv ==
    ASSUME IInv, NEW u \in User, NEW d \in Folder, RejectFolder(u, d)
    PROVE  IInv'
  <1> DEFINE T == Tree(d)
             r == [e \in Folder |-> IF e \in T THEN Discard(folderAccess[u][e])
                                    ELSE folderAccess[u][e]]
             q == [g \in File |-> IF fileAccess[u][g].folder \in T
                                  THEN Discard(fileAccess[u][g]) ELSE fileAccess[u][g]]
  <1>1. ASSUME NEW e \in Folder PROVE FolderCell(e, r[e], folders)
    BY CellsOfState
  <1>2. ASSUME NEW g \in File PROVE FileCell(g, q[g], files, folders)
    BY CellsOfState
  <1>3. r \in [Folder -> FolderRow] /\ q \in [File -> FileRow]
    BY <1>1, <1>2 DEF FolderCell, FileCell
  <1>4. /\ folderAccess' = [folderAccess EXCEPT ![u] = r]
        /\ fileAccess' = [fileAccess EXCEPT ![u] = q]
        /\ UNCHANGED <<folderVars, fileVars>>
    BY DEF RejectFolder
  <1> HIDE DEF r, q
  <1> QED BY <1>1, <1>2, <1>3, <1>4, UserRowsStep

(* Granting rows to v.  The folders shared exist, and a file the caller    *)
(* owns exists and is placed in a folder that does.                        *)
LEMMA ShareFolderBatchIInv ==
    ASSUME IInv, NEW u \in User, NEW d \in Folder, NEW v \in User, NEW l \in FolderLevel,
           NEW D \in SUBSET folders, NEW F \in SUBSET files, ShareFolderBatch(u, d, v, l, D, F)
    PROVE  IInv'
  <1> DEFINE r == [e \in Folder |-> IF e \in D THEN PendingFolder(l) ELSE folderAccess[v][e]]
             q == [g \in File |-> IF g \in F
                                  THEN PendingFile(fileAccess[v][g], l, fileAccess[u][g].folder)
                                  ELSE fileAccess[v][g]]
  <1>1. l \in Level /\ folders \subseteq Folder
    BY LevelAssumption DEF IInv, TreeOK
  <1>2. ASSUME NEW e \in Folder PROVE FolderCell(e, r[e], folders)
    <2>1. CASE e \in D
      <3>1. e \in folders
        BY <2>1
      <3> QED BY <1>1, <2>1, <3>1, NewFolderCell DEF PendingFolder
    <2> QED BY <2>1, CellsOfState
  <1>3. ASSUME NEW g \in File PROVE FileCell(g, q[g], files, folders)
    <2>1. CASE g \in F
      <3>1. /\ HasRow(fileAccess[u][g])
            /\ FileCell(g, fileAccess[u][g], files, folders)
            /\ FileCell(g, fileAccess[v][g], files, folders)
        BY <2>1, CellsOfState DEF ShareFolderBatch, OwnsFile, IsOwner, HasRow
      <3>2. g \in files /\ fileAccess[u][g].folder \in folders \cup {NULL}
        BY <3>1 DEF FileCell
      <3>3. FileCell(g, PendingFile(fileAccess[v][g], l, fileAccess[u][g].folder), files, folders)
        BY <1>1, <3>1, <3>2, PendingFileCell
      <3> QED BY <2>1, <3>3
    <2> QED BY <2>1, CellsOfState
  <1>4. r \in [Folder -> FolderRow] /\ q \in [File -> FileRow]
    BY <1>2, <1>3 DEF FolderCell, FileCell
  <1>5. /\ folderAccess' = [folderAccess EXCEPT ![v] = r]
        /\ fileAccess' = [fileAccess EXCEPT ![v] = q]
        /\ UNCHANGED <<folderVars, fileVars>>
    BY DEF ShareFolderBatch
  <1> HIDE DEF r, q
  <1> QED BY <1>2, <1>3, <1>4, <1>5, UserRowsStep

LEMMA PropagateFolderIInv ==
    ASSUME IInv, NEW u \in User, NEW d \in Folder, NEW v \in User, NEW l \in FolderLevel,
           PropagateFolder(u, d, v, l)
    PROVE  IInv'
  <1> DEFINE row == [level |-> l, deleted |-> FALSE, accepted |-> TRUE,
                     anchor |-> folderAccess[v][d].anchor]
  <1>1. d \in folders /\ folderAccess[v][d].anchor \in BOOLEAN /\ l \in Level
    <2>1. FolderCell(d, folderAccess[u][d], folders) /\ FolderCell(d, folderAccess[v][d], folders)
      BY CellsOfState
    <2>2. d \in folders
      BY <2>1 DEF FolderCell, PropagateFolder, IsOwner, HasRow
    <2>3. folderAccess[v][d].anchor \in BOOLEAN
      <3>1. folderAccess[v][d] \in FolderRow
        BY <2>1 DEF FolderCell
      <3>2. CASE folderAccess[v][d] = NoFolderRow
        BY <3>2 DEF NoFolderRow
      <3>3. CASE folderAccess[v][d] # NoFolderRow
        BY <3>1, <3>3 DEF FolderRow
      <3> QED BY <3>2, <3>3
    <2> QED BY <2>2, <2>3, LevelAssumption
  <1>2. FolderCell(d, row, folders)
    BY <1>1, NewFolderCell
  <1>3. folderAccess' = [folderAccess EXCEPT ![v][d] = row]
    BY DEF PropagateFolder
  <1> HIDE DEF row
  <1>4. FolderTable([folderAccess EXCEPT ![v][d] = row], folders)
    BY <1>2, SetFolderCell DEF IInv
  <1> QED BY <1>3, <1>4, RowsOnly DEF PropagateFolder, IInv, FilesOK, fileVars

-----------------------------------------------------------------------------
(* Requests that change the tree of folders.                               *)

(* A new folder is nobody's parent: a set that holds all its own parents   *)
(* after the insertion still does without it.                              *)
LEMMA InsertFolderTree ==
    ASSUME IInv, NEW d \in Folder, NEW p, InsertFolder(d, p)
    PROVE  TreeOK' /\ Forest'
  <1>1. TreeOK'
    BY DEF InsertFolder, IInv, TreeOK, ParentsExist
  <1>2. ASSUME NEW S \in SUBSET folders', S # {}, \A e \in S : parent'[e] \in S
        PROVE  FALSE
    <2>1. \A e \in folders : parent[e] # d /\ parent'[e] = parent[e]
      BY NullAssumption DEF InsertFolder, IInv, TreeOK, ParentsExist
    <2>2. S \ {d} \in SUBSET folders /\ \A e \in S \ {d} : parent[e] \in S \ {d}
      BY <1>2, <2>1 DEF InsertFolder
    <2>3. S \ {d} # {}
      <3>1. CASE d \in S
        <4>1. parent'[d] = p /\ p # d
          BY NullAssumption DEF InsertFolder, IInv, TreeOK
        <4> QED BY <1>2, <3>1, <4>1
      <3> QED BY <1>2, <3>1
    <2> QED BY <2>2, <2>3 DEF IInv, Forest, Abstract!Forest
  <1> QED BY <1>1, <1>2 DEF Forest, Abstract!Forest

LEMMA CreateFolderIInv ==
    ASSUME IInv, NEW u \in User, NEW d \in Folder, NEW p \in folders \cup {NULL},
           CreateFolder(u, d, p) \/ CreateFolderFails(u, d, p)
    PROVE  IInv'
  <1>1. InsertFolder(d, p)
    BY DEF CreateFolder, CreateFolderFails
  <1>2. TreeOK' /\ Forest'
    BY <1>1, InsertFolderTree
  <1>3. /\ FolderTable(folderAccess, folders')
        /\ FileTable(fileAccess, files, folders')
    BY <1>1, TablesGrow DEF IInv, InsertFolder
  <1>4. FolderTable(folderAccess', folders')
    <2>1. CASE CreateFolder(u, d, p)
      <3> DEFINE row == [level |-> "owner", deleted |-> FALSE, accepted |-> TRUE,
                         anchor |-> (p = NULL)]
      <3>1. FolderCell(d, row, folders')
        BY <1>1, NewFolderCell DEF InsertFolder, Level
      <3>2. folderAccess' = [folderAccess EXCEPT ![u][d] = row]
        BY <2>1 DEF CreateFolder
      <3> HIDE DEF row
      <3>3. FolderTable([folderAccess EXCEPT ![u][d] = row], folders')
        BY <1>3, <3>1, SetFolderCell
      <3> QED BY <3>2, <3>3
    <2>2. CASE CreateFolderFails(u, d, p)
      BY <1>3, <2>2 DEF CreateFolderFails
    <2> QED BY <2>1, <2>2
  <1>5. UNCHANGED <<files, fileDeleted, fileAccess>>
    BY DEF CreateFolder, CreateFolderFails, fileVars
  <1> QED BY <1>2, <1>3, <1>4, <1>5 DEF IInv, FilesOK

(* The target p is not in the tree of d.  A set S that holds all its own   *)
(* parents after the move either never used d's parent, or holds p; then   *)
(* S without the tree of d is not empty, and held all its own parents      *)
(* before the move: a folder outside the tree has no parent in it.         *)
LEMMA MoveFolderForest ==
    ASSUME IInv, NEW d \in folders, NEW p \in folders \cup {NULL}, p \notin Tree(d),
           parent' = [parent EXCEPT ![d] = p], folders' = folders
    PROVE  Forest'
  <1>1. SUFFICES ASSUME NEW S \in SUBSET folders, S # {}, \A e \in S : parent'[e] \in S
                 PROVE  FALSE
    BY DEF Forest, Abstract!Forest
  <1>2. /\ d \in Tree(d)
        /\ \A x \in folders : parent[x] \in Tree(d) => x \in Tree(d)
    BY TreeFacts
  <1>3. parent'[d] = p /\ \A e \in folders \ {d} : parent'[e] = parent[e]
    BY DEF IInv, TreeOK
  <1>4. CASE d \notin S
    <2>1. \A e \in S : parent[e] \in S
      BY <1>1, <1>3, <1>4
    <2> QED BY <1>1, <2>1 DEF IInv, Forest, Abstract!Forest
  <1>5. CASE d \in S
    <2> DEFINE R == S \ Tree(d)
    <2>1. R \in SUBSET folders /\ R # {}
      BY <1>1, <1>3, <1>5
    <2>2. ASSUME NEW e \in R PROVE parent[e] \in R
      BY <1>1, <1>2, <1>3
    <2> QED BY <2>1, <2>2 DEF IInv, Forest, Abstract!Forest
  <1> QED BY <1>4, <1>5

LEMMA MoveFolderIInv ==
    ASSUME IInv, NEW u \in User, NEW d \in Folder, NEW p \in folders \cup {NULL},
           MoveFolder(u, d, p)
    PROVE  IInv'
  <1>1. d \in folders
    BY CellsOfState DEF FolderCell, MoveFolder, CanEdit, HasRow
  <1>2. Forest'
    BY <1>1, MoveFolderForest DEF MoveFolder, MayMoveUnder
  <1>3. TreeOK'
    BY NullAssumption DEF MoveFolder, IInv, TreeOK, ParentsExist
  <1> QED BY <1>2, <1>3 DEF MoveFolder, IInv, FilesOK, fileVars

(* What is removed is closed under children, so no parent of what remains  *)
(* is removed, and no row of what remains refers to it.                    *)
LEMMA EmptyTrashIInv ==
    ASSUME IInv, NEW u \in User, EmptyTrash(u)
    PROVE  IInv'
  <1> DEFINE F == DoomedFiles(u)
             D == DoomedFolders(u)
  <1>1. /\ D \subseteq folders
        /\ \A x \in folders : parent[x] \in D => x \in D
    BY DoomedFacts
  <1>2. /\ folders' = folders \ D
        /\ parent' = [d \in Folder |-> IF d \in D THEN NULL ELSE parent[d]]
        /\ isRoot' = [d \in Folder |-> isRoot[d] /\ d \notin D]
        /\ files' = files \ F
        /\ fileDeleted' = fileDeleted \ F
    BY DEF EmptyTrash, RemoveFiles
  <1> HIDE DEF D, F
  <1>3. \A d \in folders' : parent'[d] = parent[d] /\ isRoot'[d] = isRoot[d]
    BY <1>2 DEF IInv, TreeOK
  <1>4. TreeOK'
    <2>1. folders' \subseteq Folder /\ parent' \in [Folder -> Folder \cup {NULL}]
      BY <1>2 DEF IInv, TreeOK
    <2>2. isRoot' \in [Folder -> BOOLEAN]
      BY <1>2
    <2>3. ParentsExist'
      BY <1>1, <1>2, <1>3 DEF IInv, TreeOK, ParentsExist
    <2> QED BY <2>1, <2>2, <2>3 DEF TreeOK
  <1>5. FilesOK'
    BY <1>2 DEF IInv, FilesOK
  <1>6. Forest'
    BY <1>2, <1>3 DEF IInv, Forest, Abstract!Forest
  <1>7. FolderTable(folderAccess', folders')
    <2>1. ASSUME NEW v \in User, NEW d \in Folder
          PROVE  FolderCell(d, folderAccess'[v][d], folders')
      <3>1. FolderCell(d, folderAccess[v][d], folders) /\ FolderCell(d, NoFolderRow, folders')
        BY CellsOfState DEF FolderCell, FolderRow, NoFolderRow, HasRow
      <3>2. folderAccess'[v][d] = IF d \in D \/ (v = u /\ folderAccess[v][d].deleted)
                                  THEN NoFolderRow ELSE folderAccess[v][d]
        BY DEF EmptyTrash, D
      <3> QED BY <1>2, <3>1, <3>2 DEF FolderCell
    <2>2. folderAccess' \in [User -> [Folder -> FolderRow]]
      <3>1. ASSUME NEW v \in User, NEW d \in Folder
            PROVE  folderAccess'[v][d] \in FolderRow
        BY <2>1 DEF FolderCell
      <3> QED BY <3>1 DEF EmptyTrash
    <2> QED BY <2>1, <2>2 DEF FolderTable
  <1>8. FileTable(fileAccess', files', folders')
    <2>1. ASSUME NEW v \in User, NEW g \in File
          PROVE  FileCell(g, fileAccess'[v][g], files', folders')
      <3> DEFINE row == fileAccess[v][g]
      <3>1. FileCell(g, row, files, folders)
        BY CellsOfState
      <3>2. fileAccess'[v][g] =
                IF g \in F \/ (v = u /\ row.deleted) THEN NoFileRow
                ELSE IF row.folder \in D THEN [row EXCEPT !.folder = NULL]
                ELSE row
        BY DEF EmptyTrash, D, F
      <3> HIDE DEF row
      <3>3. FileCell(g, NoFileRow, files', folders')
        BY DEF FileCell, FileRow, NoFileRow, HasRow
      <3>4. ASSUME g \notin F, row.folder \notin D
            PROVE  FileCell(g, row, files', folders')
        BY <1>2, <3>1, <3>4 DEF FileCell
      <3>5. ASSUME g \notin F, row.folder \in D
            PROVE  FileCell(g, [row EXCEPT !.folder = NULL], files', folders')
        <4>1. HasRow(row)
          BY <1>1, <3>1, <3>5, NullAssumption
          DEF FileCell, FileRow, NoFileRow, HasRow, Level, IInv, TreeOK
        <4>2. FileCell(g, [row EXCEPT !.folder = NULL], files, folders)
          BY <3>1, <4>1, FileCellOps DEF IInv, TreeOK
        <4>3. [row EXCEPT !.folder = NULL].folder = NULL
          BY <3>1, <4>1 DEF FileCell, FileRow, NoFileRow, HasRow
        <4> QED BY <1>2, <3>5, <4>2, <4>3 DEF FileCell
      <3> QED BY <3>2, <3>3, <3>4, <3>5
    <2>2. fileAccess' \in [User -> [File -> FileRow]]
      <3>1. ASSUME NEW v \in User, NEW g \in File
            PROVE  fileAccess'[v][g] \in FileRow
        BY <2>1 DEF FileCell
      <3> QED BY <3>1 DEF EmptyTrash
    <2> QED BY <2>1, <2>2 DEF FileTable
  <1> QED BY <1>4, <1>5, <1>6, <1>7, <1>8 DEF IInv

-----------------------------------------------------------------------------
(* The theorems about invariants.                                          *)

LEMMA NextIInv == IInv /\ [Next]_vars => IInv'
  <1> SUFFICES ASSUME IInv, [Next]_vars PROVE IInv'
    OBVIOUS
  <1>1. ASSUME NEW u \in User, NEW f \in File, FileStep(u, f) PROVE IInv'
    BY <1>1, InitializeFileIInv, MoveFileIInv, AbortUploadIInv, DeleteFileIInv,
       RestoreFileIInv, AcceptFileIInv, RejectFileIInv, RevokeFileIInv, ShareFileIInv
    DEF FileStep
  <1>2. ASSUME NEW u \in User, NEW d \in Folder, FolderStep(u, d) PROVE IInv'
    BY <1>2, CreateFolderIInv, MoveFolderIInv, DeleteFolderIInv, RestoreFolderIInv,
       AcceptFolderIInv, RejectFolderIInv, RevokeFolderIInv, ShareFolderBatchIInv,
       PropagateFolderIInv
    DEF FolderStep
  <1>3. ASSUME NEW u \in User, EmptyTrash(u) PROVE IInv'
    BY <1>3, EmptyTrashIInv
  <1>4. CASE UNCHANGED vars
    BY <1>4 DEF vars, IInv, TreeOK, ParentsExist, FilesOK, Forest, Abstract!Forest
  <1> QED BY <1>1, <1>2, <1>3, <1>4 DEF Next, Step

LEMMA InvariantIInv == Spec => []IInv
  BY InitIInv, NextIInv, PTL DEF Spec

(* The tables of the drive keep their columns' types, whatever requests    *)
(* the users send and however many users, folders and files there are.     *)
THEOREM TypeCorrect == Spec => []TypeOK
  BY InvariantIInv, IInvImplies, PTL

(* No sequence of creations, moves, deletions, restorations, shares and    *)
(* emptied trashes of src/drive/repo.rs makes a cycle of folders, a parent *)
(* that does not exist, or an access row about something that does not.    *)
THEOREM IntegrityHolds == Spec => []Integrity
  BY InvariantIInv, IInvImplies, PTL

-----------------------------------------------------------------------------
(* Drive implements FolderForest.                                          *)

LEMMA TreeStepOrStutter ==
    ASSUME IInv, Next
    PROVE  [Abstract!Next]_(Abstract!ForestVars)
  <1> USE DEF Abstract!ForestVars
  <1>1. ASSUME NEW u \in User, NEW f \in File, FileStep(u, f)
        PROVE  UNCHANGED <<folders, parent>>
    BY <1>1
    DEF FileStep, InitializeFile, MoveFile, AbortUpload, DeleteFile, RestoreFile, AcceptFile,
        RejectFile, RevokeFile, ShareFile, PropagateFile, folderVars
  <1>2. ASSUME NEW u \in User, NEW d \in Folder, FolderStep(u, d)
        PROVE  [Abstract!Next]_(Abstract!ForestVars)
    <2>1. ASSUME NEW p \in folders \cup {NULL},
                 CreateFolder(u, d, p) \/ CreateFolderFails(u, d, p)
          PROVE  Abstract!Insert(d, p)
      BY <2>1 DEF CreateFolder, CreateFolderFails, InsertFolder, Abstract!Insert
    <2>2. ASSUME NEW p \in folders \cup {NULL}, MoveFolder(u, d, p)
          PROVE  Abstract!Move(d, p)
      <3>1. Forest'
        BY <2>2, MoveFolderIInv DEF IInv
      <3>2. d \in folders
        BY <2>2, CellsOfState DEF FolderCell, MoveFolder, CanEdit, HasRow
      <3> QED BY <2>2, <3>1, <3>2 DEF MoveFolder, Forest, Abstract!Move
    <2>3. CASE DeleteFolder(u, d) \/ RestoreFolder(u, d) \/ AcceptFolder(u, d) \/ RejectFolder(u, d)
      BY <2>3 DEF DeleteFolder, RestoreFolder, AcceptFolder, RejectFolder, folderVars
    <2>4. ASSUME NEW v \in User, RevokeFolder(u, d, v)
          PROVE  UNCHANGED <<folders, parent>>
      BY <2>4 DEF RevokeFolder, folderVars
    <2>5. ASSUME NEW v \in User, NEW l \in FolderLevel,
                 \/ \E D \in SUBSET folders, F \in SUBSET files : ShareFolderBatch(u, d, v, l, D, F)
                 \/ PropagateFolder(u, d, v, l)
          PROVE  UNCHANGED <<folders, parent>>
      BY <2>5 DEF ShareFolderBatch, PropagateFolder, folderVars
    <2> QED BY <1>2, <2>1, <2>2, <2>3, <2>4, <2>5 DEF FolderStep, Abstract!Next
  <1>3. ASSUME NEW u \in User, EmptyTrash(u)
        PROVE  Abstract!Next
    <2>1. Abstract!Remove(DoomedFolders(u))
      BY <1>3, DoomedFacts DEF EmptyTrash, Abstract!Remove
    <2> QED BY <2>1, DoomedFacts DEF Abstract!Next
  <1> QED BY <1>1, <1>2, <1>3 DEF Next, Step

(* Every request changes the tree of folders in one of the three ways      *)
(* FolderForest allows, or not at all.                                     *)
THEOREM DriveImplementsForest == Spec => ImplementsForest
  <1>1. Init => Abstract!Init
    BY DEF Init, Abstract!Init
  <1>2. IInv /\ [Next]_vars => [Abstract!Next]_(Abstract!ForestVars)
    <2>1. CASE Next
      BY <2>1, TreeStepOrStutter
    <2>2. CASE UNCHANGED vars
      BY <2>2 DEF vars, Abstract!ForestVars
    <2> QED BY <2>1, <2>2
  <1> QED BY <1>1, <1>2, InvariantIInv, PTL DEF Spec, ImplementsForest, Abstract!Spec

-----------------------------------------------------------------------------
(* What a request changes for users other than its caller.                 *)

(* A folder someone owns is a folder, and its tree is within reach. *)
LEMMA OwnedTreeFacts ==
    ASSUME IInv, NEW u \in User, NEW d \in Folder, IsOwner(folderAccess[u][d])
    PROVE  /\ d \in folders
           /\ d \in OwnedTree(u)
           /\ Tree(d) \subseteq OwnedTree(u)
  <1>1. d \in folders
    BY CellsOfState DEF FolderCell, HasRow, IsOwner
  <1>2. Tree(d) \subseteq OwnedTree(u)
    BY <1>1 DEF OwnedTree
  <1>3. d \in Tree(d)
    BY <1>1, TreeFacts
  <1> QED BY <1>1, <1>2, <1>3

LEMMA DoomedReach ==
    ASSUME NEW u \in User
    PROVE  DoomedFolders(u) \subseteq OwnedTree(u)
  BY DEF DoomedFolders, OwnedTree

(* A user without a row of a file has nothing there that could change. *)
LEMMA NoRowIsNoFileRow ==
    ASSUME IInv, NEW v \in User, NEW f \in File, ~HasRow(fileAccess[v][f])
    PROVE  fileAccess[v][f] = NoFileRow
  <1>1. fileAccess[v][f] \in FileRow
    BY CellsOfState DEF FileCell
  <1> QED BY <1>1 DEF FileRow, HasRow, Level

LEMMA FileStepReach ==
    ASSUME IInv, NEW u \in User, NEW f \in File, FileStep(u, f), NEW v \in User \ {u}
    PROVE  WithinReach(u, v)
  <1> USE DEF WithinReach
  <1> /\ folderAccess \in [User -> [Folder -> FolderRow]]
      /\ fileAccess \in [User -> [File -> FileRow]]
    BY DEF IInv, FolderTable, FileTable
  <1>1. ASSUME NEW d \in folders \cup {NULL}, InitializeFile(u, f, d) \/ MoveFile(u, f, d)
        PROVE  WithinReach(u, v)
    BY <1>1 DEF InitializeFile, MoveFile
  <1>2. CASE AbortUpload(u, f)
    <2>1. CASE SoleHolder(u, f)
      BY <1>2, <2>1, NoRowIsNoFileRow DEF AbortUpload, WithoutFiles, SoleHolder
    <2>2. CASE ~SoleHolder(u, f)
      BY <1>2, <2>2 DEF AbortUpload, LeaveFile
    <2> QED BY <2>1, <2>2
  <1>3. CASE DeleteFile(u, f)
    <2>1. CASE DeleteFileForever(u, f)
      BY <1>3, <2>1 DEF DeleteFile, DeleteFileForever, WithoutFiles, OwnsFile
    <2>2. CASE TrashFile(u, f)
      <3>1. fileAccess'[v] = WithoutFiles({f})[v]
        BY <2>2 DEF TrashFile, WithoutFiles
      <3> QED BY <1>3, <2>2, <3>1 DEF DeleteFile, TrashFile, WithoutFiles, OwnsFile
    <2>3. CASE LeaveFile(u, f)
      BY <1>3, <2>3 DEF DeleteFile, LeaveFile
    <2> QED BY <1>3, <2>1, <2>2, <2>3 DEF DeleteFile
  <1>4. CASE RestoreFile(u, f)
    BY <1>4 DEF RestoreFile, RestoredFolders
  <1>5. CASE AcceptFile(u, f) \/ RejectFile(u, f)
    BY <1>5 DEF AcceptFile, RejectFile
  <1>6. ASSUME NEW w \in User, RevokeFile(u, f, w)
        PROVE  WithinReach(u, v)
    BY <1>6 DEF RevokeFile
  <1>7. ASSUME NEW w \in User, NEW l \in FileLevel, ShareFile(u, f, w, l) \/ PropagateFile(u, f, w, l)
        PROVE  WithinReach(u, v)
    <2>1. ASSUME NEW row, fileAccess' = [fileAccess EXCEPT ![w][f] = row]
          PROVE  \A g \in File \ {f} : fileAccess'[v][g] = fileAccess[v][g]
      BY <2>1
    <2>2. \A g \in File \ {f} : fileAccess'[v][g] = fileAccess[v][g]
      BY <1>7, <2>1 DEF ShareFile, PropagateFile
    <2>3. OwnsFile(u, f) /\ UNCHANGED folderAccess
      BY <1>7 DEF ShareFile, PropagateFile
    <2> QED BY <2>2, <2>3
  <1> QED BY <1>1, <1>2, <1>3, <1>4, <1>5, <1>6, <1>7 DEF FileStep

LEMMA FolderStepReach ==
    ASSUME IInv, NEW u \in User, NEW d \in Folder, FolderStep(u, d), NEW v \in User \ {u}
    PROVE  WithinReach(u, v)
  <1> USE DEF WithinReach
  <1> /\ folderAccess \in [User -> [Folder -> FolderRow]]
      /\ fileAccess \in [User -> [File -> FileRow]]
    BY DEF IInv, FolderTable, FileTable
  <1>1. ASSUME NEW p \in folders \cup {NULL},
               CreateFolder(u, d, p) \/ CreateFolderFails(u, d, p) \/ MoveFolder(u, d, p)
        PROVE  WithinReach(u, v)
    BY <1>1 DEF CreateFolder, CreateFolderFails, MoveFolder
  <1>2. CASE DeleteFolder(u, d)
    <2>1. CASE TrashFolder(u, d)
      <3>1. Tree(d) \subseteq OwnedTree(u)
        BY <2>1, OwnedTreeFacts DEF TrashFolder
      <3> QED BY <2>1, <3>1 DEF TrashFolder
    <2>2. CASE LeaveFolder(u, d)
      BY <2>2 DEF LeaveFolder
    <2> QED BY <1>2, <2>1, <2>2 DEF DeleteFolder
  <1>3. CASE RestoreFolder(u, d)
    BY <1>3 DEF RestoreFolder, RestoredFolders
  <1>4. CASE AcceptFolder(u, d) \/ RejectFolder(u, d)
    BY <1>4 DEF AcceptFolder, RejectFolder
  <1>5. ASSUME NEW w \in User, RevokeFolder(u, d, w)
        PROVE  WithinReach(u, v)
    <2>1. Tree(d) \subseteq OwnedTree(u)
      BY <1>5, OwnedTreeFacts DEF RevokeFolder
    <2> QED BY <1>5, <2>1 DEF RevokeFolder, LeaveFolder
  <1>6. ASSUME NEW w \in User, NEW l \in FolderLevel, NEW D \in SUBSET folders,
               NEW F \in SUBSET files, ShareFolderBatch(u, d, w, l, D, F)
        PROVE  WithinReach(u, v)
    <2>1. OwnedTree(u) # {}
      BY <1>6, OwnedTreeFacts DEF ShareFolderBatch
    <2>2. \A e \in Folder : folderAccess'[v][e] # folderAccess[v][e] =>
              folderAccess'[v][e] = PendingFolder(l)
      BY <1>6 DEF ShareFolderBatch
    <2>3. Pending(PendingFolder(l))
      BY LevelAssumption DEF Pending, PendingFolder, Active, HasRow, Level
    <2>4. \A g \in File : fileAccess'[v][g] # fileAccess[v][g] => OwnsFile(u, g)
      BY <1>6 DEF ShareFolderBatch
    <2> QED BY <2>1, <2>2, <2>3, <2>4
  <1>7. ASSUME NEW w \in User, NEW l \in FolderLevel, PropagateFolder(u, d, w, l)
        PROVE  WithinReach(u, v)
    <2>1. d \in OwnedTree(u)
      BY <1>7, OwnedTreeFacts DEF PropagateFolder
    <2> QED BY <1>7, <2>1 DEF PropagateFolder
  <1> QED BY <1>1, <1>2, <1>3, <1>4, <1>5, <1>6, <1>7 DEF FolderStep

LEMMA EmptyTrashReach ==
    ASSUME IInv, NEW u \in User, EmptyTrash(u), NEW v \in User \ {u}
    PROVE  WithinReach(u, v)
  <1>1. \A d \in Folder : folderAccess'[v][d] # folderAccess[v][d] => d \in DoomedFolders(u)
    BY DEF EmptyTrash
  <1>2. \A f \in File : fileAccess'[v][f] # fileAccess[v][f] =>
            f \in DoomedFiles(u) \/ fileAccess[v][f].folder \in DoomedFolders(u)
    BY DEF EmptyTrash
  <1>3. \A f \in DoomedFiles(u) : OwnsFile(u, f)
    BY DEF DoomedFiles, OwnsFile
  <1> QED BY <1>1, <1>2, <1>3, DoomedReach DEF WithinReach

(* A request takes an item from another user, trashes or moves it there,   *)
(* or puts it into that user's drive, only if its caller owns the item or  *)
(* a folder above it; anything else it leaves with another user is a       *)
(* pending share of a folder.  So for every number of users, folders and   *)
(* files, every level that shares grant, and every list of folders and     *)
(* files that a batch comes with.                                          *)
THEOREM OwnersDecide == Spec => OnlyOffersReachFurther
  <1>1. ASSUME IInv, NEW u \in User, Step(u), NEW v \in User \ {u}
        PROVE  WithinReach(u, v)
    BY <1>1, FileStepReach, FolderStepReach, EmptyTrashReach DEF Step
  <1>2. IInv => \A u \in User : (\A v \in User \ {u} : WithinReach(u, v)) \/ ~Step(u)
    BY <1>1
  <1> QED BY <1>2, InvariantIInv, PTL DEF OnlyOffersReachFurther

(* How u may destroy the file f: as the one holder who aborts its upload,  *)
(* or as an owner who has f in the trash.                                  *)
Destroys(u, f) ==
    \/ AbortUpload(u, f) /\ SoleHolder(u, f)
    \/ /\ DeleteFile(u, f) \/ EmptyTrash(u)
       /\ OwnsFile(u, f)
       /\ Trashed(fileAccess[u][f])

(* A file's row and chunks go only in a request of a user who is the last  *)
(* to hold the file and aborts its upload, or who owns it, has it in the   *)
(* own trash, and deletes it there or empties that trash: no other request *)
(* of src/drive/repo.rs, and nobody else's trash, ends a file.             *)
THEOREM OnlyTrashIsDestroyed == Spec => FilesEndInTrash
  <1>1. ASSUME NEW u \in User, NEW f \in File, FileStep(u, f), NEW g \in files \ files'
        PROVE  Destroys(u, g)
    <2>1. CASE AbortUpload(u, f)
      <3>1. SoleHolder(u, f) /\ g = f
        BY <1>1, <2>1 DEF AbortUpload, RemoveFiles, LeaveFile, fileVars
      <3> QED BY <2>1, <3>1 DEF Destroys
    <2>2. CASE DeleteFile(u, f)
      <3>1. DeleteFileForever(u, f) /\ g = f
        BY <1>1, <2>2 DEF DeleteFile, DeleteFileForever, TrashFile, LeaveFile, RemoveFiles, fileVars
      <3> QED BY <2>2, <3>1
              DEF Destroys, DeleteFileForever, Trashed, HasRow, IsOwner, OwnsFile
    <2>3. CASE ~AbortUpload(u, f) /\ ~DeleteFile(u, f)
      BY <1>1, <2>3
      DEF FileStep, InitializeFile, MoveFile, RestoreFile, AcceptFile, RejectFile, RevokeFile,
          ShareFile, PropagateFile, fileVars
    <2> QED BY <2>1, <2>2, <2>3
  <1>2. ASSUME NEW u \in User, NEW d \in Folder, FolderStep(u, d)
        PROVE  files' = files
    BY <1>2
    DEF FolderStep, CreateFolder, CreateFolderFails, MoveFolder, DeleteFolder, TrashFolder,
        LeaveFolder, RestoreFolder, AcceptFolder, RejectFolder, RevokeFolder,
        ShareFolderBatch, PropagateFolder, fileVars
  <1>3. ASSUME NEW u \in User, EmptyTrash(u), NEW g \in files \ files'
        PROVE  Destroys(u, g)
    <2>1. g \in DoomedFiles(u)
      BY <1>3 DEF EmptyTrash, RemoveFiles
    <2> QED BY <1>3, <2>1 DEF DoomedFiles, Destroys, Trashed, HasRow, IsOwner, OwnsFile
  <1>4. Next => \A f \in files \ files' : \E u \in User : Destroys(u, f)
    BY <1>1, <1>2, <1>3 DEF Next, Step
  <1>5. [Next]_vars => [\A f \in files \ files' : \E u \in User :
            \/ AbortUpload(u, f) /\ SoleHolder(u, f)
            \/ /\ DeleteFile(u, f) \/ EmptyTrash(u)
               /\ OwnsFile(u, f)
               /\ Trashed(fileAccess[u][f])]_vars
    BY <1>4 DEF Destroys
  <1> QED BY <1>5, PTL DEF Spec, FilesEndInTrash
==============================================================================
