------------------------------ MODULE FolderMove ------------------------------
(***************************************************************************)
(* move_folder of src/drive/repo.rs statement by statement.  Its checks    *)
(* and its UPDATE run one after the other on the connection pool, in no    *)
(* transaction, so other requests act between them.  One user owns every   *)
(* folder; what depends on several users is in Drive.                      *)
(***************************************************************************)
EXTENDS FiniteSets

CONSTANTS
    Folder,    \* slots for folder ids
    NULL,      \* the root
    Request    \* move requests that the server may handle at the same time

ASSUME NullAssumption == NULL \notin Folder

VARIABLES
    folders,   \* ids of the rows of folders
    parent,    \* folders.parent_folder_id
    trashed,   \* folders whose row of the owner has is_deleted
    pc,      \* pc[r]: the statement that request r runs next, or "idle"
    src,       \* src[r]: the folder that r moves
    dst        \* dst[r]: the parent that r asks for

reqVars == <<pc, src, dst>>
vars == <<folders, parent, trashed, pc, src, dst>>

Statement == {"idle", "access", "target", "cycle", "update"}

Init ==
    /\ folders = {}
    /\ parent = [d \in Folder |-> NULL]
    /\ trashed = {}
    /\ pc = [r \in Request |-> "idle"]
    /\ src = [r \in Request |-> NULL]
    /\ dst = [r \in Request |-> NULL]

-----------------------------------------------------------------------------
(* The folders below and above d, and d itself. *)
Tree(d) ==
    {e \in folders : \A S \in SUBSET folders :
        (d \in S /\ \A x \in folders : parent[x] \in S => x \in S) => e \in S}

Ancestors(d) == {e \in folders : d \in Tree(e)}

(* The recursive query over the folders below d keeps duplicates (UNION    *)
(* ALL): it returns unless some of these folders form a cycle.             *)
RecursionEnds(d) ==
    \A S \in SUBSET Tree(d) : S # {} => \E x \in S : parent[x] \notin S

-----------------------------------------------------------------------------
(* A move request.                                                         *)

Submit(r, d, p) ==
    /\ pc[r] = "idle"
    /\ pc' = [pc EXCEPT ![r] = "access"]
    /\ src' = [src EXCEPT ![r] = d]
    /\ dst' = [dst EXCEPT ![r] = p]
    /\ UNCHANGED <<folders, parent, trashed>>

(* r goes on to statement s, or it returns (an error or its result).  *)
GoTo(r, s) ==
    /\ pc' = [pc EXCEPT ![r] = s]
    /\ src' = [src EXCEPT ![r] = IF s = "idle" THEN NULL ELSE src[r]]
    /\ dst' = [dst EXCEPT ![r] = IF s = "idle" THEN NULL ELSE dst[r]]

CheckAccess(r) ==
    /\ pc[r] = "access"
    /\ GoTo(r, IF src[r] \notin folders THEN "idle"
               ELSE IF dst[r] = NULL THEN "update" ELSE "target")
    /\ UNCHANGED <<folders, parent, trashed>>

CheckTarget(r) ==
    /\ pc[r] = "target"
    /\ GoTo(r, IF dst[r] \in folders \ trashed THEN "cycle" ELSE "idle")
    /\ UNCHANGED <<folders, parent, trashed>>

WouldCreateCycle_SelfOnly(r) == dst[r] = src[r]

WouldCreateCycle(r) == src[r] \in folders /\ dst[r] \in Tree(src[r])

CheckCycle(r) ==
    /\ pc[r] = "cycle"
    /\ src[r] \in folders => RecursionEnds(src[r])
    /\ GoTo(r, IF WouldCreateCycle(r) THEN "idle" ELSE "update")
    /\ UNCHANGED <<folders, parent, trashed>>

(* The foreign key makes the UPDATE fail when the target is gone; when the *)
(* folder itself is gone, it updates no row.                               *)
Update(r) ==
    /\ pc[r] = "update"
    /\ parent' = IF src[r] \in folders /\ dst[r] \in folders \cup {NULL}
                 THEN [parent EXCEPT ![src[r]] = dst[r]] ELSE parent
    /\ GoTo(r, "idle")
    /\ UNCHANGED <<folders, trashed>>

Serve(r) == CheckAccess(r) \/ CheckTarget(r) \/ CheckCycle(r) \/ Update(r)

-----------------------------------------------------------------------------
(* Other requests of the same user, each one step.                         *)

(* A new UUID is not one that a pending request names. *)
CreateFolder(d, p) ==
    /\ d \notin folders
    /\ \A r \in Request : d \notin {src[r], dst[r]}
    /\ folders' = folders \cup {d}
    /\ parent' = [parent EXCEPT ![d] = p]
    /\ UNCHANGED <<trashed, reqVars>>

DeleteFolder(d) ==
    /\ d \in folders
    /\ trashed' = trashed \cup Tree(d)
    /\ UNCHANGED <<folders, parent, reqVars>>

RestoreFolder(d) ==
    /\ d \in trashed
    /\ trashed' = trashed \ (Tree(d) \cup Ancestors(d))
    /\ UNCHANGED <<folders, parent, reqVars>>

Doomed == UNION {Tree(d) : d \in trashed}

EmptyTrash_KeepsRows ==
    /\ folders' = folders \ Doomed
    /\ parent' = [d \in Folder |-> IF d \in Doomed THEN NULL ELSE parent[d]]
    /\ UNCHANGED <<trashed, reqVars>>

EmptyTrash ==
    /\ folders' = folders \ Doomed
    /\ parent' = [d \in Folder |-> IF d \in Doomed THEN NULL ELSE parent[d]]
    /\ trashed' = {}
    /\ UNCHANGED reqVars

-----------------------------------------------------------------------------
Next ==
    \/ \E r \in Request : Serve(r)
    \/ \E r \in Request, d \in folders, p \in folders \cup {NULL} : Submit(r, d, p)
    \/ \E d \in Folder, p \in folders \cup {NULL} : CreateFolder(d, p)
    \/ \E d \in Folder : DeleteFolder(d) \/ RestoreFolder(d)
    \/ EmptyTrash

(* The server goes on with a request it has begun: the runtime polls its   *)
(* task and the database answers.  No client has to do anything.           *)
Fairness == \A r \in Request : WF_vars(Serve(r))

Spec == Init /\ [][Next]_vars /\ Fairness

-----------------------------------------------------------------------------
(* Properties.                                                             *)

(* The types of the tables and of the requests in flight. *)
TypeOK ==
    /\ folders \subseteq Folder
    /\ parent \in [Folder -> Folder \cup {NULL}]
    /\ trashed \subseteq folders
    /\ pc \in [Request -> Statement]
    /\ src \in [Request -> Folder \cup {NULL}]
    /\ dst \in [Request -> Folder \cup {NULL}]

(* As long as one move runs at a time, the checks and the UPDATE of        *)
(* move_folder amount to one step of FolderForest, whatever the other      *)
(* requests create, trash, restore and remove between them.                *)
Abstract == INSTANCE FolderForest WITH
    Folder <- Folder, NULL <- NULL, folders <- folders, parent <- parent
ImplementsForest == Abstract!Spec

(* A move that was begun returns: no recursive query runs for ever.        *)
MovesReturn == \A r \in Request : pc[r] # "idle" ~> pc[r] = "idle"

(* docs/API_DOCUMENTATION.md of PATCH /drive/folders/{id}/move: it         *)
(* prevents circular moves.                                                *)
NoCycle == Abstract!Forest
==============================================================================
