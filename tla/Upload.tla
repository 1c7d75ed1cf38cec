-------------------------------- MODULE Upload --------------------------------
(***************************************************************************)
(* Chunks: the rows of s3_keys, the objects in S3, the requests that write *)
(* them (upload_chunk_restful_handler) and the transactions that destroy   *)
(* them (abort_file_upload, delete_file on a trashed file,                 *)
(* empty_corbeille).  Every await of these handlers is a step, because S3  *)
(* and the database share no transaction.                                  *)
(*                                                                         *)
(* One user holds every file; who else may hold one is in Drive.  A chunk  *)
(* is the key of its object: the bytes do not matter here.                 *)
(***************************************************************************)
EXTENDS Naturals, FiniteSets

CONSTANTS
    File,         \* slots for file ids
    Index,        \* the chunk indexes of a file
    Key,          \* slots for S3 keys; upload_line draws a new UUID per call
    Request,      \* upload requests that may be under way at the same time
    Purge,        \* destroying requests that may be under way at the same time
    Permits,      \* permits of upload_semaphore
    MaxAttempts,  \* MAX_RETRIES of upload_line
    Faults,       \* which of AllFaults may happen
    NULL

(* "put", "delete": S3 answers with an error, whether or not it has done   *)
(* what it was asked to.  "cancel": the task of a request is dropped (its  *)
(* client disconnects, or the server restarts and drops all of them), or   *)
(* its answer is lost.                                                     *)
AllFaults == {"put", "delete", "cancel"}

ASSUME FaultAssumption == Faults \subseteq AllFaults
ASSUME BoundAssumption == Permits \in Nat \ {0} /\ MaxAttempts \in Nat \ {0}
ASSUME RequestAssumption == IsFiniteSet(Request)
ASSUME NullAssumption == NULL \notin File \cup Index \cup Key

VARIABLES
    files,     \* ids of the rows of files
    trashed,   \* the files whose row in file_access is is_deleted
    uploaded,  \* the files that are is_fully_uploaded
    chunks,    \* rows of s3_keys
    objects,   \* keys of the objects in the bucket
    permits,   \* free permits of upload_semaphore
    up,        \* up[r]: where upload request r is
    purge,     \* purge[p]: where destroying request p is
    acked,     \* acked[f]: the chunks of f whose upload the client saw succeed
    purged     \* history: the files some of whose objects were asked away

dbVars == <<files, trashed, uploaded, chunks>>
vars == <<files, trashed, uploaded, chunks, objects, permits, up, purge, acked, purged>>

NoUpload == [pc |-> "idle", file |-> NULL, index |-> NULL, key |-> NULL, tries |-> 0]

(* todo: the files still to come.  file: the one it is at.  seen, keys:    *)
(* the S3 keys it has selected, and those it still has to delete.  locked: *)
(* the files whose file_access rows it selected FOR UPDATE.  cleared: the  *)
(* files whose rows of s3_keys it has deleted, and removed: those whose    *)
(* rows of file_access and files it has deleted, not yet committed.        *)
NoPurge == [pc |-> "idle", todo |-> {}, file |-> NULL, seen |-> {}, keys |-> {},
            locked |-> {}, cleared |-> {}, removed |-> {}]

Init ==
    /\ files = {} /\ trashed = {} /\ uploaded = {} /\ chunks = {}
    /\ objects = {}
    /\ permits = Permits
    /\ up = [r \in Request |-> NoUpload]
    /\ purge = [p \in Purge |-> NoPurge]
    /\ acked = [f \in File |-> {}]
    /\ purged = {}

-----------------------------------------------------------------------------
Recorded == {c.key : c \in chunks}

(* Keys that a row or an upload mentions. *)
Accounted == Recorded \cup {up[r].key : r \in Request}

Fresh(k) == k \notin objects \cup Accounted \cup UNION {purge[p].seen : p \in Purge}

(* Rows of f in file_access, and in files, that a transaction has locked.  *)
AccessLocked(f) == \E p \in Purge : f \in purge[p].locked \cup purge[p].removed
FileLocked(f) == \E p \in Purge : f \in purge[p].removed

-----------------------------------------------------------------------------
(* Requests that are one statement, or one transaction.                    *)

(* A new UUID is not one that a request under way names. *)
Initialize(f) ==
    /\ f \notin files
    /\ \A r \in Request : up[r].file # f
    /\ \A p \in Purge : f \notin purge[p].todo \cup {purge[p].file}
                             \cup purge[p].cleared \cup purge[p].removed
    /\ files' = files \cup {f}
    /\ UNCHANGED <<trashed, uploaded, chunks, objects, permits, up, purge, acked, purged>>

(* The handler checks the owner and nothing else.  A client finalizes once *)
(* it has seen every chunk succeed.                                        *)
Finalize(f) ==
    /\ f \in files /\ ~FileLocked(f)
    /\ acked[f] = Index
    /\ uploaded' = uploaded \cup {f}
    /\ UNCHANGED <<files, trashed, chunks, objects, permits, up, purge, acked, purged>>

TrashFile(f) ==
    /\ f \in files \ trashed /\ ~AccessLocked(f)
    /\ trashed' = trashed \cup {f}
    /\ UNCHANGED <<files, uploaded, chunks, objects, permits, up, purge, acked, purged>>

RestoreFile(f) ==
    /\ f \in trashed /\ ~AccessLocked(f)
    /\ trashed' = trashed \ {f}
    /\ UNCHANGED <<files, uploaded, chunks, objects, permits, up, purge, acked, purged>>

-----------------------------------------------------------------------------
(* Uploading a chunk.                                                      *)

(* try_acquire: without a permit the request is refused on the spot.  The  *)
(* client sends a chunk until it sees it succeed.                          *)
BeginUpload(r, f, i, k) ==
    /\ up[r].pc = "idle"
    /\ f \in files /\ i \notin acked[f]
    /\ Fresh(k)
    /\ permits > 0
    /\ permits' = permits - 1
    /\ up' = [up EXCEPT ![r] =
           [pc |-> "access", file |-> f, index |-> i, key |-> k, tries |-> 0]]
    /\ UNCHANGED <<dbVars, objects, purge, acked, purged>>

(* The request returns, and with it the permit it holds. *)
Return(r) ==
    /\ up' = [up EXCEPT ![r] = NoUpload]
    /\ permits' = permits + 1

CheckOwner(r) ==
    /\ up[r].pc = "access"
    /\ up[r].file \in files
    /\ up' = [up EXCEPT ![r].pc = "body"]
    /\ UNCHANGED <<dbVars, objects, permits, purge, acked, purged>>

(* The file is gone, or the quota is used up. *)
Refuse(r) ==
    /\ up[r].pc = "access"
    /\ Return(r)
    /\ UNCHANGED <<dbVars, objects, purge, acked, purged>>

(* The permit is held while the client sends the body, which it may do at  *)
(* any pace: neither the handler nor the server has a timeout.             *)
ReceiveBody(r) ==
    /\ up[r].pc = "body"
    /\ up' = [up EXCEPT ![r].pc = "put"]
    /\ UNCHANGED <<dbVars, objects, permits, purge, acked, purged>>

(* The body breaks off, does not parse, or does not fit the quota. *)
RejectBody(r) ==
    /\ up[r].pc = "body"
    /\ Return(r)
    /\ UNCHANGED <<dbVars, objects, purge, acked, purged>>

Put(r) ==
    /\ up[r].pc = "put"
    /\ objects' = objects \cup {up[r].key}
    /\ up' = [up EXCEPT ![r].pc = "save"]
    /\ UNCHANGED <<dbVars, permits, purge, acked, purged>>

(* S3 may have stored an object although it answered with an error. *)
MaybePut(r) == objects' \in {objects, objects \cup {up[r].key}}

GiveUp_Saves(r) ==
    up' = [up EXCEPT ![r].pc = "save"] /\ UNCHANGED permits

GiveUp_KeepsPermit(r) ==
    up' = [up EXCEPT ![r] = NoUpload] /\ UNCHANGED permits

GiveUp(r) == Return(r)

(* The same key is tried again, until the attempts are used up.            *)
PutFails(r) ==
    /\ "put" \in Faults
    /\ up[r].pc = "put"
    /\ MaybePut(r)
    /\ \/ /\ up[r].tries + 1 < MaxAttempts
          /\ up' = [up EXCEPT ![r].tries = @ + 1]
          /\ UNCHANGED permits
       \/ /\ up[r].tries + 1 = MaxAttempts
          /\ GiveUp(r)
    /\ UNCHANGED <<dbVars, purge, acked, purged>>

(* save_chunk_metadata.  The foreign key makes the INSERT wait for a       *)
(* transaction that has deleted the file, and fail once the file is gone.  *)
Save(r) ==
    LET u == up[r] IN
    /\ u.pc = "save"
    /\ ~FileLocked(u.file)
    /\ \/ /\ u.file \in files
          /\ chunks' = chunks \cup {[file |-> u.file, index |-> u.index, key |-> u.key]}
          /\ \/ acked' = [acked EXCEPT ![u.file] = @ \cup {u.index}]
             \/ "cancel" \in Faults /\ UNCHANGED acked
       \/ /\ u.file \notin files
          /\ UNCHANGED <<chunks, acked>>
    /\ Return(r)
    /\ UNCHANGED <<files, trashed, uploaded, objects, purge, purged>>

(* A PUT that was under way may still reach S3. *)
Cancel(r) ==
    /\ "cancel" \in Faults
    /\ up[r].pc # "idle"
    /\ IF up[r].pc = "put" THEN MaybePut(r) ELSE UNCHANGED objects
    /\ Return(r)
    /\ UNCHANGED <<dbVars, purge, acked, purged>>

Serve(r) == CheckOwner(r) \/ Refuse(r) \/ Put(r) \/ PutFails(r) \/ Save(r)

-----------------------------------------------------------------------------
(* Destroying files, each request in one transaction.                      *)

Begin(p, todo, locked) ==
    /\ purge[p].pc = "idle"
    /\ purge' = [purge EXCEPT ![p] =
           [NoPurge EXCEPT !.pc = "select", !.todo = todo, !.locked = locked]]
    /\ UNCHANGED <<dbVars, objects, permits, up, acked, purged>>

AbortUpload(p, f) == f \in files /\ ~AccessLocked(f) /\ Begin(p, {f}, {f})

DeleteForever(p, f) == f \in trashed /\ ~AccessLocked(f) /\ Begin(p, {f}, {f})

(* The rows of the trash are read without a lock, and in no certain order. *)
EmptyTrash(p) == trashed # {} /\ Begin(p, trashed, {})

KeysOf_All(f) == Recorded

KeysOf(f) == {c.key : c \in {x \in chunks : x.file = f}}

SelectKeys(p) ==
    /\ purge[p].pc = "select"
    /\ \E f \in purge[p].todo :
          purge' = [purge EXCEPT ![p].pc = "objects", ![p].file = f, ![p].todo = @ \ {f},
                                 ![p].keys = KeysOf(f), ![p].seen = @ \cup KeysOf(f)]
    /\ UNCHANGED <<dbVars, objects, permits, up, acked, purged>>

DeleteObject(p) ==
    /\ purge[p].pc = "objects"
    /\ \E k \in purge[p].keys :
          /\ objects' = objects \ {k}
          /\ purge' = [purge EXCEPT ![p].keys = @ \ {k}]
    /\ purged' = purged \cup ({purge[p].file} \cap files)
    /\ UNCHANGED <<dbVars, permits, up, acked>>

DeleteFails_Ignored(p) ==
    /\ "delete" \in Faults
    /\ purge[p].pc = "objects"
    /\ \E k \in purge[p].keys : purge' = [purge EXCEPT ![p].keys = @ \ {k}]
    /\ purged' = purged \cup ({purge[p].file} \cap files)
    /\ UNCHANGED <<dbVars, objects, permits, up, acked>>

(* Tries the file again, and again. *)
DeleteFails_Retries(p) ==
    /\ "delete" \in Faults
    /\ purge[p].pc = "objects"
    /\ \E k \in purge[p].keys : objects' \in {objects, objects \ {k}}
    /\ purge' = [purge EXCEPT ![p].pc = "select", ![p].todo = @ \cup {purge[p].file}]
    /\ purged' = purged \cup ({purge[p].file} \cap files)
    /\ UNCHANGED <<dbVars, permits, up, acked>>

(* One object that cannot be deleted rolls the transaction back; the       *)
(* objects deleted before it stay deleted.                                 *)
DeleteFails(p) ==
    /\ "delete" \in Faults
    /\ purge[p].pc = "objects"
    /\ \E k \in purge[p].keys : objects' \in {objects, objects \ {k}}
    /\ purge' = [purge EXCEPT ![p] = NoPurge]
    /\ purged' = purged \cup ({purge[p].file} \cap files)
    /\ UNCHANGED <<dbVars, permits, up, acked>>

(* p wants rows that q has locked: those of s3_keys that q has deleted, or *)
(* those of file_access that q has deleted or selected FOR UPDATE.         *)
WaitsFor(p, q) ==
    LET f == purge[p].file IN
    /\ p # q
    /\ \/ purge[p].pc = "objects" /\ purge[p].keys = {} /\ f \in purge[q].cleared
       \/ purge[p].pc = "rows" /\ f \in purge[q].locked \cup purge[q].removed

Waits(p) == \E q \in Purge : WaitsFor(p, q)

(* DELETE FROM s3_keys.  A DELETE that finds no row locks none.            *)
RemoveChunks(p) ==
    /\ purge[p].pc = "objects" /\ purge[p].keys = {} /\ ~Waits(p)
    /\ purge' = [purge EXCEPT ![p].pc = "rows",
                     ![p].cleared = @ \cup ({purge[p].file} \cap {c.file : c \in chunks})]
    /\ UNCHANGED <<dbVars, objects, permits, up, acked, purged>>

(* DELETE FROM file_access, and FROM files. *)
RemoveRows(p) ==
    /\ purge[p].pc = "rows" /\ ~Waits(p)
    /\ purge' = [purge EXCEPT ![p].pc = IF purge[p].todo = {} THEN "commit" ELSE "select",
                              ![p].removed = @ \cup ({purge[p].file} \cap files)]
    /\ UNCHANGED <<dbVars, objects, permits, up, acked, purged>>

(* PostgreSQL finds transactions that wait for each other, and rolls one   *)
(* of them back; its request ends with an error.                           *)
Deadlocked(p) ==
    \E D \in SUBSET Purge : p \in D /\ \A q \in D : \E o \in D : WaitsFor(q, o)

BreakDeadlock(p) ==
    /\ Deadlocked(p)
    /\ purge' = [purge EXCEPT ![p] = NoPurge]
    /\ UNCHANGED <<dbVars, objects, permits, up, acked, purged>>

ChunksWithout_NoCascade(F) == chunks

ChunksWithout(F) == {c \in chunks : c.file \notin F}

Commit(p) ==
    LET F == purge[p].removed IN
    /\ purge[p].pc = "commit"
    /\ files' = files \ F
    /\ trashed' = trashed \ F
    /\ uploaded' = uploaded \ F
    /\ chunks' = ChunksWithout(F)
    /\ acked' = [f \in File |-> IF f \in F THEN {} ELSE acked[f]]
    /\ purged' = purged \ F
    /\ purge' = [purge EXCEPT ![p] = NoPurge]
    /\ UNCHANGED <<objects, permits, up>>

CancelPurge(p) ==
    /\ "cancel" \in Faults
    /\ purge[p].pc # "idle"
    /\ purge' = [purge EXCEPT ![p] = NoPurge]
    /\ UNCHANGED <<dbVars, objects, permits, up, acked, purged>>

Destroy(p) ==
    \/ SelectKeys(p) \/ DeleteObject(p) \/ DeleteFails(p)
    \/ RemoveChunks(p) \/ RemoveRows(p) \/ Commit(p)
    \/ BreakDeadlock(p)

-----------------------------------------------------------------------------
Next ==
    \/ \E f \in File : Initialize(f) \/ Finalize(f) \/ TrashFile(f) \/ RestoreFile(f)
    \/ \E r \in Request, f \in File, i \in Index, k \in Key : BeginUpload(r, f, i, k)
    \/ \E r \in Request : Serve(r) \/ ReceiveBody(r) \/ RejectBody(r) \/ Cancel(r)
    \/ \E p \in Purge, f \in File : AbortUpload(p, f) \/ DeleteForever(p, f)
    \/ \E p \in Purge : EmptyTrash(p) \/ Destroy(p) \/ CancelPurge(p)

(* The server goes on with what it has begun; retries are bounded and S3   *)
(* and the database answer.  A statement that waits for a lock is queued   *)
(* and gets it in turn, whoever else comes for it, or a deadlock is broken *)
(* (deadlock_timeout): hence strong fairness.  No client has to do         *)
(* anything, not even to send the body of the request it began.            *)
Fairness ==
    /\ \A r \in Request : SF_vars(Serve(r))
    /\ \A p \in Purge : SF_vars(Destroy(p))

Spec == Init /\ [][Next]_vars /\ Fairness

-----------------------------------------------------------------------------
(* Properties.                                                             *)

(* The tables keep their types, and s3_keys its foreign key. *)
TypeOK ==
    /\ files \subseteq File
    /\ trashed \subseteq files
    /\ uploaded \subseteq files
    /\ purged \subseteq files
    /\ chunks \subseteq [file : files, index : Index, key : Key]
    /\ objects \subseteq Key
    /\ permits \in 0 .. Permits
    /\ up \in [Request -> [pc : {"idle", "access", "body", "put", "save"},
                           file : File \cup {NULL}, index : Index \cup {NULL},
                           key : Key \cup {NULL}, tries : 0 .. (MaxAttempts - 1)]]
    /\ purge \in [Purge -> [pc : {"idle", "select", "objects", "rows", "commit"},
                            todo : SUBSET File, file : File \cup {NULL},
                            seen : SUBSET Key, keys : SUBSET Key,
                            locked : SUBSET File, cleared : SUBSET File,
                            removed : SUBSET File]]
    /\ acked \in [File -> SUBSET Index]

Stored(f, i) == \E c \in chunks : c.file = f /\ c.index = i /\ c.key \in objects

(* A file that its client finalized after every chunk was acknowledged has *)
(* each of its chunks recorded and stored, whatever failed and was retried *)
(* on the way, until someone asks to destroy it.                           *)
FinalizedIsComplete == \A f \in uploaded \ purged, i \in Index : Stored(f, i)

(* A recorded chunk has its object.  When the deletion of a file fails     *)
(* half-way that is no longer so, and the file can still be restored: this *)
(* is the one exception.                                                   *)
RecordedIsStored == \A c \in chunks : c.key \in objects \/ c.file \in purged

(* An object is left behind in the bucket, with no row that names it, only *)
(* when the upload that wrote it did not succeed, or when its file was     *)
(* destroyed by a request that had read the file's keys before this chunk  *)
(* was recorded.                                                           *)
OrphansOnlyByFailureOrRace ==
    [][\A k \in objects' \cap (Accounted \ Accounted') :
          \/ \E r \in Request : up[r].key = k /\ up'[r] = NoUpload
          \/ \E p \in Purge, c \in chunks :
                 Commit(p) /\ c.key = k /\ c.file \in purge[p].removed /\ k \notin purge[p].seen]_vars

(* The server itself does not stay busy: whatever becomes of the uploads   *)
(* that hold the permits, one is free again and again.  What can keep all  *)
(* of them taken is clients: one that stalls in the body of its request    *)
(* keeps its permit for good.                                              *)
PermitsComeBack ==
    []<>(permits > 0) \/ \E r \in Request : <>[](up[r].pc = "body")

(* A request that destroys files ends, although it waits for the locks of  *)
(* others, who may wait for its own, and S3 may fail it at any object.     *)
DestroysEnd == \A p \in Purge : purge[p].pc # "idle" ~> purge[p].pc = "idle"

(* docs/API_DOCUMENTATION.md: empty_trash hard-deletes what is             *)
(* soft-deleted.  A file that is not in the trash any more stays.          *)
EmptyTrashTakesTrash ==
    [][\A p \in Purge :
          purge[p].locked = {} /\ Commit(p) => purge[p].removed \cap files \subseteq trashed]_vars
==============================================================================
