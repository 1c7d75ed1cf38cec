---------------------------- MODULE DownloadProofs ----------------------------
(***************************************************************************)
(* A theorem about Download for any files, keys and any number of          *)
(* downloads, from the invariant of UploadProofs: a chunk whose access was *)
(* granted is in the bucket, unless its file was to be destroyed.          *)
(***************************************************************************)
EXTENDS Download, UploadProofs

Wanted(c) == down[c].keys \cup ({down[c].key} \ {NULL})

(* What a download has read of s3_keys is still there while its file is.   *)
DownloadsOK ==
    \A c \in Reader :
        /\ down[c].pc = "get" => down[c].key # NULL
        /\ \A k \in Wanted(c) :
              down[c].file \in files => \E x \in chunks : x.file = down[c].file /\ x.key = k

DownloadType ==
    [pc : {"idle", "list", "chunks", "get"},
     file : File \cup {NULL}, keys : SUBSET Key, key : Key \cup {NULL}]

DownTypeOK == down \in [Reader -> DownloadType]

DInv == IInv /\ DownTypeOK /\ DownloadsOK

-----------------------------------------------------------------------------
(* A row of s3_keys goes only together with the row of its file. *)
LEMMA RowsStay ==
    ASSUME Next
    PROVE  \A x \in chunks : x \in chunks' \/ x.file \notin files'
  <1>1. CASE \E f \in File : Initialize(f) \/ Finalize(f) \/ TrashFile(f) \/ RestoreFile(f)
    BY <1>1 DEF Initialize, Finalize, TrashFile, RestoreFile
  <1>2. CASE \E r \in Request, f \in File, i \in Index, k \in Key : BeginUpload(r, f, i, k)
    BY <1>2 DEF BeginUpload, dbVars
  <1>3. CASE \E r \in Request : Serve(r) \/ ReceiveBody(r) \/ RejectBody(r) \/ Cancel(r)
    BY <1>3
    DEF Serve, CheckOwner, Refuse, ReceiveBody, RejectBody, Put, PutFails, Save, Cancel, dbVars
  <1>4. CASE \E p \in Purge, f \in File : AbortUpload(p, f) \/ DeleteForever(p, f)
    BY <1>4 DEF AbortUpload, DeleteForever, Begin, dbVars
  <1>5. CASE \E p \in Purge : Commit(p)
    BY <1>5 DEF Commit, ChunksWithout
  <1>6. CASE \E p \in Purge : \/ EmptyTrash(p) \/ CancelPurge(p) \/ SelectKeys(p)
                             \/ DeleteObject(p) \/ DeleteFails(p) \/ RemoveChunks(p)
                             \/ RemoveRows(p) \/ BreakDeadlock(p)
    BY <1>6
    DEF EmptyTrash, Begin, CancelPurge, SelectKeys, DeleteObject, DeleteFails, RemoveChunks,
        RemoveRows, BreakDeadlock, dbVars
  <1> QED BY <1>1, <1>2, <1>3, <1>4, <1>5, <1>6 DEF Next, Destroy

(* The other requests take nothing from a download. *)
LEMMA NextKeepsDownloads ==
    ASSUME DInv, Next, FreshForReaders, UNCHANGED down
    PROVE  DInv'
  <1>1. IInv'
    BY NextIInv DEF DInv
  <1>2. DownloadsOK'
    <2> SUFFICES ASSUME NEW c \in Reader, NEW k \in Wanted(c), down[c].file \in files'
                 PROVE  \E x \in chunks' : x.file = down[c].file /\ x.key = k
      BY DEF DInv, DownloadsOK, Wanted
    <2>1. down[c].file \in files
      BY DEF FreshForReaders
    <2>2. PICK x \in chunks : x.file = down[c].file /\ x.key = k
      BY <2>1 DEF DInv, DownloadsOK
    <2> QED BY <2>2, RowsStay
  <1> QED BY <1>1, <1>2 DEF DInv, DownTypeOK

(* A step of a download asks for no more than the rows it has read. *)
LEMMA ReadKeepsDownloads ==
    ASSUME DInv, NEW c \in Reader, Read(c)
    PROVE  DInv'
  <1>1. UNCHANGED vars
    BY DEF Read, FindFile, ListChunks, AskChunk, Denied, GetObject, NoSuchKey, Leave, Stop
  <1>2. IInv'
    BY <1>1
    DEF DInv, vars, IInv, TypeOK, PermitsOK, InFlight, UploadsOK, Recorded, PurgesOK, ChunksOK,
        RecordedIsStored
  <1>3. KeysOf(down[c].file) \subseteq Key
    BY DEF DInv, IInv, TypeOK, KeysOf
  <1>4. DownTypeOK'
    <2>1. down \in [Reader -> DownloadType]
      BY DEF DInv, DownTypeOK
    <2>2. NoDownload \in DownloadType
      BY DEF NoDownload, DownloadType
    <2>3. CASE \E f \in File : FindFile(c, f)
      <3>1. PICK f \in File : FindFile(c, f)
        BY <2>3
      <3>2. [NoDownload EXCEPT !.pc = "list", !.file = f] \in DownloadType
        BY DEF NoDownload, DownloadType
      <3> QED BY <2>1, <3>1, <3>2 DEF FindFile, DownTypeOK
    <2>4. CASE ListChunks(c)
      BY <1>3, <2>1, <2>4 DEF ListChunks, DownTypeOK, DownloadType
    <2>5. CASE AskChunk(c)
      <3>1. PICK k \in down[c].keys : down' = [down EXCEPT ![c].pc = "get", ![c].key = k]
        BY <2>5 DEF AskChunk
      <3>2. down[c] \in DownloadType /\ k \in Key
        BY <2>1 DEF DownloadType
      <3>3. [down[c] EXCEPT !.pc = "get", !.key = k] \in DownloadType
        BY <3>2 DEF DownloadType
      <3>4. down' = [down EXCEPT ![c] = [down[c] EXCEPT !.pc = "get", !.key = k]]
        BY <2>1, <3>1 DEF DownloadType
      <3> QED BY <2>1, <3>3, <3>4 DEF DownTypeOK
    <2>6. CASE GetObject(c)
      <3>1. down[c] \in DownloadType
        BY <2>1
      <3>2. [down[c] EXCEPT !.pc = "chunks", !.keys = @ \ {down[c].key}, !.key = NULL]
              \in DownloadType
        BY <3>1 DEF DownloadType
      <3>3. down' = [down EXCEPT ![c] =
                        [down[c] EXCEPT !.pc = "chunks", !.keys = @ \ {down[c].key}, !.key = NULL]]
        BY <2>1, <2>6 DEF GetObject, DownloadType
      <3> QED BY <2>1, <3>2, <3>3 DEF DownTypeOK
    <2>7. CASE Denied(c) \/ NoSuchKey(c) \/ Leave(c)
      BY <2>1, <2>2, <2>7 DEF Denied, NoSuchKey, Leave, Stop, DownTypeOK
    <2> QED BY <2>3, <2>4, <2>5, <2>6, <2>7 DEF Read
  <1>5. \A d \in Reader \ {c} : down'[d] = down[d]
    BY DEF DInv, DownTypeOK, Read, FindFile, ListChunks, AskChunk, Denied, GetObject,
           NoSuchKey, Leave, Stop
  <1>6. /\ down'[c].pc = "get" => down'[c].key # NULL
        /\ \A k \in Wanted(c)' : /\ down'[c].file = down[c].file
                                 /\ k \in Wanted(c) \cup KeysOf(down[c].file)
    <2>1. CASE (\E f \in File : FindFile(c, f)) \/ Denied(c) \/ NoSuchKey(c) \/ Leave(c)
      <3>1. /\ down'[c].keys = {} /\ down'[c].key = NULL
            /\ down'[c].pc \in {"idle", "list"}
        <4>1. CASE \E f \in File : FindFile(c, f)
          BY <4>1 DEF DInv, DownTypeOK, FindFile, NoDownload
        <4>2. CASE Denied(c) \/ NoSuchKey(c) \/ Leave(c)
          BY <4>2 DEF DInv, DownTypeOK, Denied, NoSuchKey, Leave, Stop, NoDownload
        <4> QED BY <2>1, <4>1, <4>2
      <3> QED BY <3>1 DEF Wanted
    <2>2. CASE ListChunks(c)
      BY <2>2 DEF DInv, DownTypeOK, DownloadType, ListChunks, Wanted
    <2>3. CASE AskChunk(c)
      BY <2>3, NullAssumption DEF DInv, DownTypeOK, DownloadType, AskChunk, Wanted
    <2>4. CASE GetObject(c)
      BY <2>4 DEF DInv, DownTypeOK, DownloadType, GetObject, Wanted
    <2> QED BY <2>1, <2>2, <2>3, <2>4 DEF Read
  <1>7. DownloadsOK'
    <2>1. ASSUME NEW k \in Wanted(c)', down'[c].file \in files'
          PROVE  \E x \in chunks' : x.file = down'[c].file /\ x.key = k
      BY <1>1, <1>6, <2>1 DEF DInv, DownloadsOK, KeysOf, vars
    <2>2. ASSUME NEW d \in Reader \ {c}
          PROVE  /\ down'[d].pc = "get" => down'[d].key # NULL
                 /\ \A k \in Wanted(d)' :
                       down'[d].file \in files'
                          => \E x \in chunks' : x.file = down'[d].file /\ x.key = k
      BY <1>1, <1>5 DEF DInv, DownloadsOK, Wanted, vars
    <2> QED BY <1>6, <2>1, <2>2 DEF DownloadsOK
  <1> QED BY <1>2, <1>4, <1>7 DEF DInv

LEMMA DownloadInductive == DownloadSpec => []DInv
  <1>1. DownloadInit => DInv
    BY InitIInv DEF DownloadInit, DInv, DownTypeOK, DownloadType, DownloadsOK, Wanted, NoDownload
  <1>2. DInv /\ [DownloadNext]_downVars => DInv'
    <2>1. ASSUME DInv, UNCHANGED downVars PROVE DInv'
      BY <2>1
      DEF DInv, downVars, vars, IInv, TypeOK, PermitsOK, InFlight, UploadsOK, Recorded, PurgesOK,
          ChunksOK, RecordedIsStored, DownTypeOK, DownloadsOK, Wanted
    <2> QED BY <2>1, NextKeepsDownloads, ReadKeepsDownloads DEF DownloadNext
  <1> QED BY <1>1, <1>2, PTL DEF DownloadSpec

-----------------------------------------------------------------------------
(* When download_line finds no object for a chunk that was granted, its    *)
(* file is gone or was to be destroyed.                                    *)
THEOREM GrantedChunksAreThere == DownloadSpec => GrantedChunksAreFound
  <1> DEFINE Found == \A c \in Reader :
                          NoSuchKey(c) => down[c].file \in purged \/ down[c].file \notin files
  <1>1. ASSUME DInv PROVE Found
    <2> SUFFICES ASSUME NEW c \in Reader, NoSuchKey(c), down[c].file \in files
                 PROVE  down[c].file \in purged
      OBVIOUS
    <2>1. down[c].key \in Wanted(c) /\ down[c].key \notin objects
      BY <1>1 DEF NoSuchKey, Wanted, DInv, DownloadsOK
    <2>2. PICK x \in chunks : x.file = down[c].file /\ x.key = down[c].key
      BY <1>1, <2>1 DEF DInv, DownloadsOK
    <2> QED BY <1>1, <2>1, <2>2 DEF DInv, IInv, RecordedIsStored
  <1>2. DInv /\ [DownloadNext]_downVars => [Found]_downVars
    BY <1>1
  <1> QED BY <1>2, DownloadInductive, PTL DEF DownloadSpec, GrantedChunksAreFound

(* Downloads are invisible to uploads and to the requests that destroy     *)
(* files: with any number of them, Upload behaves as it does alone.        *)
THEOREM DownloadsChangeNothing == DownloadSpec => Spec
  <1>1. DownloadInit => Init
    BY DEF DownloadInit
  <1>2. [DownloadNext]_downVars => [Next]_vars
    <2>1. ASSUME NEW c \in Reader, Read(c) PROVE UNCHANGED vars
      BY <2>1
      DEF Read, FindFile, ListChunks, AskChunk, Denied, GetObject, NoSuchKey, Leave, Stop
    <2> QED BY <2>1 DEF DownloadNext, downVars
  <1> QED BY <1>1, <1>2, PTL DEF DownloadSpec, Spec

(* So what the proofs of Upload say of a finalized file, of a recorded     *)
(* chunk and of the cause of an orphan is true beside downloads too.       *)
THEOREM SafeBesideDownloads ==
    DownloadSpec => /\ [](RecordedIsStored /\ FinalizedIsComplete)
                    /\ OrphansOnlyByFailureOrRace
  BY DownloadsChangeNothing, RecordedChunksAreStored, FinalizedFilesAreComplete,
     OrphansHaveACause, PTL
==============================================================================
