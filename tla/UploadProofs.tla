----------------------------- MODULE UploadProofs -----------------------------
(***************************************************************************)
(* Theorems about Upload for any files, chunks, keys and any number of     *)
(* requests: the types of the tables, that a recorded chunk is stored and  *)
(* a finalized file complete, and where orphaned objects come from.        *)
(***************************************************************************)
EXTENDS Upload, FiniteSetTheorems, TLAPS

(* The strengthening of the properties that the steps preserve.            *)

InFlight == {r \in Request : up[r].pc # "idle"}

(* Each upload under way holds one permit. *)
PermitsOK == permits + Cardinality(InFlight) = Permits

(* An upload's key is its own: no row, no destroying request and no other  *)
(* upload has it; and its object is stored before its row is.              *)
UploadsOK ==
    \A r \in Request :
        /\ up[r].pc = "idle" => up[r] = NoUpload
        /\ up[r].pc # "idle" =>
              up[r].file \in File /\ up[r].index \in Index /\ up[r].key \in Key \ Recorded
        /\ up[r].pc = "save" => up[r].key \in objects
        /\ \A q \in Request : up[q].key = up[r].key => q = r \/ up[r].key = NULL
        /\ \A p \in Purge : up[r].key \notin purge[p].seen

(* A destroying request has deleted what it selected, except the keys that *)
(* are left, and these are keys of the file it is at.                      *)
PurgesOK ==
    \A p \in Purge :
        /\ IF purge[p].pc = "objects" THEN purge[p].file \in File ELSE purge[p].keys = {}
        /\ purge[p].seen \cap objects \subseteq purge[p].keys
        /\ purge[p].keys \subseteq purge[p].seen
        /\ \A c \in chunks : c.key \in purge[p].keys => c.file = purge[p].file

(* No two rows share a key, and what the client saw succeed is recorded.   *)
ChunksOK ==
    /\ \A c \in chunks, x \in chunks : c.key = x.key => c = x
    /\ \A f \in File : \A i \in acked[f] : \E c \in chunks : c.file = f /\ c.index = i
    /\ \A f \in uploaded : acked[f] = Index

IInv == TypeOK /\ PermitsOK /\ UploadsOK /\ PurgesOK /\ ChunksOK /\ RecordedIsStored

-----------------------------------------------------------------------------
(* The types of one upload and of one destroying request.                  *)

UploadType ==
    [pc : {"idle", "access", "body", "put", "save"},
     file : File \cup {NULL}, index : Index \cup {NULL},
     key : Key \cup {NULL}, tries : 0 .. (MaxAttempts - 1)]

PurgeType ==
    [pc : {"idle", "select", "objects", "rows", "commit"},
     todo : SUBSET File, file : File \cup {NULL},
     seen : SUBSET Key, keys : SUBSET Key,
     locked : SUBSET File, cleared : SUBSET File, removed : SUBSET File]

LEMMA TypeFacts ==
    ASSUME TypeOK
    PROVE  up \in [Request -> UploadType] /\ purge \in [Purge -> PurgeType]
  BY DEF TypeOK, UploadType, PurgeType

LEMMA NoneTyped == NoUpload \in UploadType /\ NoPurge \in PurgeType
  BY BoundAssumption DEF NoUpload, NoPurge, UploadType, PurgeType

LEMMA InFlightFinite == IsFiniteSet(InFlight)
  BY RequestAssumption, FS_Subset DEF InFlight

(* A request that returns gives back the permit that it held. *)
LEMMA ReturnPermits ==
    ASSUME TypeOK, PermitsOK, NEW r \in Request, up[r].pc # "idle", Return(r)
    PROVE  PermitsOK' /\ permits' \in 0 .. Permits
  <1>1. InFlight' = InFlight \ {r} /\ r \in InFlight
    BY TypeFacts DEF InFlight, Return, NoUpload
  <1>2. Cardinality(InFlight') = Cardinality(InFlight) - 1 /\ Cardinality(InFlight) \in Nat
    BY <1>1, InFlightFinite, FS_RemoveElement, FS_CardinalityType
  <1>3. Cardinality(InFlight') \in Nat
    BY <1>1, InFlightFinite, FS_RemoveElement, FS_CardinalityType
  <1> QED BY <1>2, <1>3, BoundAssumption DEF PermitsOK, Return, TypeOK

-----------------------------------------------------------------------------
LEMMA InitIInv == Init => IInv
  <1> SUFFICES ASSUME Init PROVE IInv
    OBVIOUS
  <1>1. TypeOK
    BY NoneTyped, BoundAssumption DEF Init, TypeOK, UploadType, PurgeType
  <1>2. PermitsOK
    <2>1. InFlight = {}
      BY DEF Init, InFlight, NoUpload
    <2> QED BY <2>1, FS_EmptySet, BoundAssumption DEF Init, PermitsOK
  <1>3. UploadsOK /\ PurgesOK /\ ChunksOK /\ RecordedIsStored
    BY DEF Init, UploadsOK, PurgesOK, ChunksOK, RecordedIsStored, NoUpload, NoPurge
  <1> QED BY <1>1, <1>2, <1>3 DEF IInv

(* An upload goes on: CheckOwner, ReceiveBody, Put, and a PUT tried again. *)
LEMMA AdvanceIInv ==
    ASSUME IInv, NEW r \in Request, up[r].pc # "idle",
           NEW pc \in {"body", "put", "save"}, NEW n \in 0 .. (MaxAttempts - 1),
           up' = [up EXCEPT ![r].pc = pc, ![r].tries = n],
           objects' \in {objects, objects \cup {up[r].key}},
           pc = "save" => up[r].key \in objects',
           UNCHANGED <<dbVars, permits, purge, acked, purged>>
    PROVE  IInv'
  <1>1. up \in [Request -> UploadType] /\ up[r].key \in Key
    BY TypeFacts DEF IInv, UploadsOK
  <1>2. \A q \in Request : /\ up'[q].key = up[q].key /\ up'[q].file = up[q].file
                           /\ up'[q].index = up[q].index
                           /\ (up'[q].pc = "idle" <=> up[q].pc = "idle")
                           /\ (q # r => up'[q] = up[q])
    BY <1>1 DEF UploadType
  <1>3. up'[r].pc = pc
    BY <1>1 DEF UploadType
  <1>4. up' \in [Request -> UploadType]
    <2>1. [up[r] EXCEPT !.pc = pc, !.tries = n] \in UploadType
      BY <1>1 DEF UploadType
    <2>2. up' = [up EXCEPT ![r] = [up[r] EXCEPT !.pc = pc, !.tries = n]]
      BY <1>1 DEF UploadType
    <2> QED BY <1>1, <2>1, <2>2
  <1>5. TypeOK'
    BY <1>1, <1>4 DEF IInv, TypeOK, dbVars, UploadType
  <1>6. PermitsOK'
    <2>1. InFlight' = InFlight
      BY <1>2 DEF InFlight
    <2> QED BY <2>1 DEF IInv, PermitsOK
  <1>7. UploadsOK'
    <2>1. Recorded' = Recorded /\ objects \subseteq objects' /\ purge' = purge
      BY DEF Recorded, dbVars
    <2>2. ASSUME NEW q \in Request
          PROVE  /\ up'[q].pc = "idle" => up'[q] = NoUpload
                 /\ up'[q].pc # "idle" =>
                       up'[q].file \in File /\ up'[q].index \in Index /\ up'[q].key \in Key \ Recorded
                 /\ up'[q].pc = "save" => up'[q].key \in objects'
      BY <1>2, <1>3, <2>1 DEF IInv, UploadsOK
    <2>3. ASSUME NEW q \in Request
          PROVE  /\ \A x \in Request : up'[x].key = up'[q].key => x = q \/ up'[q].key = NULL
                 /\ \A p \in Purge : up'[q].key \notin purge[p].seen
      <3>1. \A x \in Request : up[x].key = up[q].key => x = q \/ up[q].key = NULL
        BY DEF IInv, UploadsOK
      <3>2. \A p \in Purge : up[q].key \notin purge[p].seen
        BY DEF IInv, UploadsOK
      <3>3. \A x \in Request : up'[x].key = up[x].key
        BY <1>2
      <3> QED BY <3>1, <3>2, <3>3
    <2> QED BY <2>1, <2>2, <2>3 DEF UploadsOK
  <1>8. PurgesOK'
    BY DEF IInv, UploadsOK, PurgesOK, dbVars
  <1>9. ChunksOK' /\ RecordedIsStored'
    BY DEF IInv, ChunksOK, RecordedIsStored, dbVars
  <1> QED BY <1>5, <1>6, <1>7, <1>8, <1>9 DEF IInv

(* An upload returns without having recorded anything. *)
LEMMA ReturnIInv ==
    ASSUME IInv, NEW r \in Request, up[r].pc # "idle", Return(r),
           objects' \in {objects, objects \cup {up[r].key}},
           UNCHANGED <<dbVars, purge, acked, purged>>
    PROVE  IInv'
  <1>1. up \in [Request -> UploadType] /\ up[r].key \in Key /\ purge \in [Purge -> PurgeType]
    BY TypeFacts DEF IInv, UploadsOK
  <1>2. up'[r] = NoUpload /\ \A q \in Request : q # r => up'[q] = up[q]
    BY <1>1 DEF Return
  <1>3. PermitsOK' /\ permits' \in 0 .. Permits
    BY ReturnPermits DEF IInv
  <1>4. up' \in [Request -> UploadType]
    BY <1>1, NoneTyped DEF Return
  <1>5. TypeOK'
    BY <1>1, <1>3, <1>4 DEF IInv, TypeOK, dbVars, UploadType
  <1>6. UploadsOK'
    <2>1. up'[r].key = NULL /\ up'[r].pc = "idle"
      BY <1>2 DEF NoUpload
    <2>2. \A p \in Purge : NULL \notin purge[p].seen
      BY <1>1, NullAssumption DEF PurgeType
    <2> QED BY <1>1, <1>2, <2>1, <2>2 DEF IInv, UploadsOK, Recorded, dbVars
  <1>7. PurgesOK'
    BY DEF IInv, UploadsOK, PurgesOK, dbVars
  <1>8. ChunksOK' /\ RecordedIsStored'
    BY DEF IInv, ChunksOK, RecordedIsStored, dbVars
  <1> QED BY <1>3, <1>5, <1>6, <1>7, <1>8 DEF IInv

(* The key of a new upload is fresh. *)
LEMMA BeginIInv ==
    ASSUME IInv, NEW r \in Request, NEW f \in File, NEW i \in Index, NEW k \in Key,
           BeginUpload(r, f, i, k)
    PROVE  IInv'
  <1> DEFINE u == [pc |-> "access", file |-> f, index |-> i, key |-> k, tries |-> 0]
  <1>1. up \in [Request -> UploadType] /\ u \in UploadType
    BY TypeFacts, BoundAssumption DEF IInv, UploadType
  <1>2. up'[r] = u /\ \A q \in Request : q # r => up'[q] = up[q]
    BY <1>1 DEF BeginUpload
  <1>3. up' \in [Request -> UploadType]
    BY <1>1 DEF BeginUpload
  <1>4. /\ UNCHANGED <<files, trashed, uploaded, chunks, objects, purge, acked, purged>>
        /\ permits > 0 /\ permits' = permits - 1 /\ up[r].pc = "idle" /\ Fresh(k)
    BY DEF BeginUpload, dbVars
  <1>5. TypeOK'
    BY <1>3, <1>4, BoundAssumption DEF IInv, TypeOK, UploadType
  <1>6. PermitsOK'
    <2>1. InFlight' = InFlight \cup {r} /\ r \notin InFlight
      BY <1>2, <1>4 DEF InFlight
    <2>2. Cardinality(InFlight') = Cardinality(InFlight) + 1 /\ Cardinality(InFlight) \in Nat
      BY <2>1, InFlightFinite, FS_AddElement, FS_CardinalityType
    <2> QED BY <1>4, <2>2, BoundAssumption DEF IInv, PermitsOK, TypeOK
  <1>7. UploadsOK'
    <2>1. /\ k \in Key \ Recorded /\ \A q \in Request : up[q].key # k
          /\ \A p \in Purge : k \notin purge[p].seen
      BY <1>4 DEF Fresh, Accounted
    <2>2. u.pc = "access" /\ u.file = f /\ u.index = i /\ u.key = k
      OBVIOUS
    <2>3. Recorded' = Recorded
      BY <1>4 DEF Recorded
    <2> HIDE DEF u
    <2> QED BY <1>2, <1>4, <2>1, <2>2, <2>3 DEF IInv, UploadsOK
  <1>8. PurgesOK' /\ ChunksOK' /\ RecordedIsStored'
    BY <1>4 DEF IInv, PurgesOK, ChunksOK, RecordedIsStored
  <1> QED BY <1>5, <1>6, <1>7, <1>8 DEF IInv

(* The INSERT of a chunk whose file exists.  The key in the new row is one *)
(* that is stored and that no destroying request has read.                 *)
LEMMA RecordIInv ==
    ASSUME IInv, NEW r \in Request, up[r].pc = "save", up[r].file \in files,
           chunks' = chunks \cup {[file |-> up[r].file, index |-> up[r].index, key |-> up[r].key]},
           acked' \in {acked, [acked EXCEPT ![up[r].file] = @ \cup {up[r].index}]},
           Return(r),
           UNCHANGED <<files, trashed, uploaded, objects, purge, purged>>
    PROVE  IInv'
  <1> DEFINE c == [file |-> up[r].file, index |-> up[r].index, key |-> up[r].key]
  <1>1. /\ up \in [Request -> UploadType] /\ purge \in [Purge -> PurgeType]
        /\ up[r].file \in File /\ up[r].index \in Index /\ up[r].key \in Key \ Recorded
        /\ up[r].key \in objects /\ \A p \in Purge : up[r].key \notin purge[p].seen
    BY TypeFacts DEF IInv, UploadsOK
  <1>2. up'[r] = NoUpload /\ \A q \in Request : q # r => up'[q] = up[q]
    BY <1>1 DEF Return
  <1>3. up' \in [Request -> UploadType]
    BY <1>1, NoneTyped DEF Return
  <1>4. PermitsOK' /\ permits' \in 0 .. Permits
    BY ReturnPermits DEF IInv
  <1>5. /\ c \in [file : files, index : Index, key : Key] /\ chunks' = chunks \cup {c}
        /\ c.file = up[r].file /\ c.index = up[r].index /\ c.key = up[r].key
    BY <1>1
  <1>6. Recorded' = Recorded \cup {up[r].key}
    BY <1>5 DEF Recorded
  <1> HIDE DEF c
  <1>7. /\ acked' \in [File -> SUBSET Index]
        /\ \A f \in File : acked[f] \subseteq acked'[f]
        /\ \A f \in File : \A i \in acked'[f] : i \in acked[f] \/ (f = c.file /\ i = c.index)
    <2>1. acked \in [File -> SUBSET Index]
      BY DEF IInv, TypeOK
    <2>2. up[r].file \in File /\ up[r].index \in Index
      BY <1>1
    <2> QED BY <1>5, <2>1, <2>2
  <1>8. TypeOK'
    BY <1>3, <1>4, <1>5, <1>7 DEF IInv, TypeOK, UploadType
  <1>9. UploadsOK'
    <2>1. up'[r].key = NULL /\ up'[r].pc = "idle"
      BY <1>2 DEF NoUpload
    <2>2. \A p \in Purge : NULL \notin purge[p].seen
      BY <1>1, NullAssumption DEF PurgeType
    <2>3. \A q \in Request : q # r => up[q].key # up[r].key
      BY <1>1, NullAssumption DEF IInv, UploadsOK
    <2> QED BY <1>1, <1>2, <1>6, <2>1, <2>2, <2>3 DEF IInv, UploadsOK
  <1>10. PurgesOK'
    BY <1>1, <1>5 DEF IInv, PurgesOK
  <1>11. ChunksOK'
    <2>1. \A x \in chunks : x.key # c.key
      BY <1>1, <1>5 DEF Recorded
    <2>2. \A x \in chunks', y \in chunks' : x.key = y.key => x = y
      BY <1>5, <2>1 DEF IInv, ChunksOK
    <2>3. \A f \in File : \A i \in acked'[f] : \E x \in chunks' : x.file = f /\ x.index = i
      BY <1>5, <1>7 DEF IInv, ChunksOK
    <2>4. ASSUME NEW f \in uploaded' PROVE acked'[f] = Index
      <3>1. f \in File /\ f \in uploaded
        BY DEF IInv, TypeOK
      <3>2. acked[f] = Index
        BY <3>1 DEF IInv, ChunksOK
      <3> QED BY <1>7, <3>1, <3>2
    <2> QED BY <2>2, <2>3, <2>4 DEF ChunksOK
  <1>12. RecordedIsStored'
    BY <1>1, <1>5 DEF IInv, RecordedIsStored
  <1> QED BY <1>4, <1>8, <1>9, <1>10, <1>11, <1>12 DEF IInv

LEMMA ServeIInv ==
    ASSUME IInv, NEW r \in Request, Serve(r) \/ ReceiveBody(r) \/ RejectBody(r) \/ Cancel(r)
    PROVE  IInv'
  <1>1. CASE CheckOwner(r)
    <2>1. up[r].tries \in 0 .. (MaxAttempts - 1) /\ up \in [Request -> UploadType]
      BY TypeFacts DEF IInv, UploadType
    <2>2. up' = [up EXCEPT ![r].pc = "body", ![r].tries = up[r].tries]
      BY <1>1, <2>1 DEF CheckOwner, UploadType
    <2> QED BY <1>1, <2>1, <2>2, AdvanceIInv DEF CheckOwner
  <1>2. CASE Refuse(r)
    BY <1>2, ReturnIInv DEF Refuse
  <1>3. CASE Put(r)
    <2>1. up[r].tries \in 0 .. (MaxAttempts - 1) /\ up \in [Request -> UploadType]
      BY TypeFacts DEF IInv, UploadType
    <2>2. up' = [up EXCEPT ![r].pc = "save", ![r].tries = up[r].tries]
      BY <1>3, <2>1 DEF Put, UploadType
    <2> QED BY <1>3, <2>1, <2>2, AdvanceIInv DEF Put
  <1>4. CASE PutFails(r)
    <2>1. up[r].tries \in 0 .. (MaxAttempts - 1) /\ up \in [Request -> UploadType]
      BY TypeFacts DEF IInv, UploadType
    <2>2. CASE up[r].tries + 1 < MaxAttempts /\ up' = [up EXCEPT ![r].tries = @ + 1] /\ UNCHANGED permits
      <3>1. up' = [up EXCEPT ![r].pc = "put", ![r].tries = up[r].tries + 1]
        BY <1>4, <2>1, <2>2 DEF PutFails, UploadType
      <3>2. up[r].tries + 1 \in 0 .. (MaxAttempts - 1)
        BY <2>1, <2>2, BoundAssumption
      <3> QED BY <1>4, <2>2, <3>1, <3>2, AdvanceIInv DEF PutFails, MaybePut
    <2>3. CASE GiveUp(r)
      BY <1>4, <2>3, ReturnIInv DEF PutFails, MaybePut, GiveUp
    <2> QED BY <1>4, <2>2, <2>3 DEF PutFails
  <1>5. CASE Save(r)
    <2>1. CASE up[r].file \in files
      BY <1>5, <2>1, RecordIInv DEF Save
    <2>2. CASE up[r].file \notin files
      BY <1>5, <2>2, ReturnIInv DEF Save, dbVars
    <2> QED BY <2>1, <2>2
  <1>6. CASE Cancel(r)
    BY <1>6, ReturnIInv DEF Cancel, MaybePut
  <1>7. CASE ReceiveBody(r)
    <2>1. up[r].tries \in 0 .. (MaxAttempts - 1) /\ up \in [Request -> UploadType]
      BY TypeFacts DEF IInv, UploadType
    <2>2. up' = [up EXCEPT ![r].pc = "put", ![r].tries = up[r].tries]
      BY <1>7, <2>1 DEF ReceiveBody, UploadType
    <2> QED BY <1>7, <2>1, <2>2, AdvanceIInv DEF ReceiveBody
  <1>8. CASE RejectBody(r)
    BY <1>8, ReturnIInv DEF RejectBody
  <1> QED BY <1>1, <1>2, <1>3, <1>4, <1>5, <1>6, <1>7, <1>8 DEF Serve

-----------------------------------------------------------------------------
(* Requests on one file that change neither chunks nor objects.            *)
LEMMA FileIInv ==
    ASSUME IInv, NEW f \in File,
           Initialize(f) \/ Finalize(f) \/ TrashFile(f) \/ RestoreFile(f)
    PROVE  IInv'
  <1>1. UNCHANGED <<chunks, objects, permits, up, purge, acked, purged>>
    BY DEF Initialize, Finalize, TrashFile, RestoreFile
  <1>2. /\ files \subseteq files' /\ files' \subseteq File
        /\ trashed' \subseteq files' /\ uploaded' \subseteq files'
        /\ \A g \in uploaded' : g \in uploaded \/ acked[g] = Index
    BY DEF Initialize, Finalize, TrashFile, RestoreFile, IInv, TypeOK
  <1>3. TypeOK'
    BY <1>1, <1>2 DEF IInv, TypeOK
  <1>4. PermitsOK' /\ UploadsOK' /\ PurgesOK' /\ RecordedIsStored'
    BY <1>1 DEF IInv, PermitsOK, InFlight, UploadsOK, Recorded, PurgesOK, RecordedIsStored
  <1>5. ChunksOK'
    BY <1>1, <1>2 DEF IInv, ChunksOK
  <1> QED BY <1>3, <1>4, <1>5 DEF IInv

(* A destroying request p goes to the state w and touches nothing else     *)
(* than objects of keys that it has read, and purged.                      *)
LEMMA PurgeIInv ==
    ASSUME IInv, NEW p \in Purge, NEW w \in PurgeType,
           purge' = [purge EXCEPT ![p] = w],
           objects' \subseteq objects,
           objects \ objects' \subseteq purge[p].keys,
           purged' \in {purged, purged \cup ({purge[p].file} \cap files)},
           objects' = objects \/ {purge[p].file} \cap files \subseteq purged',
           IF w.pc = "objects" THEN w.file \in File ELSE w.keys = {},
           w.seen \subseteq purge[p].seen \cup Recorded,
           w.seen \cap objects' \subseteq w.keys,
           w.keys \subseteq w.seen,
           \A c \in chunks : c.key \in w.keys => c.file = w.file,
           UNCHANGED <<dbVars, permits, up, acked>>
    PROVE  IInv'
  <1>1. /\ purge \in [Purge -> PurgeType] /\ purge'[p] = w
        /\ \A q \in Purge : q # p => purge'[q] = purge[q]
    BY TypeFacts DEF IInv
  <1>2. purge' \in [Purge -> PurgeType]
    BY <1>1
  <1>3. TypeOK'
    BY <1>2 DEF IInv, TypeOK, PurgeType, dbVars
  <1>4. PermitsOK' /\ ChunksOK'
    BY DEF IInv, PermitsOK, InFlight, ChunksOK, dbVars
  <1>5. UploadsOK'
    <2>1. Recorded' = Recorded /\ up' = up
      BY DEF Recorded, dbVars
    <2>2. ASSUME NEW r \in Request PROVE \A q \in Purge : up[r].key \notin purge'[q].seen
      <3>1. \A q \in Purge : up[r].key \notin purge[q].seen
        BY DEF IInv, UploadsOK
      <3>2. up[r].key \notin Recorded
        <4>1. \A c \in chunks : c.key \in Key
          BY DEF IInv, TypeOK
        <4>2. Recorded \subseteq Key
          BY <4>1 DEF Recorded
        <4> QED BY <4>2, NullAssumption DEF IInv, UploadsOK, NoUpload
      <3> QED BY <1>1, <3>1, <3>2
    <2>3. ASSUME NEW r \in Request, up[r].pc = "save" PROVE up[r].key \in objects'
      <3>1. up[r].key \in objects /\ up[r].key \notin purge[p].seen
        BY <2>3 DEF IInv, UploadsOK
      <3>2. purge[p].keys \subseteq purge[p].seen
        BY DEF IInv, PurgesOK
      <3> QED BY <3>1, <3>2
    <2>4. ASSUME NEW r \in Request
          PROVE  /\ up[r].pc = "idle" => up[r] = NoUpload
                 /\ up[r].pc # "idle" =>
                       up[r].file \in File /\ up[r].index \in Index /\ up[r].key \in Key \ Recorded
                 /\ \A q \in Request : up[q].key = up[r].key => q = r \/ up[r].key = NULL
      BY DEF IInv, UploadsOK
    <2> QED BY <2>1, <2>2, <2>3, <2>4 DEF UploadsOK
  <1>6. PurgesOK'
    BY <1>1 DEF IInv, PurgesOK, dbVars
  <1>7. RecordedIsStored'
    <2> SUFFICES ASSUME NEW c \in chunks, c.key \notin objects' PROVE c.file \in purged'
      BY DEF RecordedIsStored, dbVars
    <2>1. CASE c.key \notin objects
      BY <2>1 DEF IInv, RecordedIsStored
    <2>2. CASE c.key \in objects
      <3>1. c.file = purge[p].file /\ c.file \in files
        BY <2>2 DEF IInv, PurgesOK, TypeOK
      <3> QED BY <2>2, <3>1
    <2> QED BY <2>1, <2>2
  <1> QED BY <1>3, <1>4, <1>5, <1>6, <1>7 DEF IInv

(* The rows of the files go, with those of their chunks. *)
LEMMA CommitIInv ==
    ASSUME IInv, NEW p \in Purge, Commit(p)
    PROVE  IInv'
  <1> DEFINE F == purge[p].removed
  <1>1. /\ purge \in [Purge -> PurgeType] /\ purge'[p] = NoPurge
        /\ \A q \in Purge : q # p => purge'[q] = purge[q]
    BY TypeFacts DEF IInv, Commit
  <1>2. purge' \in [Purge -> PurgeType]
    BY <1>1, NoneTyped DEF Commit
  <1>3. /\ UNCHANGED <<objects, permits, up>>
        /\ chunks' = {c \in chunks : c.file \notin F}
        /\ files' = files \ F /\ trashed' = trashed \ F
        /\ uploaded' = uploaded \ F /\ purged' = purged \ F
        /\ acked' = [f \in File |-> IF f \in F THEN {} ELSE acked[f]]
    BY DEF Commit, ChunksWithout
  <1> HIDE DEF F
  <1>4. TypeOK'
    BY <1>2, <1>3 DEF IInv, TypeOK, PurgeType
  <1>5. PermitsOK' /\ ChunksOK'
    BY <1>3 DEF IInv, PermitsOK, InFlight, ChunksOK, TypeOK
  <1>6. UploadsOK'
    <2>1. Recorded' \subseteq Recorded
      BY <1>3 DEF Recorded
    <2>2. purge'[p].seen = {}
      BY <1>1 DEF NoPurge
    <2> QED BY <1>1, <1>3, <2>1, <2>2 DEF IInv, UploadsOK
  <1>7. PurgesOK'
    <2>1. purge'[p].seen = {} /\ purge'[p].keys = {} /\ purge'[p].pc # "objects"
      BY <1>1 DEF NoPurge
    <2> QED BY <1>1, <1>3, <2>1 DEF IInv, PurgesOK
  <1>8. RecordedIsStored'
    BY <1>3 DEF IInv, RecordedIsStored
  <1> QED BY <1>4, <1>5, <1>6, <1>7, <1>8 DEF IInv

LEMMA DestroyIInv ==
    ASSUME IInv, NEW p \in Purge,
           \/ \E f \in File : AbortUpload(p, f) \/ DeleteForever(p, f)
           \/ EmptyTrash(p) \/ Destroy(p) \/ CancelPurge(p)
    PROVE  IInv'
  <1> DEFINE v == purge[p]
  <1>1. v \in PurgeType /\ purge \in [Purge -> PurgeType] /\ trashed \subseteq File
    BY TypeFacts DEF IInv, TypeOK
  <1>2. NoPurge.pc = "idle" /\ NoPurge.seen = {} /\ NoPurge.keys = {}
    BY DEF NoPurge
  <1>3. /\ IF v.pc = "objects" THEN v.file \in File ELSE v.keys = {}
        /\ v.seen \cap objects \subseteq v.keys
        /\ v.keys \subseteq v.seen
        /\ \A c \in chunks : c.key \in v.keys => c.file = v.file
    BY DEF IInv, PurgesOK
  <1>4. ASSUME NEW todo \in SUBSET File, NEW locked \in SUBSET File, Begin(p, todo, locked)
        PROVE  IInv'
    <2> DEFINE w == [NoPurge EXCEPT !.pc = "select", !.todo = todo, !.locked = locked]
    <2>1. w \in PurgeType
      BY NoneTyped DEF PurgeType
    <2>2. w.pc = "select" /\ w.seen = {} /\ w.keys = {}
      BY DEF NoPurge
    <2>3. purge' = [purge EXCEPT ![p] = w] /\ UNCHANGED <<dbVars, objects, permits, up, acked, purged>>
      BY <1>4 DEF Begin
    <2> HIDE DEF w
    <2> QED BY <2>1, <2>2, <2>3, PurgeIInv
  <1>5. CASE \E f \in File : AbortUpload(p, f) \/ DeleteForever(p, f)
    <2>1. PICK f \in File : Begin(p, {f}, {f})
      BY <1>5 DEF AbortUpload, DeleteForever
    <2> QED BY <1>4, <2>1
  <1>6. CASE EmptyTrash(p)
    BY <1>1, <1>4, <1>6 DEF EmptyTrash
  <1>7. CASE SelectKeys(p)
    <2>1. PICK f \in v.todo :
              purge' = [purge EXCEPT ![p].pc = "objects", ![p].file = f, ![p].todo = @ \ {f},
                                     ![p].keys = KeysOf(f), ![p].seen = @ \cup KeysOf(f)]
      BY <1>1, <1>7 DEF SelectKeys
    <2> DEFINE K == KeysOf(f)
               w == [v EXCEPT !.pc = "objects", !.file = f, !.todo = v.todo \ {f},
                              !.keys = K, !.seen = v.seen \cup K]
    <2>2. /\ purge' = [purge EXCEPT ![p] = w] /\ v.pc = "select"
          /\ UNCHANGED <<dbVars, objects, permits, up, acked, purged>>
      BY <1>1, <1>7, <2>1 DEF SelectKeys, PurgeType
    <2>3. K \subseteq Key /\ K \subseteq Recorded
      BY DEF IInv, TypeOK, Recorded, KeysOf
    <2>4. \A c \in chunks : c.key \in K => c.file = f
      BY DEF IInv, ChunksOK, KeysOf
    <2>5. f \in File
      BY <1>1 DEF PurgeType
    <2> HIDE DEF K
    <2>6. w \in PurgeType
      BY <1>1, <2>3, <2>5 DEF PurgeType
    <2>7. w.pc = "objects" /\ w.file = f /\ w.keys = K /\ w.seen = v.seen \cup K
      BY <1>1 DEF PurgeType
    <2> HIDE DEF w
    <2>8. v.keys = {}
      BY <1>3, <2>2
    <2>9. /\ w.seen \subseteq v.seen \cup Recorded
          /\ w.seen \cap objects \subseteq w.keys /\ w.keys \subseteq w.seen
      BY <1>3, <2>3, <2>7, <2>8
    <2>10. \A c \in chunks : c.key \in w.keys => c.file = w.file
      BY <2>4, <2>7
    <2> QED BY <2>2, <2>5, <2>6, <2>7, <2>9, <2>10, PurgeIInv
  <1>8. CASE DeleteObject(p)
    <2>1. PICK k \in v.keys : objects' = objects \ {k} /\ purge' = [purge EXCEPT ![p].keys = @ \ {k}]
      BY <1>8 DEF DeleteObject
    <2> DEFINE w == [v EXCEPT !.keys = v.keys \ {k}]
    <2>2. w \in PurgeType
      BY <1>1 DEF PurgeType
    <2>3. w.pc = v.pc /\ w.file = v.file /\ w.seen = v.seen /\ w.keys = v.keys \ {k}
      BY <1>1 DEF PurgeType
    <2>4. /\ purge' = [purge EXCEPT ![p] = w] /\ purged' = purged \cup ({v.file} \cap files)
          /\ UNCHANGED <<dbVars, permits, up, acked>>
      BY <1>1, <1>8, <2>1 DEF DeleteObject
    <2> HIDE DEF w
    <2>5. w.seen \cap objects' \subseteq w.keys /\ w.keys \subseteq w.seen
      BY <1>3, <2>1, <2>3
    <2>6. /\ IF w.pc = "objects" THEN w.file \in File ELSE w.keys = {}
          /\ \A c \in chunks : c.key \in w.keys => c.file = w.file
      BY <1>3, <2>3
    <2>7. objects' \subseteq objects /\ objects \ objects' \subseteq v.keys
      BY <2>1
    <2> QED BY <2>2, <2>3, <2>4, <2>5, <2>6, <2>7, PurgeIInv
  <1>9. CASE DeleteFails(p)
    <2>1. PICK k \in v.keys : objects' \in {objects, objects \ {k}}
      BY <1>9 DEF DeleteFails
    <2>2. /\ purge' = [purge EXCEPT ![p] = NoPurge] /\ purged' = purged \cup ({v.file} \cap files)
          /\ UNCHANGED <<dbVars, permits, up, acked>>
      BY <1>9 DEF DeleteFails
    <2> QED BY <1>2, <2>1, <2>2, NoneTyped, PurgeIInv
  <1>10. CASE RemoveRows(p)
    <2> DEFINE w == [v EXCEPT !.pc = IF v.todo = {} THEN "commit" ELSE "select",
                              !.removed = v.removed \cup ({v.file} \cap files)]
    <2>1. /\ purge' = [purge EXCEPT ![p] = w] /\ v.keys = {}
          /\ UNCHANGED <<dbVars, objects, permits, up, acked, purged>>
      BY <1>1, <1>3, <1>10 DEF RemoveRows
    <2>2. files \subseteq File
      BY DEF IInv, TypeOK
    <2>3. w \in PurgeType
      BY <1>1, <2>2 DEF PurgeType
    <2>4. w.pc # "objects" /\ w.file = v.file /\ w.seen = v.seen /\ w.keys = v.keys
      BY <1>1 DEF PurgeType
    <2> HIDE DEF w
    <2>5. IF w.pc = "objects" THEN w.file \in File ELSE w.keys = {}
      BY <2>1, <2>4
    <2> QED BY <1>3, <2>1, <2>3, <2>4, <2>5, PurgeIInv
  <1>11. CASE Commit(p)
    BY <1>11, CommitIInv
  <1>12. CASE CancelPurge(p)
    <2>1. /\ purge' = [purge EXCEPT ![p] = NoPurge]
          /\ UNCHANGED <<dbVars, objects, permits, up, acked, purged>>
      BY <1>12 DEF CancelPurge
    <2> QED BY <1>2, <2>1, NoneTyped, PurgeIInv
  <1>13. CASE RemoveChunks(p)
    <2> DEFINE C == {v.file} \cap {c.file : c \in chunks}
               w == [v EXCEPT !.pc = "rows", !.cleared = v.cleared \cup C]
    <2>1. /\ purge' = [purge EXCEPT ![p] = w] /\ v.keys = {} /\ v.pc = "objects"
          /\ UNCHANGED <<dbVars, objects, permits, up, acked, purged>>
      BY <1>1, <1>13 DEF RemoveChunks
    <2>2. C \subseteq File
      BY <1>3, <2>1
    <2> HIDE DEF C
    <2>3. w \in PurgeType
      BY <1>1, <2>2 DEF PurgeType
    <2>4. w.pc = "rows" /\ w.file = v.file /\ w.seen = v.seen /\ w.keys = v.keys
      BY <1>1 DEF PurgeType
    <2> HIDE DEF w
    <2> QED BY <1>3, <2>1, <2>3, <2>4, PurgeIInv
  <1>14. CASE BreakDeadlock(p)
    <2>1. /\ purge' = [purge EXCEPT ![p] = NoPurge]
          /\ UNCHANGED <<dbVars, objects, permits, up, acked, purged>>
      BY <1>14 DEF BreakDeadlock
    <2> QED BY <1>2, <2>1, NoneTyped, PurgeIInv
  <1> QED BY <1>5, <1>6, <1>7, <1>8, <1>9, <1>10, <1>11, <1>12, <1>13, <1>14 DEF Destroy

LEMMA NextIInv == IInv /\ [Next]_vars => IInv'
  <1> SUFFICES ASSUME IInv, [Next]_vars PROVE IInv'
    OBVIOUS
  <1>1. CASE \E f \in File : Initialize(f) \/ Finalize(f) \/ TrashFile(f) \/ RestoreFile(f)
    BY <1>1, FileIInv
  <1>2. CASE \E r \in Request, f \in File, i \in Index, k \in Key : BeginUpload(r, f, i, k)
    BY <1>2, BeginIInv
  <1>3. CASE \E r \in Request : Serve(r) \/ ReceiveBody(r) \/ RejectBody(r) \/ Cancel(r)
    BY <1>3, ServeIInv
  <1>4. CASE \E p \in Purge, f \in File : AbortUpload(p, f) \/ DeleteForever(p, f)
    BY <1>4, DestroyIInv
  <1>5. CASE \E p \in Purge : EmptyTrash(p) \/ Destroy(p) \/ CancelPurge(p)
    BY <1>5, DestroyIInv
  <1>6. CASE UNCHANGED vars
    BY <1>6
    DEF vars, IInv, TypeOK, PermitsOK, InFlight, UploadsOK, Recorded, PurgesOK, ChunksOK, RecordedIsStored
  <1> QED BY <1>1, <1>2, <1>3, <1>4, <1>5, <1>6 DEF Next

LEMMA Inductive == Spec => []IInv
  BY InitIInv, NextIInv, PTL DEF Spec

-----------------------------------------------------------------------------
(* The theorems.                                                           *)

(* The tables, the semaphore and the requests keep their types. *)
THEOREM UploadTypeCorrect == Spec => []TypeOK
  BY Inductive, PTL DEF IInv

(* The free permits and the uploads under way are always Permits together, *)
(* whatever was retried, refused or dropped: none is lost or given twice.  *)
THEOREM PermitsAreKept == Spec => []PermitsOK
  BY Inductive, PTL DEF IInv

(* A row of s3_keys has its object, unless the object was asked away. *)
THEOREM RecordedChunksAreStored == Spec => []RecordedIsStored
  BY Inductive, PTL DEF IInv

(* A finalized file has all of its chunks, until it is to be destroyed. *)
THEOREM FinalizedFilesAreComplete == Spec => []FinalizedIsComplete
  <1>1. IInv => FinalizedIsComplete
    <2> SUFFICES ASSUME IInv, NEW f \in uploaded \ purged, NEW i \in Index
                 PROVE  Stored(f, i)
      BY DEF FinalizedIsComplete
    <2>1. f \in File /\ i \in acked[f]
      BY DEF IInv, TypeOK, ChunksOK
    <2>2. PICK c \in chunks : c.file = f /\ c.index = i
      BY <2>1 DEF IInv, ChunksOK
    <2> QED BY <2>2 DEF IInv, RecordedIsStored, Stored
  <1> QED BY <1>1, Inductive, PTL

(* A step of an upload can leave only that upload's own key behind. *)
LEMMA ServeOrphans ==
    ASSUME NEW r \in Request, Serve(r) \/ ReceiveBody(r) \/ RejectBody(r) \/ Cancel(r), TypeOK
    PROVE  \A k \in Accounted \ Accounted' : up[r].key = k /\ up'[r] = NoUpload
  <1>1. up \in [Request -> UploadType]
    BY TypeFacts
  <1>2. Recorded \subseteq Recorded'
    BY DEF Serve, CheckOwner, Refuse, ReceiveBody, RejectBody, Put, PutFails, Save, Cancel,
           dbVars, Recorded
  <1>3. /\ \A q \in Request : q # r => up'[q] = up[q]
        /\ up'[r] = NoUpload \/ up'[r].key = up[r].key
    BY <1>1
    DEF Serve, CheckOwner, Refuse, ReceiveBody, RejectBody, Put, PutFails, GiveUp, Save, Cancel,
        Return, UploadType
  <1> QED BY <1>2, <1>3 DEF Accounted

(* When the rows of a file go, the objects of the chunks that the request  *)
(* has read are gone.                                                      *)
LEMMA CommitOrphans ==
    ASSUME IInv, NEW p \in Purge, Commit(p), NEW k \in objects' \cap (Accounted \ Accounted')
    PROVE  \E c \in chunks : c.key = k /\ c.file \in purge[p].removed /\ k \notin purge[p].seen
  <1>1. /\ up' = up /\ objects' = objects /\ purge[p].pc = "commit"
        /\ chunks' = {c \in chunks : c.file \notin purge[p].removed}
    BY DEF Commit, ChunksWithout
  <1>2. PICK c \in chunks : c.key = k /\ c \notin chunks'
    BY <1>1 DEF Accounted, Recorded
  <1>3. k \notin purge[p].seen
    BY <1>1 DEF IInv, PurgesOK
  <1> QED BY <1>1, <1>2, <1>3

(* Every object that no row names was left by an upload that failed, or by *)
(* a chunk recorded after its file's destroyer had read the keys.          *)
THEOREM OrphansHaveACause == Spec => OrphansOnlyByFailureOrRace
  <1> DEFINE Cause(k) ==
        \/ \E r \in Request : up[r].key = k /\ up'[r] = NoUpload
        \/ \E p \in Purge, c \in chunks :
               Commit(p) /\ c.key = k /\ c.file \in purge[p].removed /\ k \notin purge[p].seen
  <1>1. ASSUME IInv, Next, NEW k \in objects' \cap (Accounted \ Accounted') PROVE Cause(k)
    <2>1. ASSUME UNCHANGED <<chunks, up>> PROVE FALSE
      BY <1>1, <2>1 DEF Accounted, Recorded
    <2>2. CASE \E f \in File : Initialize(f) \/ Finalize(f) \/ TrashFile(f) \/ RestoreFile(f)
      BY <2>1, <2>2 DEF Initialize, Finalize, TrashFile, RestoreFile
    <2>3. ASSUME NEW r \in Request, NEW f \in File, NEW i \in Index, NEW j \in Key,
                 BeginUpload(r, f, i, j)
          PROVE  FALSE
      <3>1. chunks' = chunks /\ objects' = objects /\ up[r].pc = "idle"
        BY <2>3 DEF BeginUpload, dbVars
      <3>2. k # NULL
        BY <1>1, <3>1, NullAssumption DEF IInv, TypeOK
      <3>3. up[r].key = NULL
        BY <1>1, <3>1 DEF IInv, UploadsOK, NoUpload
      <3>4. \A q \in Request : q # r => up'[q] = up[q]
        BY <1>1, <2>3, TypeFacts DEF BeginUpload, IInv
      <3> QED BY <1>1, <3>1, <3>2, <3>3, <3>4 DEF Accounted, Recorded
    <2>4. ASSUME NEW r \in Request, Serve(r) \/ ReceiveBody(r) \/ RejectBody(r) \/ Cancel(r)
          PROVE  Cause(k)
      BY <1>1, <2>4, ServeOrphans DEF IInv
    <2>5. CASE \E p \in Purge, f \in File : AbortUpload(p, f) \/ DeleteForever(p, f)
      BY <2>1, <2>5 DEF AbortUpload, DeleteForever, Begin, dbVars
    <2>6. ASSUME NEW p \in Purge, Commit(p) PROVE Cause(k)
      BY <1>1, <2>6, CommitOrphans
    <2>7. CASE \E p \in Purge : \/ EmptyTrash(p) \/ CancelPurge(p) \/ SelectKeys(p)
                               \/ DeleteObject(p) \/ DeleteFails(p) \/ RemoveChunks(p)
                               \/ RemoveRows(p) \/ BreakDeadlock(p)
      BY <2>1, <2>7
      DEF EmptyTrash, Begin, CancelPurge, SelectKeys, DeleteObject, DeleteFails, RemoveChunks,
          RemoveRows, BreakDeadlock, dbVars
    <2> HIDE DEF Cause
    <2> QED BY <1>1, <2>2, <2>3, <2>4, <2>5, <2>6, <2>7 DEF Next, Destroy
  <1>2. IInv /\ [Next]_vars => [\A k \in objects' \cap (Accounted \ Accounted') : Cause(k)]_vars
    BY <1>1
  <1> QED BY <1>2, Inductive, PTL DEF Spec, OrphansOnlyByFailureOrRace
==============================================================================
