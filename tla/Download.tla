------------------------------ MODULE Download ------------------------------
(***************************************************************************)
(* Downloads, against the uploads and the destroying requests of Upload: a *)
(* client asks for a file's information and then for its chunks one by     *)
(* one, each of them in a request of its own (get_file_info_handler and    *)
(* download_chunk_binary_handler).  So a download lasts, and what a step   *)
(* of it has read may be gone at the next one.                             *)
(*                                                                         *)
(* The holder of the files reads them.  A client stops at the first chunk  *)
(* that it does not get.                                                   *)
(***************************************************************************)
EXTENDS Upload

CONSTANT Reader   \* downloads that may be under way at the same time

VARIABLE down     \* down[c]: where download c is

downVars == <<vars, down>>

(* keys: the chunks still to get.  key: the one asked for.                 *)
NoDownload == [pc |-> "idle", file |-> NULL, keys |-> {}, key |-> NULL]

DownloadInit == Init /\ down = [c \in Reader |-> NoDownload]

-----------------------------------------------------------------------------
(* Ends c, well or with an error for its client. *)
Stop(c) == down' = [down EXCEPT ![c] = NoDownload] /\ UNCHANGED vars

(* get_file_info.  Its two SELECTs are in no transaction; neither of them  *)
(* looks at is_deleted or is_fully_uploaded.                               *)
FindFile(c, f) ==
    /\ down[c].pc = "idle"
    /\ f \in files
    /\ down' = [down EXCEPT ![c] = [NoDownload EXCEPT !.pc = "list", !.file = f]]
    /\ UNCHANGED vars

ListChunks(c) ==
    /\ down[c].pc = "list"
    /\ down' = [down EXCEPT ![c].pc = "chunks", ![c].keys = KeysOf(down[c].file)]
    /\ UNCHANGED vars

(* user_has_chunk_access *)
MayRead(k) == \E x \in chunks : x.key = k /\ x.file \in files \ trashed

AskChunk(c) ==
    /\ down[c].pc = "chunks"
    /\ \E k \in down[c].keys :
          /\ MayRead(k)
          /\ down' = [down EXCEPT ![c].pc = "get", ![c].key = k]
    /\ UNCHANGED vars

Denied(c) ==
    /\ down[c].pc = "chunks"
    /\ \E k \in down[c].keys : ~MayRead(k)
    /\ Stop(c)

(* download_line *)
GetObject(c) ==
    /\ down[c].pc = "get"
    /\ down[c].key \in objects
    /\ down' = [down EXCEPT ![c].pc = "chunks", ![c].keys = @ \ {down[c].key},
                            ![c].key = NULL]
    /\ UNCHANGED vars

(* NoSuchKey is not tried again. *)
NoSuchKey(c) ==
    /\ down[c].pc = "get"
    /\ down[c].key \notin objects
    /\ Stop(c)

(* The client has all it wants, or goes away; or download_line, which has  *)
(* nothing to undo between two attempts, gives up on other errors of S3.   *)
Leave(c) == down[c].pc # "idle" /\ Stop(c)

Read(c) ==
    \/ \E f \in File : FindFile(c, f)
    \/ ListChunks(c) \/ AskChunk(c) \/ Denied(c)
    \/ GetObject(c) \/ NoSuchKey(c) \/ Leave(c)

(* The UUIDs that other requests draw are not ones that a download names.  *)
FreshForReaders ==
    \A c \in Reader :
        /\ down[c].file \notin files' \ files
        /\ (Accounted' \ Accounted) \cap (down[c].keys \cup {down[c].key}) \subseteq {NULL}

DownloadNext ==
    \/ Next /\ FreshForReaders /\ UNCHANGED down
    \/ \E c \in Reader : Read(c)

DownloadSpec == DownloadInit /\ [][DownloadNext]_downVars /\ Fairness

-----------------------------------------------------------------------------
(* A chunk that user_has_chunk_access grants is in the bucket when         *)
(* download_line asks for it, however long ago the client learned its key  *)
(* and whatever was trashed, restored and destroyed meanwhile, unless      *)
(* someone asked to destroy its own file.                                  *)
GrantedChunksAreFound ==
    [][\A c \in Reader :
          NoSuchKey(c) => down[c].file \in purged \/ down[c].file \notin files]_downVars
==============================================================================
