------------------------------- MODULE ApiProofs -------------------------------
(***************************************************************************)
(* Theorems about Api, for any finite number of requests and any number of *)
(* addresses, tokens, events and files: sessions, from the lemmas of       *)
(* SessionProofs, and the two components behind the extractor of Claims.   *)
(***************************************************************************)
EXTENDS Api, SessionProofs

(* A request that has inserted an event is about to add its owner, and one *)
(* that is about to insert a file has read its body.                       *)
DraftsOK ==
    \A r \in Request :
        /\ making[r] # NULL <=> req[r].pc = "add_participant"
        /\ req[r].pc = "add_participant" => owner[making[r]] = req[r].email
        /\ req[r].pc = "insert_file" => declared[r] \in Size
        /\ declared[r] # 0 => req[r].pc = "insert_file"

IInv == SessionInv /\ AgendaTypeOK /\ QuotaTypeOK /\ DraftsOK

-----------------------------------------------------------------------------
LEMMA InitIInv == Init => IInv
  <1> SUFFICES ASSUME Init PROVE IInv
    OBVIOUS
  <1>1. SessionInv
    BY InitHasInv DEF Init
  <1>2. AgendaTypeOK
    BY DEF Init, AgendaInit, AgendaTypeOK
  <1>3. QuotaTypeOK
    BY QuotaBounds DEF Init, QuotaInit, QuotaTypeOK
  <1>4. DraftsOK
    BY DEF Init, SessionInit, AgendaInit, QuotaInit, DraftsOK, NoRequest
  <1> QED BY <1>1, <1>2, <1>3, <1>4 DEF IInv

(* What Session knows of the types of requests. *)
LEMMA ReqFacts ==
    ASSUME IInv
    PROVE  /\ req \in [Request -> RequestType]
           /\ \A r \in Request : req[r].pc # "idle" => req[r].email \in Email
  BY TypeSplit DEF IInv, SessionInv, RequestsOK

-----------------------------------------------------------------------------
(* Sessions.                                                               *)

(* A step of Session, or the beginning of a call, touches no request that  *)
(* is half-way through a handler of another component.                     *)
LEMMA SessionLeavesOthers ==
    ASSUME IInv,
           \/ SessionNext
           \/ \E r \in Request, t \in Token, handler \in Handler : BeginCall(r, t, handler),
           NEW q \in Request
    PROVE  \/ req'[q] = req[q]
           \/ /\ req[q].pc \notin {"add_participant", "insert_file"}
              /\ req'[q].pc \notin {"add_participant", "insert_file"}
  <1>1. req \in [Request -> RequestType]
    BY ReqFacts
  <1>2. "add_participant" \notin Handler /\ "insert_file" \notin Handler
    BY DEF Handler
  <1>3. ASSUME NEW r \in Request, NEW t \in Token, NEW handler \in Handler, BeginCall(r, t, handler)
        PROVE  req'[q] = req[q] \/ (req[q].pc = "idle" /\ req'[q].pc = "claims")
    <2>1. q # r => req'[q] = req[q]
      BY <1>1, <1>3 DEF BeginCall
    <2>2. req[r].pc = "idle" /\ req'[r].pc = "claims"
      BY <1>1, <1>3 DEF BeginCall
    <2> QED BY <2>1, <2>2
  <1>4. {"logout", "info"} \subseteq Handler
    BY DEF Handler
  <1>5. ASSUME NEW r \in Request, NEW e \in Email, BeginLogin(r, e)
        PROVE  req'[q] = req[q] \/ (req[q].pc = "idle" /\ req'[q].pc = "limit")
    <2>1. q # r => req'[q] = req[q]
      BY <1>1, <1>5 DEF BeginLogin
    <2>2. req[r].pc = "idle" /\ req'[r].pc = "limit"
      BY <1>1, <1>5 DEF BeginLogin, NoRequest
    <2> QED BY <2>1, <2>2
  <1>6. ASSUME NEW r \in Request,
               \/ Return(r) \/ GoTo(r, "password") \/ GoTo(r, "count") \/ GoTo(r, "reset")
               \/ GoTo(r, "ttl") \/ GoTo(r, "window") \/ GoTo(r, "issue")
        PROVE  req'[q] = req[q] \/ (q = r /\ req'[q].pc \notin {"add_participant", "insert_file"})
    <2>1. {"password", "count", "reset", "ttl", "window", "issue"} \subseteq Place
      BY DEF Place
    <2>2. (\A x \in Request : x # r => req'[x] = req[x]) /\ req'[r].pc \notin {"add_participant", "insert_file"}
      BY <1>1, <1>6, <2>1, GoToFacts, ReturnFacts
    <2> QED BY <2>2
  <1>7. ASSUME NEW r \in Request, Login(r)
        PROVE  /\ \/ Return(r) \/ GoTo(r, "password") \/ GoTo(r, "count") \/ GoTo(r, "reset")
                  \/ GoTo(r, "ttl") \/ GoTo(r, "window") \/ GoTo(r, "issue")
               /\ req[r].pc \notin {"add_participant", "insert_file"}
    BY <1>7 DEF Login, CheckLimit, CheckPassword, CountFailure, ReadTtl, SetWindow,
                ResetFailures, IssueToken
  <1>8. ASSUME NEW r \in Request, Authenticated(r)
        PROVE  \/ req'[q] = req[q]
               \/ /\ req[q].pc \notin {"add_participant", "insert_file"}
                  /\ req'[q].pc \notin {"add_participant", "insert_file"}
    <2>1. CASE CheckRevoked(r)
      <3>1. req[r].pc = "claims" /\ req[r].handler \in Handler
        BY <2>1 DEF CheckRevoked, IInv, SessionInv, RequestsOK
      <3>2. CASE GoTo(r, req[r].handler)
        BY <1>1, <1>2, <3>1, <3>2 DEF GoTo
      <3>3. CASE Return(r)
        BY <1>6, <3>1, <3>3
      <3> QED BY <2>1, <3>2, <3>3 DEF CheckRevoked
    <2>2. CASE Revoke(r) \/ Answer(r)
      BY <1>6, <2>2 DEF Revoke, Answer
    <2> QED BY <1>8, <2>1, <2>2 DEF Authenticated
  <1>9. CASE Clock
    BY <1>9 DEF Clock, Tick, ExpireCounter, ExpireRevoked
  <1> QED BY <1>3, <1>4, <1>5, <1>6, <1>7, <1>8, <1>9 DEF SessionNext

(* With the rest unchanged, such a step keeps what is said of the others.  *)
LEMMA OthersKept ==
    ASSUME IInv, UNCHANGED <<agendaVars, quotaVars>>, SessionInv',
           \A q \in Request :
               \/ req'[q] = req[q]
               \/ /\ req[q].pc \notin {"add_participant", "insert_file"}
                  /\ req'[q].pc \notin {"add_participant", "insert_file"}
    PROVE  IInv'
  <1>1. AgendaTypeOK'
    BY DEF IInv, AgendaTypeOK, agendaVars
  <1>2. QuotaTypeOK'
    BY DEF IInv, QuotaTypeOK, quotaVars
  <1>3. DraftsOK'
    BY DEF IInv, DraftsOK, agendaVars, quotaVars
  <1> QED BY <1>1, <1>2, <1>3 DEF IInv

LEMMA StutterKeepsSession ==
    ASSUME SessionInv, UNCHANGED sessionVars
    PROVE  SessionInv'
  BY DEF sessionVars, SessionInv, SessionTypeOK, RequestsOK, BlacklistOK,
         LoggedOutIsRefused, CountersOK, NoTtlMeansCut, LimitOK, Trying, Of

LEMMA SessionIInv ==
    ASSUME IInv, SessionNext, UNCHANGED <<agendaVars, quotaVars>>
    PROVE  IInv'
  BY SessionLeavesOthers, SessionNextKeepsInv, OthersKept DEF IInv

LEMMA BeginIInv ==
    ASSUME IInv, NEW r \in Request, NEW t \in Token, NEW handler \in Handler,
           BeginCall(r, t, handler), UNCHANGED <<agendaVars, quotaVars>>
    PROVE  IInv'
  BY SessionLeavesOthers, BeginCallKeepsInv, OthersKept DEF IInv

-----------------------------------------------------------------------------
(* The agenda.                                                             *)

LEMMA InsertEventIInv ==
    ASSUME IInv, NEW r \in Request, NEW v \in Event, InsertEvent(r, v), UNCHANGED quotaVars
    PROVE  IInv'
  <1>1. PICK e \in Email : req[r].pc = "create_event" /\ req[r].email = e
    BY ReqFacts DEF InsertEvent
  <1>2. "add_participant" \in Place /\ GoTo(r, "add_participant")
    BY DEF InsertEvent, Place
  <1>3. /\ req'[r].pc = "add_participant" /\ req'[r].email = e
        /\ \A q \in Request : q # r => req'[q] = req[q]
    BY <1>1, <1>2, ReqFacts, GoToFacts
  <1>4. SessionInv'
    BY <1>1, ElsewhereKeepsInv DEF IInv, InsertEvent, Elsewhere
  <1>5. /\ owner \in [Event -> Email \cup {NULL}] /\ owner[v] = NULL
        /\ owner' = [owner EXCEPT ![v] = e]
        /\ making \in [Request -> Event \cup {NULL}] /\ making' = [making EXCEPT ![r] = v]
        /\ UNCHANGED <<participants, declared>>
        /\ v # NULL /\ e # NULL
    BY <1>1, AgendaNull, SessionNull DEF IInv, InsertEvent, AgendaTypeOK, quotaVars
  <1>6. /\ owner'[v] = e /\ \A x \in Event : x # v => owner'[x] = owner[x]
        /\ making'[r] = v /\ \A q \in Request : q # r => making'[q] = making[q]
    BY <1>5
  <1>7. AgendaTypeOK'
    BY <1>5, <1>6 DEF IInv, AgendaTypeOK
  <1>8. DraftsOK'
    <2>1. declared[r] # 0 => FALSE
      BY <1>1 DEF IInv, DraftsOK
    <2>2. ASSUME NEW q \in Request, q # r, req[q].pc = "add_participant"
          PROVE  owner'[making'[q]] = req'[q].email
      <3>1. making[q] \in Event /\ owner[making[q]] = req[q].email /\ req[q].email \in Email
        BY <1>5, <2>2, ReqFacts DEF IInv, DraftsOK
      <3> QED BY <1>3, <1>5, <1>6, <2>2, <3>1, SessionNull
    <2> QED BY <1>3, <1>5, <1>6, <2>1, <2>2 DEF IInv, DraftsOK
  <1>9. QuotaTypeOK'
    BY DEF IInv, QuotaTypeOK, quotaVars
  <1> QED BY <1>4, <1>7, <1>8, <1>9 DEF IInv

LEMMA AddParticipantIInv ==
    ASSUME IInv, NEW r \in Request, AddParticipant(r), UNCHANGED quotaVars
    PROVE  IInv'
  <1>1. PICK e \in Email : req[r].pc = "add_participant" /\ req[r].email = e
    BY ReqFacts DEF AddParticipant
  <1>2. PICK v \in Event : making[r] = v /\ owner[v] = e /\ owner[v] # NULL
    BY <1>1, SessionNull DEF IInv, AgendaTypeOK, DraftsOK
  <1>3. req'[r].pc = "idle" /\ \A q \in Request : q # r => req'[q] = req[q]
    BY ReqFacts, ReturnFacts DEF AddParticipant
  <1>4. SessionInv'
    BY <1>1, ElsewhereKeepsInv DEF IInv, AddParticipant, Elsewhere
  <1>5. /\ participants' = participants \cup {<<v, e>>}
        /\ making \in [Request -> Event \cup {NULL}] /\ making' = [making EXCEPT ![r] = NULL]
        /\ UNCHANGED <<owner, declared>>
    BY <1>1, <1>2 DEF IInv, AddParticipant, AgendaTypeOK, quotaVars
  <1>6. AgendaTypeOK'
    BY <1>2, <1>5 DEF IInv, AgendaTypeOK
  <1>7. DraftsOK'
    BY <1>1, <1>3, <1>5 DEF IInv, DraftsOK
  <1>8. QuotaTypeOK'
    BY DEF IInv, QuotaTypeOK, quotaVars
  <1> QED BY <1>4, <1>6, <1>7, <1>8 DEF IInv

-----------------------------------------------------------------------------
(* The quota.                                                              *)

LEMMA ChargeKeepsNat ==
    ASSUME unchecked \in [Email -> Nat], NEW u \in Email, NEW n \in Int, Charge(u, n)
    PROVE  /\ unchecked' \in [Email -> Nat]
           /\ unchecked'[u] >= unchecked[u] + n
           /\ \A v \in Email : v # u => unchecked'[v] = unchecked[v]
  <1>1. unchecked' = [unchecked EXCEPT ![u] = Positive(unchecked[u] + n)]
    BY DEF Charge
  <1>2. Positive(unchecked[u] + n) \in Nat /\ Positive(unchecked[u] + n) >= unchecked[u] + n
    BY DEF Positive
  <1> QED BY <1>1, <1>2

LEMMA RowsKeepType ==
    ASSUME rows \in [Email -> [Size -> Nat]], NEW u \in Email, NEW s \in Size, NEW d \in Int,
           rows[u][s] + d \in Nat, rows' = [rows EXCEPT ![u][s] = @ + d]
    PROVE  /\ rows' \in [Email -> [Size -> Nat]]
           /\ rows'[u] = [rows[u] EXCEPT ![s] = @ + d]
           /\ \A v \in Email : v # u => rows'[v] = rows[v]
  <1> DEFINE row == [rows[u] EXCEPT ![s] = @ + d]
  <1>1. row \in [Size -> Nat]
    OBVIOUS
  <1>2. rows' = [rows EXCEPT ![u] = row]
    OBVIOUS
  <1> HIDE DEF row
  <1>3. rows' \in [Email -> [Size -> Nat]] /\ rows'[u] = row
        /\ \A v \in Email : v # u => rows'[v] = rows[v]
    BY <1>1, <1>2
  <1> QED BY <1>3 DEF row

LEMMA AddRowFacts ==
    ASSUME QuotaTypeOK, NEW u \in Email, NEW s \in Size, AddRow(u, s)
    PROVE  /\ rows' \in [Email -> [Size -> Nat]]
           /\ rows'[u] = [rows[u] EXCEPT ![s] = @ + 1]
           /\ \A v \in Email : v # u => rows'[v] = rows[v]
  <1>1. rows \in [Email -> [Size -> Nat]] /\ rows' = [rows EXCEPT ![u][s] = @ + 1]
    BY DEF QuotaTypeOK, AddRow
  <1>2. rows[u][s] + 1 \in Nat /\ 1 \in Int
    BY <1>1
  <1> QED BY <1>1, <1>2, RowsKeepType

LEMMA DropRowFacts ==
    ASSUME QuotaTypeOK, NEW u \in Email, NEW s \in Size, DropRow(u, s)
    PROVE  /\ rows' \in [Email -> [Size -> Nat]]
           /\ rows'[u] = [rows[u] EXCEPT ![s] = @ + (-1)]
           /\ \A v \in Email : v # u => rows'[v] = rows[v]
  <1>1. rows \in [Email -> [Size -> Nat]] /\ rows[u][s] > 0
        /\ rows' = [rows EXCEPT ![u][s] = @ - 1]
    BY DEF QuotaTypeOK, DropRow
  <1>2. rows[u][s] + (-1) \in Nat /\ -1 \in Int /\ rows[u][s] - 1 = rows[u][s] + (-1)
    BY <1>1
  <1>3. rows' = [rows EXCEPT ![u][s] = @ + (-1)]
    BY <1>1, <1>2
  <1> QED BY <1>1, <1>2, <1>3, RowsKeepType

LEMMA CheckSpaceIInv ==
    ASSUME IInv, NEW r \in Request, NEW s \in Size, CheckSpace(r, s), UNCHANGED agendaVars
    PROVE  IInv'
  <1>1. PICK e \in Email : req[r].pc = "drive_info" /\ req[r].email = e
    BY ReqFacts DEF CheckSpace
  <1>2. "insert_file" \in Place
    BY DEF Place
  <1>3. \/ GoTo(r, "insert_file") /\ declared' = [declared EXCEPT ![r] = s]
        \/ Return(r) /\ declared' = declared
    BY DEF CheckSpace
  <1>4. /\ \/ req'[r].pc = "insert_file" /\ declared' = [declared EXCEPT ![r] = s]
           \/ req'[r].pc = "idle" /\ declared' = declared
        /\ \A q \in Request : q # r => req'[q] = req[q]
    BY <1>2, <1>3, ReqFacts, GoToFacts, ReturnFacts
  <1>5. SessionInv'
    BY <1>1, <1>3, ElsewhereKeepsInv DEF IInv, CheckSpace, Elsewhere
  <1>6. AgendaTypeOK'
    BY DEF IInv, AgendaTypeOK, agendaVars
  <1>7. declared \in [Request -> Size \cup {0}] /\ declared' \in [Request -> Size \cup {0}]
    BY <1>4 DEF IInv, QuotaTypeOK
  <1>8. QuotaTypeOK'
    BY <1>7 DEF IInv, QuotaTypeOK, CheckSpace
  <1>9. DraftsOK'
    BY <1>1, <1>4, <1>7 DEF IInv, DraftsOK, agendaVars
  <1> QED BY <1>5, <1>6, <1>8, <1>9 DEF IInv

(* What InsertFile does to the account of its request. *)
LEMMA InsertFileFacts ==
    ASSUME IInv, NEW r \in Request, InsertFile(r)
    PROVE  /\ req[r].pc = "insert_file" /\ req[r].email \in Email
           /\ declared[r] \in Size
           /\ AddRow(req[r].email, declared[r])
           /\ \E n \in Int : /\ Charge(req[r].email, n)
                             /\ r \in wrapped \/ declared[r] < 0 => n = declared[r]
                             /\ ~(r \in wrapped \/ declared[r] < 0) => n = 0
  <1>1. req[r].pc = "insert_file" /\ req[r].email \in Email
    BY ReqFacts DEF InsertFile
  <1>2. declared[r] \in Size
    BY DEF IInv, DraftsOK, InsertFile
  <1>3. declared[r] \in Int
    BY <1>2, QuotaSizes
  <1> QED BY <1>1, <1>2, <1>3 DEF InsertFile

LEMMA InsertFileIInv ==
    ASSUME IInv, NEW r \in Request, InsertFile(r), UNCHANGED agendaVars
    PROVE  IInv'
  <1>1. req[r].pc = "insert_file"
    BY DEF InsertFile
  <1>2. req'[r].pc = "idle" /\ \A q \in Request : q # r => req'[q] = req[q]
    BY ReqFacts, ReturnFacts DEF InsertFile
  <1>3. SessionInv'
    BY <1>1, ElsewhereKeepsInv DEF IInv, InsertFile, Elsewhere
  <1>4. AgendaTypeOK'
    BY DEF IInv, AgendaTypeOK, agendaVars
  <1>5. /\ declared \in [Request -> Size \cup {0}] /\ declared' = [declared EXCEPT ![r] = 0]
        /\ wrapped' \subseteq Request
    BY DEF IInv, QuotaTypeOK, InsertFile
  <1>6. QuotaTypeOK'
    <2>1. rows' \in [Email -> [Size -> Nat]]
      BY InsertFileFacts, AddRowFacts DEF IInv
    <2>2. unchecked' \in [Email -> Nat]
      BY InsertFileFacts, ChargeKeepsNat DEF IInv, QuotaTypeOK
    <2> QED BY <1>5, <2>1, <2>2 DEF QuotaTypeOK
  <1>7. DraftsOK'
    BY <1>1, <1>2, <1>5 DEF IInv, DraftsOK, agendaVars
  <1> QED BY <1>3, <1>4, <1>6, <1>7 DEF IInv

LEMMA SizesAreInts == \A s \in Size : s \in Int /\ -s \in Int /\ s <= MaxSize
  BY QuotaSizes

LEMMA DropKeepsType ==
    ASSUME QuotaTypeOK, NEW u \in Email, NEW s \in Size, DropRow(u, s), Charge(u, -s),
           UNCHANGED <<declared, wrapped>>
    PROVE  QuotaTypeOK'
  <1>1. rows' \in [Email -> [Size -> Nat]]
    BY DropRowFacts
  <1>2. unchecked' \in [Email -> Nat]
    BY ChargeKeepsNat, SizesAreInts DEF QuotaTypeOK
  <1> QED BY <1>1, <1>2 DEF QuotaTypeOK

LEMMA DestroyFileIInv ==
    ASSUME IInv, NEW r \in Request, NEW s \in Size, DestroyFile(r, s), UNCHANGED agendaVars
    PROVE  IInv'
  <1>1. req[r].pc = "destroy" /\ Return(r) /\ req[r].email \in Email
    BY ReqFacts DEF DestroyFile
  <1>2. req'[r].pc = "idle" /\ \A q \in Request : q # r => req'[q] = req[q]
    BY <1>1, ReqFacts, ReturnFacts
  <1>3. SessionInv'
    BY <1>1, ElsewhereKeepsInv DEF IInv, DestroyFile, Elsewhere
  <1>4. AgendaTypeOK'
    BY DEF IInv, AgendaTypeOK, agendaVars
  <1>5. QuotaTypeOK'
    BY <1>1, DropKeepsType DEF IInv, DestroyFile
  <1>6. DraftsOK'
    BY <1>1, <1>2 DEF IInv, DraftsOK, agendaVars, DestroyFile
  <1> QED BY <1>3, <1>4, <1>5, <1>6 DEF IInv

LEMMA GainOrLoseIInv ==
    ASSUME IInv, NEW u \in Email, NEW s \in Size, GainFile(u, s) \/ LoseFile(u, s),
           UNCHANGED agendaVars
    PROVE  IInv'
  <1>1. UNCHANGED sessionVars /\ UNCHANGED <<declared, wrapped>>
    BY DEF GainFile, LoseFile
  <1>2. SessionInv'
    BY <1>1, StutterKeepsSession DEF IInv
  <1>3. AgendaTypeOK'
    BY DEF IInv, AgendaTypeOK, agendaVars
  <1>4. QuotaTypeOK'
    <2>1. CASE GainFile(u, s)
      <3>1. AddRow(u, s) /\ Charge(u, s)
        BY <2>1 DEF GainFile
      <3>2. rows' \in [Email -> [Size -> Nat]]
        BY <3>1, AddRowFacts DEF IInv
      <3>3. unchecked' \in [Email -> Nat]
        BY <3>1, ChargeKeepsNat, SizesAreInts DEF IInv, QuotaTypeOK
      <3> QED BY <1>1, <3>2, <3>3 DEF IInv, QuotaTypeOK
    <2>2. CASE LoseFile(u, s)
      BY <2>2, DropKeepsType DEF IInv, LoseFile
    <2> QED BY <2>1, <2>2
  <1>5. DraftsOK'
    BY <1>1 DEF IInv, DraftsOK, agendaVars, sessionVars
  <1> QED BY <1>2, <1>3, <1>4, <1>5 DEF IInv

-----------------------------------------------------------------------------
LEMMA CutIInv ==
    ASSUME IInv, NEW r \in Request, Cut(r)
    PROVE  IInv'
  <1>1. SessionInv'
    BY CancelKeepsInv DEF IInv, Cut
  <1>2. req'[r].pc = "idle" /\ \A q \in Request : q # r => req'[q] = req[q]
    BY ReqFacts, ReturnFacts DEF Cut, Cancel
  <1>3. /\ making' = [making EXCEPT ![r] = NULL] /\ declared' = [declared EXCEPT ![r] = 0]
        /\ UNCHANGED <<owner, participants, rows, unchecked>> /\ wrapped' = wrapped \ {r}
    BY DEF Cut, ForgetDraft, ForgetBody
  <1>4. AgendaTypeOK'
    BY <1>3 DEF IInv, AgendaTypeOK
  <1>5. QuotaTypeOK'
    BY <1>3 DEF IInv, QuotaTypeOK
  <1>6. DraftsOK'
    BY <1>2, <1>3 DEF IInv, DraftsOK, AgendaTypeOK, QuotaTypeOK
  <1> QED BY <1>1, <1>4, <1>5, <1>6 DEF IInv

LEMMA NextIInv == IInv /\ [Next]_vars => IInv'
  <1> SUFFICES ASSUME IInv, [Next]_vars PROVE IInv'
    OBVIOUS
  <1>1. {"create_event", "drive_info", "destroy"} \subseteq Handler
    BY DEF Handler
  <1>2. CASE AgendaNext /\ UNCHANGED quotaVars
    BY <1>1, <1>2, BeginIInv, InsertEventIInv, AddParticipantIInv DEF AgendaNext, BeginCreateEvent
  <1>3. CASE QuotaNext /\ UNCHANGED agendaVars
    BY <1>1, <1>3, BeginIInv, CheckSpaceIInv, InsertFileIInv, DestroyFileIInv, GainOrLoseIInv
    DEF QuotaNext, BeginInitialize, BeginDestroy
  <1>4. CASE UNCHANGED vars
    <2>1. UNCHANGED <<sessionVars, agendaVars, quotaVars>>
      BY <1>4 DEF vars
    <2>2. SessionInv'
      BY <2>1, StutterKeepsSession DEF IInv
    <2> QED BY <2>1, <2>2, OthersKept DEF sessionVars
  <1> QED BY <1>2, <1>3, <1>4, SessionIInv, CutIInv DEF Next

LEMMA Inductive == Spec => []IInv
  BY InitIInv, NextIInv, PTL DEF Spec

-----------------------------------------------------------------------------
(* Sums over finite sets.  What MapThenSumSet adds up does not depend on   *)
(* the order in which CHOOSE takes the members.                            *)

First(s) == CHOOSE x \in s : TRUE

(* g holds the sum of w over each subset of S. *)
IsSum(g, w, S) ==
    g = [s \in SUBSET S |->
           IF s = {} THEN 0 ELSE LET x == First(s) IN w[x] + g[s \ {x}]]

Unfolds(g, w, S) ==
    \A T \in SUBSET S :
        /\ T = {} => g[T] = 0
        /\ T # {} => First(T) \in T /\ g[T] = w[First(T)] + g[T \ {First(T)}]

Agree(g, h, S) == \A T \in SUBSET S : g[T] = h[T]

Total(w, S) == (CHOOSE g : IsSum(g, w, S))[S]

LEMMA UsedIsTotal ==
    ASSUME NEW u
    PROVE  Used(u) = Total(Weight(u), Size)
  BY DEF Used, Total, First, IsSum, MapThenSumSet, MapThenFoldSet

LEMMA LeastNumber ==
    ASSUME NEW T \in SUBSET Nat, T # {}
    PROVE  \E n \in T : \A m \in T : n <= m
  <1> DEFINE R == OpToRel(<, Nat)
  <1>1. \E n \in T : \A m \in T : <<m, n>> \notin R
    BY NatLessThanWellFounded, WFMin, Zenon
  <1>2. R = {s \in Nat \X Nat : s[1] < s[2]}
    BY Zenon DEF OpToRel
  <1> HIDE DEF R
  <1>3. \A m \in Nat, n \in Nat : m < n => <<m, n>> \in R
    BY <1>2
  <1>4. PICK n \in T : \A m \in T : <<m, n>> \notin R
    BY <1>1
  <1>5. ASSUME NEW m \in T PROVE n <= m
    <2>1. ~ (m < n)
      BY <1>3, <1>4
    <2> QED BY <2>1
  <1> QED BY <1>4, <1>5

(* A set of finite subsets that is not empty has a smallest member. *)
LEMMA SmallestMember ==
    ASSUME NEW P, P # {}, \A T \in P : IsFiniteSet(T)
    PROVE  \E T \in P : \A S \in P : Cardinality(T) <= Cardinality(S)
  <1> DEFINE Sizes == {Cardinality(T) : T \in P}
  <1>1. Sizes \in SUBSET Nat /\ Sizes # {}
    BY FS_CardinalityType
  <1>2. PICK n \in Sizes : \A m \in Sizes : n <= m
    BY <1>1, LeastNumber
  <1> QED BY <1>2

(* Induction on the subsets of a finite set: a smallest one outside G has  *)
(* all its own subsets in G.                                               *)
LEMMA SetInduction ==
    ASSUME NEW U, IsFiniteSet(U), NEW G \in SUBSET (SUBSET U),
           \A T \in SUBSET U : (\A S \in SUBSET T : S # T => S \in G) => T \in G
    PROVE  G = SUBSET U
  <1> SUFFICES ASSUME G # SUBSET U PROVE FALSE
    OBVIOUS
  <1> DEFINE Bad == (SUBSET U) \ G
  <1>1. Bad # {} /\ \A T \in Bad : IsFiniteSet(T)
    BY FS_Subset
  <1>2. PICK T \in Bad : \A S \in Bad : Cardinality(T) <= Cardinality(S)
    BY <1>1, SmallestMember
  <1>3. PICK S \in SUBSET T : S # T /\ S \notin G
    <2>1. T \in SUBSET U /\ T \notin G
      OBVIOUS
    <2> QED BY <2>1
  <1>4. S \in Bad
    BY <1>3
  <1>5. IsFiniteSet(T) /\ Cardinality(S) <= Cardinality(T) /\ Cardinality(T) <= Cardinality(S)
        /\ Cardinality(S) \in Nat /\ Cardinality(T) \in Nat
    BY <1>1, <1>2, <1>4, FS_Subset, FS_CardinalityType
  <1>6. S = T
    BY <1>5, FS_Subset
  <1> QED BY <1>3, <1>6

LEMMA SumUnfolds ==
    ASSUME NEW g, NEW w, NEW S, IsSum(g, w, S)
    PROVE  Unfolds(g, w, S)
  <1> SUFFICES ASSUME NEW T \in SUBSET S
               PROVE  /\ T = {} => g[T] = 0
                      /\ T # {} => First(T) \in T /\ g[T] = w[First(T)] + g[T \ {First(T)}]
    BY DEF Unfolds
  <1>1. g[T] = IF T = {} THEN 0 ELSE w[First(T)] + g[T \ {First(T)}]
    BY DEF IsSum
  <1>2. T # {} => First(T) \in T
    BY DEF First
  <1> QED BY <1>1, <1>2

(* Sums of the same weights agree on the subsets they share. *)
LEMMA SumsAgree ==
    ASSUME NEW S, NEW U, IsFiniteSet(S), S \subseteq U, NEW v, NEW w, \A x \in S : v[x] = w[x],
           NEW g, NEW h, IsSum(g, v, S), IsSum(h, w, U)
    PROVE  Agree(g, h, S)
  <1>1. Unfolds(g, v, S)
    BY SumUnfolds
  <1>2. Unfolds(h, w, U)
    BY SumUnfolds
  <1> DEFINE G == {T \in SUBSET S : g[T] = h[T]}
  <1>3. ASSUME NEW T \in SUBSET S, \A R \in SUBSET T : R # T => R \in G
        PROVE  T \in G
    <2>1. T \in SUBSET U
      OBVIOUS
    <2>2. CASE T = {}
      BY <1>1, <1>2, <2>1, <2>2 DEF Unfolds
    <2>3. CASE T # {}
      <3>1. First(T) \in T /\ g[T] = v[First(T)] + g[T \ {First(T)}]
        BY <1>1, <2>3 DEF Unfolds
      <3>2. h[T] = w[First(T)] + h[T \ {First(T)}]
        BY <1>2, <2>1, <2>3 DEF Unfolds
      <3>3. T \ {First(T)} \in G
        BY <1>3, <3>1
      <3> QED BY <3>1, <3>2, <3>3
    <2> QED BY <2>2, <2>3
  <1>4. G \in SUBSET (SUBSET S)
    OBVIOUS
  <1> HIDE DEF G
  <1>5. G = SUBSET S
    BY <1>3, <1>4, SetInduction
  <1> QED BY <1>5 DEF G, Agree

(* The recursion has a solution: one for T is put together from those for  *)
(* its smaller subsets.                                                    *)
LEMMA SumExists ==
    ASSUME NEW S, IsFiniteSet(S), NEW w
    PROVE  \E g : IsSum(g, w, S)
  <1> DEFINE G == {T \in SUBSET S : \E g : IsSum(g, w, T)}
  <1>1. ASSUME NEW T \in SUBSET S, \A R \in SUBSET T : R # T => R \in G
        PROVE  T \in G
    <2>0. \A R \in SUBSET T : R # T => \E g : IsSum(g, w, R)
      BY <1>1
    <2>1. PICK h : \A R \in SUBSET T : R # T => IsSum(h[R], w, R)
      <3> DEFINE h == [R \in SUBSET T |-> CHOOSE g : IsSum(g, w, R)]
      <3>1. ASSUME NEW R \in SUBSET T, R # T PROVE IsSum(h[R], w, R)
        BY <2>0, <3>1
      <3> QED BY <3>1
    <2> DEFINE k == [R \in SUBSET T |->
            IF R = {} THEN 0 ELSE w[First(R)] + h[R \ {First(R)}][R \ {First(R)}]]
    <2>2. ASSUME NEW R \in SUBSET T, R # T PROVE k[R] = h[R][R]
      <3>1. CASE R = {}
        BY <2>1, <2>2, <3>1, SumUnfolds DEF Unfolds
      <3>2. CASE R # {}
        <4> DEFINE Q == R \ {First(R)}
        <4>1. First(R) \in R /\ h[R][R] = w[First(R)] + h[R][Q]
          <5>1. IsSum(h[R], w, R) /\ R \in SUBSET R
            BY <2>1, <2>2
          <5> QED BY <3>2, <5>1, SumUnfolds DEF Unfolds
        <4>2. Q \in SUBSET T /\ Q # T /\ Q \subseteq R
          BY <4>1
        <4>3. IsSum(h[Q], w, Q) /\ IsSum(h[R], w, R) /\ IsFiniteSet(Q)
          BY <2>1, <2>2, <4>2, FS_Subset
        <4>4. h[Q][Q] = h[R][Q]
          <5>1. Agree(h[Q], h[R], Q)
            BY <4>2, <4>3, SumsAgree
          <5> QED BY <5>1 DEF Agree
        <4> QED BY <3>2, <4>1, <4>4
      <3> QED BY <3>1, <3>2
    <2>3. IsSum(k, w, T)
      <3> SUFFICES ASSUME NEW R \in SUBSET T, R # {}
                   PROVE  h[R \ {First(R)}][R \ {First(R)}] = k[R \ {First(R)}]
        BY DEF IsSum
      <3>1. First(R) \in R
        BY DEF First
      <3>2. R \ {First(R)} \in SUBSET T /\ R \ {First(R)} # T
        BY <3>1
      <3> QED BY <2>2, <3>2
    <2> QED BY <2>3
  <1> HIDE DEF G
  <1>2. G = SUBSET S
    <2>1. G \in SUBSET (SUBSET S)
      BY DEF G
    <2> QED BY <1>1, <2>1, SetInduction
  <1>3. S \in G
    BY <1>2
  <1> QED BY <1>3 DEF G

LEMMA SumIsInt ==
    ASSUME NEW S, IsFiniteSet(S), NEW w, \A x \in S : w[x] \in Int, NEW g, IsSum(g, w, S)
    PROVE  \A T \in SUBSET S : g[T] \in Int
  <1>1. Unfolds(g, w, S)
    BY SumUnfolds
  <1> DEFINE G == {T \in SUBSET S : g[T] \in Int}
  <1>2. ASSUME NEW T \in SUBSET S, \A R \in SUBSET T : R # T => R \in G
        PROVE  T \in G
    <2>1. CASE T = {}
      <3>1. g[T] = 0
        BY <1>1, <2>1 DEF Unfolds
      <3> QED BY <3>1
    <2>2. CASE T # {}
      <3>1. First(T) \in T /\ g[T] = w[First(T)] + g[T \ {First(T)}]
        BY <1>1, <2>2 DEF Unfolds
      <3>2. T \ {First(T)} \in G
        BY <1>2, <3>1
      <3>3. w[First(T)] \in Int
        BY <3>1
      <3> QED BY <3>1, <3>2, <3>3
    <2> QED BY <2>1, <2>2
  <1>3. G \in SUBSET (SUBSET S)
    OBVIOUS
  <1> HIDE DEF G
  <1>4. G = SUBSET S
    BY <1>2, <1>3, SetInduction
  <1> QED BY <1>4 DEF G

(* A member adds its weight, whichever is taken first. *)
LEMMA SumAdds ==
    ASSUME NEW S, IsFiniteSet(S), NEW w, \A x \in S : w[x] \in Int, NEW g, IsSum(g, w, S)
    PROVE  \A T \in SUBSET S, x \in S : x \notin T => g[T \cup {x}] = g[T] + w[x]
  <1>1. Unfolds(g, w, S) /\ \A T \in SUBSET S : g[T] \in Int
    BY SumUnfolds, SumIsInt
  <1> DEFINE G == {T \in SUBSET S : \A x \in S : x \notin T => g[T \cup {x}] = g[T] + w[x]}
  <1>2. ASSUME NEW T \in SUBSET S, \A R \in SUBSET T : R # T => R \in G
        PROVE  T \in G
    <2> SUFFICES ASSUME NEW x \in S, x \notin T PROVE g[T \cup {x}] = g[T] + w[x]
      OBVIOUS
    <2> DEFINE y == First(T \cup {x})
    <2>1. T \cup {x} \in SUBSET S /\ T \cup {x} # {}
      OBVIOUS
    <2>2. y \in T \cup {x} /\ g[T \cup {x}] = w[y] + g[(T \cup {x}) \ {y}]
      BY <1>1, <2>1 DEF Unfolds
    <2> HIDE DEF y
    <2>3. CASE y = x
      <3>1. (T \cup {x}) \ {y} = T
        BY <2>3
      <3>2. g[T] \in Int /\ w[x] \in Int
        BY <1>1
      <3>3. g[T \cup {x}] = w[x] + g[T]
        BY <2>2, <2>3, <3>1
      <3> QED BY <3>2, <3>3
    <2>4. CASE y # x
      <3> DEFINE R == T \ {y}
      <3>1. y \in T /\ R \in SUBSET T /\ R # T /\ x \notin R /\ y \notin R /\ y \in S
        BY <2>2, <2>4
      <3>2. (T \cup {x}) \ {y} = R \cup {x} /\ R \cup {y} = T
        BY <2>4, <3>1
      <3>3. R \in G
        BY <1>2, <3>1
      <3>4. g[R \cup {x}] = g[R] + w[x] /\ g[R \cup {y}] = g[R] + w[y]
        BY <3>1, <3>3
      <3>5. g[R] \in Int /\ w[x] \in Int /\ w[y] \in Int
        BY <1>1, <3>1
      <3> HIDE DEF R
      <3>6. g[T \cup {x}] = w[y] + g[R \cup {x}] /\ g[T] = g[R \cup {y}]
        BY <2>2, <3>2
      <3> QED BY <3>4, <3>5, <3>6
    <2> QED BY <2>3, <2>4
  <1>3. G \in SUBSET (SUBSET S)
    OBVIOUS
  <1> HIDE DEF G
  <1>4. G = SUBSET S
    BY <1>2, <1>3, SetInduction
  <1> QED BY <1>4 DEF G

LEMMA TotalIsSum ==
    ASSUME NEW S, IsFiniteSet(S), NEW w
    PROVE  \E g : IsSum(g, w, S) /\ Total(w, S) = g[S]
  BY SumExists DEF Total

LEMMA TotalOfNone ==
    ASSUME NEW w
    PROVE  Total(w, {}) = 0
  <1>1. IsFiniteSet({})
    BY FS_EmptySet
  <1>2. PICK g : IsSum(g, w, {}) /\ Total(w, {}) = g[{}]
    BY <1>1, TotalIsSum
  <1>3. Unfolds(g, w, {})
    BY <1>2, SumUnfolds
  <1> QED BY <1>2, <1>3 DEF Unfolds

LEMMA TotalIsInt ==
    ASSUME NEW S, IsFiniteSet(S), NEW w, \A x \in S : w[x] \in Int
    PROVE  Total(w, S) \in Int
  <1>1. PICK g : IsSum(g, w, S) /\ Total(w, S) = g[S]
    BY TotalIsSum
  <1>2. \A T \in SUBSET S : g[T] \in Int
    BY <1>1, SumIsInt
  <1> QED BY <1>1, <1>2

LEMMA TotalOfSame ==
    ASSUME NEW S, IsFiniteSet(S), NEW v, NEW w, \A x \in S : v[x] = w[x]
    PROVE  Total(v, S) = Total(w, S)
  <1>1. PICK g : IsSum(g, v, S) /\ Total(v, S) = g[S]
    BY TotalIsSum
  <1>2. PICK h : IsSum(h, w, S) /\ Total(w, S) = h[S]
    BY TotalIsSum
  <1>3. S \subseteq S
    OBVIOUS
  <1>4. Agree(g, h, S)
    BY <1>1, <1>2, <1>3, SumsAgree
  <1> QED BY <1>1, <1>2, <1>4 DEF Agree

LEMMA TotalOfOneMore ==
    ASSUME NEW S, IsFiniteSet(S), NEW x, x \notin S, NEW w, \A y \in S \cup {x} : w[y] \in Int
    PROVE  Total(w, S \cup {x}) = Total(w, S) + w[x]
  <1> DEFINE U == S \cup {x}
  <1>1. IsFiniteSet(U)
    BY FS_AddElement
  <1>2. PICK g : IsSum(g, w, S) /\ Total(w, S) = g[S]
    BY TotalIsSum
  <1>3. PICK h : IsSum(h, w, U) /\ Total(w, U) = h[U]
    BY <1>1, TotalIsSum
  <1>4. S \subseteq U /\ x \in U /\ \A y \in U : w[y] \in Int
    OBVIOUS
  <1> HIDE DEF U
  <1>5. Agree(g, h, S)
    BY <1>2, <1>3, <1>4, SumsAgree
  <1>6. \A T \in SUBSET U, y \in U : y \notin T => h[T \cup {y}] = h[T] + w[y]
    BY <1>1, <1>3, <1>4, SumAdds
  <1>7. h[S \cup {x}] = h[S] + w[x]
    BY <1>4, <1>6
  <1> QED BY <1>2, <1>3, <1>5, <1>7 DEF Agree, U

-----------------------------------------------------------------------------

LEMMA TotalOfNothing ==
    ASSUME NEW S, IsFiniteSet(S), NEW w, \A x \in S : w[x] = 0
    PROVE  Total(w, S) = 0
  <1>1. PICK g : IsSum(g, w, S) /\ Total(w, S) = g[S]
    BY TotalIsSum
  <1>2. Unfolds(g, w, S)
    BY <1>1, SumUnfolds
  <1> DEFINE G == {T \in SUBSET S : g[T] = 0}
  <1>3. ASSUME NEW T \in SUBSET S, \A R \in SUBSET T : R # T => R \in G
        PROVE  T \in G
    <2>1. CASE T = {}
      BY <1>2, <2>1 DEF Unfolds
    <2>2. CASE T # {}
      <3>1. First(T) \in T /\ g[T] = w[First(T)] + g[T \ {First(T)}]
        BY <1>2, <2>2 DEF Unfolds
      <3>2. T \ {First(T)} \in G
        BY <1>3, <3>1
      <3> QED BY <3>1, <3>2
    <2> QED BY <2>1, <2>2
  <1>4. G \in SUBSET (SUBSET S)
    OBVIOUS
  <1> HIDE DEF G
  <1>5. G = SUBSET S
    BY <1>3, <1>4, SetInduction
  <1> QED BY <1>1, <1>5 DEF G

(* Other weights for one member change the total by the difference. *)
LEMMA TotalOfOneChange ==
    ASSUME NEW S, IsFiniteSet(S), NEW x \in S, NEW d \in Int, NEW v, NEW w,
           \A y \in S : w[y] \in Int, v[x] = w[x] + d, \A y \in S : y # x => v[y] = w[y]
    PROVE  Total(v, S) = Total(w, S) + d
  <1> DEFINE R == S \ {x}
  <1>1. IsFiniteSet(R) /\ x \notin R /\ S = R \cup {x}
    BY FS_RemoveElement
  <1>2. /\ \A y \in R \cup {x} : w[y] \in Int
        /\ \A y \in R \cup {x} : v[y] \in Int
        /\ \A y \in R : v[y] = w[y]
    OBVIOUS
  <1> HIDE DEF R
  <1>3. Total(v, S) = Total(v, R) + v[x] /\ Total(w, S) = Total(w, R) + w[x]
    BY <1>1, <1>2, TotalOfOneMore
  <1>4. Total(v, R) = Total(w, R) /\ Total(w, R) \in Int
    <2>1. \A y \in R : w[y] \in Int
      BY <1>2
    <2> QED BY <1>1, <1>2, <2>1, TotalOfSame, TotalIsInt
  <1>5. w[x] \in Int
    OBVIOUS
  <1> QED BY <1>3, <1>4, <1>5

-----------------------------------------------------------------------------
(* The space of an account.                                                *)

(* The requests for u whose file was found to fit as a sum of numbers, and *)
(* is not in the table yet.                                                *)
Inserting(u) == {r \in Request : /\ req[r].pc = "insert_file" /\ req[r].email = u
                                 /\ declared[r] > 0 /\ r \notin wrapped}

(* What n requests can add beyond the one that was let in last. *)
Beyond(n) == (n - 1) * MaxSize

MostUsed == Limit + Beyond(Cardinality(Request))

(* What an account uses by the checks. *)
Checked(u) == Used(u) - unchecked[u]

(* Among the requests that are about to insert is one that has read what   *)
(* was used with room for itself: that much, and the largest size for each *)
(* of the others, stays within the bound.                                  *)
SpaceOK(u) ==
    IF Inserting(u) = {} THEN Checked(u) <= MostUsed
    ELSE \E r \in Inserting(u) :
            Checked(u) + declared[r] + Beyond(Cardinality(Inserting(u))) <= MostUsed

AccountsOK == \A u \in Email : SpaceOK(u)

LEMMA BeyondFacts ==
    ASSUME NEW n \in Nat \ {0}
    PROVE  /\ Beyond(n) \in Nat /\ Beyond(1) = 0
           /\ Beyond(n + 1) = Beyond(n) + MaxSize
           /\ \A m \in Nat \ {0} : n <= m => Beyond(n) <= Beyond(m)
  <1>1. MaxSize \in Nat
    BY QuotaSizes
  <1>2. \A i \in Nat : i * MaxSize \in Nat /\ 0 * MaxSize = 0
    BY <1>1
  <1>3. (n - 1 + 1) * MaxSize = (n - 1) * MaxSize + MaxSize
    BY <1>1
  <1>4. ASSUME NEW m \in Nat \ {0}, n <= m PROVE Beyond(n) <= Beyond(m)
    <2>1. (m - 1) * MaxSize = (n - 1) * MaxSize + (m - n) * MaxSize
      BY <1>1
    <2>2. (m - n) * MaxSize \in Nat /\ (n - 1) * MaxSize \in Nat /\ (m - 1) * MaxSize \in Nat
      BY <1>2, <1>4
    <2> QED BY <2>1, <2>2 DEF Beyond
  <1> QED BY <1>2, <1>3, <1>4 DEF Beyond

LEMMA RequestsCounted ==
    /\ Cardinality(Request) \in Nat \ {0}
    /\ Beyond(Cardinality(Request)) \in Nat /\ MostUsed \in Nat /\ Limit \in Nat
  <1>1. Cardinality(Request) \in Nat \ {0}
    BY SessionRequests, FS_CardinalityType, FS_EmptySet
  <1> QED BY <1>1, BeyondFacts, QuotaBounds DEF MostUsed

LEMMA InsertingFinite ==
    ASSUME NEW u
    PROVE  /\ IsFiniteSet(Inserting(u)) /\ Cardinality(Inserting(u)) \in Nat
           /\ Cardinality(Inserting(u)) <= Cardinality(Request)
           /\ Inserting(u) # {} => Cardinality(Inserting(u)) # 0
  <1>1. Inserting(u) \in SUBSET Request
    BY DEF Inserting
  <1> QED BY <1>1, SessionRequests, FS_Subset, FS_CardinalityType, FS_EmptySet

LEMMA InsertingFiniteNext ==
    ASSUME NEW u
    PROVE  /\ IsFiniteSet(Inserting(u)') /\ Cardinality(Inserting(u)') \in Nat
           /\ Cardinality(Inserting(u)') <= Cardinality(Request)
           /\ Inserting(u)' # {} => Cardinality(Inserting(u)') # 0
  <1>1. Inserting(u)' \in SUBSET Request
    BY DEF Inserting
  <1> QED BY <1>1, SessionRequests, FS_Subset, FS_CardinalityType, FS_EmptySet

(* The numbers that an account is made of. *)
LEMMA Numbers ==
    ASSUME QuotaTypeOK, NEW u \in Email
    PROVE  /\ \A s \in Size : Weight(u)[s] \in Int
           /\ Used(u) \in Int /\ unchecked[u] \in Nat /\ Checked(u) \in Int
           /\ MaxSize \in Nat
           /\ \A r \in Request : declared[r] \in Int /\ declared[r] <= MaxSize
  <1>1. ASSUME NEW s \in Size PROVE Weight(u)[s] \in Int
    <2>1. s \in Int /\ rows[u][s] \in Int
      BY SizesAreInts DEF QuotaTypeOK
    <2>2. s * rows[u][s] \in Int
      BY <2>1
    <2> QED BY <2>2 DEF Weight
  <1>2. Used(u) \in Int
    BY <1>1, QuotaSizes, TotalIsInt, UsedIsTotal
  <1>3. unchecked[u] \in Nat /\ MaxSize \in Nat
    BY QuotaSizes DEF QuotaTypeOK
  <1>4. \A r \in Request : declared[r] \in Int /\ declared[r] <= MaxSize
    BY <1>3, SizesAreInts DEF QuotaTypeOK
  <1> QED BY <1>1, <1>2, <1>3, <1>4 DEF Checked

LEMMA UsedIsTotalNext ==
    ASSUME NEW u
    PROVE  Used(u)' = Total(Weight(u)', Size)
  BY DEF Used, Total, First, IsSum, MapThenSumSet, MapThenFoldSet

LEMMA NumbersNext ==
    ASSUME QuotaTypeOK', NEW u \in Email
    PROVE  Used(u)' \in Int /\ unchecked'[u] \in Nat /\ Checked(u)' \in Int
  <1>1. ASSUME NEW s \in Size PROVE (Weight(u)')[s] \in Int
    <2>1. s \in Int /\ rows'[u][s] \in Int
      BY SizesAreInts DEF QuotaTypeOK
    <2>2. s * rows'[u][s] \in Int
      BY <2>1
    <2> QED BY <2>2 DEF Weight
  <1>2. Used(u)' \in Int
    BY <1>1, QuotaSizes, TotalIsInt, UsedIsTotalNext
  <1>3. unchecked'[u] \in Nat
    BY DEF QuotaTypeOK
  <1> QED BY <1>2, <1>3 DEF Checked

(* The rows of an account, and so what it uses, are as they were. *)
LEMMA UsedKept ==
    ASSUME NEW u, rows'[u] = rows[u]
    PROVE  Used(u)' = Used(u)
  <1>1. Weight(u)' = Weight(u)
    BY DEF Weight
  <1> QED BY <1>1, UsedIsTotal, UsedIsTotalNext

(* One row of size s more, or one less. *)
LEMMA UsedMoves ==
    ASSUME QuotaTypeOK, NEW u \in Email, NEW s \in Size, NEW d \in {1, -1},
           rows'[u] = [rows[u] EXCEPT ![s] = @ + d]
    PROVE  Used(u)' = Used(u) + s * d
  <1>1. s \in Int /\ rows[u] \in [Size -> Nat] /\ rows[u][s] \in Int /\ d \in Int
    BY SizesAreInts DEF QuotaTypeOK
  <1>2. rows'[u][s] = rows[u][s] + d /\ \A y \in Size : y # s => rows'[u][y] = rows[u][y]
    BY <1>1
  <1>3. s * d \in Int /\ s * (rows[u][s] + d) = s * rows[u][s] + s * d
    BY <1>1
  <1>4. Weight(u)'[s] = Weight(u)[s] + s * d
    BY <1>2, <1>3 DEF Weight
  <1>5. \A y \in Size : y # s => Weight(u)'[y] = Weight(u)[y]
    BY <1>2 DEF Weight
  <1>6. \A y \in Size : Weight(u)[y] \in Int
    BY Numbers
  <1>7. Total(Weight(u)', Size) = Total(Weight(u), Size) + s * d
    BY <1>3, <1>4, <1>5, <1>6, QuotaSizes, TotalOfOneChange
  <1> QED BY <1>7, UsedIsTotal, UsedIsTotalNext

(* A step with the same requests about to insert, and no more used by the  *)
(* checks than before it.                                                  *)
LEMMA SpaceKept ==
    ASSUME AccountsOK, QuotaTypeOK, QuotaTypeOK', NEW u \in Email, Checked(u)' <= Checked(u),
           Inserting(u)' = Inserting(u), \A r \in Inserting(u) : declared'[r] = declared[r]
    PROVE  SpaceOK(u)'
  <1>1. Checked(u) \in Int /\ Checked(u)' \in Int /\ MostUsed \in Nat /\ MostUsed' = MostUsed
    BY Numbers, NumbersNext, RequestsCounted DEF MostUsed, Beyond
  <1>2. CASE Inserting(u) = {}
    <2>1. Checked(u)' <= MostUsed'
      BY <1>1, <1>2 DEF AccountsOK, SpaceOK
    <2> QED BY <1>2, <2>1 DEF SpaceOK
  <1>3. CASE Inserting(u) # {}
    <2> DEFINE n == Cardinality(Inserting(u))
    <2>1. PICK w \in Inserting(u) : Checked(u) + declared[w] + Beyond(n) <= MostUsed
      BY <1>3 DEF AccountsOK, SpaceOK
    <2>2. n \in Nat \ {0}
      BY <1>3, InsertingFinite
    <2>3. declared[w] \in Int /\ Beyond(n) \in Nat /\ declared'[w] = declared[w]
      BY <2>1, <2>2, BeyondFacts, Numbers DEF Inserting
    <2>4. Checked(u)' + declared'[w] + Beyond(n) <= MostUsed'
      BY <1>1, <2>1, <2>3
    <2> QED BY <1>3, <2>1, <2>4 DEF SpaceOK, Beyond
  <1> QED BY <1>2, <1>3

(* A step after which the accounts hold what they held and the same        *)
(* requests are about to insert.                                           *)
LEMMA QuietAccounts ==
    ASSUME AccountsOK, QuotaTypeOK, QuotaTypeOK', UNCHANGED <<rows, unchecked>>,
           \A r \in Request :
               \/ req'[r] = req[r] /\ declared'[r] = declared[r] /\ (r \in wrapped' <=> r \in wrapped)
               \/ req[r].pc # "insert_file" /\ req'[r].pc # "insert_file"
    PROVE  AccountsOK'
  <1> SUFFICES ASSUME NEW u \in Email PROVE SpaceOK(u)'
    BY DEF AccountsOK
  <1>1. Used(u)' = Used(u) /\ unchecked'[u] = unchecked[u]
    BY UsedKept
  <1>2. Checked(u)' <= Checked(u)
    BY <1>1, Numbers DEF Checked
  <1>3. Inserting(u)' = Inserting(u) /\ \A r \in Inserting(u) : declared'[r] = declared[r]
    BY DEF Inserting
  <1> QED BY <1>2, <1>3, SpaceKept

(* A request that was about to insert ends: its file counts or it does     *)
(* not, and there is room for the others either way.                       *)
LEMMA OneLess ==
    ASSUME QuotaTypeOK, QuotaTypeOK', AccountsOK, NEW u \in Email, NEW r \in Inserting(u),
           Checked(u)' <= Checked(u) + declared[r],
           Inserting(u)' = Inserting(u) \ {r},
           \A q \in Request : q # r => declared'[q] = declared[q]
    PROVE  SpaceOK(u)'
  <1>1. /\ Checked(u) \in Int /\ Checked(u)' \in Int /\ MostUsed \in Nat /\ MostUsed' = MostUsed
        /\ MaxSize \in Nat /\ \A q \in Request : declared[q] \in Int /\ declared[q] <= MaxSize
    BY Numbers, NumbersNext, RequestsCounted DEF MostUsed, Beyond
  <1>2. PICK w \in Inserting(u) :
            Checked(u) + declared[w] + Beyond(Cardinality(Inserting(u))) <= MostUsed
    BY DEF AccountsOK, SpaceOK
  <1>3. w \in Request /\ r \in Request /\ declared[w] > 0 /\ declared[r] > 0
    BY DEF Inserting
  <1>4. Cardinality(Inserting(u)) = Cardinality(Inserting(u)') + 1
    <2>1. IsFiniteSet(Inserting(u)) /\ Cardinality(Inserting(u)) \in Nat
      BY InsertingFinite
    <2>2. Cardinality(Inserting(u) \ {r}) = Cardinality(Inserting(u)) - 1
      BY <2>1, FS_RemoveElement
    <2> QED BY <2>1, <2>2
  <1>5. CASE Inserting(u)' = {}
    <2>1. Cardinality(Inserting(u)) = 1
      BY <1>4, <1>5, FS_EmptySet
    <2>2. w = r
      BY <1>5
    <2>3. Beyond(Cardinality(Inserting(u))) = 0
      BY <2>1, BeyondFacts
    <2>4. Checked(u)' <= MostUsed'
      BY <1>1, <1>2, <1>3, <2>2, <2>3
    <2> QED BY <1>5, <2>4 DEF SpaceOK
  <1>6. CASE Inserting(u)' # {}
    <2> DEFINE n == Cardinality(Inserting(u)')
    <2>1. n \in Nat \ {0}
      BY <1>6, InsertingFiniteNext
    <2>2. Beyond(Cardinality(Inserting(u))) = Beyond(n) + MaxSize /\ Beyond(n) \in Nat
      BY <1>4, <2>1, BeyondFacts
    <2>3. PICK q \in Inserting(u)' : w # r => q = w
      BY <1>6
    <2>4. q \in Request /\ q # r /\ declared'[q] = declared[q]
      BY <2>3 DEF Inserting
    <2>5. Checked(u)' + declared'[q] + Beyond(n) <= MostUsed
      <3>1. CASE w = r
        BY <1>1, <1>2, <1>3, <2>2, <2>4, <3>1
      <3>2. CASE w # r
        BY <1>1, <1>2, <1>3, <2>2, <2>3, <2>4, <3>2
      <3> QED BY <3>1, <3>2
    <2> QED BY <1>1, <1>6, <2>3, <2>5 DEF SpaceOK, Beyond
  <1> QED BY <1>5, <1>6

(* The size that is declared fits beside what is used: all that were let   *)
(* in before can only come on top of it.                                   *)
LEMMA CheckSpaceAccounts ==
    ASSUME IInv, IInv', AccountsOK, NEW r \in Request, NEW s \in Size, CheckSpace(r, s)
    PROVE  AccountsOK'
  <1>1. PICK e \in Email : req[r].pc = "drive_info" /\ req[r].email = e
    BY ReqFacts DEF CheckSpace
  <1>2. "insert_file" \in Place
    BY DEF Place
  <1>3. /\ UNCHANGED <<rows, unchecked>> /\ declared \in [Request -> Size \cup {0}]
        /\ \A q \in Request : q # r => req'[q] = req[q] /\ (q \in wrapped' <=> q \in wrapped)
        /\ \/ req'[r].pc = "idle" /\ declared' = declared
           \/ /\ req'[r].pc = "insert_file" /\ req'[r].email = e /\ Fits(e, s)
              /\ declared' = [declared EXCEPT ![r] = s]
              /\ IsI64(Used(e) + s) \/ r \in wrapped'
    BY <1>1, <1>2, ReqFacts, GoToFacts, ReturnFacts DEF CheckSpace, IInv, QuotaTypeOK
  <1>4. CASE req'[r].pc = "idle"
    <2>1. req[r].pc # "insert_file" /\ req'[r].pc # "insert_file" /\ declared' = declared
      BY <1>1, <1>3, <1>4
    <2> QED BY <1>3, <2>1, QuietAccounts DEF IInv
  <1>5. CASE req'[r].pc = "insert_file"
    <2>1. /\ req'[r].email = e /\ Fits(e, s) /\ declared'[r] = s
          /\ IsI64(Used(e) + s) \/ r \in wrapped'
          /\ \A q \in Request : q # r => declared'[q] = declared[q]
      BY <1>3, <1>5
    <2> SUFFICES ASSUME NEW u \in Email PROVE SpaceOK(u)'
      BY DEF AccountsOK
    <2>2. Used(u)' = Used(u) /\ Checked(u)' = Checked(u)
      <3>1. Used(u)' = Used(u)
        BY <1>3, UsedKept
      <3> QED BY <1>3, <3>1 DEF Checked
    <2>3. /\ Used(u) \in Int /\ unchecked[u] \in Nat /\ Checked(u) \in Int
          /\ Checked(u) = Used(u) - unchecked[u]
      BY Numbers DEF IInv, Checked
    <2>4. CASE u # e \/ s <= 0 \/ r \in wrapped'
      <3>1. Inserting(u)' = Inserting(u)
        <4>1. r \notin Inserting(u)
          BY <1>1 DEF Inserting
        <4>2. r \notin Inserting(u)'
          <5>1. s > 0 /\ s <= 0 => FALSE
            BY SizesAreInts
          <5> QED BY <2>1, <2>4, <5>1 DEF Inserting
        <4> QED BY <1>3, <2>1, <4>1, <4>2 DEF Inserting
      <3>2. \A q \in Inserting(u) : declared'[q] = declared[q]
        BY <1>1, <2>1 DEF Inserting
      <3>3. Checked(u)' <= Checked(u)
        BY <2>2, <2>3
      <3> QED BY <3>1, <3>2, <3>3, SpaceKept DEF IInv
    <2>5. CASE u = e /\ s > 0 /\ r \notin wrapped'
      <3> DEFINE n == Cardinality(Inserting(u)')
      <3>1. r \in Inserting(u)'
        BY <1>5, <2>1, <2>5 DEF Inserting
      <3>2. n \in Nat \ {0} /\ n <= Cardinality(Request)
        BY <3>1, InsertingFiniteNext
      <3>3. Beyond(n) \in Nat /\ Beyond(n) <= Beyond(Cardinality(Request))
        BY <3>2, BeyondFacts, RequestsCounted
      <3>4. s \in Int /\ Used(u) + s <= Limit
        BY <2>1, <2>5, SizesAreInts DEF Fits, Wrap
      <3>5. Checked(u)' + declared'[r] + Beyond(n) <= MostUsed
        BY <2>1, <2>2, <2>3, <3>3, <3>4, RequestsCounted DEF MostUsed
      <3> QED BY <3>1, <3>5 DEF SpaceOK, MostUsed, Beyond
    <2> QED BY <2>4, <2>5, SizesAreInts
  <1> QED BY <1>3, <1>4, <1>5

(* An account that a step charges for what its rows gain. *)
LEMMA ChargedSpace ==
    ASSUME IInv, IInv', AccountsOK, NEW u \in Email, NEW d \in Int, Used(u)' = Used(u) + d,
           unchecked'[u] >= unchecked[u] + d,
           Inserting(u)' = Inserting(u), \A q \in Inserting(u) : declared'[q] = declared[q]
    PROVE  SpaceOK(u)'
  <1>1. Checked(u)' <= Checked(u)
    BY Numbers, NumbersNext DEF Checked, IInv
  <1> QED BY <1>1, SpaceKept DEF IInv

(* An account that a step does not touch. *)
LEMMA UntouchedSpace ==
    ASSUME IInv, IInv', AccountsOK, NEW u \in Email, rows'[u] = rows[u], unchecked'[u] = unchecked[u],
           Inserting(u)' = Inserting(u), \A q \in Inserting(u) : declared'[q] = declared[q]
    PROVE  SpaceOK(u)'
  <1>1. Checked(u)' <= Checked(u)
    BY UsedKept, Numbers DEF Checked, IInv
  <1> QED BY <1>1, SpaceKept DEF IInv

LEMMA InsertFileAccounts ==
    ASSUME IInv, IInv', AccountsOK, NEW r \in Request, InsertFile(r)
    PROVE  AccountsOK'
  <1>1. PICK e \in Email, n \in Int :
            /\ req[r].pc = "insert_file" /\ req[r].email = e
            /\ declared[r] \in Size /\ AddRow(e, declared[r]) /\ Charge(e, n)
            /\ r \in wrapped \/ declared[r] < 0 => n = declared[r]
            /\ ~(r \in wrapped \/ declared[r] < 0) => n = 0
    BY InsertFileFacts
  <1>2. /\ declared' = [declared EXCEPT ![r] = 0] /\ wrapped' = wrapped \ {r}
        /\ declared \in [Request -> Size \cup {0}] /\ declared[r] \in Int
        /\ req'[r].pc = "idle" /\ \A q \in Request : q # r => req'[q] = req[q]
    BY <1>1, SizesAreInts, ReqFacts, ReturnFacts DEF InsertFile, IInv, QuotaTypeOK
  <1>3. /\ \A u \in Email : u # e => rows'[u] = rows[u] /\ unchecked'[u] = unchecked[u]
        /\ unchecked'[e] >= unchecked[e] + n
    BY <1>1, AddRowFacts, ChargeKeepsNat DEF IInv, QuotaTypeOK
  <1>4. Used(e)' = Used(e) + declared[r]
    <2>1. rows'[e] = [rows[e] EXCEPT ![declared[r]] = @ + 1]
      BY <1>1, AddRowFacts DEF IInv
    <2>2. Used(e)' = Used(e) + declared[r] * 1
      BY <1>1, <2>1, UsedMoves DEF IInv
    <2> QED BY <1>2, <2>2
  <1> SUFFICES ASSUME NEW u \in Email PROVE SpaceOK(u)'
    BY DEF AccountsOK
  <1>5. CASE r \notin Inserting(u)
    <2>1. Inserting(u)' = Inserting(u) /\ \A q \in Inserting(u) : declared'[q] = declared[q]
      BY <1>2, <1>5 DEF Inserting
    <2>2. CASE u # e
      BY <1>3, <2>1, <2>2, UntouchedSpace
    <2>3. CASE u = e
      <3>1. r \in wrapped \/ declared[r] <= 0
        BY <1>1, <1>2, <1>5, <2>3 DEF Inserting
      <3>2. n = declared[r]
        BY <1>1, <1>2, <3>1
      <3> QED BY <1>2, <1>3, <1>4, <2>1, <2>3, <3>2, ChargedSpace
    <2> QED BY <2>2, <2>3
  <1>6. CASE r \in Inserting(u)
    <2>1. u = e /\ n = 0
      BY <1>1, <1>2, <1>6 DEF Inserting
    <2>2. Inserting(u)' = Inserting(u) \ {r} /\ \A q \in Request : q # r => declared'[q] = declared[q]
      BY <1>2 DEF Inserting
    <2>3. Checked(u)' <= Checked(u) + declared[r]
      BY <1>2, <1>3, <1>4, <2>1, Numbers, NumbersNext DEF Checked, IInv
    <2> QED BY <1>6, <2>2, <2>3, OneLess DEF IInv
  <1> QED BY <1>5, <1>6

(* A file of an account comes or goes by a step that is charged for it.    *)
LEMMA RowMovesAccounts ==
    ASSUME IInv, IInv', AccountsOK, NEW e \in Email, NEW s \in Size,
           (AddRow(e, s) /\ Charge(e, s)) \/ (DropRow(e, s) /\ Charge(e, -s)),
           \A u \in Email : Inserting(u)' = Inserting(u), declared' = declared
    PROVE  AccountsOK'
  <1> SUFFICES ASSUME NEW u \in Email PROVE SpaceOK(u)'
    BY DEF AccountsOK
  <1>1. QuotaTypeOK /\ unchecked \in [Email -> Nat] /\ s \in Int /\ -s \in Int
    BY SizesAreInts DEF IInv, QuotaTypeOK
  <1>2. CASE u # e
    <2>1. rows'[u] = rows[u] /\ unchecked'[u] = unchecked[u]
      BY <1>1, <1>2, AddRowFacts, DropRowFacts, ChargeKeepsNat
    <2> QED BY <2>1, UntouchedSpace
  <1>3. CASE u = e /\ AddRow(e, s) /\ Charge(e, s)
    <2>1. rows'[u] = [rows[u] EXCEPT ![s] = @ + 1] /\ unchecked'[u] >= unchecked[u] + s
      BY <1>1, <1>3, AddRowFacts, ChargeKeepsNat
    <2>2. Used(u)' = Used(u) + s * 1
      BY <1>1, <2>1, UsedMoves
    <2>3. s * 1 = s
      BY <1>1
    <2> QED BY <1>1, <2>1, <2>2, <2>3, ChargedSpace
  <1>4. CASE u = e /\ DropRow(e, s) /\ Charge(e, -s)
    <2>1. rows'[u] = [rows[u] EXCEPT ![s] = @ + (-1)] /\ unchecked'[u] >= unchecked[u] + (-s)
      BY <1>1, <1>4, DropRowFacts, ChargeKeepsNat
    <2>2. Used(u)' = Used(u) + s * (-1)
      BY <1>1, <2>1, UsedMoves
    <2>3. s * (-1) = -s
      BY <1>1
    <2> QED BY <1>1, <2>1, <2>2, <2>3, ChargedSpace
  <1> QED BY <1>2, <1>3, <1>4

LEMMA DestroyFileAccounts ==
    ASSUME IInv, IInv', AccountsOK, NEW r \in Request, NEW s \in Size, DestroyFile(r, s)
    PROVE  AccountsOK'
  <1>1. /\ req[r].pc = "destroy" /\ req[r].email \in Email
        /\ UNCHANGED <<declared, wrapped>>
        /\ DropRow(req[r].email, s) /\ Charge(req[r].email, -s)
        /\ req'[r].pc = "idle" /\ \A q \in Request : q # r => req'[q] = req[q]
    BY ReqFacts, ReturnFacts DEF DestroyFile
  <1>2. \A u \in Email : Inserting(u)' = Inserting(u)
    BY <1>1 DEF Inserting
  <1> QED BY <1>1, <1>2, RowMovesAccounts

LEMMA GainOrLoseAccounts ==
    ASSUME IInv, IInv', AccountsOK, NEW u \in Email, NEW s \in Size, GainFile(u, s) \/ LoseFile(u, s)
    PROVE  AccountsOK'
  <1>1. UNCHANGED <<req, declared, wrapped>>
    BY DEF GainFile, LoseFile, sessionVars
  <1>2. \A v \in Email : Inserting(v)' = Inserting(v)
    BY <1>1 DEF Inserting
  <1> QED BY <1>1, <1>2, RowMovesAccounts DEF GainFile, LoseFile

LEMMA CutAccounts ==
    ASSUME IInv, IInv', AccountsOK, NEW r \in Request, Cut(r)
    PROVE  AccountsOK'
  <1>1. /\ UNCHANGED <<rows, unchecked>> /\ declared' = [declared EXCEPT ![r] = 0]
        /\ wrapped' = wrapped \ {r}
        /\ declared \in [Request -> Size \cup {0}]
        /\ req'[r].pc = "idle" /\ \A q \in Request : q # r => req'[q] = req[q]
    BY ReqFacts, ReturnFacts DEF Cut, Cancel, ForgetBody, IInv, QuotaTypeOK
  <1> SUFFICES ASSUME NEW u \in Email PROVE SpaceOK(u)'
    BY DEF AccountsOK
  <1>2. CASE r \in Inserting(u)
    <2>1. Inserting(u)' = Inserting(u) \ {r} /\ \A q \in Request : q # r => declared'[q] = declared[q]
      BY <1>1 DEF Inserting
    <2>2. Checked(u)' <= Checked(u) + declared[r]
      <3>1. declared[r] \in Int /\ declared[r] > 0 /\ Used(u)' = Used(u) /\ unchecked'[u] = unchecked[u]
        BY <1>1, <1>2, UsedKept, Numbers DEF Inserting, IInv
      <3> QED BY <3>1, Numbers DEF Checked, IInv
    <2> QED BY <1>2, <2>1, <2>2, OneLess DEF IInv
  <1>3. CASE r \notin Inserting(u)
    <2>1. Inserting(u)' = Inserting(u) /\ \A q \in Inserting(u) : declared'[q] = declared[q]
      BY <1>1, <1>3 DEF Inserting
    <2> QED BY <1>1, <2>1, UntouchedSpace
  <1> QED BY <1>2, <1>3

LEMMA NextAccounts == IInv /\ IInv' /\ AccountsOK /\ [Next]_vars => AccountsOK'
  <1> SUFFICES ASSUME IInv, IInv', AccountsOK, [Next]_vars PROVE AccountsOK'
    OBVIOUS
  <1>1. {"create_event", "drive_info", "destroy"} \subseteq Handler
    BY DEF Handler
  <1>2. ASSUME UNCHANGED quotaVars,
               \/ SessionNext
               \/ \E r \in Request, t \in Token, handler \in Handler : BeginCall(r, t, handler)
        PROVE  AccountsOK'
    <2>1. \A q \in Request : \/ req'[q] = req[q]
                             \/ req[q].pc # "insert_file" /\ req'[q].pc # "insert_file"
      BY <1>2, SessionLeavesOthers
    <2> QED BY <1>2, <2>1, QuietAccounts DEF quotaVars, IInv
  <1>3. CASE AgendaNext /\ UNCHANGED quotaVars
    <2>1. ASSUME NEW r \in Request, NEW v \in Event, InsertEvent(r, v) PROVE AccountsOK'
      <3>1. GoTo(r, "add_participant") /\ "add_participant" \in Place /\ req[r].pc = "create_event"
        BY <2>1 DEF InsertEvent, Place
      <3>2. req'[r].pc = "add_participant" /\ \A q \in Request : q # r => req'[q] = req[q]
        BY <3>1, ReqFacts, GoToFacts
      <3> QED BY <1>3, <3>1, <3>2, QuietAccounts DEF quotaVars, IInv
    <2>2. ASSUME NEW r \in Request, AddParticipant(r) PROVE AccountsOK'
      <3>1. Return(r) /\ req[r].pc = "add_participant"
        BY <2>2 DEF AddParticipant
      <3>2. req'[r].pc = "idle" /\ \A q \in Request : q # r => req'[q] = req[q]
        BY <3>1, ReqFacts, ReturnFacts
      <3> QED BY <1>3, <3>1, <3>2, QuietAccounts DEF quotaVars, IInv
    <2> QED BY <1>1, <1>2, <1>3, <2>1, <2>2 DEF AgendaNext, BeginCreateEvent
  <1>4. CASE QuotaNext
    BY <1>1, <1>2, <1>4, CheckSpaceAccounts, InsertFileAccounts, DestroyFileAccounts,
       GainOrLoseAccounts
    DEF QuotaNext, BeginInitialize, BeginDestroy
  <1>5. CASE UNCHANGED vars
    BY <1>5, QuietAccounts DEF vars, sessionVars, quotaVars, IInv
  <1> QED BY <1>2, <1>3, <1>4, <1>5, CutAccounts DEF Next

LEMMA InitAccounts == Init => AccountsOK
  <1> SUFFICES ASSUME Init, NEW u \in Email PROVE SpaceOK(u)
    BY DEF AccountsOK
  <1>1. Inserting(u) = {}
    BY DEF Init, SessionInit, NoRequest, Inserting
  <1>2. \A s \in Size : Weight(u)[s] = 0
    BY SizesAreInts DEF Init, QuotaInit, Weight
  <1>3. Used(u) = 0
    <2>1. Total(Weight(u), Size) = 0
      BY <1>2, QuotaSizes, TotalOfNothing
    <2> QED BY <2>1, UsedIsTotal
  <1>4. unchecked[u] = 0
    BY DEF Init, QuotaInit
  <1> QED BY <1>1, <1>3, <1>4, RequestsCounted DEF SpaceOK, Checked

LEMMA AccountsInductive == Spec => []AccountsOK
  <1>1. Init => AccountsOK
    BY InitAccounts
  <1>2. IInv /\ IInv' /\ AccountsOK /\ [Next]_vars => AccountsOK'
    BY NextAccounts
  <1> QED BY <1>1, <1>2, Inductive, PTL DEF Spec

-----------------------------------------------------------------------------
(* The theorems.                                                           *)

(* Redis, the tokens, the tables and the requests keep their types, and    *)
(* what a request has made is there only while it is under way.            *)
THEOREM ApiTypeCorrect == Spec => []TypeOK
  <1>1. IInv => TypeOK
    BY DEF IInv, SessionInv, DraftsOK, TypeOK
  <1> QED BY <1>1, Inductive, PTL

(* No more wrong passwords are counted for an address than the limit and   *)
(* one for each further request that can be under way.                     *)
THEOREM WrongPasswordsAreBounded == Spec => []WrongPasswordsBounded
  <1>1. IInv => WrongPasswordsBounded
    BY InvGivesBound DEF IInv
  <1> QED BY <1>1, Inductive, PTL

(* A request that begins after its token was logged out does not get past  *)
(* the extractor, but in the token's last second.                          *)
THEOREM LoggedOutStaysRefused == Spec => []LoggedOutIsRefused
  BY Inductive, PTL DEF IInv, SessionInv

(* A login counter without a TTL holds nothing but increments whose        *)
(* requests are still to set it or were cut.                               *)
THEOREM NoTtlOnlyByCuts == Spec => []NoTtlMeansCut
  BY Inductive, PTL DEF IInv, SessionInv

(* What the checks have let in never adds up to more than the limit and    *)
(* the largest size for each further request that can be under way; only   *)
(* what no check compares comes on top: shares at level owner, files of    *)
(* negative size that go, sums beyond i64.                                 *)
THEOREM OvershootIsBounded == Spec => []OvershootBounded
  <1>1. IInv /\ AccountsOK => OvershootBounded
    <2> SUFFICES ASSUME IInv, AccountsOK, NEW u \in Email
                 PROVE  Used(u) <= MostUsed + unchecked[u]
      BY DEF OvershootBounded, MostUsed, Beyond
    <2>1. Used(u) \in Int /\ unchecked[u] \in Nat /\ MostUsed \in Nat
          /\ Checked(u) = Used(u) - unchecked[u]
      BY Numbers, RequestsCounted DEF IInv, Checked
    <2>2. Checked(u) <= MostUsed
      <3>1. CASE Inserting(u) = {}
        BY <3>1 DEF AccountsOK, SpaceOK
      <3>2. CASE Inserting(u) # {}
        <4>1. PICK w \in Inserting(u) :
                  Checked(u) + declared[w] + Beyond(Cardinality(Inserting(u))) <= MostUsed
          BY <3>2 DEF AccountsOK, SpaceOK
        <4>2. declared[w] \in Int /\ declared[w] > 0
          BY Numbers DEF IInv, Inserting
        <4>3. Beyond(Cardinality(Inserting(u))) \in Nat
          BY <3>2, InsertingFinite, BeyondFacts
        <4> QED BY <2>1, <4>1, <4>2, <4>3
      <3> QED BY <3>1, <3>2
    <2> QED BY <2>1, <2>2
  <1> QED BY <1>1, Inductive, AccountsInductive, PTL
==============================================================================
