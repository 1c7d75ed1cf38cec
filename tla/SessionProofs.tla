----------------------------- MODULE SessionProofs -----------------------------
(***************************************************************************)
(* The inductive invariant of Session and the lemmas that each of its      *)
(* steps, and each step of a handler of another component behind the       *)
(* extractor of Claims, keeps it.  ApiProofs composes them.                *)
(***************************************************************************)
EXTENDS Session, FiniteSetTheorems, TLAPS

(* The places of the handlers of other components. *)
Elsewhere == {"create_event", "drive_info", "destroy", "add_participant", "insert_file"}

(* A request has an account and, behind the extractor, a token; one that   *)
(* came late names a token that was logged out.                            *)
RequestsOK ==
    /\ \A r \in Request :
          /\ req[r].pc # "idle" => req[r].email \in Email
          /\ req[r].pc = "claims" => req[r].handler \in Handler /\ req[r].tok \in Token
          /\ req[r].pc = "logout" => req[r].tok \in Token
          /\ req[r].late => req[r].tok \in loggedOut
    /\ \A t \in Token : token[t].left > 0 => token[t].email \in Email

(* The blacklist entry of a token outlives it, but for its last second. *)
BlacklistOK ==
    \A t \in loggedOut : token[t].left <= revoked[t] \/ token[t].left <= 1

(* Only a counter without a TTL holds increments that are still to set it  *)
(* or were cut.                                                            *)
CountersOK ==
    /\ \A r \in counted : req[r].pc \in {"ttl", "window"}
    /\ \A e \in Email : window[e] # Forever => cut[e] = 0 /\ Of(counted, e) = {}

(* The requests that are past the limit of e and not yet counted. *)
Trying(e) == {r \in Request : req[r].email = e /\ req[r].pc \in {"password", "count"}}

(* Whoever is past the limit has its place in the bound already. *)
LimitOK ==
    \A e \in Email :
        fails[e] + Cardinality(Trying(e)) <= MaxAttempts + Cardinality(Request) - 1

SessionInv ==
    /\ SessionTypeOK /\ RequestsOK
    /\ BlacklistOK /\ LoggedOutIsRefused
    /\ CountersOK /\ NoTtlMeansCut
    /\ LimitOK

-----------------------------------------------------------------------------
LEMMA BoundFacts ==
    /\ Life \in Nat \ {0} /\ Window \in Nat \ {0} /\ MaxAttempts \in Nat \ {0}
    /\ Lasting(Life) = Life + 1 /\ Lasting(Window) = Window + 1 /\ Forever = Window + 2
  BY SessionBounds DEF Lasting, Forever

LEMMA LessFacts ==
    ASSUME NEW n \in Nat
    PROVE  /\ Less(n) \in Nat /\ Less(n) <= n
           /\ n # 0 => Less(n) = n - 1
           /\ n = 0 => Less(n) = 0
  BY DEF Less

RequestType == [pc : Place, handler : Handler \cup {NULL}, email : Email \cup {NULL},
                tok : Token \cup {NULL}, late : BOOLEAN]

KeysOK ==
    /\ fails \in [Email -> Nat]
    /\ window \in [Email -> 0 .. Forever]
    /\ \A e \in Email : fails[e] = 0 <=> window[e] = 0
    /\ token \in [Token -> [email : Email \cup {NULL}, left : 0 .. Lasting(Life)]]
    /\ revoked \in [Token -> 0 .. Lasting(Life)]
    /\ loggedOut \subseteq Token
    /\ counted \subseteq Request
    /\ cut \in [Email -> Nat]

LEMMA TypeSplit == SessionTypeOK <=> KeysOK /\ req \in [Request -> RequestType]
  BY DEF SessionTypeOK, KeysOK, RequestType

LEMMA TypeSplitNext == SessionTypeOK' <=> KeysOK' /\ req' \in [Request -> RequestType]
  BY DEF SessionTypeOK, KeysOK, RequestType

LEMMA GoToFacts ==
    ASSUME req \in [Request -> RequestType], NEW r \in Request, NEW pc \in Place, GoTo(r, pc)
    PROVE  /\ req' \in [Request -> RequestType]
           /\ req'[r].pc = pc /\ req'[r].email = req[r].email /\ req'[r].tok = req[r].tok
           /\ req'[r].handler = req[r].handler /\ req'[r].late = req[r].late
           /\ \A q \in Request : q # r => req'[q] = req[q]
  <1>1. req' = [req EXCEPT ![r] = [req[r] EXCEPT !.pc = pc]]
    BY DEF GoTo
  <1>2. [req[r] EXCEPT !.pc = pc] \in RequestType
    BY DEF RequestType
  <1>3. req'[r] = [req[r] EXCEPT !.pc = pc]
    BY <1>1
  <1> QED BY <1>1, <1>2, <1>3 DEF RequestType

LEMMA ReturnFacts ==
    ASSUME req \in [Request -> RequestType], NEW r \in Request, Return(r)
    PROVE  /\ req' \in [Request -> RequestType]
           /\ req'[r].pc = "idle" /\ req'[r].email = NULL /\ req'[r].late = FALSE
           /\ req'[r].tok = NULL
           /\ \A q \in Request : q # r => req'[q] = req[q]
  <1>1. NoRequest \in RequestType
    BY DEF NoRequest, RequestType, Place
  <1> QED BY <1>1 DEF Return, NoRequest

-----------------------------------------------------------------------------
(* Counting the requests past the limit.                                   *)

LEMMA TryingFinite ==
    ASSUME NEW e \in Email
    PROVE  /\ IsFiniteSet(Trying(e)) /\ Cardinality(Trying(e)) \in Nat
           /\ Cardinality(Trying(e)) <= Cardinality(Request)
           /\ Cardinality(Request) \in Nat \ {0}
  BY SessionRequests, FS_Subset, FS_CardinalityType, FS_EmptySet DEF Trying

LEMMA TryingFiniteNext ==
    ASSUME NEW e \in Email
    PROVE  /\ IsFiniteSet(Trying(e)') /\ Cardinality(Trying(e)') \in Nat
           /\ Cardinality(Trying(e)') <= Cardinality(Request)
  BY SessionRequests, FS_Subset, FS_CardinalityType, FS_EmptySet DEF Trying

(* When no counter rises and nobody gets past a limit, all stays bounded.  *)
LEMMA LimitKept ==
    ASSUME LimitOK, fails \in [Email -> Nat], fails' \in [Email -> Nat],
           \A e \in Email : fails'[e] <= fails[e],
           \A e \in Email : Trying(e)' \subseteq Trying(e)
    PROVE  LimitOK'
  <1> SUFFICES ASSUME NEW e \in Email
               PROVE  fails'[e] + Cardinality(Trying(e)') <= MaxAttempts + Cardinality(Request) - 1
    BY DEF LimitOK
  <1>1. Cardinality(Trying(e)') <= Cardinality(Trying(e))
    BY TryingFinite, FS_Subset
  <1> QED
    BY <1>1, TryingFinite, TryingFiniteNext, BoundFacts DEF LimitOK

-----------------------------------------------------------------------------
(* Requests that only move.                                                *)

(* A step that changes one request, which holds no increment before or     *)
(* after, and no key.                                                      *)
LEMMA QuietKeepsInv ==
    ASSUME SessionInv, NEW r \in Request, req[r].pc \notin {"ttl", "window"},
           UNCHANGED <<limiter, token, revoked, loggedOut>>,
           req' \in [Request -> RequestType],
           \A q \in Request : q # r => req'[q] = req[q],
           req'[r].pc # "idle" => req'[r].email \in Email,
           req'[r].pc = "claims" => req'[r].handler \in Handler /\ req'[r].tok \in Token,
           req'[r].pc = "logout" => req'[r].tok \in Token,
           req'[r].late => req'[r].tok \in loggedOut,
           req'[r].late /\ req'[r].pc # "claims" => token[req'[r].tok].left <= 1,
           req'[r].pc \in {"password", "count"} =>
               req[r].pc = "password" /\ req'[r].email = req[r].email
    PROVE  SessionInv'
  <1>1. KeysOK /\ req \in [Request -> RequestType]
    BY TypeSplit DEF SessionInv
  <1>2. SessionTypeOK'
    BY <1>1, TypeSplitNext DEF KeysOK, limiter
  <1>3. RequestsOK'
    BY DEF SessionInv, RequestsOK
  <1>4. BlacklistOK' /\ LoggedOutIsRefused'
    BY DEF SessionInv, BlacklistOK, LoggedOutIsRefused
  <1>5. r \notin counted /\ \A q \in counted : q \in Request /\ req'[q] = req[q]
    BY <1>1 DEF SessionInv, CountersOK, KeysOK
  <1>6. \A e \in Email : Of(counted, e)' = Of(counted, e)
    BY <1>5 DEF Of, limiter
  <1>7. CountersOK' /\ NoTtlMeansCut'
    BY <1>5, <1>6 DEF SessionInv, CountersOK, NoTtlMeansCut, limiter
  <1>8. \A e \in Email : Trying(e)' \subseteq Trying(e)
    BY DEF Trying
  <1>9. LimitOK'
    BY <1>1, <1>8, LimitKept DEF SessionInv, KeysOK, limiter
  <1> QED BY <1>2, <1>3, <1>4, <1>7, <1>9 DEF SessionInv

(* Such a request ends. *)
LEMMA ReturnKeepsInv ==
    ASSUME SessionInv, NEW r \in Request, Return(r), req[r].pc \notin {"ttl", "window"},
           UNCHANGED <<limiter, token, revoked, loggedOut>>
    PROVE  SessionInv'
  <1>1. KeysOK /\ req \in [Request -> RequestType]
    BY TypeSplit DEF SessionInv
  <1>2. /\ req' \in [Request -> RequestType]
        /\ \A q \in Request : q # r => req'[q] = req[q]
        /\ req'[r].pc = "idle" /\ ~req'[r].late
    BY <1>1, ReturnFacts
  <1> QED BY <1>2, QuietKeepsInv

(* Such a request goes on. *)
LEMMA GoToKeepsInv ==
    ASSUME SessionInv, NEW r \in Request, NEW pc \in Place \ {"claims"}, GoTo(r, pc),
           req[r].pc \notin {"ttl", "window"}, req[r].email \in Email,
           UNCHANGED <<limiter, token, revoked, loggedOut>>,
           pc \in {"password", "count"} => req[r].pc = "password",
           pc = "logout" => req[r].tok \in Token,
           req[r].late => token[req[r].tok].left <= 1
    PROVE  SessionInv'
  <1>1. KeysOK /\ req \in [Request -> RequestType]
    BY TypeSplit DEF SessionInv
  <1>2. /\ req' \in [Request -> RequestType]
        /\ \A q \in Request : q # r => req'[q] = req[q]
        /\ req'[r].pc = pc /\ req'[r].email = req[r].email
        /\ req'[r].tok = req[r].tok /\ req'[r].late = req[r].late
    BY <1>1, GoToFacts
  <1>3. req[r].late => req[r].tok \in loggedOut
    BY DEF SessionInv, RequestsOK
  <1> QED BY <1>2, <1>3, QuietKeepsInv

(* A handler of another component, behind the extractor. *)
LEMMA ElsewhereKeepsInv ==
    ASSUME SessionInv, NEW r \in Request, req[r].pc \in Elsewhere,
           Return(r) \/ \E pc \in Elsewhere : GoTo(r, pc),
           UNCHANGED <<limiter, token, revoked, loggedOut>>
    PROVE  SessionInv'
  <1>2. req[r].late => token[req[r].tok].left <= 1
    BY DEF SessionInv, LoggedOutIsRefused, Elsewhere
  <1>3. \A pc \in Elsewhere :
            pc \in Place \ {"claims"} /\ pc \notin {"password", "count", "logout"}
    BY DEF Elsewhere, Place, Handler
  <1>4. req[r].email \in Email /\ req[r].pc \notin {"ttl", "window"}
    BY DEF SessionInv, RequestsOK, Elsewhere
  <1> QED BY <1>2, <1>3, <1>4, GoToKeepsInv, ReturnKeepsInv

(* The steps of this module that only read. *)
LEMMA ReadKeepsInv ==
    ASSUME SessionInv, NEW r \in Request, CheckPassword(r) \/ CheckRevoked(r) \/ Answer(r)
    PROVE  SessionInv'
  <1>1. KeysOK /\ req \in [Request -> RequestType]
    BY TypeSplit DEF SessionInv
  <1>2. CASE CheckPassword(r)
    <2>1. req[r].pc = "password" /\ req[r].email \in Email
      BY <1>2 DEF CheckPassword, SessionInv, RequestsOK
    <2>2. req[r].late => token[req[r].tok].left <= 1
      BY <2>1 DEF SessionInv, LoggedOutIsRefused
    <2>3. {"count", "reset"} \subseteq Place \ {"claims"}
      BY DEF Place
    <2>4. CASE Return(r)
      BY <1>2, <2>1, <2>4, ReturnKeepsInv DEF CheckPassword
    <2>5. CASE GoTo(r, "count") \/ GoTo(r, "reset")
      BY <1>2, <2>1, <2>2, <2>3, <2>5, GoToKeepsInv DEF CheckPassword
    <2> QED BY <1>2, <2>4, <2>5 DEF CheckPassword
  <1>3. CASE CheckRevoked(r)
    <2>1. /\ req[r].pc = "claims" /\ req[r].email \in Email
          /\ req[r].handler \in Handler /\ req[r].tok \in Token
      BY <1>3 DEF CheckRevoked, SessionInv, RequestsOK
    <2>2. /\ req[r].handler \in Place \ {"claims"}
          /\ req[r].handler \notin {"password", "count"}
      BY <2>1 DEF Place, Handler
    <2>3. CASE revoked[req[r].tok] > 0
      <3>1. Return(r)
        BY <1>3, <2>3 DEF CheckRevoked
      <3> QED BY <1>3, <2>1, <3>1, ReturnKeepsInv DEF CheckRevoked
    <2>4. CASE ~(revoked[req[r].tok] > 0)
      <3>1. GoTo(r, req[r].handler)
        BY <1>3, <2>4 DEF CheckRevoked
      <3>2. revoked[req[r].tok] = 0
        BY <1>1, <2>1, <2>4 DEF KeysOK
      <3>3. token[req[r].tok].left \in 0 .. Lasting(Life)
        BY <1>1, <2>1 DEF KeysOK
      <3>4. req[r].late => token[req[r].tok].left <= 1
        BY <3>2, <3>3, BoundFacts DEF SessionInv, RequestsOK, BlacklistOK
      <3> QED BY <1>3, <2>1, <2>2, <3>1, <3>4, GoToKeepsInv DEF CheckRevoked
    <2> QED BY <2>3, <2>4
  <1>4. CASE Answer(r)
    <2>1. req[r].pc = "info" /\ req[r].email \in Email
      BY <1>4 DEF Answer, SessionInv, RequestsOK
    <2> QED BY <1>4, <2>1, ReturnKeepsInv DEF Answer
  <1> QED BY <1>2, <1>3, <1>4

-----------------------------------------------------------------------------
(* Requests that begin.                                                    *)

LEMMA BeginLoginKeepsInv ==
    ASSUME SessionInv, NEW r \in Request, NEW e \in Email, BeginLogin(r, e)
    PROVE  SessionInv'
  <1>1. req \in [Request -> RequestType]
    BY TypeSplit DEF SessionInv
  <1>2. [NoRequest EXCEPT !.pc = "limit", !.email = e] \in RequestType
    BY DEF NoRequest, RequestType, Place
  <1>3. /\ req' \in [Request -> RequestType]
        /\ \A q \in Request : q # r => req'[q] = req[q]
        /\ req'[r].pc = "limit" /\ req'[r].email = e /\ ~req'[r].late
    BY <1>1, <1>2 DEF BeginLogin, NoRequest
  <1> QED BY <1>3, QuietKeepsInv DEF BeginLogin

LEMMA BeginCallKeepsInv ==
    ASSUME SessionInv, NEW r \in Request, NEW t \in Token, NEW handler \in Handler,
           BeginCall(r, t, handler)
    PROVE  SessionInv'
  <1>1. req \in [Request -> RequestType]
    BY TypeSplit DEF SessionInv
  <1>2. token[t].email \in Email
    BY DEF SessionInv, RequestsOK, BeginCall
  <1>4. [pc |-> "claims", handler |-> handler, email |-> token[t].email,
         tok |-> t, late |-> t \in loggedOut] \in RequestType
    BY <1>2 DEF RequestType, Place
  <1>5. /\ req' \in [Request -> RequestType]
        /\ \A q \in Request : q # r => req'[q] = req[q]
        /\ req'[r].pc = "claims" /\ req'[r].handler = handler
        /\ req'[r].email = token[t].email /\ req'[r].tok = t
        /\ req'[r].late <=> t \in loggedOut
    BY <1>1, <1>4 DEF BeginCall
  <1> QED BY <1>2, <1>5, QuietKeepsInv DEF BeginCall

-----------------------------------------------------------------------------
(* The limiter.                                                            *)

(* A request that passes has its place in the bound: the counter is below  *)
(* the limit, and no more requests than all of them can be past it.        *)
LEMMA CheckLimitKeepsInv ==
    ASSUME SessionInv, NEW r \in Request, CheckLimit(r)
    PROVE  SessionInv'
  <1>1. KeysOK /\ req \in [Request -> RequestType]
    BY TypeSplit DEF SessionInv
  <1>2. PICK e \in Email : req[r].pc = "limit" /\ req[r].email = e
    BY DEF CheckLimit, SessionInv, RequestsOK
  <1>3. CASE fails[e] >= MaxAttempts
    BY <1>2, <1>3, ReturnKeepsInv DEF CheckLimit
  <1>4. CASE ~(fails[e] >= MaxAttempts)
    <2>1. GoTo(r, "password") /\ "password" \in Place
      BY <1>2, <1>4 DEF CheckLimit, Place
    <2>2. /\ req' \in [Request -> RequestType]
          /\ \A q \in Request : q # r => req'[q] = req[q]
          /\ req'[r].pc = "password" /\ req'[r].email = e
          /\ req'[r].tok = req[r].tok /\ req'[r].late = req[r].late
      BY <1>1, <1>2, <2>1, GoToFacts
    <2>3. SessionTypeOK'
      BY <1>1, <2>2, TypeSplitNext DEF CheckLimit, KeysOK, limiter
    <2>4. RequestsOK' /\ BlacklistOK' /\ LoggedOutIsRefused'
      BY <1>2, <2>2
      DEF CheckLimit, SessionInv, RequestsOK, BlacklistOK, LoggedOutIsRefused
    <2>5. \A q \in counted : q \in Request /\ req'[q] = req[q]
      BY <1>1, <1>2, <2>2 DEF SessionInv, CountersOK, KeysOK
    <2>6. \A f \in Email : Of(counted, f)' = Of(counted, f)
      BY <2>5 DEF Of, CheckLimit, limiter
    <2>7. CountersOK' /\ NoTtlMeansCut'
      BY <2>5, <2>6 DEF SessionInv, CountersOK, NoTtlMeansCut, CheckLimit, limiter
    <2>8. LimitOK'
      <3>1. fails' = fails /\ fails \in [Email -> Nat]
        BY <1>1 DEF CheckLimit, limiter, KeysOK
      <3>2. ASSUME NEW f \in Email, f # e
            PROVE  Trying(f)' = Trying(f)
        BY <1>2, <2>2, <3>2 DEF Trying
      <3>3. fails'[e] + Cardinality(Trying(e)') <= MaxAttempts + Cardinality(Request) - 1
        BY <1>2, <1>4, <3>1, TryingFinite, TryingFiniteNext, BoundFacts
      <3> QED BY <3>1, <3>2, <3>3 DEF SessionInv, LimitOK
    <2> QED BY <2>3, <2>4, <2>7, <2>8 DEF SessionInv
  <1> QED BY <1>3, <1>4

LEMMA OfFinite ==
    ASSUME KeysOK, NEW e \in Email
    PROVE  IsFiniteSet(Of(counted, e)) /\ Cardinality(Of(counted, e)) \in Nat
  BY SessionRequests, FS_Subset, FS_CardinalityType DEF KeysOK, Of

(* The counter rises, and with it the increments without a TTL; what was   *)
(* tried is now counted.                                                   *)
LEMMA CountFailureKeepsInv ==
    ASSUME SessionInv, NEW r \in Request, CountFailure(r)
    PROVE  SessionInv'
  <1>1. KeysOK /\ req \in [Request -> RequestType]
    BY TypeSplit DEF SessionInv
  <1>2. PICK e \in Email : req[r].pc = "count" /\ req[r].email = e
    BY DEF CountFailure, SessionInv, RequestsOK
  <1> DEFINE noTtl == fails[e] = 0 \/ window[e] = Forever
  <1>3. GoTo(r, "ttl") /\ "ttl" \in Place
    BY DEF CountFailure, Place
  <1>4. /\ req' \in [Request -> RequestType]
        /\ \A q \in Request : q # r => req'[q] = req[q]
        /\ req'[r].pc = "ttl" /\ req'[r].email = e
        /\ req'[r].tok = req[r].tok /\ req'[r].late = req[r].late
    BY <1>1, <1>2, <1>3, GoToFacts
  <1>5. /\ fails' \in [Email -> Nat] /\ window' \in [Email -> 0 .. Forever]
        /\ fails'[e] = fails[e] + 1
        /\ window'[e] = IF noTtl THEN Forever ELSE window[e]
        /\ \A f \in Email : f # e => fails'[f] = fails[f] /\ window'[f] = window[f]
        /\ counted' = IF noTtl THEN counted \cup {r} ELSE counted
        /\ UNCHANGED <<token, revoked, loggedOut, cut>>
    BY <1>1, <1>2, BoundFacts DEF CountFailure, KeysOK
  <1>6. SessionTypeOK'
    <2>1. \A f \in Email : fails'[f] = 0 <=> window'[f] = 0
      BY <1>1, <1>2, <1>5, BoundFacts DEF KeysOK
    <2> QED BY <1>1, <1>4, <1>5, <2>1, TypeSplitNext DEF KeysOK
  <1>7. RequestsOK' /\ BlacklistOK' /\ LoggedOutIsRefused'
    BY <1>2, <1>4, <1>5 DEF SessionInv, RequestsOK, BlacklistOK, LoggedOutIsRefused
  <1>8. r \notin counted /\ \A q \in counted : q \in Request /\ req'[q] = req[q]
    BY <1>1, <1>2, <1>4 DEF SessionInv, CountersOK, KeysOK
  <1>9. \A f \in Email : f # e => Of(counted, f)' = Of(counted, f)
    BY <1>4, <1>5, <1>8 DEF Of
  <1>10. Of(counted, e)' = IF noTtl THEN Of(counted, e) \cup {r} ELSE Of(counted, e)
    BY <1>4, <1>5, <1>8 DEF Of
  <1>11. CountersOK'
    <2>1. \A q \in counted' : req'[q].pc \in {"ttl", "window"}
      BY <1>4, <1>5, <1>8 DEF SessionInv, CountersOK
    <2>2. ASSUME NEW f \in Email, window'[f] # Forever
          PROVE  cut'[f] = 0 /\ Of(counted, f)' = {}
      BY <1>5, <1>9, <1>10, <2>2 DEF SessionInv, CountersOK
    <2> QED BY <2>1, <2>2 DEF CountersOK
  <1>12. NoTtlMeansCut'
    <2>1. ASSUME NEW f \in Email, f # e, window'[f] = Forever
          PROVE  fails'[f] = cut'[f] + Cardinality(Of(counted, f)')
      BY <1>5, <1>9, <2>1 DEF SessionInv, NoTtlMeansCut
    <2>2. ASSUME window'[e] = Forever
          PROVE  fails'[e] = cut'[e] + Cardinality(Of(counted, e)')
      <3>1. noTtl /\ Of(counted, e)' = Of(counted, e) \cup {r}
        BY <1>5, <1>10, <2>2
      <3>2. Cardinality(Of(counted, e)') = Cardinality(Of(counted, e)) + 1
        BY <1>1, <1>2, <1>8, <3>1, OfFinite, FS_AddElement DEF Of
      <3>3. fails[e] \in Nat /\ cut[e] \in Nat /\ cut'[e] = cut[e]
        BY <1>1, <1>2, <1>5 DEF KeysOK
      <3>4. fails[e] = cut[e] + Cardinality(Of(counted, e))
        <4>1. CASE window[e] = Forever
          BY <1>2, <4>1 DEF SessionInv, NoTtlMeansCut
        <4>2. CASE window[e] # Forever
          BY <1>2, <3>1, <4>2, FS_EmptySet DEF SessionInv, CountersOK
        <4> QED BY <4>1, <4>2
      <3> QED BY <1>1, <1>2, <1>5, <3>2, <3>3, <3>4, OfFinite
    <2> QED BY <2>1, <2>2 DEF NoTtlMeansCut
  <1>13. LimitOK'
    <2>1. ASSUME NEW f \in Email, f # e
          PROVE  Trying(f)' = Trying(f)
      BY <1>2, <1>4, <2>1 DEF Trying
    <2>2. Trying(e)' = Trying(e) \ {r} /\ r \in Trying(e)
      BY <1>2, <1>4 DEF Trying
    <2>3. Cardinality(Trying(e)') = Cardinality(Trying(e)) - 1
      BY <1>2, <2>2, TryingFinite, FS_RemoveElement
    <2>4. fails'[e] + Cardinality(Trying(e)') = fails[e] + Cardinality(Trying(e))
      BY <1>1, <1>2, <1>5, <2>3, TryingFinite DEF KeysOK
    <2> QED BY <1>2, <1>5, <2>1, <2>4 DEF SessionInv, LimitOK
  <1> QED BY <1>6, <1>7, <1>11, <1>12, <1>13 DEF SessionInv

(* A request that leaves the limiter without an EXPIRE holds no increment: *)
(* the key it counted under has a TTL.                                     *)
LEMMA ReadTtlKeepsInv ==
    ASSUME SessionInv, NEW r \in Request, ReadTtl(r)
    PROVE  SessionInv'
  <1>1. KeysOK /\ req \in [Request -> RequestType]
    BY TypeSplit DEF SessionInv
  <1>2. PICK e \in Email : req[r].pc = "ttl" /\ req[r].email = e
    BY DEF ReadTtl, SessionInv, RequestsOK
  <1>3. /\ req' \in [Request -> RequestType]
        /\ \A q \in Request : q # r => req'[q] = req[q]
        /\ \/ /\ window[e] = Forever /\ req'[r].pc = "window" /\ req'[r].email = e
              /\ req'[r].tok = req[r].tok /\ req'[r].late = req[r].late
           \/ window[e] # Forever /\ req'[r].pc = "idle" /\ ~req'[r].late
    <2>1. "window" \in Place
      BY DEF Place
    <2> QED BY <1>1, <1>2, <2>1, GoToFacts, ReturnFacts DEF ReadTtl
  <1>4. window[e] # Forever => r \notin counted
    BY <1>2 DEF SessionInv, CountersOK, Of
  <1>5. UNCHANGED <<fails, window, counted, cut, token, revoked, loggedOut>>
    BY <1>2, <1>4 DEF ReadTtl
  <1>6. SessionTypeOK'
    BY <1>1, <1>3, <1>5, TypeSplitNext DEF KeysOK
  <1>7. RequestsOK' /\ BlacklistOK' /\ LoggedOutIsRefused'
    BY <1>2, <1>3, <1>5 DEF SessionInv, RequestsOK, BlacklistOK, LoggedOutIsRefused
  <1>8. \A q \in counted : /\ q \in Request /\ req'[q].email = req[q].email
                           /\ req'[q].pc \in {"ttl", "window"}
    BY <1>1, <1>2, <1>3, <1>4 DEF SessionInv, CountersOK, KeysOK
  <1>9. \A f \in Email : Of(counted, f)' = Of(counted, f)
    BY <1>5, <1>8 DEF Of
  <1>10. CountersOK' /\ NoTtlMeansCut'
    BY <1>5, <1>8, <1>9 DEF SessionInv, CountersOK, NoTtlMeansCut
  <1>11. \A f \in Email : Trying(f)' \subseteq Trying(f)
    BY <1>3 DEF Trying
  <1>12. LimitOK'
    BY <1>1, <1>5, <1>11, LimitKept DEF SessionInv, KeysOK
  <1> QED BY <1>6, <1>7, <1>10, <1>12 DEF SessionInv

(* The key of e gets a TTL, or goes, and its increments are forgotten.     *)
LEMMA SettleKeepsInv ==
    ASSUME SessionInv, NEW e \in Email, Settle(e),
           UNCHANGED <<token, revoked, loggedOut>>,
           fails' \in [Email -> Nat], fails'[e] <= fails[e],
           window' \in [Email -> 0 .. Forever], window'[e] # Forever,
           fails'[e] = 0 <=> window'[e] = 0,
           \A f \in Email : f # e => fails'[f] = fails[f] /\ window'[f] = window[f],
           req' \in [Request -> RequestType],
           \A q \in Request :
               \/ req'[q] = req[q]
               \/ /\ req'[q].pc \in {"idle", "issue"} /\ req[q].email = e
                  /\ req'[q].pc = "issue" => req'[q].email = e
                  /\ \/ ~req'[q].late
                     \/ /\ req'[q].tok = req[q].tok /\ req'[q].late = req[q].late
                        /\ req[q].pc # "claims"
    PROVE  SessionInv'
  <1>1. KeysOK /\ req \in [Request -> RequestType]
    BY TypeSplit DEF SessionInv
  <1>2. counted' = counted \ Of(counted, e) /\ cut' = [cut EXCEPT ![e] = 0]
    BY DEF Settle
  <1>3. SessionTypeOK'
    <2>1. counted' \subseteq Request /\ cut' \in [Email -> Nat]
      BY <1>1, <1>2 DEF KeysOK
    <2>2. \A f \in Email : fails'[f] = 0 <=> window'[f] = 0
      BY <1>1 DEF KeysOK
    <2> QED BY <1>1, <2>1, <2>2, TypeSplitNext DEF KeysOK
  <1>4. RequestsOK'
    BY DEF SessionInv, RequestsOK
  <1>5. BlacklistOK' /\ LoggedOutIsRefused'
    BY DEF SessionInv, BlacklistOK, LoggedOutIsRefused
  <1>6. \A q \in counted' : q \in Request /\ q \in counted /\ req[q].email # e /\ req'[q] = req[q]
    BY <1>1, <1>2 DEF KeysOK, Of
  <1>7. ASSUME NEW f \in Email, f # e
        PROVE  Of(counted, f)' = Of(counted, f) /\ cut'[f] = cut[f]
    <2>1. cut'[f] = cut[f]
      BY <1>1, <1>2, <1>7 DEF KeysOK
    <2>2. Of(counted, f)' = Of(counted, f)
      BY <1>2, <1>6, <1>7 DEF Of
    <2> QED BY <2>1, <2>2
  <1>8. Of(counted, e)' = {} /\ cut'[e] = 0
    BY <1>1, <1>2, <1>6 DEF Of, KeysOK
  <1>9. CountersOK' /\ NoTtlMeansCut'
    BY <1>6, <1>7, <1>8 DEF SessionInv, CountersOK, NoTtlMeansCut
  <1>10. \A f \in Email : Trying(f)' \subseteq Trying(f)
    BY DEF Trying
  <1>11. LimitOK'
    <2>1. \A f \in Email : fails'[f] <= fails[f]
      BY <1>1 DEF KeysOK
    <2> QED BY <1>1, <1>10, <2>1, LimitKept DEF SessionInv, KeysOK
  <1> QED BY <1>3, <1>4, <1>5, <1>9, <1>11 DEF SessionInv

LEMMA SetWindowKeepsInv ==
    ASSUME SessionInv, NEW r \in Request, SetWindow(r)
    PROVE  SessionInv'
  <1>1. KeysOK /\ req \in [Request -> RequestType]
    BY TypeSplit DEF SessionInv
  <1>2. PICK e \in Email : req[r].pc = "window" /\ req[r].email = e
    BY DEF SetWindow, SessionInv, RequestsOK
  <1>3. /\ req' \in [Request -> RequestType]
        /\ \A q \in Request : q # r => req'[q] = req[q]
        /\ req'[r].pc = "idle" /\ ~req'[r].late
    BY <1>1, ReturnFacts DEF SetWindow
  <1>4. window' = [window EXCEPT ![e] = IF fails[e] = 0 THEN 0 ELSE Lasting(Window)]
    BY <1>2 DEF SetWindow
  <1>5. /\ window' \in [Email -> 0 .. Forever] /\ window'[e] # Forever
        /\ fails[e] = 0 <=> window'[e] = 0
        /\ \A f \in Email : f # e => window'[f] = window[f]
    BY <1>1, <1>4, BoundFacts DEF KeysOK
  <1>6. fails' = fails /\ fails \in [Email -> Nat] /\ fails[e] <= fails[e]
    BY <1>1 DEF SetWindow, KeysOK
  <1>7. Settle(e) /\ UNCHANGED <<token, revoked, loggedOut>>
    BY <1>2 DEF SetWindow
  <1> QED BY <1>2, <1>3, <1>5, <1>6, <1>7, SettleKeepsInv

LEMMA DropFacts ==
    ASSUME KeysOK, NEW e \in Email, DropCounter(e)
    PROVE  /\ Settle(e)
           /\ fails' \in [Email -> Nat] /\ fails'[e] <= fails[e]
           /\ window' \in [Email -> 0 .. Forever] /\ window'[e] # Forever
           /\ fails'[e] = 0 <=> window'[e] = 0
           /\ \A f \in Email : f # e => fails'[f] = fails[f] /\ window'[f] = window[f]
  BY BoundFacts DEF KeysOK, DropCounter

LEMMA ResetFailuresKeepsInv ==
    ASSUME SessionInv, NEW r \in Request, ResetFailures(r)
    PROVE  SessionInv'
  <1>1. KeysOK /\ req \in [Request -> RequestType]
    BY TypeSplit DEF SessionInv
  <1>2. PICK e \in Email : req[r].pc = "reset" /\ req[r].email = e
    BY DEF ResetFailures, SessionInv, RequestsOK
  <1>3. GoTo(r, "issue") /\ "issue" \in Place
    BY DEF ResetFailures, Place
  <1>4. /\ req' \in [Request -> RequestType]
        /\ \A q \in Request : q # r => req'[q] = req[q]
        /\ req'[r].pc = "issue" /\ req'[r].email = e
        /\ req'[r].tok = req[r].tok /\ req'[r].late = req[r].late
    BY <1>1, <1>2, <1>3, GoToFacts
  <1>5. DropCounter(e) /\ UNCHANGED <<token, revoked, loggedOut>>
    BY <1>2 DEF ResetFailures
  <1> QED BY <1>1, <1>2, <1>4, <1>5, DropFacts, SettleKeepsInv

LEMMA ExpireCounterKeepsInv ==
    ASSUME SessionInv, NEW e \in Email, ExpireCounter(e)
    PROVE  SessionInv'
  <1>1. KeysOK /\ req \in [Request -> RequestType]
    BY TypeSplit DEF SessionInv
  <1> QED BY <1>1, DropFacts, SettleKeepsInv DEF ExpireCounter

-----------------------------------------------------------------------------
(* Tokens.                                                                 *)

(* A new token takes a slot that no request names, so nothing that was     *)
(* said of the logged-out token before it is said of this one.             *)
LEMMA IssueTokenKeepsInv ==
    ASSUME SessionInv, NEW r \in Request, NEW t \in Token, IssueToken(r, t)
    PROVE  SessionInv'
  <1>1. KeysOK /\ req \in [Request -> RequestType]
    BY TypeSplit DEF SessionInv
  <1>2. PICK e \in Email : req[r].pc = "issue" /\ req[r].email = e
    BY DEF IssueToken, SessionInv, RequestsOK
  <1>3. /\ req' \in [Request -> RequestType]
        /\ \A q \in Request : q # r => req'[q] = req[q]
        /\ req'[r].pc = "idle" /\ ~req'[r].late
    BY <1>1, ReturnFacts DEF IssueToken
  <1>4. /\ token' \in [Token -> [email : Email \cup {NULL}, left : 0 .. Lasting(Life)]]
        /\ token'[t].email = e
        /\ \A x \in Token : x # t => token'[x] = token[x]
    BY <1>1, <1>2, BoundFacts DEF IssueToken, KeysOK
  <1>5. /\ loggedOut' = loggedOut \ {t}
        /\ UNCHANGED <<fails, window, counted, cut, revoked>>
        /\ \A q \in Request : req[q].tok # t
    BY DEF IssueToken, FreshToken, limiter
  <1>6. SessionTypeOK'
    BY <1>1, <1>3, <1>4, <1>5, TypeSplitNext DEF KeysOK
  <1>7. RequestsOK'
    BY <1>3, <1>4, <1>5 DEF SessionInv, RequestsOK
  <1>8. BlacklistOK'
    BY <1>1, <1>4, <1>5 DEF SessionInv, BlacklistOK, KeysOK
  <1>9. LoggedOutIsRefused'
    BY <1>1, <1>3, <1>4, <1>5 DEF SessionInv, LoggedOutIsRefused, RequestsOK, KeysOK
  <1>10. \A q \in counted : q \in Request /\ req'[q] = req[q]
    BY <1>1, <1>2, <1>3 DEF SessionInv, CountersOK, KeysOK
  <1>11. \A f \in Email : Of(counted, f)' = Of(counted, f)
    BY <1>5, <1>10 DEF Of
  <1>12. CountersOK' /\ NoTtlMeansCut'
    BY <1>5, <1>10, <1>11 DEF SessionInv, CountersOK, NoTtlMeansCut
  <1>13. \A f \in Email : Trying(f)' \subseteq Trying(f)
    BY <1>3 DEF Trying
  <1>14. LimitOK'
    BY <1>1, <1>5, <1>13, LimitKept DEF SessionInv, KeysOK
  <1> QED BY <1>6, <1>7, <1>8, <1>9, <1>12, <1>14 DEF SessionInv

(* The keys of the limiter, and the requests it counts, stay as they are.  *)
LEMMA LimiterKept ==
    ASSUME SessionInv, UNCHANGED limiter,
           \A q \in Request : \/ req'[q] = req[q]
                              \/ req[q].pc \notin {"ttl", "window"} /\ req'[q].pc = "idle"
    PROVE  CountersOK' /\ NoTtlMeansCut' /\ LimitOK'
  <1>1. KeysOK
    BY TypeSplit DEF SessionInv
  <1>2. \A q \in counted : q \in Request /\ req'[q] = req[q]
    BY <1>1 DEF SessionInv, CountersOK, KeysOK
  <1>3. \A f \in Email : Of(counted, f)' = Of(counted, f)
    BY <1>2 DEF Of, limiter
  <1>4. \A f \in Email : Trying(f)' \subseteq Trying(f)
    BY DEF Trying
  <1>5. LimitOK'
    BY <1>1, <1>4, LimitKept DEF SessionInv, KeysOK, limiter
  <1> QED
    BY <1>2, <1>3, <1>5 DEF SessionInv, CountersOK, NoTtlMeansCut, limiter

(* The blacklist entry lasts at least as long as any token. *)
LEMMA RevokeKeepsInv ==
    ASSUME SessionInv, NEW r \in Request, Revoke(r)
    PROVE  SessionInv'
  <1>1. KeysOK /\ req \in [Request -> RequestType]
    BY TypeSplit DEF SessionInv
  <1>2. PICK t \in Token : req[r].pc = "logout" /\ req[r].tok = t
    BY DEF Revoke, SessionInv, RequestsOK
  <1>3. /\ req' \in [Request -> RequestType]
        /\ \A q \in Request : q # r => req'[q] = req[q]
        /\ req'[r].pc = "idle" /\ ~req'[r].late
    BY <1>1, ReturnFacts DEF Revoke
  <1>4. /\ revoked' \in [Token -> 0 .. Lasting(Life)] /\ revoked'[t] = Lasting(Life)
        /\ \A x \in Token : x # t => revoked'[x] = revoked[x]
        /\ loggedOut' = loggedOut \cup {t}
        /\ UNCHANGED <<limiter, token>>
    BY <1>1, <1>2, BoundFacts DEF Revoke, KeysOK
  <1>5. SessionTypeOK'
    BY <1>1, <1>3, <1>4, TypeSplitNext DEF KeysOK, limiter
  <1>6. RequestsOK'
    BY <1>3, <1>4 DEF SessionInv, RequestsOK
  <1>7. BlacklistOK'
    <2>1. token[t].left <= Lasting(Life)
      BY <1>1, BoundFacts DEF KeysOK
    <2> QED BY <1>1, <1>4, <2>1 DEF SessionInv, BlacklistOK, KeysOK
  <1>8. LoggedOutIsRefused'
    BY <1>3, <1>4 DEF SessionInv, LoggedOutIsRefused
  <1>9. CountersOK' /\ NoTtlMeansCut' /\ LimitOK'
    BY <1>2, <1>3, <1>4, LimiterKept
  <1> QED BY <1>5, <1>6, <1>7, <1>8, <1>9 DEF SessionInv

LEMMA ExpireRevokedKeepsInv ==
    ASSUME SessionInv, NEW t \in Token, ExpireRevoked(t)
    PROVE  SessionInv'
  <1>1. KeysOK /\ req \in [Request -> RequestType]
    BY TypeSplit DEF SessionInv
  <1>2. /\ revoked' \in [Token -> 0 .. Lasting(Life)] /\ revoked[t] = 1
        /\ \A x \in Token : x # t => revoked'[x] = revoked[x]
        /\ UNCHANGED <<limiter, token, req, loggedOut>>
    BY <1>1, BoundFacts DEF ExpireRevoked, KeysOK
  <1>3. SessionTypeOK'
    BY <1>1, <1>2, TypeSplitNext DEF KeysOK, limiter
  <1>4. RequestsOK' /\ LoggedOutIsRefused'
    BY <1>2 DEF SessionInv, RequestsOK, LoggedOutIsRefused
  <1>5. BlacklistOK'
    BY <1>1, <1>2 DEF SessionInv, BlacklistOK, KeysOK
  <1>6. CountersOK' /\ NoTtlMeansCut' /\ LimitOK'
    BY <1>2, LimiterKept
  <1> QED BY <1>3, <1>4, <1>5, <1>6 DEF SessionInv

-----------------------------------------------------------------------------
(* What cuts a request, and what only passes time.                         *)

(* An increment that was to be set is one that was cut. *)
LEMMA CancelKeepsInv ==
    ASSUME SessionInv, NEW r \in Request, Cancel(r)
    PROVE  SessionInv'
  <1>1. KeysOK /\ req \in [Request -> RequestType]
    BY TypeSplit DEF SessionInv
  <1>2. PICK e \in Email : req[r].pc # "idle" /\ req[r].email = e
    BY DEF Cancel, SessionInv, RequestsOK
  <1>3. /\ req' \in [Request -> RequestType]
        /\ \A q \in Request : q # r => req'[q] = req[q]
        /\ req'[r].pc = "idle" /\ req'[r].email = NULL /\ ~req'[r].late
    BY <1>1, ReturnFacts DEF Cancel
  <1>4. /\ counted' = counted \ {r}
        /\ cut' = IF r \in counted THEN [cut EXCEPT ![e] = @ + 1] ELSE cut
        /\ UNCHANGED <<fails, window, token, revoked, loggedOut>>
    BY <1>2 DEF Cancel
  <1>5. cut' \in [Email -> Nat] /\ \A f \in Email : f # e => cut'[f] = cut[f]
    BY <1>1, <1>4 DEF KeysOK
  <1>6. SessionTypeOK'
    BY <1>1, <1>3, <1>4, <1>5, TypeSplitNext DEF KeysOK
  <1>7. RequestsOK' /\ BlacklistOK' /\ LoggedOutIsRefused'
    BY <1>3, <1>4 DEF SessionInv, RequestsOK, BlacklistOK, LoggedOutIsRefused
  <1>8. \A q \in counted : q \in Request
    BY <1>1 DEF KeysOK
  <1>9. \A f \in Email : Of(counted, f)' = Of(counted, f) \ {r}
    BY <1>2, <1>3, <1>4, <1>8 DEF Of
  <1>10. \A f \in Email : f # e => Of(counted, f)' = Of(counted, f)
    BY <1>2, <1>9 DEF Of
  <1>11. r \notin counted => Of(counted, e)' = Of(counted, e)
    BY <1>9 DEF Of
  <1>12. r \in counted => r \in Of(counted, e)
    BY <1>2 DEF Of
  <1>13. CountersOK'
    <2>1. \A q \in counted' : req'[q].pc \in {"ttl", "window"}
      BY <1>3, <1>4, <1>8 DEF SessionInv, CountersOK
    <2>2. ASSUME NEW f \in Email, window'[f] # Forever
          PROVE  cut'[f] = 0 /\ Of(counted, f)' = {}
      <3>1. cut[f] = 0 /\ Of(counted, f) = {}
        BY <1>4, <2>2 DEF SessionInv, CountersOK
      <3>2. f = e => r \notin counted
        BY <1>12, <3>1
      <3>3. cut'[f] = cut[f]
        BY <1>4, <1>5, <3>2
      <3> QED BY <1>9, <3>1, <3>3
    <2> QED BY <2>1, <2>2 DEF CountersOK
  <1>14. NoTtlMeansCut'
    <2>1. ASSUME NEW f \in Email, f # e, window'[f] = Forever
          PROVE  fails'[f] = cut'[f] + Cardinality(Of(counted, f)')
      BY <1>4, <1>5, <1>10, <2>1 DEF SessionInv, NoTtlMeansCut
    <2>2. ASSUME window'[e] = Forever
          PROVE  fails'[e] = cut'[e] + Cardinality(Of(counted, e)')
      <3>1. fails[e] = cut[e] + Cardinality(Of(counted, e))
        BY <1>2, <1>4, <2>2 DEF SessionInv, NoTtlMeansCut
      <3>2. CASE r \in counted
        <4>1. cut'[e] = cut[e] + 1 /\ cut[e] \in Nat
          BY <1>1, <1>2, <1>4, <3>2 DEF KeysOK
        <4>2. Cardinality(Of(counted, e)') = Cardinality(Of(counted, e)) - 1
          BY <1>1, <1>2, <1>9, <1>12, <3>2, OfFinite, FS_RemoveElement
        <4> QED BY <1>1, <1>2, <1>4, <3>1, <4>1, <4>2, OfFinite
      <3>3. CASE r \notin counted
        BY <1>4, <1>11, <3>1, <3>3
      <3> QED BY <3>2, <3>3
    <2> QED BY <1>2, <2>1, <2>2 DEF NoTtlMeansCut
  <1>15. \A f \in Email : Trying(f)' \subseteq Trying(f)
    BY <1>3 DEF Trying
  <1>16. LimitOK'
    BY <1>1, <1>4, <1>15, LimitKept DEF SessionInv, KeysOK
  <1> QED BY <1>6, <1>7, <1>13, <1>14, <1>16 DEF SessionInv

LEMMA TickKeepsInv ==
    ASSUME SessionInv, Tick
    PROVE  SessionInv'
  <1>1. KeysOK /\ req \in [Request -> RequestType]
    BY TypeSplit DEF SessionInv
  <1>2. \A e \in Email : /\ window[e] \in Nat /\ window[e] # 1 /\ window[e] <= Forever
                         /\ window'[e] = IF window[e] = Forever THEN Forever
                                         ELSE Less(window[e])
    BY <1>1, BoundFacts DEF Tick, KeysOK
  <1>3. /\ window' \in [Email -> 0 .. Forever]
        /\ \A e \in Email : /\ window'[e] = 0 <=> window[e] = 0
                            /\ window'[e] = Forever <=> window[e] = Forever
    <2>1. ASSUME NEW e \in Email
          PROVE  /\ window'[e] \in 0 .. Forever
                 /\ window'[e] = 0 <=> window[e] = 0
                 /\ window'[e] = Forever <=> window[e] = Forever
      BY <1>2, LessFacts, BoundFacts
    <2>2. window' = [e \in Email |-> window'[e]]
      BY DEF Tick
    <2> QED BY <2>1, <2>2
  <1>4. \A t \in Token : /\ revoked[t] \in Nat /\ revoked[t] # 1 /\ revoked[t] <= Lasting(Life)
                         /\ revoked'[t] = Less(revoked[t])
    BY <1>1, BoundFacts DEF Tick, KeysOK
  <1>5. revoked' \in [Token -> 0 .. Lasting(Life)]
    <2>1. \A t \in Token : revoked'[t] \in 0 .. Lasting(Life)
      BY <1>4, LessFacts, BoundFacts
    <2>2. revoked' = [t \in Token |-> revoked'[t]]
      BY DEF Tick
    <2> QED BY <2>1, <2>2
  <1>6. \A t \in Token : /\ token[t].left \in Nat /\ token[t].left <= Lasting(Life)
                         /\ token'[t] = IF token[t].left <= 1 THEN NoToken
                                        ELSE [token[t] EXCEPT !.left = @ - 1]
    BY <1>1, BoundFacts DEF Tick, KeysOK
  <1>7. \A t \in Token : /\ token'[t] \in [email : Email \cup {NULL}, left : 0 .. Lasting(Life)]
                         /\ token[t].left <= 1 => token'[t].left = 0
                         /\ token[t].left > 1 => /\ token'[t].left = token[t].left - 1
                                                 /\ token'[t].email = token[t].email
    <2>1. ASSUME NEW t \in Token, token[t].left <= 1
          PROVE  /\ token'[t] \in [email : Email \cup {NULL}, left : 0 .. Lasting(Life)]
                 /\ token'[t].left = 0
      <3>1. token'[t] = NoToken
        BY <1>6, <2>1
      <3>2. NoToken \in [email : Email \cup {NULL}, left : 0 .. Lasting(Life)] /\ NoToken.left = 0
        BY BoundFacts DEF NoToken
      <3> QED BY <3>1, <3>2
    <2>2. ASSUME NEW t \in Token, token[t].left > 1
          PROVE  /\ token'[t] \in [email : Email \cup {NULL}, left : 0 .. Lasting(Life)]
                 /\ token'[t].left = token[t].left - 1 /\ token'[t].email = token[t].email
      <3>1. token[t] \in [email : Email \cup {NULL}, left : 0 .. Lasting(Life)]
        BY <1>1 DEF KeysOK
      <3>2. token'[t] = [token[t] EXCEPT !.left = token[t].left - 1]
        BY <1>6, <2>2
      <3> QED BY <1>6, <2>2, <3>1, <3>2, BoundFacts
    <2>3. \A t \in Token : token[t].left <= 1 \/ token[t].left > 1
      BY <1>1, BoundFacts DEF KeysOK
    <2> QED BY <2>1, <2>2, <2>3
  <1>8. token' \in [Token -> [email : Email \cup {NULL}, left : 0 .. Lasting(Life)]]
    <2>1. token' = [t \in Token |-> token'[t]]
      BY DEF Tick
    <2> QED BY <1>7, <2>1
  <1>9. UNCHANGED <<fails, req, loggedOut, counted, cut>>
    BY DEF Tick
  <1>10. SessionTypeOK'
    BY <1>1, <1>3, <1>5, <1>8, <1>9, TypeSplitNext DEF KeysOK
  <1>11. RequestsOK'
    <2>1. \A t \in Token : token'[t].left > 0 => token'[t].email \in Email
      <3>1. \A t \in Token : token[t].left \in Nat
        BY <1>1, BoundFacts DEF KeysOK
      <3> QED BY <1>7, <3>1 DEF SessionInv, RequestsOK
    <2> QED BY <1>9, <2>1 DEF SessionInv, RequestsOK
  <1>12. BlacklistOK'
    <2>1. ASSUME NEW t \in loggedOut
          PROVE  token'[t].left <= revoked'[t] \/ token'[t].left <= 1
      <3>1. t \in Token
        BY <1>1 DEF KeysOK
      <3>2. token[t].left <= revoked[t] \/ token[t].left <= 1
        BY DEF SessionInv, BlacklistOK
      <3>3. token[t].left \in Nat /\ revoked[t] \in Nat
        BY <1>1, <3>1, BoundFacts DEF KeysOK
      <3>4. revoked'[t] = Less(revoked[t])
        BY <1>4, <3>1
      <3> QED BY <1>7, <3>1, <3>2, <3>3, <3>4, LessFacts
    <2> QED BY <1>9, <2>1 DEF BlacklistOK
  <1>13. LoggedOutIsRefused'
    <2>1. \A r \in Request : req[r].late => req[r].tok \in Token
      BY <1>1 DEF SessionInv, RequestsOK, KeysOK
    <2> QED BY <1>6, <1>7, <1>9, <2>1 DEF SessionInv, LoggedOutIsRefused
  <1>14. \A f \in Email : Of(counted, f)' = Of(counted, f) /\ Trying(f)' = Trying(f)
    BY <1>9 DEF Of, Trying
  <1>15. CountersOK' /\ NoTtlMeansCut' /\ LimitOK'
    BY <1>3, <1>9, <1>14 DEF SessionInv, CountersOK, NoTtlMeansCut, LimitOK
  <1> QED BY <1>10, <1>11, <1>12, <1>13, <1>15 DEF SessionInv

-----------------------------------------------------------------------------
(* Every step of Session. *)
LEMMA SessionNextKeepsInv ==
    ASSUME SessionInv, SessionNext
    PROVE  SessionInv'
  <1>1. {"logout", "info"} \subseteq Handler
    BY DEF Handler
  <1>2. ASSUME NEW r \in Request, Login(r) \/ Authenticated(r)
        PROVE  SessionInv'
    BY <1>2, CheckLimitKeepsInv, ReadKeepsInv, CountFailureKeepsInv, ReadTtlKeepsInv,
       SetWindowKeepsInv, ResetFailuresKeepsInv, IssueTokenKeepsInv, RevokeKeepsInv
    DEF Login, Authenticated
  <1>3. CASE Clock
    BY <1>3, TickKeepsInv, ExpireCounterKeepsInv, ExpireRevokedKeepsInv DEF Clock
  <1> QED BY <1>1, <1>2, <1>3, BeginLoginKeepsInv, BeginCallKeepsInv DEF SessionNext

LEMMA InitHasInv == SessionInit => SessionInv
  <1> SUFFICES ASSUME SessionInit PROVE SessionInv
    OBVIOUS
  <1>1. NoRequest \in RequestType
    BY DEF NoRequest, RequestType, Place
  <1>2. SessionTypeOK
    BY <1>1, BoundFacts, TypeSplit DEF SessionInit, KeysOK, NoToken
  <1>3. RequestsOK /\ BlacklistOK /\ LoggedOutIsRefused
    BY DEF SessionInit, RequestsOK, BlacklistOK, LoggedOutIsRefused, NoRequest, NoToken
  <1>4. CountersOK /\ NoTtlMeansCut
    BY BoundFacts DEF SessionInit, CountersOK, NoTtlMeansCut, Of
  <1>5. LimitOK
    <2>1. \A e \in Email : Trying(e) = {}
      BY DEF SessionInit, Trying, NoRequest
    <2> QED BY <2>1, TryingFinite, BoundFacts, FS_EmptySet DEF SessionInit, LimitOK
  <1> QED BY <1>2, <1>3, <1>4, <1>5 DEF SessionInv

LEMMA InvGivesBound == SessionInv => WrongPasswordsBounded
  <1> SUFFICES ASSUME SessionInv, NEW e \in Email
               PROVE  fails[e] <= MaxAttempts + Cardinality(Request) - 1
    BY DEF WrongPasswordsBounded
  <1>1. fails[e] \in Nat
    BY TypeSplit DEF SessionInv, KeysOK
  <1> QED BY <1>1, TryingFinite, BoundFacts DEF SessionInv, LimitOK
==============================================================================
