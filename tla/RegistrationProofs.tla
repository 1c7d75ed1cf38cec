-------------------------- MODULE RegistrationProofs --------------------------
(***************************************************************************)
(* Theorems about Registration for any number of emails, requests and      *)
(* tokens: types, that accounts are made for confirmed emails only, how    *)
(* many wrong answers a code takes, and that a refusal lasts no longer     *)
(* than its counter.                                                       *)
(***************************************************************************)
EXTENDS Registration, FiniteSetTheorems, TLAPS

(* What a token or a request that has passed a check stands for. *)
CheckedOK ==
    /\ \A t \in Token : token[t].left > 0 => token[t].email \in confirmed
    /\ \A r \in Request :
          /\ req[r].pc # "idle" => req[r].email \in Email
          /\ req[r].pc = "consume" => req[r].tok \in Token
          /\ req[r].pc = "token" => req[r].tok \in Token
          /\ req[r].pc \in {"compare", "insert"} => req[r].email \in confirmed
          /\ req[r].pc = "uncount" => req[r].email \in users

AboutToExpire(r, e) == req[r].pc = "expire" /\ req[r].email = e

(* The request that made the counter of an email without an account is the *)
(* only one that will set its TTL, and the counter is there until then.    *)
CountersOK ==
    \A e \in Email \ users, r \in Request :
        AboutToExpire(r, e) =>
            expiry[e] = Forever /\ \A q \in Request : AboutToExpire(q, e) => q = r

IInv == TypeOK /\ AccountsAreConfirmed /\ CheckedOK /\ CountersOK

-----------------------------------------------------------------------------
LEMMA ForeverFacts ==
    /\ Forever \in Nat /\ Forever > Life /\ Forever > 1
    /\ Life \in Nat \ {0} /\ Cooldown \in Nat \ {0}
  BY BoundAssumption DEF Forever

LEMMA LessFacts ==
    ASSUME NEW n \in 0 .. Forever
    PROVE  /\ Less(n) \in 0 .. Forever
           /\ Less(n) = 0 <=> n \in {0, 1}
           /\ n # Forever => Less(n) <= n
           /\ n = Forever => Less(n) = Forever
           /\ \A m \in Nat : m < Forever /\ n \in 0 .. m => Less(n) \in 0 .. m
  BY ForeverFacts DEF Less

LEMMA InitIInv == Init => IInv
  <1> SUFFICES ASSUME Init PROVE IInv
    OBVIOUS
  <1>1. TypeOK
    BY ForeverFacts, BoundAssumption DEF Init, TypeOK, NoRequest, NoKey, NoToken
  <1>2. AccountsAreConfirmed /\ CheckedOK /\ CountersOK
    BY DEF Init, AccountsAreConfirmed, CheckedOK, CountersOK, AboutToExpire, NoRequest, NoToken
  <1> QED BY <1>1, <1>2 DEF IInv

-----------------------------------------------------------------------------
(* Requests.                                                               *)

Place == {"idle", "cooldown", "attempts", "exists", "mail", "store", "mark", "guesses",
          "check", "count", "expire", "consume", "token", "compare", "insert",
          "uncount", "unmark", "spend"}

RequestType == [pc : Place, email : Email \cup {NULL}, tok : Token \cup {NULL}]

LEMMA ReqType == TypeOK => req \in [Request -> RequestType]
  BY DEF TypeOK, RequestType, Place

LEMMA GoToFacts ==
    ASSUME req \in [Request -> RequestType], NEW r \in Request, NEW pc \in Place, GoTo(r, pc)
    PROVE  /\ req' \in [Request -> RequestType]
           /\ req'[r].pc = pc /\ req'[r].email = req[r].email /\ req'[r].tok = req[r].tok
           /\ \A q \in Request : q # r => req'[q] = req[q]
  <1>1. req' = [req EXCEPT ![r] = [req[r] EXCEPT !.pc = pc]]
    BY DEF GoTo
  <1>2. [req[r] EXCEPT !.pc = pc] \in RequestType
    BY DEF RequestType
  <1>3. req'[r] = [req[r] EXCEPT !.pc = pc]
    BY <1>1
  <1> QED BY <1>1, <1>2, <1>3 DEF RequestType

LEMMA ReturnFacts ==
    ASSUME req \in [Request -> RequestType], NEW r \in Request, Return(r)
    PROVE  /\ req' \in [Request -> RequestType]
           /\ req'[r].pc = "idle"
           /\ \A q \in Request : q # r => req'[q] = req[q]
  <1>1. NoRequest \in RequestType /\ NoRequest.pc = "idle"
    BY DEF NoRequest, RequestType, Place
  <1> QED BY <1>1 DEF Return

LEMMA StartFacts ==
    ASSUME req \in [Request -> RequestType], NEW r \in Request, NEW pc \in Place,
           NEW e \in Email, NEW t \in Token \cup {NULL}, Start(r, pc, e, t)
    PROVE  /\ req' \in [Request -> RequestType]
           /\ req'[r].pc = pc /\ req'[r].email = e
           /\ \A q \in Request : q # r => req'[q] = req[q]
  <1>1. [pc |-> pc, email |-> e, tok |-> t] \in RequestType
    BY DEF RequestType
  <1> QED BY <1>1 DEF Start

(* A right answer gives a request a token. *)
LEMMA TokenFacts ==
    ASSUME req \in [Request -> RequestType], NEW r \in Request, NEW t \in Token,
           req' = [req EXCEPT ![r].pc = "consume", ![r].tok = t]
    PROVE  /\ req' \in [Request -> RequestType]
           /\ req'[r].pc = "consume" /\ req'[r].email = req[r].email /\ req'[r].tok = t
           /\ \A q \in Request : q # r => req'[q] = req[q]
  <1>1. req' = [req EXCEPT ![r] = [req[r] EXCEPT !.pc = "consume", !.tok = t]]
    BY DEF RequestType
  <1>2. [req[r] EXCEPT !.pc = "consume", !.tok = t] \in RequestType
    BY DEF RequestType, Place
  <1>3. req'[r] = [req[r] EXCEPT !.pc = "consume", !.tok = t]
    BY <1>1
  <1> QED BY <1>1, <1>2, <1>3 DEF RequestType

-----------------------------------------------------------------------------
(* Each step is a move of one request and a change of at most two keys.    *)

(* The types apart from the requests'. *)
TablesOK ==
    /\ otp \in [Email -> 0 .. Life]
    /\ cooldown \in [Email -> 0 .. Cooldown]
    /\ attempts \in [Email -> Nat]
    /\ expiry \in [Email -> 0 .. Forever]
    /\ \A e \in Email : attempts[e] = 0 <=> expiry[e] = 0
    /\ stored \in [Email -> [tok : Token \cup {NULL}, ttl : 0 .. Life]]
    /\ token \in [Token -> [email : Email \cup {NULL}, left : 0 .. Life]]
    /\ handed \subseteq Token
    /\ users \subseteq Email
    /\ confirmed \subseteq Email
    /\ against \subseteq Request
    /\ wrong \in [Email -> Nat]

LEMMA TypeSplit == TypeOK <=> TablesOK /\ req \in [Request -> RequestType]
  BY DEF TypeOK, TablesOK, RequestType, Place

LEMMA TypeSplitNext == TypeOK' <=> TablesOK' /\ req' \in [Request -> RequestType]
  BY DEF TypeOK, TablesOK, RequestType, Place

(* A step in which a request only moves on, having read something.         *)
LEMMA ReadIInv ==
    ASSUME IInv, NEW r \in Request, NEW pc \in Place,
           GoTo(r, pc) \/ Return(r), req[r].email \in Email,
           pc \notin {"expire", "consume", "token", "compare", "uncount"},
           pc = "insert" => req[r].email \in confirmed,
           against' \in {against, against \ {r}, against \cup {r}},
           UNCHANGED <<redis, token, handed, users, confirmed, wrong>>
    PROVE  IInv'
  <1>1. req \in [Request -> RequestType]
    BY ReqType DEF IInv
  <1>2. /\ req' \in [Request -> RequestType]
        /\ \A q \in Request : q # r => req'[q] = req[q]
        /\ \/ req'[r].pc = pc /\ req'[r].email = req[r].email
           \/ req'[r].pc = "idle"
    BY <1>1, GoToFacts, ReturnFacts
  <1>3. TypeOK'
    BY <1>2, TypeSplit, TypeSplitNext DEF IInv, TablesOK, redis
  <1>4. AccountsAreConfirmed'
    BY DEF IInv, AccountsAreConfirmed
  <1>5. CheckedOK'
    BY <1>2 DEF IInv, CheckedOK
  <1>6. CountersOK'
    BY <1>2 DEF IInv, CountersOK, AboutToExpire, redis
  <1> QED BY <1>3, <1>4, <1>5, <1>6 DEF IInv

(* A request begins. *)
LEMMA BeginIInv ==
    ASSUME IInv, NEW r \in Request, NEW e \in Email,
           \/ BeginSend(r, e) \/ BeginVerify(r, e)
           \/ \E t \in Token : BeginFinalize(r, e, t)
    PROVE  IInv'
  <1>1. PICK pc \in {"cooldown", "guesses", "compare"}, t \in Token \cup {NULL} :
            Start(r, pc, e, t) /\ (pc = "compare" => e \in confirmed)
    <2>1. CASE BeginSend(r, e) \/ BeginVerify(r, e)
      BY <2>1 DEF BeginSend, BeginVerify
    <2>2. CASE \E t \in Token : BeginFinalize(r, e, t)
      BY <2>2 DEF BeginFinalize, IsTempTokenOf, IInv, CheckedOK
    <2> QED BY <2>1, <2>2
  <1>2. UNCHANGED <<redis, token, handed, users, history>>
    BY DEF BeginSend, BeginVerify, BeginFinalize
  <1>3. /\ req' \in [Request -> RequestType]
        /\ req'[r].pc = pc /\ req'[r].email = e
        /\ \A q \in Request : q # r => req'[q] = req[q]
    BY <1>1, ReqType, StartFacts DEF IInv, Place
  <1>4. TypeOK'
    BY <1>2, <1>3, TypeSplit, TypeSplitNext DEF IInv, TablesOK, redis, history
  <1>5. AccountsAreConfirmed' /\ CheckedOK'
    BY <1>1, <1>2, <1>3 DEF IInv, AccountsAreConfirmed, CheckedOK, history
  <1>6. CountersOK'
    BY <1>2, <1>3 DEF IInv, CountersOK, AboutToExpire, redis
  <1> QED BY <1>4, <1>5, <1>6 DEF IInv

(* Steps that change a key of no concern to the counters and the checks.   *)
LEMMA KeyIInv ==
    ASSUME IInv, NEW r \in Request, NEW pc \in {"mark", "token", "spend", "idle"},
           GoTo(r, pc) \/ (pc = "idle" /\ Return(r)), req[r].email \in Email,
           pc = "token" => req[r].tok \in Token,
           otp' \in [Email -> 0 .. Life], cooldown' \in [Email -> 0 .. Cooldown],
           stored' \in [Email -> [tok : Token \cup {NULL}, ttl : 0 .. Life]],
           handed' \subseteq Token, against' \subseteq Request, wrong' \in [Email -> Nat],
           UNCHANGED <<attempts, expiry, token, users, confirmed>>
    PROVE  IInv'
  <1>1. /\ req' \in [Request -> RequestType]
        /\ \A q \in Request : q # r => req'[q] = req[q]
        /\ \/ req'[r].pc = pc /\ req'[r].email = req[r].email /\ req'[r].tok = req[r].tok
           \/ req'[r].pc = "idle"
    BY ReqType, GoToFacts, ReturnFacts DEF IInv, Place
  <1>2. TypeOK'
    BY <1>1, TypeSplit, TypeSplitNext DEF IInv, TablesOK
  <1>3. AccountsAreConfirmed' /\ CheckedOK'
    BY <1>1 DEF IInv, AccountsAreConfirmed, CheckedOK
  <1>4. CountersOK'
    BY <1>1 DEF IInv, CountersOK, AboutToExpire
  <1> QED BY <1>2, <1>3, <1>4 DEF IInv

LEMMA SendIInv ==
    ASSUME IInv, NEW r \in Request, Send(r)
    PROVE  IInv'
  <1>1. ASSUME req[r].pc # "idle" PROVE req[r].email \in Email
    BY <1>1 DEF IInv, CheckedOK
  <1>2. CASE ReadCooldown(r) \/ CheckExists(r) \/ Mail(r)
    BY <1>1, <1>2, ReadIInv DEF ReadCooldown, CheckExists, Mail, history, Place
  <1>3. CASE StoreCode(r)
    <2>1. /\ otp \in [Email -> 0 .. Life] /\ wrong \in [Email -> Nat] /\ against \subseteq Request
          /\ Life \in 0 .. Life
      BY ForeverFacts, TypeSplit DEF IInv, TablesOK
    <2>2. otp' \in [Email -> 0 .. Life] /\ wrong' \in [Email -> Nat] /\ against' \subseteq Request
      BY <1>3, <2>1 DEF StoreCode
    <2> QED BY <1>1, <1>3, <2>2, KeyIInv, TypeSplit DEF StoreCode, IInv, TablesOK
  <1>4. CASE MarkCooldown(r)
    <2>1. cooldown \in [Email -> 0 .. Cooldown] /\ Cooldown \in 0 .. Cooldown
      BY ForeverFacts, TypeSplit DEF IInv, TablesOK
    <2>2. cooldown' \in [Email -> 0 .. Cooldown]
      BY <1>4, <2>1 DEF MarkCooldown
    <2> QED BY <1>1, <1>4, <2>2, KeyIInv, TypeSplit DEF MarkCooldown, IInv, TablesOK, history
  <1> QED BY <1>2, <1>3, <1>4 DEF Send

(* The owner of the email sent in the right code: what is made from it is  *)
(* for a confirmed email.                                                  *)
LEMMA RightIInv ==
    ASSUME IInv, NEW r \in Request, NEW t \in Token, req[r].email \in Email,
           token' = [token EXCEPT ![t] = [email |-> req[r].email, left |-> Life]],
           req' = [req EXCEPT ![r].pc = "consume", ![r].tok = t],
           confirmed' = confirmed \cup {req[r].email},
           UNCHANGED <<redis, handed, users, against, wrong>>
    PROVE  IInv'
  <1>1. /\ req' \in [Request -> RequestType]
        /\ req'[r].pc = "consume" /\ req'[r].email = req[r].email /\ req'[r].tok = t
        /\ \A q \in Request : q # r => req'[q] = req[q]
    BY ReqType, TokenFacts DEF IInv
  <1>2. token' \in [Token -> [email : Email \cup {NULL}, left : 0 .. Life]]
    BY BoundAssumption DEF IInv, TypeOK
  <1>3. TypeOK'
    BY <1>1, <1>2, TypeSplit, TypeSplitNext DEF IInv, TablesOK, redis
  <1>4. AccountsAreConfirmed'
    BY DEF IInv, AccountsAreConfirmed
  <1>5. CheckedOK'
    <2>1. \A x \in Token : token'[x].left > 0 => token'[x].email \in confirmed'
      BY DEF IInv, CheckedOK, TypeOK
    <2> QED BY <1>1, <2>1 DEF IInv, CheckedOK
  <1>6. CountersOK'
    BY <1>1 DEF IInv, CountersOK, AboutToExpire, redis
  <1> QED BY <1>3, <1>4, <1>5, <1>6 DEF IInv

(* INCR: a request is about to set the TTL only of a counter it has made.  *)
LEMMA CountIInv ==
    ASSUME IInv, NEW r \in Request, CountWrong(r)
    PROVE  IInv'
  <1> DEFINE e == req[r].email
  <1>1. e \in Email /\ attempts[e] \in Nat /\ wrong[e] \in Nat
    BY DEF CountWrong, IInv, CheckedOK, TypeOK
  <1>2. /\ attempts' = [attempts EXCEPT ![e] = attempts[e] + 1]
        /\ wrong' \in [Email -> Nat] /\ against' \subseteq Request
        /\ UNCHANGED <<otp, cooldown, stored, token, handed, users, confirmed>>
        /\ \/ attempts[e] = 0 /\ expiry' = [expiry EXCEPT ![e] = Forever] /\ GoTo(r, "expire")
           \/ attempts[e] # 0 /\ expiry' = expiry /\ Return(r)
    BY <1>1 DEF CountWrong, IInv, TypeOK
  <1> HIDE DEF e
  <1>3. /\ req' \in [Request -> RequestType]
        /\ \A q \in Request : q # r => req'[q] = req[q]
        /\ IF attempts[e] = 0 THEN req'[r].pc = "expire" /\ req'[r].email = e
                              ELSE req'[r].pc = "idle"
    BY <1>2, ReqType, GoToFacts, ReturnFacts DEF IInv, Place, e
  <1>4. /\ attempts' \in [Email -> Nat] /\ expiry' \in [Email -> 0 .. Forever]
        /\ \A x \in Email : attempts'[x] = 0 <=> expiry'[x] = 0
    BY <1>1, <1>2, ForeverFacts, TypeSplit DEF IInv, TablesOK
  <1>5. TypeOK'
    BY <1>2, <1>3, <1>4, TypeSplit, TypeSplitNext DEF IInv, TablesOK
  <1>6. AccountsAreConfirmed' /\ CheckedOK'
    BY <1>1, <1>2, <1>3 DEF IInv, AccountsAreConfirmed, CheckedOK
  <1>7. CountersOK'
    <2> SUFFICES ASSUME NEW x \in Email \ users, NEW q \in Request, AboutToExpire(q, x)'
                 PROVE  expiry'[x] = Forever /\ \A p \in Request : AboutToExpire(p, x)' => p = q
      BY <1>2 DEF CountersOK
    <2>1. CASE x # e
      <3>1. \A p \in Request : AboutToExpire(p, x)' => AboutToExpire(p, x)
        BY <1>3, <2>1 DEF AboutToExpire
      <3>2. expiry'[x] = expiry[x]
        BY <1>1, <1>2, <2>1, TypeSplit DEF IInv, TablesOK
      <3>3. x \notin users /\ AboutToExpire(q, x)
        BY <1>2, <3>1
      <3> QED BY <3>1, <3>2, <3>3 DEF IInv, CountersOK
    <2>2. CASE x = e /\ attempts[e] = 0
      <3>1. \A p \in Request : ~AboutToExpire(p, e)
        BY <1>1, <2>2, ForeverFacts DEF IInv, CountersOK, TypeOK
      <3>2. expiry'[e] = Forever
        BY <1>1, <1>2, <2>2 DEF IInv, TypeOK
      <3> QED BY <1>3, <2>2, <3>1, <3>2 DEF AboutToExpire
    <2>3. CASE x = e /\ attempts[e] # 0
      BY <1>1, <1>2, <1>3, <2>3 DEF IInv, CountersOK, AboutToExpire
    <2> QED BY <2>1, <2>2, <2>3
  <1> QED BY <1>5, <1>6, <1>7 DEF IInv

(* EXPIRE, and what it does to an email without an account. *)
LEMMA ExpireIInv ==
    ASSUME IInv, NEW r \in Request, SetExpiry(r)
    PROVE  IInv'
  <1> DEFINE e == req[r].email
  <1>1. /\ e \in Email /\ Return(r) /\ AboutToExpire(r, e)
        /\ expiry' = [expiry EXCEPT ![e] = IF attempts[e] = 0 THEN 0 ELSE Life]
        /\ UNCHANGED <<otp, cooldown, attempts, stored, token, handed, users, confirmed, against, wrong>>
    BY DEF SetExpiry, IInv, CheckedOK, AboutToExpire, history
  <1> HIDE DEF e
  <1>2. /\ req' \in [Request -> RequestType] /\ req'[r].pc = "idle"
        /\ \A q \in Request : q # r => req'[q] = req[q]
    BY <1>1, ReqType, ReturnFacts DEF IInv
  <1>3. /\ expiry' \in [Email -> 0 .. Forever]
        /\ \A x \in Email : attempts'[x] = 0 <=> expiry'[x] = 0
    BY <1>1, ForeverFacts, TypeSplit DEF IInv, TablesOK
  <1>4. TypeOK'
    BY <1>1, <1>2, <1>3, TypeSplit, TypeSplitNext DEF IInv, TablesOK
  <1>5. AccountsAreConfirmed' /\ CheckedOK'
    BY <1>1, <1>2 DEF IInv, AccountsAreConfirmed, CheckedOK
  <1>6. CountersOK'
    <2> SUFFICES ASSUME NEW x \in Email \ users, NEW q \in Request, AboutToExpire(q, x)'
                 PROVE  expiry'[x] = Forever /\ \A p \in Request : AboutToExpire(p, x)' => p = q
      BY <1>1 DEF CountersOK
    <2>1. q # r /\ AboutToExpire(q, x) /\ \A p \in Request : AboutToExpire(p, x)' => AboutToExpire(p, x)
      BY <1>2 DEF AboutToExpire
    <2>2. x # e
      BY <1>1, <2>1 DEF IInv, CountersOK
    <2>3. expiry'[x] = expiry[x]
      BY <1>1, <2>2, TypeSplit DEF IInv, TablesOK
    <2> QED BY <2>1, <2>3 DEF IInv, CountersOK
  <1> QED BY <1>4, <1>5, <1>6 DEF IInv

LEMMA VerifyIInv ==
    ASSUME IInv, NEW r \in Request, Verify(r)
    PROVE  IInv'
  <1>1. ASSUME req[r].pc # "idle" PROVE req[r].email \in Email
    BY <1>1 DEF IInv, CheckedOK
  <1>2. CASE CheckCode(r)
    <2>1. CASE /\ GoTo(r, "count") /\ against' \in {against, against \cup {r}}
               /\ UNCHANGED <<token, confirmed>>
      BY <1>1, <1>2, <2>1, ReadIInv DEF CheckCode, Place
    <2>2. CASE \E t \in Token :
                  /\ token' = [token EXCEPT ![t] = [email |-> req[r].email, left |-> Life]]
                  /\ req' = [req EXCEPT ![r].pc = "consume", ![r].tok = t]
                  /\ confirmed' = confirmed \cup {req[r].email}
                  /\ UNCHANGED against
      BY <1>1, <1>2, <2>2, RightIInv DEF CheckCode
    <2> QED BY <1>2, <2>1, <2>2 DEF CheckCode
  <1>3. CASE CountWrong(r)
    BY <1>3, CountIInv
  <1>4. CASE SetExpiry(r)
    BY <1>4, ExpireIInv
  <1>5. CASE ConsumeCode(r)
    <2>1. otp \in [Email -> 0 .. Life] /\ 0 \in 0 .. Life
      BY ForeverFacts, TypeSplit DEF IInv, TablesOK
    <2>2. otp' \in [Email -> 0 .. Life]
      BY <1>5, <2>1 DEF ConsumeCode
    <2>3. req[r].tok \in Token
      BY <1>5 DEF ConsumeCode, IInv, CheckedOK
    <2> QED BY <1>1, <1>5, <2>2, <2>3, KeyIInv, TypeSplit DEF ConsumeCode, IInv, TablesOK, history
  <1>6. CASE StoreToken(r)
    <2>1. req[r].tok \in Token /\ Life \in 0 .. Life
      BY <1>6, ForeverFacts DEF StoreToken, IInv, CheckedOK
    <2>2. /\ stored' \in [Email -> [tok : Token \cup {NULL}, ttl : 0 .. Life]]
          /\ handed' \subseteq Token
      BY <1>6, <2>1, TypeSplit DEF StoreToken, IInv, TablesOK
    <2> QED BY <1>1, <1>6, <2>2, KeyIInv, TypeSplit DEF StoreToken, IInv, TablesOK, history
  <1> QED BY <1>2, <1>3, <1>4, <1>5, <1>6 DEF Verify

(* The INSERT of an account, and the end of its email's counter. *)
LEMMA InsertIInv ==
    ASSUME IInv, NEW r \in Request, Insert(r), users' # users
    PROVE  IInv'
  <1> DEFINE e == req[r].email
  <1>1. /\ e \in Email /\ e \in confirmed /\ users' = users \cup {e} /\ GoTo(r, "uncount")
        /\ UNCHANGED <<redis, token, handed, confirmed, against, wrong>>
    BY DEF Insert, IInv, CheckedOK, history
  <1>2. /\ req' \in [Request -> RequestType] /\ req'[r].pc = "uncount" /\ req'[r].email = e
        /\ \A q \in Request : q # r => req'[q] = req[q]
    BY <1>1, ReqType, GoToFacts DEF IInv, Place
  <1> HIDE DEF e
  <1>3. TypeOK'
    BY <1>1, <1>2, TypeSplit, TypeSplitNext DEF IInv, TablesOK, redis
  <1>4. AccountsAreConfirmed' /\ CheckedOK'
    BY <1>1, <1>2 DEF IInv, AccountsAreConfirmed, CheckedOK
  <1>5. CountersOK'
    BY <1>1, <1>2 DEF IInv, CountersOK, AboutToExpire, redis
  <1> QED BY <1>3, <1>4, <1>5 DEF IInv

LEMMA UncountIInv ==
    ASSUME IInv, NEW r \in Request, DeleteAttempts(r)
    PROVE  IInv'
  <1> DEFINE e == req[r].email
  <1>1. /\ e \in users /\ GoTo(r, "unmark")
        /\ attempts' = [attempts EXCEPT ![e] = 0] /\ expiry' = [expiry EXCEPT ![e] = 0]
        /\ UNCHANGED <<otp, cooldown, stored, token, handed, users, confirmed, against, wrong>>
    BY DEF DeleteAttempts, IInv, CheckedOK, history
  <1>2. /\ req' \in [Request -> RequestType] /\ req'[r].pc = "unmark" /\ req'[r].email = e
        /\ \A q \in Request : q # r => req'[q] = req[q]
    BY <1>1, ReqType, GoToFacts DEF IInv, Place
  <1> HIDE DEF e
  <1>3. /\ attempts' \in [Email -> Nat] /\ expiry' \in [Email -> 0 .. Forever]
        /\ \A x \in Email : attempts'[x] = 0 <=> expiry'[x] = 0
        /\ \A x \in Email \ users : expiry'[x] = expiry[x]
    BY <1>1, ForeverFacts, TypeSplit DEF IInv, TablesOK
  <1>4. TypeOK'
    BY <1>1, <1>2, <1>3, TypeSplit, TypeSplitNext DEF IInv, TablesOK
  <1>5. AccountsAreConfirmed' /\ CheckedOK'
    BY <1>1, <1>2, TypeSplit DEF IInv, TablesOK, AccountsAreConfirmed, CheckedOK
  <1>6. CountersOK'
    BY <1>1, <1>2, <1>3 DEF IInv, CountersOK, AboutToExpire
  <1> QED BY <1>4, <1>5, <1>6 DEF IInv

LEMMA FinalizeIInv ==
    ASSUME IInv, NEW r \in Request, Finalize(r)
    PROVE  IInv'
  <1>1. ASSUME req[r].pc # "idle" PROVE req[r].email \in Email
    BY <1>1 DEF IInv, CheckedOK
  <1>2. CASE Compare(r)
    <2>1. req[r].email \in confirmed
      BY <1>2 DEF Compare, IInv, CheckedOK
    <2> QED BY <1>1, <1>2, <2>1, ReadIInv DEF Compare, history, Place
  <1>3. CASE Insert(r)
    <2>1. CASE users' = users
      BY <1>1, <1>3, <2>1, ReadIInv DEF Insert, history, Place
    <2> QED BY <1>3, <2>1, InsertIInv
  <1>4. CASE DeleteAttempts(r)
    BY <1>4, UncountIInv
  <1>5. CASE DeleteCooldown(r)
    <2>1. cooldown \in [Email -> 0 .. Cooldown] /\ 0 \in 0 .. Cooldown
      BY ForeverFacts, TypeSplit DEF IInv, TablesOK
    <2>2. cooldown' \in [Email -> 0 .. Cooldown]
      BY <1>5, <2>1 DEF DeleteCooldown
    <2> QED BY <1>1, <1>5, <2>2, KeyIInv, TypeSplit DEF DeleteCooldown, IInv, TablesOK, history
  <1>6. CASE DeleteToken(r)
    <2>1. /\ stored \in [Email -> [tok : Token \cup {NULL}, ttl : 0 .. Life]]
          /\ NoKey \in [tok : Token \cup {NULL}, ttl : 0 .. Life]
      BY ForeverFacts, TypeSplit DEF IInv, TablesOK, NoKey
    <2>2. stored' \in [Email -> [tok : Token \cup {NULL}, ttl : 0 .. Life]]
      BY <1>6, <2>1 DEF DeleteToken
    <2> QED BY <1>1, <1>6, <2>2, KeyIInv, TypeSplit DEF DeleteToken, IInv, TablesOK, history
  <1> QED BY <1>2, <1>3, <1>4, <1>5, <1>6 DEF Finalize

LEMMA TickIInv == IInv /\ Tick => IInv'
  <1> SUFFICES ASSUME IInv, Tick PROVE IInv'
    OBVIOUS
  <1>1. TablesOK
    BY TypeSplit DEF IInv
  <1>2. otp' \in [Email -> 0 .. Life]
    BY <1>1, LessFacts, ForeverFacts DEF TablesOK, Tick
  <1>3. cooldown' \in [Email -> 0 .. Cooldown]
    BY <1>1, LessFacts, ForeverFacts, BoundAssumption DEF TablesOK, Tick
  <1>4. /\ expiry' \in [Email -> 0 .. Forever] /\ attempts' \in [Email -> Nat]
        /\ \A e \in Email : attempts'[e] = 0 <=> expiry'[e] = 0
        /\ \A e \in Email : expiry[e] = Forever => expiry'[e] = Forever
    BY <1>1, LessFacts, ForeverFacts DEF TablesOK, Tick
  <1>5. stored' \in [Email -> [tok : Token \cup {NULL}, ttl : 0 .. Life]]
    BY <1>1, ForeverFacts DEF TablesOK, Tick, NoKey
  <1>6. /\ token' \in [Token -> [email : Email \cup {NULL}, left : 0 .. Life]]
        /\ \A t \in Token : token'[t].left > 0 => token[t].left > 0 /\ token'[t].email = token[t].email
    <2>1. /\ NoToken \in [email : Email \cup {NULL}, left : 0 .. Life]
          /\ NoToken.left = 0
      BY ForeverFacts DEF NoToken
    <2> SUFFICES ASSUME NEW t \in Token
                 PROVE  /\ token'[t] \in [email : Email \cup {NULL}, left : 0 .. Life]
                        /\ token'[t].left > 0 =>
                             token[t].left > 0 /\ token'[t].email = token[t].email
      BY DEF Tick
    <2>2. token[t] \in [email : Email \cup {NULL}, left : 0 .. Life]
      BY <1>1 DEF TablesOK
    <2>3. CASE token[t].left <= 1
      BY <2>1, <2>3 DEF Tick
    <2>4. CASE ~(token[t].left <= 1)
      <3>1. token'[t] = [token[t] EXCEPT !.left = token[t].left - 1]
        BY <2>4 DEF Tick
      <3>2. token[t].left - 1 \in 0 .. Life /\ token[t].left > 0
        BY <2>2, <2>4, ForeverFacts
      <3> QED BY <2>2, <3>1, <3>2
    <2> QED BY <2>3, <2>4
  <1>7. UNCHANGED <<users, req, confirmed, against, wrong>> /\ handed' \subseteq handed
    BY DEF Tick, history
  <1>8. TypeOK'
    BY <1>1, <1>2, <1>3, <1>4, <1>5, <1>6, <1>7, TypeSplit, TypeSplitNext DEF TablesOK, IInv
  <1>9. AccountsAreConfirmed' /\ CheckedOK'
    BY <1>6, <1>7 DEF IInv, AccountsAreConfirmed, CheckedOK
  <1>10. CountersOK'
    BY <1>4, <1>7 DEF IInv, CountersOK, AboutToExpire
  <1> QED BY <1>8, <1>9, <1>10 DEF IInv

LEMMA NextIInv == IInv /\ [Next]_vars => IInv'
  <1> SUFFICES ASSUME IInv, [Next]_vars PROVE IInv'
    OBVIOUS
  <1>1. ASSUME NEW r \in Request, ReadAttempts(r) PROVE IInv'
    <2>1. req[r].email \in Email
      BY <1>1 DEF ReadAttempts, IInv, CheckedOK
    <2> QED BY <1>1, <2>1, ReadIInv DEF ReadAttempts, history, Place
  <1>2. ASSUME NEW r \in Request, Cancel(r) PROVE IInv'
    <2>1. req[r].email \in Email
      BY <1>2 DEF Cancel, IInv, CheckedOK
    <2> QED BY <1>2, <2>1, ReadIInv DEF Cancel, Place
  <1>3. ASSUME NEW r \in Request, Send(r) \/ Verify(r) \/ Finalize(r) PROVE IInv'
    BY <1>3, SendIInv, VerifyIInv, FinalizeIInv
  <1>4. CASE UNCHANGED vars
    BY <1>4, TypeSplit, TypeSplitNext
    DEF vars, IInv, TablesOK, AccountsAreConfirmed, CheckedOK, CountersOK, AboutToExpire
  <1> QED BY <1>1, <1>2, <1>3, <1>4, BeginIInv, TickIInv DEF Next

LEMMA Inductive == Spec => []IInv
  BY InitIInv, NextIInv, PTL DEF Spec

-----------------------------------------------------------------------------
(* Wrong answers.                                                          *)

(* The requests for email e that have passed the limit and are still to    *)
(* count an answer that is wrong, and those of them whose answer was       *)
(* compared with the last code.                                            *)
Guessing(e) == {r \in Request : req[r].email = e /\ req[r].pc \in {"check", "count"}}
Against(e) == {r \in against : req[r].email = e}

(* As high as a counter can get before it expires. *)
Margin == MaxAttempts + Cardinality(Request) - 1

(* How many answers to its last code were counted while the counter is the *)
(* one that counted all of them, and while it may be the second.           *)
CodeOK(e) ==
    IF attempts[e] > 0 /\ expiry[e] < otp[e] THEN wrong[e] <= attempts[e] - 1
    ELSE wrong[e] <= attempts[e] + Margin - 1

EmailOK(e) == wrong[e] + Cardinality(Against(e)) <= 2 * Margin - 1 /\ (otp[e] > 0 => CodeOK(e))

GuessesOK ==
    /\ \A r \in against : req[r].pc = "count"
    /\ \A e \in Email : attempts[e] + Cardinality(Guessing(e)) <= Margin
    /\ \A e \in Email \ users : EmailOK(e)

LEMMA GuessingFinite ==
    ASSUME NEW e \in Email
    PROVE  /\ IsFiniteSet(Guessing(e)) /\ Cardinality(Guessing(e)) \in Nat
           /\ Cardinality(Guessing(e)) <= Cardinality(Request)
           /\ Margin \in Nat \ {0} /\ Cardinality(Request) \in Nat \ {0}
  <1>1. Cardinality(Request) \in Nat \ {0}
    BY RequestAssumption, FS_CardinalityType, FS_EmptySet
  <1>2. Guessing(e) \in SUBSET Request
    BY DEF Guessing
  <1>3. /\ IsFiniteSet(Guessing(e)) /\ Cardinality(Guessing(e)) \in Nat
        /\ Cardinality(Guessing(e)) <= Cardinality(Request)
    BY <1>2, RequestAssumption, FS_Subset, FS_CardinalityType
  <1> QED BY <1>1, <1>3, BoundAssumption DEF Margin

LEMMA GuessingFiniteNext ==
    ASSUME NEW e \in Email
    PROVE  /\ IsFiniteSet(Guessing(e)') /\ Cardinality(Guessing(e)') \in Nat
           /\ Cardinality(Guessing(e)') <= Cardinality(Request)
  <1>1. Guessing(e)' \in SUBSET Request
    BY DEF Guessing
  <1> QED BY <1>1, RequestAssumption, FS_Subset, FS_CardinalityType

LEMMA AgainstFinite ==
    ASSUME against \subseteq Request, NEW e \in Email
    PROVE  IsFiniteSet(Against(e)) /\ Cardinality(Against(e)) \in Nat
  <1>1. Against(e) \in SUBSET Request
    BY DEF Against
  <1> QED BY <1>1, RequestAssumption, FS_Subset, FS_CardinalityType

LEMMA AgainstFiniteNext ==
    ASSUME against' \subseteq Request, NEW e \in Email
    PROVE  IsFiniteSet(Against(e)') /\ Cardinality(Against(e)') \in Nat
  <1>1. Against(e)' \in SUBSET Request
    BY DEF Against
  <1> QED BY <1>1, RequestAssumption, FS_Subset, FS_CardinalityType

(* The answers being compared with a code are of requests past the limit.  *)
LEMMA AgainstGuessing ==
    ASSUME against \subseteq Request, \A r \in against : req[r].pc = "count", NEW e \in Email
    PROVE  Cardinality(Against(e)) <= Cardinality(Guessing(e))
  <1>1. Against(e) \in SUBSET Guessing(e)
    BY DEF Against, Guessing
  <1> QED BY <1>1, GuessingFinite, FS_Subset

LEMMA AgainstGuessingNext ==
    ASSUME against' \subseteq Request, \A r \in against' : req'[r].pc = "count", NEW e \in Email
    PROVE  Cardinality(Against(e)') <= Cardinality(Guessing(e)')
  <1>1. Against(e)' \in SUBSET Guessing(e)'
    BY DEF Against, Guessing
  <1> QED BY <1>1, GuessingFiniteNext, FS_Subset

(* What holds of the last code leaves room for the answers under way.      *)
LEMMA RoomForAnswers ==
    ASSUME NEW w \in Nat, NEW n \in Nat, NEW a \in Nat, NEW g \in Nat, NEW m \in Nat \ {0},
           w <= n + m - 1, n + g <= m, a <= g
    PROVE  w + a <= 2 * m - 1
  OBVIOUS

LEMMA InitGuessesOK == Init => GuessesOK
  <1> SUFFICES ASSUME Init PROVE GuessesOK
    OBVIOUS
  <1>1. \A e \in Email : Guessing(e) = {} /\ Against(e) = {}
    BY DEF Init, Guessing, Against, NoRequest
  <1>2. ASSUME NEW e \in Email
        PROVE  attempts[e] + Cardinality(Guessing(e)) <= Margin /\ EmailOK(e)
    <2>1. Cardinality(Guessing(e)) = 0 /\ Cardinality(Against(e)) = 0
      BY <1>1, FS_EmptySet
    <2>2. attempts[e] = 0 /\ wrong[e] = 0 /\ otp[e] = 0
      BY DEF Init
    <2>3. Margin \in Nat \ {0}
      BY GuessingFinite
    <2> QED BY <2>1, <2>2, <2>3 DEF EmailOK
  <1> QED BY <1>2 DEF GuessesOK, Init

(* A step that lets nobody past the limit, counts nothing and stores no    *)
(* code keeps all that was counted in bounds.  A TTL that is set is longer *)
(* than what a code has left.                                              *)
LEMMA QuietGuesses ==
    ASSUME IInv, IInv', GuessesOK,
           users \subseteq users', against' \subseteq against,
           \A q \in Request : \/ req'[q] = req[q]
                              \/ req'[q].pc \notin {"check", "count"} /\ q \notin against',
           \A e \in Email : attempts'[e] <= attempts[e],
           \A e \in Email \ users' :
               /\ attempts'[e] = attempts[e] /\ wrong'[e] = wrong[e]
               /\ otp'[e] \in {otp[e], 0}
               /\ expiry'[e] = expiry[e] \/ expiry'[e] >= otp'[e]
    PROVE  GuessesOK'
  <1>1. TablesOK /\ TablesOK'
    BY TypeSplit, TypeSplitNext DEF IInv
  <1>2. \A r \in against' : req'[r].pc = "count"
    BY <1>1 DEF GuessesOK, TablesOK
  <1>3. ASSUME NEW e \in Email
        PROVE  attempts'[e] + Cardinality(Guessing(e)') <= Margin
    <2>1. Guessing(e)' \in SUBSET Guessing(e)
      BY DEF Guessing
    <2>2. Cardinality(Guessing(e)') <= Cardinality(Guessing(e))
      BY <2>1, GuessingFinite, FS_Subset
    <2>3. attempts[e] \in Nat /\ attempts'[e] \in Nat
      BY <1>1 DEF TablesOK
    <2>4. attempts'[e] <= attempts[e] /\ attempts[e] + Cardinality(Guessing(e)) <= Margin
      BY DEF GuessesOK
    <2> QED BY <2>2, <2>3, <2>4, GuessingFinite, GuessingFiniteNext
  <1>4. ASSUME NEW e \in Email \ users'
        PROVE  EmailOK(e)'
    <2>1. Against(e)' \in SUBSET Against(e)
      BY <1>1 DEF Against, TablesOK
    <2>2. Cardinality(Against(e)') <= Cardinality(Against(e))
      BY <1>1, <2>1, AgainstFinite, FS_Subset DEF TablesOK
    <2>3. Cardinality(Against(e)') \in Nat /\ Cardinality(Against(e)) \in Nat /\ Margin \in Nat
      BY <1>1, AgainstFinite, AgainstFiniteNext, GuessingFinite DEF TablesOK
    <2>4. /\ attempts[e] \in Nat /\ wrong[e] \in Nat
          /\ otp[e] \in 0 .. Life /\ otp'[e] \in 0 .. Life /\ Life \in Nat
          /\ expiry[e] \in 0 .. Forever /\ expiry'[e] \in 0 .. Forever /\ Forever \in Nat
      BY <1>1, ForeverFacts DEF TablesOK
    <2>5. e \notin users /\ EmailOK(e)
      BY DEF GuessesOK
    <2>6. wrong'[e] + Cardinality(Against(e)') <= 2 * Margin - 1
      BY <2>2, <2>3, <2>4, <2>5 DEF EmailOK
    <2>7. otp'[e] > 0 => CodeOK(e)'
      BY <2>3, <2>4, <2>5 DEF EmailOK, CodeOK, Margin
    <2> QED BY <2>6, <2>7 DEF EmailOK, Margin
  <1> QED BY <1>2, <1>3, <1>4 DEF GuessesOK, Margin

(* Past the limit: there is room for each request below it. *)
LEMMA PassLimitGuesses ==
    ASSUME IInv, IInv', GuessesOK, NEW r \in Request, ReadAttempts(r)
    PROVE  GuessesOK'
  <1>0. PICK e \in Email : req[r].email = e
    BY DEF IInv, CheckedOK, ReadAttempts
  <1>1. /\ req \in [Request -> RequestType] /\ TablesOK
        /\ UNCHANGED <<redis, users, against, wrong>>
    BY TypeSplit DEF IInv, ReadAttempts, history
  <1>2. \A q \in Request : q # r => req'[q] = req[q]
    BY <1>1, GoToFacts, ReturnFacts DEF ReadAttempts, Place
  <1>3. CASE req'[r].pc \notin {"check", "count"}
    <2>1. r \notin against
      BY DEF GuessesOK, ReadAttempts
    <2> QED BY <1>1, <1>2, <1>3, <2>1, QuietGuesses DEF redis, TablesOK
  <1>4. CASE req'[r].pc \in {"check", "count"}
    <2>1. /\ attempts[e] < MaxAttempts /\ req[r].pc = "guesses"
          /\ req'[r].pc = "check" /\ req'[r].email = e
      BY <1>0, <1>1, <1>4, GoToFacts, ReturnFacts, BoundAssumption DEF ReadAttempts, Place, TablesOK
    <2>2. r \notin against /\ \A q \in against : req'[q] = req[q]
      BY <1>1, <1>2, <2>1 DEF GuessesOK, TablesOK
    <2>3. \A x \in Email : Against(x)' = Against(x)
      BY <1>1, <2>2 DEF Against, redis
    <2>4. ASSUME NEW x \in Email \ users' PROVE EmailOK(x)'
      BY <1>1, <2>3 DEF GuessesOK, EmailOK, CodeOK, Margin, redis
    <2>5. ASSUME NEW x \in Email PROVE attempts'[x] + Cardinality(Guessing(x)') <= Margin
      <3>1. CASE x = e
        <4>1. attempts'[e] \in Nat /\ attempts'[e] <= MaxAttempts - 1 /\ MaxAttempts \in Nat
          BY <1>1, <2>1, BoundAssumption DEF redis, TablesOK
        <4> QED BY <3>1, <4>1, GuessingFinite, GuessingFiniteNext DEF Margin
      <3>2. CASE x # e
        <4>1. Guessing(x)' = Guessing(x)
          BY <1>0, <1>2, <2>1, <3>2 DEF Guessing
        <4> QED BY <1>1, <4>1 DEF GuessesOK, redis
      <3> QED BY <3>1, <3>2
    <2> QED BY <1>1, <2>2, <2>4, <2>5 DEF GuessesOK, Margin
  <1> QED BY <1>3, <1>4

(* A code is stored: nothing was counted against it. *)
LEMMA StoreCodeGuesses ==
    ASSUME IInv, IInv', GuessesOK, NEW r \in Request, StoreCode(r)
    PROVE  GuessesOK'
  <1>0. PICK e \in Email : req[r].email = e
    BY DEF IInv, CheckedOK, StoreCode
  <1>1. /\ req \in [Request -> RequestType] /\ TablesOK /\ TablesOK'
        /\ req[r].pc = "store" /\ GoTo(r, "mark")
        /\ otp' = [otp EXCEPT ![e] = Life] /\ wrong' = [wrong EXCEPT ![e] = 0]
        /\ against' = {q \in against : req[q].email # e}
        /\ UNCHANGED <<attempts, expiry, users>>
    BY <1>0, TypeSplit, TypeSplitNext DEF IInv, StoreCode
  <1>2. req'[r].pc = "mark" /\ req'[r].email = e /\ \A q \in Request : q # r => req'[q] = req[q]
    BY <1>0, <1>1, GoToFacts DEF Place
  <1>3. r \notin against /\ \A q \in against' : q \in against /\ req'[q] = req[q]
    BY <1>1, <1>2 DEF GuessesOK, TablesOK
  <1>4. ASSUME NEW x \in Email PROVE attempts'[x] + Cardinality(Guessing(x)') <= Margin
    <2>1. Guessing(x)' = Guessing(x)
      BY <1>1, <1>2 DEF Guessing
    <2> QED BY <1>1, <2>1 DEF GuessesOK
  <1>5. ASSUME NEW x \in Email \ users' PROVE EmailOK(x)'
    <2>1. CASE x = e
      <3>1. Against(e)' = {}
        BY <1>1, <1>3 DEF Against
      <3>2. Cardinality(Against(e)') = 0
        BY <3>1, FS_EmptySet
      <3>3. wrong'[e] = 0 /\ attempts'[e] \in Nat /\ Margin \in Nat \ {0}
        BY <1>1, GuessingFinite DEF TablesOK
      <3>4. CodeOK(e)'
        BY <3>3 DEF CodeOK, Margin
      <3>5. wrong'[e] + Cardinality(Against(e)') <= 2 * Margin - 1
        BY <3>2, <3>3
      <3> QED BY <2>1, <3>4, <3>5 DEF EmailOK, Margin
    <2>2. CASE x # e
      <3>1. Against(x)' = Against(x)
        BY <1>1, <1>3, <2>2 DEF Against
      <3>2. otp'[x] = otp[x] /\ wrong'[x] = wrong[x] /\ x \notin users
        BY <1>1, <2>2 DEF TablesOK
      <3> QED BY <1>1, <3>1, <3>2 DEF GuessesOK, EmailOK, CodeOK, Margin
    <2> QED BY <2>1, <2>2
  <1> QED BY <1>1, <1>3, <1>4, <1>5 DEF GuessesOK, Margin

(* An answer is found wrong, with or without a code to compare it with. *)
LEMMA WrongCodeGuesses ==
    ASSUME IInv, IInv', GuessesOK, NEW r \in Request, req[r].pc = "check", GoTo(r, "count"),
           against' = IF otp[req[r].email] > 0 THEN against \cup {r} ELSE against,
           UNCHANGED <<redis, users, wrong>>
    PROVE  GuessesOK'
  <1>0. PICK e \in Email : req[r].email = e
    BY DEF IInv, CheckedOK
  <1>1. req \in [Request -> RequestType] /\ TablesOK /\ TablesOK'
    BY TypeSplit, TypeSplitNext DEF IInv
  <1>2. req'[r].pc = "count" /\ req'[r].email = e /\ \A q \in Request : q # r => req'[q] = req[q]
    BY <1>0, <1>1, GoToFacts DEF Place
  <1>3. otp[e] > 0 \/ against' = against
    BY <1>0
  <1>4. /\ against' \in {against, against \cup {r}} /\ r \notin against
        /\ \A q \in against : q # r /\ req'[q] = req[q] /\ req[q].pc = "count"
    BY <1>1, <1>2 DEF GuessesOK, TablesOK
  <1>5. \A x \in Email : Guessing(x)' = Guessing(x)
    BY <1>0, <1>2 DEF Guessing
  <1>6. \A q \in against' : req'[q].pc = "count"
    BY <1>2, <1>4
  <1>7. ASSUME NEW x \in Email PROVE attempts'[x] + Cardinality(Guessing(x)') <= Margin
    BY <1>5 DEF GuessesOK, redis
  <1>8. ASSUME NEW x \in Email \ users' PROVE EmailOK(x)'
    <2>1. x \notin users /\ EmailOK(x) /\ UNCHANGED <<attempts[x], expiry[x], otp[x], wrong[x]>>
      BY DEF GuessesOK, redis
    <2>2. otp'[x] > 0 => CodeOK(x)'
      BY <2>1 DEF EmailOK, CodeOK, Margin
    <2>3. CASE x = e /\ otp[e] > 0
      <3>1. Cardinality(Against(e)') <= Cardinality(Guessing(e)')
        BY <1>1, <1>6, AgainstGuessingNext DEF TablesOK
      <3>2. /\ wrong[e] \in Nat /\ attempts[e] \in Nat /\ Margin \in Nat \ {0}
            /\ Cardinality(Against(e)') \in Nat /\ Cardinality(Guessing(e)') \in Nat
        BY <1>1, AgainstFiniteNext, GuessingFinite, GuessingFiniteNext DEF TablesOK
      <3>3. wrong[e] <= attempts[e] + Margin - 1
        BY <2>1, <2>3, <3>2 DEF EmailOK, CodeOK
      <3>4. attempts[e] + Cardinality(Guessing(e)') <= Margin
        BY <1>1, <1>5 DEF GuessesOK
      <3>5. wrong[e] + Cardinality(Against(e)') <= 2 * Margin - 1
        BY <3>1, <3>2, <3>3, <3>4, RoomForAnswers
      <3> QED BY <2>1, <2>2, <2>3, <3>5 DEF EmailOK, Margin
    <2>4. CASE ~(x = e /\ otp[e] > 0)
      <3>1. Against(x)' = Against(x)
        BY <1>2, <1>3, <1>4, <2>4 DEF Against
      <3> QED BY <2>1, <2>2, <3>1 DEF EmailOK, Margin
    <2> QED BY <2>3, <2>4
  <1> QED BY <1>6, <1>7, <1>8 DEF GuessesOK, Margin

(* INCR: an answer moves from those under way to those counted. *)
LEMMA CountGuesses ==
    ASSUME IInv, IInv', GuessesOK, NEW r \in Request, CountWrong(r)
    PROVE  GuessesOK'
  <1>0. PICK e \in Email : req[r].email = e
    BY DEF IInv, CheckedOK, CountWrong
  <1>1. /\ req \in [Request -> RequestType] /\ TablesOK /\ TablesOK' /\ req[r].pc = "count"
        /\ attempts' = [attempts EXCEPT ![e] = @ + 1]
        /\ wrong' = [wrong EXCEPT ![e] = IF r \in against THEN @ + 1 ELSE @]
        /\ against' = against \ {r}
        /\ IF attempts[e] = 0 THEN expiry' = [expiry EXCEPT ![e] = Forever] ELSE expiry' = expiry
        /\ UNCHANGED <<otp, users>>
    BY <1>0, TypeSplit, TypeSplitNext DEF IInv, CountWrong
  <1>2. req'[r].pc \in {"expire", "idle"} /\ \A q \in Request : q # r => req'[q] = req[q]
    BY <1>1, GoToFacts, ReturnFacts DEF CountWrong, Place
  <1>3. \A q \in against' : req'[q].pc = "count"
    BY <1>1, <1>2 DEF GuessesOK, TablesOK
  <1>4. /\ attempts[e] \in Nat /\ wrong[e] \in Nat /\ Margin \in Nat \ {0}
        /\ attempts'[e] = attempts[e] + 1
        /\ wrong'[e] = IF r \in against THEN wrong[e] + 1 ELSE wrong[e]
        /\ expiry'[e] = IF attempts[e] = 0 THEN Forever ELSE expiry[e]
        /\ otp'[e] = otp[e] /\ otp[e] \in 0 .. Life
        /\ Cardinality(Guessing(e)) \in Nat /\ Cardinality(Against(e)) \in Nat
    BY <1>1, GuessingFinite, AgainstFinite DEF TablesOK
  <1>5. ASSUME NEW x \in Email, x # e
        PROVE  /\ Guessing(x)' = Guessing(x) /\ Against(x)' = Against(x)
               /\ UNCHANGED <<attempts[x], expiry[x], otp[x], wrong[x]>>
    <2>1. Guessing(x)' = Guessing(x)
      BY <1>0, <1>2, <1>5 DEF Guessing
    <2>2. Against(x)' = Against(x)
      BY <1>0, <1>1, <1>2, <1>5 DEF Against, TablesOK
    <2>3. UNCHANGED <<attempts[x], expiry[x], otp[x], wrong[x]>>
      BY <1>1, <1>5 DEF TablesOK
    <2> QED BY <2>1, <2>2, <2>3
  <1>6. ASSUME NEW x \in Email PROVE attempts'[x] + Cardinality(Guessing(x)') <= Margin
    <2>1. CASE x = e
      <3>1. Guessing(e)' = Guessing(e) \ {r} /\ r \in Guessing(e)
        BY <1>0, <1>1, <1>2 DEF Guessing
      <3>2. Cardinality(Guessing(e)') = Cardinality(Guessing(e)) - 1
        <4>1. IsFiniteSet(Guessing(e))
          BY GuessingFinite
        <4> QED BY <3>1, <4>1, FS_RemoveElement
      <3>3. attempts[e] + Cardinality(Guessing(e)) <= Margin
        BY DEF GuessesOK
      <3> QED BY <1>4, <2>1, <3>2, <3>3
    <2>2. CASE x # e
      BY <1>5, <2>2 DEF GuessesOK
    <2> QED BY <2>1, <2>2
  <1>7. ASSUME NEW x \in Email \ users' PROVE EmailOK(x)'
    <2>1. CASE x = e
      <3>1. EmailOK(e)
        BY <1>1, <2>1 DEF GuessesOK
      <3>2. wrong'[e] + Cardinality(Against(e)') = wrong[e] + Cardinality(Against(e))
        <4>1. CASE r \in against
          <5>1. Against(e)' = Against(e) \ {r} /\ r \in Against(e)
            BY <1>0, <1>1, <1>2, <4>1 DEF Against, TablesOK
          <5>2. Cardinality(Against(e)') = Cardinality(Against(e)) - 1
            BY <1>1, <5>1, AgainstFinite, FS_RemoveElement DEF TablesOK
          <5> QED BY <1>4, <4>1, <5>2
        <4>2. CASE r \notin against
          <5>1. Against(e)' = Against(e)
            BY <1>1, <1>2, <4>2 DEF Against, TablesOK
          <5> QED BY <1>4, <4>2, <5>1
        <4> QED BY <4>1, <4>2
      <3>3. otp'[e] > 0 => CodeOK(e)'
        BY <1>4, <3>1, ForeverFacts DEF EmailOK, CodeOK, Margin
      <3> QED BY <2>1, <3>1, <3>2, <3>3 DEF EmailOK, Margin
    <2>2. CASE x # e
      BY <1>1, <1>5, <2>2 DEF GuessesOK, EmailOK, CodeOK, Margin
    <2> QED BY <2>1, <2>2
  <1> QED BY <1>3, <1>6, <1>7 DEF GuessesOK, Margin

(* When the counter expires before the code, the next one starts with what *)
(* this one has counted.  It does not happen twice: from its first INCR on *)
(* the second has no less to live than the code.                           *)
LEMMA TickGuesses ==
    ASSUME IInv, IInv', GuessesOK, Tick
    PROVE  GuessesOK'
  <1>1. TablesOK /\ TablesOK' /\ UNCHANGED <<users, req, against, wrong>>
    BY TypeSplit, TypeSplitNext DEF IInv, Tick, history
  <1>2. \A x \in Email : Guessing(x)' = Guessing(x) /\ Against(x)' = Against(x)
    BY <1>1 DEF Guessing, Against
  <1>3. ASSUME NEW x \in Email
        PROVE  /\ otp'[x] = IF otp[x] = 0 THEN 0 ELSE otp[x] - 1
               /\ expiry'[x] = IF expiry[x] \in {0, Forever} THEN expiry[x] ELSE expiry[x] - 1
               /\ attempts'[x] = IF expiry[x] = 1 THEN 0 ELSE attempts[x]
               /\ otp[x] \in 0 .. Life /\ expiry[x] \in 0 .. Forever
               /\ attempts[x] \in Nat /\ wrong[x] \in Nat
               /\ attempts[x] = 0 <=> expiry[x] = 0
               /\ Cardinality(Guessing(x)) \in Nat /\ Margin \in Nat \ {0}
               /\ Cardinality(Guessing(x)) <= Margin
               /\ attempts[x] + Cardinality(Guessing(x)) <= Margin
    <2>1. otp[x] \in 0 .. Life /\ expiry[x] \in 0 .. Forever /\ attempts[x] \in Nat /\ wrong[x] \in Nat
          /\ (attempts[x] = 0 <=> expiry[x] = 0)
      BY <1>1 DEF TablesOK
    <2>2. otp'[x] = IF otp[x] = 0 THEN 0 ELSE otp[x] - 1
      BY <2>1, ForeverFacts DEF Tick, Less
    <2>3. /\ expiry'[x] = IF expiry[x] \in {0, Forever} THEN expiry[x] ELSE expiry[x] - 1
          /\ attempts'[x] = IF expiry[x] = 1 THEN 0 ELSE attempts[x]
      BY DEF Tick, Less
    <2>4. attempts[x] + Cardinality(Guessing(x)) <= Margin
      BY DEF GuessesOK
    <2> QED BY <2>1, <2>2, <2>3, <2>4, GuessingFinite
  <1>4. ASSUME NEW x \in Email PROVE attempts'[x] + Cardinality(Guessing(x)') <= Margin
    BY <1>2, <1>3
  <1>5. ASSUME NEW x \in Email \ users' PROVE EmailOK(x)'
    <2>1. EmailOK(x)
      BY <1>1 DEF GuessesOK
    <2>2. wrong'[x] = wrong[x]
      BY <1>1
    <2>3. ASSUME otp'[x] > 0 PROVE CodeOK(x)'
      <3>1. otp[x] >= 2 /\ CodeOK(x)
        BY <1>3, <2>1, <2>3, ForeverFacts DEF EmailOK
      <3>2. CASE attempts[x] > 0 /\ expiry[x] < otp[x]
        <4>1. wrong[x] <= attempts[x] - 1
          BY <3>1, <3>2 DEF CodeOK
        <4>2. expiry'[x] = expiry[x] - 1 /\ otp'[x] = otp[x] - 1
          BY <1>3, <3>1, <3>2, ForeverFacts
        <4>3. expiry'[x] < otp'[x]
          BY <1>3, <3>2, <4>2, ForeverFacts
        <4> QED BY <1>3, <2>2, <4>1, <4>3 DEF CodeOK, Margin
      <3>3. CASE ~(attempts[x] > 0 /\ expiry[x] < otp[x])
        <4>1. wrong[x] <= attempts[x] + Margin - 1
          BY <3>1, <3>3 DEF CodeOK
        <4>2. attempts'[x] = attempts[x] /\ ~(attempts'[x] > 0 /\ expiry'[x] < otp'[x])
          BY <1>3, <3>1, <3>3, ForeverFacts
        <4> QED BY <2>2, <4>1, <4>2 DEF CodeOK, Margin
      <3> QED BY <3>2, <3>3
    <2> QED BY <1>2, <2>1, <2>2, <2>3 DEF EmailOK, Margin
  <1> QED BY <1>1, <1>4, <1>5 DEF GuessesOK, Margin

(* A request that is not about to count goes on, past no limit, with the   *)
(* counters and codes as they were. *)
LEMMA MoveGuesses ==
    ASSUME IInv, IInv', GuessesOK, NEW r \in Request,
           req[r].pc # "count" \/ r \notin against',
           req'[r].pc \notin {"check", "count"}, \A q \in Request : q # r => req'[q] = req[q],
           users \subseteq users', against' \subseteq against,
           UNCHANGED <<otp, attempts, expiry, wrong>>
    PROVE  GuessesOK'
  <1>1. TablesOK
    BY TypeSplit DEF IInv
  <1>2. r \notin against'
    BY <1>1 DEF GuessesOK, TablesOK
  <1>3. \A e \in Email : attempts'[e] <= attempts[e]
    BY <1>1 DEF TablesOK
  <1> QED BY <1>2, <1>3, QuietGuesses

LEMMA SendGuesses ==
    ASSUME IInv, IInv', GuessesOK, NEW r \in Request, Send(r)
    PROVE  GuessesOK'
  <1>1. req \in [Request -> RequestType]
    BY ReqType DEF IInv
  <1>2. CASE ReadCooldown(r) \/ CheckExists(r) \/ Mail(r)
    <2>1. PICK pc \in {"attempts", "mail", "store"} : GoTo(r, pc) \/ Return(r)
      BY <1>2 DEF ReadCooldown, CheckExists, Mail
    <2>2. req'[r].pc \notin {"check", "count"} /\ \A q \in Request : q # r => req'[q] = req[q]
      BY <1>1, <2>1, GoToFacts, ReturnFacts DEF Place
    <2> QED BY <1>2, <2>2, MoveGuesses DEF ReadCooldown, CheckExists, Mail, redis, history
  <1>3. CASE MarkCooldown(r)
    <2>1. req'[r].pc \notin {"check", "count"} /\ \A q \in Request : q # r => req'[q] = req[q]
      BY <1>1, <1>3, ReturnFacts DEF MarkCooldown
    <2> QED BY <1>3, <2>1, MoveGuesses DEF MarkCooldown, history
  <1> QED BY <1>2, <1>3, StoreCodeGuesses DEF Send

LEMMA VerifyGuesses ==
    ASSUME IInv, IInv', GuessesOK, NEW r \in Request, Verify(r)
    PROVE  GuessesOK'
  <1>1. req \in [Request -> RequestType] /\ TablesOK /\ TablesOK'
    BY TypeSplit, TypeSplitNext DEF IInv
  <1>2. CASE CheckCode(r)
    <2>1. CASE /\ GoTo(r, "count")
               /\ against' = IF otp[req[r].email] > 0 THEN against \cup {r} ELSE against
      BY <1>2, <2>1, WrongCodeGuesses DEF CheckCode
    <2>2. CASE \E t \in Token :
                  /\ req' = [req EXCEPT ![r].pc = "consume", ![r].tok = t]
                  /\ UNCHANGED against
      <3>1. req'[r].pc \notin {"check", "count"} /\ \A q \in Request : q # r => req'[q] = req[q]
        BY <1>1, <2>2, TokenFacts
      <3> QED BY <1>2, <2>2, <3>1, MoveGuesses DEF CheckCode, redis
    <2> QED BY <1>2, <2>1, <2>2 DEF CheckCode
  <1>3. CASE SetExpiry(r)
    <2>0. PICK e \in Email : req[r].email = e
      BY <1>3 DEF IInv, CheckedOK, SetExpiry
    <2>1. /\ req[r].pc = "expire" /\ req'[r].pc = "idle"
          /\ \A q \in Request : q # r => req'[q] = req[q]
          /\ UNCHANGED <<attempts, otp, users, against, wrong>>
      BY <1>1, <1>3, ReturnFacts DEF SetExpiry, history
    <2>2. r \notin against' /\ \A x \in Email : attempts'[x] <= attempts[x]
      BY <1>1, <2>1 DEF GuessesOK, TablesOK
    <2>3. ASSUME NEW x \in Email \ users'
          PROVE  expiry'[x] = expiry[x] \/ expiry'[x] >= otp'[x]
      <3>1. CASE x = e
        <4>1. expiry[e] = Forever
          BY <1>3, <2>0, <2>1, <3>1 DEF IInv, CountersOK, AboutToExpire
        <4>2. expiry'[e] = Life
          BY <1>1, <1>3, <2>0, <4>1, ForeverFacts DEF SetExpiry, TablesOK
        <4> QED BY <1>1, <3>1, <4>2, ForeverFacts DEF TablesOK
      <3>2. CASE x # e
        BY <1>1, <1>3, <2>0, <3>2 DEF SetExpiry, TablesOK
      <3> QED BY <3>1, <3>2
    <2> QED BY <2>1, <2>2, <2>3, QuietGuesses
  <1>4. CASE ConsumeCode(r)
    <2>1. /\ req[r].pc = "consume" /\ req'[r].pc = "token"
          /\ \A q \in Request : q # r => req'[q] = req[q]
          /\ UNCHANGED <<attempts, expiry, users, against, wrong>>
      BY <1>1, <1>4, GoToFacts DEF ConsumeCode, history, Place
    <2>2. r \notin against' /\ \A x \in Email : attempts'[x] <= attempts[x]
      BY <1>1, <2>1 DEF GuessesOK, TablesOK
    <2>3. \A x \in Email : otp'[x] \in {otp[x], 0}
      BY <1>1, <1>4 DEF ConsumeCode, TablesOK
    <2> QED BY <2>1, <2>2, <2>3, QuietGuesses
  <1>5. CASE StoreToken(r)
    <2>1. req'[r].pc \notin {"check", "count"} /\ \A q \in Request : q # r => req'[q] = req[q]
      BY <1>1, <1>5, ReturnFacts DEF StoreToken
    <2> QED BY <1>5, <2>1, MoveGuesses DEF StoreToken, history
  <1> QED BY <1>2, <1>3, <1>4, <1>5, CountGuesses DEF Verify

LEMMA FinalizeGuesses ==
    ASSUME IInv, IInv', GuessesOK, NEW r \in Request, Finalize(r)
    PROVE  GuessesOK'
  <1>1. req \in [Request -> RequestType] /\ TablesOK /\ TablesOK'
    BY TypeSplit, TypeSplitNext DEF IInv
  <1>2. PICK pc \in {"insert", "uncount", "unmark", "spend"} : GoTo(r, pc) \/ Return(r)
    BY DEF Finalize, Compare, Insert, DeleteAttempts, DeleteCooldown, DeleteToken
  <1>3. /\ req'[r].pc \notin {"check", "count"} /\ req[r].pc # "count"
        /\ \A q \in Request : q # r => req'[q] = req[q]
    BY <1>1, <1>2, GoToFacts, ReturnFacts
    DEF Place, Finalize, Compare, Insert, DeleteAttempts, DeleteCooldown, DeleteToken
  <1>4. CASE DeleteAttempts(r)
    <2>1. r \notin against' /\ UNCHANGED <<otp, users, against, wrong>>
      BY <1>1, <1>3, <1>4 DEF DeleteAttempts, GuessesOK, TablesOK, history
    <2>2. req[r].email \in users
      BY <1>4 DEF DeleteAttempts, IInv, CheckedOK
    <2>3. \A e \in Email : attempts'[e] <= attempts[e]
      BY <1>1, <1>4 DEF DeleteAttempts, TablesOK
    <2>4. \A e \in Email \ users' : attempts'[e] = attempts[e] /\ expiry'[e] = expiry[e]
      BY <1>1, <1>4, <2>1, <2>2 DEF DeleteAttempts, TablesOK
    <2> QED BY <1>3, <2>1, <2>3, <2>4, QuietGuesses
  <1>5. CASE Compare(r) \/ Insert(r) \/ DeleteCooldown(r) \/ DeleteToken(r)
    <2>1. users \subseteq users' /\ UNCHANGED <<otp, attempts, expiry, against, wrong>>
      BY <1>5 DEF Compare, Insert, DeleteCooldown, DeleteToken, redis, history
    <2> QED BY <1>3, <2>1, MoveGuesses
  <1> QED BY <1>4, <1>5 DEF Finalize

LEMMA NextGuesses == IInv /\ IInv' /\ GuessesOK /\ [Next]_vars => GuessesOK'
  <1> SUFFICES ASSUME IInv, IInv', GuessesOK, [Next]_vars PROVE GuessesOK'
    OBVIOUS
  <1>1. req \in [Request -> RequestType]
    BY ReqType DEF IInv
  <1>2. ASSUME NEW r \in Request, NEW e \in Email,
               BeginSend(r, e) \/ BeginVerify(r, e) \/ \E t \in Token : BeginFinalize(r, e, t)
        PROVE  GuessesOK'
    <2>1. PICK pc \in {"cooldown", "guesses", "compare"}, t \in Token \cup {NULL} : Start(r, pc, e, t)
      BY <1>2 DEF BeginSend, BeginVerify, BeginFinalize
    <2>2. /\ req[r].pc = "idle" /\ req'[r].pc \notin {"check", "count"}
          /\ \A q \in Request : q # r => req'[q] = req[q]
      BY <1>1, <2>1, StartFacts DEF Place, Start
    <2>3. UNCHANGED <<redis, users, history>>
      BY <1>2 DEF BeginSend, BeginVerify, BeginFinalize
    <2> QED BY <2>2, <2>3, MoveGuesses DEF redis, history
  <1>3. ASSUME NEW r \in Request, Cancel(r) PROVE GuessesOK'
    <2>1. req'[r].pc \notin {"check", "count"} /\ \A q \in Request : q # r => req'[q] = req[q]
      BY <1>1, <1>3, ReturnFacts DEF Cancel
    <2> QED BY <1>3, <2>1, MoveGuesses DEF Cancel, redis
  <1>4. CASE UNCHANGED vars
    BY <1>4 DEF vars, GuessesOK, EmailOK, CodeOK, Margin, Guessing, Against
  <1> QED BY <1>2, <1>3, <1>4, PassLimitGuesses, SendGuesses, VerifyGuesses, FinalizeGuesses,
             TickGuesses DEF Next

LEMMA GuessesInductive == Spec => []GuessesOK
  <1>1. Init => GuessesOK
    BY InitGuessesOK
  <1>2. IInv /\ IInv' /\ GuessesOK /\ [Next]_vars => GuessesOK'
    BY NextGuesses
  <1> QED BY <1>1, <1>2, Inductive, PTL DEF Spec

-----------------------------------------------------------------------------
(* The theorems.                                                           *)

(* The keys of Redis, the tokens and the requests keep their types. *)
THEOREM RegistrationTypeCorrect == Spec => []TypeOK
  BY Inductive, PTL DEF IInv

(* No account without a right answer to a code that was mailed to its      *)
(* email, for any number of emails whose requests and tokens interleave.   *)
THEOREM OnlyConfirmedEmails == Spec => []AccountsAreConfirmed
  BY Inductive, PTL DEF IInv

(* A code takes no more wrong answers than two counters can hold: each of  *)
(* them the limit and one for every further request that can be under way, *)
(* less the one that the first has counted before the code was stored.     *)
THEOREM WrongAnswersAreBounded == Spec => []WrongAnswersBounded
  <1>1. IInv /\ GuessesOK => WrongAnswersBounded
    <2> SUFFICES ASSUME IInv, GuessesOK, NEW e \in Email \ users
                 PROVE  wrong[e] <= 2 * MaxAttempts + 2 * Cardinality(Request) - 3
      BY DEF WrongAnswersBounded
    <2>1. TablesOK
      BY TypeSplit DEF IInv
    <2>2. /\ wrong[e] \in Nat /\ Cardinality(Against(e)) \in Nat
          /\ Cardinality(Request) \in Nat /\ MaxAttempts \in Nat
      BY <2>1, AgainstFinite, GuessingFinite, BoundAssumption DEF TablesOK
    <2>3. wrong[e] + Cardinality(Against(e)) <= 2 * Margin - 1
      BY DEF GuessesOK, EmailOK
    <2> QED BY <2>2, <2>3 DEF Margin
  <1> QED BY <1>1, Inductive, GuessesInductive, PTL

(* While an email is refused, no request of anyone makes its counter last  *)
(* longer.                                                                 *)
THEOREM RefusalsRunOut == Spec => RefusalsAreNotProlonged
  <1>1. ASSUME IInv, Next, NEW e \in Email \ users, attempts[e] >= MaxAttempts, expiry[e] # Forever
        PROVE  expiry'[e] <= expiry[e]
    <2>1. attempts[e] # 0 /\ expiry \in [Email -> 0 .. Forever]
      BY <1>1, BoundAssumption, TypeSplit DEF IInv, TablesOK
    <2>2. CASE expiry' = expiry
      BY <2>1, <2>2, ForeverFacts
    <2>3. ASSUME NEW r \in Request, CountWrong(r) PROVE expiry'[e] = expiry[e]
      BY <2>1, <2>3 DEF CountWrong
    <2>4. ASSUME NEW r \in Request, SetExpiry(r) PROVE expiry'[e] = expiry[e]
      <3>1. req[r].email # e
        BY <1>1, <2>4 DEF SetExpiry, IInv, CountersOK, AboutToExpire
      <3> QED BY <2>1, <2>4, <3>1 DEF SetExpiry
    <2>5. ASSUME NEW r \in Request, DeleteAttempts(r) PROVE expiry'[e] = expiry[e]
      BY <1>1, <2>1, <2>5 DEF DeleteAttempts, IInv, CheckedOK
    <2>6. CASE Tick
      BY <1>1, <2>1, <2>6, LessFacts, ForeverFacts DEF Tick
    <2>7. ASSUME NEW r \in Request, Send(r) \/ Cancel(r) \/ ReadAttempts(r) PROVE expiry' = expiry
      BY <2>7
      DEF Send, ReadCooldown, CheckExists, Mail, StoreCode, MarkCooldown, Cancel, ReadAttempts, redis
    <2>8. ASSUME NEW r \in Request, CheckCode(r) \/ ConsumeCode(r) \/ StoreToken(r) PROVE expiry' = expiry
      BY <2>8 DEF CheckCode, ConsumeCode, StoreToken, redis
    <2>9. ASSUME NEW r \in Request, Compare(r) \/ Insert(r) \/ DeleteCooldown(r) \/ DeleteToken(r)
          PROVE  expiry' = expiry
      BY <2>9 DEF Compare, Insert, DeleteCooldown, DeleteToken, redis
    <2>10. ASSUME NEW r \in Request, NEW f \in Email,
                  BeginSend(r, f) \/ BeginVerify(r, f) \/ \E t \in Token : BeginFinalize(r, f, t)
           PROVE  expiry' = expiry
      BY <2>10 DEF BeginSend, BeginVerify, BeginFinalize, redis
    <2>11. expiry'[e] = expiry[e] => expiry'[e] <= expiry[e]
      BY <2>1, ForeverFacts
    <2> QED
      BY <1>1, <2>2, <2>3, <2>4, <2>5, <2>6, <2>7, <2>8, <2>9, <2>10, <2>11
      DEF Next, Verify, Finalize
  <1>2. IInv /\ [Next]_vars =>
          [\A e \in Email \ users :
             attempts[e] >= MaxAttempts /\ expiry[e] # Forever => expiry'[e] <= expiry[e]]_vars
    BY <1>1
  <1> QED BY <1>2, Inductive, PTL DEF Spec, RefusalsAreNotProlonged
(* A step that leaves the counter of e alone leaves it to the request that *)
(* is to set its TTL, unless it is that request's.                         *)
LEMMA QuietTtl ==
    ASSUME NEW e \in Email, NEW r \in Request, ~AboutToExpire(r, e), ~Stuck(e),
           expiry'[e] = expiry[e],
           \A q \in Request : q # r => req'[q] = req[q]
    PROVE  ~Stuck(e)'
  BY DEF Stuck, AboutToExpire

LEMMA CountKeepsTtl ==
    ASSUME IInv, NEW e \in Email, NEW r \in Request, CountWrong(r), ~Stuck(e)
    PROVE  ~Stuck(e)'
  <1>1. /\ req \in [Request -> RequestType] /\ expiry \in [Email -> 0 .. Forever]
        /\ req[r].pc = "count" /\ req[r].email \in Email
    BY ReqType, TypeSplit DEF IInv, TablesOK, CheckedOK, CountWrong
  <1>2. CASE attempts[req[r].email] = 0
    <2>1. /\ req'[r].pc = "expire" /\ req'[r].email = req[r].email
          /\ \A q \in Request : q # r => req'[q] = req[q]
      BY <1>1, <1>2, GoToFacts DEF CountWrong, Place
    <2>2. CASE req[r].email = e
      BY <2>1, <2>2 DEF Stuck
    <2>3. CASE req[r].email # e
      <3>1. expiry'[e] = expiry[e]
        BY <1>1, <1>2, <2>3 DEF CountWrong
      <3> QED BY <1>1, <2>1, <3>1, QuietTtl DEF AboutToExpire
    <2> QED BY <2>2, <2>3
  <1>3. CASE attempts[req[r].email] # 0
    <2>1. expiry' = expiry /\ \A q \in Request : q # r => req'[q] = req[q]
      BY <1>1, <1>3, ReturnFacts DEF CountWrong
    <2> QED BY <1>1, <2>1, QuietTtl DEF AboutToExpire
  <1> QED BY <1>2, <1>3

LEMMA ExpireKeepsTtl ==
    ASSUME IInv, NEW e \in Email, NEW r \in Request, SetExpiry(r), ~Stuck(e)
    PROVE  ~Stuck(e)'
  <1>1. /\ req \in [Request -> RequestType] /\ expiry \in [Email -> 0 .. Forever]
        /\ \A q \in Request : q # r => req'[q] = req[q]
    BY ReqType, TypeSplit, ReturnFacts DEF IInv, TablesOK, SetExpiry
  <1>2. CASE req[r].email = e
    BY <1>1, <1>2, ForeverFacts DEF SetExpiry, Stuck
  <1>3. CASE req[r].email # e
    <2>1. expiry'[e] = expiry[e] /\ ~AboutToExpire(r, e)
      BY <1>1, <1>3 DEF SetExpiry, AboutToExpire
    <2> QED BY <1>1, <2>1, QuietTtl
  <1> QED BY <1>2, <1>3

(* Every other step of a request r leaves the counters alone, those of     *)
(* emails without an account at least, and has no TTL to set.              *)
LEMMA OthersKeepTtl ==
    ASSUME IInv, NEW e \in Email \ users, NEW r \in Request, ~Stuck(e),
           \/ ReadAttempts(r) \/ Send(r) \/ Finalize(r)
           \/ CheckCode(r) \/ ConsumeCode(r) \/ StoreToken(r)
           \/ \E f \in Email : BeginSend(r, f) \/ BeginVerify(r, f)
                               \/ \E t \in Token : BeginFinalize(r, f, t)
    PROVE  ~Stuck(e)'
  <1>1. /\ req \in [Request -> RequestType] /\ expiry \in [Email -> 0 .. Forever]
    BY ReqType, TypeSplit DEF IInv, TablesOK
  <1>2. req[r].pc # "expire" /\ \A q \in Request : q # r => req'[q] = req[q]
    BY <1>1
    DEF ReadAttempts, Send, ReadCooldown, CheckExists, Mail, StoreCode, MarkCooldown, CheckCode,
        ConsumeCode, StoreToken, Finalize, Compare, Insert, DeleteAttempts, DeleteCooldown,
        DeleteToken, BeginSend, BeginVerify, BeginFinalize, Start, GoTo, Return
  <1>3. expiry'[e] = expiry[e]
    <2>1. CASE DeleteAttempts(r)
      BY <1>1, <2>1 DEF DeleteAttempts, IInv, CheckedOK
    <2>2. CASE ~DeleteAttempts(r)
      BY <2>2
      DEF ReadAttempts, Send, ReadCooldown, CheckExists, Mail, StoreCode, MarkCooldown, CheckCode,
          ConsumeCode, StoreToken, Finalize, Compare, Insert, DeleteCooldown, DeleteToken,
          BeginSend, BeginVerify, BeginFinalize, redis
    <2> QED BY <2>1, <2>2
  <1> QED BY <1>2, <1>3, QuietTtl DEF AboutToExpire

(* A counter is left without a TTL for good only by a request that is cut  *)
(* between INCR and EXPIRE, for any number of requests at once.            *)
THEOREM CountersGetTheirTtl == Spec => OnlyCutsLeaveNoTtl
  <1> DEFINE Cut(e) == \E r \in Request : req[r].pc = "expire" /\ req[r].email = e /\ Cancel(r)
  <1>1. ASSUME IInv, Next, NEW e \in Email \ users, Stuck(e)', ~Stuck(e) PROVE Cut(e)
    <2>1. expiry \in [Email -> 0 .. Forever] /\ req \in [Request -> RequestType]
      BY <1>1, ReqType, TypeSplit DEF IInv, TablesOK
    <2>2. ASSUME NEW r \in Request, Cancel(r) PROVE Cut(e)
      <3>1. expiry' = expiry /\ \A q \in Request : q # r => req'[q] = req[q]
        BY <2>1, <2>2, ReturnFacts DEF Cancel, redis
      <3>2. AboutToExpire(r, e)
        BY <1>1, <3>1, QuietTtl
      <3> QED BY <2>2, <3>2 DEF AboutToExpire
    <2>3. CASE Tick
      <3>1. expiry'[e] = Less(expiry[e]) /\ req' = req
        BY <2>3 DEF Tick
      <3>2. expiry[e] = Forever
        BY <1>1, <2>1, <3>1, LessFacts, ForeverFacts DEF Stuck
      <3> QED BY <1>1, <3>1, <3>2 DEF Stuck
    <2> HIDE DEF Cut
    <2> QED
      BY <1>1, <2>2, <2>3, CountKeepsTtl, ExpireKeepsTtl, OthersKeepTtl DEF Next, Verify
  <1>2. IInv /\ [Next]_vars => [\A e \in Email \ users : Stuck(e)' /\ ~Stuck(e) => Cut(e)]_vars
    BY <1>1
  <1> QED BY <1>2, Inductive, PTL DEF Spec, OnlyCutsLeaveNoTtl
==============================================================================
