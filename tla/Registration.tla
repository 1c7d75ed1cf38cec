----------------------------- MODULE Registration -----------------------------
(***************************************************************************)
(* The three requests of a registration: send_otp_handler,                 *)
(* verify_otp_handler and finalize_registration_handler.  Each call to     *)
(* Redis, to the mailer and to the database is a step, because nothing     *)
(* ties two of them together; the keys expire meanwhile.                   *)
(*                                                                         *)
(* A code is right or wrong; which digits it has does not matter.  Redis   *)
(* is kept over restarts (appendonly).  The limiter per IP of the finalize *)
(* request is another counter that can only refuse it: a finalize request  *)
(* that is refused is one that does not begin.                             *)
(***************************************************************************)
EXTENDS Naturals, FiniteSets

CONSTANTS
    Email,
    Request,      \* requests that may be under way at the same time
    Token,        \* slots for temporary tokens; each one made has a new jti
    Life,         \* the 600 s of a code, of the counter and of a token, in ticks
    Cooldown,     \* the 30 s between two mails, in ticks
    MaxAttempts,  \* the 5 of send_otp_handler and verify_otp_handler
    Faults,       \* which of AllFaults may happen
    NULL

(* "mail": the mailer answers with an error.  "cancel": a call to Redis or *)
(* to the database fails, or the task of a request is dropped; either way  *)
(* the request ends where it is.                                           *)
AllFaults == {"mail", "cancel"}

ASSUME FaultAssumption == Faults \subseteq AllFaults
ASSUME BoundAssumption == {Life, Cooldown, MaxAttempts} \subseteq Nat \ {0} /\ Cooldown <= Life
ASSUME RequestAssumption == IsFiniteSet(Request) /\ Request # {}
ASSUME NullAssumption == NULL \notin Email \cup Token

VARIABLES
    otp,        \* otp[e]: what is left of the TTL of otp:e, 0 when there is no key
    cooldown,   \* cooldown[e]: the same of otp_cooldown:e
    attempts,   \* attempts[e]: the value of otp_attempts:e, 0 when there is no key
    expiry,     \* expiry[e]: what is left of the TTL of otp_attempts:e
    stored,     \* stored[e]: the token in temp_token:e and what is left of its TTL
    token,      \* token[t]: the email in token t and what is left until its exp
    handed,     \* the tokens that a client was given
    users,      \* the emails in the table users
    req,        \* req[r]: where request r is
    confirmed,  \* history: the emails for which a right code was sent in
    against,    \* history: the requests that compared their answer with the last code
    wrong       \* history: how many wrong answers to the last code of an email were counted

redis == <<otp, cooldown, attempts, expiry, stored>>
history == <<confirmed, against, wrong>>
vars == <<otp, cooldown, attempts, expiry, stored, token, handed, users, req,
          confirmed, against, wrong>>

(* A key that INCR has made and that has no TTL yet. *)
Forever == Life + 1

NoRequest == [pc |-> "idle", email |-> NULL, tok |-> NULL]
NoKey == [tok |-> NULL, ttl |-> 0]
NoToken == [email |-> NULL, left |-> 0]

Init ==
    /\ otp = [e \in Email |-> 0]
    /\ cooldown = [e \in Email |-> 0]
    /\ attempts = [e \in Email |-> 0]
    /\ expiry = [e \in Email |-> 0]
    /\ stored = [e \in Email |-> NoKey]
    /\ token = [t \in Token |-> NoToken]
    /\ handed = {}
    /\ users = {}
    /\ req = [r \in Request |-> NoRequest]
    /\ confirmed = {}
    /\ against = {}
    /\ wrong = [e \in Email |-> 0]

-----------------------------------------------------------------------------
(* Requests.                                                               *)

Start(r, pc, e, t) ==
    /\ req[r].pc = "idle"
    /\ req' = [req EXCEPT ![r] = [pc |-> pc, email |-> e, tok |-> t]]

GoTo(r, pc) == req' = [req EXCEPT ![r].pc = pc]

Return(r) == req' = [req EXCEPT ![r] = NoRequest]

(* The request ends where it is.  What Redis was asked to do last is done  *)
(* or not: the step before, or this one.                                   *)
Cancel(r) ==
    /\ "cancel" \in Faults
    /\ req[r].pc # "idle"
    /\ Return(r)
    /\ against' = against \ {r}
    /\ UNCHANGED <<redis, token, handed, users, confirmed, wrong>>

ReadAttempts_Slides(r) ==
    LET e == req[r].email IN
    /\ req[r].pc \in {"attempts", "guesses"}
    /\ IF attempts[e] >= MaxAttempts
       THEN /\ Return(r)
            /\ expiry' = [expiry EXCEPT ![e] = Life]
       ELSE /\ GoTo(r, IF req[r].pc = "attempts" THEN "exists" ELSE "check")
            /\ UNCHANGED expiry
    /\ UNCHANGED <<otp, cooldown, attempts, stored, token, handed, users, history>>

ReadAttempts_OneMore(r) ==
    LET e == req[r].email IN
    /\ req[r].pc \in {"attempts", "guesses"}
    /\ IF attempts[e] > MaxAttempts THEN Return(r)
       ELSE GoTo(r, IF req[r].pc = "attempts" THEN "exists" ELSE "check")
    /\ UNCHANGED <<redis, token, handed, users, history>>

(* get_otp_attempts, which sending and verifying a code share. *)
ReadAttempts(r) ==
    LET e == req[r].email IN
    /\ req[r].pc \in {"attempts", "guesses"}
    /\ IF attempts[e] >= MaxAttempts THEN Return(r)
       ELSE GoTo(r, IF req[r].pc = "attempts" THEN "exists" ELSE "check")
    /\ UNCHANGED <<redis, token, handed, users, history>>

-----------------------------------------------------------------------------
(* send_otp_handler.                                                       *)

BeginSend(r, e) ==
    /\ Start(r, "cooldown", e, NULL)
    /\ UNCHANGED <<redis, token, handed, users, history>>

ReadCooldown(r) ==
    /\ req[r].pc = "cooldown"
    /\ IF cooldown[req[r].email] > 0 THEN Return(r) ELSE GoTo(r, "attempts")
    /\ UNCHANGED <<redis, token, handed, users, history>>

CheckExists(r) ==
    /\ req[r].pc = "exists"
    /\ IF req[r].email \in users THEN Return(r) ELSE GoTo(r, "mail")
    /\ UNCHANGED <<redis, token, handed, users, history>>

(* The code is mailed before it is stored. *)
Mail(r) ==
    /\ req[r].pc = "mail"
    /\ GoTo(r, "store") \/ ("mail" \in Faults /\ Return(r))
    /\ UNCHANGED <<redis, token, handed, users, history>>

StoreCode(r) ==
    LET e == req[r].email IN
    /\ req[r].pc = "store"
    /\ otp' = [otp EXCEPT ![e] = Life]
    /\ wrong' = [wrong EXCEPT ![e] = 0]
    /\ against' = {q \in against : req[q].email # e}
    /\ GoTo(r, "mark")
    /\ UNCHANGED <<cooldown, attempts, expiry, stored, token, handed, users, confirmed>>

MarkCooldown_AsLong(r) ==
    /\ req[r].pc = "mark"
    /\ cooldown' = [cooldown EXCEPT ![req[r].email] = Life]
    /\ Return(r)
    /\ UNCHANGED <<otp, attempts, expiry, stored, token, handed, users, history>>

MarkCooldown(r) ==
    /\ req[r].pc = "mark"
    /\ cooldown' = [cooldown EXCEPT ![req[r].email] = Cooldown]
    /\ Return(r)
    /\ UNCHANGED <<otp, attempts, expiry, stored, token, handed, users, history>>

Send(r) == ReadCooldown(r) \/ CheckExists(r) \/ Mail(r) \/ StoreCode(r) \/ MarkCooldown(r)

-----------------------------------------------------------------------------
(* verify_otp_handler.                                                     *)

BeginVerify(r, e) ==
    /\ Start(r, "guesses", e, NULL)
    /\ UNCHANGED <<redis, token, handed, users, history>>

FreshToken(t) ==
    /\ token[t] = NoToken
    /\ \A e \in Email : stored[e].tok # t
    /\ \A r \in Request : req[r].tok # t

CheckCode_NoCode(r) ==
    LET e == req[r].email IN
    /\ req[r].pc = "check"
    /\ \/ /\ GoTo(r, "count")
          /\ against' = IF otp[e] > 0 THEN against \cup {r} ELSE against
          /\ UNCHANGED <<token, confirmed>>
       \/ /\ \E t \in Token :
                /\ FreshToken(t)
                /\ token' = [token EXCEPT ![t] = [email |-> e, left |-> Life]]
                /\ req' = [req EXCEPT ![r].pc = "consume", ![r].tok = t]
          /\ confirmed' = IF otp[e] > 0 THEN confirmed \cup {e} ELSE confirmed
          /\ UNCHANGED against
    /\ UNCHANGED <<redis, handed, users, wrong>>

(* Without a stored code every answer is wrong.  For a right one a token   *)
(* is made at once; its exp is counted from here.                          *)
CheckCode(r) ==
    LET e == req[r].email IN
    /\ req[r].pc = "check"
    /\ \/ /\ GoTo(r, "count")
          /\ against' = IF otp[e] > 0 THEN against \cup {r} ELSE against
          /\ UNCHANGED <<token, confirmed>>
       \/ /\ otp[e] > 0
          /\ \E t \in Token :
                /\ FreshToken(t)
                /\ token' = [token EXCEPT ![t] = [email |-> e, left |-> Life]]
                /\ req' = [req EXCEPT ![r].pc = "consume", ![r].tok = t]
          /\ confirmed' = confirmed \cup {e}
          /\ UNCHANGED against
    /\ UNCHANGED <<redis, handed, users, wrong>>

CountWrong_OneLate(r) ==
    LET e == req[r].email IN
    /\ req[r].pc = "count"
    /\ attempts' = [attempts EXCEPT ![e] = @ + 1]
    /\ wrong' = [wrong EXCEPT ![e] = IF r \in against THEN @ + 1 ELSE @]
    /\ against' = against \ {r}
    /\ expiry' = IF attempts[e] = 0 THEN [expiry EXCEPT ![e] = Forever] ELSE expiry
    /\ IF attempts[e] = 1 THEN GoTo(r, "expire") ELSE Return(r)
    /\ UNCHANGED <<otp, cooldown, stored, token, handed, users, confirmed>>

(* INCR makes the key without a TTL when there is none. *)
CountWrong(r) ==
    LET e == req[r].email IN
    /\ req[r].pc = "count"
    /\ attempts' = [attempts EXCEPT ![e] = @ + 1]
    /\ wrong' = [wrong EXCEPT ![e] = IF r \in against THEN @ + 1 ELSE @]
    /\ against' = against \ {r}
    /\ IF attempts[e] = 0
       THEN expiry' = [expiry EXCEPT ![e] = Forever] /\ GoTo(r, "expire")
       ELSE UNCHANGED expiry /\ Return(r)
    /\ UNCHANGED <<otp, cooldown, stored, token, handed, users, confirmed>>

(* EXPIRE does nothing to a key that is gone. *)
SetExpiry(r) ==
    LET e == req[r].email IN
    /\ req[r].pc = "expire"
    /\ expiry' = [expiry EXCEPT ![e] = IF attempts[e] = 0 THEN 0 ELSE Life]
    /\ Return(r)
    /\ UNCHANGED <<otp, cooldown, attempts, stored, token, handed, users, history>>

ConsumeCode(r) ==
    /\ req[r].pc = "consume"
    /\ otp' = [otp EXCEPT ![req[r].email] = 0]
    /\ GoTo(r, "token")
    /\ UNCHANGED <<cooldown, attempts, expiry, stored, token, handed, users, history>>

(* The answer with the token may be lost. *)
StoreToken(r) ==
    LET t == req[r].tok IN
    /\ req[r].pc = "token"
    /\ stored' = [stored EXCEPT ![req[r].email] = [tok |-> t, ttl |-> Life]]
    /\ \/ handed' = IF token[t].left > 0 THEN handed \cup {t} ELSE handed
       \/ "cancel" \in Faults /\ UNCHANGED handed
    /\ Return(r)
    /\ UNCHANGED <<otp, cooldown, attempts, expiry, token, users, history>>

Verify(r) == CheckCode(r) \/ CountWrong(r) \/ SetExpiry(r) \/ ConsumeCode(r) \/ StoreToken(r)

-----------------------------------------------------------------------------
(* finalize_registration_handler.                                          *)

(* verify_temp_token. *)
IsTempTokenOf(t, e) == token[t].left > 0 /\ token[t].email = e

BeginFinalize(r, e, t) ==
    /\ t \in handed /\ IsTempTokenOf(t, e)
    /\ Start(r, "compare", e, t)
    /\ UNCHANGED <<redis, token, handed, users, history>>

(* Only the last token that was stored for the email counts.  A password   *)
(* that does not please ends the request, too.                             *)
Compare(r) ==
    /\ req[r].pc = "compare"
    /\ \/ stored[req[r].email].tok = req[r].tok /\ GoTo(r, "insert")
       \/ Return(r)
    /\ UNCHANGED <<redis, token, handed, users, history>>

(* The email and the username are UNIQUE: the INSERT fails when the email  *)
(* is taken, and it may when the username is.                              *)
Insert(r) ==
    LET e == req[r].email IN
    /\ req[r].pc = "insert"
    /\ \/ /\ e \notin users
          /\ users' = users \cup {e}
          /\ GoTo(r, "uncount")
       \/ /\ UNCHANGED users
          /\ Return(r)
    /\ UNCHANGED <<redis, token, handed, history>>

DeleteAttempts(r) ==
    LET e == req[r].email IN
    /\ req[r].pc = "uncount"
    /\ attempts' = [attempts EXCEPT ![e] = 0]
    /\ expiry' = [expiry EXCEPT ![e] = 0]
    /\ GoTo(r, "unmark")
    /\ UNCHANGED <<otp, cooldown, stored, token, handed, users, history>>

DeleteCooldown(r) ==
    /\ req[r].pc = "unmark"
    /\ cooldown' = [cooldown EXCEPT ![req[r].email] = 0]
    /\ GoTo(r, "spend")
    /\ UNCHANGED <<otp, attempts, expiry, stored, token, handed, users, history>>

DeleteToken(r) ==
    /\ req[r].pc = "spend"
    /\ stored' = [stored EXCEPT ![req[r].email] = NoKey]
    /\ Return(r)
    /\ UNCHANGED <<otp, cooldown, attempts, expiry, token, handed, users, history>>

Finalize(r) ==
    Compare(r) \/ Insert(r) \/ DeleteAttempts(r) \/ DeleteCooldown(r) \/ DeleteToken(r)

-----------------------------------------------------------------------------
(* Time.  All keys lose a tick together; those at their last one expire.   *)

Less(ttl) == IF ttl \in {0, Forever} THEN ttl ELSE ttl - 1

Tick ==
    /\ otp' = [e \in Email |-> Less(otp[e])]
    /\ cooldown' = [e \in Email |-> Less(cooldown[e])]
    /\ expiry' = [e \in Email |-> Less(expiry[e])]
    /\ attempts' = [e \in Email |-> IF expiry[e] = 1 THEN 0 ELSE attempts[e]]
    /\ stored' = [e \in Email |->
           IF stored[e].ttl <= 1 THEN NoKey ELSE [stored[e] EXCEPT !.ttl = @ - 1]]
    /\ token' = [t \in Token |->
           IF token[t].left <= 1 THEN NoToken ELSE [token[t] EXCEPT !.left = @ - 1]]
    /\ handed' = {t \in handed : token[t].left > 1}
    /\ UNCHANGED <<users, req, history>>

Next ==
    \/ \E r \in Request, e \in Email : BeginSend(r, e) \/ BeginVerify(r, e)
    \/ \E r \in Request, e \in Email, t \in Token : BeginFinalize(r, e, t)
    \/ \E r \in Request : ReadAttempts(r) \/ Send(r) \/ Verify(r) \/ Finalize(r) \/ Cancel(r)
    \/ Tick

Spec == Init /\ [][Next]_vars

-----------------------------------------------------------------------------
(* Properties.                                                             *)

(* The keys, the tokens and the requests keep their types, and a counter   *)
(* has a TTL, or none, exactly while it exists.                            *)
TypeOK ==
    /\ otp \in [Email -> 0 .. Life]
    /\ cooldown \in [Email -> 0 .. Cooldown]
    /\ attempts \in [Email -> Nat]
    /\ expiry \in [Email -> 0 .. Forever]
    /\ \A e \in Email : attempts[e] = 0 <=> expiry[e] = 0
    /\ stored \in [Email -> [tok : Token \cup {NULL}, ttl : 0 .. Life]]
    /\ token \in [Token -> [email : Email \cup {NULL}, left : 0 .. Life]]
    /\ handed \subseteq Token
    /\ users \subseteq Email
    /\ req \in [Request ->
           [pc : {"idle", "cooldown", "attempts", "exists", "mail", "store", "mark", "guesses",
                  "check", "count", "expire", "consume", "token", "compare", "insert",
                  "uncount", "unmark", "spend"},
            email : Email \cup {NULL}, tok : Token \cup {NULL}]]
    /\ confirmed \subseteq Email
    /\ against \subseteq Request
    /\ wrong \in [Email -> Nat]

(* An account is made only for an email whose owner has sent in the code   *)
(* that was mailed there, however many tokens are about.                   *)
AccountsAreConfirmed == users \subseteq confirmed

(* A code takes so many wrong answers and no more.  The counter bounds     *)
(* them, but it is read before the answer is checked and raised after: the *)
(* requests under way go past it.  And a code can outlive the counter that *)
(* was there when it was stored, once.                                     *)
WrongAnswersBounded ==
    \A e \in Email \ users :
        wrong[e] <= 2 * MaxAttempts + 2 * Cardinality(Request) - 3

(* An email that is refused for its wrong answers by a counter that has a  *)
(* TTL is refused until the counter expires and no longer, whoever keeps   *)
(* trying meanwhile.                                                       *)
RefusalsAreNotProlonged ==
    [][\A e \in Email \ users :
          attempts[e] >= MaxAttempts /\ expiry[e] # Forever => expiry'[e] <= expiry[e]]_vars

(* No request is going to give the counter of e a TTL. *)
Stuck(e) ==
    expiry[e] = Forever /\ \A r \in Request : ~(req[r].pc = "expire" /\ req[r].email = e)

(* A counter that will never expire, and with it a refusal for good, is    *)
(* left behind by a request that was cut between INCR and EXPIRE, and by   *)
(* nothing else: the first wrong answer is the one that sets the TTL,      *)
(* however many come at once and whatever expires meanwhile.               *)
OnlyCutsLeaveNoTtl ==
    [][\A e \in Email \ users :
          Stuck(e)' /\ ~Stuck(e) =>
              \E r \in Request : req[r].pc = "expire" /\ req[r].email = e /\ Cancel(r)]_vars
==============================================================================
