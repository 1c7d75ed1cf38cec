------------------------------- MODULE Session -------------------------------
(***************************************************************************)
(* Sessions: login_handler with its limiter of wrong passwords, the        *)
(* extractor of Claims that every authenticated handler begins with, and   *)
(* logout_handler with its blacklist.  Each call to Redis or to the        *)
(* database is a step, because nothing ties two of them together.          *)
(*                                                                         *)
(* A tick is a second, the unit of a JWT's exp and of the TTLs.  What has  *)
(* n seconds left is still there for n seconds, the present one included.  *)
(* Redis keeps a TTL to the millisecond, so a key disappears at some       *)
(* moment of its last second; exp is compared in whole seconds.            *)
(*                                                                         *)
(* An address stands for the normalized one that the limiter counts under  *)
(* and for the account registered with it.  Passwords are right or wrong.  *)
(* Redis keeps its keys over restarts (appendonly).                        *)
(*                                                                         *)
(* An operator X_Variant is X with a fault in it, as in Drive.             *)
(***************************************************************************)
EXTENDS Naturals, FiniteSets

CONSTANTS
    Email,        \* addresses, each with an account
    Token,        \* slots for tokens; each token made has a new jti
    Request,      \* requests that may be under way at the same time
    Life,         \* the ten days of a token and of a blacklist entry, in seconds
    Window,       \* RATE_LIMIT_WINDOW_SECONDS
    MaxAttempts,  \* MAX_LOGIN_ATTEMPTS
    NULL

ASSUME SessionBounds == {Life, Window, MaxAttempts} \subseteq Nat \ {0}
ASSUME SessionRequests == IsFiniteSet(Request) /\ Request # {}
ASSUME SessionNull == NULL \notin Email \cup Token

VARIABLES
    fails,      \* fails[e]: the value of ratelimit:login:e, 0 when there is no key
    window,     \* window[e]: the seconds that key has left, Forever without a TTL
    token,      \* token[t]: the account in token t and the seconds it has left
    revoked,    \* revoked[t]: the seconds the key revoked:jti of t has left
    req,        \* req[r]: where request r is
    loggedOut,  \* history: the tokens whose logout was answered
    counted,    \* history: the requests that hold an increment of a key without a TTL
    cut         \* cut[e]: history: how many such increments are of requests that were cut

limiter == <<fails, window, counted, cut>>
sessionVars == <<fails, window, token, revoked, req, loggedOut, counted, cut>>

(* What SETEX and EXPIRE with n seconds, or an exp in n seconds, leave.    *)
Lasting(n) == n + 1

(* A key that INCR has made and that has no TTL yet. *)
Forever == Lasting(Window) + 1

(* handler: what follows the extractor of Claims.  late: history: the      *)
(* token was logged out before the request began.                          *)
NoRequest == [pc |-> "idle", handler |-> NULL, email |-> NULL, tok |-> NULL, late |-> FALSE]
NoToken == [email |-> NULL, left |-> 0]

SessionInit ==
    /\ fails = [e \in Email |-> 0]
    /\ window = [e \in Email |-> 0]
    /\ token = [t \in Token |-> NoToken]
    /\ revoked = [t \in Token |-> 0]
    /\ req = [r \in Request |-> NoRequest]
    /\ loggedOut = {}
    /\ counted = {}
    /\ cut = [e \in Email |-> 0]

-----------------------------------------------------------------------------
GoTo(r, pc) == req' = [req EXCEPT ![r].pc = pc]

Return(r) == req' = [req EXCEPT ![r] = NoRequest]

Of(S, e) == {r \in S : req[r].email = e}

(* The key of e gets a TTL, or goes: its increments are forgotten.         *)
Settle(e) ==
    /\ counted' = counted \ Of(counted, e)
    /\ cut' = [cut EXCEPT ![e] = 0]

-----------------------------------------------------------------------------
(* login_handler.                                                          *)

BeginLogin(r, e) ==
    /\ req[r].pc = "idle"
    /\ req' = [req EXCEPT ![r] = [NoRequest EXCEPT !.pc = "limit", !.email = e]]
    /\ UNCHANGED <<limiter, token, revoked, loggedOut>>

CheckLimit_OneMore(r) ==
    /\ req[r].pc = "limit"
    /\ IF fails[req[r].email] > MaxAttempts THEN Return(r) ELSE GoTo(r, "password")
    /\ UNCHANGED <<limiter, token, revoked, loggedOut>>

CheckLimit(r) ==
    /\ req[r].pc = "limit"
    /\ IF fails[req[r].email] >= MaxAttempts THEN Return(r) ELSE GoTo(r, "password")
    /\ UNCHANGED <<limiter, token, revoked, loggedOut>>

(* The account is looked up by the address as it was typed; one that is    *)
(* not found is refused and not counted.                                   *)
CheckPassword(r) ==
    /\ req[r].pc = "password"
    /\ Return(r) \/ GoTo(r, "count") \/ GoTo(r, "reset")
    /\ UNCHANGED <<limiter, token, revoked, loggedOut>>

CountFailure(r) ==
    LET e == req[r].email
        noTtl == fails[e] = 0 \/ window[e] = Forever IN
    /\ req[r].pc = "count"
    /\ fails' = [fails EXCEPT ![e] = @ + 1]
    /\ window' = [window EXCEPT ![e] = IF noTtl THEN Forever ELSE @]
    /\ counted' = IF noTtl THEN counted \cup {r} ELSE counted
    /\ GoTo(r, "ttl")
    /\ UNCHANGED <<token, revoked, loggedOut, cut>>

ReadTtl_FirstOnly(r) ==
    LET e == req[r].email IN
    /\ req[r].pc = "ttl"
    /\ IF fails[e] = 1 THEN GoTo(r, "window") ELSE Return(r)
    /\ counted' = IF fails[e] = 1 THEN counted ELSE counted \ {r}
    /\ UNCHANGED <<fails, window, token, revoked, loggedOut, cut>>

(* EXPIRE follows on every increment that finds the key without a TTL.     *)
ReadTtl(r) ==
    LET noTtl == window[req[r].email] = Forever IN
    /\ req[r].pc = "ttl"
    /\ IF noTtl THEN GoTo(r, "window") ELSE Return(r)
    /\ counted' = IF noTtl THEN counted ELSE counted \ {r}
    /\ UNCHANGED <<fails, window, token, revoked, loggedOut, cut>>

SetWindow_Creates(r) ==
    LET e == req[r].email IN
    /\ req[r].pc = "window"
    /\ window' = [window EXCEPT ![e] = Lasting(Window)]
    /\ Settle(e)
    /\ Return(r)
    /\ UNCHANGED <<fails, token, revoked, loggedOut>>

(* EXPIRE does nothing when the key has gone. *)
SetWindow(r) ==
    LET e == req[r].email IN
    /\ req[r].pc = "window"
    /\ window' = [window EXCEPT ![e] = IF fails[e] = 0 THEN 0 ELSE Lasting(Window)]
    /\ Settle(e)
    /\ Return(r)
    /\ UNCHANGED <<fails, token, revoked, loggedOut>>

(* The key of e is gone. *)
DropCounter(e) ==
    /\ fails' = [fails EXCEPT ![e] = 0]
    /\ window' = [window EXCEPT ![e] = 0]
    /\ Settle(e)

ResetFailures(r) ==
    /\ req[r].pc = "reset"
    /\ DropCounter(req[r].email)
    /\ GoTo(r, "issue")
    /\ UNCHANGED <<token, revoked, loggedOut>>

(* A slot that nothing mentions any more stands for the next fresh jti.    *)
FreshToken(t) ==
    token[t].left = 0 /\ revoked[t] = 0 /\ \A r \in Request : req[r].tok # t

IssueToken(r, t) ==
    /\ req[r].pc = "issue"
    /\ FreshToken(t)
    /\ token' = [token EXCEPT ![t] = [email |-> req[r].email, left |-> Lasting(Life)]]
    /\ loggedOut' = loggedOut \ {t}
    /\ Return(r)
    /\ UNCHANGED <<limiter, revoked>>

Login(r) ==
    \/ CheckLimit(r) \/ CheckPassword(r)
    \/ CountFailure(r) \/ ReadTtl(r) \/ SetWindow(r)
    \/ ResetFailures(r) \/ \E t \in Token : IssueToken(r, t)

-----------------------------------------------------------------------------
(* The extractor of Claims, and the handlers of this module behind it.     *)

(* decode_jwt checks exp, with no leeway, before anything is awaited: a    *)
(* request with an expired token is one that does not begin.               *)
BeginCall(r, t, handler) ==
    /\ req[r].pc = "idle"
    /\ token[t].left > 0
    /\ req' = [req EXCEPT ![r] = [pc |-> "claims", handler |-> handler,
                  email |-> token[t].email, tok |-> t, late |-> t \in loggedOut]]
    /\ UNCHANGED <<limiter, token, revoked, loggedOut>>

(* When Redis cannot be asked the request is refused, as in Cancel. *)
CheckRevoked(r) ==
    /\ req[r].pc = "claims"
    /\ IF revoked[req[r].tok] > 0 THEN Return(r) ELSE GoTo(r, req[r].handler)
    /\ UNCHANGED <<limiter, token, revoked, loggedOut>>

Revoke_Shorter(r) ==
    /\ req[r].pc = "logout"
    /\ revoked' = [revoked EXCEPT ![req[r].tok] = Lasting(Life - 1)]
    /\ loggedOut' = loggedOut \cup {req[r].tok}
    /\ Return(r)
    /\ UNCHANGED <<limiter, token>>

(* logout_handler: the answer follows SETEX at once. *)
Revoke(r) ==
    /\ req[r].pc = "logout"
    /\ revoked' = [revoked EXCEPT ![req[r].tok] = Lasting(Life)]
    /\ loggedOut' = loggedOut \cup {req[r].tok}
    /\ Return(r)
    /\ UNCHANGED <<limiter, token>>

(* auto_login_handler, info_handler, get_public_key_handler: they read.    *)
Answer(r) ==
    /\ req[r].pc = "info"
    /\ Return(r)
    /\ UNCHANGED <<limiter, token, revoked, loggedOut>>

Authenticated(r) == CheckRevoked(r) \/ Revoke(r) \/ Answer(r)

-----------------------------------------------------------------------------
(* The surroundings.                                                       *)

(* A call to Redis or to the database fails, the client disconnects, or    *)
(* the server restarts: a request ends where it is.  What it asked for     *)
(* last is done or not: the step before, or this one.                      *)
Cancel(r) ==
    /\ req[r].pc # "idle"
    /\ Return(r)
    /\ IF r \in counted
       THEN /\ counted' = counted \ {r}
            /\ cut' = [cut EXCEPT ![req[r].email] = @ + 1]
       ELSE UNCHANGED <<counted, cut>>
    /\ UNCHANGED <<fails, window, token, revoked, loggedOut>>

(* A key disappears before its last second is over. *)
ExpireCounter(e) ==
    /\ window[e] = 1
    /\ DropCounter(e)
    /\ UNCHANGED <<token, revoked, req, loggedOut>>

ExpireRevoked(t) ==
    /\ revoked[t] = 1
    /\ revoked' = [revoked EXCEPT ![t] = 0]
    /\ UNCHANGED <<limiter, token, req, loggedOut>>

Less(n) == IF n = 0 THEN 0 ELSE n - 1

(* The next second begins, once the keys that end in this one are gone.    *)
Tick ==
    /\ \A e \in Email : window[e] # 1
    /\ \A t \in Token : revoked[t] # 1
    /\ window' = [e \in Email |-> IF window[e] = Forever THEN Forever ELSE Less(window[e])]
    /\ revoked' = [t \in Token |-> Less(revoked[t])]
    /\ token' = [t \in Token |-> IF token[t].left <= 1 THEN NoToken
                                 ELSE [token[t] EXCEPT !.left = @ - 1]]
    /\ UNCHANGED <<fails, req, loggedOut, counted, cut>>

Clock == Tick \/ (\E e \in Email : ExpireCounter(e)) \/ (\E t \in Token : ExpireRevoked(t))

SessionNext ==
    \/ \E r \in Request : \/ \E e \in Email : BeginLogin(r, e)
                           \/ \E t \in Token : BeginCall(r, t, "logout") \/ BeginCall(r, t, "info")
                           \/ Login(r) \/ Authenticated(r)
    \/ Clock

-----------------------------------------------------------------------------
(* Properties.                                                             *)

(* What can follow the extractor, and where a request can be: those of     *)
(* this module, of Agenda and of Quota.                                    *)
Handler == {"logout", "info", "create_event", "drive_info", "destroy"}
Place ==
    {"idle", "limit", "password", "count", "ttl", "window", "reset", "issue", "claims"}
        \cup Handler \cup {"add_participant", "insert_file"}

(* The keys, the tokens and the requests keep their types; a counter that  *)
(* is there has a TTL, or is still without one.                            *)
SessionTypeOK ==
    /\ fails \in [Email -> Nat]
    /\ window \in [Email -> 0 .. Forever]
    /\ \A e \in Email : fails[e] = 0 <=> window[e] = 0
    /\ token \in [Token -> [email : Email \cup {NULL}, left : 0 .. Lasting(Life)]]
    /\ revoked \in [Token -> 0 .. Lasting(Life)]
    /\ req \in [Request -> [pc : Place, handler : Handler \cup {NULL},
                            email : Email \cup {NULL}, tok : Token \cup {NULL}, late : BOOLEAN]]
    /\ loggedOut \subseteq Token
    /\ counted \subseteq Request
    /\ cut \in [Email -> Nat]

(* Of n requests at a time all may pass the limit before one of them is    *)
(* counted, and no more: the counter never gets further than n - 1 beyond  *)
(* the limit.                                                              *)
WrongPasswordsBounded ==
    \A e \in Email : fails[e] <= MaxAttempts + Cardinality(Request) - 1

(* A request that began after its token was logged out gets no further     *)
(* than the extractor.  The one exception is the last second of the token: *)
(* when it was logged out in the second it was made, its blacklist entry   *)
(* goes before that second is over.                                        *)
LoggedOutIsRefused ==
    \A r \in Request : req[r].late /\ req[r].pc # "claims" => token[req[r].tok].left <= 1

(* A counter without a TTL holds only increments of requests that are      *)
(* still to set it, or were cut before they could.                         *)
NoTtlMeansCut ==
    \A e \in Email : window[e] = Forever =>
        fails[e] = cut[e] + Cardinality(Of(counted, e))

(* A locked account opens again by itself, unless MaxAttempts requests in  *)
(* a row were cut between INCR and EXPIRE.                                 *)
LockoutsEnd ==
    \A e \in Email : fails[e] >= MaxAttempts ~> fails[e] < MaxAttempts \/ cut[e] >= MaxAttempts
==============================================================================
