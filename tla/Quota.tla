-------------------------------- MODULE Quota --------------------------------
(***************************************************************************)
(* The storage quota: initialize_file_handler reads what the account uses, *)
(* adds the size that the client declares, compares the sum with the limit *)
(* and inserts the file by another statement.  Nobody looks at the size:   *)
(* it may be zero or negative, and the sum is one of i64.                  *)
(*                                                                         *)
(* What is used is the sum of the sizes over the account's rows of         *)
(* file_access at level owner, those in its trash included.  It does not   *)
(* matter which file a row is of, so the rows are counted by size.  Chunks *)
(* are stored by module Upload and count for nothing here.                 *)
(***************************************************************************)
EXTENDS Session, Integers, FiniteSetsExt

CONSTANTS
    Size,      \* the sizes that clients declare
    MaxSize,   \* the largest of them
    Top,       \* 2^63: an i64 is one of -Top .. Top - 1
    Limit,     \* account_tiers.storage_limit_bytes
    MaxRows    \* bounds the rows of an account

ASSUME QuotaBounds == Top \in Nat \ {0} /\ Limit \in Nat /\ MaxRows \in Nat
ASSUME QuotaSizes ==
    /\ MaxSize \in Nat /\ MaxSize < Top
    /\ IsFiniteSet(Size) /\ \A s \in Size : s \in Int /\ -Top <= s /\ s <= MaxSize

VARIABLES
    rows,       \* rows[u][s]: how many files of size s the account u has at level owner
    declared,   \* declared[r]: the size in the body of request r, once it was found to fit
    wrapped,    \* history: the requests whose sum was beyond i64
    unchecked   \* unchecked[u]: history: by how much u's use has grown past every check

quotaVars == <<rows, declared, wrapped, unchecked>>

QuotaInit ==
    /\ rows = [u \in Email |-> [s \in Size |-> 0]]
    /\ declared = [r \in Request |-> 0]
    /\ wrapped = {}
    /\ unchecked = [u \in Email |-> 0]

ForgetBody(r) ==
    /\ declared' = [declared EXCEPT ![r] = 0]
    /\ wrapped' = wrapped \ {r}
    /\ UNCHANGED <<rows, unchecked>>

-----------------------------------------------------------------------------
Weight(u) == [s \in Size |-> s * rows[u][s]]

(* used_space of get_drive_info. *)
Used(u) == MapThenSumSet(LAMBDA s : Weight(u)[s], Size)

IsI64(n) == -Top <= n /\ n < Top

(* The sum n of two i64 in a release build. *)
Wrap(n) == IF IsI64(n) THEN n ELSE IF n > 0 THEN n - 2 * Top ELSE n + 2 * Top

Positive(n) == IF n > 0 THEN n ELSE 0

(* What u uses changes by n, and no check has let it in.  Growth that is   *)
(* gone again does not count.                                              *)
Charge(u, n) == unchecked' = [unchecked EXCEPT ![u] = Positive(@ + n)]

HasRoom(u) == MapThenSumSet(LAMBDA s : rows[u][s], Size) < MaxRows

AddRow(u, s) == rows' = [rows EXCEPT ![u][s] = @ + 1]

DropRow(u, s) == rows[u][s] > 0 /\ rows' = [rows EXCEPT ![u][s] = @ - 1]

-----------------------------------------------------------------------------
BeginInitialize(r, t) ==
    /\ BeginCall(r, t, "drive_info")
    /\ UNCHANGED quotaVars

Fits_WhatIsThere(u, s) == Used(u) <= Limit

Fits(u, s) == Wrap(Used(u) + s) <= Limit

(* The body, with the size s in it, is read after the claims.  A sum of    *)
(* rows that is no i64 is an error of the database.                        *)
CheckSpace(r, s) ==
    LET u == req[r].email IN
    /\ req[r].pc = "drive_info"
    /\ \/ /\ IsI64(Used(u)) /\ Fits(u, s)
          /\ GoTo(r, "insert_file")
          /\ declared' = [declared EXCEPT ![r] = s]
          /\ wrapped' = IF IsI64(Used(u) + s) THEN wrapped ELSE wrapped \cup {r}
       \/ /\ ~(IsI64(Used(u)) /\ Fits(u, s))
          /\ Return(r)
          /\ UNCHANGED <<declared, wrapped>>
    /\ UNCHANGED <<limiter, token, revoked, loggedOut, rows, unchecked>>

(* One transaction.  A folder that the account may not put the file in     *)
(* ends it, as in Cancel.                                                  *)
InsertFile(r) ==
    LET u == req[r].email
        s == declared[r] IN
    /\ req[r].pc = "insert_file"
    /\ HasRoom(u)
    /\ AddRow(u, s)
    /\ Charge(u, IF r \in wrapped \/ s < 0 THEN s ELSE 0)
    /\ declared' = [declared EXCEPT ![r] = 0]
    /\ wrapped' = wrapped \ {r}
    /\ Return(r)
    /\ UNCHANGED <<limiter, token, revoked, loggedOut>>

BeginDestroy(r, t) ==
    /\ BeginCall(r, t, "destroy")
    /\ UNCHANGED quotaVars

(* A file of the account is deleted from the trash, or its upload aborted. *)
DestroyFile(r, s) ==
    LET u == req[r].email IN
    /\ req[r].pc = "destroy"
    /\ DropRow(u, s)
    /\ Charge(u, -s)
    /\ Return(r)
    /\ UNCHANGED <<limiter, token, revoked, loggedOut, declared, wrapped>>

(* Someone shares a file with u at level owner. *)
GainFile(u, s) ==
    /\ HasRoom(u)
    /\ AddRow(u, s)
    /\ Charge(u, s)
    /\ UNCHANGED <<sessionVars, declared, wrapped>>

(* Another owner destroys a file of u, shares it again at a lower level,   *)
(* revokes the share, or deletes the folder that u's row is in.            *)
LoseFile(u, s) ==
    /\ DropRow(u, s)
    /\ Charge(u, -s)
    /\ UNCHANGED <<sessionVars, declared, wrapped>>

QuotaNext ==
    \/ \E r \in Request : \/ \E t \in Token : BeginInitialize(r, t) \/ BeginDestroy(r, t)
                           \/ \E s \in Size : CheckSpace(r, s) \/ DestroyFile(r, s)
                           \/ InsertFile(r)
    \/ \E u \in Email, s \in Size : GainFile(u, s) \/ LoseFile(u, s)

-----------------------------------------------------------------------------
(* Rows are counted, and requests carry sizes that clients declare. *)
QuotaTypeOK ==
    /\ rows \in [Email -> [Size -> Nat]]
    /\ declared \in [Request -> Size \cup {0}]
    /\ wrapped \subseteq Request
    /\ unchecked \in [Email -> Nat]

(* An account gets beyond its limit only by requests that had all read the *)
(* used space before the first of them inserted, hence by no more than the *)
(* largest size for all but one of the requests that can be under way, and *)
(* by what no check compares: files shared with it at level owner, files   *)
(* of negative size that go, and sums beyond i64.                          *)
OvershootBounded ==
    \A u \in Email : Used(u) <= Limit + (Cardinality(Request) - 1) * MaxSize + unchecked[u]
==============================================================================
