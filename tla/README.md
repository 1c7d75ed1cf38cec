# A verification project for the gauzian backend

gauzian is an end-to-end encrypted drive: a Rust/Axum server over PostgreSQL
(tables of users, folders, files, access rows), Redis (one-time codes, rate
limits, revoked tokens) and an S3 bucket (encrypted chunks). This directory
holds TLA+ models of the server, the TLC runs that check them on small
instances, and proofs, checked by TLAPS, of what matters most for every
instance. Paths below are relative to the repository's backend root.

Every definition is read off the Rust source and the SQL in it. `PROJECT.json`
maps each one to the lines it stands for.

## 1. The system

| Component | State | Operations | What is hard | What makes it correct |
|---|---|---|---|---|
| Drive metadata (`src/drive/repo.rs`) | `folders`, `files`, `folder_access`, `file_access` | create, move, delete, restore, empty trash, share, propagate, revoke, accept, reject, rename | per-user views over one global tree; soft delete beside hard delete; long legal sequences by several users; `ON DELETE CASCADE` | the tree is a forest; rows refer to what exists; nobody takes anything from others but in what they own; files are destroyed only out of an owner's trash |
| Folder moves (`move_folder`) | `folders.parent_folder_id` | check access, check target, check for a cycle, `UPDATE` | four statements in no transaction, on a pool | a move is one step of an abstract forest, and every recursive query ends |
| Uploads and storage (`src/drive/handlers.rs`, `src/storage.rs`) | `s3_keys`, objects in S3, the upload semaphore | upload a chunk, finalize, abort, delete, empty trash | two stores with no common transaction; retries; dropped requests; row locks held over calls to S3 | a finalized file is complete; a recorded chunk is stored; orphans have a known cause; permits come back and destroying requests end |
| Quota (`get_drive_info` and its checks) | none of its own: a sum over `files` | check on initialize and on each chunk | check, then insert in another statement; unchecked sizes; rows that others write | what the check lets in overshoots by no more than the requests that ran together |
| Registration (`src/auth`) | Redis keys with a TTL, `users` | send code, verify code, finalize | counters in two steps, expiry, concurrent guesses, retries | bounded attempts; accounts for confirmed addresses; counters that run out |
| Sessions (`src/auth`) | Redis counters and blacklist, tokens with an `exp` | login, logout, the extractor of `Claims` | two clocks of different grain, a counter in three calls, checks that are stale when used, cut requests | a logged-out token stays refused; wrong passwords are bounded; a lockout ends |
| Listings (`get_file_folder_handler` and its queries) | none | list a folder, the root, the trash | the root goes by an anchor per user, a folder by the global tree, the trash by files only | nothing of a drive gets out of sight by moving, trashing and restoring |
| Downloads (`get_file_info`, `download_chunk_binary_handler`) | none | information and keys of a file, then each chunk in a request of its own | what one request has read is stale at the next; two stores | a chunk that is granted is there |
| Agenda (`src/agenda`) | events, participants, categories | create, list | two inserts in no transaction | a participant is of an event |
| Metrics, responses, routing, configuration | counters | - | - | - |

How they interact. An HTTP request runs one handler; a handler calls functions
of `repo.rs`, which talk to PostgreSQL through a pool, and of `storage.rs`,
which talk to S3. Handlers run concurrently and share only the three stores and
the upload semaphore. Every handler but login and registration begins with the
extractor of `Claims`, which asks Redis whether the token was revoked: sessions are
read by every other component, and written by login and logout only. Uploads,
downloads and the requests that destroy files meet in `s3_keys` and in the bucket;
the quota and the drive meet in `files`. A handler whose client goes away is dropped
at the `await` it is at, so every sequence of calls can end early. PostgreSQL runs at READ COMMITTED: a statement sees what
was committed before it began, a row lock makes the next writer wait, and
nothing keeps two statements together unless they are in a transaction that
locks. The clients do all the encryption, choose which keys to send with a
share, and decide when an upload is complete; they are not in the repository.

## 2. The modules

| Module | What it is |
|---|---|
| `FolderForest` | the abstract specification: what the tree of folders promises to all that walk it |
| `Drive` | the four tables and every operation that changes them, one step per transaction; implements `FolderForest` |
| `DriveViews` | over `Drive`: what the listings show a user, and what can be found through them |
| `FolderMove` | `move_folder` statement by statement against the other operations on the tree; implements `FolderForest` when moves come one at a time |
| `Upload` | chunk uploads and the destruction of files, await by await, over `s3_keys` and S3 |
| `Download` | over `Upload`: downloads, a request per chunk, against everything in `Upload` |
| `Registration` | the three requests of a registration, call by call, over Redis keys that expire |
| `Session` | login and its limiter, the extractor of `Claims`, logout and its blacklist, call by call, in seconds |
| `Agenda` | over `Session`: the creation of an event in its two statements |
| `Quota` | over `Session`: the check of the used space and the INSERT of a file as two steps |
| `Api` | the composition of `Session`, `Agenda` and `Quota`: one set of requests, one extractor, one cut |
| `MCDrive`, `MCFolderMove`, `MCUpload`, `MCDownload`, `MCRegistration`, `MCApi` | instances for TLC, with symmetry sets where a run uses one |
| `DriveProofs`, `FolderMoveProofs`, `UploadProofs`, `RegistrationProofs` | theorems and proofs |
| `DriveViewsProofs` | theorems about what a drive that is not shared keeps in sight, from the invariant of `DriveProofs` |
| `DownloadProofs`, `ApiProofs` | theorems about a composition, from the invariants of its parts; `SessionProofs` has the lemmas of `Session` that `ApiProofs` composes |

**Drive.** The state is the tables. A row of an access table is a record whose
`level` is `"none"` when the row does not exist; ids are slots, because a UUID
that no row mentions can stand for the next fresh one. Each operator is named
after the function it models (`DeleteFolder` is `delete_folder`, `EmptyTrash` is
`empty_corbeille`) and contains all of it: the cascade of a `DELETE`, the
`SET NULL` of `file_access.folder_id`, the restore of trashed ancestors. The
predicates `Active`, `Listed`, `Trashed`, `CanEdit`, ... are the WHERE clauses;
which one each query uses is where the behaviour is, so they are kept apart.
`Below(d, via)` is the fixed point that the `WITH RECURSIVE` queries compute, as
the intersection of closed sets: it needs no recursion, so it can be proved about.
One fault is switched by the constant `Faults`: the second of the two INSERTs of `create_folder_in_db` failing.
What the code does not check, the actions do not check: `CreateFolder` takes any folder as the parent, trashed, revoked or
somebody else's, and the upserts of `ShareFolderBatch` any existing folders the batch names (its files are those that its
caller owns; the others are skipped, as in the code).
Every file is taken as fully uploaded here; `share_folder_with_contact` has no
route and is left out; renames only replace an opaque blob.

**DriveViews.** The WHERE clauses of the listing queries as sets of folders and files.
`Navigable(u)` is what a client comes to by opening folders from the root, again as an
intersection of closed sets. The module has no actions of its own: it states, over the
steps of `Drive`, what a user can still see after them. A folder is *loose* when its user has it and not the
one above it, or has it active below one that is in the trash; what is below a loose folder is astray.

**FolderMove.** `pc[r]` is the statement that move request `r` runs next. The
other requests (create, delete, restore, empty trash) are single steps between
the statements of a move. The cycle check returns only if its `UNION ALL` query
ends (`RecursionEnds`). Only the folders of one user appear.

**Upload.** `up[r]` is where an upload request is (owner and quota, body, PUT, INSERT), `purge[p]`
where a destroying request is (read the keys, delete objects one by one, `DELETE FROM s3_keys`,
delete the other rows, commit). The permit is taken before the body is read, and the client sends the body when
it likes, or never: nothing in the server ends that wait. Uncommitted deletes are not seen by others; what they do is
hold locks, which `AccessLocked`, `FileLocked` and `WaitsFor` stand for. The order in which
`empty_corbeille` comes to the files is that of a SELECT without ORDER BY, so any order; two of them can
wait for each other, and `BreakDeadlock` is PostgreSQL rolling back one of a cycle. `Cancel` and
`CancelPurge` are a dropped task: a client that disconnects, or a restart of
the server, which is a cancellation of everything under way. Two things in this
module are the world and not the code: a client sends a chunk until it sees
it succeed and finalizes when it has seen all of them (the workflow of
`docs/API_DOCUMENTATION.md`), and S3 may have done what it reports as an error.
`purged` is a history variable that no action reads.

**Download.** `down[c]` is where a download is: `get_file_info` in its two SELECTs, then
for each key the check of access and the GET. The steps of `Upload` go on in between;
`FreshForReaders` only says that a UUID drawn later is not one that a download still names
(`Upload` reuses slots). A transaction's deletes are seen at its commit, so
the check can still find a row whose object is gone. Retries of a GET read only, so the module has no
counter for them.

**Registration.** `req[r]` is the next call that request `r` makes to Redis, the mailer or
the database: `Send`, `Verify` and `Finalize` are the three handlers, and each of their
disjuncts is a helper of `services.rs` or `repo.rs`. A key is what is left of its TTL, counted
in ticks, 0 when there is none; `Tick` takes one from all of them and removes those at
their last. `Forever` is the counter between its INCR and its EXPIRE. A code is right or
wrong, and has no digits; a token is a slot that is used again only when nothing refers to it.
`Cancel` ends a request after any call: an error of Redis or PostgreSQL, or a
dropped task. A restart of the server is a cancellation of everything under way; Redis
keeps its keys over one of its own (`--appendonly yes` in `docker-compose.yml`). `confirmed`, `against` and
`wrong` are history variables that no guard reads: who has sent in a right code, which
requests compared their answer with the code that is still stored, and how many
wrong answers to it were counted.

**Session.** `req[r]` is the next call of a request, and nothing ties two calls together.
Time is in seconds, because the code compares two clocks: `exp` is checked in whole
seconds and Redis removes a key within its last one, so `ExpireCounter` and `ExpireRevoked`
may come before the `Tick` that ends a token's last second. `Lasting(n)` is what n
seconds leave, the present one included; `Forever` is a counter between INCR and EXPIRE. `Cancel` is a call that fails or a
dropped handler, at any step: Redis down is refused by the extractor (fail-closed) exactly as a
request that ends there. `loggedOut`, `req[r].late`, `counted` and `cut` are history
that no guard reads: the tokens whose logout was answered, the requests that began after that,
the requests that hold an increment of a counter without a TTL, and those of them that were cut.

**Agenda, Quota, Api.** `Agenda` and `Quota` extend `Session`, because their handlers begin with its
extractor, and add the steps behind it. `Api` puts them side by side over the same request slots: a token that is logged out while
an event is being made, a quota check that is followed by a cut. What an account uses is the sum over its rows of
`file_access` at level owner, whoever wrote them, so `Quota` counts these rows by the size of the file (`rows[u][s]`). The
size in the body is any i64: it may be negative, and the sum of the check may wrap (`Wrap`: `Cargo.toml` does not turn on overflow checks in
the release profile). A share at level owner adds a row to its recipient and asks for no room (`GainFile`); a revocation, another owner's
deletion or a share at a lower level takes one away (`LoseFile`). `unchecked[u]` is a history variable: by how much the account's use has
grown by steps that no check had let in. `wrapped` is history, too. The
parts of a file's life that `Drive` and `Upload` have (trash, chunks) are not
repeated: they change nothing in the sum.

**Faulty variants.** An operator named `X_Variant` is `X` with a plausible bug
(a dropped guard, a missing cascade). No specification uses it; putting it in the
place of `X` makes the property of the same row in `PROJECT.json` fail, which
shows that the property is about the code.

## 3. The runs

| Run | Question | Instance |
|---|---|---|
| `drive_shared` | what may a request do to another user's rows, and who destroys files, out of which trash? | 2 users, one of whom creates; 2 folders side by side, 1 file; shares of files at level owner and of folders at level editor, batches over any folders; failing second INSERT; 141,000 states |
| `drive_solo` | does the tree stay a forest with rows that refer to what exists (and is it `FolderForest`), what gets out of sight, and by which request? | 1 user, 3 folders, 2 files, creation below any folder, failing second INSERT |
| `folder_move` | one move at a time, at statement level: refinement of `FolderForest`, and every move returns | 3 folders, 1 move request |
| `upload` | is a finalized file complete, is a recorded chunk stored, what orphans an object, is a granted chunk there? | `Download`: 2 files of 2 chunks, 2 keys, 2 uploads, 1 download, 1 destroying request, 2 permits, 2 attempts, all faults; 378,000 states |
| `upload_purge` | do permits come back, does every destroying request end? | `Upload`: 2 files of 1 chunk, 1 key, 1 upload, 1 permit, 2 destroying requests that may deadlock, all faults; 189,000 states |
| `registration` | whose accounts are made, how many wrong answers does a code take, how long does a refusal last, and what leaves a counter without a TTL? | 1 address, 2 requests, 2 tokens, codes of 2 ticks, cooldown of 1, 2 attempts, failing mails, dropped requests |
| `api` | is a logged-out token refused, are wrong passwords bounded and lockouts over in time, how far is a quota overshot? | 1 address, 1 token, 2 requests of any handler, 1 event, up to 3 files of size 1 or -1, limit 1, an i64 of -3 .. 2, lives of 1 second, 2 attempts, requests cut anywhere; 508,000 states |
| `folder_cycle` | two moves at a time (violation) | 2 folders, 2 move requests |
| `drive_root`, `drive_revoke`, `drive_uploader`, `upload_trash` | a sentence of the docs or a comment against the code (violations) | the least in which it shows |

Why the bounds are enough. Two users are an owner and another one, and every
row-level rule is about the caller's row or somebody else's; in `drive_shared` a file shared at level owner makes both
its owners. There two folders side by side (`SideBySide` bounds the run to folders without subfolders) are one
that is shared and one that a batch names beside it; trees are explored by `drive_solo`. Cycles, cascades, restored ancestors and
folders created below a trashed one show with chains of three, which `drive_solo` has. `folder_move` has three folders for a target that is neither
the parent nor the child of what moves. In `upload` a key that is orphaned still leaves one for a
retry; the code's 5 attempts and 50 permits differ from 2 and
2 in nothing the actions test, and the lone permit of `upload_purge` is the last one. In `upload_purge` the trash may hold two files, so the
loop of `empty_corbeille` is at one while the other is locked, and two such requests meet them in either order: the cycle of waiting
transactions is in the run. In `registration` the keys of different
addresses never meet, so one address is enough; two requests overlap in every pair of
handlers; a code of 2 ticks can be stored on either side of a counter's expiry, and 2
attempts are enough for a request to be refused while another one counts. Two tokens are
the one stored last and an older one.
In `api` counters and blacklist entries live through a second and what is left of the one
before, so a key can end before, at and after the second of what it is compared with; longer lives add ticks
in which nothing is compared. Two requests give each pair of handlers, and the bounds on wrong passwords
and on the overshoot grow with the number of requests, and are both reached with two: a limit of one
file, two requests that see it empty, and room for a third file that must not appear. The smallest sizes and an i64 of
six values already wrap. Two constraints keep out products of what does not meet: `OneAtATime` (a run with files has no
events, and one file at most while a failed login is counted) and `LittleUnchecked` (`unchecked` up to 1). One token has all it needs, since no
step reads two. The proofs remove the bounds
for the properties of section 4.

Fairness. `Drive` and `Registration` have none: nothing a user may do has to happen. In `Api` time
passes, and a login that was begun goes on or is cut: weak fairness on `Clock` and on the steps of `Login`,
which never wait. In `FolderMove` and `Upload` the server goes on
with what it began: the runtime polls a ready
task and the stores answer. Steps that wait for a row lock get strong
fairness in `Upload`, because PostgreSQL queues the waiters and finds deadlocks; `move_folder` has no such
wait and gets weak fairness. No client is assumed to act: `ReceiveBody`, `RejectBody` and `Cancel` have no
fairness, so `PermitsComeBack` has the client that stalls in its body as its exception. That is what the code does: it holds the
permit across the reads of the body, and neither the handler nor the server has a timeout.

How many wrong answers. The counter alone would allow `MaxAttempts`. The bound of
`WrongAnswersBounded` is what the code gives: a request reads the counter before it checks and raises it
after, so the others under way go past the limit, and one code can live through the
end of the counter that was there when it was stored and through all of the next one.
The run reaches the bound with two requests (one less is violated); with one request at a
time and the 5 attempts of the code it is 9.

What the sharing and destruction properties say. `share_folder_batch` upserts the contact's row for every folder id
in the request, and asks about none of them but the one that is shared. So `OnlyOffersReachFurther` cannot say that
an owner changes rows of its own items only; it says that what reaches further is always an offer, a row that is active and not accepted, by a caller who owns some folder,
and that nothing else (taking access away, trashing, accepting for the recipient) does. `FilesEndInTrash` ties each
destroyed file to the request and its caller: the only holder's abort, or an owner's `delete_file` or
`empty_corbeille` on that owner's trash. It does not say that no other holder had the file active, because the code does not ask
them. A file restored between the statements of `empty_corbeille` is `upload_trash`.

Two properties of `api` have an exception, and both are what the code does. `LoggedOutIsRefused`
leaves out the last second of a token: one that is logged out in the second in which it was made has a
blacklist entry that can end before the token does, by less than a second. `LockoutsEnd` leaves out an account
whose counter holds `MaxAttempts` increments of requests that were cut between INCR and EXPIRE: such a counter has no
TTL, a locked account counts nothing any more, and so nothing sets one. With fewer, the next
wrong password repairs it, because EXPIRE follows whichever increment finds no TTL.

What the violations show.

- `folder_cycle`: two moves in opposite directions both pass the cycle check before
  either updates. The folders become each other's parents; every recursive query
  over them then runs until it is stopped.
- `drive_root`: moving a root folder below another leaves `is_root_anchor` set,
  so the listing of the root still has it, and its owner sees it twice.
- `drive_revoke`: revoking a folder finds the recipient's files by the recipient's
  own `folder_id`; a file accepted on its own, or moved, keeps its row.
- `drive_uploader`: deleting a shared folder deletes the owner rows of files that
  others uploaded there; such a file is in nobody's drive or trash afterwards.
- `upload_trash`: a file restored while the trash is being emptied is destroyed.

## 4. What is proved

Every invariant and every action property of the passing runs is the subject of a theorem,
for every finite or infinite set of users, folders, files and requests, from the
assumptions named in the modules (`NULL` is not an id; the levels and faults are
among those listed; where requests are counted, they are a finite set, and not an empty one):

- `TypeCorrect`, `IntegrityHolds` (`DriveProofs`): the tables of `Drive` keep their
  types; the folders are a forest over existing folders and access rows refer to
  existing items.
- `DriveImplementsForest`: every request is a step of `FolderForest` or a stutter.
- `OwnersDecide`: a request changes another user's row only for an item its caller
  owns or has below a folder its caller owns; what a batch writes beyond these is an offer to be answered.
- `OnlyTrashIsDestroyed`: a file disappears only by its only holder's abort, or by a request of one of its owners out of
  that owner's trash.
- `CreationAloneStrands`, `NothingGetsOutOfSight` (`DriveViewsProofs`): under the hypothesis
  `Unshared` (nobody shares), for any number of users: only its own creation leaves a folder loose, and no request does that to a file;
  save for what is below such a folder, every file is listed in the trash or in a folder that can be opened from the root,
  and every folder that is not in the trash can be opened.
- `SerialMovesTypeCorrect`, `SerialMovesKeepForest`, `SerialMovesImplementForest`
  (`FolderMoveProofs`): under the hypothesis `OneMove` (at most one move request),
  the same for `move_folder` at statement level.
- `UploadTypeCorrect`, `RecordedChunksAreStored`, `FinalizedFilesAreComplete`,
  `OrphansHaveACause` (`UploadProofs`): the safety properties of the run `upload`, for any number of files, chunks, keys and destroying requests, and any
  finite number of uploads (`RequestAssumption`; permits are counted). `PermitsAreKept`: free
  permits and uploads under way always add up to `Permits`.
- `GrantedChunksAreThere` (`DownloadProofs`): `GrantedChunksAreFound` for any number of
  downloads beside all of these. `DownloadsChangeNothing`: the specification with downloads
  implements the one without, so that `SafeBesideDownloads` has the safety properties of `Upload` there too.
- `RegistrationTypeCorrect`, `OnlyConfirmedEmails`, `RefusalsRunOut`, `CountersGetTheirTtl`, `WrongAnswersAreBounded`
  (`RegistrationProofs`): the types; an account's address is one whose owner has sent in a right
  code; no request prolongs the refusal of an address without an account by a counter with a TTL, and only a cut leaves one without; and the bound on the
  wrong answers that one code takes, for any lifetimes and any finite number of requests.
- `ApiTypeCorrect`, `WrongPasswordsAreBounded`, `LoggedOutStaysRefused`, `NoTtlOnlyByCuts`,
  `OvershootIsBounded` (`ApiProofs`): the safety properties of the run `api`, for any addresses, tokens and events, any finite set of sizes, any lifetimes and any
  limit, and any finite number of requests, of which there is at least one (they are counted).

The argument. Forest says that no set of folders holds all its own parents. It is
not inductive for `EmptyTrash` or `MoveFolder` by itself: the proof needs that
parents exist, that a doomed set is closed under children, and, for a move, that the
target is outside the moved folder's tree, from which a set that holds all its
parents after the move yields one before it. `DriveProofs!IInv` is the conjunction of
named parts (tree, files, the two access tables, forest), one lemma per action
and part. In `FolderMoveProofs` the strengthening is `CheckStillHolds`: a request
whose next statement is the UPDATE has a target outside the tree of the folder it
moves. Creations, deletions and restores between the check and the UPDATE keep that, since
they add leaves or remove whole subtrees; only another move could break it, which is
exactly what `folder_cycle` shows.

In `DriveViewsProofs` the strengthening is `Private`: a folder or a file has the rows of one user
only, and that user also has the folder a file is in, out of the trash when the file is
(`FoldersOwned`, `FilesPlaced`). Folders have no such conjunct, because a creation breaks it; what holds of their places is
said of the step (`OnlyNewLoose`), and proved with `Private`: a restore brings back
all trashed ancestors, a deletion or emptied trash takes whole trees. An active folder that is not astray and could not be opened from the root would have a
parent of the same kind, and all such folders together would hold all their own parents, which
`Forest` forbids: no induction along a path is needed. The hypothesis is what the code needs: a
folder shared and not yet accepted, or one revoked above a file of the recipient's, breaks `Private`, and with it the property (`drive_uploader` is one way).

In `UploadProofs` none of the properties is inductive alone. A recorded chunk is
stored because an upload that is about to INSERT has a key that is stored, that no
row and no other upload has, and that no destroying request has read (`UploadsOK`);
a destroying request asks away only keys of the file it is at (`PurgesOK`,
`ChunksOK`: no two rows share a key). The same invariant says that whatever a
destroying request has read and not deleted is still in its list, so that at its
commit only a chunk recorded in between can leave an object behind.

`DownloadProofs` adds one conjunct to that invariant: as long as the file of a download
exists, each key it still wants is in a row of that file (`DownloadsOK`). It is kept because rows
go only at a commit, and with the row of their file (`RowsStay`); with `RecordedIsStored` it
leaves a missing object only to a file that somebody asked to destroy.

In `RegistrationProofs` the strengthening is `CheckedOK` and `CountersOK`. The first says what a
token or a request past a check stands for: a living token has a confirmed address,
a request that is about to INSERT is for one, and one that is about to delete the counter
has its account. The second says that the request that made a counter is the only one that
will set its TTL, and that until then the counter has none: so EXPIRE never touches a
counter that is running out. That is where the hypothesis "without an account" is
needed, because a finalize request deletes the counter under the one that made it, and a new
counter can then meet the old EXPIRE. `CountersGetTheirTtl` rests on the same conjunct: as long as the counter of
an address without an account has no TTL, a request is at its EXPIRE, and each step either keeps that request there, or sets the TTL, or cuts it.

`WrongAnswersAreBounded` needs `GuessesOK`. What one counter can let
through is `Margin`, `MaxAttempts` and the requests less one: a request that is past the limit and not
counted yet is taken together with the counter, since it passed below `MaxAttempts` with at most the
others beside it. A code meets two counters at the most: the one that was there when it was stored, and
the next. The invariant tells them apart by comparing what is left of the counter's
TTL with what is left of the code's: a counter made after the code outlives it, and `CountersOK` is
needed because that is only so if the EXPIRE of the second counter comes from the request that made it. The
last one less in the bound is an answer that the first counter counted before the code was stored: without it
there was no first counter.

In `SessionProofs` each property has its own reason, and they meet in `SessionInv`. `LimitOK`
counts, besides what the counter has, the requests that have passed the limit and are
not counted yet (`Trying`): a request passes only below `MaxAttempts`, when at most the
others are in `Trying`, and a failure moves its request from `Trying` into the counter.
`BlacklistOK`: the entry of a logged-out token lasts as long as the token, but for the token's
last second, because the two clocks tick together and Redis may take a key only within its
last second. `CountersOK`: a counter that has a TTL holds no increment that is
to set one or was cut, so the first of these finds the equation of `NoTtlMeansCut` at zero.
`ApiProofs` adds that a request between the two INSERTs of an event is the one that owns it
(`DraftsOK`), and that the handlers behind the extractor leave the sessions alone
(`ElsewhereKeepsInv`), so no lemma about `Session` is proved again there.

`OvershootIsBounded` is about a sum over the rows of an account, and rests on `SpaceOK`, which is about `Checked`, the
sum less what no check let in: of the
requests that have passed the check with a sum of numbers and not inserted yet, one had room for its file in the sum as it
was read, and each of the others adds `MaxSize` at the most (`MostUsed`). An INSERT moves its request from the
promised space into the sum, a cut request only frees space, rows that come and go otherwise leave `Checked` or lower it (`ChargedSpace`), and a new
request that passes is the one with room. The lemmas about sums (one more member, the same weights, another weight, an
integer) are inductions over a finite set, and the library states those with an operator
parameter. Here they are proved without: of the sets for which a sum would fail, one has the least
cardinality, and all its proper subsets are right, so it is right too (`SetInduction`).

Only model-checked: the liveness properties `MovesReturn`, `PermitsComeBack`, `DestroysEnd` and
`LockoutsEnd`, because fairness and ENABLED are beyond this prover. Where the hypotheses of a theorem
(`OneMove`, `Unshared`) do not hold, the violations of section 3 show what happens instead.

## 5. Not modelled, and the plan

Not modelled:

- the formatting of responses, metrics, tracing, health checks, `init_bucket`, sending mail, the
  cryptography (all in the clients), `rename_*` (they replace an opaque blob);
- `download_file_handler`, `download_chunk_handler`, `share_folder_with_contact` and
  `recovery`: no route reaches them;
- of the listings: `get_shared_with_me_contents`, paths, sizes and counts, the lists of users of an item;
- categories of events, which no handler writes; the tiers of accounts, which are one limit here;
- the check of the used space before each chunk, which is only an early return (`Refuse` in `Upload`); the
  limiter per IP of finalize, which is the one of `Session` under another key;
- `delete_folder` statement by statement: its five statements each compute the tree again.

The plan, most important first:

1. Done: `FolderForest`, `Drive`, `FolderMove`, `Upload`, `Registration`, `DriveViews`, `Download`,
   `Session`, `Agenda`, `Quota`, `Api`, their runs, and the proofs of section 4.
2. Done: a theorem for every invariant and action property of the passing runs.
3. The other access rules of sharing: a re-share resets `is_accepted`; level owner can be
   neither accepted nor rejected.
4. `delete_folder` at statement level against moves.
