# Verification of the PQQ backend

TLA+ models, TLC runs and TLAPS proofs for the synchronization backend in this
repository (Go, PostgreSQL, MinIO, WebSocket). Paths below are relative to the
repository root.

## 1. The system

| Component | State | Operations | Hard behaviour |
|---|---|---|---|
| Sync push (`internal/sync/service.go`, `internal/postgres/store.go`) | ten record tables, `sync_processed_mutations`, `sync_change_log` | `Push`: one transaction per request, mutation by mutation | concurrent handlers under READ COMMITTED, retries, timestamps taken at the start of the transaction, text comparison of timestamps, deadlocks, unique indexes, a second pool connection |
| Sync pull (same files) | the client's cursor | `Pull`: pages of the change log, filtered by permission | pages interleave with commits; filtering and the limit; lost responses |
| Sync rebase | none | `Rebase`: ten SELECTs, filtered | no common snapshot |
| Attendance actions (`attendance_actions.go`) | sessions, records, mirrored messages | seven actions, several rows each | no staleness check; a refused action is not rolled back; lock order |
| Session creation (`attendance_create_session.go`) | sessions, records | create a session with a record per scheduled student | check then insert |
| Realtime hub (`hub.go`) | the registered connections and their channels | `Register`, `BroadcastChange`, `unregister`, two loops per connection | locks, full and closed channels |
| Student codes (`store.go`) | `sync_counters`, `students.student_code` | `NextStudentCode` | uniqueness including deleted students |
| Imports (`*_import.go`) | the record tables | one transaction per file | matching rows, replacing schedules |
| Accounts (`internal/auth`) | users, memberships, invites, audit log | create, deactivate, invite, accept, revoke | checks and updates without a transaction |
| Student media (`internal/media`) | object store, `student_media`, import batches | upload, set primary, delete, import | two stores without a common transaction |
| Startup (`cmd/server/main.go`, `schema.go`) | the schema | migration, backfill, bootstrap administrator | runs again at every restart |

How they interact: every write path of the record tables (push, attendance
actions, imports) runs in a database transaction, appends to the change log and
broadcasts `sync.changed` after the commit; clients then pull. Push and pull
ask the accounts component for permissions through `GetClubPermissions`, which
uses its own pool connection. Media only shares the student table and the
permissions.

What makes each component correct: *push* applies a mutation at most once,
completely or not at all, replaces only the row it has checked, and leaves a
change log whose last row per record is the canonical one; *pull* delivers every
readable change once and makes progress; *attendance* keeps sessions, records
and messages consistent; the *hub* never blocks or stops a push and drops no
event silently; *codes* and *keys* are unique; *invites* are used at most
`max_uses` times; an administrator always remains; a student has at most one
primary avatar and no row points to a missing object.

## 2. Modules

`Timestamps` - instants, the texts Go and the clients write for them, and Go's
comparison of texts (`existing.LastModifiedAt > mutation.ClientModifiedAt`). A
database tick stands for a microsecond; `Base` and `Digits` scale a second down. A text
is the second it shows and the characters after it: the server's end in "Z", a client's
may have any number of fraction digits and an offset, which shows another second than
that of the instant (`ClientText`). `SyncPush` takes any text (`Texts`), so its theorems
do not depend on what else Go's parser lets through.

`SyncPush` - the handlers of `POST /sync/push`, and of the attendance actions that
load one row and write it back. `pc` is a handler's place in the loop of `Push`:

| Action | Code |
|---|---|
| `Begin` | checks, `store.Begin`, `now := time.Now()` |
| `SkipProcessed`, `NotProcessed` | `IsMutationProcessed` |
| `LockRow` | `GetRecordForUpdate` (waits for the row's lock; locks nothing when there is no row) |
| `Conflict`, `Accept` | `authorizeMutation`, the staleness check, the checks of `canonicalizeMutation` |
| `Write`, `UniqueViolation` | `UpsertRecord` with `insertChangeLog`, `SaveProcessedMutation` |
| `Commit`, `Broadcast` | `tx.Commit`, `hub.BroadcastChange` |
| `Fail`, `DeadlockVictim`, `Crash` | error returns with the deferred `Rollback`, PostgreSQL's deadlock detection, a stop of the server |

A mutation carries what the entities differ in: the records it refers to
(`RecordExists`), the value of its unique key, its scope (club), its `deletedAt`.
A payload is its mutation's id. `wrote` and `pending` are a transaction's own
writes; `row`, `log` and `processed` are what is committed; `lock` stands for
PostgreSQL's row locks and the entries of its unique indexes, both held to the
end of the transaction. An index has an entry for every active row, that of the student
codes and that of the schedule profiles (`FullKeys`) for deleted rows too. `lookup` says
whether the code looks for another holder of the key first: it does not for clubs, for
schedule profiles and for deletions of attendance records, where the index alone
refuses, and with it the whole push. A retry is the same request received again.
Not modelled in `SyncPush`: the audit log, the mutation's field validations
(they refuse by the payload alone and write nothing), the generated student code
(see `Imports`), the reopen rule of sessions (see `Attendance`), and the wait for the primary key of
`sync_processed_mutations`, which a handler only reaches while it already holds
the row both handlers want.

`ChangeLedger` - the abstract specification: tables, log and processed mutations
change together, one whole transaction at a time; change ids are never reused;
each change starts from the row its transaction saw before it, and the first from
the committed row - except an insert, which knows of no row. `SyncPush` implements
it (`ImplementsLedger`), with the identity as refinement mapping: handlers, locks
and requests are hidden.

`SyncPull` - the pull handler of one client: `StartPull`, `ReadPage` (one turn of
the loop: `ListChangesSince`, the permission cache, the cursor, the limit),
`Respond`, `Lose` (an error, or a response that never arrives), and `Regrant` (the
memberships change). What the client does with a response is not in the
repository: it keeps the changes and `nextSince`.

`SyncFeed` - `SyncPush` and `SyncPull` composed over one change log.

`Hub` - the realtime hub. `clients` is `h.clients`, `send` and `closed` are the channels,
`job` says what each goroutine of a connection does: its `writeLoop`, its `readLoop`,
and the `go h.unregister(c)` of every broadcast that found its channel full.

| Action | Code |
|---|---|
| `Register`, `Greet`, `GreetPanics` | `Register`: the section under the lock, then the send of "connected" (outside of it, before the loops run) |
| `StartBroadcast`, `Offer`, `EndBroadcast` | `BroadcastChange`: read lock, one turn of the loop with its `select`, unlock |
| `Take`, `Ping`, `WriteDone` | `writeLoop` |
| `Leave`, `Unregister`, `CloseConn` | the ends of the loops and `unregister` |
| `Peer` | the other side stalls, goes on, or goes away |

`Attendance` - the writes that touch several rows: `POST /sync/attendance-actions`,
`POST /attendance/sessions` and the backfill at every start. A request is a sequence
of actions; `pc` names the next statement of the action at `pos`:

| Action | Code |
|---|---|
| `Begin`, `Take`, `Save`, `Commit` | the loop of `PushAttendanceActions`: processed and permission checks, `SaveProcessedMutation`, `tx.Commit` |
| `LockRecord`, `LockSession` | `loadAttendanceRecordActionTarget`, `loadAttendanceSessionActionTarget` |
| `WriteTarget` | `upsertAttendanceActionMutation`: `canonicalizeMutation`, then the upsert |
| `CreateRecords`, `MarkRecords`, `DeleteRecords`, `DeleteMessages`, `MirrorNote` | what `create_session`, `mark_all_present`, `delete_session` and `set_record_note` write besides |
| `LockClub`, `BuildSession` | `CreateAttendanceSession` |
| `Midnight`, `Restart` | the clock, a restart with the backfill |
| `PushStanding`, `PushRow` | `POST /sync/push` on clubs and students (deactivated, deleted, restored), and on sessions, records and messages |

A refusal (`MoveOn`) goes on with the next action and keeps what was written.
A note is blank or not, a status one of two, an idle handler's locals are reset.
`ActionOK` and `RequestOK` say what a decoded request can hold: ids of the right
tables and values of the right types, nothing about which rows exist.
Pushes are the environment here, one row and one step each, at their commit: a push of
several rows is several of them. What a push looks up first may be out of date by then,
so `PushRow` is held back only by what the database enforces: the lock of the row, the
lock, as strong as any, of a row it refers to for the first time, the foreign key of the
session, and the unique index. `NewInClub`, `Sharers` and `SharesClub` are the share a
new session takes of its club's row, which `getClubForUpdate` waits for. `pushed` is a
history variable: the clubs and students ever deleted, the messages ever written by pushes.

`Accounts` - users, memberships and invites. No transaction: a step is one call of
the store that commits at once, `loc` what the request has read before. `Fail` ends a
request between any two calls; `Restart` also runs `EnsureBootstrapSysAdmin`.
`SetActive`, `ResetPassword`, `RemoveMember`, `InsertInvite` and `RevokeInvite` are the last
statements of their requests; `CheckActor`, `FindTarget`, `FindInvite` and `CheckOwner` the
checks before; `LookUpInvite`, `FindEmail`, `InsertUser`, `FindMember`, `InsertMember` and
`UseInvite` the calls of `AcceptClubInvite`, shared with `CreateUser`, `AddMembership` and
`Login`.

`StudentMedia` - pictures and their import in batches. `media`, `item` and `batch` are
tables, `objects` the keys in the object store; a step is one call of either.
`FindStudent` to `CleanUp` are `storeAvatarBytes`, for uploads and for items of a batch;
`FindMedia`, `SoftDelete` and `Unlink` are `DeleteAvatar`, for requests and for the pictures an
import replaces; `Stage` to `InsertItem` are `AnalyzeAvatarImport`, `ReadItems` to `Finish`
`ConfirmAvatarImport`. Calls that fail are counted (`faults`), `AnswerLost` among them: an
INSERT that is done and answered with an error.

`Imports` - the three Excel imports and pushes of students. A file is what its parser
made of the rows: valid or not, and the values that identify a record. `LockRow`,
`TryCode` and `CheckOrder` are `ImportClubs` and `ImportBeltRanks`; `References`,
`FindStudent`, `NumberStudent` and `RefuseSchedule` are `ImportStudents`; `WriteRow` is
`UpsertRecord` with the unique indexes, `Abort` the transaction PostgreSQL ends because
of them. `ReadSchedule`, `ReplaceSchedule` and `AbortSchedule` are `ReplaceStudentSchedule`:
it locks and reads the student's rows into a map by weekday, where one of two rows of a
weekday hides the other (`hidden`), then writes the days of the file under ids of its own and deletes
the other rows of the map; a row of another id that has such a day makes the index end
the import, and so may the index of the schedule profile. `PushSlot` is a pushed schedule row,
at its commit; `since` are the rows others have committed since the import read. That an aborted transaction can only be rolled back, while the code reports
the error as one of a row and goes on, makes `Abort` end the request. `news` is a
history variable: the rows others have committed since the handler's last lookup.
Idempotency and staleness of a push are those of `SyncPush`, here a free choice.
`LineOK` and `RequestOK` say what the parser can make of a file and decoding of a push;
`StoredAssumption` that the rows at the start satisfy the unique indexes and have none of
the ids an import generates. A student counts as refused after it was stored only when
its row is one the parser kept: `ReportIsTrue` compares the two numbers.

`SyncPushProofs`, `SyncPushConvergence`, `SyncFeedProofs`, `HubProofs`,
`AttendanceProofs`, `AccountsProofs`, `StudentMediaProofs`, `ImportsProofs` - the proofs
(section 5). `MCSyncPush`, `MCSyncFeed`, `MCHub`, `MCAttendance`, `MCAccounts`, `MCStudentMedia`, `MCImports` - the requests and names of the small instances; the `.cfg` files give the bounds. Operators named
after a modelled one with a suffix (`StaleNever`, `PageByTime`, ...) are
deliberate mistakes: each property is known to fail with one of them in place of
the modelled definition.

## 3. Runs

| Run | Instance | Result |
|---|---|---|
| `push_race` | two handlers, one record, three requests in all, six ticks (two per second) | create, edits by two devices, one in a zone ahead and with more digits, a deletion, retries, failures: `CheckedRowIsCurrent`, `FeedConverges`, `AppliedOnce`, `AnnouncedAreCommitted` hold |
| `push_locks` | two handlers, two records, one unique key, requests of two or three mutations in opposite orders, refused scopes, references | `TypeOK`, `UniqueActiveKeys`, `ImplementsLedger`, and `RequestsEnd` under fairness |
| `feed_serial` | one handler, one client, pages of one row, two scopes whose readability changes | `NothingSkipped`, `NoDuplicates`, `CaughtUpIsCanonical`, `CursorAdvances`, and `CatchesUp` under fairness |
| `hub` | one connection, a channel of one message, three broadcasts, a peer that stalls or goes away | `TypeOK`, `NoPanic`, and `BroadcastsEnd`, `ServedOrGone`, `NoLeak` under fairness |
| `attendance` | two handlers, three of eight requests and pushed rows, sessions and records of two students, one day that passes, a club that pushes close, delete and restore | `TypeOK`, `RecordsFollowSession`, `MessagesFollowSession`, `OneSessionPerDay`, `NeverStuck`, `KeepsOtherFields`, `ReopenedToday`, `RefusedLeave` |
| `accounts` | two handlers, four of fifteen requests, three users, two invites, an administrator and a second user | `TypeOK`, `OneMembershipPerClub`, `UsesOverlap`, `UsedGivesMembership`, `UsedIsFinal`, `AnAdminStays` |
| `student_media` | two handlers, three of eight requests, two students of one name, a batch of two files, one failing call | `MediaTypeOK`, `LiveHasObjects`, `StagedUntilStored`, `NoLeftovers` |
| `imports` | two handlers, three of six requests and four pushed schedule rows, files of up to three rows that collide with each other and with pushes, one lost connection, one deletion | `ImportsTypeOK`, `CollisionsExplained`, `ReportIsTrue` |
| `push_attendance_order` | two devices set the status of one session | violates `PullYieldsCanonical` |
| `push_text_order` | edits within one second, clients with fewer digits | violates `NeverOverwritesNewer` |
| `feed_late_commit` | two handlers, one client | violates `NothingSkipped` |
| `feed_overflow` | one push of four records, one of them unreadable, pages of two | violates `NothingSkipped` |

Bounds. Two handlers are enough for every hazard listed for push: each is between
two transactions, and the third request in `push_race` is the create both build
on or a retry. Six ticks let the create, two edits and their pushes fall in
different seconds. One key and two records are enough for a duplicate, a deadlock
and a broken reference. A page of one row makes every row a page boundary; the
overflow needs two. `PoolSize = 3` is larger than the number of handlers: with an
equal size every handler can wait for the connection `GetClubPermissions` needs,
and `RequestsEnd` fails. That limit is a property of the deployment: the pool must
be larger than the number of pushes that run at the same time.

The connections of the hub only meet at `h.mu`, which broadcasts hold as well, and
`NoPanic` is proved for any number of them; a channel of one message and three
broadcasts give a full channel before and after the greeting, and two goroutines
that unregister one connection.

In `attendance` three requests are a create and two that meet on what it made, or a
request, its rival and its retry; record `p1` has a note and `q1` has none, `p2` is the
second record of a student. Pushes delete the session without its records, write a record
of it again, and write a message. Only the club is `Fragile`; students that pushes delete, and a
`create_session` whose payload is deleted (`Buries`), are covered by the proofs, which hold
for any. Every scheduled, unscheduled and custom case of the
expected students needs two weekdays. In `accounts` the first requests create the second user and
an invite, the last two overlap. In `student_media` three requests are an analysis and
two confirmations, or three pictures of one student; one fault separates what a single
failure can do from what a failure of its repair can. In `imports` the first row of a file
can take the key of the second, the second the code the first was given, and the third
the key both want; a third request is the retry or the rival push. A student is stored
with an active schedule row of a client's id and a deleted one of the same weekday under the
import's own id; pushed rows free that weekday, occupy another, or keep a weekday under the
own id of another.

Preconditions. `FeedConverges` and `AppliedOnce` hold for a record whose history
consists of pushes (`api = "sync"`), of edits whose text shows an earlier second than the
one their push began in (`OrderlyEdits`), and without two inserts of the same id that did
not see each other (`RacedInsert`): each of the three is needed, and for the first two a run
above shows what happens otherwise. The second condition is about the text, not the
instant: an edit written in a zone ahead of UTC meets it only when it is pushed later
than what it shows, up to fourteen hours after it was made; until then the staleness
check does not protect newer rows, nor stop a retry that overlaps its first attempt.

Fairness. `RequestsEnd` assumes weak fairness of each handler's steps: goroutines
are scheduled and PostgreSQL grants a lock that stays free; nothing is assumed of
requests, failures or the clock. `CatchesUp` assumes that a client keeps pulling,
that its handler runs, and that failures of pulls come to an end; a client that
loses every response learns nothing. In `hub` goroutines that can run do; the strong
fairness of `Take` says that a ticker of 25 seconds does not keep `writeLoop` from its
channel for ever. Nothing is assumed of peers, so `ServedOrGone` allows a stalled peer
to wait: `WriteMessage` has no deadline. The two liveness properties of connections
speak of greeted ones: when sixteen broadcasts fall between the two halves of
`Register`, it waits at the channel nobody reads until the next broadcast. The runs switch deadlock checking off because
the number of requests is bounded, so every behaviour ends in a quiet state; that
nobody waits for ever is what `RequestsEnd` says. In `attendance` the invariant `NeverStuck`
says it without fairness: while a handler is busy, one of them can go on.

## 4. Disagreements found

1. *Attendance actions overrule each other in the log* (`push_attendance_order`): no
   staleness check, and the log is ordered by the start of transactions.
2. *Text comparison of timestamps* (`push_text_order`): "...05.2005Z" sorts before
   "...05.200Z", so a push replaces a newer record. `validateMutation` also accepts
   offsets, so that a client in a zone ahead of UTC that writes its local time replaces
   rows that are hours newer, and one in a zone behind has its edits refused as stale.
3. *A late commit is never pulled* (`feed_late_commit`): the row is stamped before
   the cursor of a client that pulled meanwhile.
4. *Rows beyond the limit are never pulled* (`feed_overflow`): the cursor passes
   readable rows of a second page that had no room in the response.

What the models of the other components allow, and no document of the repository
excludes; their properties are stated around it:

- `set_record_note` with a text is always refused when it is mirrored, because
  `canonicalizeMutation` (service.go:789) lets nobody upsert an attendance note; the
  record keeps its note, and the next start of the server creates the message.
- A deleted session can hide the active one of the same day from
  `CreateAttendanceSession`, since the lookup returns any one row, and the lookup does
  not see a session that a `create_session` action is moving to that day and has not
  committed: two sessions of one club and day are possible, and `OneSessionPerDay` says
  by which step. A `create_session` of a session that is new holds a share of its
  club's row, so the two do not overlap.
- A push deletes a session without its records and messages, and restores a record or a
  message of a deleted session: such orphans are the push's, and `RecordsFollowSession` and
  `MessagesFollowSession` say that the requests of this module add none of their own. A
  `create_session` whose payload is deleted does, when it found no row because another
  one was creating the session (`Buries`).
- A message keeps the others of its session: when a push has deleted its student or its
  club, `delete_session` is refused at it, and what was to be deleted after it stays
  although its own student and club are there (`MessagesFollowSession`). A push may restore
  the two later; the messages stay.
- Two requests that overlap accept an invite for one use (`UsesOverlap`); two
  administrators who deactivate each other leave none (`AnAdminStays`).
- A membership in a deleted club is not found, but blocks a new one by the index.
- Two confirmations of a batch that overlap delete each other's pictures, and an item
  that one has imported is marked failed by the other, from what it read before.
- An import that replaces pictures deletes them before it reads the new file.
- An INSERT that is done and answered with an error leaves a row without objects.
- One row that a unique index refuses fails the whole import, and since the counter is
  rolled back with it, so does every retry, when the code it hands out is taken.
- A student's stored days can differ from those an import reports (`ReportIsTrue` names the
  cases): an active row hidden by a deleted one of its weekday stays, so does a row pushed
  since the import read; and a row with the import's id for one day that a client has
  moved to another weekday is first written back, then deleted.
- A schedule row that a client gave another id ends every import that has its student on
  that weekday, and so does a schedule profile of another id.
- A push with a create and an edit of one record has the edit refused as stale: the
  create was stamped with the server's clock.
- A student whose custom schedule is refused is stored, counted as an error and not
  broadcast; a row without a code that is sent again makes a second student.

## 5. Proofs

For every value of the constants that satisfies the named assumptions of the modules.
These say that special values are none of the ordinary ones, that the sets of ids of
different tables are disjoint, and that requests are well typed, as after decoding;
`TimestampAssumption` names the number of ticks in a second, `TicksPerSecond`, a
positive number, because the prover knows no law of exponents.

**Push** (`SyncPushProofs`, `SyncPushConvergence`)

- `TypeSafety`. `TypeOK` alone is not inductive: the row a write produces is only
  well formed because a handler past "check" has a mutation to work on, and an
  attendance action has a row (`Working`). `TypeInv` is both.
- `CheckedRowSafety`. `LockInv` adds who holds which lock: the row a handler has read,
  and every row it has written. A step of one handler leaves another `Undisturbed`,
  because a lock is only taken when nobody else has it and a commit only changes
  rows locked by the committing handler.
- `PushImplementsLedger`: `Spec => ImplementsLedger`. `LedgerInv` adds that ids are
  unique over the log and all open transactions, and that the pending changes of
  a record form a chain (`ChainOf`) from the committed row to the row written.
  A commit is then a `Transaction` of `ChangeLedger`; every other step stutters.
- `AnnouncedSafety`: a handler that has committed has its changes in the log (`AnnounceInv`).
- `UniqueKeysSafety`. `KeyInv`: a handler holds the index entries of the active rows it
  has written and of those they replace, and what it sees, its own writes included,
  never has a key twice. The lookup without a lock plays no part in the argument.
- `FeedConvergesSafety`, for any texts. The order of the log and the staleness check both go by times
  taken at the start of a transaction, while rows are replaced in the order of the
  commits. `FeedInv` says that the text of a pushed change shows no earlier a second than that
  of the row it replaced (`EntryOK`): that is all the comparison of texts achieves
  (lemmas on `Timestamps`: a text that shows an earlier second is the smaller one, whatever
  follows). With
  `OrderlyEdits` the change is then stamped in a later second than what it replaces,
  so the row of the table is the last of its history in both orders (`HistoryOK`).
- `AppliedOnceSafety`, from `FeedInv`: who applies a mutation a second time has seen a row
  made in a later second than the edit, and would have refused it. It assumes
  `MutationsNamed`: one name for one mutation, what clients promise with `mutationId`.

**Feed** (`SyncFeedProofs`). The steps of pushes and of pulls are each other's environment:
what a pull needs of a push is that rows are added to the log and never changed.

- `FeedTypeSafety`, `WithinLimitSafety`, `NoDuplicatesSafety`, `CursorSafety`, from `PullInv`:
  what a client has received, and what its pull has collected, lies at or before its
  cursor; a page is cut by counting, so a lemma (`PrecedingGrows` and those after it)
  relates the place of a row in a page to the number of rows before it.
- `NothingSkippedSafety` and `CaughtUpSafety` have two hypotheses about the behaviour, not
  about constants: `Serial`, at most one handler is in a transaction, and `Roomy`, pages
  of one row or every client may read every scope. The first is what
  `feed_late_commit` shows to be needed, the second what `feed_overflow` shows.
  Without them the property is false. `SerialInv`: an open transaction writes behind
  everything in the log; `Accounted`: each row of the log up to the cursor was delivered
  or was not readable when the pull came by. The instance of `feed_serial` satisfies
  both hypotheses.

**Hub** (`HubProofs`): `TypeSafety`, by which a registered connection has an open channel, and `NoPanicSafety`. What a broadcast has still to visit is
registered, because it holds the read lock (`Visits`), and what is registered is open,
because a connection is registered once (`OpenWhileListed`).

**Attendance** (`AttendanceProofs`)

- `TypeSafety`. `TypeInv` adds to the types who holds which lock and that what a handler
  loaded is still what it would read: rows are locked before they are read.
- `RecordsFollowSafety`. `RecordsInv`: whoever has written a record holds the lock of its
  session, and a transaction that sees a record of an inactive session deletes that
  session, or has written no active record of it (`Follows`). A push cannot bring a record or its session back
  while a request holds the lock; what it wrote before is orphaned already.
- `MessagesFollowSafety`. `MessagesInv`: a message that a transaction sees outlive its session is
  excused (`Excused`): the session was not active, a push wrote the message, the rest of the deletion is to
  come, or a message that the transaction has locked names somebody whom a push has
  deleted (`Stuck`). Pushes may restore them; the lock keeps the message, and `pushed` remembers.
- `OneSessionSafety`. `CreateInv`: a request that creates a session holds its club from the
  check to the insert, and no other transaction then has a session that is new in the
  club (`CreateOK`). Two such requests of one club therefore take turns.
- `GoesSafety`, the part of `NeverStuck` that needs no ENABLED, for any finite number of
  handlers: while one is busy, a busy one waits for no lock, or some wait for each other
  in a cycle, of which PostgreSQL ends one (`SomebodyGoes`). Who is waited for is busy
  (`WaitsForBusy`, from `TypeInv`), and a smallest set of requests that wait for members of
  the set is a cycle (`CycleExists`).
- `FieldsSafety`, `ReopenSafety`, `RefusedSafety`. `WritesInv` says the same of the rows a
  transaction has written as the three properties say of its commit.

**Accounts** (`AccountsProofs`). No locks: what a handler relies on must be stable under
every step of the others. `Kept` lists what never changes in a row, and each
statement of another request is shown to keep it.

- `TypeSafety`, `OneMembershipSafety` (the unique index refuses the second insert),
  `UsedGivesMembershipSafety` (accepting makes the membership first), `UsedStaysUsed`,
  `AdminsRemain`, and `UsesOverlapSafety`, which counts: the uses of an invite and the
  requests that may still use it are no more than there are handlers (`UsesInv`).

**Media** (`StudentMediaProofs`)

- `TypeSafety`, with at most one primary picture of a student (`OnePrimary`).
- `LiveObjectsSafety`. `ObjectsInv`: a new picture's id belongs to one handler until its row is
  inserted, its objects stay until then, and only deleted rows are unlinked.
- `StagedSafety`. `StagedInv`: a handler is only at `mark_imported` or `unstage` when the
  picture exists.
- `NoLeftoversSafety`. `LeftoverInv`: while no call has failed every object has an owner, a
  live row or the one handler that is about to write or to remove it (`Owned`).

**Imports** (`ImportsProofs`). Six invariants, the first four each on top of the one before:

- `TypeSafety`, with one holder of each unique key among the committed rows, and one active
  schedule row of a student and weekday. `TypeInv`: what
  a handler's control state says of its request, its record and its key. `KeyInv`: whoever
  has written a row holds the row's lock, the entry of its key and the entry of the key it
  replaces (`LocksOf`, `KeysOf`), and what it sees, its own writes included, has each key
  once. Since the entry of an indexed row is locked only by who has written that row, a
  write that replaces a key takes the old entry without waiting and never steals it.
- `CollisionsSafety`. `LookInv`: between the lookup and the write, the active rows that hold
  the key at hand are among `news`. What the index then refuses is one of them, a deleted
  student, or a row that got its code from the counter, where no lookup is made.
- `ReportSafety`. `FreshInv`: an id generated for a row of a file belongs to that request and
  that row, so a new student never meets a stored one. `ReportInv`: each row counted as
  imported is one the parser kept and stands, or a later row of the file overwrote it, and
  the students written but not announced are no more than the rows refused, not counting
  the one whose schedule is next. That `Parsed`, a recursive function, has a value
  is shown by a smallest counterexample (`KeptExists`), without the induction theorems.
  `SlotInv`: an import holds the locks of the schedule rows it has written and read, which
  are of students it has written, and what it sees agrees with the index on active rows. `DaysInv`: between the
  read and the write a row of the student is in the map or among `hidden` and `since`; the
  days of a student counted as imported stay in the import's table until a later row of the file
  overwrites the student.

Each invariant was first checked by TLC on the instance of its run. What the proofs
found that the runs had not:

- the first forms of `OneSessionPerDay` (an invariant on committed rows) and of
  `MessagesFollowSession` (the message itself is refused) held on the instance of the
  run and are false on larger ones: with an uncommitted `create_session`, and with
  two messages of one session. Both now state what is true, see section 4;
- the step after `LockSession` was a CASE whose cases overlapped, so that TLA+ left its
  value open; it is `AfterSession` now;
- `ReportIsTrue` counted every row reported as an error among the refused ones, those the
  parser dropped too, which bounded the students stored without an announcement by too
  much; it counts the rows the parser kept;
- several modules did not say what requests hold, and some not even that
  there are any.

Model-checked only: the liveness properties `RequestsEnd`, `CatchesUp`, `BroadcastsEnd`,
`ServedOrGone`, `NoLeak` (fairness is beyond the prover), and `NeverStuck`, which uses ENABLED:
that a statement whose locks are free can be executed is left to TLC, the rest is `GoesSafety`.
Every other property of a passing run is a theorem.

## 6. Plan

Every component that changes state has its module, and every safety property its proof. What
could follow: `Attendance` as an implementation of whole transactions, in the way of
`ChangeLedger`, and hazards listed without a property, each with the reason in its note.

## 7. Not modelled

- `Rebase` reads ten tables one after the other and changes nothing. What the missing
  snapshot does shows in the client that replaces its copy and goes on from the
  returned time; the client is not in this repository.
- The audit log (written, and never read by an operation that writes), and all
  read-only operations: lists, previews, profiles, presigned URLs, the import template.
- What depends on one payload alone: worksheet parsing beyond which rows are dropped,
  field validation, image decoding beyond whether it works, slugs and initials beyond
  whether two names meet, password hashing and token signatures.
- The `KEY SHARE` locks that foreign keys take on the rows a write refers to, in `SyncPush` and
  `Imports`: the only statements they could hold up are writes of those rows, so the models
  have more interleavings than PostgreSQL allows. In `Attendance`, where a lock of the club
  row keeps two creations apart, the share of a new session is modelled.
- In `Attendance` and `Imports` a push of rows that only form the environment is a step at its commit. The
  window between its check and its write is that of `SyncPush`. `Imports` has the pushes that
  delete clubs and belt ranks, not those that create, rename or restore them.
- `References` makes one step of several lookups, `SetPrimary` one of two UPDATEs of one
  transaction, `ReadSchedule` and `ReplaceSchedule` one each of the read and of the writes of
  `ReplaceStudentSchedule`, in whatever order the file names the days. The schedule profile is not kept.
- Instants finer than a microsecond, and messages that no session belongs to.
- HTTP handlers and middleware (decode, call, encode), the generated query package and
  its adapters, the MinIO client beyond three calls, configuration, and migrations of
  older databases.
