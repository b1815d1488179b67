------------------------------ MODULE SyncPush ------------------------------
(***************************************************************************)
(* POST /sync/push and the single-record actions of                        *)
(* POST /sync/attendance-actions: concurrent request handlers, each of     *)
(* which runs ONE database transaction (PostgreSQL, READ COMMITTED) over   *)
(* the record tables, the change log and the table of processed mutations. *)
(*                                                                         *)
(* A handler goes through its request mutation by mutation.  For each it   *)
(*   - looks the mutation up among the processed ones  (pc "check"),       *)
(*   - reads the record FOR UPDATE                     (pc "lock"),        *)
(*   - authorizes, compares timestamps, canonicalizes  (pc "decide"),      *)
(*   - upserts the record, appends to the change log and saves the         *)
(*     mutation as processed                           (pc "write"),       *)
(* then commits and broadcasts (pc "committed").  Each of these is a       *)
(* database statement of its own, so other handlers run in between.        *)
(*                                                                         *)
(* All ten entities share this shape; they differ in which records a       *)
(* mutation refers to (refs), in the key that is unique among records of   *)
(* the entity (key), and in whether the code looks for another holder of   *)
(* the key before it writes (lookup): attributes of a mutation here.       *)
(***************************************************************************)
EXTENDS FiniteSets, Timestamps

CONSTANTS Sessions,     \* request handlers that may run at the same time
          Records,      \* record ids
          Keys,         \* values of the unique keys
          FullKeys,     \* keys whose index covers deleted rows as well
          NoKey,        \* the key of an entity without a unique index
          NoRow,        \* "no such row"
          Nobody,       \* "not locked"
          Requests,     \* the requests clients send, and send again
          Granted,      \* <<device, scope>>: the device's user may write there
          PoolSize,     \* connections in the database pool
          MaxClock,     \* bound: ticks of the server's clock
          MaxRequests   \* bound: requests received, retries included

VARIABLES clock,      \* the server's clock
          row,        \* the record tables, as committed
          log,        \* sync_change_log, as committed
          processed,  \* sync_processed_mutations, as committed
          nextId,     \* the BIGSERIAL sequence behind change_id
          lock,       \* row and index-entry locks of the open transactions
          announced,  \* change ids that hub.BroadcastChange was called for
          received,   \* number of requests received so far
          pc, req, pos, now, seen,  \* a handler's control state and locals
          wrote,      \* rows written by the handler's open transaction
          pending     \* change-log rows written by the open transaction

dbVars == <<row, log, processed>>
txVars == <<pos, now, seen, wrote, pending>>
vars == <<clock, row, log, processed, nextId, lock, announced, received,
          pc, req, pos, now, seen, wrote, pending>>

-----------------------------------------------------------------------------
(* Mutations, rows and change-log entries.                                 *)

Mutations == UNION { {q.muts[i] : i \in 1 .. Len(q.muts)} : q \in Requests }
MutationIds == {m.id : m \in Mutations}
Devices == {q.device : q \in Requests}
Scopes == {m.scope : m \in Mutations}
Apis == {"sync", "attendance"}

Rows == [val : MutationIds, ver : Nat, key : Keys \cup {NoKey}, deleted : BOOLEAN]

Entries == [id : Nat, ts : Nat, rec : Records, row : Rows, base : Rows \cup {NoRow},
            device : Devices, mid : MutationIds, at : Nat, text : Texts,
            scope : Scopes, api : Apis]

ASSUME PushAssumption ==
    /\ Requests # {}
    /\ PoolSize \in Nat
    /\ NoRow \notin Rows
    /\ Nobody \notin Sessions
    /\ NoKey \notin Keys
    /\ Records \cap Keys = {}
    /\ FullKeys \subseteq Keys
    /\ \A q \in Requests :
          /\ q.api \in Apis
          /\ q.muts \in Seq([id : MutationIds, rec : Records, op : {"upsert", "delete"},
                             at : Nat, text : Texts, scope : Scopes,
                             refs : SUBSET Records, key : Keys \cup {NoKey},
                             lookup : BOOLEAN, gone : BOOLEAN])

Active(r) == r # NoRow /\ ~r.deleted

(* A row the unique index of its key has an entry for: the index of the    *)
(* student codes and that of the schedule profiles cover deleted rows.     *)
Indexed(r) == Active(r) \/ (r # NoRow /\ r.key \in FullKeys)

(* ORDER BY server_modified_at ASC, change_id ASC *)
Before(e, f) == e.ts < f.ts \/ (e.ts = f.ts /\ e.id < f.id)

-----------------------------------------------------------------------------
(* What a handler works on.                                                *)

Mut(s) == req[s].muts[pos[s]]
Done(s) == pos[s] > Len(req[s].muts)

(* A transaction sees its own writes over what is committed. *)
View(s, r) == IF wrote[s][r] # NoRow THEN wrote[s][r] ELSE row[r]

ProcessedUnsaved(s) == processed
ProcessedView(s) == processed \cup {<<e.device, e.mid>> : e \in pending[s]}

Authorized(s) == <<req[s].device, Mut(s).scope>> \in Granted

(* existing.LastModifiedAt > mutation.ClientModifiedAt, on the texts. *)
StaleNever(s) == FALSE
StaleUnlessDeleted(s) ==
    /\ seen[s] # NoRow
    /\ ~seen[s].deleted
    /\ TextAfter(ServerText(seen[s].ver), Mut(s).text)
Stale(s) ==
    /\ req[s].api = "sync"
    /\ seen[s] # NoRow
    /\ TextAfter(ServerText(seen[s].ver), Mut(s).text)

(* The row canonicalizeMutation produces.  A pushed record replaces the    *)
(* stored one; an upsert keeps the deletedAt of its payload.  An           *)
(* attendance action changes one field of the row it has loaded.           *)
Canonical(s) ==
    IF req[s].api = "sync"
    THEN [val |-> Mut(s).id, ver |-> now[s], key |-> Mut(s).key,
          deleted |-> Mut(s).op = "delete" \/ Mut(s).gone]
    ELSE [val |-> Mut(s).id, ver |-> now[s], key |-> seen[s].key,
          deleted |-> seen[s].deleted]

(* RecordExists on every record the mutation refers to. *)
RefsExist(s) == \A r \in Mut(s).refs : Active(View(s, r))

(* FindClubGroupByName, FindStudentByCode, ...: another active record has  *)
(* the key.                                                                *)
KeyTaken(s, k) ==
    /\ k # NoKey
    /\ \E r \in Records \ {Mut(s).rec} : Active(View(s, r)) /\ View(s, r).key = k

(* An attendance action works on a row that exists. *)
TargetMissing(s) == req[s].api = "attendance" /\ seen[s] = NoRow

(* Nobody looks for another holder of a club's code, of a student's        *)
(* schedule profile, or when an attendance record is deleted.              *)
Duplicate(s) == ~TargetMissing(s) /\ Mut(s).lookup /\ KeyTaken(s, Canonical(s).key)

(* The row an upsert replaces and the index entries it touches are locked  *)
(* until the end of the transaction.                                       *)
IndexKeys(r) == IF Indexed(r) THEN {r.key} \ {NoKey} ELSE {}
WriteLocks(s) ==
    {Mut(s).rec} \cup IndexKeys(View(s, Mut(s).rec)) \cup IndexKeys(Canonical(s))

Free(s, x) == lock[x] \in {Nobody, s}

(* The end of the transactions of handlers S releases their locks. *)
UnlockedNot(S) == lock
Unlocked(S) == [x \in Records \cup Keys |-> IF lock[x] \in S THEN Nobody ELSE lock[x]]

InTransaction == {s \in Sessions : pc[s] \in {"check", "lock", "decide", "write"}}

(* An open transaction keeps a connection of the pool; everything else     *)
(* waits for one without a time limit.                                     *)
ConnFree == Cardinality(InTransaction) < PoolSize

(* GetClubPermissions queries through the pool, not through the handler's  *)
(* transaction.  Push asks after it has read the record, an attendance     *)
(* action before.                                                          *)
CanAuthorize(s) ==
    pc[s] = (IF req[s].api = "sync" THEN "decide" ELSE "lock") => ConnFree

(* The locals of a handler that is not running mean nothing. *)
AnyRequest == CHOOSE q \in Requests : TRUE

-----------------------------------------------------------------------------
Init ==
    /\ clock = 0
    /\ row = [r \in Records |-> NoRow]
    /\ log = {}
    /\ processed = {}
    /\ nextId = 1
    /\ lock = [x \in Records \cup Keys |-> Nobody]
    /\ announced = {}
    /\ received = 0
    /\ pc = [s \in Sessions |-> "idle"]
    /\ req = [s \in Sessions |-> AnyRequest]
    /\ pos = [s \in Sessions |-> 1]
    /\ now = [s \in Sessions |-> 0]
    /\ seen = [s \in Sessions |-> NoRow]
    /\ wrote = [s \in Sessions |-> [r \in Records |-> NoRow]]
    /\ pending = [s \in Sessions |-> {}]

Tick ==
    /\ clock < MaxClock
    /\ clock' = clock + 1
    /\ UNCHANGED <<dbVars, nextId, lock, announced, received, pc, req, txVars>>

(* A request arrives: Begin, then now := time.Now() once for the whole     *)
(* transaction.  The same request may arrive again, while it is being      *)
(* handled or later: a client that got no response sends it again.         *)
Begin(s, q) ==
    /\ pc[s] = "idle"
    /\ ConnFree
    /\ received < MaxRequests
    /\ received' = received + 1
    /\ pc' = [pc EXCEPT ![s] = "check"]
    /\ req' = [req EXCEPT ![s] = q]
    /\ pos' = [pos EXCEPT ![s] = 1]
    /\ now' = [now EXCEPT ![s] = clock]
    /\ UNCHANGED <<clock, dbVars, nextId, lock, announced, seen, wrote, pending>>

(* IsMutationProcessed says yes: the mutation is passed over in silence.   *)
SkipProcessed(s) ==
    /\ pc[s] = "check"
    /\ ~Done(s)
    /\ <<req[s].device, Mut(s).id>> \in ProcessedView(s)
    /\ pos' = [pos EXCEPT ![s] = @ + 1]
    /\ UNCHANGED <<clock, dbVars, nextId, lock, announced, received, pc, req,
                   now, seen, wrote, pending>>

NotProcessed(s) ==
    /\ pc[s] = "check"
    /\ ~Done(s)
    /\ <<req[s].device, Mut(s).id>> \notin ProcessedView(s)
    /\ pc' = [pc EXCEPT ![s] = "lock"]
    /\ UNCHANGED <<clock, dbVars, nextId, lock, announced, received, req, txVars>>

(* GetRecordForUpdate: SELECT ... FOR UPDATE waits for the row's lock and  *)
(* returns the version that is current then; it locks nothing and returns  *)
(* nil at once when the row does not exist, even while another             *)
(* transaction is inserting it.                                            *)
ForUpdateNot(s, r) == UNCHANGED lock
ForUpdate(s, r) ==
    IF View(s, r) = NoRow
    THEN UNCHANGED lock
    ELSE /\ Free(s, r)
         /\ lock' = [lock EXCEPT ![r] = s]

LockRow(s) ==
    /\ pc[s] = "lock"
    /\ CanAuthorize(s)
    /\ req[s].api = "attendance" => Authorized(s)
    /\ ForUpdate(s, Mut(s).rec)
    /\ seen' = [seen EXCEPT ![s] = View(s, Mut(s).rec)]
    /\ pc' = [pc EXCEPT ![s] = "decide"]
    /\ UNCHANGED <<clock, dbVars, nextId, announced, received, req, pos, now,
                   wrote, pending>>

(* The mutation is refused: it is reported to the client, nothing is       *)
(* written and nothing is remembered about it, and the handler goes on     *)
(* with the next one, keeping its locks.  Attendance actions are           *)
(* authorized before their record is read, and need an existing record.    *)
Refused(s) ==
    \/ ~Authorized(s)
    \/ Stale(s)
    \/ TargetMissing(s)
    \/ ~RefsExist(s)
    \/ Duplicate(s)

Conflict(s) ==
    /\ \/ pc[s] = "decide" /\ Refused(s)
       \/ pc[s] = "lock" /\ req[s].api = "attendance" /\ ~Authorized(s)
    /\ CanAuthorize(s)
    /\ pc' = [pc EXCEPT ![s] = "check"]
    /\ pos' = [pos EXCEPT ![s] = @ + 1]
    /\ seen' = [seen EXCEPT ![s] = NoRow]
    /\ UNCHANGED <<clock, dbVars, nextId, lock, announced, received, req, now,
                   wrote, pending>>

Accept(s) ==
    /\ pc[s] = "decide"
    /\ CanAuthorize(s)
    /\ ~Refused(s)
    /\ pc' = [pc EXCEPT ![s] = "write"]
    /\ UNCHANGED <<clock, dbVars, nextId, lock, announced, received, req, txVars>>

NewEntry(s) ==
    [id |-> nextId, ts |-> now[s], rec |-> Mut(s).rec, row |-> Canonical(s),
     base |-> seen[s], device |-> req[s].device, mid |-> Mut(s).id,
     at |-> Mut(s).at, text |-> Mut(s).text, scope |-> Mut(s).scope,
     api |-> req[s].api]

(* The unique index refuses a second row with the same key among those it  *)
(* covers.                                                                 *)
IndexMissing(s) == FALSE
IndexViolated(s) ==
    /\ Indexed(Canonical(s))
    /\ Canonical(s).key # NoKey
    /\ \E r \in Records \ {Mut(s).rec} :
          Indexed(View(s, r)) /\ View(s, r).key = Canonical(s).key

(* UpsertRecord (INSERT ... ON CONFLICT (id) DO UPDATE, then               *)
(* insertChangeLog) and SaveProcessedMutation.  The insert waits for a     *)
(* transaction that is writing the same id or the same key.                *)
Write(s) ==
    /\ pc[s] = "write"
    /\ \A x \in WriteLocks(s) : Free(s, x)
    /\ ~IndexViolated(s)
    /\ lock' = [x \in Records \cup Keys |-> IF x \in WriteLocks(s) THEN s ELSE lock[x]]
    /\ wrote' = [wrote EXCEPT ![s][Mut(s).rec] = Canonical(s)]
    /\ pending' = [pending EXCEPT ![s] = @ \cup {NewEntry(s)}]
    /\ nextId' = nextId + 1
    /\ pc' = [pc EXCEPT ![s] = "check"]
    /\ pos' = [pos EXCEPT ![s] = @ + 1]
    /\ seen' = [seen EXCEPT ![s] = NoRow]
    /\ UNCHANGED <<clock, dbVars, announced, received, req, now>>

(* tx.Commit: everything the transaction wrote becomes visible at once.    *)
Commit(s) ==
    /\ pc[s] = "check"
    /\ Done(s)
    /\ row' = [r \in Records |-> View(s, r)]
    /\ log' = log \cup pending[s]
    /\ processed' = ProcessedView(s)
    /\ lock' = Unlocked({s})
    /\ wrote' = [wrote EXCEPT ![s] = [r \in Records |-> NoRow]]
    /\ pc' = [pc EXCEPT ![s] = "committed"]
    /\ UNCHANGED <<clock, nextId, announced, received, req, pos, now, seen, pending>>

(* hub.BroadcastChange, when anything was changed; then the response.      *)
BroadcastEarly(s) ==
    /\ pc[s] = "check"
    /\ Done(s)
    /\ announced' = announced \cup {e.id : e \in pending[s]}
    /\ UNCHANGED <<clock, dbVars, nextId, lock, received, pc, req, txVars>>
Broadcast(s) ==
    /\ pc[s] = "committed"
    /\ announced' = announced \cup {e.id : e \in pending[s]}
    /\ pending' = [pending EXCEPT ![s] = {}]
    /\ pc' = [pc EXCEPT ![s] = "idle"]
    /\ req' = [req EXCEPT ![s] = AnyRequest]
    /\ pos' = [pos EXCEPT ![s] = 1]
    /\ now' = [now EXCEPT ![s] = 0]
    /\ UNCHANGED <<clock, dbVars, nextId, lock, received, seen, wrote>>

-----------------------------------------------------------------------------
(* Failure.  Whatever ends a transaction early, the deferred Rollback      *)
(* undoes all of its writes and releases its locks; the ids it took from   *)
(* the sequence are not given back.                                        *)
Rollback(S) ==
    /\ lock' = Unlocked(S)
    /\ pc' = [s \in Sessions |-> IF s \in S THEN "idle" ELSE pc[s]]
    /\ req' = [s \in Sessions |-> IF s \in S THEN AnyRequest ELSE req[s]]
    /\ pos' = [s \in Sessions |-> IF s \in S THEN 1 ELSE pos[s]]
    /\ now' = [s \in Sessions |-> IF s \in S THEN 0 ELSE now[s]]
    /\ seen' = [s \in Sessions |-> IF s \in S THEN NoRow ELSE seen[s]]
    /\ wrote' = [s \in Sessions |-> IF s \in S THEN [r \in Records |-> NoRow] ELSE wrote[s]]
    /\ pending' = [s \in Sessions |-> IF s \in S THEN {} ELSE pending[s]]
    /\ UNCHANGED <<clock, dbVars, nextId, announced, received>>

(* An error return: invalid input, a lost connection, a cancelled request. *)
Fail(s) == s \in InTransaction /\ Rollback({s})

(* The unique index raises an error, which ends the whole push.            *)
UniqueViolation(s) ==
    /\ pc[s] = "write"
    /\ \A x \in WriteLocks(s) : Free(s, x)
    /\ IndexViolated(s)
    /\ Rollback({s})

(* Who holds what s is waiting for. *)
WaitsFor(s) ==
    LET wanted == CASE pc[s] = "lock" /\ View(s, Mut(s).rec) # NoRow -> {Mut(s).rec}
                    [] pc[s] = "write" -> WriteLocks(s)
                    [] OTHER -> {}
    IN {lock[x] : x \in wanted} \ {Nobody, s}

(* PostgreSQL aborts one transaction of a cycle of waiting ones. *)
DeadlockVictim(s) ==
    /\ \E S \in SUBSET Sessions :
          /\ s \in S
          /\ \A t \in S : WaitsFor(t) \cap S # {}
          /\ \A t \in S : \E u \in S : t \in WaitsFor(u)
    /\ Rollback({s})

(* The server process stops; after the restart no handler is running. *)
Crash == \E s \in Sessions : pc[s] # "idle" /\ Rollback(Sessions)

-----------------------------------------------------------------------------
Step(s) ==
    \/ SkipProcessed(s) \/ NotProcessed(s) \/ LockRow(s) \/ Conflict(s)
    \/ Accept(s) \/ Write(s) \/ Commit(s) \/ Broadcast(s)
    \/ UniqueViolation(s) \/ DeadlockVictim(s)

Next ==
    \/ Tick
    \/ \E s \in Sessions, q \in Requests : Begin(s, q)
    \/ \E s \in Sessions : Step(s)
    \/ \E s \in Sessions : Fail(s)
    \/ Crash

Spec == Init /\ [][Next]_vars

(* A handler that can go on does; requests, failures and the clock are     *)
(* nobody's duty.                                                          *)
FairSpec == Spec /\ \A s \in Sessions : WF_vars(Step(s))

-----------------------------------------------------------------------------
(* Properties.                                                             *)

Typed ==
    /\ clock \in Nat
    /\ row \in [Records -> Rows \cup {NoRow}]
    /\ log \subseteq Entries
    /\ processed \subseteq Devices \X MutationIds
    /\ nextId \in Nat \ {0}
    /\ lock \in [Records \cup Keys -> Sessions \cup {Nobody}]
    /\ announced \subseteq Nat
    /\ received \in Nat
    /\ pc \in [Sessions -> {"idle", "check", "lock", "decide", "write", "committed"}]
    /\ req \in [Sessions -> Requests]
    /\ pos \in [Sessions -> Nat \ {0}]
    /\ now \in [Sessions -> Nat]
    /\ seen \in [Sessions -> Rows \cup {NoRow}]
    /\ wrote \in [Sessions -> [Records -> Rows \cup {NoRow}]]
    /\ pending \in [Sessions -> SUBSET Entries]

NoStrayLocks ==
    \A s \in Sessions \ InTransaction : \A x \in Records \cup Keys : lock[x] # s

(* The type invariant, with the rule that locks belong to transactions: a  *)
(* handler that has none under way, because it has committed, was rolled   *)
(* back or never began, holds no lock.                                     *)
TypeOK == Typed /\ NoStrayLocks

(* The row a handler compared timestamps against is still the row its      *)
(* upsert replaces: between GetRecordForUpdate and UpsertRecord no other   *)
(* transaction changes it (the row lock is held until the end).            *)
CheckedRowIsCurrent ==
    \A s \in Sessions :
        pc[s] \in {"decide", "write"} /\ seen[s] # NoRow
            => View(s, Mut(s).rec) = seen[s]

History(r) == {e \in log : e.rec = r}

(* Two transactions inserted the record, neither having seen the other's.  *)
RacedInsert(r) ==
    \E e, f \in History(r) : e # f /\ e.base = NoRow /\ f.base = NoRow

(* Everything written to the record came through Push, from edits whose    *)
(* text shows an earlier second than the one their push began in (in UTC,  *)
(* as the server's clock does).  That leaves out edits pushed within the   *)
(* same second and edits of a zone ahead of UTC, unless they are pushed    *)
(* later than what their text shows.                                       *)
OrderlyEdits(r) ==
    \A e \in History(r) : e.api = "sync" /\ Shown(e.text) < Sec(e.ts)

IsLast(e, r) == e \in History(r) /\ \A f \in History(r) : f = e \/ Before(f, e)

(* A client that applies the change log in the order Pull delivers it      *)
(* ends with the row the tables hold: for each record the last change-log  *)
(* row, by server_modified_at and change_id, is the canonical one.  Both   *)
(* are stamped with the START of the transaction, so this rests on the     *)
(* staleness check and the row lock, not on the order of the commits.      *)
FeedConverges ==
    \A r \in Records :
        OrderlyEdits(r) /\ ~RacedInsert(r)
            => \A e \in History(r) : IsLast(e, r) => row[r] = e.row

(* A mutation that a client sends again is applied once, whether the       *)
(* retry arrives after the first attempt or while it is running: either    *)
(* the processed table or the staleness check stops the second.            *)
AppliedOnce ==
    \A e, f \in log :
        /\ e.device = f.device /\ e.mid = f.mid
        /\ OrderlyEdits(e.rec) /\ ~RacedInsert(e.rec)
        => e = f

(* No two active rows have the same unique key, although handlers look     *)
(* for duplicates without a lock.                                          *)
UniqueActiveKeys ==
    \A r, t \in Records :
        r # t /\ Active(row[r]) /\ Active(row[t]) /\ row[r].key # NoKey
            => row[r].key # row[t].key

(* sync.changed is only sent for changes that a pull can already see.      *)
AnnouncedAreCommitted == announced \subseteq {e.id : e \in log}

(* What clients rely on when they pull "to get canonical data": as         *)
(* FeedConverges, for records written through either API.                  *)
PullYieldsCanonical ==
    \A r \in Records :
        (\A e \in History(r) : Shown(e.text) < Sec(e.ts)) /\ ~RacedInsert(r)
            => \A e \in History(r) : IsLast(e, r) => row[r] = e.row

(* Push never replaces a server record that is newer than the mutation.    *)
NeverOverwritesNewer ==
    \A e \in log : e.api = "sync" /\ e.base # NoRow => e.base.ver <= e.at

(* Every request ends: the handlers never wait for each other for ever.    *)
RequestsEnd == \A s \in Sessions : pc[s] # "idle" ~> pc[s] = "idle"

(* The promise to the rest of the system: however requests overlap, fail   *)
(* or are repeated, the tables, the change log and the processed mutations *)
(* change together, one whole transaction at a time, and every row written *)
(* replaces the row its writer had read.                                   *)
Ledger == INSTANCE ChangeLedger WITH Records <- Records, NoRow <- NoRow,
                                    row <- row, log <- log, processed <- processed

ImplementsLedger == Ledger!Spec
=============================================================================
