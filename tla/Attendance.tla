----------------------------- MODULE Attendance -----------------------------
(***************************************************************************)
(* The attendance writes that touch several rows: the seven actions of     *)
(* POST /sync/attendance-actions, the creation of a session by the         *)
(* server (POST /attendance/sessions) and the backfill of messages at      *)
(* every start.                                                            *)
(*                                                                         *)
(* As in SyncPush a handler runs one READ COMMITTED transaction, and each  *)
(* of its statements is a step.  Here a request is a sequence of actions,  *)
(* and an action that is refused half way is NOT rolled back: the handler  *)
(* reports it, goes on with the next one and commits what was written.     *)
(* The broadcast after the commit is that of SyncPush.                     *)
(*                                                                         *)
(* POST /sync/push writes the same tables, row by row.  Its transactions   *)
(* are the subject of SyncPush; here they are the environment, seen at     *)
(* their commit, and a write is held back only by what the database        *)
(* enforces.                                                               *)
(***************************************************************************)
EXTENDS Naturals, Sequences, FiniteSets

CONSTANTS Handlers,      \* requests that are handled at the same time
          ClientSessions, \* session ids that clients choose
          NewSessions,   \* session ids that the server generates
          RecordIds,     \* attendance record ids, <<session, student>> for the server's
          ClientMessages, \* ids of the messages that users write
          Students, Clubs,
          ClubOf,        \* the club of a student
          ClubDays,      \* weekdays of a club's active schedule
          CustomDays,    \* weekdays of a student with a custom schedule
          Inherit,       \* the student's schedule is the club's
          Requests,      \* requests that clients send, and send again
          Pushes,        \* rows that pushes write: records of an id and its new row
          Permitted,     \* clubs whose attendance the users may write
          NoRow, Nobody,
          Fragile,       \* bound: clubs and students that pushes deactivate, delete
          MaxGone,       \*        and restore, and how many are not active at a time
          MaxDay,        \* bound: days that pass
          MaxRequests    \* bound: requests and pushed rows received, retries included

VARIABLES today,         \* the date of the server's clock
          standing,      \* clubs and students: "active", "inactive" or "deleted"
          pushed,        \* history: clubs and students that pushes ever deleted,
                         \*          messages that pushes wrote without deleting them
          row,           \* sessions, records and messages, as committed
          processed,     \* sync_processed_mutations, as committed
          lock,          \* row locks of the open transactions
          received,      \* number of requests received
          pc, req, pos, day, seen,  \* a handler's control state and locals
          wrote,         \* rows written by the handler's open transaction
          saved          \* mutations its open transaction saved as processed

txVars == <<pos, day, seen, wrote, saved>>
vars == <<today, standing, pushed, row, processed, lock, received, pc, req, pos, day,
          seen, wrote, saved>>

-----------------------------------------------------------------------------
SessionIds == ClientSessions \cup NewSessions
Note(r) == <<"attendance-note", r>>
MessageIds == {Note(r) : r \in RecordIds} \cup ClientMessages
Ids == SessionIds \cup RecordIds \cup MessageIds

Days == 0 .. MaxDay
SessionStatuses == {"draft", "completed"}
RecordStatuses == {"unmarked", "present"}
SessionRows == [club : Clubs, date : Days, status : SessionStatuses, note : BOOLEAN,
                deleted : BOOLEAN]
RecordRows == [session : SessionIds, student : Students, status : RecordStatuses,
               note : BOOLEAN, deleted : BOOLEAN]
MessageRows == [session : SessionIds, student : Students, club : Clubs, deleted : BOOLEAN]
Rows == SessionRows \cup RecordRows \cup MessageRows

RecordActions == {"set_record_status", "set_record_note"}
SessionActions == {"set_session_status", "set_session_note", "mark_all_present",
                   "delete_session", "create_session"}

(* What a request may hold: an action names ids of the right tables, and   *)
(* its value is one its type allows.                                       *)
ActionOK(a) ==
    /\ a.type \in RecordActions \cup SessionActions
    /\ a.club \in Clubs /\ a.session \in SessionIds /\ a.date \in Days
    /\ a.rec \in RecordIds /\ a.student \in Students /\ a.targets \subseteq RecordIds
    /\ a.type = "set_session_status" => a.value \in SessionStatuses
    /\ a.type = "set_record_status" => a.value \in RecordStatuses
    /\ a.type \in {"set_session_note", "set_record_note"} => a.value \in BOOLEAN
    /\ a.status \in SessionStatuses /\ a.note \in BOOLEAN /\ a.deleted \in BOOLEAN
    /\ \A p \in a.records : /\ p.rec \in RecordIds /\ p.session \in SessionIds
                            /\ p.student \in Students /\ p.status \in RecordStatuses
                            /\ p.note \in BOOLEAN /\ p.deleted \in BOOLEAN

RequestOK(q) ==
    \/ q.kind = "create" /\ q.club \in Clubs /\ q.date \in Days
    \/ /\ q.kind = "actions" /\ Len(q.actions) \in Nat
       /\ \A i \in 1 .. Len(q.actions) : ActionOK(q.actions[i])

PushOK(p) ==
    \/ p.id \in SessionIds /\ p.row \in SessionRows
    \/ p.id \in RecordIds /\ p.row \in RecordRows
    \/ p.id \in MessageIds /\ p.row \in MessageRows

ASSUME AttendanceAssumption ==
    /\ NewSessions \X Students \subseteq RecordIds
    /\ SessionIds \cap RecordIds = {} /\ SessionIds \cap MessageIds = {}
    /\ RecordIds \cap MessageIds = {} /\ Clubs \cap Ids = {}
    /\ ClientMessages \cap {Note(r) : r \in RecordIds} = {}
    /\ NoRow \notin Rows
    /\ Nobody \notin Handlers
    /\ Fragile \subseteq Clubs \cup Students
    /\ MaxDay \in Nat
    /\ Requests # {} /\ \A q \in Requests : RequestOK(q)
    /\ \A p \in Pushes : PushOK(p)

Active(x) == x # NoRow /\ ~x.deleted
Standing(x) == standing[x] # "deleted"   \* RecordExists on a club or a student

-----------------------------------------------------------------------------
(* What a handler works on.                                                *)
Act(h) == req[h].actions[pos[h]]
Done(h) == IF req[h].kind = "create" THEN TRUE ELSE pos[h] > Len(req[h].actions)
Target(h) == IF Act(h).type \in RecordActions THEN Act(h).rec ELSE Act(h).session

View(h, x) == IF wrote[h][x] # NoRow THEN wrote[h][x] ELSE row[x]
ActiveIn(h, x) == Active(View(h, x))

RecordsOf(h, x) ==
    {r \in RecordIds : View(h, r) # NoRow /\ View(h, r).session = x}
MessagesOfActive(h, x) ==
    {Note(r) : r \in {o \in RecordIds : ActiveIn(h, o) /\ ActiveIn(h, Note(o))
                                       /\ View(h, o).session = x}}
MessagesOf(h, x) ==
    {m \in MessageIds : ActiveIn(h, m) /\ View(h, m).session = x}

Free(h, x) == lock[x] \in {Nobody, h}
Locked(h, X) == [x \in DOMAIN lock |-> IF x \in X THEN h ELSE lock[x]]
UnlockedNot(H) == lock
Unlocked(H) == [x \in DOMAIN lock |-> IF lock[x] \in H THEN Nobody ELSE lock[x]]

Overlay(h, f) == [wrote EXCEPT ![h] = [x \in Ids |-> IF x \in DOMAIN f THEN f[x] ELSE @[x]]]

(* An action is refused: it is reported to the client and what it has      *)
(* written stays; or it is passed over, having been processed before.      *)
MoveOn(h) ==
    /\ pc' = [pc EXCEPT ![h] = "next"]
    /\ pos' = [pos EXCEPT ![h] = @ + 1]
    /\ seen' = [seen EXCEPT ![h] = NoRow]
    /\ UNCHANGED <<day, wrote, saved>>

Go(h, label) ==
    /\ pc' = [pc EXCEPT ![h] = label]
    /\ UNCHANGED txVars

(* A write: the rows of f, and on to the next statement.                   *)
Put(h, f, label) ==
    /\ \A x \in DOMAIN f : Free(h, x)
    /\ lock' = Locked(h, DOMAIN f)
    /\ wrote' = Overlay(h, f)
    /\ pc' = [pc EXCEPT ![h] = label]
    /\ UNCHANGED <<pos, day, seen, saved>>

(* canonicalizeMutation.  An attendance record needs an active session and *)
(* student, and no other active record of the two.                         *)
RecordRefused(h, id, r) ==
    \/ ~ActiveIn(h, r.session)
    \/ ~Standing(r.student)
    \/ \E o \in RecordIds \ {id} :
          ActiveIn(h, o) /\ View(h, o).session = r.session /\ View(h, o).student = r.student

ReopenAllowed(h, x) ==
    x.status = "draft" /\ seen[h] # NoRow /\ seen[h].status = "completed" =>
        seen[h].date = day[h]

SessionRefused(h, x) ==
    \/ Act(h).type # "delete_session" /\ ~ReopenAllowed(h, x)
    \/ ~Standing(x.club)

MessageRefused(m) == ~Standing(m.student) \/ ~Standing(m.club)

(* The unique index on active (session_id, student_id). *)
IndexViolated(h, f) ==
    LET after(r) == IF r \in DOMAIN f THEN f[r] ELSE View(h, r)
    IN \E r, o \in RecordIds :
          /\ r # o
          /\ Active(after(r)) /\ Active(after(o))
          /\ after(r).session = after(o).session
          /\ after(r).student = after(o).student

-----------------------------------------------------------------------------
(* Init and the environment.                                               *)
AnyRequest == CHOOSE q \in Requests : TRUE

Init ==
    /\ today = 0
    /\ standing = [x \in Clubs \cup Students |-> "active"]
    /\ pushed = {}
    /\ row = [x \in Ids |-> NoRow]
    /\ processed = {}
    /\ lock = [x \in Clubs \cup Ids |-> Nobody]
    /\ received = 0
    /\ pc = [h \in Handlers |-> "idle"]
    /\ req = [h \in Handlers |-> AnyRequest]
    /\ pos = [h \in Handlers |-> 1]
    /\ day = [h \in Handlers |-> 0]
    /\ seen = [h \in Handlers |-> NoRow]
    /\ wrote = [h \in Handlers |-> [x \in Ids |-> NoRow]]
    /\ saved = [h \in Handlers |-> {}]

Midnight ==
    /\ today < MaxDay
    /\ today' = today + 1
    /\ UNCHANGED <<standing, pushed, row, processed, lock, received, pc, req, txVars>>

(* The foreign key of a session that is new, or moves to another club,     *)
(* holds a share of the club's row until the commit.                       *)
NewInClub(x, c) == row[x] = NoRow \/ row[x].club # c
Sharers(c) ==
    {g \in Handlers : \E x \in SessionIds :
                         wrote[g][x] # NoRow /\ wrote[g][x].club = c /\ NewInClub(x, c)}

(* A push deactivates, deletes or restores a club or a student; it waits   *)
(* for the row locks of a club.                                            *)
PushStanding(x) ==
    /\ x \in Clubs => lock[x] = Nobody /\ Sharers(x) = {}
    /\ \E to \in {"active", "inactive", "deleted"} \ {standing[x]} :
          /\ standing' = [standing EXCEPT ![x] = to]
          /\ pushed' = IF to = "deleted" THEN pushed \cup {x} ELSE pushed
    /\ Cardinality({y \in DOMAIN standing : standing'[y] # "active"}) <= MaxGone
    /\ UNCHANGED <<today, row, processed, lock, received, pc, req, txVars>>

(* A push writes a session, a record or a message.  What it looked up      *)
(* before may be out of date by its commit; the locks of the row and of    *)
(* the row it refers to, the foreign key and the unique index are not.     *)
RefersTo(p) == IF p.id \in SessionIds THEN p.row.club ELSE p.row.session
NewReference(p) ==
    IF p.id \in SessionIds THEN NewInClub(p.id, p.row.club)
    ELSE row[p.id] = NoRow \/ row[p.id].session # p.row.session

PushRow(p) ==
    /\ received < MaxRequests
    /\ lock[p.id] = Nobody
    /\ NewReference(p) =>
          /\ lock[RefersTo(p)] = Nobody
          /\ p.id \notin SessionIds => row[p.row.session] # NoRow
    /\ p.id \in RecordIds /\ Active(p.row) =>
          \A o \in RecordIds \ {p.id}, g \in Handlers :
             \A x \in {row[o], View(g, o)} :
                ~(Active(x) /\ x.session = p.row.session /\ x.student = p.row.student)
    /\ received' = received + 1
    /\ row' = [row EXCEPT ![p.id] = p.row]
    /\ pushed' = IF p.id \in MessageIds /\ Active(p.row) THEN pushed \cup {p.id} ELSE pushed
    /\ UNCHANGED <<today, standing, processed, lock, pc, req, txVars>>

Unused == {x \in NewSessions : row[x] = NoRow /\ \A g \in Handlers : wrote[g][x] = NoRow}
Creating == {g \in Handlers : pc[g] \in {"club", "build"}}

(* The transaction begins, and with it the handler's only look at the      *)
(* clock.  CreateAttendanceSession asks for permission before it.          *)
Begin(h, q) ==
    /\ pc[h] = "idle"
    /\ received < MaxRequests
    /\ q.kind = "create" =>
          q.club \in Permitted /\ Cardinality(Creating) < Cardinality(Unused)
    /\ received' = received + 1
    /\ pc' = [pc EXCEPT ![h] = IF q.kind = "create" THEN "club" ELSE "next"]
    /\ req' = [req EXCEPT ![h] = q]
    /\ pos' = [pos EXCEPT ![h] = 1]
    /\ day' = [day EXCEPT ![h] = today]
    /\ UNCHANGED <<today, standing, pushed, row, processed, lock, seen, wrote, saved>>

Key(h) == <<req[h].device, Act(h).id>>

(* The next action: passed over when it is processed, refused when its     *)
(* club is not the user's, else its first row is read.                     *)
Take(h) ==
    /\ pc[h] = "next"
    /\ ~Done(h)
    /\ IF Key(h) \in processed \cup saved[h] \/ Act(h).club \notin Permitted
       THEN MoveOn(h)
       ELSE Go(h, IF Act(h).type \in RecordActions THEN "record" ELSE "session")
    /\ UNCHANGED <<today, standing, pushed, row, processed, lock, received, req>>

(* GetRecordForUpdate: waits for the lock of a row that exists.            *)
ForUpdateNot(h, x) == UNCHANGED lock
ForUpdate(h, x) ==
    IF View(h, x) = NoRow
    THEN UNCHANGED lock
    ELSE Free(h, x) /\ lock' = Locked(h, {x})

(* loadAttendanceRecordActionTarget: first the record ...                  *)
LockRecord(h) ==
    /\ pc[h] = "record"
    /\ LET r == View(h, Act(h).rec)
       IN /\ ForUpdate(h, Act(h).rec)
          /\ IF r = NoRow \/ r.session # Act(h).session \/ r.student # Act(h).student
             THEN MoveOn(h)
             ELSE /\ pc' = [pc EXCEPT ![h] = "session"]
                  /\ seen' = [seen EXCEPT ![h] = r]
                  /\ UNCHANGED <<pos, day, wrote, saved>>
    /\ UNCHANGED <<today, standing, pushed, row, processed, received, req>>

(* ... then, as for every action on a session, the session.  Only          *)
(* create_session wants it missing or deleted; the others also work on a   *)
(* deleted session, of the action's club.                                  *)
SessionUnfit(h, x) ==
    IF Act(h).type = "create_session"
    THEN Active(x)
    ELSE x = NoRow \/ x.club # Act(h).club

AfterSession(h) ==
    IF Act(h).type # "mark_all_present" THEN "write"
    ELSE IF Act(h).targets = {} THEN "save" ELSE "records"

LockSession(h) ==
    /\ pc[h] = "session"
    /\ LET x == View(h, Act(h).session)
       IN /\ ForUpdate(h, Act(h).session)
          /\ IF SessionUnfit(h, x)
             THEN MoveOn(h)
             ELSE /\ pc' = [pc EXCEPT ![h] = AfterSession(h)]
                  /\ seen' = [seen EXCEPT ![h] =
                                IF Act(h).type \in RecordActions THEN @ ELSE x]
                  /\ UNCHANGED <<pos, day, wrote, saved>>
    /\ UNCHANGED <<today, standing, pushed, row, processed, received, req>>

(* The row an action makes of the one it has loaded: it changes one field; *)
(* create_session writes what the client sent.                             *)
Changed(h) ==
    LET a == Act(h)
    IN CASE a.type = "create_session" -> [club |-> a.club, date |-> a.date, status |-> a.status,
                                          note |-> a.note, deleted |-> a.deleted]
         [] a.type = "delete_session" -> [seen[h] EXCEPT !.deleted = TRUE]
         [] a.type \in {"set_session_status", "set_record_status"} ->
                [seen[h] EXCEPT !.status = a.value]
         [] OTHER -> [seen[h] EXCEPT !.note = a.value]

ChangeRefused(h) ==
    IF Act(h).type \in RecordActions
    THEN RecordRefused(h, Act(h).rec, Changed(h))
    ELSE SessionRefused(h, Changed(h))

AfterWrite(h) ==
    CASE Act(h).type \in {"create_session", "delete_session"} -> "records"
      [] Act(h).type = "set_record_note" -> "messages"
      [] OTHER -> "save"

(* upsertAttendanceActionMutation: canonicalize and upsert the target.     *)
SharesClub(h) == Act(h).type = "create_session" /\ NewInClub(Act(h).session, Act(h).club)

WriteTarget(h) ==
    /\ pc[h] = "write"
    /\ IF ChangeRefused(h)
       THEN MoveOn(h) /\ UNCHANGED lock
       ELSE /\ SharesClub(h) => Free(h, Act(h).club)
            /\ Put(h, [x \in {Target(h)} |-> Changed(h)], AfterWrite(h))
    /\ UNCHANGED <<today, standing, pushed, row, processed, received, req>>

(* create_session: the records of the payload, all of them or none.  A     *)
(* record id that exists already is taken over without being read.         *)
PayloadRow(p) == [session |-> p.session, student |-> p.student, status |-> p.status,
                  note |-> p.note, deleted |-> p.deleted]
PayloadRows(h) ==
    [r \in {p.rec : p \in Act(h).records} |->
        PayloadRow(CHOOSE p \in Act(h).records : p.rec = r)]

CreateRecords(h) ==
    /\ pc[h] = "records"
    /\ Act(h).type = "create_session"
    /\ LET f == PayloadRows(h)
       IN IF \E r \in DOMAIN f : f[r].session # Act(h).session \/ RecordRefused(h, r, f[r])
          THEN MoveOn(h) /\ UNCHANGED lock
          ELSE ~IndexViolated(h, f) /\ Put(h, f, "save")
    /\ UNCHANGED <<today, standing, pushed, row, processed, received, req>>

(* mark_all_present: every record of the session is locked, the deleted    *)
(* ones too; the ones asked for are written together or not at all.        *)
MarkRefused(h, f) ==
    \/ Act(h).targets \ RecordsOf(h, Act(h).session) # {}
    \/ \E r \in DOMAIN f : RecordRefused(h, r, f[r])

MarkRecordsFirst(h) ==
    /\ pc[h] = "records"
    /\ Act(h).type = "mark_all_present"
    /\ LET all == RecordsOf(h, Act(h).session)
           f == [r \in all \cap Act(h).targets |-> [View(h, r) EXCEPT !.status = "present"]]
       IN /\ \A r \in all : Free(h, r)
          /\ lock' = Locked(h, all)
          /\ wrote' = Overlay(h, f)
          /\ IF Act(h).targets \ all # {}
             THEN /\ pc' = [pc EXCEPT ![h] = "next"]
                  /\ pos' = [pos EXCEPT ![h] = @ + 1]
                  /\ UNCHANGED <<day, seen, saved>>
             ELSE /\ pc' = [pc EXCEPT ![h] = "save"]
                  /\ UNCHANGED <<pos, day, seen, saved>>
    /\ UNCHANGED <<today, standing, pushed, row, processed, received, req>>

MarkRecords(h) ==
    /\ pc[h] = "records"
    /\ Act(h).type = "mark_all_present"
    /\ LET all == RecordsOf(h, Act(h).session)
           f == [r \in all \cap Act(h).targets |-> [View(h, r) EXCEPT !.status = "present"]]
       IN /\ \A r \in all : Free(h, r)
          /\ lock' = Locked(h, all)
          /\ IF MarkRefused(h, f)
             THEN MoveOn(h)
             ELSE /\ wrote' = Overlay(h, f)
                  /\ pc' = [pc EXCEPT ![h] = "save"]
                  /\ UNCHANGED <<pos, day, seen, saved>>
    /\ UNCHANGED <<today, standing, pushed, row, processed, received, req>>

(* delete_session: all records of the session, then its active messages.   *)
(* The messages are refused together when one's student or club is gone:   *)
(* session and records stay deleted.                                       *)
DeleteRecordsChecked(h) ==
    /\ pc[h] = "records"
    /\ Act(h).type = "delete_session"
    /\ LET R == RecordsOf(h, Act(h).session)
       IN IF \E r \in R : RecordRefused(h, r, View(h, r))
          THEN MoveOn(h) /\ UNCHANGED lock
          ELSE Put(h, [r \in R |-> [View(h, r) EXCEPT !.deleted = TRUE]], "messages")
    /\ UNCHANGED <<today, standing, pushed, row, processed, received, req>>

DeleteRecords(h) ==
    /\ pc[h] = "records"
    /\ Act(h).type = "delete_session"
    /\ Put(h, [r \in RecordsOf(h, Act(h).session) |-> [View(h, r) EXCEPT !.deleted = TRUE]],
           "messages")
    /\ UNCHANGED <<today, standing, pushed, row, processed, received, req>>

DeleteMessages(h) ==
    /\ pc[h] = "messages"
    /\ Act(h).type = "delete_session"
    /\ LET M == MessagesOf(h, Act(h).session)
       IN IF \E m \in M : MessageRefused(View(h, m))
          THEN MoveOn(h) /\ (\A m \in M : Free(h, m)) /\ lock' = Locked(h, M)
          ELSE Put(h, [m \in M |-> [View(h, m) EXCEPT !.deleted = TRUE]], "save")
    /\ UNCHANGED <<today, standing, pushed, row, processed, received, req>>

(* set_record_note, the note being written: a blank note deletes the       *)
(* mirrored message; one that is not blank always ends in a refusal, since *)
(* canonicalizeMutation lets nobody upsert a message of this type.         *)
MirrorNote(h) ==
    /\ pc[h] = "messages"
    /\ Act(h).type = "set_record_note"
    /\ LET id == Note(Act(h).rec)
           m == View(h, id)
       IN CASE ~Act(h).value /\ m = NoRow -> Go(h, "save") /\ UNCHANGED lock
            [] ~Act(h).value /\ m # NoRow /\ ~MessageRefused(m) ->
                  Put(h, [x \in {id} |-> [m EXCEPT !.deleted = TRUE]], "save")
            [] OTHER -> MoveOn(h) /\ ForUpdate(h, id)
    /\ UNCHANGED <<today, standing, pushed, row, processed, received, req>>

(* SaveProcessedMutation: the action is applied. *)
Save(h) ==
    /\ pc[h] = "save"
    /\ saved' = [saved EXCEPT ![h] = @ \cup {Key(h)}]
    /\ pc' = [pc EXCEPT ![h] = "next"]
    /\ pos' = [pos EXCEPT ![h] = @ + 1]
    /\ seen' = [seen EXCEPT ![h] = NoRow]
    /\ UNCHANGED <<today, standing, pushed, row, processed, lock, received, req, day, wrote>>

-----------------------------------------------------------------------------
(* CreateAttendanceSession: the club's row is locked until the commit, so  *)
(* the requests of one club take turns.                                    *)
ClubFree(h, c) == Free(h, c) /\ Sharers(c) \subseteq {h}
ClubLockNot(h, c) == UNCHANGED lock
ClubLock(h, c) == ClubFree(h, c) /\ lock' = Locked(h, {c})

LockClub(h) ==
    /\ pc[h] = "club"
    /\ ClubLock(h, req[h].club)
    /\ standing[req[h].club] = "active"
    /\ pc' = [pc EXCEPT ![h] = "build"]
    /\ UNCHANGED <<today, standing, pushed, row, processed, received, req, txVars>>

(* FindAttendanceSessionByClubAndDate returns any ONE row of the club and  *)
(* date, deleted rows included; only an active one is an obstacle.         *)
SameDay(h) ==
    {x \in SessionIds : /\ View(h, x) # NoRow
                        /\ View(h, x).club = req[h].club
                        /\ View(h, x).date = req[h].date}
MayCreate(h) == SameDay(h) = {} \/ \E x \in SameDay(h) : ~ActiveIn(h, x)
MayRefuse(h) == \E x \in SameDay(h) : ActiveIn(h, x)

(* Who is expected: the active students of the club, when it has no        *)
(* schedule at all; on a day of its schedule, those with no schedule of    *)
(* their own or with that day in it.                                       *)
Weekday(d) == d % 7
ActiveOf(c) == {st \in Students : ClubOf[st] = c /\ standing[st] = "active"}
Meets(c, d) == Weekday(d) \in ClubDays[c]
Comes(st, d) == CustomDays[st] = Inherit \/ Weekday(d) \in CustomDays[st]
Expected(c, d) ==
    {st \in ActiveOf(c) : ClubDays[c] = {} \/ (Meets(c, d) /\ Comes(st, d))}

(* buildAttendanceSessionSnapshot, with fresh ids.                         *)
Snapshot(c, d) ==
    LET x == CHOOSE y \in Unused : TRUE
    IN [y \in {x} \cup ({x} \X Expected(c, d)) |->
           IF y = x
           THEN [club |-> c, date |-> d, status |-> "draft", note |-> FALSE, deleted |-> FALSE]
           ELSE [session |-> x, student |-> y[2], status |-> "unmarked",
                 note |-> FALSE, deleted |-> FALSE]]

BuildSession(h) ==
    /\ pc[h] = "build"
    /\ Unused # {}
    /\ MayCreate(h)
    /\ Put(h, Snapshot(req[h].club, req[h].date), "next")
    /\ UNCHANGED <<today, standing, pushed, row, processed, received, req>>

-----------------------------------------------------------------------------
(* The end of a transaction.                                               *)
Commit(h) ==
    /\ pc[h] = "next"
    /\ Done(h)
    /\ row' = [x \in Ids |-> View(h, x)]
    /\ processed' = processed \cup saved[h]
    /\ lock' = Unlocked({h})
    /\ pc' = [pc EXCEPT ![h] = "idle"]
    /\ req' = [req EXCEPT ![h] = AnyRequest]
    /\ pos' = [pos EXCEPT ![h] = 1]
    /\ day' = [day EXCEPT ![h] = 0]
    /\ wrote' = [wrote EXCEPT ![h] = [x \in Ids |-> NoRow]]
    /\ saved' = [saved EXCEPT ![h] = {}]
    /\ UNCHANGED <<today, standing, pushed, received, seen>>

Rollback(H) ==
    /\ lock' = Unlocked(H)
    /\ pc' = [h \in Handlers |-> IF h \in H THEN "idle" ELSE pc[h]]
    /\ req' = [h \in Handlers |-> IF h \in H THEN AnyRequest ELSE req[h]]
    /\ pos' = [h \in Handlers |-> IF h \in H THEN 1 ELSE pos[h]]
    /\ day' = [h \in Handlers |-> IF h \in H THEN 0 ELSE day[h]]
    /\ seen' = [h \in Handlers |-> IF h \in H THEN NoRow ELSE seen[h]]
    /\ wrote' = [h \in Handlers |-> IF h \in H THEN [x \in Ids |-> NoRow] ELSE wrote[h]]
    /\ saved' = [h \in Handlers |-> IF h \in H THEN {} ELSE saved[h]]
    /\ UNCHANGED <<today, standing, pushed, received>>

(* The errors that end a request: CreateAttendanceSession finds its club   *)
(* closed or a session of that day, or the unique index refuses a payload  *)
(* that names a student twice.                                             *)
Error(h) ==
    /\ \/ pc[h] = "club" /\ ClubFree(h, req[h].club) /\ standing[req[h].club] # "active"
       \/ pc[h] = "build" /\ MayRefuse(h)
       \/ /\ pc[h] = "records" /\ Act(h).type = "create_session"
          /\ LET f == PayloadRows(h)
             IN /\ IndexViolated(h, f)
                /\ \A r \in DOMAIN f : f[r].session = Act(h).session /\ ~RecordRefused(h, r, f[r])
    /\ Rollback({h})
    /\ UNCHANGED <<row, processed>>

(* The locks a handler's next statement waits for.                         *)
Wanted(h) ==
    LET x == Act(h).session
        wanted == CASE pc[h] = "club" -> {req[h].club}
                    [] pc[h] = "record" -> {Act(h).rec}
                    [] pc[h] = "session" -> {x}
                    [] pc[h] = "write" ->
                          {Target(h)} \cup (IF SharesClub(h) THEN {Act(h).club} ELSE {})
                    [] pc[h] = "records" /\ Act(h).type = "create_session" -> DOMAIN PayloadRows(h)
                    [] pc[h] = "records" /\ Act(h).type # "create_session" -> RecordsOf(h, x)
                    [] pc[h] = "messages" /\ Act(h).type = "delete_session" -> MessagesOf(h, x)
                    [] pc[h] = "messages" /\ Act(h).type # "delete_session" -> {Note(Act(h).rec)}
                    [] OTHER -> {}
        there == {y \in wanted : y \in Clubs \/ View(h, y) # NoRow}
        sharers == IF pc[h] = "club" THEN Sharers(req[h].club) ELSE {}
    IN ({lock[y] : y \in IF pc[h] \in {"write", "records"} THEN wanted ELSE there} \cup sharers)
          \ {Nobody, h}

(* PostgreSQL aborts one transaction of a cycle of waiting ones. *)
DeadlockVictim(h) ==
    /\ \E H \in SUBSET Handlers :
          h \in H /\ \A g \in H : Wanted(g) \cap H # {} /\ \E k \in H : g \in Wanted(k)
    /\ Rollback({h})
    /\ UNCHANGED <<row, processed>>

(* The server stops; when it starts again the schema script mirrors the    *)
(* notes of active records of active sessions whose message id is unused.  *)
Unmirrored ==
    {r \in RecordIds : /\ Active(row[r]) /\ row[r].note
                       /\ Active(row[row[r].session])
                       /\ row[Note(r)] = NoRow}

Restart ==
    /\ \/ \E h \in Handlers : pc[h] # "idle"
       \/ Unmirrored # {}
    /\ Rollback(Handlers)
    /\ row' = [x \in Ids |->
                  IF \E r \in Unmirrored : x = Note(r)
                  THEN [session |-> row[x[2]].session, student |-> row[x[2]].student,
                        club |-> row[row[x[2]].session].club, deleted |-> FALSE]
                  ELSE row[x]]
    /\ UNCHANGED processed

-----------------------------------------------------------------------------
Step(h) ==
    \/ Take(h) \/ LockRecord(h) \/ LockSession(h) \/ WriteTarget(h)
    \/ CreateRecords(h) \/ MarkRecords(h) \/ DeleteRecords(h) \/ DeleteMessages(h)
    \/ MirrorNote(h) \/ Save(h) \/ LockClub(h) \/ BuildSession(h) \/ Commit(h)
    \/ Error(h) \/ DeadlockVictim(h)

Next ==
    \/ Midnight
    \/ \E x \in Fragile : PushStanding(x)
    \/ \E p \in Pushes : PushRow(p)
    \/ \E h \in Handlers, q \in Requests : Begin(h, q)
    \/ \E h \in Handlers : Step(h)
    \/ Restart

Spec == Init /\ [][Next]_vars

(* A handler that can go on does.  The deadlock detector of PostgreSQL is  *)
(* part of its steps; requests, pushes and restarts are nobody's duty.     *)
FairSpec == Spec /\ \A h \in Handlers : WF_vars(Step(h))

-----------------------------------------------------------------------------
(* Properties.                                                             *)

(* The state is well formed: every id holds a row of its own table.        *)
TypeOK ==
    /\ today \in Days
    /\ standing \in [Clubs \cup Students -> {"active", "inactive", "deleted"}]
    /\ pushed \subseteq Clubs \cup Students \cup MessageIds
    /\ row \in [Ids -> Rows \cup {NoRow}]
    /\ \A x \in SessionIds : row[x] \in SessionRows \cup {NoRow}
    /\ \A x \in RecordIds : row[x] \in RecordRows \cup {NoRow}
    /\ \A x \in MessageIds : row[x] \in MessageRows \cup {NoRow}
    /\ lock \in [Clubs \cup Ids -> Handlers \cup {Nobody}]
    /\ \A h \in Handlers : pc[h] = "idle" => \A x \in DOMAIN lock : lock[x] # h

(* A row that outlives the session it belongs to.  A push can leave one    *)
(* behind, since it writes row by row; so can a create_session whose       *)
(* payload is a deleted session, when another request is creating the      *)
(* session for which it found no row.                                      *)
Orphan(table, id) == Active(table[id]) /\ ~Active(table[table[id].session])
Buries(h, x) ==
    /\ req[h].kind = "actions"
    /\ \E i \in 1 .. Len(req[h].actions) :
          /\ req[h].actions[i].type = "create_session"
          /\ req[h].actions[i].session = x
          /\ req[h].actions[i].deleted

(* Whatever the actions meet half way - refusals that keep what was        *)
(* written, pushes, races, restarts - a request leaves no active record    *)
(* behind on a session that is not active: delete_session deletes them     *)
(* all, and no action writes an active record of a deleted session.        *)
RecordsFollowSession ==
    [][\A h \in Handlers : Commit(h) =>
          \A r \in RecordIds :
              Orphan(row', r) => Orphan(row, r) \/ Buries(h, row'[r].session)]_vars

(* The messages of a session go with it, but for those that a push wrote   *)
(* or restored.  They stay together when delete_session is refused at its  *)
(* last statement, because a push has deleted the student or the club of   *)
(* one of them.                                                            *)
MessagesFollowSession ==
    [][\A h \in Handlers : Commit(h) =>
          \A m \in MessageIds :
              Orphan(row', m) =>
                  LET x == row'[m].session
                  IN \/ Orphan(row, m) \/ m \in pushed \/ Buries(h, x)
                     \/ \E n \in MessageIds :
                           /\ Active(row[n]) /\ row[n].session = x
                           /\ {row[n].student, row[n].club} \cap pushed # {}]_vars

(* The requests of one club take turns, so CreateAttendanceSession makes a *)
(* session of a day that has one already - committed, or written by a      *)
(* request that has not committed yet - only when a deleted one hides it   *)
(* from FindAttendanceSessionByClubAndDate.  It cannot see a session of    *)
(* another day that a create_session is just moving to this one.           *)
OfDay(h, x) == x # NoRow /\ x.club = req[h].club /\ x.date = req[h].date

OneSessionPerDay ==
    [][\A h \in Handlers : BuildSession(h) =>
          \/ \E z \in SessionIds : OfDay(h, row[z]) /\ row[z].deleted
          \/ \A g \in Handlers, y \in SessionIds :
                ActiveIn(g, y) /\ OfDay(h, View(g, y)) =>
                    /\ row[y] # NoRow /\ row[y].club = req[h].club
                    /\ row[y].date # req[h].date]_vars

Types(h) == IF req[h].kind = "create" THEN {"create_session"}
            ELSE {req[h].actions[i].type : i \in 1 .. Len(req[h].actions)}

FieldsOf(type) ==
    CASE type = "create_session" -> {"club", "date", "session", "student", "status", "note", "deleted"}
      [] type = "delete_session" -> {"deleted"}
      [] type \in {"set_session_status", "set_record_status", "mark_all_present"} -> {"status"}
      [] OTHER -> {"note"}

(* No lost update: each action writes back the whole row it has loaded,    *)
(* yet a commit changes no field of a session or a record that its actions *)
(* are not about, however they interleave with others on the same row.     *)
KeepsOtherFields ==
    [][\A h \in Handlers : Commit(h) =>
          \A x \in SessionIds \cup RecordIds : row[x] # NoRow =>
              \A field \in DOMAIN row[x] :
                  row'[x][field] # row[x][field] =>
                      \E type \in Types(h) : field \in FieldsOf(type)]_vars

(* "Only sessions scheduled for today can be reopened.": no commit turns a *)
(* completed session of another day back into a draft, also when it was    *)
(* completed after the handler began.  The exception is a create_session   *)
(* that found no row with its id because another one was creating it.      *)
ReopenedToday ==
    [][\A h \in Handlers : Commit(h) =>
          \A x \in SessionIds :
              Active(row[x]) /\ Active(row'[x])
              /\ row[x].status = "completed" /\ row'[x].status = "draft" =>
                  row[x].date = day[h] \/ "create_session" \in Types(h)]_vars

(* What a request leaves behind when none of its actions was applied: a    *)
(* session without records, a note, or a deleted session whose messages    *)
(* stay.  In particular mark_all_present and set_record_status are all or  *)
(* nothing, and nothing a refused action wrote reaches the messages.       *)
RefusedLeave ==
    [][\A h \in Handlers : Commit(h) /\ req[h].kind = "actions" /\ saved[h] = {} =>
          \A x \in Ids : row'[x] # row[x] =>
              \/ x \in SessionIds /\ Types(h) \cap {"create_session", "delete_session"} # {}
              \/ x \in RecordIds /\ Types(h) \cap {"set_record_note", "delete_session"} # {}]_vars

(* set_record_status locks a record and then its session, mark_all_present *)
(* and delete_session the other way round: two requests may wait for each  *)
(* other, but one of them is always ended, and no request that has ended   *)
(* keeps a lock that another one needs.                                    *)
NeverStuck ==
    (\E h \in Handlers : pc[h] # "idle") => \E h \in Handlers : ENABLED Step(h)
=============================================================================
