------------------------------ MODULE Imports ------------------------------
(***************************************************************************)
(* The Excel imports of clubs, belt ranks and students, and the keys they  *)
(* compete for: club codes, belt rank orders and student codes, which the  *)
(* counter in sync_counters hands out when a row or a push brings none.    *)
(*                                                                         *)
(* An import is one READ COMMITTED transaction over the rows of its file;  *)
(* each of its statements is a step.  A row that is refused is reported    *)
(* and the import goes on, but an error of PostgreSQL aborts the whole     *)
(* transaction: the code adds it to the row errors and continues, and the  *)
(* next statement fails.  What makes a file is a row's outcome of parsing: *)
(* whether its cells are valid, and the values that identify its record.   *)
(***************************************************************************)
EXTENDS Naturals, Sequences, FiniteSets

CONSTANTS Handlers,      \* requests that are handled at the same time
          Clubs, Ranks,  \* ids that normalizeSlug makes of the names in files
          PushedIds,     \* ids of students that clients create
          Days,          \* weekdays
          ClubDays,      \* those of a club's active schedule
          Permitted,     \* clubs the user may import students into
          Requests,      \* imports and pushes that clients send
          OtherSlots,    \* ids of schedule rows that clients make up
          SlotPushes,    \* schedule rows that clients push, with their ids
          Stored, StoredSlots,  \* rows that exist at the start
          NoRow, NoId, Nobody,
          MaxCode,       \* bound: codes, suffixes of club codes
          MaxRequests,   \* bound: requests received
          MaxRows,       \* bound: rows of a file
          Fragile,       \* bound: clubs and ranks that pushes delete,
          MaxGone,       \*        and how often
          MaxFaults      \* bound: connections that are lost

VARIABLES row,           \* clubs, belt ranks and students, as committed
          slot,          \* student_schedules, as committed: rows that exist, by id
          counter,       \* sync_counters, as committed
          lock,          \* row locks, and unique keys an open transaction has written
          received, gone, faults,
          pc, req, pos,  \* a handler's control state
          target, code,  \* the id and the key of the row at hand
          wrote, drew,   \* rows and counter written by its open transaction
          errors,        \* rows of its file that are reported as errors
          imported,      \* rows of its file that count as imported, with their ids
          serial,        \* number of the request
          news,          \* history: rows committed by others since its last look at the keys
          filed, held,   \* schedule rows written by its open transaction, and those it locks
          existing,         \* weekday -> the schedule row it has read of the student at hand
          hidden, since  \* history: schedule rows it read and lost to another one of the
                         \* same weekday; and those committed by others since it read

locals == <<target, code, wrote, drew, errors, imported, news>>
slots == <<slot, filed, held, existing, hidden, since>>
vars == <<row, counter, lock, received, gone, faults, pc, req, pos, serial, locals, slots>>

-----------------------------------------------------------------------------
(* generateImportedStudentID: an id of its own for every row of every file. *)
FreshIds == (1 .. MaxRequests) \X (1 .. MaxRows)
Students == PushedIds \cup FreshIds
Ids == Clubs \cup Ranks \cup Students
Codes == 1 .. MaxCode
NoCode == 0

KeyedRows == [key : Codes, deleted : BOOLEAN]
StudentRows == [key : Codes, club : Clubs, deleted : BOOLEAN]

(* A day of a student's schedule is a row of its own.  An import makes its *)
(* id of the student and the weekday, a client may make up another.        *)
Own(x, d) == <<x, d>>
SlotIds == (Students \X Days) \cup OtherSlots
SlotRows == [student : Students, day : Days, deleted : BOOLEAN]
OnDay(r, x, d) == r = [student |-> x, day |-> d, deleted |-> FALSE]

(* idx_student_schedules_student_weekday_active_unique                     *)
OneRowADay(table) ==
    \A i, j \in DOMAIN table : i # j /\ ~table[i].deleted => table[i] # table[j]

Active(r) == r # NoRow /\ ~r.deleted

(* The unique indexes: codes of active clubs and orders of active belt     *)
(* ranks, but the codes of ALL students, the deleted ones too.             *)
Indexed(x, r) == r # NoRow /\ (x \in Students \/ ~r.deleted)
Table(x) == IF x \in Clubs THEN "clubs" ELSE IF x \in Ranks THEN "belt_ranks" ELSE "students"
KeyOf(table, k) == <<"unique", table, k>>
UniqueKey(x, r) == KeyOf(Table(x), r.key)
UniqueKeys == {"unique"} \X {"clubs", "belt_ranks", "students"} \X Codes
Counter == <<"sync_counters">>

(* A row of its own table; and no two indexed rows hold one key.            *)
Fits(x, r) == IF x \in Students THEN r \in StudentRows ELSE r \in KeyedRows
OneHolder(table) ==
    \A x, y \in Ids : x # y /\ Indexed(x, table[x]) /\ Indexed(y, table[y]) =>
        UniqueKey(x, table[x]) # UniqueKey(y, table[y])

(* What the parser makes of a row, or a push brings: a student may come    *)
(* with a code, a belt rank always has its order, a club's code is made.   *)
LineOK(kind, l) ==
    /\ l.valid \in BOOLEAN
    /\ kind = "clubs" => l.id \in Clubs /\ l.key = NoCode
    /\ kind = "belt_ranks" => l.id \in Ranks /\ l.key \in Codes
    /\ kind \in {"students", "push"} => l.club \in Clubs /\ l.rank \in Ranks
                                       /\ l.key \in Codes \cup {NoCode}
    /\ kind = "students" => l.custom \in BOOLEAN /\ l.days \subseteq Days
    /\ kind = "push" => l.id \in PushedIds /\ l.deleted \in BOOLEAN

RequestOK(q) ==
    /\ q.kind \in {"clubs", "belt_ranks", "students", "push"}
    /\ DOMAIN q.rows = 1 .. Len(q.rows) /\ Len(q.rows) \in 0 .. MaxRows
    /\ \A i \in 1 .. Len(q.rows) : LineOK(q.kind, q.rows[i])

(* Special values are none of the ordinary ones, ids of different tables   *)
(* are different, and requests hold what parsing and decoding leave.       *)
ASSUME ImportsAssumption ==
    /\ MaxCode \in Nat \ {0} /\ MaxRequests \in Nat /\ MaxRows \in Nat
    /\ Clubs \cap Ranks = {} /\ (Clubs \cup Ranks) \cap Students = {}
    /\ PushedIds \cap FreshIds = {}
    /\ Ids \cap (UniqueKeys \cup {Counter}) = {}
    /\ NoRow \notin KeyedRows \cup StudentRows
    /\ NoId \notin Ids
    /\ Nobody \notin Handlers
    /\ ClubDays \in [Clubs -> SUBSET Days]
    /\ OtherSlots \cap (Students \X Days) = {}
    /\ SlotPushes \subseteq [id : SlotIds, row : SlotRows]
    /\ Requests # {} /\ \A q \in Requests : RequestOK(q)
    /\ Fragile \subseteq Clubs \cup Ranks

(* The rows at the start come from pushes: they satisfy the unique         *)
(* indexes, and their ids are not ones an import will generate.            *)
ASSUME StoredAssumption ==
    /\ Stored \in [Ids -> KeyedRows \cup StudentRows \cup {NoRow}]
    /\ \A x \in Ids : Stored[x] = NoRow \/ Fits(x, Stored[x])
    /\ \A x \in FreshIds : Stored[x] = NoRow
    /\ OneHolder(Stored)
    /\ DOMAIN StoredSlots \subseteq SlotIds /\ OneRowADay(StoredSlots)
    /\ \A i \in DOMAIN StoredSlots : StoredSlots[i] \in SlotRows
                                   /\ Stored[StoredSlots[i].student] # NoRow

View(h, x) == IF wrote[h][x] # NoRow THEN wrote[h][x] ELSE row[x]
Over(f, g) == [i \in DOMAIN f \cup DOMAIN g |-> IF i \in DOMAIN f THEN f[i] ELSE g[i]]
Slots(h) == Over(filed[h], slot)
Line(h) == req[h].rows[pos[h]]
Done(h) == pos[h] > Len(req[h].rows)

Holders(h, x, r) ==
    {y \in Ids \ {x} : Indexed(y, View(h, y)) /\ UniqueKey(y, View(h, y)) = UniqueKey(x, r)}
ActiveHolders(h, x, k) ==
    {y \in Ids \ {x} : Active(View(h, y)) /\ UniqueKey(y, View(h, y)) = k}

Free(h, L) == \A x \in L : lock[x] \in {Nobody, h}
Locked(h, L) == [x \in DOMAIN lock |-> IF x \in L THEN h ELSE lock[x]]
Unlocked(h) == [x \in DOMAIN lock |-> IF lock[x] = h THEN Nobody ELSE lock[x]]

-----------------------------------------------------------------------------
(* The parsers.  A row is dropped when a cell is invalid or when it names  *)
(* what an earlier row, itself not dropped, has named: the name of a club  *)
(* or a belt rank, an order, an explicit student code.  Two names may make *)
(* one id all the same.                                                    *)
Repeats(kind, a, b) ==
    CASE kind = "clubs" -> a.name = b.name
      [] kind = "belt_ranks" -> a.name = b.name \/ a.key = b.key
      [] kind = "students" -> a.key # NoCode /\ a.key = b.key
      [] OTHER -> FALSE

Parsed(q) ==
    LET kept[i \in DOMAIN q.rows] ==
            q.rows[i].valid /\ ~\E j \in 1 .. i - 1 : kept[j] /\ Repeats(q.kind, q.rows[i], q.rows[j])
    IN {i \in DOMAIN q.rows : kept[i]}

-----------------------------------------------------------------------------
AnyRequest == CHOOSE q \in Requests : TRUE

Init ==
    /\ row = Stored
    /\ counter = 0
    /\ lock = [x \in Ids \cup UniqueKeys \cup {Counter} |-> Nobody]
    /\ received = 0 /\ gone = 0 /\ faults = 0
    /\ pc = [h \in Handlers |-> "idle"]
    /\ req = [h \in Handlers |-> AnyRequest]
    /\ pos = [h \in Handlers |-> 1]
    /\ target = [h \in Handlers |-> NoId]
    /\ code = [h \in Handlers |-> NoCode]
    /\ wrote = [h \in Handlers |-> [x \in Ids |-> NoRow]]
    /\ drew = [h \in Handlers |-> 0]
    /\ errors = [h \in Handlers |-> {}]
    /\ imported = [h \in Handlers |-> {}]
    /\ serial = [h \in Handlers |-> 0]
    /\ news = [h \in Handlers |-> {}]
    /\ slot = StoredSlots
    /\ filed = [h \in Handlers |-> <<>>] /\ held = [h \in Handlers |-> {}]
    /\ existing = [h \in Handlers |-> <<>>]
    /\ hidden = [h \in Handlers |-> {}] /\ since = [h \in Handlers |-> {}]

(* The file is parsed before the transaction begins.                       *)
Begin(h, q) ==
    /\ pc[h] = "idle"
    /\ received < MaxRequests
    /\ Parsed(q) # {}
    /\ received' = received + 1
    /\ serial' = [serial EXCEPT ![h] = received + 1]
    /\ pc' = [pc EXCEPT ![h] = "next"]
    /\ req' = [req EXCEPT ![h] = q]
    /\ pos' = [pos EXCEPT ![h] = 1]
    /\ errors' = [errors EXCEPT ![h] = DOMAIN q.rows \ Parsed(q)]
    /\ UNCHANGED <<row, counter, lock, gone, faults, target, code, wrote, drew, imported, news,
                   slots>>

(* Another push deletes a club or a belt rank.                             *)
Delete(x) ==
    /\ gone < MaxGone
    /\ Active(row[x])
    /\ lock[x] = Nobody
    /\ row' = [row EXCEPT ![x].deleted = TRUE]
    /\ gone' = gone + 1
    /\ UNCHANGED <<counter, lock, received, faults, pc, req, pos, serial, target, code, wrote,
                   drew, errors, imported, slots>>
    /\ news' = [h \in Handlers |-> IF pc[h] = "write" THEN news[h] \cup {x} ELSE news[h]]

(* Another push writes a schedule row, of a student that is committed,     *)
(* unless the row or its entry in the unique index is in use.  The lock    *)
(* that the foreign key takes on the student is left out: where an import  *)
(* has written the student, it holds some of these pushes back.            *)
CommitSlots(h, f) ==
    /\ slot' = Over(f, slot)
    /\ since' = [g \in Handlers |-> IF g # h /\ pc[g] # "idle" THEN since[g] \cup DOMAIN f
                                   ELSE IF g = h THEN {} ELSE since[g]]

PushSlot(p) ==
    /\ received < MaxRequests
    /\ row[p.row.student] # NoRow
    /\ \A h \in Handlers : p.id \notin held[h]
    /\ ~p.row.deleted =>
           /\ \A i \in DOMAIN slot \ {p.id} : slot[i] # p.row
           /\ \A h \in Handlers : \A i \in DOMAIN filed[h] : filed[h][i] # p.row
    /\ CommitSlots(Nobody, [i \in {p.id} |-> p.row])
    /\ received' = received + 1
    /\ UNCHANGED <<row, counter, lock, gone, faults, pc, req, pos, serial, locals,
                   filed, held, existing, hidden>>

Go(h, label) ==
    /\ pc' = [pc EXCEPT ![h] = label]
    /\ UNCHANGED <<row, counter, received, gone, faults, req, pos, serial, errors, imported, news>>

(* On to the next row of the file, having refused or imported this one.    *)
NextLine(h) ==
    /\ pc' = [pc EXCEPT ![h] = "next"]
    /\ pos' = [pos EXCEPT ![h] = @ + 1]
    /\ target' = [target EXCEPT ![h] = NoId]
    /\ code' = [code EXCEPT ![h] = NoCode]
    /\ news' = [news EXCEPT ![h] = {}]
    /\ UNCHANGED <<row, counter, received, gone, faults, req, serial>>

RefuseLine(h) ==
    /\ NextLine(h)
    /\ errors' = [errors EXCEPT ![h] = @ \cup {pos[h]}]
    /\ UNCHANGED <<wrote, drew, imported>>

CountLine(h) ==
    /\ NextLine(h)
    /\ imported' = [imported EXCEPT ![h] = @ \cup {<<pos[h], target[h]>>}]
    /\ UNCHANGED <<drew, errors>>

Take(h) ==
    /\ pc[h] = "next" /\ ~Done(h)
    /\ UNCHANGED slots
    /\ IF pos[h] \in errors[h]
       THEN NextLine(h) /\ UNCHANGED <<wrote, drew, errors, imported>>
       ELSE IF req[h].kind = "students"
       THEN Go(h, "references") /\ UNCHANGED <<target, code, wrote, drew>>
       ELSE Go(h, "lock") /\ UNCHANGED <<code, wrote, drew>>
            /\ target' = [target EXCEPT ![h] = Line(h).id]
    /\ UNCHANGED lock

(* GetRecordForUpdate.  A push may find its edit older than the row.       *)
LockRow(h) ==
    /\ pc[h] = "lock" /\ UNCHANGED slots
    /\ LET x == target[h]
       IN /\ IF View(h, x) = NoRow THEN UNCHANGED lock
             ELSE Free(h, {x}) /\ lock' = Locked(h, {x})
          /\ \/ /\ Go(h, CASE req[h].kind = "clubs" -> "code"
                           [] req[h].kind = "belt_ranks" -> "order"
                           [] OTHER -> "references")
                /\ code' = [code EXCEPT ![h] = IF req[h].kind = "clubs" THEN 1 ELSE Line(h).key]
                /\ UNCHANGED <<target, wrote, drew>>
             \/ req[h].kind = "push" /\ View(h, x) # NoRow /\ RefuseLine(h)

(* resolveUniqueClubCode: the initials of the name, then a suffix, until   *)
(* no other active club has it.  The names of the model share initials.    *)
TakenCommitted(h) ==
    \E y \in Clubs \ {target[h]} : Active(row[y]) /\ row[y].key = code[h]
Taken(h) == ActiveHolders(h, target[h], KeyOf("clubs", code[h])) # {}

TryCode(h) ==
    /\ pc[h] = "code" /\ UNCHANGED slots
    /\ IF Taken(h)
       THEN /\ code[h] < MaxCode
            /\ code' = [code EXCEPT ![h] = @ + 1]
            /\ Go(h, "code")
       ELSE Go(h, "write") /\ UNCHANGED code
    /\ UNCHANGED <<lock, target, wrote, drew>>

(* FindBeltRankByOrder *)
CheckOrder(h) ==
    /\ pc[h] = "order" /\ UNCHANGED slots
    /\ IF ActiveHolders(h, target[h], KeyOf("belt_ranks", code[h])) # {}
       THEN RefuseLine(h)
       ELSE Go(h, "write") /\ UNCHANGED <<target, code, wrote, drew>>
    /\ UNCHANGED lock

(* The club and the belt rank of a student: active ones that the file      *)
(* names, the club one that the user may import into; for a push, rows     *)
(* that are not deleted.                                                   *)
References(h) ==
    /\ pc[h] = "references" /\ UNCHANGED slots
    /\ IF \/ ~Active(View(h, Line(h).club)) \/ ~Active(View(h, Line(h).rank))
          \/ Line(h).club \notin Permitted
       THEN RefuseLine(h)
       ELSE Go(h, IF req[h].kind = "students" THEN "find"
                  ELSE IF Line(h).key = NoCode THEN "number" ELSE "duplicate")
            /\ UNCHANGED <<target, code, wrote, drew>>
    /\ UNCHANGED lock

(* An import writes to the active student that has the row's code, which   *)
(* it does not lock, or to a new one.                                      *)
FindStudent(h) ==
    /\ pc[h] = "find" /\ UNCHANGED slots
    /\ LET found == ActiveHolders(h, NoId, KeyOf("students", Line(h).key))
       IN target' = [target EXCEPT ![h] = IF found # {} THEN CHOOSE x \in found : TRUE
                                          ELSE <<serial[h], pos[h]>>]
    /\ code' = [code EXCEPT ![h] = Line(h).key]
    /\ Go(h, IF Line(h).key = NoCode THEN "number" ELSE "write")
    /\ UNCHANGED <<lock, wrote, drew>>

(* NextStudentCode: the counter's row stays locked until the transaction   *)
(* ends, and its value is lost when the transaction is rolled back.        *)
DrawUnlocked(h) ==
    /\ drew' = [drew EXCEPT ![h] = IF @ # 0 THEN @ + 1 ELSE counter + 1]
    /\ UNCHANGED lock
Draw(h) ==
    /\ Free(h, {Counter})
    /\ lock' = Locked(h, {Counter})
    /\ drew' = [drew EXCEPT ![h] = IF @ # 0 THEN @ + 1 ELSE counter + 1]

NumberStudent(h) ==
    /\ pc[h] = "number" /\ UNCHANGED slots
    /\ Draw(h)
    /\ drew'[h] <= MaxCode
    /\ code' = [code EXCEPT ![h] = drew'[h]]
    /\ Go(h, IF req[h].kind = "push" THEN "duplicate" ELSE "write")
    /\ UNCHANGED <<target, wrote>>

(* A push looks for another active student with the code; an import takes  *)
(* the counter's word for it.                                              *)
CheckDuplicate(h) ==
    /\ pc[h] = "duplicate" /\ UNCHANGED slots
    /\ IF ActiveHolders(h, target[h], KeyOf("students", code[h])) # {}
       THEN RefuseLine(h)
       ELSE Go(h, "write") /\ UNCHANGED <<target, code, wrote, drew>>
    /\ UNCHANGED lock

(* UpsertRecord: an import writes an active row whatever it was before.    *)
NewRow(h) ==
    LET x == target[h]
    IN IF x \notin Students
       THEN [key |-> code[h], deleted |-> FALSE]
       ELSE [key |-> code[h], club |-> Line(h).club,
             deleted |-> req[h].kind = "push" /\ Line(h).deleted]

WriteRow(h) ==
    /\ pc[h] = "write" /\ UNCHANGED slots
    /\ LET x == target[h]
           r == NewRow(h)
           old == IF Indexed(x, View(h, x)) THEN {UniqueKey(x, View(h, x))} ELSE {}
           new == IF Indexed(x, r) THEN {UniqueKey(x, r)} ELSE {}
       IN /\ Free(h, {x} \cup new)
          /\ Indexed(x, r) => Holders(h, x, r) = {}
          /\ lock' = Locked(h, {x} \cup old \cup new)
          /\ wrote' = [wrote EXCEPT ![h] = [@ EXCEPT ![x] = r]]
    /\ IF req[h].kind = "students"
       THEN Go(h, "schedule") /\ UNCHANGED <<target, code, drew>>
       ELSE CountLine(h)

(* A custom schedule outside the club's is refused when the student is     *)
(* written already, and stays.  Otherwise ReplaceStudentSchedule reads and *)
(* locks the student's schedule rows into a map from weekdays, in which    *)
(* one row of a weekday hides another.  It writes the profile before: an   *)
(* index ends the import if a push has made that under an id of its own.   *)
Outside(h) == Line(h).custom /\ ~(Line(h).days \subseteq ClubDays[Line(h).club])

FreeSlots(h, I) == \A g \in Handlers \ {h} : held[g] \cap I = {}
SlotsOf(h) == {i \in DOMAIN Slots(h) : Slots(h)[i].student = target[h]}
DaysOf(h) == {Slots(h)[i].day : i \in SlotsOf(h)}

ReadSchedule(h) ==
    /\ pc[h] = "schedule" /\ ~Outside(h)
    /\ FreeSlots(h, SlotsOf(h))
    /\ \E f \in [DaysOf(h) -> SlotsOf(h)] :
          /\ \A d \in DaysOf(h) : Slots(h)[f[d]].day = d
          /\ existing' = [existing EXCEPT ![h] = f]
          /\ hidden' = [hidden EXCEPT ![h] = @ \cup {i \in SlotsOf(h) : f[Slots(h)[i].day] # i}]
    /\ held' = [held EXCEPT ![h] = @ \cup SlotsOf(h)]
    /\ since' = [since EXCEPT ![h] = @ \ SlotsOf(h)]
    /\ Go(h, "replace")
    /\ UNCHANGED <<lock, target, code, wrote, drew, slot, filed>>

RefuseSchedule(h) ==
    /\ pc[h] = "schedule" /\ Outside(h)
    /\ RefuseLine(h)
    /\ UNCHANGED <<lock, slots>>

(* Each day of the row is written under the import's own id; then each row *)
(* of the map on another weekday is written back, deleted.                 *)
Kept(h) == {Own(target[h], d) : d \in Line(h).days}
DroppedOwn(h) ==
    {existing[h][d] : d \in DOMAIN existing[h] \ Line(h).days} \cap {Own(target[h], d) : d \in Days}
Dropped(h) == {existing[h][d] : d \in DOMAIN existing[h] \ Line(h).days}
NewSlots(h) ==
    [i \in Kept(h) \cup Dropped(h) |->
        IF i \in Dropped(h) THEN [Slots(h)[i] EXCEPT !.deleted = TRUE]
        ELSE [student |-> target[h], day |-> i[2], deleted |-> FALSE]]

(* Rows that the unique index finds in the way of these days; one that is  *)
(* an own id of another of the days may be moved before, or after: that is *)
(* the order of the days in the file.                                      *)
InTheWay(h) ==
    {i \in DOMAIN Slots(h) : \E d \in Line(h).days :
        i # Own(target[h], d) /\ OnDay(Slots(h)[i], target[h], d)}

ReplaceSchedule(h) ==
    /\ pc[h] = "replace"
    /\ FreeSlots(h, Kept(h))
    /\ InTheWay(h) \subseteq Kept(h)
    /\ filed' = [filed EXCEPT ![h] = Over(NewSlots(h), @)]
    /\ held' = [held EXCEPT ![h] = @ \cup Kept(h)]
    /\ existing' = [existing EXCEPT ![h] = <<>>]
    /\ CountLine(h)
    /\ UNCHANGED <<lock, wrote, slot, hidden, since>>

-----------------------------------------------------------------------------
(* The end of a transaction.  The audit log entry is part of it, the       *)
(* broadcast of the imported ids follows it.                               *)
Reset(h) ==
    /\ lock' = Unlocked(h)
    /\ pc' = [pc EXCEPT ![h] = "idle"]
    /\ req' = [req EXCEPT ![h] = AnyRequest]
    /\ pos' = [pos EXCEPT ![h] = 1]
    /\ target' = [target EXCEPT ![h] = NoId]
    /\ code' = [code EXCEPT ![h] = NoCode]
    /\ wrote' = [wrote EXCEPT ![h] = [x \in Ids |-> NoRow]]
    /\ drew' = [drew EXCEPT ![h] = 0]
    /\ errors' = [errors EXCEPT ![h] = {}]
    /\ imported' = [imported EXCEPT ![h] = {}]
    /\ serial' = [serial EXCEPT ![h] = 0]
    /\ filed' = [filed EXCEPT ![h] = <<>>] /\ held' = [held EXCEPT ![h] = {}]
    /\ existing' = [existing EXCEPT ![h] = <<>>] /\ hidden' = [hidden EXCEPT ![h] = {}]
    /\ UNCHANGED <<received, gone>>

Commit(h) ==
    /\ pc[h] = "next" /\ Done(h)
    /\ row' = [x \in Ids |-> View(h, x)]
    /\ counter' = IF drew[h] # 0 THEN drew[h] ELSE counter
    /\ Reset(h)
    /\ news' = [g \in Handlers |-> IF pc[g] = "write"
                                 THEN news[g] \cup {x \in Ids : wrote[h][x] # NoRow} ELSE {}]
    /\ CommitSlots(h, filed[h])
    /\ UNCHANGED faults

Rollback(h) ==
    /\ Reset(h)
    /\ news' = [news EXCEPT ![h] = {}] /\ since' = [since EXCEPT ![h] = {}]
    /\ UNCHANGED <<row, slot, counter>>

(* A unique index refuses the row, and with it the whole request.          *)
Collides(h) ==
    /\ pc[h] = "write"
    /\ Indexed(target[h], NewRow(h))
    /\ Holders(h, target[h], NewRow(h)) # {}

Abort(h) ==
    /\ Collides(h)
    /\ Free(h, {target[h], UniqueKey(target[h], NewRow(h))})
    /\ Rollback(h)
    /\ UNCHANGED faults

(* So do the index of the profiles, when a push has given the student one  *)
(* of another id, and that of the schedule rows, when one of another id    *)
(* has a day of the file.                                                  *)
AbortSchedule(h) ==
    /\ \/ pc[h] = "schedule" /\ ~Outside(h) /\ row[target[h]] # NoRow
       \/ pc[h] = "replace" /\ FreeSlots(h, Kept(h)) /\ InTheWay(h) # {}
    /\ Rollback(h)
    /\ UNCHANGED faults

(* The connection is lost or the server stops.                             *)
Fail(h) ==
    /\ pc[h] # "idle"
    /\ faults < MaxFaults
    /\ faults' = faults + 1
    /\ Rollback(h)

Wanted(h) ==
    CASE pc[h] = "lock" -> IF View(h, target[h]) = NoRow THEN {} ELSE {target[h]}
      [] pc[h] = "number" -> {Counter}
      [] pc[h] = "write" -> {target[h]} \cup
            (IF Indexed(target[h], NewRow(h)) THEN {UniqueKey(target[h], NewRow(h))} ELSE {})
      [] OTHER -> {}
WantedSlots(h) ==
    CASE pc[h] = "schedule" /\ ~Outside(h) -> SlotsOf(h)
      [] pc[h] = "replace" -> Kept(h)
      [] OTHER -> {}
WaitsFor(h) ==
    ({lock[x] : x \in Wanted(h)} \ {Nobody, h})
        \cup {g \in Handlers \ {h} : held[g] \cap WantedSlots(h) # {}}

(* PostgreSQL aborts one transaction of a cycle of waiting ones. *)
DeadlockVictim(h) ==
    /\ \E H \in SUBSET Handlers :
          h \in H /\ \A g \in H : WaitsFor(g) \cap H # {} /\ \E k \in H : g \in WaitsFor(k)
    /\ Rollback(h)
    /\ UNCHANGED faults

-----------------------------------------------------------------------------
Step(h) ==
    \/ Take(h) \/ LockRow(h) \/ TryCode(h) \/ CheckOrder(h) \/ References(h)
    \/ FindStudent(h) \/ NumberStudent(h) \/ CheckDuplicate(h) \/ WriteRow(h)
    \/ RefuseSchedule(h) \/ ReadSchedule(h) \/ ReplaceSchedule(h) \/ AbortSchedule(h)
    \/ Commit(h) \/ Abort(h) \/ Fail(h) \/ DeadlockVictim(h)

Next ==
    \/ \E h \in Handlers, q \in Requests : Begin(h, q)
    \/ \E x \in Fragile : Delete(x)
    \/ \E p \in SlotPushes : PushSlot(p)
    \/ \E h \in Handlers : Step(h)

Spec == Init /\ [][Next]_vars

-----------------------------------------------------------------------------
(* Properties.                                                             *)

(* The state is well formed, and no two indexed rows hold one key.         *)
ImportsTypeOK ==
    /\ row \in [Ids -> KeyedRows \cup StudentRows \cup {NoRow}]
    /\ counter \in 0 .. MaxCode
    /\ lock \in [Ids \cup UniqueKeys \cup {Counter} -> Handlers \cup {Nobody}]
    /\ \A h \in Handlers : drew[h] # 0 => lock[Counter] = h /\ drew[h] \in counter + 1 .. MaxCode
    /\ OneHolder(row) /\ OneRowADay(slot)

(* A unique index ends a request only for a reason the code did not look   *)
(* at, although its lookups take no lock: the key was committed by another *)
(* request since the lookup, a deleted student still has the code, or the  *)
(* row of an import got its code from the counter and somebody else had    *)
(* been given that code by hand.  It never collides with its own rows      *)
(* otherwise, nor with a key the lookup could have seen.                   *)
CollisionsExplained ==
    \A h \in Handlers : Collides(h) =>
        \A y \in Holders(h, target[h], NewRow(h)) :
            \/ y \in news[h]
            \/ y \in Students /\ View(h, y).deleted
            \/ req[h].kind = "students" /\ Line(h).key = NoCode

(* What an import reports is what it commits.  It has written nothing but  *)
(* the records it announces, except students whose schedule it refused     *)
(* after writing them; and each row counted as imported is stored as the   *)
(* file says, unless a later row of the file overwrote it: one whose name  *)
(* makes the same id, or one that names the code the counter gave it.  A   *)
(* student's schedule is stored as the file says but for three gaps of     *)
(* ReplaceStudentSchedule: a day whose own row the clients had moved to    *)
(* another weekday may be deleted again, a row hidden by another of its    *)
(* weekday stays, and so does a row pushed after the import had read them. *)
Shows(r, line) ==
    /\ ~r.deleted
    /\ "club" \in DOMAIN r => r.club = line.club
    /\ line.key # NoCode => r.key = line.key

ShowsDays(table, x, days, before, unseen) ==
    /\ \A d \in days :
          LET i == Own(x, d)
          IN \/ i \in DOMAIN table /\ OnDay(table[i], x, d)
             \/ i \in DOMAIN before /\ before[i].student = x /\ before[i].day # d
    /\ \A i \in DOMAIN table :
          table[i].student = x /\ ~table[i].deleted => table[i].day \in days \/ i \in unseen

ReportIsTrue ==
    [][\A h \in Handlers : Commit(h) /\ req[h].kind # "push" =>
          LET lines == req[h].rows
              refused == {i \in errors[h] \cap Parsed(req[h]) : req[h].kind = "students" /\ lines[i].custom}
              announced == {p[2] : p \in imported[h]}
              extra == {x \in Ids : wrote[h][x] # NoRow} \ announced
              overwrites(o, p) ==
                  /\ o > p[1]
                  /\ IF p[2] \in Students
                     THEN lines[p[1]].key = NoCode /\ lines[o].key = row'[p[2]].key
                     ELSE <<o, p[2]>> \in imported[h]
          IN /\ extra \subseteq Students
             /\ Cardinality(extra) <= Cardinality(refused)
             /\ \A p \in imported[h] :
                   \/ /\ Shows(row'[p[2]], lines[p[1]])
                      /\ p[2] \in Students => ShowsDays(slot', p[2], lines[p[1]].days,
                                                       slot, hidden[h] \cup since[h])
                   \/ \E o \in DOMAIN lines : overwrites(o, p)]_vars
=============================================================================
