-------------------------- MODULE AttendanceProofs --------------------------
(***************************************************************************)
(* Theorems about Attendance, for any number of requests that overlap,     *)
(* sessions, records and students, whatever actions the requests hold.     *)
(***************************************************************************)
EXTENDS Attendance, FiniteSetTheorems, WellFoundedInduction, TLAPS

Acting == {"record", "session", "write", "records", "messages", "save"}
Labels == {"idle", "next", "club", "build"} \cup Acting

Empty == [x \in Ids |-> NoRow]

(* Every id holds a row of its own table, or none. *)
Fits(x, v) ==
    /\ x \in SessionIds => v \in SessionRows
    /\ x \in RecordIds => v \in RecordRows
    /\ x \in MessageIds => v \in MessageRows
Tabled(f) ==
    /\ f \in [Ids -> Rows \cup {NoRow}]
    /\ \A x \in Ids : f[x] = NoRow \/ Fits(x, f[x])

TypesOK ==
    /\ today \in Days
    /\ standing \in [Clubs \cup Students -> {"active", "inactive", "deleted"}]
    /\ pushed \subseteq Clubs \cup Students \cup MessageIds
    /\ Tabled(row)
    /\ lock \in [Clubs \cup Ids -> Handlers \cup {Nobody}]
    /\ pc \in [Handlers -> Labels]
    /\ req \in [Handlers -> Requests]
    /\ pos \in [Handlers -> Nat \ {0}]
    /\ day \in [Handlers -> Days]
    /\ seen \in [Handlers -> SessionRows \cup RecordRows \cup {NoRow}]
    /\ wrote = [h \in Handlers |-> wrote[h]] /\ \A h \in Handlers : Tabled(wrote[h])
    /\ saved = [h \in Handlers |-> saved[h]]

(* A handler is where its request leads. *)
HandlerOK(h) ==
    /\ pc[h] \in {"club", "build"} => req[h].kind = "create"
    /\ pc[h] \in {"idle", "club", "build"} => wrote[h] = Empty
    /\ pc[h] \in Acting => req[h].kind = "actions" /\ pos[h] \in 1 .. Len(req[h].actions)

(* A row is written under its lock, and the locks go with the transaction. *)
LocksOK(h) ==
    /\ \A x \in Ids : wrote[h][x] # NoRow => lock[x] = h
    /\ pc[h] = "idle" => \A x \in Clubs \cup Ids : lock[x] # h

(* What an action has loaded is locked and up to date. *)
LoadedOK(h) ==
    LET a == Act(h)
    IN /\ pc[h] = "record" => a.type \in RecordActions
       /\ pc[h] \in {"session", "write"} /\ a.type \in RecordActions =>
              /\ lock[a.rec] = h
              /\ seen[h] = View(h, a.rec) /\ seen[h] # NoRow /\ seen[h].session = a.session
       /\ pc[h] = "write" => a.type # "mark_all_present"
       /\ pc[h] = "write" /\ a.type # "create_session" =>
              lock[a.session] = h /\ View(h, a.session) # NoRow
       /\ pc[h] = "write" /\ a.type \in SessionActions \ {"create_session"} =>
              seen[h] = View(h, a.session)
       /\ pc[h] = "records" =>
              /\ a.type \in {"create_session", "delete_session", "mark_all_present"}
              /\ lock[a.session] = h /\ View(h, a.session) # NoRow
       /\ pc[h] = "messages" => a.type \in {"delete_session", "set_record_note"}

TypeInv ==
    /\ TypesOK
    /\ \A h \in Handlers : HandlerOK(h) /\ LocksOK(h) /\ LoadedOK(h)

(* Records: their session is locked by whoever writes them, and a handler  *)
(* that sees one of an inactive session has deleted it, has not touched a  *)
(* session that is inactive anyway, or is about to delete it.              *)
Deleting(h, x, labels) ==
    pc[h] \in labels /\ Act(h).type = "delete_session" /\ Act(h).session = x

SessionLocked(h) ==
    \A r \in RecordIds : wrote[h][r] # NoRow => lock[wrote[h][r].session] = h
Left(h, r, x) ==
    IF wrote[h][r] # NoRow THEN wrote[h][r].deleted ELSE ~Active(row[x])
Follows(h) ==
    \A r \in RecordIds, x \in SessionIds :
        View(h, r) # NoRow /\ View(h, r).session = x /\ ~ActiveIn(h, x) =>
            Left(h, r, x) \/ Deleting(h, x, {"records"}) \/ Buries(h, x)

RecordsInv ==
    /\ TypeInv
    /\ \A h \in Handlers : SessionLocked(h) /\ Follows(h)

(* Messages: a transaction only deletes them; it keeps the lock of the     *)
(* message that made it give up, which names somebody a push has deleted.  *)
Gone ==
    \A x \in Clubs \cup Students : standing[x] = "deleted" => x \in pushed
OnlyDeletes(h) ==
    \A m \in MessageIds : wrote[h][m] # NoRow => wrote[h][m].deleted /\ row[m] # NoRow
Stuck(h, x) ==
    \E n \in MessageIds :
        /\ lock[n] = h /\ Active(row[n]) /\ row[n].session = x
        /\ {row[n].student, row[n].club} \cap pushed # {}
Excused(h, m, x) ==
    \/ ~Active(row[x]) \/ m \in pushed
    \/ Deleting(h, x, {"records", "messages"}) \/ Buries(h, x) \/ Stuck(h, x)
MessagesOK(h) ==
    \A m \in MessageIds, x \in SessionIds :
        ActiveIn(h, m) /\ View(h, m).session = x /\ ~ActiveIn(h, x) => Excused(h, m, x)

MessagesInv ==
    /\ TypeInv
    /\ Gone
    /\ \A h \in Handlers : OnlyDeletes(h) /\ MessagesOK(h)

(* CreateAttendanceSession: from the lock of the club to the insert no     *)
(* other transaction has a session that is new in the club.                *)
CreateOK(h) ==
    pc[h] = "build" => lock[req[h].club] = h /\ Sharers(req[h].club) = {}

CreateInv ==
    /\ TypeInv
    /\ \A h \in Handlers : CreateOK(h)

(* What a transaction has written so far. *)
FieldsAt(h, x, v) ==
    v # NoRow /\ row[x] # NoRow =>
        \A field \in DOMAIN row[x] :
            v[field] # row[x][field] => \E type \in Types(h) : field \in FieldsOf(type)
FieldsOK(h) == \A x \in SessionIds \cup RecordIds : FieldsAt(h, x, wrote[h][x])

ReopensAt(h, x, v) ==
    /\ v # NoRow /\ ~v.deleted /\ v.status = "draft"
    /\ row[x] # NoRow /\ row[x].status = "completed"
    => row[x].date = day[h] \/ "create_session" \in Types(h)
ReopensOK(h) == \A x \in SessionIds : ReopensAt(h, x, wrote[h][x])

LeavesOK(h) ==
    req[h].kind = "actions" =>
        \A x \in Ids : wrote[h][x] # NoRow =>
            \/ saved[h] # {} \/ pc[h] = "save"
            \/ x \in SessionIds /\ Types(h) \cap {"create_session", "delete_session"} # {}
            \/ x \in RecordIds /\ Types(h) \cap {"set_record_note", "delete_session"} # {}

WritesInv ==
    /\ TypeInv
    /\ \A h \in Handlers : FieldsOK(h) /\ ReopensOK(h) /\ LeavesOK(h)

-----------------------------------------------------------------------------
(* Types.                                                                  *)
LEMMA IdsFacts ==
    /\ \A x \in SessionIds : x \in Ids /\ x \notin RecordIds /\ x \notin MessageIds
    /\ \A x \in RecordIds : x \in Ids /\ x \notin SessionIds /\ x \notin MessageIds /\ Note(x) \in MessageIds
    /\ \A x \in MessageIds : x \in Ids /\ x \notin SessionIds /\ x \notin RecordIds
    /\ \A x \in Ids : x \in SessionIds \/ x \in RecordIds \/ x \in MessageIds
    /\ \A x \in Clubs : x \notin Ids
    /\ NoRow \notin SessionRows /\ NoRow \notin RecordRows /\ NoRow \notin MessageRows
BY AttendanceAssumption DEF Ids, MessageIds, Rows

LEMMA RowFacts ==
    /\ \A x, v : x \in Ids /\ Fits(x, v) => v \in Rows /\ v # NoRow
    /\ \A v \in SessionRows : v.club \in Clubs /\ v.date \in Days /\ v.status \in SessionStatuses
                              /\ v.note \in BOOLEAN /\ v.deleted \in BOOLEAN
    /\ \A v \in RecordRows : v.session \in SessionIds /\ v.student \in Students
                             /\ v.status \in RecordStatuses /\ v.note \in BOOLEAN /\ v.deleted \in BOOLEAN
    /\ \A v \in MessageRows : v.session \in SessionIds /\ v.student \in Students /\ v.club \in Clubs
                              /\ v.deleted \in BOOLEAN
<1>1. \A x, v : x \in Ids /\ Fits(x, v) => v \in Rows /\ v # NoRow
  BY IdsFacts DEF Fits, Rows
<1>2. \A v \in SessionRows : v.club \in Clubs /\ v.date \in Days /\ v.status \in SessionStatuses
                              /\ v.note \in BOOLEAN /\ v.deleted \in BOOLEAN
  BY DEF SessionRows
<1>3. \A v \in RecordRows : v.session \in SessionIds /\ v.student \in Students
                             /\ v.status \in RecordStatuses /\ v.note \in BOOLEAN /\ v.deleted \in BOOLEAN
  BY DEF RecordRows
<1>4. \A v \in MessageRows : v.session \in SessionIds /\ v.student \in Students /\ v.club \in Clubs
                              /\ v.deleted \in BOOLEAN
  BY DEF MessageRows
<1> QED
  BY <1>1, <1>2, <1>3, <1>4

(* What a handler sees. *)
LEMMA ViewType ==
    ASSUME TypesOK, NEW h \in Handlers
    PROVE  /\ \A x \in SessionIds : View(h, x) \in SessionRows \cup {NoRow}
           /\ \A x \in RecordIds : View(h, x) \in RecordRows \cup {NoRow}
           /\ \A x \in MessageIds : View(h, x) \in MessageRows \cup {NoRow}
BY IdsFacts DEF TypesOK, Tabled, Fits, View

(* The action a handler works on. *)
LEMMA ActType ==
    ASSUME TypesOK, NEW h \in Handlers, HandlerOK(h), pc[h] \in Acting
    PROVE  ActionOK(Act(h)) /\ Act(h).type \in Types(h)
<1>1. req[h] \in Requests /\ RequestOK(req[h]) /\ req[h].kind = "actions"
  BY AttendanceAssumption DEF TypesOK, HandlerOK
<1>2. pos[h] \in 1 .. Len(req[h].actions) /\ ActionOK(req[h].actions[pos[h]])
  BY <1>1 DEF RequestOK, HandlerOK
<1> QED
  BY <1>1, <1>2 DEF Act, Types

(* Locks are only taken when they are free. *)
HoldsOn(h) ==
    /\ lock' \in [Clubs \cup Ids -> Handlers \cup {Nobody}]
    /\ \A x \in Clubs \cup Ids :
          /\ lock[x] = h => lock'[x] = h
          /\ \A g \in Handlers \ {h} : lock'[x] = g <=> lock[x] = g

LEMMA LockedHoldsOn ==
    ASSUME TypesOK, NEW h \in Handlers, NEW X, X \subseteq Clubs \cup Ids,
           \A x \in X : Free(h, x), lock' = Locked(h, X)
    PROVE  HoldsOn(h) /\ \A x \in X : lock'[x] = h
BY AttendanceAssumption DEF TypesOK, HoldsOn, Locked, Free

LEMMA ForUpdateHoldsOn ==
    ASSUME TypesOK, NEW h \in Handlers, NEW x \in Ids, ForUpdate(h, x)
    PROVE  HoldsOn(h) /\ (View(h, x) # NoRow => lock'[x] = h)
<1>1. CASE View(h, x) = NoRow
  BY <1>1 DEF ForUpdate, HoldsOn, TypesOK
<1>2. CASE View(h, x) # NoRow
  <2>1. lock' = Locked(h, {x}) /\ \A y \in {x} : Free(h, y)
    BY <1>2 DEF ForUpdate
  <2>2. {x} \subseteq Clubs \cup Ids
    OBVIOUS
  <2> QED
    BY <2>1, <2>2, LockedHoldsOn
<1> QED
  BY <1>1, <1>2

LEMMA StaysHoldsOn ==
    ASSUME TypesOK, NEW h \in Handlers, lock' = lock
    PROVE  HoldsOn(h)
BY DEF HoldsOn, TypesOK

-----------------------------------------------------------------------------
(* The rows that the statements write.                                     *)
TargetRows(h) == [x \in {Target(h)} |-> Changed(h)]
MarkedRows(h) ==
    [r \in RecordsOf(h, Act(h).session) \cap Act(h).targets |-> [View(h, r) EXCEPT !.status = "present"]]
DeletedRecords(h) ==
    [r \in RecordsOf(h, Act(h).session) |-> [View(h, r) EXCEPT !.deleted = TRUE]]
DeletedMessages(h) ==
    [m \in MessagesOf(h, Act(h).session) |-> [View(h, m) EXCEPT !.deleted = TRUE]]
DeletedMessage(h) ==
    [x \in {Note(Act(h).rec)} |-> [View(h, Note(Act(h).rec)) EXCEPT !.deleted = TRUE]]
Built(h) == Snapshot(req[h].club, req[h].date)

FitsAll(f) == DOMAIN f \subseteq Ids /\ \A x \in DOMAIN f : Fits(x, f[x])

LEMMA Overlaid ==
    ASSUME TypesOK, NEW h \in Handlers, NEW f, FitsAll(f), wrote' = Overlay(h, f)
    PROVE  /\ wrote' = [g \in Handlers |-> wrote'[g]] /\ \A g \in Handlers : Tabled(wrote'[g])
           /\ \A g \in Handlers \ {h} : wrote'[g] = wrote[g]
           /\ \A x \in Ids : wrote'[h][x] = IF x \in DOMAIN f THEN f[x] ELSE wrote[h][x]
<1>1. wrote'[h] = [x \in Ids |-> IF x \in DOMAIN f THEN f[x] ELSE wrote[h][x]]
  BY DEF Overlay, TypesOK
<1>2. \A g \in Handlers \ {h} : wrote'[g] = wrote[g]
  BY DEF Overlay, TypesOK
<1>3. wrote' = [g \in Handlers |-> wrote'[g]]
  BY DEF Overlay, TypesOK
<1>4. Tabled(wrote'[h])
  BY <1>1, RowFacts DEF FitsAll, TypesOK, Tabled
<1> QED
  BY <1>1, <1>2, <1>3, <1>4 DEF TypesOK

(* What WriteTarget writes: the loaded row with one field changed, or, for *)
(* create_session, a new one.                                              *)
LEMMA ChangedType ==
    ASSUME TypeInv, NEW h \in Handlers, pc[h] = "write"
    PROVE  /\ Act(h).type \in RecordActions =>
                /\ Target(h) = Act(h).rec /\ Changed(h) \in RecordRows
                /\ Changed(h).session = Act(h).session /\ seen[h] \in RecordRows
           /\ Act(h).type \in SessionActions =>
                /\ Target(h) = Act(h).session /\ Changed(h) \in SessionRows
                /\ Act(h).type # "create_session" => seen[h] \in SessionRows
           /\ Act(h).type \in RecordActions \/ Act(h).type \in SessionActions
           /\ FitsAll(TargetRows(h))
<1> DEFINE a == Act(h)
<1>1. ActionOK(a) /\ LoadedOK(h)
  BY ActType DEF TypeInv, Acting
<1>2. CASE a.type \in RecordActions
  <2>1. seen[h] \in RecordRows /\ seen[h].session = a.session /\ a.rec \in RecordIds
    BY <1>1, <1>2, ViewType DEF LoadedOK, ActionOK, TypeInv
  <2>2. CASE a.type = "set_record_status"
    <3>1. Changed(h) = [seen[h] EXCEPT !.status = a.value] /\ a.value \in RecordStatuses
      BY <1>1, <2>2 DEF Changed, ActionOK
    <3>2. Changed(h) \in RecordRows /\ Changed(h).session = a.session
      BY <2>1, <3>1 DEF RecordRows
    <3> QED
      BY <1>2, <2>1, <3>2, IdsFacts DEF Target, FitsAll, TargetRows, Fits, RecordActions, SessionActions
  <2>3. CASE a.type = "set_record_note"
    <3>1. Changed(h) = [seen[h] EXCEPT !.note = a.value] /\ a.value \in BOOLEAN
      BY <1>1, <2>3 DEF Changed, ActionOK
    <3>2. Changed(h) \in RecordRows /\ Changed(h).session = a.session
      BY <2>1, <3>1 DEF RecordRows
    <3> QED
      BY <1>2, <2>1, <3>2, IdsFacts DEF Target, FitsAll, TargetRows, Fits, RecordActions, SessionActions
  <2> QED
    BY <1>2, <2>2, <2>3 DEF RecordActions
<1>3. CASE a.type \in SessionActions
  <2>1. a.session \in SessionIds /\ a.club \in Clubs /\ a.date \in Days /\ Target(h) = a.session
    BY <1>1, <1>3 DEF ActionOK, Target, RecordActions, SessionActions
  <2>2. a.type # "create_session" => seen[h] \in SessionRows
    BY <1>1, <1>3, <2>1, ViewType DEF LoadedOK, TypeInv
  <2>3. Changed(h) \in SessionRows
    <3>1. CASE a.type = "create_session"
      BY <1>1, <2>1, <3>1 DEF Changed, SessionRows, ActionOK
    <3>2. CASE a.type = "delete_session"
      BY <2>2, <3>2 DEF Changed, SessionRows
    <3>3. CASE a.type = "set_session_status"
      BY <1>1, <2>2, <3>3 DEF Changed, SessionRows, ActionOK
    <3>4. CASE a.type = "set_session_note"
      BY <1>1, <2>2, <3>4 DEF Changed, SessionRows, ActionOK
    <3> QED
      BY <1>1, <1>3, <3>1, <3>2, <3>3, <3>4 DEF LoadedOK, SessionActions
  <2> QED
    BY <1>3, <2>1, <2>2, <2>3, IdsFacts DEF FitsAll, TargetRows, Fits, RecordActions, SessionActions
<1> QED
  BY <1>1, <1>2, <1>3 DEF ActionOK

LEMMA PayloadType ==
    ASSUME TypesOK, NEW h \in Handlers, ActionOK(Act(h))
    PROVE  /\ FitsAll(PayloadRows(h)) /\ DOMAIN PayloadRows(h) \subseteq RecordIds
           /\ \A r \in DOMAIN PayloadRows(h) : PayloadRows(h)[r] \in RecordRows
<1>1. DOMAIN PayloadRows(h) \subseteq RecordIds
  BY DEF PayloadRows, ActionOK
<1>2. ASSUME NEW r \in DOMAIN PayloadRows(h) PROVE PayloadRows(h)[r] \in RecordRows
  <2> DEFINE p == CHOOSE p \in Act(h).records : p.rec = r
  <2>1. p \in Act(h).records
    BY <1>2 DEF PayloadRows
  <2>2. PayloadRows(h)[r] = PayloadRow(p)
    BY <1>2 DEF PayloadRows
  <2>3. /\ p.session \in SessionIds /\ p.student \in Students /\ p.note \in BOOLEAN
        /\ p.status \in RecordStatuses /\ p.deleted \in BOOLEAN
    BY <2>1 DEF ActionOK
  <2> HIDE DEF p
  <2> QED
    BY <2>2, <2>3 DEF PayloadRow, RecordRows
<1> QED
  BY <1>1, <1>2, IdsFacts DEF FitsAll, Fits

LEMMA MarkedType ==
    ASSUME TypesOK, NEW h \in Handlers
    PROVE  /\ FitsAll(MarkedRows(h)) /\ FitsAll(DeletedRecords(h))
           /\ DOMAIN MarkedRows(h) \subseteq RecordIds /\ DOMAIN DeletedRecords(h) \subseteq RecordIds
           /\ \A r \in DOMAIN MarkedRows(h) :
                 /\ View(h, r) \in RecordRows /\ View(h, r).session = Act(h).session
                 /\ MarkedRows(h)[r] = [View(h, r) EXCEPT !.status = "present"]
                 /\ MarkedRows(h)[r] \in RecordRows
           /\ \A r \in DOMAIN DeletedRecords(h) :
                 /\ View(h, r) \in RecordRows /\ View(h, r).session = Act(h).session
                 /\ DeletedRecords(h)[r] = [View(h, r) EXCEPT !.deleted = TRUE]
                 /\ DeletedRecords(h)[r] \in RecordRows
<1>1. \A r \in RecordsOf(h, Act(h).session) :
          r \in RecordIds /\ View(h, r) \in RecordRows /\ View(h, r).session = Act(h).session
  BY ViewType DEF RecordsOf
<1>2. \A v \in RecordRows : [v EXCEPT !.status = "present"] \in RecordRows /\ [v EXCEPT !.deleted = TRUE] \in RecordRows
  BY DEF RecordRows, RecordStatuses
<1> QED
  BY <1>1, <1>2, IdsFacts DEF MarkedRows, DeletedRecords, FitsAll, Fits

LEMMA DeletedMessagesType ==
    ASSUME TypesOK, NEW h \in Handlers
    PROVE  /\ FitsAll(DeletedMessages(h)) /\ DOMAIN DeletedMessages(h) \subseteq MessageIds
           /\ \A m \in DOMAIN DeletedMessages(h) :
                 /\ View(h, m) \in MessageRows /\ ActiveIn(h, m) /\ View(h, m).session = Act(h).session
                 /\ DeletedMessages(h)[m] = [View(h, m) EXCEPT !.deleted = TRUE]
                 /\ DeletedMessages(h)[m] \in MessageRows
<1>1. \A m \in MessagesOf(h, Act(h).session) :
          /\ m \in MessageIds /\ View(h, m) \in MessageRows /\ ActiveIn(h, m)
          /\ View(h, m).session = Act(h).session
  BY ViewType DEF MessagesOf, ActiveIn, Active
<1>2. \A v \in MessageRows : [v EXCEPT !.deleted = TRUE] \in MessageRows
  BY DEF MessageRows
<1> QED
  BY <1>1, <1>2, IdsFacts DEF DeletedMessages, FitsAll, Fits

LEMMA DeletedMessageType ==
    ASSUME TypesOK, NEW h \in Handlers, Act(h).rec \in RecordIds, View(h, Note(Act(h).rec)) # NoRow
    PROVE  /\ FitsAll(DeletedMessage(h)) /\ Note(Act(h).rec) \in MessageIds
           /\ View(h, Note(Act(h).rec)) \in MessageRows
           /\ [View(h, Note(Act(h).rec)) EXCEPT !.deleted = TRUE] \in MessageRows
<1>1. Note(Act(h).rec) \in MessageIds /\ View(h, Note(Act(h).rec)) \in MessageRows
  BY ViewType, IdsFacts
<1>2. \A v \in MessageRows : [v EXCEPT !.deleted = TRUE] \in MessageRows
  BY DEF MessageRows
<1> QED
  BY <1>1, <1>2, IdsFacts DEF DeletedMessage, FitsAll, Fits

(* The new session and its records. *)
LEMMA BuiltType ==
    ASSUME TypesOK, NEW h \in Handlers, req[h].kind = "create", Unused # {}
    PROVE  /\ FitsAll(Built(h))
           /\ \E x \in NewSessions :
                /\ x \in DOMAIN Built(h)
                /\ Built(h)[x] = [club |-> req[h].club, date |-> req[h].date, status |-> "draft",
                                  note |-> FALSE, deleted |-> FALSE]
                /\ Built(h)[x] \in SessionRows
                /\ \A y \in DOMAIN Built(h) : y = x \/ y \in RecordIds
                /\ \A r \in RecordIds : r \in DOMAIN Built(h) =>
                      Built(h)[r] \in RecordRows /\ Built(h)[r].session = x
<1> DEFINE x == CHOOSE y \in Unused : TRUE
           st(y) == y[2]
<1>1. x \in NewSessions /\ x \in SessionIds
  BY DEF Unused, SessionIds
<1>2. req[h].club \in Clubs /\ req[h].date \in Days
  BY AttendanceAssumption DEF TypesOK, RequestOK
<1>3. Expected(req[h].club, req[h].date) \subseteq Students
  BY DEF Expected, ActiveOf
<1>4. \A y \in {x} \X Expected(req[h].club, req[h].date) : y \in RecordIds /\ y[2] \in Students
  BY <1>1, <1>3, AttendanceAssumption
<1>5. x \notin RecordIds
  BY <1>1, IdsFacts
<1>6. Built(h) = [y \in {x} \cup ({x} \X Expected(req[h].club, req[h].date)) |->
                   IF y = x
                   THEN [club |-> req[h].club, date |-> req[h].date, status |-> "draft",
                         note |-> FALSE, deleted |-> FALSE]
                   ELSE [session |-> x, student |-> y[2], status |-> "unmarked",
                         note |-> FALSE, deleted |-> FALSE]]
  BY DEF Built, Snapshot
<1> HIDE DEF x
<1>7. Built(h)[x] = [club |-> req[h].club, date |-> req[h].date, status |-> "draft",
                     note |-> FALSE, deleted |-> FALSE] /\ x \in DOMAIN Built(h)
  BY <1>6
<1>8. Built(h)[x] \in SessionRows
  BY <1>2, <1>7 DEF SessionRows, SessionStatuses
<1>9. ASSUME NEW r \in DOMAIN Built(h), r # x
      PROVE  r \in RecordIds /\ Built(h)[r] \in RecordRows /\ Built(h)[r].session = x
  <2>1. r \in {x} \X Expected(req[h].club, req[h].date)
    BY <1>6, <1>9
  <2>2. Built(h)[r] = [session |-> x, student |-> r[2], status |-> "unmarked",
                       note |-> FALSE, deleted |-> FALSE]
    BY <1>6, <1>9
  <2> QED
    BY <1>1, <1>4, <2>1, <2>2 DEF RecordRows, RecordStatuses
<1>10. FitsAll(Built(h))
  BY <1>1, <1>8, <1>9, IdsFacts DEF FitsAll, Fits
<1> QED
  BY <1>1, <1>5, <1>7, <1>8, <1>9, <1>10

-----------------------------------------------------------------------------
(* What a step of a handler leaves alone.                                  *)
Works(h) ==
    \/ Take(h) \/ LockRecord(h) \/ LockSession(h) \/ WriteTarget(h)
    \/ CreateRecords(h) \/ MarkRecords(h) \/ DeleteRecords(h) \/ DeleteMessages(h)
    \/ MirrorNote(h) \/ Save(h) \/ LockClub(h) \/ BuildSession(h)

Same(g) ==
    /\ pc'[g] = pc[g] /\ req'[g] = req[g] /\ pos'[g] = pos[g] /\ day'[g] = day[g]
    /\ seen'[g] = seen[g] /\ wrote'[g] = wrote[g] /\ saved'[g] = saved[g]

Framed(h) ==
    /\ UNCHANGED <<today, standing, pushed, row, req, day>>
    /\ \A g \in Handlers \ {h} : Same(g)
    /\ HoldsOn(h)

(* The three ways a statement ends: refused or passed over, *)
LEMMA MovesOn ==
    ASSUME TypesOK, NEW h \in Handlers, MoveOn(h), HoldsOn(h), UNCHANGED <<today, standing, pushed, row, req>>
    PROVE  TypesOK' /\ Framed(h) /\ pc'[h] = "next" /\ seen'[h] = NoRow
<1>1. pc' = [pc EXCEPT ![h] = "next"] /\ pos' = [pos EXCEPT ![h] = @ + 1]
      /\ seen' = [seen EXCEPT ![h] = NoRow] /\ UNCHANGED <<day, wrote, saved>>
  BY DEF MoveOn
<1>2. pc'[h] = "next" /\ seen'[h] = NoRow /\ \A g \in Handlers \ {h} : Same(g)
  BY <1>1 DEF TypesOK, Same
<1>3. pc' \in [Handlers -> Labels] /\ pos' \in [Handlers -> Nat \ {0}]
      /\ seen' \in [Handlers -> SessionRows \cup RecordRows \cup {NoRow}]
  BY <1>1 DEF TypesOK, Labels
<1>4. TypesOK'
  BY <1>1, <1>3 DEF TypesOK, HoldsOn, Tabled
<1> QED
  BY <1>1, <1>2, <1>4 DEF Framed

(* done without writing, *)
LEMMA Goes ==
    ASSUME TypesOK, NEW h \in Handlers, NEW l \in Labels, pc' = [pc EXCEPT ![h] = l],
           UNCHANGED <<pos, day, wrote, saved>>, HoldsOn(h), UNCHANGED <<today, standing, pushed, row, req>>,
           NEW s \in SessionRows \cup RecordRows \cup {NoRow}, seen' = [seen EXCEPT ![h] = s]
    PROVE  TypesOK' /\ Framed(h) /\ pc'[h] = l /\ seen'[h] = s
<1>2. pc'[h] = l /\ seen'[h] = s /\ \A g \in Handlers \ {h} : Same(g)
  BY DEF TypesOK, Same
<1>3. pc' \in [Handlers -> Labels]
      /\ seen' \in [Handlers -> SessionRows \cup RecordRows \cup {NoRow}]
  BY DEF TypesOK
<1>4. TypesOK'
  BY <1>3 DEF TypesOK, HoldsOn, Tabled
<1> QED
  BY <1>2, <1>4 DEF Framed

(* or with rows written. *)
LEMMA Writes ==
    ASSUME TypesOK, NEW h \in Handlers, NEW f, FitsAll(f), NEW l \in Labels,
           pc' = [pc EXCEPT ![h] = l], wrote' = Overlay(h, f), HoldsOn(h),
           UNCHANGED <<pos, day, seen, saved>>, UNCHANGED <<today, standing, pushed, row, req>>
    PROVE  /\ TypesOK' /\ Framed(h) /\ pc'[h] = l
           /\ \A x \in Ids : wrote'[h][x] = IF x \in DOMAIN f THEN f[x] ELSE wrote[h][x]
           /\ \A x \in DOMAIN f : f[x] # NoRow
<1>1. /\ wrote' = [g \in Handlers |-> wrote'[g]] /\ \A g \in Handlers : Tabled(wrote'[g])
      /\ \A g \in Handlers \ {h} : wrote'[g] = wrote[g]
      /\ \A x \in Ids : wrote'[h][x] = IF x \in DOMAIN f THEN f[x] ELSE wrote[h][x]
  BY Overlaid
<1>2. pc'[h] = l /\ pc' \in [Handlers -> Labels] /\ \A g \in Handlers \ {h} : Same(g)
  BY <1>1 DEF TypesOK, Same
<1>3. TypesOK'
  BY <1>1, <1>2 DEF TypesOK, HoldsOn, Tabled
<1>4. \A x \in DOMAIN f : f[x] # NoRow
  BY RowFacts DEF FitsAll
<1> QED
  BY <1>1, <1>2, <1>3, <1>4 DEF Framed

LEMMA Puts ==
    ASSUME TypesOK, NEW h \in Handlers, NEW f, FitsAll(f), NEW l \in Labels, Put(h, f, l),
           UNCHANGED <<today, standing, pushed, row, req>>
    PROVE  /\ TypesOK' /\ Framed(h) /\ pc'[h] = l /\ UNCHANGED <<pos, seen, saved>>
           /\ wrote' = Overlay(h, f)
           /\ \A x \in Ids : wrote'[h][x] = IF x \in DOMAIN f THEN f[x] ELSE wrote[h][x]
           /\ \A x \in DOMAIN f : lock'[x] = h /\ f[x] # NoRow
<1>1. /\ \A x \in DOMAIN f : Free(h, x) /\ lock' = Locked(h, DOMAIN f)
      /\ wrote' = Overlay(h, f) /\ pc' = [pc EXCEPT ![h] = l] /\ UNCHANGED <<pos, day, seen, saved>>
  BY DEF Put
<1>2. DOMAIN f \subseteq Clubs \cup Ids
  BY DEF FitsAll
<1>3. lock' = Locked(h, DOMAIN f) /\ \A x \in DOMAIN f : Free(h, x)
  BY DEF Put
<1>4. HoldsOn(h) /\ \A x \in DOMAIN f : lock'[x] = h
  BY <1>2, <1>3, LockedHoldsOn
<1> QED
  BY <1>1, <1>4, Writes

(* A handler that nobody disturbs. *)
LEMMA SameKeeps ==
    ASSUME TypesOK, NEW g \in Handlers, HandlerOK(g), LocksOK(g), LoadedOK(g), Same(g),
           \A x \in Clubs \cup Ids : lock'[x] = g <=> lock[x] = g,
           \A x \in Ids : lock[x] = g => row'[x] = row[x]
    PROVE  HandlerOK(g)' /\ LocksOK(g)' /\ LoadedOK(g)'
<1>1. HandlerOK(g)'
  BY DEF HandlerOK, Same
<1>2. LocksOK(g)'
  BY DEF LocksOK, Same
<1>3. \A x \in Ids : lock[x] = g => View(g, x)' = View(g, x)
  BY DEF View, Same
<1>4. Act(g)' = Act(g)
  BY DEF Act, Same
<1>5. pc[g] \in Acting => Act(g).rec \in Ids /\ Act(g).session \in Ids
  BY ActType, IdsFacts DEF ActionOK
<1>6. pc'[g] = pc[g] /\ seen'[g] = seen[g]
  BY DEF Same
<1>7. LoadedOK(g)'
  BY <1>3, <1>4, <1>5, <1>6 DEF LoadedOK, Acting
<1> QED
  BY <1>1, <1>2, <1>7

LEMMA FramedKeeps ==
    ASSUME TypeInv, NEW h \in Handlers, Framed(h), TypesOK', HandlerOK(h)', LocksOK(h)', LoadedOK(h)'
    PROVE  TypeInv'
<1>1. ASSUME NEW g \in Handlers, g # h PROVE HandlerOK(g)' /\ LocksOK(g)' /\ LoadedOK(g)'
  <2>1. TypesOK /\ HandlerOK(g) /\ LocksOK(g) /\ LoadedOK(g)
    BY DEF TypeInv
  <2>2. Same(g) /\ \A x \in Clubs \cup Ids : lock'[x] = g <=> lock[x] = g
    BY <1>1 DEF Framed, HoldsOn
  <2>3. \A x \in Ids : lock[x] = g => row'[x] = row[x]
    BY DEF Framed
  <2> QED
    BY <2>1, <2>2, <2>3, SameKeeps
<1> QED
  BY <1>1 DEF TypeInv

-----------------------------------------------------------------------------
(* The type invariant, statement by statement.                             *)
LEMMA MoveOnKeeps ==
    ASSUME TypeInv, NEW h \in Handlers, MoveOn(h), HoldsOn(h), UNCHANGED <<today, standing, pushed, row, req>>
    PROVE  TypeInv'
<1>1. TypesOK' /\ Framed(h) /\ pc'[h] = "next"
  BY MovesOn DEF TypeInv
<1>2. HandlerOK(h)' /\ LoadedOK(h)'
  BY <1>1 DEF HandlerOK, LoadedOK, Acting
<1>3. wrote' = wrote
  BY DEF MoveOn
<1>4. LocksOK(h)'
  BY <1>1, <1>3 DEF LocksOK, TypeInv, HoldsOn
<1> QED
  BY <1>1, <1>2, <1>4, FramedKeeps

(* After a statement that wrote nothing and went on with the same action. *)
LEMMA GoKeeps ==
    ASSUME TypeInv, NEW h \in Handlers, NEW l \in Labels, pc' = [pc EXCEPT ![h] = l],
           UNCHANGED <<pos, day, wrote, saved>>, HoldsOn(h), UNCHANGED <<today, standing, pushed, row, req>>,
           NEW s \in SessionRows \cup RecordRows \cup {NoRow}, seen' = [seen EXCEPT ![h] = s],
           l \in Acting, req[h].kind = "actions", pos[h] \in 1 .. Len(req[h].actions),
           LoadedOK(h)'
    PROVE  TypeInv'
<1>1. TypesOK' /\ Framed(h) /\ pc'[h] = l
  BY Goes DEF TypeInv
<1>2. HandlerOK(h)'
  BY <1>1 DEF HandlerOK, Framed, Acting
<1>3. LocksOK(h)'
  BY <1>1 DEF LocksOK, TypeInv, HoldsOn, Acting
<1> QED
  BY <1>1, <1>2, <1>3, FramedKeeps

LEMMA PutKeeps ==
    ASSUME TypeInv, NEW h \in Handlers, NEW f, FitsAll(f), NEW l \in Labels \ {"idle", "club", "build"},
           Put(h, f, l), UNCHANGED <<today, standing, pushed, row, req>>,
           l \in Acting => pc[h] \in Acting, LoadedOK(h)'
    PROVE  TypeInv'
<1>1. /\ TypesOK' /\ Framed(h) /\ pc'[h] = l /\ UNCHANGED <<pos, seen, saved>>
      /\ \A x \in Ids : wrote'[h][x] = IF x \in DOMAIN f THEN f[x] ELSE wrote[h][x]
      /\ \A x \in DOMAIN f : lock'[x] = h /\ f[x] # NoRow
  BY Puts DEF TypeInv
<1>2. HandlerOK(h)'
  BY <1>1 DEF HandlerOK, Framed, TypeInv
<1>3. LocksOK(h)'
  BY <1>1 DEF LocksOK, TypeInv, Framed, HoldsOn
<1> QED
  BY <1>1, <1>2, <1>3, FramedKeeps

LEMMA TakeKeeps ==
    ASSUME TypeInv, NEW h \in Handlers, Take(h)
    PROVE  TypeInv'
<1>1. pc[h] = "next" /\ ~Done(h) /\ UNCHANGED <<today, standing, pushed, row, processed, lock, received, req>>
  BY DEF Take
<1>2. HoldsOn(h)
  BY <1>1, StaysHoldsOn DEF TypeInv
<1>3. CASE MoveOn(h)
  BY <1>1, <1>2, <1>3, MoveOnKeeps
<1>4. CASE Go(h, IF Act(h).type \in RecordActions THEN "record" ELSE "session")
  <2> DEFINE l == IF Act(h).type \in RecordActions THEN "record" ELSE "session"
  <2>1. l \in Labels /\ l \in Acting
    BY DEF Labels, Acting
  <2>2. req[h].kind = "actions" /\ pos[h] \in 1 .. Len(req[h].actions)
    <3>1. req[h] \in Requests /\ RequestOK(req[h]) /\ pos[h] \in Nat \ {0}
      BY AttendanceAssumption DEF TypeInv, TypesOK
    <3>2. req[h].kind # "create" /\ ~(pos[h] > Len(req[h].actions))
      BY <1>1 DEF Done
    <3> QED
      BY <3>1, <3>2 DEF RequestOK
  <2>3. pc' = [pc EXCEPT ![h] = l] /\ UNCHANGED <<pos, day, seen, wrote, saved>>
    BY <1>4 DEF Go, txVars
  <2>4. pc'[h] = l /\ Act(h)' = Act(h)
    BY <1>1, <2>3 DEF TypeInv, TypesOK, Act
  <2>5. LoadedOK(h)'
    BY <2>4 DEF LoadedOK
  <2>6. seen[h] \in SessionRows \cup RecordRows \cup {NoRow} /\ seen' = [seen EXCEPT ![h] = seen[h]]
    BY <2>3 DEF TypeInv, TypesOK
  <2> HIDE DEF l
  <2> QED
    BY <1>1, <1>2, <2>1, <2>2, <2>3, <2>5, <2>6, GoKeeps
<1> QED
  BY <1>3, <1>4 DEF Take

LEMMA LockRecordKeeps ==
    ASSUME TypeInv, NEW h \in Handlers, LockRecord(h)
    PROVE  TypeInv'
<1> DEFINE a == Act(h)
           r == View(h, a.rec)
<1>1. pc[h] = "record" /\ ForUpdate(h, a.rec) /\ UNCHANGED <<today, standing, pushed, row, processed, received, req>>
  BY DEF LockRecord
<1>2. ActionOK(a) /\ LoadedOK(h) /\ HandlerOK(h)
  BY <1>1, ActType DEF TypeInv, Acting
<1>3. a.rec \in RecordIds /\ a.rec \in Ids
  BY <1>2, IdsFacts DEF ActionOK
<1>4. HoldsOn(h) /\ (r # NoRow => lock'[a.rec] = h)
  BY <1>1, <1>3, ForUpdateHoldsOn DEF TypeInv
<1>5. CASE MoveOn(h)
  BY <1>1, <1>4, <1>5, MoveOnKeeps
<1>6. CASE /\ r # NoRow /\ r.session = a.session
           /\ pc' = [pc EXCEPT ![h] = "session"] /\ seen' = [seen EXCEPT ![h] = r]
           /\ UNCHANGED <<pos, day, wrote, saved>>
  <2>1. pc'[h] = "session" /\ seen'[h] = r /\ Act(h)' = a /\ View(h, a.rec)' = r
    BY <1>1, <1>6 DEF TypeInv, TypesOK, Act, View
  <2>2. LoadedOK(h)'
    BY <1>4, <1>6, <2>1 DEF LoadedOK
  <2>3. r \in SessionRows \cup RecordRows \cup {NoRow}
    BY <1>3, ViewType DEF TypeInv
  <2>4. req[h].kind = "actions" /\ pos[h] \in 1 .. Len(req[h].actions)
    BY <1>1, <1>2 DEF HandlerOK, Acting
  <2>5. "session" \in Labels /\ "session" \in Acting
    BY DEF Labels, Acting
  <2> HIDE DEF r, a
  <2> QED
    BY <1>1, <1>4, <1>6, <2>2, <2>3, <2>4, <2>5, GoKeeps
<1> QED
  BY <1>5, <1>6 DEF LockRecord

LEMMA LockSessionKeeps ==
    ASSUME TypeInv, NEW h \in Handlers, LockSession(h)
    PROVE  TypeInv'
<1> DEFINE a == Act(h)
           x == View(h, a.session)
           l == AfterSession(h)
           s == IF a.type \in RecordActions THEN seen[h] ELSE x
<1>1. pc[h] = "session" /\ ForUpdate(h, a.session)
      /\ UNCHANGED <<today, standing, pushed, row, processed, received, req>>
  BY DEF LockSession
<1>2. ActionOK(a) /\ LoadedOK(h) /\ HandlerOK(h)
  BY <1>1, ActType DEF TypeInv, Acting
<1>3. a.session \in SessionIds /\ a.session \in Ids
  BY <1>2, IdsFacts DEF ActionOK
<1>4. HoldsOn(h) /\ (x # NoRow => lock'[a.session] = h)
  BY <1>1, <1>3, ForUpdateHoldsOn DEF TypeInv
<1>5. CASE MoveOn(h)
  BY <1>1, <1>4, <1>5, MoveOnKeeps
<1>6. CASE /\ ~SessionUnfit(h, x)
           /\ pc' = [pc EXCEPT ![h] = l]
           /\ seen' = [seen EXCEPT ![h] = IF a.type \in RecordActions THEN @ ELSE x]
           /\ UNCHANGED <<pos, day, wrote, saved>>
  <2>1. seen' = [seen EXCEPT ![h] = s]
    BY <1>6 DEF TypeInv, TypesOK
  <2>2. l \in {"write", "save", "records"} /\ (l = "write" <=> a.type # "mark_all_present")
    BY DEF AfterSession
  <2>3. l \in Labels /\ l \in Acting
    BY <2>2 DEF Labels, Acting
  <2>4. s \in SessionRows \cup RecordRows \cup {NoRow}
    BY <1>3, ViewType DEF TypeInv, TypesOK
  <2>5. a.type # "create_session" => x # NoRow
    BY <1>6 DEF SessionUnfit
  <2>6. pc'[h] = l /\ seen'[h] = s /\ Act(h)' = a /\ \A y \in Ids : View(h, y)' = View(h, y)
    BY <1>1, <1>6, <2>1 DEF TypeInv, TypesOK, Act, View
  <2>7. a.type \in RecordActions =>
          /\ lock[a.rec] = h /\ a.rec \in Ids
          /\ seen[h] = View(h, a.rec) /\ seen[h] # NoRow /\ seen[h].session = a.session
    BY <1>1, <1>2, IdsFacts DEF LoadedOK, ActionOK
  <2>8. LoadedOK(h)'
    <3> HIDE DEF l
    <3>1. pc'[h] \in {"session", "write"} /\ a.type \in RecordActions =>
              /\ lock'[a.rec] = h
              /\ seen'[h] = View(h, a.rec)' /\ seen'[h] # NoRow /\ seen'[h].session = a.session
      BY <1>4, <2>6, <2>7 DEF HoldsOn
    <3>2. pc'[h] = "write" /\ a.type # "create_session" =>
              lock'[a.session] = h /\ View(h, a.session)' # NoRow
      BY <1>3, <1>4, <2>5, <2>6
    <3>3. pc'[h] = "write" /\ a.type \in SessionActions \ {"create_session"} =>
              seen'[h] = View(h, a.session)'
      BY <1>3, <2>6 DEF SessionActions, RecordActions
    <3>4. pc'[h] = "records" =>
              /\ a.type \in {"create_session", "delete_session", "mark_all_present"}
              /\ lock'[a.session] = h /\ View(h, a.session)' # NoRow
      BY <1>3, <1>4, <2>2, <2>5, <2>6
    <3>5. (pc'[h] = "write" => a.type # "mark_all_present") /\ pc'[h] # "messages" /\ pc'[h] # "record"
      BY <2>2, <2>6
    <3> HIDE DEF a, x, s
    <3>6. Act(h)' = a
      BY <2>6
    <3> QED
      BY <3>1, <3>2, <3>3, <3>4, <3>5, <3>6 DEF LoadedOK, a
  <2>9. req[h].kind = "actions" /\ pos[h] \in 1 .. Len(req[h].actions)
    BY <1>1, <1>2 DEF HandlerOK, Acting
  <2> HIDE DEF a, x, l, s
  <2> QED
    BY <1>1, <1>4, <1>6, <2>1, <2>3, <2>4, <2>8, <2>9, GoKeeps
<1> QED
  BY <1>5, <1>6 DEF LockSession

LEMMA WriteTargetKeeps ==
    ASSUME TypeInv, NEW h \in Handlers, WriteTarget(h)
    PROVE  TypeInv'
<1> DEFINE a == Act(h)
<1>1. pc[h] = "write" /\ UNCHANGED <<today, standing, pushed, row, processed, received, req>>
  BY DEF WriteTarget
<1>2. FitsAll(TargetRows(h)) /\ (a.type \in SessionActions => Target(h) = a.session)
  BY <1>1, ChangedType
<1>3. CASE MoveOn(h) /\ UNCHANGED lock
  BY <1>1, <1>3, StaysHoldsOn, MoveOnKeeps DEF TypeInv
<1>4. CASE Put(h, TargetRows(h), AfterWrite(h))
  <2>1. AfterWrite(h) \in Labels \ {"idle", "club", "build"}
    BY DEF AfterWrite, Labels, Acting
  <2>2. /\ pc'[h] = AfterWrite(h) /\ UNCHANGED <<pos, seen, saved>>
        /\ \A x \in Ids : wrote'[h][x] = IF x \in {Target(h)} THEN TargetRows(h)[x] ELSE wrote[h][x]
        /\ \A x \in {Target(h)} : lock'[x] = h /\ TargetRows(h)[x] # NoRow
    <3> DEFINE f == TargetRows(h)
               l == AfterWrite(h)
    <3>1. DOMAIN f = {Target(h)}
      BY DEF TargetRows
    <3>2. TypesOK /\ UNCHANGED <<today, standing, pushed, row, req>> /\ l \in Labels /\ FitsAll(f) /\ Put(h, f, l)
      BY <1>1, <1>2, <1>4, <2>1 DEF TypeInv
    <3> HIDE DEF f, l
    <3>3. /\ pc'[h] = l /\ UNCHANGED <<pos, seen, saved>>
          /\ \A x \in Ids : wrote'[h][x] = IF x \in DOMAIN f THEN f[x] ELSE wrote[h][x]
          /\ \A x \in DOMAIN f : lock'[x] = h /\ f[x] # NoRow
      BY <3>2, Puts
    <3> QED
      BY <3>1, <3>3 DEF f, l
  <2>3. Act(h)' = a
    BY <1>1, <2>2 DEF Act
  <2>4. ActionOK(a) /\ a.session \in Ids
    BY <1>1, ActType, IdsFacts DEF TypeInv, Acting, ActionOK
  <2>5. AfterWrite(h) = "records" => a.type \in {"create_session", "delete_session"}
    BY DEF AfterWrite, Labels
  <2>6. AfterWrite(h) = "messages" => a.type = "set_record_note"
    BY DEF AfterWrite, Labels
  <2>7. AfterWrite(h) = "records" => lock'[a.session] = h /\ View(h, a.session)' # NoRow
    BY <1>2, <2>2, <2>3, <2>4, <2>5 DEF View, SessionActions
  <2>8. LoadedOK(h)'
    <3>1. pc'[h] = AfterWrite(h) /\ AfterWrite(h) \in {"records", "messages", "save"}
      BY <2>2 DEF AfterWrite
    <3> QED
      BY <2>3, <2>5, <2>6, <2>7, <3>1 DEF LoadedOK
  <2> DEFINE f == TargetRows(h)
             l == AfterWrite(h)
  <2>9. FitsAll(f) /\ Put(h, f, l) /\ l \in Labels \ {"idle", "club", "build"}
    BY <1>2, <1>4, <2>1
  <2>10. pc[h] \in Acting /\ UNCHANGED <<today, standing, pushed, row, req>>
    BY <1>1 DEF Acting
  <2> HIDE DEF f, l
  <2> QED
    BY <2>8, <2>9, <2>10, PutKeeps
<1> QED
  BY <1>3, <1>4 DEF WriteTarget, TargetRows

(* The other statements write rows of records and messages and go on. *)
LEMMA RowsKeep ==
    ASSUME TypeInv, NEW h \in Handlers, NEW f, FitsAll(f), NEW l \in {"next", "save", "messages"},
           Put(h, f, l), UNCHANGED <<today, standing, pushed, row, req>>, pc[h] \in Acting \cup {"build"},
           pc[h] = "build" => l = "next", l = "messages" => Act(h).type = "delete_session"
    PROVE  TypeInv'
<1>1. l \in Labels \ {"idle", "club", "build"} /\ (l \in Acting => pc[h] \in Acting)
  BY DEF Labels, Acting
<1>2. pc'[h] = l /\ Act(h)' = Act(h)
  BY <1>1, Puts DEF TypeInv, Act
<1>3. LoadedOK(h)'
  BY <1>2 DEF LoadedOK
<1> QED
  BY <1>1, <1>3, PutKeeps

LEMMA CreateRecordsKeeps ==
    ASSUME TypeInv, NEW h \in Handlers, CreateRecords(h)
    PROVE  TypeInv'
<1>1. pc[h] = "records" /\ UNCHANGED <<today, standing, pushed, row, processed, received, req>>
  BY DEF CreateRecords
<1>2. FitsAll(PayloadRows(h)) /\ pc[h] \in Acting
  BY <1>1, ActType, PayloadType DEF TypeInv, Acting
<1>3. CASE MoveOn(h) /\ UNCHANGED lock
  BY <1>1, <1>3, StaysHoldsOn, MoveOnKeeps DEF TypeInv
<1>4. CASE Put(h, PayloadRows(h), "save")
  BY <1>1, <1>2, <1>4, RowsKeep
<1> QED
  BY <1>3, <1>4 DEF CreateRecords

LEMMA DeleteRecordsKeeps ==
    ASSUME TypeInv, NEW h \in Handlers, DeleteRecords(h)
    PROVE  TypeInv'
<1>1. pc[h] = "records" /\ Act(h).type = "delete_session"
      /\ UNCHANGED <<today, standing, pushed, row, processed, received, req>>
  BY DEF DeleteRecords
<1>2. FitsAll(DeletedRecords(h)) /\ pc[h] \in Acting
  BY <1>1, MarkedType DEF TypeInv, Acting
<1>3. Put(h, DeletedRecords(h), "messages")
  BY DEF DeleteRecords, DeletedRecords
<1> QED
  BY <1>1, <1>2, <1>3, RowsKeep

LEMMA DeleteMessagesKeeps ==
    ASSUME TypeInv, NEW h \in Handlers, DeleteMessages(h)
    PROVE  TypeInv'
<1> DEFINE M == MessagesOf(h, Act(h).session)
<1>1. pc[h] = "messages" /\ UNCHANGED <<today, standing, pushed, row, processed, received, req>>
  BY DEF DeleteMessages
<1>2. FitsAll(DeletedMessages(h)) /\ pc[h] \in Acting
  BY <1>1, DeletedMessagesType DEF TypeInv, Acting
<1>3. CASE MoveOn(h) /\ (\A m \in M : Free(h, m)) /\ lock' = Locked(h, M)
  <2>1. M \subseteq Clubs \cup Ids
    BY IdsFacts DEF MessagesOf
  <2> HIDE DEF M
  <2>2. HoldsOn(h)
    BY <1>3, <2>1, LockedHoldsOn DEF TypeInv
  <2> QED
    BY <1>1, <1>3, <2>2, MoveOnKeeps
<1>4. CASE Put(h, DeletedMessages(h), "save")
  BY <1>1, <1>2, <1>4, RowsKeep
<1> QED
  BY <1>3, <1>4 DEF DeleteMessages, DeletedMessages

LEMMA MarkRecordsKeeps ==
    ASSUME TypeInv, NEW h \in Handlers, MarkRecords(h)
    PROVE  TypeInv'
<1> DEFINE all == RecordsOf(h, Act(h).session)
           f == MarkedRows(h)
<1>1. pc[h] = "records" /\ UNCHANGED <<today, standing, pushed, row, processed, received, req>>
      /\ (\A r \in all : Free(h, r)) /\ lock' = Locked(h, all)
  BY DEF MarkRecords
<1>2. FitsAll(f) /\ pc[h] \in Acting /\ DOMAIN f \subseteq all
  BY <1>1, MarkedType DEF TypeInv, Acting, MarkedRows
<1>3. all \subseteq Clubs \cup Ids
  BY IdsFacts DEF RecordsOf
<1>4. HoldsOn(h) /\ \A r \in all : lock'[r] = h
  <2> HIDE DEF all
  <2> QED
    BY <1>1, <1>3, LockedHoldsOn DEF TypeInv
<1>5. CASE MoveOn(h)
  BY <1>1, <1>4, <1>5, MoveOnKeeps
<1>6. CASE wrote' = Overlay(h, f) /\ pc' = [pc EXCEPT ![h] = "save"] /\ UNCHANGED <<pos, day, seen, saved>>
  <2>1. "save" \in Labels
    BY DEF Labels, Acting
  <2>2. /\ TypesOK' /\ Framed(h) /\ pc'[h] = "save"
        /\ \A x \in Ids : wrote'[h][x] = IF x \in DOMAIN f THEN f[x] ELSE wrote[h][x]
    <3> HIDE DEF f, all
    <3> QED
      BY <1>1, <1>2, <1>4, <1>6, <2>1, Writes DEF TypeInv
  <2>3. HandlerOK(h)'
    BY <1>1, <1>2, <1>6, <2>2 DEF HandlerOK, TypeInv, Acting
  <2>4. LocksOK(h)'
    BY <1>2, <1>4, <2>2 DEF LocksOK, TypeInv, HoldsOn
  <2>5. LoadedOK(h)'
    BY <2>2 DEF LoadedOK
  <2> QED
    BY <2>2, <2>3, <2>4, <2>5, FramedKeeps
<1> QED
  BY <1>5, <1>6 DEF MarkRecords, MarkedRows

LEMMA MirrorNoteKeeps ==
    ASSUME TypeInv, NEW h \in Handlers, MirrorNote(h)
    PROVE  TypeInv'
<1> DEFINE id == Note(Act(h).rec)
           m == View(h, id)
<1>1. pc[h] = "messages" /\ Act(h).type = "set_record_note"
      /\ UNCHANGED <<today, standing, pushed, row, processed, received, req>>
  BY DEF MirrorNote
<1>2. Act(h).rec \in RecordIds /\ pc[h] \in Acting /\ id \in Ids /\ HandlerOK(h)
  BY <1>1, ActType, IdsFacts DEF TypeInv, Acting, ActionOK
<1>3. CASE Go(h, "save") /\ UNCHANGED lock
  <2>1. "save" \in Labels /\ "save" \in Acting
    BY DEF Labels, Acting
  <2>2. pc' = [pc EXCEPT ![h] = "save"] /\ UNCHANGED <<pos, day, seen, wrote, saved>>
    BY <1>3 DEF Go, txVars
  <2>3. pc'[h] = "save"
    BY <2>2 DEF TypeInv, TypesOK
  <2>4. LoadedOK(h)'
    BY <2>3 DEF LoadedOK
  <2>5. seen[h] \in SessionRows \cup RecordRows \cup {NoRow} /\ seen' = [seen EXCEPT ![h] = seen[h]]
    BY <2>2 DEF TypeInv, TypesOK
  <2>6. HoldsOn(h)
    BY <1>3, StaysHoldsOn DEF TypeInv
  <2>7. req[h].kind = "actions" /\ pos[h] \in 1 .. Len(req[h].actions)
    BY <1>2 DEF HandlerOK
  <2> QED
    BY <1>1, <2>1, <2>2, <2>4, <2>5, <2>6, <2>7, GoKeeps
<1>4. CASE m # NoRow /\ Put(h, DeletedMessage(h), "save")
  <2>1. FitsAll(DeletedMessage(h))
    BY <1>2, <1>4, DeletedMessageType DEF TypeInv
  <2> QED
    BY <1>1, <1>2, <1>4, <2>1, RowsKeep
<1>5. CASE MoveOn(h) /\ ForUpdate(h, id)
  <2>1. HoldsOn(h)
    <3> HIDE DEF id
    <3> QED
      BY <1>2, <1>5, ForUpdateHoldsOn DEF TypeInv
  <2> QED
    BY <1>1, <1>5, <2>1, MoveOnKeeps
<1>6. CASE ~Act(h).value /\ m = NoRow
  BY <1>3, <1>6 DEF MirrorNote
<1>7. CASE ~Act(h).value /\ m # NoRow /\ ~MessageRefused(m)
  BY <1>4, <1>7 DEF MirrorNote, DeletedMessage
<1>8. CASE Act(h).value \/ (m # NoRow /\ MessageRefused(m))
  BY <1>5, <1>8 DEF MirrorNote
<1> QED
  BY <1>6, <1>7, <1>8

LEMMA SaveKeeps ==
    ASSUME TypeInv, NEW h \in Handlers, Save(h)
    PROVE  TypeInv'
<1>1. /\ pc' = [pc EXCEPT ![h] = "next"] /\ pos' = [pos EXCEPT ![h] = @ + 1]
      /\ seen' = [seen EXCEPT ![h] = NoRow] /\ saved' = [saved EXCEPT ![h] = @ \cup {Key(h)}]
      /\ UNCHANGED <<today, standing, pushed, row, lock, req, day, wrote>>
  BY DEF Save
<1>2. pc'[h] = "next" /\ seen'[h] = NoRow /\ \A g \in Handlers \ {h} : Same(g)
  BY <1>1 DEF TypeInv, TypesOK, Same
<1>3. pc' \in [Handlers -> Labels] /\ pos' \in [Handlers -> Nat \ {0}]
      /\ seen' \in [Handlers -> SessionRows \cup RecordRows \cup {NoRow}]
      /\ saved' = [g \in Handlers |-> saved'[g]]
  <2>1. pc' \in [Handlers -> Labels]
    BY <1>1 DEF TypeInv, TypesOK, Labels
  <2>2. pos' \in [Handlers -> Nat \ {0}]
    BY <1>1 DEF TypeInv, TypesOK
  <2>3. seen' \in [Handlers -> SessionRows \cup RecordRows \cup {NoRow}]
    BY <1>1 DEF TypeInv, TypesOK
  <2>4. saved' = [g \in Handlers |-> saved'[g]]
    BY <1>1 DEF TypeInv, TypesOK
  <2> QED
    BY <2>1, <2>2, <2>3, <2>4
<1>4. TypesOK'
  BY <1>1, <1>3 DEF TypeInv, TypesOK, Tabled
<1>5. Framed(h)
  BY <1>1, <1>2, StaysHoldsOn DEF Framed, TypeInv
<1>6. HandlerOK(h)' /\ LoadedOK(h)'
  BY <1>2 DEF HandlerOK, LoadedOK, Acting
<1>7. LocksOK(h)'
  BY <1>1, <1>2 DEF LocksOK, TypeInv
<1> QED
  BY <1>4, <1>5, <1>6, <1>7, FramedKeeps

LEMMA LockClubKeeps ==
    ASSUME TypeInv, NEW h \in Handlers, LockClub(h)
    PROVE  TypeInv'
<1>1. pc[h] = "club" /\ Free(h, req[h].club) /\ lock' = Locked(h, {req[h].club})
      /\ pc' = [pc EXCEPT ![h] = "build"] /\ UNCHANGED <<today, standing, pushed, row, req>>
      /\ UNCHANGED <<pos, day, wrote, saved>> /\ UNCHANGED seen
  BY DEF LockClub, ClubLock, ClubFree, txVars
<1>2. req[h].kind = "create" /\ req[h].club \in Clubs
  BY <1>1, AttendanceAssumption DEF TypeInv, TypesOK, HandlerOK, RequestOK
<1>3. HoldsOn(h)
  BY <1>1, <1>2, LockedHoldsOn DEF TypeInv
<1>4. "build" \in Labels
  BY DEF Labels
<1>5. seen[h] \in SessionRows \cup RecordRows \cup {NoRow} /\ seen' = [seen EXCEPT ![h] = seen[h]]
  BY <1>1 DEF TypeInv, TypesOK
<1>6. TypesOK' /\ Framed(h) /\ pc'[h] = "build"
  BY <1>1, <1>3, <1>4, <1>5, Goes DEF TypeInv
<1>7. HandlerOK(h)' /\ LoadedOK(h)'
  BY <1>1, <1>2, <1>6 DEF HandlerOK, LoadedOK, Acting, TypeInv, Empty
<1>8. LocksOK(h)'
  BY <1>1, <1>6 DEF LocksOK, TypeInv, Framed, HoldsOn
<1> QED
  BY <1>6, <1>7, <1>8, FramedKeeps

LEMMA BuildSessionKeeps ==
    ASSUME TypeInv, NEW h \in Handlers, BuildSession(h)
    PROVE  TypeInv'
<1>1. pc[h] = "build" /\ Put(h, Built(h), "next") /\ Unused # {} /\ UNCHANGED <<today, standing, pushed, row, req>>
  BY DEF BuildSession, Built
<1>2. FitsAll(Built(h))
  BY <1>1, BuiltType DEF TypeInv, HandlerOK
<1> QED
  BY <1>1, <1>2, RowsKeep

(* The ends of a transaction. *)
LEMMA EndedKeeps ==
    ASSUME NEW h \in Handlers, pc'[h] = "idle", wrote'[h] = Empty, \A x \in Clubs \cup Ids : lock'[x] # h
    PROVE  HandlerOK(h)' /\ LocksOK(h)' /\ LoadedOK(h)'
BY DEF HandlerOK, LocksOK, LoadedOK, Empty, Acting

LEMMA UnlockedFacts ==
    ASSUME TypesOK, NEW H \in SUBSET Handlers, lock' = Unlocked(H)
    PROVE  /\ lock' \in [Clubs \cup Ids -> Handlers \cup {Nobody}]
           /\ \A x \in Clubs \cup Ids : /\ \A h \in H : lock'[x] # h
                                        /\ \A g \in Handlers \ H : lock'[x] = g <=> lock[x] = g
BY AttendanceAssumption DEF TypesOK, Unlocked

LEMMA AnyRequestType == AnyRequest \in Requests
BY AttendanceAssumption DEF AnyRequest

LEMMA EmptyType == Tabled(Empty)
BY DEF Tabled, Empty

LEMMA RollbackFacts ==
    ASSUME TypesOK, NEW H \in SUBSET Handlers, Rollback(H)
    PROVE  /\ \A h \in H : pc'[h] = "idle" /\ wrote'[h] = Empty /\ saved'[h] = {}
           /\ \A g \in Handlers \ H : Same(g)
           /\ Tabled(row') => TypesOK'
<1>1. /\ lock' = Unlocked(H)
      /\ pc' = [h \in Handlers |-> IF h \in H THEN "idle" ELSE pc[h]]
      /\ req' = [h \in Handlers |-> IF h \in H THEN AnyRequest ELSE req[h]]
      /\ pos' = [h \in Handlers |-> IF h \in H THEN 1 ELSE pos[h]]
      /\ day' = [h \in Handlers |-> IF h \in H THEN 0 ELSE day[h]]
      /\ seen' = [h \in Handlers |-> IF h \in H THEN NoRow ELSE seen[h]]
      /\ wrote' = [h \in Handlers |-> IF h \in H THEN Empty ELSE wrote[h]]
      /\ saved' = [h \in Handlers |-> IF h \in H THEN {} ELSE saved[h]]
      /\ UNCHANGED <<today, standing, pushed, received>>
  BY DEF Rollback, Empty
<1>2. \A h \in H : pc'[h] = "idle" /\ wrote'[h] = Empty /\ saved'[h] = {}
  BY <1>1
<1>3. \A g \in Handlers \ H : Same(g)
  BY <1>1 DEF Same
<1>4. ASSUME Tabled(row') PROVE TypesOK'
  <2>1. lock' \in [Clubs \cup Ids -> Handlers \cup {Nobody}]
    BY <1>1, UnlockedFacts
  <2>2. pc' \in [Handlers -> Labels] /\ pos' \in [Handlers -> Nat \ {0}]
    BY <1>1 DEF TypesOK, Labels
  <2>3. req' \in [Handlers -> Requests]
    BY <1>1, AnyRequestType DEF TypesOK
  <2>4. day' \in [Handlers -> Days]
    BY <1>1, AttendanceAssumption DEF TypesOK, Days
  <2>5. seen' \in [Handlers -> SessionRows \cup RecordRows \cup {NoRow}]
    BY <1>1 DEF TypesOK
  <2>6. wrote' = [h \in Handlers |-> wrote'[h]] /\ saved' = [h \in Handlers |-> saved'[h]]
    BY <1>1
  <2>7. \A h \in Handlers : Tabled(wrote'[h])
    BY <1>1, EmptyType DEF TypesOK
  <2> QED
    BY <1>1, <1>4, <2>1, <2>2, <2>3, <2>4, <2>5, <2>6, <2>7 DEF TypesOK, Tabled
<1> QED
  BY <1>2, <1>3, <1>4

LEMMA RollbackKeeps ==
    ASSUME TypeInv, NEW H \in SUBSET Handlers, Rollback(H), Tabled(row'),
           \A g \in Handlers \ H : \A x \in Ids : lock[x] = g => row'[x] = row[x]
    PROVE  TypeInv'
<1>1. TypesOK /\ TypesOK'
  BY RollbackFacts DEF TypeInv
<1>2. lock' = Unlocked(H)
  BY DEF Rollback
<1>3. ASSUME NEW h \in H PROVE HandlerOK(h)' /\ LocksOK(h)' /\ LoadedOK(h)'
  <2>1. pc'[h] = "idle" /\ wrote'[h] = Empty
    BY <1>1, RollbackFacts
  <2>2. \A x \in Clubs \cup Ids : lock'[x] # h
    BY <1>1, <1>2, UnlockedFacts
  <2> QED
    BY <2>1, <2>2, EndedKeeps
<1>4. ASSUME NEW g \in Handlers \ H PROVE HandlerOK(g)' /\ LocksOK(g)' /\ LoadedOK(g)'
  <2>1. Same(g)
    BY <1>1, RollbackFacts
  <2>2. \A x \in Clubs \cup Ids : lock'[x] = g <=> lock[x] = g
    BY <1>1, <1>2, UnlockedFacts
  <2>3. HandlerOK(g) /\ LocksOK(g) /\ LoadedOK(g)
    BY DEF TypeInv
  <2> QED
    BY <1>1, <2>1, <2>2, <2>3, SameKeeps
<1> QED
  BY <1>1, <1>3, <1>4 DEF TypeInv

LEMMA AbortKeeps ==
    ASSUME TypeInv, NEW h \in Handlers, Rollback({h}), row' = row
    PROVE  TypeInv'
<1>1. {h} \in SUBSET Handlers /\ Tabled(row')
  BY DEF TypeInv, TypesOK, Tabled
<1> QED
  BY <1>1, RollbackKeeps

LEMMA CommitFacts ==
    ASSUME TypeInv, NEW h \in Handlers, Commit(h)
    PROVE  /\ \A x \in Ids : row'[x] = View(h, x) /\ (lock[x] # h => row'[x] = row[x])
           /\ pc'[h] = "idle" /\ wrote'[h] = Empty /\ saved'[h] = {}
           /\ \A g \in Handlers \ {h} : Same(g)
           /\ \A x \in Clubs \cup Ids : /\ lock'[x] # h
                                        /\ \A g \in Handlers \ {h} : lock'[x] = g <=> lock[x] = g
           /\ UNCHANGED <<today, standing, pushed>>
           /\ TypesOK'
<1>1. /\ row' = [x \in Ids |-> View(h, x)] /\ lock' = Unlocked({h})
      /\ pc' = [pc EXCEPT ![h] = "idle"]
      /\ req' = [req EXCEPT ![h] = AnyRequest]
      /\ pos' = [pos EXCEPT ![h] = 1]
      /\ day' = [day EXCEPT ![h] = 0]
      /\ wrote' = [wrote EXCEPT ![h] = Empty]
      /\ saved' = [saved EXCEPT ![h] = {}]
      /\ UNCHANGED <<today, standing, pushed, received, seen>>
  BY DEF Commit, Empty
<1>2. pc'[h] = "idle" /\ wrote'[h] = Empty /\ saved'[h] = {} /\ \A g \in Handlers \ {h} : Same(g)
  BY <1>1 DEF TypeInv, TypesOK, Same
<1>3. \A x \in Ids : row'[x] = View(h, x) /\ (lock[x] # h => row'[x] = row[x])
  BY <1>1 DEF View, TypeInv, LocksOK
<1>4. Tabled(row')
  <2>1. ASSUME NEW x \in Ids PROVE View(h, x) \in Rows \cup {NoRow} /\ (View(h, x) = NoRow \/ Fits(x, View(h, x)))
    BY DEF View, TypeInv, TypesOK, Tabled
  <2> QED
    BY <1>1, <2>1 DEF Tabled
<1>6. /\ lock' \in [Clubs \cup Ids -> Handlers \cup {Nobody}]
      /\ \A x \in Clubs \cup Ids : /\ lock'[x] # h
                                   /\ \A g \in Handlers \ {h} : lock'[x] = g <=> lock[x] = g
  <2> DEFINE H == {h}
  <2>1. H \in SUBSET Handlers /\ lock' = Unlocked(H) /\ TypesOK /\ h \in H
    BY <1>1 DEF TypeInv
  <2>2. \A g \in Handlers \ {h} : g \in Handlers \ H
    OBVIOUS
  <2> HIDE DEF H
  <2> QED
    BY <2>1, <2>2, UnlockedFacts
<1>5. TypesOK'
  <2>1. lock' \in [Clubs \cup Ids -> Handlers \cup {Nobody}]
    BY <1>6
  <2>2. pc' \in [Handlers -> Labels] /\ pos' \in [Handlers -> Nat \ {0}]
    BY <1>1 DEF TypeInv, TypesOK, Labels
  <2>3. req' \in [Handlers -> Requests]
    BY <1>1, AnyRequestType DEF TypeInv, TypesOK
  <2>4. day' \in [Handlers -> Days]
    BY <1>1, AttendanceAssumption DEF TypeInv, TypesOK, Days
  <2>5. wrote' = [g \in Handlers |-> wrote'[g]]
    BY <1>1 DEF TypeInv, TypesOK
  <2>6. saved' = [g \in Handlers |-> saved'[g]]
    BY <1>1 DEF TypeInv, TypesOK
  <2>7. \A g \in Handlers : Tabled(wrote'[g])
    BY <1>1, EmptyType DEF TypeInv, TypesOK
  <2> QED
    BY <1>1, <1>4, <2>1, <2>2, <2>3, <2>4, <2>5, <2>6, <2>7 DEF TypeInv, TypesOK, Tabled
<1> QED
  BY <1>1, <1>2, <1>3, <1>5, <1>6

LEMMA CommitKeeps ==
    ASSUME TypeInv, NEW h \in Handlers, Commit(h)
    PROVE  TypeInv'
<1>1. HandlerOK(h)' /\ LocksOK(h)' /\ LoadedOK(h)'
  <2>1. \A x \in Clubs \cup Ids : lock'[x] # h
    BY CommitFacts
  <2> QED
    BY <2>1, CommitFacts, EndedKeeps
<1>2. ASSUME NEW g \in Handlers \ {h} PROVE HandlerOK(g)' /\ LocksOK(g)' /\ LoadedOK(g)'
  <2>1. Same(g) /\ \A x \in Ids : lock[x] = g => row'[x] = row[x]
    BY CommitFacts
  <2>2. \A x \in Clubs \cup Ids : lock'[x] = g <=> lock[x] = g
    BY CommitFacts
  <2>3. TypesOK /\ HandlerOK(g) /\ LocksOK(g) /\ LoadedOK(g)
    BY DEF TypeInv
  <2> QED
    BY <2>1, <2>2, <2>3, SameKeeps
<1> QED
  BY <1>1, <1>2, CommitFacts DEF TypeInv

(* A restart gives a message to notes that had none. *)
Mirrored(r) ==
    [session |-> row[r].session, student |-> row[r].student,
     club |-> row[row[r].session].club, deleted |-> FALSE]

LEMMA RestartRows ==
    ASSUME TypesOK, Restart
    PROVE  /\ \A r \in Unmirrored :
                 /\ r \in RecordIds /\ Active(row[r]) /\ row[Note(r)] = NoRow
                 /\ Active(row[row[r].session]) /\ row[r].session \in SessionIds
                 /\ row'[Note(r)] = Mirrored(r)
           /\ \A x \in Ids : row'[x] = row[x] \/ \E r \in Unmirrored : x = Note(r)
           /\ Tabled(row')
<1>1. row' = [x \in Ids |->
                 IF \E r \in Unmirrored : x = Note(r)
                 THEN [session |-> row[x[2]].session, student |-> row[x[2]].student,
                       club |-> row[row[x[2]].session].club, deleted |-> FALSE]
                 ELSE row[x]]
  BY DEF Restart
<1>2. \A r : Note(r)[2] = r
  BY DEF Note
<1>3. ASSUME NEW r \in Unmirrored
      PROVE  /\ r \in RecordIds /\ Active(row[r]) /\ row[Note(r)] = NoRow
             /\ Active(row[row[r].session]) /\ row[r].session \in SessionIds
             /\ row'[Note(r)] = Mirrored(r) /\ Mirrored(r) \in MessageRows
  <2>1. r \in RecordIds /\ Active(row[r]) /\ Active(row[row[r].session]) /\ row[Note(r)] = NoRow
    BY DEF Unmirrored
  <2>2. row[r] \in RecordRows
    BY <2>1, IdsFacts DEF TypesOK, Tabled, Fits, Active
  <2>3. row[r].session \in SessionIds /\ row[r].student \in Students
    BY <2>2, RowFacts
  <2>4. row[row[r].session] \in SessionRows
    BY <2>1, <2>3, IdsFacts DEF TypesOK, Tabled, Fits, Active
  <2>5. row[row[r].session].club \in Clubs
    BY <2>4, RowFacts
  <2>6. Note(r) \in Ids
    BY <2>1, IdsFacts
  <2>7. row'[Note(r)] = Mirrored(r)
    BY <1>1, <1>2, <2>6 DEF Mirrored
  <2>8. Mirrored(r) \in MessageRows
    BY <2>3, <2>5 DEF Mirrored, MessageRows
  <2> QED
    BY <2>1, <2>3, <2>7, <2>8
<1>4. \A x \in Ids : row'[x] = row[x] \/ \E r \in Unmirrored : x = Note(r)
  BY <1>1
<1>5. ASSUME NEW x \in Ids PROVE row'[x] \in Rows \cup {NoRow} /\ (row'[x] = NoRow \/ Fits(x, row'[x]))
  <2>1. CASE row'[x] = row[x]
    BY <2>1 DEF TypesOK, Tabled
  <2>2. CASE \E r \in Unmirrored : x = Note(r)
    <3>1. PICK r \in Unmirrored : x = Note(r)
      BY <2>2
    <3>2. x \in MessageIds /\ row'[x] \in MessageRows
      BY <1>3, <3>1, IdsFacts
    <3> QED
      BY <3>2, IdsFacts DEF Fits, Rows
  <2> QED
    BY <1>4, <2>1, <2>2
<1>6. Tabled(row')
  <2>1. row' = [x \in Ids |-> row'[x]]
    BY <1>1
  <2> QED
    BY <1>5, <2>1 DEF Tabled
<1> QED
  BY <1>3, <1>4, <1>6

LEMMA RestartKeeps ==
    ASSUME TypeInv, Restart
    PROVE  TypeInv'
<1>1. Handlers \in SUBSET Handlers /\ Rollback(Handlers) /\ Tabled(row')
  BY RestartRows DEF Restart, TypeInv
<1> QED
  BY <1>1, RollbackKeeps

LEMMA BeginFacts ==
    ASSUME TypeInv, NEW h \in Handlers, NEW q \in Requests, Begin(h, q)
    PROVE  /\ TypesOK' /\ UNCHANGED <<today, standing, pushed, row, lock, wrote, saved, seen>>
           /\ pc[h] = "idle" /\ req'[h] = q /\ pos'[h] = 1 /\ wrote[h] = Empty
           /\ pc'[h] = IF q.kind = "create" THEN "club" ELSE "next"
           /\ \A g \in Handlers \ {h} : Same(g)
<1>1. /\ pc[h] = "idle"
      /\ pc' = [pc EXCEPT ![h] = IF q.kind = "create" THEN "club" ELSE "next"]
      /\ req' = [req EXCEPT ![h] = q] /\ pos' = [pos EXCEPT ![h] = 1] /\ day' = [day EXCEPT ![h] = today]
      /\ UNCHANGED <<today, standing, pushed, row, lock, seen, wrote, saved>>
  BY DEF Begin
<1>2. /\ req'[h] = q /\ pos'[h] = 1 /\ \A g \in Handlers \ {h} : Same(g)
      /\ pc'[h] = IF q.kind = "create" THEN "club" ELSE "next"
  BY <1>1 DEF TypeInv, TypesOK, Same
<1>3. wrote[h] = Empty
  BY <1>1 DEF TypeInv, HandlerOK
<1>4. pc' \in [Handlers -> Labels] /\ pos' \in [Handlers -> Nat \ {0}]
      /\ req' \in [Handlers -> Requests] /\ day' \in [Handlers -> Days]
  BY <1>1 DEF TypeInv, TypesOK, Labels
<1>5. TypesOK'
  BY <1>1, <1>4 DEF TypeInv, TypesOK, Tabled
<1> QED
  BY <1>1, <1>2, <1>3, <1>5

LEMMA BeginKeeps ==
    ASSUME TypeInv, NEW h \in Handlers, NEW q \in Requests, Begin(h, q)
    PROVE  TypeInv'
<1>1. HandlerOK(h)' /\ LoadedOK(h)'
  BY BeginFacts DEF HandlerOK, LoadedOK, Acting
<1>2. LocksOK(h)'
  BY BeginFacts DEF LocksOK, Empty
<1>3. ASSUME NEW g \in Handlers \ {h} PROVE HandlerOK(g)' /\ LocksOK(g)' /\ LoadedOK(g)'
  BY BeginFacts, SameKeeps DEF TypeInv
<1> QED
  BY <1>1, <1>2, <1>3, BeginFacts DEF TypeInv

(* Steps of nobody's transaction. *)
LEMMA IdleKeeps ==
    ASSUME TypeInv, UNCHANGED <<row, lock, pc, req, txVars>>,
           today' \in Days, standing' \in [Clubs \cup Students -> {"active", "inactive", "deleted"}],
           pushed' \subseteq Clubs \cup Students \cup MessageIds
    PROVE  TypeInv'
<1>1. TypesOK'
  BY DEF TypeInv, TypesOK, Tabled, txVars
<1>2. ASSUME NEW g \in Handlers PROVE HandlerOK(g)' /\ LocksOK(g)' /\ LoadedOK(g)'
  <2>1. Same(g) /\ lock' = lock /\ row' = row
    BY DEF Same, txVars
  <2> QED
    BY <2>1, SameKeeps DEF TypeInv
<1> QED
  BY <1>1, <1>2 DEF TypeInv

LEMMA InitTypeInv == Init => TypeInv
<1> SUFFICES ASSUME Init PROVE TypeInv
  OBVIOUS
<1>1. 0 \in Days
  BY AttendanceAssumption DEF Days
<1>2. row = Empty /\ \A h \in Handlers : wrote[h] = Empty /\ pc[h] = "idle"
  BY DEF Init, Empty
<1>3. \A x \in Clubs \cup Ids, h \in Handlers : lock[x] # h
  BY AttendanceAssumption DEF Init
<1>4. TypesOK
  BY <1>1, <1>2, AnyRequestType, EmptyType DEF Init, TypesOK, Labels
<1> QED
  BY <1>2, <1>3, <1>4 DEF TypeInv, HandlerOK, LocksOK, LoadedOK, Acting, Empty

LEMMA WorksTypeInv == ASSUME TypeInv, NEW h \in Handlers, Works(h) PROVE TypeInv'
BY TakeKeeps, LockRecordKeeps, LockSessionKeeps, WriteTargetKeeps, CreateRecordsKeeps, MarkRecordsKeeps,
   DeleteRecordsKeeps, DeleteMessagesKeeps, MirrorNoteKeeps, SaveKeeps, LockClubKeeps, BuildSessionKeeps
   DEF Works

LEMMA MidnightFacts ==
    ASSUME TypeInv, Midnight
    PROVE  /\ UNCHANGED <<row, lock, pc, req, txVars>> /\ UNCHANGED <<standing, pushed>>
           /\ today' \in Days
BY AttendanceAssumption DEF Midnight, TypeInv, TypesOK, Days

LEMMA StandingFacts ==
    ASSUME TypeInv, NEW x \in Fragile, PushStanding(x)
    PROVE  /\ UNCHANGED <<today, row, lock, pc, req, txVars>>
           /\ standing' \in [Clubs \cup Students -> {"active", "inactive", "deleted"}]
           /\ pushed \subseteq pushed' /\ pushed' \subseteq Clubs \cup Students \cup MessageIds
           /\ \A y \in Clubs \cup Students :
                 standing'[y] = "deleted" => standing[y] = "deleted" \/ y \in pushed'
<1>1. PICK to \in {"active", "inactive", "deleted"} :
         /\ standing' = [standing EXCEPT ![x] = to]
         /\ pushed' = IF to = "deleted" THEN pushed \cup {x} ELSE pushed
  BY DEF PushStanding
<1>2. UNCHANGED <<today, row, lock, pc, req, txVars>>
  BY DEF PushStanding
<1>3. x \in Clubs \cup Students
  BY AttendanceAssumption
<1> QED
  BY <1>1, <1>2, <1>3 DEF TypeInv, TypesOK

(* A pushed row is one that no transaction has locked. *)
LEMMA PushFacts ==
    ASSUME TypeInv, NEW p \in Pushes, PushRow(p)
    PROVE  /\ UNCHANGED <<today, standing, lock, pc, req, txVars>>
           /\ p.id \in Ids /\ lock[p.id] = Nobody /\ Fits(p.id, p.row) /\ row'[p.id] = p.row
           /\ \A x \in Ids : x # p.id => row'[x] = row[x]
           /\ \A x \in Ids, h \in Handlers : lock[x] = h => row'[x] = row[x]
           /\ pushed \subseteq pushed' /\ pushed' \subseteq Clubs \cup Students \cup MessageIds
           /\ p.id \in MessageIds /\ Active(p.row) => p.id \in pushed'
           /\ \A h \in Handlers : Same(h)
           /\ Tabled(row')
<1>1. /\ UNCHANGED <<today, standing, lock, pc, req, txVars>> /\ lock[p.id] = Nobody
      /\ row' = [row EXCEPT ![p.id] = p.row]
      /\ pushed' = IF p.id \in MessageIds /\ Active(p.row) THEN pushed \cup {p.id} ELSE pushed
  BY DEF PushRow
<1>2. p.id \in Ids /\ Fits(p.id, p.row) /\ p.row \in Rows
  BY AttendanceAssumption, IdsFacts DEF PushOK, Fits, Rows
<1>3. row \in [Ids -> Rows \cup {NoRow}] /\ \A x \in Ids : row[x] = NoRow \/ Fits(x, row[x])
  BY DEF TypeInv, TypesOK, Tabled
<1>4. row'[p.id] = p.row /\ \A x \in Ids : x # p.id => row'[x] = row[x]
  BY <1>1, <1>2, <1>3
<1>5. Tabled(row')
  BY <1>1, <1>2, <1>3 DEF Tabled
<1>6. \A h \in Handlers : Same(h)
  BY <1>1 DEF Same, txVars
<1>7. \A x \in Ids, h \in Handlers : lock[x] = h => row'[x] = row[x]
  BY <1>1, <1>4, AttendanceAssumption
<1>8. pushed \subseteq pushed' /\ pushed' \subseteq Clubs \cup Students \cup MessageIds
      /\ (p.id \in MessageIds /\ Active(p.row) => p.id \in pushed')
  BY <1>1 DEF TypeInv, TypesOK
<1> QED
  BY <1>1, <1>2, <1>4, <1>5, <1>6, <1>7, <1>8

LEMMA PushKeeps ==
    ASSUME TypeInv, NEW p \in Pushes, PushRow(p)
    PROVE  TypeInv'
<1>1. TypesOK'
  BY PushFacts DEF TypeInv, TypesOK, Tabled, txVars
<1>2. ASSUME NEW g \in Handlers PROVE HandlerOK(g)' /\ LocksOK(g)' /\ LoadedOK(g)'
  <2>1. Same(g) /\ lock' = lock /\ \A x \in Ids : lock[x] = g => row'[x] = row[x]
    BY PushFacts
  <2> QED
    BY <2>1, SameKeeps DEF TypeInv
<1> QED
  BY <1>1, <1>2 DEF TypeInv

(* Every step: the clock, a push, a request, a statement, the end of a     *)
(* transaction, a restart, or nothing.                                     *)
LEMMA Steps ==
    ASSUME [Next]_vars
    PROVE  \/ Midnight
           \/ \E x \in Fragile : PushStanding(x)
           \/ \E p \in Pushes : PushRow(p)
           \/ \E h \in Handlers, q \in Requests : Begin(h, q)
           \/ \E h \in Handlers : Works(h)
           \/ \E h \in Handlers : Commit(h)
           \/ \E h \in Handlers : Rollback({h}) /\ row' = row
           \/ Restart
           \/ UNCHANGED vars
BY DEF Next, Step, Works, Error, DeadlockVictim

LEMMA NextTypeInv == TypeInv /\ [Next]_vars => TypeInv'
<1> SUFFICES ASSUME TypeInv, [Next]_vars PROVE TypeInv'
  OBVIOUS
<1>1. CASE Midnight
  BY <1>1, MidnightFacts, IdleKeeps DEF TypeInv, TypesOK
<1>2. CASE \E x \in Fragile : PushStanding(x)
  BY <1>2, StandingFacts, IdleKeeps DEF TypeInv, TypesOK
<1>3. CASE \E h \in Handlers, q \in Requests : Begin(h, q)
  BY <1>3, BeginKeeps
<1>4. CASE \E h \in Handlers : Works(h)
  BY <1>4, WorksTypeInv
<1>5. CASE \E h \in Handlers : Commit(h)
  BY <1>5, CommitKeeps
<1>6. CASE \E h \in Handlers : Rollback({h}) /\ row' = row
  BY <1>6, AbortKeeps
<1>7. CASE Restart
  BY <1>7, RestartKeeps
<1>8. CASE UNCHANGED vars
  <2>1. UNCHANGED <<row, lock, pc, req, txVars>> /\ UNCHANGED <<today, standing, pushed>>
    BY <1>8 DEF vars, txVars
  <2> QED
    BY <2>1, IdleKeeps DEF TypeInv, TypesOK
<1>9. CASE \E p \in Pushes : PushRow(p)
  BY <1>9, PushKeeps
<1> QED
  BY <1>1, <1>2, <1>3, <1>4, <1>5, <1>6, <1>7, <1>8, <1>9, Steps

LEMMA TypeInvHolds == Spec => []TypeInv
BY InitTypeInv, NextTypeInv, PTL DEF Spec

LEMMA TypeInvTypeOK == TypeInv => TypeOK
<1> SUFFICES ASSUME TypeInv PROVE TypeOK
  OBVIOUS
<1>1. \A x \in Ids : row[x] = NoRow \/ Fits(x, row[x])
  BY DEF TypeInv, TypesOK, Tabled
<1>2. /\ \A x \in SessionIds : row[x] \in SessionRows \cup {NoRow}
      /\ \A x \in RecordIds : row[x] \in RecordRows \cup {NoRow}
      /\ \A x \in MessageIds : row[x] \in MessageRows \cup {NoRow}
  BY <1>1, IdsFacts DEF Fits
<1>3. \A h \in Handlers : pc[h] = "idle" => \A x \in DOMAIN lock : lock[x] # h
  BY DEF TypeInv, TypesOK, LocksOK
<1> QED
  BY <1>2, <1>3 DEF TypeInv, TypesOK, Tabled, TypeOK

(* The state is well formed, and no request that has ended keeps a lock:   *)
(* every row is written under its lock by the one transaction that holds   *)
(* it, and every end of a transaction - commit, error, deadlock, restart - *)
(* gives all its locks back.                                               *)
THEOREM TypeSafety == Spec => []TypeOK
BY TypeInvHolds, TypeInvTypeOK, PTL

-----------------------------------------------------------------------------
(* Waiting.  Who waits for no lock can go on; of a cycle PostgreSQL ends   *)
(* one request (the condition of DeadlockVictim).                          *)
Ready(h) == pc[h] # "idle" /\ Wanted(h) = {}
Cycle(H) == H # {} /\ \A g \in H : Wanted(g) \cap H # {} /\ \E k \in H : g \in Wanted(k)

SomebodyGoes ==
    (\E h \in Handlers : pc[h] # "idle") =>
        (\E h \in Handlers : Ready(h)) \/ \E H \in SUBSET Handlers : Cycle(H)

LEMMA SmallestNat ==
    ASSUME NEW T \in SUBSET Nat, T # {}
    PROVE  \E n \in T : \A m \in T : n <= m
<1> DEFINE R == OpToRel(<, Nat)
<1>1. IsWellFoundedOn(R, Nat)
  BY NatLessThanWellFounded
<1>2. PICK n \in T : \A m \in T : <<m, n>> \notin R
  <2> HIDE DEF R
  <2> QED
    BY <1>1, WFMin
<1>3. ASSUME NEW m \in T PROVE n <= m
  <2>1. m \in Nat /\ n \in Nat /\ ~(m < n)
    BY <1>2 DEF OpToRel
  <2> QED
    BY <2>1
<1> QED
  BY <1>3

(* A smallest set of requests that wait for each other is a cycle.         *)
LEMMA CycleExists ==
    ASSUME NEW S, IsFiniteSet(S), S # {}, \A g \in S : Wanted(g) \cap S # {}
    PROVE  \E H \in SUBSET S : Cycle(H)
<1> DEFINE Closed == {H \in SUBSET S : H # {} /\ \A g \in H : Wanted(g) \cap H # {}}
           sizes == {Cardinality(H) : H \in Closed}
<1>1. \A H \in SUBSET S : IsFiniteSet(H) /\ Cardinality(H) \in Nat
  BY FS_Subset, FS_CardinalityType
<1>2. PICK n \in sizes : \A m \in sizes : n <= m
  <2>1. sizes \in SUBSET Nat
    BY <1>1
  <2>2. S \in Closed
    OBVIOUS
  <2>3. sizes # {}
    BY <2>2
  <2> QED
    BY <2>1, <2>3, SmallestNat
<1>3. PICK H \in Closed : Cardinality(H) = n
  OBVIOUS
<1>4. \A K \in Closed : Cardinality(H) <= Cardinality(K)
  BY <1>2, <1>3
<1>5. ASSUME NEW g \in H, \A k \in H : g \notin Wanted(k) PROVE FALSE
  <2> DEFINE K == H \ {g}
  <2>1. Cardinality(K) = Cardinality(H) - 1 /\ Cardinality(H) \in Nat
    BY <1>1, FS_RemoveElement
  <2>2. H # {} /\ H \subseteq S /\ \A k \in H : Wanted(k) \cap H # {}
    OBVIOUS
  <2>3. \A k \in K : Wanted(k) \cap K # {}
    BY <1>5, <2>2
  <2>4. K # {}
    BY <1>5, <2>2
  <2>5. K \in Closed
    BY <2>2, <2>3, <2>4
  <2>6. Cardinality(H) <= Cardinality(K)
    BY <1>4, <2>5
  <2> QED
    BY <2>1, <2>6
<1> QED
  BY <1>5 DEF Cycle

(* Who is waited for has not ended. *)
LEMMA WaitsForBusy ==
    ASSUME TypeInv, NEW h \in Handlers, NEW g \in Wanted(h)
    PROVE  g \in Handlers /\ pc[g] # "idle" /\ pc[h] # "idle"
<1> DEFINE x == Act(h).session
           wanted == CASE pc[h] = "club" -> {req[h].club}
                       [] pc[h] = "record" -> {Act(h).rec}
                       [] pc[h] = "session" -> {x}
                       [] pc[h] = "write" ->
                             {Target(h)} \cup (IF SharesClub(h) THEN {Act(h).club} ELSE {})
                       [] pc[h] = "records" /\ Act(h).type = "create_session" -> DOMAIN PayloadRows(h)
                       [] pc[h] = "records" /\ Act(h).type # "create_session" -> RecordsOf(h, x)
                       [] pc[h] = "messages" /\ Act(h).type = "delete_session" -> MessagesOf(h, x)
                       [] pc[h] = "messages" /\ Act(h).type # "delete_session" -> {Note(Act(h).rec)}
                       [] OTHER -> {}
<1>1. TypesOK /\ HandlerOK(h)
  BY DEF TypeInv
<1>2. wanted \subseteq Clubs \cup Ids
  <2>1. CASE pc[h] = "club"
    <3>1. req[h].club \in Clubs
      BY <1>1, <2>1, AttendanceAssumption DEF HandlerOK, TypesOK, RequestOK
    <3> QED
      BY <2>1, <3>1
  <2>2. CASE pc[h] \in Acting
    <3>1. Act(h).session \in Ids /\ Act(h).rec \in Ids /\ Act(h).rec \in RecordIds
          /\ DOMAIN PayloadRows(h) \subseteq RecordIds
          /\ Act(h).club \in Clubs
      BY <1>1, <2>2, ActType DEF HandlerOK, Ids, PayloadRows, ActionOK
    <3>2. Target(h) \in Ids /\ Note(Act(h).rec) \in Ids
      BY <3>1 DEF Target, Ids, MessageIds
    <3>3. RecordsOf(h, x) \subseteq Ids /\ MessagesOf(h, x) \subseteq Ids /\ DOMAIN PayloadRows(h) \subseteq Ids
      BY <3>1 DEF RecordsOf, MessagesOf, Ids
    <3> HIDE DEF x
    <3> QED
      BY <2>2, <3>1, <3>2, <3>3 DEF Acting, x
  <2>3. CASE pc[h] \in {"idle", "next", "build"}
    BY <2>3
  <2> QED
    BY <1>1, <2>1, <2>2, <2>3 DEF TypesOK, Labels
<1> DEFINE sharers == IF pc[h] = "club" THEN Sharers(req[h].club) ELSE {}
<1>3. (\E y \in wanted : g = lock[y] /\ g \notin {Nobody, h}) \/ g \in sharers
  BY DEF Wanted
<1>4. CASE \E y \in wanted : g = lock[y] /\ g \notin {Nobody, h}
  <2>1. PICK y \in wanted : g = lock[y] /\ g \notin {Nobody, h}
    BY <1>4
  <2>2. y \in Clubs \cup Ids /\ g \in Handlers
    BY <1>1, <1>2, <2>1 DEF TypesOK
  <2>3. pc[g] # "idle"
    BY <2>1, <2>2 DEF TypeInv, LocksOK
  <2>4. pc[h] # "idle"
    BY <2>1
  <2> QED
    BY <2>2, <2>3, <2>4
<1>5. CASE g \in sharers
  <2>1. pc[h] = "club" /\ g \in Handlers /\ \E z \in SessionIds : wrote[g][z] # NoRow
    BY <1>5 DEF Sharers
  <2>2. pc[g] # "idle"
    BY <2>1, IdsFacts DEF TypeInv, HandlerOK, Empty
  <2> QED
    BY <2>1, <2>2
<1> QED
  BY <1>3, <1>4, <1>5

(* While a request is being handled, one waits for no lock, or some wait   *)
(* for each other in a cycle, however many there are: set_record_status    *)
(* locks a record and then its session, mark_all_present and               *)
(* delete_session the other way round, but no request that has ended is    *)
(* waited for.                                                             *)
THEOREM GoesSafety == ASSUME IsFiniteSet(Handlers) PROVE Spec => []SomebodyGoes
<1>1. ASSUME TypeInv PROVE SomebodyGoes
  <2> DEFINE busy == {h \in Handlers : pc[h] # "idle"}
  <2> SUFFICES ASSUME busy # {}, \A h \in Handlers : ~Ready(h)
               PROVE  \E H \in SUBSET Handlers : Cycle(H)
    BY DEF SomebodyGoes
  <2>1. IsFiniteSet(busy)
    BY FS_Subset
  <2>2. \A h \in busy : Wanted(h) \cap busy # {}
    BY <1>1, WaitsForBusy DEF Ready
  <2>3. PICK H \in SUBSET busy : Cycle(H)
    BY <2>1, <2>2, CycleExists
  <2> QED
    BY <2>3
<1> QED
  BY <1>1, TypeInvHolds, PTL

-----------------------------------------------------------------------------
(* The statements by what they write: nothing, *)
Wrote(h, f) ==
    /\ \A x \in Ids : wrote'[h][x] = IF x \in DOMAIN f THEN f[x] ELSE wrote[h][x]
    /\ \A x \in DOMAIN f : x \in Ids /\ f[x] # NoRow /\ lock'[x] = h
    /\ Act(h)' = Act(h) /\ saved'[h] = saved[h]

Quiet(h) ==
    /\ wrote'[h] = wrote[h]
    /\ saved[h] \subseteq saved'[h] /\ (pc[h] = "save" => saved'[h] # {})
    /\ ~(pc[h] = "records" /\ Act(h).type = "delete_session")
    /\ pc[h] = "messages" /\ Act(h).type = "delete_session" =>
          \E m \in MessagesOf(h, Act(h).session) : MessageRefused(View(h, m)) /\ lock'[m] = h

(* the target of the action, *)
Changes(h) ==
    /\ pc[h] = "write" /\ ~ChangeRefused(h) /\ pc'[h] = AfterWrite(h)
    /\ Wrote(h, TargetRows(h))

(* records or messages, *)
Creates(h) ==
    /\ pc[h] = "records" /\ Act(h).type = "create_session" /\ pc'[h] = "save"
    /\ \A r \in DOMAIN PayloadRows(h) :
          PayloadRows(h)[r].session = Act(h).session /\ ~RecordRefused(h, r, PayloadRows(h)[r])
    /\ Wrote(h, PayloadRows(h))
Marks(h) ==
    /\ pc[h] = "records" /\ Act(h).type = "mark_all_present" /\ pc'[h] = "save"
    /\ \A r \in DOMAIN MarkedRows(h) : ~RecordRefused(h, r, MarkedRows(h)[r])
    /\ Wrote(h, MarkedRows(h))
DeletesRecords(h) ==
    /\ pc[h] = "records" /\ Act(h).type = "delete_session" /\ pc'[h] = "messages"
    /\ Wrote(h, DeletedRecords(h))
DeletesMessages(h) ==
    /\ pc[h] = "messages" /\ Act(h).type = "delete_session" /\ pc'[h] = "save"
    /\ \A m \in MessagesOf(h, Act(h).session) : ~MessageRefused(View(h, m))
    /\ Wrote(h, DeletedMessages(h))
DeletesMessage(h) ==
    /\ pc[h] = "messages" /\ Act(h).type = "set_record_note" /\ pc'[h] = "save"
    /\ View(h, Note(Act(h).rec)) # NoRow /\ ~MessageRefused(View(h, Note(Act(h).rec)))
    /\ Wrote(h, DeletedMessage(h))

(* or a whole session. *)
Builds(h) ==
    /\ pc[h] = "build" /\ pc'[h] = "next" /\ Unused # {}
    /\ Wrote(h, Built(h))

LEMMA PutWrote ==
    ASSUME TypeInv, NEW h \in Handlers, NEW f, FitsAll(f), NEW l \in Labels, Put(h, f, l),
           UNCHANGED <<today, standing, pushed, row, req>>
    PROVE  Framed(h) /\ Wrote(h, f) /\ pc'[h] = l
<1>1. /\ Framed(h) /\ pc'[h] = l /\ UNCHANGED <<pos, seen, saved>>
      /\ \A x \in Ids : wrote'[h][x] = IF x \in DOMAIN f THEN f[x] ELSE wrote[h][x]
      /\ \A x \in DOMAIN f : lock'[x] = h /\ f[x] # NoRow
  BY Puts DEF TypeInv
<1>2. Act(h)' = Act(h)
  BY <1>1 DEF Act
<1> QED
  BY <1>1, <1>2 DEF Wrote, FitsAll

LEMMA MoveOnQuiet ==
    ASSUME TypeInv, NEW h \in Handlers, MoveOn(h), HoldsOn(h), UNCHANGED <<today, standing, pushed, row, req>>,
           pc[h] # "save", ~(pc[h] = "records" /\ Act(h).type = "delete_session"),
           pc[h] = "messages" /\ Act(h).type = "delete_session" =>
              \E m \in MessagesOf(h, Act(h).session) : MessageRefused(View(h, m)) /\ lock'[m] = h
    PROVE  Framed(h) /\ Quiet(h)
<1>1. Framed(h)
  BY MovesOn DEF TypeInv
<1> QED
  BY <1>1 DEF Quiet, MoveOn

LEMMA GoQuiet ==
    ASSUME TypeInv, NEW h \in Handlers, NEW l \in Labels, pc' = [pc EXCEPT ![h] = l],
           UNCHANGED <<pos, day, wrote, saved>>, HoldsOn(h), UNCHANGED <<today, standing, pushed, row, req>>,
           NEW s \in SessionRows \cup RecordRows \cup {NoRow}, seen' = [seen EXCEPT ![h] = s],
           pc[h] \notin {"save", "records"},
           ~(pc[h] = "messages" /\ Act(h).type = "delete_session")
    PROVE  Framed(h) /\ Quiet(h)
<1>1. Framed(h)
  BY Goes DEF TypeInv
<1> QED
  BY <1>1 DEF Quiet

LEMMA FirstStatements ==
    ASSUME TypeInv, NEW h \in Handlers,
           Take(h) \/ LockRecord(h) \/ LockSession(h) \/ Save(h) \/ LockClub(h)
    PROVE  Framed(h) /\ Quiet(h)
<1>1. seen[h] \in SessionRows \cup RecordRows \cup {NoRow}
  BY DEF TypeInv, TypesOK
<1>2. CASE Take(h)
  <2> DEFINE l == IF Act(h).type \in RecordActions THEN "record" ELSE "session"
  <2>1. pc[h] = "next" /\ UNCHANGED <<today, standing, pushed, row, req>> /\ HoldsOn(h)
    BY <1>2, StaysHoldsOn DEF Take, TypeInv
  <2>2. CASE MoveOn(h)
    BY <2>1, <2>2, MoveOnQuiet
  <2>3. CASE Go(h, l)
    <3>1. l \in Labels
      BY DEF Labels, Acting
    <3>2. pc' = [pc EXCEPT ![h] = l] /\ UNCHANGED <<pos, day, wrote, saved>>
          /\ seen' = [seen EXCEPT ![h] = seen[h]]
      BY <2>3 DEF Go, txVars, TypeInv, TypesOK
    <3> HIDE DEF l
    <3> QED
      BY <1>1, <2>1, <3>1, <3>2, GoQuiet
  <2> QED
    BY <1>2, <2>2, <2>3 DEF Take
<1>3. CASE LockRecord(h)
  <2> DEFINE r == View(h, Act(h).rec)
  <2>1. pc[h] = "record" /\ UNCHANGED <<today, standing, pushed, row, req>> /\ ForUpdate(h, Act(h).rec)
    BY <1>3 DEF LockRecord
  <2>2. Act(h).rec \in RecordIds /\ Act(h).rec \in Ids
    BY <2>1, ActType, IdsFacts DEF TypeInv, Acting, ActionOK
  <2>3. HoldsOn(h) /\ r \in SessionRows \cup RecordRows \cup {NoRow}
    BY <2>1, <2>2, ForUpdateHoldsOn, ViewType DEF TypeInv
  <2>4. CASE MoveOn(h)
    BY <2>1, <2>3, <2>4, MoveOnQuiet
  <2>5. CASE pc' = [pc EXCEPT ![h] = "session"] /\ seen' = [seen EXCEPT ![h] = r]
             /\ UNCHANGED <<pos, day, wrote, saved>>
    <3>1. "session" \in Labels
      BY DEF Labels, Acting
    <3> HIDE DEF r
    <3> QED
      BY <2>1, <2>3, <2>5, <3>1, GoQuiet
  <2> QED
    BY <1>3, <2>4, <2>5 DEF LockRecord
<1>4. CASE LockSession(h)
  <2> DEFINE x == View(h, Act(h).session)
             s == IF Act(h).type \in RecordActions THEN seen[h] ELSE x
             l == AfterSession(h)
  <2>1. pc[h] = "session" /\ UNCHANGED <<today, standing, pushed, row, req>> /\ ForUpdate(h, Act(h).session)
    BY <1>4 DEF LockSession
  <2>2. Act(h).session \in SessionIds /\ Act(h).session \in Ids
    BY <2>1, ActType, IdsFacts DEF TypeInv, Acting, ActionOK
  <2>3. HoldsOn(h) /\ s \in SessionRows \cup RecordRows \cup {NoRow}
    BY <1>1, <2>1, <2>2, ForUpdateHoldsOn, ViewType DEF TypeInv
  <2>4. CASE MoveOn(h)
    BY <2>1, <2>3, <2>4, MoveOnQuiet
  <2>5. CASE /\ pc' = [pc EXCEPT ![h] = l]
             /\ seen' = [seen EXCEPT ![h] = IF Act(h).type \in RecordActions THEN @ ELSE x]
             /\ UNCHANGED <<pos, day, wrote, saved>>
    <3>1. l \in Labels
      BY DEF Labels, Acting, AfterSession
    <3>2. seen' = [seen EXCEPT ![h] = s]
      BY <2>5 DEF TypeInv, TypesOK
    <3> HIDE DEF l, s, x
    <3> QED
      BY <2>1, <2>3, <2>5, <3>1, <3>2, GoQuiet
  <2> QED
    BY <1>4, <2>4, <2>5 DEF LockSession
<1>5. CASE Save(h)
  <2>1. /\ pc[h] = "save" /\ UNCHANGED <<today, standing, pushed, row, lock, req, day, wrote>>
        /\ pc' = [pc EXCEPT ![h] = "next"] /\ pos' = [pos EXCEPT ![h] = @ + 1]
        /\ seen' = [seen EXCEPT ![h] = NoRow] /\ saved' = [saved EXCEPT ![h] = @ \cup {Key(h)}]
    BY <1>5 DEF Save
  <2>2. \A g \in Handlers \ {h} : Same(g)
    BY <2>1 DEF TypeInv, TypesOK, Same
  <2>3. saved'[h] = saved[h] \cup {Key(h)}
    BY <2>1 DEF TypeInv, TypesOK
  <2> QED
    BY <2>1, <2>2, <2>3, StaysHoldsOn DEF Framed, Quiet, TypeInv
<1>6. CASE LockClub(h)
  <2>1. pc[h] = "club" /\ Free(h, req[h].club) /\ lock' = Locked(h, {req[h].club})
        /\ pc' = [pc EXCEPT ![h] = "build"] /\ UNCHANGED <<today, standing, pushed, row, req>>
        /\ UNCHANGED <<pos, day, wrote, saved>> /\ seen' = [seen EXCEPT ![h] = seen[h]]
    BY <1>6 DEF LockClub, ClubLock, ClubFree, txVars, TypeInv, TypesOK
  <2>2. req[h].club \in Clubs
    BY <2>1, AttendanceAssumption DEF TypeInv, TypesOK, HandlerOK, RequestOK
  <2>3. HoldsOn(h) /\ "build" \in Labels
    BY <2>1, <2>2, LockedHoldsOn DEF TypeInv, Labels
  <2> QED
    BY <1>1, <2>1, <2>3, GoQuiet
<1> QED
  BY <1>2, <1>3, <1>4, <1>5, <1>6

LEMMA WriteTargetEffect ==
    ASSUME TypeInv, NEW h \in Handlers, WriteTarget(h)
    PROVE  Framed(h) /\ (Quiet(h) \/ Changes(h))
<1>1. pc[h] = "write" /\ UNCHANGED <<today, standing, pushed, row, processed, received, req>>
  BY DEF WriteTarget
<1>2. CASE MoveOn(h) /\ UNCHANGED lock
  BY <1>1, <1>2, StaysHoldsOn, MoveOnQuiet DEF TypeInv
<1>3. CASE ~ChangeRefused(h) /\ Put(h, TargetRows(h), AfterWrite(h))
  <2> DEFINE f == TargetRows(h)
             l == AfterWrite(h)
  <2>1. FitsAll(f) /\ l \in Labels
    BY <1>1, ChangedType DEF AfterWrite, Labels, Acting
  <2>2. Put(h, f, l) /\ UNCHANGED <<today, standing, pushed, row, req>>
    BY <1>1, <1>3
  <2> HIDE DEF f, l
  <2>3. Framed(h) /\ Wrote(h, f) /\ pc'[h] = l
    BY <2>1, <2>2, PutWrote
  <2> QED
    BY <1>1, <1>3, <2>3 DEF Changes, f, l
<1> QED
  BY <1>2, <1>3 DEF WriteTarget, TargetRows

LEMMA CreateRecordsEffect ==
    ASSUME TypeInv, NEW h \in Handlers, CreateRecords(h)
    PROVE  Framed(h) /\ (Quiet(h) \/ Creates(h))
<1> DEFINE f == PayloadRows(h)
           refused == \E r \in DOMAIN f : f[r].session # Act(h).session \/ RecordRefused(h, r, f[r])
<1>1. pc[h] = "records" /\ Act(h).type = "create_session"
      /\ UNCHANGED <<today, standing, pushed, row, processed, received, req>>
  BY DEF CreateRecords
<1>2. CASE MoveOn(h) /\ UNCHANGED lock
  BY <1>1, <1>2, StaysHoldsOn, MoveOnQuiet DEF TypeInv
<1>3. CASE ~refused /\ Put(h, f, "save")
  <2>1. FitsAll(f) /\ "save" \in Labels
    BY <1>1, ActType, PayloadType DEF TypeInv, Acting, Labels
  <2>2. Put(h, f, "save") /\ UNCHANGED <<today, standing, pushed, row, req>>
    BY <1>1, <1>3
  <2>3. \A r \in DOMAIN f : f[r].session = Act(h).session /\ ~RecordRefused(h, r, f[r])
    BY <1>3
  <2> HIDE DEF f
  <2>4. Framed(h) /\ Wrote(h, f) /\ pc'[h] = "save"
    BY <2>1, <2>2, PutWrote
  <2> QED
    BY <1>1, <2>3, <2>4 DEF Creates, f
<1> QED
  BY <1>2, <1>3 DEF CreateRecords

LEMMA MarkRecordsEffect ==
    ASSUME TypeInv, NEW h \in Handlers, MarkRecords(h)
    PROVE  Framed(h) /\ (Quiet(h) \/ Marks(h))
<1> DEFINE all == RecordsOf(h, Act(h).session)
           f == MarkedRows(h)
<1>1. pc[h] = "records" /\ Act(h).type = "mark_all_present"
      /\ UNCHANGED <<today, standing, pushed, row, processed, received, req>>
      /\ (\A r \in all : Free(h, r)) /\ lock' = Locked(h, all)
  BY DEF MarkRecords
<1>2. FitsAll(f) /\ DOMAIN f \subseteq all
  BY MarkedType DEF TypeInv, MarkedRows
<1>3. all \subseteq Clubs \cup Ids
  BY IdsFacts DEF RecordsOf
<1>4. HoldsOn(h) /\ \A r \in all : lock'[r] = h
  <2> HIDE DEF all
  <2> QED
    BY <1>1, <1>3, LockedHoldsOn DEF TypeInv
<1>5. CASE MoveOn(h)
  BY <1>1, <1>4, <1>5, MoveOnQuiet
<1>6. CASE /\ ~MarkRefused(h, f) /\ wrote' = Overlay(h, f)
           /\ pc' = [pc EXCEPT ![h] = "save"] /\ UNCHANGED <<pos, day, seen, saved>>
  <2>1. "save" \in Labels
    BY DEF Labels, Acting
  <2>2. /\ Framed(h) /\ pc'[h] = "save"
        /\ \A x \in Ids : wrote'[h][x] = IF x \in DOMAIN f THEN f[x] ELSE wrote[h][x]
        /\ \A x \in DOMAIN f : f[x] # NoRow
    <3> HIDE DEF f, all
    <3> QED
      BY <1>1, <1>2, <1>4, <1>6, <2>1, Writes DEF TypeInv
  <2>3. Act(h)' = Act(h)
    BY <1>1, <1>6 DEF Act
  <2>4. Wrote(h, f)
    BY <1>2, <1>4, <1>6, <2>2, <2>3 DEF Wrote, FitsAll
  <2>5. \A r \in DOMAIN f : ~RecordRefused(h, r, f[r])
    BY <1>6 DEF MarkRefused
  <2> QED
    BY <1>1, <2>2, <2>4, <2>5 DEF Marks
<1> QED
  BY <1>5, <1>6 DEF MarkRecords, MarkedRows

LEMMA DeleteRecordsEffect ==
    ASSUME TypeInv, NEW h \in Handlers, DeleteRecords(h)
    PROVE  Framed(h) /\ DeletesRecords(h)
<1> DEFINE f == DeletedRecords(h)
<1>1. pc[h] = "records" /\ Act(h).type = "delete_session" /\ UNCHANGED <<today, standing, pushed, row, req>>
      /\ Put(h, f, "messages")
  BY DEF DeleteRecords, DeletedRecords
<1>2. FitsAll(f) /\ "messages" \in Labels
  BY MarkedType DEF TypeInv, Labels, Acting
<1> HIDE DEF f
<1>3. Framed(h) /\ Wrote(h, f) /\ pc'[h] = "messages"
  BY <1>1, <1>2, PutWrote
<1> QED
  BY <1>1, <1>3 DEF DeletesRecords, f

LEMMA DeleteMessagesEffect ==
    ASSUME TypeInv, NEW h \in Handlers, DeleteMessages(h)
    PROVE  Framed(h) /\ (Quiet(h) \/ DeletesMessages(h))
<1> DEFINE M == MessagesOf(h, Act(h).session)
           f == DeletedMessages(h)
<1>1. pc[h] = "messages" /\ Act(h).type = "delete_session"
      /\ UNCHANGED <<today, standing, pushed, row, processed, received, req>>
  BY DEF DeleteMessages
<1>2. CASE /\ \E m \in M : MessageRefused(View(h, m))
           /\ MoveOn(h) /\ (\A m \in M : Free(h, m)) /\ lock' = Locked(h, M)
  <2>1. M \subseteq Clubs \cup Ids
    BY IdsFacts DEF MessagesOf
  <2>3. HoldsOn(h) /\ \A m \in M : lock'[m] = h
    <3> HIDE DEF M
    <3> QED
      BY <1>2, <2>1, LockedHoldsOn DEF TypeInv
  <2>2. \E m \in M : MessageRefused(View(h, m)) /\ lock'[m] = h
    BY <1>2, <2>3
  <2> QED
    BY <1>1, <1>2, <2>2, <2>3, MoveOnQuiet
<1>3. CASE (\A m \in M : ~MessageRefused(View(h, m))) /\ Put(h, f, "save")
  <2>1. FitsAll(f) /\ "save" \in Labels /\ Put(h, f, "save") /\ UNCHANGED <<today, standing, pushed, row, req>>
    BY <1>1, <1>3, DeletedMessagesType DEF TypeInv, Labels, Acting
  <2> HIDE DEF f
  <2>2. Framed(h) /\ Wrote(h, f) /\ pc'[h] = "save"
    BY <2>1, PutWrote
  <2> QED
    BY <1>1, <1>3, <2>2 DEF DeletesMessages, f
<1> QED
  BY <1>2, <1>3 DEF DeleteMessages, DeletedMessages

LEMMA MirrorNoteEffect ==
    ASSUME TypeInv, NEW h \in Handlers, MirrorNote(h)
    PROVE  Framed(h) /\ (Quiet(h) \/ DeletesMessage(h))
<1> DEFINE id == Note(Act(h).rec)
           m == View(h, id)
<1>1. pc[h] = "messages" /\ Act(h).type = "set_record_note"
      /\ UNCHANGED <<today, standing, pushed, row, processed, received, req>>
  BY DEF MirrorNote
<1>2. Act(h).rec \in RecordIds /\ id \in Ids
  BY <1>1, ActType, IdsFacts DEF TypeInv, Acting, ActionOK
<1>3. CASE ~Act(h).value /\ m = NoRow
  <2>1. /\ pc' = [pc EXCEPT ![h] = "save"] /\ UNCHANGED <<pos, day, wrote, saved>> /\ UNCHANGED lock
        /\ seen' = [seen EXCEPT ![h] = seen[h]]
    BY <1>3 DEF MirrorNote, Go, txVars, TypeInv, TypesOK
  <2>2. seen[h] \in SessionRows \cup RecordRows \cup {NoRow} /\ "save" \in Labels /\ HoldsOn(h)
    BY <2>1, StaysHoldsOn DEF TypeInv, TypesOK, Labels, Acting
  <2> QED
    BY <1>1, <2>1, <2>2, GoQuiet
<1>4. CASE ~Act(h).value /\ m # NoRow /\ ~MessageRefused(m)
  <2> DEFINE f == DeletedMessage(h)
  <2>1. FitsAll(f) /\ "save" \in Labels
    BY <1>2, <1>4, DeletedMessageType DEF TypeInv, Labels, Acting
  <2>2. Put(h, f, "save") /\ UNCHANGED <<today, standing, pushed, row, req>>
    BY <1>1, <1>4 DEF MirrorNote, DeletedMessage
  <2> HIDE DEF f
  <2>3. Framed(h) /\ Wrote(h, f) /\ pc'[h] = "save"
    BY <2>1, <2>2, PutWrote
  <2> QED
    BY <1>1, <1>4, <2>3 DEF DeletesMessage, f
<1>5. CASE Act(h).value \/ (m # NoRow /\ MessageRefused(m))
  <2>1. MoveOn(h) /\ ForUpdate(h, id)
    BY <1>5 DEF MirrorNote
  <2>2. HoldsOn(h)
    <3> HIDE DEF id
    <3> QED
      BY <1>2, <2>1, ForUpdateHoldsOn DEF TypeInv
  <2> QED
    BY <1>1, <2>1, <2>2, MoveOnQuiet
<1> QED
  BY <1>3, <1>4, <1>5

LEMMA BuildSessionEffect ==
    ASSUME TypeInv, NEW h \in Handlers, BuildSession(h)
    PROVE  Framed(h) /\ Builds(h)
<1> DEFINE f == Built(h)
<1>1. pc[h] = "build" /\ Put(h, f, "next") /\ Unused # {} /\ UNCHANGED <<today, standing, pushed, row, req>>
  BY DEF BuildSession, Built
<1>2. FitsAll(f) /\ "next" \in Labels
  BY <1>1, BuiltType DEF TypeInv, HandlerOK, Labels
<1> HIDE DEF f
<1>3. Framed(h) /\ Wrote(h, f) /\ pc'[h] = "next"
  BY <1>1, <1>2, PutWrote
<1> QED
  BY <1>1, <1>3 DEF Builds, f

LEMMA Effects ==
    ASSUME TypeInv, NEW h \in Handlers, Works(h)
    PROVE  /\ Framed(h)
           /\ \/ Quiet(h) \/ Changes(h) \/ Creates(h) \/ Marks(h) \/ DeletesRecords(h)
              \/ DeletesMessages(h) \/ DeletesMessage(h) \/ Builds(h)
BY FirstStatements, WriteTargetEffect, CreateRecordsEffect, MarkRecordsEffect, DeleteRecordsEffect,
   DeleteMessagesEffect, MirrorNoteEffect, BuildSessionEffect DEF Works

-----------------------------------------------------------------------------
(* A step of another handler, or of nobody, as a handler sees it.          *)
Undisturbed(h) ==
    /\ Same(h)
    /\ \A x \in Clubs \cup Ids : lock[x] = h => lock'[x] = h
    /\ \A x \in Ids : lock[x] = h => row'[x] = row[x]

LEMMA Elsewhere ==
    ASSUME TypeInv, [Next]_vars, NEW h \in Handlers
    PROVE  Works(h) \/ Undisturbed(h) \/ (wrote'[h] = Empty /\ pc'[h] # "build")
<1>1. TypesOK
  BY DEF TypeInv
<1>2. CASE Midnight \/ (\E x \in Fragile : PushStanding(x)) \/ UNCHANGED vars
  <2>1. UNCHANGED <<row, lock, pc, req, txVars>>
    BY <1>2, MidnightFacts, StandingFacts DEF vars, txVars
  <2> QED
    BY <2>1 DEF Undisturbed, Same, txVars
<1>3. CASE \E p \in Pushes : PushRow(p)
  BY <1>3, PushFacts DEF Undisturbed
<1>4. CASE \E g \in Handlers, q \in Requests : Begin(g, q)
  <2>1. PICK g \in Handlers, q \in Requests : Begin(g, q)
    BY <1>4
  <2>2. /\ UNCHANGED <<row, lock, wrote>> /\ wrote[g] = Empty /\ pc'[g] # "build"
        /\ \A k \in Handlers \ {g} : Same(k)
    BY <2>1, BeginFacts
  <2> QED
    BY <2>2 DEF Undisturbed
<1>5. CASE \E g \in Handlers : Works(g)
  <2>1. PICK g \in Handlers : Works(g)
    BY <1>5
  <2>2. Framed(g)
    BY <2>1, Effects
  <2> QED
    BY <2>1, <2>2 DEF Undisturbed, Framed, HoldsOn
<1>6. CASE \E g \in Handlers : Commit(g)
  <2>1. PICK g \in Handlers : Commit(g)
    BY <1>6
  <2>2. /\ wrote'[g] = Empty /\ pc'[g] = "idle" /\ \A k \in Handlers \ {g} : Same(k)
        /\ \A x \in Ids : lock[x] # g => row'[x] = row[x]
        /\ \A x \in Clubs \cup Ids : \A k \in Handlers \ {g} : lock'[x] = k <=> lock[x] = k
    BY <2>1, CommitFacts
  <2> QED
    BY <2>2 DEF Undisturbed
<1>7. CASE \E g \in Handlers : Rollback({g}) /\ row' = row
  <2>1. PICK g \in Handlers : Rollback({g}) /\ row' = row
    BY <1>7
  <2> DEFINE H == {g}
  <2>2. H \in SUBSET Handlers /\ Rollback(H) /\ lock' = Unlocked(H) /\ (h # g => h \in Handlers \ H)
    BY <2>1 DEF Rollback
  <2>3. g \in H
    OBVIOUS
  <2> HIDE DEF H
  <2>4. wrote'[g] = Empty /\ pc'[g] = "idle" /\ \A k \in Handlers \ H : Same(k)
    BY <1>1, <2>2, <2>3, RollbackFacts
  <2>5. \A x \in Clubs \cup Ids : \A k \in Handlers \ H : lock'[x] = k <=> lock[x] = k
    BY <1>1, <2>2, UnlockedFacts
  <2> QED
    BY <2>1, <2>2, <2>4, <2>5 DEF Undisturbed
<1>8. CASE Restart
  <2>1. Handlers \in SUBSET Handlers /\ Rollback(Handlers)
    BY <1>8 DEF Restart
  <2> QED
    BY <1>1, <2>1, RollbackFacts
<1> QED
  BY <1>2, <1>3, <1>4, <1>5, <1>6, <1>7, <1>8, Steps

(* What a handler sees after a statement. *)
LEMMA ViewAfter ==
    ASSUME NEW h \in Handlers, NEW f, Wrote(h, f), row' = row
    PROVE  \A x \in Ids : View(h, x)' = IF x \in DOMAIN f THEN f[x] ELSE View(h, x)
BY DEF Wrote, View

-----------------------------------------------------------------------------
(* Records follow their session.                                           *)
LEMMA QuietRecords ==
    ASSUME NEW h \in Handlers, Follows(h), Framed(h), Quiet(h)
    PROVE  Follows(h)'
<1>1. wrote'[h] = wrote[h] /\ row' = row /\ req' = req
  BY DEF Quiet, Framed
<1>2. \A x \in SessionIds : ~Deleting(h, x, {"records"})
  BY DEF Quiet, Deleting
<1> SUFFICES ASSUME NEW r \in RecordIds, NEW x \in SessionIds,
                    View(h, r)' # NoRow, View(h, r)'.session = x, ~ActiveIn(h, x)'
             PROVE  Left(h, r, x)' \/ Buries(h, x)'
  BY DEF Follows
<1>3. Left(h, r, x) \/ Buries(h, x)
  BY <1>1, <1>2 DEF Follows, View, ActiveIn
<1> QED
  BY <1>1, <1>3 DEF Left, Buries

(* A statement that writes the rows of f, when what it writes follows. *)
LEMMA WroteRecords ==
    ASSUME NEW h \in Handlers, Follows(h), Framed(h), NEW f, Wrote(h, f),
           \A x \in SessionIds : ~Deleting(h, x, {"records"}),
           \A r \in RecordIds, x \in SessionIds :
               r \in DOMAIN f /\ f[r].session = x => f[r].deleted \/ ActiveIn(h, x)',
           \A x \in SessionIds : x \in DOMAIN f /\ ActiveIn(h, x) =>
               Active(f[x]) \/ Deleting(h, x, {"records"})' \/ Buries(h, x)
    PROVE  Follows(h)'
<1> SUFFICES ASSUME NEW r \in RecordIds, NEW x \in SessionIds,
                    View(h, r)' # NoRow, View(h, r)'.session = x, ~ActiveIn(h, x)'
             PROVE  Left(h, r, x)' \/ Deleting(h, x, {"records"})' \/ Buries(h, x)'
  BY DEF Follows
<1>1. r \in Ids /\ x \in Ids /\ row' = row /\ req' = req
  BY IdsFacts DEF Framed
<1>2. /\ View(h, r)' = IF r \in DOMAIN f THEN f[r] ELSE View(h, r)
      /\ View(h, x)' = IF x \in DOMAIN f THEN f[x] ELSE View(h, x)
  BY <1>1, ViewAfter
<1>3. wrote'[h][r] = IF r \in DOMAIN f THEN f[r] ELSE wrote[h][r]
  BY <1>1 DEF Wrote
<1>4. CASE r \in DOMAIN f
  <2>1. f[r].session = x /\ f[r] # NoRow
    BY <1>2, <1>4
  <2>3. wrote'[h][r] # NoRow /\ wrote'[h][r].deleted
    BY <1>3, <1>4, <2>1
  <2> QED
    BY <2>3 DEF Left
<1>5. CASE r \notin DOMAIN f /\ ActiveIn(h, x)
  <2>1. x \in DOMAIN f /\ ~Active(f[x])
    BY <1>2, <1>5 DEF ActiveIn
  <2> QED
    BY <1>1, <1>5, <2>1 DEF Buries
<1>6. CASE r \notin DOMAIN f /\ ~ActiveIn(h, x)
  <2>1. Left(h, r, x) \/ Buries(h, x)
    BY <1>2, <1>6 DEF Follows
  <2> QED
    BY <1>1, <1>3, <1>6, <2>1 DEF Left, Buries
<1> QED
  BY <1>4, <1>5, <1>6

(* What makes an active session inactive: delete_session, or the payload   *)
(* of a create_session.                                                    *)
LEMMA ChangedActive ==
    ASSUME TypeInv, NEW h \in Handlers, pc[h] = "write", Act(h).type \in SessionActions,
           Active(View(h, Act(h).session))
    PROVE  \/ Active(Changed(h))
           \/ AfterWrite(h) = "records" /\ Act(h).type = "delete_session"
           \/ Buries(h, Act(h).session)
<1> DEFINE a == Act(h)
<1>1. LoadedOK(h) /\ HandlerOK(h) /\ ActionOK(a)
  BY ActType DEF TypeInv, Acting
<1>2. CASE a.type = "create_session"
  <2>1. Changed(h) = [club |-> a.club, date |-> a.date, status |-> a.status, note |-> a.note,
                      deleted |-> a.deleted]
    BY <1>2 DEF Changed
  <2>2. Changed(h) \in SessionRows /\ Changed(h) # NoRow
    BY ChangedType, IdsFacts
  <2>3. Changed(h).deleted = a.deleted
    BY <2>1
  <2>4. a.deleted => Buries(h, a.session)
    BY <1>1, <1>2 DEF Buries, HandlerOK, Acting, Act
  <2> QED
    BY <2>2, <2>3, <2>4 DEF Active
<1>3. CASE a.type = "delete_session"
  BY <1>3 DEF AfterWrite
<1>4. CASE a.type \in {"set_session_status", "set_session_note"}
  <2>1. seen[h] = View(h, a.session) /\ seen[h] \in SessionRows /\ Changed(h) \in SessionRows
    BY <1>1, <1>4, ChangedType DEF LoadedOK
  <2>2. Changed(h).deleted = seen[h].deleted
    <3>1. CASE a.type = "set_session_status"
      BY <2>1, <3>1 DEF Changed, SessionRows
    <3>2. CASE a.type = "set_session_note"
      BY <2>1, <3>2 DEF Changed, SessionRows
    <3> QED
      BY <1>4, <3>1, <3>2
  <2> QED
    BY <2>1, <2>2, IdsFacts DEF Active
<1> QED
  BY <1>1, <1>2, <1>3, <1>4 DEF LoadedOK, SessionActions

LEMMA ChangesRecords ==
    ASSUME TypeInv, NEW h \in Handlers, Follows(h), Framed(h), Changes(h)
    PROVE  Follows(h)'
<1> DEFINE f == TargetRows(h)
           a == Act(h)
<1>1. pc[h] = "write" /\ ~ChangeRefused(h) /\ pc'[h] = AfterWrite(h) /\ Wrote(h, f)
  BY DEF Changes
<1>2. DOMAIN f = {Target(h)} /\ f[Target(h)] = Changed(h)
  BY DEF TargetRows
<1>3. ActionOK(a) /\ Act(h)' = a /\ row' = row
  BY <1>1, ActType DEF TypeInv, Acting, Wrote, Framed
<1>4. \A x \in SessionIds : ~Deleting(h, x, {"records"})
  BY <1>1 DEF Deleting
<1>5. CASE a.type \in RecordActions
  <2>1. Target(h) = a.rec /\ Changed(h).session = a.session /\ ~RecordRefused(h, a.rec, Changed(h))
    BY <1>1, <1>5, ChangedType DEF ChangeRefused
  <2>2. Active(View(h, a.session)) /\ a.session \in SessionIds /\ a.rec \in RecordIds
    BY <1>3, <2>1 DEF RecordRefused, ActiveIn, ActionOK
  <2>3. \A x \in SessionIds : x \notin DOMAIN f
    BY <1>2, <2>1, <2>2, IdsFacts
  <2>4. ASSUME NEW x \in SessionIds, x = a.session PROVE ActiveIn(h, x)'
    <3> HIDE DEF f
    <3>1. View(h, x)' = View(h, x)
      BY <1>1, <1>3, <2>3, ViewAfter, IdsFacts
    <3> QED
      BY <2>2, <2>4, <3>1 DEF ActiveIn
  <2>5. \A r \in RecordIds, x \in SessionIds :
           r \in DOMAIN f /\ f[r].session = x => f[r].deleted \/ ActiveIn(h, x)'
    BY <1>2, <2>1, <2>4
  <2> HIDE DEF f
  <2> QED
    BY <1>1, <1>4, <2>3, <2>5, WroteRecords
<1>6. CASE a.type \in SessionActions
  <2>1. Target(h) = a.session /\ a.session \in SessionIds
    BY <1>1, <1>3, <1>6, ChangedType DEF ActionOK
  <2>2. \A r \in RecordIds : r \notin DOMAIN f
    BY <1>2, <2>1, IdsFacts
  <2>3. Active(View(h, a.session)) =>
           \/ Active(Changed(h)) \/ (pc'[h] = "records" /\ a.type = "delete_session")
           \/ Buries(h, a.session)
    BY <1>1, <1>6, ChangedActive
  <2>4. \A x \in SessionIds : x \in DOMAIN f /\ ActiveIn(h, x) =>
             Active(f[x]) \/ Deleting(h, x, {"records"})' \/ Buries(h, x)
    BY <1>2, <1>3, <2>1, <2>3 DEF ActiveIn, Deleting
  <2> HIDE DEF f
  <2> QED
    BY <1>1, <1>4, <2>2, <2>4, WroteRecords
<1> QED
  BY <1>1, <1>5, <1>6, ChangedType

LEMMA DeletesFollow ==
    ASSUME TypeInv, NEW h \in Handlers, Follows(h), Framed(h), DeletesRecords(h)
    PROVE  Follows(h)'
<1> DEFINE f == DeletedRecords(h)
<1>1. pc[h] = "records" /\ Act(h).type = "delete_session" /\ Wrote(h, f)
  BY DEF DeletesRecords
<1>2. DOMAIN f = RecordsOf(h, Act(h).session)
  BY DEF DeletedRecords
<1>3. ASSUME NEW r \in DOMAIN f PROVE f[r].deleted
  <2>1. View(h, r) \in RecordRows /\ f[r] = [View(h, r) EXCEPT !.deleted = TRUE]
    BY <1>3, MarkedType DEF TypeInv
  <2> QED
    BY <2>1 DEF RecordRows
<1>4. row' = row /\ req' = req
  BY DEF Framed
<1> SUFFICES ASSUME NEW r \in RecordIds, NEW x \in SessionIds,
                    View(h, r)' # NoRow, View(h, r)'.session = x, ~ActiveIn(h, x)'
             PROVE  Left(h, r, x)' \/ Buries(h, x)'
  BY DEF Follows
<1> HIDE DEF f
<1>5. r \in Ids /\ x \in Ids /\ x \notin DOMAIN f
  BY <1>2, IdsFacts DEF RecordsOf
<1>6. View(h, r)' = (IF r \in DOMAIN f THEN f[r] ELSE View(h, r)) /\ View(h, x)' = View(h, x)
  BY <1>1, <1>4, <1>5, ViewAfter
<1>7. wrote'[h][r] = IF r \in DOMAIN f THEN f[r] ELSE wrote[h][r]
  BY <1>1, <1>5 DEF Wrote
<1>8. CASE r \in DOMAIN f
  BY <1>3, <1>6, <1>7, <1>8 DEF Left
<1>9. CASE r \notin DOMAIN f
  <2>1. View(h, r) # NoRow /\ View(h, r).session = x /\ x # Act(h).session /\ ~ActiveIn(h, x)
    BY <1>2, <1>6, <1>9 DEF RecordsOf, ActiveIn
  <2>2. Left(h, r, x) \/ Buries(h, x)
    BY <2>1 DEF Follows, Deleting
  <2> QED
    BY <1>4, <1>7, <1>9, <2>2 DEF Left, Buries
<1> QED
  BY <1>8, <1>9

LEMMA OthersFollow ==
    ASSUME TypeInv, NEW h \in Handlers, Follows(h), Framed(h),
           Creates(h) \/ Marks(h) \/ DeletesMessages(h) \/ DeletesMessage(h) \/ Builds(h)
    PROVE  Follows(h)'
<1>0. \A x \in SessionIds : ~Deleting(h, x, {"records"})
  BY DEF Deleting, Creates, Marks, DeletesMessages, DeletesMessage, Builds
<1>1. ASSUME NEW f, Wrote(h, f), DOMAIN f \subseteq RecordIds,
             \A r \in DOMAIN f : f[r].session \in SessionIds /\ ActiveIn(h, f[r].session)
      PROVE  Follows(h)'
  <2>1. \A x \in SessionIds : x \notin DOMAIN f /\ View(h, x)' = View(h, x)
    BY <1>1, ViewAfter, IdsFacts DEF Framed
  <2>2. \A x \in SessionIds : ActiveIn(h, x) => ActiveIn(h, x)'
    BY <2>1 DEF ActiveIn
  <2>3. \A r \in RecordIds, x \in SessionIds :
           r \in DOMAIN f /\ f[r].session = x => ActiveIn(h, x)'
    BY <1>1, <2>2
  <2> QED
    BY <1>0, <1>1, <2>1, <2>3, WroteRecords
<1>2. CASE Creates(h)
  <2> DEFINE f == PayloadRows(h)
  <2>1. Wrote(h, f) /\ DOMAIN f \subseteq RecordIds /\ Act(h).session \in SessionIds
    BY <1>2, ActType, PayloadType DEF Creates, TypeInv, Acting, ActionOK
  <2>2. \A r \in DOMAIN f : f[r].session = Act(h).session /\ ~RecordRefused(h, r, f[r])
    BY <1>2 DEF Creates
  <2> HIDE DEF f
  <2> QED
    BY <1>1, <2>1, <2>2 DEF RecordRefused
<1>3. CASE Marks(h)
  <2> DEFINE f == MarkedRows(h)
  <2>1. DOMAIN f \subseteq RecordIds /\ \A r \in DOMAIN f : f[r] \in RecordRows
    BY MarkedType DEF TypeInv
  <2>2. Wrote(h, f) /\ \A r \in DOMAIN f : ~RecordRefused(h, r, f[r])
    BY <1>3 DEF Marks
  <2> HIDE DEF f
  <2> QED
    BY <1>1, <2>1, <2>2, RowFacts DEF RecordRefused
<1>4. ASSUME NEW f, Wrote(h, f), DOMAIN f \subseteq MessageIds
      PROVE  Follows(h)'
  BY <1>0, <1>4, WroteRecords, IdsFacts
<1>5. CASE DeletesMessages(h)
  BY <1>4, <1>5, DeletedMessagesType DEF TypeInv, DeletesMessages
<1>6. CASE DeletesMessage(h)
  <2> DEFINE f == DeletedMessage(h)
  <2>1. Wrote(h, f) /\ Act(h).rec \in RecordIds
    BY <1>6, ActType DEF TypeInv, DeletesMessage, Acting, ActionOK
  <2>2. DOMAIN f \subseteq MessageIds
    BY <2>1, IdsFacts DEF DeletedMessage
  <2> HIDE DEF f
  <2> QED
    BY <1>4, <2>1, <2>2
<1>7. CASE Builds(h)
  <2> DEFINE f == Built(h)
  <2>1. Wrote(h, f) /\ req[h].kind = "create" /\ Unused # {}
    BY <1>7 DEF Builds, TypeInv, HandlerOK
  <2>2. PICK x \in NewSessions :
            /\ x \in DOMAIN f
            /\ f[x] = [club |-> req[h].club, date |-> req[h].date, status |-> "draft",
                       note |-> FALSE, deleted |-> FALSE]
            /\ f[x] \in SessionRows
            /\ \A y \in DOMAIN f : y = x \/ y \in RecordIds
            /\ \A r \in RecordIds : r \in DOMAIN f => f[r] \in RecordRows /\ f[r].session = x
    BY <2>1, BuiltType DEF TypeInv
  <2>3. f[x].deleted = FALSE /\ x \in SessionIds
    BY <2>2 DEF SessionIds
  <2> HIDE DEF f
  <2>4. Active(f[x]) /\ View(h, x)' = f[x]
    BY <2>1, <2>2, <2>3, IdsFacts, ViewAfter DEF Active, Framed
  <2>5. ActiveIn(h, x)'
    BY <2>4 DEF ActiveIn
  <2>6. \A r \in RecordIds, y \in SessionIds :
           r \in DOMAIN f /\ f[r].session = y => ActiveIn(h, y)'
    BY <2>2, <2>5
  <2>7. \A y \in SessionIds : y \in DOMAIN f => Active(f[y])
    BY <2>2, <2>4, IdsFacts
  <2> QED
    BY <1>0, <2>1, <2>6, <2>7, WroteRecords
<1> QED
  BY <1>2, <1>3, <1>5, <1>6, <1>7

(* Whoever writes a record holds the lock of its session. *)
LEMMA WroteSessionLocked ==
    ASSUME TypeInv, NEW h \in Handlers, SessionLocked(h), Framed(h), NEW f, Wrote(h, f),
           \A r \in RecordIds : r \in DOMAIN f =>
               f[r].session \in Ids /\ (lock[f[r].session] = h \/ lock'[f[r].session] = h)
    PROVE  SessionLocked(h)'
<1> SUFFICES ASSUME NEW r \in RecordIds, wrote'[h][r] # NoRow PROVE lock'[wrote'[h][r].session] = h
  BY DEF SessionLocked
<1>1. r \in Ids /\ wrote'[h][r] = IF r \in DOMAIN f THEN f[r] ELSE wrote[h][r]
  BY IdsFacts DEF Wrote
<1>2. CASE r \in DOMAIN f
  BY <1>1, <1>2 DEF Framed, HoldsOn
<1>3. CASE r \notin DOMAIN f
  <2>1. lock[wrote[h][r].session] = h /\ wrote[h][r] \in RecordRows
    BY <1>1, <1>3, IdsFacts DEF SessionLocked, TypeInv, TypesOK, Tabled, Fits
  <2>2. wrote[h][r].session \in Ids
    BY <2>1, RowFacts, IdsFacts
  <2> QED
    BY <1>1, <1>3, <2>1, <2>2 DEF Framed, HoldsOn
<1> QED
  BY <1>2, <1>3

LEMMA WorksSessionLocked ==
    ASSUME TypeInv, NEW h \in Handlers, SessionLocked(h), Works(h)
    PROVE  SessionLocked(h)'
<1>1. Framed(h) /\ LoadedOK(h)
  BY Effects DEF TypeInv
<1>2. CASE Quiet(h)
  <2> SUFFICES ASSUME NEW r \in RecordIds, wrote[h][r] # NoRow PROVE lock'[wrote[h][r].session] = h
    BY <1>2 DEF SessionLocked, Quiet
  <2>1. lock[wrote[h][r].session] = h /\ wrote[h][r] \in RecordRows
    BY IdsFacts DEF SessionLocked, TypeInv, TypesOK, Tabled, Fits
  <2>2. wrote[h][r].session \in Ids
    BY <2>1, RowFacts, IdsFacts
  <2> QED
    BY <1>1, <2>1, <2>2 DEF Framed, HoldsOn
<1>3. CASE Changes(h)
  <2> DEFINE f == TargetRows(h)
  <2>1. Wrote(h, f) /\ pc[h] = "write" /\ ActionOK(Act(h))
    BY <1>3, ActType DEF Changes, TypeInv, Acting
  <2>2. DOMAIN f = {Target(h)} /\ f[Target(h)] = Changed(h) /\ Act(h).session \in SessionIds
    BY <2>1 DEF TargetRows, ActionOK
  <2>3. \A r \in RecordIds : r \in DOMAIN f =>
            f[r].session \in Ids /\ lock[f[r].session] = h
    <3>1. CASE Act(h).type \in RecordActions
      <4>1. Changed(h).session = Act(h).session /\ lock[Act(h).session] = h
        BY <1>1, <2>1, <3>1, ChangedType DEF LoadedOK, RecordActions
      <4> QED
        BY <2>2, <4>1, IdsFacts
    <3>2. CASE Act(h).type \in SessionActions
      BY <2>1, <2>2, <3>2, ChangedType, IdsFacts
    <3> QED
      BY <2>1, <3>1, <3>2, ChangedType
  <2> HIDE DEF f
  <2> QED
    BY <1>1, <2>1, <2>3, WroteSessionLocked
<1>4. CASE Creates(h) \/ Marks(h) \/ DeletesRecords(h)
  <2>1. pc[h] = "records" /\ lock[Act(h).session] = h /\ Act(h).session \in Ids
    BY <1>1, <1>4, ActType, IdsFacts DEF Creates, Marks, DeletesRecords, LoadedOK, TypeInv, Acting, ActionOK
  <2>2. CASE Creates(h)
    <3> DEFINE f == PayloadRows(h)
    <3>1. Wrote(h, f) /\ \A r \in DOMAIN f : f[r].session = Act(h).session
      BY <2>2 DEF Creates
    <3> HIDE DEF f
    <3> QED
      BY <1>1, <2>1, <3>1, WroteSessionLocked
  <2>3. CASE Marks(h)
    <3> DEFINE f == MarkedRows(h)
    <3>1. Wrote(h, f)
      BY <2>3 DEF Marks
    <3>2. \A r \in DOMAIN f : f[r].session = Act(h).session
      BY MarkedType DEF TypeInv, RecordRows
    <3> HIDE DEF f
    <3> QED
      BY <1>1, <2>1, <3>1, <3>2, WroteSessionLocked
  <2>4. CASE DeletesRecords(h)
    <3> DEFINE f == DeletedRecords(h)
    <3>1. Wrote(h, f)
      BY <2>4 DEF DeletesRecords
    <3>2. \A r \in DOMAIN f : f[r].session = Act(h).session
      BY MarkedType DEF TypeInv, RecordRows
    <3> HIDE DEF f
    <3> QED
      BY <1>1, <2>1, <3>1, <3>2, WroteSessionLocked
  <2> QED
    BY <1>4, <2>2, <2>3, <2>4
<1>5. CASE DeletesMessages(h)
  <2> DEFINE f == DeletedMessages(h)
  <2>1. DOMAIN f \subseteq MessageIds /\ Wrote(h, f)
    BY <1>5, DeletedMessagesType DEF TypeInv, DeletesMessages
  <2>2. \A r \in RecordIds : r \notin DOMAIN f
    BY <2>1, IdsFacts
  <2> HIDE DEF f
  <2> QED
    BY <1>1, <2>1, <2>2, WroteSessionLocked
<1>6. CASE DeletesMessage(h)
  <2> DEFINE f == DeletedMessage(h)
  <2>1. Wrote(h, f) /\ Act(h).rec \in RecordIds
    BY <1>6, ActType DEF TypeInv, DeletesMessage, Acting, ActionOK
  <2>2. \A r \in RecordIds : r \notin DOMAIN f
    BY <2>1, IdsFacts DEF DeletedMessage
  <2> HIDE DEF f
  <2> QED
    BY <1>1, <2>1, <2>2, WroteSessionLocked
<1>7. CASE Builds(h)
  <2> DEFINE f == Built(h)
  <2>1. Wrote(h, f) /\ req[h].kind = "create" /\ Unused # {}
    BY <1>7 DEF Builds, TypeInv, HandlerOK
  <2>2. PICK x \in NewSessions : /\ x \in DOMAIN f
                                /\ \A r \in RecordIds : r \in DOMAIN f => f[r].session = x
    BY <2>1, BuiltType DEF TypeInv
  <2>3. x \in Ids /\ lock'[x] = h
    BY <2>1, <2>2 DEF Wrote
  <2> HIDE DEF f
  <2> QED
    BY <1>1, <2>1, <2>2, <2>3, WroteSessionLocked
<1> QED
  BY <1>2, <1>3, <1>4, <1>5, <1>6, <1>7, Effects

(* The records that others commit or push: never a new one of a session    *)
(* that this handler has locked.                                           *)
LEMMA OthersRecords ==
    ASSUME RecordsInv, [Next]_vars, NEW h \in Handlers, Undisturbed(h), ~Works(h),
           NEW r \in RecordIds, row'[r] # row[r], lock[row'[r].session] = h
    PROVE  row[r] # NoRow /\ row[r].session = row'[r].session
<1>1. TypeInv /\ r \in Ids
  BY IdsFacts DEF RecordsInv
<1>2. CASE \E p \in Pushes : PushRow(p)
  <2>1. PICK p \in Pushes : PushRow(p)
    BY <1>2
  <2>2. p.id = r /\ row'[r] = p.row
    BY <1>1, <2>1, PushFacts
  <2>3. NewReference(p) => lock[p.row.session] = Nobody
    BY <2>1, <2>2, IdsFacts DEF PushRow, RefersTo
  <2> QED
    BY <2>2, <2>3, IdsFacts, AttendanceAssumption DEF NewReference
<1>3. CASE \E g \in Handlers : Commit(g)
  <2>1. PICK g \in Handlers : Commit(g)
    BY <1>3
  <2>2. row'[r] = View(g, r) /\ wrote'[g] = Empty /\ pc'[g] = "idle" /\ pc[g] = "next"
    BY <1>1, <2>1, CommitFacts DEF Commit
  <2>3. wrote[g][r] # NoRow /\ row'[r] = wrote[g][r]
    BY <2>2 DEF View
  <2>4. lock[row'[r].session] = g
    BY <2>3 DEF RecordsInv, SessionLocked
  <2>5. g # h
    BY <2>2 DEF Undisturbed, Same
  <2> QED
    BY <2>4, <2>5
<1>4. CASE Restart
  <2>1. row'[r] = row[r]
    BY <1>1, <1>4, RestartRows, IdsFacts DEF TypeInv
  <2> QED
    BY <2>1
<1>5. CASE UNCHANGED row
  BY <1>5
<1>6. CASE \E g \in Handlers : Works(g)
  BY <1>1, <1>5, <1>6, Effects DEF Framed
<1>7. CASE \E g \in Handlers, q \in Requests : Begin(g, q)
  BY <1>1, <1>5, <1>7, BeginFacts
<1>8. CASE Midnight \/ \E x \in Fragile : PushStanding(x)
  BY <1>1, <1>5, <1>8, MidnightFacts, StandingFacts
<1> QED
  BY <1>2, <1>3, <1>4, <1>5, <1>6, <1>7, <1>8, Steps DEF vars

LEMMA UndisturbedRecords ==
    ASSUME RecordsInv, [Next]_vars, NEW h \in Handlers, Undisturbed(h), ~Works(h)
    PROVE  SessionLocked(h)' /\ Follows(h)'
<1>1. /\ Same(h) /\ SessionLocked(h) /\ Follows(h) /\ LocksOK(h) /\ TypesOK
      /\ \A x \in Ids : lock[x] = h => lock'[x] = h /\ row'[x] = row[x]
  BY DEF RecordsInv, TypeInv, Undisturbed
<1>2. wrote'[h] = wrote[h] /\ Act(h)' = Act(h) /\ pc'[h] = pc[h] /\ req'[h] = req[h]
  BY <1>1 DEF Same, Act
<1>3. \A r \in RecordIds : wrote[h][r] # NoRow => wrote[h][r].session \in Ids
  BY <1>1, IdsFacts, RowFacts DEF TypesOK, Tabled, Fits
<1>4. SessionLocked(h)'
  BY <1>1, <1>2, <1>3 DEF SessionLocked
<1>5. ASSUME NEW r \in RecordIds, NEW x \in SessionIds,
             View(h, r)' # NoRow, View(h, r)'.session = x, ~ActiveIn(h, x)'
      PROVE  Left(h, r, x)' \/ Deleting(h, x, {"records"})' \/ Buries(h, x)'
  <2>1. r \in Ids /\ x \in Ids
    BY IdsFacts
  <2>2. CASE lock[x] # h
    <3>1. wrote[h][x] = NoRow
      BY <1>1, <2>1, <2>2 DEF LocksOK
    <3>2. wrote[h][r] = NoRow
      BY <1>1, <1>2, <1>5, <2>2 DEF SessionLocked, View
    <3>3. ~Active(row'[x])
      BY <1>2, <1>5, <3>1 DEF ActiveIn, View
    <3> QED
      BY <1>2, <3>2, <3>3 DEF Left
  <2>3. CASE lock[x] = h
    <3>1. row'[x] = row[x] /\ ~ActiveIn(h, x)
      BY <1>1, <1>2, <1>5, <2>1, <2>3 DEF ActiveIn, View
    <3>2. View(h, r) # NoRow /\ View(h, r).session = x
      <4>1. CASE wrote[h][r] # NoRow \/ row'[r] = row[r]
        BY <1>2, <1>5, <4>1 DEF View
      <4>2. CASE wrote[h][r] = NoRow /\ row'[r] # row[r]
        <5>1. row'[r].session = x
          BY <1>2, <1>5, <4>2 DEF View
        <5> QED
          BY <2>3, <4>2, <5>1, OthersRecords DEF View
      <4> QED
        BY <4>1, <4>2
    <3>3. Left(h, r, x) \/ Deleting(h, x, {"records"}) \/ Buries(h, x)
      BY <1>1, <3>1, <3>2 DEF Follows
    <3> QED
      BY <1>2, <3>1, <3>3 DEF Left, Deleting, Buries
  <2> QED
    BY <2>2, <2>3
<1> QED
  BY <1>4, <1>5 DEF Follows

LEMMA EmptyRecords ==
    ASSUME NEW h \in Handlers, wrote'[h] = Empty
    PROVE  SessionLocked(h)' /\ Follows(h)'
<1>1. \A x \in Ids : wrote'[h][x] = NoRow
  BY DEF Empty
<1> QED
  BY <1>1, IdsFacts DEF SessionLocked, Follows, ActiveIn, View, Left

LEMMA InitRecordsInv == Init => RecordsInv
<1> SUFFICES ASSUME Init PROVE RecordsInv
  OBVIOUS
<1>1. \A x \in RecordIds : row[x] = NoRow /\ \A h \in Handlers : wrote[h][x] = NoRow
  BY IdsFacts DEF Init
<1>2. \A h \in Handlers : SessionLocked(h) /\ Follows(h)
  BY <1>1 DEF SessionLocked, Follows, View
<1> QED
  BY <1>2, InitTypeInv DEF RecordsInv

LEMMA NextRecordsInv == RecordsInv /\ [Next]_vars => RecordsInv'
<1> SUFFICES ASSUME RecordsInv, [Next]_vars PROVE RecordsInv'
  OBVIOUS
<1>1. TypeInv /\ TypeInv'
  BY NextTypeInv DEF RecordsInv
<1>2. ASSUME NEW h \in Handlers PROVE SessionLocked(h)' /\ Follows(h)'
  <2>1. CASE Works(h)
    <3>1. Framed(h) /\ SessionLocked(h) /\ Follows(h)
      BY <1>1, <2>1, Effects DEF RecordsInv
    <3>2. Follows(h)'
      BY <1>1, <2>1, <3>1, Effects, QuietRecords, ChangesRecords, DeletesFollow, OthersFollow
    <3> QED
      BY <1>1, <2>1, <3>1, <3>2, WorksSessionLocked
  <2>2. CASE Undisturbed(h) /\ ~Works(h)
    BY <2>2, UndisturbedRecords
  <2>3. CASE wrote'[h] = Empty
    BY <2>3, EmptyRecords
  <2> QED
    BY <1>1, <2>1, <2>2, <2>3, Elsewhere
<1> QED
  BY <1>1, <1>2 DEF RecordsInv

LEMMA RecordsInvHolds == Spec => []RecordsInv
BY InitRecordsInv, NextRecordsInv, PTL DEF Spec

(* However the actions of overlapping requests and pushes interleave, and  *)
(* whatever half of a request is refused, its commit leaves no active      *)
(* record behind on a session it has made inactive: whoever writes a       *)
(* record, or lets it refer to the session, needs the session's lock, so   *)
(* delete_session sees every record it has to delete.                      *)
THEOREM RecordsFollowSafety == Spec => RecordsFollowSession
<1> DEFINE Kept ==
      \A h \in Handlers : Commit(h) =>
          \A r \in RecordIds :
              Orphan(row', r) => Orphan(row, r) \/ Buries(h, row'[r].session)
<1>1. RecordsInv /\ [Next]_vars => Kept
  <2> SUFFICES ASSUME RecordsInv, NEW h \in Handlers, Commit(h), NEW r \in RecordIds, Orphan(row', r)
               PROVE  Orphan(row, r) \/ Buries(h, row'[r].session)
    OBVIOUS
  <2> DEFINE x == row'[r].session
  <2>1. TypeInv /\ r \in Ids /\ pc[h] = "next"
    BY IdsFacts DEF RecordsInv, Commit
  <2>2. row'[r] \in RecordRows
    BY <2>1, CommitFacts, IdsFacts DEF TypesOK, Tabled, Fits, Orphan, Active
  <2>3. x \in SessionIds /\ x \in Ids
    BY <2>2, RowFacts, IdsFacts
  <2>4. row'[r] = View(h, r) /\ row'[x] = View(h, x)
    BY <2>1, <2>3, CommitFacts
  <2>5. Left(h, r, x) \/ Buries(h, x)
    BY <2>1, <2>3, <2>4 DEF RecordsInv, Follows, Deleting, Orphan, Active, ActiveIn
  <2> QED
    BY <2>4, <2>5 DEF Left, Orphan, Active, View
<1>2. RecordsInv /\ [Next]_vars => [Kept]_vars
  BY <1>1
<1>3. Spec => [][Kept]_vars
  BY <1>2, RecordsInvHolds, PTL DEF Spec
<1> QED
  BY <1>3 DEF RecordsFollowSession

-----------------------------------------------------------------------------
(* Messages follow their session, but for those that pushes wrote, or one  *)
(* of them is stuck.                                                       *)
Deletion == {"records", "messages"}

LEMMA GoneStays ==
    ASSUME TypeInv, Gone, [Next]_vars
    PROVE  Gone' /\ pushed \subseteq pushed'
<1>1. CASE \E x \in Fragile : PushStanding(x)
  <2>1. /\ pushed \subseteq pushed'
        /\ \A y \in Clubs \cup Students :
              standing'[y] = "deleted" => standing[y] = "deleted" \/ y \in pushed'
    BY <1>1, StandingFacts
  <2> QED
    BY <2>1 DEF Gone
<1>2. CASE \E p \in Pushes : PushRow(p)
  <2>1. standing' = standing /\ pushed \subseteq pushed'
    BY <1>2, PushFacts
  <2> QED
    BY <2>1 DEF Gone
<1>3. CASE UNCHANGED <<standing, pushed>>
  BY <1>3 DEF Gone
<1>4. CASE Midnight \/ UNCHANGED vars
  BY <1>3, <1>4, MidnightFacts DEF vars
<1>5. CASE \E h \in Handlers, q \in Requests : Begin(h, q)
  BY <1>3, <1>5, BeginFacts
<1>6. CASE \E h \in Handlers : Works(h)
  BY <1>3, <1>6, Effects DEF Framed
<1>7. CASE \E h \in Handlers : Commit(h)
  BY <1>3, <1>7, CommitFacts
<1>8. CASE (\E h \in Handlers : Rollback({h}) /\ row' = row) \/ Restart
  BY <1>3, <1>8 DEF Restart, Rollback
<1> QED
  BY <1>1, <1>2, <1>4, <1>5, <1>6, <1>7, <1>8, Steps

(* A statement that writes the rows of f, when it only deletes messages,   *)
(* and all those of a session that it makes inactive.                      *)
LEMMA WroteMessages ==
    ASSUME NEW h \in Handlers, OnlyDeletes(h), MessagesOK(h), Framed(h), NEW f, Wrote(h, f),
           \A m \in MessageIds : m \in DOMAIN f => f[m].deleted /\ View(h, m) # NoRow,
           \A x \in SessionIds : x \in DOMAIN f /\ ActiveIn(h, x) =>
               Active(f[x]) \/ Deleting(h, x, Deletion)' \/ Buries(h, x),
           \A x \in SessionIds : Deleting(h, x, Deletion) =>
               Deleting(h, x, Deletion)' \/ MessagesOf(h, x) \subseteq DOMAIN f
    PROVE  OnlyDeletes(h)' /\ MessagesOK(h)'
<1>1. row' = row /\ req' = req /\ pushed' = pushed /\ \A x \in Ids : lock[x] = h => lock'[x] = h
  BY DEF Framed, HoldsOn
<1>2. \A x \in Ids : /\ View(h, x)' = IF x \in DOMAIN f THEN f[x] ELSE View(h, x)
                     /\ wrote'[h][x] = IF x \in DOMAIN f THEN f[x] ELSE wrote[h][x]
  BY <1>1, ViewAfter DEF Wrote
<1>3. OnlyDeletes(h)'
  <2> SUFFICES ASSUME NEW m \in MessageIds, wrote'[h][m] # NoRow
               PROVE  wrote'[h][m].deleted /\ row'[m] # NoRow
    BY DEF OnlyDeletes
  <2>1. CASE m \in DOMAIN f
    BY <1>1, <1>2, <2>1, IdsFacts DEF OnlyDeletes, View
  <2>2. CASE m \notin DOMAIN f
    BY <1>1, <1>2, <2>2, IdsFacts DEF OnlyDeletes
  <2> QED
    BY <2>1, <2>2
<1>4. ASSUME NEW m \in MessageIds, NEW x \in SessionIds,
             ActiveIn(h, m)', View(h, m)'.session = x, ~ActiveIn(h, x)'
      PROVE  Excused(h, m, x)'
  <2>1. m \in Ids /\ x \in Ids
    BY IdsFacts
  <2>2. m \notin DOMAIN f /\ View(h, m)' = View(h, m) /\ ActiveIn(h, m)
    BY <1>2, <1>4, <2>1 DEF ActiveIn, Active
  <2>3. CASE ActiveIn(h, x)
    <3>1. x \in DOMAIN f /\ ~Active(f[x])
      BY <1>2, <1>4, <2>1, <2>3 DEF ActiveIn
    <3> QED
      BY <1>1, <2>3, <3>1 DEF Excused, Buries, Deletion
  <2>4. CASE ~ActiveIn(h, x)
    <3>1. Excused(h, m, x)
      BY <1>4, <2>2, <2>4 DEF MessagesOK
    <3>2. CASE Deleting(h, x, Deletion)
      <4>1. m \in MessagesOf(h, x)
        BY <1>4, <2>2 DEF MessagesOf
      <4> QED
        BY <2>2, <3>2, <4>1 DEF Excused, Deletion
    <3>3. CASE Stuck(h, x)
      <4>1. Stuck(h, x)'
        BY <1>1, <3>3, IdsFacts DEF Stuck
      <4> QED
        BY <4>1 DEF Excused
    <3>4. CASE ~Active(row[x]) \/ m \in pushed \/ Buries(h, x)
      BY <1>1, <3>4 DEF Excused, Buries
    <3> QED
      BY <3>1, <3>2, <3>3, <3>4 DEF Excused, Deletion
  <2> QED
    BY <2>3, <2>4
<1> QED
  BY <1>3, <1>4 DEF MessagesOK

LEMMA QuietMessages ==
    ASSUME TypeInv, Gone, NEW h \in Handlers, OnlyDeletes(h), MessagesOK(h), Framed(h), Quiet(h)
    PROVE  OnlyDeletes(h)' /\ MessagesOK(h)'
<1>1. /\ wrote'[h] = wrote[h] /\ row' = row /\ req' = req /\ pushed' = pushed
      /\ \A x \in Ids : lock[x] = h => lock'[x] = h
  BY DEF Quiet, Framed, HoldsOn
<1>2. OnlyDeletes(h)'
  BY <1>1 DEF OnlyDeletes
<1>3. ASSUME NEW x \in SessionIds, Deleting(h, x, Deletion) PROVE Stuck(h, x)'
  <2>1. pc[h] = "messages" /\ Act(h).type = "delete_session" /\ Act(h).session = x
    BY <1>3 DEF Deleting, Quiet, Deletion
  <2>2. PICK n \in MessagesOf(h, x) : MessageRefused(View(h, n)) /\ lock'[n] = h
    BY <2>1 DEF Quiet
  <2>3. n \in MessageIds /\ Active(View(h, n)) /\ View(h, n).session = x
    BY <2>2 DEF MessagesOf, ActiveIn
  <2>4. View(h, n) = row[n]
    BY <2>3 DEF OnlyDeletes, View, Active
  <2>5. row[n] \in MessageRows
    BY <2>3, <2>4, IdsFacts DEF TypeInv, TypesOK, Tabled, Fits, Active
  <2>6. row[n].student \in Students /\ row[n].club \in Clubs
    BY <2>5, RowFacts
  <2>7. standing[row[n].student] = "deleted" \/ standing[row[n].club] = "deleted"
    BY <2>2, <2>4 DEF MessageRefused, Standing
  <2>8. {row[n].student, row[n].club} \cap pushed # {}
    BY <2>6, <2>7 DEF Gone
  <2> QED
    BY <1>1, <2>2, <2>3, <2>4, <2>8 DEF Stuck
<1>4. ASSUME NEW m \in MessageIds, NEW x \in SessionIds,
             ActiveIn(h, m)', View(h, m)'.session = x, ~ActiveIn(h, x)'
      PROVE  Excused(h, m, x)'
  <2>1. Excused(h, m, x)
    BY <1>1, <1>4 DEF MessagesOK, ActiveIn, View
  <2>2. Stuck(h, x) => Stuck(h, x)'
    BY <1>1, IdsFacts DEF Stuck
  <2> QED
    BY <1>1, <1>3, <2>1, <2>2 DEF Excused, Buries, Deletion
<1> QED
  BY <1>2, <1>4 DEF MessagesOK

LEMMA WorksMessages ==
    ASSUME TypeInv, Gone, NEW h \in Handlers, OnlyDeletes(h), MessagesOK(h), Works(h)
    PROVE  OnlyDeletes(h)' /\ MessagesOK(h)'
<1>1. Framed(h)
  BY Effects
<1>2. ASSUME NEW f, Wrote(h, f), DOMAIN f \subseteq RecordIds,
             \A x \in SessionIds : Deleting(h, x, Deletion) => Deleting(h, x, Deletion)'
      PROVE  OnlyDeletes(h)' /\ MessagesOK(h)'
  <2>1. (\A m \in MessageIds : m \notin DOMAIN f) /\ (\A x \in SessionIds : x \notin DOMAIN f)
    BY <1>2, IdsFacts
  <2> QED
    BY <1>1, <1>2, <2>1, WroteMessages
<1>3. ASSUME NEW f, Wrote(h, f), DOMAIN f \subseteq MessageIds,
             \A m \in DOMAIN f : f[m].deleted /\ View(h, m) # NoRow,
             \A x \in SessionIds : Deleting(h, x, Deletion) => MessagesOf(h, x) \subseteq DOMAIN f
      PROVE  OnlyDeletes(h)' /\ MessagesOK(h)'
  <2>1. \A x \in SessionIds : x \notin DOMAIN f
    BY <1>3, IdsFacts
  <2> QED
    BY <1>1, <1>3, <2>1, WroteMessages
<1>4. CASE Quiet(h)
  BY <1>1, <1>4, QuietMessages
<1>5. CASE Changes(h)
  <2> DEFINE f == TargetRows(h)
             a == Act(h)
  <2>1. Wrote(h, f) /\ pc[h] = "write" /\ pc'[h] = AfterWrite(h) /\ ActionOK(a) /\ Act(h)' = a
    BY <1>5, ActType DEF Changes, TypeInv, Acting, Wrote
  <2>2. DOMAIN f = {Target(h)} /\ f[Target(h)] = Changed(h)
    BY DEF TargetRows
  <2>3. /\ \A m \in MessageIds : m \notin DOMAIN f
        /\ \A x \in SessionIds : x \in DOMAIN f => x = a.session /\ a.type \in SessionActions
    BY <2>1, <2>2, ChangedType, IdsFacts DEF ActionOK
  <2>4. \A x \in SessionIds : x \in DOMAIN f /\ ActiveIn(h, x) =>
            Active(f[x]) \/ Deleting(h, x, Deletion)' \/ Buries(h, x)
    BY <2>1, <2>2, <2>3, ChangedActive DEF ActiveIn, Deleting, Deletion
  <2>5. \A x \in SessionIds : ~Deleting(h, x, Deletion)
    BY <2>1 DEF Deleting, Deletion
  <2> HIDE DEF f
  <2> QED
    BY <1>1, <2>1, <2>3, <2>4, <2>5, WroteMessages
<1>6. CASE Creates(h)
  <2>1. Wrote(h, PayloadRows(h)) /\ DOMAIN PayloadRows(h) \subseteq RecordIds /\ Act(h).type = "create_session"
    BY <1>6, ActType, PayloadType DEF Creates, TypeInv, Acting
  <2> QED
    BY <1>2, <2>1 DEF Deleting
<1>7. CASE Marks(h)
  <2>1. Wrote(h, MarkedRows(h)) /\ DOMAIN MarkedRows(h) \subseteq RecordIds /\ Act(h).type = "mark_all_present"
    BY <1>7, MarkedType DEF Marks, TypeInv
  <2> QED
    BY <1>2, <2>1 DEF Deleting
<1>8. CASE DeletesRecords(h)
  <2>1. /\ Wrote(h, DeletedRecords(h)) /\ DOMAIN DeletedRecords(h) \subseteq RecordIds
        /\ pc'[h] = "messages" /\ Act(h)' = Act(h)
    BY <1>8, MarkedType DEF DeletesRecords, TypeInv, Wrote
  <2>2. \A x \in SessionIds : Deleting(h, x, Deletion) => Deleting(h, x, Deletion)'
    BY <2>1 DEF Deleting, Deletion
  <2> QED
    BY <1>2, <2>1, <2>2
<1>9. CASE DeletesMessages(h)
  <2> DEFINE f == DeletedMessages(h)
  <2>1. Wrote(h, f) /\ DOMAIN f \subseteq MessageIds /\ DOMAIN f = MessagesOf(h, Act(h).session)
    BY <1>9, DeletedMessagesType DEF DeletesMessages, TypeInv, DeletedMessages
  <2>2. \A m \in DOMAIN f : f[m].deleted /\ View(h, m) # NoRow
    BY <2>1, DeletedMessagesType DEF TypeInv, MessageRows, MessagesOf, ActiveIn, Active
  <2>3. \A x \in SessionIds : Deleting(h, x, Deletion) => MessagesOf(h, x) \subseteq DOMAIN f
    BY <2>1 DEF Deleting
  <2> HIDE DEF f
  <2> QED
    BY <1>3, <2>1, <2>2, <2>3
<1>10. CASE DeletesMessage(h)
  <2> DEFINE f == DeletedMessage(h)
             id == Note(Act(h).rec)
  <2>1. Wrote(h, f) /\ Act(h).rec \in RecordIds /\ View(h, id) # NoRow /\ Act(h).type = "set_record_note"
    BY <1>10, ActType DEF TypeInv, DeletesMessage, Acting, ActionOK
  <2>2. View(h, id) \in MessageRows /\ id \in MessageIds
    BY <2>1, DeletedMessageType DEF TypeInv
  <2>3. DOMAIN f = {id} /\ f[id] = [View(h, id) EXCEPT !.deleted = TRUE]
    BY DEF DeletedMessage
  <2>4. f[id].deleted
    BY <2>2, <2>3 DEF MessageRows
  <2>5. \A x \in SessionIds : ~Deleting(h, x, Deletion)
    BY <2>1 DEF Deleting
  <2> HIDE DEF f, id
  <2> QED
    BY <1>3, <2>1, <2>2, <2>3, <2>4, <2>5
<1>11. CASE Builds(h)
  <2> DEFINE f == Built(h)
  <2>1. pc[h] = "build" /\ Wrote(h, f) /\ req[h].kind = "create" /\ Unused # {}
    BY <1>11 DEF Builds, TypeInv, HandlerOK
  <2>2. PICK x \in NewSessions :
            /\ f[x] = [club |-> req[h].club, date |-> req[h].date, status |-> "draft",
                       note |-> FALSE, deleted |-> FALSE]
            /\ f[x] \in SessionRows
            /\ \A y \in DOMAIN f : y = x \/ y \in RecordIds
    BY <2>1, BuiltType DEF TypeInv
  <2>3. f[x].deleted = FALSE
    BY <2>2
  <2>4. Active(f[x])
    BY <2>2, <2>3, IdsFacts DEF Active
  <2>5. \A m \in MessageIds : m \notin DOMAIN f
    BY <2>2, IdsFacts DEF SessionIds
  <2>6. \A y \in SessionIds : y \in DOMAIN f => Active(f[y])
    BY <2>2, <2>4, IdsFacts
  <2>7. \A y \in SessionIds : ~Deleting(h, y, Deletion)
    BY <2>1 DEF Deleting, Deletion
  <2> HIDE DEF f
  <2> QED
    BY <1>1, <2>1, <2>5, <2>6, <2>7, WroteMessages
<1> QED
  BY <1>4, <1>5, <1>6, <1>7, <1>8, <1>9, <1>10, <1>11, Effects

(* What others do to a message: only pushes write one that is not deleted. *)
LEMMA OthersMessages ==
    ASSUME MessagesInv, [Next]_vars, NEW h \in Handlers, wrote'[h] # Empty, Undisturbed(h),
           NEW m \in MessageIds, row'[m] # row[m], Active(row'[m])
    PROVE  m \in pushed'
<1>1. TypeInv /\ TypesOK /\ m \in Ids
  BY IdsFacts DEF MessagesInv, TypeInv
<1>2. CASE \E p \in Pushes : PushRow(p)
  <2>1. PICK p \in Pushes : PushRow(p)
    BY <1>2
  <2>2. p.id = m /\ row'[m] = p.row
    BY <1>1, <2>1, PushFacts
  <2> QED
    BY <1>1, <2>1, <2>2, PushFacts
<1>3. CASE \E g \in Handlers : Commit(g)
  <2>1. PICK g \in Handlers : Commit(g)
    BY <1>3
  <2>2. row'[m] = View(g, m)
    BY <1>1, <2>1, CommitFacts
  <2> QED
    BY <2>2 DEF MessagesInv, OnlyDeletes, View, Active
<1>4. CASE Restart
  <2>1. Handlers \in SUBSET Handlers /\ Rollback(Handlers)
    BY <1>4 DEF Restart
  <2> QED
    BY <1>1, <2>1, RollbackFacts
<1>5. CASE UNCHANGED row
  BY <1>5
<1>6. CASE \E g \in Handlers : Works(g)
  BY <1>1, <1>5, <1>6, Effects DEF Framed
<1>7. CASE \E g \in Handlers, q \in Requests : Begin(g, q)
  BY <1>1, <1>5, <1>7, BeginFacts
<1>8. CASE Midnight \/ \E x \in Fragile : PushStanding(x)
  BY <1>1, <1>5, <1>8, MidnightFacts, StandingFacts
<1> QED
  BY <1>2, <1>3, <1>4, <1>5, <1>6, <1>7, <1>8, Steps DEF vars

LEMMA UndisturbedMessages ==
    ASSUME MessagesInv, [Next]_vars, NEW h \in Handlers, wrote'[h] # Empty, Undisturbed(h)
    PROVE  OnlyDeletes(h)' /\ MessagesOK(h)'
<1>1. /\ Same(h) /\ OnlyDeletes(h) /\ MessagesOK(h) /\ LocksOK(h)
      /\ \A x \in Ids : lock[x] = h => lock'[x] = h /\ row'[x] = row[x]
  BY DEF MessagesInv, TypeInv, Undisturbed
<1>2. /\ wrote'[h] = wrote[h] /\ Act(h)' = Act(h) /\ pc'[h] = pc[h] /\ req'[h] = req[h]
      /\ pushed \subseteq pushed'
  BY <1>1, GoneStays DEF Same, Act, MessagesInv
<1>3. OnlyDeletes(h)'
  BY <1>1, <1>2, IdsFacts DEF OnlyDeletes, LocksOK
<1>4. ASSUME NEW m \in MessageIds, NEW x \in SessionIds,
             ActiveIn(h, m)', View(h, m)'.session = x, ~ActiveIn(h, x)'
      PROVE  Excused(h, m, x)'
  <2>1. m \in Ids /\ x \in Ids
    BY IdsFacts
  <2>2. wrote[h][m] = NoRow /\ Active(row'[m]) /\ row'[m].session = x
    BY <1>2, <1>3, <1>4 DEF OnlyDeletes, ActiveIn, View, Active
  <2>3. CASE lock[x] # h
    BY <1>1, <1>2, <1>4, <2>1, <2>3 DEF LocksOK, ActiveIn, View, Excused
  <2>4. CASE row'[m] # row[m]
    BY <2>2, <2>4, OthersMessages DEF Excused
  <2>5. CASE lock[x] = h /\ row'[m] = row[m]
    <3>1. row'[x] = row[x] /\ ~ActiveIn(h, x) /\ ActiveIn(h, m) /\ View(h, m).session = x
      BY <1>1, <1>2, <1>4, <2>1, <2>2, <2>5 DEF ActiveIn, View
    <3>2. Excused(h, m, x)
      BY <1>1, <3>1 DEF MessagesOK
    <3>3. Stuck(h, x) => Stuck(h, x)'
      BY <1>1, <1>2, IdsFacts DEF Stuck
    <3> QED
      BY <1>2, <3>1, <3>2, <3>3 DEF Excused, Deleting, Buries
  <2> QED
    BY <2>3, <2>4, <2>5
<1> QED
  BY <1>3, <1>4 DEF MessagesOK

LEMMA EmptyMessages ==
    ASSUME NEW h \in Handlers, wrote'[h] = Empty
    PROVE  OnlyDeletes(h)' /\ MessagesOK(h)'
<1>1. \A x \in Ids : wrote'[h][x] = NoRow
  BY DEF Empty
<1> QED
  BY <1>1, IdsFacts DEF OnlyDeletes, MessagesOK, ActiveIn, View, Excused

LEMMA InitMessagesInv == Init => MessagesInv
<1> SUFFICES ASSUME Init PROVE MessagesInv
  OBVIOUS
<1>1. \A x \in MessageIds : row[x] = NoRow /\ \A h \in Handlers : wrote[h][x] = NoRow
  BY IdsFacts DEF Init
<1>2. \A h \in Handlers : OnlyDeletes(h) /\ MessagesOK(h)
  BY <1>1 DEF OnlyDeletes, MessagesOK, ActiveIn, View, Active
<1>3. Gone
  BY DEF Init, Gone
<1> QED
  BY <1>2, <1>3, InitTypeInv DEF MessagesInv

LEMMA NextMessagesInv == MessagesInv /\ [Next]_vars => MessagesInv'
<1> SUFFICES ASSUME MessagesInv, [Next]_vars PROVE MessagesInv'
  OBVIOUS
<1>1. TypeInv /\ TypeInv' /\ Gone /\ Gone'
  BY NextTypeInv, GoneStays DEF MessagesInv
<1>2. ASSUME NEW h \in Handlers PROVE OnlyDeletes(h)' /\ MessagesOK(h)'
  <2>1. CASE Works(h)
    BY <1>1, <2>1, WorksMessages DEF MessagesInv
  <2>2. CASE wrote'[h] = Empty
    BY <2>2, EmptyMessages
  <2>3. CASE wrote'[h] # Empty /\ Undisturbed(h)
    BY <2>3, UndisturbedMessages
  <2> QED
    BY <1>1, <2>1, <2>2, <2>3, Elsewhere
<1> QED
  BY <1>1, <1>2 DEF MessagesInv

LEMMA MessagesInvHolds == Spec => []MessagesInv
BY InitMessagesInv, NextMessagesInv, PTL DEF Spec

(* A request that makes a session inactive leaves an active message of it  *)
(* behind only when a push wrote that message, or when delete_session may  *)
(* not write one of them, because a push has deleted its student or its    *)
(* club: such a message is stuck, and keeps the others.                    *)
THEOREM MessagesFollowSafety == Spec => MessagesFollowSession
<1> DEFINE Kept ==
      \A h \in Handlers : Commit(h) =>
          \A m \in MessageIds :
              Orphan(row', m) =>
                  LET x == row'[m].session
                  IN \/ Orphan(row, m) \/ m \in pushed \/ Buries(h, x)
                     \/ \E n \in MessageIds :
                           /\ Active(row[n]) /\ row[n].session = x
                           /\ {row[n].student, row[n].club} \cap pushed # {}
<1>1. MessagesInv /\ [Next]_vars => Kept
  <2> SUFFICES ASSUME MessagesInv, NEW h \in Handlers, Commit(h), NEW m \in MessageIds, Orphan(row', m)
               PROVE  LET x == row'[m].session
                      IN \/ Orphan(row, m) \/ m \in pushed \/ Buries(h, x)
                         \/ \E n \in MessageIds :
                               /\ Active(row[n]) /\ row[n].session = x
                               /\ {row[n].student, row[n].club} \cap pushed # {}
    OBVIOUS
  <2> DEFINE x == row'[m].session
  <2>1. TypeInv /\ m \in Ids /\ pc[h] = "next"
    BY IdsFacts DEF MessagesInv, Commit
  <2>2. row'[m] \in MessageRows
    BY <2>1, CommitFacts, IdsFacts DEF TypesOK, Tabled, Fits, Orphan, Active
  <2>3. x \in SessionIds /\ x \in Ids
    BY <2>2, RowFacts, IdsFacts
  <2>4. row'[m] = View(h, m) /\ row'[x] = View(h, x)
    BY <2>1, <2>3, CommitFacts
  <2>5. Excused(h, m, x) /\ ~Deleting(h, x, {"records", "messages"})
    BY <2>1, <2>3, <2>4 DEF MessagesInv, MessagesOK, Deleting, Orphan, ActiveIn
  <2>6. row'[m] = row[m]
    BY <2>4 DEF MessagesInv, OnlyDeletes, Orphan, Active, View
  <2> QED
    BY <2>5, <2>6 DEF Excused, Stuck, Orphan
<1>2. MessagesInv /\ [Next]_vars => [Kept]_vars
  BY <1>1
<1>3. Spec => [][Kept]_vars
  BY <1>2, MessagesInvHolds, PTL DEF Spec
<1> QED
  BY <1>3 DEF MessagesFollowSession

-----------------------------------------------------------------------------
(* One session of a club and a day.                                        *)
LEMMA ClubType ==
    ASSUME TypeInv, NEW h \in Handlers, req[h].kind = "create"
    PROVE  req[h].club \in Clubs
BY AttendanceAssumption DEF TypeInv, TypesOK, RequestOK

(* The sessions of a club that a transaction has, as its statements leave  *)
(* them: the row it had before, or one for which it could lock the club.   *)
LEMMA WorksShares ==
    ASSUME CreateInv, NEW g \in Handlers, Works(g), NEW y \in SessionIds, NEW c \in Clubs,
           wrote'[g][y] # NoRow, wrote'[g][y].club = c, NewInClub(y, c)
    PROVE  (wrote[g][y] # NoRow /\ wrote[g][y].club = c) \/ lock[c] \in {g, Nobody}
<1>1. TypeInv /\ y \in Ids /\ LoadedOK(g) /\ CreateOK(g)
  BY IdsFacts DEF CreateInv, TypeInv
<1>2. ASSUME NEW f, Wrote(g, f), y \notin DOMAIN f
      PROVE  wrote[g][y] # NoRow /\ wrote[g][y].club = c
  BY <1>1, <1>2 DEF Wrote
<1>3. CASE Quiet(g)
  BY <1>3 DEF Quiet
<1>4. CASE Changes(g)
  <2> DEFINE f == TargetRows(g)
             a == Act(g)
  <2>1. Wrote(g, f) /\ pc[g] = "write" /\ ActionOK(a)
    BY <1>1, <1>4, ActType DEF Changes, TypeInv, Acting
  <2>2. DOMAIN f = {Target(g)} /\ f[Target(g)] = Changed(g)
    BY DEF TargetRows
  <2>3. CASE y \notin DOMAIN f
    <3> HIDE DEF f
    <3> QED
      BY <1>2, <2>1, <2>3
  <2>4. CASE y \in DOMAIN f
    <3>1. a.type \in SessionActions /\ y = a.session /\ Changed(g).club = c
      BY <1>1, <2>1, <2>2, <2>4, ChangedType, IdsFacts DEF Wrote, ActionOK
    <3>2. CASE a.type = "create_session"
      <4>1. a.club = c
        BY <3>1, <3>2 DEF Changed
      <4>2. SharesClub(g)
        BY <3>1, <3>2, <4>1 DEF SharesClub
      <4>3. WriteTarget(g)
        BY <2>1 DEF Works, Take, LockRecord, LockSession, CreateRecords, MarkRecords, DeleteRecords,
                    DeleteMessages, MirrorNote, Save, LockClub, BuildSession
      <4>4. ~ChangeRefused(g)
        BY <1>4 DEF Changes
      <4> QED
        BY <4>1, <4>2, <4>3, <4>4 DEF WriteTarget, Free
    <3>3. CASE a.type # "create_session"
      <4>1. seen[g] = View(g, y) /\ seen[g] \in SessionRows
        BY <1>1, <2>1, <3>1, <3>3, ChangedType DEF LoadedOK
      <4>2. Changed(g).club = seen[g].club
        <5>1. a.type \in {"delete_session", "set_session_status", "set_session_note"}
          BY <1>1, <2>1, <3>1, <3>3 DEF LoadedOK, SessionActions
        <5>2. CASE a.type = "delete_session"
          BY <4>1, <5>2 DEF Changed, SessionRows
        <5>3. CASE a.type = "set_session_status"
          BY <4>1, <5>3 DEF Changed, SessionRows
        <5>4. CASE a.type = "set_session_note"
          BY <4>1, <5>4 DEF Changed, SessionRows
        <5> QED
          BY <5>1, <5>2, <5>3, <5>4
      <4>3. seen[g] # NoRow /\ seen[g].club = c
        BY <3>1, <4>1, <4>2, IdsFacts
      <4> QED
        BY <4>1, <4>3 DEF View, NewInClub
    <3> QED
      BY <3>2, <3>3
  <2> QED
    BY <2>3, <2>4
<1>5. CASE Creates(g)
  <2>1. Wrote(g, PayloadRows(g)) /\ y \notin DOMAIN PayloadRows(g)
    BY <1>1, <1>5, ActType, PayloadType, IdsFacts DEF Creates, TypeInv, Acting
  <2> QED
    BY <1>2, <2>1
<1>6. CASE Marks(g)
  <2>1. Wrote(g, MarkedRows(g)) /\ y \notin DOMAIN MarkedRows(g)
    BY <1>1, <1>6, MarkedType, IdsFacts DEF Marks, TypeInv
  <2> QED
    BY <1>2, <2>1
<1>7. CASE DeletesRecords(g)
  <2>1. Wrote(g, DeletedRecords(g)) /\ y \notin DOMAIN DeletedRecords(g)
    BY <1>1, <1>7, MarkedType, IdsFacts DEF DeletesRecords, TypeInv
  <2> QED
    BY <1>2, <2>1
<1>8. CASE DeletesMessages(g)
  <2>1. Wrote(g, DeletedMessages(g)) /\ y \notin DOMAIN DeletedMessages(g)
    BY <1>1, <1>8, DeletedMessagesType, IdsFacts DEF DeletesMessages, TypeInv
  <2> QED
    BY <1>2, <2>1
<1>9. CASE DeletesMessage(g)
  <2>1. Wrote(g, DeletedMessage(g)) /\ Act(g).rec \in RecordIds
    BY <1>1, <1>9, ActType DEF TypeInv, DeletesMessage, Acting, ActionOK
  <2>2. y \notin DOMAIN DeletedMessage(g)
    BY <2>1, IdsFacts DEF DeletedMessage
  <2> QED
    BY <1>2, <2>1, <2>2
<1>10. CASE Builds(g)
  <2> DEFINE f == Built(g)
  <2>1. pc[g] = "build" /\ Wrote(g, f) /\ req[g].kind = "create" /\ Unused # {}
    BY <1>1, <1>10 DEF Builds, TypeInv, HandlerOK
  <2>2. PICK x \in NewSessions :
            /\ f[x] = [club |-> req[g].club, date |-> req[g].date, status |-> "draft",
                       note |-> FALSE, deleted |-> FALSE]
            /\ \A z \in DOMAIN f : z = x \/ z \in RecordIds
    BY <1>1, <2>1, BuiltType DEF TypeInv
  <2>3. f[x].club = req[g].club
    BY <2>2
  <2> HIDE DEF f
  <2>4. CASE y \in DOMAIN f
    <3>1. y = x /\ wrote'[g][y] = f[x]
      BY <1>1, <2>1, <2>2, <2>4, IdsFacts DEF Wrote
    <3> QED
      BY <1>1, <2>1, <2>3, <3>1 DEF CreateOK
  <2> QED
    BY <1>2, <2>1, <2>4
<1> QED
  BY <1>1, <1>3, <1>4, <1>5, <1>6, <1>7, <1>8, <1>9, <1>10, Effects

LEMMA InitCreateInv == Init => CreateInv
<1> SUFFICES ASSUME Init PROVE CreateInv
  OBVIOUS
<1>1. \A h \in Handlers : CreateOK(h)
  BY DEF Init, CreateOK
<1> QED
  BY <1>1, InitTypeInv DEF CreateInv

LEMMA NextCreateInv == CreateInv /\ [Next]_vars => CreateInv'
<1> SUFFICES ASSUME CreateInv, [Next]_vars PROVE CreateInv'
  OBVIOUS
<1>1. TypeInv /\ TypeInv'
  BY NextTypeInv DEF CreateInv
<1>2. ASSUME NEW h \in Handlers, pc'[h] = "build" PROVE CreateOK(h)'
  <2> PICK c : c = req'[h].club
    OBVIOUS
  <2>1. c \in Clubs /\ req'[h].kind = "create" /\ wrote'[h] = Empty
    BY <1>1, <1>2, AttendanceAssumption DEF TypeInv, TypesOK, HandlerOK, RequestOK
  <2>2. c = req[h].club /\ lock'[c] = h /\ (lock[c] # h => Works(h)) /\ Sharers(c) \subseteq {h}
    <3>1. CASE Works(h)
      <4>1. LockClub(h)
        BY <1>1, <1>2, <3>1 DEF Works, Take, LockRecord, LockSession, WriteTarget, CreateRecords,
             MarkRecords, DeleteRecords, DeleteMessages, MirrorNote, Save, BuildSession, MoveOn, Go, Put,
             AfterSession, AfterWrite, TypeInv, TypesOK
      <4>2. /\ req' = req /\ ClubFree(h, req[h].club) /\ lock' = Locked(h, {req[h].club})
        BY <4>1 DEF LockClub, ClubLock
      <4>3. c = req[h].club
        BY <4>2
      <4> QED
        BY <1>1, <2>1, <3>1, <4>2, <4>3 DEF ClubFree, Locked, TypeInv, TypesOK
    <3>2. CASE Undisturbed(h)
      <4>1. pc[h] = "build" /\ c = req[h].club
        BY <1>2, <3>2 DEF Undisturbed, Same
      <4> QED
        BY <2>1, <3>2, <4>1 DEF CreateInv, CreateOK, Undisturbed
    <3> QED
      BY <1>1, <1>2, <3>1, <3>2, Elsewhere
  <2>3. ASSUME NEW g \in Handlers, NEW y \in SessionIds,
               wrote'[g][y] # NoRow, wrote'[g][y].club = c, NewInClub(y, c)'
        PROVE  FALSE
    <3>1. y \in Ids /\ g # h
      BY <2>1, <2>3, IdsFacts DEF Empty
    <3>2. wrote'[g] # Empty
      BY <2>3, <3>1 DEF Empty
    <3>3. CASE Works(g)
      <4>1. row' = row /\ \A x \in Clubs \cup Ids : lock'[x] = h <=> lock[x] = h
        BY <1>1, <3>1, <3>3, Effects DEF Framed, HoldsOn
      <4>2. NewInClub(y, c) /\ lock[c] = h
        BY <2>1, <2>2, <2>3, <4>1 DEF NewInClub
      <4>3. g \notin Sharers(c)
        BY <2>2, <3>1
      <4> QED
        BY <2>1, <2>3, <3>1, <3>3, <4>2, <4>3, WorksShares, AttendanceAssumption DEF Sharers
    <3>4. CASE Undisturbed(g)
      <4>1. wrote[g][y] = wrote'[g][y] /\ lock[y] = g
        BY <1>1, <2>3, <3>1, <3>4 DEF Undisturbed, Same, TypeInv, LocksOK
      <4>2. row'[y] = row[y]
        BY <3>1, <3>4, <4>1 DEF Undisturbed
      <4>3. NewInClub(y, c)
        BY <2>3, <4>2 DEF NewInClub
      <4> QED
        BY <2>2, <2>3, <3>1, <4>1, <4>3 DEF Sharers
    <3> QED
      BY <1>1, <3>2, <3>3, <3>4, Elsewhere
  <2>4. Sharers(c)' = {}
    BY <2>3 DEF Sharers
  <2> QED
    BY <2>2, <2>4 DEF CreateOK
<1> QED
  BY <1>1, <1>2 DEF CreateInv, CreateOK

LEMMA CreateInvHolds == Spec => []CreateInv
BY InitCreateInv, NextCreateInv, PTL DEF Spec

LEMMA BuildsOne ==
    ASSUME CreateInv, NEW h \in Handlers, BuildSession(h)
    PROVE  \/ \E z \in SessionIds : OfDay(h, row[z]) /\ row[z].deleted
           \/ \A g \in Handlers, y \in SessionIds :
                 ActiveIn(g, y) /\ OfDay(h, View(g, y)) =>
                    /\ row[y] # NoRow /\ row[y].club = req[h].club
                    /\ row[y].date # req[h].date
<1>1. TypeInv /\ CreateOK(h) /\ pc[h] = "build" /\ MayCreate(h)
  BY DEF CreateInv, BuildSession
<1>2. wrote[h] = Empty /\ Sharers(req[h].club) = {}
  BY <1>1 DEF TypeInv, HandlerOK, CreateOK
<1>3. \A x \in SessionIds : View(h, x) = row[x]
  BY <1>2, IdsFacts DEF View, Empty
<1>4. CASE \E z \in SameDay(h) : ~ActiveIn(h, z)
  BY <1>3, <1>4 DEF SameDay, OfDay, ActiveIn, Active
<1>5. CASE SameDay(h) = {}
  <2> SUFFICES ASSUME NEW g \in Handlers, NEW y \in SessionIds, ActiveIn(g, y), OfDay(h, View(g, y))
               PROVE  /\ row[y] # NoRow /\ row[y].club = req[h].club
                      /\ row[y].date # req[h].date
    OBVIOUS
  <2>1. wrote[g][y] # NoRow /\ wrote[g][y].club = req[h].club
    BY <1>3, <1>5 DEF SameDay, OfDay, View
  <2>2. ~NewInClub(y, req[h].club)
    BY <1>2, <2>1 DEF Sharers
  <2> QED
    BY <1>3, <1>5, <2>2 DEF SameDay, NewInClub
<1> QED
  BY <1>1, <1>4, <1>5 DEF MayCreate

(* From the look for a session of the day to the insert the club is locked *)
(* and no other transaction has a session that is new in it, so of two     *)
(* requests the second finds what the first has made, unless a deleted     *)
(* session of that day hides it, or a session of the club is just moving   *)
(* to that day.                                                            *)
THEOREM OneSessionSafety == Spec => OneSessionPerDay
<1>1. CreateInv /\ [Next]_vars =>
        [\A h \in Handlers : BuildSession(h) =>
            \/ \E z \in SessionIds : OfDay(h, row[z]) /\ row[z].deleted
            \/ \A g \in Handlers, y \in SessionIds :
                  ActiveIn(g, y) /\ OfDay(h, View(g, y)) =>
                      /\ row[y] # NoRow /\ row[y].club = req[h].club
                      /\ row[y].date # req[h].date]_vars
  BY BuildsOne
<1> QED
  BY <1>1, CreateInvHolds, PTL DEF Spec, OneSessionPerDay

-----------------------------------------------------------------------------
(* What a commit changes.                                                  *)
LEMMA RowDomains ==
    /\ \A v \in SessionRows : DOMAIN v = {"club", "date", "status", "note", "deleted"}
    /\ \A v \in RecordRows : DOMAIN v = {"session", "student", "status", "note", "deleted"}
BY DEF SessionRows, RecordRows

LEMMA ExceptFields ==
    ASSUME NEW v \in SessionRows \cup RecordRows, NEW c, NEW field \in DOMAIN v
    PROVE  /\ field # "status" => [v EXCEPT !.status = c][field] = v[field]
           /\ field # "note" => [v EXCEPT !.note = c][field] = v[field]
           /\ field # "deleted" => [v EXCEPT !.deleted = c][field] = v[field]
BY DEF SessionRows, RecordRows

LEMMA RowsOf ==
    ASSUME TypeInv, NEW h \in Handlers, NEW x \in SessionIds \cup RecordIds
    PROVE  /\ View(h, x) # NoRow => View(h, x) \in SessionRows \cup RecordRows
           /\ View(h, x) # NoRow /\ row[x] # NoRow => DOMAIN row[x] = DOMAIN View(h, x)
<1>1. CASE x \in SessionIds
  <2>1. View(h, x) \in SessionRows \cup {NoRow} /\ row[x] \in SessionRows \cup {NoRow}
    BY <1>1, ViewType, IdsFacts DEF TypeInv, TypesOK, Tabled, Fits
  <2> QED
    BY <2>1, RowDomains
<1>2. CASE x \in RecordIds
  <2>1. View(h, x) \in RecordRows \cup {NoRow} /\ row[x] \in RecordRows \cup {NoRow}
    BY <1>2, ViewType, IdsFacts DEF TypeInv, TypesOK, Tabled, Fits
  <2> QED
    BY <2>1, RowDomains
<1> QED
  BY <1>1, <1>2

(* One field of what the handler sees is changed by an action about it. *)
LEMMA FieldChanged ==
    ASSUME TypeInv, NEW h \in Handlers, FieldsOK(h), NEW x \in SessionIds \cup RecordIds,
           NEW v, View(h, x) # NoRow, NEW name, NEW type \in Types(h), name \in FieldsOf(type),
           \A field \in DOMAIN View(h, x) : field # name => v[field] = View(h, x)[field]
    PROVE  FieldsAt(h, x, v)
<1> SUFFICES ASSUME row[x] # NoRow, NEW field \in DOMAIN row[x], v[field] # row[x][field]
             PROVE  \E t \in Types(h) : field \in FieldsOf(t)
  BY DEF FieldsAt
<1>1. CASE field = name
  BY <1>1
<1>2. CASE field # name
  <2>1. View(h, x)[field] # row[x][field]
    BY <1>2, RowsOf
  <2>2. wrote[h][x] # NoRow /\ wrote[h][x] = View(h, x)
    BY <2>1 DEF View
  <2> QED
    BY <2>1, <2>2 DEF FieldsOK, FieldsAt
<1> QED
  BY <1>1, <1>2

(* create_session may change every field. *)
LEMMA CreateFields ==
    ASSUME TypeInv, NEW h \in Handlers, NEW x \in SessionIds \cup RecordIds, NEW v,
           "create_session" \in Types(h)
    PROVE  FieldsAt(h, x, v)
<1> SUFFICES ASSUME row[x] # NoRow, NEW field \in DOMAIN row[x]
             PROVE  \E t \in Types(h) : field \in FieldsOf(t)
  BY DEF FieldsAt
<1>1. row[x] \in SessionRows \cup RecordRows
  BY IdsFacts DEF TypeInv, TypesOK, Tabled, Fits
<1>2. field \in {"club", "date", "session", "student", "status", "note", "deleted"}
  BY <1>1, RowDomains
<1>3. field \in FieldsOf("create_session")
  BY <1>2 DEF FieldsOf
<1> QED
  BY <1>3

(* What WriteTarget makes of the row it has loaded. *)
LEMMA ChangedFields ==
    ASSUME TypeInv, NEW h \in Handlers, FieldsOK(h), pc[h] = "write"
    PROVE  Target(h) \in SessionIds \cup RecordIds /\ FieldsAt(h, Target(h), Changed(h))
<1> DEFINE a == Act(h)
           x == Target(h)
<1>1. ActionOK(a) /\ a.type \in Types(h) /\ LoadedOK(h)
  BY ActType DEF TypeInv, Acting
<1>2. x \in SessionIds \cup RecordIds
  BY <1>1 DEF Target, ActionOK
<1>3. a.type # "create_session" => seen[h] = View(h, x) /\ View(h, x) # NoRow
  BY <1>1, ChangedType DEF LoadedOK, RecordActions, SessionActions
<1>4. a.type # "create_session" => seen[h] \in SessionRows \cup RecordRows
  BY <1>2, <1>3, RowsOf
<1>5. CASE a.type = "create_session"
  BY <1>1, <1>2, <1>5, CreateFields
<1>6. CASE a.type = "delete_session"
  <2>1. Changed(h) = [View(h, x) EXCEPT !.deleted = TRUE] /\ "deleted" \in FieldsOf("delete_session")
    BY <1>3, <1>6 DEF Changed, FieldsOf
  <2> QED
    BY <1>1, <1>2, <1>3, <1>4, <1>6, <2>1, ExceptFields, FieldChanged
<1>7. CASE a.type \in {"set_session_status", "set_record_status"}
  <2>1. Changed(h) = [View(h, x) EXCEPT !.status = a.value] /\ "status" \in FieldsOf(a.type)
    BY <1>3, <1>7 DEF Changed, FieldsOf
  <2> QED
    BY <1>1, <1>2, <1>3, <1>4, <1>7, <2>1, ExceptFields, FieldChanged
<1>8. CASE a.type \in {"set_session_note", "set_record_note"}
  <2>1. Changed(h) = [View(h, x) EXCEPT !.note = a.value] /\ "note" \in FieldsOf(a.type)
    BY <1>3, <1>8 DEF Changed, FieldsOf
  <2> QED
    BY <1>1, <1>2, <1>3, <1>4, <1>8, <2>1, ExceptFields, FieldChanged
<1> QED
  BY <1>1, <1>2, <1>5, <1>6, <1>7, <1>8 DEF ActionOK, LoadedOK, RecordActions, SessionActions

LEMMA ChangedReopens ==
    ASSUME TypeInv, NEW h \in Handlers, FieldsOK(h), ReopensOK(h), pc[h] = "write", ~ChangeRefused(h),
           Act(h).type \in SessionActions
    PROVE  ReopensAt(h, Target(h), Changed(h))
<1> DEFINE a == Act(h)
           x == a.session
           v == Changed(h)
           s == seen[h]
<1>1. ActionOK(a) /\ a.type \in Types(h) /\ LoadedOK(h)
  BY ActType DEF TypeInv, Acting
<1>2. Target(h) = x /\ x \in SessionIds /\ v \in SessionRows /\ ~SessionRefused(h, v)
  BY <1>1, ChangedType DEF ActionOK, ChangeRefused, RecordActions, SessionActions
<1> SUFFICES ASSUME ~v.deleted, v.status = "draft", row[x] # NoRow, row[x].status = "completed",
                    "create_session" \notin Types(h)
             PROVE  row[x].date = day[h]
  BY <1>2 DEF ReopensAt
<1>3. s \in SessionRows /\ s = View(h, x) /\ s # NoRow
  BY <1>1, ChangedType, IdsFacts DEF LoadedOK, RecordActions, SessionActions
<1>4. row[x] \in SessionRows
  BY <1>2, IdsFacts DEF TypeInv, TypesOK, Tabled, Fits
<1>9. a.type # "delete_session"
  <2>1. a.type = "delete_session" => v.deleted = TRUE
    BY <1>3 DEF Changed, SessionRows
  <2> QED
    BY <2>1
<1>5. s.status = "completed" => s.date = day[h]
  BY <1>2, <1>3, <1>9 DEF SessionRefused, ReopenAllowed
<1>6. CASE wrote[h][x] = NoRow
  BY <1>3, <1>5, <1>6 DEF View
<1>7. CASE wrote[h][x] # NoRow
  <2>1. s = wrote[h][x]
    BY <1>3, <1>7 DEF View
  <2>2. s.date = row[x].date
    <3>1. \A type : type # "create_session" => "date" \notin FieldsOf(type)
      BY DEF FieldsOf
    <3>2. "date" \in DOMAIN row[x]
      BY <1>4 DEF SessionRows
    <3>3. FieldsAt(h, x, s)
      BY <1>2, <2>1 DEF FieldsOK
    <3>4. s["date"] = row[x]["date"]
      BY <1>3, <3>1, <3>2, <3>3 DEF FieldsAt
    <3> QED
      BY <3>4
  <2>3. CASE s.status = "completed"
    BY <1>5, <2>2, <2>3
  <2>4. CASE s.status = "draft"
    <3>1. ~s.deleted
      <4>2. CASE a.type = "set_session_status"
        <5>1. v.deleted = s.deleted
          BY <1>3, <4>2 DEF Changed, SessionRows
        <5> QED
          BY <5>1
      <4>3. CASE a.type = "set_session_note"
        <5>1. v.deleted = s.deleted
          BY <1>3, <4>3 DEF Changed, SessionRows
        <5> QED
          BY <5>1
      <4> QED
        BY <1>1, <1>9, <4>2, <4>3 DEF LoadedOK, SessionActions
    <3>2. ReopensAt(h, x, s)
      BY <1>2, <2>1 DEF ReopensOK
    <3> QED
      BY <1>3, <2>4, <3>1, <3>2 DEF ReopensAt
  <2> QED
    BY <1>3, <2>3, <2>4, RowFacts DEF SessionStatuses
<1> QED
  BY <1>6, <1>7

(* The three conditions of WritesInv after a statement that writes f. *)
LEMMA WroteWrites ==
    ASSUME TypeInv, NEW h \in Handlers, FieldsOK(h), ReopensOK(h), LeavesOK(h), Framed(h),
           NEW f, Wrote(h, f), pc[h] # "save",
           \A x \in SessionIds \cup RecordIds : x \in DOMAIN f => FieldsAt(h, x, f[x]),
           \A x \in SessionIds : x \in DOMAIN f => ReopensAt(h, x, f[x]),
           req[h].kind = "actions" => \A x \in DOMAIN f :
               \/ pc'[h] = "save"
               \/ x \in SessionIds /\ Types(h) \cap {"create_session", "delete_session"} # {}
               \/ x \in RecordIds /\ Types(h) \cap {"set_record_note", "delete_session"} # {}
    PROVE  FieldsOK(h)' /\ ReopensOK(h)' /\ LeavesOK(h)'
<1>1. req' = req /\ row' = row /\ day' = day /\ saved'[h] = saved[h]
  BY DEF Framed, Wrote
<1>2. \A x \in Ids : wrote'[h][x] = IF x \in DOMAIN f THEN f[x] ELSE wrote[h][x]
  BY DEF Wrote
<1>3. FieldsOK(h)'
  <2> SUFFICES ASSUME NEW x \in SessionIds \cup RecordIds PROVE FieldsAt(h, x, wrote[h][x])'
    BY DEF FieldsOK
  <2>1. x \in Ids
    BY IdsFacts
  <2>2. FieldsAt(h, x, wrote'[h][x])
    BY <1>2, <2>1 DEF FieldsOK
  <2> QED
    BY <1>1, <2>2 DEF FieldsAt, Types
<1>4. ReopensOK(h)'
  <2> SUFFICES ASSUME NEW x \in SessionIds PROVE ReopensAt(h, x, wrote[h][x])'
    BY DEF ReopensOK
  <2>1. x \in Ids
    BY IdsFacts
  <2>2. ReopensAt(h, x, wrote'[h][x])
    BY <1>2, <2>1 DEF ReopensOK
  <2> QED
    BY <1>1, <2>2 DEF ReopensAt, Types
<1>5. LeavesOK(h)'
  <2>1. Types(h)' = Types(h)
    BY <1>1 DEF Types
  <2> QED
    BY <1>1, <1>2, <2>1 DEF LeavesOK
<1> QED
  BY <1>3, <1>4, <1>5

LEMMA QuietWrites ==
    ASSUME NEW h \in Handlers, FieldsOK(h), ReopensOK(h), LeavesOK(h), Framed(h), Quiet(h)
    PROVE  FieldsOK(h)' /\ ReopensOK(h)' /\ LeavesOK(h)'
<1>1. req' = req /\ row' = row /\ day' = day /\ wrote'[h] = wrote[h]
      /\ (saved[h] # {} \/ pc[h] = "save" => saved'[h] # {})
  BY DEF Framed, Quiet
<1>2. Types(h)' = Types(h)
  BY <1>1 DEF Types
<1>3. FieldsOK(h)'
  BY <1>1, <1>2 DEF FieldsOK, FieldsAt
<1>4. ReopensOK(h)'
  BY <1>1, <1>2 DEF ReopensOK, ReopensAt
<1>5. LeavesOK(h)'
  BY <1>1, <1>2 DEF LeavesOK
<1> QED
  BY <1>3, <1>4, <1>5

LEMMA ChangesWrites ==
    ASSUME TypeInv, NEW h \in Handlers, FieldsOK(h), ReopensOK(h), LeavesOK(h), Framed(h), Changes(h)
    PROVE  FieldsOK(h)' /\ ReopensOK(h)' /\ LeavesOK(h)'
<1> DEFINE f == TargetRows(h)
<1>1. /\ pc[h] = "write" /\ ~ChangeRefused(h) /\ pc'[h] = AfterWrite(h) /\ Wrote(h, f)
      /\ ActionOK(Act(h)) /\ Act(h).type \in Types(h)
  BY ActType DEF Changes, TypeInv, Acting
<1>2. DOMAIN f = {Target(h)} /\ f[Target(h)] = Changed(h)
  BY DEF TargetRows
<1>3. \A x \in SessionIds \cup RecordIds : x \in DOMAIN f => FieldsAt(h, x, f[x])
  BY <1>1, <1>2, ChangedFields
<1>4. \A x \in SessionIds : x \in DOMAIN f => x = Act(h).session /\ Act(h).type \in SessionActions
  BY <1>1, <1>2, ChangedType, IdsFacts DEF ActionOK
<1>5. \A x \in SessionIds : x \in DOMAIN f => ReopensAt(h, x, f[x])
  BY <1>1, <1>2, <1>4, ChangedReopens
<1>6. \A x \in DOMAIN f :
          \/ pc'[h] = "save"
          \/ x \in SessionIds /\ Types(h) \cap {"create_session", "delete_session"} # {}
          \/ x \in RecordIds /\ Types(h) \cap {"set_record_note", "delete_session"} # {}
  <2>1. CASE Act(h).type \in {"create_session", "delete_session"}
    <3>1. Target(h) \in SessionIds
      BY <1>1, <2>1 DEF Target, RecordActions, ActionOK
    <3> QED
      BY <1>1, <1>2, <2>1, <3>1
  <2>2. CASE Act(h).type = "set_record_note"
    <3>1. Target(h) \in RecordIds
      BY <1>1, <2>2 DEF Target, RecordActions, ActionOK
    <3> QED
      BY <1>1, <1>2, <2>2, <3>1
  <2>3. CASE Act(h).type \notin {"create_session", "delete_session", "set_record_note"}
    BY <1>1, <2>3 DEF AfterWrite
  <2> QED
    BY <2>1, <2>2, <2>3
<1> HIDE DEF f
<1> QED
  BY <1>1, <1>3, <1>5, <1>6, WroteWrites

LEMMA RecordsWrites ==
    ASSUME TypeInv, NEW h \in Handlers, FieldsOK(h), ReopensOK(h), LeavesOK(h), Framed(h),
           Creates(h) \/ Marks(h) \/ DeletesRecords(h)
    PROVE  FieldsOK(h)' /\ ReopensOK(h)' /\ LeavesOK(h)'
<1>1. pc[h] = "records" /\ Act(h).type \in Types(h) /\ ActionOK(Act(h))
  BY ActType DEF Creates, Marks, DeletesRecords, TypeInv, Acting
<1>2. CASE Creates(h)
  <2> DEFINE f == PayloadRows(h)
  <2>1. Wrote(h, f) /\ DOMAIN f \subseteq RecordIds /\ pc'[h] = "save" /\ "create_session" \in Types(h)
    BY <1>1, <1>2, PayloadType DEF Creates, TypeInv
  <2>2. \A x \in SessionIds \cup RecordIds : x \in DOMAIN f => FieldsAt(h, x, f[x])
    BY <2>1, CreateFields
  <2>3. \A x \in SessionIds : x \notin DOMAIN f
    BY <2>1, IdsFacts
  <2> HIDE DEF f
  <2> QED
    BY <1>1, <2>1, <2>2, <2>3, WroteWrites
<1>3. CASE Marks(h)
  <2> DEFINE f == MarkedRows(h)
  <2>1. Wrote(h, f) /\ DOMAIN f \subseteq RecordIds /\ pc'[h] = "save" /\ "mark_all_present" \in Types(h)
    BY <1>1, <1>3, MarkedType DEF Marks, TypeInv
  <2>2. ASSUME NEW r \in DOMAIN f PROVE FieldsAt(h, r, f[r])
    <3>1. View(h, r) \in RecordRows /\ f[r] = [View(h, r) EXCEPT !.status = "present"] /\ r \in RecordIds
      BY <2>1, <2>2, MarkedType DEF TypeInv
    <3>2. "status" \in FieldsOf("mark_all_present")
      BY DEF FieldsOf
    <3>3. \A field \in DOMAIN View(h, r) : field # "status" => f[r][field] = View(h, r)[field]
      BY <3>1, ExceptFields
    <3> HIDE DEF f
    <3> QED
      BY <2>1, <3>1, <3>2, <3>3, IdsFacts, FieldChanged
  <2>3. \A x \in SessionIds : x \notin DOMAIN f
    BY <2>1, IdsFacts
  <2> HIDE DEF f
  <2> QED
    BY <1>1, <2>1, <2>2, <2>3, WroteWrites
<1>4. CASE DeletesRecords(h)
  <2> DEFINE f == DeletedRecords(h)
  <2>1. Wrote(h, f) /\ DOMAIN f \subseteq RecordIds /\ "delete_session" \in Types(h)
    BY <1>1, <1>4, MarkedType DEF DeletesRecords, TypeInv
  <2>2. ASSUME NEW r \in DOMAIN f PROVE FieldsAt(h, r, f[r])
    <3>1. View(h, r) \in RecordRows /\ f[r] = [View(h, r) EXCEPT !.deleted = TRUE] /\ r \in RecordIds
      BY <2>1, <2>2, MarkedType DEF TypeInv
    <3>2. "deleted" \in FieldsOf("delete_session")
      BY DEF FieldsOf
    <3>3. \A field \in DOMAIN View(h, r) : field # "deleted" => f[r][field] = View(h, r)[field]
      BY <3>1, ExceptFields
    <3> HIDE DEF f
    <3> QED
      BY <2>1, <3>1, <3>2, <3>3, IdsFacts, FieldChanged
  <2>3. \A x \in SessionIds : x \notin DOMAIN f
    BY <2>1, IdsFacts
  <2> HIDE DEF f
  <2> QED
    BY <1>1, <2>1, <2>2, <2>3, WroteWrites
<1> QED
  BY <1>2, <1>3, <1>4

LEMMA OtherWrites ==
    ASSUME TypeInv, NEW h \in Handlers, FieldsOK(h), ReopensOK(h), LeavesOK(h), Framed(h),
           DeletesMessages(h) \/ DeletesMessage(h) \/ Builds(h)
    PROVE  FieldsOK(h)' /\ ReopensOK(h)' /\ LeavesOK(h)'
<1>1. CASE DeletesMessages(h)
  <2> DEFINE f == DeletedMessages(h)
  <2>1. Wrote(h, f) /\ DOMAIN f \subseteq MessageIds /\ pc'[h] = "save" /\ pc[h] = "messages"
    BY <1>1, DeletedMessagesType DEF DeletesMessages, TypeInv
  <2>2. \A x \in SessionIds \cup RecordIds : x \notin DOMAIN f
    BY <2>1, IdsFacts
  <2> HIDE DEF f
  <2> QED
    BY <2>1, <2>2, WroteWrites
<1>2. CASE DeletesMessage(h)
  <2> DEFINE f == DeletedMessage(h)
  <2>1. Wrote(h, f) /\ Act(h).rec \in RecordIds /\ pc'[h] = "save" /\ pc[h] = "messages"
    BY <1>2, ActType DEF TypeInv, DeletesMessage, Acting, ActionOK
  <2>2. \A x \in SessionIds \cup RecordIds : x \notin DOMAIN f
    BY <2>1, IdsFacts DEF DeletedMessage
  <2> HIDE DEF f
  <2> QED
    BY <2>1, <2>2, WroteWrites
<1>3. CASE Builds(h)
  <2> DEFINE f == Built(h)
  <2>1. Wrote(h, f) /\ pc[h] = "build" /\ req[h].kind = "create"
    BY <1>3 DEF Builds, TypeInv, HandlerOK
  <2>2. "create_session" \in Types(h)
    BY <2>1 DEF Types
  <2>3. \A x \in SessionIds \cup RecordIds : FieldsAt(h, x, f[x])
    BY <2>2, CreateFields
  <2>4. \A x \in SessionIds : ReopensAt(h, x, f[x])
    BY <2>2 DEF ReopensAt
  <2> HIDE DEF f
  <2> QED
    BY <2>1, <2>3, <2>4, WroteWrites
<1> QED
  BY <1>1, <1>2, <1>3

(* A handler that nobody disturbs, and one that has ended. *)
LEMMA UndisturbedWrites ==
    ASSUME NEW g \in Handlers, LocksOK(g), FieldsOK(g), ReopensOK(g), LeavesOK(g), Undisturbed(g)
    PROVE  FieldsOK(g)' /\ ReopensOK(g)' /\ LeavesOK(g)'
<1>1. wrote'[g] = wrote[g] /\ req'[g] = req[g] /\ day'[g] = day[g] /\ pc'[g] = pc[g] /\ saved'[g] = saved[g]
  BY DEF Undisturbed, Same
<1>2. Types(g)' = Types(g)
  BY <1>1 DEF Types
<1>3. \A x \in SessionIds \cup RecordIds : wrote[g][x] # NoRow => row'[x] = row[x]
  BY IdsFacts DEF LocksOK, Undisturbed
<1>4. FieldsOK(g)'
  BY <1>1, <1>2, <1>3 DEF FieldsOK, FieldsAt
<1>5. ReopensOK(g)'
  BY <1>1, <1>2, <1>3 DEF ReopensOK, ReopensAt
<1>6. LeavesOK(g)'
  BY <1>1, <1>2 DEF LeavesOK
<1> QED
  BY <1>4, <1>5, <1>6

LEMMA EndedWrites ==
    ASSUME NEW h \in Handlers, wrote'[h] = Empty
    PROVE  FieldsOK(h)' /\ ReopensOK(h)' /\ LeavesOK(h)'
<1>1. \A x \in Ids : wrote'[h][x] = NoRow
  BY DEF Empty
<1> QED
  BY <1>1, IdsFacts DEF FieldsOK, FieldsAt, ReopensOK, ReopensAt, LeavesOK

LEMMA InitWritesInv == Init => WritesInv
<1> SUFFICES ASSUME Init PROVE WritesInv
  OBVIOUS
<1>1. \A h \in Handlers, x \in Ids : wrote[h][x] = NoRow
  BY DEF Init
<1> QED
  BY <1>1, InitTypeInv, IdsFacts DEF WritesInv, FieldsOK, FieldsAt, ReopensOK, ReopensAt, LeavesOK

LEMMA NextWritesInv == WritesInv /\ [Next]_vars => WritesInv'
<1> SUFFICES ASSUME WritesInv, [Next]_vars PROVE WritesInv'
  OBVIOUS
<1>1. TypeInv /\ TypeInv'
  BY NextTypeInv DEF WritesInv
<1>2. ASSUME NEW h \in Handlers PROVE FieldsOK(h)' /\ ReopensOK(h)' /\ LeavesOK(h)'
  <2>1. FieldsOK(h) /\ ReopensOK(h) /\ LeavesOK(h) /\ LocksOK(h)
    BY DEF WritesInv, TypeInv
  <2>2. CASE Works(h)
    BY <1>1, <2>1, <2>2, Effects, QuietWrites, ChangesWrites, RecordsWrites, OtherWrites
  <2>3. CASE Undisturbed(h)
    BY <2>1, <2>3, UndisturbedWrites
  <2>4. CASE wrote'[h] = Empty
    BY <2>4, EndedWrites
  <2> QED
    BY <1>1, <2>2, <2>3, <2>4, Elsewhere
<1> QED
  BY <1>1, <1>2 DEF WritesInv

LEMMA WritesInvHolds == Spec => []WritesInv
BY InitWritesInv, NextWritesInv, PTL DEF Spec

(* A row that a commit changes is one its transaction has written. *)
LEMMA CommitWrote ==
    ASSUME TypeInv, NEW h \in Handlers, Commit(h), NEW x \in Ids, row'[x] # row[x]
    PROVE  wrote[h][x] # NoRow /\ row'[x] = wrote[h][x]
BY CommitFacts DEF View

(* No lost update: every action writes back a row that it has locked and   *)
(* then read, so what it carries along is what is committed.               *)
THEOREM FieldsSafety == Spec => KeepsOtherFields
<1>1. ASSUME WritesInv, NEW h \in Handlers, Commit(h), NEW x \in SessionIds \cup RecordIds,
             row[x] # NoRow, NEW field \in DOMAIN row[x], row'[x][field] # row[x][field]
      PROVE  \E type \in Types(h) : field \in FieldsOf(type)
  <2>1. wrote[h][x] # NoRow /\ row'[x] = wrote[h][x]
    BY <1>1, CommitWrote, IdsFacts DEF WritesInv
  <2> QED
    BY <1>1, <2>1 DEF WritesInv, FieldsOK, FieldsAt
<1>2. WritesInv /\ [Next]_vars =>
        [\A h \in Handlers : Commit(h) =>
            \A x \in SessionIds \cup RecordIds : row[x] # NoRow =>
                \A field \in DOMAIN row[x] :
                    row'[x][field] # row[x][field] =>
                        \E type \in Types(h) : field \in FieldsOf(type)]_vars
  BY <1>1
<1> QED
  BY <1>2, WritesInvHolds, PTL DEF Spec, KeepsOtherFields

(* Only sessions of the day are reopened: the session is locked before its *)
(* status is read, so a completion after the handler began is seen.        *)
THEOREM ReopenSafety == Spec => ReopenedToday
<1>1. ASSUME WritesInv, NEW h \in Handlers, Commit(h), NEW x \in SessionIds,
             Active(row[x]), Active(row'[x]), row[x].status = "completed", row'[x].status = "draft"
      PROVE  row[x].date = day[h] \/ "create_session" \in Types(h)
  <2>1. row'[x] # row[x]
    BY <1>1
  <2>2. wrote[h][x] # NoRow /\ row'[x] = wrote[h][x]
    BY <1>1, <2>1, CommitWrote, IdsFacts DEF WritesInv
  <2> QED
    BY <1>1, <2>2 DEF WritesInv, ReopensOK, ReopensAt, Active
<1>2. WritesInv /\ [Next]_vars =>
        [\A h \in Handlers : Commit(h) =>
            \A x \in SessionIds :
                Active(row[x]) /\ Active(row'[x])
                /\ row[x].status = "completed" /\ row'[x].status = "draft" =>
                    row[x].date = day[h] \/ "create_session" \in Types(h)]_vars
  BY <1>1
<1> QED
  BY <1>2, WritesInvHolds, PTL DEF Spec, ReopenedToday

(* A request none of whose actions was applied leaves a session without    *)
(* records, a note, or a deleted session: the statements of the other      *)
(* actions write all they write at once and are followed by the save.      *)
THEOREM RefusedSafety == Spec => RefusedLeave
<1>1. ASSUME WritesInv, NEW h \in Handlers, Commit(h), req[h].kind = "actions", saved[h] = {},
             NEW x \in Ids, row'[x] # row[x]
      PROVE  \/ x \in SessionIds /\ Types(h) \cap {"create_session", "delete_session"} # {}
             \/ x \in RecordIds /\ Types(h) \cap {"set_record_note", "delete_session"} # {}
  <2>1. wrote[h][x] # NoRow /\ pc[h] = "next"
    BY <1>1, CommitWrote DEF WritesInv, Commit
  <2> QED
    BY <1>1, <2>1 DEF WritesInv, LeavesOK
<1>2. WritesInv /\ [Next]_vars =>
        [\A h \in Handlers : Commit(h) /\ req[h].kind = "actions" /\ saved[h] = {} =>
            \A x \in Ids : row'[x] # row[x] =>
                \/ x \in SessionIds /\ Types(h) \cap {"create_session", "delete_session"} # {}
                \/ x \in RecordIds /\ Types(h) \cap {"set_record_note", "delete_session"} # {}]_vars
  BY <1>1
<1> QED
  BY <1>2, WritesInvHolds, PTL DEF Spec, RefusedLeave
=============================================================================
