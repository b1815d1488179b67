--------------------------- MODULE SyncPushProofs ---------------------------
(***************************************************************************)
(* Theorems about SyncPush, for any number of handlers, records, devices   *)
(* and requests.                                                           *)
(***************************************************************************)
EXTENDS SyncPush, TLAPS

MutationRecords ==
    [id : MutationIds, rec : Records, op : {"upsert", "delete"}, at : Nat, text : Texts,
     scope : Scopes, refs : SUBSET Records, key : Keys \cup {NoKey},
     lookup : BOOLEAN, gone : BOOLEAN]

(* A handler that works on a mutation has one, and an attendance action is *)
(* only accepted for a row that exists.                                    *)
Working ==
    /\ \A s \in Sessions : pc[s] \in {"lock", "decide", "write"} => ~Done(s)
    /\ \A s \in Sessions : pc[s] = "write" => ~TargetMissing(s)

TypeInv == Typed /\ Working

-----------------------------------------------------------------------------
(* The mutation a handler works on is one of its request's. *)
LEMMA MutType ==
    ASSUME Typed, NEW s \in Sessions, ~Done(s)
    PROVE  /\ Mut(s) \in MutationRecords
           /\ req[s].device \in Devices
           /\ req[s].api \in Apis
<1>1. req[s] \in Requests /\ pos[s] \in Nat \ {0}
  BY DEF Typed
<1>2. req[s].muts \in Seq(MutationRecords) /\ req[s].api \in Apis
  BY <1>1, PushAssumption DEF MutationRecords
<1>3. pos[s] \in 1 .. Len(req[s].muts)
  BY <1>1, <1>2 DEF Done
<1>4. req[s].device \in Devices
  BY <1>1 DEF Devices
<1> QED
  BY <1>2, <1>3, <1>4 DEF Mut

(* What a handler sees of a record is a row or nothing. *)
LEMMA ViewType ==
    ASSUME Typed, NEW s \in Sessions, NEW r \in Records
    PROVE  View(s, r) \in Rows \cup {NoRow}
BY DEF Typed, View

(* canonicalizeMutation produces a row. *)
LEMMA CanonicalType ==
    ASSUME Typed, NEW s \in Sessions, ~Done(s), ~TargetMissing(s)
    PROVE  Canonical(s) \in Rows
<1>1. Mut(s) \in MutationRecords /\ req[s].api \in Apis
  BY MutType
<1>2. now[s] \in Nat /\ seen[s] \in Rows \cup {NoRow}
  BY DEF Typed
<1>3. CASE req[s].api = "sync"
  BY <1>1, <1>2, <1>3 DEF Canonical, Rows, MutationRecords
<1>4. CASE req[s].api # "sync"
  <2>1. seen[s] \in Rows
    BY <1>1, <1>2, <1>4 DEF Apis, TargetMissing
  <2> QED
    BY <1>1, <1>2, <1>4, <2>1 DEF Canonical, Rows, MutationRecords
<1> QED
  BY <1>3, <1>4

(* The change-log row it appends is well formed. *)
LEMMA NewEntryType ==
    ASSUME Typed, NEW s \in Sessions, ~Done(s), ~TargetMissing(s)
    PROVE  NewEntry(s) \in Entries
BY MutType, CanonicalType DEF NewEntry, Entries, Typed, MutationRecords

-----------------------------------------------------------------------------
(* The type invariant.                                                     *)

LEMMA TypeInvInit == Init => TypeInv
<1> SUFFICES ASSUME Init PROVE TypeInv
  OBVIOUS
<1>1. AnyRequest \in Requests
  BY PushAssumption DEF AnyRequest
<1>2. Typed
  BY <1>1 DEF Init, Typed, Entries
<1>3. Working
  BY DEF Init, Working
<1> QED
  BY <1>2, <1>3 DEF TypeInv

(* Ending any number of handlers, for whatever reason, leaves them idle.   *)
LEMMA TypeInvRollback ==
    ASSUME TypeInv, NEW S \in SUBSET Sessions, Rollback(S)
    PROVE  TypeInv'
<1>1. AnyRequest \in Requests
  BY PushAssumption DEF AnyRequest
<1>2. Typed'
  <2>1. lock' \in [Records \cup Keys -> Sessions \cup {Nobody}]
    BY DEF TypeInv, Typed, Rollback, Unlocked
  <2>2. req' \in [Sessions -> Requests]
    BY <1>1 DEF TypeInv, Typed, Rollback, Unlocked
  <2>3. /\ wrote' \in [Sessions -> [Records -> Rows \cup {NoRow}]]
        /\ pending' \in [Sessions -> SUBSET Entries]
    BY DEF TypeInv, Typed, Rollback, Unlocked
  <2>4. /\ pc' \in [Sessions -> {"idle", "check", "lock", "decide", "write", "committed"}]
        /\ pos' \in [Sessions -> Nat \ {0}]
        /\ now' \in [Sessions -> Nat]
        /\ seen' \in [Sessions -> Rows \cup {NoRow}]
    BY DEF TypeInv, Typed, Rollback, Unlocked
  <2> QED
    BY <2>1, <2>2, <2>3, <2>4 DEF TypeInv, Typed, Rollback, dbVars
<1>3. Working'
  <2> SUFFICES ASSUME NEW s \in Sessions, pc'[s] \in {"lock", "decide", "write"}
               PROVE  ~Done(s)' /\ (pc'[s] = "write" => ~TargetMissing(s)')
    BY DEF Working
  <2>1. s \notin S
    BY DEF Rollback
  <2>2. UNCHANGED <<pc[s], req[s], pos[s], seen[s]>>
    BY <2>1 DEF Rollback, TypeInv, Typed
  <2> QED
    BY <2>2 DEF TypeInv, Working, Done, TargetMissing
<1> QED
  BY <1>2, <1>3 DEF TypeInv

(* A step of one handler that leaves the other handlers' locals alone and  *)
(* keeps Working for itself keeps it for all.                              *)
LEMMA WorkingOthers ==
    ASSUME TypeInv, NEW s \in Sessions,
           \A t \in Sessions \ {s} : UNCHANGED <<pc[t], req[t], pos[t], seen[t]>>,
           pc'[s] \in {"lock", "decide", "write"} => ~Done(s)',
           pc'[s] = "write" => ~TargetMissing(s)'
    PROVE  Working'
<1> SUFFICES ASSUME NEW t \in Sessions \ {s}
             PROVE  /\ pc'[t] \in {"lock", "decide", "write"} => ~Done(t)'
                    /\ pc'[t] = "write" => ~TargetMissing(t)'
  BY DEF Working
<1> QED
  BY DEF TypeInv, Working, Done, TargetMissing

LEMMA TypeInvNext == TypeInv /\ [Next]_vars => TypeInv'
<1> SUFFICES ASSUME TypeInv, [Next]_vars PROVE TypeInv'
  OBVIOUS
<1> USE DEF TypeInv
<1>1. CASE Tick
  BY <1>1 DEF Tick, Typed, Working, Done, TargetMissing, dbVars, txVars
<1>2. ASSUME NEW s \in Sessions, NEW q \in Requests, Begin(s, q) PROVE TypeInv'
  <2>1. Typed'
    BY <1>2 DEF Begin, Typed, dbVars
  <2>2. Working'
    BY <1>2, WorkingOthers DEF Begin, Typed
  <2> QED
    BY <2>1, <2>2
<1>3. ASSUME NEW s \in Sessions, SkipProcessed(s) PROVE TypeInv'
  <2>1. Typed'
    BY <1>3 DEF SkipProcessed, Typed, dbVars
  <2>2. Working'
    BY <1>3, WorkingOthers DEF SkipProcessed, Typed
  <2> QED
    BY <2>1, <2>2
<1>4. ASSUME NEW s \in Sessions, NotProcessed(s) PROVE TypeInv'
  <2>1. Typed'
    BY <1>4 DEF NotProcessed, Typed, dbVars, txVars
  <2>2. Working'
    BY <1>4, WorkingOthers DEF NotProcessed, Typed, txVars, Done
  <2> QED
    BY <2>1, <2>2
<1>5. ASSUME NEW s \in Sessions, LockRow(s) PROVE TypeInv'
  <2>1. Mut(s).rec \in Records /\ View(s, Mut(s).rec) \in Rows \cup {NoRow}
    BY <1>5, MutType, ViewType DEF LockRow, ForUpdate, Working, MutationRecords
  <2>2. Typed'
    BY <1>5, <2>1 DEF LockRow, ForUpdate, Typed, dbVars
  <2>3. Working'
    BY <1>5, WorkingOthers DEF LockRow, ForUpdate, Typed, Working, Done
  <2> QED
    BY <2>2, <2>3
<1>6. ASSUME NEW s \in Sessions, Conflict(s) PROVE TypeInv'
  <2>1. Typed'
    BY <1>6 DEF Conflict, Typed, dbVars
  <2>2. Working'
    BY <1>6, WorkingOthers DEF Conflict, Typed
  <2> QED
    BY <2>1, <2>2
<1>7. ASSUME NEW s \in Sessions, Accept(s) PROVE TypeInv'
  <2>1. Typed'
    BY <1>7 DEF Accept, Typed, dbVars, txVars
  <2>2. Working'
    BY <1>7, WorkingOthers DEF Accept, Typed, Working, Done, txVars, Refused, TargetMissing
  <2> QED
    BY <2>1, <2>2
<1>8. ASSUME NEW s \in Sessions, Write(s) PROVE TypeInv'
  <2>1. ~Done(s) /\ ~TargetMissing(s)
    BY <1>8 DEF Write, Working
  <2>2. Mut(s).rec \in Records /\ Canonical(s) \in Rows /\ NewEntry(s) \in Entries
    BY <2>1, MutType, CanonicalType, NewEntryType DEF MutationRecords
  <2>3. Typed'
    BY <1>8, <2>2 DEF Write, Typed, dbVars
  <2>4. Working'
    BY <1>8, WorkingOthers DEF Write, Typed
  <2> QED
    BY <2>3, <2>4
<1>9. ASSUME NEW s \in Sessions, Commit(s) PROVE TypeInv'
  <2>1. row' \in [Records -> Rows \cup {NoRow}]
    BY <1>9, ViewType DEF Commit
  <2>2. processed' \subseteq Devices \X MutationIds
    BY <1>9 DEF Commit, ProcessedView, Typed, Entries
  <2>3. Typed'
    BY <1>9, <2>1, <2>2 DEF Commit, Typed, Unlocked
  <2>4. Working'
    BY <1>9, WorkingOthers DEF Commit, Typed
  <2> QED
    BY <2>3, <2>4
<1>10. ASSUME NEW s \in Sessions, Broadcast(s) PROVE TypeInv'
  <2>1. AnyRequest \in Requests
    BY PushAssumption DEF AnyRequest
  <2>2. announced' \subseteq Nat
    <3>1. \A e \in pending[s] : e.id \in Nat
      BY DEF Typed, Entries
    <3>2. announced' = announced \cup {e.id : e \in pending[s]}
      BY <1>10 DEF Broadcast
    <3> QED
      BY <3>1, <3>2 DEF Typed
  <2>3. Typed'
    BY <1>10, <2>1, <2>2 DEF Broadcast, Typed, dbVars
  <2>4. Working'
    BY <1>10, WorkingOthers DEF Broadcast, Typed
  <2> QED
    BY <2>3, <2>4
<1>11. ASSUME NEW S \in SUBSET Sessions, Rollback(S) PROVE TypeInv'
  BY <1>11, TypeInvRollback
<1>12. ASSUME NEW s \in Sessions, Step(s) PROVE TypeInv'
  BY <1>3, <1>4, <1>5, <1>6, <1>7, <1>8, <1>9, <1>10, <1>11, <1>12
     DEF Step, UniqueViolation, DeadlockVictim
<1>13. CASE UNCHANGED vars
  BY <1>13 DEF vars, Typed, Working, Done, TargetMissing
<1> QED
  BY <1>1, <1>2, <1>11, <1>12, <1>13 DEF Next, Fail, Crash

(* A handler takes locks only inside its transaction, and whatever ends    *)
(* that releases them.                                                     *)
LEMMA NoStrayLocksNext == TypeInv /\ NoStrayLocks /\ [Next]_vars => NoStrayLocks'
<1> SUFFICES ASSUME TypeInv, NoStrayLocks, [Next]_vars PROVE NoStrayLocks'
  OBVIOUS
<1> DEFINE Things == Records \cup Keys
<1>1. /\ pc \in [Sessions -> {"idle", "check", "lock", "decide", "write", "committed"}]
      /\ lock \in [Things -> Sessions \cup {Nobody}]
  BY DEF TypeInv, Typed
<1>2. ASSUME NEW s \in Sessions,
             \A t \in Sessions \ {s} : /\ UNCHANGED pc[t]
                                       /\ \A x \in Things : lock'[x] = t => lock[x] = t,
             s \in InTransaction' \/ \A x \in Things : lock'[x] # s
      PROVE  NoStrayLocks'
  BY <1>2 DEF NoStrayLocks, InTransaction
<1>3. CASE Tick \/ UNCHANGED vars
  BY <1>3 DEF Tick, vars, dbVars, txVars, NoStrayLocks, InTransaction
<1>4. ASSUME NEW s \in Sessions,
             \/ \E q \in Requests : Begin(s, q)
             \/ SkipProcessed(s) \/ NotProcessed(s) \/ Conflict(s) \/ Accept(s)
      PROVE  NoStrayLocks'
  <2>1. UNCHANGED lock /\ pc'[s] \in {"check", "lock", "decide", "write"}
        /\ \A t \in Sessions \ {s} : UNCHANGED pc[t]
    BY <1>1, <1>4 DEF Begin, SkipProcessed, NotProcessed, Conflict, Accept, txVars
  <2> QED
    BY <1>2, <2>1 DEF InTransaction
<1>5. ASSUME NEW s \in Sessions, LockRow(s) PROVE NoStrayLocks'
  <2>1. /\ pc'[s] = "decide" /\ \A t \in Sessions \ {s} : UNCHANGED pc[t]
        /\ \A t \in Sessions \ {s} : \A x \in Things : lock'[x] = t => lock[x] = t
    BY <1>1, <1>5 DEF LockRow, ForUpdate
  <2> QED
    BY <1>2, <2>1 DEF InTransaction
<1>6. ASSUME NEW s \in Sessions, Write(s) PROVE NoStrayLocks'
  <2>1. /\ pc'[s] = "check" /\ \A t \in Sessions \ {s} : UNCHANGED pc[t]
        /\ \A t \in Sessions \ {s} : \A x \in Things : lock'[x] = t => lock[x] = t
    BY <1>1, <1>6 DEF Write
  <2> QED
    BY <1>2, <2>1 DEF InTransaction
<1>7. ASSUME NEW s \in Sessions, Commit(s) PROVE NoStrayLocks'
  <2>1. /\ \A t \in Sessions \ {s} : UNCHANGED pc[t]
        /\ \A t \in Sessions \ {s} : \A x \in Things : lock'[x] = t => lock[x] = t
        /\ \A x \in Things : lock'[x] # s
    BY <1>1, <1>7, PushAssumption DEF Commit, Unlocked
  <2> QED
    BY <1>2, <2>1
<1>8. ASSUME NEW s \in Sessions, Broadcast(s) PROVE NoStrayLocks'
  <2>1. /\ UNCHANGED lock /\ s \notin InTransaction
        /\ \A t \in Sessions \ {s} : UNCHANGED pc[t]
    BY <1>1, <1>8 DEF Broadcast, InTransaction
  <2>2. \A x \in Things : lock'[x] # s
    BY <2>1 DEF NoStrayLocks
  <2> QED
    BY <1>2, <2>1, <2>2
<1>9. ASSUME NEW S \in SUBSET Sessions, Rollback(S) PROVE NoStrayLocks'
  <2>1. ASSUME NEW t \in Sessions, NEW x \in Things, lock'[x] = t
        PROVE  t \notin S /\ lock[x] = t /\ UNCHANGED pc[t]
    BY <1>1, <1>9, <2>1, PushAssumption DEF Rollback, Unlocked
  <2> QED
    BY <2>1 DEF NoStrayLocks, InTransaction
<1> QED
  BY <1>3, <1>4, <1>5, <1>6, <1>7, <1>8, <1>9
     DEF Next, Step, Fail, Crash, UniqueViolation, DeadlockVictim

(* Every state of every handler, table and lock is well formed, whatever   *)
(* the requests, and no handler holds a lock without a transaction.        *)
THEOREM TypeSafety == Spec => []TypeOK
<1>1. Init => TypeInv /\ NoStrayLocks
  BY TypeInvInit, PushAssumption DEF Init, NoStrayLocks
<1>2. TypeInv /\ NoStrayLocks /\ [Next]_vars => TypeInv' /\ NoStrayLocks'
  BY TypeInvNext, NoStrayLocksNext
<1>3. TypeInv /\ NoStrayLocks => TypeOK
  BY DEF TypeInv, TypeOK
<1> QED
  BY <1>1, <1>2, <1>3, PTL DEF Spec

-----------------------------------------------------------------------------
(* The locks.  A handler holds the lock of the record it has read, unless  *)
(* there was no such record, and of every record it has written.           *)

LocksOf(s) ==
    /\ pc[s] \in {"decide", "write"} =>
          IF seen[s] = NoRow THEN wrote[s][Mut(s).rec] = NoRow
                             ELSE lock[Mut(s).rec] = s
    /\ \A r \in Records : wrote[s][r] # NoRow => lock[r] = s

CurrentOf(s) ==
    pc[s] \in {"decide", "write"} /\ seen[s] # NoRow
        => View(s, Mut(s).rec) = seen[s]

LockInv == TypeInv /\ \A s \in Sessions : LocksOf(s) /\ CurrentOf(s)

(* While another handler makes a step, a handler keeps its locks, and the  *)
(* rows it has locked stay as they are.                                    *)
Undisturbed(t) ==
    /\ UNCHANGED <<pc[t], req[t], pos[t], seen[t], wrote[t]>>
    /\ \A r \in Records : lock[r] = t => lock'[r] = t /\ row'[r] = row[r]

LEMMA LocksUndisturbed ==
    ASSUME LockInv, NEW t \in Sessions, Undisturbed(t)
    PROVE  (LocksOf(t) /\ CurrentOf(t))'
<1>1. UNCHANGED Mut(t)
  BY DEF Undisturbed, Mut
<1>2. LocksOf(t)'
  <2>1. ASSUME pc[t] \in {"decide", "write"} PROVE Mut(t).rec \in Records
    BY <2>1, MutType DEF LockInv, TypeInv, Working, MutationRecords
  <2> QED
    BY <1>1, <2>1 DEF LockInv, LocksOf, Undisturbed
<1>3. CurrentOf(t)'
  <2> SUFFICES ASSUME pc'[t] \in {"decide", "write"}, seen'[t] # NoRow
               PROVE  View(t, Mut(t).rec)' = seen'[t]
    BY DEF CurrentOf
  <2>1. pc[t] \in {"decide", "write"} /\ seen[t] = seen'[t]
    BY DEF Undisturbed
  <2>2. Mut(t).rec \in Records
    BY <2>1, MutType DEF LockInv, TypeInv, Working, MutationRecords
  <2>3. lock[Mut(t).rec] = t
    BY <2>1 DEF LockInv, LocksOf
  <2>4. View(t, Mut(t).rec)' = View(t, Mut(t).rec)
    BY <1>1, <2>2, <2>3 DEF Undisturbed, View
  <2> QED
    BY <2>1, <2>4 DEF LockInv, CurrentOf
<1> QED
  BY <1>2, <1>3

LEMMA LockInvInit == Init => LockInv
BY TypeInvInit DEF Init, LockInv, LocksOf, CurrentOf

LEMMA LockInvRollback ==
    ASSUME LockInv, NEW S \in SUBSET Sessions, Rollback(S)
    PROVE  LockInv'
<1>1. TypeInv'
  BY TypeInvRollback DEF LockInv
<1>2. ASSUME NEW s \in S PROVE (LocksOf(s) /\ CurrentOf(s))'
  BY <1>2 DEF Rollback, LocksOf, CurrentOf
<1>3. ASSUME NEW s \in Sessions \ S PROVE (LocksOf(s) /\ CurrentOf(s))'
  <2>1. Undisturbed(s)
    BY <1>3 DEF Undisturbed, Rollback, Unlocked, LockInv, TypeInv, Typed, dbVars
  <2> QED
    BY <2>1, LocksUndisturbed
<1> QED
  BY <1>1, <1>2, <1>3 DEF LockInv

(* A step of handler s disturbs no other handler. *)
LEMMA StepUndisturbed ==
    ASSUME LockInv, NEW s \in Sessions, NEW t \in Sessions \ {s},
           \/ \E q \in Requests : Begin(s, q)
           \/ SkipProcessed(s) \/ NotProcessed(s) \/ LockRow(s) \/ Conflict(s)
           \/ Accept(s) \/ Write(s) \/ Commit(s) \/ Broadcast(s)
    PROVE  Undisturbed(t)
<1> USE DEF LockInv, TypeInv, Typed, Undisturbed, dbVars, txVars
<1>1. CASE \E q \in Requests : Begin(s, q)
  BY <1>1 DEF Begin
<1>2. CASE SkipProcessed(s)
  BY <1>2 DEF SkipProcessed
<1>3. CASE NotProcessed(s)
  BY <1>3 DEF NotProcessed
<1>4. CASE LockRow(s)
  BY <1>4, PushAssumption DEF LockRow, ForUpdate, Free
<1>5. CASE Conflict(s)
  BY <1>5 DEF Conflict
<1>6. CASE Accept(s)
  BY <1>6 DEF Accept
<1>7. CASE Write(s)
  BY <1>7, PushAssumption DEF Write, Free
<1>8. CASE Commit(s)
  <2>1. \A r \in Records : lock[r] = t => wrote[s][r] = NoRow
    BY DEF LocksOf
  <2> QED
    BY <1>8, <2>1 DEF Commit, Unlocked, View
<1>9. CASE Broadcast(s)
  BY <1>9 DEF Broadcast
<1> QED
  BY <1>1, <1>2, <1>3, <1>4, <1>5, <1>6, <1>7, <1>8, <1>9

LEMMA LockInvNext == LockInv /\ [Next]_vars => LockInv'
<1> SUFFICES ASSUME LockInv, [Next]_vars PROVE LockInv'
  OBVIOUS
<1>1. TypeInv /\ TypeInv'
  BY TypeInvNext DEF LockInv
<1>2. \A s \in Sessions : LocksOf(s) /\ CurrentOf(s)
  BY DEF LockInv
<1>3. CASE Tick \/ UNCHANGED vars
  BY <1>1, <1>2, <1>3, LocksUndisturbed
     DEF Tick, vars, dbVars, txVars, Undisturbed, LockInv
<1>4. ASSUME NEW s \in Sessions, (LocksOf(s) /\ CurrentOf(s))',
             \A t \in Sessions \ {s} : Undisturbed(t)
      PROVE  LockInv'
  BY <1>1, <1>4, LocksUndisturbed DEF LockInv
<1>5. ASSUME NEW s \in Sessions, NEW q \in Requests, Begin(s, q) PROVE LockInv'
  <2>1. (LocksOf(s) /\ CurrentOf(s))'
    BY <1>1, <1>2, <1>5 DEF Begin, LocksOf, CurrentOf, TypeInv, Typed
  <2> QED
    BY <1>4, <1>5, <2>1, StepUndisturbed
<1>6. ASSUME NEW s \in Sessions, SkipProcessed(s) \/ NotProcessed(s) \/ Conflict(s)
      PROVE  LockInv'
  <2>1. (LocksOf(s) /\ CurrentOf(s))'
    BY <1>1, <1>2, <1>6
       DEF SkipProcessed, NotProcessed, Conflict, LocksOf, CurrentOf, TypeInv, Typed, txVars
  <2> QED
    BY <1>4, <1>6, <2>1, StepUndisturbed
<1>7. ASSUME NEW s \in Sessions, LockRow(s) PROVE LockInv'
  <2> DEFINE r == Mut(s).rec
  <2>1. r \in Records
    BY <1>1, <1>7, MutType DEF LockRow, ForUpdate, TypeInv, Working, MutationRecords
  <2>2. seen'[s] = View(s, r) /\ UNCHANGED <<Mut(s), row, wrote>>
    BY <1>1, <1>7 DEF LockRow, ForUpdate, Mut, TypeInv, Typed, dbVars
  <2>3. View(s, r) # NoRow => lock'[r] = s
    BY <1>1, <1>7, <2>1 DEF LockRow, ForUpdate, TypeInv, Typed
  <2>4. \A x \in Records : lock[x] = s => lock'[x] = s
    BY <1>1, <1>7, <2>1 DEF LockRow, ForUpdate, TypeInv, Typed
  <2>5. LocksOf(s)'
    BY <1>2, <2>1, <2>2, <2>3, <2>4 DEF LocksOf, View
  <2>6. CurrentOf(s)'
    BY <2>2 DEF CurrentOf, View
  <2> QED
    BY <1>4, <1>7, <2>5, <2>6, StepUndisturbed
<1>8. ASSUME NEW s \in Sessions, Accept(s) PROVE LockInv'
  <2>1. UNCHANGED <<Mut(s), seen, wrote, lock, row>> /\ pc[s] = "decide"
    BY <1>8 DEF Accept, Mut, dbVars, txVars
  <2>2. (LocksOf(s) /\ CurrentOf(s))'
    BY <1>2, <2>1 DEF LocksOf, CurrentOf, View
  <2> QED
    BY <1>4, <1>8, <2>2, StepUndisturbed
<1>9. ASSUME NEW s \in Sessions, Write(s) PROVE LockInv'
  <2>1. pc'[s] = "check"
    BY <1>1, <1>9 DEF Write, TypeInv, Typed
  <2>2. ASSUME NEW x \in Records, wrote'[s][x] # NoRow PROVE lock'[x] = s
    BY <1>1, <1>2, <1>9, <2>2 DEF Write, WriteLocks, LocksOf, TypeInv, Typed
  <2>3. (LocksOf(s) /\ CurrentOf(s))'
    BY <2>1, <2>2 DEF LocksOf, CurrentOf
  <2> QED
    BY <1>4, <1>9, <2>3, StepUndisturbed
<1>10. ASSUME NEW s \in Sessions, Commit(s) PROVE LockInv'
  <2>1. (LocksOf(s) /\ CurrentOf(s))'
    BY <1>1, <1>10 DEF Commit, LocksOf, CurrentOf, TypeInv, Typed
  <2> QED
    BY <1>4, <1>10, <2>1, StepUndisturbed
<1>11. ASSUME NEW s \in Sessions, Broadcast(s) PROVE LockInv'
  <2>1. (LocksOf(s) /\ CurrentOf(s))'
    BY <1>1, <1>2, <1>11 DEF Broadcast, LocksOf, CurrentOf, TypeInv, Typed
  <2> QED
    BY <1>4, <1>11, <2>1, StepUndisturbed
<1>12. ASSUME NEW S \in SUBSET Sessions, Rollback(S) PROVE LockInv'
  BY <1>12, LockInvRollback
<1>13. ASSUME NEW s \in Sessions, Step(s) PROVE LockInv'
  BY <1>6, <1>7, <1>8, <1>9, <1>10, <1>11, <1>12, <1>13
     DEF Step, UniqueViolation, DeadlockVictim
<1> QED
  BY <1>3, <1>5, <1>12, <1>13 DEF Next, Fail, Crash

(* The row a handler has compared timestamps against is, for any number of *)
(* handlers, still the row its upsert replaces: SELECT ... FOR UPDATE in   *)
(* GetRecordForUpdate closes the gap between Push's check and its write.   *)
THEOREM CheckedRowSafety == Spec => []CheckedRowIsCurrent
<1>1. LockInv => CheckedRowIsCurrent
  BY DEF LockInv, CurrentOf, CheckedRowIsCurrent
<1> QED
  BY <1>1, LockInvInit, LockInvNext, PTL DEF Spec

-----------------------------------------------------------------------------
(* SyncPush implements ChangeLedger: a commit is a Transaction, and every  *)
(* other step leaves the tables, the log and the processed mutations as    *)
(* they are.                                                               *)

(* The change-log rows an open transaction has written for a record. *)
Own(s, r) == {e \in pending[s] : e.rec = r}

BasedOn(s, e) ==
    \/ \E f \in Own(s, e.rec) :
          /\ f.id < e.id
          /\ \A g \in Own(s, e.rec) : g.id <= f.id \/ g.id >= e.id
          /\ e.base = f.row
    \/ /\ \A f \in Own(s, e.rec) : e.id <= f.id
       /\ e.base \in {row[e.rec], NoRow}

(* What an open transaction has written of a record is what its last       *)
(* change-log row says, and its change-log rows follow on each other.      *)
ChainOf(s) ==
    \A r \in Records :
        /\ pc[s] = "committed" => wrote[s][r] = NoRow
        /\ pc[s] # "committed" =>
              /\ wrote[s][r] = NoRow => Own(s, r) = {}
              /\ wrote[s][r] # NoRow =>
                    \E e \in Own(s, r) :
                        e.row = wrote[s][r] /\ \A f \in Own(s, r) : f.id <= e.id
              /\ \A e \in Own(s, r) : BasedOn(s, e)

(* Ids come from a sequence: none is used twice, however many transactions *)
(* take ids at the same time.                                              *)
IdsUsed ==
    /\ \A e \in log : e.id < nextId
    /\ \A s \in Sessions : \A e \in pending[s] : e.id < nextId

IdsUnique ==
    /\ \A e, f \in log : e.id = f.id => e = f
    /\ \A s \in Sessions : \A e, f \in pending[s] : e.id = f.id => e = f
    /\ \A s \in Sessions :
          pc[s] # "committed" => \A e \in pending[s], f \in log : e.id # f.id
    /\ \A s, t \in Sessions :
          s # t => \A e \in pending[s], f \in pending[t] : e.id # f.id

LedgerInv ==
    /\ LockInv
    /\ IdsUsed
    /\ IdsUnique
    /\ \A s \in Sessions : ChainOf(s)

-----------------------------------------------------------------------------
LEMMA LedgerInvInit == Init => LedgerInv
BY LockInvInit DEF Init, LedgerInv, IdsUsed, IdsUnique, ChainOf, Own

(* What a transaction has written stays its own while others make steps.   *)
LEMMA ChainUndisturbed ==
    ASSUME LedgerInv, NEW t \in Sessions, Undisturbed(t), UNCHANGED pending[t]
    PROVE  ChainOf(t)'
<1> SUFFICES ASSUME NEW r \in Records
             PROVE  /\ pc'[t] = "committed" => wrote'[t][r] = NoRow
                    /\ pc'[t] # "committed" =>
                          /\ wrote'[t][r] = NoRow => Own(t, r)' = {}
                          /\ wrote'[t][r] # NoRow =>
                                \E e \in Own(t, r)' :
                                    e.row = wrote'[t][r] /\ \A f \in Own(t, r)' : f.id <= e.id
                          /\ \A e \in Own(t, r)' : BasedOn(t, e)'
  BY DEF ChainOf
<1>1. \A x \in Records : Own(t, x)' = Own(t, x)
  BY DEF Own
<1>2. UNCHANGED <<pc[t], wrote[t]>>
  BY DEF Undisturbed
<1>3. ASSUME pc[t] # "committed", NEW e \in Own(t, r) PROVE BasedOn(t, e)'
  <2>1. e.rec = r /\ wrote[t][r] # NoRow
    BY <1>3 DEF LedgerInv, ChainOf, Own
  <2>2. row'[r] = row[r]
    BY <2>1 DEF LedgerInv, LockInv, LocksOf, Undisturbed
  <2>3. BasedOn(t, e)
    BY <1>3 DEF LedgerInv, ChainOf
  <2> QED
    BY <1>1, <2>1, <2>2, <2>3 DEF BasedOn
<1> QED
  BY <1>1, <1>2, <1>3 DEF LedgerInv, ChainOf

(* A step that appends nothing and commits nothing keeps the ids apart.    *)
LEMMA IdsKept ==
    ASSUME LedgerInv,
           UNCHANGED <<log, nextId>>,
           \A s \in Sessions : pending'[s] \subseteq pending[s],
           \A s \in Sessions : pc[s] = "committed" => pc'[s] = "committed" \/ pending'[s] = {}
    PROVE  (IdsUsed /\ IdsUnique)'
BY DEF LedgerInv, IdsUsed, IdsUnique

LEMMA LedgerInvRollback ==
    ASSUME LedgerInv, NEW S \in SUBSET Sessions, Rollback(S)
    PROVE  LedgerInv'
<1>1. LockInv'
  BY LockInvRollback DEF LedgerInv
<1>2. \A s \in S : /\ pc'[s] = "idle" /\ pending'[s] = {}
                   /\ \A r \in Records : wrote'[s][r] = NoRow
  BY DEF Rollback
<1>3. \A s \in Sessions \ S : Undisturbed(s) /\ UNCHANGED pending[s]
  BY DEF Undisturbed, Rollback, Unlocked, LedgerInv, LockInv, TypeInv, Typed, dbVars
<1>4. \A s \in Sessions : ChainOf(s)'
  BY <1>2, <1>3, ChainUndisturbed DEF ChainOf, Own
<1>5. (IdsUsed /\ IdsUnique)'
  <2>1. UNCHANGED <<log, nextId>>
    BY DEF Rollback, dbVars
  <2>2. \A s \in Sessions : pending'[s] \subseteq pending[s]
    BY <1>2, <1>3
  <2>3. \A s \in Sessions : pc[s] = "committed" => pc'[s] = "committed" \/ pending'[s] = {}
    BY <1>2, <1>3 DEF Undisturbed
  <2> QED
    BY <2>1, <2>2, <2>3, IdsKept
<1> QED
  BY <1>1, <1>4, <1>5 DEF LedgerInv

(* Steps that only move a handler's control state. *)
LEMMA LedgerInvLocal ==
    ASSUME LedgerInv, NEW s \in Sessions,
           \/ \E q \in Requests : Begin(s, q)
           \/ SkipProcessed(s) \/ NotProcessed(s) \/ LockRow(s) \/ Conflict(s) \/ Accept(s)
    PROVE  LedgerInv'
<1> USE DEF LedgerInv
<1>1. UNCHANGED <<dbVars, nextId, wrote, pending>> /\ pc[s] # "committed" /\ pc'[s] # "committed"
  BY DEF Begin, SkipProcessed, NotProcessed, LockRow, ForUpdate, Conflict, Accept, LockInv, TypeInv,
         Typed, txVars
<1>2. LockInv'
  BY LockInvNext DEF Next, Step
<1>3. \A t \in Sessions \ {s} : Undisturbed(t)
  BY StepUndisturbed
<1>4. ChainOf(s)'
  BY <1>1 DEF ChainOf, Own, BasedOn, dbVars
<1>5. \A t \in Sessions \ {s} : ChainOf(t)'
  BY <1>1, <1>3, ChainUndisturbed
<1>6. (IdsUsed /\ IdsUnique)'
  BY <1>1, <1>3, IdsKept DEF dbVars, Undisturbed
<1> QED
  BY <1>2, <1>4, <1>5, <1>6

(* UpsertRecord appends one change, based on what the transaction sees.    *)
LEMMA LedgerInvWrite ==
    ASSUME LedgerInv, NEW s \in Sessions, Write(s)
    PROVE  LedgerInv'
<1> USE DEF LedgerInv
<1>0. PICK r, e : r = Mut(s).rec /\ e = NewEntry(s)
  OBVIOUS
<1>1. LockInv'
  BY LockInvNext DEF Next, Step
<1>2. ~Done(s) /\ ~TargetMissing(s) /\ pc[s] = "write"
  BY DEF Write, LockInv, TypeInv, Working
<1>3. r \in Records /\ Canonical(s) \in Rows
  BY <1>0, <1>2, MutType, CanonicalType DEF LockInv, TypeInv, MutationRecords
<1>4. e.id = nextId /\ e.rec = r /\ e.row = Canonical(s) /\ e.base = seen[s]
  BY <1>0 DEF NewEntry
<1>5. /\ UNCHANGED <<row, log>>
      /\ nextId' = nextId + 1
      /\ pending' = [pending EXCEPT ![s] = pending[s] \cup {e}]
      /\ wrote' = [wrote EXCEPT ![s][r] = Canonical(s)]
      /\ pc' = [pc EXCEPT ![s] = "check"]
  BY <1>0 DEF Write, dbVars
<1>6. /\ nextId \in Nat
      /\ \A f \in log : f.id \in Nat
      /\ \A t \in Sessions : \A f \in pending[t] : f.id \in Nat
  BY DEF LockInv, TypeInv, Typed, Entries
<1>7. pending'[s] = pending[s] \cup {e} /\ \A t \in Sessions \ {s} : UNCHANGED pending[t]
  BY <1>5 DEF LockInv, TypeInv, Typed
<1>8. pc'[s] = "check" /\ \A t \in Sessions \ {s} : UNCHANGED pc[t]
  BY <1>5 DEF LockInv, TypeInv, Typed
<1>9. \A t \in Sessions \ {s} : ChainOf(t)'
  BY <1>7, StepUndisturbed, ChainUndisturbed
<1>10. ChainOf(s)'
  <2>1. Own(s, r)' = Own(s, r) \cup {e} /\ \A x \in Records \ {r} : Own(s, x)' = Own(s, x)
    BY <1>4, <1>7 DEF Own
  <2>2. wrote'[s][r] = Canonical(s) /\ \A x \in Records \ {r} : wrote'[s][x] = wrote[s][x]
    BY <1>3, <1>5 DEF LockInv, TypeInv, Typed
  <2>3. Canonical(s) # NoRow
    BY <1>3, PushAssumption
  <2>4. \A f \in Own(s, r) : f.id \in Nat /\ f.id < nextId /\ f.rec = r
    BY <1>6 DEF IdsUsed, Own
  <2>5. BasedOn(s, e)'
    <3>1. CASE wrote[s][r] = NoRow
      <4>1. Own(s, r)' = {e}
        BY <1>2, <1>3, <2>1, <3>1 DEF ChainOf
      <4>2. seen[s] \in {row[r], NoRow}
        BY <1>0, <1>2, <3>1 DEF LockInv, CurrentOf, View
      <4> QED
        BY <1>4, <1>5, <1>6, <4>1, <4>2 DEF BasedOn
    <3>2. CASE wrote[s][r] # NoRow
      <4>1. seen[s] = wrote[s][r]
        BY <1>0, <1>2, <3>2 DEF LockInv, LocksOf, CurrentOf, View
      <4>2. PICK f \in Own(s, r) : f.row = wrote[s][r] /\ \A g \in Own(s, r) : g.id <= f.id
        BY <1>2, <1>3, <3>2 DEF ChainOf
      <4>3. f.id < e.id /\ \A g \in Own(s, r)' : g.id <= f.id \/ g.id >= e.id
        BY <1>4, <1>6, <2>1, <2>4, <4>2
      <4> QED
        BY <1>4, <2>1, <4>1, <4>2, <4>3 DEF BasedOn
    <3> QED
      BY <3>1, <3>2
  <2>6. ASSUME NEW x \in Records, NEW f \in Own(s, x) PROVE BasedOn(s, f)'
    <3>1. BasedOn(s, f) /\ f.rec = x
      BY <1>2, <2>6 DEF ChainOf, Own
    <3>2. CASE x = r
      <4>1. f.id \in Nat /\ f.id < e.id
        BY <1>4, <2>4, <3>2
      <4> QED
        BY <1>4, <1>5, <1>6, <2>1, <3>1, <3>2, <4>1 DEF BasedOn
    <3>3. CASE x # r
      BY <1>5, <2>1, <3>1, <3>3 DEF BasedOn
    <3> QED
      BY <3>2, <3>3
  <2>7. ASSUME NEW x \in Records PROVE \A f \in Own(s, x)' : BasedOn(s, f)'
    BY <1>3, <2>1, <2>5, <2>6
  <2>8. \A f \in Own(s, r)' : f.id <= e.id
    BY <1>4, <1>6, <2>1, <2>4
  <2>9. ASSUME NEW x \in Records, x # r
        PROVE  /\ wrote'[s][x] = NoRow => Own(s, x)' = {}
               /\ wrote'[s][x] # NoRow =>
                     \E f \in Own(s, x)' :
                         f.row = wrote'[s][x] /\ \A g \in Own(s, x)' : g.id <= f.id
    <3>1. Own(s, x)' = Own(s, x) /\ wrote'[s][x] = wrote[s][x]
      BY <2>1, <2>2, <2>9
    <3> QED
      BY <1>2, <3>1 DEF ChainOf
  <2>10. e \in Own(s, r)' /\ e.row = wrote'[s][r] /\ wrote'[s][r] # NoRow
    BY <1>4, <2>1, <2>2, <2>3
  <2> QED
    BY <1>8, <2>7, <2>8, <2>9, <2>10 DEF ChainOf
<1>11. IdsUsed'
  BY <1>4, <1>5, <1>6, <1>7 DEF IdsUsed
<1>12. IdsUnique'
  BY <1>2, <1>4, <1>5, <1>6, <1>7, <1>8 DEF IdsUnique, IdsUsed
<1> QED
  BY <1>1, <1>9, <1>10, <1>11, <1>12

(* tx.Commit moves a transaction's changes to the log. *)
LEMMA LedgerInvCommit ==
    ASSUME LedgerInv, NEW s \in Sessions, Commit(s)
    PROVE  LedgerInv'
<1> USE DEF LedgerInv
<1>1. LockInv'
  BY LockInvNext DEF Next, Step
<1>2. pc[s] = "check" /\ UNCHANGED <<nextId, pending>> /\ log' = log \cup pending[s]
  BY DEF Commit
<1>3. pc'[s] = "committed" /\ \A t \in Sessions \ {s} : UNCHANGED pc[t]
  BY DEF Commit, LockInv, TypeInv, Typed
<1>4. \A r \in Records : wrote'[s][r] = NoRow
  BY DEF Commit, LockInv, TypeInv, Typed
<1>5. \A t \in Sessions : ChainOf(t)'
  <2>1. ChainOf(s)'
    BY <1>3, <1>4 DEF ChainOf
  <2>2. \A t \in Sessions \ {s} : ChainOf(t)'
    BY <1>2, StepUndisturbed, ChainUndisturbed
  <2> QED
    BY <2>1, <2>2
<1>6. IdsUsed'
  BY <1>2 DEF IdsUsed
<1>7. IdsUnique'
  BY <1>2, <1>3 DEF IdsUnique
<1> QED
  BY <1>1, <1>5, <1>6, <1>7

LEMMA LedgerInvBroadcast ==
    ASSUME LedgerInv, NEW s \in Sessions, Broadcast(s)
    PROVE  LedgerInv'
<1> USE DEF LedgerInv
<1>1. LockInv'
  BY LockInvNext DEF Next, Step
<1>2. /\ pc[s] = "committed" /\ pc'[s] = "idle"
      /\ pending'[s] = {}
      /\ UNCHANGED <<log, nextId, wrote>>
  BY DEF Broadcast, LockInv, TypeInv, Typed, dbVars
<1>3. \A t \in Sessions \ {s} : UNCHANGED <<pc[t], pending[t]>>
  BY DEF Broadcast, LockInv, TypeInv, Typed
<1>4. ChainOf(s)'
  BY <1>2 DEF ChainOf, Own
<1>5. \A t \in Sessions \ {s} : ChainOf(t)'
  BY <1>3, StepUndisturbed, ChainUndisturbed
<1>6. (IdsUsed /\ IdsUnique)'
  BY <1>2, <1>3, IdsKept
<1> QED
  BY <1>1, <1>4, <1>5, <1>6

LEMMA LedgerInvNext == LedgerInv /\ [Next]_vars => LedgerInv'
<1> SUFFICES ASSUME LedgerInv, [Next]_vars PROVE LedgerInv'
  OBVIOUS
<1>1. CASE Tick \/ UNCHANGED vars
  <2>1. LockInv'
    BY LockInvNext DEF LedgerInv
  <2>2. UNCHANGED <<row, log, nextId, pc, wrote, pending>>
    BY <1>1 DEF Tick, vars, dbVars, txVars
  <2>3. \A s \in Sessions : ChainOf(s)'
    BY <2>2 DEF LedgerInv, ChainOf, Own, BasedOn
  <2>4. (IdsUsed /\ IdsUnique)'
    BY <2>2, IdsKept
  <2> QED
    BY <2>1, <2>3, <2>4 DEF LedgerInv
<1>2. ASSUME NEW S \in SUBSET Sessions, Rollback(S) PROVE LedgerInv'
  BY <1>2, LedgerInvRollback
<1>3. ASSUME NEW s \in Sessions, Step(s) PROVE LedgerInv'
  BY <1>2, <1>3, LedgerInvLocal, LedgerInvWrite, LedgerInvCommit, LedgerInvBroadcast
     DEF Step, UniqueViolation, DeadlockVictim
<1> QED
  BY <1>1, <1>2, <1>3, LedgerInvLocal DEF Next, Fail, Crash

-----------------------------------------------------------------------------
LEMMA RefinesInit == Init => Ledger!Init
BY DEF Init, Ledger!Init

LEMMA RefinesCommit ==
    ASSUME LedgerInv, NEW s \in Sessions, Commit(s)
    PROVE  Ledger!Transaction
<1>1. Ledger!New = pending[s]
  <2>1. \A e \in pending[s] : e \notin log
    BY DEF LedgerInv, IdsUnique, Commit
  <2> QED
    BY <2>1 DEF Ledger!New, Commit
<1>2. \A r \in Records : Ledger!Of(r) = Own(s, r)
  BY <1>1 DEF Ledger!Of, Own
<1>3. \A e \in Ledger!New : \A f \in log' : e # f => e.id # f.id
  BY <1>1 DEF LedgerInv, IdsUnique, Commit
<1>4. ASSUME NEW r \in Records
      PROVE  /\ \A e \in Ledger!Of(r) : Ledger!StartsFrom(e, r)
             /\ Ledger!Of(r) = {} => row'[r] = row[r]
             /\ \A e \in Ledger!Of(r) : (\A f \in Ledger!Of(r) : f.id <= e.id) => row'[r] = e.row
  <2>1. row'[r] = View(s, r) /\ pc[s] = "check"
    BY DEF Commit
  <2>2. \A e \in Own(s, r) : e.id \in Nat /\ e.rec = r /\ e \in pending[s]
    BY DEF Own, LedgerInv, LockInv, TypeInv, Typed, Entries
  <2>3. ASSUME NEW e \in Own(s, r) PROVE Ledger!StartsFrom(e, r)
    <3>1. BasedOn(s, e) /\ e.rec = r
      BY <2>1, <2>2, <2>3 DEF LedgerInv, ChainOf
    <3> QED
      BY <1>2, <2>2, <3>1 DEF BasedOn, Ledger!StartsFrom, Ledger!Follows
  <2>4. Own(s, r) = {} => row'[r] = row[r]
    BY <2>1 DEF LedgerInv, ChainOf, View
  <2>5. ASSUME NEW e \in Own(s, r), \A f \in Own(s, r) : f.id <= e.id
        PROVE  row'[r] = e.row
    <3>1. wrote[s][r] # NoRow
      BY <2>1, <2>5 DEF LedgerInv, ChainOf
    <3>2. PICK g \in Own(s, r) : g.row = wrote[s][r] /\ \A f \in Own(s, r) : f.id <= g.id
      BY <2>1, <3>1 DEF LedgerInv, ChainOf
    <3>3. g = e
      BY <2>2, <2>5, <3>2 DEF LedgerInv, IdsUnique
    <3> QED
      BY <2>1, <3>1, <3>2, <3>3 DEF View
  <2> QED
    BY <1>2, <2>3, <2>4, <2>5
<1>5. log \subseteq log' /\ processed' = processed \cup {<<e.device, e.mid>> : e \in Ledger!New}
  BY <1>1 DEF Commit, ProcessedView
<1> QED
  BY <1>3, <1>4, <1>5 DEF Ledger!Transaction

LEMMA RefinesNext ==
    LedgerInv /\ [Next]_vars => [Ledger!Transaction]_(Ledger!ledger)
<1> SUFFICES ASSUME LedgerInv, [Next]_vars
             PROVE  Ledger!Transaction \/ UNCHANGED Ledger!ledger
  OBVIOUS
<1>1. ASSUME NEW s \in Sessions, Commit(s) PROVE Ledger!Transaction
  BY <1>1, RefinesCommit
<1>2. ASSUME NEW S \in SUBSET Sessions, Rollback(S) PROVE UNCHANGED Ledger!ledger
  BY <1>2 DEF Rollback, dbVars, Ledger!ledger
<1>3. ASSUME NEW s \in Sessions,
             \/ \E q \in Requests : Begin(s, q)
             \/ SkipProcessed(s) \/ NotProcessed(s) \/ LockRow(s) \/ Conflict(s)
             \/ Accept(s) \/ Write(s) \/ Broadcast(s)
      PROVE  UNCHANGED Ledger!ledger
  BY <1>3 DEF Begin, SkipProcessed, NotProcessed, LockRow, ForUpdate, Conflict, Accept, Write,
              Broadcast, dbVars, Ledger!ledger
<1>4. CASE Tick \/ UNCHANGED vars
  BY <1>4 DEF Tick, vars, dbVars, Ledger!ledger
<1> QED
  BY <1>1, <1>2, <1>3, <1>4 DEF Next, Step, Fail, Crash, UniqueViolation, DeadlockVictim

(* However many handlers run, and however they overlap, fail or repeat     *)
(* requests, the tables, the change log and the processed mutations change *)
(* together, by one whole transaction at a time, and every row written     *)
(* replaces the row its writer had read: Push loses no update, except to   *)
(* an insert of the same id that neither handler could see.                *)
THEOREM PushImplementsLedger == Spec => ImplementsLedger
<1>1. Init => Ledger!Init
  BY RefinesInit
<1>2. Spec => []LedgerInv
  BY LedgerInvInit, LedgerInvNext, PTL DEF Spec
<1> QED
  BY <1>1, <1>2, RefinesNext, PTL DEF Spec, ImplementsLedger, Ledger!Spec
=============================================================================
