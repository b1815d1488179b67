------------------------ MODULE SyncPushConvergence ------------------------
(***************************************************************************)
(* What clients can rely on, for any number of handlers, records and       *)
(* requests: the change log converges to the tables, a retry is applied    *)
(* once, keys of active rows are unique, and what is announced can be      *)
(* pulled.                                                                 *)
(***************************************************************************)
EXTENDS SyncPushProofs, WellFoundedInduction

-----------------------------------------------------------------------------
(* Texts of instants.                                                      *)

LEMMA Smallest ==
    ASSUME NEW T \in SUBSET Nat, T # {}
    PROVE  \E n \in T : \A m \in T : n <= m
<1> DEFINE R == OpToRel(<, Nat)
<1>1. IsWellFoundedOn(R, Nat)
  BY NatLessThanWellFounded
<1>2. PICK n \in T : \A m \in T : <<m, n>> \notin R
  <2> HIDE DEF R
  <2> QED BY <1>1, WFMin
<1>3. ASSUME NEW m \in T PROVE n <= m
  <2>1. m \in Nat /\ n \in Nat
    OBVIOUS
  <2>2. ~(m < n)
    BY <1>2, <2>1 DEF OpToRel
  <2> QED
    BY <2>1, <2>2
<1> QED
  BY <1>3

LEMMA SecOrder ==
    ASSUME NEW a \in Nat, NEW b \in Nat
    PROVE  /\ Sec(a) \in Nat
           /\ a <= b => Sec(a) <= Sec(b)
<1>1. TicksPerSecond \in Nat \ {0}
  BY TimestampAssumption
<1>2. ASSUME NEW d \in Nat \ {0} PROVE a \div d \in Nat /\ (a <= b => a \div d <= b \div d)
  BY SMT
<1> QED
  BY <1>1, <1>2 DEF Sec

LEMMA LastDigitRange ==
    ASSUME NEW t PROVE LastDigit(t) \in 0 .. Digits
<1> DEFINE T == {n \in 0 .. Digits : \A i \in (n + 1) .. Digits : FracDigit(t, i) = 0}
<1>1. Digits \in Nat
  BY TimestampAssumption
<1>2. T \in SUBSET Nat /\ Digits \in T
  BY <1>1
<1>3. PICK n \in T : \A m \in T : n <= m
  <2> HIDE DEF T
  <2> QED
    BY <1>2, Smallest
<1>4. ASSUME n > 0, FracDigit(t, n) = 0 PROVE FALSE
  <2>1. n - 1 \in 0 .. Digits /\ \A i \in n .. Digits : i = n \/ i \in (n + 1) .. Digits
    BY <1>1, <1>4
  <2>2. n - 1 \in T
    BY <1>4, <2>1
  <2> QED
    BY <1>3, <2>2
<1>5. /\ n \in 0 .. Digits
      /\ n > 0 => FracDigit(t, n) # 0
      /\ \A i \in (n + 1) .. Digits : FracDigit(t, i) = 0
  BY <1>4
<1> QED
  BY <1>5 DEF LastDigit

(* A text begins with the second, and has more than that. *)
LEMMA TextShape ==
    ASSUME NEW second, NEW t, NEW n \in Nat, NEW end
    PROVE  /\ 1 \in DOMAIN TextWith(second, t, n, end)
           /\ TextWith(second, t, n, end)[1] = second
<1> DEFINE digits == [i \in 1 .. n |-> DigitChar(FracDigit(t, i))]
           Any == {digits[i] : i \in 1 .. n} \cup {second, Dot, end}
           mid == IF n = 0 THEN <<>> ELSE <<Dot>> \o digits
<1>1. digits \in Seq(Any)
  OBVIOUS
<1>2. <<second>> \in Seq(Any) /\ <<Dot>> \in Seq(Any) /\ <<end>> \in Seq(Any)
  OBVIOUS
<1>3. mid \in Seq(Any)
  <2> HIDE DEF digits, Any
  <2> QED BY <1>1, <1>2
<1>4. TextWith(second, t, n, end) = (<<second>> \o mid) \o <<end>>
  BY DEF TextWith
<1> HIDE DEF mid, Any
<1> QED
  BY <1>2, <1>3, <1>4

(* Comparing texts finds a later second than the one a text shows. *)
LEMMA LaterSecondIsAfter ==
    ASSUME NEW a \in Nat, NEW b \in Texts, Shown(b) < Sec(a)
    PROVE  TextAfter(ServerText(a), b)
<1>1. 1 \in DOMAIN ServerText(a) /\ ServerText(a)[1] = Sec(a)
  BY LastDigitRange, TextShape, TimestampAssumption DEF ServerText
<1>2. 1 \in DOMAIN b /\ b[1] = Shown(b)
  BY DEF Texts, Shown
<1> QED
  BY <1>1, <1>2 DEF TextAfter

-----------------------------------------------------------------------------
(* Announcements.  A handler that has committed announces what it wrote,   *)
(* and nothing leaves the change log.                                      *)
AnnounceInv ==
    /\ AnnouncedAreCommitted
    /\ \A s \in Sessions : pc[s] = "committed" => pending[s] \subseteq log

LEMMA AnnounceNext == TypeInv /\ AnnounceInv /\ [Next]_vars => AnnounceInv'
<1> SUFFICES ASSUME TypeInv, AnnounceInv, [Next]_vars PROVE AnnounceInv'
  OBVIOUS
<1> USE DEF TypeInv, Typed, AnnounceInv, AnnouncedAreCommitted
<1>1. CASE Tick \/ UNCHANGED vars
  BY <1>1 DEF Tick, vars, dbVars, txVars
<1>2. ASSUME NEW s \in Sessions,
             \/ \E q \in Requests : Begin(s, q)
             \/ SkipProcessed(s) \/ NotProcessed(s) \/ LockRow(s) \/ Conflict(s)
             \/ Accept(s) \/ Write(s)
      PROVE  AnnounceInv'
  <2>1. /\ UNCHANGED <<announced, log>> /\ pc[s] # "committed" /\ pc'[s] # "committed"
        /\ \A t \in Sessions \ {s} : UNCHANGED <<pc[t], pending[t]>>
    BY <1>2 DEF Begin, SkipProcessed, NotProcessed, LockRow, ForUpdate, Conflict, Accept, Write,
                dbVars, txVars
  <2> QED
    BY <2>1
<1>3. ASSUME NEW s \in Sessions, Commit(s) PROVE AnnounceInv'
  BY <1>3 DEF Commit
<1>4. ASSUME NEW s \in Sessions, Broadcast(s) PROVE AnnounceInv'
  BY <1>4 DEF Broadcast, dbVars
<1>5. ASSUME NEW S \in SUBSET Sessions, Rollback(S) PROVE AnnounceInv'
  BY <1>5 DEF Rollback, dbVars
<1> QED
  BY <1>1, <1>2, <1>3, <1>4, <1>5 DEF Next, Step, Fail, Crash, UniqueViolation, DeadlockVictim

(* sync.changed is only sent for changes that a pull can already see,      *)
(* however commits and broadcasts of different handlers interleave.        *)
THEOREM AnnouncedSafety == Spec => []AnnouncedAreCommitted
<1>1. Init => AnnounceInv
  BY DEF Init, AnnounceInv, AnnouncedAreCommitted
<1>2. AnnounceInv => AnnouncedAreCommitted
  BY DEF AnnounceInv
<1> QED
  BY <1>1, <1>2, TypeInvInit, TypeInvNext, AnnounceNext, PTL DEF Spec

-----------------------------------------------------------------------------
(* Unique keys.  A handler holds the index entry of every indexed row it   *)
(* has written, and of every one it replaces; what it sees of the   *)
(* tables, its own writes included, never has a key twice.                 *)
Clash(a, b) == Indexed(a) /\ Indexed(b) /\ a.key # NoKey /\ a.key = b.key

KeysOf(s) ==
    /\ \A r \in Records : wrote[s][r] # NoRow =>
          \A k \in IndexKeys(wrote[s][r]) \cup IndexKeys(row[r]) : lock[k] = s
    /\ \A r, t \in Records : r # t => ~Clash(View(s, r), View(s, t))

RowsApart == \A r, t \in Records : r # t => ~Clash(row[r], row[t])

KeyInv ==
    /\ LockInv
    /\ RowsApart
    /\ \A s \in Sessions : KeysOf(s)

LEMMA IndexKeysType ==
    ASSUME NEW r \in Rows \cup {NoRow}
    PROVE  IndexKeys(r) \subseteq Keys
  BY DEF IndexKeys, Indexed, Active, Rows

(* A step that changes no table and takes no lock of a handler.            *)
LEMMA KeysUndisturbed ==
    ASSUME KeyInv, NEW s \in Sessions, UNCHANGED <<row, wrote[s]>>,
           \A k \in Keys : lock[k] = s => lock'[k] = s
    PROVE  KeysOf(s)'
<1>1. \A r \in Records : UNCHANGED <<row[r], wrote[s][r], View(s, r)>>
  BY DEF View
<1>2. \A r \in Records : IndexKeys(wrote[s][r]) \subseteq Keys /\ IndexKeys(row[r]) \subseteq Keys
  BY IndexKeysType DEF KeyInv, LockInv, TypeInv, Typed
<1> QED
  BY <1>1, <1>2 DEF KeyInv, KeysOf

LEMMA KeyInvRollback ==
    ASSUME KeyInv, NEW S \in SUBSET Sessions, Rollback(S)
    PROVE  KeyInv'
<1>1. LockInv' /\ UNCHANGED row /\ RowsApart'
  BY LockInvRollback DEF KeyInv, RowsApart, Rollback, dbVars
<1>2. ASSUME NEW s \in S PROVE KeysOf(s)'
  <2>1. \A r \in Records : wrote'[s][r] = NoRow /\ View(s, r)' = row[r]
    BY <1>1, <1>2 DEF Rollback, View
  <2> QED
    BY <1>1, <2>1 DEF KeysOf, KeyInv, RowsApart, Clash, Indexed, Active
<1>3. ASSUME NEW s \in Sessions \ S PROVE KeysOf(s)'
  <2>1. UNCHANGED wrote[s] /\ \A k \in Keys : lock[k] = s => lock'[k] = s
    BY <1>3 DEF Rollback, Unlocked
  <2> QED
    BY <1>1, <2>1, KeysUndisturbed
<1> QED
  BY <1>1, <1>2, <1>3 DEF KeyInv

(* UpsertRecord: the index entries are locked, and no other row the        *)
(* transaction sees has the key.                                           *)
LEMMA KeyInvWrite ==
    ASSUME KeyInv, NEW s \in Sessions, Write(s)
    PROVE  KeyInv'
<1> DEFINE x == Mut(s).rec
           n == Canonical(s)
<1>1. LockInv' /\ UNCHANGED row /\ RowsApart'
  <2>1. LockInv'
    BY LockInvNext DEF KeyInv, Next, Step
  <2> QED
    BY <2>1 DEF KeyInv, RowsApart, Write, dbVars
<1>2. x \in Records /\ n \in Rows
  BY MutType, CanonicalType DEF KeyInv, LockInv, TypeInv, Working, Write, MutationRecords
<1>3. wrote' = [wrote EXCEPT ![s][x] = n] /\ \A y \in WriteLocks(s) : Free(s, y)
  BY DEF Write
<1>4. lock' = [y \in Records \cup Keys |-> IF y \in WriteLocks(s) THEN s ELSE lock[y]]
  BY DEF Write
<1>5. ASSUME NEW t \in Sessions \ {s} PROVE KeysOf(t)'
  <2>1. UNCHANGED wrote[t]
    BY <1>2, <1>3 DEF KeyInv, LockInv, TypeInv, Typed
  <2>2. \A k \in Keys : lock[k] = t => lock'[k] = t
    BY <1>3, <1>4, PushAssumption DEF Free
  <2> QED
    BY <1>1, <2>1, <2>2, KeysUndisturbed
<1>6. KeysOf(s)'
  <2>1. \A r \in Records : wrote'[s][r] = IF r = x THEN n ELSE wrote[s][r]
    BY <1>2, <1>3 DEF KeyInv, LockInv, TypeInv, Typed
  <2>2. n # NoRow
    BY <1>2, PushAssumption
  <2>3. \A r \in Records : View(s, r)' = IF r = x THEN n ELSE View(s, r)
    BY <1>1, <2>1, <2>2 DEF View
  <2>4. \A k \in Keys : lock[k] = s => lock'[k] = s
    BY <1>4
  <2>5. \A r \in Records : /\ IndexKeys(row[r]) \subseteq Keys
                           /\ IndexKeys(wrote[s][r]) \subseteq Keys
                           /\ IndexKeys(View(s, r)) \subseteq Keys
    BY IndexKeysType, ViewType DEF KeyInv, LockInv, TypeInv, Typed
  <2>6. IndexKeys(n) \subseteq Keys
    BY <1>2, IndexKeysType
  <2>7. \A k \in IndexKeys(n) \cup IndexKeys(row[x]) : lock'[k] = s
    <3>1. \A k \in IndexKeys(n) \cup IndexKeys(View(s, x)) : lock'[k] = s
      BY <1>2, <1>4, <2>5, <2>6 DEF WriteLocks
    <3>2. CASE wrote[s][x] = NoRow
      BY <3>1, <3>2 DEF View
    <3>3. CASE wrote[s][x] # NoRow
      BY <1>2, <2>4, <2>5, <3>1, <3>3 DEF KeyInv, KeysOf
    <3> QED
      BY <3>2, <3>3
  <2>8. \A r \in Records : wrote'[s][r] # NoRow =>
            \A k \in IndexKeys(wrote'[s][r]) \cup IndexKeys(row'[r]) : lock'[k] = s
    BY <1>1, <2>1, <2>4, <2>5, <2>7 DEF KeyInv, KeysOf
  <2>9. \A r \in Records : r # x => ~Clash(View(s, r), n) /\ ~Clash(n, View(s, r))
    BY DEF Write, IndexViolated, KeyTaken, Clash
  <2>10. \A r, t \in Records : r # t => ~Clash(View(s, r)', View(s, t)')
    BY <2>3, <2>9 DEF KeyInv, KeysOf
  <2>11. \A r, t \in Records : r # t => ~Clash(View(s, r), View(s, t))'
    BY <2>10 DEF Clash, Indexed, Active
  <2>12. \A r \in Records : wrote'[s][r] # NoRow =>
            \A k \in IndexKeys(wrote[s][r])' \cup IndexKeys(row[r])' : lock'[k] = s
    BY <2>8 DEF IndexKeys, Indexed, Active
  <2> QED
    BY <2>11, <2>12 DEF KeysOf
<1> QED
  BY <1>1, <1>5, <1>6 DEF KeyInv

(* tx.Commit: what becomes visible does not clash with what others have    *)
(* written, because they hold the locks of their keys.                     *)
LEMMA KeyInvCommit ==
    ASSUME KeyInv, NEW s \in Sessions, Commit(s)
    PROVE  KeyInv'
<1>1. LockInv'
  BY LockInvNext DEF KeyInv, Next, Step
<1>2. \A r \in Records : row'[r] = View(s, r)
  BY DEF Commit
<1>3. \A r, u \in Records : r # u => ~Clash(row'[r], row'[u])
  BY <1>2 DEF KeyInv, KeysOf
<1>4. RowsApart'
  BY <1>3 DEF RowsApart, Clash, Indexed, Active
<1>5. KeysOf(s)'
  <2>1. \A r \in Records : wrote'[s][r] = NoRow /\ View(s, r)' = row'[r]
    BY DEF Commit, View, KeyInv, LockInv, TypeInv, Typed
  <2>2. \A r, u \in Records : r # u => ~Clash(View(s, r)', View(s, u)')
    BY <1>3, <2>1
  <2> QED
    BY <2>1, <2>2 DEF KeysOf, Clash, Indexed, Active
<1>6. ASSUME NEW t \in Sessions \ {s} PROVE KeysOf(t)'
  <2>1. UNCHANGED wrote[t] /\ \A k \in Records \cup Keys : lock[k] = t => lock'[k] = t
    BY DEF Commit, Unlocked, KeyInv, LockInv, TypeInv, Typed
  <2>2. \A r \in Records : wrote[t][r] # NoRow => row'[r] = row[r]
    BY <1>2 DEF KeyInv, LockInv, LocksOf, View
  <2>3. \A r \in Records : /\ IndexKeys(row[r]) \subseteq Keys
                           /\ IndexKeys(wrote[t][r]) \subseteq Keys
    BY IndexKeysType DEF KeyInv, LockInv, TypeInv, Typed
  <2>4. ASSUME NEW r \in Records, wrote'[t][r] # NoRow
        PROVE  \A k \in IndexKeys(wrote[t][r])' \cup IndexKeys(row[r])' : lock'[k] = t
    <3>1. UNCHANGED <<wrote[t][r], row[r]>>
      BY <2>1, <2>2, <2>4
    <3>2. IndexKeys(wrote[t][r])' = IndexKeys(wrote[t][r]) /\ IndexKeys(row[r])' = IndexKeys(row[r])
      BY <3>1 DEF IndexKeys, Indexed, Active
    <3> QED
      BY <2>1, <2>3, <2>4, <3>1, <3>2 DEF KeyInv, KeysOf
  <2>5. \A r \in Records : View(t, r)' = IF wrote[t][r] # NoRow THEN View(t, r) ELSE View(s, r)
    BY <1>2, <2>1 DEF View
  <2>6. ASSUME NEW r \in Records, NEW u \in Records, r # u,
               wrote[t][r] # NoRow, wrote[t][u] = NoRow, wrote[s][u] # NoRow
        PROVE  ~Clash(View(t, r), View(s, u)) /\ ~Clash(View(s, u), View(t, r))
    <3>1. \A k \in IndexKeys(wrote[t][r]) : lock[k] = t
      BY <2>6 DEF KeyInv, KeysOf
    <3>2. \A k \in IndexKeys(wrote[s][u]) : lock[k] = s
      BY <2>6 DEF KeyInv, KeysOf
    <3>3. View(t, r) = wrote[t][r] /\ View(s, u) = wrote[s][u]
      BY <2>6 DEF View
    <3> QED
      BY <3>1, <3>2, <3>3 DEF Clash, IndexKeys
  <2>7. ASSUME NEW r \in Records, NEW u \in Records, r # u,
               wrote[t][r] # NoRow, wrote[t][u] = NoRow, wrote[s][u] = NoRow
        PROVE  ~Clash(View(t, r), View(s, u)) /\ ~Clash(View(s, u), View(t, r))
    <3>1. View(s, u) = View(t, u)
      BY <2>7 DEF View
    <3> QED
      BY <2>7, <3>1 DEF KeyInv, KeysOf
  <2>8. \A r, u \in Records : r # u => ~Clash(View(t, r)', View(t, u)')
    BY <2>5, <2>6, <2>7 DEF KeyInv, KeysOf
  <2>9. \A r, u \in Records : r # u => ~Clash(View(t, r), View(t, u))'
    BY <2>8 DEF Clash, Indexed, Active
  <2> QED
    BY <2>4, <2>9 DEF KeysOf
<1> QED
  BY <1>1, <1>4, <1>5, <1>6 DEF KeyInv

LEMMA KeyInvNext == KeyInv /\ [Next]_vars => KeyInv'
<1> SUFFICES ASSUME KeyInv, [Next]_vars PROVE KeyInv'
  OBVIOUS
<1>1. LockInv'
  BY LockInvNext DEF KeyInv
<1>2. ASSUME UNCHANGED <<row, wrote>>,
             \A s \in Sessions : \A k \in Keys : lock[k] = s => lock'[k] = s
      PROVE  KeyInv'
  BY <1>1, <1>2, KeysUndisturbed DEF KeyInv, RowsApart
<1>3. CASE Tick \/ UNCHANGED vars
  BY <1>2, <1>3 DEF Tick, vars, dbVars, txVars
<1>4. ASSUME NEW s \in Sessions, LockRow(s) PROVE KeyInv'
  <2>1. Mut(s).rec \in Records
    BY <1>4, MutType DEF KeyInv, LockInv, TypeInv, Working, LockRow, ForUpdate, MutationRecords
  <2>2. \A k \in Keys : lock'[k] = lock[k]
    BY <1>4, <2>1, PushAssumption DEF LockRow, ForUpdate, KeyInv, LockInv, TypeInv, Typed
  <2> QED
    BY <1>2, <1>4, <2>2 DEF LockRow, ForUpdate, dbVars
<1>5. ASSUME NEW s \in Sessions,
             \/ \E q \in Requests : Begin(s, q)
             \/ SkipProcessed(s) \/ NotProcessed(s) \/ Conflict(s) \/ Accept(s) \/ Broadcast(s)
      PROVE  KeyInv'
  BY <1>2, <1>5 DEF Begin, SkipProcessed, NotProcessed, Conflict, Accept, Broadcast, dbVars, txVars
<1>6. ASSUME NEW S \in SUBSET Sessions, Rollback(S) PROVE KeyInv'
  BY <1>6, KeyInvRollback
<1> QED
  BY <1>3, <1>4, <1>5, <1>6, KeyInvWrite, KeyInvCommit
     DEF Next, Step, Fail, Crash, UniqueViolation, DeadlockVictim

(* No two active rows have the same unique key, for any number of handlers *)
(* and records: handlers look for duplicates without a lock, and it is the *)
(* lock of the index entry that decides between two that found none.       *)
THEOREM UniqueKeysSafety == Spec => []UniqueActiveKeys
<1>1. Init => KeyInv
  BY LockInvInit DEF Init, KeyInv, RowsApart, KeysOf, View, Clash, Indexed, Active
<1>2. KeyInv => UniqueActiveKeys
  BY DEF KeyInv, RowsApart, Clash, Indexed, UniqueActiveKeys
<1> QED
  BY <1>1, <1>2, KeyInvNext, PTL DEF Spec

-----------------------------------------------------------------------------
(* Convergence.  A change-log row carries the version of the row it made,  *)
(* and a pushed one was edited no earlier than the second of the row it    *)
(* replaced: that is what the comparison of texts achieves.                *)
Stems(e) ==
    \E q \in Requests : \E i \in 1 .. Len(q.muts) :
        /\ e.device = q.device
        /\ e.mid = q.muts[i].id /\ e.text = q.muts[i].text /\ e.rec = q.muts[i].rec

EntryOK(e) ==
    /\ Stems(e)
    /\ e.row.ver = e.ts
    /\ e.api = "sync" /\ e.base # NoRow => Sec(e.base.ver) <= Shown(e.text)

(* The first change of a record is an insert, and with orderly edits and   *)
(* no raced insert the last one made the row the table holds.              *)
HistoryOK(r) ==
    /\ row[r] = NoRow <=> History(r) = {}
    /\ History(r) # {} => \E e \in History(r) : e.base = NoRow
    /\ History(r) # {} /\ OrderlyEdits(r) /\ ~RacedInsert(r) =>
          \E l \in History(r) : IsLast(l, r) /\ row[r] = l.row

WorkOK(s) ==
    /\ pc[s] = "idle" => pending[s] = {}
    /\ pc[s] = "write" => ~Stale(s)
    /\ \A e \in pending[s] : EntryOK(e) /\ e.ts = now[s]

FeedInv ==
    /\ LedgerInv
    /\ \A e \in log : EntryOK(e)
    /\ \A s \in Sessions : WorkOK(s)
    /\ \A r \in Records : HistoryOK(r)

LEMMA EntryType ==
    ASSUME NEW e \in Entries
    PROVE  /\ e.id \in Nat /\ e.ts \in Nat /\ e.rec \in Records
           /\ e.text \in Texts /\ Shown(e.text) \in Int
           /\ e.row \in Rows /\ e.row.ver \in Nat
           /\ e.base # NoRow => e.base \in Rows /\ e.base.ver \in Nat
  BY DEF Entries, Rows, Texts, Shown

(* The row an accepted push writes passes what EntryOK asks of it.         *)
LEMMA NewEntryOK ==
    ASSUME LedgerInv, NEW s \in Sessions, pc[s] = "write", ~Stale(s)
    PROVE  EntryOK(NewEntry(s)) /\ NewEntry(s).ts = now[s]
<1> DEFINE e == NewEntry(s)
<1>1. ~Done(s) /\ ~TargetMissing(s) /\ Typed
  BY DEF LedgerInv, LockInv, TypeInv, Working
<1>2. /\ req[s] \in Requests /\ pos[s] \in 1 .. Len(req[s].muts)
      /\ Mut(s) \in MutationRecords /\ req[s].api \in Apis
  <2>1. req[s] \in Requests /\ pos[s] \in Nat \ {0}
    BY <1>1 DEF Typed
  <2>2. Len(req[s].muts) \in Nat
    BY <2>1, PushAssumption
  <2> QED
    BY <1>1, <2>1, <2>2, MutType DEF Done
<1>3. Stems(e)
  BY <1>2 DEF Stems, NewEntry, Mut
<1>4. e.row.ver = e.ts /\ e.ts = now[s]
  BY DEF NewEntry, Canonical
<1>5. ASSUME e.api = "sync", e.base # NoRow PROVE Sec(e.base.ver) <= Shown(e.text)
  <2>1. e.base = seen[s] /\ e.text = Mut(s).text /\ req[s].api = "sync"
    BY <1>5 DEF NewEntry
  <2>2. seen[s].ver \in Nat /\ Mut(s).text \in Texts
    BY <1>1, <1>2, <1>5, <2>1 DEF Typed, Rows, MutationRecords
  <2>3. ~TextAfter(ServerText(seen[s].ver), Mut(s).text)
    BY <1>5, <2>1 DEF Stale
  <2>4. ~(Shown(Mut(s).text) < Sec(seen[s].ver))
    BY <2>2, <2>3, LaterSecondIsAfter
  <2>5. Shown(Mut(s).text) \in Int /\ Sec(seen[s].ver) \in Nat
    BY <2>2, SecOrder DEF Texts, Shown
  <2> QED
    BY <2>1, <2>4, <2>5
<1> QED
  BY <1>3, <1>4, <1>5 DEF EntryOK

(* Nothing changes in the log or the tables. *)
LEMMA HistoryUnchanged ==
    ASSUME NEW r \in Records, HistoryOK(r), UNCHANGED <<row, log>>
    PROVE  HistoryOK(r)'
  BY DEF HistoryOK, History, OrderlyEdits, RacedInsert, IsLast, Before

LEMMA WorkUndisturbed ==
    ASSUME NEW s \in Sessions, WorkOK(s), UNCHANGED <<pc[s], req[s], pos[s], seen[s], now[s], pending[s]>>
    PROVE  WorkOK(s)'
  BY DEF WorkOK, Stale, Mut

(* What a commit adds to the history of a record. *)
LEMMA CommitHistory ==
    ASSUME LedgerInv, NEW s \in Sessions, Commit(s), NEW r \in Records
    PROVE  /\ History(r)' = History(r) \cup Own(s, r)
           /\ Own(s, r) = {} <=> wrote[s][r] = NoRow
           /\ row'[r] = IF wrote[s][r] = NoRow THEN row[r] ELSE wrote[s][r]
           /\ \A e \in Own(s, r) : e \in Entries /\ e.rec = r /\ BasedOn(s, e)
           /\ \A e \in Own(s, r), f \in History(r) : e # f
<1>1. pc[s] = "check" /\ ChainOf(s) /\ Typed
  BY DEF LedgerInv, LockInv, TypeInv, Commit
<1>2. History(r)' = History(r) \cup Own(s, r)
  BY DEF History, Own, Commit
<1>3. Own(s, r) = {} <=> wrote[s][r] = NoRow
  BY <1>1 DEF ChainOf
<1>4. row'[r] = IF wrote[s][r] = NoRow THEN row[r] ELSE wrote[s][r]
  BY DEF Commit, View
<1>5. \A e \in Own(s, r) : e \in Entries /\ e.rec = r /\ BasedOn(s, e)
  BY <1>1 DEF ChainOf, Own, Typed
<1>6. \A e \in Own(s, r), f \in History(r) : e # f
  BY <1>1 DEF LedgerInv, IdsUnique, Own, History
<1> QED
  BY <1>2, <1>3, <1>4, <1>5, <1>6

(* Under orderly edits a transaction changes a record once, and what it    *)
(* replaces is the committed row, of an earlier second.                    *)
LEMMA OrderlyCommit ==
    ASSUME FeedInv, NEW s \in Sessions, Commit(s), NEW r \in Records,
           OrderlyEdits(r)', ~RacedInsert(r)', NEW g \in Own(s, r)
    PROVE  /\ Own(s, r) = {g}
           /\ row'[r] = g.row /\ g.row.ver = g.ts
           /\ \/ g.base = NoRow /\ History(r) = {}
              \/ /\ g.base = row[r] /\ row[r] # NoRow
                 /\ Sec(row[r].ver) <= Shown(g.text) /\ Shown(g.text) < Sec(g.ts)
<1> DEFINE own == Own(s, r)
<1>1. /\ History(r)' = History(r) \cup own
      /\ row'[r] = wrote[s][r] /\ wrote[s][r] # NoRow
      /\ \A e \in own : e \in Entries /\ e.rec = r /\ BasedOn(s, e)
      /\ \A e \in own, f \in History(r) : e # f
  BY CommitHistory DEF FeedInv
<1>2. \A e \in own : e.api = "sync" /\ Shown(e.text) < Sec(e.ts)
  BY <1>1 DEF OrderlyEdits
<1>3. \A e \in own : EntryOK(e) /\ e.ts = now[s]
  BY DEF FeedInv, WorkOK, Own
<1>4. ASSUME NEW e \in own, NEW f \in own PROVE e.base # f.row
  <2>1. SUFFICES ASSUME e.base = f.row PROVE FALSE
    OBVIOUS
  <2>2. e.base # NoRow
    BY <1>1, <2>1, EntryType, PushAssumption
  <2>3. Sec(e.ts) <= Shown(e.text)
    BY <1>2, <1>3, <2>1, <2>2 DEF EntryOK
  <2>4. Sec(e.ts) \in Nat /\ Shown(e.text) \in Int
    BY <1>1, EntryType, SecOrder
  <2> QED
    BY <1>2, <2>3, <2>4
<1>5. \A e \in own : (\A f \in own : e.id <= f.id) /\ e.base \in {row[r], NoRow}
  BY <1>1, <1>4 DEF BasedOn
<1>6. \A e \in own : e = g
  <2>1. \A e \in own : e.id = g.id
    BY <1>1, <1>5, EntryType
  <2> QED
    BY <2>1 DEF Own, FeedInv, LedgerInv, IdsUnique
<1>7. row'[r] = g.row
  BY <1>1, <1>6 DEF FeedInv, LedgerInv, ChainOf, Commit
<1>8. ASSUME g.base = NoRow PROVE History(r) = {}
  <2>1. SUFFICES ASSUME History(r) # {} PROVE FALSE
    OBVIOUS
  <2>2. PICK e \in History(r) : e.base = NoRow
    BY <2>1 DEF FeedInv, HistoryOK
  <2> QED
    BY <1>1, <1>8, <2>2 DEF RacedInsert
<1>9. ASSUME g.base # NoRow
      PROVE  /\ g.base = row[r] /\ row[r] # NoRow
             /\ Sec(row[r].ver) <= Shown(g.text) /\ Shown(g.text) < Sec(g.ts)
  BY <1>2, <1>3, <1>5, <1>9 DEF EntryOK
<1> QED
  BY <1>3, <1>6, <1>7, <1>8, <1>9 DEF EntryOK

LEMMA HistoryCommit ==
    ASSUME FeedInv, NEW s \in Sessions, Commit(s), NEW r \in Records
    PROVE  HistoryOK(r)'
<1> DEFINE own == Own(s, r)
<1>1. /\ History(r)' = History(r) \cup own
      /\ own = {} <=> wrote[s][r] = NoRow
      /\ row'[r] = IF wrote[s][r] = NoRow THEN row[r] ELSE wrote[s][r]
      /\ \A e \in own : e \in Entries /\ e.rec = r /\ BasedOn(s, e)
      /\ HistoryOK(r)
  BY CommitHistory DEF FeedInv
<1>2. CASE own = {}
  <2>1. UNCHANGED <<History(r), row[r]>>
    BY <1>1, <1>2
  <2> QED
    BY <1>1, <2>1 DEF HistoryOK, OrderlyEdits, RacedInsert, IsLast, Before
<1>3. CASE own # {}
  <2>1. row'[r] # NoRow /\ History(r)' # {}
    BY <1>1, <1>3
  <2>2. \E e \in History(r)' : e.base = NoRow
    <3>1. CASE History(r) # {}
      BY <1>1, <3>1 DEF HistoryOK
    <3>2. CASE History(r) = {}
      <4> DEFINE ids == {e.id : e \in own}
      <4>1. ids \in SUBSET Nat /\ ids # {}
        BY <1>1, <1>3, EntryType
      <4>2. PICK i \in ids : \A j \in ids : i <= j
        <5> HIDE DEF ids
        <5> QED
          BY <4>1, Smallest
      <4>3. PICK e \in own : e.id = i
        OBVIOUS
      <4>4. ASSUME NEW f \in own PROVE ~(f.id < e.id)
        <5>1. f.id \in ids
          OBVIOUS
        <5>2. f.id \in Nat /\ e.id \in Nat /\ e.id <= f.id
          BY <4>1, <4>2, <4>3, <5>1
        <5> QED
          BY <5>2
      <4>5. e.base \in {row[r], NoRow}
        BY <1>1, <4>4 DEF BasedOn
      <4> QED
        BY <1>1, <3>2, <4>5 DEF HistoryOK
    <3> QED
      BY <3>1, <3>2
  <2>3. ASSUME OrderlyEdits(r)', ~RacedInsert(r)'
        PROVE  \E l \in History(r)' : IsLast(l, r)' /\ row'[r] = l.row
    <3>1. PICK g \in own : TRUE
      BY <1>3
    <3>2. /\ own = {g} /\ row'[r] = g.row
          /\ \/ g.base = NoRow /\ History(r) = {}
             \/ /\ g.base = row[r] /\ row[r] # NoRow
                /\ Sec(row[r].ver) <= Shown(g.text) /\ Shown(g.text) < Sec(g.ts)
      BY <2>3, <3>1, OrderlyCommit
    <3>3. \A f \in History(r) : Before(f, g)
      <4> SUFFICES ASSUME NEW f \in History(r) PROVE Before(f, g)
        OBVIOUS
      <4>1. row[r] # NoRow /\ Sec(row[r].ver) <= Shown(g.text) /\ Shown(g.text) < Sec(g.ts)
        BY <3>2
      <4>2. OrderlyEdits(r) /\ ~RacedInsert(r)
        BY <1>1, <2>3 DEF OrderlyEdits, RacedInsert
      <4>3. PICK l \in History(r) : IsLast(l, r) /\ row[r] = l.row
        BY <1>1, <4>2 DEF HistoryOK
      <4>4. l \in log /\ f \in log /\ g \in Entries
        BY <1>1, <3>1, <4>3 DEF History
      <4>5. l \in Entries /\ f \in Entries /\ l.row.ver = l.ts
        BY <4>4 DEF FeedInv, LedgerInv, LockInv, TypeInv, Typed, EntryOK
      <4>6. /\ l.ts \in Nat /\ f.ts \in Nat /\ g.ts \in Nat
            /\ Sec(l.ts) \in Nat /\ Shown(g.text) \in Int /\ Sec(g.ts) \in Nat
        BY <4>4, <4>5, EntryType, SecOrder
      <4>7. Sec(l.ts) < Sec(g.ts)
        BY <4>1, <4>3, <4>5, <4>6
      <4>8. l.ts < g.ts
        <5>1. g.ts <= l.ts => Sec(g.ts) <= Sec(l.ts)
          BY <4>6, SecOrder
        <5> QED
          BY <4>6, <4>7, <5>1
      <4>9. f.ts <= l.ts
        BY <4>3, <4>6 DEF IsLast, Before
      <4> QED
        BY <4>6, <4>8, <4>9 DEF Before
    <3>4. \A f \in History(r)' : f = g \/ Before(f, g)
      BY <1>1, <3>2, <3>3
    <3>5. IsLast(g, r)'
      BY <1>1, <3>1, <3>4 DEF IsLast, Before
    <3> QED
      BY <1>1, <3>1, <3>2, <3>5
  <2> QED
    BY <2>1, <2>2, <2>3 DEF HistoryOK
<1> QED
  BY <1>2, <1>3

LEMMA FeedInvInit == Init => FeedInv
<1> SUFFICES ASSUME Init PROVE FeedInv
  OBVIOUS
<1>1. LedgerInv
  BY LedgerInvInit
<1>2. \A r \in Records : HistoryOK(r)
  BY DEF Init, HistoryOK, History
<1>3. \A s \in Sessions : WorkOK(s)
  BY DEF Init, WorkOK
<1> QED
  BY <1>1, <1>2, <1>3 DEF Init, FeedInv

(* A step that commits nothing keeps FeedInv when it keeps it for the      *)
(* handlers that make it.                                                  *)
LEMMA FeedInvLocal ==
    ASSUME FeedInv, [Next]_vars, UNCHANGED <<row, log>>, \A s \in Sessions : WorkOK(s)'
    PROVE  FeedInv'
<1>1. LedgerInv'
  BY LedgerInvNext DEF FeedInv
<1>2. \A r \in Records : HistoryOK(r)'
  BY HistoryUnchanged DEF FeedInv
<1>3. \A e \in log' : EntryOK(e)'
  BY DEF FeedInv, EntryOK, Stems
<1> QED
  BY <1>1, <1>2, <1>3 DEF FeedInv

LEMMA FeedInvNext == FeedInv /\ [Next]_vars => FeedInv'
<1> SUFFICES ASSUME FeedInv, [Next]_vars PROVE FeedInv'
  OBVIOUS
<1>1. Typed /\ \A s \in Sessions : WorkOK(s)
  BY DEF FeedInv, LedgerInv, LockInv, TypeInv
<1>2. ASSUME NEW s \in Sessions, WorkOK(s)', UNCHANGED <<row, log>>,
             \A t \in Sessions \ {s} :
                 UNCHANGED <<pc[t], req[t], pos[t], seen[t], now[t], pending[t]>>
      PROVE  FeedInv'
  BY <1>1, <1>2, WorkUndisturbed, FeedInvLocal
<1>3. CASE Tick \/ UNCHANGED vars
  <2>1. UNCHANGED <<row, log, pc, req, pos, seen, now, pending>>
    BY <1>3 DEF Tick, vars, dbVars, txVars
  <2> QED
    BY <1>1, <2>1, WorkUndisturbed, FeedInvLocal
<1>4. ASSUME NEW s \in Sessions, NEW q \in Requests, Begin(s, q) PROVE FeedInv'
  <2>1. WorkOK(s)'
    BY <1>1, <1>4 DEF Begin, WorkOK, Typed
  <2> QED
    BY <1>1, <1>2, <1>4, <2>1 DEF Begin, Typed, dbVars
<1>5. ASSUME NEW s \in Sessions, SkipProcessed(s) \/ NotProcessed(s) \/ LockRow(s) \/ Conflict(s)
      PROVE  FeedInv'
  <2>1. /\ UNCHANGED <<row, log, pending, now>> /\ pc'[s] \in {"check", "lock", "decide"}
        /\ \A t \in Sessions \ {s} : UNCHANGED <<pc[t], req[t], pos[t], seen[t]>>
    BY <1>1, <1>5 DEF SkipProcessed, NotProcessed, LockRow, ForUpdate, Conflict, Typed, dbVars, txVars
  <2>2. WorkOK(s)'
    BY <1>1, <2>1 DEF WorkOK, EntryOK, Stems
  <2> QED
    BY <1>2, <2>1, <2>2
<1>6. ASSUME NEW s \in Sessions, Accept(s) PROVE FeedInv'
  <2>1. /\ UNCHANGED <<row, log, pending, now, req, pos, seen>> /\ pc'[s] = "write" /\ ~Stale(s)
        /\ \A t \in Sessions \ {s} : UNCHANGED pc[t]
    BY <1>1, <1>6 DEF Accept, Refused, Typed, dbVars, txVars
  <2>2. WorkOK(s)'
    BY <1>1, <2>1 DEF WorkOK, EntryOK, Stems, Stale, Mut
  <2> QED
    BY <1>2, <2>1, <2>2
<1>7. ASSUME NEW s \in Sessions, Write(s) PROVE FeedInv'
  <2>1. /\ UNCHANGED <<row, log, now, req>> /\ pc'[s] = "check" /\ pc[s] = "write"
        /\ pending'[s] = pending[s] \cup {NewEntry(s)}
        /\ \A t \in Sessions \ {s} : UNCHANGED <<pc[t], pos[t], seen[t], pending[t]>>
    BY <1>1, <1>7 DEF Write, Typed, dbVars
  <2>2. EntryOK(NewEntry(s)) /\ NewEntry(s).ts = now[s]
    BY <1>1, <2>1, NewEntryOK DEF FeedInv, WorkOK
  <2>3. \A e \in pending'[s] : EntryOK(e) /\ e.ts = now'[s]
    BY <1>1, <2>1, <2>2 DEF WorkOK
  <2>4. WorkOK(s)'
    BY <2>1, <2>3 DEF WorkOK
  <2> QED
    BY <1>2, <2>1, <2>4
<1>8. ASSUME NEW s \in Sessions, Commit(s) PROVE FeedInv'
  <2>1. /\ UNCHANGED <<now, req, pos, seen, pending>> /\ pc'[s] = "committed"
        /\ \A t \in Sessions \ {s} : UNCHANGED pc[t]
        /\ log' = log \cup pending[s]
    BY <1>1, <1>8 DEF Commit, Typed
  <2>2. WorkOK(s)'
    BY <1>1, <2>1 DEF WorkOK, EntryOK, Stems
  <2>3. \A t \in Sessions \ {s} : WorkOK(t)'
    BY <1>1, <2>1, WorkUndisturbed
  <2>4. \A e \in log' : EntryOK(e)
    BY <1>1, <2>1 DEF FeedInv, WorkOK
  <2>5. \A r \in Records : HistoryOK(r)'
    BY <1>8, HistoryCommit
  <2>6. LedgerInv'
    BY LedgerInvNext DEF FeedInv
  <2> QED
    BY <2>2, <2>3, <2>4, <2>5, <2>6 DEF FeedInv
<1>9. ASSUME NEW s \in Sessions, Broadcast(s) PROVE FeedInv'
  <2>1. /\ UNCHANGED <<row, log, seen>> /\ pc'[s] = "idle" /\ pending'[s] = {}
        /\ \A t \in Sessions \ {s} : UNCHANGED <<pc[t], req[t], pos[t], now[t], pending[t]>>
    BY <1>1, <1>9 DEF Broadcast, Typed, dbVars
  <2>2. WorkOK(s)'
    BY <2>1 DEF WorkOK
  <2> QED
    BY <1>2, <2>1, <2>2
<1>10. ASSUME NEW S \in SUBSET Sessions, Rollback(S) PROVE FeedInv'
  <2>1. UNCHANGED <<row, log>>
    BY <1>10 DEF Rollback, dbVars
  <2>2. \A s \in S : WorkOK(s)'
    BY <1>10 DEF Rollback, WorkOK
  <2>3. \A s \in Sessions \ S : WorkOK(s)'
    BY <1>1, <1>10, WorkUndisturbed DEF Rollback
  <2> QED
    BY <2>1, <2>2, <2>3, FeedInvLocal
<1> QED
  BY <1>3, <1>4, <1>5, <1>6, <1>7, <1>8, <1>9, <1>10
     DEF Next, Step, Fail, Crash, UniqueViolation, DeadlockVictim

LEMMA FeedSafety == Spec => []FeedInv
  BY FeedInvInit, FeedInvNext, PTL DEF Spec

(* A client that applies the change log in the order Pull delivers it ends *)
(* with the rows of the tables, whatever the order of the commits: for     *)
(* records edited before the second of their push, and inserted once.      *)
THEOREM FeedConvergesSafety == Spec => []FeedConverges
<1>1. FeedInv => FeedConverges
  <2> SUFFICES ASSUME FeedInv, NEW r \in Records, OrderlyEdits(r), ~RacedInsert(r),
                      NEW e \in History(r), IsLast(e, r)
               PROVE  row[r] = e.row
    BY DEF FeedConverges
  <2>1. PICK l \in History(r) : IsLast(l, r) /\ row[r] = l.row
    BY DEF FeedInv, HistoryOK
  <2>2. e \in Entries /\ l \in Entries
    BY DEF History, FeedInv, LedgerInv, LockInv, TypeInv, Typed
  <2>3. e = l
    BY <2>1, <2>2, EntryType DEF IsLast, Before
  <2> QED
    BY <2>1, <2>3
<1> QED
  BY <1>1, FeedSafety, PTL

-----------------------------------------------------------------------------
(* Retries.  A device gives every mutation an id of its own; what it sends *)
(* again is the same mutation.                                             *)
MutationsNamed ==
    \A p, q \in Requests : p.device = q.device =>
        \A i \in 1 .. Len(p.muts) : \A j \in 1 .. Len(q.muts) :
            p.muts[i].id = q.muts[j].id => p.muts[i] = q.muts[j]

LEMMA SameMutation ==
    ASSUME MutationsNamed, NEW e, NEW f, Stems(e), Stems(f), e.device = f.device, e.mid = f.mid
    PROVE  e.text = f.text /\ e.rec = f.rec
  BY DEF MutationsNamed, Stems

(* The second of two transactions that apply the same mutation has seen    *)
(* what the first has written, of a second after the edit, and refuses.    *)
LEMMA NotAppliedAgain ==
    ASSUME MutationsNamed, FeedInv, NEW s \in Sessions, Commit(s),
           NEW e \in log, NEW f \in pending[s], e.device = f.device, e.mid = f.mid,
           OrderlyEdits(e.rec)', ~RacedInsert(e.rec)'
    PROVE  FALSE
<1> DEFINE r == e.rec
<1>1. e \in Entries /\ f \in Entries /\ EntryOK(e) /\ EntryOK(f) /\ e \in History(r) /\ r \in Records
  BY EntryType DEF FeedInv, LedgerInv, LockInv, TypeInv, Typed, WorkOK, History
<1>2. f.text = e.text /\ f.rec = r
  BY <1>1, SameMutation DEF EntryOK
<1>3. f \in Own(s, r)
  BY <1>2 DEF Own
<1>4. row[r] # NoRow /\ Sec(row[r].ver) <= Shown(f.text)
  BY <1>1, <1>3, OrderlyCommit
<1>5. History(r)' = History(r) \cup Own(s, r)
  BY <1>1, CommitHistory DEF FeedInv
<1>6. OrderlyEdits(r) /\ ~RacedInsert(r)
  BY <1>5 DEF OrderlyEdits, RacedInsert
<1>7. PICK l \in History(r) : IsLast(l, r) /\ row[r] = l.row
  BY <1>1, <1>6 DEF FeedInv, HistoryOK
<1>8. l \in Entries /\ l.row.ver = l.ts
  BY DEF History, FeedInv, LedgerInv, LockInv, TypeInv, Typed, EntryOK
<1>9. e.ts <= l.ts
  BY <1>1, <1>7, <1>8, EntryType DEF IsLast, Before
<1>10. /\ Sec(e.ts) <= Sec(l.ts) /\ Sec(e.ts) \in Nat /\ Sec(l.ts) \in Nat /\ Shown(e.text) \in Int
  BY <1>1, <1>8, <1>9, EntryType, SecOrder
<1>11. Shown(e.text) < Sec(e.ts)
  BY <1>1, <1>6 DEF OrderlyEdits
<1> QED
  BY <1>2, <1>4, <1>7, <1>8, <1>10, <1>11

LEMMA AppliedOnceNext ==
    ASSUME MutationsNamed
    PROVE  FeedInv /\ AppliedOnce /\ [Next]_vars => AppliedOnce'
<1> SUFFICES ASSUME FeedInv, AppliedOnce, [Next]_vars PROVE AppliedOnce'
  OBVIOUS
<1>1. CASE UNCHANGED log
  BY <1>1 DEF AppliedOnce, OrderlyEdits, RacedInsert, History
<1>2. ASSUME NEW s \in Sessions, Commit(s) PROVE AppliedOnce'
  <2> SUFFICES ASSUME NEW e \in log', NEW f \in log', e.device = f.device, e.mid = f.mid,
                      OrderlyEdits(e.rec)', ~RacedInsert(e.rec)'
               PROVE  e = f
    BY DEF AppliedOnce
  <2> DEFINE r == e.rec
  <2>1. log' = log \cup pending[s]
    BY <1>2 DEF Commit
  <2>2. e \in Entries /\ EntryOK(e) /\ EntryOK(f)
    BY <2>1 DEF FeedInv, LedgerInv, LockInv, TypeInv, Typed, WorkOK
  <2>3. r \in Records /\ f.rec = r
    BY <2>2, SameMutation, EntryType DEF EntryOK
  <2>4. CASE e \in log /\ f \in log
    <3>1. History(r)' = History(r) \cup Own(s, r)
      BY <1>2, <2>3, CommitHistory DEF FeedInv
    <3>2. OrderlyEdits(r) /\ ~RacedInsert(r)
      BY <3>1 DEF OrderlyEdits, RacedInsert
    <3> QED
      BY <2>4, <3>2 DEF AppliedOnce
  <2>5. CASE e \in log /\ f \in pending[s]
    BY <1>2, <2>5, NotAppliedAgain
  <2>6. CASE e \in pending[s] /\ f \in log
    BY <1>2, <2>3, <2>6, NotAppliedAgain
  <2>7. CASE e \in pending[s] /\ f \in pending[s]
    <3>1. e \in Own(s, r) /\ f \in Own(s, r)
      BY <2>3, <2>7 DEF Own
    <3> QED
      BY <1>2, <2>3, <3>1, OrderlyCommit
  <2> QED
    BY <2>1, <2>4, <2>5, <2>6, <2>7
<1>3. ASSUME NEW S \in SUBSET Sessions, Rollback(S) PROVE UNCHANGED log
  BY <1>3 DEF Rollback, dbVars
<1>4. ASSUME NEW s \in Sessions,
             \/ \E q \in Requests : Begin(s, q)
             \/ SkipProcessed(s) \/ NotProcessed(s) \/ LockRow(s) \/ Conflict(s)
             \/ Accept(s) \/ Write(s) \/ Broadcast(s)
      PROVE  UNCHANGED log
  BY <1>4 DEF Begin, SkipProcessed, NotProcessed, LockRow, ForUpdate, Conflict, Accept, Write,
              Broadcast, dbVars
<1>5. CASE Tick \/ UNCHANGED vars
  BY <1>1, <1>5 DEF Tick, vars, dbVars
<1> QED
  BY <1>1, <1>2, <1>3, <1>4, <1>5 DEF Next, Step, Fail, Crash, UniqueViolation, DeadlockVictim

(* A mutation that is sent again is applied once, also when the retry      *)
(* overtakes the first attempt: when clients name their mutations, and for *)
(* records edited before the second of their push and inserted once.       *)
THEOREM AppliedOnceSafety ==
    ASSUME MutationsNamed
    PROVE  Spec => []AppliedOnce
<1>1. Init => AppliedOnce
  BY DEF Init, AppliedOnce
<1>2. FeedInv /\ AppliedOnce /\ [Next]_vars => AppliedOnce'
  BY AppliedOnceNext
<1> QED
  BY <1>1, <1>2, FeedSafety, PTL DEF Spec
=============================================================================
