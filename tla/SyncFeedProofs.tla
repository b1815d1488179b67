--------------------------- MODULE SyncFeedProofs ---------------------------
(***************************************************************************)
(* Theorems about pushes and pulls together, for any number of handlers,   *)
(* clients, records and requests, and any limit.                           *)
(***************************************************************************)
EXTENDS SyncFeed, SyncPushConvergence, FiniteSetTheorems

(* The Cardinality the pull handlers use. *)
LEMMA PullCardinality == ASSUME NEW S PROVE Pull!Cardinality(S) = Cardinality(S)
  BY Zenon DEF Pull!Cardinality, Cardinality

Positions == [ts : Nat, id : Nat]
IsPosition(p) == p.ts \in Nat /\ p.id \in Nat

(* The order of the change log. *)
LEMMA BeforeOrder ==
    ASSUME NEW p, NEW q, NEW r, IsPosition(p), IsPosition(q), IsPosition(r)
    PROVE  /\ ~Pull!Before(p, p)
           /\ Pull!Before(p, q) => ~Pull!Before(q, p)
           /\ Pull!Before(p, q) /\ Pull!Before(q, r) => Pull!Before(p, r)
           /\ ~Pull!Before(p, q) /\ ~Pull!Before(q, p) => p.ts = q.ts /\ p.id = q.id
  BY DEF IsPosition, Pull!Before

(* Change-log rows are finitely many, with ids of their own. *)
LogFinite ==
    /\ IsFiniteSet(log)
    /\ \A s \in Sessions : IsFiniteSet(pending[s])

RowsOf(S) ==
    /\ IsFiniteSet(S)
    /\ \A e \in S : IsPosition(e)
    /\ \A e, f \in S : e.id = f.id => e = f

LEMMA LogRows ==
    ASSUME LedgerInv, LogFinite, NEW S \in SUBSET log
    PROVE  RowsOf(S)
  BY FS_Subset, EntryType
     DEF LogFinite, LedgerInv, LockInv, TypeInv, Typed, IdsUnique, RowsOf, IsPosition

(* The rows before one of them. *)
Preceding(S, e) == {f \in S : Pull!Before(f, e)}

LEMMA PrecedingGrows ==
    ASSUME NEW S, RowsOf(S), NEW e \in S, NEW f \in S, Pull!Before(e, f)
    PROVE  /\ Cardinality(Preceding(S, e)) \in Nat /\ Cardinality(Preceding(S, f)) \in Nat
           /\ Cardinality(Preceding(S, e)) < Cardinality(Preceding(S, f))
<1>1. Preceding(S, e) \subseteq S /\ Preceding(S, f) \subseteq S
  BY DEF Preceding
<1>2. IsFiniteSet(Preceding(S, e)) /\ IsFiniteSet(Preceding(S, f))
  BY <1>1, FS_Subset DEF RowsOf
<1>3. e \notin Preceding(S, e)
  BY BeforeOrder DEF Preceding, RowsOf
<1>4. Preceding(S, e) \cup {e} \subseteq Preceding(S, f)
  <2>1. \A g \in Preceding(S, e) : g \in S /\ Pull!Before(g, e)
    BY DEF Preceding
  <2>2. \A g \in Preceding(S, e) : Pull!Before(g, f)
    BY <2>1, BeforeOrder DEF RowsOf
  <2> QED
    BY <2>1, <2>2 DEF Preceding
<1>5. Cardinality(Preceding(S, e) \cup {e}) = Cardinality(Preceding(S, e)) + 1
  BY <1>2, <1>3, FS_AddElement
<1>6. Cardinality(Preceding(S, e) \cup {e}) <= Cardinality(Preceding(S, f))
  BY <1>2, <1>4, FS_Subset
<1> QED
  BY <1>2, <1>5, <1>6, FS_CardinalityType

(* There is a last one of some rows. *)
LEMMA LastExists ==
    ASSUME NEW S, RowsOf(S), S # {}
    PROVE  /\ Pull!Last(S) \in S
           /\ \A f \in S : f = Pull!Last(S) \/ Pull!Before(f, Pull!Last(S))
<1> DEFINE rank(e) == Cardinality(S) - Cardinality(Preceding(S, e))
           ranks == {rank(e) : e \in S}
<1>1. \A e \in S : rank(e) \in Nat
  <2> SUFFICES ASSUME NEW e \in S PROVE rank(e) \in Nat
    OBVIOUS
  <2>1. Preceding(S, e) \subseteq S
    BY DEF Preceding
  <2>2. /\ IsFiniteSet(Preceding(S, e))
        /\ Cardinality(Preceding(S, e)) <= Cardinality(S)
    BY <2>1, FS_Subset DEF RowsOf
  <2> QED
    BY <2>2, FS_CardinalityType DEF RowsOf
<1>2. ranks \in SUBSET Nat /\ ranks # {}
  BY <1>1
<1>3. PICK n \in ranks : \A m \in ranks : n <= m
  <2> HIDE DEF ranks
  <2> QED
    BY <1>2, Smallest
<1>4. PICK e \in S : n = rank(e)
  OBVIOUS
<1>5. \A f \in S : ~Pull!Before(e, f)
  <2> SUFFICES ASSUME NEW f \in S, Pull!Before(e, f) PROVE FALSE
    OBVIOUS
  <2>1. rank(f) \in ranks /\ rank(f) \in Nat /\ rank(e) \in Nat
    BY <1>1
  <2>2. rank(e) <= rank(f)
    BY <1>3, <1>4, <2>1
  <2>3. Cardinality(S) \in Nat
    BY FS_CardinalityType DEF RowsOf
  <2> QED
    BY <2>2, <2>3, PrecedingGrows
<1>6. \A f \in S : f = e \/ Pull!Before(f, e)
  BY <1>5, BeforeOrder DEF RowsOf
<1> QED
  BY <1>6 DEF Pull!Last

(* At most n rows are among the first n. *)
LEMMA FirstOfBound ==
    ASSUME NEW S, RowsOf(S), NEW n \in Nat
    PROVE  /\ Pull!FirstOf(n, S) \subseteq S
           /\ IsFiniteSet(Pull!FirstOf(n, S))
           /\ Cardinality(Pull!FirstOf(n, S)) \in Nat
           /\ Cardinality(Pull!FirstOf(n, S)) <= n
<1> DEFINE F == Pull!FirstOf(n, S)
<1>1. F \subseteq S
  BY DEF Pull!FirstOf
<1>2. IsFiniteSet(F) /\ Cardinality(F) \in Nat
  BY <1>1, FS_Subset, FS_CardinalityType DEF RowsOf
<1>3. CASE F = {}
  BY <1>1, <1>2, <1>3, FS_EmptySet
<1>4. CASE F # {}
  <2>1. RowsOf(F)
    BY <1>1, <1>2 DEF RowsOf
  <2>2. PICK e \in F : \A f \in F : f = e \/ Pull!Before(f, e)
    BY <1>4, <2>1, LastExists
  <2>3. Cardinality(Preceding(S, e)) < n /\ Preceding(S, e) \subseteq S
    BY PullCardinality DEF Pull!FirstOf, Preceding
  <2>4. IsFiniteSet(Preceding(S, e)) /\ Cardinality(Preceding(S, e)) \in Nat
    BY <2>3, FS_Subset, FS_CardinalityType DEF RowsOf
  <2>5. F \subseteq Preceding(S, e) \cup {e}
    BY <1>1, <2>2 DEF Preceding
  <2>6. e \notin Preceding(S, e)
    BY <1>1, <2>2, BeforeOrder DEF Preceding, RowsOf
  <2>7. /\ IsFiniteSet(Preceding(S, e) \cup {e})
        /\ Cardinality(Preceding(S, e) \cup {e}) = Cardinality(Preceding(S, e)) + 1
    BY <2>4, <2>6, FS_AddElement
  <2>8. Cardinality(F) <= Cardinality(Preceding(S, e)) + 1
    BY <2>5, <2>7, FS_Subset
  <2> QED
    BY <1>1, <1>2, <2>3, <2>4, <2>8
<1> QED
  BY <1>3, <1>4

-----------------------------------------------------------------------------
(* The pushes' part of the invariant: it owes nothing to the pulls.        *)
LEMMA LogFiniteNext == TypeInv /\ LogFinite /\ [Next]_vars => LogFinite'
<1> SUFFICES ASSUME TypeInv, LogFinite, [Next]_vars PROVE LogFinite'
  OBVIOUS
<1> USE DEF LogFinite
<1>1. CASE UNCHANGED <<log, pending>>
  BY <1>1
<1>2. ASSUME NEW S \in SUBSET Sessions, Rollback(S) PROVE LogFinite'
  BY <1>2, FS_EmptySet DEF Rollback, dbVars
<1>3. ASSUME NEW s \in Sessions, Write(s) PROVE LogFinite'
  <2>1. /\ UNCHANGED log /\ pending'[s] = pending[s] \cup {NewEntry(s)}
        /\ \A t \in Sessions \ {s} : pending'[t] = pending[t]
    BY <1>3 DEF Write, dbVars, TypeInv, Typed
  <2>2. IsFiniteSet(pending[s] \cup {NewEntry(s)})
    BY FS_AddElement
  <2> QED
    BY <2>1, <2>2
<1>4. ASSUME NEW s \in Sessions, Commit(s) PROVE LogFinite'
  <2>1. IsFiniteSet(log \cup pending[s])
    BY FS_Union
  <2> QED
    BY <1>4, <2>1 DEF Commit
<1>5. ASSUME NEW s \in Sessions, Broadcast(s) PROVE LogFinite'
  <2>1. /\ UNCHANGED log /\ pending'[s] = {}
        /\ \A t \in Sessions \ {s} : pending'[t] = pending[t]
    BY <1>5 DEF Broadcast, dbVars, TypeInv, Typed
  <2> QED
    BY <2>1, FS_EmptySet
<1>6. ASSUME Tick \/ UNCHANGED vars
      PROVE  UNCHANGED <<log, pending>>
  BY <1>6 DEF Tick, dbVars, txVars, vars
<1>7. ASSUME NEW s \in Sessions,
             \/ \E q \in Requests : Begin(s, q)
             \/ SkipProcessed(s) \/ NotProcessed(s) \/ LockRow(s) \/ Conflict(s) \/ Accept(s)
      PROVE  UNCHANGED <<log, pending>>
  BY <1>7 DEF Begin, SkipProcessed, NotProcessed, LockRow, Conflict, Accept, dbVars, txVars
<1> QED
  BY <1>1, <1>2, <1>3, <1>4, <1>5, <1>6, <1>7
     DEF Next, Step, Fail, Crash, UniqueViolation, DeadlockVictim

LEMMA LogGrows == TypeInv /\ [Next]_vars => log \subseteq log'
<1> SUFFICES ASSUME TypeInv, [Next]_vars PROVE log \subseteq log'
  OBVIOUS
<1>1. ASSUME NEW s \in Sessions, Commit(s) PROVE log \subseteq log'
  BY <1>1 DEF Commit
<1>2. ASSUME NEW s \in Sessions, Write(s) \/ Broadcast(s) PROVE log' = log
  BY <1>2 DEF Write, Broadcast, dbVars
<1>3. ASSUME NEW S, Rollback(S) PROVE log' = log
  BY <1>3 DEF Rollback, dbVars
<1>4. ASSUME Tick \/ UNCHANGED vars
      PROVE  log' = log
  BY <1>4 DEF Tick, dbVars, vars
<1>5. ASSUME NEW s \in Sessions,
             \/ \E q \in Requests : Begin(s, q)
             \/ SkipProcessed(s) \/ NotProcessed(s) \/ LockRow(s) \/ Conflict(s) \/ Accept(s)
      PROVE  log' = log
  BY <1>5 DEF Begin, SkipProcessed, NotProcessed, LockRow, Conflict, Accept, dbVars, txVars
<1> QED
  BY <1>1, <1>2, <1>3, <1>4, <1>5
     DEF Next, Step, Fail, Crash, UniqueViolation, DeadlockVictim

-----------------------------------------------------------------------------
(* A pull collects what lies between the client's cursor and its own       *)
(* position; what the client has got lies behind the cursor.               *)
PullOf(c) ==
    /\ \A e \in got[c] : ~Pull!Before(cursor[c], e)
    /\ ppc[c] = "idle" => changes[c] = {}
    /\ ppc[c] # "idle" =>
          /\ next[c] = cursor[c] \/ Pull!Before(cursor[c], next[c])
          /\ \A e \in changes[c] : Pull!Before(cursor[c], e) /\ ~Pull!Before(next[c], e)
    /\ Cardinality(changes[c]) <= Limit

PullInv ==
    /\ LedgerInv
    /\ LogFinite
    /\ FeedTyped
    /\ \A c \in Clients : PullOf(c)

(* What one page does to a pull. *)
Paged(c, rows, end, found) ==
    /\ RowsOf(rows) /\ rows \subseteq log
    /\ IsPosition(end) /\ end \in Positions
    /\ end = next[c] \/ Pull!Before(next[c], end)
    /\ \A e \in rows : Pull!Before(next[c], e) /\ ~Pull!Before(end, e)
    /\ found \subseteq changes[c] \cup rows
    /\ Cardinality(found) <= Limit

LEMMA PageRead ==
    ASSUME PullInv, NEW c \in Clients, Pull!ReadPage(c)
    PROVE  LET rows == Pull!Page(next[c])
               end == Pull!NextAfter(c, rows)
               found == Pull!Collected(c, Pull!Allowed(c, rows))
           IN  /\ Paged(c, rows, end, found)
               /\ next' = [next EXCEPT ![c] = end]
               /\ changes' = [changes EXCEPT ![c] = found]
<1> DEFINE rows == Pull!Page(next[c])
           end == Pull!NextAfter(c, rows)
           allowed == Pull!Allowed(c, rows)
           found == Pull!Collected(c, allowed)
           ahead == {e \in log : Pull!Before(next[c], e)}
           room == Limit - Cardinality(changes[c])
<1>1. next' = [next EXCEPT ![c] = end] /\ changes' = [changes EXCEPT ![c] = found]
  BY DEF Pull!ReadPage
<1>2. /\ Limit \in Nat /\ IsPosition(next[c]) /\ next[c] \in Positions
      /\ changes[c] \subseteq log
  BY FeedAssumption DEF PullInv, FeedTyped, IsPosition, Positions
<1>3. RowsOf(ahead) /\ RowsOf(log) /\ RowsOf(changes[c])
  BY <1>2, LogRows DEF PullInv
<1>4. rows \subseteq ahead
  BY DEF Pull!Page, Pull!FirstOf
<1>5. RowsOf(rows) /\ rows \subseteq log /\ \A e \in rows : Pull!Before(next[c], e)
  BY <1>4, LogRows DEF PullInv
<1>6. /\ IsPosition(end) /\ end \in Positions
      /\ end = next[c] \/ Pull!Before(next[c], end)
      /\ \A e \in rows : ~Pull!Before(end, e)
  <2>1. CASE rows = {}
    BY <1>2, <2>1 DEF Pull!NextAfter
  <2>2. CASE rows # {}
    <3> DEFINE l == Pull!Last(rows)
    <3>1. l \in rows /\ \A f \in rows : f = l \/ Pull!Before(f, l)
      <4> HIDE DEF rows
      <4> QED
        BY <1>5, <2>2, LastExists
    <3>2. end = [ts |-> l.ts, id |-> l.id]
      BY <2>2 DEF Pull!NextAfter, Pull!Position
    <3>3. IsPosition(l) /\ Pull!Before(next[c], l)
      BY <1>5, <3>1 DEF RowsOf
    <3> HIDE DEF l, rows, end
    <3>4. IsPosition(end) /\ end \in Positions /\ Pull!Before(next[c], end)
      BY <3>2, <3>3 DEF IsPosition, Positions, Pull!Before
    <3>5. ASSUME NEW e \in rows PROVE ~Pull!Before(end, e)
      <4>1. IsPosition(e) /\ ~Pull!Before(l, e)
        BY <1>5, <3>1, <3>3, BeforeOrder DEF RowsOf
      <4> QED
        BY <3>2, <4>1 DEF Pull!Before
    <3> QED
      BY <3>4, <3>5
  <2> QED
    BY <2>1, <2>2
<1>7. found \subseteq changes[c] \cup rows /\ Cardinality(found) <= Limit
  <2>1. /\ IsFiniteSet(changes[c]) /\ Cardinality(changes[c]) \in Nat
        /\ Cardinality(changes[c]) <= Limit
    BY <1>3, FS_CardinalityType DEF RowsOf, PullInv, PullOf
  <2>2. room \in Nat /\ RowsOf(allowed)
    BY <1>2, <1>5, <2>1, LogRows DEF PullInv, Pull!Allowed
  <2> DEFINE more == Pull!FirstOf(room, allowed)
  <2>3. found = changes[c] \cup more
    BY PullCardinality DEF Pull!Collected
  <2>4. more \subseteq allowed /\ IsFiniteSet(more) /\ Cardinality(more) \in Nat
        /\ Cardinality(more) <= room
    <3> HIDE DEF allowed, room
    <3> QED
      BY <2>2, FirstOfBound
  <2>5. Cardinality(changes[c] \cup more) =
            Cardinality(changes[c]) + Cardinality(more) - Cardinality(changes[c] \cap more)
    BY <2>1, <2>4, FS_Union
  <2>6. Cardinality(changes[c] \cap more) \in Nat
    BY <2>1, FS_Intersection, FS_CardinalityType
  <2>7. allowed \subseteq rows
    BY DEF Pull!Allowed
  <2> HIDE DEF more, found, allowed, rows
  <2> QED
    BY <1>2, <2>1, <2>3, <2>4, <2>5, <2>6, <2>7
<1> QED
  BY <1>1, <1>5, <1>6, <1>7 DEF Paged

(* The steps of one client's pull leave the others' alone. *)
LEMMA PullFrame ==
    ASSUME PullInv, NEW c \in Clients, Pull!PullStep(c) \/ Pull!Lose(c)
    PROVE  \A d \in Clients \ {c} :
              UNCHANGED <<got[d], cursor[d], next[d], changes[d], ppc[d], hidden[d], cache[d]>>
BY DEF PullInv, FeedTyped, Pull!PullStep, Pull!Lose, Pull!StartPull, Pull!ReadPage, Pull!Respond

LEMMA PullOfNext ==
    ASSUME PullInv, NEW c \in Clients, Pull!PullStep(c) \/ Pull!Lose(c)
    PROVE  PullOf(c)'
<1> USE DEF PullInv, FeedTyped
<1>1. PullOf(c) /\ IsPosition(cursor[c]) /\ IsPosition(next[c])
  BY DEF IsPosition
<1>2. RowsOf(changes[c]) /\ RowsOf(got[c])
  BY LogRows
<1>3. CASE Pull!StartPull(c)
  <2>1. /\ got'[c] = got[c] /\ cursor'[c] = cursor[c]
        /\ ppc'[c] = "read" /\ next'[c] = cursor[c] /\ changes'[c] = {}
    BY <1>3 DEF Pull!StartPull
  <2> QED
    BY <1>1, <2>1, FS_EmptySet, FeedAssumption DEF PullOf
<1>4. CASE Pull!ReadPage(c)
  <2>1. PICK rows, end, found :
            /\ Paged(c, rows, end, found)
            /\ next' = [next EXCEPT ![c] = end] /\ changes' = [changes EXCEPT ![c] = found]
    BY <1>4, PageRead
  <2>2. /\ got'[c] = got[c] /\ cursor'[c] = cursor[c] /\ next'[c] = end /\ changes'[c] = found
        /\ ppc[c] = "read" /\ ppc'[c] \in {"read", "last", "more"}
    BY <1>4, <2>1 DEF Pull!ReadPage
  <2>3. /\ next[c] = cursor[c] \/ Pull!Before(cursor[c], next[c])
        /\ \A e \in changes[c] : Pull!Before(cursor[c], e) /\ ~Pull!Before(next[c], e)
    BY <1>1, <2>2 DEF PullOf
  <2>4. end = cursor[c] \/ Pull!Before(cursor[c], end)
    BY <1>1, <2>1, <2>3, BeforeOrder DEF Paged
  <2>5. ASSUME NEW e \in found PROVE Pull!Before(cursor[c], e) /\ ~Pull!Before(end, e)
    <3>1. CASE e \in rows
      BY <1>1, <2>1, <2>3, <3>1, BeforeOrder DEF Paged, RowsOf
    <3>2. CASE e \in changes[c]
      <4>1. IsPosition(e) /\ IsPosition(end) /\ (end = next[c] \/ Pull!Before(next[c], end))
        BY <1>2, <2>1, <3>2 DEF Paged, RowsOf
      <4>2. Pull!Before(cursor[c], e) /\ ~Pull!Before(next[c], e)
        BY <2>3, <3>2
      <4> QED
        BY <1>1, <4>1, <4>2, BeforeOrder
    <3> QED
      BY <2>1, <2>5, <3>1, <3>2 DEF Paged
  <2>6. Cardinality(found) <= Limit
    BY <2>1 DEF Paged
  <2> QED
    BY <1>1, <2>2, <2>4, <2>5, <2>6 DEF PullOf
<1>5. CASE Pull!Respond(c)
  <2>1. /\ got'[c] = got[c] \cup changes[c] /\ cursor'[c] = next[c] /\ ppc'[c] = "idle"
        /\ changes'[c] = {} /\ ppc[c] # "idle"
    BY <1>5 DEF Pull!Respond
  <2>2. ASSUME NEW e \in got[c] PROVE ~Pull!Before(next[c], e)
    <3>1. IsPosition(e) /\ ~Pull!Before(cursor[c], e)
      BY <1>1, <1>2 DEF RowsOf, PullOf
    <3>2. next[c] = cursor[c] \/ Pull!Before(cursor[c], next[c])
      BY <1>1, <2>1 DEF PullOf
    <3> QED
      BY <1>1, <3>1, <3>2, BeforeOrder
  <2> QED
    BY <1>1, <2>1, <2>2, FS_EmptySet, FeedAssumption DEF PullOf
<1>6. CASE Pull!Lose(c)
  <2>1. /\ got'[c] = got[c] /\ cursor'[c] = cursor[c] /\ ppc'[c] = "idle" /\ changes'[c] = {}
    BY <1>6 DEF Pull!Lose
  <2> QED
    BY <1>1, <2>1, FS_EmptySet, FeedAssumption DEF PullOf
<1> QED
  BY <1>3, <1>4, <1>5, <1>6 DEF Pull!PullStep

LEMMA CachedType ==
    ASSUME PullInv, NEW c \in Clients, NEW rows \in SUBSET log
    PROVE  Pull!Cached(c, rows) \in [yes : SUBSET Scopes, no : SUBSET Scopes]
<1>1. cache[c] \in [yes : SUBSET Scopes, no : SUBSET Scopes]
  BY DEF PullInv, FeedTyped
<1>2. \A e \in rows : e.scope \in Scopes
  BY DEF PullInv, FeedTyped, Typed, Entries
<1> QED
  BY <1>1, <1>2 DEF Pull!Cached

LEMMA FeedTypeNext ==
    ASSUME PullInv, NEW c \in Clients, Pull!PullStep(c) \/ Pull!Lose(c), UNCHANGED vars
    PROVE  FeedTyped'
<1> USE DEF PullInv, FeedTyped
<1>1. Typed' /\ log' = log
  BY DEF vars, dbVars, txVars, Typed
<1>2. Pull!Start \in [ts : Nat, id : Nat] /\ Pull!NoCache \in [yes : SUBSET Scopes, no : SUBSET Scopes]
  BY DEF Pull!Start, Pull!NoCache
<1>3. CASE Pull!StartPull(c)
  BY <1>1, <1>2, <1>3 DEF Pull!StartPull
<1>4. CASE Pull!ReadPage(c)
  <2> DEFINE rows == Pull!Page(next[c])
             perms == Pull!Cached(c, rows)
             allowed == Pull!Allowed(c, rows)
  <2>1. PICK end, found :
            /\ Paged(c, rows, end, found)
            /\ next' = [next EXCEPT ![c] = end] /\ changes' = [changes EXCEPT ![c] = found]
    BY <1>4, PageRead
  <2>2. rows \subseteq log /\ found \subseteq log /\ end \in [ts : Nat, id : Nat]
    BY <2>1 DEF Paged, Positions
  <2>3. perms \in [yes : SUBSET Scopes, no : SUBSET Scopes]
    BY <2>2, CachedType
  <2>4. /\ cache' = [cache EXCEPT ![c] = perms]
        /\ hidden' = [hidden EXCEPT ![c] = hidden[c] \cup (rows \ allowed)]
        /\ ppc' \in {[ppc EXCEPT ![c] = "last"], [ppc EXCEPT ![c] = "more"], ppc}
        /\ UNCHANGED <<readable, cursor, got>>
    BY <1>4 DEF Pull!ReadPage
  <2> HIDE DEF rows, perms
  <2> QED
    BY <1>1, <2>1, <2>2, <2>3, <2>4
<1>5. CASE Pull!Respond(c)
  BY <1>1, <1>2, <1>5 DEF Pull!Respond
<1>6. CASE Pull!Lose(c)
  BY <1>1, <1>2, <1>6 DEF Pull!Lose
<1> QED
  BY <1>3, <1>4, <1>5, <1>6 DEF Pull!PullStep

LEMMA PullInvInit == FeedInit => PullInv
<1> SUFFICES ASSUME FeedInit PROVE PullInv
  OBVIOUS
<1>1. LedgerInv /\ Typed
  BY LedgerInvInit DEF FeedInit, LedgerInv, LockInv, TypeInv
<1>2. LogFinite
  BY FS_EmptySet DEF FeedInit, Init, LogFinite
<1>3. FeedTyped
  BY <1>1 DEF FeedInit, Pull!PullInit, Pull!Start, Pull!NoCache, FeedTyped
<1>4. \A c \in Clients : PullOf(c)
  BY FS_EmptySet, FeedAssumption DEF FeedInit, Pull!PullInit, PullOf
<1> QED
  BY <1>1, <1>2, <1>3, <1>4 DEF PullInv

LEMMA PullInvNext == PullInv /\ [FeedNext]_allVars => PullInv'
<1> SUFFICES ASSUME PullInv, [FeedNext]_allVars PROVE PullInv'
  OBVIOUS
<1>1. [Next]_vars
  BY DEF FeedNext, allVars
<1>2. LedgerInv' /\ LogFinite' /\ log \subseteq log' /\ Typed'
  BY <1>1, LedgerInvNext, LogFiniteNext, LogGrows DEF PullInv, LedgerInv, LockInv, TypeInv
<1>3. CASE UNCHANGED feedVars
  <2>1. FeedTyped'
    BY <1>2, <1>3 DEF feedVars, PullInv, FeedTyped
  <2>2. \A c \in Clients : PullOf(c)'
    BY <1>3 DEF feedVars, PullInv, PullOf
  <2> QED
    BY <1>2, <2>1, <2>2 DEF PullInv
<1>4. ASSUME NEW c \in Clients, Pull!PullStep(c) \/ Pull!Lose(c), UNCHANGED vars PROVE PullInv'
  <2>1. FeedTyped'
    BY <1>4, FeedTypeNext
  <2>2. ASSUME NEW d \in Clients PROVE PullOf(d)'
    <3>1. CASE d = c
      BY <1>4, <3>1, PullOfNext
    <3>2. CASE d # c
      BY <1>4, <3>2, PullFrame DEF PullInv, PullOf
    <3> QED
      BY <3>1, <3>2
  <2> QED
    BY <1>2, <2>1, <2>2 DEF PullInv
<1>5. CASE Pull!Regrant /\ UNCHANGED vars
  <2>1. UNCHANGED <<cursor, got, ppc, next, changes, cache, hidden, log>>
    BY <1>5 DEF Pull!Regrant, Pull!pullVars, vars, dbVars
  <2>2. readable' \subseteq Clients \X Scopes
    BY <1>5 DEF Pull!Regrant, PullInv, FeedTyped
  <2>3. FeedTyped'
    BY <1>2, <2>1, <2>2 DEF PullInv, FeedTyped
  <2>4. \A c \in Clients : PullOf(c)'
    BY <2>1 DEF PullInv, PullOf
  <2> QED
    BY <1>2, <2>3, <2>4 DEF PullInv
<1> QED
  BY <1>3, <1>4, <1>5 DEF FeedNext, allVars, Pull!PullNext

LEMMA FeedPullSafety == FeedSpec => []PullInv
  BY PullInvInit, PullInvNext, PTL DEF FeedSpec

(* What a pull has collected passed its own permission check. *)
Checked(c) == \A e \in changes[c] : e.scope \in cache[c].yes \ cache[c].no

(* The cache never says yes and no to a scope. *)
Decided(c) == cache[c].yes \cap cache[c].no = {}

CheckInv == \A c \in Clients : Checked(c) /\ Decided(c)

LEMMA CheckInvNext ==
    PullInv /\ CheckInv /\ [FeedNext]_allVars => CheckInv'
<1> SUFFICES ASSUME PullInv, CheckInv, [FeedNext]_allVars PROVE CheckInv'
  OBVIOUS
<1>1. CASE UNCHANGED <<changes, cache>>
  BY <1>1 DEF CheckInv, Checked, Decided
<1>2. ASSUME NEW c \in Clients, Checked(c)', Decided(c)',
             Pull!PullStep(c) \/ Pull!Lose(c)
      PROVE  CheckInv'
  <2>1. \A d \in Clients \ {c} : UNCHANGED <<changes[d], cache[d]>>
    BY <1>2, PullFrame
  <2> QED
    BY <1>2, <2>1 DEF CheckInv, Checked, Decided
<1>3. ASSUME NEW c \in Clients, Pull!StartPull(c) \/ Pull!Respond(c) \/ Pull!Lose(c)
      PROVE  CheckInv'
  <2>1. changes'[c] = {} /\ cache'[c] = Pull!NoCache
    BY <1>3 DEF PullInv, FeedTyped, Pull!StartPull, Pull!Respond, Pull!Lose
  <2>2. Checked(c)' /\ Decided(c)'
    BY <2>1 DEF Checked, Decided, Pull!NoCache
  <2> QED
    BY <1>2, <1>3, <2>2 DEF Pull!PullStep
<1>4. ASSUME NEW c \in Clients, Pull!ReadPage(c) PROVE CheckInv'
  <2> DEFINE rows == Pull!Page(next[c])
             perms == Pull!Cached(c, rows)
             allowed == Pull!Allowed(c, rows)
             found == Pull!Collected(c, allowed)
  <2>1. changes'[c] = found /\ cache'[c] = perms
    BY <1>4 DEF PullInv, FeedTyped, Pull!ReadPage
  <2>2. found \subseteq changes[c] \cup allowed
    BY DEF Pull!Collected, Pull!FirstOf
  <2>3. /\ cache[c].yes \subseteq perms.yes
        /\ perms.yes \cap perms.no = {}
        /\ \A e \in allowed : e.scope \in perms.yes
    BY DEF CheckInv, Decided, Pull!Cached, Pull!Allowed
  <2>4. \A e \in found : e.scope \in perms.yes \ perms.no
    <3> HIDE DEF found, allowed, perms
    <3> QED
      BY <2>2, <2>3 DEF CheckInv, Checked
  <2>5. Checked(c)' /\ Decided(c)'
    <3> HIDE DEF found, allowed, perms
    <3> QED
      BY <2>1, <2>3, <2>4 DEF Checked, Decided
  <2> QED
    BY <1>2, <1>4, <2>5 DEF Pull!PullStep
<1>5. CASE UNCHANGED feedVars \/ Pull!Regrant
  BY <1>1, <1>5 DEF feedVars, Pull!Regrant, Pull!pullVars
<1> QED
  BY <1>1, <1>3, <1>4, <1>5 DEF FeedNext, allVars, Pull!PullNext, Pull!PullStep

(* Type correctness: cursors are positions, what clients receive comes     *)
(* from the change log, and nothing is collected for a client that the     *)
(* pull has not found readable; handlers of pushes hold no stray locks.    *)
THEOREM FeedTypeSafety == FeedSpec => []FeedTypeOK
<1>1. FeedInit => CheckInv /\ NoStrayLocks
  BY PushAssumption DEF FeedInit, Init, Pull!PullInit, Pull!NoCache, CheckInv, Checked, Decided,
                        NoStrayLocks
<1>2. PullInv /\ CheckInv /\ [FeedNext]_allVars => CheckInv'
  BY CheckInvNext
<1>3. PullInv /\ NoStrayLocks /\ [FeedNext]_allVars => NoStrayLocks'
  <2> SUFFICES ASSUME PullInv, NoStrayLocks, [FeedNext]_allVars PROVE NoStrayLocks'
    OBVIOUS
  <2>1. [Next]_vars
    BY DEF FeedNext, allVars
  <2> QED
    BY <2>1, NoStrayLocksNext DEF PullInv, LedgerInv, LockInv
<1>4. PullInv /\ CheckInv /\ NoStrayLocks => FeedTypeOK
  BY DEF PullInv, LedgerInv, LockInv, TypeInv, TypeOK, CheckInv, Checked, FeedTypeOK
<1> QED
  BY <1>1, <1>2, <1>3, <1>4, FeedPullSafety, PTL DEF FeedSpec

(* No change is delivered to a client twice, whatever is lost, repeated or *)
(* committed in between.                                                   *)
THEOREM NoDuplicatesSafety == FeedSpec => []NoDuplicates
<1>1. PullInv => NoDuplicates
  <2> SUFFICES ASSUME PullInv, NEW c \in Clients
               PROVE  /\ changes[c] \cap got[c] = {}
                      /\ \A e \in got[c] : Passed(e, c)
    BY DEF NoDuplicates
  <2> QED
    BY DEF PullInv, PullOf, Passed
<1> QED
  BY <1>1, FeedPullSafety, PTL

(* A response never holds more changes than the client asked for, although *)
(* several pages are read for one.                                         *)
THEOREM WithinLimitSafety == FeedSpec => []WithinLimit
<1>1. PullInv => WithinLimit
  BY DEF PullInv, PullOf, WithinLimit
<1> QED
  BY <1>1, FeedPullSafety, PTL

(* The cursor of a client only moves forward: no sequence of pulls, losses *)
(* and commits takes it back.                                              *)
THEOREM CursorSafety == FeedSpec => CursorAdvances
<1>1. ASSUME PullInv, [FeedNext]_allVars, NEW c \in Clients
      PROVE  cursor'[c] = cursor[c] \/ Pull!Before(cursor[c], cursor'[c])
  <2>1. CASE UNCHANGED cursor
    BY <2>1
  <2>2. ASSUME NEW d \in Clients, Pull!Respond(d)
        PROVE  cursor'[c] = cursor[c] \/ Pull!Before(cursor[c], cursor'[c])
    BY <1>1, <2>2 DEF PullInv, FeedTyped, PullOf, Pull!Respond
  <2>3. UNCHANGED cursor \/ \E d \in Clients : Pull!Respond(d)
    BY <1>1 DEF FeedNext, allVars, feedVars, Pull!PullNext, Pull!PullStep, Pull!StartPull,
                Pull!ReadPage, Pull!Lose, Pull!Regrant, Pull!pullVars
  <2> QED
    BY <2>1, <2>2, <2>3
<1>2. PullInv /\ [FeedNext]_allVars =>
          [\A c \in Clients : cursor'[c] = cursor[c] \/ Pull!Before(cursor[c], cursor'[c])]_cursor
  BY <1>1
<1> QED
  BY <1>2, FeedPullSafety, PTL DEF FeedSpec, CursorAdvances

-----------------------------------------------------------------------------
(* Nothing is skipped as long as pushes are handled one after the other    *)
(* and no page has more to deliver than fits: that is what the order by    *)
(* server_modified_at and change_id and the cursor over it can carry.      *)
(* Without the one (feed_late_commit) or the other (feed_overflow) it is   *)
(* not true.                                                               *)
Serial == \A s, t \in InTransaction : s = t
Roomy == Limit = 1 \/ Clients \X Scopes \subseteq readable

(* A page is a beginning of what lies ahead. *)
LEMMA FirstOfClosed ==
    ASSUME NEW S, RowsOf(S), NEW n \in Nat, NEW l \in Pull!FirstOf(n, S),
           NEW e \in S, e = l \/ Pull!Before(e, l)
    PROVE  e \in Pull!FirstOf(n, S)
<1>1. l \in S /\ Cardinality(Preceding(S, l)) < n
  BY PullCardinality DEF Pull!FirstOf, Preceding
<1>2. CASE e = l
  BY <1>2
<1>3. CASE Pull!Before(e, l)
  <2>1. /\ Cardinality(Preceding(S, e)) < Cardinality(Preceding(S, l))
        /\ Cardinality(Preceding(S, e)) \in Nat /\ Cardinality(Preceding(S, l)) \in Nat
    BY <1>1, <1>3, PrecedingGrows
  <2>2. Cardinality(Preceding(S, e)) < n
    BY <1>1, <2>1
  <2> QED
    BY <2>2, PullCardinality DEF Pull!FirstOf, Preceding
<1> QED
  BY <1>2, <1>3

(* What may be delivered of a page fits into an empty response. *)
LEMMA PageFits ==
    ASSUME NEW S, RowsOf(S), NEW n \in Nat, NEW T \in SUBSET Pull!FirstOf(n, S)
    PROVE  Pull!FirstOf(n, T) = T
<1> SUFFICES ASSUME NEW e \in T PROVE Cardinality(Preceding(T, e)) < n
  BY PullCardinality DEF Pull!FirstOf, Preceding
<1>1. e \in S /\ Cardinality(Preceding(S, e)) < n /\ T \subseteq S
  BY PullCardinality DEF Pull!FirstOf, Preceding
<1>2. Preceding(T, e) \subseteq Preceding(S, e) /\ Preceding(S, e) \subseteq S
  BY <1>1 DEF Preceding
<1>3. IsFiniteSet(Preceding(S, e))
  BY <1>2, FS_Subset DEF RowsOf
<1>4. /\ IsFiniteSet(Preceding(T, e))
      /\ Cardinality(Preceding(T, e)) <= Cardinality(Preceding(S, e))
  BY <1>2, <1>3, FS_Subset
<1> QED
  BY <1>1, <1>3, <1>4, FS_CardinalityType

-----------------------------------------------------------------------------
(* Serial pushes: what an open transaction writes comes after everything   *)
(* in the log, and the last row of a record's history is the table's.      *)
AfterLog(s) ==
    /\ \A e \in log : e.ts <= now[s]
    /\ \A f \in pending[s] : f.id > 0 /\ \A e \in log : e.id < f.id

LastIsStored(r) ==
    History(r) # {} => \E l \in History(r) : IsLast(l, r) /\ row[r] = l.row

SerialInv ==
    /\ FeedInv
    /\ clock \in Nat
    /\ \A s \in Sessions : now[s] <= clock
    /\ \A e \in log : e.ts <= clock /\ e.id > 0
    /\ \A s \in InTransaction : AfterLog(s)
    /\ \A r \in Records : LastIsStored(r)

LEMMA SerialInvInit == Init => SerialInv
BY FeedInvInit DEF Init, SerialInv, InTransaction, History, LastIsStored

(* A commit appends behind the log, and the last row it appends for a      *)
(* record is the one it stores.                                            *)
LEMMA SerialCommit ==
    ASSUME SerialInv, Serial, NEW s \in Sessions, Commit(s)
    PROVE  /\ \A e \in log, f \in pending[s] : Pull!Before(e, f)
           /\ \A f \in pending[s] : f.ts = now[s] /\ f.id > 0
           /\ log' = log \cup pending[s]
           /\ \A r \in Records : LastIsStored(r)'
<1> USE DEF SerialInv
<1>1. s \in InTransaction /\ log' = log \cup pending[s] /\ pc[s] = "check"
  BY DEF Commit, InTransaction
<1>2. Typed /\ WorkOK(s) /\ ChainOf(s) /\ IdsUnique
  BY DEF FeedInv, LedgerInv, LockInv, TypeInv
<1>3. /\ \A e \in log \cup pending[s] : IsPosition(e)
      /\ now[s] \in Nat
  BY <1>2, EntryType DEF Typed, IsPosition
<1>4. \A f \in pending[s] : f.ts = now[s] /\ f.id > 0
  BY <1>1, <1>2 DEF WorkOK, AfterLog
<1>5. \A e \in log, f \in pending[s] : Pull!Before(e, f)
  BY <1>1, <1>3, <1>4 DEF AfterLog, IsPosition, Pull!Before
<1>6. ASSUME NEW r \in Records PROVE LastIsStored(r)'
  <2>1. History(r)' = History(r) \cup Own(s, r)
    BY <1>1 DEF History, Own
  <2>2. row'[r] = IF wrote[s][r] # NoRow THEN wrote[s][r] ELSE row[r]
    BY DEF Commit, View
  <2>3. CASE wrote[s][r] = NoRow
    <3>1. Own(s, r) = {}
      BY <1>1, <1>2, <2>3 DEF ChainOf
    <3>2. History(r)' = History(r) /\ row'[r] = row[r]
      BY <2>1, <2>2, <2>3, <3>1
    <3> QED
      BY <3>2 DEF LastIsStored, IsLast
  <2>4. CASE wrote[s][r] # NoRow
    <3>1. PICK e \in Own(s, r) : e.row = wrote[s][r] /\ \A f \in Own(s, r) : f.id <= e.id
      BY <1>1, <1>2, <2>4 DEF ChainOf
    <3>2. ASSUME NEW f \in History(r) \cup Own(s, r) PROVE f = e \/ Before(f, e)
      <4>1. e \in pending[s]
        BY <3>1 DEF Own
      <4>2. CASE f \in log
        BY <1>5, <4>1, <4>2 DEF Before, Pull!Before
      <4>3. CASE f \in Own(s, r)
        <5>1. f \in pending[s] /\ f.ts = e.ts /\ f.id <= e.id
          BY <1>4, <3>1, <4>1, <4>3 DEF Own
        <5>2. f.id = e.id => f = e
          BY <1>2, <4>1, <5>1 DEF IdsUnique
        <5> QED
          BY <1>3, <4>1, <5>1, <5>2 DEF IsPosition, Before
      <4> QED
        BY <3>2, <4>2, <4>3 DEF History
    <3>3. e \in History(r)' /\ row'[r] = e.row
      BY <2>1, <2>2, <2>4, <3>1
    <3>4. IsLast(e, r)'
      BY <2>1, <3>2, <3>3 DEF IsLast
    <3> QED
      BY <3>3, <3>4 DEF LastIsStored
  <2> QED
    BY <2>3, <2>4
<1> QED
  BY <1>1, <1>4, <1>5, <1>6

LEMMA SerialInvNext == SerialInv /\ Serial /\ [Next]_vars => SerialInv'
<1> SUFFICES ASSUME SerialInv, Serial, [Next]_vars PROVE SerialInv'
  OBVIOUS
<1>1. FeedInv'
  BY FeedInvNext DEF SerialInv
<1>2. Typed /\ Typed' /\ \A s \in Sessions : WorkOK(s)
  BY <1>1 DEF SerialInv, FeedInv, LedgerInv, LockInv, TypeInv
<1> USE DEF SerialInv
(* Steps that leave the log, the tables and the order of ids alone. *)
<1>3. ASSUME UNCHANGED <<log, row, clock>>,
             \A s \in Sessions : now'[s] <= clock,
             \A s \in InTransaction' : AfterLog(s)'
      PROVE  SerialInv'
  BY <1>1, <1>3 DEF LastIsStored, IsLast, History
<1>4. CASE Tick
  <2>1. /\ UNCHANGED <<log, row, now, pc, pending>>
        /\ clock' \in Nat /\ clock' >= clock
    BY <1>2, <1>4 DEF Tick, dbVars, txVars, Typed
  <2>2. \A s \in Sessions : now[s] \in Nat /\ now[s] <= clock'
    BY <1>2, <2>1 DEF Typed
  <2>3. \A e \in log : e.ts <= clock'
    BY <1>2, <2>1, EntryType DEF Typed
  <2> QED
    BY <1>1, <2>1, <2>2, <2>3 DEF LastIsStored, IsLast, History, InTransaction, AfterLog
<1>5. CASE UNCHANGED vars
  BY <1>3, <1>5 DEF vars, dbVars, txVars, InTransaction, AfterLog
<1>6. ASSUME NEW s \in Sessions, NEW q \in Requests, Begin(s, q) PROVE SerialInv'
  <2>1. /\ UNCHANGED <<log, row, clock, pending>> /\ pc[s] = "idle"
        /\ now' = [now EXCEPT ![s] = clock] /\ pc' = [pc EXCEPT ![s] = "check"]
    BY <1>6 DEF Begin, dbVars
  <2>2. AfterLog(s)'
    BY <1>2, <2>1 DEF WorkOK, AfterLog, Typed
  <2>3. \A t \in InTransaction' : t = s \/ t \in InTransaction
    BY <1>2, <2>1 DEF InTransaction, Typed
  <2>4. \A t \in InTransaction' : AfterLog(t)'
    BY <1>2, <2>1, <2>2, <2>3 DEF AfterLog, Typed, InTransaction
  <2>5. \A t \in Sessions : now'[t] <= clock
    BY <1>2, <2>1 DEF Typed
  <2> QED
    BY <1>3, <2>1, <2>4, <2>5
<1>7. ASSUME NEW s \in Sessions,
             SkipProcessed(s) \/ NotProcessed(s) \/ LockRow(s) \/ Conflict(s) \/ Accept(s)
      PROVE  SerialInv'
  <2>1. /\ UNCHANGED <<log, row, clock, pending, now>>
        /\ InTransaction' \subseteq InTransaction
    BY <1>2, <1>7 DEF SkipProcessed, NotProcessed, LockRow, ForUpdate, Conflict, Accept, dbVars, txVars,
                      InTransaction, Typed
  <2> QED
    BY <1>3, <2>1 DEF AfterLog
<1>8. ASSUME NEW s \in Sessions, Write(s) PROVE SerialInv'
  <2>1. /\ UNCHANGED <<log, row, clock, now>> /\ s \in InTransaction
        /\ InTransaction' \subseteq InTransaction
        /\ pending'[s] = pending[s] \cup {NewEntry(s)}
        /\ \A t \in Sessions \ {s} : pending'[t] = pending[t]
    BY <1>2, <1>8 DEF Write, dbVars, InTransaction, Typed
  <2>2. NewEntry(s).id > 0 /\ \A e \in log : e.id < NewEntry(s).id
    BY <1>2 DEF NewEntry, Typed, FeedInv, LedgerInv, IdsUsed
  <2>3. AfterLog(s)'
    BY <2>1, <2>2 DEF AfterLog
  <2>4. \A t \in InTransaction' : AfterLog(t)'
    BY <2>1, <2>3 DEF AfterLog, InTransaction
  <2> QED
    BY <1>3, <2>1, <2>4
<1>9. ASSUME NEW s \in Sessions, Commit(s) PROVE SerialInv'
  <2>1. /\ UNCHANGED <<clock, now, pending>> /\ s \in InTransaction
        /\ InTransaction' \subseteq InTransaction \ {s}
    BY <1>2, <1>9 DEF Commit, InTransaction, Typed
  <2>2. InTransaction' = {}
    BY <2>1 DEF Serial
  <2>3. \A e \in log' : e.ts <= clock /\ e.id > 0
    BY <1>9, <2>1, SerialCommit DEF InTransaction
  <2> QED
    BY <1>1, <1>9, <2>1, <2>2, <2>3, SerialCommit
<1>10. ASSUME NEW s \in Sessions, Broadcast(s) PROVE SerialInv'
  <2>1. /\ UNCHANGED <<log, row, clock>> /\ now' = [now EXCEPT ![s] = 0]
        /\ InTransaction' \subseteq InTransaction \ {s}
        /\ \A t \in Sessions \ {s} : pending'[t] = pending[t]
    BY <1>2, <1>10 DEF Broadcast, dbVars, InTransaction, Typed
  <2>2. \A t \in Sessions : now'[t] <= clock
    BY <1>2, <2>1 DEF Typed
  <2>3. \A t \in InTransaction' : AfterLog(t)'
    BY <1>2, <2>1 DEF AfterLog, InTransaction, Typed
  <2> QED
    BY <1>3, <2>1, <2>2, <2>3
<1>11. ASSUME NEW S \in SUBSET Sessions, Rollback(S) PROVE SerialInv'
  <2>1. /\ UNCHANGED <<log, row, clock>>
        /\ now' = [s \in Sessions |-> IF s \in S THEN 0 ELSE now[s]]
        /\ InTransaction' \subseteq InTransaction \ S
        /\ \A t \in Sessions \ S : pending'[t] = pending[t]
    BY <1>2, <1>11 DEF Rollback, dbVars, InTransaction, Typed
  <2>2. \A t \in Sessions : now'[t] <= clock
    BY <1>2, <2>1 DEF Typed
  <2>3. \A t \in InTransaction' : AfterLog(t)'
    BY <1>2, <2>1 DEF AfterLog, InTransaction
  <2> QED
    BY <1>3, <2>1, <2>2, <2>3
<1> QED
  BY <1>4, <1>5, <1>6, <1>7, <1>8, <1>9, <1>10, <1>11
     DEF Next, Step, Fail, Crash, UniqueViolation, DeadlockVictim

-----------------------------------------------------------------------------
(* The pulls of serial pushes: what is not ahead of a client's cursor, or  *)
(* of its pull's position, is accounted for.                               *)
Taken(p) == p = Pull!Start \/ \E e \in log : p = Pull!Position(e)

AccountedOf(c) ==
    /\ Taken(cursor[c]) /\ Taken(next[c])
    /\ \A e \in log : Passed(e, c) => e \in got[c] \cup hidden[c]
    /\ ppc[c] # "idle" =>
          \A e \in log : ~Pull!Before(next[c], e) => e \in got[c] \cup hidden[c] \cup changes[c]
    /\ ppc[c] = "read" => changes[c] = {}
    /\ Limit = 1 \/ cache[c].no = {}

Accounted ==
    /\ PullInv
    /\ SerialInv
    /\ \A c \in Clients : AccountedOf(c)

(* A page: what it does not deliver is hidden, and it only reads on when   *)
(* it has delivered nothing.                                               *)
LEMMA RoomyPage ==
    ASSUME Accounted, Roomy, NEW c \in Clients, Pull!ReadPage(c)
    PROVE  LET rows == Pull!Page(next[c])
               perms == Pull!Cached(c, rows)
               allowed == Pull!Allowed(c, rows)
           IN  /\ Pull!Collected(c, allowed) = allowed
               /\ Limit = 1 \/ perms.no = {}
               /\ ppc'[c] = "read" => allowed = {}
<1> DEFINE rows == Pull!Page(next[c])
           perms == Pull!Cached(c, rows)
           allowed == Pull!Allowed(c, rows)
           ahead == {e \in log : Pull!Before(next[c], e)}
<1> USE DEF Accounted
<1>1. /\ changes[c] = {} /\ ppc[c] = "read" /\ Limit \in Nat \ {0}
      /\ Limit = 1 \/ cache[c].no = {}
  BY FeedAssumption DEF AccountedOf, Pull!ReadPage
<1>2. RowsOf(ahead) /\ RowsOf(rows) /\ rows \subseteq log /\ allowed \subseteq rows
      /\ rows = Pull!FirstOf(Limit, ahead)
  <2>1. rows = Pull!FirstOf(Limit, ahead) /\ ahead \subseteq log
    BY DEF Pull!Page
  <2>2. rows \subseteq ahead
    BY <2>1 DEF Pull!FirstOf
  <2>3. allowed \subseteq rows
    BY DEF Pull!Allowed
  <2> QED
    BY <2>1, <2>2, <2>3, LogRows DEF PullInv
<1>3. Limit - Pull!Cardinality(changes[c]) = Limit
  BY <1>1, PullCardinality, FS_EmptySet
<1>4. Pull!FirstOf(Limit, allowed) = allowed
  <2> HIDE DEF ahead, rows, allowed
  <2> QED
    BY <1>1, <1>2, PageFits
<1>5. Pull!Collected(c, allowed) = allowed
  BY <1>1, <1>3, <1>4 DEF Pull!Collected
<1>6. Clients \X Scopes \subseteq readable /\ cache[c].no = {} => perms.no = {} /\ allowed = rows
  <2> SUFFICES ASSUME Clients \X Scopes \subseteq readable, cache[c].no = {}
               PROVE  perms.no = {} /\ allowed = rows
    OBVIOUS
  <2> DEFINE new == {e.scope : e \in rows} \ (cache[c].yes \cup cache[c].no)
             ok == {x \in new : <<c, x>> \in readable}
  <2>1. \A e \in rows : e.scope \in Scopes
    BY <1>2 DEF PullInv, FeedTyped, Typed, Entries
  <2>2. ok = new
    BY <2>1
  <2>3. perms = [yes |-> cache[c].yes \cup ok, no |-> cache[c].no \cup (new \ ok)]
    BY DEF Pull!Cached
  <2>4. perms.no = {} /\ perms.yes = cache[c].yes \cup new
    BY <2>2, <2>3
  <2>5. \A e \in rows : e.scope \in perms.yes
    BY <2>4
  <2> QED
    BY <2>4, <2>5 DEF Pull!Allowed
<1>7. ASSUME ppc'[c] = "read" PROVE allowed = {}
  <2>1. Cardinality(rows) >= Limit /\ Cardinality(allowed) < Limit
    <3>1. ppc' = IF Pull!Cardinality(rows) < Limit
                 THEN [ppc EXCEPT ![c] = "last"]
                 ELSE IF Pull!Cardinality(allowed) >= Limit
                 THEN [ppc EXCEPT ![c] = "more"]
                 ELSE ppc
      BY <1>5 DEF Pull!ReadPage
    <3>2. ppc \in [Clients -> {"idle", "read", "last", "more"}]
      BY DEF PullInv, FeedTyped
    <3>3. Cardinality(rows) \in Nat /\ Cardinality(allowed) \in Nat
      BY <1>2, FS_Subset, FS_CardinalityType DEF RowsOf
    <3> HIDE DEF rows, allowed
    <3> QED
      BY <1>1, <1>7, <3>1, <3>2, <3>3, PullCardinality
  <2>2. CASE Limit = 1
    <3>1. IsFiniteSet(allowed) /\ Cardinality(allowed) \in Nat
      BY <1>2, FS_Subset, FS_CardinalityType DEF RowsOf
    <3>2. Cardinality(allowed) = 0
      BY <2>1, <2>2, <3>1
    <3> HIDE DEF allowed
    <3> QED
      BY <3>1, <3>2, FS_EmptySet
  <2>3. CASE Limit # 1
    <3>1. allowed = rows
      BY <1>1, <1>6, <2>3 DEF Roomy
    <3> HIDE DEF rows, allowed
    <3> QED
      BY <1>1, <1>2, <2>1, <3>1, FS_CardinalityType DEF RowsOf
  <2> QED
    BY <2>2, <2>3
<1>8. Limit = 1 \/ perms.no = {}
  BY <1>1, <1>6 DEF Roomy
<1> QED
  BY <1>5, <1>7, <1>8

LEMMA AccountedPull ==
    ASSUME Accounted, Roomy, NEW c \in Clients, Pull!PullStep(c) \/ Pull!Lose(c), UNCHANGED vars
    PROVE  AccountedOf(c)'
<1> USE DEF Accounted, PullInv, FeedTyped
<1>1. AccountedOf(c) /\ IsPosition(cursor[c]) /\ IsPosition(next[c])
  BY DEF IsPosition
<1>2. log' = log /\ Taken(Pull!Start)
  BY DEF vars, dbVars, Taken
<1>3. CASE Pull!StartPull(c)
  <2>1. /\ got'[c] = got[c] /\ cursor'[c] = cursor[c] /\ hidden'[c] = hidden[c]
        /\ ppc'[c] = "read" /\ next'[c] = cursor[c] /\ changes'[c] = {}
        /\ cache'[c] = Pull!NoCache
    BY <1>3 DEF Pull!StartPull
  <2> QED
    BY <1>1, <1>2, <2>1 DEF AccountedOf, Taken, Passed, Pull!NoCache
<1>4. CASE Pull!ReadPage(c)
  <2> DEFINE rows == Pull!Page(next[c])
             perms == Pull!Cached(c, rows)
             allowed == Pull!Allowed(c, rows)
             end == Pull!NextAfter(c, rows)
             ahead == {e \in log : Pull!Before(next[c], e)}
  <2>1. /\ Paged(c, rows, end, Pull!Collected(c, allowed))
        /\ next' = [next EXCEPT ![c] = end]
        /\ changes' = [changes EXCEPT ![c] = Pull!Collected(c, allowed)]
    BY <1>4, PageRead
  <2>2. /\ Pull!Collected(c, allowed) = allowed
        /\ Limit = 1 \/ perms.no = {}
        /\ ppc'[c] = "read" => allowed = {}
    BY <1>4, RoomyPage
  <2>3. /\ got'[c] = got[c] /\ cursor'[c] = cursor[c] /\ next'[c] = end /\ changes'[c] = allowed
        /\ hidden'[c] = hidden[c] \cup (rows \ allowed) /\ cache'[c] = perms
        /\ ppc[c] = "read" /\ changes[c] = {}
    BY <1>1, <1>4, <2>1, <2>2 DEF Pull!ReadPage, AccountedOf
  <2>4. Taken(end) /\ \A e \in log : ~Pull!Before(end, e) => ~Pull!Before(next[c], e) \/ e \in rows
    <3>1. CASE rows = {}
      BY <1>1, <3>1 DEF Pull!NextAfter, AccountedOf
    <3>2. CASE rows # {}
      <4> DEFINE l == Pull!Last(rows)
      <4>1. l \in rows
        <5> HIDE DEF rows
        <5> QED
          BY <2>1, <3>2, LastExists DEF Paged
      <4>2. end = Pull!Position(l) /\ l \in log
        BY <2>1, <3>2, <4>1 DEF Pull!NextAfter, Paged
      <4>3. RowsOf(log) /\ RowsOf(ahead)
        BY LogRows
      <4>4. rows = Pull!FirstOf(Limit, ahead)
        BY DEF Pull!Page
      <4>5. ASSUME NEW e \in log, ~Pull!Before(end, e), Pull!Before(next[c], e) PROVE e \in rows
        <5>1. IsPosition(e) /\ IsPosition(l) /\ e \in ahead
          BY <4>2, <4>3, <4>5 DEF RowsOf
        <5>2. ~Pull!Before(l, e)
          BY <4>2, <4>5 DEF Pull!Position, Pull!Before
        <5>3. e = l \/ Pull!Before(e, l)
          BY <4>2, <4>3, <5>1, <5>2, BeforeOrder DEF RowsOf
        <5> HIDE DEF l, ahead
        <5> QED
          BY <4>1, <4>3, <4>4, <5>1, <5>3, FeedAssumption, FirstOfClosed
      <4> QED
        BY <4>2, <4>5 DEF Taken
    <3> QED
      BY <3>1, <3>2
  <2>5. ASSUME NEW e \in log, ~Pull!Before(end, e)
        PROVE  e \in got[c] \cup (hidden[c] \cup (rows \ allowed)) \cup allowed
    BY <1>1, <2>3, <2>4, <2>5 DEF AccountedOf
  <2> HIDE DEF rows, perms, allowed, end
  <2> QED
    BY <1>1, <1>2, <2>2, <2>3, <2>4, <2>5 DEF AccountedOf, Taken, Passed
<1>5. CASE Pull!Respond(c)
  <2>1. /\ got'[c] = got[c] \cup changes[c] /\ cursor'[c] = next[c] /\ ppc'[c] = "idle"
        /\ changes'[c] = {} /\ ppc[c] # "idle" /\ hidden'[c] = hidden[c]
        /\ next'[c] = Pull!Start /\ cache'[c] = Pull!NoCache
    BY <1>5 DEF Pull!Respond
  <2> QED
    BY <1>1, <1>2, <2>1 DEF AccountedOf, Taken, Passed, Pull!NoCache
<1>6. CASE Pull!Lose(c)
  <2>1. /\ got'[c] = got[c] /\ cursor'[c] = cursor[c] /\ ppc'[c] = "idle" /\ changes'[c] = {}
        /\ hidden'[c] = hidden[c] /\ next'[c] = Pull!Start /\ cache'[c] = Pull!NoCache
    BY <1>6 DEF Pull!Lose
  <2> QED
    BY <1>1, <1>2, <2>1 DEF AccountedOf, Taken, Passed, Pull!NoCache
<1> QED
  BY <1>3, <1>4, <1>5, <1>6 DEF Pull!PullStep

(* What a commit appends is ahead of every client. *)
LEMMA AccountedPush ==
    ASSUME Accounted, Serial, [Next]_vars, UNCHANGED feedVars, NEW c \in Clients
    PROVE  AccountedOf(c)'
<1> USE DEF Accounted
<1>1. AccountedOf(c)
  OBVIOUS
<1>2. /\ log \subseteq log'
      /\ \A f \in log' \ log : IsPosition(f) /\ f.id > 0 /\ \A e \in log : Pull!Before(e, f)
  <2>1. ASSUME NEW s \in Sessions, Commit(s)
        PROVE  /\ log' = log \cup pending[s]
               /\ \A f \in pending[s] :
                     IsPosition(f) /\ f.id > 0 /\ \A e \in log : Pull!Before(e, f)
    <3>1. \A f \in pending[s] : IsPosition(f)
      BY EntryType DEF PullInv, FeedTyped, Typed, IsPosition
    <3> QED
      BY <2>1, <3>1, SerialCommit
  <2>2. ASSUME \A s \in Sessions : ~Commit(s) PROVE log' = log
    <3>1. ASSUME NEW s \in Sessions, Write(s) \/ Broadcast(s) PROVE log' = log
      BY <3>1 DEF Write, Broadcast, dbVars
    <3>2. ASSUME NEW S, Rollback(S) PROVE log' = log
      BY <3>2 DEF Rollback, dbVars
    <3>3. ASSUME Tick \/ UNCHANGED vars PROVE log' = log
      BY <3>3 DEF Tick, dbVars, vars
    <3>4. ASSUME NEW s \in Sessions,
                 \/ \E q \in Requests : Begin(s, q)
                 \/ SkipProcessed(s) \/ NotProcessed(s) \/ LockRow(s) \/ Conflict(s) \/ Accept(s)
          PROVE  log' = log
      BY <3>4 DEF Begin, SkipProcessed, NotProcessed, LockRow, Conflict, Accept, dbVars, txVars
    <3> QED
      BY <2>2, <3>1, <3>2, <3>3, <3>4
         DEF Next, Step, Fail, Crash, UniqueViolation, DeadlockVictim
  <2> QED
    BY <2>1, <2>2
<1>3. ASSUME NEW p, Taken(p) PROVE Taken(p)' /\ \A f \in log' \ log : Pull!Before(p, f)
  <2>1. CASE p = Pull!Start
    BY <1>2, <2>1 DEF Taken, Pull!Start, Pull!Before, IsPosition
  <2>2. ASSUME NEW e \in log, p = Pull!Position(e)
        PROVE  Taken(p)' /\ \A f \in log' \ log : Pull!Before(p, f)
    BY <1>2, <2>2 DEF Taken, Pull!Position, Pull!Before
  <2> QED
    BY <1>3, <2>1, <2>2 DEF Taken
<1>4. UNCHANGED <<cursor, next, got, hidden, changes, ppc, cache>>
  BY DEF feedVars
<1>5. /\ Taken(cursor[c])' /\ \A f \in log' \ log : Pull!Before(cursor[c], f)
      /\ Taken(next[c])' /\ \A f \in log' \ log : Pull!Before(next[c], f)
  BY <1>1, <1>3, <1>4 DEF AccountedOf, Taken
<1> QED
  BY <1>1, <1>4, <1>5 DEF AccountedOf, Passed

LEMMA AccountedNext == Accounted /\ Serial /\ Roomy /\ [FeedNext]_allVars => Accounted'
<1> SUFFICES ASSUME Accounted, Serial, Roomy, [FeedNext]_allVars PROVE Accounted'
  OBVIOUS
<1>1. [Next]_vars
  BY DEF FeedNext, allVars
<1>2. PullInv' /\ SerialInv'
  BY <1>1, PullInvNext, SerialInvNext DEF Accounted
<1>3. CASE UNCHANGED feedVars
  BY <1>1, <1>2, <1>3, AccountedPush DEF Accounted
<1>4. ASSUME NEW c \in Clients, Pull!PullStep(c) \/ Pull!Lose(c), UNCHANGED vars PROVE Accounted'
  <2>1. ASSUME NEW d \in Clients PROVE AccountedOf(d)'
    <3>1. CASE d = c
      BY <1>4, <3>1, AccountedPull
    <3>2. CASE d # c
      <4>1. log' = log /\ AccountedOf(d)
        BY <1>4 DEF vars, dbVars, Accounted
      <4> QED
        BY <1>4, <3>2, <4>1, PullFrame DEF Accounted, AccountedOf, Taken, Passed
    <3> QED
      BY <3>1, <3>2
  <2> QED
    BY <1>2, <2>1 DEF Accounted
<1>5. CASE Pull!Regrant /\ UNCHANGED vars
  <2>1. UNCHANGED <<cursor, got, ppc, next, changes, cache, hidden, log>>
    BY <1>5 DEF Pull!Regrant, Pull!pullVars, vars, dbVars
  <2> QED
    BY <1>2, <2>1 DEF Accounted, AccountedOf, Taken, Passed
<1> QED
  BY <1>3, <1>4, <1>5 DEF FeedNext, allVars, Pull!PullNext

LEMMA AccountedSafety == FeedSpec /\ []Serial /\ []Roomy => []Accounted
<1>1. FeedInit => Accounted
  <2> SUFFICES ASSUME FeedInit PROVE Accounted
    OBVIOUS
  <2>1. PullInv /\ SerialInv
    BY PullInvInit, SerialInvInit DEF FeedInit
  <2>2. \A c \in Clients : AccountedOf(c)
    BY DEF FeedInit, Init, Pull!PullInit, AccountedOf, Taken, Pull!NoCache
  <2> QED
    BY <2>1, <2>2 DEF Accounted
<1> QED
  BY <1>1, AccountedNext, PTL DEF FeedSpec

(* A pull passes over nothing it should deliver, whatever responses are    *)
(* lost and whatever is granted and taken away in between, as long as      *)
(* pushes do not overlap and pages have room for what they find.           *)
THEOREM NothingSkippedSafety == FeedSpec /\ []Serial /\ []Roomy => []NothingSkipped
<1>1. Accounted => NothingSkipped
  BY DEF Accounted, AccountedOf, NothingSkipped
<1> QED
  BY <1>1, AccountedSafety, PTL

(* Under the same conditions a client that has read to the end of the log  *)
(* and was refused nothing has exactly the rows of the tables.             *)
THEOREM CaughtUpSafety == FeedSpec /\ []Serial /\ []Roomy => []CaughtUpIsCanonical
<1>1. Accounted => CaughtUpIsCanonical
  <2> SUFFICES ASSUME Accounted, NEW c \in Clients,
                      \A e \in log : Passed(e, c), hidden[c] = {}, NEW r \in Records
               PROVE  Copy(c, r) = row[r]
    BY DEF CaughtUpIsCanonical
  <2>1. got[c] = log
    BY DEF Accounted, AccountedOf, PullInv, FeedTyped
  <2>2. {e \in got[c] : e.rec = r} = History(r) /\ History(r) \subseteq log
    BY <2>1 DEF History
  <2>3. RowsOf(History(r))
    BY <2>2, LogRows DEF Accounted, PullInv
  <2>4. CASE History(r) = {}
    BY <2>2, <2>4 DEF Copy, Accounted, SerialInv, FeedInv, HistoryOK
  <2>5. CASE History(r) # {}
    <3>1. PICK l \in History(r) : IsLast(l, r) /\ row[r] = l.row
      BY <2>5 DEF Accounted, SerialInv, LastIsStored
    <3> DEFINE m == Pull!Last(History(r))
    <3>2. m \in History(r) /\ \A f \in History(r) : f = m \/ Pull!Before(f, m)
      BY <2>3, <2>5, LastExists
    <3>3. l = m
      <4>1. l = m \/ Pull!Before(l, m)
        BY <3>2
      <4>2. l = m \/ Pull!Before(m, l)
        BY <3>1, <3>2 DEF IsLast, Before, Pull!Before
      <4> QED
        BY <2>3, <3>1, <3>2, <4>1, <4>2, BeforeOrder DEF RowsOf
    <3> QED
      BY <2>2, <2>5, <3>1, <3>3 DEF Copy
  <2> QED
    BY <2>4, <2>5
<1> QED
  BY <1>1, AccountedSafety, PTL
=============================================================================
