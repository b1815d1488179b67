------------------------------ MODULE SyncPull ------------------------------
(***************************************************************************)
(* GET /sync/pull: one handler per client reads the change log in pages,   *)
(* from the client's cursor on, and drops the rows the client may not see. *)
(*                                                                         *)
(* Every page is a query of its own, so pushes commit between two pages of *)
(* one pull as well as between two pulls.  The permissions of a club are   *)
(* looked up once per pull and kept until its end.                         *)
(*                                                                         *)
(* What the client does with a response is not in this repository: it      *)
(* keeps the changes and the new cursor, or never receives them.           *)
(***************************************************************************)
EXTENDS Integers, FiniteSets

CONSTANTS Clients,
          Scopes,
          Limit           \* PullRequest.Limit, at least 1

VARIABLES log,        \* sync_change_log, as committed (written by SyncPush)
          readable,   \* <<client, scope>>: what GetClubPermissions would say
          cursor,     \* the client's "since"
          got,        \* change-log rows the client has received
          ppc,        \* the pull handler's control state
          next,       \* nextSince
          changes,    \* the changes collected so far
          cache,      \* permissionCache: scopes found readable, scopes not
          hidden      \* history: rows left out because they are not readable

pullVars == <<cursor, got, ppc, next, changes, cache, hidden>>

Position(e) == [ts |-> e.ts, id |-> e.id]
Before(p, q) == p.ts < q.ts \/ (p.ts = q.ts /\ p.id < q.id)

(* No instant is before 0 and no id below 1: the empty cursor. *)
Start == [ts |-> 0, id |-> 0]

NoCache == [yes |-> {}, no |-> {}]

PullInit ==
    /\ readable \in SUBSET (Clients \X Scopes)
    /\ cursor = [c \in Clients |-> Start]
    /\ got = [c \in Clients |-> {}]
    /\ ppc = [c \in Clients |-> "idle"]
    /\ next = [c \in Clients |-> Start]
    /\ changes = [c \in Clients |-> {}]
    /\ cache = [c \in Clients |-> NoCache]
    /\ hidden = [c \in Clients |-> {}]

-----------------------------------------------------------------------------
(* The first n of a set of rows in the order of the change log. *)
FirstOf(n, rows) == {e \in rows : Cardinality({f \in rows : Before(f, e)}) < n}

Last(rows) == CHOOSE e \in rows : \A f \in rows : f = e \/ Before(f, e)

(* ListChangesSince: the rows after the cursor, in order, at most Limit. *)
PageByTime(since) == FirstOf(Limit, {e \in log : since.ts < e.ts})
PageAgain(since) == FirstOf(Limit, {e \in log : ~Before(e, since)})
Page(since) == FirstOf(Limit, {e \in log : Before(since, e)})

(* The cursor moves over every row of the page, whether the row is         *)
(* delivered, unreadable, or there was no room for it.                     *)
NextRestarted(c, rows) == IF rows = {} THEN Start ELSE Position(Last(rows))
NextReadable(c, rows) ==
    LET open == {e \in rows : <<c, e.scope>> \in readable}
    IN IF open = {} THEN next[c] ELSE Position(Last(open))
NextAfter(c, rows) == IF rows = {} THEN next[c] ELSE Position(Last(rows))

(* canReadStoredRecord for every row of a page, through the cache. *)
Cached(c, rows) ==
    LET new == {e.scope : e \in rows} \ (cache[c].yes \cup cache[c].no)
        ok == {x \in new : <<c, x>> \in readable}
    IN [yes |-> cache[c].yes \cup ok, no |-> cache[c].no \cup (new \ ok)]

(* The rows of a page the client may see. *)
AllowedUnlessDenied(c, rows) == {e \in rows : e.scope \notin cache[c].no}
Allowed(c, rows) == {e \in rows : e.scope \in Cached(c, rows).yes}

(* The changes after a page: rows that may be read are added as long as    *)
(* the response has room for them.                                         *)
CollectedLive(c, allowed) ==
    changes[c] \cup {e \in FirstOf(Limit - Cardinality(changes[c]), allowed) : ~e.row.deleted}
Collected(c, allowed) == changes[c] \cup FirstOf(Limit - Cardinality(changes[c]), allowed)

-----------------------------------------------------------------------------
StartPull(c) ==
    /\ ppc[c] = "idle"
    /\ ppc' = [ppc EXCEPT ![c] = "read"]
    /\ next' = [next EXCEPT ![c] = cursor[c]]
    /\ changes' = [changes EXCEPT ![c] = {}]
    /\ cache' = [cache EXCEPT ![c] = NoCache]
    /\ UNCHANGED <<readable, cursor, got, hidden>>

(* One turn of the loop in Pull. *)
ReadPage(c) ==
    LET rows == Page(next[c])
        allowed == Allowed(c, rows)
        found == Collected(c, allowed)
    IN /\ ppc[c] = "read"
       /\ next' = [next EXCEPT ![c] = NextAfter(c, rows)]
       /\ cache' = [cache EXCEPT ![c] = Cached(c, rows)]
       /\ changes' = [changes EXCEPT ![c] = found]
       /\ hidden' = [hidden EXCEPT ![c] = @ \cup (rows \ allowed)]
       /\ ppc' = IF Cardinality(rows) < Limit
                 THEN [ppc EXCEPT ![c] = "last"]
                 ELSE IF Cardinality(found) >= Limit
                 THEN [ppc EXCEPT ![c] = "more"]
                 ELSE ppc
       /\ UNCHANGED <<readable, cursor, got>>

(* The response reaches the client; "more" is hasMore. *)
Respond(c) ==
    /\ ppc[c] \in {"last", "more"}
    /\ got' = [got EXCEPT ![c] = @ \cup changes[c]]
    /\ cursor' = [cursor EXCEPT ![c] = next[c]]
    /\ changes' = [changes EXCEPT ![c] = {}]
    /\ cache' = [cache EXCEPT ![c] = NoCache]
    /\ next' = [next EXCEPT ![c] = Start]
    /\ ppc' = [ppc EXCEPT ![c] = "idle"]
    /\ UNCHANGED <<readable, hidden>>

(* The pull fails or its response is lost: the client keeps its cursor.    *)
Lose(c) ==
    /\ ppc[c] # "idle"
    /\ changes' = [changes EXCEPT ![c] = {}]
    /\ cache' = [cache EXCEPT ![c] = NoCache]
    /\ next' = [next EXCEPT ![c] = Start]
    /\ ppc' = [ppc EXCEPT ![c] = "idle"]
    /\ UNCHANGED <<readable, cursor, got, hidden>>

(* Memberships change while clients pull. *)
Regrant ==
    /\ \E x \in Clients \X Scopes :
          readable' = IF x \in readable THEN readable \ {x} ELSE readable \cup {x}
    /\ UNCHANGED pullVars

PullStep(c) == StartPull(c) \/ ReadPage(c) \/ Respond(c)

PullNext == \E c \in Clients : PullStep(c) \/ Lose(c)
=============================================================================
