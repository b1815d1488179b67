------------------------------ MODULE SyncFeed ------------------------------
(***************************************************************************)
(* Pushes and pulls together: the handlers of SyncPush append to the       *)
(* change log that the handlers of SyncPull read.                          *)
(***************************************************************************)
EXTENDS SyncPush

CONSTANTS Clients, Limit

(* Pull replaces a limit that is not positive by a default. *)
ASSUME FeedAssumption == Limit \in Nat \ {0}

VARIABLES readable, cursor, got, ppc, next, changes, cache, hidden

Pull == INSTANCE SyncPull

feedVars == <<readable, cursor, got, ppc, next, changes, cache, hidden>>
allVars == <<vars, feedVars>>

FeedInit == Init /\ Pull!PullInit

FeedNext ==
    \/ Next /\ UNCHANGED feedVars
    \/ Pull!PullNext /\ UNCHANGED vars
    \/ Pull!Regrant /\ UNCHANGED vars

FeedSpec == FeedInit /\ [][FeedNext]_allVars

(* Clients pull again and again, and the failures of pulls come to an end. *)
(* Nothing is assumed of pushes: a push that hangs leaves the log as it is. *)
FairFeedSpec ==
    /\ FeedSpec
    /\ \A c \in Clients : WF_allVars(Pull!PullStep(c) /\ UNCHANGED vars)
    /\ <>[][\A c \in Clients : ~Pull!Lose(c)]_allVars

-----------------------------------------------------------------------------
FeedTyped ==
    /\ Typed
    /\ readable \subseteq Clients \X Scopes
    /\ cursor \in [Clients -> [ts : Nat, id : Nat]]
    /\ next \in [Clients -> [ts : Nat, id : Nat]]
    /\ got \in [Clients -> SUBSET log]
    /\ hidden \in [Clients -> SUBSET log]
    /\ changes \in [Clients -> SUBSET log]
    /\ ppc \in [Clients -> {"idle", "read", "last", "more"}]
    /\ cache \in [Clients -> [yes : SUBSET Scopes, no : SUBSET Scopes]]

(* The type invariant, with the rule that every row a pull has collected   *)
(* passed the permission check of this very pull (canReadStoredRecord).    *)
FeedTypeOK ==
    /\ TypeOK /\ FeedTyped
    /\ \A c \in Clients : \A e \in changes[c] : e.scope \in cache[c].yes \ cache[c].no

Passed(e, c) == ~Pull!Before(cursor[c], e)

(* No change is passed over: once the client's cursor is at or behind a    *)
(* row of the change log, the client has that row, or was not allowed to   *)
(* read it when it was passed.                                             *)
NothingSkipped ==
    \A c \in Clients : \A e \in log : Passed(e, c) => e \in got[c] \cup hidden[c]

(* No change is delivered twice, although responses get lost and pulls are *)
(* repeated: what is collected for a client is ahead of its cursor, and    *)
(* everything it has is behind.                                            *)
NoDuplicates ==
    \A c \in Clients :
        /\ changes[c] \cap got[c] = {}
        /\ \A e \in got[c] : Passed(e, c)

(* A response never holds more than the client asked for.                  *)
WithinLimit == \A c \in Clients : Cardinality(changes[c]) <= Limit

(* The client's copy of a record: the last row it received. *)
Copy(c, r) ==
    LET rows == {e \in got[c] : e.rec = r} IN IF rows = {} THEN NoRow ELSE Pull!Last(rows).row

(* A client that has read to the end of the log, may read everything and   *)
(* was never refused a row has exactly the committed rows.                 *)
CaughtUpIsCanonical ==
    \A c \in Clients :
        (\A e \in log : Passed(e, c)) /\ hidden[c] = {}
            => \A r \in Records : Copy(c, r) = row[r]

(* The cursor of a client only moves forward. *)
CursorAdvances ==
    [][\A c \in Clients : cursor'[c] = cursor[c] \/ Pull!Before(cursor[c], cursor'[c])]_cursor

(* A client that keeps pulling reaches the end of the log. *)
CatchesUp ==
    \A c \in Clients :
        (\E e \in log : ~Passed(e, c)) ~> (\A e \in log : Passed(e, c))
=============================================================================
