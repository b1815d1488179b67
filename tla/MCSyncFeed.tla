----------------------------- MODULE MCSyncFeed -----------------------------
(* Small instances of SyncFeed: the requests that clients send. *)
EXTENDS SyncFeed, TLC

CONSTANTS s1, s2,            \* push handlers
          r1, r2, r3, r4,    \* records
          A, B,              \* devices that push
          c1,                \* a client that pulls
          mine, theirs       \* scopes

Mutation(id, op, rec, at, scope) ==
    [id |-> id, rec |-> rec, op |-> op, at |-> at, text |-> ClientText(at, 0, 1),
     scope |-> scope, refs |-> {}, key |-> NoKey, lookup |-> FALSE, gone |-> FALSE]

Push(device, muts) == [api |-> "sync", device |-> device, muts |-> muts]

AllGranted == {A, B} \X {mine, theirs}

(* A push of two records of different scopes, then a deletion. *)
Edits ==
    { Push(A, <<Mutation("a1", "upsert", r1, 0, mine), Mutation("a2", "upsert", r2, 0, theirs)>>),
      Push(B, <<Mutation("b1", "delete", r1, 1, mine)>>) }

(* Two devices, two records. *)
TwoCreates ==
    { Push(A, <<Mutation("a1", "upsert", r1, 0, mine)>>),
      Push(B, <<Mutation("b1", "upsert", r2, 0, mine)>>) }

(* One push of four records: the first page of a pull with limit 2 has one *)
(* row the client may read, the second has two.                            *)
Mixed ==
    { Push(A, <<Mutation("a1", "upsert", r1, 0, mine), Mutation("a2", "upsert", r2, 0, theirs),
                Mutation("a3", "upsert", r3, 0, mine), Mutation("a4", "upsert", r4, 0, mine)>>) }
=============================================================================
