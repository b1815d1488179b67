----------------------------- MODULE MCSyncPush -----------------------------
(* Small instances of SyncPush: the requests that clients send. *)
EXTENDS SyncPush, TLC

CONSTANTS s1, s2,            \* handlers
          r1, r2,            \* records
          k1, k2,            \* a student's code, a club's code
          A, B,              \* devices
          mine, theirs       \* scopes

(* An edit made in UTC whose text has one digit. *)
Mutation(id, op, rec, at, refs, key) ==
    [id |-> id, rec |-> rec, op |-> op, at |-> at, text |-> ClientText(at, 0, 1),
     scope |-> mine, refs |-> refs, key |-> key, lookup |-> TRUE, gone |-> FALSE]

(* The same edit by a client in a zone that is offset seconds ahead, with  *)
(* one digit more than the database keeps.                                 *)
Abroad(m, offset) == [m EXCEPT !.text = ClientText(m.at, offset, Digits + 1)]

(* No other holder of the key is looked for. *)
Unasked(m) == [m EXCEPT !.lookup = FALSE]

Push(device, muts) == [api |-> "sync", device |-> device, muts |-> muts]

Act(device, muts) == [api |-> "attendance", device |-> device, muts |-> muts]

AllGranted == {A, B} \X {mine}

HandlerSymmetry == Permutations({s1, s2})

(* One record: created, then edited and deleted by two devices.  With two  *)
(* ticks a second, the edits show second 1 and are pushed in second 2: B   *)
(* is in a zone one second ahead, and has made its edit in second 0.       *)
OneRecord ==
    { Push(A, <<Mutation("create", "upsert", r1, 0, {}, NoKey)>>),
      Push(A, <<Mutation("editA", "upsert", r1, 3, {}, NoKey)>>),
      Push(B, <<Abroad(Mutation("editB", "delete", r1, 1, {}, NoKey), 1)>>) }

(* Two records, written in opposite orders; r2 refers to r1, both may want *)
(* the same student code or the same club code, and one push writes r1     *)
(* twice, the second time from a device whose clock is ahead.  Two         *)
(* mutations are outside the device's scopes.                              *)
TwoRecords ==
    { Push(A, <<Mutation("a1", "upsert", r1, 0, {}, k1),
                Mutation("a2", "upsert", r2, 0, {r1}, NoKey),
                Unasked(Mutation("a3", "upsert", r1, 2, {}, k2))>>),
      Push(B, <<Unasked(Mutation("b2", "upsert", r2, 0, {}, k2)),
                Mutation("b1", "delete", r1, 1, {}, NoKey)>>),
      Push(B, <<[Mutation("b3", "upsert", r1, 1, {}, k1) EXCEPT !.scope = theirs],
                Mutation("b4", "upsert", r2, 1, {}, k1)>>),
      Act(A, <<[Mutation("a5", "upsert", r2, 1, {}, NoKey) EXCEPT !.scope = theirs],
               Mutation("a6", "upsert", r1, 1, {}, NoKey)>>) }

(* Two devices set the status of one attendance session at the same time. *)
Statuses ==
    { Push(A, <<Mutation("create", "upsert", r1, 0, {}, NoKey)>>),
      Act(A, <<Mutation("completed", "upsert", r1, 3, {}, NoKey)>>),
      Act(B, <<Mutation("draft", "upsert", r1, 3, {}, NoKey)>>) }

(* Two devices edit the same version of a record; with four ticks a second *)
(* and one digit in the clients' texts.                                    *)
SameSecond ==
    { Push(A, <<Mutation("create", "upsert", r1, 0, {}, NoKey)>>),
      Push(A, <<Mutation("editA", "upsert", r1, 2, {}, NoKey)>>),
      Push(B, <<Mutation("editB", "upsert", r1, 2, {}, NoKey)>>) }
=============================================================================
