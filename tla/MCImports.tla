----------------------------- MODULE MCImports -----------------------------
(* Two handlers, two clubs with the same initials, two belt ranks, two     *)
(* students of clients; files of up to three rows, in orders that collide, *)
(* among them two names, "b" and "b-", that make one id.  The student s1   *)
(* is stored with a schedule row o1 that the clients named, and one that   *)
(* is deleted, of the same weekday; pushes take the row, give it back, or  *)
(* keep a row of another weekday under an id that an import would make.    *)
EXTENDS Imports, TLC

CONSTANTS h1, h2, c1, c2, r1, r2, s1, s2, o1

MCClubDays == (c1 :> {1, 3}) @@ (c2 :> {})
Keyed(k) == [key |-> k, deleted |-> FALSE]
MCStored == [x \in Ids |-> IF x \in {c1, r1} THEN Keyed(1)
                          ELSE IF x = s1 THEN [key |-> 2, club |-> c1, deleted |-> FALSE]
                          ELSE NoRow]
Slot(x, d, deleted) == [student |-> x, day |-> d, deleted |-> deleted]
MCStoredSlots == (o1 :> Slot(s1, 1, FALSE)) @@ (Own(s1, 1) :> Slot(s1, 1, TRUE))
MCSlotPushes ==
    {[id |-> o1, row |-> Slot(s1, 1, TRUE)], [id |-> o1, row |-> Slot(s1, 3, FALSE)],
     [id |-> Own(s1, 3), row |-> Slot(s1, 7, FALSE)],
     [id |-> Own(s1, 7), row |-> Slot(s1, 7, FALSE)]}

Club(c, n, v) == [id |-> c, name |-> n, key |-> NoCode, valid |-> v]
Rank(r, n, k) == [id |-> r, name |-> n, key |-> k, valid |-> TRUE]
Student(k, c, custom, D) ==
    [key |-> k, club |-> c, rank |-> r1, custom |-> custom, days |-> D, valid |-> TRUE]
Edit(x, k, deleted) ==
    [id |-> x, key |-> k, club |-> c1, rank |-> r1, deleted |-> deleted, valid |-> TRUE]

File(kind, rows) == [kind |-> kind, rows |-> rows]

MCRequests ==
    {File("clubs", <<Club(c2, "b", FALSE), Club(c2, "b", TRUE), Club(c1, "a", TRUE)>>),
     File("belt_ranks", <<Rank(r2, "b", 1), Rank(r2, "b-", 2), Rank(r1, "a", 3)>>),
     File("students", <<Student(1, c1, TRUE, {1, 7}), Student(2, c1, TRUE, {3})>>),
     File("students", <<Student(NoCode, c1, FALSE, {}), Student(1, c1, TRUE, {3})>>),
     File("push", <<Edit(s1, NoCode, TRUE)>>),
     File("push", <<Edit(s2, 1, FALSE)>>)}

MCSymmetry == Permutations(Handlers)
=============================================================================
