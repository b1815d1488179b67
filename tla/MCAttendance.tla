---------------------------- MODULE MCAttendance ----------------------------
(* A small instance of Attendance: two sessions, two students, one club    *)
(* that the users may write and one they may not.                          *)
EXTENDS Attendance, TLC

CONSTANTS h1, h2,       \* handlers
          s1, n1, n2,   \* session ids: a client's, the server's
          ann, bob,     \* students
          c1, c2,       \* clubs
          p1, q1, p2,   \* record ids of clients
          m1            \* a message that a user writes

AllRecordIds == {p1, q1, p2} \cup ({n1, n2} \X {ann, bob})
OneClub == [st \in {ann, bob} |-> c1]
EveryDay == [c \in {c1, c2} |-> {0, 1}]
OnlyMonday == [st \in {ann, bob} |-> IF st = bob THEN {1} ELSE Inherit]
HandlerSymmetry == Permutations({h1, h2})

Blank == [id |-> "none", type |-> "mark_all_present", club |-> c1, session |-> s1, date |-> 0,
          rec |-> p1, student |-> ann, value |-> FALSE, targets |-> {}, records |-> {},
          status |-> "draft", note |-> FALSE, deleted |-> FALSE]

Requested(device, actions) == [kind |-> "actions", device |-> device, actions |-> actions]
Record(rec, student, note) ==
    [rec |-> rec, session |-> s1, student |-> student, status |-> "unmarked", note |-> note,
     deleted |-> FALSE]

Create == [Blank EXCEPT !.id = "create", !.type = "create_session",
             !.records = {Record(p1, ann, TRUE), Record(q1, bob, TRUE)}]
CreateAgain == [Blank EXCEPT !.id = "again", !.type = "create_session", !.status = "completed",
             !.records = {Record(p2, ann, FALSE)}]
Status(id, value) == [Blank EXCEPT !.id = id, !.type = "set_session_status", !.value = value]
Present == [Blank EXCEPT !.id = "present", !.type = "set_record_status", !.value = "present"]
NoteOf(id, value) == [Blank EXCEPT !.id = id, !.type = "set_record_note", !.value = value]
Mark == [Blank EXCEPT !.id = "mark", !.targets = {p1, p2}]
Delete == [Blank EXCEPT !.id = "delete", !.type = "delete_session"]
SessionNote == [Blank EXCEPT !.id = "snote", !.type = "set_session_note", !.value = TRUE]

AllRequests ==
    { Requested("A", <<Create>>),
      Requested("B", <<CreateAgain>>),
      Requested("A", <<Status("done", "completed"), [Delete EXCEPT !.club = c2]>>),
      Requested("B", <<Status("reopen", "draft"), SessionNote>>),
      Requested("A", <<Mark, Present>>),
      Requested("B", <<NoteOf("note", TRUE), NoteOf("blank", FALSE)>>),
      Requested("A", <<Delete>>),
      [kind |-> "create", club |-> c1, date |-> 0] }

(* Pushes delete the session without its records, write or restore a       *)
(* record and write a message.                                             *)
Session(deleted) ==
    [club |-> c1, date |-> 0, status |-> "draft", note |-> FALSE, deleted |-> deleted]
Message(student, deleted) ==
    [session |-> s1, student |-> student, club |-> c1, deleted |-> deleted]

AllPushes ==
    { [id |-> s1, row |-> Session(TRUE)],
      [id |-> p2, row |-> [session |-> s1, student |-> bob, status |-> "present", note |-> FALSE,
                           deleted |-> FALSE]],
      [id |-> m1, row |-> Message(ann, FALSE)] }
=============================================================================
