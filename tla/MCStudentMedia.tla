--------------------------- MODULE MCStudentMedia ---------------------------
(* A small instance of StudentMedia: two students of the same name, one    *)
(* batch of two files, and requests that overlap.                          *)
EXTENDS StudentMedia, TLC

CONSTANTS h1, h2,         \* handlers
          s1, s2,         \* students
          m1, m2, m3,     \* pictures
          b,              \* a batch
          c1, c2, none,   \* student codes, and none in a file name
          ann             \* the name of both students

HandlerSymmetry == Permutations({h1, h2})

Code == [s \in {s1, s2} |-> IF s = s1 THEN c1 ELSE c2]
Name == [s \in {s1, s2} |-> ann]

NoPicks == [i \in {b} \X (1 .. 2) |-> NoRow]
Blank == [op |-> "upload", student |-> s1, media |-> m1, image |-> "picture",
          batch |-> b, files |-> <<>>, picks |-> NoPicks, strategy |-> "replace"]
File(code, image) == [code |-> code, name |-> ann, image |-> image]

AllRequests ==
    { Blank,
      [Blank EXCEPT !.image = "broken"],
      [Blank EXCEPT !.op = "delete"],
      [Blank EXCEPT !.op = "primary", !.media = m2],
      [Blank EXCEPT !.op = "analyze", !.files = <<File(c1, "picture"), File(none, "picture")>>],
      [Blank EXCEPT !.op = "analyze", !.files = <<File(c1, "broken"), File(c2, "other")>>],
      [Blank EXCEPT !.op = "confirm", !.picks = [NoPicks EXCEPT ![<<b, 1>>] = s1]],
      [Blank EXCEPT !.op = "confirm", !.strategy = "keep",
                    !.picks = [NoPicks EXCEPT ![<<b, 1>>] = s1, ![<<b, 2>>] = s2]] }
=============================================================================
