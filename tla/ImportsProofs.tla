--------------------------- MODULE ImportsProofs ---------------------------
(***************************************************************************)
(* Theorems about Imports, for any number of files and pushes that         *)
(* overlap, clubs, belt ranks and students, whatever the files hold.       *)
(***************************************************************************)
EXTENDS Imports, FiniteSetTheorems, WellFoundedInduction, TLAPS

Labels == {"idle", "next", "references", "lock", "code", "order", "find", "number",
           "duplicate", "write", "schedule", "replace"}
Scheduling == {"schedule", "replace"}
Rows == KeyedRows \cup StudentRows
Empty == [x \in Ids |-> NoRow]

Tabled(f) == f \in [Ids -> Rows \cup {NoRow}] /\ \A x \in Ids : f[x] = NoRow \/ Fits(x, f[x])

TypesOK ==
    /\ Tabled(row)
    /\ counter \in 0 .. MaxCode
    /\ lock \in [Ids \cup UniqueKeys \cup {Counter} -> Handlers \cup {Nobody}]
    /\ received \in 0 .. MaxRequests
    /\ pc \in [Handlers -> Labels]
    /\ req \in [Handlers -> Requests]
    /\ pos \in [Handlers -> Nat \ {0}]
    /\ target \in [Handlers -> Ids \cup {NoId}]
    /\ code \in [Handlers -> 0 .. MaxCode]
    /\ wrote \in [Handlers -> [Ids -> Rows \cup {NoRow}]]
    /\ \A h \in Handlers : Tabled(wrote[h])
    /\ drew \in [Handlers -> 0 .. MaxCode]
    /\ errors \in [Handlers -> SUBSET Nat]
    /\ imported \in [Handlers -> SUBSET (Nat \X Ids)]
    /\ serial \in [Handlers -> 0 .. MaxRequests]
    /\ news \in [Handlers -> SUBSET Ids]

(* A handler is where its request leads ... *)
KindOf(h) ==
    LET kind == req[h].kind
    IN /\ pc[h] = "lock" => kind # "students"
       /\ pc[h] = "code" => kind = "clubs"
       /\ pc[h] = "order" => kind = "belt_ranks"
       /\ pc[h] \in {"references", "number"} => kind \in {"students", "push"}
       /\ pc[h] = "number" => Line(h).key = NoCode
       /\ pc[h] \in {"find"} \cup Scheduling => kind = "students"
       /\ pc[h] = "duplicate" => kind = "push"

(* ... and has the record and the key its next statement is about.         *)
Coded == {"code", "order", "duplicate", "write", "schedule", "replace"}
TargetOf(h) ==
    /\ pc[h] \notin {"idle", "next", "find"} /\ req[h].kind # "students" =>
           target[h] = Line(h).id
    /\ pc[h] \in {"number", "write", "schedule", "replace"} => target[h] \in Ids
    /\ pc[h] \in {"number", "write", "schedule", "replace"} /\ req[h].kind = "students" =>
           target[h] \in Students
    /\ pc[h] \in Coded => code[h] \in Codes
    /\ pc[h] \in Coded \cup {"references"} /\ req[h].kind # "students"
       /\ Line(h).key # NoCode => code[h] = Line(h).key
    /\ pc[h] \in {"write", "schedule", "replace"} /\ Line(h).key # NoCode => code[h] = Line(h).key
    /\ pc[h] \in Scheduling => wrote[h][target[h]] # NoRow

BusyOf(h) ==
    /\ pc[h] = "idle" => wrote[h] = Empty /\ drew[h] = 0 /\ errors[h] = {} /\ imported[h] = {}
    /\ pc[h] # "idle" => serial[h] \in 1 .. received
    /\ pc[h] \notin {"idle", "next"} => ~Done(h)

HandlerOK(h) == KindOf(h) /\ TargetOf(h) /\ BusyOf(h)

TypeInv == TypesOK /\ \A h \in Handlers : HandlerOK(h)

-----------------------------------------------------------------------------
(* Tables and keys. *)
LEMMA IdFacts ==
    /\ \A x \in Clubs : x \in Ids /\ x \notin Students /\ Table(x) = "clubs"
    /\ \A x \in Ranks : x \in Ids /\ x \notin Students /\ Table(x) = "belt_ranks"
    /\ \A x \in Students : x \in Ids /\ x \notin Clubs /\ x \notin Ranks /\ Table(x) = "students"
    /\ \A x \in Ids : x \in Students \/ x \in Clubs \/ x \in Ranks
  BY ImportsAssumption DEF Ids, Table

LEMMA FitsFacts ==
    ASSUME NEW x \in Ids, NEW r, Fits(x, r)
    PROVE  /\ r \in Rows /\ r # NoRow
           /\ r.key \in Codes /\ r.deleted \in BOOLEAN
           /\ UniqueKey(x, r) \in UniqueKeys
<1>1. r \in Rows
  BY DEF Fits, Rows
<1>2. r.key \in Codes /\ r.deleted \in BOOLEAN
  BY <1>1 DEF Rows, KeyedRows, StudentRows
<1>3. Table(x) \in {"clubs", "belt_ranks", "students"}
  BY DEF Table
<1>4. UniqueKey(x, r) \in UniqueKeys
  BY <1>2, <1>3 DEF UniqueKey, KeyOf, UniqueKeys
<1> QED
  BY <1>1, <1>2, <1>4, ImportsAssumption DEF Rows

LEMMA KeyOfInjective ==
    ASSUME NEW s, NEW t, NEW k, NEW l
    PROVE  KeyOf(s, k) = KeyOf(t, l) <=> s = t /\ k = l
  BY DEF KeyOf

LEMMA LineType ==
    ASSUME TypesOK, NEW h \in Handlers, ~Done(h)
    PROVE  /\ pos[h] \in 1 .. Len(req[h].rows) /\ pos[h] \in 1 .. MaxRows
           /\ Len(req[h].rows) \in Nat
           /\ LineOK(req[h].kind, Line(h))
           /\ req[h].kind \in {"clubs", "belt_ranks", "students", "push"}
<1>1. RequestOK(req[h]) /\ pos[h] \in Nat \ {0}
  BY ImportsAssumption DEF TypesOK
<1>2. Len(req[h].rows) \in 0 .. MaxRows /\ MaxRows \in Nat
  BY <1>1, ImportsAssumption DEF RequestOK
<1>3. pos[h] \in 1 .. Len(req[h].rows)
  BY <1>1, <1>2 DEF Done
<1> QED
  BY <1>1, <1>2, <1>3 DEF RequestOK, Line

LEMMA LineIds ==
    ASSUME TypesOK, NEW h \in Handlers, ~Done(h)
    PROVE  /\ req[h].kind # "students" => Line(h).id \in Ids
           /\ req[h].kind = "push" => Line(h).id \in Students
           /\ Line(h).key \in 0 .. MaxCode
           /\ Line(h).key # NoCode => Line(h).key \in Codes
           /\ req[h].kind = "belt_ranks" => Line(h).key # NoCode
           /\ req[h].kind = "clubs" => Line(h).key = NoCode
<1>1. LineOK(req[h].kind, Line(h)) /\ req[h].kind \in {"clubs", "belt_ranks", "students", "push"}
  BY LineType
<1>2. MaxCode \in Nat
  BY ImportsAssumption
<1> QED
  BY <1>1, <1>2 DEF LineOK, Ids, Students, Codes, NoCode

LEMMA ViewType ==
    ASSUME TypesOK, NEW h \in Handlers, NEW x \in Ids
    PROVE  View(h, x) = NoRow \/ Fits(x, View(h, x))
  BY DEF TypesOK, Tabled, View

LEMMA FreshType ==
    ASSUME TypeInv, NEW h \in Handlers, pc[h] \notin {"idle", "next"}
    PROVE  <<serial[h], pos[h]>> \in FreshIds
<1>1. ~Done(h) /\ serial[h] \in 1 .. received /\ received \in 0 .. MaxRequests
  BY DEF TypeInv, TypesOK, HandlerOK, BusyOf
<1>2. pos[h] \in 1 .. MaxRows
  BY <1>1, LineType DEF TypeInv
<1> QED
  BY <1>1, <1>2, ImportsAssumption DEF FreshIds
-----------------------------------------------------------------------------
(* Types: a step of one handler leaves the others where they are.          *)
Same(g) == UNCHANGED <<pc[g], req[g], pos[g], target[g], code[g], wrote[g], drew[g],
                       errors[g], imported[g], serial[g]>>
Others(h) == \A g \in Handlers \ {h} : Same(g)

LEMMA SameOK ==
    ASSUME TypeInv, NEW g \in Handlers, Same(g), received' \in Nat, received <= received'
    PROVE  HandlerOK(g)'
<1>1. HandlerOK(g) /\ received \in Nat
  BY DEF TypeInv, TypesOK
<1>2. Line(g)' = Line(g) /\ Done(g)' = Done(g)
  BY DEF Same, Line, Done
<1>3. KindOf(g)' /\ TargetOf(g)'
  BY <1>1, <1>2 DEF Same, HandlerOK, KindOf, TargetOf
<1>4. BusyOf(g)'
  BY <1>1, <1>2 DEF Same, HandlerOK, BusyOf
<1> QED
  BY <1>3, <1>4 DEF HandlerOK

Global == <<row, counter, received, gone, faults, req, serial>>

LEMMA GoFacts ==
    ASSUME TypesOK, NEW h \in Handlers, NEW l \in Labels, Go(h, l)
    PROVE  /\ UNCHANGED <<Global, pos, errors, imported, news>>
           /\ pc' \in [Handlers -> Labels] /\ pc'[h] = l
           /\ \A g \in Handlers \ {h} : pc'[g] = pc[g]
  BY DEF Go, Global, TypesOK

LEMMA NextLineFacts ==
    ASSUME TypesOK, NEW h \in Handlers, NextLine(h)
    PROVE  /\ UNCHANGED Global
           /\ pc' \in [Handlers -> Labels] /\ pc'[h] = "next"
           /\ pos' \in [Handlers -> Nat \ {0}] /\ pos'[h] = pos[h] + 1
           /\ target' \in [Handlers -> Ids \cup {NoId}] /\ target'[h] = NoId
           /\ code' \in [Handlers -> 0 .. MaxCode] /\ code'[h] = NoCode
           /\ news' \in [Handlers -> SUBSET Ids] /\ news'[h] = {}
           /\ \A g \in Handlers \ {h} : UNCHANGED <<pc[g], pos[g], target[g], code[g], news[g]>>
<1> USE DEF NextLine, TypesOK
<1>1. UNCHANGED Global
  BY DEF Global
<1>2. pc' \in [Handlers -> Labels] /\ pc'[h] = "next" /\ \A g \in Handlers \ {h} : pc'[g] = pc[g]
  BY DEF Labels
<1>3. pos' \in [Handlers -> Nat \ {0}] /\ pos'[h] = pos[h] + 1
      /\ \A g \in Handlers \ {h} : pos'[g] = pos[g]
  OBVIOUS
<1>4. target' \in [Handlers -> Ids \cup {NoId}] /\ target'[h] = NoId
      /\ \A g \in Handlers \ {h} : target'[g] = target[g]
  OBVIOUS
<1>5. code' \in [Handlers -> 0 .. MaxCode] /\ code'[h] = NoCode
      /\ \A g \in Handlers \ {h} : code'[g] = code[g]
  BY ImportsAssumption DEF NoCode
<1>6. news' \in [Handlers -> SUBSET Ids] /\ news'[h] = {}
      /\ \A g \in Handlers \ {h} : news'[g] = news[g]
  OBVIOUS
<1> QED
  BY <1>1, <1>2, <1>3, <1>4, <1>5, <1>6

(* On the next row, a handler relies on nothing but its serial number.     *)
LEMMA NextLineOK ==
    ASSUME TypeInv, NEW h \in Handlers, pc[h] # "idle", NextLine(h)
    PROVE  HandlerOK(h)'
<1>1. pc'[h] = "next" /\ UNCHANGED <<serial, received>>
  BY NextLineFacts DEF TypeInv, Global
<1>2. serial[h] \in 1 .. received
  BY DEF TypeInv, HandlerOK, BusyOf
<1> QED
  BY <1>1, <1>2 DEF HandlerOK, KindOf, TargetOf, BusyOf, Coded, Scheduling

LEMMA RefuseLineFacts ==
    ASSUME TypesOK, NEW h \in Handlers, RefuseLine(h)
    PROVE  /\ NextLine(h) /\ UNCHANGED <<wrote, drew, imported>>
           /\ errors' \in [Handlers -> SUBSET Nat] /\ errors'[h] = errors[h] \cup {pos[h]}
           /\ \A g \in Handlers \ {h} : errors'[g] = errors[g]
  BY DEF RefuseLine, TypesOK

LEMMA CountLineFacts ==
    ASSUME TypesOK, NEW h \in Handlers, CountLine(h), target[h] \in Ids
    PROVE  /\ NextLine(h) /\ UNCHANGED <<drew, errors>>
           /\ imported' \in [Handlers -> SUBSET (Nat \X Ids)]
           /\ imported'[h] = imported[h] \cup {<<pos[h], target[h]>>}
           /\ \A g \in Handlers \ {h} : imported'[g] = imported[g]
  BY DEF CountLine, TypesOK

(* What a statement changes: the handler's own locals, its writes and its locks. *)
Keeps(h) == /\ UNCHANGED Global
            /\ TypesOK' /\ Others(h) /\ HandlerOK(h)'

LEMMA RefusalKeeps ==
    ASSUME TypeInv, NEW h \in Handlers, pc[h] # "idle", RefuseLine(h),
           lock' \in [Ids \cup UniqueKeys \cup {Counter} -> Handlers \cup {Nobody}]
    PROVE  Keeps(h)
<1>1. NextLine(h) /\ UNCHANGED <<wrote, drew, imported>>
      /\ errors' \in [Handlers -> SUBSET Nat] /\ \A g \in Handlers \ {h} : errors'[g] = errors[g]
  BY RefuseLineFacts DEF TypeInv
<1>2. HandlerOK(h)'
  BY <1>1, NextLineOK
<1>3. TypesOK' /\ Others(h)
  BY <1>1, NextLineFacts DEF TypeInv, TypesOK, Others, Same, Global
<1> QED
  BY <1>1, <1>2, <1>3, NextLineFacts DEF Keeps, TypeInv

LEMMA LockedType ==
    ASSUME TypesOK, NEW h \in Handlers, NEW L
    PROVE  Locked(h, L) \in [Ids \cup UniqueKeys \cup {Counter} -> Handlers \cup {Nobody}]
  BY DEF TypesOK, Locked

LEMMA TakeKeeps == ASSUME TypeInv, NEW h \in Handlers, Take(h) PROVE Keeps(h)
<1> USE DEF TypeInv
<1>1. pc[h] = "next" /\ ~Done(h) /\ lock' = lock /\ HandlerOK(h)
  BY DEF Take
<1>2. CASE pos[h] \in errors[h]
  <2>1. NextLine(h) /\ UNCHANGED <<wrote, drew, errors, imported>>
    BY <1>2 DEF Take
  <2>2. TypesOK' /\ Others(h)
    BY <1>1, <2>1, NextLineFacts DEF TypesOK, Others, Same, Global
  <2> QED
    BY <1>1, <2>1, <2>2, NextLineOK, NextLineFacts DEF Keeps
<1>3. CASE pos[h] \notin errors[h] /\ req[h].kind = "students"
  <2>1. Go(h, "references") /\ UNCHANGED <<target, code, wrote, drew>>
    BY <1>3 DEF Take
  <2>2. TypesOK' /\ Others(h) /\ pc'[h] = "references" /\ UNCHANGED <<Global, pos>>
    BY <1>1, <2>1, GoFacts DEF TypesOK, Others, Same, Global, Labels
  <2>3. HandlerOK(h)'
    <3>1. UNCHANGED <<Line(h), Done(h), req[h], serial[h], received>>
      BY <2>2 DEF Line, Done, Global
    <3>2. KindOf(h)'
      BY <1>3, <2>2, <3>1 DEF KindOf
    <3>3. TargetOf(h)'
      BY <1>3, <2>2, <3>1 DEF TargetOf, Coded, Scheduling
    <3>4. BusyOf(h)'
      BY <1>1, <2>2, <3>1 DEF HandlerOK, BusyOf
    <3> QED
      BY <3>2, <3>3, <3>4 DEF HandlerOK
  <2> QED
    BY <2>2, <2>3 DEF Keeps
<1>4. CASE pos[h] \notin errors[h] /\ req[h].kind # "students"
  <2>1. Go(h, "lock") /\ UNCHANGED <<code, wrote, drew>>
        /\ target' = [target EXCEPT ![h] = Line(h).id]
    BY <1>4 DEF Take
  <2>2. UNCHANGED <<Global, pos, errors, imported, news>> /\ pc' \in [Handlers -> Labels]
        /\ pc'[h] = "lock" /\ \A g \in Handlers \ {h} : pc'[g] = pc[g]
    BY <2>1, GoFacts DEF Labels
  <2>3. Line(h).id \in Ids
    BY <1>1, <1>4, LineIds
  <2>4. target' \in [Handlers -> Ids \cup {NoId}] /\ target'[h] = Line(h).id
        /\ \A g \in Handlers \ {h} : target'[g] = target[g]
    BY <2>1, <2>3 DEF TypesOK
  <2>5. TypesOK' /\ Others(h)
    BY <1>1, <2>1, <2>2, <2>4 DEF TypesOK, Others, Same, Global
  <2>6. HandlerOK(h)'
    BY <1>1, <1>4, <2>2, <2>4 DEF HandlerOK, KindOf, TargetOf, BusyOf, Global, Line, Done, Coded, Scheduling
  <2> QED
    BY <2>2, <2>5, <2>6 DEF Keeps
<1> QED
  BY <1>2, <1>3, <1>4

LEMMA LockRowKeeps == ASSUME TypeInv, NEW h \in Handlers, LockRow(h) PROVE Keeps(h)
<1> USE DEF TypeInv
<1> DEFINE kind == req[h].kind
           label == CASE kind = "clubs" -> "code"
                      [] kind = "belt_ranks" -> "order"
                      [] OTHER -> "references"
           first == IF kind = "clubs" THEN 1 ELSE Line(h).key
<1>1. pc[h] = "lock" /\ HandlerOK(h) /\ ~Done(h) /\ kind # "students" /\ target[h] = Line(h).id
  BY DEF LockRow, HandlerOK, BusyOf, KindOf, TargetOf
<1>2. lock' \in [Ids \cup UniqueKeys \cup {Counter} -> Handlers \cup {Nobody}]
  BY LockedType DEF LockRow, TypesOK
<1>3. \/ Go(h, label) /\ code' = [code EXCEPT ![h] = first] /\ UNCHANGED <<target, wrote, drew>>
      \/ RefuseLine(h)
  BY DEF LockRow
<1>4. CASE RefuseLine(h)
  BY <1>1, <1>2, <1>4, RefusalKeeps
<1>5. CASE Go(h, label) /\ code' = [code EXCEPT ![h] = first] /\ UNCHANGED <<target, wrote, drew>>
  <2>1. label \in {"code", "order", "references"} /\ label \in Labels
        /\ (kind = "clubs" => label = "code") /\ (kind = "belt_ranks" => label = "order")
        /\ (kind = "push" => label = "references")
    BY DEF Labels
  <2> HIDE DEF label
  <2>2. UNCHANGED <<Global, pos, errors, imported, news>> /\ pc' \in [Handlers -> Labels]
        /\ pc'[h] = label /\ \A g \in Handlers \ {h} : pc'[g] = pc[g]
    BY <1>5, <2>1, GoFacts
  <2>3. first \in 0 .. MaxCode /\ (kind # "push" => first \in Codes)
        /\ (kind # "clubs" => first = Line(h).key)
    BY <1>1, LineIds, LineType, ImportsAssumption DEF Codes
  <2>4. code' \in [Handlers -> 0 .. MaxCode] /\ code'[h] = first
        /\ \A g \in Handlers \ {h} : code'[g] = code[g]
    BY <1>5, <2>3 DEF TypesOK
  <2>5. TypesOK' /\ Others(h)
    BY <1>2, <1>5, <2>2, <2>4 DEF TypesOK, Others, Same, Global
  <2>6. kind \in {"clubs", "belt_ranks", "push"}
    BY <1>1, LineType
  <2>7. UNCHANGED <<Line(h), Done(h), req[h], target[h], serial[h], received>>
    BY <1>5, <2>2 DEF Line, Done, Global
  <2>8. kind = "clubs" => Line(h).key = NoCode
    BY <1>1, LineIds
  <2> HIDE DEF first
  <2>9. KindOf(h)' /\ BusyOf(h)'
    BY <1>1, <2>1, <2>2, <2>6, <2>7 DEF HandlerOK, KindOf, BusyOf, Scheduling
  <2>10. TargetOf(h)'
    BY <1>1, <2>1, <2>2, <2>3, <2>4, <2>6, <2>7, <2>8 DEF HandlerOK, TargetOf, Coded, Scheduling
  <2> QED
    BY <2>2, <2>5, <2>9, <2>10 DEF Keeps, HandlerOK
<1> QED
  BY <1>3, <1>4, <1>5

(* A statement that reads, and then knows where to go on.                  *)
LEMMA GoKeeps ==
    ASSUME TypeInv, NEW h \in Handlers, NEW l \in Labels \ {"idle", "next"}, Go(h, l),
           pc[h] \notin {"idle", "next"}, UNCHANGED wrote,
           lock' \in [Ids \cup UniqueKeys \cup {Counter} -> Handlers \cup {Nobody}],
           target' \in [Handlers -> Ids \cup {NoId}], \A g \in Handlers \ {h} : target'[g] = target[g],
           code' \in [Handlers -> 0 .. MaxCode], \A g \in Handlers \ {h} : code'[g] = code[g],
           drew' \in [Handlers -> 0 .. MaxCode], \A g \in Handlers \ {h} : drew'[g] = drew[g],
           KindOf(h)', TargetOf(h)'
    PROVE  Keeps(h)
<1>1. UNCHANGED <<Global, pos, errors, imported, news>> /\ pc' \in [Handlers -> Labels]
      /\ pc'[h] = l /\ \A g \in Handlers \ {h} : pc'[g] = pc[g]
  BY GoFacts DEF TypeInv
<1>2. TypesOK' /\ Others(h)
  BY <1>1 DEF TypeInv, TypesOK, Others, Same, Global
<1>3. BusyOf(h)'
  BY <1>1 DEF TypeInv, HandlerOK, BusyOf, Done, Global
<1> QED
  BY <1>1, <1>2, <1>3 DEF Keeps, HandlerOK

LEMMA TryCodeKeeps == ASSUME TypeInv, NEW h \in Handlers, TryCode(h) PROVE Keeps(h)
<1> USE DEF TypeInv
<1>1. pc[h] = "code" /\ HandlerOK(h) /\ ~Done(h) /\ req[h].kind = "clubs"
      /\ UNCHANGED <<lock, target, wrote, drew>> /\ target[h] = Line(h).id /\ code[h] \in Codes
  BY DEF TryCode, HandlerOK, KindOf, TargetOf, BusyOf, Coded
<1>2. Line(h).id \in Ids /\ Line(h).key = NoCode
  BY <1>1, LineIds
<1>3. PICK l \in {"code", "write"} : Go(h, l)
  BY DEF TryCode
<1>4. /\ code' \in [Handlers -> 0 .. MaxCode] /\ code'[h] \in Codes
      /\ \A g \in Handlers \ {h} : code'[g] = code[g]
  <2>1. CASE code[h] < MaxCode /\ code' = [code EXCEPT ![h] = @ + 1]
    BY <1>1, <2>1, ImportsAssumption DEF TypesOK, Codes
  <2>2. CASE UNCHANGED code
    BY <1>1, <2>2 DEF TypesOK
  <2> QED
    BY <2>1, <2>2 DEF TryCode
<1>5. pc'[h] = l /\ UNCHANGED <<req, pos>>
  BY <1>3, GoFacts DEF Labels, Global
<1>6. Line(h)' = Line(h) /\ req'[h].kind = "clubs" /\ target'[h] = target[h]
  BY <1>1, <1>5 DEF Line
<1>7. KindOf(h)'
  BY <1>5, <1>6 DEF KindOf, Scheduling
<1>8. TargetOf(h)'
  BY <1>1, <1>2, <1>4, <1>5, <1>6 DEF TargetOf, Coded, Scheduling
<1> QED
  BY <1>1, <1>3, <1>4, <1>7, <1>8, GoKeeps DEF TypesOK, Labels

LEMMA CheckOrderKeeps == ASSUME TypeInv, NEW h \in Handlers, CheckOrder(h) PROVE Keeps(h)
<1> USE DEF TypeInv
<1>1. pc[h] = "order" /\ HandlerOK(h) /\ ~Done(h) /\ req[h].kind = "belt_ranks"
      /\ UNCHANGED lock /\ target[h] = Line(h).id
  BY DEF CheckOrder, HandlerOK, KindOf, TargetOf, BusyOf
<1>2. Line(h).id \in Ids /\ Line(h).key \in Codes /\ code[h] = Line(h).key
  BY <1>1, LineIds DEF HandlerOK, TargetOf, Coded
<1>3. CASE RefuseLine(h)
  BY <1>1, <1>3, RefusalKeeps DEF TypesOK
<1>4. CASE Go(h, "write") /\ UNCHANGED <<target, code, wrote, drew>>
  <2>1. pc'[h] = "write" /\ UNCHANGED <<req, pos>>
    BY <1>4, GoFacts DEF Labels, Global
  <2>2. Line(h)' = Line(h) /\ req'[h].kind = "belt_ranks" /\ target'[h] = target[h] /\ code'[h] = code[h]
    BY <1>1, <1>4, <2>1 DEF Line
  <2>3. KindOf(h)'
    BY <2>1, <2>2 DEF KindOf, Scheduling
  <2>4. TargetOf(h)'
    BY <1>1, <1>2, <2>1, <2>2 DEF TargetOf, Coded, Scheduling
  <2> QED
    BY <1>1, <1>4, <2>3, <2>4, GoKeeps DEF TypesOK, Labels
<1> QED
  BY <1>3, <1>4 DEF CheckOrder

LEMMA ReferencesKeeps == ASSUME TypeInv, NEW h \in Handlers, References(h) PROVE Keeps(h)
<1> USE DEF TypeInv
<1> DEFINE kind == req[h].kind
           label == IF kind = "students" THEN "find"
                    ELSE IF Line(h).key = NoCode THEN "number" ELSE "duplicate"
<1>1. pc[h] = "references" /\ HandlerOK(h) /\ ~Done(h) /\ kind \in {"students", "push"}
      /\ UNCHANGED lock
  BY DEF References, HandlerOK, KindOf, BusyOf
<1>2. /\ kind = "push" => target[h] = Line(h).id /\ Line(h).id \in Ids
      /\ Line(h).key # NoCode => Line(h).key \in Codes
      /\ kind = "push" /\ Line(h).key # NoCode => code[h] = Line(h).key
  BY <1>1, LineIds DEF HandlerOK, TargetOf, Coded
<1>3. CASE RefuseLine(h)
  BY <1>1, <1>3, RefusalKeeps DEF TypesOK
<1>4. CASE Go(h, label) /\ UNCHANGED <<target, code, wrote, drew>>
  <2>1. label \in Labels \ {"idle", "next"}
    BY DEF Labels
  <2>2. pc'[h] = label /\ UNCHANGED <<req, pos>>
    BY <1>4, <2>1, GoFacts DEF Global
  <2>3. Line(h)' = Line(h) /\ req'[h].kind = kind /\ target'[h] = target[h] /\ code'[h] = code[h]
    BY <1>1, <1>4, <2>2 DEF Line
  <2>4. KindOf(h)'
    BY <1>1, <2>2, <2>3 DEF KindOf, Scheduling
  <2>5. TargetOf(h)'
    BY <1>1, <1>2, <2>2, <2>3 DEF TargetOf, Coded, Scheduling
  <2> HIDE DEF label
  <2> QED
    BY <1>1, <1>4, <2>1, <2>4, <2>5, GoKeeps DEF TypesOK
<1> QED
  BY <1>3, <1>4 DEF References

LEMMA FindStudentKeeps == ASSUME TypeInv, NEW h \in Handlers, FindStudent(h) PROVE Keeps(h)
<1> USE DEF TypeInv
<1> DEFINE found == ActiveHolders(h, NoId, KeyOf("students", Line(h).key))
           x == IF found # {} THEN CHOOSE y \in found : TRUE ELSE <<serial[h], pos[h]>>
           label == IF Line(h).key = NoCode THEN "number" ELSE "write"
<1>1. pc[h] = "find" /\ HandlerOK(h) /\ ~Done(h) /\ req[h].kind = "students"
      /\ UNCHANGED <<lock, wrote, drew>>
  BY DEF FindStudent, HandlerOK, KindOf, BusyOf
<1>2. Line(h).key \in 0 .. MaxCode /\ (Line(h).key # NoCode => Line(h).key \in Codes)
  BY <1>1, LineIds
<1>3. x \in Students /\ x \in Ids
  <2>1. \A y \in found : y \in Ids /\ Table(y) = "students"
    BY KeyOfInjective DEF ActiveHolders, UniqueKey
  <2>2. \A y \in found : y \in Students
    BY <2>1, IdFacts
  <2>3. <<serial[h], pos[h]>> \in Students
    BY <1>1, FreshType DEF Students
  <2> HIDE DEF found
  <2> QED
    BY <2>2, <2>3, IdFacts
<1>4. target' = [target EXCEPT ![h] = x] /\ code' = [code EXCEPT ![h] = Line(h).key] /\ Go(h, label)
  BY DEF FindStudent
<1> HIDE DEF x
<1>5. target' \in [Handlers -> Ids \cup {NoId}] /\ target'[h] = x
      /\ \A g \in Handlers \ {h} : target'[g] = target[g]
  BY <1>3, <1>4 DEF TypesOK
<1>6. code' \in [Handlers -> 0 .. MaxCode] /\ code'[h] = Line(h).key
      /\ \A g \in Handlers \ {h} : code'[g] = code[g]
  BY <1>2, <1>4 DEF TypesOK
<1>7. label \in {"number", "write"} /\ label \in Labels \ {"idle", "next"}
  BY DEF Labels
<1>8. pc'[h] = label /\ UNCHANGED <<req, pos>>
  BY <1>4, <1>7, GoFacts DEF Global
<1>9. Line(h)' = Line(h) /\ req'[h].kind = "students"
  BY <1>1, <1>8 DEF Line
<1>10. KindOf(h)'
  BY <1>8, <1>9 DEF KindOf
<1>11. TargetOf(h)'
  BY <1>2, <1>3, <1>5, <1>6, <1>8, <1>9 DEF TargetOf, Coded, Scheduling
<1> HIDE DEF label
<1> QED
  BY <1>1, <1>4, <1>5, <1>6, <1>7, <1>10, <1>11, GoKeeps DEF TypesOK

LEMMA DrawType ==
    ASSUME TypesOK, NEW h \in Handlers, Draw(h), drew'[h] <= MaxCode
    PROVE  /\ drew' \in [Handlers -> 0 .. MaxCode] /\ drew'[h] \in Codes
           /\ drew'[h] = (IF drew[h] # 0 THEN drew[h] + 1 ELSE counter + 1)
           /\ \A g \in Handlers \ {h} : drew'[g] = drew[g]
<1>1. MaxCode \in Nat
  BY ImportsAssumption
<1> DEFINE d == IF drew[h] # 0 THEN drew[h] + 1 ELSE counter + 1
<1>2. drew' = [drew EXCEPT ![h] = d]
  BY DEF Draw
<1>3. d \in Nat \ {0}
  BY <1>1 DEF TypesOK
<1> HIDE DEF d
<1>4. drew'[h] = d
  BY <1>2 DEF TypesOK
<1>5. d \in Codes /\ d \in 0 .. MaxCode
  BY <1>1, <1>3, <1>4 DEF Codes
<1> QED
  BY <1>2, <1>4, <1>5 DEF TypesOK, d

LEMMA NumberStudentKeeps == ASSUME TypeInv, NEW h \in Handlers, NumberStudent(h) PROVE Keeps(h)
<1> USE DEF TypeInv
<1> DEFINE label == IF req[h].kind = "push" THEN "duplicate" ELSE "write"
<1>1. /\ pc[h] = "number" /\ HandlerOK(h) /\ ~Done(h) /\ req[h].kind \in {"students", "push"}
      /\ UNCHANGED <<target, wrote>> /\ Line(h).key = NoCode /\ target[h] \in Ids
      /\ req[h].kind = "students" => target[h] \in Students
      /\ req[h].kind = "push" => target[h] = Line(h).id
  BY DEF NumberStudent, HandlerOK, KindOf, TargetOf, BusyOf
<1>2. drew' \in [Handlers -> 0 .. MaxCode] /\ drew'[h] \in Codes
      /\ \A g \in Handlers \ {h} : drew'[g] = drew[g]
  BY DrawType DEF NumberStudent
<1>3. lock' \in [Ids \cup UniqueKeys \cup {Counter} -> Handlers \cup {Nobody}]
  BY LockedType DEF NumberStudent, Draw
<1>4. code' \in [Handlers -> 0 .. MaxCode] /\ code'[h] \in Codes
      /\ \A g \in Handlers \ {h} : code'[g] = code[g]
  BY <1>2 DEF NumberStudent, TypesOK
<1>5. Go(h, label) /\ label \in Labels \ {"idle", "next"}
  BY DEF NumberStudent, Labels
<1>6. pc'[h] = label /\ UNCHANGED <<req, pos>>
  BY <1>5, GoFacts DEF Global
<1>7. Line(h)' = Line(h) /\ req'[h].kind = req[h].kind /\ target'[h] = target[h]
  BY <1>1, <1>6 DEF Line
<1>8. KindOf(h)'
  BY <1>1, <1>6, <1>7 DEF KindOf, Scheduling
<1>9. TargetOf(h)'
  BY <1>1, <1>4, <1>6, <1>7 DEF TargetOf, Coded, Scheduling
<1> HIDE DEF label
<1> QED
  BY <1>1, <1>2, <1>3, <1>4, <1>5, <1>8, <1>9, GoKeeps DEF TypesOK

LEMMA CheckDuplicateKeeps == ASSUME TypeInv, NEW h \in Handlers, CheckDuplicate(h) PROVE Keeps(h)
<1> USE DEF TypeInv
<1>1. pc[h] = "duplicate" /\ HandlerOK(h) /\ ~Done(h) /\ req[h].kind = "push"
      /\ UNCHANGED lock /\ target[h] = Line(h).id /\ code[h] \in Codes
      /\ (Line(h).key # NoCode => code[h] = Line(h).key)
  BY DEF CheckDuplicate, HandlerOK, KindOf, TargetOf, BusyOf, Coded
<1>2. Line(h).id \in Ids
  BY <1>1, LineIds
<1>3. CASE RefuseLine(h)
  BY <1>1, <1>3, RefusalKeeps DEF TypesOK
<1>4. CASE Go(h, "write") /\ UNCHANGED <<target, code, wrote, drew>>
  <2>1. pc'[h] = "write" /\ UNCHANGED <<req, pos>>
    BY <1>4, GoFacts DEF Labels, Global
  <2>2. Line(h)' = Line(h) /\ req'[h].kind = "push" /\ target'[h] = target[h] /\ code'[h] = code[h]
    BY <1>1, <1>4, <2>1 DEF Line
  <2>3. KindOf(h)'
    BY <2>1, <2>2 DEF KindOf, Scheduling
  <2>4. TargetOf(h)'
    BY <1>1, <1>2, <2>1, <2>2 DEF TargetOf, Coded, Scheduling
  <2> QED
    BY <1>1, <1>4, <2>3, <2>4, GoKeeps DEF TypesOK, Labels
<1> QED
  BY <1>3, <1>4 DEF CheckDuplicate

(* What is written: a row of the record's own table, with the key found.   *)
LEMMA NewRowType ==
    ASSUME TypeInv, NEW h \in Handlers, pc[h] = "write"
    PROVE  /\ target[h] \in Ids /\ code[h] \in Codes
           /\ Fits(target[h], NewRow(h)) /\ NewRow(h).key = code[h]
           /\ req[h].kind \in {"clubs", "belt_ranks", "students", "push"}
           /\ req[h].kind \in {"clubs", "belt_ranks"} =>
                  target[h] \notin Students /\ ~NewRow(h).deleted
           /\ req[h].kind \in {"students", "push"} => target[h] \in Students
           /\ req[h].kind = "students" => ~NewRow(h).deleted
<1> USE DEF TypeInv
<1> DEFINE x == target[h]
<1>1. HandlerOK(h) /\ ~Done(h) /\ x \in Ids /\ code[h] \in Codes
      /\ (req[h].kind = "students" => x \in Students)
      /\ (req[h].kind # "students" => x = Line(h).id)
  BY DEF HandlerOK, TargetOf, BusyOf, Coded
<1>2. LineOK(req[h].kind, Line(h)) /\ req[h].kind \in {"clubs", "belt_ranks", "students", "push"}
  BY <1>1, LineType
<1>3. /\ req[h].kind \in {"clubs", "belt_ranks"} => x \notin Students
      /\ req[h].kind \in {"students", "push"} => x \in Students /\ Line(h).club \in Clubs
      /\ req[h].kind = "push" => Line(h).deleted \in BOOLEAN
  BY <1>1, <1>2, IdFacts, LineIds DEF LineOK
<1>4. CASE x \notin Students
  <2>1. NewRow(h) = [key |-> code[h], deleted |-> FALSE]
    BY <1>4 DEF NewRow
  <2>2. NewRow(h) \in KeyedRows
    BY <1>1, <2>1 DEF KeyedRows
  <2> QED
    BY <1>1, <1>2, <1>3, <1>4, <2>1, <2>2 DEF Fits
<1>5. CASE x \in Students
  <2> DEFINE deleted == req[h].kind = "push" /\ Line(h).deleted
  <2>1. NewRow(h) = [key |-> code[h], club |-> Line(h).club, deleted |-> deleted]
    BY <1>5 DEF NewRow
  <2>2. req[h].kind \in {"students", "push"} /\ Line(h).club \in Clubs
    BY <1>2, <1>3, <1>5
  <2>3. deleted \in BOOLEAN /\ (req[h].kind = "students" => ~deleted)
    BY <1>3
  <2> HIDE DEF deleted
  <2>5. NewRow(h) \in StudentRows
    BY <1>1, <2>1, <2>2, <2>3 DEF StudentRows
  <2>6. NewRow(h).key = code[h] /\ NewRow(h).deleted = deleted
    BY <2>1
  <2> QED
    BY <1>1, <1>2, <1>3, <1>5, <2>2, <2>3, <2>5, <2>6 DEF Fits
<1> QED
  BY <1>4, <1>5

Puts(h, x, r) == wrote' = [wrote EXCEPT ![h] = [@ EXCEPT ![x] = r]]

LEMMA WroteType ==
    ASSUME TypesOK, NEW h \in Handlers, NEW x \in Ids, NEW r, Fits(x, r), Puts(h, x, r)
    PROVE  /\ wrote' \in [Handlers -> [Ids -> Rows \cup {NoRow}]]
           /\ \A g \in Handlers : Tabled(wrote'[g])
           /\ wrote'[h][x] = r
           /\ \A y \in Ids \ {x} : wrote'[h][y] = wrote[h][y]
           /\ \A g \in Handlers \ {h} : wrote'[g] = wrote[g]
<1>1. r \in Rows
  BY FitsFacts
<1>2. wrote \in [Handlers -> [Ids -> Rows \cup {NoRow}]] /\ \A g \in Handlers : Tabled(wrote[g])
  BY DEF TypesOK
<1>3. wrote'[h] = [wrote[h] EXCEPT ![x] = r] /\ \A g \in Handlers \ {h} : wrote'[g] = wrote[g]
  BY <1>2 DEF Puts
<1>4. wrote'[h] \in [Ids -> Rows \cup {NoRow}] /\ wrote'[h][x] = r
      /\ \A y \in Ids \ {x} : wrote'[h][y] = wrote[h][y]
  BY <1>1, <1>2, <1>3
<1>5. Tabled(wrote'[h])
  BY <1>2, <1>4 DEF Tabled
<1>6. wrote' \in [Handlers -> [Ids -> Rows \cup {NoRow}]]
  BY <1>1, <1>2 DEF Puts
<1> QED
  BY <1>2, <1>3, <1>4, <1>5, <1>6

LEMMA WriteRowKeeps == ASSUME TypeInv, NEW h \in Handlers, WriteRow(h) PROVE Keeps(h)
<1> USE DEF TypeInv
<1> DEFINE x == target[h]
           r == NewRow(h)
<1>1. pc[h] = "write" /\ HandlerOK(h) /\ ~Done(h) /\ x \in Ids /\ Fits(x, r) /\ code[h] \in Codes
  BY NewRowType DEF WriteRow, HandlerOK, BusyOf
<1>2. wrote' = [wrote EXCEPT ![h] = [@ EXCEPT ![x] = r]]
  BY DEF WriteRow
<1>3. lock' \in [Ids \cup UniqueKeys \cup {Counter} -> Handlers \cup {Nobody}]
  BY LockedType DEF WriteRow
<1>4. /\ wrote' \in [Handlers -> [Ids -> Rows \cup {NoRow}]]
      /\ \A g \in Handlers : Tabled(wrote'[g])
      /\ wrote'[h][x] = r
      /\ \A g \in Handlers \ {h} : wrote'[g] = wrote[g]
  <2>1. TypesOK /\ x \in Ids /\ Fits(x, r) /\ Puts(h, x, r)
    BY <1>1, <1>2 DEF Puts
  <2> QED
    BY ONLY <2>1, h \in Handlers, WroteType
<1>5. r # NoRow
  BY <1>1, FitsFacts
<1>6. CASE req[h].kind = "students"
  <2>1. Go(h, "schedule") /\ UNCHANGED <<target, code, drew>>
    BY <1>6 DEF WriteRow
  <2>2. UNCHANGED <<Global, pos, errors, imported, news>> /\ pc' \in [Handlers -> Labels]
        /\ pc'[h] = "schedule" /\ \A g \in Handlers \ {h} : pc'[g] = pc[g]
    BY <2>1, GoFacts DEF Labels
  <2>3. TypesOK' /\ Others(h)
    BY <1>3, <1>4, <2>1, <2>2 DEF TypesOK, Others, Same, Global
  <2>4. UNCHANGED <<Line(h), Done(h), req[h], target[h], code[h], serial[h], received>>
    BY <2>1, <2>2 DEF Line, Done, Global
  <2>5. KindOf(h)' /\ BusyOf(h)'
    BY <1>1, <1>6, <2>2, <2>4 DEF KindOf, BusyOf, HandlerOK
  <2>6. TargetOf(h)'
    BY <1>1, <1>4, <1>5, <1>6, <2>2, <2>4, NewRowType DEF TargetOf, HandlerOK, Coded
  <2> QED
    BY <2>2, <2>3, <2>5, <2>6 DEF Keeps, HandlerOK
<1>7. CASE req[h].kind # "students"
  <2>1. CountLine(h)
    BY <1>7 DEF WriteRow
  <2>2. NextLine(h) /\ UNCHANGED <<drew, errors>>
        /\ imported' \in [Handlers -> SUBSET (Nat \X Ids)]
        /\ \A g \in Handlers \ {h} : imported'[g] = imported[g]
    BY <1>1, <2>1, CountLineFacts
  <2>3. TypesOK' /\ Others(h)
    BY <1>3, <1>4, <2>2, NextLineFacts DEF TypesOK, Others, Same, Global
  <2> QED
    BY <1>1, <2>2, <2>3, NextLineOK, NextLineFacts DEF Keeps
<1> QED
  BY <1>6, <1>7

(* While its schedule is replaced, the student is written.                 *)
LEMMA ScheduledFacts ==
    ASSUME TypeInv, NEW h \in Handlers, pc[h] \in Scheduling
    PROVE  /\ HandlerOK(h) /\ ~Done(h) /\ req[h].kind = "students"
           /\ target[h] \in Students /\ target[h] \in Ids
           /\ wrote[h][target[h]] \in StudentRows /\ wrote[h][target[h]] # NoRow
           /\ Line(h).days \subseteq Days
<1> USE DEF TypeInv
<1>1. HandlerOK(h) /\ ~Done(h) /\ req[h].kind = "students" /\ target[h] \in Students
      /\ target[h] \in Ids /\ wrote[h][target[h]] # NoRow
  BY DEF HandlerOK, KindOf, TargetOf, BusyOf, Scheduling
<1>2. Line(h).days \subseteq Days
  BY <1>1, LineType DEF LineOK
<1>3. wrote[h][target[h]] \in StudentRows
  BY <1>1 DEF TypesOK, Tabled, Fits
<1> QED
  BY <1>1, <1>2, <1>3

LEMMA RefuseScheduleKeeps ==
    ASSUME TypeInv, NEW h \in Handlers, RefuseSchedule(h)
    PROVE  Keeps(h)
  BY RefusalKeeps DEF RefuseSchedule, TypeInv, TypesOK

LEMMA ReadScheduleKeeps == ASSUME TypeInv, NEW h \in Handlers, ReadSchedule(h) PROVE Keeps(h)
<1> USE DEF TypeInv
<1>1. pc[h] = "schedule" /\ Go(h, "replace") /\ UNCHANGED <<lock, target, code, wrote, drew>>
  BY DEF ReadSchedule
<1>2. HandlerOK(h) /\ req[h].kind = "students" /\ wrote[h][target[h]] # NoRow
      /\ target[h] \in Students /\ target[h] \in Ids
  BY <1>1, ScheduledFacts DEF Scheduling
<1>3. pc'[h] = "replace" /\ UNCHANGED <<req, pos, target, code, wrote>>
  BY <1>1, GoFacts DEF Labels, Global
<1>4. Line(h)' = Line(h)
  BY <1>3 DEF Line
<1>5. KindOf(h)'
  BY <1>2, <1>3 DEF KindOf
<1>6. TargetOf(h)'
  BY <1>1, <1>2, <1>3, <1>4 DEF HandlerOK, TargetOf, Coded, Scheduling
<1> QED
  BY <1>1, <1>5, <1>6, GoKeeps DEF TypesOK, Labels

LEMMA ReplaceScheduleKeeps ==
    ASSUME TypeInv, NEW h \in Handlers, ReplaceSchedule(h)
    PROVE  Keeps(h)
<1> USE DEF TypeInv
<1>1. pc[h] = "replace" /\ UNCHANGED <<lock, wrote>> /\ CountLine(h) /\ target[h] \in Ids
  BY ScheduledFacts DEF ReplaceSchedule, Scheduling
<1>2. NextLine(h) /\ UNCHANGED <<drew, errors>>
      /\ imported' \in [Handlers -> SUBSET (Nat \X Ids)]
      /\ \A g \in Handlers \ {h} : imported'[g] = imported[g]
  BY <1>1, CountLineFacts
<1>3. TypesOK' /\ Others(h)
  BY <1>1, <1>2, NextLineFacts DEF TypesOK, Others, Same, Global
<1> QED
  BY <1>1, <1>2, <1>3, NextLineOK, NextLineFacts DEF Keeps

(* A transaction ends: its handler is idle, its locks are free.            *)
LEMMA ResetFacts ==
    ASSUME TypeInv, NEW h \in Handlers, Reset(h)
    PROVE  /\ lock' \in [Ids \cup UniqueKeys \cup {Counter} -> Handlers \cup {Nobody}]
           /\ pc' \in [Handlers -> Labels] /\ pc'[h] = "idle"
           /\ req' \in [Handlers -> Requests]
           /\ pos' \in [Handlers -> Nat \ {0}]
           /\ target' \in [Handlers -> Ids \cup {NoId}]
           /\ code' \in [Handlers -> 0 .. MaxCode]
           /\ wrote' \in [Handlers -> [Ids -> Rows \cup {NoRow}]]
           /\ wrote'[h] = Empty /\ \A g \in Handlers : Tabled(wrote'[g])
           /\ drew' \in [Handlers -> 0 .. MaxCode] /\ drew'[h] = 0
           /\ errors' \in [Handlers -> SUBSET Nat]
           /\ imported' \in [Handlers -> SUBSET (Nat \X Ids)]
           /\ serial' \in [Handlers -> 0 .. MaxRequests]
           /\ received' = received
           /\ Others(h) /\ HandlerOK(h)'
<1> USE DEF TypeInv, TypesOK, Reset
<1>1. lock' \in [Ids \cup UniqueKeys \cup {Counter} -> Handlers \cup {Nobody}]
  BY DEF Unlocked
<1>2. pc' \in [Handlers -> Labels] /\ pc'[h] = "idle" /\ \A g \in Handlers \ {h} : pc'[g] = pc[g]
  BY DEF Labels
<1>3. req' \in [Handlers -> Requests] /\ \A g \in Handlers \ {h} : req'[g] = req[g]
  <2>1. AnyRequest \in Requests
    BY ImportsAssumption DEF AnyRequest
  <2> QED
    BY <2>1
<1>4. pos' \in [Handlers -> Nat \ {0}] /\ \A g \in Handlers \ {h} : pos'[g] = pos[g]
  OBVIOUS
<1>5. target' \in [Handlers -> Ids \cup {NoId}] /\ \A g \in Handlers \ {h} : target'[g] = target[g]
  OBVIOUS
<1>6. code' \in [Handlers -> 0 .. MaxCode] /\ \A g \in Handlers \ {h} : code'[g] = code[g]
  BY ImportsAssumption DEF NoCode
<1>7. /\ wrote' \in [Handlers -> [Ids -> Rows \cup {NoRow}]] /\ wrote'[h] = Empty
      /\ \A g \in Handlers \ {h} : wrote'[g] = wrote[g]
      /\ \A g \in Handlers : Tabled(wrote'[g])
  <2>1. Empty \in [Ids -> Rows \cup {NoRow}] /\ Tabled(Empty)
    BY DEF Empty, Tabled
  <2>2. wrote' = [wrote EXCEPT ![h] = Empty]
    BY DEF Empty
  <2>3. wrote'[h] = Empty /\ \A g \in Handlers \ {h} : wrote'[g] = wrote[g]
    BY <2>2
  <2>4. wrote' \in [Handlers -> [Ids -> Rows \cup {NoRow}]]
    BY <2>1, <2>2
  <2> QED
    BY <2>1, <2>3, <2>4
<1>8. drew' \in [Handlers -> 0 .. MaxCode] /\ drew'[h] = 0 /\ \A g \in Handlers \ {h} : drew'[g] = drew[g]
  BY ImportsAssumption
<1>9. errors' \in [Handlers -> SUBSET Nat] /\ errors'[h] = {}
      /\ \A g \in Handlers \ {h} : errors'[g] = errors[g]
  OBVIOUS
<1>10. imported' \in [Handlers -> SUBSET (Nat \X Ids)] /\ imported'[h] = {}
       /\ \A g \in Handlers \ {h} : imported'[g] = imported[g]
  OBVIOUS
<1>11. serial' \in [Handlers -> 0 .. MaxRequests] /\ \A g \in Handlers \ {h} : serial'[g] = serial[g]
  BY ImportsAssumption
<1>12. Others(h)
  BY <1>2, <1>3, <1>4, <1>5, <1>6, <1>7, <1>8, <1>9, <1>10, <1>11 DEF Others, Same
<1>13. HandlerOK(h)'
  BY <1>2, <1>7, <1>8, <1>9, <1>10 DEF HandlerOK, KindOf, TargetOf, BusyOf, Coded, Scheduling
<1> QED
  BY <1>1, <1>2, <1>3, <1>4, <1>5, <1>6, <1>7, <1>8, <1>9, <1>10, <1>11, <1>12, <1>13

LEMMA RollbackTypes ==
    ASSUME TypeInv, NEW h \in Handlers, Rollback(h)
    PROVE  TypesOK' /\ Others(h) /\ HandlerOK(h)' /\ received' = received
<1>1. Reset(h) /\ UNCHANGED <<row, counter>> /\ news' = [news EXCEPT ![h] = {}]
  BY DEF Rollback
<1>2. news' \in [Handlers -> SUBSET Ids]
  BY <1>1 DEF TypeInv, TypesOK
<1>3. TypesOK'
  BY <1>1, <1>2, ResetFacts DEF TypeInv, TypesOK
<1> QED
  BY <1>1, <1>3, ResetFacts

LEMMA CommitTypes ==
    ASSUME TypeInv, NEW h \in Handlers, Commit(h)
    PROVE  TypesOK' /\ Others(h) /\ HandlerOK(h)' /\ received' = received
<1>1. Reset(h) /\ row' = [x \in Ids |-> View(h, x)]
      /\ counter' = (IF drew[h] # 0 THEN drew[h] ELSE counter)
      /\ news' = [g \in Handlers |-> IF pc[g] = "write"
                                     THEN news[g] \cup {x \in Ids : wrote[h][x] # NoRow} ELSE {}]
  BY DEF Commit
<1>2. news' \in [Handlers -> SUBSET Ids]
  BY <1>1 DEF TypeInv, TypesOK
<1>3. Tabled(row')
  <2>1. \A x \in Ids : row'[x] = NoRow \/ Fits(x, row'[x])
    BY <1>1, ViewType DEF TypeInv
  <2>2. row' \in [Ids -> Rows \cup {NoRow}]
    BY <1>1, <2>1, FitsFacts
  <2> QED
    BY <2>1, <2>2 DEF Tabled
<1>4. counter' \in 0 .. MaxCode
  BY <1>1 DEF TypeInv, TypesOK
<1>5. TypesOK'
  BY <1>1, <1>2, <1>3, <1>4, ResetFacts DEF TypeInv, TypesOK
<1> QED
  BY <1>1, <1>5, ResetFacts

LEMMA BeginTypes ==
    ASSUME TypeInv, NEW h \in Handlers, NEW q \in Requests, Begin(h, q)
    PROVE  TypesOK' /\ Others(h) /\ HandlerOK(h)' /\ received' = received + 1
<1> USE DEF TypeInv
<1>1. received' = received + 1 /\ received' \in 0 .. MaxRequests /\ received' \in 1 .. received'
  BY ImportsAssumption DEF Begin, TypesOK
<1>2. serial' \in [Handlers -> 0 .. MaxRequests] /\ serial'[h] = received'
      /\ \A g \in Handlers \ {h} : serial'[g] = serial[g]
  BY <1>1 DEF Begin, TypesOK
<1>3. pc' \in [Handlers -> Labels] /\ pc'[h] = "next" /\ \A g \in Handlers \ {h} : pc'[g] = pc[g]
  BY DEF Begin, TypesOK, Labels
<1>4. req' \in [Handlers -> Requests] /\ \A g \in Handlers \ {h} : req'[g] = req[g]
  BY DEF Begin, TypesOK
<1>5. pos' \in [Handlers -> Nat \ {0}] /\ \A g \in Handlers \ {h} : pos'[g] = pos[g]
  BY DEF Begin, TypesOK
<1>6. errors' \in [Handlers -> SUBSET Nat] /\ \A g \in Handlers \ {h} : errors'[g] = errors[g]
  <2>1. DOMAIN q.rows \subseteq Nat
    BY ImportsAssumption DEF RequestOK
  <2>2. DOMAIN q.rows \ Parsed(q) \in SUBSET Nat
    BY <2>1
  <2>3. errors' = [errors EXCEPT ![h] = DOMAIN q.rows \ Parsed(q)]
    BY DEF Begin
  <2> QED
    BY <2>2, <2>3 DEF TypesOK
<1>7. UNCHANGED <<row, counter, lock, target, code, wrote, drew, imported, news>>
  BY DEF Begin
<1>8. TypesOK'
  BY <1>1, <1>2, <1>3, <1>4, <1>5, <1>6, <1>7 DEF TypesOK
<1>9. Others(h)
  BY <1>2, <1>3, <1>4, <1>5, <1>6, <1>7 DEF Others, Same
<1>10. HandlerOK(h)'
  BY <1>1, <1>2, <1>3 DEF HandlerOK, KindOf, TargetOf, BusyOf, Coded, Scheduling
<1> QED
  BY <1>1, <1>8, <1>9, <1>10

(* A deleted club or belt rank keeps its key. *)
LEMMA DeleteFacts ==
    ASSUME TypesOK, NEW x \in Fragile, Delete(x)
    PROVE  /\ x \in Ids /\ x \notin Students /\ lock[x] = Nobody
           /\ Active(row[x]) /\ row'[x] # NoRow /\ row'[x].deleted
           /\ row'[x].key = row[x].key
           /\ \A y \in Ids \ {x} : row'[y] = row[y]
           /\ Tabled(row')
           /\ news' \in [Handlers -> SUBSET Ids]
           /\ \A h \in Handlers : news[h] \subseteq news'[h]
           /\ \A h \in Handlers : pc[h] = "write" => x \in news'[h]
           /\ \A h \in Handlers : pc[h] # "write" => news'[h] = news[h]
           /\ UNCHANGED <<counter, lock, received, pc, req, pos, target, code, wrote, drew,
                          errors, imported, serial>>
<1> DEFINE r == [row[x] EXCEPT !.deleted = TRUE]
<1>1. x \in Ids /\ x \notin Students
  BY ImportsAssumption, IdFacts
<1>2. row[x] \in KeyedRows
  BY <1>1 DEF TypesOK, Tabled, Fits, Delete, Active
<1>3. r \in KeyedRows /\ r.deleted /\ r.key = row[x].key
  BY <1>2 DEF KeyedRows
<1>4. row' = [row EXCEPT ![x] = r]
  BY DEF Delete
<1> HIDE DEF r
<1>5. row'[x] = r /\ \A y \in Ids \ {x} : row'[y] = row[y]
  BY <1>1, <1>4 DEF TypesOK, Tabled
<1>6. Tabled(row')
  BY <1>1, <1>3, <1>4, <1>5 DEF TypesOK, Tabled, Fits, Rows
<1>7. r # NoRow
  BY <1>3, ImportsAssumption
<1>8. news' \in [Handlers -> SUBSET Ids]
  BY <1>1 DEF Delete, TypesOK
<1>9. \A h \in Handlers : news[h] \subseteq news'[h] /\ (pc[h] = "write" => x \in news'[h])
                         /\ (pc[h] # "write" => news'[h] = news[h])
  BY DEF Delete
<1> QED
  BY <1>1, <1>3, <1>5, <1>6, <1>7, <1>8, <1>9 DEF Delete

(* A pushed schedule row leaves everything else alone. *)
LEMMA PushSlotFacts ==
    ASSUME TypesOK, NEW p \in SlotPushes, PushSlot(p)
    PROVE  /\ UNCHANGED <<row, counter, lock, pc, req, pos, target, code, wrote, drew,
                          errors, imported, serial, news>>
           /\ received' = received + 1 /\ received' \in 0 .. MaxRequests
           /\ \A g \in Handlers : Same(g)
<1>1. received' = received + 1 /\ received' \in 0 .. MaxRequests
  BY ImportsAssumption DEF PushSlot, TypesOK
<1> QED
  BY <1>1 DEF PushSlot, locals, Same

LEMMA StepTypes ==
    ASSUME TypeInv, NEW h \in Handlers, Step(h)
    PROVE  TypesOK' /\ Others(h) /\ HandlerOK(h)' /\ received' = received
<1>1. CASE Keeps(h)
  BY <1>1 DEF Keeps, Global
<1>2. CASE Rollback(h)
  BY <1>2, RollbackTypes
<1>3. CASE Commit(h)
  BY <1>3, CommitTypes
<1>4. Keeps(h) \/ Rollback(h) \/ Commit(h)
  BY TakeKeeps, LockRowKeeps, TryCodeKeeps, CheckOrderKeeps, ReferencesKeeps, FindStudentKeeps,
     NumberStudentKeeps, CheckDuplicateKeeps, WriteRowKeeps, RefuseScheduleKeeps,
     ReadScheduleKeeps, ReplaceScheduleKeeps DEF Step, Abort, AbortSchedule, Fail, DeadlockVictim
<1> QED
  BY <1>1, <1>2, <1>3, <1>4

LEMMA InitTypeInv == Init => TypeInv
<1> SUFFICES ASSUME Init PROVE TypeInv
  OBVIOUS
<1>1. Empty \in [Ids -> Rows \cup {NoRow}] /\ Tabled(Empty)
  BY DEF Empty, Tabled
<1>2. Tabled(row)
  BY StoredAssumption DEF Init, Tabled, Rows
<1>3. AnyRequest \in Requests
  BY ImportsAssumption DEF AnyRequest
<1>4. TypesOK
  BY <1>1, <1>2, <1>3, ImportsAssumption DEF Init, TypesOK, Labels, NoCode, Empty
<1>5. \A h \in Handlers : HandlerOK(h)
  BY DEF Init, HandlerOK, KindOf, TargetOf, BusyOf, Coded, Empty, Scheduling
<1> QED
  BY <1>4, <1>5 DEF TypeInv

LEMMA NextTypeInv == TypeInv /\ [Next]_vars => TypeInv'
<1> SUFFICES ASSUME TypeInv, [Next]_vars PROVE TypeInv'
  OBVIOUS
<1>1. received \in Nat
  BY DEF TypeInv, TypesOK
<1>2. ASSUME NEW h \in Handlers, TypesOK', Others(h), HandlerOK(h)',
             received' \in Nat, received <= received'
      PROVE  TypeInv'
  BY <1>2, SameOK DEF Others, TypeInv
<1>3. CASE \E h \in Handlers, q \in Requests : Begin(h, q)
  BY <1>1, <1>2, <1>3, BeginTypes
<1>4. CASE \E x \in Fragile : Delete(x)
  <2>1. PICK x \in Fragile : Delete(x)
    BY <1>4
  <2>2. TypesOK'
    BY <2>1, DeleteFacts DEF TypeInv, TypesOK
  <2>3. \A h \in Handlers : Same(h)
    BY <2>1 DEF Delete, Same
  <2> QED
    BY <1>1, <2>1, <2>2, <2>3, SameOK DEF TypeInv, Delete
<1>5. CASE \E h \in Handlers : Step(h)
  BY <1>1, <1>2, <1>5, StepTypes
<1>6. CASE UNCHANGED vars
  <2>1. TypesOK' /\ received' = received
    BY <1>6 DEF vars, locals, TypeInv, TypesOK, Tabled
  <2>2. \A h \in Handlers : Same(h)
    BY <1>6 DEF vars, locals, Same
  <2> QED
    BY <1>1, <2>1, <2>2, SameOK DEF TypeInv
<1>7. CASE \E p \in SlotPushes : PushSlot(p)
  <2>1. PICK p \in SlotPushes : PushSlot(p)
    BY <1>7
  <2>2. TypesOK'
    BY <2>1, PushSlotFacts DEF TypeInv, TypesOK, Tabled
  <2> QED
    BY <1>1, <2>1, <2>2, PushSlotFacts, SameOK DEF TypeInv, TypesOK
<1> QED
  BY <1>3, <1>4, <1>5, <1>6, <1>7 DEF Next

-----------------------------------------------------------------------------
(* Locks: whoever wrote a row holds its lock and those of its key, the new *)
(* one and the committed one, until the transaction ends; and what a       *)
(* handler sees, its own writes over the committed rows, never holds a key *)
(* twice.  A transaction may lock the committed key of a row although      *)
(* nothing makes it wait for that key: a holder would have the row as well. *)
Everything == Ids \cup UniqueKeys \cup {Counter}
Seen(h) == [x \in Ids |-> View(h, x)]

(* Who writes a row holds its lock, the entry of its key and that of the  *)
(* key it replaces: nobody else can write that key meanwhile.              *)
LocksOf(h) ==
    /\ \A x \in Ids : wrote[h][x] # NoRow => lock[x] = h
    /\ drew[h] # 0 => lock[Counter] = h /\ drew[h] \in counter + 1 .. MaxCode

KeysOf(h) ==
    \A x \in Ids :
       /\ wrote[h][x] # NoRow =>
             /\ Indexed(x, wrote[h][x]) => lock[UniqueKey(x, wrote[h][x])] = h
             /\ Indexed(x, row[x]) => lock[UniqueKey(x, row[x])] = h
       /\ Indexed(x, row[x]) /\ lock[UniqueKey(x, row[x])] = h => wrote[h][x] # NoRow

KeysOK == OneHolder(row) /\ \A h \in Handlers : LocksOf(h) /\ KeysOf(h) /\ OneHolder(Seen(h))
KeyInv == TypeInv /\ KeysOK

LEMMA KeyFacts ==
    ASSUME NEW x \in Ids, NEW r, r = NoRow \/ Fits(x, r), Indexed(x, r)
    PROVE  UniqueKey(x, r) \in UniqueKeys /\ UniqueKey(x, r) \notin Ids /\ UniqueKey(x, r) # Counter
<1>1. UniqueKey(x, r) \in UniqueKeys
  BY FitsFacts DEF Indexed
<1>2. UniqueKey(x, r) \notin Ids
  BY <1>1, ImportsAssumption
<1>3. Counter \notin UniqueKeys
  BY DEF Counter, UniqueKeys
<1> QED
  BY <1>1, <1>2, <1>3

(* Steps that write nothing may lock records and the counter.              *)
LEMMA LockKeeps ==
    ASSUME KeyInv, NEW h \in Handlers, UNCHANGED <<row, wrote, counter>>,
           \A k \in UniqueKeys : lock'[k] = lock[k],
           \A l \in Everything : lock'[l] = lock[l] \/ (lock[l] \in {Nobody, h} /\ lock'[l] = h),
           \A g \in Handlers \ {h} : drew'[g] = drew[g],
           drew'[h] # 0 => lock'[Counter] = h /\ drew'[h] \in counter + 1 .. MaxCode
    PROVE  KeysOK'
<1> USE DEF KeyInv, KeysOK
<1>1. Counter \in Everything /\ Nobody \notin Handlers
  BY ImportsAssumption DEF Everything
<1>2. ASSUME NEW g \in Handlers, NEW l \in Everything, lock[l] = g PROVE lock'[l] = g
  BY <1>1, <1>2
<1>3. ASSUME NEW g \in Handlers PROVE LocksOf(g)'
  <2>1. \A x \in Ids : wrote'[g][x] # NoRow => lock'[x] = g
    BY <1>2 DEF LocksOf, Everything
  <2>2. drew'[g] # 0 => lock'[Counter] = g /\ drew'[g] \in counter' + 1 .. MaxCode
    BY <1>1, <1>2 DEF LocksOf
  <2> QED
    BY <2>1, <2>2 DEF LocksOf
<1>4. ASSUME NEW g \in Handlers PROVE KeysOf(g)'
  <2>1. ASSUME NEW x \in Ids
        PROVE  /\ Indexed(x, wrote[g][x]) => UniqueKey(x, wrote[g][x]) \in UniqueKeys
               /\ Indexed(x, row[x]) => UniqueKey(x, row[x]) \in UniqueKeys
    BY KeyFacts DEF TypeInv, TypesOK, Tabled
  <2>2. KeysOf(g)
    OBVIOUS
  <2> QED
    BY <2>1, <2>2 DEF KeysOf
<1>5. ASSUME NEW g \in Handlers PROVE OneHolder(Seen(g))'
  BY DEF OneHolder, Seen, View
<1>6. OneHolder(row)'
  BY DEF OneHolder
<1> QED
  BY <1>3, <1>4, <1>5, <1>6

(* Writing r over what the handler sees of x, with the locks that takes.   *)
Claims(h, x, r) ==
    /\ lock[x] \in {Nobody, h} /\ lock'[x] = h
    /\ Indexed(x, r) => /\ lock[UniqueKey(x, r)] \in {Nobody, h} /\ lock'[UniqueKey(x, r)] = h
                        /\ Holders(h, x, r) = {}
    /\ Indexed(x, View(h, x)) => lock'[UniqueKey(x, View(h, x))] = h
    /\ \A l \in Everything :
          \/ lock'[l] = lock[l]
          \/ l = x /\ lock'[l] = h
          \/ Indexed(x, r) /\ l = UniqueKey(x, r) /\ lock'[l] = h
          \/ Indexed(x, View(h, x)) /\ l = UniqueKey(x, View(h, x)) /\ lock'[l] = h

LEMMA WriteKeeps ==
    ASSUME KeyInv, NEW h \in Handlers, NEW x \in Ids, NEW r, Fits(x, r),
           UNCHANGED <<row, counter, drew>>,
           wrote' = [wrote EXCEPT ![h] = [@ EXCEPT ![x] = r]],
           Claims(h, x, r)
    PROVE  KeysOK'
<1>0. TypesOK
  BY DEF KeyInv, TypeInv
<1>1. /\ wrote'[h][x] = r /\ \A y \in Ids \ {x} : wrote'[h][y] = wrote[h][y]
      /\ \A g \in Handlers \ {h} : wrote'[g] = wrote[g]
  <2>1. Puts(h, x, r) /\ Fits(x, r)
    BY DEF Puts
  <2> QED
    BY ONLY <1>0, <2>1, h \in Handlers, x \in Ids, WroteType
<1> USE DEF KeyInv, KeysOK, TypeInv, Claims
<1>2. r # NoRow /\ Nobody \notin Handlers
  BY FitsFacts, ImportsAssumption
<1>3. ASSUME NEW y \in Ids, NEW g \in Handlers
      PROVE  /\ Indexed(y, wrote[g][y]) => UniqueKey(y, wrote[g][y]) \in Everything
             /\ Indexed(y, row[y]) => UniqueKey(y, row[y]) \in Everything
  BY KeyFacts DEF TypesOK, Tabled, Everything
<1>4. Indexed(x, View(h, x)) => lock[UniqueKey(x, View(h, x))] \in {Nobody, h}
  <2> SUFFICES ASSUME Indexed(x, View(h, x)) PROVE lock[UniqueKey(x, View(h, x))] \in {Nobody, h}
    OBVIOUS
  <2>1. CASE wrote[h][x] # NoRow
    BY <2>1 DEF View, KeysOf
  <2>2. CASE wrote[h][x] = NoRow
    <3>1. View(h, x) = row[x]
      BY <2>2 DEF View
    <3>2. ASSUME NEW g \in Handlers, lock[UniqueKey(x, row[x])] = g PROVE g = h
      <4>1. wrote[g][x] # NoRow
        BY <3>1, <3>2 DEF KeysOf
      <4>2. lock[x] = g
        BY <4>1 DEF LocksOf
      <4> QED
        BY <1>2, <4>2
    <3>3. lock[UniqueKey(x, row[x])] \in Handlers \cup {Nobody}
      BY <1>3, <3>1 DEF TypesOK, Everything
    <3> QED
      BY <3>1, <3>2, <3>3
  <2> QED
    BY <2>1, <2>2
<1>5. ASSUME NEW l \in Everything PROVE lock'[l] = lock[l] \/ (lock[l] \in {Nobody, h} /\ lock'[l] = h)
  BY <1>4
<1>6. ASSUME NEW g \in Handlers, NEW l \in Everything, lock[l] = g PROVE lock'[l] = g
  BY <1>2, <1>5, <1>6
<1>7. ASSUME NEW g \in Handlers \ {h}, NEW l \in Everything, lock'[l] = g PROVE lock[l] = g
  BY <1>5, <1>7
<1>8. ASSUME NEW g \in Handlers PROVE LocksOf(g)'
  <2>1. LocksOf(g)
    OBVIOUS
  <2>2. \A y \in Ids : wrote'[g][y] # NoRow => lock'[y] = g
    BY <1>1, <1>6, <2>1 DEF LocksOf, Everything
  <2>3. drew'[g] # 0 => lock'[Counter] = g /\ drew'[g] \in counter' + 1 .. MaxCode
    BY <1>6, <2>1 DEF LocksOf, Everything
  <2> QED
    BY <2>2, <2>3 DEF LocksOf
<1>9. ASSUME NEW g \in Handlers \ {h} PROVE KeysOf(g)'
  <2>1. KeysOf(g)
    OBVIOUS
  <2> QED
    BY <1>1, <1>3, <1>6, <1>7, <2>1 DEF KeysOf
<1>10. KeysOf(h)'
  <2> SUFFICES ASSUME NEW y \in Ids
               PROVE  /\ wrote'[h][y] # NoRow =>
                            /\ Indexed(y, wrote'[h][y]) => lock'[UniqueKey(y, wrote'[h][y])] = h
                            /\ Indexed(y, row[y]) => lock'[UniqueKey(y, row[y])] = h
                      /\ Indexed(y, row[y]) /\ lock'[UniqueKey(y, row[y])] = h => wrote'[h][y] # NoRow
    BY DEF KeysOf
  <2>1. KeysOf(h)
    OBVIOUS
  <2>2. CASE y = x
    <3>1. Indexed(x, row[x]) => lock'[UniqueKey(x, row[x])] = h
      <4>1. CASE wrote[h][x] = NoRow
        BY <4>1 DEF View
      <4>2. CASE wrote[h][x] # NoRow
        BY <1>3, <1>6, <2>1, <4>2 DEF KeysOf
      <4> QED
        BY <4>1, <4>2
    <3> QED
      BY <1>1, <1>2, <2>2, <3>1
  <2>3. CASE y # x
    <3>1. wrote'[h][y] = wrote[h][y]
      BY <1>1, <2>3
    <3>2. wrote[h][y] # NoRow =>
             /\ Indexed(y, wrote[h][y]) => lock'[UniqueKey(y, wrote[h][y])] = h
             /\ Indexed(y, row[y]) => lock'[UniqueKey(y, row[y])] = h
      BY <1>3, <1>6, <2>1 DEF KeysOf
    <3>3. ASSUME Indexed(y, row[y]), lock'[UniqueKey(y, row[y])] = h, wrote[h][y] = NoRow PROVE FALSE
      <4> DEFINE k == UniqueKey(y, row[y])
      <4>1. k \in Everything /\ k \notin Ids /\ lock[k] # h
        BY <1>3, <2>1, <3>3, KeyFacts DEF KeysOf, TypesOK, Tabled
      <4>2. CASE Indexed(x, r) /\ k = UniqueKey(x, r)
        <5>1. y \in Holders(h, x, r)
          BY <2>3, <3>3, <4>2 DEF Holders, View
        <5> QED
          BY <4>2, <5>1
      <4>3. CASE Indexed(x, View(h, x)) /\ k = UniqueKey(x, View(h, x))
        <5>1. Indexed(x, Seen(h)[x]) /\ Indexed(y, Seen(h)[y])
              /\ UniqueKey(x, Seen(h)[x]) = UniqueKey(y, Seen(h)[y])
          BY <3>3, <4>3 DEF Seen, View
        <5> QED
          BY <2>3, <5>1 DEF OneHolder
      <4> QED
        BY <3>3, <4>1, <4>2, <4>3
    <3> QED
      BY <3>1, <3>2, <3>3
  <2> QED
    BY <2>2, <2>3
<1>11. OneHolder(Seen(h))'
  <2>1. Seen(h)'[x] = r /\ \A y \in Ids \ {x} : Seen(h)'[y] = View(h, y) /\ Seen(h)[y] = View(h, y)
    BY <1>1, <1>2 DEF Seen, View
  <2>2. ASSUME Indexed(x, r) PROVE \A y \in Ids \ {x} : Indexed(y, View(h, y)) =>
                                       UniqueKey(y, View(h, y)) # UniqueKey(x, r)
    BY <2>2 DEF Holders
  <2>3. OneHolder(Seen(h))
    OBVIOUS
  <2> QED
    BY <2>1, <2>2, <2>3 DEF OneHolder
<1>12. ASSUME NEW g \in Handlers \ {h} PROVE OneHolder(Seen(g))'
  <2>1. Seen(g)' = Seen(g)
    BY <1>1 DEF Seen, View
  <2>2. OneHolder(Seen(g))
    OBVIOUS
  <2> QED
    BY <2>1, <2>2 DEF OneHolder
<1> QED
  BY <1>8, <1>9, <1>10, <1>11, <1>12 DEF OneHolder

(* Statements that only read take no lock. *)
LEMMA ReadKeepsKeys ==
    ASSUME KeyInv, NEW h \in Handlers, UNCHANGED <<row, wrote, counter, drew, lock>>
    PROVE  KeysOK'
  BY LockKeeps DEF KeyInv, KeysOK, LocksOf

LEMMA ReadsKeepKeys ==
    ASSUME KeyInv, NEW h \in Handlers,
           \/ Take(h) \/ TryCode(h) \/ CheckOrder(h) \/ References(h) \/ FindStudent(h)
           \/ CheckDuplicate(h) \/ RefuseSchedule(h) \/ ReadSchedule(h) \/ ReplaceSchedule(h)
           \/ \E q \in Requests : Begin(h, q)
    PROVE  KeysOK'
  BY ReadKeepsKeys DEF Take, TryCode, CheckOrder, References, FindStudent, CheckDuplicate, Begin,
     RefuseSchedule, ReadSchedule, ReplaceSchedule, Go, RefuseLine, CountLine, NextLine

LEMMA LockRowKeepsKeys == ASSUME KeyInv, NEW h \in Handlers, LockRow(h) PROVE KeysOK'
<1> USE DEF KeyInv, TypeInv
<1> DEFINE x == target[h]
<1>1. UNCHANGED <<row, wrote, counter, drew>>
  BY DEF LockRow, Go, RefuseLine, NextLine
<1>2. x \in Ids
  <2>1. pc[h] = "lock" /\ HandlerOK(h)
    BY DEF LockRow
  <2>2. ~Done(h) /\ req[h].kind # "students" /\ x = Line(h).id
    BY <2>1 DEF HandlerOK, KindOf, TargetOf, BusyOf
  <2> QED
    BY <2>2, LineIds
<1>3. lock' = lock \/ (lock[x] \in {Nobody, h} /\ lock' = [lock EXCEPT ![x] = h])
  BY DEF LockRow, Free, Locked, TypesOK
<1>4. \A k \in UniqueKeys : lock'[k] = lock[k]
  BY <1>2, <1>3, ImportsAssumption DEF TypesOK
<1>5. \A l \in Everything : lock'[l] = lock[l] \/ (lock[l] \in {Nobody, h} /\ lock'[l] = h)
  BY <1>3 DEF TypesOK, Everything
<1>6. drew[h] # 0 => lock'[Counter] = h /\ drew[h] \in counter + 1 .. MaxCode
  BY <1>2, <1>3, <1>5 DEF KeysOK, LocksOf, Everything
<1> HIDE DEF KeyInv, x
<1> QED
  BY <1>1, <1>4, <1>5, <1>6, LockKeeps

LEMMA NumberKeepsKeys == ASSUME KeyInv, NEW h \in Handlers, NumberStudent(h) PROVE KeysOK'
<1> USE DEF KeyInv, TypeInv
<1>1. UNCHANGED <<row, wrote, counter>> /\ Draw(h) /\ drew'[h] <= MaxCode
  BY DEF NumberStudent, Go
<1>2. lock[Counter] \in {Nobody, h} /\ lock' = [lock EXCEPT ![Counter] = h]
  BY <1>1 DEF Draw, Free, Locked, TypesOK
<1>3. \A k \in UniqueKeys : lock'[k] = lock[k]
  <2>1. Counter \notin UniqueKeys
    BY DEF Counter, UniqueKeys
  <2> QED
    BY <1>2, <2>1 DEF TypesOK
<1>4. \A l \in Everything : lock'[l] = lock[l] \/ (lock[l] \in {Nobody, h} /\ lock'[l] = h)
  BY <1>2 DEF TypesOK, Everything
<1>5. \A g \in Handlers \ {h} : drew'[g] = drew[g]
  BY <1>1, DrawType
<1>6. lock'[Counter] = h
  BY <1>2 DEF TypesOK
<1>7. drew'[h] \in counter + 1 .. MaxCode
  <2>1. drew'[h] \in Codes /\ drew'[h] = (IF drew[h] # 0 THEN drew[h] + 1 ELSE counter + 1)
    BY <1>1, DrawType
  <2>2. drew[h] # 0 => drew[h] \in counter + 1 .. MaxCode
    BY DEF KeysOK, LocksOf
  <2> QED
    BY <2>1, <2>2, ImportsAssumption DEF Codes, TypesOK
<1> HIDE DEF KeyInv
<1> QED
  BY <1>1, <1>3, <1>4, <1>5, <1>6, <1>7, LockKeeps

LEMMA WriteRowKeepsKeys == ASSUME KeyInv, NEW h \in Handlers, WriteRow(h) PROVE KeysOK'
<1> DEFINE x == target[h]
           r == NewRow(h)
           old == IF Indexed(x, View(h, x)) THEN {UniqueKey(x, View(h, x))} ELSE {}
           new == IF Indexed(x, r) THEN {UniqueKey(x, r)} ELSE {}
<1>1. TypeInv /\ TypesOK
  BY DEF KeyInv, TypeInv
<1>2. x \in Ids /\ Fits(x, r)
  BY <1>1, NewRowType DEF WriteRow
<1>3. UNCHANGED <<row, counter, drew>> /\ wrote' = [wrote EXCEPT ![h] = [@ EXCEPT ![x] = r]]
  BY DEF WriteRow, Go, CountLine, NextLine
<1>4. Free(h, {x} \cup new) /\ (Indexed(x, r) => Holders(h, x, r) = {})
      /\ lock' = Locked(h, {x} \cup old \cup new)
  BY DEF WriteRow
<1>5. /\ Indexed(x, r) => UniqueKey(x, r) \in DOMAIN lock
      /\ Indexed(x, View(h, x)) => UniqueKey(x, View(h, x)) \in DOMAIN lock
      /\ x \in DOMAIN lock /\ Everything = DOMAIN lock
  BY <1>1, <1>2, KeyFacts, ViewType DEF TypesOK, Everything
<1> HIDE DEF x, r
<1>6. Claims(h, x, r)
  BY <1>4, <1>5 DEF Claims, Free, Locked
<1> QED
  BY <1>2, <1>3, <1>6, WriteKeeps

(* The locks of a handler are released; what it wrote is gone, or committed. *)
LEMMA ReleaseKeeps ==
    ASSUME KeyInv, NEW h \in Handlers, Reset(h),
           \/ UNCHANGED <<row, counter>>
           \/ row' = Seen(h) /\ counter' = IF drew[h] # 0 THEN drew[h] ELSE counter
    PROVE  KeysOK'
<1>1. TypeInv /\ TypesOK
  BY DEF KeyInv, TypeInv
<1>2. wrote'[h] = Empty /\ drew'[h] = 0
      /\ \A g \in Handlers \ {h} : wrote'[g] = wrote[g] /\ drew'[g] = drew[g]
  BY <1>1, ResetFacts DEF Others, Same
<1>3. \A l \in Everything : lock'[l] = (IF lock[l] = h THEN Nobody ELSE lock[l])
  BY <1>1 DEF Reset, Unlocked, TypesOK, Everything
<1> USE DEF KeyInv, KeysOK
<1>4. Nobody \notin Handlers /\ Counter \in Everything /\ Ids \subseteq Everything
  BY ImportsAssumption DEF Everything
<1>5. ASSUME NEW x \in Ids, NEW g \in Handlers
      PROVE  /\ Indexed(x, wrote[g][x]) => UniqueKey(x, wrote[g][x]) \in Everything
             /\ Indexed(x, row[x]) => UniqueKey(x, row[x]) \in Everything
  BY <1>1, KeyFacts DEF TypesOK, Tabled, Everything
<1>6. OneHolder(row) /\ OneHolder(Seen(h)) /\ OneHolder(row)'
  BY DEF OneHolder
<1>7. ASSUME NEW x \in Ids
      PROVE  row'[x] = row[x] \/ (wrote[h][x] # NoRow /\ row'[x] = wrote[h][x])
  BY DEF Seen, View
<1>8. ASSUME NEW g \in Handlers \ {h} PROVE LocksOf(g)'
  <2>1. LocksOf(g) /\ LocksOf(h)
    OBVIOUS
  <2>2. \A x \in Ids : wrote'[g][x] # NoRow => lock'[x] = g
    BY <1>2, <1>3, <1>4, <2>1 DEF LocksOf
  <2>3. drew'[g] # 0 => lock'[Counter] = g /\ drew'[g] \in counter' + 1 .. MaxCode
    <3> SUFFICES ASSUME drew[g] # 0
                 PROVE  lock'[Counter] = g /\ drew[g] \in counter' + 1 .. MaxCode
      BY <1>2
    <3>1. lock[Counter] = g /\ drew[g] \in counter + 1 .. MaxCode
      BY <2>1 DEF LocksOf
    <3>2. drew[h] = 0
      BY <2>1, <3>1 DEF LocksOf
    <3> QED
      BY <1>3, <1>4, <3>1, <3>2
  <2> QED
    BY <2>2, <2>3 DEF LocksOf
<1>9. ASSUME NEW g \in Handlers \ {h} PROVE KeysOf(g)'
  <2> SUFFICES ASSUME NEW x \in Ids
               PROVE  /\ wrote[g][x] # NoRow =>
                            /\ Indexed(x, wrote[g][x]) => lock'[UniqueKey(x, wrote[g][x])] = g
                            /\ Indexed(x, row'[x]) => lock'[UniqueKey(x, row'[x])] = g
                      /\ Indexed(x, row'[x]) /\ lock'[UniqueKey(x, row'[x])] = g => wrote[g][x] # NoRow
    BY <1>2 DEF KeysOf
  <2>1. KeysOf(g) /\ KeysOf(h) /\ LocksOf(g) /\ LocksOf(h)
    OBVIOUS
  <2>2. ASSUME wrote[g][x] # NoRow
        PROVE  /\ Indexed(x, wrote[g][x]) => lock'[UniqueKey(x, wrote[g][x])] = g
               /\ Indexed(x, row'[x]) => lock'[UniqueKey(x, row'[x])] = g
    <3>1. row'[x] = row[x]
      BY <1>7, <2>1, <2>2 DEF LocksOf
    <3> QED
      BY <1>3, <1>5, <2>1, <2>2, <3>1 DEF KeysOf
  <2>3. ASSUME Indexed(x, row'[x]), lock'[UniqueKey(x, row'[x])] = g PROVE wrote[g][x] # NoRow
    <3>1. CASE row'[x] = row[x]
      BY <1>3, <1>4, <1>5, <2>1, <2>3, <3>1 DEF KeysOf
    <3>2. CASE wrote[h][x] # NoRow /\ row'[x] = wrote[h][x]
      BY <1>3, <1>4, <1>5, <2>1, <2>3, <3>2 DEF KeysOf
    <3> QED
      BY <1>7, <3>1, <3>2
  <2> QED
    BY <2>2, <2>3
<1>10. LocksOf(h)'
  BY <1>2 DEF LocksOf, Empty
<1>11. KeysOf(h)'
  <2> SUFFICES ASSUME NEW x \in Ids, Indexed(x, row'[x]), lock'[UniqueKey(x, row'[x])] = h PROVE FALSE
    BY <1>2 DEF KeysOf, Empty
  <2>1. UniqueKey(x, row'[x]) \in Everything
    BY <1>5, <1>7
  <2> QED
    BY <1>3, <1>4, <2>1
<1>12. ASSUME NEW g \in Handlers \ {h} PROVE OneHolder(Seen(g))'
  <2>1. KeysOf(g) /\ KeysOf(h) /\ OneHolder(Seen(g))
    OBVIOUS
  <2>2. \A x \in Ids : Seen(g)'[x] = (IF wrote[g][x] # NoRow THEN wrote[g][x] ELSE row'[x])
                       /\ Seen(g)[x] = (IF wrote[g][x] # NoRow THEN wrote[g][x] ELSE row[x])
    BY <1>2 DEF Seen, View
  <2> SUFFICES ASSUME NEW x \in Ids, NEW y \in Ids, x # y,
                      Indexed(x, Seen(g)'[x]), Indexed(y, Seen(g)'[y]),
                      UniqueKey(x, Seen(g)'[x]) = UniqueKey(y, Seen(g)'[y])
               PROVE  FALSE
    BY DEF OneHolder
  <2>3. CASE wrote[g][x] # NoRow /\ wrote[g][y] # NoRow
    BY <2>1, <2>2, <2>3 DEF OneHolder
  <2>4. CASE wrote[g][x] = NoRow /\ wrote[g][y] = NoRow
    BY <1>6, <2>2, <2>4 DEF OneHolder
  <2>5. ASSUME NEW a \in {x, y}, NEW b \in {x, y}, a # b, wrote[g][a] # NoRow, wrote[g][b] = NoRow
        PROVE  FALSE
    <3>1. Indexed(a, wrote[g][a]) /\ Indexed(b, row'[b]) /\ UniqueKey(a, wrote[g][a]) = UniqueKey(b, row'[b])
      BY <2>2, <2>5
    <3>2. lock[UniqueKey(a, wrote[g][a])] = g
      BY <2>1, <2>5, <3>1 DEF KeysOf
    <3>3. row'[b] = row[b]
      BY <1>7, <2>1, <3>1, <3>2 DEF KeysOf
    <3> QED
      BY <2>1, <2>2, <2>5, <3>1, <3>3 DEF OneHolder
  <2> QED
    BY <2>3, <2>4, <2>5
<1>13. OneHolder(Seen(h))'
  <2>1. \A x \in Ids : Seen(h)'[x] = row'[x]
    BY <1>2 DEF Seen, View, Empty
  <2> QED
    BY <1>6, <2>1 DEF OneHolder
<1> QED
  BY <1>6, <1>8, <1>9, <1>10, <1>11, <1>12, <1>13

LEMMA DeleteKeepsKeys == ASSUME KeyInv, NEW x \in Fragile, Delete(x) PROVE KeysOK'
<1>1. TypeInv /\ TypesOK
  BY DEF KeyInv, TypeInv
<1>2. /\ x \in Ids /\ ~Indexed(x, row'[x]) /\ lock[x] = Nobody
      /\ \A y \in Ids \ {x} : row'[y] = row[y]
      /\ UNCHANGED <<counter, lock, wrote, drew>>
  BY <1>1, DeleteFacts DEF Indexed
<1> USE DEF KeyInv, KeysOK
<1>3. \A g \in Handlers : wrote[g][x] = NoRow
  BY <1>2, ImportsAssumption DEF LocksOf
<1>4. ASSUME NEW g \in Handlers PROVE LocksOf(g)' /\ KeysOf(g)'
  <2>1. LocksOf(g) /\ KeysOf(g)
    OBVIOUS
  <2> QED
    BY <1>2, <1>3, <2>1 DEF LocksOf, KeysOf
<1>5. OneHolder(row)'
  BY <1>2 DEF OneHolder
<1>6. ASSUME NEW g \in Handlers PROVE OneHolder(Seen(g))'
  <2>1. ~Indexed(x, Seen(g)'[x]) /\ \A y \in Ids \ {x} : Seen(g)'[y] = Seen(g)[y]
    BY <1>2, <1>3 DEF Seen, View
  <2>2. OneHolder(Seen(g))
    OBVIOUS
  <2> QED
    BY <2>1, <2>2 DEF OneHolder
<1> QED
  BY <1>4, <1>5, <1>6

LEMMA InitKeyInv == Init => KeyInv
<1> SUFFICES ASSUME Init PROVE KeysOK
  BY InitTypeInv DEF KeyInv
<1>1. ASSUME NEW h \in Handlers, NEW x \in Ids PROVE wrote[h][x] = NoRow /\ View(h, x) = row[x]
  BY DEF Init, View
<1>2. ASSUME NEW h \in Handlers PROVE LocksOf(h)
  BY <1>1 DEF Init, LocksOf
<1>3. ASSUME NEW h \in Handlers PROVE KeysOf(h)
  <2>1. \A x \in Ids : Indexed(x, row[x]) => UniqueKey(x, row[x]) \in UniqueKeys
    BY KeyFacts, StoredAssumption DEF Init
  <2>2. \A k \in UniqueKeys : lock[k] # h
    BY ImportsAssumption DEF Init
  <2> QED
    BY <1>1, <2>1, <2>2 DEF KeysOf
<1>4. OneHolder(row)
  BY StoredAssumption DEF Init
<1>5. ASSUME NEW h \in Handlers PROVE OneHolder(Seen(h))
  BY <1>1, <1>4 DEF OneHolder, Seen
<1> QED
  BY <1>2, <1>3, <1>4, <1>5 DEF KeysOK

LEMMA NextKeyInv == KeyInv /\ [Next]_vars => KeyInv'
<1> SUFFICES ASSUME KeyInv, [Next]_vars PROVE KeysOK'
  BY NextTypeInv DEF KeyInv
<1>1. CASE \E h \in Handlers, q \in Requests : Begin(h, q)
  BY <1>1, ReadsKeepKeys
<1>2. CASE \E x \in Fragile : Delete(x)
  BY <1>2, DeleteKeepsKeys
<1>3. ASSUME NEW h \in Handlers, Commit(h) PROVE KeysOK'
  BY <1>3, ReleaseKeeps DEF Commit, Seen
<1>4. ASSUME NEW h \in Handlers, Rollback(h) PROVE KeysOK'
  BY <1>4, ReleaseKeeps DEF Rollback
<1>5. CASE \E h \in Handlers : Step(h)
  BY <1>3, <1>4, <1>5, ReadsKeepKeys, LockRowKeepsKeys, NumberKeepsKeys, WriteRowKeepsKeys
     DEF Step, Abort, AbortSchedule, Fail, DeadlockVictim
<1>6. CASE UNCHANGED vars
  <2>1. CASE Handlers = {}
    BY <1>6, <2>1 DEF vars, KeyInv, KeysOK, OneHolder
  <2>2. CASE Handlers # {}
    BY <1>6, <2>2, ReadKeepsKeys DEF vars, locals
  <2> QED
    BY <2>1, <2>2
<1>7. CASE \E p \in SlotPushes : PushSlot(p)
  <2>1. UNCHANGED <<row, wrote, counter, drew, lock>>
    BY <1>7, PushSlotFacts DEF KeyInv, TypeInv
  <2>2. CASE Handlers = {}
    BY <2>1, <2>2 DEF KeyInv, KeysOK, OneHolder
  <2>3. CASE Handlers # {}
    BY <2>1, <2>3, ReadKeepsKeys
  <2> QED
    BY <2>2, <2>3
<1> QED
  BY <1>1, <1>2, <1>5, <1>6, <1>7 DEF Next

-----------------------------------------------------------------------------
(* Schedules: the unique index of active schedule rows holds of the        *)
(* committed rows and of those each handler sees, its own over those.  A   *)
(* handler locks the schedule rows it reads or writes and the students it  *)
(* writes them for, so that no two can write the same day of a student.    *)
SlotTable(t) == DOMAIN t \subseteq SlotIds /\ \A i \in DOMAIN t : t[i] \in SlotRows

(* What a handler files is for a student it has written; a row under an id *)
(* that is not the day's own stays on its student and day.                 *)
FiledOf(h) ==
    /\ SlotTable(filed[h]) /\ DOMAIN filed[h] \subseteq held[h]
    /\ \A i \in DOMAIN filed[h] :
          /\ wrote[h][filed[h][i].student] # NoRow
          /\ \/ i = Own(filed[h][i].student, filed[h][i].day)
             \/ /\ i \in DOMAIN slot /\ slot[i].student = filed[h][i].student
                /\ slot[i].day = filed[h][i].day

(* The schedule rows that a handler has read do not change any more.       *)
ReadsOf(h) ==
    pc[h] = "replace" =>
        \A d \in DOMAIN existing[h] :
           \E i \in held[h] : /\ existing[h][d] = i /\ i \in DOMAIN Slots(h)
                              /\ Slots(h)[i].student = target[h] /\ Slots(h)[i].day = d

SlotsOK(h) ==
    /\ FiledOf(h) /\ ReadsOf(h) /\ OneRowADay(Slots(h))
    /\ pc[h] = "idle" => held[h] = {}

SlotsApart == \A g, h \in Handlers : g # h => held[g] \cap held[h] = {}

SlotInv ==
    /\ SlotTable(slot) /\ OneRowADay(slot) /\ SlotsApart
    /\ DOMAIN filed = Handlers /\ DOMAIN held = Handlers /\ DOMAIN existing = Handlers
    /\ DOMAIN hidden = Handlers /\ DOMAIN since = Handlers
    /\ \A h \in Handlers : SlotsOK(h)

LEMMA OverFacts ==
    ASSUME NEW f, NEW t
    PROVE  /\ DOMAIN Over(f, t) = DOMAIN f \cup DOMAIN t
           /\ \A i \in DOMAIN f : Over(f, t)[i] = f[i]
           /\ \A i \in DOMAIN t \ DOMAIN f : Over(f, t)[i] = t[i]
           /\ SlotTable(f) /\ SlotTable(t) => SlotTable(Over(f, t))
  BY DEF Over, SlotTable

LEMMA SlotIdFacts ==
    /\ \A x \in Students, d \in Days : Own(x, d) \in SlotIds
    /\ \A x, y, d, e : Own(x, d) = Own(y, e) => x = y /\ d = e
    /\ \A x, d : Own(x, d)[1] = x /\ Own(x, d)[2] = d
  BY DEF Own, SlotIds

LEMMA SlotRowFacts ==
    ASSUME NEW r \in SlotRows
    PROVE  /\ r.student \in Students /\ r.student \in Ids /\ r.day \in Days /\ r.deleted \in BOOLEAN
           /\ [r EXCEPT !.deleted = TRUE] \in SlotRows
           /\ [r EXCEPT !.deleted = TRUE].student = r.student
           /\ [r EXCEPT !.deleted = TRUE].day = r.day /\ [r EXCEPT !.deleted = TRUE].deleted
<1>1. r.student \in Students /\ r.day \in Days /\ r.deleted \in BOOLEAN
  BY DEF SlotRows
<1>2. r.student \in Ids
  BY <1>1, IdFacts
<1> DEFINE s == [r EXCEPT !.deleted = TRUE]
<1>3. s \in SlotRows /\ s.student = r.student /\ s.day = r.day /\ s.deleted
  BY DEF SlotRows
<1> QED
  BY <1>1, <1>2, <1>3

LEMMA OnDayFacts ==
    \A r, x, d : OnDay(r, x, d) => r.student = x /\ r.day = d /\ ~r.deleted
  BY DEF OnDay

(* Rows of two writers over one table: if each alone agrees with the index *)
(* and neither meets the other there, so do both together.                 *)
NoClash(f, g) == \A i \in DOMAIN f, j \in DOMAIN g : ~f[i].deleted => f[i] # g[j]

LEMMA OverTwo ==
    ASSUME NEW f, NEW g, NEW t, OneRowADay(Over(f, t)), OneRowADay(Over(g, t)), NoClash(f, g)
    PROVE  OneRowADay(Over(f, Over(g, t)))
<1> DEFINE T == Over(f, Over(g, t))
<1>1. DOMAIN T = DOMAIN f \cup DOMAIN g \cup DOMAIN t
      /\ (\A i \in DOMAIN f : T[i] = f[i]) /\ (\A i \in DOMAIN g \ DOMAIN f : T[i] = g[i])
      /\ \A i \in (DOMAIN t \ DOMAIN g) \ DOMAIN f : T[i] = t[i]
  BY DEF Over
<1> HIDE DEF T
<1> SUFFICES ASSUME NEW i \in DOMAIN T, NEW j \in DOMAIN T, i # j, ~T[i].deleted, T[i] = T[j]
             PROVE  FALSE
  BY DEF OneRowADay, T
<1>2. \A k \in DOMAIN f \cup (DOMAIN t \ DOMAIN g) :
         k \in DOMAIN Over(f, t) /\ T[k] = Over(f, t)[k]
  BY <1>1 DEF Over
<1>3. \A k \in (DOMAIN g \cup DOMAIN t) \ DOMAIN f :
         k \in DOMAIN Over(g, t) /\ T[k] = Over(g, t)[k]
  BY <1>1 DEF Over
<1>4. CASE i \in DOMAIN f \cup (DOMAIN t \ DOMAIN g) /\ j \in DOMAIN f \cup (DOMAIN t \ DOMAIN g)
  BY <1>2, <1>4 DEF OneRowADay
<1>5. CASE i \notin DOMAIN f /\ j \notin DOMAIN f
  BY <1>1, <1>3, <1>5 DEF OneRowADay
<1>6. CASE i \in DOMAIN f /\ j \in DOMAIN g \ DOMAIN f
  BY <1>1, <1>6 DEF NoClash
<1>7. CASE j \in DOMAIN f /\ i \in DOMAIN g \ DOMAIN f
  BY <1>1, <1>7 DEF NoClash
<1> QED
  BY <1>1, <1>4, <1>5, <1>6, <1>7

(* Other handlers, when this one, or a push, commits schedule rows that    *)
(* they do not hold.                                                       *)
LEMMA SlotsStay ==
    ASSUME SlotInv, NEW g \in Handlers, Same(g), UNCHANGED <<filed[g], held[g], existing[g]>>,
           NEW f, slot' = Over(f, slot), DOMAIN f \cap held[g] = {},
           OneRowADay(slot'), NoClash(filed[g], f)
    PROVE  /\ SlotsOK(g)'
           /\ \A i \in held[g] : /\ i \in DOMAIN Slots(g)' <=> i \in DOMAIN Slots(g)
                                 /\ i \in DOMAIN Slots(g) => Slots(g)'[i] = Slots(g)[i]
                                 /\ i \in DOMAIN slot' <=> i \in DOMAIN slot
                                 /\ i \in DOMAIN slot => slot'[i] = slot[i]
<1>1. SlotsOK(g) /\ FiledOf(g) /\ OneRowADay(Slots(g)) /\ DOMAIN filed[g] \subseteq held[g]
  BY DEF SlotInv, SlotsOK, FiledOf
<1>2. Slots(g) = Over(filed[g], slot) /\ Slots(g)' = Over(filed[g], slot')
  BY DEF Slots
<1>3. \A i \in held[g] : (i \in DOMAIN slot' <=> i \in DOMAIN slot)
                         /\ (i \in DOMAIN slot => slot'[i] = slot[i])
  BY DEF Over
<1>4. \A i \in held[g] : (i \in DOMAIN Slots(g)' <=> i \in DOMAIN Slots(g))
                         /\ (i \in DOMAIN Slots(g) => Slots(g)'[i] = Slots(g)[i])
  BY <1>2, <1>3 DEF Over
<1>5. OneRowADay(Slots(g)')
  BY <1>1, <1>2, OverTwo
<1>6. FiledOf(g)'
  BY <1>1, <1>3 DEF FiledOf, Same
<1>7. ReadsOf(g)'
  BY <1>1, <1>4 DEF SlotsOK, ReadsOf, Same
<1>8. pc'[g] = "idle" => held'[g] = {}
  BY <1>1 DEF SlotsOK, Same
<1> QED
  BY <1>3, <1>4, <1>5, <1>6, <1>7, <1>8 DEF SlotsOK

(* A handler whose step is not about schedules. *)
LEMMA SlotsSame ==
    ASSUME SlotInv, NEW g \in Handlers, UNCHANGED <<slot, filed[g], held[g], existing[g]>>,
           \A x \in Ids : wrote[g][x] # NoRow => wrote'[g][x] # NoRow,
           pc'[g] = "replace" => pc[g] = "replace" /\ target'[g] = target[g],
           pc'[g] = "idle" => pc[g] = "idle"
    PROVE  SlotsOK(g)' /\ Slots(g)' = Slots(g)
<1>1. SlotsOK(g) /\ FiledOf(g)
  BY DEF SlotInv, SlotsOK
<1>2. Slots(g)' = Slots(g)
  BY DEF Slots
<1>3. FiledOf(g)'
  <2>1. \A i \in DOMAIN filed[g] : filed[g][i].student \in Ids
    BY <1>1, SlotRowFacts DEF FiledOf, SlotTable
  <2>2. \A i \in DOMAIN filed[g] : wrote'[g][filed[g][i].student] # NoRow
    BY <1>1, <2>1 DEF FiledOf
  <2> QED
    BY <1>1, <2>2 DEF FiledOf
<1>4. ReadsOf(g)'
  BY <1>1, <1>2 DEF SlotsOK, ReadsOf
<1> QED
  BY <1>1, <1>2, <1>3, <1>4 DEF SlotsOK

LEMMA ReadScheduleSlots ==
    ASSUME TypeInv, SlotInv, NEW h \in Handlers, ReadSchedule(h)
    PROVE  /\ UNCHANGED <<slot, filed>> /\ Slots(h)' = Slots(h)
           /\ held'[h] = held[h] \cup SlotsOf(h)
           /\ \A g \in Handlers \ {h} : UNCHANGED <<held[g], existing[g], hidden[g], since[g]>>
           /\ SlotsOK(h)' /\ SlotsApart'
           /\ DOMAIN held' = Handlers /\ DOMAIN existing' = Handlers
           /\ DOMAIN hidden' = Handlers /\ DOMAIN since' = Handlers
<1>1. /\ pc[h] = "schedule" /\ FreeSlots(h, SlotsOf(h)) /\ Go(h, "replace")
      /\ UNCHANGED <<target, wrote, slot, filed>>
  BY DEF ReadSchedule
<1>2. PICK f \in [DaysOf(h) -> SlotsOf(h)] :
         /\ \A d \in DaysOf(h) : Slots(h)[f[d]].day = d
         /\ existing' = [existing EXCEPT ![h] = f]
         /\ hidden' = [hidden EXCEPT ![h] = @ \cup {i \in SlotsOf(h) : f[Slots(h)[i].day] # i}]
  BY DEF ReadSchedule
<1>3. held' = [held EXCEPT ![h] = @ \cup SlotsOf(h)] /\ since' = [since EXCEPT ![h] = @ \ SlotsOf(h)]
  BY DEF ReadSchedule
<1>4. held'[h] = held[h] \cup SlotsOf(h) /\ existing'[h] = f
      /\ \A g \in Handlers \ {h} : UNCHANGED <<held[g], existing[g], hidden[g], since[g]>>
  BY <1>2, <1>3 DEF SlotInv
<1>5. DOMAIN held' = Handlers /\ DOMAIN existing' = Handlers /\ DOMAIN hidden' = Handlers
      /\ DOMAIN since' = Handlers
  BY <1>2, <1>3 DEF SlotInv
<1>6. pc'[h] = "replace"
  BY <1>1, GoFacts DEF TypeInv, Labels
<1>7. Slots(h)' = Slots(h) /\ SlotsOK(h)
  BY <1>1 DEF Slots, SlotInv
<1>8. ReadsOf(h)'
  <2>1. ASSUME NEW d \in DaysOf(h)
        PROVE  f[d] \in held'[h] /\ f[d] \in DOMAIN Slots(h) /\ Slots(h)[f[d]].student = target[h]
               /\ Slots(h)[f[d]].day = d
    BY <1>2, <1>4 DEF SlotsOf
  <2> QED
    BY <1>1, <1>2, <1>4, <1>7, <2>1 DEF ReadsOf
<1>9. FiledOf(h)'
  BY <1>1, <1>4, <1>7 DEF SlotsOK, FiledOf
<1>10. SlotsOK(h)'
  BY <1>6, <1>7, <1>8, <1>9 DEF SlotsOK
<1>11. SlotsApart'
  BY <1>1, <1>4 DEF SlotInv, SlotsApart, FreeSlots
<1> QED
  BY <1>1, <1>4, <1>5, <1>7, <1>10, <1>11

(* The rows of a student's new schedule.                                   *)
LEMMA NewSlotFacts ==
    ASSUME TypeInv, SlotInv, NEW h \in Handlers, pc[h] = "replace"
    PROVE  /\ target[h] \in Students /\ wrote[h][target[h]] # NoRow /\ target[h] \in Ids
           /\ DOMAIN NewSlots(h) = Kept(h) \cup Dropped(h)
           /\ \A i \in Kept(h) \ Dropped(h) :
                 /\ i = Own(target[h], i[2]) /\ i[2] \in Line(h).days
                 /\ OnDay(NewSlots(h)[i], target[h], i[2])
           /\ \A i \in Dropped(h) :
                 /\ i \in held[h] /\ i \in DOMAIN Slots(h) /\ Slots(h)[i].student = target[h]
                 /\ Slots(h)[i].day \in DOMAIN existing[h] \ Line(h).days
                 /\ NewSlots(h)[i].student = target[h] /\ NewSlots(h)[i].day = Slots(h)[i].day
                 /\ NewSlots(h)[i].deleted
           /\ SlotTable(NewSlots(h)) /\ SlotTable(Slots(h)) /\ SlotTable(filed[h])
           /\ \A d \in Line(h).days : d \in Days /\ Own(target[h], d) \in Kept(h)
<1>1. /\ target[h] \in Students /\ target[h] \in Ids /\ wrote[h][target[h]] # NoRow
      /\ Line(h).days \subseteq Days
  BY ScheduledFacts DEF Scheduling
<1>2. DOMAIN NewSlots(h) = Kept(h) \cup Dropped(h)
  BY DEF NewSlots
<1>3. SlotTable(slot) /\ SlotTable(filed[h]) /\ ReadsOf(h)
  BY DEF SlotInv, SlotsOK, FiledOf
<1>4. SlotTable(Slots(h))
  BY <1>3 DEF Slots, SlotTable, Over
<1>5. ASSUME NEW i \in Kept(h)
      PROVE  i = Own(target[h], i[2]) /\ i[2] \in Line(h).days /\ i \in SlotIds
  <2>1. PICK d \in Line(h).days : i = Own(target[h], d)
    BY DEF Kept
  <2>2. i[2] = d
    BY <2>1, SlotIdFacts
  <2> QED
    BY <1>1, <2>1, <2>2, SlotIdFacts
<1>6. ASSUME NEW i \in Dropped(h)
      PROVE  /\ i \in held[h] /\ i \in DOMAIN Slots(h) /\ Slots(h)[i].student = target[h]
             /\ Slots(h)[i].day \in DOMAIN existing[h] \ Line(h).days
  <2>1. PICK d \in DOMAIN existing[h] \ Line(h).days : i = existing[h][d]
    BY DEF Dropped
  <2> QED
    BY <1>3, <2>1 DEF ReadsOf
<1>7. ASSUME NEW i \in Dropped(h)
      PROVE  /\ NewSlots(h)[i] \in SlotRows /\ NewSlots(h)[i].student = target[h]
             /\ NewSlots(h)[i].day = Slots(h)[i].day /\ NewSlots(h)[i].deleted
  <2>1. NewSlots(h)[i] = [Slots(h)[i] EXCEPT !.deleted = TRUE]
    BY DEF NewSlots
  <2>2. Slots(h)[i] \in SlotRows /\ Slots(h)[i].student = target[h]
    BY <1>4, <1>6 DEF SlotTable
  <2> QED
    BY <2>1, <2>2, SlotRowFacts
<1>8. ASSUME NEW i \in Kept(h) \ Dropped(h)
      PROVE  OnDay(NewSlots(h)[i], target[h], i[2]) /\ NewSlots(h)[i] \in SlotRows
  <2>1. NewSlots(h)[i] = [student |-> target[h], day |-> i[2], deleted |-> FALSE]
    BY DEF NewSlots
  <2> QED
    BY <1>1, <1>5, <2>1 DEF OnDay, SlotRows
<1>9. SlotTable(NewSlots(h))
  <2>1. \A i \in Dropped(h) : i \in SlotIds
    BY <1>4, <1>6 DEF SlotTable
  <2> QED
    BY <1>2, <1>5, <1>7, <1>8, <2>1 DEF SlotTable
<1>10. \A d \in Line(h).days : d \in Days /\ Own(target[h], d) \in Kept(h)
  BY <1>1 DEF Kept
<1> HIDE DEF NewSlots
<1> QED
  BY <1>1, <1>2, <1>3, <1>4, <1>5, <1>6, <1>7, <1>8, <1>9, <1>10

LEMMA ReplaceFacts ==
    ASSUME TypeInv, SlotInv, NEW h \in Handlers, ReplaceSchedule(h)
    PROVE  /\ UNCHANGED <<slot, hidden, since, wrote>> /\ pc[h] = "replace" /\ pc'[h] = "next"
           /\ held'[h] = held[h] \cup Kept(h) /\ filed'[h] = Over(NewSlots(h), filed[h])
           /\ \A g \in Handlers \ {h} : UNCHANGED <<held[g], filed[g], existing[g]>>
           /\ DOMAIN held' = Handlers /\ DOMAIN existing' = Handlers /\ DOMAIN filed' = Handlers
           /\ DOMAIN Slots(h)' = DOMAIN NewSlots(h) \cup DOMAIN Slots(h)
           /\ \A i \in DOMAIN NewSlots(h) : Slots(h)'[i] = NewSlots(h)[i]
           /\ \A i \in DOMAIN Slots(h) \ DOMAIN NewSlots(h) : Slots(h)'[i] = Slots(h)[i]
<1>1. /\ pc[h] = "replace" /\ UNCHANGED <<slot, hidden, since, wrote>> /\ CountLine(h)
      /\ filed' = [filed EXCEPT ![h] = Over(NewSlots(h), @)]
      /\ held' = [held EXCEPT ![h] = @ \cup Kept(h)]
      /\ existing' = [existing EXCEPT ![h] = <<>>]
  BY DEF ReplaceSchedule
<1>2. pc'[h] = "next"
  BY <1>1, NextLineFacts DEF TypeInv, CountLine
<1>3. /\ held'[h] = held[h] \cup Kept(h) /\ filed'[h] = Over(NewSlots(h), filed[h])
      /\ DOMAIN held' = Handlers /\ DOMAIN existing' = Handlers /\ DOMAIN filed' = Handlers
      /\ \A g \in Handlers \ {h} : UNCHANGED <<held[g], filed[g], existing[g]>>
  BY <1>1 DEF SlotInv
<1>4. Slots(h)' = Over(filed'[h], slot) /\ Slots(h) = Over(filed[h], slot)
  BY <1>1 DEF Slots
<1>5. /\ DOMAIN Slots(h)' = DOMAIN NewSlots(h) \cup DOMAIN Slots(h)
      /\ \A i \in DOMAIN NewSlots(h) : Slots(h)'[i] = NewSlots(h)[i]
      /\ \A i \in DOMAIN Slots(h) \ DOMAIN NewSlots(h) : Slots(h)'[i] = Slots(h)[i]
  BY <1>3, <1>4 DEF Over
<1> QED
  BY <1>1, <1>2, <1>3, <1>5

LEMMA ReplaceScheduleSlots ==
    ASSUME TypeInv, SlotInv, NEW h \in Handlers, ReplaceSchedule(h)
    PROVE  SlotsOK(h)' /\ SlotsApart'
<1>1. /\ pc[h] = "replace" /\ FreeSlots(h, Kept(h)) /\ InTheWay(h) \subseteq Kept(h)
      /\ SlotsOK(h) /\ FiledOf(h)
  BY DEF ReplaceSchedule, SlotInv, SlotsOK
<1>2. /\ UNCHANGED <<slot, wrote>> /\ pc'[h] = "next"
      /\ held'[h] = held[h] \cup Kept(h) /\ filed'[h] = Over(NewSlots(h), filed[h])
      /\ \A g \in Handlers \ {h} : held'[g] = held[g]
  BY ReplaceFacts
<1>3. SlotsApart'
  BY <1>1, <1>2 DEF SlotInv, SlotsApart, FreeSlots
<1>4. /\ DOMAIN NewSlots(h) = Kept(h) \cup Dropped(h) /\ SlotTable(NewSlots(h))
      /\ wrote[h][target[h]] # NoRow
  BY <1>1, NewSlotFacts
<1>5. \A i \in Kept(h) \ Dropped(h) :
         /\ i = Own(target[h], i[2]) /\ i[2] \in Line(h).days
         /\ OnDay(NewSlots(h)[i], target[h], i[2])
  BY ONLY TypeInv, SlotInv, h \in Handlers, <1>1, NewSlotFacts
<1>6. \A i \in Dropped(h) :
         /\ i \in held[h] /\ i \in DOMAIN Slots(h) /\ Slots(h)[i].student = target[h]
         /\ Slots(h)[i].day \in DOMAIN existing[h] \ Line(h).days
         /\ NewSlots(h)[i].student = target[h] /\ NewSlots(h)[i].day = Slots(h)[i].day
         /\ NewSlots(h)[i].deleted
  BY ONLY TypeInv, SlotInv, h \in Handlers, <1>1, NewSlotFacts
<1> HIDE DEF NewSlots
<1>7. FiledOf(h)'
  <2>1. /\ DOMAIN filed'[h] = Kept(h) \cup Dropped(h) \cup DOMAIN filed[h]
        /\ \A i \in Kept(h) \cup Dropped(h) : filed'[h][i] = NewSlots(h)[i]
        /\ \A i \in DOMAIN filed[h] \ (Kept(h) \cup Dropped(h)) : filed'[h][i] = filed[h][i]
    BY <1>2, <1>4 DEF Over
  <2>2. SlotTable(filed'[h])
    BY <1>1, <1>4, <2>1 DEF FiledOf, SlotTable
  <2>3. DOMAIN filed'[h] \subseteq held'[h]
    BY <1>1, <1>2, <1>6, <2>1 DEF FiledOf
  <2>4. ASSUME NEW i \in Kept(h) \ Dropped(h)
        PROVE  filed'[h][i].student = target[h] /\ i = Own(target[h], filed'[h][i].day)
    <3>1. OnDay(filed'[h][i], target[h], i[2]) /\ i = Own(target[h], i[2])
      BY <1>5, <2>1
    <3> QED
      BY <3>1, OnDayFacts
  <2>5. ASSUME NEW i \in Dropped(h)
        PROVE  /\ filed'[h][i].student = target[h]
               /\ \/ i = Own(target[h], filed'[h][i].day)
                  \/ i \in DOMAIN slot /\ slot[i].student = target[h] /\ slot[i].day = filed'[h][i].day
    <3>1. /\ filed'[h][i].student = target[h] /\ filed'[h][i].day = Slots(h)[i].day
          /\ Slots(h)[i].student = target[h] /\ i \in DOMAIN Slots(h)
      BY <1>6, <2>1
    <3>2. CASE i \in DOMAIN filed[h]
      <4>1. Slots(h)[i] = filed[h][i]
        BY <3>1, <3>2 DEF Slots, Over
      <4> QED
        BY <1>1, <3>1, <3>2, <4>1 DEF FiledOf
    <3>3. CASE i \notin DOMAIN filed[h]
      <4>1. Slots(h)[i] = slot[i] /\ i \in DOMAIN slot
        BY <3>1, <3>3 DEF Slots, Over
      <4> QED
        BY <3>1, <4>1
    <3> QED
      BY <3>2, <3>3
  <2>6. ASSUME NEW i \in DOMAIN filed'[h]
        PROVE  /\ wrote[h][filed'[h][i].student] # NoRow
               /\ \/ i = Own(filed'[h][i].student, filed'[h][i].day)
                  \/ /\ i \in DOMAIN slot /\ slot[i].student = filed'[h][i].student
                     /\ slot[i].day = filed'[h][i].day
    <3>1. CASE i \in Kept(h) \ Dropped(h)
      BY <1>4, <2>4, <3>1
    <3>2. CASE i \in Dropped(h)
      BY <1>4, <2>5, <3>2
    <3>3. CASE i \in DOMAIN filed[h] \ (Kept(h) \cup Dropped(h))
      BY <1>1, <2>1, <3>3 DEF FiledOf
    <3> QED
      BY <2>1, <3>1, <3>2, <3>3
  <2> QED
    BY <1>2, <2>2, <2>3, <2>6 DEF FiledOf
<1>8. OneRowADay(Slots(h)')
  <2> DEFINE T == Slots(h)'
  <2>1. /\ DOMAIN T = Kept(h) \cup Dropped(h) \cup DOMAIN Slots(h)
        /\ \A i \in Kept(h) \cup Dropped(h) : T[i] = NewSlots(h)[i]
        /\ \A i \in DOMAIN Slots(h) \ (Kept(h) \cup Dropped(h)) : T[i] = Slots(h)[i]
    BY <1>4, ReplaceFacts
  <2> HIDE DEF T
  <2> SUFFICES ASSUME NEW i \in DOMAIN T, NEW j \in DOMAIN T, i # j, ~T[i].deleted, T[i] = T[j]
               PROVE  FALSE
    BY DEF OneRowADay, T
  <2>2. i \notin Dropped(h) /\ j \notin Dropped(h)
    BY <1>6, <2>1
  <2>3. ASSUME NEW k \in Kept(h) \ Dropped(h) PROVE OnDay(T[k], target[h], k[2])
    BY <1>5, <2>1
  <2>4. CASE i \in Kept(h) /\ j \in Kept(h)
    <3>1. i[2] = j[2]
      BY <2>2, <2>3, <2>4, OnDayFacts
    <3> QED
      BY <1>5, <2>2, <2>4, <3>1
  <2>5. CASE i \in Kept(h) /\ j \notin Kept(h)
    <3>1. j \in DOMAIN Slots(h) /\ OnDay(Slots(h)[j], target[h], i[2]) /\ j # Own(target[h], i[2])
          /\ i[2] \in Line(h).days
      BY <1>5, <2>1, <2>2, <2>3, <2>5
    <3> QED
      BY <1>1, <2>5, <3>1 DEF InTheWay
  <2>6. CASE j \in Kept(h) /\ i \notin Kept(h)
    <3>1. i \in DOMAIN Slots(h) /\ OnDay(Slots(h)[i], target[h], j[2]) /\ i # Own(target[h], j[2])
          /\ j[2] \in Line(h).days
      BY <1>5, <2>1, <2>2, <2>3, <2>6
    <3> QED
      BY <1>1, <2>6, <3>1 DEF InTheWay
  <2>7. CASE i \notin Kept(h) /\ j \notin Kept(h)
    BY <1>1, <2>1, <2>2, <2>7 DEF SlotsOK, OneRowADay
  <2> QED
    BY <2>4, <2>5, <2>6, <2>7
<1> QED
  BY <1>1, <1>2, <1>3, <1>7, <1>8 DEF SlotsOK, ReadsOf

(* The end of a transaction: what a handler filed is lost, or committed.   *)
LEMMA EndSlots ==
    ASSUME TypesOK, SlotInv, NEW h \in Handlers, Reset(h), SlotTable(slot'), OneRowADay(slot')
    PROVE  /\ SlotsOK(h)' /\ SlotsApart'
           /\ \A g \in Handlers \ {h} : UNCHANGED <<filed[g], held[g], existing[g]>>
           /\ DOMAIN filed' = Handlers /\ DOMAIN held' = Handlers /\ DOMAIN existing' = Handlers
           /\ DOMAIN hidden' = Handlers
<1>1. /\ filed' = [filed EXCEPT ![h] = <<>>] /\ held' = [held EXCEPT ![h] = {}]
      /\ existing' = [existing EXCEPT ![h] = <<>>] /\ hidden' = [hidden EXCEPT ![h] = {}]
      /\ pc' = [pc EXCEPT ![h] = "idle"]
  BY DEF Reset
<1>2. /\ filed'[h] = <<>> /\ held'[h] = {}
      /\ \A g \in Handlers \ {h} : UNCHANGED <<filed[g], held[g], existing[g]>>
      /\ DOMAIN filed' = Handlers /\ DOMAIN held' = Handlers /\ DOMAIN existing' = Handlers
      /\ DOMAIN hidden' = Handlers
  BY <1>1 DEF SlotInv
<1>3. DOMAIN filed'[h] = {}
  BY <1>2
<1>4. SlotsApart'
  BY <1>2 DEF SlotInv, SlotsApart
<1>5. FiledOf(h)'
  BY <1>3 DEF FiledOf, SlotTable
<1>6. OneRowADay(Slots(h)')
  <2>1. Slots(h)' = Over(filed'[h], slot')
    BY DEF Slots
  <2> QED
    BY <1>3, <2>1 DEF OneRowADay, Over
<1>7. pc'[h] # "replace"
  BY <1>1 DEF TypesOK
<1> QED
  BY <1>2, <1>4, <1>5, <1>6, <1>7 DEF SlotsOK, ReadsOf

LEMMA CommitSlotsKeeps ==
    ASSUME KeyInv, SlotInv, NEW h \in Handlers, Commit(h)
    PROVE  /\ slot' = Slots(h) /\ SlotTable(slot') /\ OneRowADay(slot')
           /\ DOMAIN since' = Handlers
           /\ \A g \in Handlers \ {h} : /\ DOMAIN filed[h] \cap held[g] = {}
                                        /\ NoClash(filed[g], filed[h])
<1>1. slot' = Over(filed[h], slot) /\ DOMAIN since' = Handlers
  BY DEF Commit, CommitSlots
<1>2. FiledOf(h) /\ OneRowADay(Slots(h)) /\ SlotTable(slot)
  BY DEF SlotInv, SlotsOK
<1>3. SlotTable(slot')
  BY <1>1, <1>2 DEF FiledOf, SlotTable, Over
<1>4. ASSUME NEW g \in Handlers \ {h} PROVE DOMAIN filed[h] \cap held[g] = {}
  BY <1>2, <1>4 DEF SlotInv, SlotsApart, FiledOf
<1>5. ASSUME NEW g \in Handlers \ {h}, NEW i \in DOMAIN filed[g], NEW j \in DOMAIN filed[h]
      PROVE  filed[g][i] # filed[h][j]
  <2> SUFFICES ASSUME filed[g][i] = filed[h][j] PROVE FALSE
    OBVIOUS
  <2>1. FiledOf(g) /\ LocksOf(g) /\ LocksOf(h)
    BY DEF SlotInv, SlotsOK, KeyInv, KeysOK
  <2>2. filed[h][j] \in SlotRows /\ filed[h][j].student \in Ids
    BY <1>2, SlotRowFacts DEF FiledOf, SlotTable
  <2>3. wrote[g][filed[h][j].student] # NoRow /\ wrote[h][filed[h][j].student] # NoRow
    BY <1>2, <2>1 DEF FiledOf
  <2> QED
    BY <2>1, <2>2, <2>3 DEF LocksOf
<1>6. \A g \in Handlers \ {h} : NoClash(filed[g], filed[h])
  BY <1>5 DEF NoClash
<1> QED
  BY <1>1, <1>2, <1>3, <1>4, <1>6 DEF Slots

LEMMA PushSlotTable ==
    ASSUME SlotInv, NEW p \in SlotPushes, PushSlot(p)
    PROVE  \E f : /\ slot' = Over(f, slot) /\ DOMAIN f = {p.id}
                  /\ SlotTable(slot') /\ OneRowADay(slot')
                  /\ UNCHANGED <<filed, held, existing, hidden>> /\ DOMAIN since' = Handlers
                  /\ \A g \in Handlers :
                        /\ DOMAIN f \cap held[g] = {} /\ NoClash(filed[g], f)
                        /\ pc[g] # "idle" => since'[g] = since[g] \cup DOMAIN f
<1> DEFINE f == [i \in {p.id} |-> p.row]
<1>1. /\ slot' = Over(f, slot) /\ DOMAIN since' = Handlers
      /\ UNCHANGED <<filed, held, existing, hidden>>
      /\ \A g \in Handlers : pc[g] # "idle" => since'[g] = since[g] \cup DOMAIN f
  BY ImportsAssumption DEF PushSlot, CommitSlots
<1>2. p.id \in SlotIds /\ p.row \in SlotRows
  BY ImportsAssumption
<1>3. DOMAIN f = {p.id} /\ f[p.id] = p.row
  OBVIOUS
<1> HIDE DEF f
<1>4. \A g \in Handlers : DOMAIN f \cap held[g] = {}
  BY <1>3 DEF PushSlot
<1>5. \A g \in Handlers : NoClash(filed[g], f)
  BY <1>3 DEF PushSlot, NoClash
<1>6. SlotTable(slot')
  BY <1>1, <1>2, <1>3 DEF SlotTable, SlotInv, Over
<1>7. OneRowADay(slot')
  <2>1. ~p.row.deleted => \A i \in DOMAIN slot \ {p.id} : slot[i] # p.row
    BY DEF PushSlot
  <2>2. /\ DOMAIN slot' = {p.id} \cup DOMAIN slot /\ slot'[p.id] = p.row
        /\ \A i \in DOMAIN slot \ {p.id} : slot'[i] = slot[i]
    BY <1>1, <1>3 DEF Over
  <2> QED
    BY <2>1, <2>2 DEF SlotInv, OneRowADay
<1> QED
  BY <1>1, <1>3, <1>4, <1>5, <1>6, <1>7

LEMMA InitSlotInv == Init => SlotInv
<1> SUFFICES ASSUME Init PROVE SlotInv
  OBVIOUS
<1>1. SlotTable(slot) /\ OneRowADay(slot)
  BY StoredAssumption DEF Init, SlotTable
<1>2. ASSUME NEW h \in Handlers PROVE SlotsOK(h)
  <2>1. filed[h] = <<>> /\ held[h] = {} /\ pc[h] = "idle"
    BY DEF Init
  <2>2. DOMAIN filed[h] = {}
    BY <2>1
  <2>3. OneRowADay(Slots(h))
    BY <1>1, <2>2 DEF Slots, OneRowADay, Over
  <2> QED
    BY <2>1, <2>2, <2>3 DEF SlotsOK, FiledOf, ReadsOf, SlotTable
<1> QED
  BY <1>1, <1>2 DEF Init, SlotInv, SlotsApart

(* What a step writes of the records stays written until it ends.          *)
LEMMA WroteStays ==
    ASSUME TypeInv, NEW h \in Handlers, Step(h), ~Commit(h), ~Rollback(h)
    PROVE  /\ \A x \in Ids : wrote[h][x] # NoRow => wrote'[h][x] # NoRow
           /\ pc'[h] # "idle" /\ pc[h] # "idle"
           /\ ~ReadSchedule(h) => pc'[h] # "replace"
           /\ ~ReadSchedule(h) /\ ~ReplaceSchedule(h) => UNCHANGED slots
           /\ ~ReadSchedule(h) /\ ~ReplaceSchedule(h) /\ ~WriteRow(h) =>
                  UNCHANGED <<wrote, imported, req>>
<1>1. CASE WriteRow(h)
  <2>1. pc[h] = "write" /\ UNCHANGED slots
        /\ wrote' = [wrote EXCEPT ![h] = [@ EXCEPT ![target[h]] = NewRow(h)]]
        /\ (Go(h, "schedule") \/ NextLine(h))
    BY <1>1 DEF WriteRow, CountLine
  <2>2. pc'[h] \in {"schedule", "next"}
    BY <2>1, GoFacts, NextLineFacts DEF TypeInv, Labels
  <2>3. target[h] \in Ids /\ Fits(target[h], NewRow(h)) /\ NewRow(h) # NoRow
    BY <2>1, NewRowType, FitsFacts
  <2>4. \A x \in Ids : wrote[h][x] # NoRow => wrote'[h][x] # NoRow
    BY <2>1, <2>3, WroteType DEF TypeInv, Puts
  <2> QED
    BY <1>1, <2>1, <2>2, <2>4
<1>2. CASE ReadSchedule(h) \/ ReplaceSchedule(h)
  <2>1. UNCHANGED wrote /\ pc[h] # "idle"
    BY <1>2 DEF ReadSchedule, ReplaceSchedule
  <2>2. pc'[h] = "next" \/ (pc'[h] = "replace" /\ ReadSchedule(h))
    BY <1>2, GoFacts, NextLineFacts DEF ReadSchedule, ReplaceSchedule, TypeInv, Labels, CountLine
  <2> QED
    BY <1>2, <2>1, <2>2
<1>3. ASSUME UNCHANGED <<wrote, imported, slots>>, pc[h] # "idle",
             NextLine(h) \/ \E l \in Labels \ {"idle", "replace"} : Go(h, l)
      PROVE  /\ \A x \in Ids : wrote[h][x] # NoRow => wrote'[h][x] # NoRow
             /\ pc'[h] \notin {"idle", "replace"} /\ pc[h] # "idle"
             /\ UNCHANGED <<wrote, imported, slots, req>>
  BY <1>3, GoFacts, NextLineFacts DEF TypeInv, Global
<1>4. CASE Take(h) \/ LockRow(h) \/ References(h)
  <2>1. \/ NextLine(h)
        \/ \E l \in {"references", "lock", "code", "order", "find", "number", "duplicate"} : Go(h, l)
    BY <1>4 DEF Take, LockRow, References, RefuseLine
  <2>2. UNCHANGED <<wrote, imported, slots>> /\ pc[h] # "idle"
    BY <1>4 DEF Take, LockRow, References, RefuseLine, Go
  <2> QED
    BY <1>3, <2>1, <2>2 DEF Labels
<1>5. CASE TryCode(h) \/ CheckOrder(h) \/ CheckDuplicate(h) \/ FindStudent(h) \/ NumberStudent(h)
           \/ RefuseSchedule(h)
  <2>1. NextLine(h) \/ \E l \in {"code", "write", "number", "duplicate"} : Go(h, l)
    BY <1>5 DEF TryCode, CheckOrder, CheckDuplicate, FindStudent, NumberStudent, RefuseLine,
       RefuseSchedule
  <2>2. UNCHANGED <<wrote, imported, slots>> /\ pc[h] # "idle"
    BY <1>5 DEF TryCode, CheckOrder, CheckDuplicate, FindStudent, NumberStudent, RefuseLine,
       RefuseSchedule, Go
  <2> QED
    BY <1>3, <2>1, <2>2 DEF Labels
<1> QED
  BY <1>1, <1>2, <1>3, <1>4, <1>5 DEF Step, Abort, AbortSchedule, Fail, DeadlockVictim

LEMMA NextSlotInv == KeyInv /\ SlotInv /\ [Next]_vars => SlotInv'
<1> SUFFICES ASSUME KeyInv, SlotInv, [Next]_vars PROVE SlotInv'
  OBVIOUS
<1>1. TypeInv
  BY DEF KeyInv
<1>2. ASSUME UNCHANGED slots, \A h \in Handlers : SlotsOK(h)' PROVE SlotInv'
  BY <1>2 DEF slots, SlotInv, SlotsApart
<1>3. CASE \E h \in Handlers, q \in Requests : Begin(h, q)
  <2>1. PICK h \in Handlers, q \in Requests : Begin(h, q)
    BY <1>3
  <2>2. UNCHANGED slots /\ UNCHANGED wrote /\ pc'[h] = "next" /\ pc[h] = "idle" /\ Others(h)
    BY <1>1, <2>1, BeginTypes DEF Begin, TypeInv, TypesOK
  <2>3. \A g \in Handlers : SlotsOK(g)'
    BY <2>2, SlotsSame DEF slots, Others, Same
  <2> QED
    BY <1>2, <2>2, <2>3
<1>4. CASE UNCHANGED vars \/ \E x \in Fragile : Delete(x)
  <2>1. UNCHANGED <<slots, wrote, pc, target>>
    BY <1>4 DEF vars, locals, Delete
  <2>2. \A g \in Handlers : SlotsOK(g)'
    BY <2>1, SlotsSame DEF slots
  <2> QED
    BY <1>2, <2>1, <2>2
<1>5. CASE \E p \in SlotPushes : PushSlot(p)
  <2>1. PICK p \in SlotPushes : PushSlot(p)
    BY <1>5
  <2>2. PICK f : /\ slot' = Over(f, slot) /\ SlotTable(slot') /\ OneRowADay(slot')
                 /\ UNCHANGED <<filed, held, existing, hidden>> /\ DOMAIN since' = Handlers
                 /\ \A g \in Handlers : DOMAIN f \cap held[g] = {} /\ NoClash(filed[g], f)
    BY <2>1, PushSlotTable
  <2>3. \A g \in Handlers : SlotsOK(g)'
    BY <1>1, <2>1, <2>2, PushSlotFacts, SlotsStay DEF TypeInv
  <2> QED
    BY <2>2, <2>3 DEF SlotInv, SlotsApart
<1>6. ASSUME NEW h \in Handlers, Step(h) PROVE SlotInv'
  <2>1. Others(h)
    BY <1>1, <1>6, StepTypes
  <2>2. CASE Rollback(h)
    <3>1. UNCHANGED slot /\ Reset(h) /\ DOMAIN since' = Handlers
      BY <2>2 DEF Rollback, SlotInv
    <3>2. SlotTable(slot') /\ OneRowADay(slot')
      BY <3>1 DEF SlotInv
    <3>3. \A g \in Handlers \ {h} : SlotsOK(g)'
      BY <1>1, <2>1, <3>1, <3>2, EndSlots, SlotsSame DEF Others, Same, TypeInv
    <3> QED
      BY <1>1, <3>1, <3>2, <3>3, EndSlots DEF SlotInv, TypeInv
  <2>3. CASE Commit(h)
    <3>1. Reset(h) /\ slot' = Over(filed[h], slot)
      BY <2>3 DEF Commit, CommitSlots
    <3>2. SlotTable(slot') /\ OneRowADay(slot') /\ DOMAIN since' = Handlers
      BY <2>3, CommitSlotsKeeps
    <3>3. \A g \in Handlers \ {h} : SlotsOK(g)'
      BY <1>1, <2>1, <2>3, <3>1, <3>2, EndSlots, CommitSlotsKeeps, SlotsStay DEF Others, TypeInv
    <3> QED
      BY <1>1, <3>1, <3>2, <3>3, EndSlots DEF SlotInv, TypeInv
  <2>4. CASE ReadSchedule(h)
    <3>1. \A g \in Handlers \ {h} : SlotsOK(g)'
      BY <1>1, <2>1, <2>4, ReadScheduleSlots, SlotsSame DEF Others, Same
    <3> QED
      BY <1>1, <2>4, <3>1, ReadScheduleSlots DEF SlotInv
  <2>5. CASE ReplaceSchedule(h)
    <3>1. \A g \in Handlers \ {h} : SlotsOK(g)'
      BY <1>1, <2>1, <2>5, ReplaceFacts, SlotsSame DEF Others, Same
    <3> QED
      BY <1>1, <2>5, <3>1, ReplaceFacts, ReplaceScheduleSlots DEF SlotInv
  <2>6. CASE ~Rollback(h) /\ ~Commit(h) /\ ~ReadSchedule(h) /\ ~ReplaceSchedule(h)
    <3>1. /\ UNCHANGED slots /\ pc'[h] \notin {"idle", "replace"}
          /\ \A x \in Ids : wrote[h][x] # NoRow => wrote'[h][x] # NoRow
      BY <1>1, <1>6, <2>6, WroteStays
    <3>2. \A g \in Handlers : SlotsOK(g)'
      BY <2>1, <3>1, SlotsSame DEF slots, Others, Same
    <3> QED
      BY <1>2, <3>1, <3>2
  <2> QED
    BY <2>2, <2>3, <2>4, <2>5, <2>6
<1> QED
  BY <1>3, <1>4, <1>5, <1>6 DEF Next

(* Every value the code reads has the type it expects, the counter's codes *)
(* are drawn under its lock, and the unique indexes of club codes, belt    *)
(* rank orders and student codes hold of the committed rows: no commit     *)
(* breaks them whatever the lookups missed; nor that of the active         *)
(* schedule rows (schema.go, unique indexes).                              *)
THEOREM TypeSafety == Spec => []ImportsTypeOK
<1>1. KeyInv /\ SlotInv => ImportsTypeOK
  BY DEF KeyInv, KeysOK, LocksOf, TypeInv, TypesOK, Tabled, ImportsTypeOK, Rows, SlotInv
<1>2. KeyInv /\ SlotInv /\ [Next]_vars => (KeyInv /\ SlotInv)'
  BY NextKeyInv, NextSlotInv
<1> QED
  BY <1>1, <1>2, InitKeyInv, InitSlotInv, PTL DEF Spec

-----------------------------------------------------------------------------
(* Lookups: what a handler found free when it looked is free when it       *)
(* writes, except for what others have committed since.                    *)
Numbered(h) == req[h].kind = "students" /\ Line(h).key = NoCode

(* From the lookup to the write, whoever has the key is news.              *)
LookOf(h) ==
    /\ pc[h] \notin {"write", "schedule", "replace"} => news[h] = {}
    /\ pc[h] = "write" /\ ~Numbered(h) =>
           ActiveHolders(h, target[h], KeyOf(Table(target[h]), code[h])) \subseteq news[h]

LookInv == KeyInv /\ \A h \in Handlers : LookOf(h)

(* Another handler's step. *)
LEMMA LookKeeps ==
    ASSUME LookInv, NEW g \in Handlers, Same(g),
           \A y \in Ids : row'[y] = row[y] \/ wrote[g][y] # NoRow
                                           \/ (pc[g] = "write" => y \in news'[g]),
           pc[g] = "write" => news[g] \subseteq news'[g],
           pc[g] \notin {"write", "schedule", "replace"} => news'[g] \subseteq news[g]
    PROVE  LookOf(g)'
<1>1. LookOf(g)
  BY DEF LookInv
<1>2. Numbered(g)' = Numbered(g) /\ UNCHANGED <<pc[g], target[g], code[g]>>
  BY DEF Same, Numbered, Line
<1>3. ASSUME pc[g] = "write", ~Numbered(g),
             NEW y \in ActiveHolders(g, target[g], KeyOf(Table(target[g]), code[g]))'
      PROVE  y \in news'[g]
  <2>1. y \in Ids \ {target[g]} /\ Active(View(g, y)')
        /\ UniqueKey(y, View(g, y)') = KeyOf(Table(target[g]), code[g])
    BY <1>2, <1>3 DEF ActiveHolders
  <2>2. View(g, y)' = View(g, y) \/ y \in news'[g]
    BY <1>3, <2>1 DEF View, Same
  <2>3. CASE View(g, y)' = View(g, y)
    BY <1>1, <1>3, <2>1, <2>3 DEF LookOf, ActiveHolders
  <2> QED
    BY <2>2, <2>3
<1>4. pc[g] \notin {"write", "schedule", "replace"} => news'[g] = {}
  BY <1>1 DEF LookOf
<1> QED
  BY <1>2, <1>3, <1>4 DEF LookOf

LEMMA LookOfReader ==
    ASSUME LookInv, NEW h \in Handlers, NEW l \in Labels, Go(h, l), pc[h] \notin {"write"} \cup Scheduling,
           UNCHANGED wrote, l = "write" /\ ~Numbered(h) =>
               ActiveHolders(h, target'[h], KeyOf(Table(target'[h]), code'[h])) = {}
    PROVE  LookOf(h)'
<1>1. TypesOK /\ LookOf(h)
  BY DEF LookInv, KeyInv, TypeInv
<1>2. UNCHANGED <<row, req, pos, news>> /\ pc'[h] = l
  BY <1>1, GoFacts DEF Global
<1>3. \A y : View(h, y)' = View(h, y)
  BY <1>2 DEF View
<1>4. Numbered(h)' = Numbered(h)
  BY <1>2 DEF Numbered, Line
<1>5. ActiveHolders(h, target[h], KeyOf(Table(target[h]), code[h]))' =
      ActiveHolders(h, target'[h], KeyOf(Table(target'[h]), code'[h]))
  BY <1>3 DEF ActiveHolders
<1> QED
  BY <1>1, <1>2, <1>4, <1>5 DEF LookOf, Scheduling

LEMMA LookOfNext ==
    ASSUME LookInv, NEW h \in Handlers, NextLine(h)
    PROVE  LookOf(h)'
  BY NextLineFacts DEF LookInv, KeyInv, TypeInv, LookOf

(* One code, one active student: an import writes to the only one.         *)
LEMMA FoundAlone ==
    ASSUME LookInv, NEW h \in Handlers, NEW k,
           NEW x \in ActiveHolders(h, NoId, KeyOf("students", k))
    PROVE  ActiveHolders(h, x, KeyOf("students", k)) = {}
<1>1. OneHolder(Seen(h)) /\ \A y \in Ids : Seen(h)[y] = View(h, y)
  BY DEF LookInv, KeyInv, KeysOK, Seen
<1> QED
  BY <1>1 DEF OneHolder, ActiveHolders, Active, Indexed

LEMMA FindStudentLooks == ASSUME LookInv, NEW h \in Handlers, FindStudent(h) PROVE LookOf(h)'
<1> DEFINE found == ActiveHolders(h, NoId, KeyOf("students", Line(h).key))
           x == IF found # {} THEN CHOOSE y \in found : TRUE ELSE <<serial[h], pos[h]>>
           label == IF Line(h).key = NoCode THEN "number" ELSE "write"
<1>1. TypesOK /\ pc[h] = "find" /\ UNCHANGED wrote /\ Go(h, label) /\ label \in Labels
  BY DEF FindStudent, LookInv, KeyInv, TypeInv, Labels
<1>2. target'[h] = x /\ code'[h] = Line(h).key
  BY <1>1 DEF FindStudent, TypesOK
<1>3. x \in Students
  <2>1. pc[h] \notin {"idle", "next"} /\ TypeInv
    BY <1>1 DEF LookInv, KeyInv
  <2>2. <<serial[h], pos[h]>> \in Students
    BY <2>1, FreshType DEF Students
  <2>3. \A y \in found : y \in Students
    BY KeyOfInjective, IdFacts DEF ActiveHolders, UniqueKey
  <2> HIDE DEF found
  <2> QED
    BY <2>2, <2>3
<1>4. Table(x) = "students"
  BY <1>3, IdFacts
<1>5. ActiveHolders(h, x, KeyOf("students", Line(h).key)) = {}
  <2>1. CASE found # {}
    <3>1. x \in found
      BY <2>1
    <3> QED
      BY <3>1, FoundAlone
  <2>2. CASE found = {}
    <3>1. NoId \notin Ids
      BY ImportsAssumption
    <3> QED
      BY <2>2, <3>1 DEF ActiveHolders
  <2> QED
    BY <2>1, <2>2
<1> HIDE DEF x, label
<1> QED
  BY <1>1, <1>2, <1>4, <1>5, LookOfReader DEF Scheduling

LEMMA StepLooks == ASSUME LookInv, NEW h \in Handlers, Step(h) PROVE LookOf(h)'
<1> USE DEF LookInv, KeyInv, TypeInv
<1>1. CASE Take(h)
  <2>1. pc[h] = "next" /\ (NextLine(h) \/ (UNCHANGED wrote /\ \E l \in {"references", "lock"} : Go(h, l)))
    BY <1>1 DEF Take
  <2> QED
    BY <2>1, LookOfNext, LookOfReader DEF Labels, Scheduling
<1>2. CASE LockRow(h)
  <2>1. pc[h] = "lock" /\ (NextLine(h) \/ (UNCHANGED wrote
                            /\ \E l \in {"references", "code", "order"} : Go(h, l)))
    BY <1>2 DEF LockRow, RefuseLine
  <2> QED
    BY <2>1, LookOfNext, LookOfReader DEF Labels, Scheduling
<1>3. CASE TryCode(h)
  <2>1. pc[h] = "code" /\ UNCHANGED <<wrote, target>> /\ req[h].kind = "clubs" /\ target[h] \in Clubs
    <3>1. pc[h] = "code" /\ HandlerOK(h) /\ ~Done(h)
      BY <1>3 DEF TryCode, HandlerOK, BusyOf
    <3>2. req[h].kind = "clubs" /\ target[h] = Line(h).id
      BY <3>1 DEF HandlerOK, KindOf, TargetOf
    <3> QED
      BY <1>3, <3>1, <3>2, LineType DEF TryCode, LineOK
  <2>2. Table(target[h]) = "clubs"
    BY <2>1, IdFacts
  <2>3. Go(h, "code") \/ (Go(h, "write") /\ UNCHANGED code /\ ~Taken(h))
    BY <1>3 DEF TryCode
  <2> QED
    BY <2>1, <2>2, <2>3, LookOfReader DEF Labels, Taken, Scheduling
<1>4. CASE CheckOrder(h)
  <2>1. pc[h] = "order" /\ UNCHANGED wrote /\ req[h].kind = "belt_ranks" /\ target[h] \in Ranks
    <3>1. pc[h] = "order" /\ HandlerOK(h) /\ ~Done(h)
      BY <1>4 DEF CheckOrder, HandlerOK, BusyOf
    <3>2. req[h].kind = "belt_ranks" /\ target[h] = Line(h).id
      BY <3>1 DEF HandlerOK, KindOf, TargetOf
    <3> QED
      BY <1>4, <3>1, <3>2, LineType DEF CheckOrder, RefuseLine, LineOK
  <2>2. Table(target[h]) = "belt_ranks"
    BY <2>1, IdFacts
  <2>3. \/ NextLine(h)
        \/ /\ Go(h, "write") /\ UNCHANGED <<target, code>>
           /\ ActiveHolders(h, target[h], KeyOf("belt_ranks", code[h])) = {}
    BY <1>4 DEF CheckOrder, RefuseLine
  <2> QED
    BY <2>1, <2>2, <2>3, LookOfReader, LookOfNext DEF Labels, Scheduling
<1>5. CASE References(h)
  <2>1. pc[h] = "references" /\ (NextLine(h) \/ (UNCHANGED wrote
                            /\ \E l \in {"find", "number", "duplicate"} : Go(h, l)))
    BY <1>5 DEF References, RefuseLine
  <2> QED
    BY <2>1, LookOfNext, LookOfReader DEF Labels, Scheduling
<1>6. CASE FindStudent(h)
  BY <1>6, FindStudentLooks
<1>7. CASE NumberStudent(h)
  <2>1. pc[h] = "number" /\ UNCHANGED wrote /\ HandlerOK(h)
    BY <1>7 DEF NumberStudent
  <2>2. Line(h).key = NoCode /\ req[h].kind \in {"students", "push"}
    BY <2>1 DEF HandlerOK, KindOf
  <2>3. Go(h, "duplicate") \/ (Go(h, "write") /\ Numbered(h))
    BY <1>7, <2>2 DEF NumberStudent, Numbered
  <2> QED
    BY <2>1, <2>3, LookOfReader DEF Labels, Scheduling
<1>8. CASE CheckDuplicate(h)
  <2>1. pc[h] = "duplicate" /\ UNCHANGED wrote /\ target[h] \in Students
    <3>1. pc[h] = "duplicate" /\ HandlerOK(h) /\ ~Done(h)
      BY <1>8 DEF CheckDuplicate, HandlerOK, BusyOf
    <3>2. req[h].kind = "push" /\ target[h] = Line(h).id
      BY <3>1 DEF HandlerOK, KindOf, TargetOf
    <3> QED
      BY <1>8, <3>1, <3>2, LineIds DEF CheckDuplicate, RefuseLine
  <2>2. Table(target[h]) = "students"
    BY <2>1, IdFacts
  <2>3. \/ NextLine(h)
        \/ /\ Go(h, "write") /\ UNCHANGED <<target, code>>
           /\ ActiveHolders(h, target[h], KeyOf("students", code[h])) = {}
    BY <1>8 DEF CheckDuplicate, RefuseLine
  <2> QED
    BY <2>1, <2>2, <2>3, LookOfReader, LookOfNext DEF Labels, Scheduling
<1>9. CASE WriteRow(h)
  <2>1. NextLine(h) \/ Go(h, "schedule")
    BY <1>9 DEF WriteRow, CountLine
  <2>2. Go(h, "schedule") => pc'[h] = "schedule"
    BY GoFacts DEF Labels
  <2> QED
    BY <2>1, <2>2, LookOfNext DEF LookOf
<1>10. CASE RefuseSchedule(h) \/ ReadSchedule(h) \/ ReplaceSchedule(h)
  <2>1. NextLine(h) \/ Go(h, "replace")
    BY <1>10 DEF RefuseSchedule, ReadSchedule, ReplaceSchedule, RefuseLine, CountLine
  <2>2. Go(h, "replace") => pc'[h] = "replace"
    BY GoFacts DEF Labels
  <2> QED
    BY <2>1, <2>2, LookOfNext DEF LookOf
<1>11. CASE Commit(h)
  <2>1. pc'[h] = "idle" /\ news'[h] = {}
    BY <1>11, ResetFacts DEF Commit
  <2> QED
    BY <2>1 DEF LookOf
<1>12. CASE Rollback(h)
  <2>1. pc'[h] = "idle" /\ news'[h] = {}
    BY <1>12, ResetFacts DEF Rollback, TypesOK
  <2> QED
    BY <2>1 DEF LookOf
<1> QED
  BY <1>1, <1>2, <1>3, <1>4, <1>5, <1>6, <1>7, <1>8, <1>9, <1>10, <1>11, <1>12
     DEF Step, Abort, AbortSchedule, Fail, DeadlockVictim

(* What one handler's step leaves of the others' news. *)
LEMMA NewsFacts ==
    ASSUME TypesOK, NEW h \in Handlers, Step(h) \/ \E q \in Requests : Begin(h, q),
           NEW g \in Handlers \ {h}
    PROVE  /\ \A y \in Ids : row'[y] = row[y] \/ (pc[g] = "write" => y \in news'[g])
           /\ pc[g] = "write" => news[g] \subseteq news'[g]
           /\ pc[g] \notin {"write", "schedule", "replace"} => news'[g] \subseteq news[g]
<1>1. CASE Commit(h)
  BY <1>1 DEF Commit, View
<1>2. CASE Rollback(h)
  BY <1>2 DEF Rollback, TypesOK
<1>3. CASE UNCHANGED <<row, news>>
  BY <1>3
<1>4. CASE NextLine(h)
  BY <1>4, NextLineFacts DEF Global
<1> QED
  BY <1>1, <1>2, <1>3, <1>4 DEF Step, Begin, Take, LockRow, TryCode, CheckOrder, References,
     FindStudent, NumberStudent, CheckDuplicate, WriteRow, RefuseSchedule, ReadSchedule,
     ReplaceSchedule, Abort, AbortSchedule, Fail, DeadlockVictim, Go, RefuseLine, CountLine

LEMMA InitLookInv == Init => LookInv
  BY InitKeyInv DEF LookInv, LookOf, Init

LEMMA NextLookInv == LookInv /\ [Next]_vars => LookInv'
<1> SUFFICES ASSUME LookInv, [Next]_vars PROVE \A g \in Handlers : LookOf(g)'
  BY NextKeyInv DEF LookInv
<1> USE DEF LookInv, KeyInv, TypeInv
<1>1. ASSUME NEW h \in Handlers, NEW q \in Requests, Begin(h, q), NEW g \in Handlers
      PROVE  LookOf(g)'
  <2>1. CASE g = h
    BY <1>1, <2>1 DEF Begin, LookOf, TypesOK
  <2>2. CASE g # h
    BY <1>1, <2>2, BeginTypes, NewsFacts, LookKeeps DEF Others
  <2> QED
    BY <2>1, <2>2
<1>2. ASSUME NEW x \in Fragile, Delete(x), NEW g \in Handlers PROVE LookOf(g)'
  <2>1. /\ \A y \in Ids : row'[y] = row[y] \/ (pc[g] = "write" => y \in news'[g])
        /\ news[g] \subseteq news'[g] /\ (pc[g] # "write" => news'[g] = news[g]) /\ Same(g)
    BY <1>2, DeleteFacts DEF Same
  <2> QED
    BY <2>1, LookKeeps
<1>3. ASSUME NEW h \in Handlers, Step(h), NEW g \in Handlers PROVE LookOf(g)'
  <2>1. CASE g = h
    BY <1>3, <2>1, StepLooks
  <2>2. CASE g # h
    BY <1>3, <2>2, StepTypes, NewsFacts, LookKeeps DEF Others
  <2> QED
    BY <2>1, <2>2
<1>4. ASSUME UNCHANGED vars, NEW g \in Handlers PROVE LookOf(g)'
  BY <1>4, LookKeeps DEF vars, locals, Same
<1>5. ASSUME NEW p \in SlotPushes, PushSlot(p), NEW g \in Handlers PROVE LookOf(g)'
  BY <1>5, PushSlotFacts, LookKeeps
<1> QED
  BY <1>1, <1>2, <1>3, <1>4, <1>5 DEF Next

(* A request that a unique index ends was not refused by its own lookup    *)
(* for a reason: the key was committed by another request in between, or   *)
(* belongs to a deleted student, or was handed out by the counter although *)
(* somebody had been given it by hand (club_import.go, beltrank_import.go, *)
(* student_import.go and service.go, the lookups before UpsertRecord).     *)
THEOREM CollisionsSafety == Spec => []CollisionsExplained
<1>1. ASSUME LookInv, NEW h \in Handlers, Collides(h), NEW y \in Holders(h, target[h], NewRow(h))
      PROVE  y \in news[h] \/ (y \in Students /\ View(h, y).deleted) \/ Numbered(h)
  <2>1. pc[h] = "write" /\ TypeInv
    BY <1>1 DEF Collides, LookInv, KeyInv
  <2>2. y \in Ids \ {target[h]} /\ Indexed(y, View(h, y))
        /\ UniqueKey(y, View(h, y)) = UniqueKey(target[h], NewRow(h))
    BY <1>1 DEF Holders
  <2>3. UniqueKey(target[h], NewRow(h)) = KeyOf(Table(target[h]), code[h])
    BY <2>1, NewRowType DEF UniqueKey
  <2>4. Active(View(h, y)) \/ (y \in Students /\ View(h, y).deleted)
    BY <2>2 DEF Indexed, Active
  <2>5. Active(View(h, y)) => y \in ActiveHolders(h, target[h], KeyOf(Table(target[h]), code[h]))
    BY <2>2, <2>3 DEF ActiveHolders
  <2> QED
    BY <1>1, <2>1, <2>4, <2>5 DEF LookInv, LookOf
<1>2. LookInv => CollisionsExplained
  BY <1>1 DEF CollisionsExplained, Numbered
<1> QED
  BY <1>2, InitLookInv, NextLookInv, PTL DEF Spec

-----------------------------------------------------------------------------
(* What the parsers keep of a file. *)
LEMMA SmallestNat ==
    ASSUME NEW T \in SUBSET Nat, T # {}
    PROVE  \E n \in T : \A m \in T : n <= m
<1> DEFINE R == OpToRel(<, Nat)
<1>1. IsWellFoundedOn(R, Nat)
  BY NatLessThanWellFounded
<1>2. PICK n \in T : \A m \in T : <<m, n>> \notin R
  <2> HIDE DEF R
  <2> QED BY <1>1, WFMin
<1>3. ASSUME NEW m \in T PROVE n <= m
  <2>1. m \in Nat /\ n \in Nat /\ ~(m < n)
    BY <1>2 DEF OpToRel
  <2> QED
    BY <2>1
<1> QED
  BY <1>3

KeptOf(q, f) ==
    f = [i \in DOMAIN q.rows |->
           q.rows[i].valid /\ ~\E j \in 1 .. i - 1 : f[j] /\ Repeats(q.kind, q.rows[i], q.rows[j])]

(* The rows kept of the first n: some set is what the parser's rule says.  *)
KeptUpTo(q, n, S) ==
    S \subseteq 1 .. n /\ \A i \in 1 .. n :
        i \in S <=> q.rows[i].valid
                    /\ ~\E j \in 1 .. i - 1 : j \in S /\ Repeats(q.kind, q.rows[i], q.rows[j])

LEMMA KeptNext ==
    ASSUME NEW q, NEW n \in Nat, NEW S, KeptUpTo(q, n, S)
    PROVE  \E T : KeptUpTo(q, n + 1, T)
<1> DEFINE keep == q.rows[n + 1].valid
                   /\ ~\E j \in 1 .. n : j \in S /\ Repeats(q.kind, q.rows[n + 1], q.rows[j])
           T == IF keep THEN S \cup {n + 1} ELSE S
<1>1. S \subseteq 1 .. n /\ 1 .. n + 1 = (1 .. n) \cup {n + 1} /\ n + 1 \notin 1 .. n
  BY DEF KeptUpTo
<1>2. T \subseteq 1 .. n + 1 /\ \A j \in 1 .. n : j \in T <=> j \in S
  BY <1>1
<1>3. ASSUME NEW i \in 1 .. n
      PROVE  i \in T <=> q.rows[i].valid
                 /\ ~\E j \in 1 .. i - 1 : j \in T /\ Repeats(q.kind, q.rows[i], q.rows[j])
  <2>1. \A j \in 1 .. i - 1 : j \in 1 .. n
    OBVIOUS
  <2>2. \A j \in 1 .. i - 1 : j \in T <=> j \in S
    BY <1>2, <2>1
  <2>3. i \in T <=> i \in S
    BY <1>2
  <2> HIDE DEF T
  <2> QED
    BY <2>2, <2>3 DEF KeptUpTo
<1>4. n + 1 \in T <=> q.rows[n + 1].valid
          /\ ~\E j \in 1 .. n + 1 - 1 : j \in T /\ Repeats(q.kind, q.rows[n + 1], q.rows[j])
  <2>1. n + 1 - 1 = n /\ (n + 1 \in T <=> keep)
    BY <1>1
  <2> HIDE DEF T
  <2> QED
    BY <1>2, <2>1
<1> HIDE DEF T
<1>5. KeptUpTo(q, n + 1, T)
  BY <1>1, <1>2, <1>3, <1>4 DEF KeptUpTo
<1> QED
  BY <1>5

LEMMA KeptExists ==
    ASSUME NEW q, NEW n \in Nat
    PROVE  \E S : KeptUpTo(q, n, S)
<1> DEFINE Bad == {m \in Nat : ~\E S : KeptUpTo(q, m, S)}
<1> SUFFICES ASSUME Bad # {} PROVE FALSE
  OBVIOUS
<1>1. PICK m \in Bad : \A k \in Bad : m <= k
  BY SmallestNat
<1>2. m # 0
  <2>1. KeptUpTo(q, 0, {})
    BY DEF KeptUpTo
  <2> QED
    BY <2>1
<1>3. m - 1 \in Nat /\ m - 1 \notin Bad
  BY <1>1, <1>2
<1>4. PICK S : KeptUpTo(q, m - 1, S)
  BY <1>3
<1>5. \E T : KeptUpTo(q, m, T)
  <2>1. m - 1 + 1 = m
    BY <1>1
  <2> QED
    BY <1>3, <1>4, <2>1, KeptNext
<1> QED
  BY <1>1, <1>5

LEMMA ParsedFacts ==
    ASSUME NEW q \in Requests
    PROVE  /\ \A i \in Parsed(q) : i \in DOMAIN q.rows /\ q.rows[i].valid
           /\ q.kind = "students" => \A i, j \in Parsed(q) :
                  i # j => q.rows[i].key = NoCode \/ q.rows[i].key # q.rows[j].key
<1>1. PICK n \in Nat : DOMAIN q.rows = 1 .. n
  BY ImportsAssumption DEF RequestOK
<1>2. PICK S : KeptUpTo(q, n, S)
  BY KeptExists
<1> DEFINE f == [i \in DOMAIN q.rows |-> i \in S]
<1>3. ASSUME NEW i \in 1 .. n, NEW j \in 1 .. i - 1 PROVE f[j] <=> j \in S
  <2>1. j \in 1 .. n
    OBVIOUS
  <2> QED
    BY <1>1, <2>1
<1>4. KeptOf(q, f)
  <2> DEFINE g == [i \in DOMAIN q.rows |-> q.rows[i].valid
                     /\ ~\E j \in 1 .. i - 1 : f[j] /\ Repeats(q.kind, q.rows[i], q.rows[j])]
  <2>1. ASSUME NEW i \in DOMAIN q.rows
        PROVE  (i \in S) = (q.rows[i].valid
                  /\ ~\E j \in 1 .. i - 1 : f[j] /\ Repeats(q.kind, q.rows[i], q.rows[j]))
    <3> HIDE DEF f
    <3>1. (i \in S) <=> (q.rows[i].valid
                  /\ ~\E j \in 1 .. i - 1 : f[j] /\ Repeats(q.kind, q.rows[i], q.rows[j]))
      BY <1>1, <1>2, <1>3 DEF KeptUpTo
    <3> QED
      BY <3>1
  <2>2. f = g
    BY <2>1, Zenon
  <2> HIDE DEF f
  <2> QED
    BY <2>2 DEF KeptOf
<1> HIDE DEF f
<1>5. PICK g : KeptOf(q, g) /\ Parsed(q) = {i \in DOMAIN q.rows : g[i]}
  BY <1>4 DEF KeptOf, Parsed
<1>6. \A i \in DOMAIN q.rows : g[i] = (q.rows[i].valid
                  /\ ~\E j \in 1 .. i - 1 : g[j] /\ Repeats(q.kind, q.rows[i], q.rows[j]))
  BY <1>5 DEF KeptOf
<1>7. \A i \in Parsed(q) : i \in DOMAIN q.rows /\ q.rows[i].valid
  BY <1>5, <1>6
<1>8. ASSUME q.kind = "students", NEW i \in Parsed(q), NEW j \in Parsed(q), j < i,
             q.rows[i].key # NoCode, q.rows[i].key = q.rows[j].key
      PROVE  FALSE
  <2>1. i \in 1 .. n /\ j \in 1 .. n /\ g[i] /\ g[j]
    BY <1>1, <1>5
  <2>2. j \in 1 .. i - 1
    BY <1>8, <2>1
  <2>3. Repeats(q.kind, q.rows[i], q.rows[j])
    BY <1>8 DEF Repeats
  <2> QED
    BY <1>1, <1>6, <2>1, <2>2, <2>3
<1>9. \A i, j \in Parsed(q) : i < j \/ j < i \/ i = j
  BY <1>1, <1>5
<1> QED
  BY <1>7, <1>8, <1>9

-----------------------------------------------------------------------------
(* Reports: the ids generated for the rows of a file are its own ...       *)
Busy(h) == pc[h] # "idle"

FreshApart ==
    /\ \A f \in FreshIds : row[f] # NoRow =>
           f[1] <= received /\ \A h \in Handlers : Busy(h) => serial[h] # f[1]
    /\ \A g, h \in Handlers : g # h /\ Busy(g) /\ Busy(h) => serial[g] # serial[h]

OwnId(h, f) == f[1] = serial[h] /\ (f[2] < pos[h] \/ (f[2] = pos[h] /\ pc[h] \in Scheduling))

FreshOf(h) == \A f \in FreshIds : wrote[h][f] # NoRow => row[f] # NoRow \/ OwnId(h, f)

(* A row of a file gets a new id, or the one found by its code.            *)
FoundOf(h) ==
    /\ pc[h] \in {"number", "write"} /\ req[h].kind = "students" =>
           \/ target[h] = <<serial[h], pos[h]>>
           \/ View(h, target[h]) # NoRow /\ Line(h).key # NoCode
    /\ pc[h] = "write" /\ req[h].kind = "students" /\ Line(h).key # NoCode =>
           wrote[h][target[h]] = NoRow \/ wrote[h][target[h]].key = Line(h).key

FreshInv == LookInv /\ FreshApart /\ \A h \in Handlers : FreshOf(h) /\ FoundOf(h)

LEMMA FreshFacts ==
    /\ \A f \in FreshIds : f \in Students /\ f \in Ids /\ f \notin PushedIds
                           /\ f[1] \in Nat /\ f[2] \in Nat /\ f = <<f[1], f[2]>>
    /\ \A s, i : <<s, i>> \in FreshIds => s \in 1 .. MaxRequests /\ i \in 1 .. MaxRows
<1>1. \A f \in FreshIds : f \in Students /\ f \in Ids /\ f \notin PushedIds
  BY ImportsAssumption DEF Students, Ids
<1>2. ASSUME NEW f \in FreshIds PROVE f[1] \in Nat /\ f[2] \in Nat /\ f = <<f[1], f[2]>>
  BY ImportsAssumption DEF FreshIds
<1>3. \A s, i : <<s, i>> \in FreshIds => s \in 1 .. MaxRequests /\ i \in 1 .. MaxRows
  BY DEF FreshIds
<1> QED
  BY <1>1, <1>2, <1>3

LEMMA ApartKeeps ==
    ASSUME FreshInv, received' \in Nat, received <= received',
           \A g \in Handlers : Busy(g)' => Busy(g) /\ serial'[g] = serial[g],
           \A f \in FreshIds : row'[f] # NoRow =>
               row[f] # NoRow \/ \E h \in Handlers : Busy(h) /\ ~Busy(h)' /\ wrote[h][f] # NoRow
    PROVE  FreshApart'
<1> USE DEF FreshInv
<1>1. \A g, h \in Handlers : g # h /\ Busy(g)' /\ Busy(h)' => serial'[g] # serial'[h]
  BY DEF FreshApart
<1>2. ASSUME NEW f \in FreshIds, row[f] # NoRow
      PROVE  f[1] <= received' /\ \A g \in Handlers : Busy(g)' => serial'[g] # f[1]
  <2>1. f[1] \in Nat /\ received \in Nat
    BY FreshFacts DEF LookInv, KeyInv, TypeInv, TypesOK
  <2> QED
    BY <1>2, <2>1 DEF FreshApart
<1>3. ASSUME NEW f \in FreshIds, row[f] = NoRow, NEW h \in Handlers, Busy(h), ~Busy(h)',
             wrote[h][f] # NoRow
      PROVE  f[1] <= received' /\ \A g \in Handlers : Busy(g)' => serial'[g] # f[1]
  <2>1. f[1] = serial[h]
    BY <1>3 DEF FreshOf, OwnId
  <2>2. serial[h] \in 1 .. received /\ received \in Nat
    BY <1>3 DEF LookInv, KeyInv, TypeInv, TypesOK, HandlerOK, BusyOf, Busy
  <2>3. \A g \in Handlers : Busy(g)' => g # h /\ Busy(g) /\ serial'[g] = serial[g]
    BY <1>3
  <2>4. \A g \in Handlers : Busy(g)' => serial'[g] # f[1]
    BY <1>3, <2>1, <2>3 DEF FreshApart
  <2> QED
    BY <2>1, <2>2, <2>4
<1> QED
  BY <1>1, <1>2, <1>3 DEF FreshApart

LEMMA StepApart == ASSUME FreshInv, NEW h \in Handlers, Step(h) PROVE FreshApart'
<1>1. TypeInv /\ TypesOK
  BY DEF FreshInv, LookInv, KeyInv, TypeInv
<1>2. Others(h) /\ received' = received /\ received' \in Nat /\ received <= received'
  BY <1>1, StepTypes DEF TypesOK
<1>3. pc[h] # "idle"
  BY DEF Step, Take, LockRow, TryCode, CheckOrder, References, FindStudent, NumberStudent,
     CheckDuplicate, WriteRow, RefuseSchedule, ReadSchedule, ReplaceSchedule, Commit, Abort,
     AbortSchedule, Collides, Fail, DeadlockVictim, WaitsFor, Wanted, WantedSlots
<1>4. \A g \in Handlers \ {h} : pc'[g] = pc[g] /\ serial'[g] = serial[g]
  BY <1>2 DEF Others, Same
<1>5. CASE Commit(h)
  <2>1. pc'[h] = "idle" /\ row' = [x \in Ids |-> View(h, x)]
    BY <1>1, <1>5, ResetFacts DEF Commit
  <2>2. \A f \in FreshIds : row'[f] # NoRow => row[f] # NoRow \/ wrote[h][f] # NoRow
    BY <2>1, FreshFacts DEF View
  <2> QED
    BY <1>2, <1>3, <1>4, <2>1, <2>2, ApartKeeps DEF Busy
<1>6. CASE Rollback(h)
  <2>1. pc'[h] = "idle" /\ row' = row
    BY <1>1, <1>6, ResetFacts DEF Rollback
  <2> QED
    BY <1>2, <1>4, <2>1, ApartKeeps DEF Busy
<1>7. CASE Keeps(h)
  BY <1>2, <1>3, <1>4, <1>7, ApartKeeps DEF Busy, Keeps, Global
<1> QED
  BY <1>1, <1>5, <1>6, <1>7, TakeKeeps, LockRowKeeps, TryCodeKeeps, CheckOrderKeeps,
     ReferencesKeeps, FindStudentKeeps, NumberStudentKeeps, CheckDuplicateKeeps, WriteRowKeeps,
     RefuseScheduleKeeps, ReadScheduleKeeps, ReplaceScheduleKeeps DEF Step, Abort, AbortSchedule, Fail, DeadlockVictim

(* Records are never removed. *)
LEMMA RowsStay ==
    ASSUME TypeInv, [Next]_vars, NEW x \in Ids, row[x] # NoRow
    PROVE  row'[x] # NoRow
<1> USE DEF TypeInv
<1>1. CASE \E y \in Fragile : Delete(y)
  BY <1>1, DeleteFacts
<1>2. ASSUME NEW h \in Handlers, Commit(h) PROVE row'[x] # NoRow
  BY <1>2 DEF Commit, View
<1>3. CASE UNCHANGED row
  BY <1>3
<1>4. ASSUME NEW h \in Handlers, Keeps(h) PROVE row'[x] # NoRow
  BY <1>4 DEF Keeps, Global
<1>5. ASSUME NEW h \in Handlers, Step(h) PROVE row'[x] # NoRow
  BY <1>2, <1>3, <1>4, <1>5, TakeKeeps, LockRowKeeps, TryCodeKeeps, CheckOrderKeeps,
     ReferencesKeeps, FindStudentKeeps, NumberStudentKeeps, CheckDuplicateKeeps, WriteRowKeeps,
     RefuseScheduleKeeps, ReadScheduleKeeps, ReplaceScheduleKeeps DEF Step, Abort, AbortSchedule, Fail, DeadlockVictim, Rollback
<1> QED
  BY <1>1, <1>3, <1>5, PushSlotFacts DEF Next, Begin, vars

LEMMA FreshStays ==
    ASSUME FreshInv, NEW g \in Handlers, Same(g),
           \A x \in Ids : row[x] # NoRow => row'[x] # NoRow
    PROVE  FreshOf(g)' /\ FoundOf(g)'
<1>1. FreshOf(g) /\ FoundOf(g) /\ HandlerOK(g)
  BY DEF FreshInv, LookInv, KeyInv, TypeInv
<1>2. FreshOf(g)'
  BY <1>1, FreshFacts DEF FreshOf, OwnId, Same
<1>3. Line(g)' = Line(g)
  BY DEF Line, Same
<1>4. FoundOf(g)'
  <2>1. pc[g] = "number" \/ pc[g] = "write" => target[g] \in Ids
    BY <1>1 DEF HandlerOK, TargetOf
  <2>2. target[g] \in Ids => (View(g, target[g]) # NoRow => View(g, target[g])' # NoRow)
    BY DEF View, Same
  <2>3. UNCHANGED <<pc[g], req[g], pos[g], target[g], wrote[g], serial[g]>>
    BY DEF Same
  <2> QED
    BY <1>1, <1>3, <2>1, <2>2, <2>3 DEF FoundOf
<1> QED
  BY <1>2, <1>4

(* Statements that write no row. *)
LEMMA FreshRead ==
    ASSUME FreshInv, NEW h \in Handlers, UNCHANGED <<row, wrote, serial>>,
           \/ pos' = pos /\ (pc[h] \in Scheduling => pc'[h] \in Scheduling)
           \/ NextLine(h)
    PROVE  FreshOf(h)'
<1>1. FreshOf(h) /\ TypesOK
  BY DEF FreshInv, LookInv, KeyInv, TypeInv
<1>2. pos[h] \in Nat /\ (NextLine(h) => pos'[h] = pos[h] + 1)
  BY <1>1, NextLineFacts DEF TypesOK
<1> QED
  BY <1>1, <1>2, FreshFacts DEF FreshOf, OwnId

LEMMA FreshReads ==
    ASSUME FreshInv, NEW h \in Handlers,
           \/ Take(h) \/ LockRow(h) \/ TryCode(h) \/ CheckOrder(h) \/ References(h)
           \/ FindStudent(h) \/ NumberStudent(h) \/ CheckDuplicate(h)
           \/ RefuseSchedule(h) \/ ReadSchedule(h) \/ ReplaceSchedule(h)
    PROVE  FreshOf(h)'
<1>1. CASE RefuseSchedule(h) \/ ReplaceSchedule(h)
  BY <1>1, FreshRead DEF RefuseSchedule, ReplaceSchedule, RefuseLine, CountLine, NextLine
<1>2. CASE ReadSchedule(h)
  <2>1. UNCHANGED <<row, wrote, serial, pos>> /\ pc'[h] = "replace"
    BY <1>2, GoFacts DEF ReadSchedule, Labels, Global, FreshInv, LookInv, KeyInv, TypeInv
  <2> QED
    BY <2>1, FreshRead DEF Scheduling
<1> QED
  BY <1>1, <1>2, FreshRead DEF Take, LockRow, TryCode, CheckOrder, References, FindStudent,
     NumberStudent, CheckDuplicate, Go, RefuseLine, NextLine, Scheduling

LEMMA FreshWriteRow == ASSUME FreshInv, NEW h \in Handlers, WriteRow(h) PROVE FreshOf(h)'
<1>1. TypeInv /\ TypesOK /\ FreshOf(h) /\ FoundOf(h) /\ pc[h] = "write" /\ HandlerOK(h)
  BY DEF FreshInv, LookInv, KeyInv, TypeInv, WriteRow
<1> DEFINE x == target[h]
           r == NewRow(h)
<1>2. x \in Ids /\ Fits(x, r) /\ wrote' = [wrote EXCEPT ![h] = [@ EXCEPT ![x] = r]]
  BY <1>1, NewRowType DEF WriteRow
<1> HIDE DEF r
<1>3. \A y \in Ids \ {x} : wrote'[h][y] = wrote[h][y]
  <2>1. TypesOK /\ x \in Ids /\ Fits(x, r) /\ Puts(h, x, r)
    BY <1>1, <1>2 DEF Puts
  <2> QED
    BY ONLY <2>1, h \in Handlers, WroteType
<1>4. UNCHANGED <<row, serial>> /\ pos[h] \in Nat
      /\ \/ pos' = pos /\ pc'[h] = "schedule" /\ req[h].kind = "students"
         \/ pos'[h] = pos[h] + 1 /\ req[h].kind # "students"
  <2>1. CASE req[h].kind = "students"
    BY <1>1, <2>1, GoFacts DEF WriteRow, Labels, Global, TypesOK
  <2>2. CASE req[h].kind # "students"
    BY <1>1, <2>2, NextLineFacts DEF WriteRow, Global, TypesOK, CountLine
  <2> QED
    BY <2>1, <2>2
<1>5. \A f \in FreshIds : OwnId(h, f) => OwnId(h, f)'
  BY <1>1, <1>4, FreshFacts DEF OwnId, Scheduling
<1>6. ASSUME NEW f \in FreshIds, f = x PROVE row'[f] # NoRow \/ OwnId(h, f)'
  <2>1. req[h].kind = "students"
    <3>1. ~Done(h) /\ (req[h].kind # "students" => x = Line(h).id)
      BY <1>1 DEF HandlerOK, TargetOf, BusyOf
    <3>2. req[h].kind = "push" => Line(h).id \in PushedIds
      BY <1>1, <3>1, LineType DEF LineOK
    <3> QED
      BY <1>1, <1>6, <3>1, <3>2, NewRowType, FreshFacts
  <2>2. CASE x = <<serial[h], pos[h]>>
    <3>1. f[1] = serial[h] /\ f[2] = pos[h]
      BY <1>6, <2>2
    <3> QED
      BY <1>4, <2>1, <3>1 DEF OwnId, Scheduling
  <2>3. CASE View(h, x) # NoRow
    BY <1>1, <1>4, <1>5, <1>6, <2>3 DEF FreshOf, View
  <2> QED
    BY <1>1, <2>1, <2>2, <2>3 DEF FoundOf
<1>7. \A f \in FreshIds : f \in Ids
  BY FreshFacts
<1> HIDE DEF x
<1>8. ASSUME NEW f \in FreshIds, wrote'[h][f] # NoRow PROVE row'[f] # NoRow \/ OwnId(h, f)'
  <2>1. CASE f = x
    BY <1>6, <2>1
  <2>2. CASE f # x
    <3>1. wrote[h][f] # NoRow
      BY <1>3, <1>7, <1>8, <2>2
    <3> QED
      BY <1>1, <1>4, <1>5, <3>1 DEF FreshOf
  <2> QED
    BY <2>1, <2>2
<1> QED
  BY <1>8 DEF FreshOf

(* A row without a code gets a record of its own; one with a code may find *)
(* a record this transaction has written, which has the code then.         *)
LEMMA FoundByFind == ASSUME FreshInv, NEW h \in Handlers, FindStudent(h) PROVE FoundOf(h)'
<1> DEFINE found == ActiveHolders(h, NoId, KeyOf("students", Line(h).key))
           x == IF found # {} THEN CHOOSE y \in found : TRUE ELSE <<serial[h], pos[h]>>
           label == IF Line(h).key = NoCode THEN "number" ELSE "write"
<1>1. TypeInv /\ TypesOK /\ FreshOf(h) /\ pc[h] = "find" /\ UNCHANGED wrote /\ Go(h, label)
      /\ label \in Labels
  BY DEF FindStudent, FreshInv, LookInv, KeyInv, TypeInv, Labels
<1>2. target'[h] = x
  BY <1>1 DEF FindStudent, TypesOK
<1>3. pc'[h] = label /\ UNCHANGED <<row, req, pos, serial>>
  BY <1>1, GoFacts DEF Global
<1>4. Line(h)' = Line(h) /\ \A y : View(h, y)' = View(h, y)
  BY <1>1, <1>3 DEF Line, View
<1>5. \A y \in found : View(h, y) # NoRow /\ View(h, y).key = Line(h).key /\ y \in Ids
  BY KeyOfInjective DEF ActiveHolders, Active, UniqueKey
<1>6. CASE found = {}
  <2>1. x = <<serial[h], pos[h]>>
    BY <1>6
  <2>2. <<serial[h], pos[h]>> \in FreshIds
    BY <1>1, FreshType
  <2>3. row[x] = NoRow
    <3>1. Busy(h)
      BY <1>1 DEF Busy
    <3>2. x \in FreshIds /\ x[1] = serial[h]
      BY <2>1, <2>2
    <3> QED
      BY <3>1, <3>2 DEF FreshInv, FreshApart
  <2>4. ~OwnId(h, x)
    BY <1>1, <2>1 DEF OwnId, TypesOK, Scheduling
  <2>5. wrote[h][x] = NoRow
    BY <1>1, <2>1, <2>2, <2>3, <2>4 DEF FreshOf
  <2> HIDE DEF x, label
  <2> QED
    BY <1>1, <1>2, <1>3, <2>1, <2>5 DEF FoundOf
<1>7. CASE found # {}
  <2>1. x \in found
    BY <1>7
  <2>2. View(h, x) # NoRow /\ View(h, x).key = Line(h).key /\ x \in Ids
    BY <1>5, <2>1
  <2>3. Line(h).key # NoCode
    BY <1>1, <2>2, ViewType, FitsFacts DEF Codes, NoCode
  <2>4. wrote[h][x] = NoRow \/ wrote[h][x].key = Line(h).key
    BY <2>2 DEF View
  <2> HIDE DEF x, label
  <2> QED
    BY <1>1, <1>2, <1>3, <1>4, <2>2, <2>3, <2>4 DEF FoundOf
<1> QED
  BY <1>6, <1>7

LEMMA StepFound == ASSUME FreshInv, NEW h \in Handlers, Step(h) PROVE FoundOf(h)'
<1>1. TypeInv /\ TypesOK /\ FoundOf(h) /\ HandlerOK(h) /\ HandlerOK(h)'
  BY StepTypes DEF FreshInv, LookInv, KeyInv, TypeInv
<1>2. CASE pc'[h] \notin {"number", "write"}
  BY <1>2 DEF FoundOf
<1>3. CASE FindStudent(h)
  BY <1>3, FoundByFind
<1>4. CASE NumberStudent(h)
  <2>1. pc[h] = "number" /\ Line(h).key = NoCode
    BY <1>1, <1>4 DEF NumberStudent, HandlerOK, KindOf
  <2>2. UNCHANGED <<req, pos, serial, target>>
    BY <1>4 DEF NumberStudent, Go
  <2>3. Line(h)' = Line(h)
    BY <2>2 DEF Line
  <2> QED
    BY <1>1, <2>1, <2>2, <2>3 DEF FoundOf
<1>5. CASE req'[h].kind # "students"
  BY <1>5 DEF FoundOf
<1>6. CASE TryCode(h)
  BY <1>1, <1>5, <1>6 DEF TryCode, Go, HandlerOK, KindOf
<1>7. CASE CheckOrder(h)
  BY <1>1, <1>5, <1>7 DEF CheckOrder, Go, RefuseLine, NextLine, HandlerOK, KindOf
<1>8. CASE CheckDuplicate(h)
  BY <1>1, <1>5, <1>8 DEF CheckDuplicate, Go, RefuseLine, NextLine, HandlerOK, KindOf
<1>9. CASE References(h)
  <2>1. CASE req[h].kind # "students"
    BY <1>5, <1>9, <2>1 DEF References, Go, RefuseLine, NextLine
  <2>2. CASE req[h].kind = "students"
    <3>1. NextLine(h) \/ Go(h, "find")
      BY <1>9, <2>2 DEF References, RefuseLine
    <3> QED
      BY <1>1, <1>2, <3>1, NextLineFacts, GoFacts DEF Labels
  <2> QED
    BY <2>1, <2>2
<1>10. CASE NextLine(h)
  BY <1>1, <1>2, <1>10, NextLineFacts
<1>11. CASE Reset(h)
  BY <1>1, <1>2, <1>11, ResetFacts
<1>12. ASSUME NEW l \in {"references", "lock", "code", "order", "schedule", "replace"}, Go(h, l)
       PROVE  FoundOf(h)'
  BY <1>1, <1>2, <1>12, GoFacts DEF Labels
<1> QED
  BY <1>3, <1>4, <1>6, <1>7, <1>8, <1>9, <1>10, <1>11, <1>12 DEF Step, Take, LockRow, WriteRow,
     RefuseSchedule, ReadSchedule, ReplaceSchedule, CountLine, RefuseLine, Commit, Abort,
     AbortSchedule, Fail, DeadlockVictim, Rollback

LEMMA StepFresh == ASSUME FreshInv, NEW h \in Handlers, Step(h) PROVE FreshOf(h)'
<1>1. TypeInv
  BY DEF FreshInv, LookInv, KeyInv
<1>2. CASE Reset(h)
  <2>1. wrote'[h] = Empty
    BY <1>1, <1>2, ResetFacts
  <2> QED
    BY <2>1, FreshFacts DEF FreshOf, Empty
<1> QED
  BY <1>2, FreshReads, FreshWriteRow DEF Step, Commit, Abort, AbortSchedule, Fail,
     DeadlockVictim, Rollback

LEMMA InitFreshInv == Init => FreshInv
<1> SUFFICES ASSUME Init PROVE FreshInv
  OBVIOUS
<1>1. FreshApart
  BY StoredAssumption DEF Init, FreshApart, Busy
<1>2. \A h \in Handlers : FreshOf(h) /\ FoundOf(h)
  BY FreshFacts DEF Init, FreshOf, FoundOf
<1> QED
  BY <1>1, <1>2, InitLookInv DEF FreshInv

LEMMA NextFreshInv == FreshInv /\ [Next]_vars => FreshInv'
<1> SUFFICES ASSUME FreshInv, [Next]_vars
             PROVE  FreshApart' /\ \A g \in Handlers : FreshOf(g)' /\ FoundOf(g)'
  BY NextLookInv DEF FreshInv
<1>1. TypeInv /\ TypesOK
  BY DEF FreshInv, LookInv, KeyInv, TypeInv
<1>2. \A x \in Ids : row[x] # NoRow => row'[x] # NoRow
  BY <1>1, RowsStay
<1>3. ASSUME NEW h \in Handlers, NEW q \in Requests, Begin(h, q)
      PROVE  FreshApart' /\ \A g \in Handlers : FreshOf(g)' /\ FoundOf(g)'
  <2>1. UNCHANGED <<row, wrote>> /\ received' = received + 1 /\ received \in Nat
        /\ pc[h] = "idle" /\ pc'[h] = "next" /\ serial'[h] = received + 1 /\ Others(h)
    <3>1. Others(h) /\ received' = received + 1
      BY <1>1, <1>3, BeginTypes
    <3>2. UNCHANGED <<row, wrote>> /\ received \in Nat /\ pc[h] = "idle"
          /\ pc'[h] = "next" /\ serial'[h] = received + 1
      BY <1>1, <1>3 DEF Begin, TypesOK
    <3> QED
      BY <3>1, <3>2
  <2>2. \A g \in Handlers \ {h} : pc'[g] = pc[g] /\ serial'[g] = serial[g] /\ Same(g)
    BY <2>1 DEF Others, Same
  <2>3. \A g \in Handlers \ {h} : Busy(g) => serial[g] <= received /\ serial[g] \in Nat
    BY <1>1 DEF TypeInv, HandlerOK, BusyOf, Busy, TypesOK
  <2>4. FreshApart'
    <3>1. ASSUME NEW f \in FreshIds, row[f] # NoRow
          PROVE  f[1] <= received + 1 /\ \A g \in Handlers : Busy(g)' => serial'[g] # f[1]
      <4>1. f[1] <= received /\ f[1] \in Nat /\ \A g \in Handlers : Busy(g) => serial[g] # f[1]
        BY <3>1, FreshFacts DEF FreshInv, FreshApart
      <4> QED
        BY <2>1, <2>2, <4>1 DEF Busy
    <3>2. ASSUME NEW f \in Handlers, NEW g \in Handlers, f # g, Busy(f)', Busy(g)'
          PROVE  serial'[f] # serial'[g]
      BY <2>1, <2>2, <2>3, <3>2 DEF FreshInv, FreshApart, Busy
    <3> QED
      BY <2>1, <3>1, <3>2 DEF FreshApart
  <2>5. FreshOf(h)' /\ FoundOf(h)'
    <3>1. wrote[h] = Empty
      BY <1>1, <2>1 DEF TypeInv, HandlerOK, BusyOf
    <3> QED
      BY <2>1, <3>1, FreshFacts DEF FreshOf, FoundOf, Empty
  <2> QED
    BY <1>2, <2>2, <2>4, <2>5, FreshStays
<1>4. ASSUME NEW x \in Fragile, Delete(x)
      PROVE  FreshApart' /\ \A g \in Handlers : FreshOf(g)' /\ FoundOf(g)'
  <2>1. /\ UNCHANGED <<pc, serial, received>> /\ received' \in Nat /\ received <= received'
        /\ \A g \in Handlers : Same(g)
    BY <1>1, <1>4 DEF Delete, Same, TypesOK
  <2>2. \A f \in FreshIds : row'[f] = row[f]
    BY <1>1, <1>4, DeleteFacts, FreshFacts
  <2>3. FreshApart'
    BY <2>1, <2>2, ApartKeeps DEF Busy
  <2> QED
    BY <1>2, <2>1, <2>3, FreshStays
<1>5. ASSUME NEW h \in Handlers, Step(h)
      PROVE  FreshApart' /\ \A g \in Handlers : FreshOf(g)' /\ FoundOf(g)'
  BY <1>1, <1>2, <1>5, StepTypes, StepApart, StepFound, StepFresh, FreshStays DEF Others
<1>6. CASE UNCHANGED vars
  <2>1. FreshApart'
    BY <1>1, <1>6, ApartKeeps DEF Busy, vars, TypesOK
  <2> QED
    BY <1>2, <1>6, <2>1, FreshStays DEF vars, locals, Same
<1>7. ASSUME NEW p \in SlotPushes, PushSlot(p)
      PROVE  FreshApart' /\ \A g \in Handlers : FreshOf(g)' /\ FoundOf(g)'
  <2>1. UNCHANGED <<row, pc, serial>> /\ received' \in Nat /\ received <= received'
        /\ \A g \in Handlers : Same(g)
    BY <1>1, <1>7, PushSlotFacts DEF TypesOK
  <2>2. FreshApart'
    BY <2>1, ApartKeeps DEF Busy
  <2> QED
    BY <1>2, <2>1, <2>2, FreshStays
<1> QED
  BY <1>3, <1>4, <1>5, <1>6, <1>7 DEF Next

(* ... and so each row counted as imported is stored as the file says, or  *)
(* a later row wrote over it, and all else that was written is refused.    *)
Announced(h) == {p[2] : p \in imported[h]}
Extra(h) == {x \in Ids : wrote[h][x] # NoRow} \ Announced(h)
Refused(h) ==
    {i \in errors[h] \cap Parsed(req[h]) : req[h].kind = "students" /\ req[h].rows[i].custom}
Unfinished(h) == IF pc[h] \in Scheduling THEN {target[h]} ELSE {}

Overwrites(h, o, p) ==
    /\ o > p[1]
    /\ IF p[2] \in Students
       THEN req[h].rows[p[1]].key = NoCode /\ req[h].rows[o].key = wrote[h][p[2]].key
       ELSE <<o, p[2]>> \in imported[h]

Stands(h, p) ==
    /\ p[1] < pos[h] /\ p[1] \in Parsed(req[h])
    /\ wrote[h][p[2]] # NoRow
    /\ p[2] \in Students <=> req[h].kind = "students"
    /\ req[h].kind = "students" => req[h].rows[p[1]].key \in {NoCode, wrote[h][p[2]].key}
    /\ \/ Shows(wrote[h][p[2]], req[h].rows[p[1]])
       \/ \E o \in DOMAIN req[h].rows : Overwrites(h, o, p)

(* Each stored student that is not announced is one whose schedule was     *)
(* refused, but for the one whose schedule is next.                        *)
ErrorsOf(h) ==
    /\ DOMAIN req[h].rows \ Parsed(req[h]) \subseteq errors[h]
    /\ errors[h] \subseteq DOMAIN req[h].rows
    /\ pc[h] # "next" => pos[h] \notin errors[h]

ExtraOf(h) ==
    /\ Extra(h) \subseteq Students /\ IsFiniteSet(Extra(h))
    /\ Cardinality(Extra(h) \ Unfinished(h)) <= Cardinality(Refused(h))

WrittenOf(h) ==
    pc[h] \in Scheduling =>
        /\ ~wrote[h][target[h]].deleted
        /\ wrote[h][target[h]].club = Line(h).club /\ wrote[h][target[h]].key = code[h]
        /\ \A p \in imported[h] : p[2] = target[h] => Overwrites(h, pos[h], p)

ReportOf(h) ==
    Busy(h) /\ req[h].kind # "push" =>
        ErrorsOf(h) /\ ExtraOf(h) /\ WrittenOf(h) /\ \A p \in imported[h] : Stands(h, p)

ReportInv == FreshInv /\ \A h \in Handlers : ReportOf(h)

(* A handler's reports read its own state only. *)
LEMMA ReportStays ==
    ASSUME NEW g \in Handlers, ReportOf(g), Same(g)
    PROVE  ReportOf(g)'
<1>1. UNCHANGED <<pc[g], req[g], pos[g], target[g], code[g], wrote[g], errors[g], imported[g]>>
      /\ Line(g)' = Line(g)
  BY DEF Same, Line
<1>2. Extra(g)' = Extra(g) /\ Refused(g)' = Refused(g) /\ Unfinished(g)' = Unfinished(g)
  BY <1>1 DEF Extra, Announced, Refused, Unfinished
<1>3. \A o, p : Overwrites(g, o, p)' <=> Overwrites(g, o, p)
  BY <1>1 DEF Overwrites
<1>4. \A p : Stands(g, p)' <=> Stands(g, p)
  BY <1>1, <1>3 DEF Stands
<1>5. (ErrorsOf(g)' <=> ErrorsOf(g)) /\ (ExtraOf(g)' <=> ExtraOf(g)) /\ (WrittenOf(g)' <=> WrittenOf(g))
  BY <1>1, <1>2, <1>3 DEF ErrorsOf, ExtraOf, WrittenOf
<1> QED
  BY <1>1, <1>4, <1>5 DEF ReportOf, Busy

LEMMA StandsStays ==
    ASSUME NEW h \in Handlers, NEW p, Stands(h, p), UNCHANGED req, p[1] \in Nat,
           pos[h] \in Nat, pos'[h] \in Nat, pos[h] <= pos'[h],
           wrote'[h][p[2]] = wrote[h][p[2]], imported[h] \subseteq imported'[h]
    PROVE  Stands(h, p)'
<1>1. \A o : Overwrites(h, o, p) => Overwrites(h, o, p)'
  BY DEF Overwrites
<1> QED
  BY <1>1 DEF Stands

LEMMA ReportTypes ==
    ASSUME ReportInv, NEW h \in Handlers, Busy(h), req[h].kind # "push"
    PROVE  /\ TypeInv /\ TypesOK /\ HandlerOK(h) /\ FreshInv
           /\ ErrorsOf(h) /\ ExtraOf(h) /\ WrittenOf(h) /\ \A p \in imported[h] : Stands(h, p)
           /\ \A p \in imported[h] : p[1] \in Nat /\ p[2] \in Ids /\ p = <<p[1], p[2]>>
           /\ pos[h] \in Nat /\ IsFiniteSet(Refused(h)) /\ Cardinality(Refused(h)) \in Nat
           /\ Cardinality(Extra(h)) \in Nat
<1>1. TypeInv /\ TypesOK /\ HandlerOK(h) /\ FreshInv /\ ReportOf(h)
  BY DEF ReportInv, FreshInv, LookInv, KeyInv, TypeInv
<1>2. ErrorsOf(h) /\ ExtraOf(h) /\ WrittenOf(h) /\ \A p \in imported[h] : Stands(h, p)
  BY <1>1 DEF ReportOf
<1>3. imported[h] \subseteq Nat \X Ids /\ pos[h] \in Nat
  BY <1>1 DEF TypesOK
<1>4. IsFiniteSet(Refused(h)) /\ Cardinality(Refused(h)) \in Nat
  <2>1. PICK n \in Nat : DOMAIN req[h].rows = 1 .. n
    <3>1. req[h] \in Requests
      BY <1>1 DEF TypesOK
    <3>2. RequestOK(req[h])
      BY <3>1, ImportsAssumption
    <3> QED
      BY <3>2, ImportsAssumption DEF RequestOK
  <2>2. Refused(h) \in SUBSET (1 .. n)
    BY <1>2, <2>1 DEF Refused, ErrorsOf
  <2>3. IsFiniteSet(1 .. n)
    BY FS_Interval
  <2>4. IsFiniteSet(Refused(h))
    BY <2>2, <2>3, FS_Subset
  <2> QED
    BY <2>4, FS_CardinalityType
<1>5. Cardinality(Extra(h)) \in Nat
  BY <1>2, FS_CardinalityType DEF ExtraOf
<1> QED
  BY <1>1, <1>2, <1>3, <1>4, <1>5

(* The row at hand is one the parser kept, and not yet refused. *)
LEMMA AtHand ==
    ASSUME ReportInv, NEW h \in Handlers, pc[h] \notin {"idle", "next"}, req[h].kind # "push"
    PROVE  pos[h] \in Parsed(req[h]) /\ pos[h] \in DOMAIN req[h].rows /\ pos[h] \notin errors[h]
<1>1. TypesOK /\ HandlerOK(h) /\ ErrorsOf(h)
  BY ReportTypes DEF Busy
<1>2. pos[h] \in DOMAIN req[h].rows
  BY <1>1, LineType, ImportsAssumption DEF HandlerOK, BusyOf, RequestOK, TypesOK
<1>3. pos[h] \in Parsed(req[h]) /\ pos[h] \notin errors[h]
  BY <1>1, <1>2 DEF ErrorsOf
<1> QED
  BY <1>2, <1>3

LEMMA ReportGo ==
    ASSUME ReportInv, NEW h \in Handlers, Busy(h), pc[h] \notin Scheduling,
           NEW l \in Labels \ ({"idle"} \cup Scheduling), Go(h, l), UNCHANGED wrote,
           pc[h] = "next" => pos[h] \notin errors[h]
    PROVE  ReportOf(h)'
<1> SUFFICES ASSUME req'[h].kind # "push" PROVE ReportOf(h)'
  BY DEF ReportOf
<1>1. UNCHANGED <<req, pos, errors, imported, wrote>> /\ pc'[h] = l
  BY GoFacts DEF ReportInv, FreshInv, LookInv, KeyInv, TypeInv, Global
<1>2. ErrorsOf(h) /\ ExtraOf(h) /\ \A p \in imported[h] : Stands(h, p)
  BY <1>1, ReportTypes
<1>3. ErrorsOf(h)'
  BY <1>1, <1>2 DEF ErrorsOf
<1>4. ExtraOf(h)'
  BY <1>1, <1>2 DEF ExtraOf, Extra, Announced, Refused, Unfinished
<1>5. ASSUME NEW p \in imported'[h] PROVE Stands(h, p)'
  <2>1. Stands(h, p)
    BY <1>1, <1>2
  <2>2. \A o : Overwrites(h, o, p)' <=> Overwrites(h, o, p)
    BY <1>1 DEF Overwrites
  <2> QED
    BY <1>1, <2>1, <2>2 DEF Stands
<1>6. WrittenOf(h)'
  BY <1>1 DEF WrittenOf
<1> QED
  BY <1>3, <1>4, <1>5, <1>6 DEF ReportOf

(* A refused row is in the report; of what was written, only the student   *)
(* whose schedule is refused was not refused before.                       *)
LEMMA ReportRefuse ==
    ASSUME ReportInv, NEW h \in Handlers, Busy(h), NextLine(h), UNCHANGED <<wrote, imported>>,
           \/ errors' = errors /\ pc[h] = "next"
           \/ errors'[h] = errors[h] \cup {pos[h]} /\ pc[h] # "next",
           pc[h] # "replace", pc[h] = "schedule" => Line(h).custom
    PROVE  ReportOf(h)'
<1> SUFFICES ASSUME req'[h].kind # "push" PROVE ReportOf(h)'
  BY DEF ReportOf
<1>1. TypesOK
  BY DEF ReportInv, FreshInv, LookInv, KeyInv, TypeInv
<1>2. UNCHANGED req /\ pos'[h] = pos[h] + 1 /\ pc'[h] = "next"
  BY <1>1, NextLineFacts DEF Global
<1>3. /\ ErrorsOf(h) /\ ExtraOf(h) /\ \A p \in imported[h] : Stands(h, p)
      /\ \A p \in imported[h] : p[1] \in Nat
      /\ pos[h] \in Nat /\ IsFiniteSet(Refused(h)) /\ Cardinality(Refused(h)) \in Nat
      /\ Cardinality(Extra(h)) \in Nat /\ HandlerOK(h)
  BY <1>2, ReportTypes
<1>4. pc[h] # "next" => /\ pos[h] \in DOMAIN req[h].rows /\ pos[h] \notin errors[h]
                        /\ pos[h] \in Parsed(req[h])
  BY <1>2, AtHand DEF Busy
<1>5. ErrorsOf(h)'
  BY <1>2, <1>3, <1>4 DEF ErrorsOf
<1>6. \A p \in imported'[h] : Stands(h, p)'
  BY <1>2, <1>3, StandsStays
<1>7. Extra(h)' = Extra(h) /\ Unfinished(h)' = {}
  BY <1>2 DEF Extra, Announced, Unfinished, Scheduling
<1>8. Cardinality(Extra(h)) <= Cardinality(Refused(h)')
  <2>1. CASE pc[h] = "schedule"
    <3>1. errors'[h] = errors[h] \cup {pos[h]} /\ req[h].kind = "students"
      BY <1>3, <2>1 DEF HandlerOK, KindOf, Scheduling
    <3>2. Refused(h)' = Refused(h) \cup {pos[h]}
      BY <1>2, <1>4, <2>1, <3>1 DEF Refused, Line
    <3>3. pos[h] \notin Refused(h)
      BY <1>4, <2>1 DEF Refused
    <3>4. Cardinality(Refused(h)') = Cardinality(Refused(h)) + 1
      BY <1>3, <3>2, <3>3, FS_AddElement
    <3>5. Cardinality(Extra(h) \ {target[h]}) <= Cardinality(Refused(h)) /\ IsFiniteSet(Extra(h))
      BY <1>3, <2>1 DEF ExtraOf, Unfinished, Scheduling
    <3>6. Cardinality(Extra(h) \ {target[h]}) \in {Cardinality(Extra(h)), Cardinality(Extra(h)) - 1}
      BY <3>5, FS_RemoveElement
    <3> QED
      BY <1>3, <3>4, <3>5, <3>6
  <2>2. CASE pc[h] # "schedule"
    <3>1. Cardinality(Extra(h)) <= Cardinality(Refused(h))
      <4>1. Extra(h) \ {} = Extra(h)
        OBVIOUS
      <4> QED
        BY <1>3, <2>2, <4>1 DEF ExtraOf, Unfinished, Scheduling
    <3>2. Refused(h) \in SUBSET Refused(h)'
      BY <1>2 DEF Refused
    <3>3. IsFiniteSet(Refused(h)')
      <4>1. Refused(h)' \in SUBSET (Refused(h) \cup {pos[h]})
        BY <1>2 DEF Refused
      <4>2. IsFiniteSet(Refused(h) \cup {pos[h]})
        BY <1>3, FS_AddElement
      <4> QED
        BY <4>1, <4>2, FS_Subset
    <3>4. Cardinality(Refused(h)') \in Nat /\ Cardinality(Refused(h)) <= Cardinality(Refused(h)')
      BY <3>2, <3>3, FS_Subset, FS_CardinalityType
    <3> QED
      BY <1>3, <3>1, <3>4
  <2> QED
    BY <2>1, <2>2
<1>9. ExtraOf(h)'
  <2>1. Extra(h) \ {} = Extra(h)
    OBVIOUS
  <2> QED
    BY <1>3, <1>7, <1>8, <2>1 DEF ExtraOf
<1>10. WrittenOf(h)'
  BY <1>2 DEF WrittenOf, Scheduling
<1> QED
  BY <1>5, <1>6, <1>9, <1>10 DEF ReportOf

(* A student that the file has announced is written again only by a row    *)
(* that names the code the counter gave it.                                *)
LEMMA RewriteNamesCode ==
    ASSUME ReportInv, NEW h \in Handlers, pc[h] = "write", req[h].kind = "students",
           NEW p \in imported[h], p[2] = target[h]
    PROVE  /\ Line(h).key # NoCode /\ code[h] = Line(h).key
           /\ req[h].rows[p[1]].key = NoCode
<1>1. /\ TypesOK /\ HandlerOK(h) /\ FreshInv /\ Stands(h, p) /\ p[1] \in Nat /\ p[2] \in Ids
      /\ pos[h] \in Nat /\ TypeInv
  BY ReportTypes DEF Busy
<1>2. wrote[h][p[2]] # NoRow /\ p[1] < pos[h] /\ p[1] \in Parsed(req[h])
      /\ req[h].rows[p[1]].key \in {NoCode, wrote[h][p[2]].key}
  BY <1>1 DEF Stands
<1>3. Line(h).key # NoCode
  <2> SUFFICES ASSUME Line(h).key = NoCode PROVE FALSE
    OBVIOUS
  <2>1. FoundOf(h) /\ FreshOf(h) /\ FreshApart
    BY <1>1 DEF FreshInv
  <2>2. p[2] = <<serial[h], pos[h]>>
    BY <2>1 DEF FoundOf
  <2>3. p[2] \in FreshIds
    BY <1>1, <2>2, FreshType
  <2>4. row[p[2]] = NoRow
    BY <2>1, <2>2, <2>3 DEF FreshApart, Busy
  <2>5. ~OwnId(h, p[2])
    BY <1>1, <2>2 DEF OwnId, Scheduling
  <2> QED
    BY <1>2, <2>1, <2>3, <2>4, <2>5 DEF FreshOf
<1>4. code[h] = Line(h).key
  BY <1>1, <1>3 DEF HandlerOK, TargetOf
<1>5. wrote[h][p[2]].key = Line(h).key
  BY <1>1, <1>2, <1>3 DEF FreshInv, FoundOf
<1>6. pos[h] \in Parsed(req[h]) /\ req[h] \in Requests
  BY <1>1, AtHand DEF TypesOK
<1>7. req[h].rows[p[1]].key # Line(h).key
  BY <1>1, <1>2, <1>3, <1>6, ParsedFacts DEF Line
<1> QED
  BY <1>2, <1>3, <1>4, <1>5, <1>7

LEMMA ReportStudent ==
    ASSUME ReportInv, NEW h \in Handlers, WriteRow(h), req[h].kind = "students"
    PROVE  ReportOf(h)'
<1> DEFINE x == target[h]
           r == NewRow(h)
<1>1. /\ TypesOK /\ TypeInv /\ ErrorsOf(h) /\ ExtraOf(h) /\ \A p \in imported[h] : Stands(h, p)
      /\ \A p \in imported[h] : p[1] \in Nat /\ p[2] \in Ids
      /\ pos[h] \in Nat /\ pc[h] = "write" /\ pos[h] \in DOMAIN req[h].rows
      /\ Cardinality(Refused(h)) \in Nat /\ Cardinality(Extra(h)) \in Nat
  BY ReportTypes, AtHand DEF WriteRow, Busy
<1>2. /\ x \in Ids /\ x \in Students /\ Fits(x, r) /\ r.key = code[h] /\ ~r.deleted /\ r # NoRow
      /\ wrote' = [wrote EXCEPT ![h] = [@ EXCEPT ![x] = r]]
  BY <1>1, NewRowType, FitsFacts DEF WriteRow
<1>3. r.club = Line(h).club
  BY <1>2 DEF NewRow
<1> HIDE DEF r
<1>4. wrote'[h][x] = r /\ \A y \in Ids \ {x} : wrote'[h][y] = wrote[h][y]
  <2>1. TypesOK /\ x \in Ids /\ Fits(x, r) /\ Puts(h, x, r)
    BY <1>1, <1>2 DEF Puts
  <2> HIDE DEF x
  <2> QED
    BY ONLY <2>1, h \in Handlers, WroteType
<1>5. Go(h, "schedule") /\ UNCHANGED <<target, code>>
  BY DEF WriteRow
<1>6. UNCHANGED <<req, pos, errors, imported, target, code>> /\ pc'[h] = "schedule"
      /\ Line(h)' = Line(h)
  BY <1>1, <1>5, GoFacts DEF Global, Labels, Line
<1>7. ASSUME NEW p \in imported[h], p[2] = x
      PROVE  Overwrites(h, pos[h], p)' /\ Stands(h, p)'
  <2>1. Line(h).key # NoCode /\ code[h] = Line(h).key /\ req[h].rows[p[1]].key = NoCode
    BY <1>1, <1>7, RewriteNamesCode
  <2>2. p[1] < pos[h] /\ p[1] \in Parsed(req[h]) /\ p[1] \in Nat
    BY <1>1 DEF Stands
  <2>3. Overwrites(h, pos[h], p)'
    BY <1>1, <1>2, <1>4, <1>6, <1>7, <2>1, <2>2 DEF Overwrites, Line
  <2> QED
    BY <1>1, <1>2, <1>4, <1>6, <1>7, <2>1, <2>2, <2>3 DEF Stands
<1>8. ASSUME NEW p \in imported[h], p[2] # x PROVE Stands(h, p)'
  BY <1>1, <1>4, <1>6, <1>8, StandsStays
<1>9. ErrorsOf(h)'
  BY <1>1, <1>6 DEF ErrorsOf
<1>10. WrittenOf(h)'
  BY <1>2, <1>3, <1>4, <1>6, <1>7 DEF WrittenOf, Scheduling
<1>11. ExtraOf(h)'
  <2>1. Extra(h)' \in SUBSET (Extra(h) \cup {x}) /\ Extra(h)' \ {x} \in SUBSET Extra(h)
    BY <1>4, <1>6 DEF Extra, Announced
  <2>2. IsFiniteSet(Extra(h)) /\ Extra(h) \subseteq Students
    BY <1>1 DEF ExtraOf
  <2>3. IsFiniteSet(Extra(h) \cup {x})
    BY <2>2, FS_AddElement
  <2>4. IsFiniteSet(Extra(h)') /\ Extra(h)' \subseteq Students
    BY <1>2, <2>1, <2>2, <2>3, FS_Subset
  <2>5. IsFiniteSet(Extra(h)' \ {x}) /\ Cardinality(Extra(h)' \ {x}) <= Cardinality(Extra(h))
    BY <2>1, <2>2, FS_Subset
  <2>6. Cardinality(Extra(h)' \ {x}) \in Nat
    BY <2>5, FS_CardinalityType
  <2>7. Cardinality(Extra(h)) <= Cardinality(Refused(h))
    <3>1. Extra(h) \ {} = Extra(h)
      OBVIOUS
    <3> QED
      BY <1>1, <3>1 DEF ExtraOf, Unfinished, Scheduling
  <2>8. Refused(h)' = Refused(h) /\ Unfinished(h)' = {x}
    BY <1>6 DEF Refused, Unfinished, Scheduling
  <2> QED
    BY <1>1, <2>4, <2>5, <2>6, <2>7, <2>8 DEF ExtraOf
<1> QED
  BY <1>6, <1>7, <1>8, <1>9, <1>10, <1>11 DEF ReportOf

(* What announcing a record does to the rest of the report. *)
LEMMA ReportCount ==
    ASSUME ReportInv, NEW h \in Handlers, pc[h] \in {"write", "replace"}, req[h].kind # "push",
           NEW r, NEW x \in Ids, x = target[h], CountLine(h), pc[h] = "write" => x \notin Students,
           wrote'[h][x] = r, \A y \in Ids \ {x} : wrote'[h][y] = wrote[h][y],
           r # NoRow, r.key = code[h], Shows(r, Line(h)),
           x \in Students <=> req[h].kind = "students",
           req[h].kind = "students" => Line(h).key \in {NoCode, r.key},
           \A p \in imported[h] : p[2] = x /\ pc[h] = "replace" => wrote[h][x].key = r.key
    PROVE  ReportOf(h)'
<1>1. /\ TypesOK /\ TypeInv /\ ErrorsOf(h) /\ ExtraOf(h) /\ WrittenOf(h)
      /\ \A p \in imported[h] : Stands(h, p)
      /\ \A p \in imported[h] : p[1] \in Nat /\ p[2] \in Ids
      /\ pos[h] \in Nat /\ pos[h] \in DOMAIN req[h].rows /\ pos[h] \in Parsed(req[h])
      /\ Cardinality(Refused(h)) \in Nat /\ Cardinality(Extra(h)) \in Nat
      /\ HandlerOK(h)
  BY ReportTypes, AtHand DEF Busy
<1>2. UNCHANGED <<req, errors>> /\ pos'[h] = pos[h] + 1 /\ pc'[h] = "next"
      /\ imported'[h] = imported[h] \cup {<<pos[h], x>>}
  BY <1>1, NextLineFacts, CountLineFacts DEF Global
<1>3. ASSUME NEW p \in imported[h], p[2] # x PROVE Stands(h, p)'
  BY <1>1, <1>2, <1>3, StandsStays
<1>4. ASSUME NEW p \in imported[h], p[2] = x PROVE Stands(h, p)'
  <2>1. Stands(h, p) /\ p[1] \in Nat
    BY <1>1
  <2>2. PICK o \in DOMAIN req[h].rows : o = pos[h]
    BY <1>1
  <2>3. Overwrites(h, o, p)'
    <3>1. CASE pc[h] = "replace"
      <4>1. Overwrites(h, o, p) /\ req[h].kind = "students" /\ x \in Students
        BY <1>1, <1>4, <2>2, <3>1 DEF WrittenOf, HandlerOK, KindOf, Scheduling
      <4>2. o > p[1] /\ req[h].rows[p[1]].key = NoCode /\ req[h].rows[o].key = r.key
        BY <1>4, <3>1, <4>1 DEF Overwrites
      <4> QED
        BY <1>2, <1>4, <4>1, <4>2 DEF Overwrites
    <3>2. CASE pc[h] = "write"
      BY <1>1, <1>2, <1>4, <2>1, <2>2, <3>2 DEF Overwrites, Stands
    <3> QED
      BY <3>1, <3>2
  <2>4. x \in Students => req[h].rows[p[1]].key = NoCode
    <3>1. p[2] \in Students => req'[h].rows[p[1]].key = NoCode
      BY ONLY <2>3 DEF Overwrites
    <3> QED
      BY ONLY <1>2, <1>4, <3>1
  <2>5. p[1] < pos'[h] /\ p[1] \in Parsed(req[h])
    <3>1. p[1] < pos[h] /\ p[1] \in Parsed(req[h])
      BY ONLY <2>1 DEF Stands
    <3>2. p[1] \in Nat /\ pos[h] \in Nat /\ pos'[h] = pos[h] + 1
      BY <1>1, <1>2, <2>1
    <3> QED
      BY ONLY <3>1, <3>2
  <2>6. /\ wrote'[h][x] # NoRow
        /\ x \in Students <=> req[h].kind = "students"
        /\ req[h].kind = "students" => req[h].rows[p[1]].key \in {NoCode, wrote'[h][x].key}
    BY <1>4, <2>1, <2>4 DEF Stands
  <2> QED
    BY <1>2, <1>4, <2>2, <2>3, <2>5, <2>6 DEF Stands
<1>5. ASSUME NEW p, p = <<pos[h], x>> PROVE Stands(h, p)'
  <2>1. p[1] = pos[h] /\ p[2] = x
    BY <1>5
  <2>2. Shows(wrote'[h][x], req[h].rows[pos[h]])
    BY DEF Line
  <2>3. p[1] < pos'[h] /\ p[1] \in Parsed(req[h])
    BY <1>1, <1>2, <2>1
  <2>4. /\ wrote'[h][x] # NoRow
        /\ x \in Students <=> req[h].kind = "students"
        /\ req[h].kind = "students" => req[h].rows[pos[h]].key \in {NoCode, wrote'[h][x].key}
    BY DEF Line
  <2> QED
    BY <1>2, <2>1, <2>2, <2>3, <2>4 DEF Stands
<1>6. ErrorsOf(h)'
  BY <1>1, <1>2 DEF ErrorsOf
<1>7. ExtraOf(h)'
  <2>1. Unfinished(h)' = {} /\ Extra(h)' \ {} = Extra(h)' /\ Refused(h)' = Refused(h)
    BY <1>2 DEF Unfinished, Refused, Scheduling
  <2>2. Extra(h)' \in SUBSET (Extra(h) \ Unfinished(h))
    <3>1. x \in Announced(h)' /\ Announced(h) \subseteq Announced(h)'
      <4>1. \A p \in imported[h] : p \in imported'[h]
        BY <1>2
      <4>2. <<pos[h], x>> \in imported'[h] /\ <<pos[h], x>>[2] = x
        BY <1>2
      <4> QED
        BY <4>1, <4>2 DEF Announced
    <3>2. \A y \in Extra(h)' : y # x /\ y \in Ids /\ wrote[h][y] # NoRow /\ y \notin Announced(h)
      BY <3>1 DEF Extra
    <3> QED
      BY <3>2 DEF Extra, Unfinished
  <2>3. IsFiniteSet(Extra(h) \ Unfinished(h)) /\ Extra(h) \subseteq Students
        /\ Cardinality(Extra(h) \ Unfinished(h)) <= Cardinality(Refused(h))
    <3>1. Extra(h) \ Unfinished(h) \in SUBSET Extra(h)
      OBVIOUS
    <3> QED
      BY <1>1, <3>1, FS_Subset DEF ExtraOf
  <2>4. IsFiniteSet(Extra(h)') /\ Cardinality(Extra(h)') <= Cardinality(Extra(h) \ Unfinished(h))
    BY <2>2, <2>3, FS_Subset
  <2>5. Cardinality(Extra(h)') \in Nat /\ Cardinality(Extra(h) \ Unfinished(h)) \in Nat
    BY <2>3, <2>4, FS_CardinalityType
  <2> QED
    BY <1>1, <2>1, <2>2, <2>3, <2>4, <2>5 DEF ExtraOf
<1>8. WrittenOf(h)'
  BY <1>2 DEF WrittenOf, Scheduling
<1> QED
  BY <1>2, <1>3, <1>4, <1>5, <1>6, <1>7, <1>8 DEF ReportOf

LEMMA ReportKeyed ==
    ASSUME ReportInv, NEW h \in Handlers, WriteRow(h), req[h].kind # "students"
    PROVE  ReportOf(h)'
<1> SUFFICES ASSUME req'[h].kind # "push" PROVE ReportOf(h)'
  BY DEF ReportOf
<1> DEFINE x == target[h]
           r == NewRow(h)
<1>1. TypesOK /\ TypeInv /\ HandlerOK(h) /\ pc[h] = "write" /\ CountLine(h)
  BY DEF ReportInv, FreshInv, LookInv, KeyInv, TypeInv, WriteRow
<1>2. UNCHANGED req
  BY <1>1 DEF CountLine, NextLine
<1>3. /\ x \in Ids /\ x \notin Students /\ Fits(x, r) /\ r.key = code[h] /\ ~r.deleted /\ r # NoRow
      /\ wrote' = [wrote EXCEPT ![h] = [@ EXCEPT ![x] = r]]
  BY <1>1, <1>2, NewRowType, FitsFacts DEF WriteRow
<1>4. "club" \notin DOMAIN r
  <2>1. r \in KeyedRows
    BY <1>3 DEF Fits
  <2> QED
    BY <2>1 DEF KeyedRows
<1>5. Line(h).key # NoCode => r.key = Line(h).key
  BY <1>1, <1>3 DEF HandlerOK, TargetOf
<1> HIDE DEF r, x
<1>6. wrote'[h][x] = r /\ \A y \in Ids \ {x} : wrote'[h][y] = wrote[h][y]
  <2>1. TypesOK /\ x \in Ids /\ Fits(x, r) /\ Puts(h, x, r)
    BY <1>1, <1>3 DEF Puts
  <2> QED
    BY ONLY <2>1, h \in Handlers, WroteType
<1>7. Shows(r, Line(h))
  BY <1>3, <1>4, <1>5 DEF Shows
<1> QED
  BY <1>1, <1>2, <1>3, <1>6, <1>7, ReportCount DEF x

LEMMA ReportRefuseSchedule ==
    ASSUME ReportInv, NEW h \in Handlers, RefuseSchedule(h)
    PROVE  ReportOf(h)'
<1>1. TypesOK /\ pc[h] = "schedule" /\ RefuseLine(h) /\ Line(h).custom
  BY DEF ReportInv, FreshInv, LookInv, KeyInv, TypeInv, RefuseSchedule, Outside
<1>2. NextLine(h) /\ UNCHANGED <<wrote, imported>> /\ errors'[h] = errors[h] \cup {pos[h]}
  BY <1>1, RefuseLineFacts
<1> QED
  BY <1>1, <1>2, ReportRefuse DEF Busy

LEMMA ReportReadSchedule ==
    ASSUME ReportInv, NEW h \in Handlers, ReadSchedule(h)
    PROVE  ReportOf(h)'
<1>1. TypesOK /\ pc[h] = "schedule" /\ Go(h, "replace") /\ UNCHANGED <<target, code, wrote>>
  BY DEF ReportInv, FreshInv, LookInv, KeyInv, TypeInv, ReadSchedule
<1>2. UNCHANGED <<req, pos, errors, imported>> /\ pc'[h] = "replace"
  BY <1>1, GoFacts DEF Global, Labels
<1> SUFFICES ASSUME req[h].kind # "push" PROVE ReportOf(h)'
  BY <1>2 DEF ReportOf
<1>3. ErrorsOf(h) /\ ExtraOf(h) /\ WrittenOf(h) /\ \A p \in imported[h] : Stands(h, p)
  BY <1>1, ReportTypes DEF Busy
<1>4. Line(h)' = Line(h) /\ Extra(h)' = Extra(h) /\ Refused(h)' = Refused(h)
      /\ Unfinished(h)' = Unfinished(h)
  BY <1>1, <1>2 DEF Line, Extra, Announced, Refused, Unfinished, Scheduling
<1>5. \A o, p : Overwrites(h, o, p)' <=> Overwrites(h, o, p)
  BY <1>1, <1>2 DEF Overwrites
<1>6. \A p : Stands(h, p)' <=> Stands(h, p)
  BY <1>1, <1>2, <1>5 DEF Stands
<1>7. ErrorsOf(h)'
  BY <1>1, <1>2, <1>3 DEF ErrorsOf
<1>8. ExtraOf(h)'
  BY <1>3, <1>4 DEF ExtraOf
<1>9. WrittenOf(h)'
  BY <1>1, <1>2, <1>3, <1>4, <1>5 DEF WrittenOf, Scheduling
<1> QED
  BY <1>2, <1>3, <1>6, <1>7, <1>8, <1>9 DEF ReportOf

LEMMA ReportReplaceSchedule ==
    ASSUME ReportInv, NEW h \in Handlers, ReplaceSchedule(h)
    PROVE  ReportOf(h)'
<1> DEFINE x == target[h]
           r == wrote[h][x]
<1>1. TypesOK /\ TypeInv /\ HandlerOK(h) /\ pc[h] = "replace" /\ UNCHANGED wrote /\ CountLine(h)
  BY DEF ReportInv, FreshInv, LookInv, KeyInv, TypeInv, ReplaceSchedule
<1>2. req[h].kind = "students" /\ x \in Students /\ x \in Ids /\ r # NoRow
  BY <1>1, ScheduledFacts DEF Scheduling
<1>3. r.key = code[h] /\ ~r.deleted /\ r.club = Line(h).club
  BY <1>1, <1>2, ReportTypes DEF Busy, WrittenOf, Scheduling
<1>4. Line(h).key # NoCode => code[h] = Line(h).key
  BY <1>1 DEF HandlerOK, TargetOf
<1>5. Shows(r, Line(h))
  BY <1>3, <1>4 DEF Shows
<1>6. x = target[h] /\ r = wrote[h][x]
  OBVIOUS
<1> HIDE DEF r, x
<1>7. wrote'[h][x] = r /\ \A y \in Ids \ {x} : wrote'[h][y] = wrote[h][y]
  BY <1>1, <1>6
<1> QED
  BY <1>1, <1>2, <1>3, <1>4, <1>5, <1>6, <1>7, ReportCount

LEMMA StepReport == ASSUME ReportInv, NEW h \in Handlers, Step(h) PROVE ReportOf(h)'
<1>1. TypesOK /\ TypeInv /\ HandlerOK(h)
  BY DEF ReportInv, FreshInv, LookInv, KeyInv, TypeInv
<1>2. CASE Take(h)
  <2>1. pc[h] = "next"
    BY <1>2 DEF Take
  <2>2. CASE pos[h] \in errors[h]
    BY <1>2, <2>1, <2>2, ReportRefuse DEF Take, Busy, Scheduling
  <2>3. CASE pos[h] \notin errors[h]
    BY <1>2, <2>1, <2>3, ReportGo DEF Take, Busy, Labels, Scheduling
  <2> QED
    BY <2>2, <2>3
<1>3. ASSUME RefuseLine(h), pc[h] \notin {"idle", "next"} \cup Scheduling PROVE ReportOf(h)'
  BY <1>1, <1>3, RefuseLineFacts, ReportRefuse DEF Busy, Scheduling
<1>4. ASSUME NEW l \in Labels \ ({"idle"} \cup Scheduling), Go(h, l), UNCHANGED wrote,
             pc[h] \notin {"idle", "next"} \cup Scheduling
      PROVE  ReportOf(h)'
  BY <1>4, ReportGo DEF Busy
<1>5. CASE LockRow(h) \/ References(h)
  <2>1. pc[h] \notin {"idle", "next"} \cup Scheduling
    BY <1>5 DEF LockRow, References, Scheduling
  <2>2. \/ RefuseLine(h)
        \/ UNCHANGED wrote
           /\ \E l \in {"code", "order", "references", "find", "number", "duplicate"} : Go(h, l)
    BY <1>5 DEF LockRow, References
  <2> QED
    BY <1>3, <1>4, <2>1, <2>2 DEF Labels, Scheduling
<1>6. CASE TryCode(h) \/ CheckOrder(h) \/ CheckDuplicate(h) \/ FindStudent(h) \/ NumberStudent(h)
  <2>1. pc[h] \notin {"idle", "next"} \cup Scheduling
    BY <1>6 DEF TryCode, CheckOrder, CheckDuplicate, FindStudent, NumberStudent, Scheduling
  <2>2. \/ RefuseLine(h)
        \/ UNCHANGED wrote /\ \E l \in {"code", "write", "number", "duplicate"} : Go(h, l)
    BY <1>6 DEF TryCode, CheckOrder, CheckDuplicate, FindStudent, NumberStudent
  <2> QED
    BY <1>3, <1>4, <2>1, <2>2 DEF Labels, Scheduling
<1>7. CASE Reset(h)
  BY <1>1, <1>7, ResetFacts DEF ReportOf, Busy
<1> QED
  BY <1>2, <1>5, <1>6, <1>7, ReportStudent, ReportKeyed, ReportRefuseSchedule, ReportReadSchedule,
     ReportReplaceSchedule DEF Step, Commit, Abort, AbortSchedule, Fail, DeadlockVictim, Rollback

LEMMA BeginReport ==
    ASSUME ReportInv, NEW h \in Handlers, NEW q \in Requests, Begin(h, q)
    PROVE  ReportOf(h)'
<1>1. TypesOK /\ HandlerOK(h) /\ pc[h] = "idle"
  BY DEF ReportInv, FreshInv, LookInv, KeyInv, TypeInv, Begin
<1>2. wrote'[h] = Empty /\ imported'[h] = {} /\ pc'[h] = "next" /\ req'[h] = q
      /\ errors'[h] = DOMAIN q.rows \ Parsed(q)
  BY <1>1 DEF Begin, HandlerOK, BusyOf, TypesOK
<1>3. ErrorsOf(h)' /\ WrittenOf(h)'
  BY <1>2 DEF ErrorsOf, WrittenOf, Scheduling
<1>4. ExtraOf(h)'
  <2>1. Extra(h)' = {} /\ Extra(h)' \ Unfinished(h)' = {}
    BY <1>2 DEF Extra, Empty
  <2>2. IsFiniteSet(Refused(h)')
    <3>1. Refused(h)' = {}
      BY <1>2 DEF Refused
    <3> QED
      BY <3>1, FS_EmptySet
  <2>3. Cardinality(Refused(h)') \in Nat /\ Cardinality({}) = 0 /\ IsFiniteSet({})
    BY <2>2, FS_CardinalityType, FS_EmptySet
  <2> QED
    BY <2>1, <2>3 DEF ExtraOf
<1> QED
  BY <1>2, <1>3, <1>4 DEF ReportOf

LEMMA NextReportInv == ReportInv /\ [Next]_vars => ReportInv'
<1> SUFFICES ASSUME ReportInv, [Next]_vars PROVE \A g \in Handlers : ReportOf(g)'
  BY NextFreshInv DEF ReportInv
<1>1. TypeInv /\ \A g \in Handlers : ReportOf(g)
  BY DEF ReportInv, FreshInv, LookInv, KeyInv
<1>2. ASSUME NEW h \in Handlers, ReportOf(h)', Others(h) PROVE \A g \in Handlers : ReportOf(g)'
  BY <1>1, <1>2, ReportStays DEF Others
<1>3. CASE \E h \in Handlers, q \in Requests : Begin(h, q)
  BY <1>1, <1>2, <1>3, BeginReport, BeginTypes
<1>4. CASE \E h \in Handlers : Step(h)
  BY <1>1, <1>2, <1>4, StepReport, StepTypes
<1>5. CASE UNCHANGED vars \/ \E x \in Fragile : Delete(x)
  <2>1. \A g \in Handlers : Same(g)
    BY <1>5 DEF Delete, Same, vars, locals
  <2> QED
    BY <1>1, <2>1, ReportStays
<1>6. CASE \E p \in SlotPushes : PushSlot(p)
  BY <1>1, <1>6, PushSlotFacts, ReportStays DEF TypeInv
<1> QED
  BY <1>3, <1>4, <1>5, <1>6 DEF Next

-----------------------------------------------------------------------------
(* Days: the schedule rows of the students a file counts as imported are   *)
(* those the file asks for, but for rows hidden from the import and rows   *)
(* that others have committed since it read them.                          *)
Lost(h) == hidden[h] \cup since[h]

(* What an import is about to replace is all there is, but for those. *)
UnseenOf(h) ==
    pc[h] = "replace" =>
        \A i \in DOMAIN Slots(h) : Slots(h)[i].student = target[h] =>
            \/ i \in Lost(h)
            \/ Slots(h)[i].day \in DOMAIN existing[h] /\ existing[h][Slots(h)[i].day] = i

DaysShown(h, p) ==
    \/ ShowsDays(Slots(h), p[2], req[h].rows[p[1]].days, slot, Lost(h))
    \/ \E o \in DOMAIN req[h].rows : Overwrites(h, o, p)

ReportedDaysOf(h) ==
    req[h].kind = "students" =>
        \A p \in imported[h] :
           /\ \A d \in req[h].rows[p[1]].days : Own(p[2], d) \in DOMAIN filed[h]
           /\ DaysShown(h, p)

DaysOK(h) == UnseenOf(h) /\ ReportedDaysOf(h)
DaysInv == ReportInv /\ SlotInv /\ \A h \in Handlers : DaysOK(h)

(* A table still shows a student's days if the days' own rows stay, and no *)
(* other row of the student appears but among those that are exempt.       *)
LEMMA ShowsDaysStay ==
    ASSUME NEW x, NEW D, NEW s, NEW t, NEW a, NEW b, NEW u, NEW v, ShowsDays(s, x, D, a, u),
           \A d \in D : OnDay(s[Own(x, d)], x, d) /\ Own(x, d) \in DOMAIN s =>
                           Own(x, d) \in DOMAIN t /\ t[Own(x, d)] = s[Own(x, d)],
           \A d \in D : Own(x, d) \in DOMAIN a =>
                           Own(x, d) \in DOMAIN b /\ b[Own(x, d)] = a[Own(x, d)],
           \A i \in DOMAIN t : t[i].student = x =>
               i \in v \/ (i \in DOMAIN s /\ t[i] = s[i] /\ i \notin u)
    PROVE  ShowsDays(t, x, D, b, v)
  BY DEF ShowsDays

(* Another handler, or a push, commits schedule rows. *)
LEMMA DaysStay ==
    ASSUME DaysInv, NEW g \in Handlers, Same(g),
           UNCHANGED <<filed[g], held[g], existing[g], hidden[g]>>,
           NEW f, slot' = Over(f, slot), DOMAIN f \cap held[g] = {},
           OneRowADay(slot'), NoClash(filed[g], f),
           pc[g] # "idle" => since'[g] = since[g] \cup DOMAIN f
    PROVE  DaysOK(g)'
<1>1. SlotInv /\ DaysOK(g) /\ FiledOf(g) /\ BusyOf(g)
  BY DEF DaysInv, SlotInv, SlotsOK, ReportInv, FreshInv, LookInv, KeyInv, TypeInv, HandlerOK
<1>2. CASE pc[g] = "idle"
  BY <1>1, <1>2 DEF DaysOK, UnseenOf, ReportedDaysOf, BusyOf, Same
<1>3. CASE pc[g] # "idle"
  <2>1. \A i \in held[g] : /\ i \in DOMAIN Slots(g)' <=> i \in DOMAIN Slots(g)
                           /\ i \in DOMAIN Slots(g) => Slots(g)'[i] = Slots(g)[i]
                           /\ i \in DOMAIN slot' <=> i \in DOMAIN slot
                           /\ i \in DOMAIN slot => slot'[i] = slot[i]
    BY <1>1, SlotsStay
  <2>2. Lost(g)' = Lost(g) \cup DOMAIN f
    BY <1>3 DEF Lost
  <2>3. \A i \in DOMAIN Slots(g)' :
           i \in Lost(g)' \/ (i \in DOMAIN Slots(g) /\ Slots(g)'[i] = Slots(g)[i] /\ i \notin Lost(g))
    <3>1. Slots(g) = Over(filed[g], slot) /\ Slots(g)' = Over(filed[g], Over(f, slot))
      BY DEF Slots
    <3> QED
      BY <2>2, <3>1 DEF Over
  <2>4. UnseenOf(g)'
    BY <1>1, <2>3 DEF DaysOK, UnseenOf, Same
  <2>5. \A o, p : Overwrites(g, o, p)' <=> Overwrites(g, o, p)
    BY DEF Overwrites, Same
  <2>6. ASSUME NEW p \in imported[g], req[g].kind = "students"
        PROVE  /\ \A d \in req[g].rows[p[1]].days : Own(p[2], d) \in DOMAIN filed[g]
               /\ DaysShown(g, p)'
    <3> DEFINE x == p[2]
               D == req[g].rows[p[1]].days
    <3>1. (\A d \in D : Own(x, d) \in DOMAIN filed[g]) /\ DaysShown(g, p)
      BY <1>1, <2>6 DEF DaysOK, ReportedDaysOf
    <3>2. \A d \in D : Own(x, d) \in held[g]
      BY <1>1, <3>1 DEF FiledOf
    <3>3. UNCHANGED req[g]
      BY DEF Same
    <3>4. CASE \E o \in DOMAIN req[g].rows : Overwrites(g, o, p)
      BY <2>5, <3>1, <3>3, <3>4 DEF DaysShown
    <3>5. CASE ShowsDays(Slots(g), x, D, slot, Lost(g))
      <4> HIDE DEF x, D
      <4>1. ShowsDays(Slots(g)', x, D, slot', Lost(g)')
        BY ONLY <2>1, <2>3, <3>2, <3>5, ShowsDaysStay
      <4> QED
        BY <3>1, <3>3, <4>1 DEF DaysShown, x, D
    <3> QED
      BY <3>1, <3>4, <3>5 DEF DaysShown
  <2>7. ReportedDaysOf(g)'
    BY <2>6 DEF ReportedDaysOf, Same
  <2> QED
    BY <2>4, <2>7 DEF DaysOK
<1> QED
  BY <1>2, <1>3

(* A handler whose step leaves the schedule rows and the announced records *)
(* alone, unless it overwrites one.                                        *)
LEMMA DaysSame ==
    ASSUME DaysInv, NEW g \in Handlers,
           UNCHANGED <<slot, filed[g], existing[g], hidden[g], since[g], req[g], imported[g]>>,
           pc'[g] = "replace" => pc[g] = "replace" /\ target'[g] = target[g],
           \A p \in imported[g] :
               \/ wrote'[g][p[2]] = wrote[g][p[2]]
               \/ req[g].kind = "students" => \E o \in DOMAIN req[g].rows : Overwrites(g, o, p)'
    PROVE  DaysOK(g)'
<1>1. DaysOK(g)
  BY DEF DaysInv
<1>2. Slots(g)' = Slots(g) /\ Lost(g)' = Lost(g)
  BY DEF Slots, Lost
<1>3. UnseenOf(g)'
  BY <1>1, <1>2 DEF DaysOK, UnseenOf
<1>4. ASSUME NEW p \in imported[g], req[g].kind = "students", DaysShown(g, p)
      PROVE  DaysShown(g, p)'
  <2>1. CASE wrote'[g][p[2]] = wrote[g][p[2]]
    <3>1. \A o : Overwrites(g, o, p)' <=> Overwrites(g, o, p)
      BY <2>1 DEF Overwrites
    <3> QED
      BY <1>2, <1>4, <3>1 DEF DaysShown
  <2>2. CASE \E o \in DOMAIN req[g].rows : Overwrites(g, o, p)'
    BY <2>2 DEF DaysShown
  <2> QED
    BY <1>4, <2>1, <2>2
<1>5. ReportedDaysOf(g)'
  BY <1>1, <1>4 DEF DaysOK, ReportedDaysOf
<1> QED
  BY <1>3, <1>5 DEF DaysOK

LEMMA WriteRowDays ==
    ASSUME DaysInv, ReportInv', NEW h \in Handlers, WriteRow(h)
    PROVE  req[h].kind = "students" => DaysOK(h)'
<1> SUFFICES ASSUME req[h].kind = "students" PROVE DaysOK(h)'
  OBVIOUS
<1>1. ReportInv /\ TypeInv /\ TypesOK /\ pc[h] = "write" /\ UNCHANGED slots /\ Go(h, "schedule")
      /\ wrote' = [wrote EXCEPT ![h] = [@ EXCEPT ![target[h]] = NewRow(h)]] /\ UNCHANGED target
  BY DEF DaysInv, ReportInv, FreshInv, LookInv, KeyInv, TypeInv, WriteRow
<1>2. UNCHANGED <<req, pos, imported>> /\ pc'[h] = "schedule"
  BY <1>1, GoFacts DEF Global, Labels
<1>3. \A y \in Ids \ {target[h]} : wrote'[h][y] = wrote[h][y]
  <2>1. target[h] \in Ids /\ Fits(target[h], NewRow(h))
    BY <1>1, NewRowType
  <2> QED
    BY <1>1, <2>1, WroteType DEF Puts
<1>4. pos[h] \in DOMAIN req[h].rows
  BY <1>1, AtHand
<1>5. ReportOf(h)'
  BY DEF ReportInv
<1>6. WrittenOf(h)'
  BY <1>2, <1>5 DEF ReportOf, Busy
<1>7. ASSUME NEW p \in imported[h]
      PROVE  \/ wrote'[h][p[2]] = wrote[h][p[2]]
             \/ \E o \in DOMAIN req[h].rows : Overwrites(h, o, p)'
  <2>1. p[2] \in Ids
    BY <1>1 DEF TypesOK
  <2>2. CASE p[2] = target[h]
    <3>1. Overwrites(h, pos[h], p)'
      BY <1>1, <1>2, <1>6, <2>2 DEF WrittenOf, Scheduling
    <3>2. PICK o \in DOMAIN req[h].rows : o = pos[h]
      BY <1>4
    <3>3. Overwrites(h, o, p)'
      BY <1>2, <3>1, <3>2 DEF Overwrites
    <3> QED
      BY <3>3
  <2> QED
    BY <1>3, <2>1, <2>2
<1> QED
  BY <1>1, <1>2, <1>7, DaysSame DEF slots

LEMMA ReadScheduleDays ==
    ASSUME DaysInv, NEW h \in Handlers, ReadSchedule(h)
    PROVE  DaysOK(h)'
<1>1. /\ ReportInv /\ SlotInv /\ TypeInv /\ TypesOK /\ DaysOK(h) /\ pc[h] = "schedule"
      /\ Go(h, "replace") /\ UNCHANGED <<target, wrote, slot, filed>>
  BY DEF DaysInv, ReportInv, FreshInv, LookInv, KeyInv, TypeInv, ReadSchedule
<1>2. PICK f \in [DaysOf(h) -> SlotsOf(h)] :
         /\ existing' = [existing EXCEPT ![h] = f]
         /\ hidden' = [hidden EXCEPT ![h] = @ \cup {i \in SlotsOf(h) : f[Slots(h)[i].day] # i}]
  BY DEF ReadSchedule
<1>3. /\ existing'[h] = f /\ since'[h] = since[h] \ SlotsOf(h)
      /\ hidden'[h] = hidden[h] \cup {i \in SlotsOf(h) : f[Slots(h)[i].day] # i}
  BY <1>1, <1>2 DEF ReadSchedule, SlotInv
<1>4. UNCHANGED <<req, pos, imported>> /\ Slots(h)' = Slots(h)
  BY <1>1, GoFacts DEF Global, Labels, Slots
<1>5. UnseenOf(h)'
  <2>1. ASSUME NEW i \in SlotsOf(h)
        PROVE  i \in hidden'[h] \/ (Slots(h)[i].day \in DOMAIN existing'[h]
                                     /\ existing'[h][Slots(h)[i].day] = i)
    BY <1>2, <1>3 DEF DaysOf
  <2> QED
    BY <1>1, <1>4, <2>1 DEF UnseenOf, SlotsOf, Lost
<1>6. req[h].kind = "students" /\ HandlerOK(h)
  BY <1>1, ScheduledFacts DEF Scheduling
<1>7. WrittenOf(h) /\ pos[h] \in DOMAIN req[h].rows
  BY <1>1, <1>6, ReportTypes, AtHand DEF Busy
<1>8. ASSUME NEW p \in imported[h] PROVE DaysShown(h, p)'
  <2>1. \A o : Overwrites(h, o, p)' <=> Overwrites(h, o, p)
    BY <1>1, <1>4 DEF Overwrites
  <2>2. CASE \E o \in DOMAIN req[h].rows : Overwrites(h, o, p)
    BY <1>4, <2>1, <2>2 DEF DaysShown
  <2>3. CASE p[2] = target[h]
    BY <1>1, <1>7, <2>2, <2>3 DEF WrittenOf, Scheduling
  <2>4. CASE p[2] # target[h] /\ ~\E o \in DOMAIN req[h].rows : Overwrites(h, o, p)
    <3>1. ShowsDays(Slots(h), p[2], req[h].rows[p[1]].days, slot, Lost(h))
      BY <1>1, <1>6, <2>4 DEF DaysOK, ReportedDaysOf, DaysShown
    <3>2. \A i \in DOMAIN Slots(h) : Slots(h)[i].student = p[2] /\ i \in Lost(h) => i \in Lost(h)'
      BY <1>3, <2>4 DEF Lost, SlotsOf
    <3>3. ShowsDays(Slots(h), p[2], req[h].rows[p[1]].days, slot, Lost(h)')
      BY <3>1, <3>2 DEF ShowsDays
    <3> QED
      BY <1>1, <1>4, <3>3 DEF DaysShown
  <2> QED
    BY <2>2, <2>3, <2>4
<1>9. ReportedDaysOf(h)'
  BY <1>1, <1>4, <1>8 DEF DaysOK, ReportedDaysOf
<1> QED
  BY <1>5, <1>9 DEF DaysOK

(* The days of the row at hand are stored as it asks for.                  *)
LEMMA NewDaysShown ==
    ASSUME DaysInv, NEW h \in Handlers, ReplaceSchedule(h)
    PROVE  /\ ShowsDays(Slots(h)', target[h], Line(h).days, slot, Lost(h))
           /\ \A d \in Line(h).days : Own(target[h], d) \in DOMAIN filed'[h]
<1>1. TypeInv /\ SlotInv /\ pc[h] = "replace" /\ UnseenOf(h) /\ FiledOf(h)
  BY DEF DaysInv, ReportInv, FreshInv, LookInv, KeyInv, ReplaceSchedule, SlotInv, SlotsOK, DaysOK
<1> DEFINE x == target[h]
           D == Line(h).days
           T == Slots(h)'
<1>2. /\ DOMAIN NewSlots(h) = Kept(h) \cup Dropped(h)
      /\ \A i \in Kept(h) \ Dropped(h) : i = Own(x, i[2]) /\ i[2] \in D /\ OnDay(NewSlots(h)[i], x, i[2])
      /\ \A i \in Dropped(h) : /\ i \in DOMAIN Slots(h) /\ Slots(h)[i].student = x
                               /\ Slots(h)[i].day \in DOMAIN existing[h] \ D
                               /\ NewSlots(h)[i].deleted
      /\ \A d \in D : Own(x, d) \in Kept(h)
  BY ONLY <1>1, h \in Handlers, NewSlotFacts
<1> HIDE DEF NewSlots
<1>3. /\ DOMAIN T = DOMAIN NewSlots(h) \cup DOMAIN Slots(h)
      /\ \A i \in DOMAIN NewSlots(h) : T[i] = NewSlots(h)[i]
      /\ \A i \in DOMAIN Slots(h) \ DOMAIN NewSlots(h) : T[i] = Slots(h)[i]
      /\ filed'[h] = Over(NewSlots(h), filed[h])
  BY <1>1, ReplaceFacts
<1> HIDE DEF T, x, D
<1>4. \A d \in D : Own(x, d) \in DOMAIN filed'[h]
  BY <1>2, <1>3 DEF Over
<1>5. ASSUME NEW d \in D
      PROVE  \/ Own(x, d) \in DOMAIN T /\ OnDay(T[Own(x, d)], x, d)
             \/ /\ Own(x, d) \in DOMAIN slot /\ slot[Own(x, d)].student = x
                /\ slot[Own(x, d)].day # d
  <2>1. PICK i \in Kept(h) : i = Own(x, d)
    BY <1>2
  <2>2. i[1] = x /\ i[2] = d
    BY <2>1, SlotIdFacts
  <2>3. CASE i \notin Dropped(h)
    <3>1. OnDay(NewSlots(h)[i], x, i[2]) /\ T[i] = NewSlots(h)[i] /\ i \in DOMAIN T
      BY <1>2, <1>3, <2>3
    <3> QED
      BY <2>1, <2>2, <3>1
  <2>4. CASE i \in Dropped(h)
    <3>1. i \in DOMAIN Slots(h) /\ Slots(h)[i].student = x /\ Slots(h)[i].day # d
      BY <1>2, <2>4
    <3>2. CASE i \in DOMAIN filed[h]
      <4>1. Slots(h)[i] = filed[h][i]
        BY <3>2 DEF Slots, Over
      <4>2. i # Own(filed[h][i].student, filed[h][i].day)
        BY <2>1, <3>1, <4>1, SlotIdFacts
      <4> QED
        BY <1>1, <2>1, <3>1, <3>2, <4>1, <4>2 DEF FiledOf
    <3>3. CASE i \notin DOMAIN filed[h]
      <4>1. Slots(h)[i] = slot[i] /\ i \in DOMAIN slot
        BY <3>1, <3>3 DEF Slots, Over
      <4> QED
        BY <2>1, <3>1, <4>1
    <3> QED
      BY <3>2, <3>3
  <2> QED
    BY <2>3, <2>4
<1>6. ASSUME NEW i \in DOMAIN T, T[i].student = x, ~T[i].deleted
      PROVE  T[i].day \in D \/ i \in Lost(h)
  <2>1. i \notin Dropped(h)
    BY <1>2, <1>3, <1>6
  <2>2. CASE i \in Kept(h)
    <3>1. OnDay(T[i], x, i[2]) /\ i[2] \in D
      BY <1>2, <1>3, <2>1, <2>2
    <3> QED
      BY <3>1, OnDayFacts
  <2>3. CASE i \notin Kept(h)
    <3>1. i \in DOMAIN Slots(h) /\ T[i] = Slots(h)[i]
      BY <1>2, <1>3, <2>1, <2>3
    <3>2. \/ i \in Lost(h)
          \/ Slots(h)[i].day \in DOMAIN existing[h] /\ existing[h][Slots(h)[i].day] = i
      BY <1>1, <1>6, <3>1 DEF UnseenOf, x
    <3> QED
      BY <2>1, <3>1, <3>2 DEF Dropped, D
  <2> QED
    BY <2>2, <2>3
<1>7. ShowsDays(T, x, D, slot, Lost(h))
  BY <1>5, <1>6 DEF ShowsDays
<1> QED
  BY <1>4, <1>7 DEF T, x, D

LEMMA ReplaceScheduleDays ==
    ASSUME DaysInv, NEW h \in Handlers, ReplaceSchedule(h)
    PROVE  DaysOK(h)'
<1>1. /\ ReportInv /\ SlotInv /\ TypeInv /\ TypesOK /\ DaysOK(h) /\ pc[h] = "replace" /\ CountLine(h)
  BY DEF DaysInv, ReportInv, FreshInv, LookInv, KeyInv, TypeInv, ReplaceSchedule
<1>2. /\ UNCHANGED <<slot, hidden, since, wrote>> /\ pc'[h] = "next"
      /\ filed'[h] = Over(NewSlots(h), filed[h])
  BY <1>1, ReplaceFacts
<1>3. req[h].kind = "students" /\ HandlerOK(h) /\ target[h] \in Ids
  BY <1>1, ScheduledFacts DEF Scheduling
<1>4. WrittenOf(h) /\ pos[h] \in DOMAIN req[h].rows
  BY <1>1, <1>3, ReportTypes, AtHand DEF Busy
<1>5. UNCHANGED req /\ imported'[h] = imported[h] \cup {<<pos[h], target[h]>>}
  BY <1>1, <1>3, NextLineFacts, CountLineFacts DEF Global
<1>6. Lost(h)' = Lost(h) /\ UnseenOf(h)'
  BY <1>2 DEF Lost, UnseenOf
<1>7. ASSUME NEW p \in imported[h]
      PROVE  /\ \A d \in req[h].rows[p[1]].days : Own(p[2], d) \in DOMAIN filed'[h]
             /\ DaysShown(h, p)'
  <2>1. (\A d \in req[h].rows[p[1]].days : Own(p[2], d) \in DOMAIN filed[h]) /\ DaysShown(h, p)
    BY <1>1, <1>3 DEF DaysOK, ReportedDaysOf
  <2>2. \A d \in req[h].rows[p[1]].days : Own(p[2], d) \in DOMAIN filed'[h]
    BY <1>2, <2>1 DEF Over
  <2>3. \A o : Overwrites(h, o, p) => Overwrites(h, o, p)'
    BY <1>2, <1>5 DEF Overwrites
  <2>4. CASE \E o \in DOMAIN req[h].rows : Overwrites(h, o, p)
    BY <1>5, <2>2, <2>3, <2>4 DEF DaysShown
  <2>5. CASE p[2] = target[h]
    <3>1. Overwrites(h, pos[h], p)
      BY <1>1, <1>4, <2>5 DEF WrittenOf, Scheduling
    <3> QED
      BY <1>4, <2>4, <3>1
  <2>6. CASE p[2] # target[h] /\ ~\E o \in DOMAIN req[h].rows : Overwrites(h, o, p)
    <3> DEFINE x == p[2]
               D == req[h].rows[p[1]].days
               T == Slots(h)'
    <3>1. ShowsDays(Slots(h), x, D, slot, Lost(h))
      BY <2>1, <2>6 DEF DaysShown
    <3>2. /\ DOMAIN NewSlots(h) = Kept(h) \cup Dropped(h)
          /\ \A i \in Kept(h) \ Dropped(h) :
                /\ i = Own(target[h], i[2]) /\ i[2] \in Line(h).days
                /\ OnDay(NewSlots(h)[i], target[h], i[2])
          /\ \A i \in Dropped(h) :
                /\ i \in held[h] /\ i \in DOMAIN Slots(h) /\ Slots(h)[i].student = target[h]
                /\ Slots(h)[i].day \in DOMAIN existing[h] \ Line(h).days
                /\ NewSlots(h)[i].student = target[h] /\ NewSlots(h)[i].day = Slots(h)[i].day
                /\ NewSlots(h)[i].deleted
      BY ONLY h \in Handlers, <1>1, NewSlotFacts
    <3>3. \A i \in DOMAIN NewSlots(h) : NewSlots(h)[i].student = target[h]
      BY ONLY <3>2, OnDayFacts
    <3>4. /\ DOMAIN T = DOMAIN NewSlots(h) \cup DOMAIN Slots(h)
          /\ \A i \in DOMAIN NewSlots(h) : T[i] = NewSlots(h)[i]
          /\ \A i \in DOMAIN Slots(h) \ DOMAIN NewSlots(h) : T[i] = Slots(h)[i]
      BY <1>1, ReplaceFacts
    <3>5. \A d \in D : OnDay(Slots(h)[Own(x, d)], x, d) /\ Own(x, d) \in DOMAIN Slots(h)
                      => Own(x, d) \notin DOMAIN NewSlots(h)
      <4> SUFFICES ASSUME NEW d \in D, OnDay(Slots(h)[Own(x, d)], x, d),
                          Own(x, d) \in DOMAIN Slots(h), Own(x, d) \in DOMAIN NewSlots(h)
                   PROVE  FALSE
        OBVIOUS
      <4>1. PICK i \in DOMAIN NewSlots(h) : i = Own(x, d)
        OBVIOUS
      <4>2. i \in Kept(h) \ Dropped(h) \/ i \in Dropped(h)
        BY <3>2
      <4>3. CASE i \in Dropped(h)
        <5>1. Slots(h)[i].student = target[h]
          BY <3>2, <4>3
        <5> QED
          BY ONLY <2>6, <4>1, <5>1, OnDay(Slots(h)[Own(x, d)], x, d), OnDayFacts
      <4>4. CASE i \in Kept(h) \ Dropped(h)
        <5>1. i = Own(target[h], i[2])
          BY <3>2, <4>4
        <5> QED
          BY <2>6, <4>1, <5>1, SlotIdFacts
      <4> QED
        BY <4>2, <4>3, <4>4
    <3>6. \A i \in DOMAIN T : T[i].student = x => i \in DOMAIN Slots(h) /\ T[i] = Slots(h)[i]
      BY <2>6, <3>3, <3>4
    <3> HIDE DEF x, D, T
    <3>7. ShowsDays(T, x, D, slot, Lost(h))
      BY <3>1, <3>4, <3>5, <3>6, ShowsDaysStay
    <3> QED
      BY <1>2, <1>5, <1>6, <2>2, <3>7 DEF DaysShown, x, D, T
  <2> QED
    BY <2>4, <2>5, <2>6
<1>8. ASSUME NEW p, p = <<pos[h], target[h]>>
      PROVE  /\ \A d \in req[h].rows[p[1]].days : Own(p[2], d) \in DOMAIN filed'[h]
             /\ DaysShown(h, p)'
  <2>1. p[1] = pos[h] /\ p[2] = target[h] /\ req[h].rows[p[1]] = Line(h)
    BY <1>8 DEF Line
  <2>2. /\ ShowsDays(Slots(h)', target[h], Line(h).days, slot, Lost(h))
        /\ \A d \in Line(h).days : Own(target[h], d) \in DOMAIN filed'[h]
    BY NewDaysShown
  <2> QED
    BY <1>2, <1>5, <1>6, <2>1, <2>2 DEF DaysShown
<1>9. ReportedDaysOf(h)'
  BY <1>5, <1>7, <1>8 DEF ReportedDaysOf
<1> QED
  BY <1>6, <1>9 DEF DaysOK

(* The handler's own step ... *)
LEMMA StepDays ==
    ASSUME DaysInv, ReportInv', NEW h \in Handlers, Step(h)
    PROVE  DaysOK(h)'
<1>1. TypeInv /\ TypesOK
  BY DEF DaysInv, ReportInv, FreshInv, LookInv, KeyInv, TypeInv
<1>2. CASE Commit(h) \/ Rollback(h)
  <2>1. Reset(h)
    BY <1>2 DEF Commit, Rollback
  <2>2. pc'[h] = "idle" /\ imported'[h] = {}
    BY <1>1, <2>1 DEF Reset, TypesOK
  <2> QED
    BY <2>2 DEF DaysOK, UnseenOf, ReportedDaysOf
<1>3. CASE ReadSchedule(h)
  BY <1>3, ReadScheduleDays
<1>4. CASE ReplaceSchedule(h)
  BY <1>4, ReplaceScheduleDays
<1>5. CASE WriteRow(h)
  <2>1. CASE req[h].kind = "students"
    BY <1>5, <2>1, WriteRowDays
  <2>2. CASE req[h].kind # "students"
    <3>1. UNCHANGED req
      BY <1>1, <1>5, WriteRowKeeps DEF Keeps, Global
    <3>2. pc'[h] # "replace"
      BY <1>1, <1>5, <2>2, NextLineFacts DEF WriteRow, CountLine
    <3> QED
      BY <2>2, <3>1, <3>2 DEF DaysOK, UnseenOf, ReportedDaysOf
  <2> QED
    BY <2>1, <2>2
<1>6. CASE ~Commit(h) /\ ~Rollback(h) /\ ~ReadSchedule(h) /\ ~ReplaceSchedule(h) /\ ~WriteRow(h)
  BY <1>1, <1>6, WroteStays, DaysSame DEF slots
<1> QED
  BY <1>2, <1>3, <1>4, <1>5, <1>6

(* ... and those of others. *)
LEMMA NextDaysInv == DaysInv /\ [Next]_vars => DaysInv'
<1> SUFFICES ASSUME DaysInv, [Next]_vars PROVE \A g \in Handlers : DaysOK(g)'
  BY NextReportInv, NextSlotInv DEF DaysInv, ReportInv, FreshInv, LookInv
<1>1. ReportInv /\ ReportInv' /\ SlotInv /\ SlotInv' /\ KeyInv /\ TypeInv /\ TypesOK
  BY NextReportInv, NextSlotInv DEF DaysInv, ReportInv, FreshInv, LookInv, KeyInv, TypeInv
<1>2. ASSUME NEW g \in Handlers, Same(g),
             UNCHANGED <<slot, filed[g], existing[g], hidden[g], since[g]>>
      PROVE  DaysOK(g)'
  BY <1>2, DaysSame DEF Same
<1>3. CASE UNCHANGED vars \/ \E x \in Fragile : Delete(x)
  <2>1. UNCHANGED slots /\ \A g \in Handlers : Same(g)
    BY <1>3 DEF vars, locals, Delete, Same
  <2> QED
    BY <1>2, <2>1 DEF slots
<1>4. ASSUME NEW h \in Handlers, NEW q \in Requests, Begin(h, q)
      PROVE  \A g \in Handlers : DaysOK(g)'
  <2>1. UNCHANGED slots /\ pc'[h] = "next" /\ imported'[h] = {} /\ Others(h)
    <3>1. pc[h] = "idle" /\ BusyOf(h) /\ UNCHANGED imported
      BY <1>1, <1>4 DEF Begin, TypeInv, HandlerOK
    <3> QED
      BY <1>1, <1>4, <3>1, BeginTypes DEF Begin, BusyOf, TypesOK
  <2>2. DaysOK(h)'
    BY <2>1 DEF DaysOK, UnseenOf, ReportedDaysOf
  <2> QED
    BY <1>2, <2>1, <2>2 DEF slots, Others
<1>5. ASSUME NEW p \in SlotPushes, PushSlot(p)
      PROVE  \A g \in Handlers : DaysOK(g)'
  <2>1. PICK f : /\ slot' = Over(f, slot) /\ DOMAIN f = {p.id}
                 /\ SlotTable(slot') /\ OneRowADay(slot')
                 /\ UNCHANGED <<filed, held, existing, hidden>> /\ DOMAIN since' = Handlers
                 /\ \A g \in Handlers :
                       /\ DOMAIN f \cap held[g] = {} /\ NoClash(filed[g], f)
                       /\ pc[g] # "idle" => since'[g] = since[g] \cup DOMAIN f
    BY <1>1, <1>5, PushSlotTable
  <2> QED
    BY <1>1, <1>5, <2>1, PushSlotFacts, DaysStay
<1>6. ASSUME NEW h \in Handlers, Step(h), NEW g \in Handlers \ {h}
      PROVE  DaysOK(g)'
  <2>1. Same(g)
    BY <1>1, <1>6, StepTypes DEF Others
  <2>2. CASE Commit(h)
    <3>1. UNCHANGED <<filed[g], held[g], existing[g], hidden[g]>>
      BY <1>1, <2>2 DEF Commit, Reset, SlotInv
    <3>2. /\ slot' = Over(filed[h], slot) /\ OneRowADay(slot')
          /\ DOMAIN filed[h] \cap held[g] = {} /\ NoClash(filed[g], filed[h])
      BY <1>1, <2>2, CommitSlotsKeeps DEF Slots
    <3>3. pc[g] # "idle" => since'[g] = since[g] \cup DOMAIN filed[h]
      BY <2>2 DEF Commit, CommitSlots
    <3> QED
      BY <2>1, <3>1, <3>2, <3>3, DaysStay
  <2>3. CASE Rollback(h)
    <3>1. UNCHANGED <<slot, filed[g], existing[g], hidden[g], since[g]>>
      BY <1>1, <2>3 DEF Rollback, Reset, SlotInv
    <3> QED
      BY <1>2, <2>1, <3>1
  <2>4. CASE ReadSchedule(h)
    BY <1>1, <1>2, <2>1, <2>4, ReadScheduleSlots
  <2>5. CASE ReplaceSchedule(h)
    BY <1>1, <1>2, <2>1, <2>5, ReplaceFacts
  <2>6. CASE ~Commit(h) /\ ~Rollback(h) /\ ~ReadSchedule(h) /\ ~ReplaceSchedule(h)
    BY <1>1, <1>2, <1>6, <2>1, <2>6, WroteStays DEF slots
  <2> QED
    BY <2>2, <2>3, <2>4, <2>5, <2>6
<1>7. ASSUME NEW h \in Handlers, Step(h) PROVE \A g \in Handlers : DaysOK(g)'
  BY <1>1, <1>6, <1>7, StepDays
<1> QED
  BY <1>3, <1>4, <1>5, <1>7 DEF Next

(* What an import reports is what it commits: whatever it wrote is either  *)
(* announced or a student whose schedule is in the report as refused, and  *)
(* every row counted as imported is stored as the file says, a student     *)
(* with its schedule but for the gaps of ReplaceStudentSchedule, unless a  *)
(* later row wrote the same record (ImportClubs, ImportBeltRanks and       *)
(* ImportStudents, the result and the audit entry).                        *)
THEOREM ReportSafety == Spec => ReportIsTrue
<1> DEFINE Later(h, o, p) ==
               /\ o > p[1]
               /\ IF p[2] \in Students
                  THEN req[h].rows[p[1]].key = NoCode /\ req[h].rows[o].key = row'[p[2]].key
                  ELSE <<o, p[2]>> \in imported[h]
           True(h) ==
               /\ Extra(h) \subseteq Students
               /\ Cardinality(Extra(h)) <= Cardinality(Refused(h))
               /\ \A p \in imported[h] :
                     \/ /\ Shows(row'[p[2]], req[h].rows[p[1]])
                        /\ p[2] \in Students => ShowsDays(slot', p[2], req[h].rows[p[1]].days,
                                                         slot, hidden[h] \cup since[h])
                     \/ \E o \in DOMAIN req[h].rows : Later(h, o, p)
<1>1. Init => DaysInv
  <2> SUFFICES ASSUME Init PROVE \A h \in Handlers : ReportOf(h) /\ DaysOK(h)
    BY InitFreshInv, InitSlotInv DEF ReportInv, DaysInv
  <2> QED
    BY DEF Init, ReportOf, Busy, DaysOK, UnseenOf, ReportedDaysOf
<1>2. ASSUME DaysInv, NEW h \in Handlers, Commit(h), req[h].kind # "push" PROVE True(h)
  <2>1. /\ ExtraOf(h) /\ \A p \in imported[h] : Stands(h, p)
        /\ \A p \in imported[h] : p[2] \in Ids
        /\ pc[h] = "next" /\ KeyInv /\ SlotInv /\ DaysOK(h)
    BY <1>2, ReportTypes DEF Busy, Commit, DaysInv, ReportInv, FreshInv, LookInv
  <2>2. \A p \in imported[h] : row'[p[2]] = wrote[h][p[2]]
    BY <1>2, <2>1 DEF Commit, View, Stands
  <2>3. slot' = Slots(h)
    BY <1>2, <2>1, CommitSlotsKeeps
  <2>4. Extra(h) \ {} = Extra(h)
    OBVIOUS
  <2>5. Extra(h) \subseteq Students /\ Cardinality(Extra(h)) <= Cardinality(Refused(h))
    BY <2>1, <2>4 DEF ExtraOf, Unfinished, Scheduling
  <2>6. ASSUME NEW p \in imported[h], ~\E o \in DOMAIN req[h].rows : Later(h, o, p)
        PROVE  /\ Shows(row'[p[2]], req[h].rows[p[1]])
               /\ p[2] \in Students => ShowsDays(slot', p[2], req[h].rows[p[1]].days,
                                                slot, hidden[h] \cup since[h])
    <3>1. ~\E o \in DOMAIN req[h].rows : Overwrites(h, o, p)
      BY <2>2, <2>6 DEF Overwrites
    <3>2. Stands(h, p) /\ row'[p[2]] = wrote[h][p[2]]
      BY <2>1, <2>2
    <3>3. Shows(row'[p[2]], req[h].rows[p[1]])
      BY <3>1, <3>2 DEF Stands
    <3>4. ASSUME p[2] \in Students
          PROVE  ShowsDays(slot', p[2], req[h].rows[p[1]].days, slot, hidden[h] \cup since[h])
      <4>1. req[h].kind = "students"
        BY <3>2, <3>4 DEF Stands
      <4> QED
        BY <2>1, <2>3, <3>1, <4>1 DEF DaysOK, ReportedDaysOf, DaysShown, Lost
    <3> QED
      BY <3>3, <3>4
  <2> QED
    BY <2>5, <2>6
<1>3. DaysInv => [\A h \in Handlers : Commit(h) /\ req[h].kind # "push" => True(h)]_vars
  BY <1>2
<1> QED
  BY <1>1, <1>3, NextDaysInv, PTL DEF Spec, ReportIsTrue, Extra, Announced, Refused
=============================================================================
