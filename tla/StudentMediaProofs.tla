------------------------- MODULE StudentMediaProofs -------------------------
(***************************************************************************)
(* Theorems about StudentMedia, for any number of handlers, students,      *)
(* pictures and batches, whatever requests are sent and however often      *)
(* calls fail.                                                             *)
(***************************************************************************)
EXTENDS StudentMedia, FiniteSetTheorems, WellFoundedInduction, TLAPS

Locals == [media : MediaIds \cup {NoRow}, primary : BOOLEAN, item : ItemIds \cup {NoRow},
           todo : SUBSET ItemIds, rows : [ItemIds -> ItemRows \cup {NoRow}],
           replaced : SUBSET Students, doomed : SUBSET MediaIds]

(* Where a handler stores a picture, removes one, analyzes or confirms.    *)
Storing == {"exists", "count", "original", "thumb", "insert", "cleanup"}
Removing == {"find", "delete", "unlink"}
Analyzing == {"stage", "batch", "items"}
PerItem == {"keep", "list", "replace", "get", "mark_unread", "mark_failed", "mark_skipped",
            "mark_imported", "unstage"}
PerBatch == {"rows", "next", "finish"}
Labels == {"idle", "promote"} \cup Storing \cup Removing \cup Analyzing \cup PerItem \cup PerBatch

(* A handler is where its request leads, and has what its next call needs. *)
HandlerOK(h) ==
    /\ \/ pc[h] = "idle" /\ loc[h] = Nothing
       \/ pc[h] \in Storing /\ job[h].op \in {"upload", "confirm"}
       \/ pc[h] \in Removing /\ job[h].op \in {"delete", "primary", "confirm"}
       \/ pc[h] = "promote" /\ job[h].op = "primary"
       \/ pc[h] \in Analyzing /\ job[h].op = "analyze"
       \/ pc[h] \in PerItem \cup PerBatch /\ job[h].op = "confirm"
    /\ pc[h] \in (Storing \ {"exists"}) \cup {"mark_imported", "unstage"} => loc[h].media # NoRow
    /\ pc[h] \in Removing /\ Importing(h) => loc[h].media # NoRow
    /\ pc[h] \in Storing \cup Removing \cup PerItem /\ Importing(h) =>
          loc[h].item # NoRow /\ loc[h].rows[loc[h].item] # NoRow /\ job[h].picks[loc[h].item] # NoRow
    /\ \A i \in loc[h].todo : pc[h] \in Analyzing \/ loc[h].rows[i] # NoRow

HandlersOK ==
    /\ pc \in [Handlers -> Labels]
    /\ job \in [Handlers -> Requests]
    /\ loc \in [Handlers -> Locals]
    /\ \A h \in Handlers : HandlerOK(h)

TablesOK ==
    /\ media \in [MediaIds -> MediaRows \cup {NoRow}]
    /\ item \in [ItemIds -> ItemRows \cup {NoRow}]
    /\ batch \in [Batches -> {"analyzed", "completed", NoRow}]
    /\ objects \subseteq Keys
    /\ gone \subseteq Students
    /\ unsure \subseteq MediaIds

(* The primary picture of a student is live, and there is one at most. *)
OnePrimary ==
    /\ \A m \in MediaIds : media[m] # NoRow /\ media[m].primary => ~media[m].deleted
    /\ \A m, n \in MediaIds :
          /\ media[m] # NoRow /\ media[m].primary
          /\ media[n] # NoRow /\ media[n].primary
          /\ media[m].student = media[n].student
          => m = n

TypeInv ==
    /\ TablesOK
    /\ OnePrimary
    /\ HandlersOK

(* An id a handler has taken for a new picture is nobody else's, and its   *)
(* objects stay until the handler is done with them.                       *)
Creating == Storing \ {"exists"}

CreatesOwn(h) ==
    LET m == loc[h].media
    IN /\ pc[h] \in Creating \ {"cleanup"} => media[m] = NoRow
       /\ pc[h] = "cleanup" => media[m] = NoRow \/ m \in unsure
       /\ pc[h] = "thumb" => Original(m) \in objects
       /\ pc[h] = "insert" => {Original(m), Thumb(m)} \subseteq objects
       /\ pc[h] \in Creating => \A g \in Handlers \ {h} : pc[g] \in Creating => loc[g].media # m

(* What is to be unlinked is deleted for good. *)
RemovesDeleted(h) ==
    /\ pc[h] \in {"delete", "unlink"} => media[Target(h)] # NoRow
    /\ pc[h] = "unlink" => media[Target(h)].deleted

ObjectsInv ==
    /\ TypeInv
    /\ LiveHasObjects
    /\ \A h \in Handlers : CreatesOwn(h) /\ RemovesDeleted(h)

(* A file is staged, or a picture was made of it. *)
Stored(i) == \E m \in MediaIds : media[m] # NoRow /\ media[m].item = i
Kept(i) == Temp(i) \in objects \/ Stored(i)

StagedOf(h) ==
    /\ \A i \in ItemIds : loc[h].rows[i] # NoRow /\ loc[h].rows[i].staged => Kept(i)
    /\ pc[h] \in {"mark_imported", "unstage"} => Stored(loc[h].item)

StagedInv ==
    /\ ObjectsInv
    /\ StagedUntilStored
    /\ \A h \in Handlers : StagedOf(h)

(* Until a call fails, every object has an owner. *)
PictureOwned(m) ==
    \/ Live(m)
    \/ \E h \in Handlers : /\ pc[h] \in {"thumb", "insert", "cleanup"}
                           /\ loc[h].media = m
    \/ \E h \in Handlers : pc[h] = "unlink" /\ Target(h) = m
FileOwned(i) ==
    \/ item[i] # NoRow /\ item[i].status # "imported"
    \/ \E h \in Handlers : /\ pc[h] \in {"batch", "items"}
                           /\ item[i] = NoRow /\ loc[h].rows[i] # NoRow
    \/ \E h \in Handlers : pc[h] = "unstage" /\ loc[h].item = i

Owned ==
    /\ \A m \in MediaIds : Original(m) \in objects \/ Thumb(m) \in objects => PictureOwned(m)
    /\ \A i \in ItemIds : Temp(i) \in objects => FileOwned(i)

(* Only the handler that analyzes a batch inserts it and its items. *)
AnalyzesOwn(h) ==
    /\ pc[h] \in Analyzing =>
          /\ batch[job[h].batch] = NoRow <=> pc[h] # "items"
          /\ \A g \in Handlers \ {h} : pc[g] \in Analyzing => job[g].batch # job[h].batch
    /\ pc[h] \in {"batch", "items"} =>
          \A i \in ItemIds : loc[h].rows[i] # NoRow =>
              i[1] = job[h].batch /\ loc[h].rows[i].status # "imported"

(* A batch that is confirmed has been inserted, and its items are its own. *)
ConfirmsKnown(h) ==
    Importing(h) /\ pc[h] \notin {"idle", "rows"} =>
        /\ batch[job[h].batch] # NoRow
        /\ \A i \in ItemIds : loc[h].rows[i] # NoRow => i[1] = job[h].batch

Registered == \A i \in ItemIds : item[i] # NoRow => batch[i[1]] # NoRow

LeftoverInv ==
    /\ ObjectsInv
    /\ faults \in Nat
    /\ Registered
    /\ \A h \in Handlers : AnalyzesOwn(h) /\ ConfirmsKnown(h)
    /\ faults = 0 => Owned

-----------------------------------------------------------------------------
(* There is a smallest one of some natural numbers. *)
LEMMA SmallestNat ==
    ASSUME NEW T \in SUBSET Nat, T # {}
    PROVE  \E n \in T : \A m \in T : n <= m
<1> DEFINE R == OpToRel(<, Nat)
<1>1. IsWellFoundedOn(R, Nat)
  BY NatLessThanWellFounded
<1>2. PICK n \in T : \A m \in T : <<m, n>> \notin R
  <2> HIDE DEF R
  <2> QED BY <1>1, WFMin
<1>3. ASSUME NEW m \in T PROVE n <= m
  <2>1. m \in Nat /\ n \in Nat
    OBVIOUS
  <2>2. ~(m < n)
    BY <1>2, <2>1 DEF OpToRel
  <2> QED
    BY <2>1, <2>2
<1> QED
  BY <1>3

LEMMA LocalsType ==
    /\ AnyRequest \in Requests
    /\ Nothing \in Locals
    /\ \A i \in ItemIds : Nothing.rows[i] = NoRow
    /\ Nothing.todo = {}
BY StudentMediaAssumption DEF AnyRequest, Nothing, Locals

LEMMA RequestType ==
    ASSUME NEW q \in Requests
    PROVE  /\ q.op \in {"upload", "delete", "primary", "analyze", "confirm"}
           /\ q.student \in Students /\ q.media \in MediaIds /\ q.batch \in Batches
           /\ q.image \in Images
           /\ DOMAIN q.files \subseteq 1 .. MaxFiles
           /\ \A k \in DOMAIN q.files : q.files[k].image \in Images
           /\ q.picks \in [ItemIds -> Students \cup {NoRow}]
BY StudentMediaAssumption

(* Whose picture a handler works on, and which one it removes. *)
LEMMA WhoType ==
    ASSUME HandlersOK, NEW h \in Handlers
    PROVE  /\ pc[h] \in Storing \cup PerItem \cup {"promote"} \cup Removing => Who(h) \in Students
           /\ pc[h] \in Removing => Target(h) \in MediaIds
           /\ pc[h] \in (Storing \ {"exists"}) \cup {"mark_imported", "unstage"} => loc[h].media \in MediaIds
           /\ pc[h] \in PerItem => loc[h].item \in ItemIds /\ loc[h].rows[loc[h].item] \in ItemRows
<1>1. /\ job[h] \in Requests /\ loc[h] \in Locals /\ HandlerOK(h)
      /\ job[h].picks \in [ItemIds -> Students \cup {NoRow}]
      /\ job[h].student \in Students /\ job[h].media \in MediaIds
  BY RequestType DEF HandlersOK
<1>2. /\ loc[h].media \in MediaIds \cup {NoRow} /\ loc[h].item \in ItemIds \cup {NoRow}
      /\ loc[h].rows \in [ItemIds -> ItemRows \cup {NoRow}]
  BY <1>1 DEF Locals
<1>3. /\ loc[h].item \in ItemIds => loc[h].rows[loc[h].item] \in ItemRows \cup {NoRow}
                                 /\ job[h].picks[loc[h].item] \in Students \cup {NoRow}
  BY <1>1, <1>2
<1> QED
  BY <1>1, <1>2, <1>3 DEF HandlerOK, Who, Target, Importing, Storing, Removing, Analyzing, PerItem, PerBatch

-----------------------------------------------------------------------------
(* Every step but DeleteStudent moves one handler. *)
Moves(h) == Step(h) \/ \E q \in Requests : Begin(h, q)

(* A step goes on, with new locals or without, or answers. *)
LEMMA WaysOn ==
    ASSUME NEW h \in Handlers, Step(h)
    PROVE  \/ \E label : Go(h, label)
           \/ \E label, l : Keep(h, label, l)
           \/ Answer(h)
<1>1. ASSUME \/ FindStudent(h) \/ CountAvatars(h) \/ UploadOriginal(h) \/ UploadThumb(h)
             \/ UploadFails(h) \/ InsertMedia(h) \/ AnswerLost(h) \/ CleanUp(h)
      PROVE  \/ \E label : Go(h, label)
             \/ \E label, l : Keep(h, label, l)
             \/ Answer(h)
  BY <1>1, Zenon DEF FindStudent, CountAvatars, UploadOriginal, UploadThumb, UploadFails, InsertMedia,
              AnswerLost, CleanUp, Refused
<1>2. ASSUME \/ FindMedia(h) \/ SoftDelete(h) \/ Unlink(h) \/ UnlinkFails(h) \/ SetPrimary(h)
             \/ Stage(h) \/ InsertBatch(h) \/ InsertItem(h) \/ Fail(h)
      PROVE  \/ \E label : Go(h, label)
             \/ \E label, l : Keep(h, label, l)
             \/ Answer(h)
  BY <1>2, Zenon DEF FindMedia, SoftDelete, Unlink, UnlinkFails, SetPrimary, Stage, InsertBatch, InsertItem, Fail
<1>3. ASSUME \/ ReadItems(h) \/ NextItem(h) \/ KeepExisting(h) \/ ListExisting(h)
             \/ NextExisting(h) \/ GetObject(h) \/ GetFails(h) \/ MarkItem(h) \/ MarkFails(h)
             \/ Unstage(h) \/ Finish(h)
      PROVE  \/ \E label : Go(h, label)
             \/ \E label, l : Keep(h, label, l)
             \/ Answer(h)
  BY <1>3, Zenon DEF ReadItems, NextItem, KeepExisting, ListExisting, NextExisting, GetObject, GetFails,
              MarkItem, Mark, MarkFails, Unstage, Finish
<1> QED
  BY <1>1, <1>2, <1>3 DEF Step

LEMMA OthersWait ==
    ASSUME HandlersOK, NEW h \in Handlers, Moves(h)
    PROVE  \A g \in Handlers \ {h} : UNCHANGED <<pc[g], job[g], loc[g]>>
<1> USE DEF HandlersOK
<1>1. ASSUME NEW label, Go(h, label)
      PROVE  \A g \in Handlers \ {h} : UNCHANGED <<pc[g], job[g], loc[g]>>
  BY <1>1 DEF Go
<1>2. ASSUME NEW label, NEW l, Keep(h, label, l)
      PROVE  \A g \in Handlers \ {h} : UNCHANGED <<pc[g], job[g], loc[g]>>
  BY <1>2 DEF Keep
<1>3. ASSUME Answer(h)
      PROVE  \A g \in Handlers \ {h} : UNCHANGED <<pc[g], job[g], loc[g]>>
  BY <1>3 DEF Answer
<1>4. ASSUME NEW q \in Requests, Begin(h, q)
      PROVE  \A g \in Handlers \ {h} : UNCHANGED <<pc[g], job[g], loc[g]>>
  BY <1>4 DEF Begin
<1> QED
  BY <1>1, <1>2, <1>3, <1>4, WaysOn DEF Moves

(* What a handler's next state must be, for each way to get there. *)
LEMMA WentOK ==
    ASSUME HandlersOK, NEW h \in Handlers, NEW label \in Labels, Go(h, label), HandlerOK(h)'
    PROVE  HandlersOK'
BY DEF Go, HandlersOK, HandlerOK, Importing, Target

LEMMA KeptOK ==
    ASSUME HandlersOK, NEW h \in Handlers, NEW label \in Labels, NEW l \in Locals,
           Keep(h, label, l), HandlerOK(h)'
    PROVE  HandlersOK'
BY DEF Keep, HandlersOK, HandlerOK, Importing, Target

LEMMA AnsweredOK ==
    ASSUME HandlersOK, NEW h \in Handlers, Answer(h)
    PROVE  HandlersOK'
<1>1. HandlerOK(h)'
  BY LocalsType DEF Answer, HandlersOK, HandlerOK, Importing, Storing, Removing, Analyzing, PerItem, PerBatch
<1> QED
  BY <1>1, LocalsType DEF Answer, HandlersOK, HandlerOK, Importing, Labels

(* Storing a picture. *)
LEMMA HandlersStore ==
    ASSUME TypeInv, NEW h \in Handlers,
           \/ FindStudent(h) \/ CountAvatars(h) \/ UploadOriginal(h) \/ UploadThumb(h)
           \/ UploadFails(h) \/ InsertMedia(h) \/ AnswerLost(h) \/ CleanUp(h)
    PROVE  HandlersOK'
<1> USE DEF TypeInv
<1> DEFINE Here == /\ pc[h] \in Storing /\ job[h].op \in {"upload", "confirm"}
                   /\ pc[h] \in Labels /\ loc[h] \in Locals
                   /\ HandlerOK(h) /\ HandlersOK
<1>1. Here
  BY DEF HandlersOK, HandlerOK, FindStudent, CountAvatars, UploadOriginal, UploadThumb, UploadFails,
         InsertMedia, AnswerLost, CleanUp, Storing, Removing, Analyzing, PerItem, PerBatch
<1>2. ASSUME NEW label \in Storing \cup {"mark_failed", "mark_imported"}, Go(h, label),
             label \in {"mark_failed", "mark_imported"} => Importing(h),
             label # "exists" /\ label # "mark_failed" => loc[h].media # NoRow
      PROVE  HandlersOK'
  <2>1. HandlerOK(h)'
    BY <1>1, <1>2 DEF Go, HandlersOK, HandlerOK, Importing, Storing, Removing, Analyzing, PerItem, PerBatch
  <2> QED
    BY <1>1, <1>2, <2>1, WentOK DEF Labels, Storing, PerItem
<1>3. ASSUME Refused(h) PROVE HandlersOK'
  BY <1>1, <1>2, <1>3, AnsweredOK DEF Refused
<1>4. CASE FindStudent(h)
  <2>1. CASE Who(h) \in gone
    BY <1>3, <1>4, <2>1 DEF FindStudent
  <2>2. CASE Who(h) \notin gone
    <3> DEFINE m == CHOOSE m \in Unused : TRUE
               l == [loc[h] EXCEPT !.media = m]
    <3>1. m \in MediaIds /\ m # NoRow
      BY <1>4, StudentMediaAssumption DEF FindStudent, Unused
    <3>2. Keep(h, "count", l)
      BY <1>4, <2>2 DEF FindStudent
    <3> HIDE DEF m
    <3>3. l \in Locals /\ l.media = m /\ l.item = loc[h].item /\ l.rows = loc[h].rows /\ l.todo = loc[h].todo
      BY <1>1, <3>1 DEF Locals
    <3> HIDE DEF l
    <3>4. HandlerOK(h)'
      BY <1>1, <3>1, <3>2, <3>3 DEF Keep, HandlersOK, HandlerOK, Importing, Storing, Removing, Analyzing, PerItem, PerBatch
    <3> QED
      BY <1>1, <3>2, <3>3, <3>4, KeptOK DEF Labels, Storing
  <2> QED
    BY <2>1, <2>2
<1>5. CASE CountAvatars(h)
  <2> DEFINE l == [loc[h] EXCEPT !.primary = Avatars(Who(h)) = {}]
  <2>1. Keep(h, "original", l) /\ pc[h] = "count"
    BY <1>5 DEF CountAvatars
  <2>2. l \in Locals /\ l.media = loc[h].media /\ l.item = loc[h].item /\ l.rows = loc[h].rows /\ l.todo = loc[h].todo
    BY <1>1 DEF Locals
  <2> HIDE DEF l
  <2>3. HandlerOK(h)'
    BY <1>1, <2>1, <2>2 DEF Keep, HandlersOK, HandlerOK, Importing, Storing, Removing, Analyzing, PerItem, PerBatch
  <2> QED
    BY <1>1, <2>1, <2>2, <2>3, KeptOK DEF Labels, Storing
<1>6. ASSUME pc[h] # "exists" PROVE loc[h].media # NoRow
  BY <1>1, <1>6 DEF HandlerOK
<1>7. CASE UploadOriginal(h) \/ UploadThumb(h) \/ AnswerLost(h)
  <2>1. pc[h] # "exists" /\ (Go(h, "thumb") \/ Go(h, "cleanup") \/ Go(h, "insert"))
    BY <1>7 DEF UploadOriginal, UploadThumb, AnswerLost
  <2> QED
    BY <1>2, <1>6, <2>1 DEF Storing
<1>8. CASE UploadFails(h) \/ CleanUp(h)
  BY <1>2, <1>3, <1>6, <1>8 DEF UploadFails, CleanUp, Storing
<1>9. CASE InsertMedia(h)
  <2>1. pc[h] # "exists" /\ (Go(h, "cleanup") \/ (Importing(h) /\ Go(h, "mark_imported")) \/ Answer(h))
    BY <1>9 DEF InsertMedia
  <2> QED
    BY <1>1, <1>2, <1>6, <2>1, AnsweredOK DEF Storing
<1> QED
  BY <1>4, <1>5, <1>7, <1>8, <1>9

(* Removing a picture, and promoting one. *)
LEMMA HandlersRemove ==
    ASSUME TypeInv, NEW h \in Handlers,
           FindMedia(h) \/ SoftDelete(h) \/ Unlink(h) \/ UnlinkFails(h) \/ SetPrimary(h) \/ Fail(h)
    PROVE  HandlersOK'
<1> USE DEF TypeInv
<1>1. CASE Answer(h)
  BY <1>1, AnsweredOK
<1>2. ASSUME pc[h] \in Removing,
             \/ Go(h, "delete")
             \/ Go(h, "unlink")
             \/ Go(h, "promote") /\ job[h].op = "primary"
             \/ Go(h, "replace") /\ Importing(h)
      PROVE  HandlersOK'
  <2>1. HandlerOK(h)'
    BY <1>2 DEF Go, HandlersOK, HandlerOK, Importing, Storing, Removing, Analyzing, PerItem, PerBatch
  <2> QED
    BY <1>2, <2>1, WentOK DEF Labels, Removing, PerItem
<1> QED
  BY <1>1, <1>2 DEF FindMedia, SoftDelete, Unlink, UnlinkFails, SetPrimary, Fail, Removing

(* A request arrives. *)
LEMMA HandlersBegin ==
    ASSUME TypeInv, NEW h \in Handlers, NEW q \in Requests, Begin(h, q)
    PROVE  HandlersOK'
<1> USE DEF TypeInv
<1>1. /\ pc[h] = "idle" /\ loc[h] = Nothing /\ loc' = loc
      /\ pc' = [pc EXCEPT ![h] = Entry[q.op]] /\ job' = [job EXCEPT ![h] = q]
  BY DEF Begin, HandlersOK, HandlerOK, Storing, Removing, Analyzing, PerItem, PerBatch
<1>2. \/ q.op = "upload" /\ Entry[q.op] = "exists"
      \/ q.op \in {"delete", "primary"} /\ Entry[q.op] = "find"
      \/ q.op = "analyze" /\ Entry[q.op] = "stage"
      \/ q.op = "confirm" /\ Entry[q.op] = "rows"
  BY RequestType DEF Entry
<1>3. HandlerOK(h)'
  BY <1>1, <1>2, LocalsType DEF HandlersOK, HandlerOK, Importing, Storing, Removing, Analyzing, PerItem, PerBatch
<1>4. Entry[q.op] \in Labels
  BY <1>2 DEF Labels, Storing, Removing, Analyzing, PerBatch
<1> QED
  BY <1>1, <1>3, <1>4 DEF HandlersOK, HandlerOK, Importing

(* Analyzing a batch. *)
LEMMA NewItemType ==
    ASSUME TablesOK, NEW f, f.image \in Images, NEW k, NEW good
    PROVE  NewItem(f, k \in good) \in ItemRows
<1>1. Guess(f) \subseteq Students
  BY DEF Guess, ByCode, ByName
<1>2. GuessStatus(f) \in Statuses
  BY DEF GuessStatus, Statuses
<1>3. GuessStatus(f) = "matched" => Guess(f) # {}
  BY FS_EmptySet DEF GuessStatus
<1>4. GuessStatus(f) = "matched" => (CHOOSE s \in Guess(f) : TRUE) \in Students
  BY <1>1, <1>3
<1> QED
  BY <1>2, <1>4 DEF NewItem, ItemRows, Statuses

LEMMA HandlersAnalyze ==
    ASSUME TypeInv, NEW h \in Handlers, Stage(h) \/ InsertBatch(h) \/ InsertItem(h)
    PROVE  HandlersOK'
<1> USE DEF TypeInv
<1>1. /\ pc[h] \in Analyzing /\ job[h].op = "analyze" /\ job[h] \in Requests
      /\ loc[h] \in Locals /\ HandlerOK(h) /\ HandlersOK
  BY DEF HandlersOK, HandlerOK, Stage, InsertBatch, InsertItem, Storing, Removing, Analyzing, PerItem, PerBatch
<1>2. ASSUME Go(h, "items") PROVE HandlersOK'
  <2>1. HandlerOK(h)'
    BY <1>1, <1>2 DEF Go, HandlersOK, HandlerOK, Importing, Storing, Removing, Analyzing, PerItem, PerBatch
  <2> QED
    BY <1>1, <1>2, <2>1, WentOK DEF Labels, Analyzing
<1>3. CASE InsertBatch(h) \/ InsertItem(h)
  <2>1. Go(h, "items") \/ Answer(h)
    BY <1>3, Zenon DEF InsertBatch, InsertItem
  <2> QED
    BY <1>1, <1>2, <2>1, AnsweredOK
<1>4. CASE Stage(h)
  <2> DEFINE fresh(good) == [i \in ItemIds |->
                IF i[1] = job[h].batch /\ i[2] \in DOMAIN job[h].files
                THEN NewItem(job[h].files[i[2]], i[2] \in good) ELSE NoRow]
  <2>1. PICK good : Keep(h, "batch", [loc[h] EXCEPT !.rows = fresh(good)])
    BY <1>4 DEF Stage
  <2>2. fresh(good) \in [ItemIds -> ItemRows \cup {NoRow}]
    <3>1. \A k \in DOMAIN job[h].files : job[h].files[k].image \in Images
      BY <1>1, RequestType
    <3>2. \A k \in DOMAIN job[h].files : NewItem(job[h].files[k], k \in good) \in ItemRows
      BY <3>1, NewItemType
    <3> QED
      BY <3>2
  <2> DEFINE l == [loc[h] EXCEPT !.rows = fresh(good)]
  <2> HIDE DEF fresh
  <2>3. l \in Locals /\ l.todo = loc[h].todo
    BY <1>1, <2>2 DEF Locals
  <2>4. Keep(h, "batch", l)
    BY <2>1
  <2> HIDE DEF l
  <2>5. HandlerOK(h)'
    BY <1>1, <2>3, <2>4
       DEF Keep, HandlersOK, HandlerOK, Importing, Storing, Removing, Analyzing, PerItem, PerBatch
  <2> QED
    BY <1>1, <2>3, <2>4, <2>5, KeptOK DEF Labels, Analyzing
<1> QED
  BY <1>3, <1>4

(* Confirming a batch. *)
LEMMA HandlersConfirm ==
    ASSUME TypeInv, NEW h \in Handlers,
           \/ ReadItems(h) \/ NextItem(h) \/ KeepExisting(h) \/ ListExisting(h)
           \/ NextExisting(h) \/ GetObject(h) \/ GetFails(h) \/ MarkItem(h) \/ MarkFails(h)
           \/ Unstage(h) \/ Finish(h)
    PROVE  HandlersOK'
<1> USE DEF TypeInv
<1>1. /\ pc[h] \in PerItem \cup PerBatch /\ job[h].op = "confirm" /\ job[h] \in Requests
      /\ loc[h] \in Locals /\ HandlerOK(h) /\ HandlersOK
  BY DEF HandlersOK, HandlerOK, ReadItems, NextItem, KeepExisting, ListExisting, NextExisting,
         GetObject, GetFails, MarkItem, MarkFails, Unstage, Finish, Storing, Removing, Analyzing,
         PerItem, PerBatch
<1>2. ASSUME NEW label \in PerItem \cup {"next", "finish", "exists"}, Go(h, label),
             label \in PerItem \cup {"exists"} => pc[h] \in PerItem,
             label = "mark_imported" => FALSE,
             label = "unstage" => pc[h] = "mark_imported"
      PROVE  HandlersOK'
  <2>1. HandlerOK(h)'
    BY <1>1, <1>2 DEF Go, HandlersOK, HandlerOK, Importing, Storing, Removing, Analyzing, PerItem, PerBatch
  <2> QED
    BY <1>1, <1>2, <2>1, WentOK DEF Labels, PerItem, PerBatch, Storing
<1>3. CASE KeepExisting(h) \/ GetObject(h) \/ GetFails(h) \/ MarkFails(h) \/ Unstage(h)
  <2>1. pc[h] \in PerItem /\ \E label \in {"get", "mark_skipped", "exists", "mark_unread", "next"} : Go(h, label)
    BY <1>3 DEF KeepExisting, GetObject, GetFails, MarkFails, Unstage, PerItem
  <2> QED
    BY <1>2, <2>1 DEF PerItem
<1>4. CASE MarkItem(h)
  <2>1. pc[h] \in PerItem /\ (Go(h, "next") \/ (pc[h] = "mark_imported" /\ Go(h, "unstage")))
    BY <1>4 DEF MarkItem, Mark, AfterMark, PerItem
  <2> QED
    BY <1>2, <2>1 DEF PerItem
<1>5. CASE Finish(h)
  BY <1>1, <1>5, AnsweredOK DEF Finish
<1>6. ASSUME NEW label \in Labels, NEW l \in Locals, Keep(h, label, l),
             label \in {"next"} \cup {"keep", "get", "list", "replace", "find"},
             label # "next" => /\ l.item # NoRow /\ l.rows[l.item] # NoRow
                               /\ job[h].picks[l.item] # NoRow,
             label = "find" => l.media # NoRow,
             \A i \in l.todo : l.rows[i] # NoRow
      PROVE  HandlersOK'
  <2>1. HandlerOK(h)'
    BY <1>1, <1>6
       DEF Keep, HandlersOK, HandlerOK, Importing, Storing, Removing, Analyzing, PerItem, PerBatch
  <2> QED
    BY <1>1, <1>6, <2>1, KeptOK
<1>7. CASE ReadItems(h)
  <2>1. CASE batch[job[h].batch] = NoRow
    BY <1>1, <1>7, <2>1, AnsweredOK DEF ReadItems
  <2>2. CASE batch[job[h].batch] # NoRow
    <3> DEFINE mine == ItemsOf(job[h].batch)
               l == [loc[h] EXCEPT !.todo = mine,
                        !.rows = [i \in ItemIds |-> IF i \in mine THEN item[i] ELSE NoRow]]
    <3>1. Keep(h, "next", l)
      BY <1>7, <2>2 DEF ReadItems
    <3>2. mine \subseteq ItemIds /\ \A i \in mine : item[i] # NoRow
      BY DEF ItemsOf
    <3>3. item \in [ItemIds -> ItemRows \cup {NoRow}]
      BY DEF TablesOK
    <3> HIDE DEF mine
    <3>4. l \in Locals /\ \A i \in l.todo : l.rows[i] # NoRow
      BY <1>1, <3>2, <3>3 DEF Locals
    <3> HIDE DEF l
    <3> QED
      BY <1>6, <3>1, <3>4 DEF Labels, PerBatch
  <2> QED
    BY <2>1, <2>2
<1>8. CASE NextItem(h)
  <2>1. CASE \A i \in loc[h].todo : ~Due(h, i)
    BY <1>2, <1>8, <2>1 DEF NextItem, PerItem
  <2>2. CASE \E i \in loc[h].todo : Due(h, i)
    <3> DEFINE l(i) == [loc[h] EXCEPT !.item = i, !.media = NoRow,
                                      !.todo = {j \in loc[h].todo : j # i /\ Due(h, j)}]
    <3>1. PICK i \in loc[h].todo, label \in {"keep", "get", "list"} :
              Due(h, i) /\ Keep(h, label, l(i)) /\ pc[h] = "next"
      BY <1>8, <2>2 DEF NextItem
    <3>2. loc[h].todo \subseteq ItemIds /\ i \in ItemIds /\ i # NoRow
      BY <1>1, <3>1, StudentMediaAssumption DEF Locals
    <3>3. \A j \in loc[h].todo : loc[h].rows[j] # NoRow
      BY <1>1, <3>1 DEF HandlerOK, Analyzing
    <3>4. /\ l(i) \in Locals /\ l(i).item = i /\ l(i).rows = loc[h].rows
          /\ l(i).todo \subseteq loc[h].todo
      BY <1>1, <3>2 DEF Locals
    <3>5. job[h].picks[i] # NoRow
      BY <3>1 DEF Due
    <3> HIDE DEF l
    <3> QED
      BY <1>6, <3>1, <3>2, <3>3, <3>4, <3>5 DEF Labels, PerItem
  <2> QED
    BY <2>1, <2>2
<1>9. CASE ListExisting(h) \/ NextExisting(h)
  <2>1. /\ pc[h] \in PerItem
        /\ loc[h].item # NoRow /\ loc[h].rows[loc[h].item] # NoRow /\ job[h].picks[loc[h].item] # NoRow
        /\ \A i \in loc[h].todo : loc[h].rows[i] # NoRow
    BY <1>1, <1>9
       DEF ListExisting, NextExisting, HandlerOK, Importing, Storing, Removing, Analyzing, PerItem, PerBatch
  <2>2. CASE ListExisting(h)
    <3> DEFINE l == [loc[h] EXCEPT !.doomed = Avatars(Who(h))]
    <3>1. Keep(h, "replace", l)
      BY <2>2 DEF ListExisting
    <3>2. Avatars(Who(h)) \subseteq MediaIds
      BY DEF Avatars
    <3>3. l \in Locals /\ l.item = loc[h].item /\ l.rows = loc[h].rows /\ l.todo = loc[h].todo
      BY <1>1, <3>2 DEF Locals
    <3> HIDE DEF l
    <3> QED
      BY <1>6, <2>1, <3>1, <3>3 DEF Labels, PerItem
  <2>3. CASE NextExisting(h) /\ loc[h].doomed = {}
    <3> DEFINE l == [loc[h] EXCEPT !.replaced = loc[h].replaced \cup {Who(h)}, !.media = NoRow]
    <3>1. Keep(h, "get", l)
      BY <2>3 DEF NextExisting
    <3>2. Who(h) \in Students
      BY <2>1, WhoType
    <3>3. l \in Locals /\ l.item = loc[h].item /\ l.rows = loc[h].rows /\ l.todo = loc[h].todo
      BY <1>1, <3>2 DEF Locals
    <3> HIDE DEF l
    <3> QED
      BY <1>6, <2>1, <3>1, <3>3 DEF Labels, PerItem
  <2>4. CASE NextExisting(h) /\ loc[h].doomed # {}
    <3> DEFINE l(m) == [loc[h] EXCEPT !.media = m, !.doomed = loc[h].doomed \ {m}]
    <3>1. PICK m \in loc[h].doomed : Keep(h, "find", l(m))
      BY <2>4 DEF NextExisting
    <3>2. m \in MediaIds /\ m # NoRow
      BY <1>1, <3>1, StudentMediaAssumption DEF Locals
    <3>3. /\ l(m) \in Locals /\ l(m).item = loc[h].item /\ l(m).rows = loc[h].rows
          /\ l(m).todo = loc[h].todo /\ l(m).media = m
      BY <1>1, <3>2 DEF Locals
    <3> HIDE DEF l
    <3> QED
      BY <1>6, <2>1, <3>1, <3>2, <3>3 DEF Labels, Removing
  <2> QED
    BY <1>9, <2>2, <2>3, <2>4
<1> QED
  BY <1>3, <1>4, <1>5, <1>7, <1>8, <1>9

LEMMA HandlersNext == TypeInv /\ [Next]_vars => HandlersOK'
<1> SUFFICES ASSUME TypeInv, [Next]_vars PROVE HandlersOK'
  OBVIOUS
<1>1. CASE UNCHANGED vars \/ \E s \in Students : DeleteStudent(s)
  <2>1. UNCHANGED <<pc, job, loc>>
    BY <1>1 DEF vars, DeleteStudent
  <2> QED
    BY <2>1 DEF TypeInv, HandlersOK, HandlerOK, Importing
<1>2. ASSUME NEW h \in Handlers, Step(h) PROVE HandlersOK'
  BY <1>2, HandlersStore, HandlersRemove, HandlersAnalyze, HandlersConfirm DEF Step
<1>3. ASSUME NEW h \in Handlers, NEW q \in Requests, Begin(h, q) PROVE HandlersOK'
  BY <1>3, HandlersBegin
<1> QED
  BY <1>1, <1>2, <1>3 DEF Next

-----------------------------------------------------------------------------
(* The rows of student_media change in three ways. *)
Inserts(h) ==
    /\ pc[h] = "insert"
    /\ ~SecondPrimary(Who(h), loc[h].primary)
    /\ media' = Inserted(h)
Deletes(h) ==
    /\ pc[h] = "delete"
    /\ Listed(h, Target(h))
    /\ media' = [media EXCEPT ![Target(h)].deleted = TRUE, ![Target(h)].primary = FALSE]
Promotes(h) ==
    /\ pc[h] = "promote"
    /\ Listed(h, job[h].media)
    /\ media' = Promoted(Who(h), job[h].media)

LEMMA MediaStep ==
    ASSUME NEW h \in Handlers, Moves(h)
    PROVE  UNCHANGED media \/ Inserts(h) \/ Deletes(h) \/ Promotes(h)
<1>1. CASE \E q \in Requests : Begin(h, q)
  BY <1>1 DEF tables, Begin
<1>2. CASE \/ FindStudent(h) \/ CountAvatars(h) \/ UploadOriginal(h) \/ UploadThumb(h)
           \/ UploadFails(h) \/ CleanUp(h) \/ FindMedia(h) \/ Unlink(h) \/ UnlinkFails(h)
  BY <1>2 DEF tables, FindStudent, CountAvatars, UploadOriginal, UploadThumb, UploadFails, CleanUp,
              FindMedia, Unlink, UnlinkFails
<1>3. CASE Stage(h) \/ InsertBatch(h) \/ InsertItem(h) \/ ReadItems(h) \/ NextItem(h) \/ Fail(h)
  BY <1>3 DEF tables, Stage, InsertBatch, InsertItem, ReadItems, NextItem, Fail
<1>4. CASE \/ KeepExisting(h) \/ ListExisting(h) \/ NextExisting(h) \/ GetObject(h) \/ GetFails(h)
           \/ MarkItem(h) \/ MarkFails(h) \/ Unstage(h) \/ Finish(h)
  BY <1>4 DEF tables, KeepExisting, ListExisting, NextExisting, GetObject, GetFails, MarkItem, MarkFails,
              Unstage, Finish
<1>5. CASE InsertMedia(h) \/ AnswerLost(h)
  BY <1>5 DEF InsertMedia, AnswerLost, Inserts
<1>6. CASE SoftDelete(h) \/ SetPrimary(h)
  BY <1>6 DEF SoftDelete, SetPrimary, Deletes, Promotes
<1> QED
  BY <1>1, <1>2, <1>3, <1>4, <1>5, <1>6 DEF Moves, Step

(* Steps that move no handler change nothing but the deleted students. *)
LEMMA NobodyMoves ==
    ASSUME [Next]_vars
    PROVE  \/ \E h \in Handlers : Moves(h)
           \/ UNCHANGED <<media, item, batch, objects, faults, unsure, pc, job, loc>>
BY DEF Next, Moves, vars, tables, DeleteStudent, Calm

LEMMA MediaChanges ==
    ASSUME [Next]_vars
    PROVE  UNCHANGED media \/ \E h \in Handlers : Inserts(h) \/ Deletes(h) \/ Promotes(h)
BY NobodyMoves, MediaStep

LEMMA MediaNext ==
    ASSUME TypeInv, [Next]_vars
    PROVE  media' \in [MediaIds -> MediaRows \cup {NoRow}] /\ OnePrimary'
<1> USE DEF TypeInv
<1>1. media \in [MediaIds -> MediaRows \cup {NoRow}] /\ NoRow \notin MediaRows
  BY StudentMediaAssumption DEF TablesOK
<1>2. CASE UNCHANGED media
  BY <1>1, <1>2 DEF OnePrimary
<1>3. ASSUME NEW h \in Handlers, Inserts(h)
      PROVE  media' \in [MediaIds -> MediaRows \cup {NoRow}] /\ OnePrimary'
  <2> DEFINE m == loc[h].media
             new == [student |-> Who(h), primary |-> loc[h].primary, deleted |-> FALSE,
                     item |-> loc[h].item]
  <2>1. m \in MediaIds /\ Who(h) \in Students
    BY <1>3, WhoType DEF Inserts, Storing
  <2>2. new \in MediaRows
    BY <2>1 DEF HandlersOK, Locals, MediaRows
  <2>3. media' = [media EXCEPT ![m] = new]
    BY <1>3 DEF Inserts, Inserted
  <2>4. new.primary => \A n \in MediaIds :
                          media[n] # NoRow /\ media[n].primary => media[n].student # new.student
    BY <1>3 DEF Inserts, SecondPrimary, Primary, Avatars, Live, OnePrimary
  <2>5. new.student = Who(h) /\ ~new.deleted
    OBVIOUS
  <2> HIDE DEF m, new
  <2>6. OnePrimary'
    BY <1>1, <2>1, <2>2, <2>3, <2>4, <2>5 DEF OnePrimary
  <2> QED
    BY <1>1, <2>1, <2>2, <2>3, <2>6
<1>4. ASSUME NEW h \in Handlers, Deletes(h)
      PROVE  media' \in [MediaIds -> MediaRows \cup {NoRow}] /\ OnePrimary'
  <2> DEFINE m == Target(h)
             old == [media[m] EXCEPT !.deleted = TRUE, !.primary = FALSE]
  <2>1. m \in MediaIds /\ media[m] \in MediaRows
    BY <1>1, <1>4, WhoType DEF Deletes, Removing, Listed, Live
  <2>2. old \in MediaRows /\ ~old.primary
    BY <2>1 DEF MediaRows
  <2>3. media' = [media EXCEPT ![m] = old]
    BY <1>4 DEF Deletes
  <2> HIDE DEF m, old
  <2> QED
    BY <1>1, <2>1, <2>2, <2>3 DEF OnePrimary
<1>5. ASSUME NEW h \in Handlers, Promotes(h)
      PROVE  media' \in [MediaIds -> MediaRows \cup {NoRow}] /\ OnePrimary'
  <2> DEFINE s == Who(h)
             m == job[h].media
  <2>1. media' = [n \in MediaIds |-> IF n \in Avatars(s) THEN [media[n] EXCEPT !.primary = n = m]
                                                         ELSE media[n]]
    BY <1>5 DEF Promotes, Promoted
  <2>2. \A n \in MediaIds : n \in Avatars(s) <=>
            media[n] # NoRow /\ ~media[n].deleted /\ media[n].student = s
    BY DEF Avatars, Live
  <2> HIDE DEF s, m
  <2>3. ASSUME NEW n \in MediaIds
        PROVE  /\ n \in Avatars(s) => /\ media'[n] \in MediaRows /\ ~media'[n].deleted
                                      /\ media'[n].student = s /\ (media'[n].primary <=> n = m)
               /\ n \notin Avatars(s) => media'[n] = media[n]
    <3>1. CASE n \in Avatars(s)
      <4>1. media[n] \in MediaRows /\ media'[n] = [media[n] EXCEPT !.primary = n = m]
        BY <1>1, <2>1, <2>2, <3>1
      <4>2. media[n].student = s /\ ~media[n].deleted
        BY <2>2, <3>1
      <4> QED
        BY <3>1, <4>1, <4>2 DEF MediaRows
    <3>2. CASE n \notin Avatars(s)
      BY <2>1, <3>2
    <3> QED
      BY <3>1, <3>2
  <2>4. media' \in [MediaIds -> MediaRows \cup {NoRow}]
    BY <1>1, <2>1, <2>3
  <2>5. OnePrimary'
    BY <1>1, <2>2, <2>3 DEF OnePrimary
  <2> QED
    BY <2>4, <2>5
<1> QED
  BY <1>2, <1>3, <1>4, <1>5, MediaChanges

(* The other tables and the object store. *)
LEMMA TablesNext ==
    ASSUME TypeInv, [Next]_vars
    PROVE  TablesOK'
<1> USE DEF TypeInv, TablesOK
<1>1. media' \in [MediaIds -> MediaRows \cup {NoRow}]
  BY MediaNext
<1>2. CASE UNCHANGED vars \/ \E s \in Students : DeleteStudent(s)
  BY <1>1, <1>2 DEF vars, tables, env, DeleteStudent, Calm
<1>3. ASSUME NEW h \in Handlers, NEW q \in Requests, Begin(h, q) PROVE TablesOK'
  BY <1>3 DEF Begin, tables, Calm
<1>4. \A m \in MediaIds : Original(m) \in Keys /\ Thumb(m) \in Keys
  BY DEF Keys, Original, Thumb
<1>6. \A i \in ItemIds : Temp(i) \in Keys
  BY DEF Keys, Temp
<1>5. ASSUME NEW h \in Handlers, Step(h) PROVE TablesOK'
  <2>1. CASE FindStudent(h) \/ CountAvatars(h) \/ InsertMedia(h) \/ AnswerLost(h)
    <3>1. pc[h] = "insert" => loc[h].media \in MediaIds
      BY WhoType DEF Storing
    <3> QED
      BY <1>1, <2>1, <3>1 DEF FindStudent, CountAvatars, InsertMedia, AnswerLost, tables, env, Refused, Keep, Go,
                         Answer, Calm
  <2>2. CASE UploadOriginal(h) \/ UploadThumb(h) \/ UploadFails(h) \/ CleanUp(h)
    <3>1. pc[h] \in {"original", "thumb"} => loc[h].media \in MediaIds
      BY WhoType DEF Storing
    <3> QED
      BY <1>1, <1>4, <2>2, <3>1 DEF UploadOriginal, UploadThumb, UploadFails, CleanUp, tables, env, Refused,
                               Go, Answer, Calm
  <2>3. CASE FindMedia(h) \/ SoftDelete(h) \/ Unlink(h) \/ UnlinkFails(h) \/ SetPrimary(h) \/ Fail(h)
    BY <1>1, <2>3 DEF FindMedia, SoftDelete, Unlink, UnlinkFails, SetPrimary, Fail, tables, env, Go, Answer, Calm
  <2>4. CASE Stage(h)
    <3>1. job[h] \in Requests
      BY DEF HandlersOK
    <3>2. job[h].batch \in Batches /\ DOMAIN job[h].files \subseteq 1 .. MaxFiles
      BY <3>1, RequestType
    <3>3. \A k \in 1 .. MaxFiles : Temp(<<job[h].batch, k>>) \in Keys
      <4>1. \A k \in 1 .. MaxFiles : <<job[h].batch, k>> \in ItemIds
        BY <3>2 DEF ItemIds
      <4> QED
        BY <1>6, <4>1
    <3>4. \E good \in SUBSET Readable(job[h]) :
              objects' = objects \cup {Temp(<<job[h].batch, k>>) : k \in good}
      BY <2>4 DEF Stage
    <3>5. Readable(job[h]) \subseteq 1 .. MaxFiles
      BY <3>2 DEF Readable
    <3>6. UNCHANGED <<tables, gone, unsure>>
      BY <2>4 DEF Stage, Keep, env
    <3> QED
      BY <1>1, <3>3, <3>4, <3>5, <3>6 DEF tables
  <2>5. CASE InsertBatch(h)
    BY <1>1, <2>5 DEF InsertBatch, Go, env, Calm
  <2>6. CASE InsertItem(h)
    <3>1. loc[h].rows \in [ItemIds -> ItemRows \cup {NoRow}]
      BY DEF HandlersOK, Locals
    <3>2. item' = item \/ \E i : item' = [item EXCEPT ![i] = loc[h].rows[i]]
      BY <2>6, Zenon DEF InsertItem
    <3>3. item' \in [ItemIds -> ItemRows \cup {NoRow}]
      BY <3>1, <3>2
    <3>4. UNCHANGED <<gone, unsure, batch, objects>>
      BY <2>6 DEF InsertItem, Answer, Go, env, Calm
    <3> QED
      BY <1>1, <3>3, <3>4
  <2>7. CASE \/ ReadItems(h) \/ NextItem(h) \/ KeepExisting(h) \/ ListExisting(h) \/ NextExisting(h)
             \/ GetObject(h) \/ GetFails(h) \/ MarkFails(h)
    <3>1. UNCHANGED <<tables, objects, gone, unsure>>
      BY <2>7, Zenon
         DEF ReadItems, NextItem, KeepExisting, ListExisting, NextExisting, GetObject, GetFails, MarkFails,
             env, Keep, Go, Answer, Calm
    <3> QED
      BY <1>1, <3>1 DEF tables
  <2>8. CASE MarkItem(h)
    <3>1. pc[h] \in PerItem
      BY <2>8 DEF MarkItem, PerItem
    <3> DEFINE i == loc[h].item
               old == loc[h].rows[i]
    <3>2. i \in ItemIds /\ old \in ItemRows /\ Who(h) \in Students
      BY <3>1, WhoType
    <3>3. pc[h] = "mark_imported" => loc[h].media \in MediaIds
      BY WhoType DEF Storing
    <3>4. PICK status \in {"skipped", "failed", "imported"},
               student \in Students \cup {NoRow}, final \in MediaIds \cup {NoRow} :
              Mark(h, status, student, final)
      <4>1. old.student \in Students \cup {NoRow} /\ old.final \in MediaIds \cup {NoRow}
        BY <3>2 DEF ItemRows
      <4> QED
        BY <2>8, <3>2, <3>3, <4>1 DEF MarkItem
    <3>5. [old EXCEPT !.status = status, !.student = student, !.final = final] \in ItemRows
      BY <3>2 DEF ItemRows, Statuses
    <3>6. UNCHANGED <<gone, unsure, batch, objects>>
      BY <2>8 DEF MarkItem, Mark, Go, env, Calm
    <3>7. item' = [item EXCEPT ![i] = [old EXCEPT !.status = status, !.student = student, !.final = final]]
      BY <3>4 DEF Mark
    <3> HIDE DEF i, old
    <3> QED
      BY <1>1, <3>2, <3>5, <3>6, <3>7
  <2>9. CASE Unstage(h)
    BY <1>1, <2>9 DEF Unstage, Go, env, tables, Calm
  <2>10. CASE Finish(h)
    BY <1>1, <2>10 DEF Finish, Answer, env, Calm
  <2> QED
    BY <1>5, <2>1, <2>2, <2>3, <2>4, <2>5, <2>6, <2>7, <2>8, <2>9, <2>10 DEF Step
<1> QED
  BY <1>2, <1>3, <1>5 DEF Next

LEMMA TypeInvInit == Init => TypeInv
BY LocalsType DEF Init, TypeInv, TablesOK, OnePrimary, HandlersOK, HandlerOK, Labels, Storing, Removing,
                  Analyzing, PerItem, PerBatch, Importing

LEMMA TypeInvNext == TypeInv /\ [Next]_vars => TypeInv'
BY HandlersNext, MediaNext, TablesNext DEF TypeInv

LEMMA TypeInvSafety == Spec => []TypeInv
BY TypeInvInit, TypeInvNext, PTL DEF Spec

(* Type correctness, and at most one primary picture for a student,        *)
(* however uploads, imports, deletions and promotions overlap.             *)
THEOREM TypeSafety == Spec => []MediaTypeOK
<1>1. TypeInv => MediaTypeOK
  <2> SUFFICES ASSUME TypeInv PROVE MediaTypeOK
    OBVIOUS
  <2>1. \A m \in MediaIds : media[m] # NoRow /\ media[m].primary => Live(m)
    BY DEF TypeInv, OnePrimary, Live
  <2>2. ASSUME NEW s \in Students PROVE Cardinality(Primary(s)) <= 1
    <3>1. CASE Primary(s) = {}
      BY <3>1, FS_EmptySet
    <3>2. ASSUME NEW m \in Primary(s) PROVE Cardinality(Primary(s)) <= 1
      <4>1. Primary(s) = {m}
        BY <3>2 DEF TypeInv, OnePrimary, Primary, Avatars, Live
      <4> QED
        BY <4>1, FS_Singleton
    <3> QED
      BY <3>1, <3>2
  <2> QED
    BY <2>1, <2>2 DEF TypeInv, TablesOK, MediaTypeOK
<1> QED
  BY <1>1, TypeInvSafety, PTL

-----------------------------------------------------------------------------
(* What a step does to a picture's row: a new row is the mover's own, and  *)
(* a row that is there stays, keeps what it was made of, and is never      *)
(* brought back.                                                           *)
RowKept(m) ==
    media[m] # NoRow =>
        /\ media'[m] # NoRow
        /\ media'[m].item = media[m].item
        /\ media'[m].student = media[m].student
        /\ media[m].deleted => media'[m].deleted

LEMMA RowsKept ==
    ASSUME ObjectsInv, NEW h \in Handlers, Moves(h)
    PROVE  /\ \A m \in MediaIds : RowKept(m)
           /\ \A m \in MediaIds : media[m] = NoRow /\ media'[m] # NoRow =>
                  m = loc[h].media /\ Inserts(h)
<1> USE DEF ObjectsInv, TypeInv
<1>1. media \in [MediaIds -> MediaRows \cup {NoRow}] /\ NoRow \notin MediaRows
  BY StudentMediaAssumption DEF TablesOK
<1>2. CASE UNCHANGED media
  BY <1>2 DEF RowKept
<1>3. CASE Inserts(h)
  <2>1. media[loc[h].media] = NoRow /\ loc[h].media \in MediaIds
    BY <1>3, WhoType DEF Inserts, CreatesOwn, Creating, Storing
  <2> QED
    BY <1>1, <1>3, <2>1 DEF Inserts, Inserted, RowKept
<1>4. CASE Deletes(h)
  <2> DEFINE t == Target(h)
  <2>1. t \in MediaIds /\ media[t] \in MediaRows
    BY <1>1, <1>4, WhoType DEF Deletes, Removing, Listed, Live
  <2>2. [media[t] EXCEPT !.deleted = TRUE, !.primary = FALSE] \in MediaRows
    BY <2>1 DEF MediaRows
  <2>3. media' = [media EXCEPT ![t] = [media[t] EXCEPT !.deleted = TRUE, !.primary = FALSE]]
    BY <1>4 DEF Deletes
  <2>4. /\ [media[t] EXCEPT !.deleted = TRUE, !.primary = FALSE].item = media[t].item
        /\ [media[t] EXCEPT !.deleted = TRUE, !.primary = FALSE].student = media[t].student
        /\ [media[t] EXCEPT !.deleted = TRUE, !.primary = FALSE].deleted
    BY <2>1 DEF MediaRows
  <2> HIDE DEF t
  <2> QED
    BY <1>1, <2>1, <2>2, <2>3, <2>4 DEF RowKept
<1>5. CASE Promotes(h)
  <2>1. ASSUME NEW m \in MediaIds
        PROVE  RowKept(m) /\ (media[m] = NoRow => media'[m] = NoRow)
    <3>1. CASE m \in Avatars(Who(h))
      <4>1. media'[m] = [media[m] EXCEPT !.primary = m = job[h].media] /\ media[m] \in MediaRows
            /\ ~media[m].deleted
        BY <1>1, <1>5, <3>1 DEF Promotes, Promoted, Avatars, Live
      <4>2. media'[m] \in MediaRows /\ media'[m].item = media[m].item
            /\ media'[m].student = media[m].student
        BY <4>1 DEF MediaRows
      <4> QED
        BY <1>1, <4>1, <4>2 DEF RowKept
    <3>2. CASE m \notin Avatars(Who(h))
      BY <1>5, <3>2 DEF Promotes, Promoted, RowKept
    <3> QED
      BY <3>1, <3>2
  <2> QED
    BY <2>1
<1> QED
  BY <1>2, <1>3, <1>4, <1>5, MediaStep

(* Objects are only deleted by a handler that cleans up, unlinks or        *)
(* unstages, and then its own.                                             *)
Loses(h) ==
    {k \in objects :
        \/ pc[h] = "cleanup" /\ k \in {Original(loc[h].media), Thumb(loc[h].media)}
        \/ pc[h] = "unlink" /\ k \in {Original(Target(h)), Thumb(Target(h))}
        \/ pc[h] = "unstage" /\ k = Temp(loc[h].item)}

LEMMA ObjectsStep ==
    ASSUME NEW h \in Handlers, Moves(h)
    PROVE  objects \ Loses(h) \subseteq objects' /\ unsure \subseteq unsure'
<1>1. CASE \E q \in Requests : Begin(h, q)
  BY <1>1 DEF Begin, Calm
<1>2. CASE FindStudent(h) \/ CountAvatars(h) \/ UploadOriginal(h) \/ UploadThumb(h)
  BY <1>2 DEF FindStudent, CountAvatars, UploadOriginal, UploadThumb, Calm
<1>3. CASE UploadFails(h) \/ InsertMedia(h) \/ AnswerLost(h) \/ FindMedia(h) \/ SoftDelete(h) \/ SetPrimary(h)
  BY <1>3 DEF UploadFails, InsertMedia, AnswerLost, FindMedia, SoftDelete, SetPrimary, Calm
<1>4. CASE CleanUp(h)
  BY <1>4 DEF CleanUp, Loses
<1>5. CASE Unlink(h) \/ UnlinkFails(h)
  BY <1>5 DEF Unlink, UnlinkFails, Loses, Calm
<1>6. CASE Stage(h)
  BY <1>6 DEF Stage
<1>7. CASE InsertBatch(h) \/ InsertItem(h) \/ ReadItems(h) \/ NextItem(h) \/ Fail(h)
  BY <1>7 DEF InsertBatch, InsertItem, ReadItems, NextItem, Fail, Calm
<1>8. CASE \/ KeepExisting(h) \/ ListExisting(h) \/ NextExisting(h) \/ GetObject(h) \/ GetFails(h)
           \/ MarkItem(h) \/ MarkFails(h) \/ Finish(h)
  BY <1>8 DEF KeepExisting, ListExisting, NextExisting, GetObject, GetFails, MarkItem, MarkFails, Finish, Calm
<1>9. CASE Unstage(h)
  BY <1>9 DEF Unstage, Loses
<1> QED
  BY <1>1, <1>2, <1>3, <1>4, <1>5, <1>6, <1>7, <1>8, <1>9 DEF Moves, Step

(* Where the mover gets to. *)
LEMMA MoverCreates ==
    ASSUME ObjectsInv, NEW h \in Handlers, Moves(h)
    PROVE  \/ pc'[h] \notin Creating
           \/ /\ FindStudent(h) /\ pc'[h] = "count"
              /\ loc'[h].media \in Unused
           \/ /\ pc[h] \in Creating /\ loc'[h].media = loc[h].media
              /\ CreatesOwn(h)
              /\ \/ CountAvatars(h) /\ pc'[h] = "original"
                 \/ UploadOriginal(h) /\ pc'[h] = "thumb"
                 \/ UploadThumb(h) /\ pc'[h] \in {"insert", "cleanup"}
                 \/ UploadFails(h) /\ pc'[h] = "cleanup"
                 \/ InsertMedia(h) /\ pc'[h] = "cleanup"
                 \/ AnswerLost(h) /\ pc'[h] = "cleanup"
<1> USE DEF ObjectsInv, TypeInv, HandlersOK
<1>0. /\ pc \in [Handlers -> Labels] /\ loc \in [Handlers -> Locals] /\ loc[h] \in Locals
      /\ CreatesOwn(h)
  OBVIOUS
<1>1. CASE \E q \in Requests : Begin(h, q)
  BY <1>1, RequestType DEF Begin, Entry, Creating, Storing
<1>2. ASSUME Go(h, "mark_failed") \/ Answer(h) PROVE pc'[h] \notin Creating
  BY <1>2 DEF Go, Answer, Creating, Storing
<1>3. CASE FindStudent(h)
  <2>1. CASE Who(h) \in gone
    BY <1>2, <1>3, <2>1 DEF FindStudent, Refused
  <2>2. CASE Who(h) \notin gone
    <3>1. /\ Unused # {}
          /\ pc' = [pc EXCEPT ![h] = "count"]
          /\ loc' = [loc EXCEPT ![h] = [loc[h] EXCEPT !.media = CHOOSE m \in Unused : TRUE]]
      BY <1>3, <2>2 DEF FindStudent, Keep
    <3>2. [loc[h] EXCEPT !.media = CHOOSE m \in Unused : TRUE].media \in Unused
      BY <3>1 DEF Locals
    <3> QED
      BY <1>3, <3>1, <3>2
  <2> QED
    BY <2>1, <2>2
<1>4. CASE CountAvatars(h)
  BY <1>0, <1>4 DEF CountAvatars, Keep, Creating, Storing, Locals
<1>5. CASE UploadOriginal(h) \/ UploadThumb(h) \/ AnswerLost(h)
  BY <1>0, <1>5 DEF UploadOriginal, UploadThumb, AnswerLost, Go, Creating, Storing
<1>6. CASE UploadFails(h)
  <2>1. CASE Go(h, "cleanup") /\ pc[h] = "thumb"
    BY <1>0, <1>6, <2>1 DEF Go, Creating, Storing
  <2>2. CASE Refused(h)
    BY <1>2, <2>2 DEF Refused
  <2> QED
    BY <1>6, <2>1, <2>2 DEF UploadFails
<1>7. CASE InsertMedia(h)
  <2>1. pc[h] = "insert" /\ (Go(h, "cleanup") \/ Go(h, "mark_imported") \/ Answer(h))
    BY <1>7 DEF InsertMedia
  <2> QED
    BY <1>0, <1>7, <2>1 DEF Go, Answer, Creating, Storing
<1>8. CASE CleanUp(h)
  BY <1>2, <1>8 DEF CleanUp, Refused
<1>9. CASE \/ FindMedia(h) \/ SoftDelete(h) \/ Unlink(h) \/ UnlinkFails(h) \/ SetPrimary(h) \/ Fail(h)
           \/ InsertBatch(h) \/ InsertItem(h) \/ Finish(h)
  <2>1. Answer(h) \/ \E label \in {"promote", "delete", "unlink", "replace", "items"} : Go(h, label)
    BY <1>9, Zenon DEF FindMedia, SoftDelete, Unlink, UnlinkFails, SetPrimary, Fail, InsertBatch, InsertItem,
                Finish
  <2> QED
    BY <1>2, <2>1 DEF Go, Creating, Storing
<1>10. CASE Stage(h) \/ ReadItems(h) \/ NextItem(h) \/ ListExisting(h) \/ NextExisting(h)
  <2>1. \/ Answer(h) \/ Go(h, "finish")
        \/ \E l : \E label \in {"batch", "next", "keep", "get", "list", "replace", "find"} : Keep(h, label, l)
    <3>1. Stage(h) => \E l : Keep(h, "batch", l)
      BY DEF Stage
    <3>2. ReadItems(h) => Answer(h) \/ \E l : Keep(h, "next", l)
      BY DEF ReadItems
    <3>3. ListExisting(h) \/ NextExisting(h) => \E l : Keep(h, "replace", l) \/ Keep(h, "get", l) \/ Keep(h, "find", l)
      BY DEF ListExisting, NextExisting
    <3>4. NextItem(h) => Go(h, "finish") \/ \E l : Keep(h, "keep", l) \/ Keep(h, "get", l) \/ Keep(h, "list", l)
      BY DEF NextItem
    <3> QED
      BY <1>10, <3>1, <3>2, <3>3, <3>4
  <2> QED
    BY <1>2, <2>1 DEF Go, Keep, Creating, Storing
<1>11. CASE KeepExisting(h) \/ GetObject(h) \/ GetFails(h) \/ MarkItem(h) \/ MarkFails(h) \/ Unstage(h)
  <2>1. \E label \in {"get", "mark_skipped", "exists", "mark_unread", "next", "unstage"} : Go(h, label)
    BY <1>11 DEF KeepExisting, GetObject, GetFails, MarkItem, Mark, AfterMark, MarkFails, Unstage
  <2> QED
    BY <2>1 DEF Go, Creating, Storing
<1> QED
  BY <1>1, <1>3, <1>4, <1>5, <1>6, <1>7, <1>8, <1>9, <1>10, <1>11 DEF Moves, Step

LEMMA MoverRemoves ==
    ASSUME ObjectsInv, NEW h \in Handlers, Moves(h)
    PROVE  RemovesDeleted(h)'
<1> USE DEF ObjectsInv, TypeInv, HandlersOK
<1>1. pc \in [Handlers -> Labels] /\ HandlerOK(h)
  OBVIOUS
<1>2. pc'[h] \in {"delete", "unlink"} =>
          \/ FindMedia(h) /\ Go(h, "delete") /\ Listed(h, Target(h))
          \/ SoftDelete(h) /\ Go(h, "unlink") /\ Listed(h, Target(h))
  <2>1. CASE \E q \in Requests : Begin(h, q)
    BY <2>1, RequestType DEF Begin, Entry
  <2>2. CASE FindMedia(h)
    BY <2>2 DEF FindMedia, Go, Answer
  <2>3. CASE SoftDelete(h)
    BY <2>3 DEF SoftDelete, Go, Answer
  <2>4. CASE \/ FindStudent(h) \/ CountAvatars(h) \/ UploadOriginal(h) \/ UploadThumb(h)
             \/ UploadFails(h) \/ InsertMedia(h) \/ AnswerLost(h) \/ CleanUp(h)
    BY <2>4 DEF FindStudent, CountAvatars, UploadOriginal, UploadThumb, UploadFails, InsertMedia, AnswerLost,
                CleanUp, Refused, Go, Keep, Answer
  <2>5. CASE Unlink(h) \/ UnlinkFails(h) \/ SetPrimary(h) \/ Stage(h) \/ InsertBatch(h) \/ Fail(h)
             \/ ReadItems(h) \/ Finish(h)
    BY <2>5 DEF Unlink, UnlinkFails, SetPrimary, Stage, InsertBatch, Fail, ReadItems, Finish, Go, Keep, Answer
  <2>6. CASE InsertItem(h)
    <3>1. Go(h, "items") \/ Answer(h)
      BY <2>6, Zenon DEF InsertItem
    <3> QED
      BY <3>1 DEF Go, Answer
  <2>7. CASE \/ NextItem(h) \/ KeepExisting(h) \/ ListExisting(h) \/ NextExisting(h) \/ GetObject(h)
             \/ GetFails(h) \/ MarkItem(h) \/ MarkFails(h) \/ Unstage(h)
    BY <2>7 DEF NextItem, KeepExisting, ListExisting, NextExisting, GetObject, GetFails, MarkItem, Mark,
                AfterMark, MarkFails, Unstage, Go, Keep
  <2> QED
    BY <2>1, <2>2, <2>3, <2>4, <2>5, <2>6, <2>7 DEF Moves, Step
<1>3. CASE FindMedia(h) /\ Go(h, "delete") /\ Listed(h, Target(h))
  BY <1>1, <1>3 DEF FindMedia, Go, Listed, Live, Target, Importing, RemovesDeleted, tables
<1>4. CASE SoftDelete(h) /\ Go(h, "unlink") /\ Listed(h, Target(h))
  <2> DEFINE t == Target(h)
  <2>1. t \in MediaIds /\ media[t] \in MediaRows /\ NoRow \notin MediaRows
    BY <1>4, WhoType, StudentMediaAssumption DEF SoftDelete, Removing, Listed, Live, TablesOK
  <2>2. media'[t] = [media[t] EXCEPT !.deleted = TRUE, !.primary = FALSE]
    BY <1>4, <2>1 DEF SoftDelete, TablesOK
  <2>3. media'[t] \in MediaRows /\ media'[t].deleted
    BY <2>1, <2>2 DEF MediaRows
  <2>4. Target(h)' = t /\ pc'[h] = "unlink"
    BY <1>4, <1>1 DEF Go, Target, Importing
  <2> HIDE DEF t
  <2> QED
    BY <2>1, <2>3, <2>4 DEF RemovesDeleted
<1> QED
  BY <1>2, <1>3, <1>4 DEF RemovesDeleted

(* The objects of another handler's new picture stay. *)
LEMMA CreatedStays ==
    ASSUME ObjectsInv, NEW h \in Handlers, Moves(h), NEW m \in MediaIds,
           media[m] = NoRow,
           pc[h] \in Creating => loc[h].media # m
    PROVE  /\ Original(m) \in objects => Original(m) \in objects'
           /\ Thumb(m) \in objects => Thumb(m) \in objects'
<1>1. pc[h] = "unlink" => Target(h) # m
  BY DEF ObjectsInv, RemovesDeleted
<1>2. Original(m) \notin Loses(h) /\ Thumb(m) \notin Loses(h)
  BY <1>1 DEF Loses, Original, Thumb, Temp, Creating, Storing
<1> QED
  BY <1>2, ObjectsStep

LEMMA MoverOwns ==
    ASSUME ObjectsInv, NEW h \in Handlers, Moves(h), pc'[h] \in Creating
    PROVE  LET m == loc'[h].media
           IN  /\ pc'[h] # "cleanup" => media'[m] = NoRow
               /\ pc'[h] = "cleanup" => media'[m] = NoRow \/ m \in unsure'
               /\ pc'[h] = "thumb" => Original(m) \in objects'
               /\ pc'[h] = "insert" => {Original(m), Thumb(m)} \subseteq objects'
               /\ \A g \in Handlers \ {h} : pc[g] \in Creating => loc[g].media # m
<1> DEFINE m == loc'[h].media
<1> USE DEF ObjectsInv
<1>1. CASE FindStudent(h) /\ pc'[h] = "count" /\ m \in Unused
  BY <1>1 DEF FindStudent, Unused, tables
<1>2. ASSUME pc[h] \in Creating, m = loc[h].media, CreatesOwn(h)
      PROVE  \A g \in Handlers \ {h} : pc[g] \in Creating => loc[g].media # m
  BY <1>2 DEF CreatesOwn
<1>3. CASE pc[h] \in Creating /\ m = loc[h].media /\ CountAvatars(h) /\ pc'[h] = "original"
  BY <1>2, <1>3 DEF CountAvatars, CreatesOwn, tables, Creating, Storing
<1>4. CASE pc[h] \in Creating /\ m = loc[h].media /\ UploadOriginal(h) /\ pc'[h] = "thumb"
  BY <1>2, <1>4 DEF UploadOriginal, CreatesOwn, tables, Creating, Storing
<1>5. CASE pc[h] \in Creating /\ m = loc[h].media /\ UploadThumb(h) /\ pc'[h] \in {"insert", "cleanup"}
  <2>1. pc[h] = "thumb" /\ media' = media
    BY <1>5 DEF UploadThumb, tables
  <2>2. pc'[h] = "insert" => objects' = objects \cup {Thumb(m)}
    BY <1>5, <2>1 DEF UploadThumb, Go, TypeInv, HandlersOK
  <2>3. media[m] = NoRow /\ Original(m) \in objects
    BY <1>5, <2>1 DEF CreatesOwn, Creating, Storing
  <2>4. \A g \in Handlers \ {h} : pc[g] \in Creating => loc[g].media # m
    BY <1>2, <1>5 DEF CreatesOwn
  <2> QED
    BY <1>5, <2>1, <2>2, <2>3, <2>4
<1>6. CASE pc[h] \in Creating /\ m = loc[h].media /\ (UploadFails(h) \/ InsertMedia(h)) /\ pc'[h] = "cleanup"
  <2>1. pc[h] \in {"original", "thumb", "insert"} /\ media' = media
    BY <1>6 DEF UploadFails, InsertMedia, tables, Go, Answer, TypeInv, HandlersOK
  <2>2. media[m] = NoRow
    BY <1>6, <2>1 DEF CreatesOwn, Creating, Storing
  <2>4. \A g \in Handlers \ {h} : pc[g] \in Creating => loc[g].media # m
    BY <1>2, <1>6 DEF CreatesOwn
  <2> QED
    BY <1>6, <2>1, <2>2, <2>4
<1>7. CASE pc[h] \in Creating /\ m = loc[h].media /\ AnswerLost(h) /\ pc'[h] = "cleanup"
  BY <1>2, <1>7 DEF AnswerLost
<1> QED
  BY <1>1, <1>3, <1>4, <1>5, <1>6, <1>7, MoverCreates

LEMMA ObjectsMove ==
    ASSUME ObjectsInv, NEW h \in Handlers, Moves(h), TypeInv'
    PROVE  ObjectsInv'
<1> USE DEF ObjectsInv
<1>1. \A g \in Handlers \ {h} : UNCHANGED <<pc[g], job[g], loc[g]>>
  BY OthersWait DEF TypeInv
<1>2. /\ \A m \in MediaIds : RowKept(m)
      /\ \A m \in MediaIds : media[m] = NoRow /\ media'[m] # NoRow => m = loc[h].media /\ Inserts(h)
  BY RowsKept
<1>3. objects \ Loses(h) \subseteq objects' /\ unsure \subseteq unsure'
  BY ObjectsStep
<1>4. LiveHasObjects'
  <2> SUFFICES ASSUME NEW m \in MediaIds, Live(m)', m \notin unsure'
               PROVE  {Original(m), Thumb(m)} \subseteq objects'
    BY DEF LiveHasObjects
  <2>1. CASE media[m] # NoRow
    <3>1. Live(m) /\ {Original(m), Thumb(m)} \subseteq objects
      BY <1>2, <1>3, <2>1 DEF RowKept, Live, LiveHasObjects
    <3>2. pc[h] = "cleanup" => loc[h].media # m
      BY <1>3, <2>1 DEF CreatesOwn
    <3>3. pc[h] = "unlink" => Target(h) # m
      BY <3>1 DEF RemovesDeleted, Live
    <3>4. Original(m) \notin Loses(h) /\ Thumb(m) \notin Loses(h)
      BY <3>2, <3>3 DEF Loses, Original, Thumb, Temp
    <3> QED
      BY <1>3, <3>1, <3>4
  <2>2. CASE media[m] = NoRow
    <3>1. m = loc[h].media /\ pc[h] = "insert"
      BY <1>2, <2>2 DEF Live, Inserts
    <3>2. {Original(m), Thumb(m)} \subseteq objects
      BY <3>1 DEF CreatesOwn
    <3>3. Loses(h) = {}
      BY <3>1 DEF Loses
    <3> QED
      BY <1>3, <3>2, <3>3
  <2> QED
    BY <2>1, <2>2
<1>5. ASSUME NEW g \in Handlers \ {h}, pc[g] \in Creating PROVE CreatesOwn(g)'
  <2> DEFINE m == loc[g].media
  <2>1. m \in MediaIds /\ CreatesOwn(g)
    BY <1>5, WhoType DEF TypeInv, Creating
  <2>2. pc[h] \in Creating => loc[h].media # m
    BY <1>5 DEF CreatesOwn
  <2>3. pc[g] # "cleanup" => media[m] = NoRow
    BY <1>5, <2>1 DEF CreatesOwn
  <2>4. media[m] = NoRow => media'[m] = NoRow
    BY <1>2, <2>1, <2>2 DEF Inserts, Creating, Storing
  <2>5. /\ pc[g] = "thumb" => Original(m) \in objects'
        /\ pc[g] = "insert" => {Original(m), Thumb(m)} \subseteq objects'
    BY <2>1, <2>2, <2>3, CreatedStays DEF CreatesOwn
  <2>6. pc'[h] \in Creating => loc'[h].media # m
    BY <1>5, MoverOwns
  <2>7. ASSUME NEW f \in Handlers \ {g}, pc'[f] \in Creating PROVE loc'[f].media # m
    <3>1. CASE f = h
      BY <2>6, <2>7, <3>1
    <3>2. CASE f # h
      BY <1>1, <1>5, <2>1, <2>7, <3>2 DEF CreatesOwn
    <3> QED
      BY <3>1, <3>2
  <2>8. pc'[g] = pc[g] /\ loc'[g] = loc[g]
    BY <1>1
  <2>9. pc[g] = "cleanup" => media[m] = NoRow \/ m \in unsure
    BY <2>1 DEF CreatesOwn
  <2> HIDE DEF m
  <2>10. loc'[g].media = m
    BY <2>8 DEF m
  <2> QED
    BY <1>3, <1>5, <2>3, <2>4, <2>5, <2>7, <2>8, <2>9, <2>10 DEF CreatesOwn, Creating, Storing
<1>6. ASSUME NEW g \in Handlers \ {h}, pc[g] \notin Creating PROVE CreatesOwn(g)'
  BY <1>1, <1>6 DEF CreatesOwn, Creating, Storing
<1>7. CreatesOwn(h)'
  <2>1. CASE pc'[h] \in Creating
    BY <1>1, <2>1, MoverOwns DEF CreatesOwn
  <2>2. CASE pc'[h] \notin Creating
    BY <2>2 DEF CreatesOwn, Creating, Storing
  <2> QED
    BY <2>1, <2>2
<1>8. ASSUME NEW g \in Handlers \ {h} PROVE RemovesDeleted(g)'
  <2>1. UNCHANGED <<pc[g], job[g], loc[g]>> /\ RemovesDeleted(g)
    BY <1>1
  <2>2. Target(g)' = Target(g)
    BY <2>1 DEF Target, Importing
  <2>3. pc[g] \in {"delete", "unlink"} => Target(g) \in MediaIds
    BY WhoType DEF TypeInv, Removing
  <2> QED
    BY <1>2, <2>1, <2>2, <2>3 DEF RemovesDeleted, RowKept
<1> QED
  BY <1>4, <1>5, <1>6, <1>7, <1>8, MoverRemoves

LEMMA ObjectsInvInit == Init => ObjectsInv
BY TypeInvInit DEF Init, ObjectsInv, LiveHasObjects, Live, CreatesOwn, RemovesDeleted, Creating, Storing

LEMMA ObjectsInvNext == ObjectsInv /\ [Next]_vars => ObjectsInv'
<1> SUFFICES ASSUME ObjectsInv, [Next]_vars PROVE ObjectsInv'
  OBVIOUS
<1>1. TypeInv'
  BY TypeInvNext DEF ObjectsInv
<1>2. CASE UNCHANGED <<media, objects, unsure, pc, job, loc>>
  BY <1>1, <1>2 DEF ObjectsInv, LiveHasObjects, Live, CreatesOwn, RemovesDeleted, Target, Importing
<1> QED
  BY <1>1, <1>2, NobodyMoves, ObjectsMove

LEMMA ObjectsInvSafety == Spec => []ObjectsInv
BY ObjectsInvInit, ObjectsInvNext, PTL DEF Spec

(* A picture that can be listed has both its objects, whatever calls fail  *)
(* and whoever uploads, imports and deletes at the same time, unless the   *)
(* answer to its INSERT was lost.                                          *)
THEOREM LiveObjectsSafety == Spec => []LiveHasObjects
<1>1. ObjectsInv => LiveHasObjects
  BY DEF ObjectsInv
<1> QED
  BY <1>1, ObjectsInvSafety, PTL

-----------------------------------------------------------------------------
(* What a step does to the rows a handler has in mind, and to the items.   *)
Freshly(h) ==
    \E good \in SUBSET Readable(job[h]) :
        /\ objects' = objects \cup {Temp(<<job[h].batch, k>>) : k \in good}
        /\ loc'[h].rows = [i \in ItemIds |->
                              IF i[1] = job[h].batch /\ i[2] \in DOMAIN job[h].files
                              THEN NewItem(job[h].files[i[2]], i[2] \in good) ELSE NoRow]

LEMMA RowsStep ==
    ASSUME TypeInv, NEW h \in Handlers, Moves(h)
    PROVE  \/ loc'[h].rows = loc[h].rows
           \/ \A i \in ItemIds : loc'[h].rows[i] = NoRow
           \/ Stage(h) /\ pc[h] = "stage" /\ pc'[h] = "batch" /\ Freshly(h)
           \/ /\ ReadItems(h) /\ UNCHANGED <<objects, media, item>>
              /\ \A i \in ItemIds : loc'[h].rows[i] \in {item[i], NoRow}
<1> DEFINE Goal == \/ loc'[h].rows = loc[h].rows
                   \/ \A i \in ItemIds : loc'[h].rows[i] = NoRow
<1> USE DEF TypeInv, HandlersOK
<1>1. loc[h] \in Locals /\ loc \in [Handlers -> Locals] /\ pc \in [Handlers -> Labels]
  OBVIOUS
<1>2. ASSUME NEW label, Go(h, label) PROVE Goal
  BY <1>2 DEF Go
<1>3. CASE Answer(h)
  BY <1>3, LocalsType DEF Answer
<1>4. CASE \E q \in Requests : Begin(h, q)
  BY <1>4 DEF Begin
<1>5. CASE FindStudent(h) \/ CountAvatars(h)
  BY <1>1, <1>2, <1>3, <1>5, LocalsType
     DEF FindStudent, CountAvatars, Refused, Keep, Go, Answer, Locals
<1>6. CASE \/ UploadOriginal(h) \/ UploadThumb(h) \/ UploadFails(h) \/ InsertMedia(h)
           \/ AnswerLost(h) \/ CleanUp(h)
  BY <1>2, <1>3, <1>6
     DEF UploadOriginal, UploadThumb, UploadFails, InsertMedia, AnswerLost, CleanUp, Refused
<1>7. CASE \/ FindMedia(h) \/ SoftDelete(h) \/ Unlink(h) \/ UnlinkFails(h) \/ SetPrimary(h) \/ Fail(h)
           \/ InsertBatch(h) \/ Finish(h)
  BY <1>2, <1>3, <1>7
     DEF FindMedia, SoftDelete, Unlink, UnlinkFails, SetPrimary, Fail, InsertBatch, Finish
<1>8. CASE InsertItem(h)
  <2>1. Go(h, "items") \/ Answer(h)
    BY <1>8, Zenon DEF InsertItem
  <2> QED
    BY <1>2, <1>3, <2>1
<1>9. CASE Stage(h)
  <2> DEFINE fresh(good) == [i \in ItemIds |->
                IF i[1] = job[h].batch /\ i[2] \in DOMAIN job[h].files
                THEN NewItem(job[h].files[i[2]], i[2] \in good) ELSE NoRow]
  <2>1. PICK good \in SUBSET Readable(job[h]) :
            /\ objects' = objects \cup {Temp(<<job[h].batch, k>>) : k \in good}
            /\ Keep(h, "batch", [loc[h] EXCEPT !.rows = fresh(good)])
    BY <1>9 DEF Stage
  <2>2. loc'[h].rows = fresh(good) /\ pc'[h] = "batch" /\ pc[h] = "stage"
    <3> HIDE DEF fresh
    <3> QED
      BY <1>1, <1>9, <2>1 DEF Keep, Locals, Stage
  <2> QED
    BY <1>9, <2>1, <2>2 DEF Freshly
<1>10. CASE ReadItems(h)
  <2>1. CASE batch[job[h].batch] = NoRow
    BY <1>3, <1>10, <2>1 DEF ReadItems
  <2>2. CASE batch[job[h].batch] # NoRow
    <3> DEFINE mine == ItemsOf(job[h].batch)
               read == [i \in ItemIds |-> IF i \in mine THEN item[i] ELSE NoRow]
    <3>1. Keep(h, "next", [loc[h] EXCEPT !.todo = mine, !.rows = read])
      BY <1>10, <2>2 DEF ReadItems
    <3>2. loc'[h].rows = read
      <4> HIDE DEF read, mine
      <4> QED
        BY <1>1, <3>1 DEF Keep, Locals
    <3>3. UNCHANGED <<objects, media, item>>
      BY <1>10 DEF ReadItems, tables
    <3> QED
      BY <1>10, <3>2, <3>3
  <2> QED
    BY <2>1, <2>2
<1>11. CASE NextItem(h) \/ ListExisting(h) \/ NextExisting(h)
  <2>1. ASSUME NEW label, NEW l, Keep(h, label, l), l.rows = loc[h].rows PROVE Goal
    BY <1>1, <2>1 DEF Keep
  <2>2. CASE ListExisting(h)
    <3>1. [loc[h] EXCEPT !.doomed = Avatars(Who(h))].rows = loc[h].rows
      BY <1>1 DEF Locals
    <3> QED
      BY <2>1, <2>2, <3>1 DEF ListExisting
  <2>3. CASE NextExisting(h)
    <3>1. /\ [loc[h] EXCEPT !.replaced = @ \cup {Who(h)}, !.media = NoRow].rows = loc[h].rows
          /\ \A m : [loc[h] EXCEPT !.media = m, !.doomed = @ \ {m}].rows = loc[h].rows
      BY <1>1 DEF Locals
    <3> QED
      BY <2>1, <2>3, <3>1 DEF NextExisting
  <2>4. CASE NextItem(h)
    <3> DEFINE l(i) == [loc[h] EXCEPT !.item = i, !.media = NoRow,
                                      !.todo = {j \in loc[h].todo : j # i /\ Due(h, j)}]
    <3>1. \A i : l(i).rows = loc[h].rows
      BY <1>1 DEF Locals
    <3>2. CASE Go(h, "finish")
      BY <1>2, <3>2
    <3>3. CASE \E i, label : Keep(h, label, l(i))
      <4> HIDE DEF l
      <4> QED
        BY <2>1, <3>1, <3>3
    <3> QED
      BY <2>4, <3>2, <3>3, Zenon DEF NextItem
  <2> QED
    BY <1>11, <2>2, <2>3, <2>4
<1>12. CASE KeepExisting(h) \/ GetObject(h) \/ GetFails(h) \/ MarkItem(h) \/ MarkFails(h) \/ Unstage(h)
  BY <1>2, <1>12 DEF KeepExisting, GetObject, GetFails, MarkItem, Mark, MarkFails, Unstage
<1> QED
  BY <1>4, <1>5, <1>6, <1>7, <1>8, <1>9, <1>10, <1>11, <1>12 DEF Moves, Step

Marked(h, status, student, final) ==
    [loc[h].rows[loc[h].item] EXCEPT !.status = status, !.student = student, !.final = final]

LEMMA ItemStep ==
    ASSUME TypeInv, NEW h \in Handlers, Moves(h)
    PROVE  \/ item' = item
           \/ \E i \in ItemIds :
                /\ pc[h] = "items" /\ item[i] = NoRow
                /\ item' = [item EXCEPT ![i] = loc[h].rows[i]] /\ loc[h].rows[i] # NoRow
           \/ /\ pc[h] \in PerItem /\ MarkItem(h)
              /\ \E status \in {"imported", "skipped", "failed"}, student \in Students \cup {NoRow},
                    final \in MediaIds \cup {NoRow} :
                    /\ status = "imported" => pc'[h] = "unstage"
                    /\ item' = [item EXCEPT ![loc[h].item] = Marked(h, status, student, final)]
<1> USE DEF TypeInv, HandlersOK
<1>1. CASE \E q \in Requests : Begin(h, q)
  BY <1>1 DEF tables, Begin
<1>2. CASE \/ FindStudent(h) \/ CountAvatars(h) \/ UploadOriginal(h) \/ UploadThumb(h)
           \/ UploadFails(h) \/ CleanUp(h) \/ FindMedia(h) \/ Unlink(h) \/ UnlinkFails(h)
  BY <1>2 DEF tables, FindStudent, CountAvatars, UploadOriginal, UploadThumb, UploadFails, CleanUp,
              FindMedia, Unlink, UnlinkFails
<1>3. CASE Stage(h) \/ InsertBatch(h) \/ ReadItems(h) \/ NextItem(h) \/ Fail(h)
  BY <1>3 DEF tables, Stage, InsertBatch, ReadItems, NextItem, Fail
<1>4. CASE \/ KeepExisting(h) \/ ListExisting(h) \/ NextExisting(h) \/ GetObject(h) \/ GetFails(h)
           \/ MarkFails(h) \/ Unstage(h) \/ Finish(h)
  BY <1>4 DEF tables, KeepExisting, ListExisting, NextExisting, GetObject, GetFails, MarkFails,
              Unstage, Finish
<1>5. CASE InsertMedia(h) \/ AnswerLost(h) \/ SoftDelete(h) \/ SetPrimary(h)
  BY <1>5 DEF InsertMedia, AnswerLost, SoftDelete, SetPrimary
<1>6. CASE InsertItem(h)
  <2> DEFINE todo == {k \in 1 .. MaxFiles : /\ loc[h].rows[<<job[h].batch, k>>] # NoRow
                                            /\ item[<<job[h].batch, k>>] = NoRow}
             first == CHOOSE k \in todo : \A j \in todo : k <= j
  <2>1. CASE todo = {}
    BY <1>6, <2>1 DEF InsertItem
  <2>2. CASE todo # {}
    <3>1. item' = [item EXCEPT ![<<job[h].batch, first>>] = loc[h].rows[<<job[h].batch, first>>]]
      BY <1>6, <2>2 DEF InsertItem
    <3>2. first \in todo
      <4>1. todo \in SUBSET Nat /\ todo # {}
        BY <2>2, StudentMediaAssumption
      <4>2. \E k \in todo : \A j \in todo : k <= j
        <5> HIDE DEF todo
        <5> QED
          BY <4>1, SmallestNat
      <4> QED
        BY <4>2
    <3>3. <<job[h].batch, first>> \in ItemIds
      BY <3>2, RequestType DEF ItemIds
    <3>4. pc[h] = "items"
      BY <1>6 DEF InsertItem
    <3> HIDE DEF first
    <3> QED
      BY <3>1, <3>2, <3>3, <3>4
  <2> QED
    BY <2>1, <2>2
<1>7. CASE MarkItem(h)
  <2>1. pc[h] \in PerItem
    BY <1>7 DEF MarkItem, PerItem
  <2>2. loc[h].item \in ItemIds /\ loc[h].rows[loc[h].item] \in ItemRows /\ Who(h) \in Students
    BY <2>1, WhoType
  <2>3. pc[h] = "mark_imported" => loc[h].media \in MediaIds
    BY WhoType
  <2> QED
    BY <1>7, <2>1, <2>2, <2>3 DEF MarkItem, Mark, AfterMark, Go, ItemRows, Marked
<1> QED
  BY <1>1, <1>2, <1>3, <1>4, <1>5, <1>6, <1>7 DEF Moves, Step

-----------------------------------------------------------------------------
(* What is kept stays kept: a staged file is only deleted by a handler     *)
(* that has stored a picture of it.                                        *)
LEMMA KeptStays ==
    ASSUME StagedInv, NEW h \in Handlers, Moves(h)
    PROVE  \A i \in ItemIds : (Kept(i) => Kept(i)') /\ (Stored(i) => Stored(i)')
<1> USE DEF StagedInv
<1>1. \A m \in MediaIds : RowKept(m)
  BY RowsKept
<1>2. ASSUME NEW i \in ItemIds, Stored(i) PROVE Stored(i)'
  BY <1>1, <1>2 DEF Stored, RowKept
<1>3. ASSUME NEW i \in ItemIds, Temp(i) \in objects PROVE Kept(i)'
  <2>1. CASE Temp(i) \in Loses(h)
    <3>1. pc[h] = "unstage" /\ i = loc[h].item
      BY <2>1 DEF Loses, Original, Thumb, Temp
    <3> QED
      BY <1>2, <3>1 DEF StagedOf, Kept
  <2>2. CASE Temp(i) \notin Loses(h)
    BY <1>3, <2>2, ObjectsStep DEF Kept
  <2> QED
    BY <2>1, <2>2
<1> QED
  BY <1>2, <1>3 DEF Kept

LEMMA StagedItems ==
    ASSUME StagedInv, NEW h \in Handlers, Moves(h), NEW i \in ItemIds,
           item'[i] # NoRow, item'[i].staged
    PROVE  Kept(i)'
<1> USE DEF StagedInv, ObjectsInv
<1>1. item \in [ItemIds -> ItemRows \cup {NoRow}]
  BY DEF TypeInv, TablesOK
<1>2. CASE item'[i] = item[i]
  BY <1>2, KeptStays DEF StagedUntilStored, Kept, Stored
<1>3. CASE item'[i] = loc[h].rows[i]
  BY <1>3, KeptStays DEF StagedOf
<1>4. ASSUME i = loc[h].item, loc[h].rows[i] \in ItemRows, loc[h].rows[i] # NoRow,
             NEW status, NEW student, NEW final,
             item'[i] = [loc[h].rows[i] EXCEPT !.status = status, !.student = student, !.final = final]
      PROVE  Kept(i)'
  <2>1. item'[i].staged = loc[h].rows[i].staged
    BY <1>4 DEF ItemRows
  <2> QED
    BY <1>4, <2>1, KeptStays DEF StagedOf
<1>5. pc[h] \in PerItem => loc[h].item \in ItemIds /\ loc[h].rows[loc[h].item] \in ItemRows
  BY WhoType DEF TypeInv
<1>6. NoRow \notin ItemRows
  BY StudentMediaAssumption
<1>7. ASSUME NEW status, NEW student, NEW final, pc[h] \in PerItem,
             item' = [item EXCEPT ![loc[h].item] = Marked(h, status, student, final)]
      PROVE  Kept(i)'
  <2>1. CASE i = loc[h].item
    <3>1. item'[i] = [loc[h].rows[i] EXCEPT !.status = status, !.student = student, !.final = final]
      BY <1>1, <1>7, <2>1 DEF Marked
    <3> QED
      BY <1>4, <1>5, <1>6, <1>7, <2>1, <3>1
  <2>2. CASE i # loc[h].item
    BY <1>1, <1>2, <1>7, <2>2
  <2> QED
    BY <2>1, <2>2
<1>8. CASE \E j \in ItemIds : item' = [item EXCEPT ![j] = loc[h].rows[j]]
  BY <1>1, <1>2, <1>3, <1>8
<1>9. CASE item' = item
  BY <1>2, <1>9
<1> QED
  BY <1>7, <1>8, <1>9, ItemStep

LEMMA NewItemStaged ==
    ASSUME NEW f, NEW k, NEW good, NewItem(f, k \in good).staged
    PROVE  k \in good
BY Zenon DEF NewItem

LEMMA StagedRows ==
    ASSUME StagedInv, NEW h \in Handlers, Moves(h), NEW i \in ItemIds,
           loc'[h].rows[i] # NoRow, loc'[h].rows[i].staged
    PROVE  Kept(i)'
<1> USE DEF StagedInv, ObjectsInv
<1>1. CASE loc'[h].rows[i] = loc[h].rows[i]
  BY <1>1, KeptStays DEF StagedOf
<1>2. CASE loc'[h].rows[i] = item[i]
  BY <1>2, KeptStays DEF StagedUntilStored, Kept, Stored
<1>3. CASE Freshly(h)
  <2>1. PICK good \in SUBSET Readable(job[h]) :
        /\ objects' = objects \cup {Temp(<<job[h].batch, k>>) : k \in good}
        /\ loc'[h].rows = [j \in ItemIds |->
                              IF j[1] = job[h].batch /\ j[2] \in DOMAIN job[h].files
                              THEN NewItem(job[h].files[j[2]], j[2] \in good) ELSE NoRow]
    BY <1>3 DEF Freshly
  <2>2. i[1] = job[h].batch /\ loc'[h].rows[i] = NewItem(job[h].files[i[2]], i[2] \in good)
    BY <2>1
  <2>3. i[2] \in good
    BY <2>2, NewItemStaged
  <2>4. i = <<job[h].batch, i[2]>>
    BY <2>2 DEF ItemIds
  <2> QED
    BY <2>1, <2>3, <2>4 DEF Kept
<1> QED
  BY <1>1, <1>2, <1>3, RowsStep

LEMMA StoredMark ==
    ASSUME StagedInv, NEW h \in Handlers, Moves(h), pc'[h] \in {"mark_imported", "unstage"}
    PROVE  Stored(loc[h].item)' /\ loc'[h].item = loc[h].item
<1> USE DEF StagedInv, ObjectsInv, TypeInv, HandlersOK
<1>1. \/ InsertMedia(h) /\ Go(h, "mark_imported")
      \/ MarkItem(h) /\ pc[h] = "mark_imported" /\ Go(h, "unstage")
  <2>1. CASE \E q \in Requests : Begin(h, q)
    BY <2>1, RequestType DEF Begin, Entry
  <2>2. CASE InsertMedia(h)
    BY <2>2 DEF InsertMedia, Go, Answer
  <2>3. CASE MarkItem(h)
    BY <2>3 DEF MarkItem, Mark, AfterMark, Go
  <2>4. CASE \/ FindStudent(h) \/ CountAvatars(h) \/ UploadOriginal(h) \/ UploadThumb(h)
             \/ UploadFails(h) \/ AnswerLost(h) \/ CleanUp(h)
    BY <2>4 DEF FindStudent, CountAvatars, UploadOriginal, UploadThumb, UploadFails, AnswerLost,
                CleanUp, Refused, Go, Keep, Answer
  <2>5. CASE Unlink(h) \/ UnlinkFails(h) \/ SetPrimary(h) \/ Stage(h) \/ InsertBatch(h) \/ Fail(h)
             \/ ReadItems(h) \/ Finish(h) \/ FindMedia(h) \/ SoftDelete(h)
    BY <2>5 DEF Unlink, UnlinkFails, SetPrimary, Stage, InsertBatch, Fail, ReadItems, Finish, FindMedia,
                SoftDelete, Go, Keep, Answer
  <2>6. CASE InsertItem(h)
    <3>1. Go(h, "items") \/ Answer(h)
      BY <2>6, Zenon DEF InsertItem
    <3> QED
      BY <3>1 DEF Go, Answer
  <2>7. CASE \/ NextItem(h) \/ KeepExisting(h) \/ ListExisting(h) \/ NextExisting(h) \/ GetObject(h)
             \/ GetFails(h) \/ MarkFails(h) \/ Unstage(h)
    BY <2>7 DEF NextItem, KeepExisting, ListExisting, NextExisting, GetObject, GetFails, MarkFails,
                Unstage, Go, Keep
  <2> QED
    BY <2>1, <2>2, <2>3, <2>4, <2>5, <2>6, <2>7 DEF Moves, Step
<1>2. loc' = loc
  BY <1>1 DEF Go
<1>3. CASE InsertMedia(h) /\ Go(h, "mark_imported")
  <2>1. pc[h] = "insert" /\ media' = Inserted(h)
    BY <1>3 DEF InsertMedia, Go, Answer
  <2>2. loc[h].media \in MediaIds
    BY <2>1, WhoType DEF Storing
  <2>3. media'[loc[h].media] # NoRow /\ media'[loc[h].media].item = loc[h].item
    <3>1. media'[loc[h].media] = [student |-> Who(h), primary |-> loc[h].primary, deleted |-> FALSE,
                                  item |-> loc[h].item]
      BY <2>1, <2>2 DEF Inserted, TablesOK
    <3>2. media'[loc[h].media] \in MediaRows
      <4>1. Who(h) \in Students
        BY <2>1, WhoType DEF Storing
      <4> QED
        BY <3>1, <4>1 DEF Locals, MediaRows
    <3>3. NoRow \notin MediaRows
      BY StudentMediaAssumption
    <3>4. media'[loc[h].media].item = loc[h].item
      BY <3>1
    <3> QED
      BY <3>2, <3>3, <3>4
  <2> QED
    BY <1>2, <2>2, <2>3 DEF Stored
<1>4. CASE MarkItem(h) /\ pc[h] = "mark_imported" /\ Go(h, "unstage")
  <2>1. loc[h].item \in ItemIds
    BY <1>4, WhoType DEF PerItem
  <2> QED
    BY <1>2, <1>4, <2>1, KeptStays DEF StagedOf
<1> QED
  BY <1>1, <1>3, <1>4

LEMMA StagedInvNext == StagedInv /\ [Next]_vars => StagedInv'
<1> SUFFICES ASSUME StagedInv, [Next]_vars PROVE StagedInv'
  OBVIOUS
<1>1. ObjectsInv'
  BY ObjectsInvNext DEF StagedInv
<1>2. CASE UNCHANGED <<media, item, objects, pc, loc>>
  BY <1>1, <1>2 DEF StagedInv, StagedUntilStored, StagedOf, Kept, Stored
<1>3. ASSUME NEW h \in Handlers, Moves(h) PROVE StagedInv'
  <2>1. StagedUntilStored'
    BY <1>3, StagedItems DEF StagedUntilStored, Kept, Stored
  <2>2. StagedOf(h)'
    BY <1>3, StagedRows, StoredMark DEF StagedOf, Stored
  <2>3. ASSUME NEW g \in Handlers \ {h} PROVE StagedOf(g)'
    <3>1. pc'[g] = pc[g] /\ loc'[g] = loc[g] /\ StagedOf(g)
      BY <1>3, OthersWait DEF StagedInv, ObjectsInv, TypeInv
    <3>2. pc[g] \in {"mark_imported", "unstage"} => loc[g].item \in ItemIds
      BY WhoType DEF StagedInv, ObjectsInv, TypeInv, PerItem
    <3>3. \A i \in ItemIds : (Kept(i) => Kept(i)') /\ (Stored(i) => Stored(i)')
      BY <1>3, KeptStays
    <3>4. pc'[g] \in {"mark_imported", "unstage"} => Stored(loc[g].item)'
      BY <3>1, <3>2, <3>3 DEF StagedOf, Stored
    <3> QED
      BY <3>1, <3>3, <3>4 DEF StagedOf
  <2> QED
    BY <1>1, <2>1, <2>2, <2>3 DEF StagedInv
<1> QED
  BY <1>2, <1>3, NobodyMoves

(* A file of a batch is in the object store until a picture was made of    *)
(* it, whatever fails and however confirmations overlap.                   *)
THEOREM StagedSafety == Spec => []StagedUntilStored
<1>1. Init => StagedInv
  BY ObjectsInvInit, LocalsType DEF Init, StagedInv, StagedUntilStored, StagedOf
<1>2. StagedInv => StagedUntilStored
  BY DEF StagedInv
<1> QED
  BY <1>1, <1>2, StagedInvNext, PTL DEF Spec

-----------------------------------------------------------------------------
(* Where a handler is tells which call it makes, unless it ends there.     *)
LEMMA CallOf ==
    ASSUME NEW h \in Handlers, Step(h)
    PROVE  /\ pc[h] # "idle"
           /\ pc[h] = "original" => UploadOriginal(h) \/ UploadFails(h) \/ Fail(h)
           /\ pc[h] = "thumb" => UploadThumb(h) \/ UploadFails(h) \/ Fail(h)
           /\ pc[h] = "insert" => InsertMedia(h) \/ AnswerLost(h) \/ Fail(h)
           /\ pc[h] = "cleanup" => CleanUp(h) \/ Fail(h)
           /\ pc[h] = "delete" => SoftDelete(h) \/ Fail(h)
           /\ pc[h] = "unlink" => Unlink(h) \/ UnlinkFails(h) \/ Fail(h)
           /\ pc[h] = "unstage" => Unstage(h) \/ Fail(h)
           /\ pc[h] = "rows" => ReadItems(h) \/ Fail(h)
           /\ pc[h] = "stage" => Stage(h) \/ Fail(h)
           /\ pc[h] = "batch" => InsertBatch(h) \/ Fail(h)
           /\ pc[h] = "items" => InsertItem(h) \/ Fail(h)
<1>1. /\ FindStudent(h) => pc[h] = "exists"
      /\ CountAvatars(h) => pc[h] = "count"
      /\ UploadOriginal(h) => pc[h] = "original"
      /\ UploadThumb(h) => pc[h] = "thumb"
      /\ UploadFails(h) => pc[h] \in {"original", "thumb"}
      /\ InsertMedia(h) => pc[h] = "insert"
      /\ AnswerLost(h) => pc[h] = "insert"
      /\ CleanUp(h) => pc[h] = "cleanup"
  BY DEF FindStudent, CountAvatars, UploadOriginal, UploadThumb, UploadFails, InsertMedia, AnswerLost, CleanUp
<1>2. /\ FindMedia(h) => pc[h] = "find"
      /\ SoftDelete(h) => pc[h] = "delete"
      /\ Unlink(h) => pc[h] = "unlink"
      /\ UnlinkFails(h) => pc[h] = "unlink"
      /\ SetPrimary(h) => pc[h] = "promote"
      /\ Stage(h) => pc[h] = "stage"
      /\ InsertBatch(h) => pc[h] = "batch"
      /\ Fail(h) => pc[h] # "idle"
  BY DEF FindMedia, SoftDelete, Unlink, UnlinkFails, SetPrimary, Stage, InsertBatch, Fail
<1>3. InsertItem(h) => pc[h] = "items"
  BY DEF InsertItem
<1>4. /\ ReadItems(h) => pc[h] = "rows"
      /\ NextItem(h) => pc[h] = "next"
      /\ KeepExisting(h) => pc[h] = "keep"
      /\ ListExisting(h) => pc[h] = "list"
      /\ NextExisting(h) => pc[h] = "replace"
      /\ GetObject(h) => pc[h] = "get"
      /\ GetFails(h) => pc[h] = "get"
      /\ Unstage(h) => pc[h] = "unstage"
      /\ Finish(h) => pc[h] = "finish"
  BY DEF ReadItems, NextItem, KeepExisting, ListExisting, NextExisting, GetObject, GetFails, Unstage, Finish
<1>5. /\ MarkItem(h) => pc[h] \in {"mark_skipped", "mark_unread", "mark_failed", "mark_imported"}
      /\ MarkFails(h) => pc[h] \in {"mark_unread", "mark_failed"}
  BY DEF MarkItem, MarkFails
<1> QED
  BY <1>1, <1>2, <1>3, <1>4, <1>5 DEF Step

(* A handler keeps its request until it has answered it. *)
LEMMA JobKept ==
    ASSUME HandlersOK, NEW h \in Handlers, Step(h)
    PROVE  job'[h] = job[h] \/ pc'[h] = "idle"
<1>1. CASE \E label : Go(h, label)
  BY <1>1 DEF Go
<1>2. CASE \E label, l : Keep(h, label, l)
  BY <1>2 DEF Keep
<1>3. CASE Answer(h)
  BY <1>3 DEF Answer, HandlersOK
<1> QED
  BY <1>1, <1>2, <1>3, WaysOn

LEMMA BatchStep ==
    ASSUME NEW h \in Handlers, Moves(h)
    PROVE  \/ batch' = batch
           \/ /\ pc[h] = "batch" /\ InsertBatch(h)
              /\ batch' = [batch EXCEPT ![job[h].batch] = "analyzed"]
           \/ /\ pc[h] = "finish" /\ Finish(h)
              /\ batch' = [batch EXCEPT ![job[h].batch] = "completed"]
<1>1. CASE \E q \in Requests : Begin(h, q)
  BY <1>1 DEF tables, Begin
<1>2. CASE \/ FindStudent(h) \/ CountAvatars(h) \/ UploadOriginal(h) \/ UploadThumb(h)
           \/ UploadFails(h) \/ CleanUp(h) \/ FindMedia(h) \/ Unlink(h) \/ UnlinkFails(h)
  BY <1>2 DEF tables, FindStudent, CountAvatars, UploadOriginal, UploadThumb, UploadFails, CleanUp,
              FindMedia, Unlink, UnlinkFails
<1>3. CASE Stage(h) \/ InsertItem(h) \/ ReadItems(h) \/ NextItem(h) \/ Fail(h) \/ MarkItem(h)
  BY <1>3 DEF tables, Stage, InsertItem, ReadItems, NextItem, Fail, MarkItem
<1>4. CASE \/ KeepExisting(h) \/ ListExisting(h) \/ NextExisting(h) \/ GetObject(h) \/ GetFails(h)
           \/ MarkFails(h) \/ Unstage(h)
  BY <1>4 DEF tables, KeepExisting, ListExisting, NextExisting, GetObject, GetFails, MarkFails, Unstage
<1>5. CASE InsertMedia(h) \/ AnswerLost(h) \/ SoftDelete(h) \/ SetPrimary(h)
  BY <1>5 DEF InsertMedia, AnswerLost, SoftDelete, SetPrimary
<1>6. CASE InsertBatch(h) \/ Finish(h)
  BY <1>6 DEF InsertBatch, Finish
<1> QED
  BY <1>1, <1>2, <1>3, <1>4, <1>5, <1>6 DEF Moves, Step

(* A handler that analyzes began so, or goes on with its batch. *)
LEMMA MoverAnalyzes ==
    ASSUME TypeInv, HandlersOK', NEW h \in Handlers, Moves(h), pc'[h] \in Analyzing
    PROVE  \/ /\ \E q \in Requests : Begin(h, q) /\ NewBatch(q.batch) /\ job'[h] = q
              /\ pc'[h] = "stage" /\ batch' = batch
           \/ /\ job'[h] = job[h]
              /\ \/ Stage(h) /\ pc[h] = "stage" /\ pc'[h] = "batch"
                 \/ InsertBatch(h) /\ pc[h] = "batch" /\ pc'[h] = "items"
                 \/ InsertItem(h) /\ pc[h] = "items" /\ pc'[h] = "items"
<1> USE DEF TypeInv
<1>1. pc \in [Handlers -> Labels] /\ job \in [Handlers -> Requests]
  BY DEF HandlersOK
<1>2. ASSUME NEW q \in Requests, Begin(h, q)
      PROVE  NewBatch(q.batch) /\ job'[h] = q /\ pc'[h] = "stage" /\ batch' = batch
  <2>1. pc'[h] = Entry[q.op] /\ job'[h] = q /\ batch' = batch
    BY <1>1, <1>2 DEF Begin, tables
  <2>2. q.op = "analyze" /\ Entry[q.op] = "stage"
    BY <2>1, RequestType DEF Entry, Analyzing
  <2> QED
    BY <1>2, <2>1, <2>2 DEF Begin
<1>3. CASE Step(h)
  <2>1. pc'[h] # "idle" /\ job'[h] = job[h]
    BY <1>3, JobKept DEF Analyzing
  <2>2. job[h].op = "analyze"
    BY <2>1 DEF HandlersOK, HandlerOK, Analyzing, Storing, Removing, PerItem, PerBatch
  <2>3. pc[h] \in Analyzing
    <3>1. HandlerOK(h) /\ pc[h] # "idle"
      BY <1>3, CallOf DEF HandlersOK
    <3> QED
      BY <2>2, <3>1 DEF HandlerOK
  <2>4. ~Fail(h)
    BY <1>1, <2>1 DEF Fail, Answer
  <2>5. Stage(h) /\ pc[h] = "stage" => pc'[h] = "batch"
    BY <1>1 DEF Stage, Keep
  <2>6. InsertBatch(h) => pc'[h] = "items"
    BY <1>1 DEF InsertBatch, Go
  <2>7. InsertItem(h) => pc'[h] = "items"
    <3>1. InsertItem(h) => Go(h, "items") \/ Answer(h)
      BY Zenon DEF InsertItem
    <3> QED
      BY <1>1, <2>1, <3>1 DEF Go, Answer
  <2> QED
    BY <1>3, <2>1, <2>3, <2>4, <2>5, <2>6, <2>7, CallOf DEF Analyzing
<1> QED
  BY <1>2, <1>3 DEF Moves

LEMMA NewItemKind ==
    ASSUME NEW f, NEW staged
    PROVE  NewItem(f, staged).status # "imported"
BY DEF NewItem, GuessStatus

(* The mover analyzes a batch of its own ... *)
LEMMA MoverAnalyzesOwn ==
    ASSUME LeftoverInv, HandlersOK', NEW h \in Handlers, Moves(h)
    PROVE  AnalyzesOwn(h)'
<1> USE DEF LeftoverInv, ObjectsInv, TypeInv
<1>1. \A g \in Handlers \ {h} : pc'[g] = pc[g] /\ job'[g] = job[g]
  BY OthersWait
<1>2. CASE pc'[h] \notin Analyzing
  BY <1>2 DEF AnalyzesOwn, Analyzing
<1>3. ASSUME NEW q \in Requests, NewBatch(q.batch), job'[h] = q, pc'[h] = "stage", batch' = batch
      PROVE  AnalyzesOwn(h)'
  <2>1. batch[q.batch] = NoRow
    BY <1>3 DEF NewBatch
  <2>2. ASSUME NEW g \in Handlers \ {h}, pc[g] \in Analyzing PROVE job[g].batch # q.batch
    <3>1. pc[g] # "idle" /\ job[g].op = "analyze"
      BY <2>2 DEF HandlersOK, HandlerOK, Storing, Removing, Analyzing, PerItem, PerBatch
    <3> QED
      BY <1>3, <3>1 DEF NewBatch
  <2> QED
    BY <1>1, <1>3, <2>1, <2>2 DEF AnalyzesOwn
<1>4. ASSUME job'[h] = job[h], pc[h] \in Analyzing,
             batch'[job[h].batch] = NoRow <=> pc'[h] # "items",
             pc'[h] \in {"batch", "items"} =>
                 \A i \in ItemIds : loc'[h].rows[i] # NoRow =>
                     i[1] = job[h].batch /\ loc'[h].rows[i].status # "imported"
      PROVE  AnalyzesOwn(h)'
  BY <1>1, <1>4 DEF AnalyzesOwn
<1>5. CASE job'[h] = job[h] /\ Stage(h) /\ pc[h] = "stage" /\ pc'[h] = "batch"
  <2>1. batch' = batch /\ batch[job[h].batch] = NoRow
    BY <1>5 DEF Stage, tables, AnalyzesOwn, Analyzing
  <2>2. ASSUME NEW i \in ItemIds, loc'[h].rows[i] # NoRow
        PROVE  i[1] = job[h].batch /\ loc'[h].rows[i].status # "imported"
    <3> DEFINE fresh(good) == [j \in ItemIds |->
                  IF j[1] = job[h].batch /\ j[2] \in DOMAIN job[h].files
                  THEN NewItem(job[h].files[j[2]], j[2] \in good) ELSE NoRow]
    <3>1. PICK good : Keep(h, "batch", [loc[h] EXCEPT !.rows = fresh(good)])
      BY <1>5 DEF Stage
    <3>2. loc'[h].rows = fresh(good)
      <4> HIDE DEF fresh
      <4> QED
        BY <3>1 DEF Keep, HandlersOK, Locals
    <3>3. i[1] = job[h].batch /\ loc'[h].rows[i] = NewItem(job[h].files[i[2]], i[2] \in good)
      BY <2>2, <3>2
    <3> QED
      BY <3>3, NewItemKind
  <2> QED
    BY <1>4, <1>5, <2>1, <2>2 DEF Analyzing
<1>6. CASE job'[h] = job[h] /\ InsertBatch(h) /\ pc[h] = "batch" /\ pc'[h] = "items"
  <2>1. batch' = [batch EXCEPT ![job[h].batch] = "analyzed"] /\ loc' = loc
    BY <1>6 DEF InsertBatch, Go
  <2>2. batch'[job[h].batch] # NoRow
    <3>1. job[h].batch \in Batches
      BY RequestType DEF HandlersOK
    <3>2. batch'[job[h].batch] \in {"analyzed", "completed", NoRow} /\ batch'[job[h].batch] = "analyzed"
      BY <2>1, <3>1 DEF TablesOK
    <3> QED
      BY <3>2, StudentMediaAssumption
  <2> QED
    BY <1>4, <1>6, <2>1, <2>2 DEF AnalyzesOwn, Analyzing
<1>7. CASE job'[h] = job[h] /\ InsertItem(h) /\ pc[h] = "items" /\ pc'[h] = "items"
  <2>1. batch' = batch
    BY <1>7, BatchStep
  <2>2. loc' = loc
    <3>1. Go(h, "items") \/ Answer(h)
      BY <1>7, Zenon DEF InsertItem
    <3> QED
      BY <1>7, <3>1 DEF Go, Answer, HandlersOK
  <2> QED
    BY <1>4, <1>7, <2>1, <2>2 DEF AnalyzesOwn, Analyzing
<1> QED
  BY <1>2, <1>3, <1>5, <1>6, <1>7, MoverAnalyzes

(* ... and nobody else begins with it. *)
LEMMA AnalyzesNext ==
    ASSUME LeftoverInv, HandlersOK', NEW h \in Handlers, Moves(h), NEW g \in Handlers
    PROVE  AnalyzesOwn(g)'
<1> USE DEF LeftoverInv, ObjectsInv, TypeInv
<1>1. CASE g = h
  BY <1>1, MoverAnalyzesOwn
<1>2. CASE g # h /\ pc[g] \notin Analyzing
  BY <1>2, OthersWait DEF AnalyzesOwn, Analyzing
<1>3. CASE g # h /\ pc[g] \in Analyzing
  <2>1. \A f \in Handlers \ {h} : UNCHANGED <<pc[f], job[f], loc[f]>>
    BY OthersWait
  <2>2. /\ job[g].batch \in Batches /\ job[h].batch \in Batches
        /\ batch \in [Batches -> {"analyzed", "completed", NoRow}]
    BY RequestType DEF HandlersOK, TablesOK
  <2>3. batch[job[g].batch] = NoRow => job[h].batch # job[g].batch \/ pc[h] \notin {"batch", "finish"}
    <3>1. pc[h] = "finish" => batch[job[h].batch] # NoRow
      BY DEF ConfirmsKnown, HandlersOK, HandlerOK, Importing, Storing, Removing, Analyzing, PerItem, PerBatch
    <3>2. pc[h] = "batch" => job[h].batch # job[g].batch
      BY <1>3 DEF AnalyzesOwn, Analyzing
    <3> QED
      BY <3>1, <3>2
  <2>4. batch'[job[g].batch] = NoRow <=> batch[job[g].batch] = NoRow
    BY <2>2, <2>3, BatchStep, StudentMediaAssumption
  <2>5. ASSUME pc'[h] \in Analyzing PROVE job'[h].batch # job[g].batch
    <3>1. CASE job'[h] = job[h] /\ pc[h] \in Analyzing
      BY <1>3, <3>1 DEF AnalyzesOwn
    <3>2. ASSUME NEW q \in Requests, NewBatch(q.batch), job'[h] = q
          PROVE  job'[h].batch # job[g].batch
      <4>1. pc[g] # "idle" /\ job[g].op = "analyze"
        BY <1>3 DEF HandlersOK, HandlerOK, Storing, Removing, Analyzing, PerItem, PerBatch
      <4> QED
        BY <3>2, <4>1 DEF NewBatch
    <3> QED
      BY <2>5, <3>1, <3>2, MoverAnalyzes DEF Analyzing
  <2>6. \A f \in Handlers \ {g} : pc'[f] \in Analyzing => job'[f].batch # job[g].batch
    BY <1>3, <2>1, <2>5 DEF AnalyzesOwn
  <2> QED
    BY <1>3, <2>1, <2>4, <2>6 DEF AnalyzesOwn
<1> QED
  BY <1>1, <1>2, <1>3

(* A batch that was inserted stays. *)
LEMMA BatchesStay ==
    ASSUME TypeInv, NEW h \in Handlers, Moves(h), NEW b \in Batches, batch[b] # NoRow
    PROVE  batch'[b] # NoRow
BY BatchStep, StudentMediaAssumption DEF TypeInv, TablesOK

LEMMA ConfirmsNext ==
    ASSUME LeftoverInv, HandlersOK', NEW h \in Handlers, Moves(h), NEW g \in Handlers
    PROVE  ConfirmsKnown(g)'
<1> USE DEF LeftoverInv, ObjectsInv, TypeInv
<1>1. job[g].batch \in Batches
  BY RequestType DEF HandlersOK
<1>2. CASE g # h
  <2>1. UNCHANGED <<pc[g], job[g], loc[g]>>
    BY <1>2, OthersWait
  <2> QED
    BY <1>1, <2>1, BatchesStay DEF ConfirmsKnown, Importing
<1>3. CASE g = h
  <2> SUFFICES ASSUME job'[h].op = "confirm", pc'[h] \notin {"idle", "rows"}
               PROVE  /\ batch'[job'[h].batch] # NoRow
                      /\ \A i \in ItemIds : loc'[h].rows[i] # NoRow => i[1] = job'[h].batch
    BY <1>3 DEF ConfirmsKnown, Importing
  <2>1. Step(h)
    <3>1. ASSUME NEW q \in Requests, Begin(h, q) PROVE FALSE
      <4>1. pc'[h] = Entry[q.op] /\ job'[h] = q
        BY <3>1 DEF Begin, HandlersOK
      <4> QED
        BY <4>1 DEF Entry
    <3> QED
      BY <3>1 DEF Moves
  <2>2. job'[h] = job[h] /\ Importing(h)
    BY <2>1, JobKept DEF Importing
  <2>3. pc[h] # "idle"
    BY <2>1, CallOf
  <2>4. CASE pc[h] # "rows"
    <3>1. batch[job[h].batch] # NoRow
      BY <2>2, <2>3, <2>4 DEF ConfirmsKnown
    <3>2. ~Stage(h) /\ ~ReadItems(h)
      BY <2>2, <2>4 DEF Stage, ReadItems, Importing, HandlersOK, HandlerOK, Storing, Removing,
                        Analyzing, PerItem, PerBatch
    <3>3. loc'[h].rows = loc[h].rows \/ \A i \in ItemIds : loc'[h].rows[i] = NoRow
      BY <3>2, RowsStep
    <3> QED
      BY <1>1, <1>3, <2>2, <2>3, <2>4, <3>1, <3>3, BatchesStay DEF ConfirmsKnown
  <2>5. CASE pc[h] = "rows"
    <3>1. ReadItems(h) /\ batch[job[h].batch] # NoRow /\ batch' = batch
      <4>1. ~Fail(h) /\ ~Answer(h)
        BY DEF Fail, Answer, HandlersOK
      <4> QED
        BY <2>1, <2>5, <4>1, CallOf DEF ReadItems, tables
    <3> DEFINE mine == ItemsOf(job[h].batch)
               read == [i \in ItemIds |-> IF i \in mine THEN item[i] ELSE NoRow]
    <3>2. loc'[h].rows = read
      <4>1. Keep(h, "next", [loc[h] EXCEPT !.todo = mine, !.rows = read])
        BY <3>1 DEF ReadItems
      <4> HIDE DEF read, mine
      <4> QED
        BY <4>1 DEF Keep, HandlersOK, Locals
    <3>3. \A i \in ItemIds : loc'[h].rows[i] # NoRow => i[1] = job[h].batch
      BY <3>2 DEF ItemsOf
    <3> QED
      BY <2>2, <3>1, <3>3
  <2> QED
    BY <2>4, <2>5
<1> QED
  BY <1>2, <1>3

(* An item is in a batch that was inserted before it. *)
LEMMA RegisteredNext ==
    ASSUME LeftoverInv, NEW h \in Handlers, Moves(h)
    PROVE  Registered'
<1> USE DEF LeftoverInv, ObjectsInv, TypeInv
<1> SUFFICES ASSUME NEW i \in ItemIds, item'[i] # NoRow PROVE batch[i[1]] # NoRow
  BY BatchesStay DEF Registered, ItemIds
<1>1. item \in [ItemIds -> ItemRows \cup {NoRow}]
  BY DEF TablesOK
<1>2. CASE item[i] # NoRow
  BY <1>2 DEF Registered
<1>3. ASSUME pc[h] = "items", loc[h].rows[i] # NoRow PROVE batch[i[1]] # NoRow
  BY <1>3 DEF AnalyzesOwn, Analyzing
<1>4. ASSUME pc[h] \in PerItem, i = loc[h].item PROVE batch[i[1]] # NoRow
  <2>1. Importing(h) /\ loc[h].rows[i] # NoRow
    BY <1>4 DEF HandlersOK, HandlerOK, Importing, Storing, Removing, Analyzing, PerItem, PerBatch
  <2> QED
    BY <1>4, <2>1 DEF ConfirmsKnown, PerItem
<1>5. CASE \E j \in ItemIds : pc[h] = "items" /\ item' = [item EXCEPT ![j] = loc[h].rows[j]]
  BY <1>1, <1>2, <1>3, <1>5
<1>6. CASE pc[h] \in PerItem /\ \E new : item' = [item EXCEPT ![loc[h].item] = new]
  BY <1>1, <1>2, <1>4, <1>6
<1> QED
  BY <1>2, <1>5, <1>6, ItemStep

-----------------------------------------------------------------------------
(* Objects come from three calls.                                          *)
LEMMA ObjectsGained ==
    ASSUME NEW h \in Handlers, Moves(h), NEW k \in objects', k \notin objects
    PROVE  \/ UploadOriginal(h) /\ k = Original(loc[h].media)
           \/ UploadThumb(h) /\ Go(h, "insert") /\ k = Thumb(loc[h].media)
           \/ Stage(h) /\ \E j \in Readable(job[h]) : k = Temp(<<job[h].batch, j>>)
<1>1. CASE \E q \in Requests : Begin(h, q)
  BY <1>1 DEF Begin
<1>2. CASE FindStudent(h) \/ CountAvatars(h) \/ UploadOriginal(h) \/ UploadThumb(h)
  BY <1>2 DEF FindStudent, CountAvatars, UploadOriginal, UploadThumb
<1>3. CASE UploadFails(h) \/ InsertMedia(h) \/ AnswerLost(h) \/ FindMedia(h) \/ SoftDelete(h) \/ SetPrimary(h)
  BY <1>3 DEF UploadFails, InsertMedia, AnswerLost, FindMedia, SoftDelete, SetPrimary
<1>4. CASE CleanUp(h) \/ Unlink(h) \/ UnlinkFails(h) \/ Unstage(h)
  BY <1>4 DEF CleanUp, Unlink, UnlinkFails, Unstage
<1>5. CASE Stage(h)
  BY <1>5 DEF Stage
<1>6. CASE InsertBatch(h) \/ InsertItem(h) \/ ReadItems(h) \/ NextItem(h) \/ Fail(h)
  BY <1>6 DEF InsertBatch, InsertItem, ReadItems, NextItem, Fail
<1>7. CASE \/ KeepExisting(h) \/ ListExisting(h) \/ NextExisting(h) \/ GetObject(h) \/ GetFails(h)
           \/ MarkItem(h) \/ MarkFails(h) \/ Finish(h)
  BY <1>7 DEF KeepExisting, ListExisting, NextExisting, GetObject, GetFails, MarkItem, MarkFails, Finish
<1> QED
  BY <1>1, <1>2, <1>3, <1>4, <1>5, <1>6, <1>7 DEF Moves, Step

(* The calls that are counted as faults, and one more of each other one.   *)
LEMMA CalmStep ==
    ASSUME faults \in Nat, NEW h \in Handlers, Moves(h)
    PROVE  /\ faults' \in Nat
           /\ faults' = 0 => /\ faults = 0
                            /\ ~UploadFails(h) /\ ~AnswerLost(h) /\ ~UnlinkFails(h) /\ ~Fail(h)
<1>0. Trouble => faults' \in Nat /\ faults' # 0
  BY DEF Trouble
<1>1. CASE \E q \in Requests : Begin(h, q)
  <2>1. faults' = faults /\ pc[h] = "idle"
    BY <1>1 DEF Begin, Calm
  <2>2. ~UploadFails(h) /\ ~AnswerLost(h) /\ ~UnlinkFails(h) /\ ~Fail(h)
    BY <2>1 DEF UploadFails, AnswerLost, UnlinkFails, Fail
  <2> QED
    BY <2>1, <2>2
<1>2. UploadFails(h) \/ AnswerLost(h) \/ UnlinkFails(h) \/ Fail(h) => Trouble
  BY DEF UploadFails, AnswerLost, UnlinkFails, Fail
<1>3. Step(h) => faults' = faults \/ Trouble
  <2>1. CASE \/ FindStudent(h) \/ CountAvatars(h) \/ UploadOriginal(h) \/ UploadThumb(h)
             \/ UploadFails(h) \/ InsertMedia(h) \/ AnswerLost(h) \/ CleanUp(h)
    BY <2>1 DEF FindStudent, CountAvatars, UploadOriginal, UploadThumb, UploadFails, InsertMedia, AnswerLost,
                CleanUp, Calm
  <2>2. CASE \/ FindMedia(h) \/ SoftDelete(h) \/ Unlink(h) \/ UnlinkFails(h) \/ SetPrimary(h)
             \/ Stage(h) \/ InsertBatch(h) \/ InsertItem(h) \/ Fail(h)
    BY <2>2 DEF FindMedia, SoftDelete, Unlink, UnlinkFails, SetPrimary, Stage, InsertBatch, InsertItem,
                Fail, Calm
  <2>3. CASE \/ ReadItems(h) \/ NextItem(h) \/ KeepExisting(h) \/ ListExisting(h)
             \/ NextExisting(h) \/ GetObject(h) \/ GetFails(h) \/ MarkItem(h) \/ MarkFails(h)
             \/ Unstage(h) \/ Finish(h)
    BY <2>3 DEF ReadItems, NextItem, KeepExisting, ListExisting, NextExisting, GetObject, GetFails,
                MarkItem, MarkFails, Unstage, Finish, Calm
  <2> QED
    BY <2>1, <2>2, <2>3 DEF Step
<1> QED
  BY <1>0, <1>1, <1>2, <1>3 DEF Moves

(* The objects of a picture have an owner after the step. *)
LEMMA PicturesOwned ==
    ASSUME LeftoverInv, NEW h \in Handlers, Moves(h), faults' = 0, NEW m \in MediaIds,
           Original(m) \in objects' \/ Thumb(m) \in objects'
    PROVE  PictureOwned(m)'
<1> USE DEF LeftoverInv, ObjectsInv, TypeInv
<1>1. /\ faults = 0 /\ ~UploadFails(h) /\ ~AnswerLost(h) /\ ~UnlinkFails(h) /\ ~Fail(h)
      /\ pc \in [Handlers -> Labels] /\ loc \in [Handlers -> Locals]
  BY CalmStep DEF HandlersOK
<1>2. \A g \in Handlers \ {h} : UNCHANGED <<pc[g], job[g], loc[g]>>
  BY OthersWait
<1>3. ASSUME pc'[h] \in {"thumb", "insert", "cleanup"}, loc'[h].media = m
      PROVE  PictureOwned(m)'
  BY <1>3 DEF PictureOwned
<1>4. CASE Original(m) \notin objects /\ Thumb(m) \notin objects
  <2>1. \/ UploadOriginal(h) /\ m = loc[h].media
        \/ UploadThumb(h) /\ Go(h, "insert") /\ m = loc[h].media
    <3>1. PICK k \in objects' : k \notin objects /\ k \in {Original(m), Thumb(m)}
      BY <1>4
    <3>2. \A i : k # Temp(i)
      BY <3>1 DEF Original, Thumb, Temp
    <3>3. /\ k = Original(loc[h].media) => m = loc[h].media
          /\ k = Thumb(loc[h].media) => m = loc[h].media
      BY <3>1 DEF Original, Thumb
    <3> QED
      BY <3>1, <3>2, <3>3, ObjectsGained
  <2>2. pc'[h] \in {"thumb", "insert"} /\ loc' = loc
    BY <1>1, <2>1 DEF UploadOriginal, Go
  <2> QED
    BY <1>3, <2>1, <2>2
<1>5. CASE Live(m)
  <2>1. RowKept(m) /\ media'[m] # NoRow
    BY <1>5, RowsKept DEF RowKept, Live
  <2>2. CASE media'[m].deleted
    <3>1. Deletes(h) /\ Target(h) = m
      <4>1. media' # media
        BY <1>5, <2>2 DEF Live
      <4>2. ~Inserts(h) \/ m # loc[h].media
        BY <1>5 DEF Inserts, Live, CreatesOwn, Creating, Storing
      <4>3. Inserts(h) => m = loc[h].media
        BY <1>5, <2>2 DEF Inserts, Inserted, Live
      <4>4. ~Promotes(h)
        <5> SUFFICES ASSUME Promotes(h) PROVE FALSE
          OBVIOUS
        <5>1. media'[m] = IF m \in Avatars(Who(h)) THEN [media[m] EXCEPT !.primary = m = job[h].media]
                                                    ELSE media[m]
          BY DEF Promotes, Promoted
        <5>2. media[m] \in MediaRows
          BY <1>5 DEF Live, TablesOK
        <5>3. [media[m] EXCEPT !.primary = m = job[h].media].deleted = media[m].deleted
          BY <5>2 DEF MediaRows
        <5> QED
          BY <1>5, <2>2, <5>1, <5>3 DEF Live
      <4>5. Deletes(h) => Target(h) = m
        <5> SUFFICES ASSUME Deletes(h), Target(h) # m PROVE FALSE
          OBVIOUS
        <5>1. media'[m] = media[m]
          BY DEF Deletes, TablesOK
        <5> QED
          BY <1>5, <2>2, <5>1 DEF Live
      <4> QED
        BY <4>1, <4>2, <4>3, <4>4, <4>5, MediaStep
    <3>2. SoftDelete(h)
      <4>1. pc[h] = "delete"
        BY <3>1 DEF Deletes
      <4>2. ~\E q \in Requests : Begin(h, q)
        BY <4>1 DEF Begin
      <4> QED
        BY <1>1, <4>1, <4>2, CallOf DEF Moves
    <3>3. pc'[h] = "unlink" /\ job' = job /\ loc' = loc
      BY <1>1, <3>1, <3>2 DEF SoftDelete, Deletes, Go
    <3>4. Target(h)' = m
      BY <3>1, <3>3 DEF Target, Importing
    <3> QED
      BY <3>3, <3>4 DEF PictureOwned
  <2> QED
    BY <2>1, <2>2 DEF PictureOwned, Live
<1>6. ASSUME NEW g \in Handlers, pc[g] \in {"thumb", "insert", "cleanup"}, loc[g].media = m
      PROVE  PictureOwned(m)'
  <2>1. CASE g # h
    BY <1>2, <1>6, <2>1 DEF PictureOwned
  <2>2. CASE g = h
    <3>0. Step(h)
      BY <1>6, <2>2 DEF Moves, Begin
    <3>1. CASE pc[h] = "thumb"
      <4>1. UploadThumb(h) /\ (Go(h, "insert") \/ Go(h, "cleanup"))
        BY <1>1, <3>0, <3>1, CallOf DEF UploadThumb
      <4>2. pc'[h] \in {"insert", "cleanup"} /\ loc' = loc
        BY <1>1, <4>1 DEF Go
      <4> QED
        BY <1>3, <1>6, <2>2, <4>2
    <3>2. CASE pc[h] = "insert"
      <4>1. InsertMedia(h)
        BY <1>1, <3>0, <3>2, CallOf
      <4>2. CASE Go(h, "cleanup")
        <5>1. pc'[h] = "cleanup" /\ loc' = loc
          BY <1>1, <4>2 DEF Go
        <5> QED
          BY <1>3, <1>6, <2>2, <5>1
      <4>3. CASE media' = Inserted(h)
        <5>1. media'[m] = [student |-> Who(h), primary |-> loc[h].primary, deleted |-> FALSE,
                           item |-> loc[h].item]
          BY <1>6, <2>2, <4>3 DEF Inserted, TablesOK
        <5>2. Who(h) \in Students
          BY <3>2, WhoType DEF Storing
        <5>3. media'[m] \in MediaRows /\ ~media'[m].deleted
          BY <5>1, <5>2 DEF HandlersOK, Locals, MediaRows
        <5> QED
          BY <5>3, StudentMediaAssumption DEF PictureOwned, Live
      <4> QED
        BY <4>1, <4>2, <4>3 DEF InsertMedia
    <3>3. CASE pc[h] = "cleanup"
      <4>1. CleanUp(h)
        BY <1>1, <3>0, <3>3, CallOf
      <4>2. objects' = objects \ {Original(m), Thumb(m)}
        BY <1>1, <1>6, <2>2, <4>1, <3>0, CalmStep DEF CleanUp, Trouble
      <4> QED
        BY <4>2
    <3> QED
      BY <1>6, <2>2, <3>1, <3>2, <3>3
  <2> QED
    BY <2>1, <2>2
<1>7. ASSUME NEW g \in Handlers, pc[g] = "unlink", Target(g) = m
      PROVE  PictureOwned(m)'
  <2>1. CASE g # h
    <3>1. UNCHANGED <<pc[g], job[g], loc[g]>>
      BY <1>2, <2>1
    <3>2. Target(g)' = m /\ pc'[g] = "unlink"
      BY <1>7, <3>1 DEF Target, Importing
    <3> QED
      BY <3>2 DEF PictureOwned
  <2>2. CASE g = h
    <3>1. Unlink(h)
      BY <1>1, <1>7, <2>2, CallOf DEF Moves, Begin
    <3> QED
      BY <1>7, <2>2, <3>1 DEF Unlink
  <2> QED
    BY <2>1, <2>2
<1> QED
  BY <1>1, <1>4, <1>5, <1>6, <1>7 DEF Owned, PictureOwned

(* A file that is staged has an owner after the step. *)
LEMMA FilesOwned ==
    ASSUME LeftoverInv, HandlersOK', NEW h \in Handlers, Moves(h), faults' = 0, NEW i \in ItemIds,
           Temp(i) \in objects'
    PROVE  FileOwned(i)'
<1> USE DEF LeftoverInv, ObjectsInv, TypeInv
<1>1. /\ faults = 0 /\ ~UploadFails(h) /\ ~AnswerLost(h) /\ ~UnlinkFails(h) /\ ~Fail(h)
      /\ pc \in [Handlers -> Labels] /\ loc \in [Handlers -> Locals]
      /\ item \in [ItemIds -> ItemRows \cup {NoRow}] /\ NoRow \notin ItemRows
  BY CalmStep, StudentMediaAssumption DEF HandlersOK, TablesOK
<1>2. \A g \in Handlers \ {h} : UNCHANGED <<pc[g], job[g], loc[g]>>
  BY OthersWait
<1>3. CASE item'[i] # NoRow /\ item'[i].status # "imported"
  BY <1>3 DEF FileOwned
<1>4. CASE Temp(i) \notin objects
  <2>1. Stage(h) /\ \E j \in Readable(job[h]) : Temp(i) = Temp(<<job[h].batch, j>>)
    <3>1. /\ Temp(i) # Original(loc[h].media)
          /\ Temp(i) # Thumb(loc[h].media)
      BY DEF Original, Thumb, Temp
    <3> QED
      BY <1>4, <3>1, ObjectsGained
  <2>2. i[1] = job[h].batch /\ i[2] \in DOMAIN job[h].files /\ pc[h] = "stage"
    BY <2>1 DEF Temp, Readable, Stage
  <2>3. item' = item /\ item[i] = NoRow
    <3>1. batch[job[h].batch] = NoRow
      BY <2>2 DEF AnalyzesOwn, Analyzing
    <3> QED
      BY <2>1, <2>2, <3>1 DEF Stage, tables, Registered
  <2>4. pc'[h] = "batch" /\ loc'[h].rows[i] # NoRow
    <3> DEFINE fresh(good) == [j \in ItemIds |->
                  IF j[1] = job[h].batch /\ j[2] \in DOMAIN job[h].files
                  THEN NewItem(job[h].files[j[2]], j[2] \in good) ELSE NoRow]
    <3>1. PICK good : Keep(h, "batch", [loc[h] EXCEPT !.rows = fresh(good)])
      BY <2>1 DEF Stage
    <3>2. loc'[h].rows = fresh(good) /\ pc'[h] = "batch"
      <4> HIDE DEF fresh
      <4> QED
        BY <1>1, <3>1 DEF Keep, Locals
    <3>3. loc'[h].rows[i] = NewItem(job[h].files[i[2]], i[2] \in good)
      BY <2>2, <3>2
    <3>4. NewItem(job[h].files[i[2]], i[2] \in good) \in ItemRows
      <4>1. job[h].files[i[2]].image \in Images
        BY <2>2, RequestType DEF HandlersOK
      <4> QED
        BY <4>1, NewItemType
    <3> QED
      BY <1>1, <3>2, <3>3, <3>4
  <2> QED
    BY <2>3, <2>4 DEF FileOwned
<1>5. ASSUME item[i] = NoRow \/ item[i].status # "imported",
             item'[i] # item[i]
      PROVE  FileOwned(i)'
  <2>1. ASSUME pc[h] = "items", item' = [item EXCEPT ![i] = loc[h].rows[i]], loc[h].rows[i] # NoRow
        PROVE  FileOwned(i)'
    <3>1. item'[i] # NoRow /\ item'[i].status # "imported"
      BY <1>1, <2>1 DEF AnalyzesOwn
    <3> QED
      BY <1>3, <3>1
  <2>2. ASSUME pc[h] \in PerItem, MarkItem(h), i = loc[h].item,
               NEW status, NEW student \in Students \cup {NoRow}, NEW final \in MediaIds \cup {NoRow},
               status \in {"imported", "skipped", "failed"},
               status = "imported" => pc'[h] = "unstage",
               item'[i] = Marked(h, status, student, final)
        PROVE  FileOwned(i)'
    <3>1. loc[h].rows[i] \in ItemRows
      BY <2>2, WhoType
    <3>2. item'[i] \in ItemRows /\ item'[i].status = status
      BY <2>2, <3>1 DEF Marked, ItemRows, Statuses
    <3>3. loc'[h] = loc[h]
      BY <2>2 DEF MarkItem, Mark, Go
    <3>4. CASE status = "imported"
      BY <2>2, <3>3, <3>4 DEF FileOwned
    <3>5. CASE status # "imported"
      BY <1>1, <1>3, <3>2, <3>5
    <3> QED
      BY <3>4, <3>5
  <2> QED
    <3>1. CASE \E j \in ItemIds : /\ pc[h] = "items" /\ item[j] = NoRow
                                  /\ item' = [item EXCEPT ![j] = loc[h].rows[j]] /\ loc[h].rows[j] # NoRow
      BY <1>1, <1>5, <2>1, <3>1
    <3>2. ASSUME pc[h] \in PerItem, MarkItem(h),
                 NEW status \in {"imported", "skipped", "failed"},
                 NEW student \in Students \cup {NoRow}, NEW final \in MediaIds \cup {NoRow},
                 status = "imported" => pc'[h] = "unstage",
                 item' = [item EXCEPT ![loc[h].item] = Marked(h, status, student, final)]
          PROVE  FileOwned(i)'
      <4>1. i = loc[h].item /\ item'[i] = Marked(h, status, student, final)
        BY <1>1, <1>5, <3>2
      <4> QED
        BY <2>2, <3>2, <4>1
    <3> QED
      BY <1>5, <3>1, <3>2, ItemStep
<1>6. CASE item[i] # NoRow /\ item[i].status # "imported"
  BY <1>3, <1>5, <1>6
<1>7. ASSUME NEW g \in Handlers, pc[g] \in {"batch", "items"}, item[i] = NoRow, loc[g].rows[i] # NoRow
      PROVE  FileOwned(i)'
  <2>1. CASE item'[i] # item[i]
    BY <1>5, <1>7, <2>1
  <2>2. CASE item'[i] = item[i] /\ g # h
    BY <1>2, <1>7, <2>2 DEF FileOwned
  <2>3. CASE item'[i] = item[i] /\ g = h
    <3>1. Step(h)
      BY <1>7, <2>3 DEF Moves, Begin
    <3>2. pc'[h] = "items" /\ loc' = loc
      <4>1. CASE pc[h] = "batch"
        <5>1. InsertBatch(h)
          BY <1>1, <3>1, <4>1, CallOf
        <5> QED
          BY <1>1, <5>1 DEF InsertBatch, Go
      <4>2. CASE pc[h] = "items"
        <5> DEFINE todo == {k \in 1 .. MaxFiles : /\ loc[h].rows[<<job[h].batch, k>>] # NoRow
                                                  /\ item[<<job[h].batch, k>>] = NoRow}
        <5>1. InsertItem(h)
          BY <1>1, <3>1, <4>2, CallOf
        <5>2. i[1] = job[h].batch /\ i[2] \in 1 .. MaxFiles /\ i = <<i[1], i[2]>>
          BY <1>7, <2>3 DEF AnalyzesOwn, ItemIds
        <5>3. i[2] \in todo
          BY <1>7, <2>3, <5>2
        <5>4. Go(h, "items")
          BY <5>1, <5>3, Zenon DEF InsertItem
        <5> QED
          BY <1>1, <5>4 DEF Go
      <4> QED
        BY <1>7, <2>3, <4>1, <4>2
    <3> QED
      BY <1>7, <2>3, <3>2 DEF FileOwned
  <2> QED
    BY <2>1, <2>2, <2>3
<1>8. ASSUME NEW g \in Handlers, pc[g] = "unstage", loc[g].item = i
      PROVE  FileOwned(i)'
  <2>1. CASE g # h
    BY <1>2, <1>8, <2>1 DEF FileOwned
  <2>2. CASE g = h
    <3>1. Unstage(h)
      BY <1>1, <1>8, <2>2, CallOf DEF Moves, Begin
    <3>2. objects' = objects \ {Temp(i)}
      <4>1. ~Trouble
        BY <1>1 DEF Trouble
      <4> QED
        BY <1>8, <2>2, <3>1, <4>1 DEF Unstage
    <3> QED
      BY <3>2
  <2> QED
    BY <2>1, <2>2
<1> QED
  BY <1>1, <1>4, <1>6, <1>7, <1>8 DEF Owned, FileOwned

LEMMA LeftoverInvInit == Init => LeftoverInv
BY ObjectsInvInit DEF Init, LeftoverInv, Registered, AnalyzesOwn, ConfirmsKnown, Owned, Analyzing

LEMMA LeftoverInvNext == LeftoverInv /\ [Next]_vars => LeftoverInv'
<1> SUFFICES ASSUME LeftoverInv, [Next]_vars PROVE LeftoverInv'
  OBVIOUS
<1>1. ObjectsInv' /\ HandlersOK'
  BY ObjectsInvNext DEF LeftoverInv, ObjectsInv, TypeInv
<1>2. CASE UNCHANGED <<media, item, batch, objects, faults, unsure, pc, job, loc>>
  BY <1>1, <1>2 DEF LeftoverInv, Registered, AnalyzesOwn, ConfirmsKnown, Importing, Owned, PictureOwned,
                    FileOwned, Live, Target
<1>3. ASSUME NEW h \in Handlers, Moves(h) PROVE LeftoverInv'
  <2>1. faults' \in Nat
    BY <1>3, CalmStep DEF LeftoverInv
  <2>2. Registered'
    BY <1>3, RegisteredNext
  <2>3. \A g \in Handlers : AnalyzesOwn(g)' /\ ConfirmsKnown(g)'
    BY <1>1, <1>3, AnalyzesNext, ConfirmsNext
  <2>4. faults' = 0 => Owned'
    BY <1>1, <1>3, PicturesOwned, FilesOwned DEF Owned
  <2> QED
    BY <1>1, <2>1, <2>2, <2>3, <2>4 DEF LeftoverInv
<1> QED
  BY <1>2, <1>3, NobodyMoves

(* While no call has failed, uploads, deletions and imports that overlap   *)
(* leave no object behind: what is in the store when they are done belongs *)
(* to a live picture or to a file that is still to be imported.            *)
THEOREM NoLeftoversSafety == Spec => []NoLeftovers
<1>1. LeftoverInv => NoLeftovers
  <2> SUFFICES ASSUME LeftoverInv, faults = 0, \A h \in Handlers : pc[h] = "idle", NEW k \in objects
               PROVE  \/ \E m \in MediaIds : Live(m) /\ k \in {Original(m), Thumb(m)}
                      \/ \E i \in ItemIds : k = Temp(i) /\ item[i] # NoRow /\ item[i].status # "imported"
    BY DEF NoLeftovers
  <2>1. Owned /\ k \in Keys
    BY DEF LeftoverInv, ObjectsInv, TypeInv, TablesOK
  <2>2. CASE \E m \in MediaIds : k = Original(m) \/ k = Thumb(m)
    BY <2>1, <2>2 DEF Owned, PictureOwned
  <2>3. CASE \E i \in ItemIds : k = Temp(i)
    BY <2>1, <2>3 DEF Owned, FileOwned
  <2> QED
    BY <2>1, <2>2, <2>3 DEF Keys, Original, Thumb, Temp
<1> QED
  BY <1>1, LeftoverInvInit, LeftoverInvNext, PTL DEF Spec
=============================================================================
