---------------------------- MODULE StudentMedia ----------------------------
(***************************************************************************)
(* Avatars of students and their import in batches (internal/media).       *)
(*                                                                         *)
(* A picture is a row of student_media and two objects of the object       *)
(* store, the original and its thumbnail.  A handler calls the database    *)
(* and the object store in turn, without a transaction over both: each     *)
(* step below is one call, and other handlers run between two of them.     *)
(* What goes wrong on the way is counted in faults.                        *)
(***************************************************************************)
EXTENDS Naturals, Sequences, FiniteSets

CONSTANTS Handlers,       \* requests that are handled at the same time
          Students, MediaIds, Batches,
          Codes, Names,   \* what a file name may contain
          CodeOf, NameOf, \* code and normalized name of each student
          Requests,       \* requests that clients send
          NoRow,
          MaxFiles,       \* files of a batch
          MaxRequests,    \* bound: requests received
          MaxGone,        \* bound: students deleted
          MaxFaults       \* bound: calls that fail

VARIABLES media,          \* table student_media
          item, batch,    \* tables media_import_batch_items, media_import_batches
          objects,        \* keys of the objects in the store
          gone,           \* students that are deleted
          received, faults,
          unsure,         \* history: rows whose INSERT was done but answered with an error
          pc, job, loc    \* next call, request and locals of a handler

tables == <<media, item, batch>>
env == <<gone, received>>
vars == <<tables, objects, env, faults, unsure, pc, job, loc>>

-----------------------------------------------------------------------------
ItemIds == Batches \X (1 .. MaxFiles)
Keys == {<<role, m>> : role \in {"original", "thumb"}, m \in MediaIds}
            \cup {<<"temp", i>> : i \in ItemIds}
Original(m) == <<"original", m>>
Thumb(m) == <<"thumb", m>>
Temp(i) == <<"temp", i>>

Images == {"picture", "broken", "other"}   \* what the bytes of a file turn out to be
Statuses == {"matched", "ambiguous", "unmatched", "imported", "failed", "skipped"}
MediaRows == [student : Students, primary : BOOLEAN, deleted : BOOLEAN,
              item : ItemIds \cup {NoRow}]   \* item: which file it was made of
ItemRows == [status : Statuses, student : Students \cup {NoRow},
             final : MediaIds \cup {NoRow}, staged : BOOLEAN, image : Images]

ASSUME StudentMediaAssumption ==
    /\ CodeOf \in [Students -> Codes]
    /\ NameOf \in [Students -> Names]
    /\ MaxFiles \in Nat
    /\ Requests # {}
    /\ \A q \in Requests :
          /\ q.op \in {"upload", "delete", "primary", "analyze", "confirm"}
          /\ q.student \in Students /\ q.media \in MediaIds /\ q.batch \in Batches
          /\ q.image \in Images
          /\ DOMAIN q.files \subseteq 1 .. MaxFiles
          /\ \A k \in DOMAIN q.files : q.files[k].image \in Images
          /\ q.picks \in [ItemIds -> Students \cup {NoRow}]
    /\ NoRow \notin MediaRows \cup ItemRows \cup Students \cup MediaIds \cup ItemIds
                    \cup Codes \cup Names \cup {"analyzed", "completed"}

Live(m) == media[m] # NoRow /\ ~media[m].deleted
Avatars(s) == {m \in MediaIds : Live(m) /\ media[m].student = s}
Primary(s) == {m \in Avatars(s) : media[m].primary}
ItemsOf(b) == {i \in ItemIds : i[1] = b /\ item[i] # NoRow}

(* generateMediaID: nobody uses it yet. *)
Unused == {m \in MediaIds : /\ media[m] = NoRow
                            /\ {Original(m), Thumb(m)} \cap objects = {}
                            /\ \A h \in Handlers : loc[h].media # m}

(* matchAvatarImportStudent: by the code in the file name, else by a name  *)
(* that only one student has.                                              *)
ByCode(f) == {s \in Students \ gone : CodeOf[s] = f.code}
ByName(f) == {s \in Students \ gone : NameOf[s] = f.name}
Guess(f) == IF ByCode(f) # {} THEN ByCode(f) ELSE ByName(f)
GuessStatus(f) == CASE Cardinality(Guess(f)) = 0 -> "unmatched"
                    [] Cardinality(Guess(f)) = 1 -> "matched"
                    [] OTHER -> "ambiguous"

-----------------------------------------------------------------------------
Nothing == [media |-> NoRow, primary |-> FALSE, item |-> NoRow, todo |-> {},
            rows |-> [i \in ItemIds |-> NoRow], replaced |-> {}, doomed |-> {}]
AnyRequest == CHOOSE q \in Requests : TRUE

Init ==
    /\ media = [m \in MediaIds |-> NoRow]
    /\ item = [i \in ItemIds |-> NoRow]
    /\ batch = [b \in Batches |-> NoRow]
    /\ objects = {}
    /\ gone = {}
    /\ received = 0
    /\ faults = 0
    /\ unsure = {}
    /\ pc = [h \in Handlers |-> "idle"]
    /\ job = [h \in Handlers |-> AnyRequest]
    /\ loc = [h \in Handlers |-> Nothing]

Go(h, label) == pc' = [pc EXCEPT ![h] = label] /\ UNCHANGED <<job, loc, env>>
Keep(h, label, l) ==
    /\ pc' = [pc EXCEPT ![h] = label]
    /\ loc' = [loc EXCEPT ![h] = l]
    /\ UNCHANGED <<job, env>>

(* The response, an error or not: what was done before stays. *)
Answer(h) ==
    /\ pc' = [pc EXCEPT ![h] = "idle"]
    /\ job' = [job EXCEPT ![h] = AnyRequest]
    /\ loc' = [loc EXCEPT ![h] = Nothing]
    /\ UNCHANGED env

Calm == UNCHANGED <<faults, unsure>>
Trouble == faults < MaxFaults /\ faults' = faults + 1

Entry == [upload |-> "exists", delete |-> "find", primary |-> "find",
          analyze |-> "stage", confirm |-> "rows"]

(* The id of a batch is generated as well. *)
NewBatch(b) ==
    /\ batch[b] = NoRow
    /\ \A k \in objects : \A i \in ItemIds : k = Temp(i) => i[1] # b
    /\ \A h \in Handlers : pc[h] = "idle" \/ job[h].op # "analyze" \/ job[h].batch # b

(* A request that is allowed arrives.  An upload whose content is no image *)
(* is refused at once (httpDetectContentType).                             *)
Begin(h, q) ==
    /\ pc[h] = "idle"
    /\ received < MaxRequests
    /\ q.op = "upload" => q.image # "other"
    /\ q.op = "analyze" => NewBatch(q.batch)
    /\ received' = received + 1
    /\ pc' = [pc EXCEPT ![h] = Entry[q.op]]
    /\ job' = [job EXCEPT ![h] = q]
    /\ UNCHANGED <<tables, objects, gone, loc>>
    /\ Calm

-----------------------------------------------------------------------------
(* storeAvatarBytes, for an upload and for an item of a batch.             *)
Importing(h) == job[h].op = "confirm"
Who(h) == IF Importing(h) THEN job[h].picks[loc[h].item] ELSE job[h].student
Image(h) == IF Importing(h) THEN loc[h].rows[loc[h].item].image ELSE job[h].image

(* An error of storeAvatarBytes fails the upload, or marks the item. *)
Refused(h) == IF Importing(h) THEN Go(h, "mark_failed") ELSE Answer(h)

(* StudentExists, GetStudentIdentity, and the id of the new picture. *)
FindStudent(h) ==
    /\ pc[h] = "exists"
    /\ Unused # {}
    /\ IF Who(h) \in gone THEN Refused(h)
       ELSE Keep(h, "count", [loc[h] EXCEPT !.media = CHOOSE m \in Unused : TRUE])
    /\ UNCHANGED <<tables, objects>> /\ Calm

(* The first picture of a student is the primary one. *)
CountAvatars(h) ==
    /\ pc[h] = "count"
    /\ Keep(h, "original", [loc[h] EXCEPT !.primary = Avatars(Who(h)) = {}])
    /\ UNCHANGED <<tables, objects>> /\ Calm

UploadOriginal(h) ==
    /\ pc[h] = "original"
    /\ objects' = objects \cup {Original(loc[h].media)}
    /\ Go(h, "thumb")
    /\ UNCHANGED tables /\ Calm

(* buildAvatarThumbnail refuses what it cannot decode. *)
UploadThumbIfAny(h) ==
    /\ pc[h] = "thumb"
    /\ objects' = IF Image(h) = "broken" THEN objects ELSE objects \cup {Thumb(loc[h].media)}
    /\ Go(h, "insert")
    /\ UNCHANGED tables /\ Calm
UploadThumb(h) ==
    /\ pc[h] = "thumb"
    /\ IF Image(h) = "broken"
       THEN Go(h, "cleanup") /\ UNCHANGED objects
       ELSE Go(h, "insert") /\ objects' = objects \cup {Thumb(loc[h].media)}
    /\ UNCHANGED tables /\ Calm

UploadFails(h) ==
    /\ \/ pc[h] = "original" /\ Refused(h)
       \/ pc[h] = "thumb" /\ Go(h, "cleanup")
    /\ Trouble
    /\ UNCHANGED <<tables, objects, unsure>>

(* The unique index on the primary picture of a student. *)
SecondPrimaryNot(s, primary) == FALSE
SecondPrimary(s, primary) == primary /\ Primary(s) # {}

Inserted(h) == [media EXCEPT ![loc[h].media] =
                   [student |-> Who(h), primary |-> loc[h].primary, deleted |-> FALSE,
                    item |-> loc[h].item]]

InsertMedia(h) ==
    /\ pc[h] = "insert"
    /\ IF SecondPrimary(Who(h), loc[h].primary)
       THEN Go(h, "cleanup") /\ UNCHANGED media
       ELSE /\ media' = Inserted(h)
            /\ IF Importing(h) THEN Go(h, "mark_imported") ELSE Answer(h)
    /\ UNCHANGED <<item, batch, objects>> /\ Calm

(* The row is inserted but the answer of the database is lost. *)
AnswerLost(h) ==
    /\ pc[h] = "insert"
    /\ ~SecondPrimary(Who(h), loc[h].primary)
    /\ Trouble
    /\ media' = Inserted(h)
    /\ unsure' = unsure \cup {loc[h].media}
    /\ Go(h, "cleanup")
    /\ UNCHANGED <<item, batch, objects>>

(* The objects of a picture that was not inserted are deleted; an error of *)
(* DeleteObject is ignored.                                                *)
CleanUpOriginal(h) ==
    /\ pc[h] = "cleanup"
    /\ objects' = objects \ {Original(loc[h].media)}
    /\ Refused(h)
    /\ UNCHANGED tables /\ Calm
CleanUp(h) ==
    /\ pc[h] = "cleanup"
    /\ LET left == {Original(loc[h].media), Thumb(loc[h].media)}
       IN \/ objects' = objects \ left /\ UNCHANGED faults
          \/ Trouble /\ \E k \in left : objects' = objects \ (left \ {k})
    /\ Refused(h)
    /\ UNCHANGED <<tables, unsure>>

-----------------------------------------------------------------------------
(* DeleteAvatar, for a request and for the pictures an import replaces.    *)
Target(h) == IF Importing(h) THEN loc[h].media ELSE job[h].media
Listed(h, m) == Live(m) /\ media[m].student = Who(h)

(* GetStudentMediaByID, also of SetPrimaryAvatar. *)
FindMedia(h) ==
    /\ pc[h] = "find"
    /\ IF ~Listed(h, Target(h)) THEN Answer(h)
       ELSE Go(h, IF job[h].op = "primary" THEN "promote" ELSE "delete")
    /\ UNCHANGED <<tables, objects>> /\ Calm

SoftDelete(h) ==
    /\ pc[h] = "delete"
    /\ IF ~Listed(h, Target(h))
       THEN Answer(h) /\ UNCHANGED media
       ELSE /\ media' = [media EXCEPT ![Target(h)].deleted = TRUE, ![Target(h)].primary = FALSE]
            /\ Go(h, "unlink")
    /\ UNCHANGED <<item, batch, objects>> /\ Calm

Unlink(h) ==
    /\ pc[h] = "unlink"
    /\ objects' = objects \ {Original(Target(h)), Thumb(Target(h))}
    /\ IF Importing(h) THEN Go(h, "replace") ELSE Answer(h)
    /\ UNCHANGED tables /\ Calm

(* An error ends the request, an import too. *)
UnlinkFails(h) ==
    /\ pc[h] = "unlink"
    /\ Trouble
    /\ \/ UNCHANGED objects
       \/ objects' = objects \ {Original(Target(h))}
    /\ Answer(h)
    /\ UNCHANGED <<tables, unsure>>

(* SetPrimaryAvatar: one transaction demotes the pictures of the student   *)
(* and promotes one; when that one is gone it is rolled back.              *)
Promoted(s, m) ==
    [n \in MediaIds |-> IF n \in Avatars(s) THEN [media[n] EXCEPT !.primary = n = m]
                                            ELSE media[n]]

SetPrimary(h) ==
    /\ pc[h] = "promote"
    /\ media' = IF Listed(h, job[h].media) THEN Promoted(Who(h), job[h].media) ELSE media
    /\ Answer(h)
    /\ UNCHANGED <<item, batch, objects>> /\ Calm

-----------------------------------------------------------------------------
(* AnalyzeAvatarImport: the files are staged under temporary keys, then    *)
(* the batch and its items are inserted, one statement each.               *)
NewItem(f, staged) ==
    [status |-> IF staged THEN GuessStatus(f) ELSE "failed",
     student |-> IF staged /\ GuessStatus(f) = "matched" THEN CHOOSE s \in Guess(f) : TRUE
                                                         ELSE NoRow,
     final |-> NoRow, staged |-> staged, image |-> f.image]

Readable(q) == {k \in DOMAIN q.files : q.files[k].image # "other"}

Stage(h) ==
    /\ pc[h] = "stage"
    /\ LET q == job[h]
       IN \E good \in SUBSET Readable(q) :
            /\ IF good = Readable(q) THEN UNCHANGED faults ELSE Trouble
            /\ objects' = objects \cup {Temp(<<q.batch, k>>) : k \in good}
            /\ Keep(h, "batch", [loc[h] EXCEPT !.rows =
                    [i \in ItemIds |-> IF i[1] = q.batch /\ i[2] \in DOMAIN q.files
                                       THEN NewItem(q.files[i[2]], i[2] \in good)
                                       ELSE NoRow]])
    /\ UNCHANGED <<tables, unsure>>

InsertBatch(h) ==
    /\ pc[h] = "batch"
    /\ batch' = [batch EXCEPT ![job[h].batch] = "analyzed"]
    /\ Go(h, "items")
    /\ UNCHANGED <<media, item, objects>> /\ Calm

InsertItem(h) ==
    /\ pc[h] = "items"
    /\ LET todo == {k \in 1 .. MaxFiles : /\ loc[h].rows[<<job[h].batch, k>>] # NoRow
                                          /\ item[<<job[h].batch, k>>] = NoRow}
       IN IF todo = {}
          THEN Answer(h) /\ UNCHANGED item
          ELSE LET i == <<job[h].batch, CHOOSE k \in todo : \A j \in todo : k <= j>>
               IN item' = [item EXCEPT ![i] = loc[h].rows[i]] /\ Go(h, "items")
    /\ UNCHANGED <<media, batch, objects>> /\ Calm

-----------------------------------------------------------------------------
(* ConfirmAvatarImport: the items are read once, and written back one by   *)
(* one, whole, from what was read.                                         *)
ReadItems(h) ==
    /\ pc[h] = "rows"
    /\ IF batch[job[h].batch] = NoRow THEN Answer(h)
       ELSE LET mine == ItemsOf(job[h].batch)
            IN Keep(h, "next", [loc[h] EXCEPT !.todo = mine,
                    !.rows = [i \in ItemIds |-> IF i \in mine THEN item[i] ELSE NoRow]])
    /\ UNCHANGED <<tables, objects>> /\ Calm

(* Items that were not picked, and items that are imported, are passed     *)
(* over.                                                                   *)
Due(h, i) == job[h].picks[i] # NoRow /\ loc[h].rows[i].status # "imported"

NextItem(h) ==
    /\ pc[h] = "next"
    /\ IF \A i \in loc[h].todo : ~Due(h, i) THEN Go(h, "finish")
       ELSE \E i \in loc[h].todo :
                /\ Due(h, i)
                /\ Keep(h, IF job[h].strategy = "keep" THEN "keep"
                           ELSE IF job[h].picks[i] \in loc[h].replaced THEN "get"
                           ELSE "list",
                        [loc[h] EXCEPT !.item = i, !.media = NoRow,
                                       !.todo = {j \in @ : j # i /\ Due(h, j)}])
    /\ UNCHANGED <<tables, objects>> /\ Calm

(* The student already has a picture to keep ... *)
KeepExisting(h) ==
    /\ pc[h] = "keep"
    /\ Go(h, IF Avatars(Who(h)) = {} THEN "get" ELSE "mark_skipped")
    /\ UNCHANGED <<tables, objects>> /\ Calm

(* ... or the pictures of the student are replaced: all that there are now *)
(* are deleted, one after the other, before the file is read.              *)
ListExisting(h) ==
    /\ pc[h] = "list"
    /\ Keep(h, "replace", [loc[h] EXCEPT !.doomed = Avatars(Who(h))])
    /\ UNCHANGED <<tables, objects>> /\ Calm

NextExisting(h) ==
    /\ pc[h] = "replace"
    /\ IF loc[h].doomed = {}
       THEN Keep(h, "get", [loc[h] EXCEPT !.replaced = @ \cup {Who(h)}, !.media = NoRow])
       ELSE \E m \in loc[h].doomed :
                Keep(h, "find", [loc[h] EXCEPT !.media = m, !.doomed = @ \ {m}])
    /\ UNCHANGED <<tables, objects>> /\ Calm

GetObject(h) ==
    /\ pc[h] = "get"
    /\ Go(h, IF Temp(loc[h].item) \in objects THEN "exists" ELSE "mark_unread")
    /\ UNCHANGED <<tables, objects>> /\ Calm

GetFails(h) ==
    /\ pc[h] = "get"
    /\ Trouble
    /\ Go(h, "mark_unread")
    /\ UNCHANGED <<tables, objects, unsure>>

(* UpdateMediaImportBatchItem; only a file that was imported is then       *)
(* deleted.                                                                *)
AfterMarkAlways(status) == "unstage"
AfterMark(status) == IF status = "imported" THEN "unstage" ELSE "next"

Mark(h, status, student, final) ==
    LET i == loc[h].item
    IN /\ item' = [item EXCEPT ![i] = [loc[h].rows[i] EXCEPT !.status = status,
                                                             !.student = student,
                                                             !.final = final]]
       /\ Go(h, AfterMark(status))

MarkItem(h) ==
    /\ LET old == loc[h].rows[loc[h].item]
       IN \/ pc[h] = "mark_skipped" /\ Mark(h, "skipped", Who(h), old.final)
          \/ pc[h] = "mark_unread" /\ Mark(h, "failed", old.student, old.final)
          \/ pc[h] = "mark_failed" /\ Mark(h, "failed", Who(h), old.final)
          \/ pc[h] = "mark_imported" /\ Mark(h, "imported", Who(h), loc[h].media)
    /\ UNCHANGED <<media, batch, objects>> /\ Calm

(* The error of a mark other than imported or skipped is ignored. *)
MarkFails(h) ==
    /\ pc[h] \in {"mark_unread", "mark_failed"}
    /\ Trouble
    /\ Go(h, "next")
    /\ UNCHANGED <<tables, objects, unsure>>

(* The temporary object goes last; an error is ignored. *)
Unstage(h) ==
    /\ pc[h] = "unstage"
    /\ \/ objects' = objects \ {Temp(loc[h].item)} /\ UNCHANGED faults
       \/ Trouble /\ UNCHANGED objects
    /\ Go(h, "next")
    /\ UNCHANGED <<tables, unsure>>

Finish(h) ==
    /\ pc[h] = "finish"
    /\ batch' = [batch EXCEPT ![job[h].batch] = "completed"]
    /\ Answer(h)
    /\ UNCHANGED <<media, item, objects>> /\ Calm

-----------------------------------------------------------------------------
(* A handler ends between two calls: the server stops, the client goes     *)
(* away, or the database answers with an error that is not handled.        *)
Fail(h) ==
    /\ pc[h] # "idle"
    /\ Trouble
    /\ Answer(h)
    /\ UNCHANGED <<tables, objects, unsure>>

(* A push deletes a student. *)
DeleteStudent(s) ==
    /\ Cardinality(gone) < MaxGone
    /\ gone' = gone \cup {s}
    /\ UNCHANGED <<tables, objects, received, pc, job, loc>>
    /\ Calm

Step(h) ==
    \/ FindStudent(h) \/ CountAvatars(h) \/ UploadOriginal(h) \/ UploadThumb(h)
    \/ UploadFails(h) \/ InsertMedia(h) \/ AnswerLost(h) \/ CleanUp(h)
    \/ FindMedia(h) \/ SoftDelete(h) \/ Unlink(h) \/ UnlinkFails(h) \/ SetPrimary(h)
    \/ Stage(h) \/ InsertBatch(h) \/ InsertItem(h)
    \/ ReadItems(h) \/ NextItem(h) \/ KeepExisting(h) \/ ListExisting(h) \/ NextExisting(h)
    \/ GetObject(h) \/ GetFails(h) \/ MarkItem(h) \/ MarkFails(h) \/ Unstage(h) \/ Finish(h)
    \/ Fail(h)

Next ==
    \/ \E h \in Handlers, q \in Requests : Begin(h, q)
    \/ \E h \in Handlers : Step(h)
    \/ \E s \in Students : DeleteStudent(s)

Spec == Init /\ [][Next]_vars

-----------------------------------------------------------------------------
(* Properties.                                                             *)

(* The tables are well formed, and a student has at most one primary       *)
(* picture, which is live.                                                 *)
MediaTypeOK ==
    /\ media \in [MediaIds -> MediaRows \cup {NoRow}]
    /\ item \in [ItemIds -> ItemRows \cup {NoRow}]
    /\ batch \in [Batches -> {"analyzed", "completed", NoRow}]
    /\ objects \subseteq Keys
    /\ gone \subseteq Students
    /\ unsure \subseteq MediaIds
    /\ \A m \in MediaIds : media[m] # NoRow /\ media[m].primary => Live(m)
    /\ \A s \in Students : Cardinality(Primary(s)) <= 1

(* A picture that can be listed can be shown: a live row has its original  *)
(* and its thumbnail in the object store, whatever fails and whoever       *)
(* deletes at the same time.  The one exception is a row whose INSERT was  *)
(* done and answered with an error: the handler then deletes its objects.  *)
LiveHasObjects ==
    \A m \in MediaIds : Live(m) /\ m \notin unsure => {Original(m), Thumb(m)} \subseteq objects

(* A file of a batch is not lost: its temporary object is deleted only     *)
(* after a picture was made of it, so that confirming again can work.      *)
StagedUntilStored ==
    \A i \in ItemIds :
        item[i] # NoRow /\ item[i].staged /\ Temp(i) \notin objects =>
            \E m \in MediaIds : media[m] # NoRow /\ media[m].item = i

(* Nothing is left behind unless a call failed: when no request runs, the  *)
(* objects are those of live pictures and of files not yet imported.       *)
NoLeftovers ==
    faults = 0 /\ (\A h \in Handlers : pc[h] = "idle") =>
        \A k \in objects : \/ \E m \in MediaIds : Live(m) /\ k \in {Original(m), Thumb(m)}
                           \/ \E i \in ItemIds : /\ k = Temp(i)
                                                /\ item[i] # NoRow
                                                /\ item[i].status # "imported"
=============================================================================
