------------------------------- MODULE Catalog --------------------------------
(***************************************************************************)
(* What is for sale, and the files that belong to it: courses with their   *)
(* modules, lessons, videos and attachments, and ebooks.  Administrators   *)
(* keep rows in the database and objects in the bucket in step by hand:    *)
(* every handler makes a few calls to either, and no transaction spans     *)
(* them.  Any number of requests run at the same time.                     *)
(*                                                                         *)
(* A fault is a call to the database or the bucket that fails, or a crash  *)
(* in the middle of a request.                                             *)
(***************************************************************************)
EXTENDS Naturals, FiniteSets

CONSTANTS
  Courses, Modules, Lessons, Ebooks,   \* the ids that are given out
  ModuleOf, CourseOf,                  \* of a lesson, of a module
  Names,      \* the names of files
  Requests,   \* the requests that take more than one call
  None,
  MaxFaults   \* bound of a run

Products == Courses \cup Ebooks
Items    == Products \cup Modules \cup Lessons

\* Title, price and the like; is_published of a product, the order of a module
\* or a lesson; thumbnail_url and file_url.
Columns == {"title", "setting", "thumbnail", "file"}

AttachmentKeys == Lessons \X Names               \* lessons/attachments/<lesson>/<file name>
ProductKeys == Products \X {"thumbnail", "file"} \X Names
\* A video's key is new with every upload, and is called after the request.
Keys   == Requests \cup AttachmentKeys \cup ProductKeys
Values == Keys \cup {None}

ASSUME TreeAssumption == ModuleOf \in [Lessons -> Modules] /\ CourseOf \in [Modules -> Courses]
ASSUME NameAssumption ==
  /\ None \notin Keys \cup Items
  /\ Courses \cap Ebooks = {} /\ Modules \cap Lessons = {}
  /\ Products \cap (Modules \cup Lessons) = {}
  /\ Requests \cap (AttachmentKeys \cup ProductKeys) = {}
  /\ Items \cap (AttachmentKeys \cup ProductKeys) = {}
  /\ AttachmentKeys \cap ProductKeys = {}
ASSUME BoundAssumption == MaxFaults \in Nat

VARIABLES
  rows,       \* the items in the database
  born,       \* the ids given out so far
  row,        \* row[x]: the columns of x
  video,      \* video[l]: video_key of a lesson
  attached,   \* attached[k]: the row with file_key k, by the request that added it
  bought,     \* products with a purchase
  objects,    \* the objects in the bucket
  request,    \* request[r]: where it stands
  \* What happened:
  last,       \* last[x]: the columns of x as they were last asked for
  raced,      \* items written while another request had the row in hand
  condemned,  \* what a deletion began with that has not ended
  shared,     \* attachments whose name two requests used
  doubtful,   \* items with a video completed twice, or with another's file for a video (both
              \* of them), or whose picture was changed while a request had the row in hand
  lateOrder,  \* courses bought while their deletion was under way
  untidy,     \* products with an object that nothing will remove
  faults

tables == <<rows, born, row, video, attached>>
marks  == <<condemned, shared, doubtful, lateOrder>>
vars   == <<tables, bought, objects, request, last, raced, marks, untidy, faults>>

Product(x) == CASE x \in Products -> x
                [] x \in Modules  -> CourseOf[x]
                [] x \in Lessons  -> CourseOf[ModuleOf[x]]

Blank == [c \in Columns |-> None]
Fresh == [pc |-> "new", item |-> None, key |-> None, id |-> None, row |-> Blank,
          column |-> "title", doomed |-> {}, next |-> "done"]

Steps == {"new", "presigned", "uploaded", "put", "video", "attach", "detach", "picture", "read",
          "write", "retitle", "reorder", "count", "purge", "list", "delete", "done"}

RequestStates ==
  [pc : Steps, item : Items \cup {None}, key : Values, id : Requests \cup {None},
   row : [Columns -> Values], column : Columns, doomed : SUBSET Keys, next : Steps]

TypeOK ==
  /\ rows \subseteq born /\ born \subseteq Items
  /\ row \in [Items -> [Columns -> Values]]
  /\ video \in [Lessons -> Values]
  /\ attached \in [AttachmentKeys -> Requests \cup {None}]
  /\ bought \subseteq Products
  /\ objects \subseteq Keys
  /\ request \in [Requests -> RequestStates]
  /\ last \in [Items -> [Columns -> Values]]
  /\ raced \subseteq Items
  /\ condemned \subseteq Items \cup AttachmentKeys
  /\ shared \subseteq AttachmentKeys
  /\ doubtful \subseteq Items
  /\ lateOrder \subseteq Courses
  /\ untidy \subseteq Products
  /\ faults \in 0 .. MaxFaults

Init ==
  /\ rows = {} /\ born = {} /\ bought = {} /\ objects = {}
  /\ row = [x \in Items |-> Blank] /\ last = [x \in Items |-> Blank]
  /\ video = [l \in Lessons |-> None]
  /\ attached = [k \in AttachmentKeys |-> None]
  /\ request = [r \in Requests |-> Fresh]
  /\ raced = {} /\ condemned = {} /\ shared = {} /\ doubtful = {} /\ lateOrder = {}
  /\ untidy = {} /\ faults = 0

Fault   == faults < MaxFaults /\ faults' = faults + 1
NoFault == UNCHANGED faults

(***************************************************************************)
(* Requests                                                                *)
(***************************************************************************)
At(r, step) == request[r].pc = step

Active(r) == request[r].pc \notin {"new", "presigned", "uploaded", "done"}

OtherOn(r, p) == \E q \in Requests \ {r} : Active(q) /\ Product(request[q].item) = p

Enter(r, state) == At(r, "new") /\ request' = [request EXCEPT ![r] = state]

\* The request is alone, or beside another on the same product.
Beside(r, p) == IF OtherOn(r, p) THEN untidy \cup {p} ELSE untidy

Begin(r, state) == Enter(r, state) /\ untidy' = Beside(r, Product(state.item))

Go(r, step) == request' = [request EXCEPT ![r].pc = step]

End(r) == LET q == request[r] IN
  request' = [request EXCEPT ![r] = [Fresh EXCEPT !.pc = "done", !.item = q.item, !.key = q.key]]

\* Something may be left behind.
Spoil(r) == untidy' = untidy \cup {Product(request[r].item)}

\* To delete these objects, and then go on.
Purging(state, keys, next) ==
  LET doomed == keys \ {None} IN
  [state EXCEPT !.pc = IF doomed = {} THEN next ELSE "purge", !.doomed = doomed, !.next = next]

(***************************************************************************)
(* The tables                                                              *)
(***************************************************************************)
Parent(x) == IF x \in Modules THEN CourseOf[x] ELSE ModuleOf[x]

\* A row is created below a row that exists; a slug taken meanwhile is refused.
Insert(x) ==
  /\ x \notin born
  /\ x \notin Products => Parent(x) \in rows
  /\ rows' = rows \cup {x}
  /\ born' = born \cup {x}
  /\ UNCHANGED <<row, video, attached, bought, objects, request, last, raced, marks, untidy,
                 faults>>

InsertCourse(c) == Insert(c)
InsertModule(m) == Insert(m)
InsertLesson(l) == Insert(l)
InsertEbook(b)  == Insert(b)

GetCourse(c) == c \in rows
GetModule(m) == m \in rows
GetLesson(l) == l \in rows
GetEbook(b)  == b \in rows

GetByLessonID(l) == {k \in AttachmentKeys : k[1] = l /\ attached[k] # None}

\* GetStudentCurriculum: the lessons' videos and attachments.
Curriculum(c) ==
  LET lessons == {l \in Lessons \cap rows : Product(l) = c} IN
  {video[l] : l \in lessons} \cup UNION {GetByLessonID(l) : l \in lessons}

CountDependencies(c) == c \in bought

\* Another request has the row in hand.
InHand(r, x) == \E q \in Requests \ {r} : At(q, "write") /\ request[q].item = x

Set(x, column, value) ==
  /\ row' = [row EXCEPT ![x][column] = value]
  /\ last' = [last EXCEPT ![x][column] = value]

Race(r, x) == raced' = IF InHand(r, x) THEN raced \cup {x} ELSE raced

UpdateStatus(r, c) == GetCourse(c) /\ Set(c, "setting", r) /\ Race(r, c)

\* ON DELETE CASCADE.
Below(x) == {y \in Items : \/ y = x
                           \/ y \in Modules /\ CourseOf[y] = x
                           \/ y \in Lessons /\ (ModuleOf[y] = x \/ CourseOf[ModuleOf[y]] = x)}

Remove(x) == LET gone == Below(x) IN
  /\ rows' = rows \ gone
  /\ video' = [l \in Lessons |-> IF l \in gone THEN None ELSE video[l]]
  /\ attached' = [k \in AttachmentKeys |-> IF k[1] \in gone THEN None ELSE attached[k]]
  /\ row' = [y \in Items |-> IF y \in gone THEN Blank ELSE row[y]]
  /\ last' = [y \in Items |-> IF y \in gone THEN Blank ELSE last[y]]
  /\ UNCHANGED born

\* What the rows name in the bucket.
Named(x) ==
  CASE x \in Lessons  -> ({video[x]} \ {None}) \cup GetByLessonID(x)
    [] x \in Products -> {row[x].thumbnail, row[x].file} \ {None}
    [] OTHER          -> {}

(***************************************************************************)
(* Courses                                                                 *)
(***************************************************************************)
CreateCourse(c) == InsertCourse(c)

\* The whole row is read, and written as read but for what was asked for.
Edited(x, column, value) ==
  [Fresh EXCEPT !.pc = "write", !.item = x, !.row = [row[x] EXCEPT ![column] = value],
                !.column = column]

EditRow(r, x, column) ==
  /\ Begin(r, Edited(x, column, r))
  /\ UNCHANGED <<tables, bought, objects, last, raced, marks, faults>>

\* thumbnail_url may be edited like the rest, to a picture of another site; the
\* uploaded one stays in the bucket.
LinkPicture(r, c) ==
  /\ Enter(r, Edited(c, "thumbnail", None))
  /\ untidy' = IF row[c].thumbnail # None THEN untidy \cup {c} ELSE Beside(r, c)
  /\ UNCHANGED <<tables, bought, objects, last, raced, marks, faults>>

UpdateCourse(r, c) ==
  /\ GetCourse(c)
  /\ \/ \E column \in {"title", "setting"} : EditRow(r, c, column)
     \/ LinkPicture(r, c)

\* Unless permanent, a deletion takes the course off the list.
SoftDelete(r, c) ==
  /\ At(r, "new")
  /\ UpdateStatus(r, c)
  /\ request' = [request EXCEPT ![r] = [Fresh EXCEPT !.pc = "done", !.item = c]]
  /\ UNCHANGED <<rows, born, video, attached, bought, objects, marks, untidy, faults>>

PermanentDelete(r, c) ==
  /\ GetCourse(c)
  /\ Begin(r, [Fresh EXCEPT !.pc = "count", !.item = c, !.doomed = {row[c].thumbnail} \ {None}])
  /\ UNCHANGED <<tables, bought, objects, last, raced, marks, faults>>

\* A mistake to check against: the purchases are not counted.
CountNone(r) == LET c == request[r].item IN
  /\ At(r, "count")
  /\ request' = [request EXCEPT ![r] = Purging(@, @.doomed, "list")]
  /\ condemned' = condemned \cup {c}
  /\ UNCHANGED <<tables, bought, objects, last, raced, shared, doubtful, lateOrder, untidy, faults>>

Count(r) == LET c == request[r].item IN
  /\ At(r, "count")
  /\ IF CountDependencies(c)
       THEN End(r) /\ UNCHANGED condemned
       ELSE /\ request' = [request EXCEPT ![r] = Purging(@, @.doomed, "list")]
            /\ condemned' = condemned \cup {c}
  /\ UNCHANGED <<tables, bought, objects, last, raced, shared, doubtful, lateOrder, untidy, faults>>

\* A picture's name has the second in it: nothing goes by the name yet.
Unused(k) ==
  /\ k \notin objects
  /\ \A x \in Items : row[x].thumbnail # k
  /\ \A q \in Requests : k \notin request[q].doomed \cup {request[q].key, request[q].row.thumbnail}

\* The picture named now is to be replaced.  How the task finds the file, and is
\* repeated, is the matter of Images.
QueueThumbnailUpdate(r, c, n) == LET k == <<c, "thumbnail", n>> IN
  /\ GetCourse(c)
  /\ Unused(k)
  /\ Begin(r, [Fresh EXCEPT !.pc = "put", !.item = c, !.key = k,
                            !.doomed = {row[c].thumbnail} \ {None}, !.next = "picture"])
  /\ UNCHANGED <<tables, bought, objects, last, raced, marks, faults>>

\* The worker writes the URL.  Even when it cannot, the picture named before goes.
SetThumbnail(r) == LET c == request[r].item IN
  /\ At(r, "picture")
  /\ request' = [request EXCEPT ![r] = Purging(@, @.doomed, "done")]
  /\ \/ /\ GetCourse(c)
        /\ Set(c, "thumbnail", request[r].key)
        /\ Race(r, c)
        /\ doubtful' = IF InHand(r, c) THEN doubtful \cup {c} ELSE doubtful
        /\ NoFault
        /\ UNCHANGED untidy
     \/ /\ IF GetCourse(c) THEN Fault ELSE NoFault
        /\ doubtful' = doubtful \cup {c}
        /\ Spoil(r)
        /\ UNCHANGED <<row, last, raced>>
  /\ UNCHANGED <<rows, born, video, attached, bought, objects, condemned, shared, lateOrder>>

\* A row of purchases, of whatever status, refers to the product (Purchases).
Buy(p) ==
  /\ p \in rows \ bought
  /\ bought' = bought \cup {p}
  /\ lateOrder' = IF p \in condemned \cap Courses THEN lateOrder \cup {p} ELSE lateOrder
  /\ UNCHANGED <<tables, objects, request, last, raced, condemned, shared, doubtful, untidy, faults>>

HandleCreateCourse       == \E c \in Courses : CreateCourse(c)
HandleUpdateCourse(r)    == \E c \in Courses : UpdateCourse(r, c)
HandleDeleteCourse(r)    == \E c \in Courses : SoftDelete(r, c) \/ PermanentDelete(r, c)
HandleUpdateThumbnail(r) == \E c \in Courses, n \in Names : QueueThumbnailUpdate(r, c, n)

(***************************************************************************)
(* Modules                                                                 *)
(***************************************************************************)
CreateModule(m) == InsertModule(m)

\* The title, the order, or one after the other.
UpdateModule(r, m) ==
  /\ GetModule(m)
  /\ \E first \in {"retitle", "reorder"} :
       Begin(r, [Fresh EXCEPT !.pc = first, !.item = m])
  /\ UNCHANGED <<tables, bought, objects, last, raced, marks, faults>>

UpdateTitle(r) == LET m == request[r].item IN
  /\ At(r, "retitle")
  /\ IF GetModule(m) THEN Set(m, "title", r) /\ \E step \in {"reorder", "done"} : Go(r, step)
                     ELSE End(r) /\ UNCHANGED <<row, last>>
  /\ UNCHANGED <<rows, born, video, attached, bought, objects, raced, marks, untidy, faults>>

UpdateOrder(r) == LET m == request[r].item IN
  /\ At(r, "reorder")
  /\ IF GetModule(m) THEN Set(m, "setting", r) ELSE UNCHANGED <<row, last>>
  /\ End(r)
  /\ UNCHANGED <<rows, born, video, attached, bought, objects, raced, marks, untidy, faults>>

\* The rows below go, too; the objects of the lessons stay.
DeleteModule(m) ==
  /\ GetModule(m)
  /\ Remove(m)
  /\ untidy' = IF \E l \in Lessons : ModuleOf[l] = m /\ l \in rows
                 THEN untidy \cup {CourseOf[m]} ELSE untidy
  /\ UNCHANGED <<bought, objects, request, raced, marks, faults>>

HandleCreateModule    == \E m \in Modules : CreateModule(m)
HandleUpdateModule(r) == \E m \in Modules : UpdateModule(r, m)
HandleDeleteModule    == \E m \in Modules : DeleteModule(m)

(***************************************************************************)
(* Lessons                                                                 *)
(***************************************************************************)
CreateLesson(l) == InsertLesson(l)

UpdateLesson(r, l) ==
  /\ GetLesson(l)
  /\ \E column \in {"title", "setting"} : EditRow(r, l, column)

\* Its video first, then the attachments, then the row.
DeleteLesson(r, l) ==
  /\ GetLesson(l)
  /\ Begin(r, Purging([Fresh EXCEPT !.item = l], {video[l]}, "list"))
  /\ condemned' = condemned \cup {l}
  /\ UNCHANGED <<tables, bought, objects, last, raced, shared, doubtful, lateOrder, faults>>

\* A mistake to check against: whatever the row has is deleted, no key and the new one.
OldVideoAny(l, key) == {video[l]}

\* The video that the upload replaces, as the row has it now.
OldVideo(l, key) == {video[l]} \ {None, key}

\* A mistake to check against: the old video is deleted first.
UploadVideoOldFirst(r, l) ==
  /\ GetLesson(l)
  /\ Begin(r, Purging([Fresh EXCEPT !.item = l, !.key = r], OldVideo(l, r), "video"))
  /\ UNCHANGED <<tables, bought, objects, last, raced, marks, faults>>

UploadVideo(r, l) ==
  /\ GetLesson(l)
  /\ Begin(r, [Fresh EXCEPT !.pc = "put", !.item = l, !.key = r, !.doomed = OldVideo(l, r),
                            !.next = "video"])
  /\ UNCHANGED <<tables, bought, objects, last, raced, marks, faults>>

\* A URL for the client to put the video by itself,
GetVideoUploadURL(r, l) ==
  /\ GetLesson(l)
  /\ Begin(r, [Fresh EXCEPT !.pc = "presigned", !.item = l, !.key = r])
  /\ UNCHANGED <<tables, bought, objects, last, raced, marks, faults>>

\* which it does,
ClientPut(r) ==
  /\ At(r, "presigned")
  /\ Go(r, "uploaded")
  /\ objects' = objects \cup {r}
  /\ UNCHANGED <<tables, bought, last, raced, marks, untidy, faults>>

Completes(q, k) == request[q].pc \notin {"new", "uploaded"} /\ request[q].key = k

\* A key that was given out, or of an object.
Given(k) == IF k \in Requests THEN request[k].key = k ELSE k \in objects

Owner(k) == IF k \in Requests THEN request[k].item ELSE k[1]

\* The client did put this video, and for this lesson.
IsPut(k, l) == k \in Requests /\ At(k, "uploaded") /\ request[k].item = l

\* and says so, once or again, with whatever key it likes.
CompleteVideoUpload(r, l, k) ==
  LET astray == IF IsPut(k, l) THEN {} ELSE {l, Owner(k)}
      again  == IF \E q \in Requests : Completes(q, k) THEN {l} ELSE {} IN
  /\ GetLesson(l)
  /\ Given(k)
  /\ Enter(r, [Fresh EXCEPT !.pc = "video", !.item = l, !.key = k, !.doomed = OldVideo(l, k)])
  /\ untidy' = Beside(r, Product(l)) \cup {Product(x) : x \in astray}
  /\ doubtful' = doubtful \cup astray \cup again
  /\ UNCHANGED <<tables, bought, objects, last, raced, condemned, shared, lateOrder, faults>>

\* UpdateVideoStatus, and then the old video goes.
WriteVideo(r) == LET l == request[r].item IN
  /\ At(r, "video")
  /\ IF GetLesson(l)
       THEN /\ video' = [video EXCEPT ![l] = request[r].key]
            /\ request' = [request EXCEPT ![r] = Purging(@, @.doomed, "done")]
            /\ UNCHANGED untidy
       ELSE End(r) /\ Spoil(r) /\ UNCHANGED video
  /\ UNCHANGED <<rows, born, row, attached, bought, objects, last, raced, marks, faults>>

\* The key is the lesson's and the file's name.
AddAttachment(r, l, n) == LET k == <<l, n>> IN
  /\ Begin(r, [Fresh EXCEPT !.pc = "put", !.item = l, !.key = k, !.next = "attach"])
  /\ shared' = IF attached[k] # None \/ \E q \in Requests : Active(q) /\ request[q].key = k
                 THEN shared \cup {k} ELSE shared
  /\ UNCHANGED <<tables, bought, objects, last, raced, condemned, doubtful, lateOrder, faults>>

\* A mistake to check against: the object stays when the row is refused.
InsertAttachmentOnly(r) == LET k == request[r].key IN
  /\ At(r, "attach")
  /\ IF GetLesson(k[1]) /\ attached[k] = None
       THEN attached' = [attached EXCEPT ![k] = r]
       ELSE UNCHANGED attached
  /\ End(r)
  /\ UNCHANGED <<rows, born, row, video, bought, objects, last, raced, marks, untidy, faults>>

\* The lesson must exist and the key be new, or else the object goes again.  It goes, too,
\* when the row was inserted and an error is reported all the same.
InsertAttachment(r) == LET k == request[r].key IN
  /\ At(r, "attach")
  /\ \/ /\ GetLesson(k[1]) /\ attached[k] = None
        /\ attached' = [attached EXCEPT ![k] = r]
        /\ End(r)
        /\ NoFault
        /\ UNCHANGED condemned
     \/ /\ IF GetLesson(k[1]) /\ attached[k] = None THEN Fault ELSE NoFault
        /\ request' = [request EXCEPT ![r] = Purging(@, {k}, "done")]
        /\ UNCHANGED <<attached, condemned>>
     \/ /\ GetLesson(k[1]) /\ attached[k] = None
        /\ attached' = [attached EXCEPT ![k] = r]
        /\ request' = [request EXCEPT ![r] = Purging(@, {k}, "done")]
        /\ condemned' = condemned \cup {k}
        /\ Fault
  /\ UNCHANGED <<rows, born, row, video, bought, objects, last, raced, shared, doubtful,
                 lateOrder, untidy>>

DeleteAttachment(r, k) ==
  /\ attached[k] # None
  /\ Begin(r, Purging([Fresh EXCEPT !.item = k[1], !.key = k, !.id = attached[k]], {k}, "detach"))
  /\ condemned' = condemned \cup {k}
  /\ shared' = IF \E q \in Requests : Active(q) /\ request[q].key = k
                 THEN shared \cup {k} ELSE shared
  /\ UNCHANGED <<tables, bought, objects, last, raced, doubtful, lateOrder, faults>>

\* The row is deleted by its id.
DetachRow(r) == LET k == request[r].key IN
  /\ At(r, "detach")
  /\ attached' = IF attached[k] = request[r].id THEN [attached EXCEPT ![k] = None] ELSE attached
  /\ condemned' = condemned \ {k}
  /\ End(r)
  /\ UNCHANGED <<rows, born, row, video, bought, objects, last, raced, shared, doubtful, lateOrder,
                 untidy, faults>>

HandleCreateLesson         == \E l \in Lessons : CreateLesson(l)
HandleUpdateLesson(r)      == \E l \in Lessons : UpdateLesson(r, l)
HandleDeleteLesson(r)      == \E l \in Lessons : DeleteLesson(r, l)
HandleUploadVideo(r)       == \E l \in Lessons : UploadVideo(r, l)
HandleVideoUploadURL(r)    == \E l \in Lessons : GetVideoUploadURL(r, l)
HandleCompleteUpload(r)    == \E l \in Lessons, k \in Keys : CompleteVideoUpload(r, l, k)
HandleAddAttachment(r)     == \E l \in Lessons, n \in Names : AddAttachment(r, l, n)
HandleDeleteAttachment(r)  == \E k \in AttachmentKeys : DeleteAttachment(r, k)

(***************************************************************************)
(* Ebooks                                                                  *)
(***************************************************************************)
CreateEbook(b) == InsertEbook(b)

UpdateEbook(r, b) ==
  /\ GetEbook(b)
  /\ \E column \in {"title", "setting"} : EditRow(r, b, column)

\* The object first, under the name of the file: the row is not looked at.
UploadEbook(r, b, kind, n) ==
  /\ Begin(r, [Fresh EXCEPT !.pc = "put", !.item = b, !.key = <<b, kind, n>>, !.column = kind,
                            !.next = "read"])
  /\ UNCHANGED <<tables, bought, objects, last, raced, marks, faults>>

UploadEbookFile(r, b, n) == UploadEbook(r, b, "file", n)
UploadThumbnail(r, b, n) == UploadEbook(r, b, "thumbnail", n)

\* A mistake to check against: the row is written with what this upload put only.
ReadEbookNot(r) == LET q == request[r]  b == q.item IN
  /\ At(r, "read")
  /\ IF GetEbook(b)
       THEN /\ request' = [request EXCEPT ![r].pc = "write", ![r].row = [Blank EXCEPT ![q.column] = q.key]]
            /\ untidy' = IF row[b][q.column] \in {None, q.key} THEN untidy ELSE untidy \cup {b}
       ELSE End(r) /\ Spoil(r)
  /\ UNCHANGED <<tables, bought, objects, last, raced, marks, faults>>

\* Then the whole row is read.  The object named before stays if its name differs.
ReadEbook(r) == LET q == request[r]  b == q.item IN
  /\ At(r, "read")
  /\ IF GetEbook(b)
       THEN /\ request' = [request EXCEPT ![r].pc = "write",
                                          ![r].row = [row[b] EXCEPT ![q.column] = q.key]]
            /\ untidy' = IF row[b][q.column] \in {None, q.key} THEN untidy ELSE untidy \cup {b}
       ELSE End(r) /\ Spoil(r)
  /\ UNCHANGED <<tables, bought, objects, last, raced, marks, faults>>

\* Nobody asks for purchases: the row's foreign key does, after the objects are gone.
DeleteEbook(r, b) ==
  /\ GetEbook(b)
  /\ Begin(r, Purging([Fresh EXCEPT !.item = b], {row[b].file, row[b].thumbnail}, "delete"))
  /\ condemned' = condemned \cup {b}
  /\ UNCHANGED <<tables, bought, objects, last, raced, shared, doubtful, lateOrder, faults>>

HandleCreateEbook        == \E b \in Ebooks : CreateEbook(b)
HandleUpdateEbook(r)     == \E b \in Ebooks : UpdateEbook(r, b)
HandleUploadFile(r)      == \E b \in Ebooks, n \in Names : UploadEbookFile(r, b, n)
HandleUploadThumbnail(r) == \E b \in Ebooks, n \in Names : UploadThumbnail(r, b, n)
HandleDeleteEbook(r)     == \E b \in Ebooks : DeleteEbook(r, b)

(***************************************************************************)
(* Steps that handlers share                                               *)
(***************************************************************************)
\* UploadStream
Put(r) ==
  /\ At(r, "put")
  /\ objects' = objects \cup {request[r].key}
  /\ Go(r, request[r].next)
  /\ UNCHANGED <<tables, bought, last, raced, marks, untidy, faults>>

\* The columns as the request has them; it is an error when there is no such row.
WriteColumns(r) == LET q == request[r]  x == q.item IN
  /\ At(r, "write")
  /\ IF x \in rows
       THEN /\ row' = [row EXCEPT ![x] = q.row]
            /\ last' = [last EXCEPT ![x][q.column] = q.row[q.column]]
            /\ Race(r, x)
            /\ UNCHANGED untidy
       ELSE Spoil(r) /\ UNCHANGED <<row, last, raced>>
  /\ End(r)
  /\ UNCHANGED <<rows, born, video, attached, bought, objects, marks, faults>>

WriteCourse(r) == request[r].item \in Courses /\ WriteColumns(r)
WriteLesson(r) == request[r].item \in Lessons /\ WriteColumns(r)
WriteEbook(r)  == request[r].item \in Ebooks /\ WriteColumns(r)

\* One object after the other; an error is ignored, and the object stays.
Purge(r) ==
  /\ At(r, "purge")
  /\ \E k \in request[r].doomed :
       /\ request' = [request EXCEPT ![r] = Purging(@, @.doomed \ {k}, @.next)]
       /\ \/ objects' = objects \ {k} /\ NoFault /\ UNCHANGED untidy
          \/ UNCHANGED objects /\ Fault /\ Spoil(r)
  /\ UNCHANGED <<tables, bought, last, raced, marks>>

\* A mistake to check against: a lesson's attachments are forgotten.
ChildrenVideos(x) == IF x \in Lessons THEN {} ELSE Curriculum(x)

Children(x) == IF x \in Lessons THEN GetByLessonID(x) ELSE Curriculum(x)

\* An error is ignored here, too: nothing below is cleaned up then.
List(r) ==
  /\ At(r, "list")
  /\ \/ /\ request' = [request EXCEPT ![r] = Purging(@, Children(@.item), "delete")]
        /\ NoFault
        /\ UNCHANGED untidy
     \/ Go(r, "delete") /\ Fault /\ Spoil(r)
  /\ UNCHANGED <<tables, bought, objects, last, raced, marks>>

\* A product that somebody bought cannot be deleted, and stays condemned.
DeleteRow(r) == LET x == request[r].item IN
  /\ At(r, "delete")
  /\ IF x \in rows \ bought
       THEN Remove(x)
       ELSE UNCHANGED <<tables, last>>
  /\ End(r)
  /\ UNCHANGED <<bought, objects, raced, marks, untidy, faults>>

\* A call fails whose error ends the request, or the server stops: before the call, or
\* after it (an UPDATE that is made and reports an error is one that is made, and then Fail).
Fail(r) ==
  /\ Active(r)
  /\ Fault
  /\ End(r)
  /\ Spoil(r)
  /\ UNCHANGED <<tables, bought, objects, last, raced, marks>>

Handler(r) ==
  \/ HandleUpdateCourse(r) \/ HandleDeleteCourse(r) \/ HandleUpdateThumbnail(r)
  \/ HandleUpdateModule(r)
  \/ HandleUpdateLesson(r) \/ HandleDeleteLesson(r)
  \/ HandleUploadVideo(r) \/ HandleVideoUploadURL(r) \/ HandleCompleteUpload(r)
  \/ HandleAddAttachment(r) \/ HandleDeleteAttachment(r)
  \/ HandleUpdateEbook(r) \/ HandleUploadFile(r) \/ HandleUploadThumbnail(r)
  \/ HandleDeleteEbook(r)

Call(r) ==
  \/ Count(r) \/ UpdateTitle(r) \/ UpdateOrder(r) \/ WriteVideo(r) \/ InsertAttachment(r)
  \/ DetachRow(r) \/ ReadEbook(r) \/ WriteCourse(r) \/ WriteLesson(r) \/ WriteEbook(r)
  \/ SetThumbnail(r) \/ Put(r) \/ Purge(r) \/ List(r) \/ DeleteRow(r)

Next ==
  \/ HandleCreateCourse \/ HandleCreateModule \/ HandleCreateLesson \/ HandleCreateEbook
  \/ HandleDeleteModule
  \/ \E r \in Requests : Handler(r) \/ Call(r) \/ ClientPut(r) \/ Fail(r)
  \/ \E p \in Products : Buy(p)

Spec == Init /\ [][Next]_vars

(***************************************************************************)
(* Properties                                                              *)
(***************************************************************************)
Busy(p) == \E r \in Requests : Active(r) /\ Product(request[r].item) = p

\* Whatever is replaced, refused or deleted at the same time, no row names an
\* object that is gone.  But for: rows whose own deletion began (and was refused
\* or stopped half-way); attachments whose row was inserted although an error was
\* reported, or that were added twice under one name (the clean-up takes the
\* object of the row); videos completed twice, or with another's file, and the
\* owner of that file; and courses whose picture was changed during an edit, or
\* the change of which failed (AddAttachment, CompleteVideoUpload, the worker).
NoDangling ==
  \A x \in rows : \A k \in Named(x) \ objects :
    \/ {x, k, Product(x)} \cap condemned # {}
    \/ k \in shared
    \/ x \in doubtful

\* Whose object it is.
Of(k) == Product(Owner(k))

Completed(k) == \E q \in Requests : Completes(q, k)

\* Requests about a product that come one after the other leave the bucket in
\* step with the rows: nothing is there that no row names, but for uploads that
\* clients have not completed.  Not so for modules deleted with their lessons,
\* ebook files replaced under another name, uploaded pictures of courses replaced
\* by a URL, uploads for rows that are gone, videos completed with another's file
\* (for either), and faults (DeleteLesson, CourseService.Delete and Update,
\* AddAttachment, UploadVideo, CompleteVideoUpload).
InStep ==
  \A k \in objects : LET p == Of(k) IN
    \/ p \in untidy \/ Busy(p)
    \/ \E x \in rows : k \in Named(x)
    \/ k \in Requests /\ At(k, "uploaded") /\ ~Completed(k)

\* What administrators last asked a column to be is what it is, but for rows
\* that were written while another request was between its read and its write
\* of the whole row: an upload to an ebook, however long it takes, undoes no
\* edit made before the object was there (UploadEbookFile, Update).
RowsKept == \A x \in rows \ raced : row[x] = last[x]

\* No file of a course that somebody bought is deleted with the course, unless
\* the order came after the purchases were counted (CourseService.Delete).
SoldCoursesIntact == bought \cap condemned \cap Courses \subseteq lateOrder
=============================================================================
