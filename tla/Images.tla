-------------------------------- MODULE Images --------------------------------
(***************************************************************************)
(* Avatars and course thumbnails.  A request saves the picture in a        *)
(* temporary file and queues a task; the worker of its kind resizes the    *)
(* picture, puts it into the bucket, writes its URL to the row and deletes *)
(* the picture the row had before.  In between, the row's other columns    *)
(* are edited by requests that read the whole row and write it back.       *)
(*                                                                         *)
(* A fault is a database, broker, bucket or disk operation that fails, or  *)
(* a picture that cannot be decoded; a crash stops the server process,     *)
(* which restarts.                                                         *)
(***************************************************************************)
EXTENDS Naturals, FiniteSets

CONSTANTS
  Users, Courses,
  Uploads,     \* the requests with a picture
  Edits,       \* the requests that edit a row
  None,        \* as a picture: none, or one outside the bucket
  MaxRetries,  \* cfg.RabbitMQ.MaxRetries
  MaxTime, MaxFaults, MaxCrashes   \* bounds of a run

Owners    == Users \cup Courses
Kinds     == {"avatar", "thumbnail"}   \* of workers, each with its queue
URLs      == Owners \X (0 .. MaxTime)  \* names in the bucket hold the second
Pictures  == URLs \cup {None}
\* An avatar's file has a name of its own, a thumbnail's the course and the second.
FileNames == Uploads \cup (Courses \X (0 .. MaxTime))
Tasks     == Uploads \X (0 .. MaxRetries)   \* a task and its RetryCount

ASSUME OwnerAssumption == Users \cap Courses = {}
ASSUME NameAssumption  == /\ None \notin URLs \cup Edits
                          /\ None \notin FileNames \cup Tasks \cup Owners
                          /\ Uploads \cap (Courses \X (0 .. MaxTime)) = {}
ASSUME BoundAssumption == /\ MaxRetries \in Nat /\ MaxTime \in Nat
                          /\ MaxFaults \in Nat /\ MaxCrashes \in Nat

VARIABLES
  now,        \* the second
  image,      \* image[w]: avatar_url or thumbnail_url of the row
  text,       \* text[w]: the edit whose columns the row has
  files,      \* the temporary files on the disk
  objects,    \* the objects in the bucket
  upload,     \* upload[r]: where the request stands
  queue,      \* queue[t]: copies of task t waiting
  work,       \* work[k]: the worker of kind k, one goroutine
  edit,       \* edit[e]: where the request stands, and the picture it read
  \* What happened:
  newest,     \* newest[w]: the last edit that was written
  shown,      \* uploads whose picture the row got
  spoiled,    \* uploads that met a fault or shared their file with another
  doubtful,   \* owners with a row write that failed, restored an older picture
              \* or wrote the name of the picture it replaced
  overtaken,  \* users edited while the avatar worker had the row in hand
  leaked,     \* files nobody is left to remove
  faults, crashes

rows   == <<image, text>>
tasks  == <<queue, work>>
marks  == <<shown, spoiled, doubtful, overtaken, leaked>>
budget == <<faults, crashes>>
vars   == <<now, rows, files, objects, upload, tasks, edit, newest, marks, budget>>

Fresh == [pc |-> "new", owner |-> None, file |-> None, old |-> None]
Rest  == [pc |-> "idle", task |-> None, url |-> None, text |-> None]

Working == {"open", "put", "read", "write", "delete", "fail", "ack"}   \* before the Ack

UploadStates ==
  [pc : {"new", "saved", "publish", "queued", "failed"}, owner : Owners \cup {None},
   file : FileNames \cup {None}, old : Pictures]
WorkStates ==
  [pc : Working \cup {"idle", "remove"}, task : Tasks \cup {None},
   url : URLs \cup {None}, text : Edits \cup {None}]
EditStates ==
  [pc : {"new", "write", "done"}, owner : Owners \cup {None}, image : Pictures]

TypeOK ==
  /\ now \in 0 .. MaxTime
  /\ image \in [Owners -> Pictures]
  /\ text \in [Owners -> Edits \cup {None}]
  /\ files \subseteq FileNames
  /\ objects \subseteq URLs
  /\ upload \in [Uploads -> UploadStates]
  /\ queue \in [Tasks -> Nat]
  /\ work \in [Kinds -> WorkStates]
  /\ edit \in [Edits -> EditStates]
  /\ newest \in [Owners -> Edits \cup {None}]
  /\ shown \subseteq Uploads
  /\ spoiled \subseteq Uploads
  /\ doubtful \subseteq Owners
  /\ overtaken \subseteq Users
  /\ leaked \subseteq FileNames
  /\ faults \in 0 .. MaxFaults
  /\ crashes \in 0 .. MaxCrashes

Init ==
  /\ now = 0
  /\ image = [w \in Owners |-> None]
  /\ text = [w \in Owners |-> None]
  /\ files = {}
  /\ objects = {}
  /\ upload = [r \in Uploads |-> Fresh]
  /\ queue = [t \in Tasks |-> 0]
  /\ work = [k \in Kinds |-> Rest]
  /\ edit = [e \in Edits |-> [pc |-> "new", owner |-> None, image |-> None]]
  /\ newest = [w \in Owners |-> None]
  /\ shown = {}
  /\ spoiled = {}
  /\ doubtful = {}
  /\ overtaken = {}
  /\ leaked = {}
  /\ faults = 0
  /\ crashes = 0

Fault == /\ faults < MaxFaults
         /\ faults' = faults + 1
         /\ UNCHANGED crashes

NoFault == UNCHANGED budget

Kind(w) == IF w \in Users THEN "avatar" ELSE "thumbnail"

(***************************************************************************)
(* The upload request                                                      *)
(***************************************************************************)
\* A mistake to check against: avatars' files are named like thumbnails'.
FileNameBySecond(r, w) == <<w, now>>

FileName(r, w) == IF w \in Users THEN r ELSE <<w, now>>

\* SaveFile.  A file of the same name is overwritten: two thumbnails of one
\* course in one second share their file from then on.
SaveFile(r, w) ==
  LET f       == FileName(r, w)
      sharing == {q \in Uploads : upload[q].file = f}
  IN
  /\ upload[r].pc = "new"
  /\ upload' = [upload EXCEPT ![r] = [Fresh EXCEPT !.pc = "saved", !.owner = w, !.file = f]]
  /\ files' = files \cup {f}
  /\ spoiled' = IF sharing = {} THEN spoiled ELSE spoiled \cup sharing \cup {r}
  /\ UNCHANGED <<now, rows, objects, tasks, edit, newest, shown, doubtful, overtaken,
                 leaked, budget>>

\* A request that fails leaves its file behind.
FailUpload(r) ==
  /\ upload' = [upload EXCEPT ![r].pc = "failed"]
  /\ leaked' = leaked \cup {upload[r].file}

\* QueueAvatarUpdate and QueueThumbnailUpdate read the picture to be replaced.
ReadOld(r) ==
  /\ upload[r].pc = "saved"
  /\ \/ /\ upload' = [upload EXCEPT ![r].pc = "publish", ![r].old = image[upload[r].owner]]
        /\ NoFault
        /\ UNCHANGED leaked
     \/ FailUpload(r) /\ Fault
  /\ UNCHANGED <<now, rows, files, objects, tasks, edit, newest, shown, spoiled, doubtful,
                 overtaken>>

PublishTask(r) ==
  /\ upload[r].pc = "publish"
  /\ \/ /\ upload' = [upload EXCEPT ![r].pc = "queued"]
        /\ queue' = [queue EXCEPT ![<<r, 0>>] = @ + 1]
        /\ NoFault
        /\ UNCHANGED leaked
     \/ FailUpload(r) /\ Fault /\ UNCHANGED queue
  /\ UNCHANGED <<now, rows, files, objects, work, edit, newest, shown, spoiled, doubtful,
                 overtaken>>

(***************************************************************************)
(* The workers                                                             *)
(***************************************************************************)
At(k, step) == work[k].pc = step

Job(k)  == work[k].task[1]
Of(k)   == upload[Job(k)]

Step(k, step) == work' = [work EXCEPT ![k].pc = step]

Take(k, t) ==
  /\ At(k, "idle")
  /\ queue[t] > 0
  /\ Kind(upload[t[1]].owner) = k
  /\ queue' = [queue EXCEPT ![t] = @ - 1]
  /\ work' = [work EXCEPT ![k] = [Rest EXCEPT !.pc = "open", !.task = t]]
  /\ UNCHANGED <<now, rows, files, objects, upload, edit, newest, marks, budget>>

\* imaging.Open and jpeg.Encode: a file that is gone fails, too.
OpenFile(k) ==
  /\ At(k, "open")
  /\ \/ /\ Step(k, IF Of(k).file \in files THEN "put" ELSE "fail")
        /\ NoFault
        /\ UNCHANGED spoiled
     \/ /\ Step(k, "fail")
        /\ spoiled' = spoiled \cup {Job(k)}
        /\ Fault
  /\ UNCHANGED <<now, rows, files, objects, upload, queue, edit, newest, shown, doubtful,
                 overtaken, leaked>>

\* The avatar worker reads the row it is to write, the thumbnail worker does not.
PutObject(k) == LET url == <<Of(k).owner, now>> IN
  /\ At(k, "put")
  /\ \/ /\ objects' = objects \cup {url}
        /\ work' = [work EXCEPT ![k].pc = IF k = "avatar" THEN "read" ELSE "write",
                                ![k].url = url]
        /\ NoFault
        /\ UNCHANGED spoiled
     \/ /\ objects' \in {objects, objects \cup {url}}
        /\ Step(k, "fail")
        /\ spoiled' = spoiled \cup {Job(k)}
        /\ Fault
  /\ UNCHANGED <<now, rows, files, upload, queue, edit, newest, shown, doubtful, overtaken,
                 leaked>>

\* The row is not written, and the worker goes on.
SkipWrite(k) ==
  /\ Step(k, "delete")
  /\ spoiled' = spoiled \cup {Job(k)}
  /\ doubtful' = doubtful \cup {Of(k).owner}
  /\ Fault

\* A mistake to check against: the row is not read, and written with an empty name.
ReadRowNot(k) ==
  /\ At(k, "read")
  /\ Step(k, "write")
  /\ UNCHANGED <<now, rows, files, objects, upload, queue, edit, newest, marks, budget>>

\* GetByID also fails to find an account that was deleted in the meantime.
ReadRow(k) ==
  /\ At(k, "read")
  /\ \/ /\ work' = [work EXCEPT ![k].pc = "write", ![k].text = text[Of(k).owner]]
        /\ NoFault
        /\ UNCHANGED <<spoiled, doubtful>>
     \/ SkipWrite(k)
  /\ UNCHANGED <<now, rows, files, objects, upload, queue, edit, newest, shown, overtaken,
                 leaked>>

\* UserRepository.Update writes the name as read, UpdateThumbnailURL only the URL.
WriteRow(k) == LET w == Of(k).owner IN
  /\ At(k, "write")
  /\ \/ /\ image' = [image EXCEPT ![w] = work[k].url]
        /\ text' = IF w \in Users THEN [text EXCEPT ![w] = work[k].text] ELSE text
        /\ Step(k, "delete")
        /\ shown' = shown \cup {Job(k)}
        /\ doubtful' = IF work[k].url = Of(k).old THEN doubtful \cup {w} ELSE doubtful \ {w}
        /\ NoFault
        /\ UNCHANGED spoiled
     \/ SkipWrite(k) /\ UNCHANGED <<rows, shown>>
  /\ UNCHANGED <<now, files, objects, upload, queue, edit, newest, overtaken, leaked>>

\* A mistake to check against: the picture that the row has now is deleted.
DeleteOldCurrent(k) ==
  /\ At(k, "delete")
  /\ \/ objects' = objects \ {image[Of(k).owner]} /\ NoFault
     \/ UNCHANGED objects /\ Fault
  /\ Step(k, "ack")
  /\ UNCHANGED <<now, rows, files, upload, queue, edit, newest, marks>>

\* Nothing happens for an empty URL or one outside the bucket.
DeleteOld(k) ==
  /\ At(k, "delete")
  /\ \/ objects' = objects \ {Of(k).old} /\ NoFault
     \/ UNCHANGED objects /\ Fault
  /\ Step(k, "ack")
  /\ UNCHANGED <<now, rows, files, upload, queue, edit, newest, marks>>

\* A mistake to check against: the retry count is not raised.
HandleErrorForever(k) ==
  /\ At(k, "fail")
  /\ queue' = [queue EXCEPT ![work[k].task] = @ + 1]
  /\ Step(k, "ack")
  /\ UNCHANGED <<now, rows, files, objects, upload, edit, newest, marks, budget>>

\* handleError: a copy for the next attempt, as long as there is one.
HandleError(k) == LET r == Job(k)  n == work[k].task[2] IN
  /\ At(k, "fail")
  /\ \/ /\ n < MaxRetries
        /\ queue' = [queue EXCEPT ![<<r, n + 1>>] = @ + 1]
        /\ NoFault
        /\ UNCHANGED spoiled
     \/ n >= MaxRetries /\ NoFault /\ UNCHANGED <<queue, spoiled>>
     \/ /\ n < MaxRetries
        /\ spoiled' = spoiled \cup {r}
        /\ Fault
        /\ UNCHANGED queue
  /\ Step(k, "ack")
  /\ UNCHANGED <<now, rows, files, objects, upload, edit, newest, shown, doubtful, overtaken,
                 leaked>>

\* Ack, or Nack without requeueing.
Ack(k) ==
  /\ At(k, "ack")
  /\ Step(k, "remove")
  /\ UNCHANGED <<now, rows, files, objects, upload, queue, edit, newest, marks, budget>>

\* A mistake to check against: the file is removed after a success only.
RemoveFileIfShown(k) ==
  /\ At(k, "remove")
  /\ files' = IF Job(k) \in shown THEN files \ {Of(k).file} ELSE files
  /\ work' = [work EXCEPT ![k] = Rest]
  /\ UNCHANGED <<now, rows, objects, upload, queue, edit, newest, marks, budget>>

\* The deferred removal, after a failure as after a success.
RemoveFile(k) ==
  /\ At(k, "remove")
  /\ \/ files' = files \ {Of(k).file} /\ NoFault /\ UNCHANGED leaked
     \/ leaked' = leaked \cup {Of(k).file} /\ Fault /\ UNCHANGED files
  /\ work' = [work EXCEPT ![k] = Rest]
  /\ UNCHANGED <<now, rows, objects, upload, queue, edit, newest, shown, spoiled, doubtful,
                 overtaken>>

WorkerStep(k) ==
  \/ \E t \in Tasks : Take(k, t)
  \/ OpenFile(k) \/ PutObject(k) \/ ReadRow(k) \/ WriteRow(k) \/ DeleteOld(k)
  \/ HandleError(k) \/ Ack(k) \/ RemoveFile(k)

(***************************************************************************)
(* Edits: UserService.UpdateProfile and CourseService.Update               *)
(***************************************************************************)
EditRead(e, w) ==
  /\ edit[e].pc = "new"
  /\ edit' = [edit EXCEPT ![e] = [pc |-> "write", owner |-> w, image |-> image[w]]]
  /\ UNCHANGED <<now, rows, files, objects, upload, tasks, newest, marks, budget>>

\* A new name is written with the picture read before, unless preferences are
\* written with it; a course always is, or a URL that the admin gives (of a
\* picture outside the bucket).
EditWrite(e) == LET w == edit[e].owner IN
  /\ edit[e].pc = "write"
  /\ \/ /\ image' = [image EXCEPT ![w] = edit[e].image]
        /\ doubtful' = IF image[w] = edit[e].image THEN doubtful ELSE doubtful \cup {w}
     \/ w \in Users /\ UNCHANGED <<image, doubtful>>
     \/ w \in Courses /\ image' = [image EXCEPT ![w] = None] /\ UNCHANGED doubtful
  /\ text' = [text EXCEPT ![w] = e]
  /\ newest' = [newest EXCEPT ![w] = e]
  /\ overtaken' = IF At("avatar", "write") /\ Of("avatar").owner = w
                    THEN overtaken \cup {w} ELSE overtaken
  /\ edit' = [edit EXCEPT ![e].pc = "done"]
  /\ UNCHANGED <<now, files, objects, upload, tasks, shown, spoiled, leaked, budget>>

(***************************************************************************)
(* Time and crashes                                                        *)
(***************************************************************************)
Tick == /\ now < MaxTime
        /\ now' = now + 1
        /\ UNCHANGED <<rows, files, objects, upload, tasks, edit, newest, marks, budget>>

\* A mistake to check against: deliveries are acknowledged at once (auto-ack).
UnackedNone == {}

\* What the broker takes back when its consumers are gone.
Unacked == {work[k].task : k \in {x \in Kinds : work[x].pc \in Working}}

\* The requests under way are forgotten, and so are their files.
Crash ==
  LET stopped == {r \in Uploads : upload[r].pc \in {"saved", "publish"}}
      left    == {Of(k).file : k \in {x \in Kinds : At(x, "remove")}}
  IN
  /\ crashes < MaxCrashes
  /\ crashes' = crashes + 1
  /\ upload' = [r \in Uploads |-> IF r \in stopped THEN [upload[r] EXCEPT !.pc = "failed"]
                                                   ELSE upload[r]]
  /\ queue' = [t \in Tasks |-> IF t \in Unacked THEN queue[t] + 1 ELSE queue[t]]
  /\ work' = [k \in Kinds |-> Rest]
  /\ edit' = [e \in Edits |-> IF edit[e].pc = "write" THEN [edit[e] EXCEPT !.pc = "done"]
                                                      ELSE edit[e]]
  /\ leaked' = leaked \cup {upload[r].file : r \in stopped} \cup left
  /\ UNCHANGED <<now, rows, files, objects, newest, shown, spoiled, doubtful, overtaken,
                 faults>>

Next ==
  \/ \E r \in Uploads : \/ \E w \in Owners : SaveFile(r, w)
                        \/ ReadOld(r)
                        \/ PublishTask(r)
  \/ \E k \in Kinds : WorkerStep(k)
  \/ \E e \in Edits : \/ \E w \in Owners : EditRead(e, w)
                      \/ EditWrite(e)
  \/ Tick
  \/ Crash

Spec     == Init /\ [][Next]_vars
FairSpec == Spec /\ \A k \in Kinds : WF_vars(WorkerStep(k))

(***************************************************************************)
(* Properties                                                              *)
(***************************************************************************)
\* A row never names an object that is gone, whatever tasks were queued with
\* the same old picture, redelivered or stopped half-way, but in three cases:
\* the worker's row write failed and it deleted the old picture all the same,
\* an edit wrote back a picture it had read before the worker replaced it, or
\* old and new picture were made in the same second and have the same name.
NoDangling ==
  \A w \in Owners : image[w] \in URLs => image[w] \in objects \/ w \in doubtful

Alive(r) == \E n \in 0 .. MaxRetries :
  \/ queue[<<r, n>>] > 0
  \/ \E k \in Kinds : work[k].task = <<r, n>> /\ work[k].pc \in Working

AtWork(r) == \E k \in Kinds, n \in 0 .. MaxRetries : work[k].task = <<r, n>>

\* A temporary file has somebody who will remove it: the request that saved it,
\* or a task.  The files of failed requests, and those whose removal failed or
\* a crash prevented, stay for ever.
FilesAccounted ==
  \A f \in files \ leaked : \E r \in Uploads :
    /\ upload[r].file = f
    /\ upload[r].pc \in {"saved", "publish"} \/ Alive(r) \/ AtWork(r)

\* No crash loses an upload: a picture whose task was queued gets into its row,
\* unless a fault met it or it shared its file.
NoUploadForgotten ==
  \A r \in Uploads : upload[r].pc = "queued" =>
    Alive(r) \/ r \in shown \cup spoiled

\* The retries cannot succeed: once the first attempt has failed and is let go,
\* the file is gone, unless its removal failed.
RetriesFindNoFile ==
  \A r \in Uploads : Alive(r) /\ queue[<<r, 0>>] = 0 /\ ~AtWork(r) =>
    \/ upload[r].file \notin files \ leaked
    \/ \E q \in Uploads \ {r} : upload[q].file = upload[r].file

\* An edit of a profile or a course survives the workers, but for a profile
\* edited while the avatar worker had the row in hand.
EditsKept ==
  \A w \in Owners : text[w] # newest[w] => w \in overtaken

\* Every task is done or dropped some day.
UploadsEnd ==
  \A r \in Uploads : upload[r].pc = "queued" ~> ~Alive(r)
=============================================================================
