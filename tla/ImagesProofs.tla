----------------------------- MODULE ImagesProofs -----------------------------
(***************************************************************************)
(* Proofs of the safety properties of Images, for any users, courses,      *)
(* uploads and edits, and any number of retries, seconds, faults and       *)
(* crashes.                                                                *)
(***************************************************************************)
EXTENDS Images, TLAPS

(***************************************************************************)
(* Types.  A task that waits or is at work belongs to a queued upload of   *)
(* the worker's kind.                                                      *)
(***************************************************************************)
UploadOK(u) == IF u.pc = "new" THEN u.file = None
                               ELSE u.owner \in Owners /\ u.file \in FileNames

WorkOK(k, x) ==
  IF x.pc = "idle" THEN x.task = None
  ELSE /\ x.task \in Tasks
       /\ upload[x.task[1]].pc = "queued"
       /\ Kind(upload[x.task[1]].owner) = k
       /\ x.pc \in {"read", "write"} => x.url \in URLs

JobInv ==
  /\ \A r \in Uploads : UploadOK(upload[r])
  /\ \A r \in Uploads, n \in 0 .. MaxRetries : queue[<<r, n>>] > 0 => upload[r].pc = "queued"
  /\ \A k \in Kinds : WorkOK(k, work[k])

TypeInv == TypeOK /\ JobInv

\* Replacing one record.
LEMMA OneUpload ==
  ASSUME upload \in [Uploads -> UploadStates], NEW r \in Uploads, NEW x \in UploadStates,
         upload' = [upload EXCEPT ![r] = x]
  PROVE  /\ upload' \in [Uploads -> UploadStates]
         /\ upload'[r] = x
         /\ \A q \in Uploads : q # r => upload'[q] = upload[q]
OBVIOUS

LEMMA OneWork ==
  ASSUME work \in [Kinds -> WorkStates], NEW k \in Kinds, NEW x \in WorkStates,
         work' = [work EXCEPT ![k] = x]
  PROVE  /\ work' \in [Kinds -> WorkStates]
         /\ work'[k] = x
         /\ \A j \in Kinds : j # k => work'[j] = work[j]
OBVIOUS

LEMMA OneEdit ==
  ASSUME edit \in [Edits -> EditStates], NEW e \in Edits, NEW x \in EditStates,
         edit' = [edit EXCEPT ![e] = x]
  PROVE  /\ edit' \in [Edits -> EditStates]
         /\ edit'[e] = x
         /\ \A d \in Edits : d # e => edit'[d] = edit[d]
OBVIOUS

LEMMA OneTask ==
  ASSUME queue \in [Tasks -> Nat], NEW t \in Tasks, NEW n \in Nat,
         queue' = [queue EXCEPT ![t] = n]
  PROVE  /\ queue' \in [Tasks -> Nat]
         /\ queue'[t] = n
         /\ \A s \in Tasks : s # t => queue'[s] = queue[s]
OBVIOUS

\* What a step of a worker leaves alone of its record.
Keeps(x, y) == y.task = x.task /\ y.url = x.url /\ y.text = x.text

LEMMA StepWork ==
  ASSUME work \in [Kinds -> WorkStates], NEW k \in Kinds,
         NEW step \in Working \cup {"idle", "remove"}, Step(k, step)
  PROVE  /\ work' \in [Kinds -> WorkStates]
         /\ work'[k].pc = step
         /\ Keeps(work[k], work'[k])
         /\ \A j \in Kinds : j # k => work'[j] = work[j]
<1> DEFINE x == [work[k] EXCEPT !.pc = step]
<1>1. x \in WorkStates /\ x.pc = step /\ Keeps(work[k], x)
  BY DEF WorkStates, Keeps
<1>2. work' = [work EXCEPT ![k] = x]
  BY DEF Step
<1> HIDE DEF x
<1>3. QED
  BY <1>1, <1>2, OneWork

LEMMA StepNames ==
  /\ \A s \in {"open", "put", "read", "write", "delete", "fail", "ack", "idle", "remove"} :
       s \in Working \cup {"idle", "remove"}
  /\ "idle" \notin Working /\ "remove" \notin Working
BY DEF Working

LEMMA TaskType == \A t \in Tasks : t[1] \in Uploads /\ t[2] \in 0 .. MaxRetries /\ t = <<t[1], t[2]>>
BY DEF Tasks

LEMMA RestType == Rest \in WorkStates /\ Rest.pc = "idle" /\ Rest.task = None
BY DEF Rest, WorkStates

LEMMA KindType == \A w \in Owners : Kind(w) \in Kinds /\ (Kind(w) = "avatar" <=> w \in Users)
BY DEF Kind, Kinds

\* What is known of a worker that has a task.
LEMMA JobFacts ==
  ASSUME TypeInv, NEW k \in Kinds, work[k].pc # "idle"
  PROVE  /\ work[k] \in WorkStates
         /\ work[k].task \in Tasks
         /\ Job(k) \in Uploads
         /\ Of(k) \in UploadStates
         /\ Of(k).pc = "queued"
         /\ Of(k).owner \in Owners
         /\ Of(k).file \in FileNames
         /\ Kind(Of(k).owner) = k
         /\ work[k].pc \in {"read", "write"} => work[k].url \in URLs
<1>1. work[k] \in WorkStates /\ WorkOK(k, work[k])
  BY DEF TypeInv, TypeOK, JobInv
<1>2. Job(k) \in Uploads
  BY <1>1, TaskType DEF WorkOK, Job
<1>3. UploadOK(Of(k)) /\ Of(k) \in UploadStates
  BY <1>2 DEF TypeInv, TypeOK, JobInv, Of
<1>4. QED
  BY <1>1, <1>2, <1>3 DEF WorkOK, UploadOK, Of, Job

(***************************************************************************)
(* The steps of a worker between taking a task and letting it go.          *)
(***************************************************************************)
\* The record of worker k after such a step.
Moved(k) ==
  /\ work[k].pc # "idle" /\ work'[k].pc # "idle"
  /\ work'[k].task = work[k].task
  /\ work'[k].pc \in {"read", "write"} => work'[k].url \in URLs
  /\ \A j \in Kinds : j # k => work'[j] = work[j]
  /\ upload' = upload

LEMMA StepMoved ==
  ASSUME TypeInv, NEW k \in Kinds, work[k].pc # "idle", upload' = upload,
         NEW step \in {"put", "write", "delete", "fail", "ack", "remove"}, Step(k, step),
         step = "write" => work[k].pc = "read"
  PROVE  Moved(k) /\ work' \in [Kinds -> WorkStates] /\ work'[k].pc = step
                  /\ Keeps(work[k], work'[k])
<1>1. step \in Working \cup {"idle", "remove"}
  BY StepNames
<1>2. work \in [Kinds -> WorkStates]
  BY DEF TypeInv, TypeOK
<1>3. /\ work' \in [Kinds -> WorkStates]
      /\ work'[k].pc = step
      /\ Keeps(work[k], work'[k])
      /\ \A j \in Kinds : j # k => work'[j] = work[j]
  BY <1>1, <1>2, StepWork
<1>4. work[k].pc = "read" => work[k].url \in URLs
  BY JobFacts
<1>5. QED
  BY <1>3, <1>4 DEF Moved, Keeps

LEMMA MovedInv ==
  ASSUME TypeInv, NEW k \in Kinds, Moved(k),
         \A r \in Uploads, n \in 0 .. MaxRetries :
           queue'[<<r, n>>] > 0 => queue[<<r, n>>] > 0 \/ r = Job(k)
  PROVE  JobInv'
<1>1. \A r \in Uploads : UploadOK(upload'[r])
  BY DEF Moved, TypeInv, JobInv
<1>2. \A r \in Uploads, n \in 0 .. MaxRetries : queue'[<<r, n>>] > 0 => upload'[r].pc = "queued"
  <2>1. upload[Job(k)].pc = "queued"
    BY JobFacts DEF Moved, Of
  <2>2. QED
    BY <2>1 DEF Moved, TypeInv, JobInv
<1>3. \A j \in Kinds : WorkOK(j, work[j])'
  <2>1. WorkOK(k, work[k])'
    BY DEF Moved, TypeInv, JobInv, WorkOK
  <2>2. ASSUME NEW j \in Kinds, j # k
        PROVE  WorkOK(j, work[j])'
    BY <2>2 DEF Moved, TypeInv, JobInv, WorkOK
  <2>3. QED
    BY <2>1, <2>2
<1>4. QED
  BY <1>1, <1>2, <1>3 DEF JobInv, UploadOK

LEMMA OpenMoved ==
  ASSUME TypeInv, NEW k \in Kinds, OpenFile(k)
  PROVE  Moved(k) /\ TypeInv' /\ work'[k].pc \in {"put", "fail"}
<1>1. work[k].pc = "open" /\ upload' = upload /\ queue' = queue
  BY DEF OpenFile, At
<1>2. PICK step \in {"put", "fail"} : Step(k, step)
  BY DEF OpenFile
<1>3. Moved(k) /\ work' \in [Kinds -> WorkStates] /\ work'[k].pc = step
  BY <1>1, <1>2, StepMoved
<1>4. Job(k) \in Uploads
  BY <1>1, JobFacts
<1>5. TypeOK'
  BY <1>3, <1>4, BoundAssumption DEF TypeInv, TypeOK, OpenFile, rows, Fault, NoFault, budget
<1>6. QED
  BY <1>1, <1>2, <1>3, <1>5, MovedInv DEF TypeInv

LEMMA PutMoved ==
  ASSUME TypeInv, NEW k \in Kinds, PutObject(k)
  PROVE  /\ Moved(k) /\ TypeInv'
         /\ \/ work'[k].pc = "fail"
            \/ work'[k].pc \in {"read", "write"} /\ work'[k].url = <<Of(k).owner, now>>
<1>1. work[k].pc = "put" /\ upload' = upload /\ queue' = queue
  BY DEF PutObject, At
<1>2. Job(k) \in Uploads /\ Of(k).owner \in Owners
  BY <1>1, JobFacts
<1>3. <<Of(k).owner, now>> \in URLs
  BY <1>2 DEF URLs, TypeInv, TypeOK
<1>4. CASE Step(k, "fail")
  <2>1. Moved(k) /\ work' \in [Kinds -> WorkStates] /\ work'[k].pc = "fail"
    BY <1>1, <1>4, StepMoved
  <2>2. TypeOK'
    BY <1>2, <1>3, <2>1, BoundAssumption
    DEF TypeInv, TypeOK, PutObject, rows, Fault, NoFault, budget
  <2>3. QED
    BY <1>1, <2>1, <2>2, MovedInv DEF TypeInv
<1>5. CASE ~Step(k, "fail")
  <2> DEFINE step == IF k = "avatar" THEN "read" ELSE "write"
             x    == [work[k] EXCEPT !.pc = step, !.url = <<Of(k).owner, now>>]
  <2>1. x \in WorkStates /\ x.pc = step /\ x.url = <<Of(k).owner, now>> /\ x.task = work[k].task
    BY <1>3, StepNames DEF TypeInv, TypeOK, WorkStates
  <2>2. work' = [work EXCEPT ![k] = x] /\ objects' = objects \cup {<<Of(k).owner, now>>}
        /\ budget' = budget /\ spoiled' = spoiled
    BY <1>5 DEF PutObject, NoFault
  <2> HIDE DEF x
  <2>3. work \in [Kinds -> WorkStates]
    BY DEF TypeInv, TypeOK
  <2>4. /\ work' \in [Kinds -> WorkStates]
        /\ work'[k] = x
        /\ \A j \in Kinds : j # k => work'[j] = work[j]
    BY <2>1, <2>2, <2>3, OneWork
  <2>5. Moved(k)
    BY <1>1, <1>3, <2>1, <2>4 DEF Moved
  <2>6. TypeOK'
    BY <1>2, <1>3, <2>2, <2>4 DEF TypeInv, TypeOK, PutObject, rows, budget
  <2>7. QED
    BY <1>1, <2>1, <2>4, <2>5, <2>6, MovedInv DEF TypeInv
<1>6. QED
  BY <1>4, <1>5

\* ReadRow and WriteRow when the database fails.
LEMMA SkipMoved ==
  ASSUME TypeInv, NEW k \in Kinds, work[k].pc # "idle", upload' = upload, SkipWrite(k)
  PROVE  /\ Moved(k) /\ work' \in [Kinds -> WorkStates] /\ work'[k].pc = "delete"
         /\ spoiled' = spoiled \cup {Job(k)} /\ spoiled' \subseteq Uploads
         /\ doubtful' = doubtful \cup {Of(k).owner} /\ doubtful' \subseteq Owners
         /\ faults' \in 0 .. MaxFaults /\ crashes' = crashes
<1>1. Moved(k) /\ work' \in [Kinds -> WorkStates] /\ work'[k].pc = "delete"
  BY StepMoved DEF SkipWrite
<1>2. QED
  BY <1>1, JobFacts, BoundAssumption DEF SkipWrite, Fault, TypeInv, TypeOK

LEMMA ReadMoved ==
  ASSUME TypeInv, NEW k \in Kinds, ReadRow(k)
  PROVE  /\ Moved(k) /\ TypeInv'
         /\ \/ /\ work'[k].pc = "write" /\ work'[k].url = work[k].url
               /\ work'[k].text = text[Of(k).owner]
               /\ UNCHANGED <<spoiled, doubtful>>
            \/ SkipWrite(k) /\ work'[k].pc = "delete"
<1>1. work[k].pc = "read" /\ upload' = upload /\ queue' = queue
  BY DEF ReadRow, At
<1>2. Job(k) \in Uploads /\ Of(k).owner \in Owners /\ work[k].url \in URLs
  BY <1>1, JobFacts
<1>3. CASE SkipWrite(k)
  <2>1. /\ Moved(k) /\ work' \in [Kinds -> WorkStates] /\ work'[k].pc = "delete"
        /\ spoiled' = spoiled \cup {Job(k)} /\ spoiled' \subseteq Uploads
        /\ doubtful' = doubtful \cup {Of(k).owner} /\ doubtful' \subseteq Owners
        /\ faults' \in 0 .. MaxFaults /\ crashes' = crashes
    BY <1>1, <1>3, SkipMoved
  <2>2. TypeOK'
    BY <2>1 DEF TypeInv, TypeOK, ReadRow, rows
  <2>3. QED
    BY <1>1, <1>3, <2>1, <2>2, MovedInv DEF TypeInv
<1>4. CASE ~SkipWrite(k)
  <2> DEFINE x == [work[k] EXCEPT !.pc = "write", !.text = text[Of(k).owner]]
  <2>1. x \in WorkStates /\ x.pc = "write" /\ x.url = work[k].url /\ x.task = work[k].task
        /\ x.text = text[Of(k).owner]
    BY <1>2, StepNames DEF TypeInv, TypeOK, WorkStates
  <2>2. work' = [work EXCEPT ![k] = x] /\ budget' = budget /\ UNCHANGED <<spoiled, doubtful>>
    BY <1>4 DEF ReadRow, NoFault
  <2> HIDE DEF x
  <2>3. work \in [Kinds -> WorkStates]
    BY DEF TypeInv, TypeOK
  <2>4. /\ work' \in [Kinds -> WorkStates]
        /\ work'[k] = x
        /\ \A j \in Kinds : j # k => work'[j] = work[j]
    BY <2>1, <2>2, <2>3, OneWork
  <2>5. Moved(k)
    BY <1>1, <1>2, <2>1, <2>4 DEF Moved
  <2>6. TypeOK'
    BY <2>2, <2>4 DEF TypeInv, TypeOK, ReadRow, rows, budget
  <2>7. QED
    BY <1>1, <2>1, <2>2, <2>4, <2>5, <2>6, MovedInv DEF TypeInv
<1>5. QED
  BY <1>3, <1>4

\* WriteRow when the database works.
Written(k) == LET w == Of(k).owner IN
  /\ image' = [image EXCEPT ![w] = work[k].url]
  /\ text' = IF w \in Users THEN [text EXCEPT ![w] = work[k].text] ELSE text
  /\ shown' = shown \cup {Job(k)}
  /\ doubtful' = IF work[k].url = Of(k).old THEN doubtful \cup {w} ELSE doubtful \ {w}
  /\ UNCHANGED spoiled

LEMMA WriteMoved ==
  ASSUME TypeInv, NEW k \in Kinds, WriteRow(k)
  PROVE  /\ Moved(k) /\ TypeInv' /\ work'[k].pc = "delete"
         /\ \/ Written(k)
            \/ SkipWrite(k) /\ UNCHANGED <<rows, shown>>
<1>1. work[k].pc = "write" /\ upload' = upload /\ queue' = queue
  BY DEF WriteRow, At
<1>2. Job(k) \in Uploads /\ Of(k).owner \in Owners /\ work[k].url \in URLs /\ work[k] \in WorkStates
  BY <1>1, JobFacts
<1>3. CASE SkipWrite(k) /\ UNCHANGED <<rows, shown>>
  <2>1. /\ Moved(k) /\ work' \in [Kinds -> WorkStates] /\ work'[k].pc = "delete"
        /\ spoiled' = spoiled \cup {Job(k)} /\ spoiled' \subseteq Uploads
        /\ doubtful' = doubtful \cup {Of(k).owner} /\ doubtful' \subseteq Owners
        /\ faults' \in 0 .. MaxFaults /\ crashes' = crashes
    BY <1>1, <1>3, SkipMoved
  <2>2. TypeOK'
    BY <1>3, <2>1 DEF TypeInv, TypeOK, WriteRow, rows
  <2>3. QED
    BY <1>1, <1>3, <2>1, <2>2, MovedInv DEF TypeInv
<1>4. CASE ~(SkipWrite(k) /\ UNCHANGED <<rows, shown>>)
  <2>1. Written(k) /\ Step(k, "delete") /\ budget' = budget
    BY <1>4 DEF WriteRow, Written, NoFault
  <2>2. Moved(k) /\ work' \in [Kinds -> WorkStates] /\ work'[k].pc = "delete"
    BY <1>1, <2>1, StepMoved
  <2>3. image' \in [Owners -> Pictures]
    BY <1>2, <2>1 DEF Written, Pictures, TypeInv, TypeOK
  <2>4. text' \in [Owners -> Edits \cup {None}]
    BY <1>2, <2>1 DEF Written, WorkStates, TypeInv, TypeOK
  <2>5. shown' \subseteq Uploads /\ doubtful' \subseteq Owners /\ spoiled' = spoiled
    BY <1>2, <2>1 DEF Written, TypeInv, TypeOK
  <2>6. TypeOK'
    BY <2>1, <2>2, <2>3, <2>4, <2>5 DEF TypeInv, TypeOK, WriteRow, budget
  <2>7. QED
    BY <1>1, <2>1, <2>2, <2>6, MovedInv DEF TypeInv
<1>5. QED
  BY <1>3, <1>4

LEMMA DeleteMoved ==
  ASSUME TypeInv, NEW k \in Kinds, DeleteOld(k)
  PROVE  Moved(k) /\ TypeInv' /\ work'[k].pc = "ack"
<1>1. work[k].pc = "delete" /\ upload' = upload /\ queue' = queue /\ Step(k, "ack")
  BY DEF DeleteOld, At
<1>2. Moved(k) /\ work' \in [Kinds -> WorkStates] /\ work'[k].pc = "ack"
  BY <1>1, StepMoved
<1>3. TypeOK'
  BY <1>2, BoundAssumption DEF TypeInv, TypeOK, DeleteOld, rows, marks, Fault, NoFault, budget
<1>4. QED
  BY <1>1, <1>2, <1>3, MovedInv DEF TypeInv

\* The copy for the next attempt.
Copied(k) == LET r == Job(k)  n == work[k].task[2] IN
  /\ n < MaxRetries
  /\ queue' = [queue EXCEPT ![<<r, n + 1>>] = @ + 1]

LEMMA CopyQueue ==
  ASSUME TypeInv, NEW k \in Kinds, work[k].pc # "idle", Copied(k)
  PROVE  /\ queue' \in [Tasks -> Nat]
         /\ work[k].task[2] \in 0 .. MaxRetries
         /\ <<Job(k), work[k].task[2] + 1>> \in Tasks
         /\ queue'[<<Job(k), work[k].task[2] + 1>>] > 0
         /\ \A s \in Tasks : s # <<Job(k), work[k].task[2] + 1>> => queue'[s] = queue[s]
<1>1. work[k].task \in Tasks /\ Job(k) \in Uploads
  BY JobFacts
<1> DEFINE t == <<Job(k), work[k].task[2] + 1>>
<1>2. work[k].task[2] \in 0 .. MaxRetries /\ t \in Tasks
  BY <1>1, TaskType, BoundAssumption DEF Copied, Tasks
<1>3. queue \in [Tasks -> Nat] /\ queue' = [queue EXCEPT ![t] = queue[t] + 1]
  BY DEF Copied, TypeInv, TypeOK
<1>4. queue[t] + 1 \in Nat /\ queue[t] + 1 > 0
  BY <1>2, <1>3
<1> HIDE DEF t
<1>5. /\ queue' \in [Tasks -> Nat]
      /\ queue'[t] = queue[t] + 1
      /\ \A s \in Tasks : s # t => queue'[s] = queue[s]
  BY <1>2, <1>3, <1>4, OneTask
<1>6. QED
  BY <1>2, <1>4, <1>5 DEF t

LEMMA ErrorMoved ==
  ASSUME TypeInv, NEW k \in Kinds, HandleError(k)
  PROVE  /\ Moved(k) /\ TypeInv' /\ work'[k].pc = "ack"
         /\ spoiled \subseteq spoiled'
         /\ Copied(k) \/ queue' = queue
<1>1. work[k].pc = "fail" /\ upload' = upload /\ Step(k, "ack")
  BY DEF HandleError, At
<1>2. Moved(k) /\ work' \in [Kinds -> WorkStates] /\ work'[k].pc = "ack"
  BY <1>1, StepMoved
<1>3. Job(k) \in Uploads
  BY <1>1, JobFacts
<1>4. /\ spoiled \subseteq spoiled' /\ spoiled' \subseteq Uploads
      /\ faults' \in 0 .. MaxFaults /\ crashes' = crashes
  BY <1>3, BoundAssumption DEF HandleError, TypeInv, TypeOK, Fault, NoFault, budget
<1>5. Copied(k) \/ queue' = queue
  BY DEF HandleError, Copied
<1>6. queue' \in [Tasks -> Nat]
  BY <1>1, <1>5, CopyQueue DEF TypeInv, TypeOK
<1>7. TypeOK'
  BY <1>2, <1>4, <1>6 DEF TypeInv, TypeOK, HandleError, rows
<1>8. ASSUME NEW r \in Uploads, NEW n \in 0 .. MaxRetries, queue'[<<r, n>>] > 0
      PROVE  queue[<<r, n>>] > 0 \/ r = Job(k)
  <2>1. <<r, n>> \in Tasks
    BY DEF Tasks
  <2>2. QED
    BY <1>1, <1>5, <1>8, <2>1, CopyQueue
<1>9. QED
  BY <1>2, <1>4, <1>5, <1>7, <1>8, MovedInv DEF TypeInv

LEMMA AckMoved ==
  ASSUME TypeInv, NEW k \in Kinds, Ack(k)
  PROVE  Moved(k) /\ TypeInv' /\ work'[k].pc = "remove"
<1>1. work[k].pc = "ack" /\ upload' = upload /\ queue' = queue /\ Step(k, "remove")
  BY DEF Ack, At
<1>2. Moved(k) /\ work' \in [Kinds -> WorkStates] /\ work'[k].pc = "remove"
  BY <1>1, StepMoved
<1>3. TypeOK'
  BY <1>2 DEF TypeInv, TypeOK, Ack, rows, marks, budget
<1>4. QED
  BY <1>1, <1>2, <1>3, MovedInv DEF TypeInv

(***************************************************************************)
(* Taking a task and letting it go.                                        *)
(***************************************************************************)
LEMMA TakeFacts ==
  ASSUME TypeInv, NEW k \in Kinds, NEW t \in Tasks, Take(k, t)
  PROVE  /\ TypeInv'
         /\ work[k].pc = "idle" /\ work'[k].pc = "open" /\ work'[k].task = t
         /\ \A j \in Kinds : j # k => work'[j] = work[j]
         /\ queue[t] > 0
         /\ \A s \in Tasks : s # t => queue'[s] = queue[s]
         /\ upload[t[1]].pc = "queued"
<1> DEFINE x == [Rest EXCEPT !.pc = "open", !.task = t]
<1>1. x \in WorkStates /\ x.pc = "open" /\ x.task = t
  BY RestType, StepNames DEF WorkStates
<1>2. work[k].pc = "idle" /\ queue[t] > 0 /\ Kind(upload[t[1]].owner) = k /\ upload' = upload
      /\ work' = [work EXCEPT ![k] = x] /\ queue' = [queue EXCEPT ![t] = queue[t] - 1]
  BY DEF Take, At
<1> HIDE DEF x
<1>3. work \in [Kinds -> WorkStates] /\ queue \in [Tasks -> Nat] /\ queue[t] - 1 \in Nat
  BY <1>2 DEF TypeInv, TypeOK
<1>4. /\ work' \in [Kinds -> WorkStates]
      /\ work'[k] = x
      /\ \A j \in Kinds : j # k => work'[j] = work[j]
  BY <1>1, <1>2, <1>3, OneWork
<1>5. /\ queue' \in [Tasks -> Nat]
      /\ queue'[t] = queue[t] - 1
      /\ \A s \in Tasks : s # t => queue'[s] = queue[s]
  BY <1>2, <1>3, OneTask
<1>6. TypeOK'
  BY <1>4, <1>5 DEF TypeInv, TypeOK, Take, rows, marks, budget
<1>7. upload[t[1]].pc = "queued" /\ t[1] \in Uploads
  BY <1>2, TaskType DEF TypeInv, JobInv
<1>8. \A r \in Uploads : UploadOK(upload'[r])
  BY <1>2 DEF TypeInv, JobInv
<1>9. ASSUME NEW r \in Uploads, NEW n \in 0 .. MaxRetries, queue'[<<r, n>>] > 0
      PROVE  upload'[r].pc = "queued"
  <2>1. <<r, n>> \in Tasks
    BY DEF Tasks
  <2>2. queue[<<r, n>>] > 0
    BY <1>2, <1>5, <1>9, <2>1
  <2>3. QED
    BY <1>2, <2>2 DEF TypeInv, JobInv
<1>10. \A j \in Kinds : WorkOK(j, work[j])'
  <2>1. WorkOK(k, work[k])'
    BY <1>1, <1>2, <1>4, <1>7 DEF WorkOK
  <2>2. ASSUME NEW j \in Kinds, j # k
        PROVE  WorkOK(j, work[j])'
    BY <1>2, <1>4, <2>2 DEF TypeInv, JobInv, WorkOK
  <2>3. QED
    BY <2>1, <2>2
<1>11. JobInv'
  BY <1>8, <1>9, <1>10 DEF JobInv, UploadOK
<1>12. QED
  BY <1>1, <1>2, <1>4, <1>5, <1>6, <1>7, <1>11 DEF TypeInv

LEMMA RemoveFacts ==
  ASSUME TypeInv, NEW k \in Kinds, RemoveFile(k)
  PROVE  /\ TypeInv'
         /\ work[k].pc = "remove" /\ work'[k] = Rest
         /\ \A j \in Kinds : j # k => work'[j] = work[j]
         /\ \/ files' = files \ {Of(k).file} /\ leaked' = leaked
            \/ files' = files /\ leaked' = leaked \cup {Of(k).file}
<1>1. work[k].pc = "remove" /\ upload' = upload /\ queue' = queue
      /\ work' = [work EXCEPT ![k] = Rest]
      /\ \/ files' = files \ {Of(k).file} /\ leaked' = leaked
         \/ files' = files /\ leaked' = leaked \cup {Of(k).file}
  BY DEF RemoveFile, At
<1>2. work \in [Kinds -> WorkStates]
  BY DEF TypeInv, TypeOK
<1>3. /\ work' \in [Kinds -> WorkStates]
      /\ work'[k] = Rest
      /\ \A j \in Kinds : j # k => work'[j] = work[j]
  BY <1>1, <1>2, RestType, OneWork
<1>4. Of(k).file \in FileNames
  BY <1>1, JobFacts
<1>5. TypeOK'
  BY <1>3, <1>4, BoundAssumption
  DEF TypeInv, TypeOK, RemoveFile, rows, Fault, NoFault, budget
<1>6. \A j \in Kinds : WorkOK(j, work[j])'
  BY <1>1, <1>3, RestType DEF TypeInv, JobInv, WorkOK
<1>7. JobInv'
  BY <1>1, <1>6 DEF TypeInv, JobInv, UploadOK
<1>8. QED
  BY <1>1, <1>3, <1>5, <1>7 DEF TypeInv

(***************************************************************************)
(* The steps of a request with a picture.                                  *)
(***************************************************************************)
\* The upload r goes on, the others stay where they are.
UploadMoved(r) ==
  /\ upload[r].pc \in {"saved", "publish"}
  /\ upload'[r].pc \in {"publish", "queued", "failed"}
  /\ upload'[r].owner = upload[r].owner /\ upload'[r].file = upload[r].file
  /\ \A q \in Uploads : q # r => upload'[q] = upload[q]
  /\ work' = work

LEMMA RequestInv ==
  ASSUME TypeInv, NEW r \in Uploads, UploadMoved(r),
         \A q \in Uploads, n \in 0 .. MaxRetries :
           queue'[<<q, n>>] > 0 => queue[<<q, n>>] > 0 \/ upload'[q].pc = "queued"
  PROVE  JobInv'
<1>1. \A q \in Uploads : UploadOK(upload'[q])
  BY DEF UploadMoved, TypeInv, JobInv, UploadOK
<1>2. \A q \in Uploads, n \in 0 .. MaxRetries : queue'[<<q, n>>] > 0 => upload'[q].pc = "queued"
  BY DEF UploadMoved, TypeInv, JobInv
<1>3. ASSUME NEW k \in Kinds
      PROVE  WorkOK(k, work[k])'
  <2>1. WorkOK(k, work[k]) /\ work'[k] = work[k]
    BY DEF UploadMoved, TypeInv, JobInv
  <2>2. CASE work[k].pc = "idle"
    BY <2>1, <2>2 DEF WorkOK
  <2>3. CASE work[k].pc # "idle"
    <3>1. Job(k) \in Uploads /\ Of(k).pc = "queued" /\ Of(k) = upload[work[k].task[1]]
      BY <2>3, JobFacts DEF Of, Job
    <3>2. work[k].task[1] # r
      BY <3>1 DEF UploadMoved
    <3>3. QED
      BY <2>1, <3>1, <3>2 DEF WorkOK, UploadMoved, Job
  <2>4. QED
    BY <2>2, <2>3
<1>4. QED
  BY <1>1, <1>2, <1>3 DEF JobInv, UploadOK

LEMMA NameType ==
  ASSUME TypeInv, NEW r \in Uploads, NEW w \in Owners
  PROVE  FileName(r, w) \in FileNames
BY DEF TypeInv, TypeOK, FileName, FileNames, Owners

LEMMA SaveFacts ==
  ASSUME TypeInv, NEW r \in Uploads, NEW w \in Owners, SaveFile(r, w)
  PROVE  /\ TypeInv'
         /\ upload[r].pc = "new" /\ upload'[r].pc = "saved"
         /\ upload'[r].owner = w /\ upload'[r].file = FileName(r, w) /\ upload'[r].old = None
         /\ \A q \in Uploads : q # r => upload'[q] = upload[q]
<1> DEFINE x == [Fresh EXCEPT !.pc = "saved", !.owner = w, !.file = FileName(r, w)]
<1>1. x \in UploadStates /\ x.pc = "saved" /\ x.owner = w /\ x.file = FileName(r, w) /\ x.old = None
  BY NameType DEF Fresh, UploadStates, Pictures
<1>2. upload[r].pc = "new" /\ upload' = [upload EXCEPT ![r] = x] /\ work' = work /\ queue' = queue
  BY DEF SaveFile, tasks
<1> HIDE DEF x
<1>3. upload \in [Uploads -> UploadStates]
  BY DEF TypeInv, TypeOK
<1>4. /\ upload' \in [Uploads -> UploadStates]
      /\ upload'[r] = x
      /\ \A q \in Uploads : q # r => upload'[q] = upload[q]
  BY <1>1, <1>2, <1>3, OneUpload
<1>5. TypeOK'
  BY <1>2, <1>4, NameType DEF TypeInv, TypeOK, SaveFile, rows, tasks, budget
<1>6. \A q \in Uploads : UploadOK(upload'[q])
  BY <1>1, <1>4, NameType DEF TypeInv, JobInv, UploadOK
<1>7. \A q \in Uploads, n \in 0 .. MaxRetries : queue'[<<q, n>>] > 0 => upload'[q].pc = "queued"
  BY <1>2, <1>4 DEF TypeInv, JobInv
<1>8. ASSUME NEW k \in Kinds
      PROVE  WorkOK(k, work[k])'
  <2>1. WorkOK(k, work[k]) /\ work'[k] = work[k]
    BY <1>2 DEF TypeInv, JobInv
  <2>2. CASE work[k].pc = "idle"
    BY <2>1, <2>2 DEF WorkOK
  <2>3. CASE work[k].pc # "idle"
    <3>1. Job(k) \in Uploads /\ Of(k).pc = "queued" /\ Of(k) = upload[work[k].task[1]]
      BY <2>3, JobFacts DEF Of, Job
    <3>2. work[k].task[1] # r
      BY <1>2, <3>1
    <3>3. QED
      BY <1>4, <2>1, <3>1, <3>2 DEF WorkOK, Job
  <2>4. QED
    BY <2>2, <2>3
<1>9. JobInv'
  BY <1>6, <1>7, <1>8 DEF JobInv, UploadOK
<1>10. QED
  BY <1>1, <1>2, <1>4, <1>5, <1>9 DEF TypeInv

\* A request that goes on, or fails and leaves its file behind.
LEMMA ReadOldFacts ==
  ASSUME TypeInv, NEW r \in Uploads, ReadOld(r)
  PROVE  /\ TypeInv' /\ UploadMoved(r)
         /\ upload'[r].pc \in {"publish", "failed"}
         /\ upload'[r].old \in {upload[r].old, image[upload[r].owner]}
         /\ upload'[r].pc = "failed" => upload[r].file \in leaked'
         /\ leaked \subseteq leaked'
<1>1. upload[r] \in UploadStates /\ upload[r].pc = "saved" /\ work' = work /\ queue' = queue
      /\ upload \in [Uploads -> UploadStates]
  BY DEF ReadOld, tasks, TypeInv, TypeOK
<1>2. upload[r].owner \in Owners /\ upload[r].file \in FileNames
  BY <1>1 DEF TypeInv, JobInv, UploadOK
<1>3. image[upload[r].owner] \in Pictures
  BY <1>2 DEF TypeInv, TypeOK
<1> DEFINE x == [upload[r] EXCEPT !.pc = "publish", !.old = image[upload[r].owner]]
           y == [upload[r] EXCEPT !.pc = "failed"]
<1>4. x \in UploadStates /\ x.pc = "publish" /\ x.owner = upload[r].owner
      /\ x.file = upload[r].file /\ x.old = image[upload[r].owner]
  BY <1>1, <1>3 DEF UploadStates
<1>5. y \in UploadStates /\ y.pc = "failed" /\ y.owner = upload[r].owner
      /\ y.file = upload[r].file /\ y.old = upload[r].old
  BY <1>1 DEF UploadStates
<1>6. \/ upload' = [upload EXCEPT ![r] = x] /\ leaked' = leaked /\ budget' = budget
      \/ upload' = [upload EXCEPT ![r] = y] /\ leaked' = leaked \cup {upload[r].file} /\ Fault
  BY DEF ReadOld, FailUpload, NoFault
<1> HIDE DEF x, y
<1>7. /\ upload' \in [Uploads -> UploadStates]
      /\ \A q \in Uploads : q # r => upload'[q] = upload[q]
      /\ \/ upload'[r] = x /\ leaked' = leaked /\ budget' = budget
         \/ upload'[r] = y /\ leaked' = leaked \cup {upload[r].file} /\ Fault
  BY <1>1, <1>4, <1>5, <1>6, OneUpload
<1>8. UploadMoved(r)
  BY <1>1, <1>4, <1>5, <1>7 DEF UploadMoved
<1>9. TypeOK'
  BY <1>1, <1>2, <1>7, BoundAssumption DEF TypeInv, TypeOK, ReadOld, rows, tasks, Fault, budget
<1>10. JobInv'
  BY <1>1, <1>8, RequestInv
<1>11. QED
  BY <1>4, <1>5, <1>7, <1>8, <1>9, <1>10 DEF TypeInv

LEMMA PublishFacts ==
  ASSUME TypeInv, NEW r \in Uploads, PublishTask(r)
  PROVE  /\ TypeInv' /\ UploadMoved(r)
         /\ upload[r].pc = "publish"
         /\ upload'[r].old = upload[r].old
         /\ leaked \subseteq leaked'
         /\ \/ /\ upload'[r].pc = "queued" /\ leaked' = leaked
               /\ queue'[<<r, 0>>] > 0
               /\ \A s \in Tasks : s # <<r, 0>> => queue'[s] = queue[s]
            \/ upload'[r].pc = "failed" /\ queue' = queue /\ upload[r].file \in leaked'
<1>1. upload[r] \in UploadStates /\ upload[r].pc = "publish" /\ work' = work
      /\ upload \in [Uploads -> UploadStates] /\ queue \in [Tasks -> Nat]
  BY DEF PublishTask, TypeInv, TypeOK
<1>2. upload[r].file \in FileNames
  BY <1>1 DEF TypeInv, JobInv, UploadOK
<1> DEFINE x == [upload[r] EXCEPT !.pc = "queued"]
           y == [upload[r] EXCEPT !.pc = "failed"]
           t == <<r, 0>>
<1>3. x \in UploadStates /\ x.pc = "queued" /\ x.owner = upload[r].owner
      /\ x.file = upload[r].file /\ x.old = upload[r].old
  BY <1>1 DEF UploadStates
<1>4. y \in UploadStates /\ y.pc = "failed" /\ y.owner = upload[r].owner
      /\ y.file = upload[r].file /\ y.old = upload[r].old
  BY <1>1 DEF UploadStates
<1>5. t \in Tasks
  BY BoundAssumption DEF Tasks
<1>6. \/ upload' = [upload EXCEPT ![r] = x] /\ leaked' = leaked /\ budget' = budget
         /\ queue' = [queue EXCEPT ![t] = queue[t] + 1]
      \/ upload' = [upload EXCEPT ![r] = y] /\ leaked' = leaked \cup {upload[r].file}
         /\ Fault /\ queue' = queue
  BY DEF PublishTask, FailUpload, NoFault
<1>7. queue[t] + 1 \in Nat /\ queue[t] + 1 > 0
  BY <1>1, <1>5
<1> HIDE DEF x, y, t
<1>8. /\ upload' \in [Uploads -> UploadStates]
      /\ \A q \in Uploads : q # r => upload'[q] = upload[q]
  BY <1>1, <1>3, <1>4, <1>6, OneUpload
<1>9. \/ /\ upload'[r] = x /\ leaked' = leaked /\ budget' = budget
         /\ queue' \in [Tasks -> Nat] /\ queue'[t] > 0
         /\ \A s \in Tasks : s # t => queue'[s] = queue[s]
      \/ upload'[r] = y /\ leaked' = leaked \cup {upload[r].file} /\ Fault /\ queue' = queue
  BY <1>1, <1>3, <1>4, <1>5, <1>6, <1>7, OneUpload, OneTask
<1>10. UploadMoved(r)
  BY <1>1, <1>3, <1>4, <1>8, <1>9 DEF UploadMoved
<1>11. TypeOK'
  BY <1>1, <1>2, <1>8, <1>9, BoundAssumption DEF TypeInv, TypeOK, PublishTask, rows, Fault, budget
<1>12. ASSUME NEW q \in Uploads, NEW n \in 0 .. MaxRetries, queue'[<<q, n>>] > 0
       PROVE  queue[<<q, n>>] > 0 \/ upload'[q].pc = "queued"
  <2>1. <<q, n>> \in Tasks /\ (<<q, n>> = t => q = r)
    BY DEF Tasks, t
  <2>2. QED
    BY <1>3, <1>9, <1>12, <2>1
<1>13. JobInv'
  BY <1>10, <1>12, RequestInv
<1>14. QED
  BY <1>1, <1>3, <1>4, <1>9, <1>10, <1>11, <1>13 DEF TypeInv, t

(***************************************************************************)
(* Edits, time and crashes.                                                *)
(***************************************************************************)
LEMMA JobInvSame ==
  ASSUME JobInv, UNCHANGED <<upload, tasks>>
  PROVE  JobInv'
BY DEF JobInv, UploadOK, WorkOK, tasks

LEMMA EditReadFacts ==
  ASSUME TypeInv, NEW e \in Edits, NEW w \in Owners, EditRead(e, w)
  PROVE  /\ TypeInv'
         /\ edit'[e].pc = "write" /\ edit'[e].owner = w /\ edit'[e].image = image[w]
         /\ \A d \in Edits : d # e => edit'[d] = edit[d]
<1> DEFINE x == [pc |-> "write", owner |-> w, image |-> image[w]]
<1>1. x \in EditStates /\ x.pc = "write" /\ x.owner = w /\ x.image = image[w]
  BY DEF EditStates, TypeInv, TypeOK
<1>2. edit' = [edit EXCEPT ![e] = x] /\ edit \in [Edits -> EditStates]
  BY DEF EditRead, TypeInv, TypeOK
<1> HIDE DEF x
<1>3. edit' \in [Edits -> EditStates] /\ edit'[e] = x /\ \A d \in Edits : d # e => edit'[d] = edit[d]
  BY <1>1, <1>2, OneEdit
<1>4. TypeOK'
  BY <1>3 DEF TypeInv, TypeOK, EditRead, rows, tasks, marks, budget
<1>5. JobInv'
  BY JobInvSame DEF EditRead, TypeInv
<1>6. QED
  BY <1>1, <1>3, <1>4, <1>5 DEF TypeInv

\* An edit whose request has read the row has an owner.
EditInv == \A e \in Edits : edit[e].pc = "write" => edit[e].owner \in Owners

LEMMA EditWriteFacts ==
  ASSUME TypeInv, EditInv, NEW e \in Edits, EditWrite(e)
  PROVE  /\ TypeInv'
         /\ edit[e].pc = "write" /\ edit'[e].pc = "done"
         /\ \A d \in Edits : d # e => edit'[d] = edit[d]
<1> DEFINE x == [edit[e] EXCEPT !.pc = "done"]
           w == edit[e].owner
<1>1. edit \in [Edits -> EditStates] /\ edit[e] \in EditStates /\ edit[e].pc = "write" /\ w \in Owners
      /\ edit[e].image \in Pictures
  BY DEF EditWrite, EditInv, EditStates, TypeInv, TypeOK
<1>2. x \in EditStates /\ x.pc = "done"
  BY <1>1 DEF EditStates
<1>3. edit' = [edit EXCEPT ![e] = x]
  BY DEF EditWrite
<1> HIDE DEF x
<1>4. edit' \in [Edits -> EditStates] /\ edit'[e] = x /\ \A d \in Edits : d # e => edit'[d] = edit[d]
  BY <1>1, <1>2, <1>3, OneEdit
<1>5. image' \in [Owners -> Pictures] /\ doubtful' \subseteq Owners
  BY <1>1 DEF EditWrite, TypeInv, TypeOK, Pictures
<1>6. text' \in [Owners -> Edits \cup {None}] /\ newest' \in [Owners -> Edits \cup {None}]
  BY <1>1 DEF EditWrite, TypeInv, TypeOK
<1>7. overtaken' \subseteq Users
  <2>1. At("avatar", "write") /\ Of("avatar").owner = w => w \in Users
    <3>1. "avatar" \in Kinds
      BY DEF Kinds
    <3>2. At("avatar", "write") => Kind(Of("avatar").owner) = "avatar" /\ Of("avatar").owner \in Owners
      BY <3>1, JobFacts DEF At
    <3>3. QED
      BY <3>2, KindType
  <2>2. QED
    BY <2>1 DEF EditWrite, TypeInv, TypeOK
<1>8. TypeOK'
  BY <1>4, <1>5, <1>6, <1>7 DEF TypeInv, TypeOK, EditWrite, tasks, budget
<1>9. JobInv'
  BY JobInvSame DEF EditWrite, TypeInv
<1>10. QED
  BY <1>1, <1>2, <1>4, <1>8, <1>9 DEF TypeInv

LEMMA CrashFacts ==
  ASSUME TypeInv, Crash
  PROVE  /\ TypeInv'
         /\ \A k \in Kinds : work'[k] = Rest
         /\ \A r \in Uploads :
              /\ upload'[r].owner = upload[r].owner /\ upload'[r].file = upload[r].file
              /\ upload'[r].old = upload[r].old
              /\ IF upload[r].pc \in {"saved", "publish"}
                   THEN upload'[r].pc = "failed" /\ upload[r].file \in leaked'
                   ELSE upload'[r] = upload[r]
         /\ \A t \in Tasks :
              queue'[t] > 0 <=> queue[t] > 0 \/ \E k \in Kinds : work[k].task = t /\ work[k].pc \in Working
         /\ \A k \in Kinds : work[k].pc = "remove" => Of(k).file \in leaked'
         /\ leaked \subseteq leaked'
         /\ \A e \in Edits : edit'[e].pc # "write" /\ edit'[e].owner = edit[e].owner
<1> DEFINE stopped == {r \in Uploads : upload[r].pc \in {"saved", "publish"}}
           left    == {Of(k).file : k \in {x \in Kinds : At(x, "remove")}}
<1>1. /\ crashes < MaxCrashes /\ crashes' = crashes + 1
      /\ upload' = [r \in Uploads |-> IF r \in stopped THEN [upload[r] EXCEPT !.pc = "failed"]
                                                       ELSE upload[r]]
      /\ queue' = [t \in Tasks |-> IF t \in Unacked THEN queue[t] + 1 ELSE queue[t]]
      /\ work' = [k \in Kinds |-> Rest]
      /\ edit' = [e \in Edits |-> IF edit[e].pc = "write" THEN [edit[e] EXCEPT !.pc = "done"]
                                                          ELSE edit[e]]
      /\ leaked' = leaked \cup {upload[r].file : r \in stopped} \cup left
  BY DEF Crash
<1>2. TypeOK /\ JobInv
  BY DEF TypeInv
<1>3. ASSUME NEW r \in Uploads
      PROVE  /\ upload'[r] \in UploadStates
             /\ upload'[r].owner = upload[r].owner /\ upload'[r].file = upload[r].file
             /\ upload'[r].old = upload[r].old
             /\ IF r \in stopped THEN upload'[r].pc = "failed" ELSE upload'[r] = upload[r]
  <2>1. upload[r] \in UploadStates
    BY <1>2 DEF TypeOK
  <2>2. CASE r \in stopped
    <3> DEFINE y == [upload[r] EXCEPT !.pc = "failed"]
    <3>1. y \in UploadStates /\ y.pc = "failed" /\ y.owner = upload[r].owner
          /\ y.file = upload[r].file /\ y.old = upload[r].old
      BY <2>1 DEF UploadStates
    <3>2. upload'[r] = y
      BY <1>1, <2>2
    <3> HIDE DEF y
    <3>3. QED
      BY <2>2, <3>1, <3>2
  <2>3. CASE r \notin stopped
    BY <1>1, <2>1, <2>3
  <2>4. QED
    BY <2>2, <2>3
<1>4. upload' \in [Uploads -> UploadStates]
  <2>1. upload' = [r \in Uploads |-> upload'[r]]
    BY <1>1
  <2>2. QED
    BY <1>3, <2>1
<1>5. \A t \in Tasks :
        /\ queue'[t] \in Nat
        /\ queue'[t] > 0 <=> queue[t] > 0 \/ \E k \in Kinds : work[k].task = t /\ work[k].pc \in Working
  BY <1>1, <1>2 DEF TypeOK, Unacked
<1>6. queue' \in [Tasks -> Nat]
  BY <1>1, <1>2 DEF TypeOK
<1>7. work' \in [Kinds -> WorkStates] /\ \A k \in Kinds : work'[k] = Rest
  BY <1>1, RestType
<1>8. ASSUME NEW e \in Edits
      PROVE  edit'[e] \in EditStates /\ edit'[e].pc # "write" /\ edit'[e].owner = edit[e].owner
  <2>1. edit[e] \in EditStates
    BY <1>2 DEF TypeOK
  <2> DEFINE y == [edit[e] EXCEPT !.pc = "done"]
  <2>2. y \in EditStates /\ y.pc = "done" /\ y.owner = edit[e].owner
    BY <2>1 DEF EditStates
  <2>3. edit'[e] = IF edit[e].pc = "write" THEN y ELSE edit[e]
    BY <1>1
  <2> HIDE DEF y
  <2>4. QED
    BY <2>1, <2>2, <2>3
<1>9. edit' \in [Edits -> EditStates]
  <2>1. edit' = [e \in Edits |-> edit'[e]]
    BY <1>1
  <2>2. QED
    BY <1>8, <2>1
<1>10. \A r \in stopped : upload[r].file \in FileNames
  BY <1>2 DEF JobInv, UploadOK
<1>11. left \subseteq FileNames
  BY JobFacts DEF At
<1> HIDE DEF left
<1>12. leaked' \subseteq FileNames
  BY <1>1, <1>2, <1>10, <1>11 DEF TypeOK
<1>13. TypeOK'
  BY <1>1, <1>2, <1>4, <1>6, <1>7, <1>9, <1>12, BoundAssumption DEF TypeOK, Crash, rows
<1>14. \A r \in Uploads : UploadOK(upload'[r])
  <2>1. ASSUME NEW r \in Uploads PROVE UploadOK(upload'[r])
    <3>1. UploadOK(upload[r])
      BY <1>2 DEF JobInv
    <3>2. CASE r \in stopped
      BY <1>3, <3>1, <3>2 DEF UploadOK
    <3>3. CASE r \notin stopped
      BY <1>3, <3>1, <3>3
    <3>4. QED
      BY <3>2, <3>3
  <2>2. QED
    BY <2>1
<1>15. \A r \in Uploads : upload[r].pc = "queued" => upload'[r].pc = "queued"
  BY <1>3
<1>16. ASSUME NEW r \in Uploads, NEW n \in 0 .. MaxRetries, queue'[<<r, n>>] > 0
       PROVE  upload'[r].pc = "queued"
  <2>1. <<r, n>> \in Tasks
    BY DEF Tasks
  <2>2. CASE queue[<<r, n>>] > 0
    BY <1>2, <1>15, <2>2 DEF JobInv
  <2>3. CASE ~(queue[<<r, n>>] > 0)
    <3>1. PICK k \in Kinds : work[k].task = <<r, n>> /\ work[k].pc \in Working
      BY <1>5, <1>16, <2>1, <2>3
    <3>2. work[k].pc # "idle"
      BY <3>1, StepNames
    <3>3. Of(k).pc = "queued" /\ Job(k) = r
      BY <3>1, <3>2, JobFacts DEF Job
    <3>4. QED
      BY <1>15, <3>3 DEF Of
  <2>4. QED
    BY <2>2, <2>3
<1>17. JobInv'
  BY <1>7, <1>14, <1>16, RestType DEF JobInv, UploadOK, WorkOK
<1>18. \A k \in Kinds : work[k].pc = "remove" => Of(k).file \in leaked'
  BY <1>1 DEF left, At
<1>19. leaked \subseteq leaked' /\ \A r \in stopped : upload[r].file \in leaked'
  BY <1>1
<1>20. QED
  BY <1>3, <1>5, <1>7, <1>8, <1>13, <1>17, <1>18, <1>19 DEF TypeInv

LEMMA TickFacts ==
  ASSUME TypeInv, Tick
  PROVE  TypeInv'
<1>1. TypeOK'
  BY BoundAssumption DEF TypeInv, TypeOK, Tick, rows, tasks, marks, budget
<1>2. QED
  BY <1>1, JobInvSame DEF TypeInv, Tick

LEMMA StutterFacts ==
  ASSUME TypeInv, UNCHANGED vars
  PROVE  TypeInv'
<1>1. TypeOK'
  BY DEF TypeInv, TypeOK, vars, rows, tasks, marks, budget
<1>2. QED
  BY <1>1, JobInvSame DEF TypeInv, vars

LEMMA TypeInit == Init => TypeInv /\ EditInv
<1> SUFFICES ASSUME Init PROVE TypeInv /\ EditInv
  OBVIOUS
<1>1. Fresh \in UploadStates /\ UploadOK(Fresh)
  BY DEF Fresh, UploadStates, Pictures, UploadOK
<1>2. [pc |-> "new", owner |-> None, image |-> None] \in EditStates
  BY DEF EditStates, Pictures
<1>3. TypeOK
  BY <1>1, <1>2, RestType, BoundAssumption DEF Init, TypeOK, Pictures
<1>4. \A r \in Uploads, n \in 0 .. MaxRetries : queue[<<r, n>>] = 0
  BY DEF Init, Tasks
<1>5. JobInv
  BY <1>1, <1>4, RestType DEF Init, JobInv, WorkOK
<1>6. QED
  BY <1>3, <1>5 DEF TypeInv, EditInv, Init

LEMMA EditStep ==
  ASSUME TypeInv, EditInv, [Next]_vars
  PROVE  EditInv'
<1>1. ASSUME NEW e \in Edits, NEW w \in Owners, EditRead(e, w)
      PROVE  EditInv'
  BY <1>1, EditReadFacts DEF EditInv
<1>2. ASSUME NEW e \in Edits, EditWrite(e)
      PROVE  EditInv'
  BY <1>2, EditWriteFacts DEF EditInv
<1>3. CASE Crash
  BY <1>3, CrashFacts DEF EditInv
<1>4. CASE UNCHANGED edit
  BY <1>4 DEF EditInv
<1>5. QED
  <2>1. ASSUME NEW r \in Uploads, NEW w \in Owners, SaveFile(r, w) PROVE UNCHANGED edit
    BY <2>1 DEF SaveFile
  <2>2. ASSUME NEW r \in Uploads, ReadOld(r) \/ PublishTask(r) PROVE UNCHANGED edit
    BY <2>2 DEF ReadOld, PublishTask
  <2>3. ASSUME NEW k \in Kinds, WorkerStep(k) PROVE UNCHANGED edit
    BY <2>3 DEF WorkerStep, Take, OpenFile, PutObject, ReadRow, WriteRow, DeleteOld,
                HandleError, Ack, RemoveFile
  <2>4. UNCHANGED vars => UNCHANGED edit
    BY DEF vars
  <2>5. Tick => UNCHANGED edit
    BY DEF Tick
  <2>6. QED
    BY <1>1, <1>2, <1>3, <1>4, <2>1, <2>2, <2>3, <2>4, <2>5 DEF Next

LEMMA TypeStep ==
  ASSUME TypeInv, EditInv, [Next]_vars
  PROVE  TypeInv' /\ EditInv'
<1>1. ASSUME NEW k \in Kinds, WorkerStep(k) PROVE TypeInv'
  BY <1>1, TakeFacts, OpenMoved, PutMoved, ReadMoved, WriteMoved, DeleteMoved, ErrorMoved,
     AckMoved, RemoveFacts DEF WorkerStep
<1>2. TypeInv'
  BY <1>1, SaveFacts, ReadOldFacts, PublishFacts, EditReadFacts, EditWriteFacts, CrashFacts,
     TickFacts, StutterFacts DEF Next
<1>3. QED
  BY <1>2, EditStep

LEMMA TypeAlways == Spec => [](TypeInv /\ EditInv)
BY TypeInit, TypeStep, PTL DEF Spec

\* Every reachable state has its type.
THEOREM TypeCorrect == Spec => []TypeOK
<1>1. TypeInv => TypeOK
  BY DEF TypeInv
<1>2. QED
  BY <1>1, TypeAlways, PTL

(***************************************************************************)
(* Temporary files.                                                        *)
(***************************************************************************)
\* The steps between Take and RemoveFile.
Move(k) == \/ OpenFile(k) \/ PutObject(k) \/ ReadRow(k) \/ WriteRow(k) \/ DeleteOld(k)
           \/ HandleError(k) \/ Ack(k)

LEMMA MoveFacts ==
  ASSUME TypeInv, NEW k \in Kinds, Move(k)
  PROVE  /\ TypeInv' /\ Moved(k)
         /\ files' = files /\ leaked' = leaked /\ edit' = edit /\ newest' = newest
         /\ overtaken' = overtaken
         /\ spoiled \subseteq spoiled' /\ shown \subseteq shown'
         /\ \A r \in Uploads, n \in 0 .. MaxRetries : queue[<<r, n>>] > 0 => queue'[<<r, n>>] > 0
<1>1. TypeInv' /\ Moved(k)
  BY OpenMoved, PutMoved, ReadMoved, WriteMoved, DeleteMoved, ErrorMoved, AckMoved DEF Move
<1>2. files' = files /\ leaked' = leaked /\ edit' = edit /\ newest' = newest /\ overtaken' = overtaken
      /\ spoiled \subseteq spoiled' /\ shown \subseteq shown'
  BY DEF Move, OpenFile, PutObject, ReadRow, WriteRow, SkipWrite, DeleteOld, HandleError, Ack, marks
<1>3. ASSUME NEW r \in Uploads, NEW n \in 0 .. MaxRetries, queue[<<r, n>>] > 0
      PROVE  queue'[<<r, n>>] > 0
  <2>1. <<r, n>> \in Tasks
    BY DEF Tasks
  <2>2. Copied(k) \/ queue' = queue
    BY ErrorMoved DEF Move, OpenFile, PutObject, ReadRow, WriteRow, DeleteOld, Ack
  <2>3. CASE Copied(k)
    BY <1>1, <1>3, <2>1, <2>3, CopyQueue DEF Moved
  <2>4. QED
    BY <1>3, <2>2, <2>3
<1>4. QED
  BY <1>1, <1>2, <1>3

Waiting(r) == \E n \in 0 .. MaxRetries : queue[<<r, n>>] > 0

\* Whoever will remove the file of upload r.
Held(r) == upload[r].pc \in {"saved", "publish"} \/ Waiting(r) \/ AtWork(r)

FileInv == \A f \in files \ leaked : \E r \in Uploads : upload[r].file = f /\ Held(r)

LEMMA FileInvMeaning == FileInv <=> FilesAccounted
<1>1. ASSUME NEW r \in Uploads
      PROVE  Held(r) <=> upload[r].pc \in {"saved", "publish"} \/ Alive(r) \/ AtWork(r)
  <2>1. Waiting(r) => Alive(r)
    BY DEF Waiting, Alive
  <2>2. Alive(r) => Waiting(r) \/ AtWork(r)
    BY DEF Waiting, Alive, AtWork
  <2>3. QED
    BY <2>1, <2>2 DEF Held
<1>2. QED
  BY <1>1 DEF FileInv, FilesAccounted

LEMMA HeldMoved ==
  ASSUME TypeInv, NEW k \in Kinds, Move(k), NEW r \in Uploads, Held(r)
  PROVE  Held(r)'
<1>1. /\ Moved(k)
      /\ \A q \in Uploads, n \in 0 .. MaxRetries : queue[<<q, n>>] > 0 => queue'[<<q, n>>] > 0
  BY MoveFacts
<1>2. Waiting(r) => Waiting(r)'
  BY <1>1 DEF Waiting
<1>3. AtWork(r) => AtWork(r)'
  BY <1>1 DEF AtWork, Moved
<1>4. QED
  BY <1>1, <1>2, <1>3 DEF Held, Moved

LEMMA HeldTaken ==
  ASSUME TypeInv, NEW k \in Kinds, NEW t \in Tasks, Take(k, t), NEW r \in Uploads, Held(r)
  PROVE  Held(r)'
<1>1. /\ work[k].pc = "idle" /\ work'[k].task = t
      /\ \A j \in Kinds : j # k => work'[j] = work[j]
      /\ \A s \in Tasks : s # t => queue'[s] = queue[s]
  BY TakeFacts
<1>0. upload' = upload
  BY DEF Take
<1>2. work[k].task = None
  BY <1>1 DEF TypeInv, JobInv, WorkOK
<1>3. ASSUME Waiting(r) PROVE Held(r)'
  <2>1. PICK n \in 0 .. MaxRetries : queue[<<r, n>>] > 0
    BY <1>3 DEF Waiting
  <2>2. <<r, n>> \in Tasks
    BY DEF Tasks
  <2>3. CASE t = <<r, n>>
    BY <1>0, <1>1, <2>3 DEF Held, AtWork
  <2>4. CASE t # <<r, n>>
    BY <1>0, <1>1, <2>1, <2>2, <2>4 DEF Held, Waiting
  <2>5. QED
    BY <2>3, <2>4
<1>4. ASSUME AtWork(r) PROVE Held(r)'
  <2>1. PICK j \in Kinds, n \in 0 .. MaxRetries : work[j].task = <<r, n>>
    BY <1>4 DEF AtWork
  <2>2. <<r, n>> \in Tasks
    BY DEF Tasks
  <2>3. j # k
    BY <1>2, <2>1, <2>2, NameAssumption
  <2>4. QED
    BY <1>0, <1>1, <2>1, <2>3 DEF Held, AtWork
<1>5. QED
  BY <1>0, <1>1, <1>3, <1>4 DEF Held

LEMMA HeldCrash ==
  ASSUME TypeInv, Crash, NEW r \in Uploads, Held(r), upload[r].file \notin leaked'
  PROVE  Held(r)'
<1>1. /\ upload[r].pc \notin {"saved", "publish"}
      /\ \A t \in Tasks :
           queue'[t] > 0 <=> queue[t] > 0 \/ \E k \in Kinds : work[k].task = t /\ work[k].pc \in Working
      /\ \A k \in Kinds : work[k].pc = "remove" => Of(k).file \in leaked'
  BY CrashFacts
<1>2. PICK n \in 0 .. MaxRetries : queue[<<r, n>>] > 0 \/ \E k \in Kinds : work[k].task = <<r, n>>
  BY <1>1 DEF Held, Waiting, AtWork
<1>3. <<r, n>> \in Tasks /\ <<r, n>> # None
  BY NameAssumption DEF Tasks
<1>4. CASE queue[<<r, n>>] > 0
  BY <1>1, <1>3, <1>4 DEF Held, Waiting
<1>5. ASSUME NEW k \in Kinds, work[k].task = <<r, n>>
      PROVE  Held(r)'
  <2>1. WorkOK(k, work[k]) /\ work[k] \in WorkStates
    BY DEF TypeInv, TypeOK, JobInv
  <2>2. work[k].pc # "idle"
    BY <1>3, <1>5, <2>1 DEF WorkOK
  <2>3. Of(k).file = upload[r].file
    BY <1>5 DEF Of, Job
  <2>4. work[k].pc \in Working
    BY <1>1, <2>1, <2>2, <2>3 DEF WorkStates
  <2>5. QED
    BY <1>1, <1>3, <1>5, <2>4 DEF Held, Waiting
<1>6. QED
  BY <1>2, <1>4, <1>5

LEMMA FileInit == Init => FileInv
BY DEF Init, FileInv

LEMMA FileStep ==
  ASSUME TypeInv, EditInv, FileInv, [Next]_vars
  PROVE  FileInv'
<1>1. ASSUME NEW k \in Kinds, Move(k) PROVE FileInv'
  BY <1>1, MoveFacts, HeldMoved DEF FileInv, Moved
<1>2. ASSUME NEW k \in Kinds, NEW t \in Tasks, Take(k, t) PROVE FileInv'
  BY <1>2, HeldTaken DEF FileInv, Take, marks
<1>3. ASSUME NEW k \in Kinds, RemoveFile(k) PROVE FileInv'
  <2>1. /\ work[k].pc = "remove" /\ work'[k] = Rest
        /\ \A j \in Kinds : j # k => work'[j] = work[j]
        /\ \/ files' = files \ {Of(k).file} /\ leaked' = leaked
           \/ files' = files /\ leaked' = leaked \cup {Of(k).file}
        /\ upload' = upload /\ queue' = queue
    BY <1>3, RemoveFacts DEF RemoveFile
  <2>2. ASSUME NEW f \in files' \ leaked'
        PROVE  \E r \in Uploads : upload'[r].file = f /\ Held(r)'
    <3>1. f \in files \ leaked /\ f # Of(k).file
      BY <2>1, <2>2
    <3>2. PICK r \in Uploads : upload[r].file = f /\ Held(r)
      BY <3>1 DEF FileInv
    <3>3. r # Job(k)
      BY <3>1, <3>2 DEF Of
    <3>4. AtWork(r) => AtWork(r)'
      BY <2>1, <3>3 DEF AtWork, Job
    <3>5. Held(r)'
      BY <2>1, <3>2, <3>4 DEF Held, Waiting
    <3>6. QED
      BY <2>1, <3>2, <3>5
  <2>3. QED
    BY <2>2 DEF FileInv
<1>4. ASSUME NEW r \in Uploads, NEW w \in Owners, SaveFile(r, w) PROVE FileInv'
  <2>1. /\ upload[r].pc = "new" /\ upload'[r].pc = "saved" /\ upload'[r].file = FileName(r, w)
        /\ \A q \in Uploads : q # r => upload'[q] = upload[q]
        /\ files' = files \cup {FileName(r, w)} /\ UNCHANGED <<tasks, leaked>>
    BY <1>4, SaveFacts DEF SaveFile
  <2>2. upload[r].file = None /\ files \subseteq FileNames
    BY <2>1 DEF TypeInv, TypeOK, JobInv, UploadOK
  <2>3. ASSUME NEW f \in files' \ leaked'
        PROVE  \E q \in Uploads : upload'[q].file = f /\ Held(q)'
    <3>1. CASE f = FileName(r, w)
      BY <2>1, <3>1 DEF Held
    <3>2. CASE f # FileName(r, w)
      <4>1. PICK q \in Uploads : upload[q].file = f /\ Held(q)
        BY <2>1, <2>3, <3>2 DEF FileInv
      <4>2. q # r
        BY <2>1, <2>2, <2>3, <3>2, <4>1, NameAssumption
      <4>3. Held(q)'
        BY <2>1, <4>1, <4>2 DEF Held, Waiting, AtWork, tasks
      <4>4. QED
        BY <2>1, <4>1, <4>2, <4>3
    <3>3. QED
      BY <3>1, <3>2
  <2>4. QED
    BY <2>3 DEF FileInv
<1>5. ASSUME NEW r \in Uploads, ReadOld(r) PROVE FileInv'
  <2>1. /\ UploadMoved(r) /\ upload'[r].pc \in {"publish", "failed"}
        /\ upload'[r].pc = "failed" => upload[r].file \in leaked'
        /\ leaked \subseteq leaked' /\ files' = files /\ UNCHANGED tasks
    BY <1>5, ReadOldFacts DEF ReadOld
  <2>2. ASSUME NEW q \in Uploads, Held(q), upload[q].file \notin leaked'
        PROVE  Held(q)' /\ upload'[q].file = upload[q].file
    BY <2>1, <2>2 DEF Held, Waiting, AtWork, UploadMoved, tasks
  <2>3. QED
    BY <2>1, <2>2 DEF FileInv
<1>6. ASSUME NEW r \in Uploads, PublishTask(r) PROVE FileInv'
  <2>1. /\ UploadMoved(r) /\ leaked \subseteq leaked' /\ files' = files
        /\ \/ /\ upload'[r].pc = "queued" /\ leaked' = leaked
              /\ queue'[<<r, 0>>] > 0
              /\ \A s \in Tasks : s # <<r, 0>> => queue'[s] = queue[s]
           \/ upload'[r].pc = "failed" /\ queue' = queue /\ upload[r].file \in leaked'
    BY <1>6, PublishFacts DEF PublishTask
  <2>2. ASSUME NEW q \in Uploads, Held(q), upload[q].file \notin leaked'
        PROVE  Held(q)' /\ upload'[q].file = upload[q].file
    <3>1. CASE q = r
      <4>1. queue'[<<r, 0>>] > 0 /\ 0 \in 0 .. MaxRetries
        BY <2>1, <2>2, <3>1, BoundAssumption
      <4>2. QED
        BY <2>1, <3>1, <4>1 DEF Held, Waiting, UploadMoved
    <3>2. CASE q # r
      <4>1. \A n \in 0 .. MaxRetries : queue'[<<q, n>>] = queue[<<q, n>>]
        BY <2>1, <3>2 DEF Tasks
      <4>2. QED
        BY <2>1, <2>2, <3>2, <4>1 DEF Held, Waiting, AtWork, UploadMoved
    <3>3. QED
      BY <3>1, <3>2
  <2>3. QED
    BY <2>1, <2>2 DEF FileInv
<1>7. CASE Crash
  <2>1. leaked \subseteq leaked' /\ \A r \in Uploads : upload'[r].file = upload[r].file
    BY <1>7, CrashFacts
  <2>2. files' = files
    BY <1>7 DEF Crash
  <2>3. QED
    BY <1>7, <2>1, <2>2, HeldCrash DEF FileInv
<1>8. ASSUME UNCHANGED <<upload, tasks, files, leaked>> PROVE FileInv'
  BY <1>8 DEF FileInv, Held, Waiting, AtWork, tasks
<1>9. ASSUME NEW e \in Edits, EditWrite(e) \/ \E w \in Owners : EditRead(e, w)
      PROVE  UNCHANGED <<upload, tasks, files, leaked>>
  BY <1>9 DEF EditRead, EditWrite, marks
<1>10. Tick \/ UNCHANGED vars => UNCHANGED <<upload, tasks, files, leaked>>
  BY DEF Tick, vars, marks
<1>11. QED
  BY <1>1, <1>2, <1>3, <1>4, <1>5, <1>6, <1>7, <1>8, <1>9, <1>10 DEF Next, WorkerStep, Move

(***************************************************************************)
(* No upload is forgotten.  As long as nothing has gone wrong with an      *)
(* upload its file is there, so that its task can only end with the row    *)
(* written.                                                                *)
(***************************************************************************)
Settled == shown \cup spoiled

SpareInv == \A r \in Uploads :
  upload[r].pc \in {"saved", "publish", "queued"} /\ r \notin Settled => upload[r].file \in files

ShareInv == \A q, r \in Uploads :
  q # r /\ upload[q].file = upload[r].file /\ upload[r].file # None => r \in spoiled

DoneInv == \A k \in Kinds :
  work[k].pc \in {"delete", "fail", "ack", "remove"} => Job(k) \in Settled

AliveInv == \A r \in Uploads : upload[r].pc = "queued" => Alive(r) \/ r \in Settled

ForgetInv == SpareInv /\ ShareInv /\ DoneInv /\ AliveInv

LEMMA MoveSettles ==
  ASSUME TypeInv, SpareInv, DoneInv, NEW k \in Kinds, Move(k)
  PROVE  /\ Settled \subseteq Settled'
         /\ work'[k].pc \in {"delete", "fail", "ack", "remove"} => Job(k) \in Settled'
<1>1. Settled \subseteq Settled'
  BY MoveFacts DEF Settled
<1>2. CASE OpenFile(k)
  <2>1. work[k].pc = "open"
    BY <1>2 DEF OpenFile, At
  <2>2. Job(k) \in Uploads /\ Of(k).pc = "queued"
    BY <2>1, JobFacts
  <2>3. Job(k) \notin Settled => Of(k).file \in files
    BY <2>2 DEF SpareInv, Of
  <2>4. Job(k) \in Settled' \/ Step(k, "put")
    BY <1>1, <1>2, <2>2, <2>3 DEF OpenFile, Settled
  <2>5. Step(k, "put") => work'[k].pc = "put"
    BY <1>2, <2>1, StepMoved DEF OpenFile
  <2>6. QED
    BY <1>1, <2>4, <2>5
<1>3. CASE PutObject(k)
  <2>1. \/ work'[k].pc = "fail"
        \/ work'[k].pc \in {"read", "write"} /\ work'[k].url = <<Of(k).owner, now>>
    BY <1>3, PutMoved
  <2>2. work[k].pc = "put" /\ upload' = upload
    BY <1>3 DEF PutObject, At
  <2>3. CASE Job(k) \in spoiled'
    BY <1>1, <2>3 DEF Settled
  <2>4. CASE Job(k) \notin spoiled'
    <3> DEFINE x == [work[k] EXCEPT !.pc = IF k = "avatar" THEN "read" ELSE "write",
                                    !.url = <<Of(k).owner, now>>]
    <3>1. work' = [work EXCEPT ![k] = x]
      BY <1>3, <2>4 DEF PutObject
    <3>2. work[k] \in WorkStates /\ work \in [Kinds -> WorkStates]
      BY DEF TypeInv, TypeOK
    <3>3. x.pc \in {"read", "write"}
      BY <3>2 DEF WorkStates
    <3> HIDE DEF x
    <3>4. work'[k] = x
      BY <3>1, <3>2
    <3>5. QED
      BY <1>1, <3>3, <3>4
  <2>5. QED
    BY <2>3, <2>4
<1>4. CASE ReadRow(k)
  <2>1. \/ work'[k].pc = "write"
        \/ SkipWrite(k)
    BY <1>4, ReadMoved
  <2>2. QED
    BY <1>1, <2>1 DEF SkipWrite, Settled
<1>5. CASE WriteRow(k)
  <2>1. Written(k) \/ SkipWrite(k)
    BY <1>5, WriteMoved
  <2>2. QED
    BY <1>1, <2>1 DEF Written, SkipWrite, Settled
<1>6. CASE DeleteOld(k) \/ HandleError(k) \/ Ack(k)
  <2>1. work[k].pc \in {"delete", "fail", "ack"}
    BY <1>6 DEF DeleteOld, HandleError, Ack, At
  <2>2. QED
    BY <1>1, <2>1 DEF DoneInv
<1>7. QED
  BY <1>1, <1>2, <1>3, <1>4, <1>5, <1>6 DEF Move

LEMMA ForgetMove ==
  ASSUME TypeInv, ForgetInv, NEW k \in Kinds, Move(k)
  PROVE  ForgetInv'
<1>1. /\ Moved(k)
      /\ \A r \in Uploads, n \in 0 .. MaxRetries : queue[<<r, n>>] > 0 => queue'[<<r, n>>] > 0
  BY MoveFacts
<1>2. files' = files /\ spoiled \subseteq spoiled'
  BY MoveFacts
<1>3. /\ Settled \subseteq Settled'
      /\ work'[k].pc \in {"delete", "fail", "ack", "remove"} => Job(k) \in Settled'
  BY MoveSettles DEF ForgetInv
<1>4. SpareInv'
  BY <1>1, <1>2, <1>3 DEF ForgetInv, SpareInv, Moved
<1>5. ShareInv'
  BY <1>1, <1>2 DEF ForgetInv, ShareInv, Moved
<1>6. DoneInv'
  BY <1>1, <1>3 DEF ForgetInv, DoneInv, Moved, Job
<1>7. AliveInv'
  <2>1. ASSUME NEW r \in Uploads, upload'[r].pc = "queued", r \notin Settled'
        PROVE  Alive(r)'
    <3>1. Alive(r)
      BY <1>1, <1>3, <2>1 DEF ForgetInv, AliveInv, Moved
    <3>2. PICK n \in 0 .. MaxRetries : \/ queue[<<r, n>>] > 0
                                       \/ \E j \in Kinds : work[j].task = <<r, n>> /\ work[j].pc \in Working
      BY <3>1 DEF Alive
    <3>3. CASE queue[<<r, n>>] > 0
      BY <1>1, <3>3 DEF Alive
    <3>4. ASSUME NEW j \in Kinds, work[j].task = <<r, n>>, work[j].pc \in Working
          PROVE  Alive(r)'
      <4>1. CASE j # k
        BY <1>1, <3>4, <4>1 DEF Alive, Moved
      <4>2. CASE j = k
        <5>1. work'[k] \in WorkStates /\ Job(k) = r
          BY <3>4, <4>2, MoveFacts DEF TypeInv, TypeOK, Job
        <5>2. work'[k].pc \in Working
          BY <1>1, <1>3, <2>1, <5>1 DEF Moved, WorkStates
        <5>3. QED
          BY <1>1, <3>4, <4>2, <5>2 DEF Alive, Moved
      <4>3. QED
        BY <4>1, <4>2
    <3>5. QED
      BY <3>2, <3>3, <3>4
  <2>2. QED
    BY <2>1 DEF AliveInv
<1>8. QED
  BY <1>4, <1>5, <1>6, <1>7 DEF ForgetInv

LEMMA ForgetTake ==
  ASSUME TypeInv, ForgetInv, NEW k \in Kinds, NEW t \in Tasks, Take(k, t)
  PROVE  ForgetInv'
<1>1. /\ work[k].pc = "idle" /\ work'[k].pc = "open" /\ work'[k].task = t
      /\ \A j \in Kinds : j # k => work'[j] = work[j]
      /\ \A s \in Tasks : s # t => queue'[s] = queue[s]
  BY TakeFacts
<1>2. UNCHANGED <<upload, files, Settled, spoiled>>
  BY DEF Take, marks, Settled
<1>3. SpareInv' /\ ShareInv'
  BY <1>2 DEF ForgetInv, SpareInv, ShareInv
<1>4. DoneInv'
  BY <1>1, <1>2 DEF ForgetInv, DoneInv, Job
<1>5. ASSUME NEW r \in Uploads, upload'[r].pc = "queued", r \notin Settled'
      PROVE  Alive(r)'
  <2>1. Alive(r)
    BY <1>2, <1>5 DEF ForgetInv, AliveInv
  <2>2. PICK n \in 0 .. MaxRetries : \/ queue[<<r, n>>] > 0
                                     \/ \E j \in Kinds : work[j].task = <<r, n>> /\ work[j].pc \in Working
    BY <2>1 DEF Alive
  <2>3. <<r, n>> \in Tasks
    BY DEF Tasks
  <2>4. CASE queue[<<r, n>>] > 0
    <3>1. CASE t = <<r, n>>
      BY <1>1, <3>1 DEF Alive, Working
    <3>2. CASE t # <<r, n>>
      BY <1>1, <2>3, <2>4, <3>2 DEF Alive
    <3>3. QED
      BY <3>1, <3>2
  <2>5. ASSUME NEW j \in Kinds, work[j].task = <<r, n>>, work[j].pc \in Working
        PROVE  Alive(r)'
    <3>1. j # k
      BY <1>1, <2>5, StepNames
    <3>2. QED
      BY <1>1, <2>5, <3>1 DEF Alive
  <2>6. QED
    BY <2>2, <2>4, <2>5
<1>6. QED
  BY <1>3, <1>4, <1>5 DEF ForgetInv, AliveInv

LEMMA ForgetRemove ==
  ASSUME TypeInv, ForgetInv, NEW k \in Kinds, RemoveFile(k)
  PROVE  ForgetInv'
<1>1. /\ work[k].pc = "remove" /\ work'[k] = Rest
      /\ \A j \in Kinds : j # k => work'[j] = work[j]
      /\ \/ files' = files \ {Of(k).file} /\ leaked' = leaked
         \/ files' = files /\ leaked' = leaked \cup {Of(k).file}
  BY RemoveFacts
<1>2. UNCHANGED <<upload, queue, Settled, spoiled>>
  BY DEF RemoveFile, Settled
<1>3. Job(k) \in Uploads /\ Job(k) \in Settled
  BY <1>1, JobFacts DEF ForgetInv, DoneInv
<1>4. Of(k).file \in FileNames
  BY <1>1, JobFacts
<1>5. ASSUME NEW r \in Uploads, upload[r].pc \in {"saved", "publish", "queued"}, r \notin Settled
      PROVE  upload[r].file \in files'
  <2>1. upload[r].file \in files
    BY <1>5 DEF ForgetInv, SpareInv
  <2>2. upload[r].file # Of(k).file
    BY <1>3, <1>4, <1>5, NameAssumption DEF ForgetInv, ShareInv, Of, Settled
  <2>3. QED
    BY <1>1, <2>1, <2>2
<1>6. SpareInv' /\ ShareInv'
  BY <1>2, <1>5 DEF ForgetInv, SpareInv, ShareInv
<1>7. DoneInv'
  BY <1>1, <1>2, RestType DEF ForgetInv, DoneInv, Job
<1>8. ASSUME NEW r \in Uploads, Alive(r)
      PROVE  Alive(r)'
  BY <1>1, <1>2, <1>8, StepNames DEF Alive
<1>9. AliveInv'
  BY <1>2, <1>8 DEF ForgetInv, AliveInv
<1>10. QED
  BY <1>6, <1>7, <1>9 DEF ForgetInv

LEMMA ForgetSave ==
  ASSUME TypeInv, ForgetInv, NEW r \in Uploads, NEW w \in Owners, SaveFile(r, w)
  PROVE  ForgetInv'
<1>1. /\ upload[r].pc = "new" /\ upload'[r].pc = "saved"
      /\ upload'[r].owner = w /\ upload'[r].file = FileName(r, w) /\ upload'[r].old = None
      /\ \A q \in Uploads : q # r => upload'[q] = upload[q]
  BY SaveFacts
<1>2. files' = files \cup {FileName(r, w)} /\ UNCHANGED <<tasks, shown>>
  BY DEF SaveFile
<1> DEFINE sharing == {q \in Uploads : upload[q].file = FileName(r, w)}
<1>3. spoiled' = IF sharing = {} THEN spoiled ELSE spoiled \cup sharing \cup {r}
  BY DEF SaveFile
<1>4. spoiled \subseteq spoiled' /\ Settled \subseteq Settled'
  BY <1>2, <1>3 DEF Settled
<1>5. SpareInv'
  BY <1>1, <1>2, <1>4 DEF ForgetInv, SpareInv
<1>6. ASSUME NEW q \in Uploads, NEW p \in Uploads, q # p, upload'[q].file = upload'[p].file,
             upload'[p].file # None
      PROVE  p \in spoiled'
  <2>1. CASE p # r /\ q # r
    BY <1>1, <1>4, <1>6, <2>1 DEF ForgetInv, ShareInv
  <2>2. CASE p = r
    <3>1. q \in sharing
      BY <1>1, <1>6, <2>2
    <3>2. QED
      BY <1>3, <2>2, <3>1
  <2>3. CASE q = r /\ p # r
    <3>1. p \in sharing
      BY <1>1, <1>6, <2>3
    <3>2. QED
      BY <1>3, <3>1
  <2>4. QED
    BY <2>1, <2>2, <2>3
<1>7. ShareInv'
  BY <1>6 DEF ShareInv
<1>8. DoneInv'
  BY <1>2, <1>4 DEF ForgetInv, DoneInv, Job, tasks
<1>9. AliveInv'
  BY <1>1, <1>2, <1>4 DEF ForgetInv, AliveInv, Alive, tasks
<1>10. QED
  BY <1>5, <1>7, <1>8, <1>9 DEF ForgetInv

LEMMA ForgetRequest ==
  ASSUME TypeInv, ForgetInv, NEW r \in Uploads, ReadOld(r) \/ PublishTask(r)
  PROVE  ForgetInv'
<1>1. UploadMoved(r) /\ UNCHANGED <<files, work, Settled, spoiled>>
  BY ReadOldFacts, PublishFacts DEF ReadOld, PublishTask, tasks, Settled
<1>2. SpareInv' /\ ShareInv' /\ DoneInv'
  BY <1>1 DEF ForgetInv, SpareInv, ShareInv, DoneInv, UploadMoved, Job
<1>3. \A q \in Uploads : q # r => (Alive(q) => Alive(q)')
  <2>1. CASE ReadOld(r)
    BY <1>1, <2>1 DEF ReadOld, Alive, tasks
  <2>2. CASE PublishTask(r)
    <3>1. \/ /\ upload'[r].pc = "queued" /\ leaked' = leaked
             /\ queue'[<<r, 0>>] > 0
             /\ \A s \in Tasks : s # <<r, 0>> => queue'[s] = queue[s]
          \/ upload'[r].pc = "failed" /\ queue' = queue /\ upload[r].file \in leaked'
      BY <2>2, PublishFacts
    <3>2. \A q \in Uploads, n \in 0 .. MaxRetries : q # r => queue'[<<q, n>>] = queue[<<q, n>>]
      BY <3>1 DEF Tasks
    <3>3. QED
      BY <1>1, <3>2 DEF Alive
  <2>3. QED
    BY <2>1, <2>2
<1>4. upload'[r].pc = "queued" => Alive(r)'
  <2>1. CASE ReadOld(r)
    BY <2>1, ReadOldFacts
  <2>2. CASE PublishTask(r)
    <3>1. \/ /\ upload'[r].pc = "queued" /\ leaked' = leaked
             /\ queue'[<<r, 0>>] > 0
             /\ \A s \in Tasks : s # <<r, 0>> => queue'[s] = queue[s]
          \/ upload'[r].pc = "failed" /\ queue' = queue /\ upload[r].file \in leaked'
      BY <2>2, PublishFacts
    <3>2. 0 \in 0 .. MaxRetries
      BY BoundAssumption
    <3>3. QED
      BY <3>1, <3>2 DEF Alive
  <2>3. QED
    BY <2>1, <2>2
<1>5. AliveInv'
  BY <1>1, <1>3, <1>4 DEF ForgetInv, AliveInv, UploadMoved
<1>6. QED
  BY <1>2, <1>5 DEF ForgetInv

LEMMA ForgetCrash ==
  ASSUME TypeInv, ForgetInv, Crash
  PROVE  ForgetInv'
<1>1. \A k \in Kinds : work'[k] = Rest
  BY CrashFacts
<1>2. \A r \in Uploads :
        /\ upload'[r].owner = upload[r].owner /\ upload'[r].file = upload[r].file
        /\ upload'[r].old = upload[r].old
        /\ IF upload[r].pc \in {"saved", "publish"}
             THEN upload'[r].pc = "failed" /\ upload[r].file \in leaked'
             ELSE upload'[r] = upload[r]
  BY CrashFacts
<1>3. \A t \in Tasks :
        queue'[t] > 0 <=> queue[t] > 0 \/ \E k \in Kinds : work[k].task = t /\ work[k].pc \in Working
  BY CrashFacts
<1>4. UNCHANGED <<files, Settled, spoiled>>
  BY DEF Crash, Settled
<1>5. SpareInv' /\ ShareInv'
  BY <1>2, <1>4 DEF ForgetInv, SpareInv, ShareInv
<1>6. DoneInv'
  BY <1>1, RestType DEF DoneInv
<1>7. ASSUME NEW r \in Uploads, Alive(r)
      PROVE  Alive(r)'
  BY <1>3, <1>7 DEF Alive, Tasks
<1>8. AliveInv'
  BY <1>2, <1>4, <1>7 DEF ForgetInv, AliveInv
<1>9. QED
  BY <1>5, <1>6, <1>8 DEF ForgetInv

LEMMA ForgetSame ==
  ASSUME ForgetInv, UNCHANGED <<upload, tasks, files, shown, spoiled>>
  PROVE  ForgetInv'
BY DEF ForgetInv, SpareInv, ShareInv, DoneInv, AliveInv, Alive, Settled, Job, tasks

LEMMA ForgetInit == Init => ForgetInv
<1> SUFFICES ASSUME Init PROVE ForgetInv
  OBVIOUS
<1>1. \A r \in Uploads : upload[r].pc = "new" /\ upload[r].file = None
  BY DEF Init, Fresh
<1>2. \A k \in Kinds : work[k].pc = "idle"
  BY RestType DEF Init
<1>3. QED
  BY <1>1, <1>2 DEF ForgetInv, SpareInv, ShareInv, DoneInv, AliveInv

LEMMA ForgetStep ==
  ASSUME TypeInv, ForgetInv, [Next]_vars
  PROVE  ForgetInv'
<1>1. ASSUME NEW k \in Kinds, WorkerStep(k) PROVE ForgetInv'
  BY <1>1, ForgetMove, ForgetTake, ForgetRemove DEF WorkerStep, Move
<1>2. ASSUME NEW e \in Edits, EditWrite(e) \/ \E w \in Owners : EditRead(e, w)
      PROVE  UNCHANGED <<upload, tasks, files, shown, spoiled>>
  BY <1>2 DEF EditRead, EditWrite, marks
<1>3. Tick \/ UNCHANGED vars => UNCHANGED <<upload, tasks, files, shown, spoiled>>
  BY DEF Tick, vars, marks
<1>4. QED
  BY <1>1, <1>2, <1>3, ForgetSave, ForgetRequest, ForgetCrash, ForgetSame DEF Next

(***************************************************************************)
(* Retries.  When the first attempt has been let go its file is gone.      *)
(***************************************************************************)
FirstOver(r) == /\ upload[r].pc = "queued"
                /\ queue[<<r, 0>>] = 0
                /\ \A k \in Kinds : work[k].task # <<r, 0>>

Gone(r) == \/ upload[r].file \notin files \ leaked
           \/ \E q \in Uploads \ {r} : upload[q].file = upload[r].file

RetryInv == \A r \in Uploads : FirstOver(r) => Gone(r)

LEMMA RetryMeaning == TypeInv /\ RetryInv => RetriesFindNoFile
<1> SUFFICES ASSUME TypeInv, RetryInv, NEW r \in Uploads,
                    Alive(r), queue[<<r, 0>>] = 0, ~AtWork(r)
             PROVE  Gone(r)
  BY DEF RetriesFindNoFile, Gone
<1>1. 0 \in 0 .. MaxRetries
  BY BoundAssumption
<1>2. \A k \in Kinds : work[k].task # <<r, 0>>
  BY <1>1 DEF AtWork
<1>3. PICK n \in 0 .. MaxRetries : queue[<<r, n>>] > 0
  BY DEF Alive, AtWork
<1>4. upload[r].pc = "queued"
  BY <1>3 DEF TypeInv, JobInv
<1>5. QED
  BY <1>2, <1>4 DEF RetryInv, FirstOver

\* Files come back under their name only together with a second owner.
LEMMA GoneKept ==
  ASSUME NEW r \in Uploads, Gone(r), files' \subseteq files, leaked \subseteq leaked',
         \A q \in Uploads : upload'[q].file = upload[q].file
  PROVE  Gone(r)'
BY DEF Gone

LEMMA RetryMove ==
  ASSUME TypeInv, RetryInv, NEW k \in Kinds, Move(k)
  PROVE  RetryInv'
<1>1. /\ Moved(k)
      /\ \A r \in Uploads, n \in 0 .. MaxRetries : queue[<<r, n>>] > 0 => queue'[<<r, n>>] > 0
  BY MoveFacts
<1>2. files' = files /\ leaked' = leaked
  BY MoveFacts
<1>3. ASSUME NEW r \in Uploads, FirstOver(r)'
      PROVE  Gone(r)'
  <2>1. 0 \in 0 .. MaxRetries /\ <<r, 0>> \in Tasks /\ queue[<<r, 0>>] \in Nat
    BY BoundAssumption DEF Tasks, TypeInv, TypeOK
  <2>2. queue[<<r, 0>>] = 0
    BY <1>1, <1>3, <2>1 DEF FirstOver
  <2>3. FirstOver(r)
    BY <1>1, <1>3, <2>2 DEF FirstOver, Moved
  <2>4. Gone(r)
    BY <2>3 DEF RetryInv
  <2>5. QED
    BY <1>1, <1>2, <2>4, GoneKept DEF Moved
<1>4. QED
  BY <1>3 DEF RetryInv

LEMMA RetryTake ==
  ASSUME TypeInv, RetryInv, NEW k \in Kinds, NEW t \in Tasks, Take(k, t)
  PROVE  RetryInv'
<1>1. /\ work[k].pc = "idle" /\ work'[k].pc = "open" /\ work'[k].task = t
      /\ \A j \in Kinds : j # k => work'[j] = work[j]
      /\ \A s \in Tasks : s # t => queue'[s] = queue[s]
  BY TakeFacts
<1>2. UNCHANGED <<upload, files, leaked>>
  BY DEF Take, marks
<1>3. ASSUME NEW r \in Uploads, FirstOver(r)'
      PROVE  Gone(r)'
  <2>1. <<r, 0>> \in Tasks /\ t # <<r, 0>>
    BY <1>1, <1>3, BoundAssumption DEF Tasks, FirstOver
  <2>2. work[k].task # <<r, 0>>
    BY <1>1, <2>1, NameAssumption DEF TypeInv, JobInv, WorkOK
  <2>3. FirstOver(r)
    BY <1>1, <1>2, <1>3, <2>1, <2>2 DEF FirstOver
  <2>4. QED
    BY <1>2, <2>3, GoneKept DEF RetryInv
<1>4. QED
  BY <1>3 DEF RetryInv

LEMMA RetryRemove ==
  ASSUME TypeInv, RetryInv, NEW k \in Kinds, RemoveFile(k)
  PROVE  RetryInv'
<1>1. /\ work[k].pc = "remove" /\ work'[k] = Rest
      /\ \A j \in Kinds : j # k => work'[j] = work[j]
      /\ \/ files' = files \ {Of(k).file} /\ leaked' = leaked
         \/ files' = files /\ leaked' = leaked \cup {Of(k).file}
  BY RemoveFacts
<1>2. UNCHANGED <<upload, queue>>
  BY DEF RemoveFile
<1>3. ASSUME NEW r \in Uploads, FirstOver(r)'
      PROVE  Gone(r)'
  <2>1. CASE work[k].task = <<r, 0>>
    <3>1. Of(k).file = upload[r].file
      BY <2>1 DEF Of, Job
    <3>2. QED
      BY <1>1, <1>2, <3>1 DEF Gone
  <2>2. CASE work[k].task # <<r, 0>>
    <3>1. FirstOver(r)
      BY <1>1, <1>2, <1>3, <2>2 DEF FirstOver
    <3>2. QED
      BY <1>1, <1>2, <3>1, GoneKept DEF RetryInv
  <2>3. QED
    BY <2>1, <2>2
<1>4. QED
  BY <1>3 DEF RetryInv

LEMMA RetrySave ==
  ASSUME TypeInv, RetryInv, NEW r \in Uploads, NEW w \in Owners, SaveFile(r, w)
  PROVE  RetryInv'
<1>1. /\ upload[r].pc = "new" /\ upload'[r].pc = "saved"
      /\ upload'[r].owner = w /\ upload'[r].file = FileName(r, w) /\ upload'[r].old = None
      /\ \A q \in Uploads : q # r => upload'[q] = upload[q]
  BY SaveFacts
<1>2. files' = files \cup {FileName(r, w)} /\ UNCHANGED <<tasks, leaked>>
  BY DEF SaveFile
<1>3. ASSUME NEW q \in Uploads, FirstOver(q)'
      PROVE  Gone(q)'
  <2>1. q # r /\ FirstOver(q)
    BY <1>1, <1>2, <1>3 DEF FirstOver, tasks
  <2>2. Gone(q)
    BY <2>1 DEF RetryInv
  <2>3. upload[q].file # None /\ upload[r].file = None
    BY <1>1, <2>1, NameAssumption DEF FirstOver, TypeInv, JobInv, UploadOK
  <2>4. CASE upload[q].file = FileName(r, w)
    BY <1>1, <2>1, <2>4 DEF Gone
  <2>5. CASE upload[q].file # FileName(r, w)
    BY <1>1, <1>2, <2>1, <2>2, <2>3, <2>5 DEF Gone
  <2>6. QED
    BY <2>4, <2>5
<1>4. QED
  BY <1>3 DEF RetryInv

LEMMA RetryRequest ==
  ASSUME TypeInv, RetryInv, NEW r \in Uploads, ReadOld(r) \/ PublishTask(r)
  PROVE  RetryInv'
<1>1. UploadMoved(r)
  BY ReadOldFacts, PublishFacts
<1>2. leaked \subseteq leaked'
  BY ReadOldFacts, PublishFacts
<1>3. files' = files
  BY DEF ReadOld, PublishTask
<1>4. ASSUME NEW q \in Uploads, FirstOver(q)'
      PROVE  FirstOver(q)
  <2>1. CASE ReadOld(r)
    <3>1. upload'[r].pc \in {"publish", "failed"}
      BY <2>1, ReadOldFacts
    <3>2. QED
      BY <1>1, <1>4, <2>1, <3>1 DEF ReadOld, FirstOver, UploadMoved, tasks
  <2>2. CASE PublishTask(r)
    <3>1. \/ /\ upload'[r].pc = "queued" /\ leaked' = leaked
             /\ queue'[<<r, 0>>] > 0
             /\ \A s \in Tasks : s # <<r, 0>> => queue'[s] = queue[s]
          \/ upload'[r].pc = "failed" /\ queue' = queue /\ upload[r].file \in leaked'
      BY <2>2, PublishFacts
    <3>2. q # r
      BY <1>4, <3>1 DEF FirstOver
    <3>3. <<q, 0>> \in Tasks /\ <<q, 0>> # <<r, 0>>
      BY <3>2, BoundAssumption DEF Tasks
    <3>4. QED
      BY <1>1, <1>4, <3>1, <3>2, <3>3 DEF FirstOver, UploadMoved
  <2>3. QED
    BY <2>1, <2>2
<1>5. \A q \in Uploads : upload'[q].file = upload[q].file
  BY <1>1 DEF UploadMoved
<1>6. QED
  BY <1>2, <1>3, <1>4, <1>5, GoneKept DEF RetryInv

LEMMA RetryCrash ==
  ASSUME TypeInv, RetryInv, Crash
  PROVE  RetryInv'
<1>1. \A r \in Uploads :
        /\ upload'[r].owner = upload[r].owner /\ upload'[r].file = upload[r].file
        /\ upload'[r].old = upload[r].old
        /\ IF upload[r].pc \in {"saved", "publish"}
             THEN upload'[r].pc = "failed" /\ upload[r].file \in leaked'
             ELSE upload'[r] = upload[r]
  BY CrashFacts
<1>2. \A t \in Tasks :
        queue'[t] > 0 <=> queue[t] > 0 \/ \E k \in Kinds : work[k].task = t /\ work[k].pc \in Working
  BY CrashFacts
<1>3. \A k \in Kinds : work[k].pc = "remove" => Of(k).file \in leaked'
  BY CrashFacts
<1>4. leaked \subseteq leaked'
  BY CrashFacts
<1>5. files' = files
  BY DEF Crash
<1>6. ASSUME NEW r \in Uploads, FirstOver(r)'
      PROVE  Gone(r)'
  <2>1. <<r, 0>> \in Tasks /\ queue[<<r, 0>>] \in Nat
    BY BoundAssumption DEF Tasks, TypeInv, TypeOK
  <2>2. upload[r].pc = "queued"
    BY <1>1, <1>6 DEF FirstOver
  <2>3. queue[<<r, 0>>] = 0 /\ \A k \in Kinds : work[k].task = <<r, 0>> => work[k].pc \notin Working
    BY <1>2, <1>6, <2>1 DEF FirstOver
  <2>4. ASSUME NEW k \in Kinds, work[k].task = <<r, 0>>
        PROVE  Gone(r)'
    <3>1. work[k] \in WorkStates /\ WorkOK(k, work[k])
      BY DEF TypeInv, TypeOK, JobInv
    <3>2. work[k].pc # "idle"
      BY <2>1, <2>4, <3>1, NameAssumption DEF WorkOK
    <3>3. work[k].pc = "remove"
      BY <2>3, <2>4, <3>1, <3>2 DEF WorkStates
    <3>4. upload'[r].file \in leaked'
      BY <1>1, <1>3, <2>4, <3>3 DEF Of, Job
    <3>5. QED
      BY <3>4 DEF Gone
  <2>5. FirstOver(r) => Gone(r)'
    BY <1>1, <1>4, <1>5, GoneKept DEF RetryInv
  <2>6. QED
    BY <2>2, <2>3, <2>4, <2>5 DEF FirstOver
<1>7. QED
  BY <1>6 DEF RetryInv

LEMMA RetryStep ==
  ASSUME TypeInv, RetryInv, [Next]_vars
  PROVE  RetryInv'
<1>1. ASSUME NEW k \in Kinds, WorkerStep(k) PROVE RetryInv'
  BY <1>1, RetryMove, RetryTake, RetryRemove DEF WorkerStep, Move
<1>2. ASSUME UNCHANGED <<upload, tasks, files, leaked>> PROVE RetryInv'
  BY <1>2 DEF RetryInv, FirstOver, Gone, tasks
<1>3. ASSUME NEW e \in Edits, EditWrite(e) \/ \E w \in Owners : EditRead(e, w)
      PROVE  UNCHANGED <<upload, tasks, files, leaked>>
  BY <1>3 DEF EditRead, EditWrite, marks
<1>4. Tick \/ UNCHANGED vars => UNCHANGED <<upload, tasks, files, leaked>>
  BY DEF Tick, vars, marks
<1>5. QED
  BY <1>1, <1>2, <1>3, <1>4, RetrySave, RetryRequest, RetryCrash DEF Next

LEMMA RetryInit == Init => RetryInv
BY DEF Init, Fresh, RetryInv, FirstOver

(***************************************************************************)
(* Edits and the avatar worker.  The worker has the newest name in hand    *)
(* unless an edit has overtaken it.                                        *)
(***************************************************************************)
InHand(k) == work[k].pc = "write" /\ k = "avatar" =>
               work[k].text = newest[Of(k).owner] \/ Of(k).owner \in overtaken

TextInv == EditsKept /\ \A k \in Kinds : InHand(k)

LEMMA TextFrame ==
  ASSUME TypeInv, TextInv, UNCHANGED <<text, newest, overtaken>>,
         \A r \in Uploads : upload[r].pc = "queued" => upload'[r].owner = upload[r].owner,
         \A k \in Kinds : work'[k].pc = "write" =>
           k # "avatar" \/ (work[k].pc = "write" /\ work'[k].text = work[k].text
                                                 /\ work'[k].task = work[k].task)
  PROVE  TextInv'
<1>1. EditsKept'
  BY DEF TextInv, EditsKept
<1>2. ASSUME NEW k \in Kinds
      PROVE  InHand(k)'
  <2>1. work[k].pc = "write" => Job(k) \in Uploads /\ Of(k).pc = "queued"
    BY JobFacts
  <2>2. QED
    BY <2>1 DEF TextInv, InHand, Of, Job
<1>3. QED
  BY <1>1, <1>2 DEF TextInv

LEMMA TextMove ==
  ASSUME TypeInv, TextInv, NEW k \in Kinds, Move(k)
  PROVE  TextInv'
<1>1. Moved(k)
  BY MoveFacts
<1>2. newest' = newest /\ overtaken' = overtaken
  BY MoveFacts
<1>3. \A r \in Uploads : upload'[r].owner = upload[r].owner
  BY <1>1 DEF Moved
<1>4. CASE work'[k].pc # "write" /\ text' = text
  BY <1>1, <1>2, <1>3, <1>4, TextFrame DEF Moved
<1>5. CASE PutObject(k)
  <2>1. work'[k].pc # "write" \/ k # "avatar"
    <3>1. CASE Step(k, "fail")
      <4>1. work[k].pc # "idle" /\ upload' = upload
        BY <1>1 DEF Moved
      <4>2. work'[k].pc = "fail"
        BY <3>1, <4>1, StepMoved
      <4>3. QED
        BY <4>2
    <3>2. CASE ~Step(k, "fail")
      <4> DEFINE x == [work[k] EXCEPT !.pc = IF k = "avatar" THEN "read" ELSE "write",
                                      !.url = <<Of(k).owner, now>>]
      <4>1. work' = [work EXCEPT ![k] = x]
        BY <1>5, <3>2 DEF PutObject
      <4>2. work[k] \in WorkStates /\ work \in [Kinds -> WorkStates]
        BY DEF TypeInv, TypeOK
      <4>3. k = "avatar" => x.pc = "read"
        BY <4>2 DEF WorkStates
      <4> HIDE DEF x
      <4>4. QED
        BY <4>1, <4>2, <4>3
    <3>3. QED
      BY <3>1, <3>2
  <2>2. text' = text
    BY <1>5 DEF PutObject, rows
  <2>3. QED
    BY <1>1, <1>2, <1>3, <2>1, <2>2, TextFrame DEF Moved
<1>6. CASE ReadRow(k)
  <2>1. \/ /\ work'[k].pc = "write" /\ work'[k].url = work[k].url
           /\ work'[k].text = text[Of(k).owner]
           /\ UNCHANGED <<spoiled, doubtful>>
        \/ SkipWrite(k) /\ work'[k].pc = "delete"
    BY <1>6, ReadMoved
  <2>2. text' = text
    BY <1>6 DEF ReadRow, rows
  <2>3. CASE work'[k].pc = "delete"
    BY <1>1, <1>2, <1>3, <2>2, <2>3, TextFrame DEF Moved
  <2>4. CASE work'[k].pc = "write"
    <3>1. Of(k).owner \in Owners /\ work'[k].text = text[Of(k).owner]
      BY <1>1, <2>1, <2>4, JobFacts DEF Moved
    <3>2. text[Of(k).owner] = newest[Of(k).owner] \/ Of(k).owner \in overtaken
      BY <3>1 DEF TextInv, EditsKept
    <3>3. Of(k)' = Of(k)
      BY <1>1 DEF Moved, Of, Job
    <3>4. InHand(k)'
      BY <1>2, <3>1, <3>2, <3>3 DEF InHand
    <3>5. \A j \in Kinds : j # k => InHand(j)'
      BY <1>1, <1>2 DEF TextInv, InHand, Moved, Of, Job
    <3>6. EditsKept'
      BY <1>2, <2>2 DEF TextInv, EditsKept
    <3>7. QED
      BY <3>4, <3>5, <3>6 DEF TextInv
  <2>5. QED
    BY <2>1, <2>3, <2>4
<1>7. CASE WriteRow(k)
  <2>1. work'[k].pc = "delete" /\ (Written(k) \/ UNCHANGED <<rows, shown>>)
    BY <1>7, WriteMoved
  <2>2. work[k].pc = "write"
    BY <1>7 DEF WriteRow, At
  <2>3. CASE UNCHANGED <<rows, shown>>
    BY <1>4, <2>1, <2>3 DEF rows
  <2>4. CASE Written(k)
    <3>1. Of(k).owner \in Owners /\ Kind(Of(k).owner) = k
      BY <2>2, JobFacts
    <3>2. Of(k).owner \in Users => k = "avatar"
      BY <3>1, KindType
    <3>3. text' = IF Of(k).owner \in Users THEN [text EXCEPT ![Of(k).owner] = work[k].text] ELSE text
      BY <2>4 DEF Written
    <3>4. EditsKept'
      BY <1>2, <2>2, <3>1, <3>2, <3>3 DEF TextInv, EditsKept, InHand, TypeInv, TypeOK
    <3>5. \A j \in Kinds : InHand(j)'
      BY <1>1, <1>2, <2>1 DEF TextInv, InHand, Moved, Of, Job
    <3>6. QED
      BY <3>4, <3>5 DEF TextInv
  <2>5. QED
    BY <2>1, <2>3, <2>4
<1>8. CASE OpenFile(k) \/ DeleteOld(k) \/ HandleError(k) \/ Ack(k)
  <2>1. text' = text
    BY <1>8 DEF OpenFile, DeleteOld, HandleError, Ack, rows
  <2>2. work'[k].pc # "write"
    BY <1>8, OpenMoved, DeleteMoved, ErrorMoved, AckMoved
  <2>3. QED
    BY <1>4, <2>1, <2>2
<1>9. QED
  BY <1>5, <1>6, <1>7, <1>8 DEF Move

LEMMA TextEdit ==
  ASSUME TypeInv, EditInv, TextInv, NEW e \in Edits, EditWrite(e)
  PROVE  TextInv'
<1> DEFINE w == edit[e].owner
<1>1. w \in Owners
  BY DEF EditWrite, EditInv
<1>2. /\ text' = [text EXCEPT ![w] = e]
      /\ newest' = [newest EXCEPT ![w] = e]
      /\ overtaken' = IF At("avatar", "write") /\ Of("avatar").owner = w
                        THEN overtaken \cup {w} ELSE overtaken
      /\ UNCHANGED <<upload, work>>
  BY DEF EditWrite, tasks
<1>3. overtaken \subseteq overtaken' /\ text \in [Owners -> Edits \cup {None}]
      /\ newest \in [Owners -> Edits \cup {None}]
  BY <1>2 DEF TypeInv, TypeOK
<1> HIDE DEF w
<1>4. EditsKept'
  BY <1>1, <1>2, <1>3 DEF TextInv, EditsKept
<1>5. ASSUME NEW k \in Kinds, work[k].pc = "write", k = "avatar"
      PROVE  work[k].text = newest'[Of(k).owner] \/ Of(k).owner \in overtaken'
  <2>1. Of(k).owner \in Owners
    BY <1>5, JobFacts
  <2>2. CASE Of(k).owner = w
    BY <1>2, <1>5, <2>2 DEF At
  <2>3. CASE Of(k).owner # w
    BY <1>1, <1>2, <1>3, <1>5, <2>1, <2>3 DEF TextInv, InHand
  <2>4. QED
    BY <2>2, <2>3
<1>6. \A k \in Kinds : InHand(k)'
  BY <1>2, <1>5 DEF InHand, Of, Job
<1>7. QED
  BY <1>4, <1>6 DEF TextInv

LEMMA TextStep ==
  ASSUME TypeInv, EditInv, TextInv, [Next]_vars
  PROVE  TextInv'
<1>1. ASSUME NEW k \in Kinds, NEW t \in Tasks, Take(k, t) PROVE TextInv'
  <2>1. /\ work[k].pc = "idle" /\ work'[k].pc = "open" /\ work'[k].task = t
        /\ \A j \in Kinds : j # k => work'[j] = work[j]
        /\ \A s \in Tasks : s # t => queue'[s] = queue[s]
    BY <1>1, TakeFacts
  <2>2. UNCHANGED <<upload, text, newest, overtaken>>
    BY <1>1 DEF Take, rows, marks
  <2>3. QED
    BY <2>1, <2>2, TextFrame
<1>2. ASSUME NEW k \in Kinds, RemoveFile(k) PROVE TextInv'
  <2>1. work'[k] = Rest /\ \A j \in Kinds : j # k => work'[j] = work[j]
    BY <1>2, RemoveFacts
  <2>2. UNCHANGED <<upload, text, newest, overtaken>>
    BY <1>2 DEF RemoveFile, rows
  <2>3. QED
    BY <2>1, <2>2, RestType, TextFrame
<1>3. ASSUME NEW r \in Uploads, NEW w \in Owners, SaveFile(r, w) PROVE TextInv'
  <2>1. upload[r].pc = "new" /\ \A q \in Uploads : q # r => upload'[q] = upload[q]
    BY <1>3, SaveFacts
  <2>2. UNCHANGED <<work, text, newest, overtaken>>
    BY <1>3 DEF SaveFile, rows, tasks
  <2>3. \A q \in Uploads : upload[q].pc = "queued" => upload'[q].owner = upload[q].owner
    BY <2>1
  <2>4. QED
    BY <2>2, <2>3, TextFrame
<1>4. ASSUME NEW r \in Uploads, ReadOld(r) \/ PublishTask(r) PROVE TextInv'
  <2>1. UploadMoved(r)
    BY <1>4, ReadOldFacts, PublishFacts
  <2>2. UNCHANGED <<work, text, newest, overtaken>>
    BY <1>4 DEF ReadOld, PublishTask, rows, tasks
  <2>3. \A q \in Uploads : upload[q].pc = "queued" => upload'[q].owner = upload[q].owner
    BY <2>1 DEF UploadMoved
  <2>4. QED
    BY <2>2, <2>3, TextFrame
<1>5. CASE Crash
  <2>1. \A k \in Kinds : work'[k] = Rest
    BY <1>5, CrashFacts
  <2>2. \A r \in Uploads : upload'[r].owner = upload[r].owner
    BY <1>5, CrashFacts
  <2>3. UNCHANGED <<text, newest, overtaken>>
    BY <1>5 DEF Crash, rows
  <2>4. QED
    BY <2>1, <2>2, <2>3, RestType, TextFrame
<1>6. ASSUME UNCHANGED <<upload, work, text, newest, overtaken>> PROVE TextInv'
  BY <1>6, TextFrame
<1>7. ASSUME NEW e \in Edits, NEW w \in Owners, EditRead(e, w) PROVE TextInv'
  BY <1>6, <1>7 DEF EditRead, rows, tasks, marks
<1>8. Tick \/ UNCHANGED vars => UNCHANGED <<upload, work, text, newest, overtaken>>
  BY DEF Tick, vars, rows, tasks, marks
<1>9. QED
  BY <1>1, <1>2, <1>3, <1>4, <1>5, <1>6, <1>7, <1>8, TextMove, TextEdit DEF Next, WorkerStep, Move

LEMMA TextInit == Init => TextInv
<1> SUFFICES ASSUME Init PROVE TextInv
  OBVIOUS
<1>1. \A k \in Kinds : work[k].pc = "idle"
  BY RestType DEF Init
<1>2. QED
  BY <1>1 DEF Init, TextInv, EditsKept, InHand

(***************************************************************************)
(* Pictures.  Names in the bucket belong to one row; the worker has an     *)
(* object that exists in hand, and deletes no picture that a row has.      *)
(***************************************************************************)
OwnName(url, w) == url \in URLs => url[1] = w

OldInv == \A r \in Uploads : OwnName(upload[r].old, upload[r].owner)

ReadInv == \A e \in Edits : edit[e].pc = "write" => OwnName(edit[e].image, edit[e].owner)

RowInv == \A w \in Owners : OwnName(image[w], w)

\* The row has another picture than the one about to be deleted.
Replaced(k) == Of(k).old \in URLs => \/ image[Of(k).owner] # Of(k).old
                                     \/ Of(k).owner \in doubtful

AtHand(k) == /\ work[k].pc \in {"read", "write"} =>
                  work[k].url \in objects /\ OwnName(work[k].url, Of(k).owner)
             /\ work[k].pc = "delete" => Replaced(k)

PictureInv == /\ OldInv /\ ReadInv /\ RowInv
              /\ \A k \in Kinds : AtHand(k)
              /\ NoDangling

LEMMA UrlNames == \A w \in Owners, n \in 0 .. MaxTime : OwnName(<<w, n>>, w)
BY DEF OwnName

LEMMA NoneNoUrl == None \notin URLs
BY NameAssumption

\* Workers are at different rows.
LEMMA OwnersApart ==
  ASSUME TypeInv, NEW j \in Kinds, NEW k \in Kinds, j # k, work[j].pc # "idle", work[k].pc # "idle"
  PROVE  Of(j).owner # Of(k).owner
BY JobFacts

LEMMA PictureFrame ==
  ASSUME TypeInv, PictureInv, UNCHANGED <<image, objects>>, doubtful \subseteq doubtful',
         \A r \in Uploads : upload[r].pc = "queued" =>
           upload'[r].owner = upload[r].owner /\ upload'[r].old = upload[r].old,
         OldInv', ReadInv',
         \A k \in Kinds :
           /\ work'[k].pc \in {"read", "write"} =>
                work[k].pc \in {"read", "write"} /\ work'[k].url = work[k].url
                                                 /\ work'[k].task = work[k].task
           /\ work'[k].pc = "delete" =>
                /\ work[k].pc # "idle" /\ work'[k].task = work[k].task
                /\ work[k].pc = "delete" \/ Of(k).owner \in doubtful'
  PROVE  PictureInv'
<1>1. RowInv' /\ NoDangling'
  BY DEF PictureInv, RowInv, NoDangling
<1>2. ASSUME NEW k \in Kinds
      PROVE  AtHand(k)'
  <2>1. CASE work'[k].pc \in {"read", "write"}
    <3>1. work[k].pc \in {"read", "write"} /\ work'[k].url = work[k].url
          /\ work'[k].task = work[k].task
      BY <2>1
    <3>2. Job(k) \in Uploads /\ Of(k).pc = "queued"
      BY <3>1, JobFacts
    <3>3. Of(k)'.owner = Of(k).owner
      BY <3>1, <3>2 DEF Of, Job
    <3>4. work[k].url \in objects /\ OwnName(work[k].url, Of(k).owner)
      BY <3>1 DEF PictureInv, AtHand
    <3>5. QED
      BY <2>1, <3>1, <3>3, <3>4 DEF AtHand, OwnName
  <2>2. CASE work'[k].pc = "delete"
    <3>1. /\ work[k].pc # "idle" /\ work'[k].task = work[k].task
          /\ work[k].pc = "delete" \/ Of(k).owner \in doubtful'
      BY <2>2
    <3>2. Job(k) \in Uploads /\ Of(k).pc = "queued"
      BY <3>1, JobFacts
    <3>3. Of(k)'.owner = Of(k).owner /\ Of(k)'.old = Of(k).old
      BY <3>1, <3>2 DEF Of, Job
    <3>4. Replaced(k) \/ Of(k).owner \in doubtful'
      BY <3>1 DEF PictureInv, AtHand
    <3>5. Replaced(k)'
      BY <3>3, <3>4 DEF Replaced
    <3>6. QED
      BY <2>2, <3>5 DEF AtHand
  <2>3. CASE work'[k].pc \notin {"read", "write", "delete"}
    BY <2>3 DEF AtHand
  <2>4. QED
    BY <2>1, <2>2, <2>3
<1>3. QED
  BY <1>1, <1>2 DEF PictureInv

\* Steps of workers that change no picture.
LEMMA PictureMove ==
  ASSUME TypeInv, PictureInv, NEW k \in Kinds, Moved(k), UNCHANGED <<image, objects, edit>>,
         doubtful \subseteq doubtful',
         \/ work'[k].pc \notin {"read", "write", "delete"}
         \/ work'[k].pc = "write" /\ work[k].pc = "read" /\ work'[k].url = work[k].url
         \/ work'[k].pc = "delete" /\ Of(k).owner \in doubtful'
  PROVE  PictureInv'
<1>1. OldInv' /\ ReadInv'
  BY DEF PictureInv, OldInv, ReadInv, Moved
<1>2. ASSUME NEW j \in Kinds
      PROVE  /\ work'[j].pc \in {"read", "write"} =>
                  work[j].pc \in {"read", "write"} /\ work'[j].url = work[j].url
                                                   /\ work'[j].task = work[j].task
             /\ work'[j].pc = "delete" =>
                  /\ work[j].pc # "idle" /\ work'[j].task = work[j].task
                  /\ work[j].pc = "delete" \/ Of(j).owner \in doubtful'
  BY DEF Moved
<1>3. upload' = upload
  BY DEF Moved
<1>4. QED
  BY <1>1, <1>2, <1>3, PictureFrame

LEMMA PicturePut ==
  ASSUME TypeInv, PictureInv, NEW k \in Kinds, PutObject(k)
  PROVE  PictureInv'
<1>1. /\ Moved(k)
      /\ \/ work'[k].pc = "fail"
         \/ work'[k].pc \in {"read", "write"} /\ work'[k].url = <<Of(k).owner, now>>
  BY PutMoved
<1>2. UNCHANGED <<image, edit, doubtful>> /\ objects \subseteq objects'
  BY DEF PutObject, rows
<1>3. Of(k).owner \in Owners /\ now \in 0 .. MaxTime
  BY <1>1, JobFacts DEF Moved, TypeInv, TypeOK
<1>4. OldInv' /\ ReadInv' /\ RowInv' /\ NoDangling'
  BY <1>1, <1>2 DEF PictureInv, OldInv, ReadInv, RowInv, NoDangling, Moved
<1>5. AtHand(k)'
  <2>1. CASE work'[k].pc = "fail"
    BY <2>1 DEF AtHand
  <2>2. CASE work'[k].pc \in {"read", "write"} /\ work'[k].url = <<Of(k).owner, now>>
    <3>1. <<Of(k).owner, now>> \in objects'
      <4>1. CASE Step(k, "fail")
        <5>1. work[k].pc # "idle" /\ upload' = upload
          BY <1>1 DEF Moved
        <5>2. work'[k].pc = "fail"
          BY <4>1, <5>1, StepMoved
        <5>3. QED
          BY <2>2, <5>2
      <4>2. CASE ~Step(k, "fail")
        BY <4>2 DEF PutObject
      <4>3. QED
        BY <4>1, <4>2
    <3>2. Of(k)' = Of(k)
      BY <1>1 DEF Moved, Of, Job
    <3>3. OwnName(<<Of(k).owner, now>>, Of(k).owner)
      BY <1>3, UrlNames
    <3>4. QED
      BY <2>2, <3>1, <3>2, <3>3 DEF AtHand, OwnName
  <2>3. QED
    BY <1>1, <2>1, <2>2
<1>6. \A j \in Kinds : j # k => AtHand(j)'
  BY <1>1, <1>2 DEF PictureInv, AtHand, Replaced, OwnName, Moved, Of, Job
<1>7. QED
  BY <1>4, <1>5, <1>6 DEF PictureInv

LEMMA PictureWrite ==
  ASSUME TypeInv, PictureInv, NEW k \in Kinds, WriteRow(k)
  PROVE  PictureInv'
<1>1. /\ Moved(k) /\ work'[k].pc = "delete"
      /\ \/ Written(k)
         \/ SkipWrite(k) /\ UNCHANGED <<rows, shown>>
  BY WriteMoved
<1>2. UNCHANGED <<objects, edit>> /\ work[k].pc = "write"
  BY DEF WriteRow, At
<1>3. CASE SkipWrite(k) /\ UNCHANGED <<rows, shown>>
  BY <1>1, <1>2, <1>3, PictureMove DEF SkipWrite, rows
<1>4. CASE Written(k)
  <2> DEFINE w == Of(k).owner
  <2>1. w \in Owners /\ work[k].url \in objects /\ OwnName(work[k].url, w)
    BY <1>2, JobFacts DEF PictureInv, AtHand
  <2>2. /\ image' = [image EXCEPT ![w] = work[k].url]
        /\ doubtful' = IF work[k].url = Of(k).old THEN doubtful \cup {w} ELSE doubtful \ {w}
    BY <1>4 DEF Written
  <2>3. image \in [Owners -> Pictures]
    BY DEF TypeInv, TypeOK
  <2>4. image'[w] = work[k].url /\ \A v \in Owners : v # w => image'[v] = image[v]
    BY <2>1, <2>2, <2>3
  <2>5. \A v \in Owners : v # w => (v \in doubtful' <=> v \in doubtful)
    BY <2>2
  <2>6. Of(k)' = Of(k)
    BY <1>1 DEF Moved, Of, Job
  <2>7. Replaced(k)'
    BY <2>2, <2>4, <2>6 DEF Replaced
  <2> HIDE DEF w
  <2>8. OldInv' /\ ReadInv'
    BY <1>1, <1>2 DEF PictureInv, OldInv, ReadInv, Moved
  <2>9. RowInv' /\ NoDangling'
    BY <1>2, <2>1, <2>4, <2>5 DEF PictureInv, RowInv, NoDangling, OwnName
  <2>10. AtHand(k)'
    BY <1>1, <2>7 DEF AtHand
  <2>11. ASSUME NEW j \in Kinds, j # k
         PROVE  AtHand(j)'
    <3>1. work'[j] = work[j] /\ Of(j)' = Of(j)
      BY <1>1, <2>11 DEF Moved, Of, Job
    <3>2. AtHand(j)
      BY DEF PictureInv
    <3>3. CASE work[j].pc = "delete"
      <4>1. Of(j).owner # w /\ Of(j).owner \in Owners
        BY <1>2, <2>11, <3>3, OwnersApart, JobFacts DEF w
      <4>2. QED
        BY <2>4, <2>5, <3>1, <3>2, <3>3, <4>1 DEF AtHand, Replaced
    <3>4. CASE work[j].pc # "delete"
      BY <1>2, <3>1, <3>2, <3>4 DEF AtHand, OwnName
    <3>5. QED
      BY <3>3, <3>4
  <2>12. QED
    BY <2>8, <2>9, <2>10, <2>11 DEF PictureInv
<1>5. QED
  BY <1>1, <1>3, <1>4

LEMMA PictureDelete ==
  ASSUME TypeInv, PictureInv, NEW k \in Kinds, DeleteOld(k)
  PROVE  PictureInv'
<1>1. Moved(k) /\ work'[k].pc = "ack"
  BY DeleteMoved
<1>2. work[k].pc = "delete" /\ UNCHANGED <<image, edit, doubtful>>
      /\ objects \ {Of(k).old} \subseteq objects'
  BY DEF DeleteOld, At, rows, marks
<1>3. Of(k).owner \in Owners /\ Job(k) \in Uploads /\ Replaced(k)
  BY <1>2, JobFacts DEF PictureInv, AtHand
<1>4. OldInv' /\ ReadInv' /\ RowInv'
  BY <1>1, <1>2 DEF PictureInv, OldInv, ReadInv, RowInv, Moved
<1>5. OwnName(Of(k).old, Of(k).owner)
  BY <1>3 DEF PictureInv, OldInv, Of
<1>6. NoDangling'
  <2>1. ASSUME NEW w \in Owners, image[w] \in URLs, w \notin doubtful
        PROVE  image[w] \in objects'
    <3>1. image[w] \in objects /\ image[w][1] = w
      BY <2>1 DEF PictureInv, NoDangling, RowInv, OwnName
    <3>2. image[w] # Of(k).old
      BY <1>3, <1>5, <2>1, <3>1 DEF Replaced, OwnName
    <3>3. QED
      BY <1>2, <3>1, <3>2
  <2>2. QED
    BY <1>2, <2>1 DEF NoDangling
<1>7. ASSUME NEW j \in Kinds
      PROVE  AtHand(j)'
  <2>1. CASE j = k
    BY <1>1, <2>1 DEF AtHand
  <2>2. CASE j # k
    <3>1. work'[j] = work[j] /\ Of(j)' = Of(j)
      BY <1>1, <2>2 DEF Moved, Of, Job
    <3>2. AtHand(j)
      BY DEF PictureInv
    <3>3. CASE work[j].pc \in {"read", "write"}
      <4>1. Of(j).owner # Of(k).owner /\ work[j].url \in URLs
        BY <1>2, <2>2, <3>3, OwnersApart, JobFacts
      <4>2. work[j].url \in objects /\ OwnName(work[j].url, Of(j).owner)
        BY <3>2, <3>3 DEF AtHand
      <4>3. work[j].url # Of(k).old
        BY <1>5, <4>1, <4>2 DEF OwnName
      <4>4. QED
        BY <1>2, <3>1, <3>3, <4>2, <4>3 DEF AtHand, OwnName
    <3>4. CASE work[j].pc \notin {"read", "write"}
      BY <1>2, <3>1, <3>2, <3>4 DEF AtHand, Replaced
    <3>5. QED
      BY <3>3, <3>4
  <2>3. QED
    BY <2>1, <2>2
<1>8. QED
  BY <1>4, <1>6, <1>7 DEF PictureInv

LEMMA PictureEdit ==
  ASSUME TypeInv, EditInv, PictureInv, NEW e \in Edits, EditWrite(e)
  PROVE  PictureInv'
<1> DEFINE w == edit[e].owner
<1>1. w \in Owners /\ edit[e].pc = "write" /\ OwnName(edit[e].image, w)
  BY DEF EditWrite, EditInv, PictureInv, ReadInv
<1>2. UNCHANGED <<objects, upload, work>>
  BY DEF EditWrite, tasks
<1>3. image \in [Owners -> Pictures]
  BY DEF TypeInv, TypeOK
<1>4. /\ image'[w] \in {image[w], None} \/ (image'[w] = edit[e].image /\ w \in doubtful')
      /\ \A v \in Owners : v # w => image'[v] = image[v]
      /\ doubtful \subseteq doubtful'
  BY <1>1, <1>3 DEF EditWrite
<1> HIDE DEF w
<1>5. RowInv' /\ NoDangling'
  BY <1>1, <1>2, <1>4, NoneNoUrl DEF PictureInv, RowInv, NoDangling, OwnName
<1>6. OldInv'
  BY <1>2 DEF PictureInv, OldInv
<1>7. ReadInv'
  <2>1. edit'[e].pc = "done" /\ \A d \in Edits : d # e => edit'[d] = edit[d]
    BY EditWriteFacts
  <2>2. QED
    BY <2>1 DEF PictureInv, ReadInv
<1>8. ASSUME NEW k \in Kinds
      PROVE  AtHand(k)'
  <2>1. AtHand(k) /\ work'[k] = work[k] /\ Of(k)' = Of(k)
    BY <1>2 DEF PictureInv, Of, Job
  <2>2. CASE work[k].pc = "delete"
    <3>1. Of(k).owner \in Owners /\ Replaced(k)
      BY <2>1, <2>2, JobFacts DEF AtHand
    <3>2. Replaced(k)'
      BY <1>4, <2>1, <3>1, NoneNoUrl DEF Replaced
    <3>3. QED
      BY <2>1, <2>2, <3>2 DEF AtHand
  <2>3. CASE work[k].pc # "delete"
    BY <1>2, <2>1, <2>3 DEF AtHand, OwnName
  <2>4. QED
    BY <2>2, <2>3
<1>9. QED
  BY <1>5, <1>6, <1>7, <1>8 DEF PictureInv

LEMMA PictureStep ==
  ASSUME TypeInv, EditInv, PictureInv, [Next]_vars
  PROVE  PictureInv'
<1>1. ASSUME NEW k \in Kinds, NEW t \in Tasks, Take(k, t) PROVE PictureInv'
  <2>1. /\ work[k].pc = "idle" /\ work'[k].pc = "open" /\ work'[k].task = t
        /\ \A j \in Kinds : j # k => work'[j] = work[j]
        /\ \A s \in Tasks : s # t => queue'[s] = queue[s]
    BY <1>1, TakeFacts
  <2>2. UNCHANGED <<upload, image, objects, edit, doubtful>>
    BY <1>1 DEF Take, rows, marks
  <2>3. OldInv' /\ ReadInv'
    BY <2>2 DEF PictureInv, OldInv, ReadInv
  <2>4. QED
    BY <2>1, <2>2, <2>3, PictureFrame
<1>2. ASSUME NEW k \in Kinds, RemoveFile(k) PROVE PictureInv'
  <2>1. work'[k] = Rest /\ \A j \in Kinds : j # k => work'[j] = work[j]
    BY <1>2, RemoveFacts
  <2>2. UNCHANGED <<upload, image, objects, edit, doubtful>>
    BY <1>2 DEF RemoveFile, rows
  <2>3. OldInv' /\ ReadInv'
    BY <2>2 DEF PictureInv, OldInv, ReadInv
  <2>4. QED
    BY <2>1, <2>2, <2>3, RestType, PictureFrame
<1>3. ASSUME NEW k \in Kinds, OpenFile(k) \/ HandleError(k) \/ Ack(k) PROVE PictureInv'
  <2>1. Moved(k) /\ work'[k].pc \in {"put", "fail", "ack", "remove"}
    BY <1>3, OpenMoved, ErrorMoved, AckMoved
  <2>2. UNCHANGED <<image, objects, edit, doubtful>>
    BY <1>3 DEF OpenFile, HandleError, Ack, rows, marks
  <2>3. QED
    BY <2>1, <2>2, PictureMove
<1>4. ASSUME NEW k \in Kinds, ReadRow(k) PROVE PictureInv'
  <2>1. /\ Moved(k)
        /\ \/ /\ work'[k].pc = "write" /\ work'[k].url = work[k].url
              /\ work'[k].text = text[Of(k).owner]
              /\ UNCHANGED <<spoiled, doubtful>>
           \/ SkipWrite(k) /\ work'[k].pc = "delete"
    BY <1>4, ReadMoved
  <2>2. UNCHANGED <<image, objects, edit>> /\ work[k].pc = "read"
    BY <1>4 DEF ReadRow, At, rows
  <2>3. QED
    BY <2>1, <2>2, PictureMove DEF SkipWrite
<1>5. ASSUME NEW r \in Uploads, NEW w \in Owners, SaveFile(r, w) PROVE PictureInv'
  <2>1. /\ upload[r].pc = "new" /\ upload'[r].pc = "saved"
        /\ upload'[r].owner = w /\ upload'[r].file = FileName(r, w) /\ upload'[r].old = None
        /\ \A q \in Uploads : q # r => upload'[q] = upload[q]
    BY <1>5, SaveFacts
  <2>2. UNCHANGED <<work, image, objects, edit, doubtful>>
    BY <1>5 DEF SaveFile, rows, tasks
  <2>3. OldInv' /\ ReadInv'
    BY <2>1, <2>2, NoneNoUrl DEF PictureInv, OldInv, ReadInv, OwnName
  <2>4. \A q \in Uploads : upload[q].pc = "queued" =>
          upload'[q].owner = upload[q].owner /\ upload'[q].old = upload[q].old
    BY <2>1
  <2>5. QED
    BY <2>2, <2>3, <2>4, PictureFrame
<1>6. ASSUME NEW r \in Uploads, ReadOld(r) \/ PublishTask(r) PROVE PictureInv'
  <2>1. UploadMoved(r)
    BY <1>6, ReadOldFacts, PublishFacts
  <2>2. upload'[r].old \in {upload[r].old, image[upload[r].owner]}
    BY <1>6, ReadOldFacts, PublishFacts
  <2>3. UNCHANGED <<work, image, objects, edit, doubtful>>
    BY <1>6 DEF ReadOld, PublishTask, rows, tasks
  <2>4. upload[r].owner \in Owners
    BY <2>1 DEF UploadMoved, TypeInv, JobInv, UploadOK
  <2>5. OwnName(upload'[r].old, upload'[r].owner)
    BY <2>1, <2>2, <2>4 DEF PictureInv, OldInv, RowInv, UploadMoved
  <2>6. OldInv' /\ ReadInv'
    BY <2>1, <2>3, <2>5 DEF PictureInv, OldInv, ReadInv, UploadMoved
  <2>7. \A q \in Uploads : upload[q].pc = "queued" =>
          upload'[q].owner = upload[q].owner /\ upload'[q].old = upload[q].old
    BY <2>1 DEF UploadMoved
  <2>8. QED
    BY <2>3, <2>6, <2>7, PictureFrame
<1>7. ASSUME NEW e \in Edits, NEW w \in Owners, EditRead(e, w) PROVE PictureInv'
  <2>1. /\ edit'[e].pc = "write" /\ edit'[e].owner = w /\ edit'[e].image = image[w]
        /\ \A d \in Edits : d # e => edit'[d] = edit[d]
    BY <1>7, EditReadFacts
  <2>2. UNCHANGED <<upload, work, image, objects, doubtful>>
    BY <1>7 DEF EditRead, rows, tasks, marks
  <2>3. OldInv' /\ ReadInv'
    BY <2>1, <2>2 DEF PictureInv, OldInv, ReadInv, RowInv
  <2>4. QED
    BY <2>2, <2>3, PictureFrame
<1>8. CASE Crash
  <2>1. \A k \in Kinds : work'[k] = Rest
    BY <1>8, CrashFacts
  <2>2. \A r \in Uploads : upload'[r].owner = upload[r].owner /\ upload'[r].old = upload[r].old
    BY <1>8, CrashFacts
  <2>3. \A e \in Edits : edit'[e].pc # "write"
    BY <1>8, CrashFacts
  <2>4. UNCHANGED <<image, objects, doubtful>>
    BY <1>8 DEF Crash, rows
  <2>5. OldInv' /\ ReadInv'
    BY <2>2, <2>3 DEF PictureInv, OldInv, ReadInv
  <2>6. QED
    BY <2>1, <2>2, <2>4, <2>5, RestType, PictureFrame
<1>9. ASSUME UNCHANGED <<upload, work, image, objects, edit, doubtful>> PROVE PictureInv'
  <2>1. OldInv' /\ ReadInv'
    BY <1>9 DEF PictureInv, OldInv, ReadInv
  <2>2. QED
    BY <1>9, <2>1, PictureFrame
<1>10. Tick \/ UNCHANGED vars => UNCHANGED <<upload, work, image, objects, edit, doubtful>>
  BY DEF Tick, vars, rows, tasks, marks
<1>11. QED
  BY <1>1, <1>2, <1>3, <1>4, <1>5, <1>6, <1>7, <1>8, <1>9, <1>10, PicturePut, PictureWrite,
     PictureDelete, PictureEdit DEF Next, WorkerStep

LEMMA PictureInit == Init => PictureInv
<1> SUFFICES ASSUME Init PROVE PictureInv
  OBVIOUS
<1>1. \A k \in Kinds : work[k].pc = "idle"
  BY RestType DEF Init
<1>2. \A k \in Kinds : AtHand(k)
  BY <1>1 DEF AtHand
<1>3. OldInv /\ ReadInv /\ RowInv /\ NoDangling
  BY NoneNoUrl DEF Init, Fresh, OldInv, ReadInv, RowInv, NoDangling, OwnName
<1>4. QED
  BY <1>2, <1>3 DEF PictureInv

(***************************************************************************)
(* The safety properties.                                                  *)
(***************************************************************************)
IInv == /\ TypeInv /\ EditInv /\ FileInv /\ ForgetInv /\ RetryInv /\ TextInv /\ PictureInv

LEMMA Invariance == Spec => []IInv
<1>1. Init => IInv
  BY TypeInit, FileInit, ForgetInit, RetryInit, TextInit, PictureInit DEF IInv
<1>2. ASSUME IInv, [Next]_vars
      PROVE  IInv'
  <2>1. TypeInv /\ EditInv /\ FileInv /\ ForgetInv /\ RetryInv /\ TextInv /\ PictureInv
    BY <1>2 DEF IInv
  <2>2. TypeInv' /\ EditInv'
    BY <1>2, <2>1, TypeStep
  <2>3. FileInv'
    BY <1>2, <2>1, FileStep
  <2>4. ForgetInv'
    BY <1>2, <2>1, ForgetStep
  <2>5. RetryInv'
    BY <1>2, <2>1, RetryStep
  <2>6. TextInv'
    BY <1>2, <2>1, TextStep
  <2>7. PictureInv'
    BY <1>2, <2>1, PictureStep
  <2>8. QED
    BY <2>2, <2>3, <2>4, <2>5, <2>6, <2>7 DEF IInv
<1>3. QED
  BY <1>1, <1>2, PTL DEF Spec

\* A row never names an object that is gone, but in the three cases listed with
\* NoDangling: whatever was redelivered or repeated, the workers delete no
\* picture that a row shows.
THEOREM PicturesExist == Spec => []NoDangling
<1>1. IInv => NoDangling
  BY DEF IInv, PictureInv
<1>2. QED
  BY <1>1, Invariance, PTL

\* Every temporary file has a request or a task that will remove it, but for
\* those that failures left behind.
THEOREM FilesHeld == Spec => []FilesAccounted
<1>1. IInv => FilesAccounted
  BY FileInvMeaning DEF IInv
<1>2. QED
  BY <1>1, Invariance, PTL

\* A queued upload is alive until its row is written or something went wrong.
THEOREM UploadsRemembered == Spec => []NoUploadForgotten
<1>1. IInv => NoUploadForgotten
  BY DEF IInv, ForgetInv, AliveInv, Settled, NoUploadForgotten
<1>2. QED
  BY <1>1, Invariance, PTL

\* After the first attempt the file is gone, so that no retry can succeed.
THEOREM RetriesFail == Spec => []RetriesFindNoFile
<1>1. IInv => RetriesFindNoFile
  BY RetryMeaning DEF IInv
<1>2. QED
  BY <1>1, Invariance, PTL

\* Edits survive the workers, but for profiles edited while the avatar worker
\* had the row in hand.
THEOREM EditsSurvive == Spec => []EditsKept
<1>1. IInv => EditsKept
  BY DEF IInv, TextInv
<1>2. QED
  BY <1>1, Invariance, PTL
=============================================================================
