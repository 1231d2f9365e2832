---------------------------- MODULE CatalogProofs -----------------------------
(***************************************************************************)
(* Proofs of the safety properties of Catalog, for any courses, modules,   *)
(* lessons, ebooks, names and requests and any number of faults.           *)
(***************************************************************************)
EXTENDS Catalog, TLAPS

(***************************************************************************)
(* Items and keys                                                          *)
(***************************************************************************)
LEMMA ProductType ==
  /\ \A x \in Items : Product(x) \in Products
  /\ \A p \in Products : Product(p) = p
  /\ \A l \in Lessons : Product(l) = CourseOf[ModuleOf[l]] /\ Product(l) \in Courses
  /\ \A m \in Modules : Product(m) = CourseOf[m] /\ Product(m) \in Courses
BY TreeAssumption, NameAssumption DEF Product, Items, Products

LEMMA KeyType ==
  /\ \A r \in Requests : r \in Keys
  /\ \A k \in AttachmentKeys : k \in Keys /\ k[1] \in Lessons
  /\ \A k \in ProductKeys : k \in Keys /\ k[1] \in Products
  /\ None \notin Keys /\ None \in Values /\ Keys \subseteq Values
  /\ \A l \in Lessons, n \in Names : <<l, n>> \in AttachmentKeys /\ <<l, n>>[1] = l
  /\ \A p \in Products, kind \in {"thumbnail", "file"}, n \in Names :
       <<p, kind, n>> \in ProductKeys /\ <<p, kind, n>>[1] = p
BY NameAssumption DEF Keys, Values, AttachmentKeys, ProductKeys

(***************************************************************************)
(* Requests                                                                *)
(***************************************************************************)
Others(r) == \A q \in Requests : q # r => request'[q] = request[q]

LEMMA OneRequest ==
  ASSUME request \in [Requests -> RequestStates], NEW r \in Requests, NEW s \in RequestStates,
         request' = [request EXCEPT ![r] = s]
  PROVE  request' \in [Requests -> RequestStates] /\ request'[r] = s /\ Others(r)
BY DEF Others

LEMMA FreshType ==
  /\ Fresh \in RequestStates
  /\ Fresh.pc = "new" /\ Fresh.item = None /\ Fresh.key = None /\ Fresh.id = None
  /\ Fresh.doomed = {}
BY NameAssumption DEF Fresh, RequestStates, Steps, Blank, Columns, Values

LEMMA GoFacts ==
  ASSUME request \in [Requests -> RequestStates], NEW r \in Requests, NEW step \in Steps, Go(r, step)
  PROVE  /\ request' \in [Requests -> RequestStates] /\ Others(r)
         /\ request'[r].pc = step
         /\ request'[r].item = request[r].item /\ request'[r].key = request[r].key
         /\ request'[r].id = request[r].id /\ request'[r].row = request[r].row
         /\ request'[r].column = request[r].column
         /\ request'[r].doomed = request[r].doomed /\ request'[r].next = request[r].next
<1>1. request[r] \in RequestStates
  OBVIOUS
<1>2. [request[r] EXCEPT !.pc = step] \in RequestStates
  BY <1>1 DEF RequestStates
<1>3. request' = [request EXCEPT ![r] = [request[r] EXCEPT !.pc = step]]
  BY DEF Go
<1>4. /\ request' \in [Requests -> RequestStates] /\ Others(r)
      /\ request'[r] = [request[r] EXCEPT !.pc = step]
  BY <1>2, <1>3, OneRequest
<1>5. QED
  BY <1>1, <1>4 DEF RequestStates

\* A request that has ended remembers what it was about.
LEMMA EndFacts ==
  ASSUME request \in [Requests -> RequestStates], NEW r \in Requests, End(r)
  PROVE  /\ request' \in [Requests -> RequestStates] /\ Others(r)
         /\ request'[r].pc = "done"
         /\ request'[r].item = request[r].item /\ request'[r].key = request[r].key
         /\ request'[r].doomed = {}
<1> DEFINE s == [Fresh EXCEPT !.pc = "done", !.item = request[r].item, !.key = request[r].key]
<1>1. /\ s \in RequestStates /\ s.pc = "done" /\ s.item = request[r].item /\ s.key = request[r].key
      /\ s.doomed = {}
  BY FreshType DEF RequestStates, Steps
<1>2. request' = [request EXCEPT ![r] = s]
  BY DEF End
<1> HIDE DEF s
<1>3. QED
  BY <1>1, <1>2, OneRequest

LEMMA PurgingFacts ==
  ASSUME NEW s \in RequestStates, NEW keys \in SUBSET Values, NEW next \in Steps,
         NEW d, d = keys \ {None}, NEW u, u = Purging(s, keys, next)
  PROVE  /\ u \in RequestStates
         /\ u.item = s.item /\ u.key = s.key /\ u.id = s.id
         /\ u.row = s.row /\ u.column = s.column
         /\ u.doomed = d /\ u.next = next
         /\ \/ u.pc = next /\ d = {}
            \/ u.pc = "purge" /\ d # {}
<1> DEFINE step == IF d = {} THEN next ELSE "purge"
           t == [s EXCEPT !.pc = step, !.doomed = d, !.next = next]
<1>1. d \in SUBSET Keys /\ step \in Steps
  BY DEF Values, Steps
<1>2. u = t
  BY DEF Purging
<1> HIDE DEF step
<1>3. /\ t \in RequestStates /\ t.item = s.item /\ t.key = s.key /\ t.id = s.id
      /\ t.row = s.row /\ t.column = s.column
      /\ t.doomed = d /\ t.next = next /\ t.pc = step
  BY <1>1 DEF RequestStates
<1> HIDE DEF t
<1>4. QED
  BY <1>2, <1>3 DEF step

(***************************************************************************)
(* Types, and what a request is about at each step                         *)
(***************************************************************************)
\* What an upload or a purge is for.
Aim(q) == IF q.pc \in {"put", "purge"} THEN q.next ELSE q.pc

\* A lesson that had another's file for a video, or whoever's file it was.
Astray(x) == x \in Items /\ x \in doubtful /\ Product(x) \in untidy

\* A request's key is of its item, but for videos completed with another's file.
KeyOf(r) == LET q == request[r] IN
  \/ q.key = None
  \/ /\ Owner(q.key) = q.item
     /\ q.key \in Requests => q.item \in Lessons /\ (q.key = r \/ At(q.key, "uploaded"))
  \/ q.item \in Lessons /\ Astray(q.item) /\ Astray(Owner(q.key))

StepOf(r) == LET q == request[r] IN
  /\ q.pc = "new" => q.item = None /\ q.key = None /\ q.doomed = {}
  /\ q.pc # "new" => q.item \in Items
  /\ q.pc = "put" => q.next \in {"video", "attach", "read", "picture"}
  /\ q.pc = "put" /\ q.next = "video" => q.key = r
  /\ q.pc = "purge" => q.next \in {"list", "delete", "detach", "done"}
  /\ q.pc \in {"presigned", "uploaded"} => q.key = r
  /\ Aim(q) \in {"attach", "detach", "read", "picture"} => q.item = q.key[1]
  /\ Aim(q) = "video" => q.key \in Keys /\ q.item \in Lessons
  /\ Aim(q) = "attach" => q.key \in AttachmentKeys
  /\ Aim(q) = "detach" => q.key \in AttachmentKeys /\ q.id \in Requests
  /\ Aim(q) = "read" => /\ q.key \in ProductKeys /\ q.item \in Ebooks
                        /\ q.column \in {"thumbnail", "file"}
  /\ Aim(q) = "picture" => q.key \in ProductKeys /\ q.item \in Courses
  /\ Aim(q) = "count" => q.item \in Courses
  /\ Aim(q) \in {"retitle", "reorder"} => q.item \in Modules
  /\ Aim(q) = "list" => q.item \in Courses \cup Lessons
  /\ Aim(q) \in {"write", "delete"} => q.item \in Products \cup Lessons
  /\ q.pc = "purge" /\ q.next = "done" => q.key \in Keys

Typed == TypeOK /\ \A r \in Requests : KeyOf(r) /\ StepOf(r)

\* Nothing is forgotten of these.
Grows == doubtful \subseteq doubtful' /\ untidy \subseteq untidy'

LEMMA AstrayKept ==
  ASSUME Grows, NEW x, Astray(x)
  PROVE  Astray(x)'
BY DEF Grows, Astray

\* What a request is about it stays about.
SameItem(r) == request[r].pc = "new" \/ request'[r].item = request[r].item

LEMMA OwnerKept ==
  ASSUME Typed, NEW r \in Requests, Others(r), SameItem(r), NEW k, Owner(k) \in Items
  PROVE  Owner(k)' = Owner(k)
<1>1. request[r].pc = "new" => request[r].item \notin Items
  BY NameAssumption DEF Typed, StepOf
<1>2. QED
  BY <1>1 DEF Owner, Others, SameItem

LEMMA KeyOfKept ==
  ASSUME Typed, NEW r \in Requests, Others(r), ~At(r, "uploaded"), SameItem(r), Grows
  PROVE  /\ \A q \in Requests \ {r} : KeyOf(q)' /\ StepOf(q)'
         /\ request[r].pc # "new" /\ request'[r].key = request[r].key => KeyOf(r)'
<1>1. \A q \in Requests : KeyOf(q) /\ StepOf(q)
  BY DEF Typed
<1>2. \A q \in Requests : request[q].key # None => request[q].item \in Items
  BY <1>1 DEF StepOf
<1>3. ASSUME NEW q \in Requests, request'[q].item = request[q].item,
             request'[q].key = request[q].key
      PROVE  KeyOf(q)'
  <2>1. CASE request[q].key = None
    BY <1>3, <2>1 DEF KeyOf
  <2>2. CASE /\ request[q].key # None /\ Owner(request[q].key) = request[q].item
             /\ request[q].key \in Requests =>
                  /\ request[q].item \in Lessons
                  /\ request[q].key = q \/ At(request[q].key, "uploaded")
    <3>1. PICK k : k = request[q].key
      OBVIOUS
    <3>2. Owner(k)' = Owner(k)
      BY <1>2, <2>2, <3>1, OwnerKept
    <3>3. k \in Requests /\ k # q => At(k, "uploaded")'
      BY <2>2, <3>1 DEF At, Others
    <3>4. QED
      BY <1>3, <2>2, <3>1, <3>2, <3>3 DEF KeyOf
  <2>3. CASE request[q].item \in Lessons /\ Astray(request[q].item) /\ Astray(Owner(request[q].key))
    <3>1. PICK k, x, y : k = request[q].key /\ x = request[q].item /\ y = Owner(k)
      OBVIOUS
    <3>2. Astray(x)' /\ Astray(y)'
      BY <2>3, <3>1, AstrayKept
    <3>3. Owner(k)' = y
      BY <2>3, <3>1, OwnerKept DEF Astray
    <3>4. QED
      BY <1>3, <2>3, <3>1, <3>2, <3>3 DEF KeyOf
  <2>4. QED
    BY <1>1, <2>1, <2>2, <2>3 DEF KeyOf
<1>4. ASSUME NEW q \in Requests, q # r
      PROVE  KeyOf(q)' /\ StepOf(q)'
  <2>1. request'[q] = request[q]
    BY <1>4 DEF Others
  <2>2. QED
    BY <1>1, <1>3, <2>1 DEF StepOf, Aim
<1>5. QED
  BY <1>3, <1>4 DEF SameItem

(***************************************************************************)
(* What a handler's first step does to its request                         *)
(***************************************************************************)
KeptTables == /\ rows' = rows /\ born' = born /\ row' = row
              /\ video' = video /\ attached' = attached
KeptMarks  == /\ condemned' = condemned /\ shared' = shared
              /\ doubtful' = doubtful /\ lateOrder' = lateOrder

Starts(r, x) ==
  /\ request[r].pc = "new"
  /\ request' \in [Requests -> RequestStates] /\ Others(r)
  /\ request'[r].item = x
  /\ untidy \subseteq untidy' /\ untidy' \subseteq Products
  /\ OtherOn(r, Product(x)) => Product(x) \in untidy'

LEMMA BesideFacts ==
  ASSUME Typed, NEW r \in Requests, NEW p \in Products
  PROVE  /\ untidy \subseteq Beside(r, p) /\ Beside(r, p) \subseteq Products
         /\ OtherOn(r, p) => p \in Beside(r, p)
BY DEF Typed, TypeOK, Beside

LEMMA EnterFacts ==
  ASSUME Typed, NEW r \in Requests, NEW s \in RequestStates, s.item \in Items, Enter(r, s),
         Beside(r, Product(s.item)) \subseteq untidy', untidy' \subseteq Products
  PROVE  Starts(r, s.item) /\ request'[r] = s
<1>1. request \in [Requests -> RequestStates]
  BY DEF Typed, TypeOK
<1>2. request' \in [Requests -> RequestStates] /\ Others(r) /\ request'[r] = s
  BY <1>1, OneRequest DEF Enter
<1>3. Product(s.item) \in Products
  BY ProductType
<1>4. QED
  BY <1>2, <1>3, BesideFacts DEF Enter, Starts, At

LEMMA BeginFacts ==
  ASSUME Typed, NEW r \in Requests, NEW s \in RequestStates, s.item \in Items, Begin(r, s)
  PROVE  Starts(r, s.item) /\ request'[r] = s
<1>1. Product(s.item) \in Products
  BY ProductType
<1>2. QED
  BY <1>1, BesideFacts, EnterFacts DEF Begin

LEMMA EditedFacts ==
  ASSUME Typed, NEW x \in Products \cup Lessons, NEW column \in Columns, NEW value \in Values,
         NEW s, s = Edited(x, column, value)
  PROVE  /\ s \in RequestStates /\ x \in Items
         /\ s.pc = "write" /\ s.item = x /\ s.key = None
         /\ s.row[column] = value
         /\ \A c \in Columns : c # column => s.row[c] = row[x][c]
         /\ s.column = column /\ s.doomed = {}
<1> DEFINE rw == [row[x] EXCEPT ![column] = value]
<1>1. row[x] \in [Columns -> Values] /\ x \in Items
  BY DEF Typed, TypeOK, Items
<1>2. /\ rw \in [Columns -> Values] /\ rw[column] = value
      /\ \A c \in Columns : c # column => rw[c] = row[x][c]
  BY <1>1
<1>3. s = [Fresh EXCEPT !.pc = "write", !.item = x, !.row = rw, !.column = column]
  BY DEF Edited
<1> HIDE DEF rw
<1>4. /\ s \in RequestStates /\ s.pc = "write" /\ s.item = x /\ s.key = None /\ s.row = rw
      /\ s.column = column /\ s.doomed = {}
  BY <1>1, <1>2, <1>3, FreshType DEF RequestStates, Steps
<1>5. QED
  BY <1>1, <1>2, <1>4

LEMMA EditRowFacts ==
  ASSUME Typed, NEW r \in Requests, NEW x \in Products \cup Lessons,
         NEW column \in {"title", "setting"}, EditRow(r, x, column)
  PROVE  /\ Starts(r, x)
         /\ request'[r].pc = "write" /\ request'[r].key = None
         /\ request'[r].row[column] = r
         /\ \A c \in Columns : c # column => request'[r].row[c] = row[x][c]
         /\ request'[r].column = column /\ request'[r].doomed = {}
         /\ KeptTables /\ KeptMarks
         /\ bought' = bought /\ objects' = objects /\ last' = last /\ raced' = raced
         /\ faults' = faults
<1>1. column \in Columns /\ r \in Values
  BY KeyType DEF Columns
<1>2. PICK s : s = Edited(x, column, r)
  OBVIOUS
<1>3. /\ s \in RequestStates /\ x \in Items
      /\ s.pc = "write" /\ s.item = x /\ s.key = None /\ s.row[column] = r
      /\ \A c \in Columns : c # column => s.row[c] = row[x][c]
      /\ s.column = column /\ s.doomed = {}
  BY <1>1, <1>2, EditedFacts
<1>4. Begin(r, s)
  BY <1>2 DEF EditRow
<1>5. Starts(r, x) /\ request'[r] = s
  BY <1>3, <1>4, BeginFacts
<1>6. QED
  BY <1>3, <1>5 DEF EditRow, KeptTables, KeptMarks, tables, marks

LEMMA LinkPictureFacts ==
  ASSUME Typed, NEW r \in Requests, NEW c \in Courses, LinkPicture(r, c)
  PROVE  /\ Starts(r, c)
         /\ request'[r].pc = "write" /\ request'[r].key = None
         /\ request'[r].row["thumbnail"] = None
         /\ \A col \in Columns : col # "thumbnail" => request'[r].row[col] = row[c][col]
         /\ request'[r].column = "thumbnail" /\ request'[r].doomed = {}
         /\ row[c]["thumbnail"] # None => c \in untidy'
         /\ KeptTables /\ KeptMarks
         /\ bought' = bought /\ objects' = objects /\ last' = last /\ raced' = raced
         /\ faults' = faults
<1>1. "thumbnail" \in Columns /\ None \in Values /\ c \in Products /\ Product(c) = c
  BY KeyType, ProductType DEF Columns, Products
<1>2. PICK s : s = Edited(c, "thumbnail", None)
  OBVIOUS
<1>3. /\ s \in RequestStates /\ c \in Items
      /\ s.pc = "write" /\ s.item = c /\ s.key = None /\ s.row["thumbnail"] = None
      /\ \A col \in Columns : col # "thumbnail" => s.row[col] = row[c][col]
      /\ s.column = "thumbnail" /\ s.doomed = {}
  BY <1>1, <1>2, EditedFacts
<1>4. Enter(r, s)
  BY <1>2 DEF LinkPicture
<1>5. untidy' = IF row[c]["thumbnail"] # None THEN untidy \cup {c} ELSE Beside(r, c)
  BY DEF LinkPicture
<1>6. /\ Beside(r, c) \subseteq untidy' /\ untidy' \subseteq Products
      /\ row[c]["thumbnail"] # None => c \in untidy'
  BY <1>1, <1>5, BesideFacts DEF Beside, Typed, TypeOK
<1>7. Starts(r, c) /\ request'[r] = s
  BY <1>1, <1>3, <1>4, <1>6, EnterFacts
<1>8. QED
  BY <1>3, <1>6, <1>7 DEF LinkPicture, KeptTables, KeptMarks, tables, marks

LEMMA PermanentDeleteFacts ==
  ASSUME Typed, NEW r \in Requests, NEW c \in Courses, PermanentDelete(r, c)
  PROVE  /\ Starts(r, c) /\ c \in rows
         /\ request'[r].pc = "count" /\ request'[r].key = None
         /\ request'[r].doomed = {row[c].thumbnail} \ {None}
         /\ KeptTables /\ KeptMarks
         /\ bought' = bought /\ objects' = objects /\ last' = last /\ raced' = raced
         /\ faults' = faults
<1> DEFINE d == {row[c].thumbnail} \ {None}
           s == [Fresh EXCEPT !.pc = "count", !.item = c, !.doomed = d]
<1>1. row[c] \in [Columns -> Values] /\ c \in Items
  BY DEF Typed, TypeOK, Items, Products
<1>2. d \in SUBSET Keys
  BY <1>1 DEF Columns, Values
<1> HIDE DEF d
<1>3. /\ s \in RequestStates /\ s.pc = "count" /\ s.item = c /\ s.key = None /\ s.doomed = d
  BY <1>1, <1>2, FreshType DEF RequestStates, Steps
<1>4. Begin(r, s)
  BY DEF PermanentDelete, d
<1> HIDE DEF s
<1>5. Starts(r, c) /\ request'[r] = s
  BY <1>1, <1>3, <1>4, BeginFacts
<1>6. QED
  BY <1>3, <1>5 DEF PermanentDelete, GetCourse, d, KeptTables, KeptMarks, tables, marks

LEMMA UpdateModuleFacts ==
  ASSUME Typed, NEW r \in Requests, NEW m \in Modules, UpdateModule(r, m)
  PROVE  /\ Starts(r, m)
         /\ request'[r].pc \in {"retitle", "reorder"} /\ request'[r].key = None
         /\ request'[r].doomed = {}
         /\ KeptTables /\ KeptMarks
         /\ bought' = bought /\ objects' = objects /\ last' = last /\ raced' = raced
         /\ faults' = faults
<1>1. PICK first \in {"retitle", "reorder"} : Begin(r, [Fresh EXCEPT !.pc = first, !.item = m])
  BY DEF UpdateModule
<1> DEFINE s == [Fresh EXCEPT !.pc = first, !.item = m]
<1>2. /\ s \in RequestStates /\ s.pc = first /\ s.item = m /\ s.key = None /\ s.doomed = {}
      /\ m \in Items
  BY <1>1, FreshType DEF RequestStates, Steps, Items
<1>3. Begin(r, s)
  BY <1>1
<1> HIDE DEF s
<1>4. Starts(r, m) /\ request'[r] = s
  BY <1>2, <1>3, BeginFacts
<1>5. QED
  BY <1>2, <1>4 DEF UpdateModule, KeptTables, KeptMarks, tables, marks

LEMMA DeleteLessonFacts ==
  ASSUME Typed, NEW r \in Requests, NEW l \in Lessons, DeleteLesson(r, l)
  PROVE  /\ Starts(r, l) /\ l \in rows
         /\ request'[r].key = None
         /\ request'[r].doomed = {video[l]} \ {None} /\ request'[r].next = "list"
         /\ \/ request'[r].pc = "list" /\ request'[r].doomed = {}
            \/ request'[r].pc = "purge" /\ request'[r].doomed # {}
         /\ KeptTables /\ condemned' = condemned \cup {l}
         /\ shared' = shared /\ doubtful' = doubtful /\ lateOrder' = lateOrder
         /\ bought' = bought /\ objects' = objects /\ last' = last /\ raced' = raced
         /\ faults' = faults
<1> DEFINE f == {video[l]}
           d == {video[l]} \ {None}
           t == [Fresh EXCEPT !.item = l]
           s == Purging(t, f, "list")
<1>1. f \in SUBSET Values /\ "list" \in Steps /\ l \in Items
  BY KeyType DEF Typed, TypeOK, Steps, Items, Values
<1>2. t \in RequestStates /\ t.item = l /\ t.key = None
  BY <1>1, FreshType DEF RequestStates
<1>3. Begin(r, s)
  BY DEF DeleteLesson
<1>4. s = Purging(t, f, "list") /\ d = f \ {None}
  OBVIOUS
<1> HIDE DEF t, f, d, s
<1>5. /\ s \in RequestStates /\ s.item = l /\ s.key = None /\ s.doomed = d
      /\ s.next = "list"
      /\ \/ s.pc = "list" /\ d = {}
         \/ s.pc = "purge" /\ d # {}
  BY <1>1, <1>2, <1>4, PurgingFacts
<1>6. Starts(r, l) /\ request'[r] = s
  BY <1>1, <1>3, <1>5, BeginFacts
<1>7. QED
  BY <1>5, <1>6 DEF DeleteLesson, GetLesson, d, KeptTables, tables

LEMMA OldVideoType ==
  ASSUME Typed, NEW l \in Lessons, NEW k
  PROVE  OldVideo(l, k) \in SUBSET Keys
BY DEF Typed, TypeOK, OldVideo, Values

LEMMA UploadVideoFacts ==
  ASSUME Typed, NEW r \in Requests, NEW l \in Lessons, UploadVideo(r, l)
  PROVE  /\ Starts(r, l)
         /\ request'[r].pc = "put" /\ request'[r].next = "video" /\ request'[r].key = r
         /\ request'[r].doomed = OldVideo(l, r)
         /\ KeptTables /\ KeptMarks
         /\ bought' = bought /\ objects' = objects /\ last' = last /\ raced' = raced
         /\ faults' = faults
<1> DEFINE d == OldVideo(l, r)
           s == [Fresh EXCEPT !.pc = "put", !.item = l, !.key = r, !.doomed = d, !.next = "video"]
<1>1. d \in SUBSET Keys /\ l \in Items /\ r \in Values
  BY OldVideoType, KeyType DEF Items
<1>2. Begin(r, s)
  BY DEF UploadVideo
<1> HIDE DEF d
<1>3. /\ s \in RequestStates /\ s.pc = "put" /\ s.item = l /\ s.key = r /\ s.doomed = d
      /\ s.next = "video"
  BY <1>1, FreshType DEF RequestStates, Steps
<1> HIDE DEF s
<1>4. Starts(r, l) /\ request'[r] = s
  BY <1>1, <1>2, <1>3, BeginFacts
<1>5. QED
  BY <1>3, <1>4 DEF UploadVideo, d, KeptTables, KeptMarks, tables, marks

LEMMA GetVideoUploadURLFacts ==
  ASSUME Typed, NEW r \in Requests, NEW l \in Lessons, GetVideoUploadURL(r, l)
  PROVE  /\ Starts(r, l)
         /\ request'[r].pc = "presigned" /\ request'[r].key = r /\ request'[r].doomed = {}
         /\ KeptTables /\ KeptMarks
         /\ bought' = bought /\ objects' = objects /\ last' = last /\ raced' = raced
         /\ faults' = faults
<1> DEFINE s == [Fresh EXCEPT !.pc = "presigned", !.item = l, !.key = r]
<1>1. l \in Items /\ r \in Values
  BY KeyType DEF Items
<1>2. Begin(r, s)
  BY DEF GetVideoUploadURL
<1>3. /\ s \in RequestStates /\ s.pc = "presigned" /\ s.item = l /\ s.key = r /\ s.doomed = {}
  BY <1>1, FreshType DEF RequestStates, Steps
<1> HIDE DEF s
<1>4. Starts(r, l) /\ request'[r] = s
  BY <1>1, <1>2, <1>3, BeginFacts
<1>5. QED
  BY <1>3, <1>4 DEF GetVideoUploadURL, KeptTables, KeptMarks, tables, marks

\* Whose file a client gave for a video.
LEMMA GivenOwner ==
  ASSUME Typed, NEW k \in Keys, Given(k)
  PROVE  /\ Owner(k) \in Items /\ Product(Owner(k)) \in Products
         /\ k \in Requests => request[k].pc # "new" /\ request[k].item \in Items
<1>1. CASE k \in Requests
  <2>1. StepOf(k) /\ request[k].key = k /\ k # None
    BY <1>1, KeyType DEF Typed, Given
  <2>2. request[k].pc # "new" /\ request[k].item \in Items
    BY <2>1 DEF StepOf
  <2>3. QED
    BY <1>1, <2>2, ProductType DEF Owner
<1>2. CASE k \notin Requests
  <2>1. k[1] \in Lessons \cup Products
    BY <1>2, KeyType DEF Keys
  <2>2. QED
    BY <1>2, <2>1, ProductType DEF Owner, Items
<1>3. QED
  BY <1>1, <1>2

LEMMA CompleteVideoUploadFacts ==
  ASSUME Typed, NEW r \in Requests, NEW l \in Lessons, NEW k \in Keys,
         CompleteVideoUpload(r, l, k)
  PROVE  /\ Starts(r, l)
         /\ k # r /\ Given(k)
         /\ Owner(k) \in Items /\ Owner(k)' = Owner(k)
         /\ \/ IsPut(k, l)
            \/ /\ {l, Owner(k)} \subseteq doubtful'
               /\ {Product(l), Product(Owner(k))} \subseteq untidy'
         /\ request'[r].pc = "video" /\ request'[r].key = k
         /\ request'[r].doomed = OldVideo(l, k)
         /\ KeptTables
         /\ condemned' = condemned /\ shared' = shared /\ lateOrder' = lateOrder
         /\ doubtful \subseteq doubtful' /\ doubtful' \subseteq Items
         /\ Completed(k) => l \in doubtful'
         /\ bought' = bought /\ objects' = objects /\ last' = last /\ raced' = raced
         /\ faults' = faults
<1> DEFINE d == OldVideo(l, k)
           s == [Fresh EXCEPT !.pc = "video", !.item = l, !.key = k, !.doomed = d]
<1>0. PICK x \in Items : x = Owner(k)
  BY GivenOwner DEF CompleteVideoUpload
<1>1. d \in SUBSET Keys /\ l \in Items /\ k \in Values /\ Given(k)
  BY OldVideoType, KeyType DEF Items, CompleteVideoUpload
<1>2. Enter(r, s)
  BY DEF CompleteVideoUpload
<1> HIDE DEF d
<1>3. /\ s \in RequestStates /\ s.pc = "video" /\ s.item = l /\ s.key = k /\ s.doomed = d
  BY <1>1, FreshType DEF RequestStates, Steps
<1> HIDE DEF s
<1>4. PICK astray, again :
        /\ astray = IF IsPut(k, l) THEN {} ELSE {l, x}
        /\ again = IF Completed(k) THEN {l} ELSE {}
        /\ untidy' = Beside(r, Product(l)) \cup {Product(y) : y \in astray}
        /\ doubtful' = doubtful \cup astray \cup again
  BY <1>0 DEF CompleteVideoUpload, Completed
<1>5. /\ Product(l) \in Products /\ Product(x) \in Products
      /\ Beside(r, Product(l)) \subseteq untidy' /\ untidy' \subseteq Products
  BY <1>1, <1>4, ProductType, BesideFacts
<1>6. Starts(r, l) /\ request'[r] = s
  BY <1>1, <1>2, <1>3, <1>5, EnterFacts
<1>7. \/ IsPut(k, l)
      \/ {l, x} \subseteq doubtful' /\ {Product(l), Product(x)} \subseteq untidy'
  BY <1>4
<1>8. doubtful \subseteq doubtful' /\ doubtful' \subseteq Items /\ (Completed(k) => l \in doubtful')
  BY <1>1, <1>4 DEF Typed, TypeOK
<1>9. k # r
  BY <1>1, <1>6, GivenOwner DEF Starts
<1>10. Owner(k)' = Owner(k)
  BY <1>0, <1>6, OwnerKept DEF Starts, SameItem
<1>11. QED
  BY <1>0, <1>1, <1>3, <1>6, <1>7, <1>8, <1>9, <1>10
     DEF CompleteVideoUpload, d, KeptTables, tables

LEMMA AddAttachmentFacts ==
  ASSUME Typed, NEW r \in Requests, NEW l \in Lessons, NEW n \in Names, AddAttachment(r, l, n)
  PROVE  /\ Starts(r, l) /\ <<l, n>> \in AttachmentKeys /\ <<l, n>>[1] = l
         /\ request'[r].pc = "put" /\ request'[r].next = "attach" /\ request'[r].key = <<l, n>>
         /\ request'[r].doomed = {}
         /\ KeptTables
         /\ condemned' = condemned /\ doubtful' = doubtful /\ lateOrder' = lateOrder
         /\ shared \subseteq shared' /\ shared' \subseteq shared \cup {<<l, n>>}
         /\ attached[<<l, n>>] # None \/ (\E q \in Requests : Active(q) /\ request[q].key = <<l, n>>)
              => <<l, n>> \in shared'
         /\ bought' = bought /\ objects' = objects /\ last' = last /\ raced' = raced
         /\ faults' = faults
<1>0. PICK k \in AttachmentKeys : k = <<l, n>> /\ k[1] = l
  BY KeyType
<1> DEFINE s == [Fresh EXCEPT !.pc = "put", !.item = l, !.key = k, !.next = "attach"]
<1>1. l \in Items /\ k \in Values
  BY KeyType DEF Items
<1>2. Begin(r, s)
  BY <1>0 DEF AddAttachment
<1>3. /\ s \in RequestStates /\ s.pc = "put" /\ s.item = l /\ s.key = k /\ s.doomed = {}
      /\ s.next = "attach"
  BY <1>1, FreshType DEF RequestStates, Steps
<1> HIDE DEF s
<1>4. Starts(r, l) /\ request'[r] = s
  BY <1>1, <1>2, <1>3, BeginFacts
<1>5. shared' = IF attached[k] # None \/ \E q \in Requests : Active(q) /\ request[q].key = k
                  THEN shared \cup {k} ELSE shared
  BY <1>0 DEF AddAttachment
<1>6. /\ KeptTables /\ condemned' = condemned /\ doubtful' = doubtful /\ lateOrder' = lateOrder
      /\ bought' = bought /\ objects' = objects /\ last' = last /\ raced' = raced
      /\ faults' = faults
  BY DEF AddAttachment, KeptTables, tables
<1>7. QED
  BY <1>0, <1>3, <1>4, <1>5, <1>6

LEMMA DeleteAttachmentFacts ==
  ASSUME Typed, NEW r \in Requests, NEW k \in AttachmentKeys, DeleteAttachment(r, k)
  PROVE  /\ Starts(r, k[1]) /\ k[1] \in Lessons /\ attached[k] \in Requests
         /\ request'[r].pc = "purge" /\ request'[r].next = "detach" /\ request'[r].key = k
         /\ request'[r].id = attached[k] /\ request'[r].doomed = {k}
         /\ KeptTables
         /\ condemned' = condemned \cup {k} /\ doubtful' = doubtful /\ lateOrder' = lateOrder
         /\ shared \subseteq shared' /\ shared' \subseteq shared \cup {k}
         /\ (\E q \in Requests : Active(q) /\ request[q].key = k) => k \in shared'
         /\ bought' = bought /\ objects' = objects /\ last' = last /\ raced' = raced
         /\ faults' = faults
<1> DEFINE t == [Fresh EXCEPT !.item = k[1], !.key = k, !.id = attached[k]]
           s == Purging(t, {k}, "detach")
<1>1. /\ {k} \in SUBSET Values /\ "detach" \in Steps /\ k[1] \in Lessons /\ k[1] \in Items
      /\ attached[k] \in Requests /\ {k} \ {None} = {k} /\ k \in Values
  BY KeyType DEF Typed, TypeOK, Steps, Items, DeleteAttachment
<1>2. t \in RequestStates /\ t.item = k[1] /\ t.key = k /\ t.id = attached[k]
  BY <1>1, FreshType DEF RequestStates
<1>3. Begin(r, s)
  BY DEF DeleteAttachment
<1>4. s = Purging(t, {k}, "detach")
  OBVIOUS
<1> HIDE DEF t, s
<1>5. /\ s \in RequestStates /\ s.item = k[1] /\ s.key = k /\ s.doomed = {k}
      /\ s.next = "detach" /\ s.pc = "purge" /\ s.id = attached[k]
  BY <1>1, <1>2, <1>4, PurgingFacts
<1>6. Starts(r, k[1]) /\ request'[r] = s
  BY <1>1, <1>3, <1>5, BeginFacts
<1>7. shared' = IF \E q \in Requests : Active(q) /\ request[q].key = k
                  THEN shared \cup {k} ELSE shared
  BY DEF DeleteAttachment
<1>8. QED
  BY <1>1, <1>5, <1>6, <1>7 DEF DeleteAttachment, KeptTables, tables

LEMMA UploadEbookFacts ==
  ASSUME Typed, NEW r \in Requests, NEW b \in Ebooks, NEW kind \in {"thumbnail", "file"},
         NEW n \in Names, UploadEbook(r, b, kind, n)
  PROVE  /\ \E k \in ProductKeys : k = <<b, kind, n>> /\ k[1] = b /\ request'[r].key = k
         /\ Starts(r, b) /\ request'[r].pc = "put" /\ request'[r].next = "read"
         /\ request'[r].column = kind /\ request'[r].doomed = {}
         /\ KeptTables /\ KeptMarks
         /\ bought' = bought /\ objects' = objects /\ last' = last /\ raced' = raced
         /\ faults' = faults
<1>0. PICK k \in ProductKeys : k = <<b, kind, n>> /\ k[1] = b
  BY KeyType DEF Products
<1> DEFINE s == [Fresh EXCEPT !.pc = "put", !.item = b, !.key = k, !.column = kind, !.next = "read"]
<1>1. b \in Items /\ k \in Values /\ kind \in Columns
  BY KeyType DEF Items, Products, Columns
<1>2. Begin(r, s)
  BY <1>0 DEF UploadEbook
<1>3. /\ s \in RequestStates /\ s.pc = "put" /\ s.item = b /\ s.key = k /\ s.doomed = {}
      /\ s.next = "read" /\ s.column = kind
  BY <1>1, FreshType DEF RequestStates, Steps
<1> HIDE DEF s
<1>4. Starts(r, b) /\ request'[r] = s
  BY <1>1, <1>2, <1>3, BeginFacts
<1>5. QED
  BY <1>0, <1>3, <1>4 DEF UploadEbook, KeptTables, KeptMarks, tables, marks

LEMMA QueueThumbnailUpdateFacts ==
  ASSUME Typed, NEW r \in Requests, NEW c \in Courses, NEW n \in Names,
         QueueThumbnailUpdate(r, c, n)
  PROVE  /\ \E k \in ProductKeys :
              k = <<c, "thumbnail", n>> /\ k[1] = c /\ request'[r].key = k /\ Unused(k)
         /\ Starts(r, c) /\ c \in rows
         /\ request'[r].pc = "put" /\ request'[r].next = "picture"
         /\ request'[r].doomed = {row[c]["thumbnail"]} \ {None}
         /\ KeptTables /\ KeptMarks
         /\ bought' = bought /\ objects' = objects /\ last' = last /\ raced' = raced
         /\ faults' = faults
<1>0. PICK k \in ProductKeys : k = <<c, "thumbnail", n>> /\ k[1] = c
  BY KeyType DEF Products
<1> DEFINE d == {row[c]["thumbnail"]} \ {None}
           s == [Fresh EXCEPT !.pc = "put", !.item = c, !.key = k, !.doomed = d, !.next = "picture"]
<1>1. c \in Items /\ k \in Values
  BY KeyType DEF Items, Products
<1>2. row[c] \in [Columns -> Values]
  BY <1>1 DEF Typed, TypeOK
<1>3. d \in SUBSET Keys
  BY <1>2 DEF Columns, Values
<1>4. Begin(r, s)
  BY <1>0 DEF QueueThumbnailUpdate
<1> HIDE DEF d
<1>5. /\ s \in RequestStates /\ s.pc = "put" /\ s.item = c /\ s.key = k /\ s.doomed = d
      /\ s.next = "picture"
  BY <1>1, <1>3, FreshType DEF RequestStates, Steps
<1> HIDE DEF s
<1>6. Starts(r, c) /\ request'[r] = s
  BY <1>1, <1>4, <1>5, BeginFacts
<1>7. QED
  BY <1>0, <1>5, <1>6
     DEF QueueThumbnailUpdate, GetCourse, d, KeptTables, KeptMarks, tables, marks

LEMMA DeleteEbookFacts ==
  ASSUME Typed, NEW r \in Requests, NEW b \in Ebooks, DeleteEbook(r, b)
  PROVE  /\ Starts(r, b) /\ b \in rows
         /\ request'[r].key = None
         /\ request'[r].doomed = {row[b].file, row[b].thumbnail} \ {None}
         /\ request'[r].next = "delete"
         /\ \/ request'[r].pc = "delete" /\ request'[r].doomed = {}
            \/ request'[r].pc = "purge" /\ request'[r].doomed # {}
         /\ KeptTables /\ condemned' = condemned \cup {b}
         /\ shared' = shared /\ doubtful' = doubtful /\ lateOrder' = lateOrder
         /\ bought' = bought /\ objects' = objects /\ last' = last /\ raced' = raced
         /\ faults' = faults
<1> DEFINE f == {row[b].file, row[b].thumbnail}
           d == {row[b].file, row[b].thumbnail} \ {None}
           t == [Fresh EXCEPT !.item = b]
           s == Purging(t, f, "delete")
<1>1. row[b] \in [Columns -> Values]
  BY DEF Typed, TypeOK, Items, Products
<1>2. f \in SUBSET Values /\ "delete" \in Steps /\ b \in Items
  BY <1>1 DEF Steps, Items, Products, Columns
<1>3. t \in RequestStates /\ t.item = b /\ t.key = None
  BY <1>2, FreshType DEF RequestStates
<1>4. Begin(r, s)
  BY DEF DeleteEbook
<1>5. s = Purging(t, f, "delete") /\ d = f \ {None}
  OBVIOUS
<1> HIDE DEF t, f, d, s
<1>6. /\ s \in RequestStates /\ s.item = b /\ s.key = None /\ s.doomed = d
      /\ s.next = "delete"
      /\ \/ s.pc = "delete" /\ d = {}
         \/ s.pc = "purge" /\ d # {}
  BY <1>2, <1>3, <1>5, PurgingFacts
<1>7. Starts(r, b) /\ request'[r] = s
  BY <1>2, <1>4, <1>6, BeginFacts
<1>8. QED
  BY <1>6, <1>7 DEF DeleteEbook, GetEbook, d, KeptTables, tables

(***************************************************************************)
(* What the steps do                                                       *)
(***************************************************************************)
Moves(r) ==
  /\ request' \in [Requests -> RequestStates] /\ Others(r)
  /\ request'[r].item = request[r].item /\ request'[r].key = request[r].key

Ends(r) == Moves(r) /\ request'[r].pc = "done" /\ request'[r].doomed = {}

\* Once the objects d are gone, the request goes on with next.
Clears(r, d, next) ==
  /\ Moves(r) /\ request'[r].id = request[r].id
  /\ request'[r].doomed = d /\ request'[r].next = next
  /\ \/ request'[r].pc = next /\ d = {}
     \/ request'[r].pc = "purge" /\ d # {}

Advances(r, step) ==
  /\ Moves(r) /\ request'[r].pc = step
  /\ request'[r].id = request[r].id /\ request'[r].column = request[r].column
  /\ request'[r].row = request[r].row
  /\ request'[r].doomed = request[r].doomed /\ request'[r].next = request[r].next

LEMMA EndMoves ==
  ASSUME Typed, NEW r \in Requests, End(r)
  PROVE  Ends(r)
BY EndFacts DEF Typed, TypeOK, Ends, Moves

LEMMA GoMoves ==
  ASSUME Typed, NEW r \in Requests, NEW step \in Steps, Go(r, step)
  PROVE  Advances(r, step)
BY GoFacts DEF Typed, TypeOK, Advances, Moves

LEMMA ClearMoves ==
  ASSUME Typed, NEW r \in Requests, NEW keys \in SUBSET Values, NEW next \in Steps,
         NEW d, d = keys \ {None},
         request' = [request EXCEPT ![r] = Purging(request[r], keys, next)]
  PROVE  Clears(r, d, next)
<1> DEFINE q == request[r]
           u == Purging(request[r], keys, next)
<1>1. q \in RequestStates /\ request \in [Requests -> RequestStates]
  BY DEF Typed, TypeOK
<1>2. u = Purging(q, keys, next) /\ q = request[r] /\ request' = [request EXCEPT ![r] = u]
  OBVIOUS
<1> HIDE DEF q, u
<1>3. /\ u \in RequestStates /\ u.item = q.item /\ u.key = q.key /\ u.id = q.id
      /\ u.doomed = d /\ u.next = next
      /\ \/ u.pc = next /\ d = {}
         \/ u.pc = "purge" /\ d # {}
  BY <1>1, <1>2, PurgingFacts
<1>4. request' \in [Requests -> RequestStates] /\ request'[r] = u /\ Others(r)
  BY <1>1, <1>2, <1>3, OneRequest
<1>5. QED
  BY <1>2, <1>3, <1>4 DEF Clears, Moves

LEMMA SetFacts ==
  ASSUME NEW f \in [Items -> [Columns -> Values]], NEW x \in Items, NEW column \in Columns,
         NEW value \in Values, NEW g, g = [f EXCEPT ![x][column] = value]
  PROVE  /\ g \in [Items -> [Columns -> Values]]
         /\ \A y \in Items : y # x => g[y] = f[y]
         /\ g[x][column] = value
         /\ \A c \in Columns : c # column => g[x][c] = f[x][c]
<1>1. f[x] \in [Columns -> Values]
  OBVIOUS
<1>2. [f[x] EXCEPT ![column] = value] \in [Columns -> Values]
  BY <1>1
<1>3. g = [f EXCEPT ![x] = [f[x] EXCEPT ![column] = value]]
  OBVIOUS
<1>4. QED
  BY <1>1, <1>2, <1>3

\* What a column is set to, everything else stays.
SetTo(x, column, value) ==
  /\ row' \in [Items -> [Columns -> Values]] /\ last' \in [Items -> [Columns -> Values]]
  /\ \A y \in Items : y # x => row'[y] = row[y] /\ last'[y] = last[y]
  /\ row'[x][column] = value /\ last'[x][column] = value
  /\ \A c \in Columns : c # column => row'[x][c] = row[x][c] /\ last'[x][c] = last[x][c]

LEMMA SetSets ==
  ASSUME Typed, NEW x \in Items, NEW column \in Columns, NEW value \in Values,
         Set(x, column, value)
  PROVE  SetTo(x, column, value)
<1>1. row \in [Items -> [Columns -> Values]] /\ last \in [Items -> [Columns -> Values]]
  BY DEF Typed, TypeOK
<1>2. /\ row' \in [Items -> [Columns -> Values]]
      /\ \A y \in Items : y # x => row'[y] = row[y]
      /\ row'[x][column] = value
      /\ \A c \in Columns : c # column => row'[x][c] = row[x][c]
  BY <1>1, SetFacts DEF Set
<1>3. /\ last' \in [Items -> [Columns -> Values]]
      /\ \A y \in Items : y # x => last'[y] = last[y]
      /\ last'[x][column] = value
      /\ \A c \in Columns : c # column => last'[x][c] = last[x][c]
  BY <1>1, SetFacts DEF Set
<1>4. QED
  BY <1>2, <1>3 DEF SetTo

LEMMA BelowFacts ==
  ASSUME NEW x \in Items
  PROVE  /\ Below(x) \subseteq Items /\ x \in Below(x)
         /\ \A y \in Below(x) : Product(y) = Product(x)
         /\ x \in Lessons \cup Ebooks => Below(x) = {x}
         /\ x \in Courses => \A y \in Items : Product(y) = x => y \in Below(x)
<1>1. Below(x) \subseteq Items /\ x \in Below(x)
  BY DEF Below
<1>2. \A m \in Modules : CourseOf[m] \in Courses
  BY TreeAssumption
<1>3. \A l \in Lessons : ModuleOf[l] \in Modules /\ CourseOf[ModuleOf[l]] \in Courses
  BY TreeAssumption
<1>4. ASSUME NEW y \in Below(x)
      PROVE  Product(y) = Product(x) /\ (x \in Lessons \cup Ebooks => y = x)
  <2>1. CASE y = x
    BY <2>1
  <2>2. CASE y \in Modules /\ CourseOf[y] = x
    BY <1>2, <2>2, ProductType, NameAssumption DEF Products
  <2>3. CASE y \in Lessons /\ ModuleOf[y] = x
    BY <1>3, <2>3, ProductType, NameAssumption DEF Products
  <2>4. CASE y \in Lessons /\ CourseOf[ModuleOf[y]] = x
    BY <1>3, <2>4, ProductType, NameAssumption DEF Products
  <2>5. QED
    BY <2>1, <2>2, <2>3, <2>4 DEF Below
<1>5. ASSUME x \in Courses, NEW y \in Items, Product(y) = x
      PROVE  y \in Below(x)
  BY <1>5, ProductType DEF Below, Items
<1>6. QED
  BY <1>1, <1>4, <1>5

\* The rows of x and below are gone, with all that they say.
Removes(x) == LET gone == Below(x) IN
  /\ rows' = rows \ gone /\ born' = born
  /\ row' \in [Items -> [Columns -> Values]] /\ last' \in [Items -> [Columns -> Values]]
  /\ video' \in [Lessons -> Values]
  /\ attached' \in [AttachmentKeys -> Requests \cup {None}]
  /\ \A y \in Items : /\ y \in gone => row'[y] = Blank /\ last'[y] = Blank
                      /\ y \notin gone => row'[y] = row[y] /\ last'[y] = last[y]
  /\ \A l \in Lessons : video'[l] = IF l \in gone THEN None ELSE video[l]
  /\ \A k \in AttachmentKeys : attached'[k] = IF k[1] \in gone THEN None ELSE attached[k]

LEMMA RemoveFacts ==
  ASSUME Typed, NEW x \in Items, Remove(x)
  PROVE  Removes(x)
<1> DEFINE gone == Below(x)
<1>1. /\ row \in [Items -> [Columns -> Values]] /\ last \in [Items -> [Columns -> Values]]
      /\ video \in [Lessons -> Values]
      /\ attached \in [AttachmentKeys -> Requests \cup {None}]
  BY DEF Typed, TypeOK
<1>2. Blank \in [Columns -> Values]
  BY DEF Blank, Values
<1>3. /\ rows' = rows \ gone /\ born' = born
      /\ video' = [l \in Lessons |-> IF l \in gone THEN None ELSE video[l]]
      /\ attached' = [k \in AttachmentKeys |-> IF k[1] \in gone THEN None ELSE attached[k]]
      /\ row' = [y \in Items |-> IF y \in gone THEN Blank ELSE row[y]]
      /\ last' = [y \in Items |-> IF y \in gone THEN Blank ELSE last[y]]
  BY DEF Remove
<1> HIDE DEF gone
<1>4. video' \in [Lessons -> Values]
  BY <1>1, <1>3, KeyType
<1>5. attached' \in [AttachmentKeys -> Requests \cup {None}]
  BY <1>1, <1>3
<1>6. row' \in [Items -> [Columns -> Values]] /\ last' \in [Items -> [Columns -> Values]]
  BY <1>1, <1>2, <1>3
<1>7. /\ \A y \in Items : /\ y \in gone => row'[y] = Blank /\ last'[y] = Blank
                          /\ y \notin gone => row'[y] = row[y] /\ last'[y] = last[y]
      /\ \A l \in Lessons : video'[l] = IF l \in gone THEN None ELSE video[l]
      /\ \A k \in AttachmentKeys : attached'[k] = IF k[1] \in gone THEN None ELSE attached[k]
  BY <1>3
<1>8. QED
  BY <1>3, <1>4, <1>5, <1>6, <1>7 DEF Removes, gone

\* A request that has begun is about an item.
LEMMA RequestFacts ==
  ASSUME Typed, NEW r \in Requests
  PROVE  /\ request[r] \in RequestStates /\ KeyOf(r) /\ StepOf(r)
         /\ request[r].doomed \subseteq Keys /\ request[r].doomed \ {None} = request[r].doomed
         /\ request[r].pc # "new" => request[r].item \in Items /\ Product(request[r].item) \in Products
<1>1. request[r] \in RequestStates /\ KeyOf(r) /\ StepOf(r)
  BY DEF Typed, TypeOK
<1>2. request[r].doomed \subseteq Keys
  BY <1>1 DEF RequestStates
<1>3. request[r].doomed \ {None} = request[r].doomed
  BY <1>2, KeyType
<1>4. request[r].pc # "new" => request[r].item \in Items
  BY <1>1 DEF StepOf
<1>5. QED
  BY <1>1, <1>2, <1>3, <1>4, ProductType


LEMMA CountFacts ==
  ASSUME Typed, NEW r \in Requests, Count(r)
  PROVE  /\ request[r].pc = "count" /\ request[r].item \in Courses
         /\ KeptTables /\ UNCHANGED <<shared, doubtful, lateOrder>>
         /\ UNCHANGED <<bought, objects, last, raced, untidy, faults>>
         /\ \/ request[r].item \in bought /\ Ends(r) /\ condemned' = condemned
            \/ /\ request[r].item \notin bought /\ Clears(r, request[r].doomed, "list")
               /\ condemned' = condemned \cup {request[r].item}
<1>1. request[r].pc = "count" /\ request[r].item \in Courses
  BY RequestFacts DEF Count, At, StepOf, Aim
<1>2. request[r].doomed \in SUBSET Values /\ "list" \in Steps
  BY RequestFacts, KeyType DEF Steps
<1>3. CASE request[r].item \in bought
  <2>1. Ends(r)
    BY <1>3, EndMoves DEF Count, CountDependencies
  <2>2. QED
    BY <1>1, <1>3, <2>1 DEF Count, CountDependencies, KeptTables, tables
<1>4. CASE request[r].item \notin bought
  <2>1. request' = [request EXCEPT ![r] = Purging(request[r], request[r].doomed, "list")]
    BY <1>4 DEF Count, CountDependencies
  <2>2. Clears(r, request[r].doomed, "list")
    BY <1>2, <2>1, RequestFacts, ClearMoves
  <2>3. QED
    BY <1>1, <1>4, <2>2 DEF Count, CountDependencies, KeptTables, tables
<1>5. QED
  BY <1>3, <1>4

LEMMA InsertFacts ==
  ASSUME Typed, NEW x \in Items, Insert(x)
  PROVE  /\ x \notin born /\ rows' = rows \cup {x} /\ born' = born \cup {x}
         /\ UNCHANGED <<row, video, attached, bought, objects, request, last, raced, untidy, faults>>
         /\ KeptMarks
BY DEF Insert, KeptMarks, marks

LEMMA SoftDeleteFacts ==
  ASSUME Typed, NEW r \in Requests, NEW c \in Courses, SoftDelete(r, c)
  PROVE  /\ request[r].pc = "new" /\ request' \in [Requests -> RequestStates] /\ Others(r)
         /\ request'[r].pc = "done" /\ request'[r].item = c /\ request'[r].key = None
         /\ request'[r].doomed = {}
         /\ c \in rows /\ SetTo(c, "setting", r)
         /\ raced' = (IF InHand(r, c) THEN raced \cup {c} ELSE raced)
         /\ UNCHANGED <<rows, born, video, attached, bought, objects, untidy, faults>> /\ KeptMarks
<1> DEFINE s == [Fresh EXCEPT !.pc = "done", !.item = c]
<1>1. c \in Items /\ r \in Values /\ "setting" \in Columns /\ request \in [Requests -> RequestStates]
  BY KeyType DEF Items, Products, Columns, Typed, TypeOK
<1>2. /\ s \in RequestStates /\ s.pc = "done" /\ s.item = c /\ s.key = None /\ s.doomed = {}
  BY <1>1, FreshType DEF RequestStates, Steps
<1>3. request' = [request EXCEPT ![r] = s]
  BY DEF SoftDelete
<1> HIDE DEF s
<1>4. request' \in [Requests -> RequestStates] /\ Others(r) /\ request'[r] = s
  BY <1>1, <1>2, <1>3, OneRequest
<1>5. SetTo(c, "setting", r)
  BY <1>1, SetSets DEF SoftDelete, UpdateStatus
<1>6. QED
  BY <1>2, <1>4, <1>5 DEF SoftDelete, UpdateStatus, Race, GetCourse, At, KeptMarks, marks

LEMMA BuyFacts ==
  ASSUME Typed, NEW p \in Products, Buy(p)
  PROVE  /\ p \in rows /\ p \notin bought /\ bought' = bought \cup {p}
         /\ lateOrder' = (IF p \in condemned \cap Courses THEN lateOrder \cup {p} ELSE lateOrder)
         /\ KeptTables /\ UNCHANGED <<condemned, shared, doubtful>>
         /\ UNCHANGED <<objects, request, last, raced, untidy, faults>>
BY DEF Buy, KeptTables, tables

LEMMA UpdateTitleFacts ==
  ASSUME Typed, NEW r \in Requests, UpdateTitle(r)
  PROVE  /\ request[r].pc = "retitle" /\ request[r].item \in Modules
         /\ UNCHANGED <<rows, born, video, attached, bought, objects, raced, untidy, faults>>
         /\ KeptMarks
         /\ \/ /\ request[r].item \in rows /\ SetTo(request[r].item, "title", r)
               /\ Advances(r, "reorder") \/ Advances(r, "done")
            \/ Ends(r) /\ row' = row /\ last' = last
<1> DEFINE m == request[r].item
<1>1. request[r].pc = "retitle" /\ m \in Modules
  BY RequestFacts DEF UpdateTitle, At, StepOf, Aim
<1>2. m \in Items /\ r \in Values /\ "title" \in Columns
  BY <1>1, KeyType DEF Items, Columns
<1>3. CASE m \in rows
  <2>1. Set(m, "title", r) /\ \E step \in {"reorder", "done"} : Go(r, step)
    BY <1>3 DEF UpdateTitle, GetModule
  <2>2. SetTo(m, "title", r)
    BY <1>2, <2>1, SetSets
  <2>3. Advances(r, "reorder") \/ Advances(r, "done")
    BY <2>1, GoMoves DEF Steps
  <2>4. QED
    BY <1>1, <1>3, <2>2, <2>3 DEF UpdateTitle, KeptMarks, marks
<1>4. CASE m \notin rows
  <2>1. End(r) /\ row' = row /\ last' = last
    BY <1>4 DEF UpdateTitle, GetModule
  <2>2. QED
    BY <1>1, <2>1, EndMoves DEF UpdateTitle, KeptMarks, marks
<1>5. QED
  BY <1>3, <1>4

LEMMA UpdateOrderFacts ==
  ASSUME Typed, NEW r \in Requests, UpdateOrder(r)
  PROVE  /\ request[r].pc = "reorder" /\ request[r].item \in Modules
         /\ UNCHANGED <<rows, born, video, attached, bought, objects, raced, untidy, faults>>
         /\ KeptMarks /\ Ends(r)
         /\ \/ request[r].item \in rows /\ SetTo(request[r].item, "setting", r)
            \/ UNCHANGED <<row, last>>
<1> DEFINE m == request[r].item
<1>1. request[r].pc = "reorder" /\ m \in Modules
  BY RequestFacts DEF UpdateOrder, At, StepOf, Aim
<1>2. m \in Items /\ r \in Values /\ "setting" \in Columns
  BY <1>1, KeyType DEF Items, Columns
<1>3. /\ Ends(r) /\ KeptMarks
      /\ UNCHANGED <<rows, born, video, attached, bought, objects, raced, untidy, faults>>
  BY EndMoves DEF UpdateOrder, KeptMarks, marks
<1>4. CASE m \in rows
  <2>1. Set(m, "setting", r)
    BY <1>4 DEF UpdateOrder, GetModule
  <2>2. SetTo(m, "setting", r)
    BY <1>2, <2>1, SetSets
  <2>3. QED
    BY <1>1, <1>3, <1>4, <2>2
<1>5. CASE m \notin rows
  <2>1. row' = row /\ last' = last
    BY <1>5 DEF UpdateOrder, GetModule
  <2>2. QED
    BY <1>1, <1>3, <2>1
<1>6. QED
  BY <1>4, <1>5

LEMMA DeleteModuleFacts ==
  ASSUME Typed, NEW m \in Modules, DeleteModule(m)
  PROVE  /\ Removes(m) /\ KeptMarks
         /\ UNCHANGED <<bought, objects, request, raced, faults>>
         /\ untidy \subseteq untidy' /\ untidy' \subseteq Products
         /\ (\E l \in Lessons : ModuleOf[l] = m /\ l \in rows) => Product(m) \in untidy'
<1>1. m \in Items /\ Product(m) = CourseOf[m] /\ Product(m) \in Products /\ untidy \subseteq Products
  BY ProductType DEF Items, Products, Typed, TypeOK
<1>2. Removes(m)
  BY <1>1, RemoveFacts DEF DeleteModule
<1>3. untidy' = IF \E l \in Lessons : ModuleOf[l] = m /\ l \in rows
                  THEN untidy \cup {CourseOf[m]} ELSE untidy
  BY DEF DeleteModule
<1>4. KeptMarks /\ UNCHANGED <<bought, objects, request, raced, faults>>
  BY DEF DeleteModule, KeptMarks, marks
<1>5. QED
  BY <1>1, <1>2, <1>3, <1>4

LEMMA ClientPutFacts ==
  ASSUME Typed, NEW r \in Requests, ClientPut(r)
  PROVE  /\ request[r].pc = "presigned" /\ request[r].key = r /\ request[r].item \in Lessons
         /\ Advances(r, "uploaded") /\ objects' = objects \cup {r}
         /\ KeptTables /\ KeptMarks /\ UNCHANGED <<bought, last, raced, untidy, faults>>
<1>1. request[r].pc = "presigned" /\ request[r].key = r /\ request[r].item \in Lessons
  BY RequestFacts, KeyType DEF ClientPut, At, StepOf, KeyOf
<1>2. Advances(r, "uploaded")
  BY GoMoves DEF ClientPut, Steps
<1>3. QED
  BY <1>1, <1>2 DEF ClientPut, KeptTables, KeptMarks, tables, marks

\* One entry changes.
SetVideo(l, k) ==
  /\ video' \in [Lessons -> Values] /\ video'[l] = k
  /\ \A m \in Lessons : m # l => video'[m] = video[m]

SetAttached(k, id) ==
  /\ attached' \in [AttachmentKeys -> Requests \cup {None}] /\ attached'[k] = id
  /\ \A j \in AttachmentKeys : j # k => attached'[j] = attached[j]

SpoilsOne(r) == untidy' = untidy \cup {Product(request[r].item)} /\ untidy' \subseteq Products

LEMMA SpoilFacts ==
  ASSUME Typed, NEW r \in Requests, request[r].pc # "new", Spoil(r)
  PROVE  SpoilsOne(r)
BY RequestFacts DEF Spoil, SpoilsOne, Typed, TypeOK

LEMMA WriteVideoFacts ==
  ASSUME Typed, NEW r \in Requests, WriteVideo(r)
  PROVE  /\ request[r].pc = "video" /\ request[r].item \in Lessons /\ request[r].key \in Keys
         /\ UNCHANGED <<rows, born, row, attached, bought, objects, last, raced, faults>> /\ KeptMarks
         /\ \/ /\ request[r].item \in rows
               /\ SetVideo(request[r].item, request[r].key)
               /\ Clears(r, request[r].doomed, "done") /\ untidy' = untidy
            \/ Ends(r) /\ SpoilsOne(r) /\ video' = video
<1> DEFINE l == request[r].item
<1>1. request[r].pc = "video" /\ l \in Lessons /\ request[r].key \in Keys
  BY RequestFacts DEF WriteVideo, At, StepOf, Aim
<1>2. request[r].doomed \in SUBSET Values /\ "done" \in Steps
  BY RequestFacts, KeyType DEF Steps
<1>3. CASE l \in rows
  <2>1. /\ request' = [request EXCEPT ![r] = Purging(request[r], request[r].doomed, "done")]
        /\ video' = [video EXCEPT ![l] = request[r].key] /\ untidy' = untidy
    BY <1>3 DEF WriteVideo, GetLesson
  <2>2. Clears(r, request[r].doomed, "done")
    BY <1>2, <2>1, RequestFacts, ClearMoves
  <2>3. SetVideo(l, request[r].key)
    BY <1>1, <2>1, KeyType DEF SetVideo, Typed, TypeOK
  <2>4. QED
    BY <1>1, <1>3, <2>1, <2>2, <2>3 DEF WriteVideo, KeptMarks, marks
<1>4. CASE l \notin rows
  <2>1. End(r) /\ Spoil(r) /\ video' = video
    BY <1>4 DEF WriteVideo, GetLesson
  <2>2. Ends(r) /\ SpoilsOne(r)
    BY <1>1, <2>1, EndMoves, SpoilFacts
  <2>3. QED
    BY <1>1, <2>1, <2>2 DEF WriteVideo, KeptMarks, marks
<1>5. QED
  BY <1>3, <1>4

LEMMA FaultFacts ==
  ASSUME Typed, Fault \/ NoFault
  PROVE  faults' \in 0 .. MaxFaults
BY BoundAssumption DEF Typed, TypeOK, Fault, NoFault

\* The third outcome is an INSERT that was made and reports an error.
LEMMA InsertAttachmentFacts ==
  ASSUME Typed, NEW r \in Requests, InsertAttachment(r)
  PROVE  /\ request[r].pc = "attach" /\ request[r].key \in AttachmentKeys
         /\ request[r].item = request[r].key[1] /\ request[r].item \in Lessons
         /\ UNCHANGED <<rows, born, row, video, bought, objects, last, raced, untidy>>
         /\ UNCHANGED <<shared, doubtful, lateOrder>>
         /\ faults' \in 0 .. MaxFaults
         /\ \/ /\ request[r].item \in rows /\ attached[request[r].key] = None
               /\ SetAttached(request[r].key, r) /\ Ends(r) /\ condemned' = condemned
            \/ /\ Clears(r, {request[r].key}, "done") /\ attached' = attached
               /\ condemned' = condemned
            \/ /\ request[r].item \in rows /\ attached[request[r].key] = None
               /\ SetAttached(request[r].key, r) /\ Clears(r, {request[r].key}, "done")
               /\ condemned' = condemned \cup {request[r].key}
<1> DEFINE k == request[r].key
<1>1. /\ request[r].pc = "attach" /\ k \in AttachmentKeys /\ request[r].item = k[1]
      /\ k[1] \in Lessons
  BY RequestFacts, KeyType DEF InsertAttachment, At, StepOf, Aim
<1>2. {k} \in SUBSET Values /\ {k} \ {None} = {k} /\ "done" \in Steps
  BY <1>1, KeyType DEF Steps
<1>3. /\ UNCHANGED <<rows, born, row, video, bought, objects, last, raced, untidy>>
      /\ UNCHANGED <<shared, doubtful, lateOrder>>
  BY DEF InsertAttachment
<1>4. CASE /\ GetLesson(k[1]) /\ attached[k] = None
           /\ attached' = [attached EXCEPT ![k] = r] /\ End(r) /\ NoFault
           /\ UNCHANGED condemned
  <2>1. SetAttached(k, r)
    BY <1>1, <1>4 DEF SetAttached, Typed, TypeOK
  <2>2. QED
    BY <1>1, <1>3, <1>4, <2>1, EndMoves, FaultFacts DEF GetLesson
<1>5. CASE /\ IF GetLesson(k[1]) /\ attached[k] = None THEN Fault ELSE NoFault
           /\ request' = [request EXCEPT ![r] = Purging(request[r], {k}, "done")]
           /\ UNCHANGED <<attached, condemned>>
  <2>1. Clears(r, {k}, "done")
    BY <1>2, <1>5, ClearMoves
  <2>2. Fault \/ NoFault
    BY <1>5
  <2>3. QED
    BY <1>1, <1>3, <1>5, <2>1, <2>2, FaultFacts
<1>6. CASE /\ GetLesson(k[1]) /\ attached[k] = None
           /\ attached' = [attached EXCEPT ![k] = r]
           /\ request' = [request EXCEPT ![r] = Purging(request[r], {k}, "done")]
           /\ condemned' = condemned \cup {k} /\ Fault
  <2>1. Clears(r, {k}, "done")
    BY <1>2, <1>6, ClearMoves
  <2>2. SetAttached(k, r)
    BY <1>1, <1>6 DEF SetAttached, Typed, TypeOK
  <2>3. QED
    BY <1>1, <1>3, <1>6, <2>1, <2>2, FaultFacts DEF GetLesson
<1>7. QED
  BY <1>4, <1>5, <1>6 DEF InsertAttachment

LEMMA SetThumbnailFacts ==
  ASSUME Typed, NEW r \in Requests, SetThumbnail(r)
  PROVE  /\ request[r].pc = "picture" /\ request[r].item \in Courses
         /\ request[r].key \in ProductKeys /\ request[r].item = request[r].key[1]
         /\ UNCHANGED <<rows, born, video, attached, bought, objects>>
         /\ UNCHANGED <<condemned, shared, lateOrder>>
         /\ faults' \in 0 .. MaxFaults
         /\ Clears(r, request[r].doomed, "done")
         /\ \/ /\ request[r].item \in rows
               /\ SetTo(request[r].item, "thumbnail", request[r].key)
               /\ raced' = (IF InHand(r, request[r].item) THEN raced \cup {request[r].item}
                                                          ELSE raced)
               /\ doubtful' = (IF InHand(r, request[r].item) THEN doubtful \cup {request[r].item}
                                                             ELSE doubtful)
               /\ untidy' = untidy
            \/ /\ doubtful' = doubtful \cup {request[r].item}
               /\ SpoilsOne(r) /\ row' = row /\ last' = last /\ raced' = raced
<1> DEFINE c == request[r].item
<1>1. /\ request[r].pc = "picture" /\ c \in Courses /\ request[r].key \in ProductKeys
      /\ c = request[r].key[1]
  BY RequestFacts DEF SetThumbnail, At, StepOf, Aim
<1>2. /\ request[r].doomed \in SUBSET Values /\ "done" \in Steps
      /\ c \in Items /\ request[r].key \in Values /\ "thumbnail" \in Columns
  BY <1>1, RequestFacts, KeyType DEF Steps, Items, Products, Columns
<1>3. Clears(r, request[r].doomed, "done")
  <2>1. request' = [request EXCEPT ![r] = Purging(request[r], request[r].doomed, "done")]
    BY DEF SetThumbnail
  <2>2. QED
    BY <1>2, <2>1, RequestFacts, ClearMoves
<1>4. /\ UNCHANGED <<rows, born, video, attached, bought, objects>>
      /\ UNCHANGED <<condemned, shared, lateOrder>>
  BY DEF SetThumbnail
<1>5. CASE /\ GetCourse(c) /\ Set(c, "thumbnail", request[r].key) /\ Race(r, c)
           /\ doubtful' = IF InHand(r, c) THEN doubtful \cup {c} ELSE doubtful
           /\ NoFault /\ UNCHANGED untidy
  <2>1. SetTo(c, "thumbnail", request[r].key)
    BY <1>2, <1>5, SetSets
  <2>2. raced' = IF InHand(r, c) THEN raced \cup {c} ELSE raced
    BY <1>5 DEF Race
  <2>3. QED
    BY <1>1, <1>3, <1>4, <1>5, <2>1, <2>2, FaultFacts DEF GetCourse
<1>6. CASE /\ IF GetCourse(c) THEN Fault ELSE NoFault
           /\ doubtful' = doubtful \cup {c} /\ Spoil(r) /\ UNCHANGED <<row, last, raced>>
  <2>1. Fault \/ NoFault
    BY <1>6
  <2>2. SpoilsOne(r)
    BY <1>1, <1>6, SpoilFacts
  <2>3. QED
    BY <1>1, <1>3, <1>4, <1>6, <2>1, <2>2, FaultFacts
<1>7. QED
  BY <1>5, <1>6 DEF SetThumbnail

LEMMA DetachRowFacts ==
  ASSUME Typed, NEW r \in Requests, DetachRow(r)
  PROVE  /\ request[r].pc = "detach" /\ request[r].key \in AttachmentKeys
         /\ request[r].item = request[r].key[1] /\ request[r].item \in Lessons
         /\ request[r].id \in Requests
         /\ UNCHANGED <<rows, born, row, video, bought, objects, last, raced, untidy, faults>>
         /\ UNCHANGED <<shared, doubtful, lateOrder>>
         /\ condemned' = condemned \ {request[r].key} /\ Ends(r)
         /\ \/ attached[request[r].key] = request[r].id /\ SetAttached(request[r].key, None)
            \/ attached[request[r].key] # request[r].id /\ attached' = attached
<1>1. /\ request[r].pc = "detach" /\ request[r].key \in AttachmentKeys
      /\ request[r].item = request[r].key[1] /\ request[r].key[1] \in Lessons
      /\ request[r].id \in Requests
  BY RequestFacts, KeyType DEF DetachRow, At, StepOf, Aim
<1>2. Ends(r)
  BY EndMoves DEF DetachRow
<1>3. CASE attached[request[r].key] = request[r].id
  <2>1. attached' = [attached EXCEPT ![request[r].key] = None]
    BY <1>3 DEF DetachRow
  <2>2. SetAttached(request[r].key, None)
    BY <1>1, <2>1 DEF SetAttached, Typed, TypeOK
  <2>3. QED
    BY <1>1, <1>2, <1>3, <2>2 DEF DetachRow
<1>4. CASE attached[request[r].key] # request[r].id
  BY <1>1, <1>2, <1>4 DEF DetachRow
<1>5. QED
  BY <1>3, <1>4

LEMMA ReadEbookFacts ==
  ASSUME Typed, NEW r \in Requests, ReadEbook(r)
  PROVE  /\ request[r].pc = "read" /\ request[r].key \in ProductKeys
         /\ request[r].item = request[r].key[1] /\ request[r].item \in Ebooks
         /\ request[r].column \in {"thumbnail", "file"}
         /\ KeptTables /\ KeptMarks /\ UNCHANGED <<bought, objects, last, raced, faults>>
         /\ \/ /\ request[r].item \in rows
               /\ Moves(r) /\ request'[r].pc = "write" /\ request'[r].column = request[r].column
               /\ request'[r].row[request[r].column] = request[r].key
               /\ \A c \in Columns : c # request[r].column =>
                    request'[r].row[c] = row[request[r].item][c]
               /\ request'[r].doomed = request[r].doomed
               /\ untidy \subseteq untidy' /\ untidy' \subseteq Products
               /\ row[request[r].item][request[r].column] \in {None, request[r].key}
                    \/ request[r].item \in untidy'
            \/ Ends(r) /\ SpoilsOne(r)
<1> DEFINE q == request[r]
           b == request[r].item
           rw == [row[b] EXCEPT ![q.column] = q.key]
           s == [q EXCEPT !.pc = "write", !.row = rw]
<1>1. /\ q.pc = "read" /\ q.key \in ProductKeys /\ b = q.key[1] /\ b \in Ebooks
      /\ q.column \in {"thumbnail", "file"}
  BY RequestFacts, KeyType DEF ReadEbook, At, StepOf, Aim
<1>2. /\ q \in RequestStates /\ row[b] \in [Columns -> Values] /\ q.column \in Columns
      /\ q.key \in Values /\ request \in [Requests -> RequestStates] /\ untidy \subseteq Products
      /\ b \in Products
  BY <1>1, KeyType DEF Typed, TypeOK, Items, Products, Columns
<1>3. /\ rw \in [Columns -> Values] /\ rw[q.column] = q.key
      /\ \A c \in Columns : c # q.column => rw[c] = row[b][c]
  BY <1>2
<1>4. CASE b \in rows
  <2>1. request' = [request EXCEPT ![r].pc = "write", ![r].row = rw]
    BY <1>4 DEF ReadEbook, GetEbook
  <2>2. request' = [request EXCEPT ![r] = s]
    BY <1>2, <2>1
  <2> HIDE DEF rw
  <2>3. s \in RequestStates
    BY <1>2, <1>3 DEF RequestStates, Steps
  <2>4. /\ s.pc = "write" /\ s.item = q.item /\ s.key = q.key /\ s.row = rw
        /\ s.column = q.column /\ s.doomed = q.doomed
    BY <1>2 DEF RequestStates
  <2> HIDE DEF s
  <2>5. request' \in [Requests -> RequestStates] /\ Others(r) /\ request'[r] = s
    BY <1>2, <2>2, <2>3, OneRequest
  <2>6. untidy' = IF row[b][q.column] \in {None, q.key} THEN untidy ELSE untidy \cup {b}
    BY <1>4 DEF ReadEbook, GetEbook
  <2>7. KeptTables /\ KeptMarks /\ UNCHANGED <<bought, objects, last, raced, faults>>
    BY DEF ReadEbook, KeptTables, KeptMarks, tables, marks
  <2>8. Moves(r)
    BY <2>4, <2>5 DEF Moves
  <2>9. /\ untidy \subseteq untidy' /\ untidy' \subseteq Products
        /\ row[b][q.column] \in {None, q.key} \/ b \in untidy'
    BY <1>2, <2>6
  <2>10. QED
    BY <1>1, <1>3, <1>4, <2>4, <2>5, <2>7, <2>8, <2>9
<1>5. CASE b \notin rows
  <2>1. End(r) /\ Spoil(r)
    BY <1>5 DEF ReadEbook, GetEbook
  <2>2. Ends(r) /\ SpoilsOne(r)
    BY <1>1, <2>1, EndMoves, SpoilFacts
  <2>3. QED
    BY <1>1, <2>2 DEF ReadEbook, KeptTables, KeptMarks, tables, marks
<1>6. QED
  BY <1>4, <1>5

LEMMA PutFacts ==
  ASSUME Typed, NEW r \in Requests, Put(r)
  PROVE  /\ request[r].pc = "put" /\ request[r].next \in {"video", "attach", "read", "picture"}
         /\ request[r].key \in Keys
         /\ Advances(r, request[r].next) /\ objects' = objects \cup {request[r].key}
         /\ KeptTables /\ KeptMarks /\ UNCHANGED <<bought, last, raced, untidy, faults>>
<1>1. request[r].pc = "put" /\ request[r].next \in {"video", "attach", "read", "picture"}
  BY RequestFacts DEF Put, At, StepOf
<1>2. request[r].key \in Keys
  BY <1>1, RequestFacts, KeyType DEF StepOf, Aim
<1>3. Advances(r, request[r].next)
  BY <1>1, GoMoves DEF Put, Steps
<1>4. QED
  BY <1>1, <1>2, <1>3 DEF Put, KeptTables, KeptMarks, tables, marks

LEMMA WriteColumnsFacts ==
  ASSUME Typed, NEW r \in Requests, WriteColumns(r)
  PROVE  /\ request[r].pc = "write" /\ request[r].item \in Products \cup Lessons
         /\ request[r].row \in [Columns -> Values] /\ request[r].column \in Columns
         /\ UNCHANGED <<rows, born, video, attached, bought, objects, faults>> /\ KeptMarks
         /\ Ends(r)
         /\ \/ /\ request[r].item \in rows
               /\ row' \in [Items -> [Columns -> Values]] /\ last' \in [Items -> [Columns -> Values]]
               /\ \A y \in Items : y # request[r].item => row'[y] = row[y] /\ last'[y] = last[y]
               /\ row'[request[r].item] = request[r].row
               /\ last'[request[r].item][request[r].column] = request[r].row[request[r].column]
               /\ \A c \in Columns : c # request[r].column =>
                    last'[request[r].item][c] = last[request[r].item][c]
               /\ raced' = (IF InHand(r, request[r].item) THEN raced \cup {request[r].item}
                                                          ELSE raced)
               /\ untidy' = untidy
            \/ SpoilsOne(r) /\ UNCHANGED <<row, last, raced>>
<1> DEFINE q == request[r]
           x == request[r].item
<1>1. q.pc = "write" /\ x \in Products \cup Lessons
  BY RequestFacts DEF WriteColumns, At, StepOf, Aim
<1>2. q.row \in [Columns -> Values] /\ q.column \in Columns
  BY RequestFacts DEF RequestStates
<1>3. /\ row \in [Items -> [Columns -> Values]] /\ last \in [Items -> [Columns -> Values]]
      /\ x \in Items /\ q.row[q.column] \in Values
  BY <1>1, <1>2 DEF Typed, TypeOK, Items
<1>4. Ends(r) /\ UNCHANGED <<rows, born, video, attached, bought, objects, faults>> /\ KeptMarks
  BY EndMoves DEF WriteColumns, KeptMarks, marks
<1>5. CASE x \in rows
  <2>1. /\ row' = [row EXCEPT ![x] = q.row]
        /\ last' = [last EXCEPT ![x][q.column] = q.row[q.column]]
        /\ Race(r, x) /\ untidy' = untidy
    BY <1>5 DEF WriteColumns
  <2>2. /\ last' \in [Items -> [Columns -> Values]]
        /\ \A y \in Items : y # x => last'[y] = last[y]
        /\ last'[x][q.column] = q.row[q.column]
        /\ \A c \in Columns : c # q.column => last'[x][c] = last[x][c]
    BY <1>2, <1>3, <2>1, SetFacts
  <2>3. /\ row' \in [Items -> [Columns -> Values]]
        /\ \A y \in Items : y # x => row'[y] = row[y]
        /\ row'[x] = q.row
    BY <1>2, <1>3, <2>1
  <2>4. raced' = IF InHand(r, x) THEN raced \cup {x} ELSE raced
    BY <2>1 DEF Race
  <2>5. QED
    BY <1>1, <1>2, <1>4, <1>5, <2>1, <2>2, <2>3, <2>4
<1>6. CASE x \notin rows
  <2>1. Spoil(r) /\ UNCHANGED <<row, last, raced>>
    BY <1>6 DEF WriteColumns
  <2>2. SpoilsOne(r)
    BY <1>1, <2>1, SpoilFacts
  <2>3. QED
    BY <1>1, <1>2, <1>4, <2>1, <2>2
<1>7. QED
  BY <1>5, <1>6

LEMMA PurgeFacts ==
  ASSUME Typed, NEW r \in Requests, Purge(r)
  PROVE  /\ request[r].pc = "purge"
         /\ KeptTables /\ KeptMarks /\ UNCHANGED <<bought, last, raced>>
         /\ faults' \in 0 .. MaxFaults
         /\ \E k \in request[r].doomed :
              /\ Clears(r, request[r].doomed \ {k}, request[r].next)
              /\ \/ objects' = objects \ {k} /\ untidy' = untidy
                 \/ objects' = objects /\ SpoilsOne(r)
<1>1. request[r].pc = "purge"
  BY DEF Purge, At
<1>2. PICK k \in request[r].doomed :
        /\ request' = [request EXCEPT ![r] = Purging(request[r], request[r].doomed \ {k},
                                                     request[r].next)]
        /\ \/ objects' = objects \ {k} /\ NoFault /\ UNCHANGED untidy
           \/ UNCHANGED objects /\ Fault /\ Spoil(r)
  BY DEF Purge
<1>3. PICK d : d = request[r].doomed \ {k}
  OBVIOUS
<1>4. d \in SUBSET Values /\ request[r].next \in Steps /\ d = d \ {None}
  BY <1>3, RequestFacts, KeyType DEF RequestStates
<1>5. request' = [request EXCEPT ![r] = Purging(request[r], d, request[r].next)]
  BY <1>2, <1>3
<1>6. Clears(r, d, request[r].next)
  BY <1>4, <1>5, ClearMoves
<1>7. faults' \in 0 .. MaxFaults
  BY <1>2, FaultFacts
<1>8. \/ objects' = objects \ {k} /\ untidy' = untidy
      \/ objects' = objects /\ SpoilsOne(r)
  BY <1>1, <1>2, SpoilFacts
<1>9. KeptTables /\ KeptMarks /\ UNCHANGED <<bought, last, raced>>
  BY DEF Purge, KeptTables, KeptMarks, tables, marks
<1>10. Clears(r, request[r].doomed \ {k}, request[r].next)
  BY <1>3, <1>6
<1>11. QED
  BY <1>1, <1>7, <1>8, <1>9, <1>10

LEMMA ChildrenType ==
  ASSUME Typed, NEW x \in Courses \cup Lessons
  PROVE  Children(x) \in SUBSET Values
<1>1. /\ \A l \in Lessons : video[l] \in Values
      /\ \A k \in AttachmentKeys : k \in Values
  BY KeyType DEF Typed, TypeOK, Values
<1>2. \A l : GetByLessonID(l) \in SUBSET Values
  BY <1>1 DEF GetByLessonID
<1>3. \A c : Curriculum(c) \in SUBSET Values
  BY <1>1, <1>2 DEF Curriculum
<1>4. QED
  BY <1>2, <1>3 DEF Children

LEMMA ListFacts ==
  ASSUME Typed, NEW r \in Requests, List(r)
  PROVE  /\ request[r].pc = "list" /\ request[r].item \in Courses \cup Lessons
         /\ KeptTables /\ KeptMarks /\ UNCHANGED <<bought, objects, last, raced>>
         /\ faults' \in 0 .. MaxFaults
         /\ \/ Clears(r, Children(request[r].item) \ {None}, "delete") /\ untidy' = untidy
            \/ Advances(r, "delete") /\ SpoilsOne(r)
<1>1. request[r].pc = "list" /\ request[r].item \in Courses \cup Lessons
  BY RequestFacts DEF List, At, StepOf, Aim
<1>2. PICK keys : keys = Children(request[r].item)
  OBVIOUS
<1>3. keys \in SUBSET Values /\ "delete" \in Steps
  BY <1>1, <1>2, ChildrenType DEF Steps
<1>4. KeptTables /\ KeptMarks /\ UNCHANGED <<bought, objects, last, raced>>
  BY DEF List, KeptTables, KeptMarks, tables, marks
<1>5. CASE /\ request' = [request EXCEPT ![r] = Purging(request[r], Children(request[r].item), "delete")]
           /\ NoFault /\ UNCHANGED untidy
  <2>1. request' = [request EXCEPT ![r] = Purging(request[r], keys, "delete")]
    BY <1>2, <1>5
  <2>2. PICK d : d = keys \ {None}
    OBVIOUS
  <2>3. Clears(r, d, "delete")
    BY <1>3, <2>1, <2>2, ClearMoves
  <2>4. QED
    BY <1>1, <1>2, <1>4, <1>5, <2>2, <2>3, FaultFacts
<1>6. CASE Go(r, "delete") /\ Fault /\ Spoil(r)
  <2>1. Advances(r, "delete") /\ SpoilsOne(r)
    BY <1>1, <1>3, <1>6, GoMoves, SpoilFacts
  <2>2. QED
    BY <1>1, <1>4, <1>6, <2>1, FaultFacts
<1>7. QED
  BY <1>5, <1>6 DEF List

LEMMA DeleteRowFacts ==
  ASSUME Typed, NEW r \in Requests, DeleteRow(r)
  PROVE  /\ request[r].pc = "delete" /\ request[r].item \in Products \cup Lessons
         /\ UNCHANGED <<bought, objects, raced, untidy, faults>> /\ KeptMarks
         /\ Ends(r)
         /\ \/ request[r].item \in rows \ bought /\ Removes(request[r].item)
            \/ request[r].item \notin rows \ bought /\ KeptTables /\ last' = last
<1>1. request[r].pc = "delete" /\ request[r].item \in Products \cup Lessons
  BY RequestFacts DEF DeleteRow, At, StepOf, Aim
<1>2. Ends(r) /\ UNCHANGED <<bought, objects, raced, untidy, faults>> /\ KeptMarks
  BY EndMoves DEF DeleteRow, KeptMarks, marks
<1>3. CASE request[r].item \in rows \ bought
  <2>1. Removes(request[r].item)
    BY <1>1, <1>3, RemoveFacts DEF DeleteRow, Items
  <2>2. QED
    BY <1>1, <1>2, <1>3, <2>1
<1>4. CASE request[r].item \notin rows \ bought
  BY <1>1, <1>2, <1>4 DEF DeleteRow, KeptTables, tables
<1>5. QED
  BY <1>3, <1>4

LEMMA FailFacts ==
  ASSUME Typed, NEW r \in Requests, Fail(r)
  PROVE  /\ Active(r) /\ request[r].pc # "new" /\ Ends(r) /\ SpoilsOne(r)
         /\ KeptTables /\ KeptMarks /\ UNCHANGED <<bought, objects, last, raced>>
         /\ faults' \in 0 .. MaxFaults
<1>1. Active(r) /\ request[r].pc # "new"
  BY DEF Fail, Active
<1>2. Ends(r) /\ SpoilsOne(r) /\ faults' \in 0 .. MaxFaults
  BY <1>1, EndMoves, SpoilFacts, FaultFacts DEF Fail
<1>3. QED
  BY <1>1, <1>2 DEF Fail, KeptTables, KeptMarks, tables, marks

(***************************************************************************)
(* The steps of Next                                                       *)
(***************************************************************************)
Starting(r) ==
  \/ \E x \in Products \cup Lessons, column \in {"title", "setting"} :
       x \in rows /\ EditRow(r, x, column)
  \/ \E c \in Courses : SoftDelete(r, c) \/ PermanentDelete(r, c)
  \/ \E c \in Courses : c \in rows /\ LinkPicture(r, c)
  \/ \E c \in Courses, n \in Names : QueueThumbnailUpdate(r, c, n)
  \/ \E m \in Modules : UpdateModule(r, m)
  \/ \E l \in Lessons : DeleteLesson(r, l) \/ UploadVideo(r, l) \/ GetVideoUploadURL(r, l)
  \/ \E l \in Lessons, k \in Keys : CompleteVideoUpload(r, l, k)
  \/ \E l \in Lessons, n \in Names : AddAttachment(r, l, n)
  \/ \E k \in AttachmentKeys : DeleteAttachment(r, k)
  \/ \E b \in Ebooks, kind \in {"thumbnail", "file"}, n \in Names : UploadEbook(r, b, kind, n)
  \/ \E b \in Ebooks : DeleteEbook(r, b)

Stepping(r) ==
  \/ Count(r) \/ UpdateTitle(r) \/ UpdateOrder(r) \/ WriteVideo(r) \/ InsertAttachment(r)
  \/ DetachRow(r) \/ SetThumbnail(r) \/ ReadEbook(r) \/ WriteColumns(r) \/ Put(r) \/ Purge(r) \/ List(r)
  \/ DeleteRow(r) \/ ClientPut(r) \/ Fail(r)

LEMMA NextActions ==
  ASSUME Next
  PROVE  \/ \E x \in Items : Insert(x)
         \/ \E m \in Modules : DeleteModule(m)
         \/ \E p \in Products : Buy(p)
         \/ \E r \in Requests : Starting(r)
         \/ \E r \in Requests : Stepping(r)
<1>1. \A x : InsertCourse(x) \/ InsertModule(x) \/ InsertLesson(x) \/ InsertEbook(x) => Insert(x)
  BY DEF InsertCourse, InsertModule, InsertLesson, InsertEbook
<1>2. CASE HandleCreateCourse \/ HandleCreateModule \/ HandleCreateLesson \/ HandleCreateEbook
  BY <1>1, <1>2 DEF HandleCreateCourse, HandleCreateModule, HandleCreateLesson,
       HandleCreateEbook, CreateCourse, CreateModule, CreateLesson, CreateEbook, Items, Products
<1>3. CASE HandleDeleteModule
  BY <1>3 DEF HandleDeleteModule
<1>4. ASSUME NEW r \in Requests, Handler(r)
      PROVE  Starting(r)
  <2>1. ASSUME NEW x \in Products \cup Lessons, x \in rows,
               \E column \in {"title", "setting"} : EditRow(r, x, column)
        PROVE  Starting(r)
    BY <2>1 DEF Starting
  <2>2. CASE HandleUpdateCourse(r) \/ HandleUpdateLesson(r) \/ HandleUpdateEbook(r)
    <3>1. CASE \E c \in Courses : c \in rows /\ LinkPicture(r, c)
      BY <3>1 DEF Starting
    <3>2. CASE \E x \in Products \cup Lessons :
                 x \in rows /\ \E column \in {"title", "setting"} : EditRow(r, x, column)
      BY <2>1, <3>2
    <3>3. QED
      BY <2>2, <3>1, <3>2 DEF HandleUpdateCourse, HandleUpdateLesson, HandleUpdateEbook,
           UpdateCourse, UpdateLesson, UpdateEbook, GetCourse, GetLesson, GetEbook, Products
  <2>3. CASE HandleDeleteCourse(r) \/ HandleUpdateModule(r) \/ HandleUpdateThumbnail(r)
    BY <2>3 DEF HandleDeleteCourse, HandleUpdateModule, HandleUpdateThumbnail, Starting
  <2>4. CASE HandleDeleteLesson(r) \/ HandleUploadVideo(r) \/ HandleVideoUploadURL(r)
               \/ HandleCompleteUpload(r)
    BY <2>4 DEF HandleDeleteLesson, HandleUploadVideo, HandleVideoUploadURL,
         HandleCompleteUpload, Starting
  <2>5. CASE HandleAddAttachment(r) \/ HandleDeleteAttachment(r) \/ HandleDeleteEbook(r)
    BY <2>5 DEF HandleAddAttachment, HandleDeleteAttachment, HandleDeleteEbook, Starting
  <2>6. CASE HandleUploadFile(r) \/ HandleUploadThumbnail(r)
    BY <2>6 DEF HandleUploadFile, HandleUploadThumbnail, UploadEbookFile, UploadThumbnail, Starting
  <2>7. QED
    BY <1>4, <2>2, <2>3, <2>4, <2>5, <2>6 DEF Handler
<1>5. ASSUME NEW r \in Requests, Call(r) \/ ClientPut(r) \/ Fail(r)
      PROVE  Stepping(r)
  BY <1>5 DEF Call, Stepping, WriteCourse, WriteLesson, WriteEbook
<1>6. QED
  BY <1>2, <1>3, <1>4, <1>5 DEF Next

(***************************************************************************)
(* Types                                                                   *)
(***************************************************************************)
LEMMA StartsSame ==
  ASSUME NEW r \in Requests, NEW x, Starts(r, x)
  PROVE  Others(r) /\ ~At(r, "uploaded") /\ SameItem(r) /\ untidy \subseteq untidy'
BY DEF Starts, At, SameItem

LEMMA KeptDoubts ==
  ASSUME KeptMarks
  PROVE  doubtful \subseteq doubtful'
BY DEF KeptMarks

LEMMA StartingGrows ==
  ASSUME Typed, NEW r \in Requests, Starting(r)
  PROVE  Grows /\ SameItem(r)
<1>1. ASSUME NEW x \in Products \cup Lessons, NEW column \in {"title", "setting"},
             EditRow(r, x, column)
      PROVE  Grows /\ SameItem(r)
  BY <1>1, EditRowFacts, StartsSame, KeptDoubts DEF Grows
<1>2. ASSUME NEW c \in Courses, LinkPicture(r, c) \/ SoftDelete(r, c) \/ PermanentDelete(r, c)
      PROVE  Grows /\ SameItem(r)
  <2>1. CASE LinkPicture(r, c)
    BY <2>1, LinkPictureFacts, StartsSame, KeptDoubts DEF Grows
  <2>2. CASE SoftDelete(r, c)
    BY <2>2, SoftDeleteFacts, KeptDoubts DEF Grows, SameItem
  <2>3. CASE PermanentDelete(r, c)
    BY <2>3, PermanentDeleteFacts, StartsSame, KeptDoubts DEF Grows
  <2>4. QED
    BY <1>2, <2>1, <2>2, <2>3
<1>3. ASSUME NEW c \in Courses, NEW n \in Names, QueueThumbnailUpdate(r, c, n)
      PROVE  Grows /\ SameItem(r)
  BY <1>3, QueueThumbnailUpdateFacts, StartsSame, KeptDoubts DEF Grows
<1>4. ASSUME NEW m \in Modules, UpdateModule(r, m)
      PROVE  Grows /\ SameItem(r)
  BY <1>4, UpdateModuleFacts, StartsSame, KeptDoubts DEF Grows
<1>5. ASSUME NEW l \in Lessons, DeleteLesson(r, l) \/ UploadVideo(r, l) \/ GetVideoUploadURL(r, l)
      PROVE  Grows /\ SameItem(r)
  <2>1. CASE DeleteLesson(r, l)
    BY <2>1, DeleteLessonFacts, StartsSame DEF Grows
  <2>2. CASE UploadVideo(r, l)
    BY <2>2, UploadVideoFacts, StartsSame, KeptDoubts DEF Grows
  <2>3. CASE GetVideoUploadURL(r, l)
    BY <2>3, GetVideoUploadURLFacts, StartsSame, KeptDoubts DEF Grows
  <2>4. QED
    BY <1>5, <2>1, <2>2, <2>3
<1>6. ASSUME NEW l \in Lessons, NEW k \in Keys, CompleteVideoUpload(r, l, k)
      PROVE  Grows /\ SameItem(r)
  BY <1>6, CompleteVideoUploadFacts, StartsSame DEF Grows
<1>7. ASSUME NEW l \in Lessons, NEW n \in Names, AddAttachment(r, l, n)
      PROVE  Grows /\ SameItem(r)
  BY <1>7, AddAttachmentFacts, StartsSame DEF Grows
<1>8. ASSUME NEW k \in AttachmentKeys, DeleteAttachment(r, k)
      PROVE  Grows /\ SameItem(r)
  BY <1>8, DeleteAttachmentFacts, StartsSame DEF Grows
<1>9. ASSUME NEW b \in Ebooks, NEW kind \in {"thumbnail", "file"}, NEW n \in Names,
             UploadEbook(r, b, kind, n)
      PROVE  Grows /\ SameItem(r)
  <2>1. Starts(r, b) /\ KeptMarks
    BY <1>9, UploadEbookFacts
  <2>2. QED
    BY <2>1, StartsSame, KeptDoubts DEF Grows
<1>10. ASSUME NEW b \in Ebooks, DeleteEbook(r, b)
       PROVE  Grows /\ SameItem(r)
  BY <1>10, DeleteEbookFacts, StartsSame DEF Grows
<1>11. QED
  BY <1>1, <1>2, <1>3, <1>4, <1>5, <1>6, <1>7, <1>8, <1>9, <1>10 DEF Starting

LEMMA SteppingGrows ==
  ASSUME Typed, NEW r \in Requests, Stepping(r)
  PROVE  Grows /\ SameItem(r)
<1>1. CASE Count(r) \/ InsertAttachment(r) \/ DeleteRow(r)
  <2>1. Ends(r) \/ Moves(r)
    BY <1>1, CountFacts, InsertAttachmentFacts, DeleteRowFacts DEF Clears
  <2>2. doubtful' = doubtful /\ untidy' = untidy
    <3>1. CASE Count(r)
      BY <3>1, CountFacts
    <3>2. CASE InsertAttachment(r)
      BY <3>2, InsertAttachmentFacts
    <3>3. CASE DeleteRow(r)
      BY <3>3, DeleteRowFacts DEF KeptMarks
    <3>4. QED
      BY <1>1, <3>1, <3>2, <3>3
  <2>3. QED
    BY <2>1, <2>2 DEF Grows, SameItem, Ends, Moves
<1>1a. CASE UpdateTitle(r) \/ UpdateOrder(r) \/ DetachRow(r)
  BY <1>1a, UpdateTitleFacts, UpdateOrderFacts, DetachRowFacts, KeptDoubts
     DEF Grows, SameItem, Ends, Clears, Advances, Moves
<1>2. CASE WriteVideo(r) \/ ReadEbook(r) \/ WriteColumns(r)
  BY <1>2, WriteVideoFacts, ReadEbookFacts, WriteColumnsFacts, KeptDoubts
     DEF Grows, SameItem, Ends, Clears, Moves, SpoilsOne
<1>3. CASE SetThumbnail(r)
  BY <1>3, SetThumbnailFacts DEF Grows, SameItem, Clears, Moves, SpoilsOne
<1>4. CASE Put(r) \/ Purge(r) \/ List(r)
  BY <1>4, PutFacts, PurgeFacts, ListFacts, KeptDoubts
     DEF Grows, SameItem, Advances, Clears, Moves, SpoilsOne
<1>5. CASE ClientPut(r) \/ Fail(r)
  BY <1>5, ClientPutFacts, FailFacts, KeptDoubts
     DEF Grows, SameItem, Advances, Ends, Moves, SpoilsOne
<1>6. QED
  BY <1>1, <1>1a, <1>2, <1>3, <1>4, <1>5 DEF Stepping

LEMMA TypedBy ==
  ASSUME Typed, NEW r \in Requests, Others(r), ~At(r, "uploaded"), SameItem(r), Grows, TypeOK',
         KeyOf(r)', StepOf(r)'
  PROVE  Typed'
BY KeyOfKept DEF Typed

LEMMA EndsTyped ==
  ASSUME Typed, NEW r \in Requests, Ends(r), request[r].pc \notin {"new", "uploaded"}, Grows,
         SameItem(r)
  PROVE  Others(r) /\ ~At(r, "uploaded") /\ KeyOf(r)' /\ StepOf(r)'
<1>1. Others(r) /\ ~At(r, "uploaded")
  BY DEF Ends, Moves, At
<1>2. KeyOf(r)'
  BY <1>1, KeyOfKept DEF Ends, Moves
<1>3. StepOf(r)
  BY DEF Typed
<1>4. StepOf(r)'
  BY <1>3 DEF StepOf, Aim, Ends, Moves
<1>5. QED
  BY <1>1, <1>2, <1>4

LEMMA MovesTyped ==
  ASSUME Typed, NEW r \in Requests, Moves(r), request[r].pc \notin {"new", "uploaded"}, Grows,
         SameItem(r)
  PROVE  Others(r) /\ ~At(r, "uploaded") /\ KeyOf(r)' /\ StepOf(r)
<1>1. Others(r) /\ ~At(r, "uploaded")
  BY DEF Moves, At
<1>2. KeyOf(r)'
  BY <1>1, KeyOfKept DEF Moves
<1>3. QED
  BY <1>1, <1>2 DEF Typed

\* The first step of a request, when only requests and marks change.
LEMMA StartTyped ==
  ASSUME Typed, NEW r \in Requests, NEW x \in Items, Starts(r, x),
         KeptTables, UNCHANGED <<bought, objects, last, raced, faults>>,
         condemned' \subseteq Items \cup AttachmentKeys, shared' \subseteq AttachmentKeys,
         doubtful' \subseteq Items, lateOrder' = lateOrder, doubtful \subseteq doubtful',
         KeyOf(r)', StepOf(r)'
  PROVE  Typed'
<1>1. TypeOK'
  BY DEF Typed, TypeOK, Starts, KeptTables
<1>2. Others(r) /\ ~At(r, "uploaded") /\ SameItem(r) /\ Grows
  BY StartsSame DEF Grows
<1>3. QED
  BY <1>1, <1>2, TypedBy

LEMMA MarksType ==
  ASSUME Typed
  PROVE  /\ condemned \subseteq Items \cup AttachmentKeys /\ shared \subseteq AttachmentKeys
         /\ doubtful \subseteq Items
         /\ KeptMarks => /\ condemned' \subseteq Items \cup AttachmentKeys
                         /\ shared' \subseteq AttachmentKeys
                         /\ doubtful' \subseteq Items /\ lateOrder' = lateOrder
                         /\ doubtful \subseteq doubtful'
BY DEF Typed, TypeOK, KeptMarks

LEMMA StartingTyped ==
  ASSUME Typed, NEW r \in Requests, Starting(r)
  PROVE  Typed'
<1>0. /\ Products \subseteq Items /\ Lessons \subseteq Items /\ Modules \subseteq Items
      /\ Courses \subseteq Items /\ Ebooks \subseteq Items
      /\ None \notin Keys /\ Requests \subseteq Keys /\ AttachmentKeys \subseteq Keys
      /\ ProductKeys \subseteq Keys
  BY KeyType DEF Items, Products
<1>g. Grows /\ SameItem(r)
  BY StartingGrows
<1>1. ASSUME NEW x \in Products \cup Lessons, NEW column \in {"title", "setting"},
             EditRow(r, x, column)
      PROVE  Typed'
  <2>1. /\ Starts(r, x) /\ KeptTables /\ KeptMarks
        /\ UNCHANGED <<bought, objects, last, raced, faults>>
        /\ request'[r].pc = "write" /\ request'[r].key = None
    BY <1>1, EditRowFacts
  <2>2. KeyOf(r)' /\ StepOf(r)'
    BY <1>0, <2>1 DEF KeyOf, StepOf, Aim, Starts
  <2>3. QED
    BY <1>0, <2>1, <2>2, MarksType, StartTyped
<1>1a. ASSUME NEW c \in Courses, LinkPicture(r, c)
       PROVE  Typed'
  <2>1. /\ Starts(r, c) /\ KeptTables /\ KeptMarks
        /\ UNCHANGED <<bought, objects, last, raced, faults>>
        /\ request'[r].pc = "write" /\ request'[r].key = None
    BY <1>1a, LinkPictureFacts
  <2>2. KeyOf(r)' /\ StepOf(r)'
    BY <1>0, <2>1 DEF KeyOf, StepOf, Aim, Starts, Products
  <2>3. QED
    BY <1>0, <2>1, <2>2, MarksType, StartTyped
<1>1b. ASSUME NEW c \in Courses, NEW n \in Names, QueueThumbnailUpdate(r, c, n)
       PROVE  Typed'
  <2>1. PICK k \in ProductKeys : k[1] = c /\ request'[r].key = k
    BY <1>1b, QueueThumbnailUpdateFacts
  <2>2. /\ Starts(r, c) /\ KeptTables /\ KeptMarks
        /\ UNCHANGED <<bought, objects, last, raced, faults>>
        /\ request'[r].pc = "put" /\ request'[r].next = "picture" /\ request'[r].key = k
        /\ request'[r].item = c
    BY <1>1b, <2>1, QueueThumbnailUpdateFacts DEF Starts
  <2>3. KeyOf(r)'
    BY <2>1, <2>2, NameAssumption DEF KeyOf, Owner
  <2>4. StepOf(r)'
    BY <1>0, <2>1, <2>2 DEF StepOf, Aim
  <2>5. QED
    BY <1>0, <2>2, <2>3, <2>4, MarksType, StartTyped
<1>2. ASSUME NEW c \in Courses, SoftDelete(r, c)
      PROVE  Typed'
  <2>1. KeyOf(r)' /\ StepOf(r)'
    <3>1. request'[r].pc = "done" /\ request'[r].item = c /\ request'[r].key = None
      BY <1>2, SoftDeleteFacts
    <3>2. QED
      BY <1>0, <3>1 DEF KeyOf, StepOf, Aim
  <2>2. TypeOK'
    <3>1. /\ row' \in [Items -> [Columns -> Values]] /\ last' \in [Items -> [Columns -> Values]]
          /\ request' \in [Requests -> RequestStates] /\ raced' \subseteq raced \cup {c}
          /\ UNCHANGED <<rows, born, video, attached, bought, objects, untidy, faults>>
          /\ KeptMarks
      BY <1>2, SoftDeleteFacts DEF SetTo
    <3>2. QED
      BY <1>0, <3>1 DEF Typed, TypeOK, KeptMarks
  <2>3. Others(r) /\ ~At(r, "uploaded")
    BY <1>2, SoftDeleteFacts DEF At
  <2>4. QED
    BY <1>g, <2>1, <2>2, <2>3, TypedBy
<1>3. ASSUME NEW c \in Courses, PermanentDelete(r, c)
      PROVE  Typed'
  <2>1. KeyOf(r)' /\ StepOf(r)'
    BY <1>0, <1>3, PermanentDeleteFacts DEF KeyOf, StepOf, Aim, Starts
  <2>2. QED
    BY <1>0, <1>3, <2>1, PermanentDeleteFacts, MarksType, StartTyped
<1>4. ASSUME NEW m \in Modules, UpdateModule(r, m)
      PROVE  Typed'
  <2>1. KeyOf(r)' /\ StepOf(r)'
    BY <1>0, <1>4, UpdateModuleFacts DEF KeyOf, StepOf, Aim, Starts
  <2>2. QED
    BY <1>0, <1>4, <2>1, UpdateModuleFacts, MarksType, StartTyped
<1>5. ASSUME NEW l \in Lessons, DeleteLesson(r, l)
      PROVE  Typed'
  <2>1. KeyOf(r)' /\ StepOf(r)'
    BY <1>0, <1>5, DeleteLessonFacts DEF KeyOf, StepOf, Aim, Starts
  <2>2. condemned' \subseteq Items \cup AttachmentKeys
    BY <1>0, <1>5, DeleteLessonFacts, MarksType
  <2>3. QED
    BY <1>0, <1>5, <2>1, <2>2, DeleteLessonFacts, MarksType, StartTyped
<1>6. ASSUME NEW l \in Lessons, UploadVideo(r, l)
      PROVE  Typed'
  <2>1. request'[r].item = l /\ request'[r].key = r /\ request'[r].pc = "put"
        /\ request'[r].next = "video"
    BY <1>6, UploadVideoFacts DEF Starts
  <2>2. KeyOf(r)'
    BY <2>1 DEF KeyOf, Owner
  <2>3. StepOf(r)'
    BY <1>0, <2>1 DEF StepOf, Aim
  <2>4. QED
    BY <1>0, <1>6, <2>2, <2>3, UploadVideoFacts, MarksType, StartTyped
<1>7. ASSUME NEW l \in Lessons, GetVideoUploadURL(r, l)
      PROVE  Typed'
  <2>1. request'[r].item = l /\ request'[r].key = r /\ request'[r].pc = "presigned"
    BY <1>7, GetVideoUploadURLFacts DEF Starts
  <2>2. KeyOf(r)'
    BY <2>1 DEF KeyOf, Owner
  <2>3. StepOf(r)'
    BY <1>0, <2>1 DEF StepOf, Aim
  <2>4. QED
    BY <1>0, <1>7, <2>2, <2>3, GetVideoUploadURLFacts, MarksType, StartTyped
<1>8. ASSUME NEW l \in Lessons, NEW k \in Keys, CompleteVideoUpload(r, l, k)
      PROVE  Typed'
  <2>1. PICK x \in Items : x = Owner(k)
    BY <1>8, CompleteVideoUploadFacts
  <2>2. /\ Starts(r, l) /\ k # r /\ Owner(k)' = x
        /\ request'[r].item = l /\ request'[r].key = k /\ request'[r].pc = "video"
    BY <1>8, <2>1, CompleteVideoUploadFacts DEF Starts
  <2>3. KeyOf(r)'
    <3>1. CASE IsPut(k, l)
      <4>1. request'[k] = request[k] /\ x = l
        BY <2>1, <2>2, <3>1 DEF Starts, Others, IsPut, Owner
      <4>2. QED
        BY <2>1, <2>2, <3>1, <4>1 DEF KeyOf, IsPut, At
    <3>2. CASE {l, x} \subseteq doubtful' /\ {Product(l), Product(x)} \subseteq untidy'
      <4>1. Astray(l)' /\ Astray(x)'
        BY <1>0, <3>2 DEF Astray
      <4>2. QED
        BY <2>2, <4>1 DEF KeyOf
    <3>3. QED
      BY <1>8, <2>1, <3>1, <3>2, CompleteVideoUploadFacts
  <2>4. StepOf(r)'
    BY <1>0, <2>2 DEF StepOf, Aim
  <2>5. QED
    BY <1>0, <1>8, <2>3, <2>4, CompleteVideoUploadFacts, MarksType, StartTyped
<1>9. ASSUME NEW l \in Lessons, NEW n \in Names, AddAttachment(r, l, n)
      PROVE  Typed'
  <2>1. PICK k \in AttachmentKeys : k = <<l, n>> /\ k[1] = l
    BY KeyType
  <2>2. request'[r].pc = "put" /\ request'[r].next = "attach" /\ request'[r].key = k
        /\ request'[r].item = l /\ request'[r].doomed = {}
    BY <1>9, <2>1, AddAttachmentFacts DEF Starts
  <2>3. KeyOf(r)' /\ StepOf(r)'
    BY <1>0, <2>1, <2>2, NameAssumption DEF KeyOf, StepOf, Aim, Owner
  <2>4. shared' \subseteq AttachmentKeys
    BY <1>9, <2>1, AddAttachmentFacts, MarksType
  <2>5. QED
    BY <1>0, <1>9, <2>3, <2>4, AddAttachmentFacts, MarksType, StartTyped
<1>10. ASSUME NEW k \in AttachmentKeys, DeleteAttachment(r, k)
       PROVE  Typed'
  <2>1. KeyOf(r)' /\ StepOf(r)'
    BY <1>0, <1>10, DeleteAttachmentFacts, NameAssumption DEF KeyOf, StepOf, Aim, Starts, Owner
  <2>2. shared' \subseteq AttachmentKeys /\ condemned' \subseteq Items \cup AttachmentKeys
    BY <1>10, DeleteAttachmentFacts, MarksType
  <2>3. QED
    BY <1>0, <1>10, <2>1, <2>2, DeleteAttachmentFacts, MarksType, StartTyped
<1>11. ASSUME NEW b \in Ebooks, NEW kind \in {"thumbnail", "file"}, NEW n \in Names,
              UploadEbook(r, b, kind, n)
       PROVE  Typed'
  <2>1. PICK k \in ProductKeys : k[1] = b /\ request'[r].key = k
    BY <1>11, UploadEbookFacts
  <2>2. request'[r].pc = "put" /\ request'[r].next = "read" /\ request'[r].key = k
        /\ request'[r].item = b /\ request'[r].doomed = {} /\ request'[r].column = kind
    BY <1>11, <2>1, UploadEbookFacts DEF Starts
  <2>3. KeyOf(r)' /\ StepOf(r)'
    BY <1>0, <2>1, <2>2, NameAssumption DEF KeyOf, StepOf, Aim, Owner
  <2>4. /\ Starts(r, b) /\ KeptTables /\ KeptMarks
        /\ UNCHANGED <<bought, objects, last, raced, faults>>
    BY <1>11, UploadEbookFacts
  <2>5. QED
    BY <1>0, <2>3, <2>4, MarksType, StartTyped
<1>12. ASSUME NEW b \in Ebooks, DeleteEbook(r, b)
       PROVE  Typed'
  <2>1. KeyOf(r)' /\ StepOf(r)'
    BY <1>0, <1>12, DeleteEbookFacts DEF KeyOf, StepOf, Aim, Starts, Products
  <2>2. condemned' \subseteq Items \cup AttachmentKeys
    BY <1>0, <1>12, DeleteEbookFacts, MarksType
  <2>3. QED
    BY <1>0, <1>12, <2>1, <2>2, DeleteEbookFacts, MarksType, StartTyped
<1>13. QED
  BY <1>1, <1>1a, <1>1b, <1>2, <1>3, <1>4, <1>5, <1>6, <1>7, <1>8, <1>9, <1>10, <1>11,
     <1>12 DEF Starting

LEMMA SteppingTyped ==
  ASSUME Typed, NEW r \in Requests, Stepping(r)
  PROVE  Typed'
<1>0. Products \subseteq Items /\ Lessons \subseteq Items /\ Modules \subseteq Items
      /\ Courses \subseteq Items
  BY DEF Items, Products
<1>g. Grows /\ SameItem(r)
  BY SteppingGrows
<1>1. CASE Count(r)
  <2>1. condemned' \subseteq Items \cup AttachmentKeys
    BY <1>0, <1>1, CountFacts, MarksType
  <2>2. Moves(r) /\ request'[r].pc \in {"done", "list", "purge"} /\ request[r].pc = "count"
        /\ request[r].item \in Courses
        /\ (request'[r].pc = "purge" => request'[r].next = "list")
    BY <1>1, CountFacts DEF Ends, Clears
  <2>3. TypeOK'
    BY <1>1, <2>1, <2>2, CountFacts DEF Typed, TypeOK, KeptTables, Moves
  <2>4. StepOf(r)
    BY DEF Typed
  <2>5. StepOf(r)'
    BY <1>0, <2>2, <2>4 DEF StepOf, Aim, Moves
  <2>6. QED
    BY <2>2, <2>3, <2>5, MovesTyped, <1>g, TypedBy
<1>2. CASE UpdateTitle(r)
  <2>1. Moves(r) /\ request'[r].pc \in {"done", "reorder"} /\ request[r].pc = "retitle"
        /\ request[r].item \in Modules
    BY <1>2, UpdateTitleFacts DEF Ends, Advances
  <2>2. row' \in [Items -> [Columns -> Values]] /\ last' \in [Items -> [Columns -> Values]]
    BY <1>2, UpdateTitleFacts DEF SetTo, Typed, TypeOK
  <2>3. TypeOK'
    BY <1>2, <2>1, <2>2, UpdateTitleFacts DEF Typed, TypeOK, KeptMarks, Moves
  <2>4. StepOf(r)
    BY DEF Typed
  <2>5. StepOf(r)'
    BY <1>0, <2>1, <2>4 DEF StepOf, Aim, Moves
  <2>6. QED
    BY <2>1, <2>3, <2>5, MovesTyped, <1>g, TypedBy
<1>3. CASE UpdateOrder(r)
  <2>1. row' \in [Items -> [Columns -> Values]] /\ last' \in [Items -> [Columns -> Values]]
    BY <1>3, UpdateOrderFacts DEF SetTo, Typed, TypeOK
  <2>2. TypeOK'
    BY <1>3, <2>1, UpdateOrderFacts DEF Typed, TypeOK, KeptMarks, Ends, Moves
  <2>3. Ends(r) /\ request[r].pc = "reorder"
    BY <1>3, UpdateOrderFacts
  <2>4. QED
    BY <2>2, <2>3, EndsTyped, <1>g, TypedBy
<1>4. CASE WriteVideo(r)
  <2>1. video' \in [Lessons -> Values] /\ untidy' \subseteq Products
    BY <1>4, WriteVideoFacts DEF Typed, TypeOK, SpoilsOne, SetVideo
  <2>2. /\ Moves(r) /\ request'[r].pc \in {"done", "purge"} /\ request[r].pc = "video"
        /\ request[r].item \in Lessons /\ request[r].key \in Keys
        /\ request'[r].pc = "purge" => request'[r].next = "done"
    BY <1>4, WriteVideoFacts DEF Ends, Clears
  <2>3. TypeOK'
    BY <1>4, <2>1, <2>2, WriteVideoFacts DEF Typed, TypeOK, KeptMarks, Moves
  <2>4. StepOf(r)
    BY DEF Typed
  <2>5. StepOf(r)'
    BY <1>0, <2>2, <2>4 DEF StepOf, Aim, Moves
  <2>6. QED
    BY <2>2, <2>3, <2>5, MovesTyped, <1>g, TypedBy
<1>5. CASE InsertAttachment(r)
  <2>1. attached' \in [AttachmentKeys -> Requests \cup {None}]
    BY <1>5, InsertAttachmentFacts DEF Typed, TypeOK, SetAttached
  <2>2. /\ Moves(r) /\ request'[r].pc \in {"done", "purge"} /\ request[r].pc = "attach"
        /\ request[r].key \in AttachmentKeys /\ request[r].key \in Keys
        /\ request'[r].pc = "purge" => request'[r].next = "done"
    BY <1>5, InsertAttachmentFacts, KeyType DEF Ends, Clears
  <2>2a. condemned' \subseteq Items \cup AttachmentKeys
    BY <1>5, InsertAttachmentFacts, MarksType
  <2>3. TypeOK'
    BY <1>5, <2>1, <2>2, <2>2a, InsertAttachmentFacts DEF Typed, TypeOK, Moves
  <2>4. StepOf(r)
    BY DEF Typed
  <2>5. StepOf(r)'
    BY <1>0, <2>2, <2>4 DEF StepOf, Aim, Moves
  <2>6. QED
    BY <2>2, <2>3, <2>5, MovesTyped, <1>g, TypedBy
<1>6. CASE DetachRow(r)
  <2>1. attached' \in [AttachmentKeys -> Requests \cup {None}]
    BY <1>6, DetachRowFacts DEF Typed, TypeOK, SetAttached
  <2>2. TypeOK'
    BY <1>6, <2>1, DetachRowFacts DEF Typed, TypeOK, Ends, Moves
  <2>3. Ends(r) /\ request[r].pc = "detach"
    BY <1>6, DetachRowFacts
  <2>4. QED
    BY <2>2, <2>3, EndsTyped, <1>g, TypedBy
<1>6a. CASE SetThumbnail(r)
  <2>1. /\ Moves(r) /\ request'[r].pc \in {"done", "purge"} /\ request[r].pc = "picture"
        /\ request[r].key \in Keys /\ request[r].item \in Courses
        /\ request'[r].pc = "purge" => request'[r].next = "done"
    BY <1>6a, SetThumbnailFacts, KeyType DEF Clears
  <2>2. /\ row' \in [Items -> [Columns -> Values]] /\ last' \in [Items -> [Columns -> Values]]
        /\ raced' \subseteq Items /\ doubtful' \subseteq Items /\ untidy' \subseteq Products
    BY <1>0, <1>6a, SetThumbnailFacts DEF Typed, TypeOK, SetTo, SpoilsOne
  <2>3. UNCHANGED <<rows, born, video, attached, bought, objects, condemned, shared, lateOrder>>
    BY <1>6a, SetThumbnailFacts
  <2>4. TypeOK'
    BY <1>6a, <2>1, <2>2, <2>3, SetThumbnailFacts DEF Typed, TypeOK, Moves
  <2>5. StepOf(r)
    BY DEF Typed
  <2>6. StepOf(r)'
    BY <1>0, <2>1, <2>5 DEF StepOf, Aim, Moves
  <2>7. QED
    BY <2>1, <2>4, <2>6, MovesTyped, <1>g, TypedBy
<1>7. CASE ReadEbook(r)
  <2>1. /\ Moves(r) /\ request'[r].pc \in {"done", "write"} /\ request[r].pc = "read"
        /\ request[r].item \in Ebooks /\ untidy' \subseteq Products
    BY <1>7, ReadEbookFacts DEF Ends, SpoilsOne
  <2>2. TypeOK'
    BY <1>7, <2>1, ReadEbookFacts DEF Typed, TypeOK, KeptTables, KeptMarks, Moves
  <2>3. StepOf(r)
    BY DEF Typed
  <2>4. StepOf(r)'
    BY <1>0, <2>1, <2>3 DEF StepOf, Aim, Moves, Products
  <2>5. QED
    BY <2>1, <2>2, <2>4, MovesTyped, <1>g, TypedBy
<1>8. CASE WriteColumns(r)
  <2>1. /\ row' \in [Items -> [Columns -> Values]] /\ last' \in [Items -> [Columns -> Values]]
        /\ raced' \subseteq Items /\ untidy' \subseteq Products
    BY <1>0, <1>8, WriteColumnsFacts DEF Typed, TypeOK, SpoilsOne
  <2>2. Ends(r) /\ request[r].pc = "write"
    BY <1>8, WriteColumnsFacts
  <2>3. UNCHANGED <<rows, born, video, attached, bought, objects, faults>> /\ KeptMarks
    BY <1>8, WriteColumnsFacts
  <2>4. TypeOK'
    BY <2>1, <2>2, <2>3 DEF Typed, TypeOK, KeptMarks, Ends, Moves
  <2>5. QED
    BY <2>2, <2>4, EndsTyped, <1>g, TypedBy
<1>9. CASE Put(r)
  <2>1. TypeOK'
    BY <1>9, PutFacts DEF Typed, TypeOK, KeptTables, KeptMarks, Advances, Moves
  <2>2. /\ Moves(r) /\ request[r].pc = "put"
        /\ request[r].next \in {"video", "attach", "read", "picture"}
        /\ request'[r].pc = request[r].next /\ request'[r].column = request[r].column
    BY <1>9, PutFacts DEF Advances
  <2>3. StepOf(r)
    BY DEF Typed
  <2>4. StepOf(r)'
    BY <1>0, <2>2, <2>3 DEF StepOf, Aim, Moves
  <2>5. QED
    BY <2>1, <2>2, <2>4, MovesTyped, <1>g, TypedBy
<1>10. CASE Purge(r)
  <2>1. objects' \subseteq Keys /\ untidy' \subseteq Products
    BY <1>10, PurgeFacts DEF Typed, TypeOK, SpoilsOne
  <2>2. /\ Moves(r) /\ request[r].pc = "purge" /\ request'[r].id = request[r].id
        /\ request'[r].next = request[r].next
        /\ request'[r].pc \in {"purge", request[r].next}
    BY <1>10, PurgeFacts DEF Clears
  <2>3. TypeOK'
    BY <1>10, <2>1, <2>2, PurgeFacts DEF Typed, TypeOK, KeptTables, KeptMarks, Moves
  <2>4. StepOf(r)
    BY DEF Typed
  <2>5. StepOf(r)'
    BY <1>0, <2>2, <2>4 DEF StepOf, Aim, Moves
  <2>6. QED
    BY <2>2, <2>3, <2>5, MovesTyped, <1>g, TypedBy
<1>11. CASE List(r)
  <2>1. /\ Moves(r) /\ request[r].pc = "list" /\ request[r].item \in Courses \cup Lessons
        /\ request'[r].pc \in {"purge", "delete"} /\ untidy' \subseteq Products
        /\ request'[r].pc = "purge" => request'[r].next = "delete"
    BY <1>11, ListFacts DEF Clears, Advances, Typed, TypeOK, SpoilsOne
  <2>2. TypeOK'
    BY <1>11, <2>1, ListFacts DEF Typed, TypeOK, KeptTables, KeptMarks, Moves
  <2>3. StepOf(r)
    BY DEF Typed
  <2>4. StepOf(r)'
    BY <1>0, <2>1, <2>3 DEF StepOf, Aim, Moves, Products
  <2>5. QED
    BY <2>1, <2>2, <2>4, MovesTyped, <1>g, TypedBy
<1>12. CASE DeleteRow(r)
  <2>1. /\ row' \in [Items -> [Columns -> Values]] /\ last' \in [Items -> [Columns -> Values]]
        /\ video' \in [Lessons -> Values]
        /\ attached' \in [AttachmentKeys -> Requests \cup {None}]
        /\ rows' \subseteq rows /\ born' = born
    BY <1>12, DeleteRowFacts DEF Typed, TypeOK, Removes, KeptTables
  <2>2. TypeOK'
    BY <1>12, <2>1, DeleteRowFacts DEF Typed, TypeOK, KeptMarks, Ends, Moves
  <2>3. Ends(r) /\ request[r].pc = "delete"
    BY <1>12, DeleteRowFacts
  <2>4. QED
    BY <2>2, <2>3, EndsTyped, <1>g, TypedBy
<1>13. CASE ClientPut(r)
  <2>1. r \in Keys
    BY KeyType
  <2>2. TypeOK'
    BY <1>13, <2>1, ClientPutFacts DEF Typed, TypeOK, KeptTables, KeptMarks, Advances, Moves
  <2>3. /\ Moves(r) /\ request[r].pc = "presigned" /\ request'[r].pc = "uploaded"
        /\ request[r].key = r
    BY <1>13, ClientPutFacts DEF Advances
  <2>4. StepOf(r)
    BY DEF Typed
  <2>5. StepOf(r)'
    BY <1>0, <2>3, <2>4, NameAssumption DEF StepOf, Aim, Moves
  <2>6. QED
    BY <2>2, <2>3, <2>5, MovesTyped, <1>g, TypedBy
<1>14. CASE Fail(r)
  <2>1. TypeOK'
    BY <1>14, FailFacts DEF Typed, TypeOK, KeptTables, KeptMarks, Ends, Moves, SpoilsOne
  <2>2. Ends(r) /\ request[r].pc \notin {"new", "uploaded"}
    BY <1>14, FailFacts DEF Active
  <2>3. QED
    BY <2>1, <2>2, EndsTyped, <1>g, TypedBy
<1>15. QED
  BY <1>1, <1>2, <1>3, <1>4, <1>5, <1>6, <1>6a, <1>7, <1>8, <1>9, <1>10, <1>11, <1>12, <1>13, <1>14
     DEF Stepping

LEMMA SameRequestsTyped ==
  ASSUME Typed, TypeOK', request' = request, Grows
  PROVE  Typed'
<1>1. ASSUME NEW r \in Requests
      PROVE  KeyOf(r)' /\ StepOf(r)'
  <2>1. KeyOf(r) /\ StepOf(r)
    BY DEF Typed
  <2>2. StepOf(r)'
    BY <2>1 DEF StepOf, Aim
  <2>3. KeyOf(r)'
    BY <2>1 DEF KeyOf, Owner, At, Astray, Grows
  <2>4. QED
    BY <2>2, <2>3
<1>2. QED
  BY <1>1 DEF Typed

LEMMA TypedInit ==
  ASSUME Init
  PROVE  Typed
<1>1. \A r \in Requests : request[r] = Fresh
  BY DEF Init
<1>2. Blank \in [Columns -> Values]
  BY DEF Blank, Values
<1>3. TypeOK
  <2>1. row \in [Items -> [Columns -> Values]] /\ last \in [Items -> [Columns -> Values]]
    BY <1>2 DEF Init
  <2>2. request \in [Requests -> RequestStates] /\ faults \in 0 .. MaxFaults
    BY FreshType, BoundAssumption DEF Init
  <2>3. video \in [Lessons -> Values] /\ attached \in [AttachmentKeys -> Requests \cup {None}]
    BY DEF Init, Values
  <2>4. QED
    BY <2>1, <2>2, <2>3 DEF Init, TypeOK
<1>4. \A r \in Requests : KeyOf(r) /\ StepOf(r)
  BY <1>1, FreshType, KeyType DEF KeyOf, StepOf, Aim
<1>5. QED
  BY <1>3, <1>4 DEF Typed

LEMMA TypedNext ==
  ASSUME Typed, [Next]_vars
  PROVE  Typed'
<1>0. Courses \subseteq Items /\ Modules \subseteq Items
  BY DEF Items, Products
<1>1. ASSUME NEW x \in Items, Insert(x)
      PROVE  Typed'
  <2>1. TypeOK' /\ request' = request /\ Grows
    BY <1>1, InsertFacts DEF Typed, TypeOK, KeptMarks, Grows
  <2>2. QED
    BY <2>1, SameRequestsTyped
<1>2. ASSUME NEW m \in Modules, DeleteModule(m)
      PROVE  Typed'
  <2>1. /\ row' \in [Items -> [Columns -> Values]] /\ last' \in [Items -> [Columns -> Values]]
        /\ video' \in [Lessons -> Values]
        /\ attached' \in [AttachmentKeys -> Requests \cup {None}]
        /\ rows' \subseteq rows /\ born' = born
    BY <1>2, DeleteModuleFacts DEF Removes
  <2>2. TypeOK' /\ request' = request /\ Grows
    BY <1>2, <2>1, DeleteModuleFacts DEF Typed, TypeOK, KeptMarks, Grows
  <2>3. QED
    BY <2>2, SameRequestsTyped
<1>4. ASSUME NEW p \in Products, Buy(p)
      PROVE  Typed'
  <2>1. TypeOK' /\ request' = request /\ Grows
    BY <1>4, BuyFacts DEF Typed, TypeOK, KeptTables, Grows
  <2>2. QED
    BY <2>1, SameRequestsTyped
<1>5. CASE UNCHANGED vars
  <2>1. TypeOK' /\ request' = request /\ Grows
    BY <1>5 DEF Typed, TypeOK, vars, tables, marks, Grows
  <2>2. QED
    BY <2>1, SameRequestsTyped
<1>6. QED
  BY <1>1, <1>2, <1>4, <1>5, StartingTyped, SteppingTyped, NextActions

\* The state is well typed, and every request is about what its step calls for.
THEOREM TypeCorrect == Spec => []TypeOK
<1>1. Init => Typed
  BY TypedInit
<1>2. Typed /\ [Next]_vars => Typed'
  BY TypedNext
<1>3. Typed => TypeOK
  BY DEF Typed
<1>4. QED
  BY <1>1, <1>2, <1>3, PTL DEF Spec

(***************************************************************************)
(* Courses that somebody bought                                            *)
(***************************************************************************)
LEMMA SoldNext ==
  ASSUME Typed, SoldCoursesIntact, [Next]_vars
  PROVE  SoldCoursesIntact'
<1>0. /\ Lessons \cap Courses = {} /\ Ebooks \cap Courses = {} /\ AttachmentKeys \cap Courses = {}
      /\ lateOrder \subseteq lateOrder
  BY NameAssumption DEF Products, Items
<1>1. CASE \E x \in Items : Insert(x)
  BY <1>1, InsertFacts DEF SoldCoursesIntact, KeptMarks
<1>2. CASE \E m \in Modules : DeleteModule(m)
  BY <1>2, DeleteModuleFacts DEF SoldCoursesIntact, KeptMarks
<1>4. CASE \E p \in Products : Buy(p)
  BY <1>4, BuyFacts DEF SoldCoursesIntact
<1>5. ASSUME NEW r \in Requests, Starting(r)
      PROVE  bought' = bought /\ lateOrder' = lateOrder
             /\ condemned' \cap Courses = condemned \cap Courses
  <2>1. ASSUME NEW x \in Products \cup Lessons, NEW column \in {"title", "setting"},
               EditRow(r, x, column)
        PROVE  bought' = bought /\ KeptMarks
    BY <2>1, EditRowFacts
  <2>2. ASSUME NEW c \in Courses, LinkPicture(r, c) \/ SoftDelete(r, c) \/ PermanentDelete(r, c)
        PROVE  bought' = bought /\ KeptMarks
    BY <2>2, LinkPictureFacts, SoftDeleteFacts, PermanentDeleteFacts
  <2>2a. ASSUME NEW c \in Courses, NEW n \in Names, QueueThumbnailUpdate(r, c, n)
         PROVE  bought' = bought /\ KeptMarks
    BY <2>2a, QueueThumbnailUpdateFacts
  <2>3. ASSUME NEW m \in Modules, UpdateModule(r, m)
        PROVE  bought' = bought /\ KeptMarks
    BY <2>3, UpdateModuleFacts
  <2>4. ASSUME NEW l \in Lessons, DeleteLesson(r, l)
        PROVE  bought' = bought /\ lateOrder' = lateOrder /\ condemned' = condemned \cup {l}
    BY <2>4, DeleteLessonFacts
  <2>5. ASSUME NEW l \in Lessons, UploadVideo(r, l) \/ GetVideoUploadURL(r, l)
        PROVE  bought' = bought /\ KeptMarks
    BY <2>5, UploadVideoFacts, GetVideoUploadURLFacts
  <2>6. ASSUME NEW l \in Lessons, NEW k \in Keys, CompleteVideoUpload(r, l, k)
        PROVE  bought' = bought /\ lateOrder' = lateOrder /\ condemned' = condemned
    BY <2>6, CompleteVideoUploadFacts
  <2>7. ASSUME NEW l \in Lessons, NEW n \in Names, AddAttachment(r, l, n)
        PROVE  bought' = bought /\ lateOrder' = lateOrder /\ condemned' = condemned
    BY <2>7, AddAttachmentFacts
  <2>8. ASSUME NEW k \in AttachmentKeys, DeleteAttachment(r, k)
        PROVE  bought' = bought /\ lateOrder' = lateOrder /\ condemned' = condemned \cup {k}
    BY <2>8, DeleteAttachmentFacts
  <2>9. ASSUME NEW b \in Ebooks, NEW kind \in {"thumbnail", "file"}, NEW n \in Names,
               UploadEbook(r, b, kind, n)
        PROVE  bought' = bought /\ KeptMarks
    BY <2>9, UploadEbookFacts
  <2>10. ASSUME NEW b \in Ebooks, DeleteEbook(r, b)
         PROVE  bought' = bought /\ lateOrder' = lateOrder /\ condemned' = condemned \cup {b}
    BY <2>10, DeleteEbookFacts
  <2>11. QED
    BY <1>0, <1>5, <2>1, <2>2, <2>2a, <2>3, <2>4, <2>5, <2>6, <2>7, <2>8, <2>9, <2>10
       DEF Starting, KeptMarks
<1>6. ASSUME NEW r \in Requests, Stepping(r)
      PROVE  SoldCoursesIntact'
  <2>1. CASE Count(r)
    BY <2>1, CountFacts DEF SoldCoursesIntact
  <2>2. CASE DetachRow(r)
    BY <2>2, DetachRowFacts DEF SoldCoursesIntact
  <2>2a. CASE InsertAttachment(r)
    <3>1. /\ bought' = bought /\ lateOrder' = lateOrder
          /\ condemned' \cap Courses = condemned \cap Courses
      BY <1>0, <2>2a, InsertAttachmentFacts
    <3>2. QED
      BY <3>1 DEF SoldCoursesIntact
  <2>2b. CASE SetThumbnail(r)
    BY <2>2b, SetThumbnailFacts DEF SoldCoursesIntact
  <2>3. CASE ~Count(r) /\ ~DetachRow(r) /\ ~InsertAttachment(r) /\ ~SetThumbnail(r)
    <3>1. bought' = bought /\ KeptMarks
      BY <1>6, <2>3, UpdateTitleFacts, UpdateOrderFacts, WriteVideoFacts, ReadEbookFacts,
         WriteColumnsFacts, PutFacts, PurgeFacts, ListFacts, DeleteRowFacts,
         ClientPutFacts, FailFacts DEF Stepping
    <3>2. QED
      BY <3>1 DEF SoldCoursesIntact, KeptMarks
  <2>4. QED
    BY <2>1, <2>2, <2>2a, <2>2b, <2>3
<1>7. CASE UNCHANGED vars
  BY <1>7 DEF SoldCoursesIntact, vars, marks
<1>8. QED
  BY <1>1, <1>2, <1>4, <1>5, <1>6, <1>7, NextActions DEF SoldCoursesIntact

\* No file of a course that somebody bought is deleted with the course, unless
\* the order came after the purchases were counted.
THEOREM SoldCorrect == Spec => []SoldCoursesIntact
<1>1. Init => Typed /\ SoldCoursesIntact
  BY TypedInit DEF Init, SoldCoursesIntact
<1>2. Typed /\ SoldCoursesIntact /\ [Next]_vars => (Typed /\ SoldCoursesIntact)'
  BY TypedNext, SoldNext
<1>3. QED
  BY <1>1, <1>2, PTL DEF Spec

(***************************************************************************)
(* The columns                                                             *)
(***************************************************************************)
\* Rows that do not exist say nothing.
Unwritten ==
  /\ \A x \in Items \ rows : row[x] = Blank /\ last[x] = Blank
  /\ \A l \in Lessons \ rows : video[l] = None
  /\ \A k \in AttachmentKeys : k[1] \notin rows => attached[k] = None

PicturesOf(x) == {k \in ProductKeys : k[1] = x} \cup {None}
FilesOf(x)    == IF x \in Courses THEN {None} ELSE PicturesOf(x)

\* What the columns of x may name.
Owns(x, rw) ==
  IF x \in Products THEN rw["thumbnail"] \in PicturesOf(x) /\ rw["file"] \in FilesOf(x)
                    ELSE rw["thumbnail"] = None /\ rw["file"] = None

RowsOwn == \A x \in Items : Owns(x, row[x])

\* A request about to write a row that nobody else touched has it as it is.
ReadBack(r) == LET q == request[r] IN
  q.pc = "write" =>
    /\ q.item \in born /\ Owns(q.item, q.row)
    /\ q.item \in rows \ raced => \A c \in Columns : c # q.column => q.row[c] = row[q.item][c]

Kept == Unwritten /\ RowsOwn /\ RowsKept /\ \A r \in Requests : ReadBack(r)

LEMMA SetOwns ==
  ASSUME Typed, RowsOwn, NEW x \in Items, NEW column \in Columns, NEW value \in Values,
         SetTo(x, column, value),
         column \in {"title", "setting"} \/ (column = "thumbnail" /\ value \in PicturesOf(x)
                                                                   /\ x \in Courses)
  PROVE  RowsOwn'
<1>1. ASSUME NEW y \in Items
      PROVE  Owns(y, row'[y])
  <2>1. "thumbnail" \in Columns /\ "file" \in Columns /\ Owns(y, row[y])
    BY DEF Columns, RowsOwn
  <2>2. CASE y # x
    BY <2>1, <2>2 DEF SetTo
  <2>3. CASE y = x /\ column \in {"title", "setting"}
    BY <2>1, <2>3 DEF SetTo, Owns
  <2>4. CASE y = x /\ x \in Courses /\ column = "thumbnail" /\ value \in PicturesOf(x)
    BY <2>1, <2>4 DEF SetTo, Owns, Products
  <2>5. QED
    BY <2>2, <2>3, <2>4
<1>2. QED
  BY <1>1 DEF RowsOwn

LEMMA SetKeeps ==
  ASSUME Typed, RowsKept, Unwritten, NEW x \in rows, NEW column \in Columns, NEW value \in Values,
         SetTo(x, column, value), UNCHANGED <<rows, video, attached>>, raced \subseteq raced'
  PROVE  RowsKept' /\ Unwritten'
<1>1. x \in Items
  BY DEF Typed, TypeOK
<1>2. ASSUME NEW y \in rows, y \notin raced
      PROVE  row'[y] = last'[y]
  <2>1. row[y] = last[y] /\ y \in Items
    BY <1>2 DEF RowsKept, Typed, TypeOK
  <2>2. CASE y # x
    BY <2>1, <2>2 DEF SetTo
  <2>3. CASE y = x
    <3>1. row'[x] \in [Columns -> Values] /\ last'[x] \in [Columns -> Values]
      BY <1>1 DEF SetTo
    <3>2. \A c \in Columns : row'[x][c] = last'[x][c]
      BY <2>1, <2>3 DEF SetTo
    <3>3. QED
      BY <2>3, <3>1, <3>2
  <2>4. QED
    BY <2>2, <2>3
<1>3. RowsKept'
  BY <1>2 DEF RowsKept
<1>4. Unwritten'
  BY DEF Unwritten, SetTo
<1>5. QED
  BY <1>3, <1>4

LEMMA BlankOwns ==
  /\ \A x \in Items : Owns(x, Blank)
  /\ Blank \in [Columns -> Values]
<1>1. Blank["thumbnail"] = None /\ Blank["file"] = None /\ Blank \in [Columns -> Values]
  BY DEF Blank, Columns, Values
<1>2. QED
  BY <1>1 DEF Owns, PicturesOf, FilesOf

LEMMA RemoveKeeps ==
  ASSUME Typed, Kept, NEW x \in Items, Removes(x), raced' = raced
  PROVE  /\ Unwritten' /\ RowsOwn' /\ RowsKept'
         /\ \A q \in Requests : request'[q] = request[q] => ReadBack(q)'
<1>1. Unwritten'
  <2>1. \A k \in AttachmentKeys : k[1] \in Items
    BY KeyType DEF Items
  <2>2. \A y \in Items \ rows' : row'[y] = Blank /\ last'[y] = Blank
    BY DEF Unwritten, Removes, Kept
  <2>3. \A l \in Lessons \ rows' : video'[l] = None
    BY DEF Unwritten, Removes, Kept
  <2>4. \A k \in AttachmentKeys : k[1] \notin rows' => attached'[k] = None
    BY <2>1 DEF Unwritten, Removes, Kept
  <2>5. QED
    BY <2>2, <2>3, <2>4 DEF Unwritten
<1>2. RowsOwn'
  <2>1. ASSUME NEW y \in Items
        PROVE  Owns(y, row'[y])
    BY BlankOwns DEF Removes, Kept, RowsOwn
  <2>2. QED
    BY <2>1 DEF RowsOwn
<1>3. RowsKept'
  BY DEF RowsKept, Removes, Kept, Typed, TypeOK
<1>4. ASSUME NEW q \in Requests, request'[q] = request[q]
      PROVE  ReadBack(q)'
  <2>1. ReadBack(q) /\ rows' \subseteq rows /\ born' = born
    BY DEF Kept, Removes
  <2>2. request[q].item \in rows' => row'[request[q].item] = row[request[q].item]
    BY DEF Removes, Typed, TypeOK
  <2>3. QED
    BY <1>4, <2>1, <2>2 DEF ReadBack
<1>5. QED
  BY <1>1, <1>2, <1>3, <1>4

\* When the tables stay, only a request that is now about to write matters.
LEMMA KeptTablesKeep ==
  ASSUME Typed, Kept, KeptTables, UNCHANGED <<last, raced>>, NEW r \in Requests, Others(r),
         ReadBack(r)'
  PROVE  Kept'
<1>1. Unwritten' /\ RowsOwn' /\ RowsKept'
  BY DEF Kept, KeptTables, Unwritten, RowsOwn, RowsKept
<1>2. \A q \in Requests : ReadBack(q)'
  BY DEF Kept, KeptTables, ReadBack, Others
<1>3. QED
  BY <1>1, <1>2 DEF Kept

LEMMA NotWriting ==
  ASSUME NEW r \in Requests, request'[r].pc # "write"
  PROVE  ReadBack(r)'
BY DEF ReadBack

LEMMA ReadBackOthers ==
  ASSUME Typed, Kept, NEW q \in Requests, request'[q] = request[q], UNCHANGED <<rows, born>>,
         raced \subseteq raced',
         request[q].pc = "write" /\ request[q].item \in rows \ raced'
           => row'[request[q].item] = row[request[q].item]
  PROVE  ReadBack(q)'
BY DEF Kept, ReadBack

LEMMA StartingKept ==
  ASSUME Typed, Kept, NEW r \in Requests, Starting(r)
  PROVE  Kept'
<1>1. ASSUME NEW x \in Products \cup Lessons, NEW column \in {"title", "setting"}, x \in rows,
             EditRow(r, x, column)
      PROVE  Kept'
  <2>1. /\ KeptTables /\ UNCHANGED <<last, raced>> /\ Others(r)
        /\ request'[r].pc = "write" /\ request'[r].item = x /\ request'[r].column = column
        /\ \A c \in Columns : c # column => request'[r].row[c] = row[x][c]
    BY <1>1, EditRowFacts DEF Starts
  <2>2. x \in born /\ Owns(x, row[x]) /\ "thumbnail" \in Columns /\ "file" \in Columns
    BY <1>1 DEF Typed, TypeOK, Kept, RowsOwn, Items, Columns
  <2>3. Owns(x, request'[r].row)
    BY <2>1, <2>2 DEF Owns
  <2>4. ReadBack(r)'
    BY <2>1, <2>2, <2>3 DEF ReadBack, KeptTables
  <2>5. QED
    BY <2>1, <2>4, KeptTablesKeep
<1>2. ASSUME NEW c \in Courses, SoftDelete(r, c)
      PROVE  Kept'
  <2>1. /\ c \in rows /\ SetTo(c, "setting", r) /\ Others(r) /\ request'[r].pc = "done"
        /\ raced' = (IF InHand(r, c) THEN raced \cup {c} ELSE raced)
        /\ UNCHANGED <<rows, born, video, attached>>
    BY <1>2, SoftDeleteFacts
  <2>2. c \in Items /\ r \in Values /\ "setting" \in Columns
    BY KeyType DEF Items, Products, Columns
  <2>3. RowsOwn'
    BY <2>1, <2>2, SetOwns DEF Kept
  <2>4. RowsKept' /\ Unwritten'
    BY <2>1, <2>2, SetKeeps DEF Kept
  <2>5. ASSUME NEW q \in Requests, q # r
        PROVE  ReadBack(q)'
    <3>1. request'[q] = request[q]
      BY <2>1, <2>5 DEF Others
    <3>2. ASSUME request[q].pc = "write", request[q].item \in rows \ raced'
          PROVE  row'[request[q].item] = row[request[q].item]
      BY <2>1, <2>5, <3>2 DEF InHand, At, SetTo, Typed, TypeOK
    <3>3. QED
      BY <2>1, <3>1, <3>2, ReadBackOthers
  <2>6. ReadBack(r)'
    BY <2>1, NotWriting
  <2>7. QED
    BY <2>3, <2>4, <2>5, <2>6 DEF Kept
<1>2a. ASSUME NEW c \in Courses, LinkPicture(r, c), c \in rows
       PROVE  Kept'
  <2>1. /\ KeptTables /\ UNCHANGED <<last, raced>> /\ Others(r)
        /\ request'[r].pc = "write" /\ request'[r].item = c /\ request'[r].column = "thumbnail"
        /\ request'[r].row["thumbnail"] = None
        /\ \A col \in Columns : col # "thumbnail" => request'[r].row[col] = row[c][col]
    BY <1>2a, LinkPictureFacts DEF Starts
  <2>2. c \in born /\ Owns(c, row[c]) /\ "thumbnail" \in Columns /\ "file" \in Columns
        /\ None \in PicturesOf(c)
    BY <1>2a DEF Typed, TypeOK, Kept, RowsOwn, Columns, PicturesOf
  <2>3. Owns(c, request'[r].row)
    BY <2>1, <2>2 DEF Owns
  <2>4. ReadBack(r)'
    BY <2>1, <2>2, <2>3 DEF ReadBack, KeptTables
  <2>5. QED
    BY <2>1, <2>4, KeptTablesKeep
<1>2b. ASSUME NEW c \in Courses, NEW n \in Names, QueueThumbnailUpdate(r, c, n)
       PROVE  KeptTables /\ UNCHANGED <<last, raced>> /\ Others(r) /\ request'[r].pc # "write"
  BY <1>2b, QueueThumbnailUpdateFacts DEF Starts
<1>3. ASSUME NEW m \in Modules, UpdateModule(r, m)
      PROVE  KeptTables /\ UNCHANGED <<last, raced>> /\ Others(r) /\ request'[r].pc # "write"
  BY <1>3, UpdateModuleFacts DEF Starts
<1>4. ASSUME NEW c \in Courses, PermanentDelete(r, c)
      PROVE  KeptTables /\ UNCHANGED <<last, raced>> /\ Others(r) /\ request'[r].pc # "write"
  BY <1>4, PermanentDeleteFacts DEF Starts
<1>5. ASSUME NEW l \in Lessons, DeleteLesson(r, l)
      PROVE  KeptTables /\ UNCHANGED <<last, raced>> /\ Others(r) /\ request'[r].pc # "write"
  BY <1>5, DeleteLessonFacts DEF Starts
<1>6. ASSUME NEW l \in Lessons, UploadVideo(r, l) \/ GetVideoUploadURL(r, l)
      PROVE  KeptTables /\ UNCHANGED <<last, raced>> /\ Others(r) /\ request'[r].pc # "write"
  BY <1>6, UploadVideoFacts, GetVideoUploadURLFacts DEF Starts
<1>7. ASSUME NEW l \in Lessons, NEW k \in Keys, CompleteVideoUpload(r, l, k)
      PROVE  KeptTables /\ UNCHANGED <<last, raced>> /\ Others(r) /\ request'[r].pc # "write"
  BY <1>7, CompleteVideoUploadFacts DEF Starts
<1>8. ASSUME NEW l \in Lessons, NEW n \in Names, AddAttachment(r, l, n)
      PROVE  KeptTables /\ UNCHANGED <<last, raced>> /\ Others(r) /\ request'[r].pc # "write"
  BY <1>8, AddAttachmentFacts DEF Starts
<1>9. ASSUME NEW k \in AttachmentKeys, DeleteAttachment(r, k)
      PROVE  KeptTables /\ UNCHANGED <<last, raced>> /\ Others(r) /\ request'[r].pc # "write"
  BY <1>9, DeleteAttachmentFacts DEF Starts
<1>10. ASSUME NEW b \in Ebooks, NEW kind \in {"thumbnail", "file"}, NEW n \in Names,
              UploadEbook(r, b, kind, n)
       PROVE  KeptTables /\ UNCHANGED <<last, raced>> /\ Others(r) /\ request'[r].pc # "write"
  BY <1>10, UploadEbookFacts DEF Starts
<1>11. ASSUME NEW b \in Ebooks, DeleteEbook(r, b)
       PROVE  KeptTables /\ UNCHANGED <<last, raced>> /\ Others(r) /\ request'[r].pc # "write"
  BY <1>11, DeleteEbookFacts DEF Starts
<1>12. KeptTables /\ UNCHANGED <<last, raced>> /\ Others(r) /\ request'[r].pc # "write" => Kept'
  BY NotWriting, KeptTablesKeep
<1>13. QED
  BY <1>1, <1>2, <1>2a, <1>2b, <1>3, <1>4, <1>5, <1>6, <1>7, <1>8, <1>9, <1>10, <1>11,
     <1>12 DEF Starting

LEMMA SteppingKept ==
  ASSUME Typed, Kept, NEW r \in Requests, Stepping(r)
  PROVE  Kept'
<1>0. Products \subseteq Items /\ Lessons \subseteq Items /\ Modules \subseteq Items
      /\ Modules \cap (Products \cup Lessons) = {}
  BY NameAssumption DEF Items
<1>1. CASE UpdateTitle(r) \/ UpdateOrder(r)
  <2>1. /\ Others(r) /\ request'[r].pc # "write" /\ request[r].item \in Modules
        /\ UNCHANGED <<rows, born, video, attached, raced>>
        /\ \/ \E column \in {"title", "setting"} :
                request[r].item \in rows /\ SetTo(request[r].item, column, r)
           \/ UNCHANGED <<row, last>>
    BY <1>1, UpdateTitleFacts, UpdateOrderFacts DEF Ends, Moves, Advances
  <2>2. CASE UNCHANGED <<row, last>>
    BY <2>1, <2>2, NotWriting, KeptTablesKeep DEF KeptTables
  <2>3. ASSUME NEW column \in {"title", "setting"}, request[r].item \in rows,
               SetTo(request[r].item, column, r)
        PROVE  Kept'
    <3>1. r \in Values /\ column \in Columns
      BY KeyType DEF Columns
    <3>2. RowsOwn' /\ RowsKept' /\ Unwritten'
      BY <1>0, <2>1, <2>3, <3>1, SetOwns, SetKeeps DEF Kept
    <3>3. ASSUME NEW q \in Requests, q # r
          PROVE  ReadBack(q)'
      <4>1. request'[q] = request[q]
        BY <2>1, <3>3 DEF Others
      <4>2. request[q].pc = "write" => request[q].item \in Products \cup Lessons
        BY RequestFacts DEF StepOf, Aim
      <4>3. request[q].pc = "write" => row'[request[q].item] = row[request[q].item]
        BY <1>0, <2>1, <2>3, <4>2 DEF SetTo
      <4>4. QED
        BY <2>1, <4>1, <4>3, ReadBackOthers
    <3>4. QED
      BY <2>1, <3>2, <3>3, NotWriting DEF Kept
  <2>4. QED
    BY <2>1, <2>2, <2>3
<1>2. CASE WriteVideo(r)
  <2>1. /\ Others(r) /\ request'[r].pc # "write"
        /\ UNCHANGED <<rows, born, row, attached, last, raced>>
    BY <1>2, WriteVideoFacts DEF Ends, Moves, Clears
  <2>2. Unwritten'
    BY <1>2, <2>1, WriteVideoFacts DEF Unwritten, SetVideo, Kept
  <2>3. RowsOwn' /\ RowsKept' /\ \A q \in Requests \ {r} : ReadBack(q)'
    BY <2>1, ReadBackOthers DEF RowsOwn, RowsKept, Kept, Others
  <2>4. QED
    BY <2>1, <2>2, <2>3, NotWriting DEF Kept
<1>3. CASE InsertAttachment(r) \/ DetachRow(r)
  <2>1. /\ Others(r) /\ request'[r].pc # "write"
        /\ UNCHANGED <<rows, born, row, video, last, raced>>
    BY <1>3, InsertAttachmentFacts, DetachRowFacts DEF Ends, Moves, Clears
  <2>2. ASSUME NEW k \in AttachmentKeys, k[1] \notin rows
        PROVE  attached'[k] = None
    <3>1. attached[k] = None
      BY <2>2 DEF Kept, Unwritten
    <3>2. QED
      BY <1>3, <2>2, <3>1, InsertAttachmentFacts, DetachRowFacts DEF SetAttached
  <2>3. Unwritten'
    BY <2>1, <2>2 DEF Unwritten, Kept
  <2>4. RowsOwn' /\ RowsKept' /\ \A q \in Requests \ {r} : ReadBack(q)'
    BY <2>1, ReadBackOthers DEF RowsOwn, RowsKept, Kept, Others
  <2>5. QED
    BY <2>1, <2>3, <2>4, NotWriting DEF Kept
<1>3a. CASE SetThumbnail(r)
  <2>1. PICK c \in Courses, k \in ProductKeys : c = request[r].item /\ k = request[r].key /\ k[1] = c
    BY <1>3a, SetThumbnailFacts
  <2>2. /\ Others(r) /\ UNCHANGED <<rows, born, video, attached>>
        /\ request'[r].pc \in {"done", "purge"}
        /\ \/ /\ c \in rows /\ SetTo(c, "thumbnail", k)
              /\ raced' = (IF InHand(r, c) THEN raced \cup {c} ELSE raced)
           \/ UNCHANGED <<row, last, raced>>
    BY <1>3a, <2>1, SetThumbnailFacts DEF Clears, Moves
  <2>3. c \in Items /\ k \in Values /\ "thumbnail" \in Columns /\ k \in PicturesOf(c)
    BY <1>0, <2>1, KeyType DEF Columns, Products, PicturesOf
  <2>4. CASE UNCHANGED <<row, last, raced>>
    BY <2>2, <2>4, NotWriting, KeptTablesKeep DEF KeptTables
  <2>5. CASE /\ c \in rows /\ SetTo(c, "thumbnail", k)
             /\ raced' = (IF InHand(r, c) THEN raced \cup {c} ELSE raced)
    <3>1. RowsOwn'
      BY <2>3, <2>5, SetOwns DEF Kept
    <3>2. RowsKept' /\ Unwritten'
      BY <2>2, <2>3, <2>5, SetKeeps DEF Kept
    <3>3. ASSUME NEW q \in Requests, q # r
          PROVE  ReadBack(q)'
      <4>1. request'[q] = request[q]
        BY <2>2, <3>3 DEF Others
      <4>2. ASSUME request[q].pc = "write", request[q].item \in rows \ raced'
            PROVE  row'[request[q].item] = row[request[q].item]
        BY <2>5, <3>3, <4>2 DEF InHand, At, SetTo, Typed, TypeOK
      <4>3. QED
        BY <2>2, <2>5, <4>1, <4>2, ReadBackOthers
    <3>4. QED
      BY <2>2, <3>1, <3>2, <3>3, NotWriting DEF Kept
  <2>6. QED
    BY <2>2, <2>4, <2>5
<1>4. CASE ReadEbook(r)
  <2>1. KeptTables /\ UNCHANGED <<last, raced>> /\ Others(r)
    BY <1>4, ReadEbookFacts DEF Ends, Moves
  <2>2. CASE request'[r].pc = "done"
    BY <2>1, <2>2, NotWriting, KeptTablesKeep
  <2>3. CASE request'[r].pc # "done"
    <3>1. PICK b \in Ebooks : b = request[r].item
      BY <1>4, ReadEbookFacts
    <3>2. PICK k \in ProductKeys : k = request[r].key /\ k[1] = b
      BY <1>4, <3>1, ReadEbookFacts
    <3>3. PICK column \in {"thumbnail", "file"} : column = request[r].column
      BY <1>4, ReadEbookFacts
    <3>4. /\ b \in rows /\ request'[r].pc = "write" /\ request'[r].item = b
          /\ request'[r].column = column /\ request'[r].row[column] = k
          /\ \A c \in Columns : c # column => request'[r].row[c] = row[b][c]
      BY <1>4, <2>3, <3>1, <3>2, <3>3, ReadEbookFacts DEF Ends, Moves
    <3>5. b \in born /\ Owns(b, row[b]) /\ "thumbnail" \in Columns /\ "file" \in Columns
      BY <1>0, <3>4 DEF Typed, TypeOK, Kept, RowsOwn, Columns
    <3>6. b \in Products /\ b \notin Courses
      BY NameAssumption DEF Products
    <3>7. Owns(b, request'[r].row)
      BY <3>2, <3>4, <3>5, <3>6 DEF Owns, PicturesOf, FilesOf
    <3>8. ReadBack(r)'
      BY <2>1, <3>4, <3>5, <3>7 DEF ReadBack, KeptTables
    <3>9. QED
      BY <2>1, <3>8, KeptTablesKeep
  <2>4. QED
    BY <2>2, <2>3
<1>5. CASE WriteColumns(r)
  <2>1. /\ Others(r) /\ request'[r].pc # "write" /\ request[r].pc = "write"
        /\ UNCHANGED <<rows, born, video, attached>>
    BY <1>5, WriteColumnsFacts DEF Ends, Moves
  <2>2. CASE UNCHANGED <<row, last, raced>>
    BY <2>1, <2>2, NotWriting, KeptTablesKeep DEF KeptTables
  <2>3. CASE ~UNCHANGED <<row, last, raced>>
    <3>1. PICK x \in Products \cup Lessons : x = request[r].item
      BY <1>5, WriteColumnsFacts
    <3>2. PICK rw, column : /\ rw = request[r].row /\ column = request[r].column
                            /\ rw \in [Columns -> Values] /\ column \in Columns
      BY <1>5, WriteColumnsFacts
    <3>3. /\ x \in rows /\ row' \in [Items -> [Columns -> Values]]
          /\ last' \in [Items -> [Columns -> Values]]
          /\ \A y \in Items : y # x => row'[y] = row[y] /\ last'[y] = last[y]
          /\ row'[x] = rw /\ last'[x][column] = rw[column]
          /\ \A c \in Columns : c # column => last'[x][c] = last[x][c]
          /\ raced' = (IF InHand(r, x) THEN raced \cup {x} ELSE raced)
      BY <1>5, <2>3, <3>1, <3>2, WriteColumnsFacts
    <3>4. Unwritten'
      BY <2>1, <3>3 DEF Unwritten, Kept
    <3>5. /\ Owns(x, rw)
          /\ x \in rows \ raced => \A c \in Columns : c # column => rw[c] = row[x][c]
      BY <2>1, <3>1, <3>2 DEF Kept, ReadBack
    <3>6. RowsOwn'
      BY <1>0, <3>3, <3>5 DEF RowsOwn, Kept
    <3>7. x \notin raced => row'[x] = last'[x]
      <4>1. SUFFICES ASSUME x \notin raced
                     PROVE  row'[x] = last'[x]
        OBVIOUS
      <4>2. row[x] = last[x]
        BY <3>3, <4>1 DEF Kept, RowsKept
      <4>3. \A c \in Columns : row'[x][c] = last'[x][c]
        BY <3>3, <3>5, <4>1, <4>2
      <4>4. last'[x] \in [Columns -> Values]
        BY <1>0, <3>3
      <4>5. QED
        BY <3>2, <3>3, <4>3, <4>4
    <3>8. RowsKept'
      BY <2>1, <3>3, <3>7 DEF RowsKept, Kept, Typed, TypeOK
    <3>9. ASSUME NEW q \in Requests, q # r
          PROVE  ReadBack(q)'
      <4>1. request'[q] = request[q]
        BY <2>1, <3>9 DEF Others
      <4>2. ASSUME request[q].pc = "write", request[q].item \in rows \ raced'
            PROVE  row'[request[q].item] = row[request[q].item]
        BY <3>3, <3>9, <4>2 DEF InHand, At, Typed, TypeOK
      <4>3. QED
        BY <2>1, <3>3, <4>1, <4>2, ReadBackOthers
    <3>10. QED
      BY <2>1, <3>4, <3>6, <3>8, <3>9, NotWriting DEF Kept
  <2>4. QED
    BY <2>2, <2>3
<1>6. CASE DeleteRow(r)
  <2>1. Others(r) /\ request'[r].pc # "write" /\ raced' = raced
    BY <1>6, DeleteRowFacts DEF Ends, Moves
  <2>2. CASE KeptTables /\ last' = last
    BY <2>1, <2>2, NotWriting, KeptTablesKeep
  <2>3. CASE Removes(request[r].item)
    <3>1. request[r].item \in Items
      BY <1>0, <1>6, DeleteRowFacts
    <3>2. QED
      BY <2>1, <2>3, <3>1, RemoveKeeps, NotWriting DEF Kept, Others
  <2>4. QED
    BY <1>6, <2>2, <2>3, DeleteRowFacts
<1>7. CASE Count(r) \/ List(r)
  <2>1. /\ KeptTables /\ UNCHANGED <<last, raced>> /\ Others(r) /\ request'[r].pc # "write"
    BY <1>7, CountFacts, ListFacts DEF Ends, Moves, Clears, Advances
  <2>2. QED
    BY <2>1, NotWriting, KeptTablesKeep
<1>8. CASE Put(r) \/ ClientPut(r) \/ Fail(r)
  <2>1. /\ KeptTables /\ UNCHANGED <<last, raced>> /\ Others(r) /\ request'[r].pc # "write"
    BY <1>8, PutFacts, ClientPutFacts, FailFacts DEF Ends, Moves, Advances
  <2>2. QED
    BY <2>1, NotWriting, KeptTablesKeep
<1>9. CASE Purge(r)
  <2>1. /\ KeptTables /\ UNCHANGED <<last, raced>> /\ Others(r)
        /\ request'[r].pc \in {"purge", request[r].next} /\ request[r].pc = "purge"
    BY <1>9, PurgeFacts DEF Moves, Clears
  <2>2. request'[r].pc # "write"
    BY <2>1, RequestFacts DEF StepOf
  <2>3. QED
    BY <2>1, <2>2, NotWriting, KeptTablesKeep
<1>10. QED
  BY <1>1, <1>2, <1>3, <1>3a, <1>4, <1>5, <1>6, <1>7, <1>8, <1>9 DEF Stepping

LEMMA KeptInit ==
  ASSUME Init
  PROVE  Kept
<1>1. \A r \in Requests : ReadBack(r)
  BY FreshType DEF Init, ReadBack
<1>2. RowsOwn
  BY BlankOwns DEF Init, RowsOwn
<1>3. Unwritten /\ RowsKept
  BY DEF Init, Unwritten, RowsKept
<1>4. QED
  BY <1>1, <1>2, <1>3 DEF Kept

LEMMA KeptNext ==
  ASSUME Typed, Kept, [Next]_vars
  PROVE  Kept'
<1>0. Modules \subseteq Items
  BY DEF Items, Products
<1>1. ASSUME NEW x \in Items, Insert(x)
      PROVE  Kept'
  <2>1. /\ x \notin born /\ rows' = rows \cup {x} /\ born' = born \cup {x}
        /\ UNCHANGED <<row, video, attached, request, last, raced>>
    BY <1>1, InsertFacts
  <2>2. x \notin rows
    BY <2>1 DEF Typed, TypeOK
  <2>3. Unwritten' /\ RowsOwn' /\ RowsKept'
    BY <1>1, <2>1, <2>2 DEF Kept, Unwritten, RowsOwn, RowsKept
  <2>4. \A q \in Requests : ReadBack(q)'
    BY <2>1 DEF Kept, ReadBack
  <2>5. QED
    BY <2>3, <2>4 DEF Kept
<1>2. ASSUME NEW m \in Modules, DeleteModule(m)
      PROVE  Kept'
  <2>1. Removes(m) /\ raced' = raced /\ request' = request /\ m \in Items
    BY <1>0, <1>2, DeleteModuleFacts
  <2>2. Unwritten' /\ RowsOwn' /\ RowsKept' /\ \A q \in Requests : ReadBack(q)'
    BY <2>1, RemoveKeeps
  <2>3. QED
    BY <2>2 DEF Kept
<1>4. ASSUME NEW p \in Products, Buy(p)
      PROVE  Kept'
  BY <1>4, BuyFacts DEF KeptTables, Kept, Unwritten, RowsOwn, RowsKept, ReadBack
<1>5. CASE UNCHANGED vars
  BY <1>5 DEF vars, tables, Kept, Unwritten, RowsOwn, RowsKept, ReadBack
<1>6. QED
  BY <1>1, <1>2, <1>4, <1>5, StartingKept, SteppingKept, NextActions

\* What administrators last asked a column to be is what it is, but for rows
\* that were written while another request had the row in hand.
THEOREM RowsCorrect == Spec => []RowsKept
<1>1. Init => Typed /\ Kept
  BY TypedInit, KeptInit
<1>2. Typed /\ Kept /\ [Next]_vars => (Typed /\ Kept)'
  BY TypedNext, KeptNext
<1>3. Kept => RowsKept
  BY DEF Kept
<1>4. QED
  BY <1>1, <1>2, <1>3, PTL DEF Spec

(***************************************************************************)
(* The objects that rows name                                              *)
(***************************************************************************)
LEMMA KeysDiffer ==
  /\ Requests \cap AttachmentKeys = {} /\ Requests \cap ProductKeys = {}
  /\ AttachmentKeys \cap ProductKeys = {}
  /\ Items \cap AttachmentKeys = {} /\ Items \cap ProductKeys = {}
  /\ None \notin Keys /\ None \notin Items
BY NameAssumption

LEMMA Owners ==
  /\ \A k \in Requests : Owner(k) = request[k].item
  /\ \A k \in AttachmentKeys \cup ProductKeys : Owner(k) = k[1] /\ k[1] \in Items
<1>1. \A k \in AttachmentKeys \cup ProductKeys : k \notin Requests
  BY KeysDiffer
<1>2. QED
  BY <1>1, KeyType DEF Owner, Items

LEMMA NamedIs ==
  ASSUME Typed
  PROVE  /\ \A x \in Lessons : Named(x) = ({video[x]} \ {None}) \cup GetByLessonID(x)
         /\ \A x \in Products : Named(x) = {row[x]["thumbnail"], row[x]["file"]} \ {None}
         /\ \A x \in Modules : Named(x) = {}
BY NameAssumption DEF Named

\* What a row names.
LEMMA NamedOwn ==
  ASSUME Typed, RowsOwn, NEW x \in Items, NEW k \in Named(x)
  PROVE  \/ x \in Lessons /\ k = video[x] /\ k \in Keys
         \/ x \in Lessons /\ k \in AttachmentKeys /\ k[1] = x /\ attached[k] # None
         \/ x \in Courses /\ k \in ProductKeys /\ k[1] = x /\ k = row[x]["thumbnail"]
         \/ x \in Ebooks /\ k \in ProductKeys /\ k[1] = x /\ k \in {row[x]["thumbnail"], row[x]["file"]}
<1>1. CASE x \in Lessons
  <2>1. k \in ({video[x]} \ {None}) \cup GetByLessonID(x)
    BY <1>1, NamedIs
  <2>2. video[x] \in Values
    BY <1>1 DEF Typed, TypeOK
  <2>3. QED
    BY <1>1, <2>1, <2>2 DEF GetByLessonID, Values
<1>2. CASE x \in Products
  <2>1. k \in {row[x]["thumbnail"], row[x]["file"]} \ {None}
    BY <1>2, NamedIs
  <2>2. Owns(x, row[x])
    BY DEF RowsOwn
  <2>3. QED
    BY <1>2, <2>1, <2>2 DEF Owns, PicturesOf, FilesOf, Products
<1>3. CASE x \in Modules
  <2>1. Named(x) = {}
    BY <1>3, NamedIs
  <2>2. QED
    BY <2>1
<1>4. QED
  BY <1>1, <1>2, <1>3 DEF Items

\* The deletion of x, or of its course, began.
Condemned(x) == x \in condemned \/ Product(x) \in condemned

\* A lesson's own video, or one that was completed for another.
VideoOf(l, k) ==
  \/ k \in Requests /\ request[k].item = l
  \/ Astray(l) /\ Astray(Owner(k)) /\ (k \in Requests => request[k].item \in Lessons)

\* An attachment whose name two requests used, or that was taken for a video.
Mixed(k) == k \in shared \/ k[1] \in doubtful

\* A request that is past the client, and one that is past the row of a video.
Writes(w)  == request[w].pc \notin {"new", "presigned", "uploaded"}
Past(w)    == Writes(w) /\ Aim(request[w]) # "video"
Written(k) == \E w \in Requests : Past(w) /\ request[w].key = k

VideoOnce ==
  \A v, w \in Requests :
    v # w /\ Writes(v) /\ Writes(w) /\ request[v].key = request[w].key /\ request[v].key \in Requests
      => request[v].item \in doubtful

VideoWritten ==
  \A l \in Lessons : video[l] # None => VideoOf(l, video[l]) /\ Written(video[l])

\* Attachments of two requests at once.
OneName ==
  \A v, w \in Requests :
    v # w /\ Active(v) /\ Active(w) /\ request[v].key = request[w].key
          /\ request[v].key \in AttachmentKeys
      => Mixed(request[v].key)

\* No row names the video k any more, or the row is excused.
Replaced(k) == LET l == request[k].item IN
  Condemned(l) \/ l \in doubtful \/ video[l] # k

\* The row of p, and whoever has it in hand, does not name the picture k.
Dropped(p, k) ==
  /\ row[p]["thumbnail"] # k
  /\ \A w \in Requests :
       request[w].pc = "write" /\ request[w].item = p => request[w].row["thumbnail"] # k

\* Why r may delete an object.
DoomedVideo(r, k) == LET q == request[r] IN
  /\ Written(k) /\ request[k].item \in Lessons
  /\ Aim(q) = "video" => k # q.key /\ (request[k].item = q.item \/ request[k].item \in doubtful)
  /\ q.pc = "purge" => Replaced(k)

DoomedAttachment(r, k) == LET q == request[r] IN
  \/ Condemned(k[1]) \/ Mixed(k)
  \/ q.key = k /\ Active(r) /\ Aim(q) = "detach" /\ k \in condemned
  \/ q.key = k /\ q.pc = "purge" /\ q.next = "done" /\ (attached[k] = None \/ k \in condemned)

DoomedPicture(r, k) == LET q == request[r] IN
  \/ k[1] \in condemned \cup doubtful
  \/ k[1] \in Courses /\ (q.pc = "count" \/ Aim(q) = "picture")
  \/ k[1] \in Courses /\ q.pc = "purge" /\ q.next = "done" /\ Dropped(k[1], k)

DoomedWell(r) == \A k \in request[r].doomed :
  /\ k \in Requests => DoomedVideo(r, k)
  /\ k \in ProductKeys => DoomedPicture(r, k)
  /\ k \in AttachmentKeys => DoomedAttachment(r, k)

\* What r is about to name is there.
Present(r) == LET q == request[r] IN
  /\ q.pc = "video" => q.key \in objects \/ Condemned(q.item) \/ q.item \in doubtful
  /\ q.pc = "uploaded" /\ ~Completed(r) => r \in objects
  /\ q.pc = "attach" => q.key \in objects \/ Condemned(q.item) \/ Mixed(q.key)
  /\ q.pc \in {"read", "picture"} => q.key \in objects \/ q.item \in condemned \cup doubtful
  /\ q.pc = "write" /\ q.item \in Products =>
       \A k \in {q.row["thumbnail"], q.row["file"]} \ {None} :
         k \in objects \/ q.item \in condemned \cup doubtful

\* Nobody else knows of a picture before the row does.
NewPicture(r) == LET q == request[r] IN
  Aim(q) = "picture" =>
    \/ q.item \in doubtful
    \/ /\ Dropped(q.item, q.key)
       /\ \A w \in Requests : /\ q.key \notin request[w].doomed
                              /\ w # r => request[w].key # q.key

VideoWell(r) == LET q == request[r] IN Aim(q) = "video" => VideoOf(q.item, q.key)

AttachmentWell(r) == LET q == request[r] IN
  /\ Aim(q) = "attach" => attached[q.key] = None \/ Mixed(q.key)
  /\ Aim(q) = "detach" => attached[q.key] \in {q.id, None} \/ Mixed(q.key)

Sentenced(r) == Aim(request[r]) \in {"list", "delete"} => request[r].item \in condemned

\* The picture of a course, to be deleted with it or replaced.
Pictured(r) == request[r].pc = "count" \/ Aim(request[r]) = "picture" =>
  \A k \in request[r].doomed : k \in ProductKeys /\ k[1] = request[r].item

Well(r) ==
  /\ DoomedWell(r) /\ Present(r) /\ NewPicture(r) /\ VideoWell(r) /\ AttachmentWell(r)
  /\ Sentenced(r) /\ Pictured(r)

Served ==
  NoDangling /\ VideoOnce /\ VideoWritten /\ OneName /\ \A r \in Requests : Well(r)

(***************************************************************************)
(* Steps go forward                                                        *)
(***************************************************************************)
Forward ==
  /\ \A x \in condemned \cap Items : x \in condemned'
  /\ shared \subseteq shared' /\ Grows
  /\ \A k \in Requests : request[k].pc # "new" =>
       request'[k].item = request[k].item /\ request'[k].key = request[k].key
  /\ \A w \in Requests : Writes(w) => Writes(w)'
  /\ \A w \in Requests : Past(w) => Past(w)'

\* What only r may change: its attachment, and the objects it deletes.
Touches(r, k) == r \in Requests /\ Active(r) /\ request[r].key = k
Deletes(r, k) == r \in Requests /\ request[r].pc = "purge" /\ k \in request[r].doomed

\* A picture of a course gets from the row to a request and back, and from the
\* request that puts it to the row.
Spreads(r) ==
  /\ \A c \in Courses :
       \/ row'[c]["thumbnail"] \in {row[c]["thumbnail"], None}
       \/ /\ r \in Requests /\ request[r].item = c
          /\ \/ request[r].pc = "write" /\ row'[c]["thumbnail"] = request[r].row["thumbnail"]
             \/ request[r].pc = "picture" /\ row'[c]["thumbnail"] = request[r].key
  /\ \A w \in Requests : request'[w].pc = "write" /\ request'[w].item \in Courses =>
       \/ request'[w].row["thumbnail"] \in {row[request'[w].item]["thumbnail"], None}
       \/ request'[w] = request[w]
  /\ \A w \in Requests, k \in ProductKeys : k[1] \in Courses =>
       /\ k \in request'[w].doomed =>
            k \in request[w].doomed \/ k = row[k[1]]["thumbnail"] \/ k[1] \in doubtful'
       /\ k = request'[w].key => k = request[w].key \/ Unused(k) \/ k[1] \in doubtful'

\* r takes a step, or nobody does if r is None.
Steady(r) ==
  /\ Forward /\ Spreads(r)
  /\ \A l \in Lessons : \/ video'[l] \in {video[l], None}
                        \/ Written(video'[l]) => l \in doubtful
  /\ \A k \in AttachmentKeys : attached'[k] \in {attached[k], None} \/ Touches(r, k)
  /\ \A k \in AttachmentKeys : k \in condemned => k \in condemned' \/ Touches(r, k)
  /\ \A k \in objects : k \in objects' \/ Deletes(r, k)

LEMMA WrittenForward ==
  ASSUME Forward, NEW k, Written(k)
  PROVE  Written(k)'
<1>1. PICK w \in Requests : Past(w) /\ request[w].key = k
  BY DEF Written
<1>2. Past(w)' /\ request'[w].key = k
  BY <1>1 DEF Forward, Past, Writes
<1>3. QED
  BY <1>2 DEF Written

LEMMA CondemnedForward ==
  ASSUME Forward, NEW x \in Items, Condemned(x)
  PROVE  Condemned(x)'
BY ProductType DEF Forward, Condemned, Items

LEMMA WrittenCompleted ==
  ASSUME Typed, NEW k \in Requests, request[k].pc = "uploaded"
  PROVE  /\ Written(k) => Completed(k)
         /\ Completed(k) <=> \E w \in Requests : Writes(w) /\ request[w].key = k
<1>1. ASSUME NEW w \in Requests, Completes(w, k)
      PROVE  Writes(w)
  <2>1. StepOf(w)
    BY DEF Typed
  <2>2. QED
    BY <1>1, <2>1 DEF StepOf, Completes, Writes
<1>2. \A w \in Requests : Writes(w) /\ request[w].key = k => Completes(w, k)
  BY DEF Completes, Writes
<1>3. ASSUME Written(k)
      PROVE  Completed(k)
  <2>1. PICK w \in Requests : Writes(w) /\ request[w].key = k
    BY <1>3 DEF Written, Past
  <2>2. QED
    BY <1>2, <2>1 DEF Completed
<1>4. ASSUME Completed(k)
      PROVE  \E w \in Requests : Writes(w) /\ request[w].key = k
  <2>1. PICK w \in Requests : Completes(w, k)
    BY <1>4 DEF Completed
  <2>2. QED
    BY <1>1, <2>1 DEF Completes
<1>5. ASSUME NEW w \in Requests, Writes(w), request[w].key = k
      PROVE  Completed(k)
  BY <1>2, <1>5 DEF Completed
<1>6. QED
  BY <1>3, <1>4, <1>5

\* A video is of a lesson.
LEMMA VideoItem ==
  ASSUME Typed, NEW l \in Lessons, NEW k, VideoOf(l, k)
  PROVE  /\ k \in Requests \/ (l \in doubtful /\ Owner(k) \in doubtful)
         /\ k \in Requests => /\ request[k].pc # "new" /\ request[k].item \in Lessons
                              /\ request[k].item = l \/ request[k].item \in doubtful
<1>1. CASE k \in Requests /\ request[k].item = l
  BY <1>1, KeysDiffer DEF Typed, StepOf, Items
<1>2. CASE Astray(l) /\ Astray(Owner(k)) /\ (k \in Requests => request[k].item \in Lessons)
  <2>1. k \in Requests => Owner(k) = request[k].item
    BY Owners
  <2>2. k \in Requests => request[k].pc # "new"
    BY <1>2, <2>1, KeysDiffer DEF Typed, StepOf, Astray
  <2>3. QED
    BY <1>2, <2>1, <2>2 DEF Astray
<1>3. QED
  BY <1>1, <1>2 DEF VideoOf

LEMMA VideoOfForward ==
  ASSUME Typed, Forward, NEW l \in Lessons, NEW k, VideoOf(l, k)
  PROVE  VideoOf(l, k)'
<1>1. CASE k \in Requests /\ request[k].item = l
  <2>1. request[k].pc # "new"
    BY <1>1, VideoItem
  <2>2. QED
    BY <1>1, <2>1 DEF VideoOf, Forward
<1>2. CASE Astray(l) /\ Astray(Owner(k)) /\ (k \in Requests => request[k].item \in Lessons)
  <2>1. PICK x : x = Owner(k)
    OBVIOUS
  <2>2. Astray(l)' /\ Astray(x)'
    BY <1>2, <2>1, AstrayKept DEF Forward
  <2>3. Owner(k)' = x
    <3>1. CASE k \in Requests
      <4>1. request[k].pc # "new"
        BY <3>1, VideoItem
      <4>2. QED
        BY <2>1, <3>1, <4>1 DEF Owner, Forward
    <3>2. CASE k \notin Requests
      BY <2>1, <3>2 DEF Owner
    <3>3. QED
      BY <3>1, <3>2
  <2>4. k \in Requests => request'[k].item = request[k].item
    BY VideoItem DEF Forward
  <2>5. QED
    BY <1>2, <2>2, <2>3, <2>4 DEF VideoOf
<1>3. QED
  BY <1>1, <1>2 DEF VideoOf

\* A video that lessons have and that a request is to name was completed twice,
\* or for another.
LEMMA WrittenTwice ==
  ASSUME Typed, VideoOnce, NEW r \in Requests, Aim(request[r]) = "video", VideoWell(r),
         Written(request[r].key)
  PROVE  request[r].item \in doubtful
<1>1. CASE request[r].key \in Requests
  <2>1. PICK w \in Requests : Past(w) /\ request[w].key = request[r].key
    BY DEF Written
  <2>2. Writes(r) /\ w # r
    BY <2>1 DEF Past, Aim, Writes
  <2>3. QED
    BY <1>1, <2>1, <2>2 DEF VideoOnce, Past
<1>2. CASE request[r].key \notin Requests
  <2>1. request[r].item \in Lessons
    BY DEF Typed, StepOf
  <2>2. QED
    BY <1>2, <2>1, VideoItem DEF VideoWell
<1>3. QED
  BY <1>1, <1>2

LEMMA MixedForward ==
  ASSUME Forward, NEW k, Mixed(k)
  PROVE  Mixed(k)'
BY DEF Forward, Mixed, Grows

\* A picture that is dropped is not picked up again.
LEMMA DroppedKept ==
  ASSUME Typed, NEW r, Spreads(r), NEW c \in Courses, NEW k \in ProductKeys, Dropped(c, k),
         r \in Requests /\ request[r].item = c /\ request[r].pc = "picture" => request[r].key # k
  PROVE  Dropped(c, k)'
<1>1. k # None
  BY KeyType
<1>2. row'[c]["thumbnail"] # k
  BY <1>1 DEF Spreads, Dropped
<1>3. ASSUME NEW w \in Requests, request'[w].pc = "write", request'[w].item = c
      PROVE  request'[w].row["thumbnail"] # k
  BY <1>1, <1>3 DEF Spreads, Dropped
<1>4. QED
  BY <1>2, <1>3 DEF Dropped

LEMMA NewPictureKept ==
  ASSUME Typed, NEW r, Spreads(r), Forward, NEW q \in Requests, NewPicture(q),
         Aim(request'[q]) = "picture" => Aim(request[q]) = "picture",
         q # r \/ request[r].pc # "picture",
         request'[q].item = request[q].item, request'[q].key = request[q].key
  PROVE  NewPicture(q)'
<1>1. PICK c, k : c = request[q].item /\ k = request[q].key
  OBVIOUS
<1>2. SUFFICES ASSUME Aim(request'[q]) = "picture", c \notin doubtful'
               PROVE  /\ Dropped(c, k)'
                      /\ \A w \in Requests : /\ k \notin request'[w].doomed
                                             /\ w # q => request'[w].key # k
  BY <1>1 DEF NewPicture
<1>3. c \in Courses /\ k \in ProductKeys /\ k[1] = c
  BY <1>1, <1>2 DEF Typed, StepOf
<1>4. /\ Dropped(c, k)
      /\ \A w \in Requests : k \notin request[w].doomed /\ (w # q => request[w].key # k)
  BY <1>1, <1>2 DEF NewPicture, Forward, Grows
<1>5. Dropped(c, k)'
  BY <1>3, <1>4, DroppedKept
<1>6. ~Unused(k)
  BY <1>1 DEF Unused
<1>7. row[c]["thumbnail"] # k
  BY <1>4 DEF Dropped
<1>8. ASSUME NEW w \in Requests
      PROVE  k \notin request'[w].doomed /\ (w # q => request'[w].key # k)
  BY <1>2, <1>3, <1>4, <1>6, <1>7 DEF Spreads
<1>9. QED
  BY <1>5, <1>8

LEMMA PurgedPicture ==
  ASSUME Typed, NEW r \in Requests, DoomedWell(r), NEW k \in ProductKeys, Deletes(r, k)
  PROVE  k[1] \in condemned \cup doubtful \/ (k[1] \in Courses /\ Dropped(k[1], k))
<1>1. StepOf(r)
  BY DEF Typed
<1>2. QED
  BY <1>1 DEF StepOf, Deletes, DoomedWell, DoomedPicture, Aim

LEMMA OthersWell ==
  ASSUME Typed, Kept, Served, NEW r, Steady(r), NEW q \in Requests, q # r,
         request'[q] = request[q]
  PROVE  Well(q)'
<1>0. Well(q) /\ StepOf(q) /\ KeyOf(q) /\ request[q] \in RequestStates
      /\ (r \in Requests => DoomedWell(r) /\ NewPicture(r))
  BY DEF Served, Typed, TypeOK, Well
<1>f. Forward
  BY DEF Steady
<1>s. Spreads(r)
  BY DEF Steady
<1>i. /\ Lessons \subseteq Items /\ Courses \subseteq Items /\ Ebooks \subseteq Items
      /\ None \notin Lessons /\ Courses \cap Ebooks = {}
  BY NameAssumption DEF Items, Products
<1>1. ASSUME NEW k \in request[q].doomed
      PROVE  /\ k \in Requests => DoomedVideo(q, k)'
             /\ k \in ProductKeys => DoomedPicture(q, k)'
             /\ k \in AttachmentKeys => DoomedAttachment(q, k)'
  <2>1. ASSUME k \in Requests
        PROVE  DoomedVideo(q, k)'
    <3>1. DoomedVideo(q, k)
      BY <1>0, <2>1 DEF Well, DoomedWell
    <3>2. Written(k) /\ request[k].item \in Lessons
      BY <3>1 DEF DoomedVideo
    <3>3. request[k].pc # "new"
      BY <1>i, <2>1, <3>2 DEF Typed, StepOf
    <3>4. Written(k)' /\ request'[k].item = request[k].item
      BY <1>f, <2>1, <3>2, <3>3, WrittenForward DEF Forward
    <3>5. ASSUME request[q].pc = "purge"
          PROVE  Replaced(k)'
      <4>1. Replaced(k)
        BY <3>1, <3>5 DEF DoomedVideo
      <4>2. CASE Condemned(request[k].item)
        BY <1>f, <1>i, <3>2, <3>4, <4>2, CondemnedForward DEF Replaced
      <4>3. CASE request[k].item \in doubtful
        BY <1>f, <3>4, <4>3 DEF Replaced, Forward, Grows
      <4>4. CASE video[request[k].item] # k
        <5>1. \/ video'[request[k].item] \in {video[request[k].item], None}
              \/ Written(video'[request[k].item]) => request[k].item \in doubtful
          BY <3>2 DEF Steady
        <5>2. k # None
          BY <2>1, NameAssumption DEF Keys
        <5>3. video'[request[k].item] # k \/ request[k].item \in doubtful
          BY <3>2, <4>4, <5>1, <5>2
        <5>4. QED
          BY <1>f, <3>4, <5>3 DEF Replaced, Forward, Grows
      <4>5. QED
        BY <4>1, <4>2, <4>3, <4>4 DEF Replaced
    <3>6. Aim(request[q]) = "video" =>
            /\ k # request[q].key
            /\ request[k].item = request[q].item \/ request[k].item \in doubtful'
      BY <1>f, <3>1 DEF DoomedVideo, Forward, Grows
    <3>7. QED
      BY <3>2, <3>4, <3>5, <3>6 DEF DoomedVideo
  <2>3. ASSUME k \in ProductKeys
        PROVE  DoomedPicture(q, k)'
    <3>1. DoomedPicture(q, k)
      BY <1>0, <2>3 DEF Well, DoomedWell
    <3>2. k[1] \in Items
      BY <1>i, <2>3, KeyType DEF Items
    <3>3. CASE k[1] \in condemned \cup doubtful
      BY <1>f, <3>2, <3>3 DEF DoomedPicture, Forward, Grows
    <3>4. CASE k[1] \in Courses /\ (request[q].pc = "count" \/ Aim(request[q]) = "picture")
      BY <3>4 DEF DoomedPicture
    <3>5. CASE /\ k[1] \in Courses /\ request[q].pc = "purge" /\ request[q].next = "done"
               /\ Dropped(k[1], k)
      <4>1. PICK c \in Courses : c = k[1]
        BY <3>5
      <4>2. \/ c \in doubtful
            \/ r \in Requests /\ request[r].item = c /\ request[r].pc = "picture" => request[r].key # k
        BY <1>0, <4>1 DEF NewPicture, Aim
      <4>3. c \notin doubtful => Dropped(c, k)'
        BY <1>s, <2>3, <3>5, <4>1, <4>2, DroppedKept
      <4>4. QED
        BY <1>f, <3>5, <4>1, <4>3 DEF DoomedPicture, Forward, Grows
    <3>6. QED
      BY <3>1, <3>3, <3>4, <3>5 DEF DoomedPicture
  <2>4. ASSUME k \in AttachmentKeys
        PROVE  DoomedAttachment(q, k)'
    <3>0. k[1] \in Items
      BY <1>i, <2>4, KeyType
    <3>1. DoomedAttachment(q, k)
      BY <1>0, <2>4 DEF Well, DoomedWell
    <3>2. Touches(r, k) /\ Active(q) /\ request[q].key = k => Mixed(k)'
      BY <1>f, <2>4, MixedForward DEF Served, OneName, Touches
    <3>3. CASE Condemned(k[1]) \/ Mixed(k)
      BY <1>f, <3>0, <3>3, CondemnedForward, MixedForward DEF DoomedAttachment
    <3>4. CASE request[q].key = k /\ Active(q) /\ Aim(request[q]) = "detach" /\ k \in condemned
      <4>1. k \in condemned' \/ Touches(r, k)
        BY <2>4, <3>4 DEF Steady
      <4>2. QED
        BY <3>2, <3>4, <4>1 DEF DoomedAttachment, Aim, Active
    <3>5. CASE /\ request[q].key = k /\ request[q].pc = "purge" /\ request[q].next = "done"
               /\ attached[k] = None \/ k \in condemned
      <4>1. attached'[k] = None \/ k \in condemned' \/ Touches(r, k)
        BY <2>4, <3>5 DEF Steady
      <4>2. Active(q)
        BY <3>5 DEF Active
      <4>3. QED
        BY <3>2, <3>5, <4>1, <4>2 DEF DoomedAttachment
    <3>6. QED
      BY <3>1, <3>3, <3>4, <3>5 DEF DoomedAttachment
  <2>5. QED
    BY <2>1, <2>3, <2>4
<1>2. DoomedWell(q)'
  BY <1>1 DEF DoomedWell
<1>3. Present(q)'
  <2>1. ASSUME request[q].pc = "video"
        PROVE  request[q].key \in objects' \/ Condemned(request[q].item)' \/ request[q].item \in doubtful'
    <3>1. /\ request[q].key \in Keys /\ request[q].item \in Lessons /\ request[q].item \in Items
          /\ Aim(request[q]) = "video"
      BY <1>0, <1>i, <2>1 DEF StepOf, Aim
    <3>2. request[q].key \in objects \/ Condemned(request[q].item) \/ request[q].item \in doubtful
      BY <1>0, <2>1 DEF Well, Present
    <3>3. request[q].key \in objects /\ request[q].key \notin objects' => request[q].item \in doubtful
      <4>1. SUFFICES ASSUME request[q].key \in objects, request[q].key \notin objects'
                     PROVE  request[q].item \in doubtful
        OBVIOUS
      <4>2. r \in Requests /\ request[q].key \in request[r].doomed
        BY <4>1 DEF Steady, Deletes
      <4>3. VideoOf(request[q].item, request[q].key)
        BY <1>0, <3>1 DEF Well, VideoWell
      <4>4. CASE request[q].key \in Requests
        <5>1. Written(request[q].key)
          BY <1>0, <4>2, <4>4 DEF DoomedWell, DoomedVideo
        <5>2. QED
          BY <1>0, <3>1, <5>1, WrittenTwice DEF Served, Well
      <4>5. CASE request[q].key \notin Requests
        BY <3>1, <4>3, <4>5, VideoItem
      <4>6. QED
        BY <4>4, <4>5
    <3>4. QED
      BY <1>f, <3>1, <3>2, <3>3, CondemnedForward DEF Forward, Grows
  <2>2. ASSUME request[q].pc = "uploaded", ~Completed(q)'
        PROVE  q \in objects'
    <3>1. ~Completed(q)
      <4>1. SUFFICES ASSUME Completed(q)
                     PROVE  Completed(q)'
        BY <2>2
      <4>2. PICK w \in Requests : Writes(w) /\ request[w].key = q
        BY <2>2, <4>1, WrittenCompleted
      <4>3. Writes(w)' /\ request'[w].key = q
        BY <1>f, <4>2 DEF Forward, Writes
      <4>4. QED
        BY <4>3 DEF Completed, Completes, Writes
    <3>2. q \in objects
      BY <1>0, <2>2, <3>1 DEF Well, Present
    <3>3. Deletes(r, q) => Written(q)
      BY <1>0 DEF DoomedWell, DoomedVideo, Deletes
    <3>4. QED
      BY <2>2, <3>1, <3>2, <3>3, WrittenCompleted DEF Steady
  <2>3. ASSUME request[q].pc = "attach"
        PROVE  \/ request[q].key \in objects' \/ Condemned(request[q].item)'
               \/ Mixed(request[q].key)'
    <3>1. /\ request[q].key \in AttachmentKeys /\ request[q].item = request[q].key[1]
          /\ request[q].item \in Items /\ Active(q)
      BY <1>0, <2>3 DEF StepOf, Aim, Active
    <3>2. \/ request[q].key \in objects \/ Condemned(request[q].item)
          \/ Mixed(request[q].key)
      BY <1>0, <2>3 DEF Well, Present
    <3>3. ASSUME request[q].key \in objects, request[q].key \notin objects'
          PROVE  Condemned(request[q].item) \/ Mixed(request[q].key)
      <4>1. r \in Requests /\ request[r].pc = "purge" /\ request[q].key \in request[r].doomed
        BY <3>3 DEF Steady, Deletes
      <4>2. DoomedAttachment(r, request[q].key) /\ Active(r)
        BY <1>0, <3>1, <4>1 DEF DoomedWell, Active
      <4>3. request[r].key = request[q].key => Mixed(request[q].key)
        BY <3>1, <4>1, <4>2 DEF Served, OneName
      <4>4. QED
        BY <3>1, <4>2, <4>3 DEF DoomedAttachment
    <3>4. PICK k : k = request[q].key
      OBVIOUS
    <3>5. Mixed(k) => Mixed(k)'
      BY <1>f, MixedForward
    <3>6. QED
      BY <1>f, <3>1, <3>2, <3>3, <3>4, <3>5, CondemnedForward
  <2>4. ASSUME request[q].pc \in {"read", "picture"}
        PROVE  request[q].key \in objects' \/ request[q].item \in condemned' \cup doubtful'
    <3>1. /\ request[q].key \in ProductKeys /\ request[q].item = request[q].key[1]
          /\ request[q].item \in Items
          /\ request[q].pc = "read" => request[q].item \notin Courses
      BY <1>0, <1>i, <2>4 DEF StepOf, Aim
    <3>2. request[q].key \in objects \/ request[q].item \in condemned \cup doubtful
      BY <1>0, <2>4 DEF Well, Present
    <3>3. ASSUME Deletes(r, request[q].key)
          PROVE  request[q].item \in condemned \cup doubtful
      <4>1. CASE request[q].pc = "picture"
        BY <1>0, <3>3, <4>1 DEF Well, NewPicture, Aim, Deletes
      <4>2. CASE request[q].pc = "read"
        BY <1>0, <3>1, <3>3, <4>2, PurgedPicture DEF Deletes
      <4>3. QED
        BY <2>4, <4>1, <4>2
    <3>4. QED
      BY <1>f, <3>1, <3>2, <3>3 DEF Steady, Forward, Grows
  <2>5. ASSUME request[q].pc = "write", request[q].item \in Products,
               NEW k \in {request[q].row["thumbnail"], request[q].row["file"]} \ {None}
        PROVE  k \in objects' \/ request[q].item \in condemned' \cup doubtful'
    <3>1. k \in objects \/ request[q].item \in condemned \cup doubtful
      BY <1>0, <2>5 DEF Well, Present
    <3>2. Owns(request[q].item, request[q].row)
      BY <2>5 DEF Kept, ReadBack
    <3>3. /\ k \in ProductKeys /\ k[1] = request[q].item
          /\ request[q].item \in Courses => k = request[q].row["thumbnail"]
      BY <2>5, <3>2 DEF Owns, PicturesOf, FilesOf, Products
    <3>4. ASSUME Deletes(r, k)
          PROVE  request[q].item \in condemned \cup doubtful
      <4>1. Dropped(k[1], k) => request[q].row["thumbnail"] # k
        BY <2>5, <3>3 DEF Dropped
      <4>2. QED
        BY <1>0, <3>3, <3>4, <4>1, PurgedPicture DEF Deletes
    <3>5. request[q].item \in Items
      BY <2>5 DEF Items
    <3>6. QED
      BY <1>f, <3>1, <3>4, <3>5 DEF Steady, Forward, Grows
  <2>6. QED
    BY <2>1, <2>2, <2>3, <2>4, <2>5 DEF Present
<1>4. AttachmentWell(q)'
  <2>1. AttachmentWell(q)
    BY <1>0 DEF Well
  <2>2. ASSUME Aim(request[q]) \in {"attach", "detach"}
        PROVE  /\ Active(q) /\ request[q].key \in AttachmentKeys
               /\ \/ attached'[request[q].key] \in {attached[request[q].key], None}
                  \/ Mixed(request[q].key)
    <3>1. Active(q) /\ request[q].key \in AttachmentKeys
      BY <1>0, <2>2 DEF StepOf, Aim, Active
    <3>2. Touches(r, request[q].key) => Mixed(request[q].key)
      BY <3>1 DEF Served, OneName, Touches
    <3>3. QED
      BY <3>1, <3>2 DEF Steady
  <2>3. PICK k : k = request[q].key
    OBVIOUS
  <2>4. Mixed(k) => Mixed(k)'
    BY <1>f, MixedForward
  <2>5. QED
    BY <2>1, <2>2, <2>3, <2>4 DEF AttachmentWell
<1>5. Sentenced(q)'
  <2>1. Aim(request[q]) \in {"list", "delete"} => request[q].item \in Items
    BY <1>0, <1>i DEF StepOf, Items, Aim
  <2>2. QED
    BY <1>0, <1>f, <2>1 DEF Well, Sentenced, Forward
<1>6. Pictured(q)'
  BY <1>0 DEF Well, Pictured
<1>7. VideoWell(q)'
  <2>1. Aim(request[q]) = "video" => request[q].item \in Lessons
    BY <1>0 DEF StepOf
  <2>2. PICK l, k : l = request[q].item /\ k = request[q].key
    OBVIOUS
  <2>3. Aim(request[q]) = "video" => VideoOf(l, k)
    BY <1>0, <2>2 DEF Well, VideoWell
  <2>4. Aim(request[q]) = "video" => VideoOf(l, k)'
    BY <1>f, <2>1, <2>2, <2>3, VideoOfForward
  <2>5. QED
    BY <2>2, <2>4 DEF VideoWell
<1>8. NewPicture(q)'
  BY <1>0, <1>f, <1>s, NewPictureKept DEF Well
<1>9. QED
  BY <1>2, <1>3, <1>4, <1>5, <1>6, <1>7, <1>8 DEF Well

(***************************************************************************)
(* What a step must do for the rest                                        *)
(***************************************************************************)
Excused(x, k) == {x, k, Product(x)} \cap condemned # {} \/ k \in shared \/ x \in doubtful

LEMMA NamedIsNext ==
  /\ \A x \in Lessons : Named(x)' = ({video'[x]} \ {None}) \cup GetByLessonID(x)'
  /\ \A x \in Products : Named(x)' = {row'[x]["thumbnail"], row'[x]["file"]} \ {None}
  /\ \A x \in Modules : Named(x)' = {}
BY NameAssumption DEF Named

LEMMA NoDanglingNext ==
  ASSUME Typed, Kept, Served, NEW r, Steady(r), Typed',
         \A k \in AttachmentKeys :
           k \in condemned => k \in condemned' \/ attached'[k] = None \/ Mixed(k)',
         VideoWritten',
         \A x \in rows' : \A k \in Named(x)' :
           \/ x \in rows /\ k \in Named(x)
           \/ k \in objects' \/ Excused(x, k)'
  PROVE  NoDangling'
<1> SUFFICES ASSUME NEW x \in rows', NEW k \in Named(x)', k \notin objects'
             PROVE  Excused(x, k)'
  BY DEF NoDangling, Excused
<1>f. Forward
  BY DEF Steady
<1>1. CASE Excused(x, k)'
  BY <1>1
<1>2. ASSUME x \in rows, k \in Named(x)
      PROVE  Excused(x, k)'
  <2>0. x \in Items /\ Product(x) \in Items
    BY <1>2, ProductType DEF Items, Typed, TypeOK
  <2>a. \/ x \in Lessons /\ k = video[x] /\ k \in Keys
        \/ x \in Lessons /\ k \in AttachmentKeys /\ k[1] = x /\ attached[k] # None
        \/ x \in Courses /\ k \in ProductKeys /\ k[1] = x /\ k = row[x]["thumbnail"]
        \/ x \in Ebooks /\ k \in ProductKeys /\ k[1] = x
    BY <1>2, <2>0, NamedOwn DEF Kept
  <2>b. ASSUME k \in AttachmentKeys, k \in condemned
        PROVE  Excused(x, k)'
    <3>1. CASE k \in condemned' \/ Mixed(k)'
      <4>1. k[1] \in doubtful' => x \in doubtful'
        <5>1. CASE k[1] = x
          BY <5>1
        <5>2. CASE x \in Lessons /\ k = video[x] /\ k \in Keys
          <6>1. VideoOf(x, k) /\ k \notin Requests
            BY <2>b, <5>2, KeyType, KeysDiffer DEF Served, VideoWritten
          <6>2. QED
            BY <1>f, <5>2, <6>1, VideoItem DEF Forward, Grows
        <5>3. QED
          BY <2>a, <5>1, <5>2
      <4>2. QED
        BY <3>1, <4>1 DEF Excused, Mixed
    <3>2. CASE attached'[k] = None
      <4>1. x \in Lessons /\ k \notin Requests /\ k # None
        BY <2>a, <2>b, KeysDiffer, KeyType
      <4>2. k \in ({video'[x]} \ {None}) \cup GetByLessonID(x)'
        BY <4>1, NamedIsNext
      <4>3. video'[x] = k
        BY <3>2, <4>2 DEF GetByLessonID
      <4>4. Astray(x)'
        BY <4>1, <4>3 DEF VideoWritten, VideoOf
      <4>5. QED
        BY <4>4 DEF Astray, Excused
    <3>3. QED
      BY <2>b, <3>1, <3>2
  <2>c. Condemned(x) => Excused(x, k)'
    BY <1>f, <2>0 DEF Condemned, Excused, Forward
  <2>d. k \in shared \/ x \in doubtful => Excused(x, k)'
    BY <1>f DEF Excused, Forward, Grows
  <2>1. CASE k \notin objects
    <3>1. Excused(x, k)
      BY <1>2, <2>1 DEF Served, NoDangling, Excused
    <3>2. k \in condemned => Condemned(x) \/ k \in AttachmentKeys \/ k \in Items
      BY DEF Typed, TypeOK
    <3>3. k \in condemned /\ k \in Items => Excused(x, k)'
      BY <1>f DEF Excused, Forward
    <3>4. QED
      BY <2>b, <2>c, <2>d, <3>1, <3>2, <3>3 DEF Excused, Condemned
  <2>2. CASE k \in objects
    <3>1. r \in Requests /\ request[r].pc = "purge" /\ k \in request[r].doomed
      BY <2>2 DEF Steady, Deletes
    <3>2. DoomedWell(r)
      BY <3>1 DEF Served, Well
    <3>3. CASE x \in Lessons /\ k = video[x] /\ k \in Keys
      <4>1. VideoOf(x, k)
        BY <3>3, KeyType DEF Served, VideoWritten
      <4>2. CASE k \in Requests /\ request[k].item = x
        <5>1. Replaced(k)
          BY <3>1, <3>2, <4>2 DEF DoomedWell, DoomedVideo
        <5>2. QED
          BY <2>c, <2>d, <3>3, <4>2, <5>1 DEF Replaced
      <4>3. CASE Astray(x) /\ Astray(Owner(k))
        BY <2>d, <4>3 DEF Astray
      <4>4. QED
        BY <4>1, <4>2, <4>3 DEF VideoOf
    <3>4. CASE x \in Lessons /\ k \in AttachmentKeys /\ k[1] = x /\ attached[k] # None
      <4>1. DoomedAttachment(r, k)
        BY <3>1, <3>2, <3>4 DEF DoomedWell
      <4>2. QED
        BY <2>b, <2>c, <2>d, <3>4, <4>1 DEF DoomedAttachment, Mixed
    <3>5. CASE x \in Courses /\ k \in ProductKeys /\ k[1] = x /\ k = row[x]["thumbnail"]
      <4>1. x \in condemned \cup doubtful
        BY <3>1, <3>2, <3>5, PurgedPicture DEF Deletes, Dropped
      <4>2. QED
        BY <2>c, <2>d, <4>1 DEF Condemned
    <3>6. CASE x \in Ebooks /\ k \in ProductKeys /\ k[1] = x
      <4>1. x \in condemned \cup doubtful
        BY <3>1, <3>2, <3>6, PurgedPicture, NameAssumption DEF Deletes
      <4>2. QED
        BY <2>c, <2>d, <4>1 DEF Condemned
    <3>7. QED
      BY <2>a, <3>3, <3>4, <3>5, <3>6
  <2>3. QED
    BY <2>1, <2>2
<1>3. QED
  BY <1>1, <1>2

\* A row of columns names what is there, but for products being deleted and
\* pictures in doubt.
LEMMA ProductRow ==
  ASSUME Typed, Kept, Served, NEW x \in Products, x \in rows,
         NEW k \in {row[x]["thumbnail"], row[x]["file"]} \ {None}
  PROVE  k \in objects \/ x \in condemned \cup doubtful
<1>1. k \in Named(x)
  BY NamedIs
<1>2. Product(x) = x /\ x \notin Lessons /\ x \in Items
  BY ProductType, NameAssumption DEF Items
<1>3. k \in ProductKeys
  BY <1>1, <1>2, NamedOwn DEF Kept
<1>4. k \notin condemned /\ k \notin shared
  BY <1>3, KeysDiffer DEF Typed, TypeOK
<1>5. QED
  BY <1>1, <1>2, <1>4 DEF Served, NoDangling

LEMMA ServedBy ==
  ASSUME Typed, Kept, Served, NEW r, Steady(r), Typed',
         \A q \in Requests : q # r => request'[q] = request[q],
         r \in Requests => Well(r)',
         NoDangling', VideoOnce', VideoWritten', OneName'
  PROVE  Served'
<1>1. ASSUME NEW q \in Requests
      PROVE  Well(q)'
  BY OthersWell
<1>2. QED
  BY <1>1 DEF Served

LEMMA VideoWrittenKept ==
  ASSUME Typed, Typed', VideoWritten, Forward,
         \A l \in Lessons : \/ video'[l] \in {video[l], None}
                           \/ \A k \in Keys : video'[l] = k => VideoOf(l, k)' /\ Written(k)'
  PROVE  VideoWritten'
<1>1. ASSUME NEW l \in Lessons, NEW k \in Keys, video'[l] = k
      PROVE  VideoOf(l, k)' /\ Written(k)'
  <2>1. CASE video'[l] \in {video[l], None}
    <3>1. video[l] = k /\ k # None
      BY <1>1, <2>1, KeyType
    <3>2. VideoOf(l, k) /\ Written(k)
      BY <3>1 DEF VideoWritten
    <3>3. QED
      BY <3>2, WrittenForward, VideoOfForward
  <2>2. QED
    BY <1>1, <2>1
<1>2. \A l \in Lessons : video'[l] \in Values
  BY DEF Typed, TypeOK
<1>3. ASSUME NEW l \in Lessons, video'[l] # None
      PROVE  VideoOf(l, video[l])' /\ Written(video[l])'
  <2>1. PICK k \in Keys : video'[l] = k
    BY <1>2, <1>3 DEF Values
  <2>2. VideoOf(l, k)' /\ Written(k)'
    BY <1>1, <2>1
  <2>3. QED
    BY <2>1, <2>2 DEF VideoOf, Written, Owner
<1>4. QED
  BY <1>3 DEF VideoWritten

\* Requests whose first step is taken, that go on, and that do nothing.
MovesOn(r) ==
  /\ Moves(r) /\ request[r].pc \notin {"new", "done"} /\ request'[r].pc # "new"
  /\ Writes(r) <=> Writes(r)'
  /\ Writes(r) /\ Aim(request'[r]) = "video" => Aim(request[r]) = "video"

MarksGrow ==
  /\ \A x \in condemned \cap Items : x \in condemned'
  /\ shared \subseteq shared' /\ Grows

LEMMA StartsForward ==
  ASSUME Typed, NEW r \in Requests, NEW x \in Items, request[r].pc = "new", Others(r), MarksGrow
  PROVE  Forward
<1>1. ASSUME NEW w \in Requests, request[w].pc # "new"
      PROVE  request'[w] = request[w]
  BY <1>1 DEF Others
<1>2. \A w \in Requests : Writes(w) => request[w].pc # "new"
  BY DEF Writes
<1>3. QED
  BY <1>1, <1>2 DEF Forward, MarksGrow, Past, Writes

LEMMA MovesForward ==
  ASSUME Typed, NEW r \in Requests, MovesOn(r), MarksGrow
  PROVE  Forward
<1>1. ASSUME NEW w \in Requests
      PROVE  /\ request'[w].item = request[w].item /\ request'[w].key = request[w].key
             /\ Writes(w) => Writes(w)'
             /\ Past(w) => Past(w)'
  <2>1. CASE w = r
    BY <2>1 DEF MovesOn, Moves, Past
  <2>2. CASE w # r
    BY <2>2 DEF MovesOn, Moves, Others, Past, Writes
  <2>3. QED
    BY <2>1, <2>2
<1>2. QED
  BY <1>1 DEF Forward, MarksGrow

LEMMA SameForward ==
  ASSUME request' = request, MarksGrow
  PROVE  Forward
BY DEF Forward, MarksGrow, Past, Writes

\* Whoever writes no picture of a course, and picks up no other than the row's.
LEMMA SpreadsBy ==
  ASSUME NEW r \in Requests, Others(r),
         \A c \in Courses : row'[c]["thumbnail"] \in {row[c]["thumbnail"], None},
         request'[r].pc = "write" /\ request'[r].item \in Courses =>
           request'[r].row["thumbnail"] \in {row[request'[r].item]["thumbnail"], None},
         \A k \in ProductKeys : k[1] \in Courses =>
           /\ k \in request'[r].doomed =>
                k \in request[r].doomed \/ k = row[k[1]]["thumbnail"] \/ k[1] \in doubtful'
           /\ k = request'[r].key => k = request[r].key \/ Unused(k) \/ k[1] \in doubtful'
  PROVE  Spreads(r)
<1>1. \A w \in Requests : w # r => request'[w] = request[w]
  BY DEF Others
<1>2. ASSUME NEW w \in Requests, request'[w].pc = "write", request'[w].item \in Courses
      PROVE  \/ request'[w].row["thumbnail"] \in {row[request'[w].item]["thumbnail"], None}
             \/ request'[w] = request[w]
  BY <1>1, <1>2
<1>3. ASSUME NEW w \in Requests, NEW k \in ProductKeys, k[1] \in Courses
      PROVE  /\ k \in request'[w].doomed =>
                  k \in request[w].doomed \/ k = row[k[1]]["thumbnail"] \/ k[1] \in doubtful'
             /\ k = request'[w].key => k = request[w].key \/ Unused(k) \/ k[1] \in doubtful'
  BY <1>1, <1>3
<1>4. QED
  BY <1>2, <1>3 DEF Spreads

\* A request that goes on, and does not write columns next.
LEMMA MoveSpreads ==
  ASSUME NEW r \in Requests, Moves(r),
         \A c \in Courses : row'[c]["thumbnail"] \in {row[c]["thumbnail"], None},
         request'[r].pc # "write" \/ request'[r].item \notin Courses,
         \A k \in ProductKeys : k[1] \in Courses /\ k \in request'[r].doomed =>
           k \in request[r].doomed \/ k[1] \in doubtful'
  PROVE  Spreads(r)
BY SpreadsBy DEF Moves

LEMMA MovesOnce ==
  ASSUME Typed, NEW r \in Requests, MovesOn(r), Forward, VideoOnce, OneName
  PROVE  VideoOnce' /\ OneName'
<1>1. ASSUME NEW w \in Requests
      PROVE  /\ request'[w].item = request[w].item /\ request'[w].key = request[w].key
             /\ Writes(w)' => Writes(w)
             /\ Active(w)' => Active(w)
  <2>1. CASE w = r
    BY <2>1 DEF MovesOn, Moves, Writes, Active
  <2>2. CASE w # r
    BY <2>2 DEF MovesOn, Moves, Others, Writes, Active
  <2>3. QED
    BY <2>1, <2>2
<1>2. VideoOnce'
  BY <1>1 DEF VideoOnce, Forward, Grows
<1>3. OneName'
  <2>1. \A k : Mixed(k) => Mixed(k)'
    BY MixedForward
  <2>2. QED
    BY <1>1, <2>1 DEF OneName
<1>4. QED
  BY <1>2, <1>3

LEMMA MoveServes ==
  ASSUME Typed, Kept, Served, Typed', NEW r \in Requests, MovesOn(r), Steady(r), Well(r)',
         NoDangling', VideoWritten'
  PROVE  Served'
<1>1. \A q \in Requests : q # r => request'[q] = request[q]
  BY DEF MovesOn, Moves, Others
<1>2. VideoOnce' /\ OneName'
  BY MovesOnce DEF Served, Steady
<1>3. QED
  BY <1>1, <1>2, ServedBy

LEMMA EndsOn ==
  ASSUME NEW r \in Requests, Ends(r), Active(r)
  PROVE  MovesOn(r)
BY DEF Ends, MovesOn, Active, Writes, Aim

LEMMA EndsWell ==
  ASSUME NEW r \in Requests, request'[r].pc = "done", request'[r].doomed = {}
  PROVE  Well(r)'
BY DEF Well, DoomedWell, Present, NewPicture, VideoWell, AttachmentWell, Sentenced, Pictured, Aim

\* Rows that say the same name the same.
LEMMA NamedSame ==
  ASSUME KeptTables, NEW x \in Items
  PROVE  Named(x)' = Named(x)
BY DEF KeptTables, Named, GetByLessonID

LEMMA NamedAlike ==
  ASSUME NEW x \in Items, video' = video, attached' = attached,
         row'[x]["thumbnail"] = row[x]["thumbnail"], row'[x]["file"] = row[x]["file"]
  PROVE  Named(x)' = Named(x)
<1>1. GetByLessonID(x)' = GetByLessonID(x)
  BY DEF GetByLessonID
<1>2. /\ x \in Lessons  => Named(x) = ({video[x]} \ {None}) \cup GetByLessonID(x)
      /\ x \in Products => Named(x) = {row[x]["thumbnail"], row[x]["file"]} \ {None}
      /\ x \in Modules  => Named(x) = {}
  BY NameAssumption DEF Named
<1>3. QED
  BY <1>1, <1>2, NamedIsNext DEF Items

\* The tables stay, and what is condemned stays so.
LEMMA QuietNoDangling ==
  ASSUME Typed, Kept, Served, NEW r, Steady(r), Typed', KeptTables,
         \A k \in AttachmentKeys : k \in condemned => k \in condemned'
  PROVE  NoDangling' /\ VideoWritten'
<1>1. \A x \in rows' : \A k \in Named(x)' : x \in rows /\ k \in Named(x)
  BY NamedSame DEF KeptTables, Typed, TypeOK
<1>2. VideoWritten'
  BY VideoWrittenKept DEF KeptTables, Served, Steady
<1>3. NoDangling'
  BY <1>1, <1>2, NoDanglingNext
<1>4. QED
  BY <1>2, <1>3

LEMMA QuietServes ==
  ASSUME Typed, Kept, Served, Typed', NEW r \in Requests, MovesOn(r), KeptTables,
         condemned \subseteq condemned', shared' = shared, Grows, Spreads(r),
         \A k \in objects : k \in objects' \/ Deletes(r, k),
         Well(r)'
  PROVE  Served'
<1>1. Forward
  BY MovesForward DEF MarksGrow
<1>2. Steady(r)
  BY <1>1 DEF Steady, KeptTables
<1>3. QED
  BY <1>2, QuietNoDangling, MoveServes

LEMMA StartServes ==
  ASSUME Typed, Kept, Served, Typed', NEW r \in Requests, NEW x \in Items, Starts(r, x), KeptTables,
         condemned \subseteq condemned', shared \subseteq shared', doubtful \subseteq doubtful',
         Spreads(r), objects' = objects, VideoOnce', OneName', Well(r)'
  PROVE  Served'
<1>1. request[r].pc = "new" /\ Others(r)
  BY DEF Starts
<1>2. Steady(r)
  BY <1>1, StartsForward DEF Steady, KeptTables, MarksGrow, Grows, Starts
<1>3. \A q \in Requests : q # r => request'[q] = request[q]
  BY <1>1 DEF Others
<1>4. QED
  BY <1>2, <1>3, QuietNoDangling, ServedBy

\* A new request that is about no video, or no attachment.
LEMMA StartsOnce ==
  ASSUME Typed, Served, NEW r \in Requests, Others(r), doubtful \subseteq doubtful',
         request'[r].key \notin Requests \/ request'[r].pc = "presigned"
  PROVE  VideoOnce'
<1>1. ASSUME NEW w \in Requests, w # r
      PROVE  request'[w] = request[w] /\ (Writes(w)' <=> Writes(w))
  BY <1>1 DEF Others, Writes
<1>2. ~(Writes(r)' /\ request'[r].key \in Requests)
  BY DEF Writes
<1>3. QED
  BY <1>1, <1>2 DEF Served, VideoOnce

LEMMA StartsOneName ==
  ASSUME Typed, Served, NEW r \in Requests, Others(r), shared \subseteq shared',
         doubtful \subseteq doubtful',
         request'[r].key \in AttachmentKeys =>
           \/ request'[r].key \in shared' \/ request'[r].key[1] \in doubtful'
           \/ \A q \in Requests : Active(q) => request[q].key # request'[r].key
  PROVE  OneName'
<1>1. ASSUME NEW w \in Requests, w # r
      PROVE  request'[w] = request[w] /\ (Active(w)' <=> Active(w))
  BY <1>1 DEF Others, Active
<1>2. ASSUME NEW k, Mixed(k)
      PROVE  Mixed(k)'
  BY <1>2 DEF Mixed
<1>3. ASSUME NEW v \in Requests, NEW w \in Requests, v # w, Active(v)', Active(w)',
             NEW k \in AttachmentKeys, request'[v].key = k, request'[w].key = k
      PROVE  Mixed(k)'
  <2>1. CASE v # r /\ w # r
    BY <1>1, <1>2, <1>3, <2>1 DEF Served, OneName
  <2>2. CASE v = r \/ w = r
    BY <1>1, <1>3, <2>2 DEF Mixed
  <2>3. QED
    BY <2>1, <2>2
<1>4. ASSUME NEW v \in Requests, NEW w \in Requests, v # w, Active(v)', Active(w)',
             request'[v].key = request'[w].key, request'[v].key \in AttachmentKeys
      PROVE  Mixed(request[v].key)'
  BY <1>3, <1>4 DEF Mixed
<1>5. QED
  BY <1>4 DEF OneName

LEMMA StartingServed ==
  ASSUME Typed, Kept, Served, Typed', NEW r \in Requests, Starting(r)
  PROVE  Served'
<1>0. /\ Products \subseteq Items /\ Lessons \subseteq Items /\ Modules \subseteq Items
      /\ Courses \subseteq Items /\ Ebooks \subseteq Items /\ Ebooks \subseteq Products
      /\ None \notin Requests /\ None \notin AttachmentKeys /\ None \notin ProductKeys
      /\ Lessons \cap Courses = {}
  BY KeyType, NameAssumption DEF Items, Products
\* A request without a key.
<1>n. ASSUME NEW x \in Items, Starts(r, x), KeptTables, condemned \subseteq condemned',
             shared' = shared, doubtful' = doubtful, objects' = objects,
             request'[r].key = None, Spreads(r), Well(r)'
      PROVE  Served'
  <2>1. Others(r)
    BY <1>n DEF Starts
  <2>2. VideoOnce'
    BY <1>0, <1>n, <2>1, StartsOnce
  <2>3. OneName'
    BY <1>0, <1>n, <2>1, StartsOneName
  <2>4. QED
    BY <1>n, <2>2, <2>3, StartServes
<1>1. ASSUME NEW x \in Products \cup Lessons, NEW column \in {"title", "setting"}, x \in rows,
             EditRow(r, x, column)
      PROVE  Served'
  <2>1. /\ Starts(r, x) /\ request'[r].pc = "write" /\ request'[r].item = x
        /\ request'[r].key = None /\ request'[r].doomed = {}
        /\ KeptTables /\ KeptMarks /\ objects' = objects
    BY <1>1, EditRowFacts DEF Starts
  <2>2. /\ request'[r].row["thumbnail"] = row[x]["thumbnail"]
        /\ request'[r].row["file"] = row[x]["file"]
    BY <1>1, EditRowFacts DEF Columns
  <2>3. ASSUME x \in Products, NEW k \in {row[x]["thumbnail"], row[x]["file"]} \ {None}
        PROVE  k \in objects \/ x \in condemned \cup doubtful
    BY <1>1, <2>3, ProductRow
  <2>4. Well(r)'
    BY <2>1, <2>2, <2>3 DEF Well, DoomedWell, Present, NewPicture, VideoWell, AttachmentWell,
       Sentenced, Pictured, Aim,
         KeptMarks
  <2>5. Spreads(r)
    BY <1>0, <2>1, <2>2, SpreadsBy DEF Starts, KeptTables
  <2>6. QED
    BY <1>0, <1>n, <2>1, <2>4, <2>5 DEF KeptMarks
<1>1a. ASSUME NEW c \in Courses, c \in rows, LinkPicture(r, c)
       PROVE  Served'
  <2>1. /\ Starts(r, c) /\ request'[r].pc = "write" /\ request'[r].item = c
        /\ request'[r].key = None /\ request'[r].doomed = {}
        /\ request'[r].row["thumbnail"] = None
        /\ KeptTables /\ KeptMarks /\ objects' = objects
    BY <1>1a, LinkPictureFacts DEF Starts
  <2>2. request'[r].row["file"] = row[c]["file"]
    BY <1>1a, LinkPictureFacts DEF Columns
  <2>3. ASSUME NEW k \in {row[c]["file"]} \ {None}
        PROVE  k \in objects \/ c \in condemned \cup doubtful
    BY <1>0, <1>1a, <2>3, ProductRow DEF Products
  <2>4. Well(r)'
    BY <2>1, <2>2, <2>3 DEF Well, DoomedWell, Present, NewPicture, VideoWell, AttachmentWell,
       Sentenced, Pictured, Aim,
         KeptMarks
  <2>5. Spreads(r)
    BY <1>0, <2>1, <2>2, SpreadsBy DEF Starts, KeptTables
  <2>6. QED
    BY <1>0, <1>n, <2>1, <2>4, <2>5 DEF KeptMarks
<1>2. ASSUME NEW c \in Courses, PermanentDelete(r, c)
      PROVE  Served'
  <2>1. /\ Starts(r, c) /\ request'[r].pc = "count" /\ request'[r].item = c
        /\ request'[r].key = None /\ request'[r].doomed = {row[c]["thumbnail"]} \ {None}
        /\ KeptTables /\ KeptMarks /\ objects' = objects
    BY <1>2, PermanentDeleteFacts DEF Starts
  <2>2. ASSUME NEW k \in request'[r].doomed
        PROVE  k \in ProductKeys /\ k[1] = c /\ k = row[c]["thumbnail"]
    BY <1>0, <2>1, <2>2 DEF Kept, RowsOwn, Owns, PicturesOf, Products
  <2>3. DoomedWell(r)'
    BY <2>1, <2>2, KeysDiffer DEF DoomedWell, DoomedPicture
  <2>4. Well(r)'
    BY <2>1, <2>2, <2>3 DEF Well, Present, NewPicture, VideoWell, AttachmentWell, Sentenced,
       Pictured, Aim
  <2>5. Spreads(r)
    BY <1>0, <2>1, <2>2, SpreadsBy DEF Starts, KeptTables
  <2>6. QED
    BY <1>0, <1>n, <2>1, <2>4, <2>5 DEF KeptMarks
<1>2a. ASSUME NEW c \in Courses, NEW n \in Names, QueueThumbnailUpdate(r, c, n)
       PROVE  Served'
  <2>1. PICK k \in ProductKeys : k[1] = c /\ request'[r].key = k /\ Unused(k)
    BY <1>2a, QueueThumbnailUpdateFacts
  <2>2. /\ Starts(r, c) /\ request'[r].item = c
        /\ request'[r].pc = "put" /\ request'[r].next = "picture"
        /\ request'[r].doomed = {row[c]["thumbnail"]} \ {None}
        /\ KeptTables /\ KeptMarks /\ objects' = objects
    BY <1>2a, QueueThumbnailUpdateFacts DEF Starts
  <2>3. Others(r)
    BY <2>2 DEF Starts
  <2>4. ASSUME NEW d \in request'[r].doomed
        PROVE  d \in ProductKeys /\ d[1] = c /\ d = row[c]["thumbnail"]
    BY <1>0, <2>2, <2>4 DEF Kept, RowsOwn, Owns, PicturesOf, Products
  <2>5. DoomedWell(r)'
    BY <2>2, <2>4, KeysDiffer DEF DoomedWell, DoomedPicture, Aim
  <2>6. NewPicture(r)'
    <3>1. row'[c]["thumbnail"] # k
      BY <1>0, <2>1, <2>2 DEF Unused, KeptTables
    <3>2. \A w \in Requests :
            request'[w].pc = "write" /\ request'[w].item = c => request'[w].row["thumbnail"] # k
      BY <2>1, <2>2, <2>3 DEF Unused, Others
    <3>3. \A w \in Requests : k \notin request'[w].doomed /\ (w # r => request'[w].key # k)
      BY <1>0, <2>1, <2>2, <2>3 DEF Unused, Others
    <3>4. QED
      BY <2>1, <2>2, <3>1, <3>2, <3>3 DEF NewPicture, Dropped
  <2>7. Well(r)'
    BY <2>2, <2>4, <2>5, <2>6 DEF Well, Present, VideoWell, AttachmentWell, Sentenced, Pictured, Aim
  <2>8. Spreads(r)
    BY <2>1, <2>2, <2>3, <2>4, SpreadsBy DEF KeptTables
  <2>9. VideoOnce' /\ OneName'
    BY <2>1, <2>2, <2>3, KeysDiffer, StartsOnce, StartsOneName DEF KeptMarks
  <2>10. QED
    BY <1>0, <2>2, <2>7, <2>8, <2>9, StartServes DEF KeptMarks
<1>3. ASSUME NEW m \in Modules, UpdateModule(r, m)
      PROVE  Served'
  <2>1. /\ Starts(r, m) /\ request'[r].pc \in {"retitle", "reorder"}
        /\ request'[r].key = None /\ request'[r].doomed = {}
        /\ KeptTables /\ KeptMarks /\ objects' = objects
    BY <1>3, UpdateModuleFacts
  <2>2. Well(r)'
    BY <2>1 DEF Well, DoomedWell, Present, NewPicture, VideoWell, AttachmentWell, Sentenced,
       Pictured, Aim
  <2>3. Spreads(r)
    BY <1>0, <2>1, SpreadsBy DEF Starts, KeptTables
  <2>4. QED
    BY <1>0, <1>n, <2>1, <2>2, <2>3 DEF KeptMarks
\* The video of a lesson was written by an upload.
<1>v. ASSUME NEW l \in Lessons, NEW k \in Keys, video[l] = k, Forward
      PROVE  /\ k \in Requests => /\ Written(k)' /\ request'[k].item \in Lessons
                                  /\ request'[k].item = l \/ request'[k].item \in doubtful'
             /\ k \in AttachmentKeys \cup ProductKeys => k[1] \in doubtful'
  <2>1. Written(k) /\ VideoOf(l, k)
    BY <1>v, KeyType DEF Served, VideoWritten
  <2>2. k \in AttachmentKeys \cup ProductKeys => k[1] \in doubtful
    BY <2>1, VideoItem, Owners, KeysDiffer
  <2>3. k \in Requests => request'[k].item = request[k].item
    BY <1>v, <2>1, VideoItem DEF Forward
  <2>4. QED
    BY <1>v, <2>1, <2>2, <2>3, WrittenForward, VideoItem DEF Forward, Grows
<1>4. ASSUME NEW l \in Lessons, DeleteLesson(r, l)
      PROVE  Served'
  <2>1. /\ Starts(r, l) /\ request'[r].item = l /\ request'[r].key = None
        /\ request'[r].doomed = {video[l]} \ {None} /\ request'[r].next = "list"
        /\ request'[r].pc \in {"list", "purge"}
        /\ KeptTables /\ condemned' = condemned \cup {l}
        /\ shared' = shared /\ doubtful' = doubtful /\ objects' = objects
    BY <1>4, DeleteLessonFacts DEF Starts
  <2>2. Forward
    BY <1>0, <2>1, StartsForward DEF Starts, MarksGrow, Grows
  <2>3. ASSUME NEW k \in request'[r].doomed
        PROVE  /\ k \in Requests => DoomedVideo(r, k)'
               /\ k \in AttachmentKeys \cup ProductKeys => k[1] \in doubtful'
    <3>1. k \in Keys /\ video[l] = k
      BY <2>1, <2>3 DEF Typed, TypeOK, Values
    <3>2. /\ k \in Requests => /\ Written(k)' /\ request'[k].item \in Lessons
                               /\ request'[k].item = l \/ request'[k].item \in doubtful'
          /\ k \in AttachmentKeys \cup ProductKeys => k[1] \in doubtful'
      BY <1>v, <2>2, <3>1
    <3>3. QED
      BY <2>1, <3>1, <3>2 DEF DoomedVideo, Replaced, Condemned, Aim
  <2>4. DoomedWell(r)'
    BY <2>3 DEF DoomedWell, DoomedPicture, DoomedAttachment, Mixed
  <2>5. Well(r)'
    BY <2>1, <2>4 DEF Well, Present, NewPicture, VideoWell, AttachmentWell, Sentenced, Pictured, Aim
  <2>6. Spreads(r)
    BY <1>0, <2>1, <2>3, SpreadsBy DEF Starts, KeptTables
  <2>7. QED
    BY <1>0, <1>n, <2>1, <2>5, <2>6
\* The video that an upload replaces.
<1>u. ASSUME NEW l \in Lessons, NEW k \in Keys, Starts(r, l), Forward,
             request'[r].pc \in {"put", "video"}, request'[r].pc = "put" => request'[r].next = "video",
             request'[r].key = k, request'[r].doomed = OldVideo(l, k)
      PROVE  /\ DoomedWell(r)'
             /\ \A v \in request'[r].doomed : v \in ProductKeys => v[1] \in doubtful'
  <2>1. ASSUME NEW v \in request'[r].doomed
        PROVE  /\ v \in Requests => DoomedVideo(r, v)'
               /\ v \in AttachmentKeys \cup ProductKeys => v[1] \in doubtful'
    <3>1. v \in Keys /\ video[l] = v /\ v # k
      BY <1>u, <2>1 DEF OldVideo, Typed, TypeOK, Values
    <3>2. /\ v \in Requests => /\ Written(v)' /\ request'[v].item \in Lessons
                               /\ request'[v].item = l \/ request'[v].item \in doubtful'
          /\ v \in AttachmentKeys \cup ProductKeys => v[1] \in doubtful'
      BY <1>u, <1>v, <3>1
    <3>3. QED
      BY <1>u, <3>1, <3>2 DEF DoomedVideo, Aim, Starts
  <2>2. QED
    BY <2>1 DEF DoomedWell, DoomedPicture, DoomedAttachment, Mixed
<1>5. ASSUME NEW l \in Lessons, UploadVideo(r, l)
      PROVE  Served'
  <2>1. /\ Starts(r, l) /\ request'[r].pc = "put" /\ request'[r].next = "video"
        /\ request'[r].key = r /\ request'[r].doomed = OldVideo(l, r)
        /\ KeptTables /\ KeptMarks /\ objects' = objects
    BY <1>5, UploadVideoFacts
  <2>2. Forward /\ Others(r) /\ request[r].pc = "new"
    BY <1>0, <2>1, StartsForward DEF Starts, MarksGrow, Grows, KeptMarks
  <2>3. /\ DoomedWell(r)'
        /\ \A v \in request'[r].doomed : v \in ProductKeys => v[1] \in doubtful'
    BY <1>u, <2>1, <2>2, KeyType
  <2>4. Well(r)'
    <3>1. VideoOf(l, r)'
      BY <2>1 DEF VideoOf, Starts
    <3>2. VideoWell(r)'
      BY <2>1, <3>1 DEF VideoWell, VideoOf, Starts
    <3>3. QED
      BY <2>1, <2>3, <3>2 DEF Well, Present, NewPicture, AttachmentWell, Sentenced, Pictured, Aim
  <2>5. ASSUME NEW w \in Requests, w # r
        PROVE  request'[w] = request[w] /\ request[w].key # r
    <3>1. KeyOf(w) /\ StepOf(w) /\ StepOf(r)
      BY DEF Typed
    <3>2. Owner(r) = None /\ None \notin Items
      BY <2>2, <3>1, Owners, KeysDiffer DEF StepOf
    <3>3. request[w].key # r
      BY <1>0, <2>2, <2>5, <3>1, <3>2 DEF KeyOf, StepOf, At, Astray
    <3>4. QED
      BY <2>2, <2>5, <3>3 DEF Others
  <2>6. VideoOnce'
    BY <2>1, <2>5 DEF VideoOnce, Served, Writes, KeptMarks
  <2>7. OneName'
    BY <2>1, <2>2, KeysDiffer, StartsOneName DEF KeptMarks
  <2>8. Spreads(r)
    BY <2>1, <2>2, <2>3, KeysDiffer, SpreadsBy DEF KeptTables
  <2>9. QED
    BY <1>0, <2>1, <2>4, <2>6, <2>7, <2>8, StartServes DEF KeptMarks
<1>6. ASSUME NEW l \in Lessons, GetVideoUploadURL(r, l)
      PROVE  Served'
  <2>1. /\ Starts(r, l) /\ request'[r].pc = "presigned"
        /\ request'[r].key = r /\ request'[r].doomed = {}
        /\ KeptTables /\ KeptMarks /\ objects' = objects
    BY <1>6, GetVideoUploadURLFacts
  <2>2. Others(r)
    BY <2>1 DEF Starts
  <2>3. Well(r)'
    BY <2>1 DEF Well, DoomedWell, Present, NewPicture, VideoWell, AttachmentWell, Sentenced,
       Pictured, Aim
  <2>4. VideoOnce' /\ OneName'
    BY <2>1, <2>2, KeysDiffer, StartsOnce, StartsOneName DEF KeptMarks
  <2>5. Spreads(r)
    BY <2>1, <2>2, KeysDiffer, SpreadsBy DEF KeptTables
  <2>6. QED
    BY <1>0, <2>1, <2>3, <2>4, <2>5, StartServes DEF KeptMarks
<1>7. ASSUME NEW l \in Lessons, NEW k \in Keys, CompleteVideoUpload(r, l, k)
      PROVE  Served'
  <2>1. /\ Starts(r, l) /\ k # r /\ Given(k)
        /\ request'[r].pc = "video" /\ request'[r].item = l
        /\ request'[r].key = k /\ request'[r].doomed = OldVideo(l, k)
        /\ KeptTables /\ condemned' = condemned /\ shared' = shared
        /\ doubtful \subseteq doubtful' /\ (Completed(k) => l \in doubtful')
        /\ objects' = objects
    BY <1>7, CompleteVideoUploadFacts DEF Starts
  <2>2. PICK x \in Items : x = Owner(k) /\ x = Owner(k)'
    BY <1>7, CompleteVideoUploadFacts
  <2>3. \/ IsPut(k, l)
        \/ l \in doubtful' /\ x \in doubtful' /\ Product(l) \in untidy' /\ Product(x) \in untidy'
    BY <1>7, <2>2, CompleteVideoUploadFacts
  <2>4. Forward /\ Others(r) /\ request[r].pc = "new" /\ Grows
    BY <1>0, <2>1, StartsForward DEF Starts, MarksGrow, Grows
  <2>5. /\ DoomedWell(r)'
        /\ \A v \in request'[r].doomed : v \in ProductKeys => v[1] \in doubtful'
    BY <1>u, <2>1, <2>4
  <2>6. k \in objects \/ l \in doubtful'
    <3>1. ASSUME IsPut(k, l), ~Completed(k)
          PROVE  k \in objects
      BY <3>1 DEF Served, Well, Present, IsPut, At
    <3>2. QED
      BY <2>1, <2>3, <3>1
  <2>7. k \in Requests => /\ request[k].item \in Lessons /\ request'[k].item = request[k].item
                          /\ x = request[k].item
    <3>1. ASSUME k \in Requests
          PROVE  request[k].item \in Lessons /\ request[k].pc # "new"
      BY <2>1, <3>1, GivenOwner, KeyType DEF Given, Typed, KeyOf
    <3>2. QED
      BY <2>2, <2>4, <3>1, Owners DEF Forward
  <2>8. VideoOf(l, k)'
    <3>1. CASE IsPut(k, l)
      BY <2>7, <3>1 DEF VideoOf, IsPut
    <3>2. CASE l \in doubtful' /\ x \in doubtful' /\ Product(l) \in untidy' /\ Product(x) \in untidy'
      <4>1. Astray(l)' /\ Astray(x)'
        BY <1>0, <3>2 DEF Astray
      <4>2. QED
        BY <2>2, <2>7, <4>1 DEF VideoOf, Astray
    <3>3. QED
      BY <2>3, <3>1, <3>2
  <2>9. VideoWell(r)'
    BY <2>1, <2>8 DEF VideoWell, VideoOf, Owner
  <2>10. Well(r)'
    BY <2>1, <2>5, <2>6, <2>9
       DEF Well, Present, NewPicture, AttachmentWell, Sentenced, Pictured, Aim
  <2>11. ASSUME NEW w \in Requests, w # r
         PROVE  /\ request'[w] = request[w] /\ (Writes(w)' <=> Writes(w))
                /\ Writes(w) /\ request[w].key = k /\ k \in Requests =>
                     l \in doubtful' /\ request[w].item \in doubtful'
    <3>1. request'[w] = request[w] /\ (Writes(w)' <=> Writes(w))
      BY <2>4, <2>11 DEF Others, Writes
    <3>2. ASSUME Writes(w), request[w].key = k, k \in Requests
          PROVE  l \in doubtful' /\ request[w].item \in doubtful'
      <4>1. Completed(k)
        BY <3>2 DEF Completed, Completes, Writes
      <4>2. KeyOf(w) /\ k # None
        BY KeyType DEF Typed
      <4>3. request[w].item = x \/ request[w].item \in doubtful
        BY <2>2, <3>2, <4>2 DEF KeyOf, Astray
      <4>4. x = l \/ x \in doubtful'
        BY <2>3, <2>7, <3>2 DEF IsPut
      <4>5. QED
        BY <2>1, <4>1, <4>3, <4>4
    <3>3. QED
      BY <3>1, <3>2
  <2>12. VideoOnce'
    BY <2>1, <2>11 DEF VideoOnce, Served
  <2>13. k \in AttachmentKeys \cup ProductKeys => k[1] \in doubtful'
    BY <2>2, <2>3, Owners, KeysDiffer DEF IsPut
  <2>14. OneName'
    BY <2>1, <2>4, <2>13, StartsOneName
  <2>15. Spreads(r)
    BY <2>1, <2>4, <2>5, <2>13, SpreadsBy DEF KeptTables
  <2>16. QED
    BY <1>0, <2>1, <2>10, <2>12, <2>14, <2>15, StartServes
<1>8. ASSUME NEW l \in Lessons, NEW n \in Names, AddAttachment(r, l, n)
      PROVE  Served'
  <2>0. PICK k \in AttachmentKeys : k = <<l, n>> /\ k[1] = l
    BY KeyType
  <2>1. /\ Starts(r, l) /\ request'[r].pc = "put" /\ request'[r].next = "attach"
        /\ request'[r].key = k /\ request'[r].doomed = {}
        /\ KeptTables /\ condemned' = condemned /\ doubtful' = doubtful
        /\ shared \subseteq shared' /\ objects' = objects
        /\ attached[k] # None \/ (\E q \in Requests : Active(q) /\ request[q].key = k) => k \in shared'
    BY <1>8, <2>0, AddAttachmentFacts
  <2>2. Others(r)
    BY <2>1 DEF Starts
  <2>3. Well(r)'
    BY <2>1 DEF Well, DoomedWell, Present, NewPicture, VideoWell, AttachmentWell, Sentenced,
       Pictured, Aim,
         Mixed, KeptTables
  <2>4. VideoOnce' /\ OneName'
    BY <2>1, <2>2, KeysDiffer, StartsOnce, StartsOneName
  <2>5. Spreads(r)
    BY <2>1, <2>2, KeysDiffer, SpreadsBy DEF KeptTables
  <2>6. QED
    BY <1>0, <2>1, <2>3, <2>4, <2>5, StartServes
<1>9. ASSUME NEW k \in AttachmentKeys, DeleteAttachment(r, k)
      PROVE  Served'
  <2>1. /\ Starts(r, k[1]) /\ k[1] \in Items /\ request'[r].pc = "purge" /\ request'[r].next = "detach"
        /\ request'[r].key = k /\ request'[r].doomed = {k} /\ request'[r].id = attached[k]
        /\ KeptTables /\ condemned' = condemned \cup {k} /\ doubtful' = doubtful
        /\ shared \subseteq shared' /\ objects' = objects
        /\ (\E q \in Requests : Active(q) /\ request[q].key = k) => k \in shared'
    BY <1>0, <1>9, DeleteAttachmentFacts
  <2>2. Others(r)
    BY <2>1 DEF Starts
  <2>3. DoomedWell(r)'
    BY <2>1, KeysDiffer DEF DoomedWell, DoomedAttachment, Aim, Active
  <2>4. Well(r)'
    BY <2>1, <2>3 DEF Well, Present, NewPicture, VideoWell, AttachmentWell, Sentenced, Pictured,
       Aim, KeptTables
  <2>5. VideoOnce' /\ OneName'
    BY <2>1, <2>2, KeysDiffer, StartsOnce, StartsOneName
  <2>6. Spreads(r)
    BY <2>1, <2>2, KeysDiffer, SpreadsBy DEF KeptTables
  <2>7. QED
    BY <1>0, <2>1, <2>4, <2>5, <2>6, StartServes
<1>10. ASSUME NEW b \in Ebooks, NEW kind \in {"thumbnail", "file"}, NEW n \in Names,
              UploadEbook(r, b, kind, n)
       PROVE  Served'
  <2>1. /\ Starts(r, b) /\ KeptTables /\ KeptMarks /\ objects' = objects
        /\ request'[r].pc = "put" /\ request'[r].next = "read" /\ request'[r].doomed = {}
    BY <1>10, UploadEbookFacts
  <2>2. PICK k \in ProductKeys : k[1] = b /\ request'[r].key = k
    BY <1>10, UploadEbookFacts
  <2>o. Others(r) /\ b \notin Courses
    BY <2>1, NameAssumption DEF Starts
  <2>3. Well(r)'
    BY <2>1, <2>2 DEF Well, DoomedWell, Present, NewPicture, VideoWell, AttachmentWell, Sentenced,
       Pictured, Aim
  <2>4. VideoOnce' /\ OneName'
    BY <2>1, <2>2, <2>o, KeysDiffer, StartsOnce, StartsOneName DEF KeptMarks
  <2>5. Spreads(r)
    BY <2>1, <2>2, <2>o, SpreadsBy DEF KeptTables
  <2>6. QED
    BY <1>0, <2>1, <2>3, <2>4, <2>5, StartServes DEF KeptMarks
<1>11. ASSUME NEW b \in Ebooks, DeleteEbook(r, b)
       PROVE  Served'
  <2>1. /\ Starts(r, b) /\ request'[r].item = b /\ request'[r].key = None
        /\ request'[r].doomed = {row[b]["file"], row[b]["thumbnail"]} \ {None}
        /\ request'[r].next = "delete" /\ request'[r].pc \in {"delete", "purge"}
        /\ KeptTables /\ condemned' = condemned \cup {b}
        /\ shared' = shared /\ doubtful' = doubtful /\ objects' = objects
    BY <1>11, DeleteEbookFacts DEF Starts
  <2>2. b \notin Courses /\ b \in Products
    BY <1>0, NameAssumption
  <2>3. \A k \in request'[r].doomed : k \in ProductKeys /\ k[1] = b
    <3>1. Owns(b, row[b])
      BY <1>0, <2>2 DEF Kept, RowsOwn, Items
    <3>2. row[b]["thumbnail"] \in PicturesOf(b) /\ row[b]["file"] \in PicturesOf(b)
      BY <2>2, <3>1 DEF Owns, FilesOf
    <3>3. QED
      BY <2>1, <3>2 DEF PicturesOf
  <2>4. DoomedWell(r)'
    BY <2>1, <2>3, KeysDiffer DEF DoomedWell, DoomedPicture
  <2>5. Well(r)'
    BY <2>1, <2>4 DEF Well, Present, NewPicture, VideoWell, AttachmentWell, Sentenced, Pictured, Aim
  <2>6. Spreads(r)
    BY <1>0, <2>1, <2>2, <2>3, SpreadsBy DEF Starts, KeptTables
  <2>7. QED
    BY <1>0, <1>n, <2>1, <2>5, <2>6
<1>12. ASSUME NEW c \in Courses, SoftDelete(r, c)
       PROVE  Served'
  <2>1. /\ request[r].pc = "new" /\ Others(r) /\ request'[r].pc = "done"
        /\ request'[r].key = None /\ request'[r].doomed = {}
        /\ c \in rows /\ SetTo(c, "setting", r)
        /\ UNCHANGED <<rows, video, attached, objects>> /\ KeptMarks
    BY <1>12, SoftDeleteFacts
  <2>a. ASSUME NEW x \in Items
        PROVE  row'[x]["thumbnail"] = row[x]["thumbnail"] /\ row'[x]["file"] = row[x]["file"]
    BY <2>1 DEF SetTo, Columns
  <2>b. Spreads(r) /\ Grows
    BY <1>0, <1>12, <2>1, <2>a, SpreadsBy, StartingGrows DEF Starting
  <2>2. Steady(r)
    BY <1>0, <2>1, <2>b, StartsForward DEF Steady, MarksGrow, KeptMarks
  <2>3. ASSUME NEW x \in Items
        PROVE  Named(x)' = Named(x)
    BY <2>1, <2>a, NamedAlike
  <2>4. \A x \in rows' : \A k \in Named(x)' : x \in rows /\ k \in Named(x)
    BY <2>1, <2>3 DEF Typed, TypeOK
  <2>5. VideoWritten'
    BY <2>1, <2>2, VideoWrittenKept DEF Served, Steady
  <2>6. NoDangling'
    BY <2>1, <2>2, <2>4, <2>5, NoDanglingNext DEF KeptMarks
  <2>7. VideoOnce' /\ OneName'
    BY <1>0, <2>1, StartsOnce, StartsOneName DEF KeptMarks
  <2>8. Well(r)'
    BY <2>1, EndsWell
  <2>9. \A q \in Requests : q # r => request'[q] = request[q]
    BY <2>1 DEF Others
  <2>10. QED
    BY <2>2, <2>5, <2>6, <2>7, <2>8, <2>9, ServedBy
<1>13. QED
  BY <1>1, <1>1a, <1>2, <1>2a, <1>3, <1>4, <1>5, <1>6, <1>7, <1>8, <1>9, <1>10, <1>11,
     <1>12 DEF Starting

\* What the removal of x leaves says what it said.
LEMMA RemoveNames ==
  ASSUME Typed, NEW x \in Items, Removes(x)
  PROVE  /\ \A y \in rows' : \A k \in Named(y)' : y \in rows /\ k \in Named(y)
         /\ \A l \in Lessons : video'[l] \in {video[l], None}
         /\ \A k \in AttachmentKeys : attached'[k] \in {attached[k], None}
<1>1. ASSUME NEW y \in rows', NEW k \in Named(y)'
      PROVE  y \in rows /\ k \in Named(y)
  <2>1. y \in rows /\ y \notin Below(x) /\ y \in Items
    BY DEF Removes, Typed, TypeOK
  <2>2. CASE y \in Lessons
    <3>1. k \in ({video'[y]} \ {None}) \cup GetByLessonID(y)'
      BY <2>2, NamedIsNext
    <3>2. video'[y] = video[y]
      BY <2>1, <2>2 DEF Removes
    <3>3. GetByLessonID(y)' = GetByLessonID(y)
      BY <2>1 DEF Removes, GetByLessonID
    <3>4. QED
      BY <2>1, <2>2, <3>1, <3>2, <3>3, NamedIs
  <2>3. CASE y \in Products
    <3>1. row'[y] = row[y]
      BY <2>1 DEF Removes
    <3>2. QED
      BY <2>1, <2>3, <3>1, NamedIs, NamedIsNext
  <2>4. CASE y \in Modules
    BY <2>4, NamedIsNext
  <2>5. QED
    BY <2>1, <2>2, <2>3, <2>4 DEF Items
<1>2. QED
  BY <1>1 DEF Removes

LEMMA EndServes ==
  ASSUME Typed, Kept, Served, Typed', NEW r \in Requests, Ends(r), Active(r), KeptTables,
         condemned' = condemned, shared' = shared, Grows, objects' = objects
  PROVE  Served'
<1>1. MovesOn(r)
  BY EndsOn
<1>2. Well(r)'
  BY EndsWell DEF Ends
<1>3. Spreads(r)
  BY MoveSpreads DEF Ends, KeptTables
<1>4. QED
  BY <1>1, <1>2, <1>3, QuietServes

LEMMA SteppingServed ==
  ASSUME Typed, Kept, Served, Typed', NEW r \in Requests, Stepping(r)
  PROVE  Served'
<1>0. /\ Products \subseteq Items /\ Lessons \subseteq Items /\ Modules \subseteq Items
      /\ Courses \subseteq Items /\ Ebooks \subseteq Items /\ Ebooks \subseteq Products
      /\ Lessons \cap Courses = {} /\ Ebooks \cap Courses = {} /\ Modules \cap Courses = {}
  BY NameAssumption DEF Items, Products
<1>w. /\ DoomedWell(r) /\ Present(r) /\ NewPicture(r) /\ VideoWell(r) /\ AttachmentWell(r)
      /\ Sentenced(r) /\ Pictured(r)
  BY DEF Served, Well
<1>g. Grows
  BY SteppingGrows
\* A step that leaves the tables alone.
<1>q. ASSUME MovesOn(r), KeptTables, condemned \subseteq condemned', shared' = shared,
             request'[r].pc # "write" \/ request'[r].item \notin Courses,
             \A k \in ProductKeys : k[1] \in Courses /\ k \in request'[r].doomed =>
               k \in request[r].doomed \/ k[1] \in doubtful',
             \A k \in objects : k \in objects' \/ Deletes(r, k),
             Forward /\ Spreads(r) => Well(r)'
      PROVE  Served'
  <2>1. Forward
    BY <1>g, <1>q, MovesForward DEF MarksGrow
  <2>2. Spreads(r)
    BY <1>q, MoveSpreads DEF MovesOn, KeptTables
  <2>3. QED
    BY <1>g, <1>q, <2>1, <2>2, QuietServes
\* The video that the request is to name.
<1>x. ASSUME MovesOn(r), Forward
      PROVE  VideoWell(r)'
  <2>1. PICK l, k : l = request[r].item /\ k = request[r].key
    OBVIOUS
  <2>2. request'[r].item = l /\ request'[r].key = k
    BY <1>x, <2>1 DEF MovesOn, Moves
  <2>3. ASSUME Aim(request'[r]) = "video"
        PROVE  VideoOf(l, k)'
    <3>1. Aim(request[r]) = "video"
      BY <1>x, <2>3 DEF MovesOn, Writes, Aim
    <3>2. l \in Lessons /\ VideoOf(l, k)
      BY <1>w, <2>1, <3>1, RequestFacts DEF VideoWell, StepOf
    <3>3. QED
      BY <1>x, <3>2, VideoOfForward
  <2>4. QED
    BY <2>2, <2>3 DEF VideoWell, VideoOf, Owner
\* An object whose deletion the step does not bring nearer.
<1>d. ASSUME MovesOn(r), Forward, video' = video, attached' = attached,
             condemned \subseteq condemned',
             request'[r].pc \notin {"purge", "new"}, request'[r].doomed = request[r].doomed,
             request[r].pc \notin {"count", "purge"}, Aim(request[r]) # "detach",
             Aim(request[r]) = "picture" => Aim(request'[r]) = "picture"
      PROVE  DoomedWell(r)'
  <2>1. ASSUME NEW k \in request[r].doomed
        PROVE  /\ k \in Requests => DoomedVideo(r, k)'
               /\ k \in ProductKeys => DoomedPicture(r, k)'
               /\ k \in AttachmentKeys => DoomedAttachment(r, k)'
    <3>1. ASSUME k \in Requests
          PROVE  DoomedVideo(r, k)'
      <4>1. DoomedVideo(r, k)
        BY <1>w, <3>1 DEF DoomedWell
      <4>2. Written(k) /\ request[k].item \in Lessons
        BY <4>1 DEF DoomedVideo
      <4>3. request[k].pc # "new"
        BY <3>1, <4>2, NameAssumption DEF Typed, StepOf, Items
      <4>4. Written(k)' /\ request'[k].item = request[k].item
        BY <1>d, <3>1, <4>2, <4>3, WrittenForward DEF Forward
      <4>5. Aim(request'[r]) = "video" => Aim(request[r]) = "video"
        <5>1. request[r].pc \in {"presigned", "uploaded"} => request'[r].pc # "video"
          BY <1>d DEF MovesOn, Writes
        <5>2. QED
          BY <1>d, <5>1 DEF MovesOn, Writes, Aim
      <4>6. QED
        BY <1>d, <1>g, <4>1, <4>2, <4>4, <4>5 DEF DoomedVideo, MovesOn, Moves, Grows
    <3>2. ASSUME k \in ProductKeys
          PROVE  DoomedPicture(r, k)'
      BY <1>d, <1>g, <1>w, <3>2 DEF DoomedWell, DoomedPicture, Grows
    <3>4. ASSUME k \in AttachmentKeys
          PROVE  DoomedAttachment(r, k)'
      <4>1. DoomedAttachment(r, k) /\ k[1] \in Items
        BY <1>0, <1>w, <3>4, KeyType DEF DoomedWell
      <4>2. Condemned(k[1]) \/ Mixed(k)
        BY <1>d, <4>1 DEF DoomedAttachment
      <4>3. QED
        BY <1>d, <4>1, <4>2, CondemnedForward, MixedForward DEF DoomedAttachment
    <3>5. QED
      BY <3>1, <3>2, <3>4
  <2>2. request'[r].item = request[r].item
    BY <1>d DEF MovesOn, Moves
  <2>3. QED
    BY <1>d, <2>1, <2>2 DEF DoomedWell
<1>1. CASE Count(r)
  <2>1. request[r].pc = "count" /\ request[r].item \in Courses /\ Active(r)
        /\ KeptTables /\ shared' = shared /\ doubtful' = doubtful /\ objects' = objects
    BY <1>1, CountFacts DEF Active
  <2>2. CASE Ends(r) /\ condemned' = condemned
    BY <1>g, <2>1, <2>2, EndServes
  <2>3. CASE Clears(r, request[r].doomed, "list") /\ condemned' = condemned \cup {request[r].item}
    <3>1. MovesOn(r) /\ request'[r].pc \in {"list", "purge"} /\ request'[r].next = "list"
          /\ request'[r].item = request[r].item /\ request'[r].doomed = request[r].doomed
      BY <2>1, <2>3 DEF Clears, Moves, MovesOn, Writes, Aim
    <3>2. \A k \in request[r].doomed : k \in ProductKeys /\ k[1] = request[r].item
      BY <1>w, <2>1 DEF Pictured
    <3>3. DoomedWell(r)'
      BY <2>1, <2>3, <3>1, <3>2, KeysDiffer DEF DoomedWell, DoomedPicture
    <3>4. Well(r)'
      BY <2>3, <3>1, <3>3 DEF Well, Present, NewPicture, VideoWell, AttachmentWell, Sentenced,
         Pictured, Aim
    <3>5. QED
      BY <1>q, <2>1, <2>3, <3>1, <3>4
  <2>4. QED
    BY <1>1, <2>2, <2>3, CountFacts
<1>2. CASE Put(r)
  <2>1. /\ request[r].pc = "put" /\ request[r].next \in {"video", "attach", "read", "picture"}
        /\ Advances(r, request[r].next) /\ objects' = objects \cup {request[r].key}
        /\ KeptTables /\ KeptMarks
    BY <1>2, PutFacts
  <2>2. /\ request'[r].pc = request[r].next /\ request'[r].item = request[r].item
        /\ request'[r].key = request[r].key /\ request'[r].doomed = request[r].doomed
        /\ Aim(request'[r]) = Aim(request[r]) /\ MovesOn(r)
    BY <2>1 DEF Advances, Moves, MovesOn, Writes, Aim
  <2>3. DoomedWell(r)' /\ VideoWell(r)'
    <3>1. Forward
      BY <2>1, <2>2, <1>g, MovesForward DEF MarksGrow, KeptMarks
    <3>2. QED
      BY <1>d, <1>x, <2>1, <2>2, <3>1 DEF KeptTables, KeptMarks, Aim
  <2>4. Present(r)' /\ Sentenced(r)' /\ Pictured(r)'
    <3>1. Pictured(r)'
      BY <1>w, <2>1, <2>2 DEF Pictured, Aim
    <3>2. QED
      BY <2>1, <2>2, <3>1 DEF Present, Sentenced, Aim
  <2>5. AttachmentWell(r)'
    BY <1>w, <2>1, <2>2 DEF AttachmentWell, Aim, Mixed, KeptTables, KeptMarks
  <2>6. Forward /\ Spreads(r) => NewPicture(r)'
    BY <1>w, <2>1, <2>2, NewPictureKept
  <2>7. QED
    BY <1>q, <2>1, <2>2, <2>3, <2>4, <2>5, <2>6 DEF Well, KeptMarks
<1>3. CASE ClientPut(r)
  <2>1. /\ request[r].pc = "presigned" /\ Advances(r, "uploaded") /\ objects' = objects \cup {r}
        /\ KeptTables /\ KeptMarks
    BY <1>3, ClientPutFacts
  <2>2. /\ request'[r].pc = "uploaded" /\ request'[r].doomed = request[r].doomed /\ MovesOn(r)
    BY <2>1 DEF Advances, Moves, MovesOn, Writes, Aim
  <2>3. Forward
    BY <2>1, <2>2, <1>g, MovesForward DEF MarksGrow, KeptMarks
  <2>4. DoomedWell(r)'
    BY <1>d, <2>1, <2>2, <2>3 DEF KeptTables, KeptMarks, Aim
  <2>5. Well(r)'
    BY <2>1, <2>2, <2>4 DEF Well, Present, NewPicture, VideoWell, AttachmentWell, Sentenced,
       Pictured, Aim
  <2>6. QED
    BY <1>q, <2>1, <2>2, <2>5 DEF KeptMarks
<1>4. CASE Fail(r)
  BY <1>4, <1>g, FailFacts, EndServes DEF KeptMarks
<1>5. CASE Purge(r)
  <2>1. /\ request[r].pc = "purge" /\ KeptTables /\ KeptMarks
        /\ request[r].next \in {"list", "delete", "detach", "done"}
    BY <1>5, PurgeFacts, RequestFacts DEF StepOf
  <2>2. PICK k \in request[r].doomed :
          /\ Clears(r, request[r].doomed \ {k}, request[r].next)
          /\ objects' \in {objects, objects \ {k}}
    BY <1>5, PurgeFacts
  <2>3. /\ request'[r].item = request[r].item /\ request'[r].key = request[r].key
        /\ request'[r].id = request[r].id /\ request'[r].next = request[r].next
        /\ Aim(request'[r]) = Aim(request[r]) /\ Aim(request[r]) = request[r].next
        /\ request'[r].pc \in {"purge", request[r].next}
        /\ request'[r].doomed \subseteq request[r].doomed
        /\ request'[r].doomed # {} => request'[r].pc = "purge"
        /\ MovesOn(r)
    BY <2>1, <2>2 DEF Clears, Moves, MovesOn, Writes, Aim
  <2>4. Forward
    BY <2>1, <2>3, <1>g, MovesForward DEF MarksGrow, KeptMarks
  <2>s. Spreads(r)
    BY <2>1, <2>3, MoveSpreads DEF MovesOn, KeptTables
  <2>5. ASSUME NEW j \in request'[r].doomed
        PROVE  /\ j \in Requests => DoomedVideo(r, j)'
               /\ j \in ProductKeys => DoomedPicture(r, j)'
               /\ j \in AttachmentKeys => DoomedAttachment(r, j)'
    <3>0. j \in request[r].doomed /\ request'[r].pc = "purge"
      BY <2>3, <2>5
    <3>1. ASSUME j \in Requests
          PROVE  DoomedVideo(r, j)'
      <4>1. DoomedVideo(r, j)
        BY <1>w, <3>0, <3>1 DEF DoomedWell
      <4>2. Written(j) /\ request[j].item \in Lessons /\ Replaced(j)
        BY <2>1, <4>1 DEF DoomedVideo
      <4>3. request[j].pc # "new"
        BY <3>1, <4>2, NameAssumption DEF Typed, StepOf, Items
      <4>4. Written(j)' /\ request'[j].item = request[j].item
        BY <2>4, <3>1, <4>2, <4>3, WrittenForward DEF Forward
      <4>5. Replaced(j)'
        BY <2>1, <4>2, <4>4 DEF Replaced, Condemned, KeptTables, KeptMarks
      <4>6. QED
        BY <2>1, <2>3, <4>2, <4>4, <4>5 DEF DoomedVideo
    <3>2. ASSUME j \in ProductKeys
          PROVE  DoomedPicture(r, j)'
      <4>1. j[1] \in condemned \cup doubtful \/ (j[1] \in Courses /\ request[r].next = "done" /\ Dropped(j[1], j))
        BY <1>w, <2>1, <2>3, <3>0, <3>2 DEF DoomedWell, DoomedPicture
      <4>2. CASE j[1] \in condemned \cup doubtful
        BY <2>1, <4>2 DEF DoomedPicture, KeptMarks
      <4>3. CASE j[1] \in Courses /\ request[r].next = "done" /\ Dropped(j[1], j)
        <5>1. Dropped(j[1], j)'
          BY <2>1, <2>s, <3>2, <4>3, DroppedKept
        <5>2. QED
          BY <2>3, <3>0, <4>3, <5>1 DEF DoomedPicture
      <4>4. QED
        BY <4>1, <4>2, <4>3
    <3>4. ASSUME j \in AttachmentKeys
          PROVE  DoomedAttachment(r, j)'
      <4>1. DoomedAttachment(r, j)
        BY <1>w, <3>0, <3>4 DEF DoomedWell
      <4>2. QED
        BY <2>1, <2>3, <3>0, <4>1 DEF DoomedAttachment, Condemned, Mixed, Active, KeptTables, KeptMarks
    <3>5. QED
      BY <3>1, <3>2, <3>4
  <2>6. DoomedWell(r)'
    BY <2>5 DEF DoomedWell
  <2>7. Present(r)' /\ Pictured(r)' /\ NewPicture(r)' /\ VideoWell(r)'
    BY <2>1, <2>3 DEF Present, Pictured, NewPicture, VideoWell
  <2>8. AttachmentWell(r)' /\ Sentenced(r)'
    BY <1>w, <2>1, <2>3 DEF AttachmentWell, Sentenced, Mixed, KeptTables, KeptMarks
  <2>9. \A j \in objects : j \in objects' \/ Deletes(r, j)
    BY <2>1, <2>2 DEF Deletes
  <2>10. QED
    BY <1>q, <2>1, <2>3, <2>6, <2>7, <2>8, <2>9 DEF Well, KeptMarks
<1>6. CASE List(r)
  <2>1. /\ request[r].pc = "list" /\ request[r].item \in Courses \cup Lessons
        /\ KeptTables /\ KeptMarks /\ objects' = objects
    BY <1>6, ListFacts
  <2>2. PICK x \in Courses \cup Lessons : x = request[r].item
    BY <2>1
  <2>3. x \in condemned
    BY <1>w, <2>1, <2>2 DEF Sentenced, Aim
  <2>4. CASE Advances(r, "delete")
    <3>1. /\ request'[r].pc = "delete" /\ request'[r].item = x
          /\ request'[r].doomed = request[r].doomed /\ MovesOn(r)
      BY <2>1, <2>2, <2>4 DEF Advances, Moves, MovesOn, Writes, Aim
    <3>2. Forward
      BY <2>1, <3>1, <1>g, MovesForward DEF MarksGrow, KeptMarks
    <3>3. DoomedWell(r)'
      BY <1>d, <2>1, <3>1, <3>2 DEF KeptTables, KeptMarks, Aim
    <3>4. Well(r)'
      BY <2>1, <2>3, <3>1, <3>3 DEF Well, Present, NewPicture, VideoWell, AttachmentWell,
         Sentenced, Pictured, Aim, KeptMarks
    <3>5. QED
      BY <1>q, <2>1, <3>1, <3>4 DEF KeptMarks
  <2>5. CASE Clears(r, Children(x) \ {None}, "delete")
    <3>1. /\ request'[r].pc \in {"delete", "purge"} /\ request'[r].item = x
          /\ request'[r].next = "delete"
          /\ request'[r].doomed = Children(x) \ {None} /\ MovesOn(r)
      BY <2>1, <2>2, <2>5 DEF Clears, Moves, MovesOn, Writes, Aim
    <3>2. Forward
      BY <2>1, <3>1, <1>g, MovesForward DEF MarksGrow, KeptMarks
    <3>3. ASSUME NEW k \in Children(x), k # None
          PROVE  \/ k \in AttachmentKeys /\ Condemned(k[1])
                 \/ \E l \in Lessons : k = video[l] /\ k \in Keys /\ Condemned(l)
      <4>1. CASE x \in Lessons
        BY <2>3, <3>3, <4>1 DEF Children, GetByLessonID, Condemned
      <4>2. CASE x \notin Lessons
        <5>1. \/ \E l \in Lessons : Product(l) = x /\ k = video[l]
              \/ \E l \in Lessons : Product(l) = x /\ k \in GetByLessonID(l)
          BY <3>3, <4>2 DEF Children, Curriculum
        <5>2. CASE \E l \in Lessons : Product(l) = x /\ k = video[l]
          BY <2>3, <3>3, <5>2 DEF Condemned, Typed, TypeOK, Values
        <5>3. CASE \E l \in Lessons : Product(l) = x /\ k \in GetByLessonID(l)
          BY <2>3, <5>3 DEF Condemned, GetByLessonID
        <5>4. QED
          BY <5>1, <5>2, <5>3
      <4>3. QED
        BY <4>1, <4>2
    <3>4. ASSUME NEW k \in request'[r].doomed
          PROVE  /\ k \in Requests => DoomedVideo(r, k)'
                 /\ k \in ProductKeys => k[1] \in doubtful'
                 /\ k \in AttachmentKeys => DoomedAttachment(r, k)'
      <4>1. k \in Children(x) /\ k # None
        BY <3>1, <3>4
      <4>2. CASE k \in AttachmentKeys /\ Condemned(k[1])
        <5>1. Condemned(k[1])'
          BY <2>1, <4>2 DEF Condemned, KeptMarks
        <5>2. QED
          BY <4>2, <5>1, KeysDiffer DEF DoomedAttachment
      <4>3. ASSUME NEW l \in Lessons, k = video[l], k \in Keys, Condemned(l)
            PROVE  /\ k \in Requests => DoomedVideo(r, k)'
                   /\ k \in AttachmentKeys \cup ProductKeys => k[1] \in doubtful'
        <5>1. Written(k) /\ VideoOf(l, k)
          BY <4>1, <4>3 DEF Served, VideoWritten
        <5>2. k \in AttachmentKeys \cup ProductKeys => k[1] \in doubtful'
          BY <1>g, <4>3, <5>1, VideoItem, Owners, KeysDiffer DEF Grows
        <5>3. ASSUME k \in Requests
              PROVE  DoomedVideo(r, k)'
          <6>1. /\ Written(k)' /\ request'[k].item = request[k].item /\ request[k].item \in Lessons
                /\ request[k].item = l \/ request[k].item \in doubtful'
            BY <1>g, <3>2, <4>3, <5>1, <5>3, VideoItem, WrittenForward DEF Forward, Grows
          <6>2. Condemned(l)'
            BY <2>1, <4>3 DEF Condemned, KeptMarks
          <6>3. Replaced(k)'
            BY <6>1, <6>2 DEF Replaced, Condemned
          <6>4. QED
            BY <3>1, <6>1, <6>3 DEF DoomedVideo, Aim
        <5>4. QED
          BY <5>2, <5>3
      <4>4. QED
        BY <3>3, <4>1, <4>2, <4>3, KeysDiffer DEF DoomedAttachment, Mixed
    <3>5. DoomedWell(r)'
      BY <3>4 DEF DoomedWell, DoomedPicture
    <3>6. Well(r)'
      BY <2>1, <2>3, <3>1, <3>5 DEF Well, Present, NewPicture, VideoWell, AttachmentWell,
         Sentenced, Pictured, Aim, KeptMarks
    <3>7. QED
      BY <1>q, <2>1, <3>1, <3>4, <3>6 DEF KeptMarks
  <2>6. QED
    BY <1>6, <2>2, <2>4, <2>5, ListFacts
<1>7. CASE ReadEbook(r)
  <2>1. /\ request[r].pc = "read" /\ request[r].item \in Ebooks /\ Active(r)
        /\ KeptTables /\ KeptMarks /\ objects' = objects
    BY <1>7, ReadEbookFacts DEF Active
  <2>2. CASE Ends(r)
    BY <1>g, <2>1, <2>2, EndServes DEF KeptMarks
  <2>3. CASE ~Ends(r)
    <3>1. PICK b \in Ebooks : b = request[r].item
      BY <2>1
    <3>2. PICK column \in {"thumbnail", "file"} : column = request[r].column
      BY <1>7, ReadEbookFacts
    <3>3. PICK rw : rw = request'[r].row
      OBVIOUS
    <3>4. /\ b \in rows /\ Moves(r) /\ request'[r].pc = "write"
          /\ rw[column] = request[r].key
          /\ \A c \in Columns : c # column => rw[c] = row[b][c]
          /\ request'[r].doomed = request[r].doomed
      BY <1>7, <2>3, <3>1, <3>2, <3>3, ReadEbookFacts
    <3>5. MovesOn(r) /\ request'[r].item = b
      BY <2>1, <3>1, <3>4 DEF Moves, MovesOn, Writes, Aim
    <3>6. Forward
      BY <2>1, <3>5, <1>g, MovesForward DEF MarksGrow, KeptMarks
    <3>7. DoomedWell(r)'
      BY <1>d, <2>1, <3>4, <3>5, <3>6 DEF KeptTables, KeptMarks, Aim
    <3>8. ASSUME NEW k \in {rw["thumbnail"], rw["file"]} \ {None}
          PROVE  k \in objects \/ b \in condemned \cup doubtful
      <4>1. rw[column] \in objects \/ b \in condemned \cup doubtful
        BY <1>w, <2>1, <3>1, <3>4 DEF Present
      <4>2. k = rw[column] \/ k \in {row[b]["thumbnail"], row[b]["file"]}
        BY <3>4, <3>8 DEF Columns
      <4>3. QED
        BY <1>0, <3>4, <3>8, <4>1, <4>2, ProductRow
    <3>9. Present(r)'
      BY <2>1, <3>3, <3>4, <3>5, <3>8 DEF Present, KeptMarks
    <3>10. Well(r)'
      BY <3>4, <3>7, <3>9 DEF Well, NewPicture, VideoWell, AttachmentWell, Sentenced, Pictured, Aim
    <3>11. QED
      BY <1>0, <1>q, <2>1, <3>1, <3>4, <3>5, <3>10 DEF KeptMarks
  <2>4. QED
    BY <2>2, <2>3
\* What the rows name is the same.
<1>s. ASSUME MovesOn(r), KeptMarks, objects' = objects, rows' = rows,
             video' = video, attached' = attached,
             \A x \in Items : row'[x]["thumbnail"] = row[x]["thumbnail"] /\ row'[x]["file"] = row[x]["file"],
             request'[r].pc # "write",
             \A k \in ProductKeys : k[1] \in Courses /\ k \in request'[r].doomed => k \in request[r].doomed,
             Forward => Well(r)'
      PROVE  Served'
  <2>1. Forward
    BY <1>s, <1>g, MovesForward DEF MarksGrow, KeptMarks
  <2>a. Spreads(r)
    BY <1>0, <1>s, MoveSpreads DEF MovesOn
  <2>2. Steady(r)
    BY <1>s, <2>1, <2>a DEF Steady, KeptMarks
  <2>3. \A x \in rows' : \A k \in Named(x)' : x \in rows /\ k \in Named(x)
    BY <1>s, NamedAlike DEF Typed, TypeOK
  <2>4. VideoWritten'
    BY <1>s, <2>1, VideoWrittenKept DEF Served
  <2>5. NoDangling'
    BY <1>s, <2>2, <2>3, <2>4, NoDanglingNext DEF KeptMarks
  <2>6. QED
    BY <1>s, <2>1, <2>2, <2>4, <2>5, MoveServes
<1>8. CASE UpdateTitle(r) \/ UpdateOrder(r)
  <2>1. /\ request[r].pc \in {"retitle", "reorder"} /\ request[r].item \in Modules /\ Active(r)
        /\ UNCHANGED <<rows, video, attached, objects>> /\ KeptMarks
    BY <1>8, UpdateTitleFacts, UpdateOrderFacts DEF Active
  <2>2. \/ Ends(r)
        \/ Advances(r, "reorder") \/ Advances(r, "done")
    BY <1>8, UpdateTitleFacts, UpdateOrderFacts
  <2>3. \/ \E column \in {"title", "setting"} : SetTo(request[r].item, column, r)
        \/ row' = row
    BY <1>8, UpdateTitleFacts, UpdateOrderFacts
  <2>4. \A x \in Items : row'[x]["thumbnail"] = row[x]["thumbnail"] /\ row'[x]["file"] = row[x]["file"]
    BY <2>3 DEF SetTo, Columns
  <2>5. MovesOn(r)
    BY <2>1, <2>2 DEF MovesOn, Ends, Advances, Moves, Writes, Aim
  <2>6. ASSUME Forward
        PROVE  Well(r)'
    <3>1. CASE Ends(r)
      BY <3>1, EndsWell DEF Ends
    <3>2. CASE Advances(r, "reorder") \/ Advances(r, "done")
      <4>1. request'[r].pc \in {"reorder", "done"} /\ request'[r].doomed = request[r].doomed
        BY <3>2 DEF Advances
      <4>2. DoomedWell(r)'
        BY <1>d, <2>1, <2>5, <2>6, <4>1 DEF KeptMarks, Aim
      <4>3. QED
        BY <4>1, <4>2 DEF Well, Present, NewPicture, VideoWell, AttachmentWell, Sentenced, Pictured, Aim
    <3>3. QED
      BY <2>2, <3>1, <3>2
  <2>7. /\ request'[r].pc \in {"reorder", "done"}
        /\ request'[r].doomed \in {{}, request[r].doomed}
    BY <2>2 DEF Ends, Advances
  <2>8. QED
    BY <1>s, <2>1, <2>4, <2>5, <2>6, <2>7
<1>9. CASE WriteVideo(r)
  <2>1. /\ request[r].pc = "video" /\ request[r].item \in Lessons /\ request[r].key \in Keys
        /\ UNCHANGED <<rows, born, row, attached, objects>> /\ KeptMarks /\ Active(r)
    BY <1>9, WriteVideoFacts DEF Active
  <2>2. CASE Ends(r) /\ video' = video
    BY <1>g, <2>1, <2>2, EndServes DEF KeptTables, KeptMarks
  <2>3. CASE SetVideo(request[r].item, request[r].key) /\ Clears(r, request[r].doomed, "done")
    <3>1. PICK l \in Lessons, k \in Keys : l = request[r].item /\ k = request[r].key
      BY <2>1
    <3>2. /\ request'[r].pc \in {"done", "purge"} /\ request'[r].next = "done"
          /\ request'[r].doomed = request[r].doomed /\ request'[r].item = l /\ request'[r].key = k
          /\ MovesOn(r)
      BY <2>1, <2>3, <3>1 DEF Clears, Moves, MovesOn, Writes, Aim
    <3>3. Forward
      BY <2>1, <3>2, <1>g, MovesForward DEF MarksGrow, KeptMarks
    <3>4. video'[l] = k /\ \A m \in Lessons : m # l => video'[m] = video[m]
      BY <2>3, <3>1 DEF SetVideo
    <3>5. Written(k) => l \in doubtful
      BY <1>w, <2>1, <3>1, WrittenTwice DEF Served, Aim
    <3>6. \A m \in Lessons : \/ video'[m] \in {video[m], None}
                             \/ Written(video'[m]) => m \in doubtful
      BY <3>4, <3>5
    <3>s. Spreads(r)
      BY <2>1, <3>2, MoveSpreads DEF MovesOn
    <3>7. Steady(r)
      BY <2>1, <3>3, <3>6, <3>s DEF Steady, KeptMarks
    <3>8. VideoOf(l, k)' /\ Written(k)'
      <4>1. VideoOf(l, k)'
        BY <1>w, <2>1, <3>1, <3>3, VideoOfForward DEF VideoWell, Aim
      <4>2. Past(r)'
        BY <3>2 DEF Past, Writes, Aim
      <4>3. QED
        BY <3>2, <3>3, <4>1, <4>2 DEF Forward, Written
    <3>9. VideoWritten'
      BY <3>3, <3>4, <3>8, VideoWrittenKept DEF Served
    <3>10. ASSUME NEW x \in rows', NEW j \in Named(x)'
           PROVE  (x \in rows /\ j \in Named(x)) \/ (x = l /\ j = k)
      <4>1. x \in rows /\ x \in Items
        BY <2>1 DEF Typed, TypeOK
      <4>2. GetByLessonID(x)' = GetByLessonID(x) /\ row'[x] = row[x]
        BY <2>1 DEF GetByLessonID
      <4>3. CASE x \in Lessons
        <5>1. j \in ({video'[x]} \ {None}) \cup GetByLessonID(x)
          BY <4>2, <4>3, NamedIsNext
        <5>2. QED
          BY <3>4, <4>1, <4>3, <5>1, NamedIs
      <4>4. CASE x \notin Lessons
        BY <4>1, <4>2, <4>4, NamedIs, NamedIsNext DEF Items
      <4>5. QED
        BY <4>3, <4>4
    <3>11. k \in objects' \/ Excused(l, k)'
      BY <1>w, <2>1, <3>1 DEF Present, Excused, Condemned, KeptMarks
    <3>12. NoDangling'
      BY <2>1, <3>7, <3>9, <3>10, <3>11, NoDanglingNext DEF KeptMarks
    <3>13. ASSUME NEW v \in request[r].doomed
           PROVE  /\ v \in Requests => DoomedVideo(r, v)'
                  /\ v \in ProductKeys => DoomedPicture(r, v)'
                  /\ v \in AttachmentKeys => DoomedAttachment(r, v)'
      <4>1. ASSUME v \in Requests
            PROVE  DoomedVideo(r, v)'
        <5>1. DoomedVideo(r, v)
          BY <1>w, <4>1 DEF DoomedWell
        <5>2. /\ Written(v) /\ v # k /\ request[v].item \in Lessons
              /\ request[v].item = l \/ request[v].item \in doubtful
          BY <2>1, <3>1, <5>1 DEF DoomedVideo, Aim
        <5>3. request[v].pc # "new"
          BY <4>1, <5>2, NameAssumption DEF Typed, StepOf, Items
        <5>4. Written(v)' /\ request'[v].item = request[v].item
          BY <3>3, <4>1, <5>2, <5>3, WrittenForward DEF Forward
        <5>5. Replaced(v)'
          BY <2>1, <3>4, <5>2, <5>4 DEF Replaced, KeptMarks
        <5>6. QED
          BY <3>2, <5>2, <5>4, <5>5 DEF DoomedVideo, Aim
      <4>2. ASSUME v \in ProductKeys
            PROVE  DoomedPicture(r, v)'
        BY <1>w, <2>1, <4>2 DEF DoomedWell, DoomedPicture, Aim, KeptMarks
      <4>4. ASSUME v \in AttachmentKeys
            PROVE  DoomedAttachment(r, v)'
        <5>1. DoomedAttachment(r, v)
          BY <1>w, <4>4 DEF DoomedWell
        <5>2. Condemned(v[1]) \/ Mixed(v)
          BY <2>1, <5>1 DEF DoomedAttachment, Aim
        <5>3. QED
          BY <2>1, <5>2 DEF DoomedAttachment, Condemned, Mixed, KeptMarks
      <4>5. QED
        BY <4>1, <4>2, <4>4
    <3>14. DoomedWell(r)'
      BY <3>2, <3>13 DEF DoomedWell
    <3>15. Well(r)'
      BY <3>2, <3>14 DEF Well, Present, NewPicture, VideoWell, AttachmentWell, Sentenced, Pictured, Aim
    <3>16. QED
      BY <3>2, <3>7, <3>9, <3>12, <3>15, MoveServes
  <2>4. QED
    BY <1>9, <2>2, <2>3, WriteVideoFacts
<1>10. CASE InsertAttachment(r)
  <2>1. /\ request[r].pc = "attach" /\ request[r].key \in AttachmentKeys
        /\ request[r].item = request[r].key[1] /\ request[r].item \in Lessons
        /\ UNCHANGED <<rows, born, row, video, objects, shared, doubtful>> /\ Active(r)
    BY <1>10, InsertAttachmentFacts DEF Active
  <2>2. CASE Clears(r, {request[r].key}, "done") /\ attached' = attached /\ condemned' = condemned
    <3>1. PICK k \in AttachmentKeys : k = request[r].key
      BY <2>1
    <3>2. /\ request'[r].pc = "purge" /\ request'[r].next = "done"
          /\ request'[r].doomed = {k} /\ request'[r].key = k /\ MovesOn(r)
      BY <2>1, <2>2, <3>1 DEF Clears, Moves, MovesOn, Writes, Aim
    <3>3. attached'[k] = None \/ Mixed(k)'
      BY <1>w, <2>1, <2>2, <3>1 DEF AttachmentWell, Aim, Mixed
    <3>4. DoomedWell(r)'
      BY <3>2, <3>3, KeysDiffer DEF DoomedWell, DoomedAttachment
    <3>5. Well(r)'
      BY <3>2, <3>4 DEF Well, Present, NewPicture, VideoWell, AttachmentWell, Sentenced, Pictured, Aim
    <3>6. QED
      BY <1>q, <2>1, <2>2, <3>2, <3>5, KeysDiffer DEF KeptTables
  <2>3. CASE /\ SetAttached(request[r].key, r)
             /\ \/ Ends(r) /\ condemned' = condemned
                \/ /\ Clears(r, {request[r].key}, "done")
                   /\ condemned' = condemned \cup {request[r].key}
    <3>1. PICK l \in Lessons, k \in AttachmentKeys :
            l = request[r].item /\ k = request[r].key /\ k[1] = l
      BY <2>1
    <3>2. /\ MovesOn(r) /\ Well(r)' /\ request'[r].doomed \subseteq {k}
          /\ request'[r].pc \in {"done", "purge"}
      <4>1. CASE Ends(r)
        BY <2>1, <4>1, EndsOn, EndsWell DEF Ends
      <4>2. CASE Clears(r, {request[r].key}, "done") /\ condemned' = condemned \cup {request[r].key}
        <5>1. /\ request'[r].pc = "purge" /\ request'[r].next = "done"
              /\ request'[r].doomed = {k} /\ request'[r].key = k /\ MovesOn(r)
          BY <2>1, <3>1, <4>2 DEF Clears, Moves, MovesOn, Writes, Aim
        <5>2. DoomedWell(r)'
          BY <3>1, <4>2, <5>1, KeysDiffer DEF DoomedWell, DoomedAttachment
        <5>3. QED
          BY <5>1, <5>2 DEF Well, Present, NewPicture, VideoWell, AttachmentWell, Sentenced,
             Pictured, Aim
      <4>3. QED
        BY <2>3, <4>1, <4>2
    <3>c. condemned \subseteq condemned'
      BY <2>3
    <3>3. Forward
      BY <2>1, <3>2, <3>c, <1>g, MovesForward DEF MarksGrow
    <3>s. Spreads(r)
      BY <2>1, <3>2, KeysDiffer, MoveSpreads DEF MovesOn
    <3>4. \A j \in AttachmentKeys : j # k => attached'[j] = attached[j]
      BY <2>3, <3>1 DEF SetAttached
    <3>5. Steady(r)
      BY <2>1, <3>1, <3>3, <3>4, <3>c, <3>s DEF Steady, Touches
    <3>6. VideoWritten'
      BY <2>1, <3>3, VideoWrittenKept DEF Served
    <3>7. ASSUME NEW x \in rows', NEW j \in Named(x)'
          PROVE  (x \in rows /\ j \in Named(x)) \/ (x = l /\ j = k)
      <4>1. x \in rows /\ x \in Items /\ row'[x] = row[x]
        BY <2>1 DEF Typed, TypeOK
      <4>2. \A j1 \in GetByLessonID(x)' : j1 \in GetByLessonID(x) \/ (x = l /\ j1 = k)
        BY <3>1, <3>4 DEF GetByLessonID
      <4>3. CASE x \in Lessons
        <5>1. j \in ({video'[x]} \ {None}) \cup GetByLessonID(x)'
          BY <4>3, NamedIsNext
        <5>2. QED
          BY <2>1, <4>1, <4>2, <4>3, <5>1, NamedIs
      <4>4. CASE x \notin Lessons
        BY <4>1, <4>4, NamedIs, NamedIsNext DEF Items
      <4>5. QED
        BY <4>3, <4>4
    <3>8. k \in objects' \/ Excused(l, k)'
      BY <1>w, <2>1, <3>1, <3>c DEF Present, Excused, Condemned, Mixed
    <3>9. NoDangling'
      BY <2>1, <3>5, <3>6, <3>7, <3>8, <3>c, NoDanglingNext
    <3>10. QED
      BY <3>2, <3>5, <3>6, <3>9, MoveServes
  <2>4. QED
    BY <1>10, <2>2, <2>3, InsertAttachmentFacts
<1>11. CASE DetachRow(r)
  <2>1. PICK k \in AttachmentKeys : k = request[r].key
    BY <1>11, DetachRowFacts
  <2>2. /\ request[r].pc = "detach" /\ Active(r) /\ Ends(r)
        /\ UNCHANGED <<rows, row, video, objects>>
        /\ shared' = shared /\ doubtful' = doubtful /\ condemned' = condemned \ {k}
        /\ \/ attached[k] = request[r].id /\ SetAttached(k, None)
           \/ attached[k] # request[r].id /\ attached' = attached
    BY <1>11, <2>1, DetachRowFacts DEF Active
  <2>3. MovesOn(r) /\ Well(r)'
    BY <2>2, EndsOn, EndsWell DEF Ends
  <2>4. k \notin Items
    BY NameAssumption
  <2>5. Forward
    BY <2>2, <2>3, <2>4, <1>g, MovesForward DEF MarksGrow
  <2>6. \A j \in AttachmentKeys : attached'[j] \in {attached[j], None}
    BY <2>2 DEF SetAttached
  <2>s. Spreads(r)
    BY <2>2, MoveSpreads DEF Ends
  <2>7. Steady(r)
    BY <2>1, <2>2, <2>5, <2>6, <2>s DEF Steady, Touches
  <2>8. VideoWritten'
    BY <2>2, <2>5, VideoWrittenKept DEF Served
  <2>9. ASSUME NEW x \in rows', NEW j \in Named(x)'
        PROVE  x \in rows /\ j \in Named(x)
    <3>1. x \in rows /\ x \in Items /\ row'[x] = row[x]
      BY <2>2 DEF Typed, TypeOK
    <3>2. GetByLessonID(x)' \subseteq GetByLessonID(x)
      BY <2>6 DEF GetByLessonID
    <3>3. CASE x \in Lessons
      <4>1. j \in ({video'[x]} \ {None}) \cup GetByLessonID(x)'
        BY <3>3, NamedIsNext
      <4>2. QED
        BY <2>2, <3>1, <3>2, <3>3, <4>1, NamedIs
    <3>4. CASE x \notin Lessons
      BY <3>1, <3>4, NamedIs, NamedIsNext DEF Items
    <3>5. QED
      BY <3>3, <3>4
  <2>10. attached'[k] = None \/ Mixed(k)'
    BY <1>w, <2>1, <2>2 DEF AttachmentWell, Aim, Mixed, SetAttached
  <2>11. NoDangling'
    BY <2>2, <2>7, <2>8, <2>9, <2>10, NoDanglingNext
  <2>12. QED
    BY <2>3, <2>7, <2>8, <2>11, MoveServes
<1>12. CASE WriteColumns(r)
  <2>1. /\ request[r].pc = "write" /\ request[r].item \in Products \cup Lessons /\ Active(r) /\ Ends(r)
        /\ UNCHANGED <<rows, born, video, attached, objects>> /\ KeptMarks
    BY <1>12, WriteColumnsFacts DEF Active
  <2>2. PICK x \in Products \cup Lessons : x = request[r].item
    BY <2>1
  <2>3. PICK rw : rw = request[r].row
    OBVIOUS
  <2>4. \/ row' = row
        \/ row'[x] = rw /\ \A y \in Items : y # x => row'[y] = row[y]
    BY <1>12, <2>2, <2>3, WriteColumnsFacts
  <2>5. MovesOn(r) /\ Well(r)'
    BY <2>1, EndsOn, EndsWell DEF Ends
  <2>6. Forward
    BY <2>1, <2>5, <1>g, MovesForward DEF MarksGrow, KeptMarks
  <2>s. Spreads(r)
    <3>1. Others(r) /\ request'[r].pc = "done" /\ request'[r].doomed = {}
          /\ request'[r].key = request[r].key
      BY <2>1 DEF Ends, Moves
    <3>2. ASSUME NEW c \in Courses
          PROVE  \/ row'[c]["thumbnail"] = row[c]["thumbnail"]
                 \/ request[r].item = c /\ row'[c]["thumbnail"] = request[r].row["thumbnail"]
      BY <1>0, <2>2, <2>3, <2>4
    <3>3. QED
      BY <2>1, <3>1, <3>2 DEF Spreads, Others
  <2>7. Steady(r)
    BY <2>1, <2>6, <2>s DEF Steady, KeptMarks
  <2>8. VideoWritten'
    BY <2>1, <2>6, VideoWrittenKept DEF Served
  <2>9. ASSUME NEW y \in rows', NEW k \in Named(y)'
        PROVE  \/ y \in rows /\ k \in Named(y)
               \/ k \in objects' \/ Excused(y, k)'
    <3>1. y \in rows /\ y \in Items
      BY <2>1 DEF Typed, TypeOK
    <3>2. GetByLessonID(y)' = GetByLessonID(y)
      BY <2>1 DEF GetByLessonID
    <3>3. CASE y \in Products /\ y = x /\ row' # row
      <4>1. k \in {rw["thumbnail"], rw["file"]} \ {None}
        BY <2>4, <3>3, NamedIsNext
      <4>2. k \in objects \/ x \in condemned \cup doubtful
        BY <1>w, <2>1, <2>2, <2>3, <3>3, <4>1 DEF Present
      <4>3. QED
        BY <2>1, <3>3, <4>2 DEF Excused, KeptMarks
    <3>4. CASE y \in Products /\ ~(y = x /\ row' # row)
      <4>1. row'[y] = row[y]
        BY <2>4, <3>1, <3>4
      <4>2. QED
        BY <3>1, <3>4, <4>1, NamedIs, NamedIsNext
    <3>5. CASE y \in Lessons \cup Modules
      <4>1. y \in Lessons => k \in ({video'[y]} \ {None}) \cup GetByLessonID(y)'
        BY NamedIsNext
      <4>2. y \in Modules => k \in {}
        BY NamedIsNext
      <4>3. QED
        BY <2>1, <3>1, <3>2, <3>5, <4>1, <4>2, NamedIs
    <3>6. QED
      BY <3>1, <3>3, <3>4, <3>5 DEF Items
  <2>10. NoDangling'
    BY <2>1, <2>7, <2>8, <2>9, NoDanglingNext DEF KeptMarks
  <2>11. QED
    BY <2>5, <2>7, <2>8, <2>10, MoveServes
<1>13. CASE DeleteRow(r)
  <2>1. /\ Active(r) /\ Ends(r) /\ request[r].item \in Items /\ objects' = objects /\ KeptMarks
    BY <1>0, <1>13, DeleteRowFacts DEF Active
  <2>2. CASE KeptTables
    BY <1>g, <2>1, <2>2, EndServes DEF KeptMarks
  <2>3. CASE Removes(request[r].item)
    <3>1. MovesOn(r) /\ Well(r)'
      BY <2>1, EndsOn, EndsWell DEF Ends
    <3>2. Forward
      BY <2>1, <3>1, <1>g, MovesForward DEF MarksGrow, KeptMarks
    <3>3. /\ \A y \in rows' : \A k \in Named(y)' : y \in rows /\ k \in Named(y)
          /\ \A l \in Lessons : video'[l] \in {video[l], None}
          /\ \A k \in AttachmentKeys : attached'[k] \in {attached[k], None}
      BY <2>1, <2>3, RemoveNames
    <3>s. Spreads(r)
      <4>1. \A c \in Courses : row'[c]["thumbnail"] \in {row[c]["thumbnail"], None}
        BY <1>0, <2>3 DEF Removes, Blank, Columns
      <4>2. QED
        BY <2>1, <4>1, MoveSpreads DEF Ends
    <3>4. Steady(r)
      BY <2>1, <3>2, <3>3, <3>s DEF Steady, KeptMarks
    <3>5. VideoWritten'
      BY <3>2, <3>3, VideoWrittenKept DEF Served
    <3>6. NoDangling'
      BY <2>1, <3>3, <3>4, <3>5, NoDanglingNext DEF KeptMarks
    <3>7. QED
      BY <3>1, <3>4, <3>5, <3>6, MoveServes
  <2>4. QED
    BY <1>13, <2>2, <2>3, DeleteRowFacts
<1>14. CASE SetThumbnail(r)
  <2>1. PICK c \in Courses, k \in ProductKeys : c = request[r].item /\ k = request[r].key /\ k[1] = c
    BY <1>14, SetThumbnailFacts
  <2>2. /\ request[r].pc = "picture" /\ Active(r) /\ Clears(r, request[r].doomed, "done")
        /\ UNCHANGED <<rows, video, attached, objects, condemned, shared>>
    BY <1>14, SetThumbnailFacts DEF Active
  <2>3. \/ SetTo(c, "thumbnail", k) /\ (InHand(r, c) => c \in doubtful')
        \/ row' = row /\ c \in doubtful'
    BY <1>14, <2>1, SetThumbnailFacts
  <2>4. /\ MovesOn(r) /\ Others(r) /\ request'[r].pc \in {"done", "purge"} /\ request'[r].next = "done"
        /\ request'[r].doomed = request[r].doomed /\ request'[r].item = c /\ request'[r].key = k
    BY <2>1, <2>2 DEF Clears, Moves, MovesOn, Writes, Aim
  <2>5. Forward
    BY <1>g, <2>2, <2>4, MovesForward DEF MarksGrow
  <2>6. ASSUME NEW d \in Courses
        PROVE  \/ row'[d]["thumbnail"] = row[d]["thumbnail"]
               \/ d = c /\ row'[d]["thumbnail"] = k
    BY <1>0, <2>3 DEF SetTo, Columns
  <2>7. Spreads(r)
    BY <2>1, <2>2, <2>4, <2>6 DEF Spreads, Others
  <2>8. Steady(r)
    BY <2>2, <2>5, <2>7 DEF Steady
  <2>9. VideoWritten'
    BY <2>2, <2>5, VideoWrittenKept DEF Served
  <2>10. k \in objects' \/ Excused(c, k)'
    BY <1>g, <1>w, <2>1, <2>2 DEF Present, Excused, Grows
  <2>11. ASSUME NEW y \in rows', NEW j \in Named(y)'
         PROVE  (y \in rows /\ j \in Named(y)) \/ (y = c /\ j = k)
    <3>1. y \in rows /\ y \in Items
      BY <2>2 DEF Typed, TypeOK
    <3>2. CASE y = c
      <4>1. j \in {row'[c]["thumbnail"], row'[c]["file"]} \ {None} /\ y \in Products
        BY <3>2, NamedIsNext DEF Products
      <4>2. row'[c]["file"] = row[c]["file"]
        BY <1>0, <2>3 DEF SetTo, Columns
      <4>3. QED
        BY <2>6, <3>1, <3>2, <4>1, <4>2, NamedIs
    <3>3. CASE y # c
      <4>1. row'[y] = row[y]
        BY <2>3, <3>1, <3>3 DEF SetTo
      <4>2. Named(y)' = Named(y)
        BY <2>2, <3>1, <4>1, NamedAlike
      <4>3. QED
        BY <3>1, <4>2
    <3>4. QED
      BY <3>2, <3>3
  <2>12. NoDangling'
    BY <2>2, <2>8, <2>9, <2>10, <2>11, NoDanglingNext
  <2>13. ASSUME NEW d \in request[r].doomed
         PROVE  d \in ProductKeys /\ DoomedPicture(r, d)'
    <3>1. d \in ProductKeys /\ d[1] = c
      BY <1>w, <2>1, <2>2, <2>13 DEF Pictured, Aim
    <3>2. CASE c \in doubtful'
      BY <3>1, <3>2 DEF DoomedPicture
    <3>3. CASE c \notin doubtful'
      <4>1. row'[c]["thumbnail"] = k /\ ~InHand(r, c)
        BY <1>0, <2>3, <3>3 DEF SetTo, Columns
      <4>2. d # k
        BY <1>g, <1>w, <2>1, <2>2, <2>13, <3>3 DEF NewPicture, Aim, Grows
      <4>3. \A w \in Requests : ~(request'[w].pc = "write" /\ request'[w].item = c)
        BY <2>4, <4>1 DEF InHand, At, Others
      <4>4. Dropped(d[1], d)'
        BY <3>1, <4>1, <4>2, <4>3 DEF Dropped
      <4>5. request'[r].pc = "purge" /\ request'[r].next = "done"
        BY <2>2, <2>4, <2>13 DEF Clears
      <4>6. d[1] \in Courses
        BY <3>1
      <4>7. DoomedPicture(r, d)'
        BY <4>4, <4>5, <4>6 DEF DoomedPicture, Dropped
      <4>8. QED
        BY <3>1, <4>7
    <3>4. QED
      BY <3>2, <3>3
  <2>14. DoomedWell(r)'
    BY <2>4, <2>13, KeysDiffer DEF DoomedWell
  <2>15. Well(r)'
    BY <2>4, <2>14 DEF Well, Present, NewPicture, VideoWell, AttachmentWell, Sentenced, Pictured, Aim
  <2>16. QED
    BY <2>4, <2>8, <2>9, <2>12, <2>15, MoveServes
<1>15. QED
  BY <1>1, <1>2, <1>3, <1>4, <1>5, <1>6, <1>7, <1>8, <1>9, <1>10, <1>11, <1>12, <1>13, <1>14
     DEF Stepping

(***************************************************************************)
(* No row names an object that is gone                                     *)
(***************************************************************************)
\* Steps that are no request's.
LEMMA OutsideServes ==
  ASSUME Typed, Kept, Served, Typed', request' = request, KeptMarks, Grows,
         \A k \in objects : k \in objects',
         \A c \in Courses : row'[c]["thumbnail"] \in {row[c]["thumbnail"], None},
         \A l \in Lessons : video'[l] \in {video[l], None},
         \A k \in AttachmentKeys : attached'[k] \in {attached[k], None},
         \A x \in rows' : \A k \in Named(x)' : (x \in rows /\ k \in Named(x)) \/ k \in objects'
  PROVE  Served'
<1>1. None \notin Requests
  BY NameAssumption DEF Keys
<1>2. Forward
  BY SameForward DEF MarksGrow, KeptMarks
<1>3. Spreads(None)
  BY DEF Spreads
<1>4. Steady(None)
  BY <1>2, <1>3 DEF Steady, KeptMarks
<1>5. VideoWritten'
  BY <1>2, VideoWrittenKept DEF Served
<1>6. NoDangling'
  BY <1>4, <1>5, NoDanglingNext DEF KeptMarks
<1>7. VideoOnce' /\ OneName'
  BY DEF Served, VideoOnce, OneName, Writes, Active, KeptMarks, Mixed
<1>8. QED
  BY <1>1, <1>4, <1>5, <1>6, <1>7, ServedBy

LEMMA ServedInit ==
  ASSUME Init
  PROVE  Served
<1>1. /\ rows = {} /\ video = [l \in Lessons |-> None]
      /\ \A r \in Requests : request[r].pc = "new" /\ request[r].doomed = {}
  BY DEF Init, Fresh
<1>2. NoDangling /\ VideoOnce /\ VideoWritten /\ OneName
  BY <1>1 DEF NoDangling, VideoOnce, VideoWritten, OneName, Writes, Active
<1>3. \A r \in Requests : Well(r)
  BY <1>1 DEF Well, DoomedWell, Present, NewPicture, VideoWell, AttachmentWell, Sentenced, Pictured, Aim
<1>4. QED
  BY <1>2, <1>3 DEF Served

LEMMA ServedNext ==
  ASSUME Typed, Kept, Served, Typed', [Next]_vars
  PROVE  Served'
<1>0. Courses \subseteq Items /\ Courses \subseteq Products /\ Modules \subseteq Items
  BY DEF Items, Products
<1>1. ASSUME NEW x \in Items, Insert(x)
      PROVE  Served'
  <2>1. /\ x \notin born /\ rows' = rows \cup {x} /\ KeptMarks /\ Grows
        /\ UNCHANGED <<row, video, attached, objects, request>>
    BY <1>1, InsertFacts DEF Grows, KeptMarks
  <2>2. x \notin rows
    BY <2>1 DEF Typed, TypeOK
  <2>3. GetByLessonID(x) = {} /\ row[x] = Blank /\ (x \in Lessons => video[x] = None)
    BY <1>1, <2>2 DEF GetByLessonID, Kept, Unwritten
  <2>4. Named(x) = {}
    <3>1. CASE x \in Lessons
      BY <2>3, <3>1, NamedIs
    <3>2. CASE x \in Products
      BY <2>3, <3>2, NamedIs DEF Blank, Columns
    <3>3. CASE x \in Modules
      BY <3>3, NamedIs
    <3>4. QED
      BY <3>1, <3>2, <3>3 DEF Items
  <2>5. ASSUME NEW y \in rows', NEW k \in Named(y)'
        PROVE  y \in rows /\ k \in Named(y)
    <3>1. y \in Items
      BY <2>1 DEF Typed, TypeOK
    <3>2. Named(y)' = Named(y)
      BY <2>1, <3>1, NamedAlike
    <3>3. QED
      BY <2>1, <2>4, <3>2
  <2>6. QED
    BY <2>1, <2>5, OutsideServes
<1>2. ASSUME NEW m \in Modules, DeleteModule(m)
      PROVE  Served'
  <2>1. Removes(m) /\ KeptMarks /\ objects' = objects /\ request' = request /\ m \in Items
    BY <1>0, <1>2, DeleteModuleFacts
  <2>2. Grows
    BY <1>2, DeleteModuleFacts DEF Grows, KeptMarks
  <2>3. \A c \in Courses : row'[c]["thumbnail"] \in {row[c]["thumbnail"], None}
    BY <1>0, <2>1 DEF Removes, Blank, Columns
  <2>4. QED
    BY <2>1, <2>2, <2>3, RemoveNames, OutsideServes
<1>3. ASSUME KeptTables, UNCHANGED <<condemned, shared, doubtful, untidy, objects, request>>
      PROVE  Served'
  <2>1. Served' <=> Served
    BY <1>3 DEF KeptTables, Served, NoDangling, Named, GetByLessonID, VideoOnce, VideoWritten,
         OneName, Well, DoomedWell, DoomedVideo, DoomedAttachment, DoomedPicture, Dropped, Present,
         NewPicture, VideoWell, VideoOf, AttachmentWell, Mixed, Astray, Owner, Sentenced, Pictured,
         Written, Past, Writes, Active, Replaced, Condemned, Completed, Completes, Aim
  <2>2. QED
    BY <2>1
<1>4. ASSUME NEW p \in Products, Buy(p)
      PROVE  Served'
  BY <1>3, <1>4, BuyFacts
<1>5. CASE UNCHANGED vars
  BY <1>3, <1>5 DEF vars, tables, marks, KeptTables
<1>6. QED
  BY <1>1, <1>2, <1>4, <1>5, StartingServed, SteppingServed, NextActions

\* Whatever is replaced, refused or deleted at the same time, no row names an
\* object that is gone, but for: rows whose own deletion began; attachments
\* whose row was inserted although an error was reported, or that were added
\* twice under one name; lessons whose video was completed twice, or with
\* another's file, and the owner of that file; and courses whose picture was
\* changed during an edit, or the change of which failed.
THEOREM NoDanglingCorrect == Spec => []NoDangling
<1>1. Init => Typed /\ Kept /\ Served
  BY TypedInit, KeptInit, ServedInit
<1>2. Typed /\ Kept /\ Served /\ [Next]_vars => (Typed /\ Kept /\ Served)'
  BY TypedNext, KeptNext, ServedNext
<1>3. Served => NoDangling
  BY DEF Served
<1>4. QED
  BY <1>1, <1>2, <1>3, PTL DEF Spec

(***************************************************************************)
(* The objects that nobody names                                           *)
(***************************************************************************)
\* Videos were uploaded for a lesson.
Uploaded == \A k \in objects \cap Requests : request[k].item \in Lessons

OneAtATime ==
  \A v, w \in Requests :
    v # w /\ Active(v) /\ Active(w) /\ Product(request[v].item) = Product(request[w].item)
      => Product(request[v].item) \in untidy

InUse(k) == \E x \in Items : k \in Named(x)
Waits(k) == k \in Requests /\ request[k].pc = "uploaded" /\ ~Completed(k)

\* r will name k, or delete it.
Holds(r, k) == LET q == request[r] IN
  /\ Active(r) /\ Product(q.item) = Of(k)
  /\ \/ q.pc \in {"video", "attach", "read", "picture"} /\ q.key = k
     \/ q.pc = "write" /\ q.item \in Products /\ k \in {q.row["thumbnail"], q.row["file"]}
     \/ q.pc = "purge" /\ k \in q.doomed

Accounted(k) ==
  Of(k) \in untidy \/ InUse(k) \/ Waits(k) \/ \E r \in Requests : Holds(r, k)

ToGo(r) == IF request[r].pc = "purge" THEN request[r].doomed ELSE {}

\* What r will no longer name is what it is to delete.
CleanStep(r) == LET q == request[r]  x == request[r].item IN
  /\ Aim(q) = "video" => Named(x) \cap Requests \subseteq q.doomed \cup {q.key}
  /\ q.pc = "write" /\ x \in Products => Named(x) \subseteq {q.row["thumbnail"], q.row["file"]}
  /\ q.pc = "count" \/ Aim(q) = "picture" => Named(x) \subseteq q.doomed
  /\ Aim(q) = "list" /\ x \in Courses => Named(x) \cap objects \subseteq ToGo(r)
  /\ Aim(q) = "list" /\ x \in Lessons => Named(x) \cap Requests \cap objects \subseteq ToGo(r)
  /\ Aim(q) = "delete" => \A y \in Below(x) : Named(y) \cap objects \subseteq ToGo(r)
  /\ Aim(q) = "detach" => {q.key} \cap objects \subseteq ToGo(r)

Clean(r) == Active(r) /\ Product(request[r].item) \notin untidy => CleanStep(r)

Tidy ==
  /\ Uploaded /\ OneAtATime
  /\ \A k \in objects : Accounted(k)
  /\ \A r \in Requests : Clean(r)

LEMMA OfIs ==
  /\ \A k \in ProductKeys : Of(k) = k[1]
  /\ \A k \in AttachmentKeys : Of(k) = Product(k[1])
  /\ \A k \in Requests : Of(k) = Product(request[k].item)
BY KeysDiffer, KeyType, ProductType DEF Of, Owner

LEMMA OfIsNext ==
  /\ \A k \in ProductKeys : Of(k)' = k[1]
  /\ \A k \in AttachmentKeys : Of(k)' = Product(k[1])
  /\ \A k \in Requests : Of(k)' = Product(request'[k].item)
<1>1. /\ \A k \in ProductKeys : Of(k)' = Product(k[1])
      /\ \A k \in AttachmentKeys : Of(k)' = Product(k[1])
      /\ \A k \in Requests : Of(k)' = Product(request'[k].item)
  BY KeysDiffer DEF Of, Owner, Product
<1>2. QED
  BY <1>1, KeyType, ProductType

\* What a row names belongs to its product, but for videos that are another's.
LEMMA NamedOf ==
  ASSUME Typed, Kept, Served, NEW x \in Items, NEW k \in Named(x)
  PROVE  /\ k \in Keys
         /\ Of(k) = Product(x) \/ (Of(k) \in untidy /\ Product(x) \in untidy)
<1>1. \/ x \in Lessons /\ k = video[x] /\ k \in Keys
      \/ x \in Lessons /\ k \in AttachmentKeys /\ k[1] = x
      \/ x \in Products /\ k \in ProductKeys /\ k[1] = x
  BY NamedOwn DEF Kept, Products
<1>2. CASE x \in Lessons /\ k = video[x] /\ k \in Keys
  <2>1. VideoOf(x, k)
    BY <1>2, KeyType DEF Served, VideoWritten
  <2>2. QED
    BY <1>2, <2>1, OfIs DEF VideoOf, Astray, Of
<1>3. QED
  BY <1>1, <1>2, OfIs, KeyType, ProductType

\* A lesson of a tidy product names its own videos.
LEMMA OwnVideo ==
  ASSUME Typed, Served, NEW l \in Lessons, Product(l) \notin untidy
  PROVE  video[l] = None \/ video[l] \in Requests
BY DEF Served, VideoWritten, VideoOf, Astray

\* Rows that do not exist name nothing.
LEMMA NothingNamed ==
  ASSUME Typed, Unwritten, NEW x \in Items \ rows
  PROVE  Named(x) = {}
<1>1. CASE x \in Lessons
  BY <1>1, NamedIs DEF Unwritten, GetByLessonID
<1>2. CASE x \in Products
  BY <1>2, NamedIs DEF Unwritten, Blank, Columns
<1>3. CASE x \in Modules
  BY <1>3, NamedIs
<1>4. QED
  BY <1>1, <1>2, <1>3 DEF Items

LEMMA TidyInStep ==
  ASSUME Typed, Kept, Tidy
  PROVE  InStep
<1> SUFFICES ASSUME NEW k \in objects
             PROVE  \/ Of(k) \in untidy \/ Busy(Of(k))
                    \/ \E x \in rows : k \in Named(x)
                    \/ k \in Requests /\ At(k, "uploaded") /\ ~Completed(k)
  BY DEF InStep
<1>1. Of(k) \in untidy \/ InUse(k) \/ Waits(k) \/ \E r \in Requests : Holds(r, k)
  BY DEF Tidy, Accounted
<1>2. InUse(k) => \E x \in rows : k \in Named(x)
  BY NothingNamed DEF InUse, Kept
<1>3. (\E r \in Requests : Holds(r, k)) => Busy(Of(k))
  BY DEF Holds, Busy
<1>4. Waits(k) => k \in Requests /\ At(k, "uploaded") /\ ~Completed(k)
  BY DEF Waits, At
<1>5. QED
  BY <1>1, <1>2, <1>3, <1>4

(***************************************************************************)
(* Steps about one product                                                 *)
(***************************************************************************)
\* What does not belong to the product p stays, but for objects that go.
Apart(p) ==
  /\ untidy \subseteq untidy'
  /\ \A x \in Items : Product(x) # p => Named(x)' = Named(x)
  /\ \A k \in Keys : Of(k) # p /\ k \in objects' => k \in objects

\* r takes a step, or nobody does, and it is about p.
About(r, p) ==
  /\ \A q \in Requests : q # r => request'[q] = request[q]
  /\ r \in Requests => /\ Active(r) => Product(request[r].item) = p
                       /\ request'[r].pc # "new" /\ Product(request'[r].item) = p

LEMMA AccountedApart ==
  ASSUME Typed, Kept, Served, Tidy, Typed', NEW r, NEW p, Forward, Apart(p), About(r, p),
         NEW k \in objects', Of(k)' # p
  PROVE  Accounted(k)'
<1> SUFFICES ASSUME Of(k)' \notin untidy'
             PROVE  Accounted(k)'
  BY DEF Accounted
<1>0. k \in Keys
  BY DEF Typed, TypeOK
<1>1. r \in Requests => k # r
  BY OfIsNext DEF About
<1>2. k \in Requests => request'[k] = request[k]
  BY <1>1 DEF About
<1>3. Of(k)' = Of(k)
  BY <1>0, <1>2, OfIs, OfIsNext DEF Keys
<1>4. k \in objects
  BY <1>0, <1>3 DEF Apart
<1>5. Of(k) \notin untidy
  BY <1>3 DEF Apart
<1>6. CASE InUse(k)
  <2>1. PICK x \in Items : k \in Named(x)
    BY <1>6 DEF InUse
  <2>2. Named(x)' = Named(x)
    BY <1>3, <1>5, <2>1, NamedOf DEF Apart
  <2>3. QED
    BY <2>1, <2>2 DEF InUse, Accounted
<1>7. CASE Waits(k)
  <2>1. ASSUME NEW w \in Requests, Completes(w, k)'
        PROVE  Completes(w, k)
    <3>1. CASE w = r
      <4>1. request'[r].key = k /\ k \in Requests /\ r \in Requests
        BY <1>7, <2>1, <3>1 DEF Completes, Waits
      <4>2. Of(k)' = Product(request'[r].item) \/ Of(k)' \in untidy'
        BY <1>0, <4>1, KeyType DEF Typed, KeyOf, Astray, Of, Owner
      <4>3. QED
        BY <4>1, <4>2 DEF About
    <3>2. CASE w # r
      BY <2>1, <3>2 DEF Completes, About
    <3>3. QED
      BY <3>1, <3>2
  <2>2. Completed(k)' => Completed(k)
    BY <2>1 DEF Completed
  <2>3. Waits(k)'
    BY <1>2, <1>7, <2>2 DEF Waits
  <2>4. QED
    BY <2>3 DEF Accounted
<1>8. CASE \E q \in Requests : Holds(q, k)
  <2>1. PICK q \in Requests : Holds(q, k)
    BY <1>8
  <2>2. q # r
    BY <1>3, <2>1 DEF Holds, About
  <2>3. Holds(q, k)'
    BY <1>3, <2>1, <2>2 DEF Holds, About, Active
  <2>4. QED
    BY <2>3 DEF Accounted
<1>9. QED
  BY <1>4, <1>5, <1>6, <1>7, <1>8 DEF Tidy, Accounted

LEMMA CleanApart ==
  ASSUME Typed, Kept, Served, Tidy, Typed', NEW r, NEW p, Forward, Apart(p), About(r, p),
         NEW q \in Requests, Product(request'[q].item) # p
  PROVE  Clean(q)'
<1>1. q # r /\ request'[q] = request[q]
  BY DEF About
<1> SUFFICES ASSUME Active(q), Product(request[q].item) \notin untidy
             PROVE  CleanStep(q)'
  BY <1>1 DEF Clean, Active, Apart
<1>2. CleanStep(q) /\ StepOf(q)
  BY DEF Tidy, Clean, Typed
<1>3. PICK x \in Items : x = request[q].item
  BY <1>2 DEF StepOf, Active
<1>4. ASSUME NEW y \in Items, Product(y) = Product(x)
      PROVE  Named(y)' = Named(y) /\ Named(y) \cap objects' \subseteq objects
  <2>1. Named(y)' = Named(y)
    BY <1>1, <1>3, <1>4 DEF Apart
  <2>2. \A k \in Named(y) : k \in objects' => k \in objects
    BY <1>1, <1>3, <1>4, NamedOf DEF Apart
  <2>3. QED
    BY <2>1, <2>2
<1>5. /\ Named(x)' = Named(x) /\ Named(x) \cap objects' \subseteq objects
      /\ \A y \in Below(x) : Named(y)' = Named(y) /\ Named(y) \cap objects' \subseteq objects
  BY <1>4, BelowFacts
<1>6. Aim(request[q]) = "detach" => {request[q].key} \cap objects' \subseteq objects
  <2>1. SUFFICES ASSUME Aim(request[q]) = "detach"
                 PROVE  request[q].key \in objects' => request[q].key \in objects
    OBVIOUS
  <2>2. request[q].key \in AttachmentKeys /\ request[q].item = request[q].key[1]
    BY <1>2, <2>1 DEF StepOf
  <2>3. QED
    BY <1>1, <2>2, OfIs, KeyType DEF Apart
<1>7. ToGo(q)' = ToGo(q) /\ Aim(request'[q]) = Aim(request[q])
  BY <1>1 DEF ToGo
<1>8. QED
  BY <1>1, <1>2, <1>3, <1>5, <1>6, <1>7 DEF CleanStep

LEMMA TidyBy ==
  ASSUME Typed, Kept, Served, Tidy, Typed', NEW r, NEW p, Forward, Apart(p), About(r, p),
         Uploaded', OneAtATime',
         p \notin untidy' => \A k \in objects' : Of(k)' = p => Accounted(k)',
         p \notin untidy' => \A q \in Requests : Product(request'[q].item) = p => Clean(q)'
  PROVE  Tidy'
<1>1. ASSUME NEW k \in objects'
      PROVE  Accounted(k)'
  BY AccountedApart DEF Accounted
<1>2. ASSUME NEW q \in Requests
      PROVE  Clean(q)'
  BY CleanApart DEF Clean
<1>3. QED
  BY <1>1, <1>2 DEF Tidy

\* A request at work goes on.
LEMMA MoveTidy ==
  ASSUME Typed, Kept, Served, Tidy, Typed', NEW r \in Requests, Active(r), MovesOn(r), MarksGrow,
         NEW p, p = Product(request[r].item), Apart(p),
         \A k \in objects' \cap Requests : k \notin objects => request[k].item \in Lessons,
         p \notin untidy' => \A k \in objects' :
           Of(k) = p /\ (k \notin objects \/ InUse(k) \/ Holds(r, k)) => InUse(k)' \/ Holds(r, k)',
         p \notin untidy' => CleanStep(r)'
  PROVE  Tidy'
<1>1. Forward
  BY MovesForward
<1>2. ASSUME NEW w \in Requests
      PROVE  /\ request'[w].item = request[w].item /\ request'[w].key = request[w].key
             /\ Active(w)' => Active(w)
             /\ w # r => request'[w] = request[w]
  BY DEF MovesOn, Moves, Others, Active
<1>3. About(r, p)
  BY <1>2 DEF About, MovesOn
<1>4. Uploaded'
  BY <1>2 DEF Tidy, Uploaded
<1>5. OneAtATime'
  BY <1>2 DEF Tidy, OneAtATime, Apart
<1>6. ASSUME p \notin untidy', NEW q \in Requests, Active(q), Product(request[q].item) = p
      PROVE  q = r
  BY <1>6 DEF Tidy, OneAtATime, Apart
<1>7. ASSUME p \notin untidy', NEW k \in objects', Of(k)' = p
      PROVE  Accounted(k)'
  <2>0. k \in Keys
    BY DEF Typed, TypeOK
  <2>1. Of(k) = p
    BY <1>2, <1>7, <2>0, OfIs, OfIsNext DEF Keys
  <2>2. CASE k \notin objects \/ InUse(k) \/ Holds(r, k)
    BY <1>7, <2>1, <2>2 DEF Accounted
  <2>3. CASE Waits(k)
    <3>1. k # r /\ request'[k] = request[k]
      BY <1>2, <2>3 DEF Waits, Active
    <3>2. \A w \in Requests : Completes(w, k)' => Completes(w, k)
      BY <1>2 DEF Completes, Active
    <3>3. Waits(k)'
      BY <2>3, <3>1, <3>2 DEF Waits, Completed
    <3>4. QED
      BY <3>3 DEF Accounted
  <2>4. CASE \E q \in Requests : Holds(q, k)
    BY <1>6, <1>7, <2>1, <2>2, <2>4 DEF Holds
  <2>5. QED
    BY <1>7, <2>1, <2>2, <2>3, <2>4 DEF Tidy, Accounted, Apart
<1>8. ASSUME p \notin untidy', NEW q \in Requests, Product(request'[q].item) = p
      PROVE  Clean(q)'
  BY <1>2, <1>6, <1>8 DEF Clean
<1>9. QED
  BY <1>1, <1>3, <1>4, <1>5, <1>7, <1>8, TidyBy

\* The tables say the same names, and the bucket is the same.
NamesSame == (\A x \in Items : Named(x)' = Named(x)) /\ objects' = objects

LEMMA KeptNames ==
  ASSUME KeptTables, objects' = objects
  PROVE  NamesSame
BY NamedSame DEF NamesSame

\* A request begins.
LEMMA StartTidy ==
  ASSUME Typed, Kept, Served, Tidy, Typed', NEW r \in Requests, NEW x \in Items, Starts(r, x),
         request'[r].pc # "new", NamesSame, MarksGrow,
         \A k \in objects : Waits(k) /\ request'[r].key = k => request'[r].pc = "video",
         Product(x) \notin untidy' => CleanStep(r)'
  PROVE  Tidy'
<1> DEFINE p == Product(x)
<1>0. /\ request[r].pc = "new" /\ Others(r) /\ request'[r].item = x /\ ~Active(r)
      /\ untidy \subseteq untidy' /\ (OtherOn(r, p) => p \in untidy')
  BY DEF Starts, Active
<1>1. Forward
  BY <1>0, StartsForward
<1>2. About(r, p) /\ Apart(p)
  BY <1>0 DEF About, Others, Apart, NamesSame
<1>3. r \notin objects
  <2>1. request[r].item = None
    BY <1>0 DEF Typed, StepOf
  <2>2. QED
    BY <2>1, NameAssumption DEF Tidy, Uploaded, Items
<1>4. Uploaded'
  BY <1>0, <1>3 DEF Tidy, Uploaded, Others, NamesSame
<1>5. ASSUME p \notin untidy', NEW q \in Requests, q # r, Active(q)
      PROVE  Product(request[q].item) # p
  BY <1>0, <1>5 DEF OtherOn
<1>6. OneAtATime'
  <2>1. SUFFICES ASSUME NEW v \in Requests, NEW w \in Requests, v # w, Active(v)', Active(w)',
                        Product(request'[v].item) = Product(request'[w].item)
                 PROVE  Product(request'[v].item) \in untidy'
    BY DEF OneAtATime, Product
  <2>2. CASE v # r /\ w # r
    BY <1>0, <2>1, <2>2 DEF Tidy, OneAtATime, Others, Active
  <2>3. CASE v = r \/ w = r
    BY <1>0, <1>5, <2>1, <2>3 DEF Others, Active
  <2>4. QED
    BY <2>2, <2>3
<1>7. ASSUME p \notin untidy', NEW k \in objects', Of(k)' = p
      PROVE  Accounted(k)'
  <2>0. k \in Keys /\ k \in objects /\ k # r
    BY <1>3 DEF Typed, TypeOK, NamesSame
  <2>1. Of(k) = p
    BY <1>0, <1>7, <2>0, OfIs, OfIsNext DEF Keys, Others
  <2>2. CASE InUse(k)
    BY <2>2 DEF InUse, Accounted, NamesSame
  <2>3. CASE Waits(k)
    <3>1. request'[k] = request[k]
      BY <1>0, <2>0, <2>3 DEF Waits, Others
    <3>2. CASE Completes(r, k)'
      <4>1. request'[r].key = k /\ request'[r].pc = "video"
        BY <2>0, <2>3, <3>2 DEF Completes
      <4>2. Holds(r, k)'
        BY <1>0, <1>7, <4>1 DEF Holds, Active
      <4>3. QED
        BY <4>2 DEF Accounted
    <3>3. CASE ~Completes(r, k)'
      <4>1. \A w \in Requests : Completes(w, k)' => Completes(w, k)
        BY <1>0, <3>3 DEF Completes, Others
      <4>2. Waits(k)'
        BY <2>3, <3>1, <4>1 DEF Waits, Completed
      <4>3. QED
        BY <4>2 DEF Accounted
    <3>4. QED
      BY <3>2, <3>3
  <2>4. CASE \E q \in Requests : Holds(q, k)
    BY <1>0, <1>5, <1>7, <2>1, <2>4 DEF Holds
  <2>5. QED
    BY <1>0, <1>7, <2>0, <2>1, <2>2, <2>3, <2>4 DEF Tidy, Accounted
<1>8. ASSUME p \notin untidy', NEW q \in Requests, Product(request'[q].item) = p
      PROVE  Clean(q)'
  <2>1. CASE q = r
    BY <1>0, <1>8, <2>1 DEF Clean
  <2>2. CASE q # r
    BY <1>0, <1>5, <1>8, <2>2 DEF Clean, Others, Active
  <2>3. QED
    BY <2>1, <2>2
<1>9. QED
  BY <1>1, <1>2, <1>4, <1>6, <1>7, <1>8, TidyBy

\* The requests stay as they are.
LEMMA StillTidy ==
  ASSUME Typed, Tidy, request' = request, NamesSame, untidy \subseteq untidy'
  PROVE  Tidy'
<1>1. Uploaded' /\ OneAtATime'
  BY DEF Tidy, Uploaded, OneAtATime, Active, NamesSame
<1>2. ASSUME NEW k \in objects'
      PROVE  Accounted(k)'
  <2>1. k \in Keys /\ k \in objects /\ Accounted(k)
    BY DEF Tidy, NamesSame, Typed, TypeOK
  <2>2. Of(k)' = Of(k)
    BY <2>1, OfIs, OfIsNext DEF Keys
  <2>3. QED
    BY <2>1, <2>2 DEF Accounted, InUse, Waits, Holds, Completed, Completes, Active, NamesSame
<1>3. ASSUME NEW q \in Requests
      PROVE  Clean(q)'
  <2>1. SUFFICES ASSUME Active(q), Product(request[q].item) \notin untidy
                 PROVE  CleanStep(q)'
    BY DEF Clean, Active
  <2>2. CleanStep(q) /\ request[q].item \in Items
    BY <2>1 DEF Tidy, Clean, Active, Typed, StepOf
  <2>3. Below(request[q].item) \subseteq Items
    BY <2>2, BelowFacts
  <2>4. QED
    BY <2>2, <2>3 DEF CleanStep, NamesSame, ToGo, Aim
<1>4. QED
  BY <1>1, <1>2, <1>3 DEF Tidy

\* A request is over at once.
LEMMA DoneTidy ==
  ASSUME Typed, Kept, Served, Tidy, Typed', NEW r \in Requests, NEW x \in Items, Others(r),
         request[r].pc = "new", request'[r].pc = "done", request'[r].item = x,
         request'[r].key = None, NamesSame, MarksGrow, untidy' = untidy
  PROVE  Tidy'
<1> DEFINE p == Product(x)
<1>0. ~Active(r) /\ ~Active(r)' /\ None \notin Keys
  BY KeyType DEF Active
<1>1. Forward
  BY StartsForward
<1>2. About(r, p) /\ Apart(p)
  BY <1>0 DEF About, Others, Apart, NamesSame
<1>3. r \notin objects
  <2>1. request[r].item = None
    BY DEF Typed, StepOf
  <2>2. QED
    BY <2>1, NameAssumption DEF Tidy, Uploaded, Items
<1>4. Uploaded'
  BY <1>3 DEF Tidy, Uploaded, Others, NamesSame
<1>5. ASSUME NEW q \in Requests, Active(q) \/ Active(q)'
      PROVE  q # r /\ request'[q] = request[q]
  BY <1>0, <1>5 DEF Others
<1>6. OneAtATime'
  <2>1. SUFFICES ASSUME NEW v \in Requests, NEW w \in Requests, v # w, Active(v)', Active(w)',
                        Product(request'[v].item) = Product(request'[w].item)
                 PROVE  Product(request'[v].item) \in untidy'
    BY DEF OneAtATime, Product
  <2>2. QED
    BY <1>5, <2>1 DEF Tidy, OneAtATime, Active
<1>7. ASSUME NEW k \in objects', Of(k)' = p
      PROVE  Accounted(k)'
  <2>0. k \in Keys /\ k \in objects /\ k # r
    BY <1>3 DEF Typed, TypeOK, NamesSame
  <2>1. Of(k) = p
    BY <1>7, <2>0, OfIs, OfIsNext DEF Keys, Others
  <2>2. CASE InUse(k)
    BY <2>2 DEF InUse, Accounted, NamesSame
  <2>3. CASE Waits(k)
    <3>1. request'[k] = request[k]
      BY <2>0, <2>3 DEF Waits, Others
    <3>2. \A w \in Requests : Completes(w, k)' => Completes(w, k)
      BY <1>0, <2>0 DEF Completes, Others
    <3>3. Waits(k)'
      BY <2>3, <3>1, <3>2 DEF Waits, Completed
    <3>4. QED
      BY <3>3 DEF Accounted
  <2>4. CASE \E q \in Requests : Holds(q, k)
    <3>1. PICK q \in Requests : Holds(q, k)
      BY <2>4
    <3>2. request'[q] = request[q]
      BY <1>5, <3>1 DEF Holds
    <3>3. Holds(q, k)'
      BY <1>7, <2>1, <3>1, <3>2 DEF Holds, Active
    <3>4. QED
      BY <3>3 DEF Accounted
  <2>5. QED
    BY <1>7, <2>0, <2>1, <2>2, <2>3, <2>4 DEF Tidy, Accounted
<1>8. ASSUME NEW q \in Requests
      PROVE  Clean(q)'
  <2>1. SUFFICES ASSUME Active(q), request'[q] = request[q], Product(request[q].item) \notin untidy
                 PROVE  CleanStep(q)'
    BY <1>5 DEF Clean, Active
  <2>2. CleanStep(q) /\ request[q].item \in Items
    BY <2>1 DEF Tidy, Clean, Active, Typed, StepOf
  <2>3. Below(request[q].item) \subseteq Items
    BY <2>2, BelowFacts
  <2>4. QED
    BY <2>1, <2>2, <2>3 DEF CleanStep, NamesSame, ToGo, Aim
<1>9. QED
  BY <1>1, <1>2, <1>4, <1>6, <1>7, <1>8, TidyBy

(***************************************************************************)
(* Requests that begin leave it tidy                                       *)
(***************************************************************************)
LEMMA StartingTidy ==
  ASSUME Typed, Kept, Served, Tidy, Typed', NEW r \in Requests, Starting(r)
  PROVE  Tidy'
<1>0. /\ Products \subseteq Items /\ Lessons \subseteq Items /\ Modules \subseteq Items
      /\ Courses \subseteq Items /\ Ebooks \subseteq Items /\ Ebooks \subseteq Products
      /\ Courses \subseteq Products /\ Courses \cap Ebooks = {} /\ Lessons \cap Courses = {}
      /\ None \notin Requests /\ None \notin Keys
  BY KeyType, NameAssumption DEF Items, Products
<1>g. Grows
  BY StartingGrows
<1>b. \A b \in Ebooks : Below(b) = {b}
  BY <1>0, BelowFacts
<1>k. \A k \in objects : Waits(k) => k \in Requests /\ request[k].pc = "uploaded"
  BY DEF Waits
\* A request whose key is none that a client has put.
<1>n. ASSUME NEW x \in Items, Starts(r, x), request'[r].pc # "new", KeptTables, objects' = objects,
             MarksGrow, request'[r].key \notin Requests \/ request'[r].key = r,
             Product(x) \notin untidy' => CleanStep(r)'
      PROVE  Tidy'
  <2>1. \A k \in objects : Waits(k) => request'[r].key # k
    BY <1>k, <1>n DEF Starts
  <2>2. QED
    BY <1>n, <2>1, KeptNames, StartTidy
<1>1. ASSUME NEW x \in Products \cup Lessons, NEW column \in {"title", "setting"}, x \in rows,
             EditRow(r, x, column)
      PROVE  Tidy'
  <2>1. /\ Starts(r, x) /\ request'[r].pc = "write" /\ request'[r].item = x
        /\ request'[r].key = None /\ KeptTables /\ KeptMarks /\ objects' = objects
    BY <1>1, EditRowFacts DEF Starts
  <2>2. /\ request'[r].row["thumbnail"] = row'[x]["thumbnail"]
        /\ request'[r].row["file"] = row'[x]["file"]
    BY <1>1, EditRowFacts DEF Columns, KeptTables
  <2>3. x \in Products => Named(x)' \subseteq {request'[r].row["thumbnail"], request'[r].row["file"]}
    BY <2>2, NamedIsNext
  <2>4. CleanStep(r)'
    BY <2>1, <2>3 DEF CleanStep, Aim
  <2>5. QED
    BY <1>0, <1>g, <1>n, <2>1, <2>4 DEF KeptMarks, MarksGrow
<1>2. ASSUME NEW c \in Courses, PermanentDelete(r, c)
      PROVE  Tidy'
  <2>1. /\ Starts(r, c) /\ request'[r].pc = "count" /\ request'[r].item = c
        /\ request'[r].key = None /\ request'[r].doomed = {row[c]["thumbnail"]} \ {None}
        /\ KeptTables /\ KeptMarks /\ objects' = objects
    BY <1>2, PermanentDeleteFacts DEF Starts
  <2>2. row[c]["file"] = None
    BY <1>0 DEF Kept, RowsOwn, Owns, FilesOf
  <2>3. Named(c)' = {row[c]["thumbnail"], row[c]["file"]} \ {None}
    BY <1>0, <2>1, NamedIsNext DEF KeptTables
  <2>4. CleanStep(r)'
    BY <2>1, <2>2, <2>3 DEF CleanStep, Aim
  <2>5. QED
    BY <1>0, <1>g, <1>n, <2>1, <2>4 DEF KeptMarks, MarksGrow
<1>3. ASSUME NEW m \in Modules, UpdateModule(r, m)
      PROVE  Tidy'
  <2>1. /\ Starts(r, m) /\ request'[r].pc \in {"retitle", "reorder"} /\ request'[r].key = None
        /\ KeptTables /\ KeptMarks /\ objects' = objects
    BY <1>3, UpdateModuleFacts
  <2>2. CleanStep(r)'
    BY <2>1 DEF CleanStep, Aim
  <2>3. QED
    BY <1>0, <1>g, <1>n, <2>1, <2>2 DEF KeptMarks, MarksGrow
\* The video of a lesson.
<1>v. ASSUME NEW l \in Lessons, KeptTables
      PROVE  Named(l)' \cap Requests \subseteq {video[l]} \ {None}
  <2>1. Named(l)' = ({video[l]} \ {None}) \cup GetByLessonID(l)'
    BY <1>v, NamedIsNext DEF KeptTables
  <2>2. GetByLessonID(l)' \cap Requests = {}
    BY KeysDiffer DEF GetByLessonID
  <2>3. QED
    BY <2>1, <2>2
<1>4. ASSUME NEW l \in Lessons, DeleteLesson(r, l)
      PROVE  Tidy'
  <2>1. /\ Starts(r, l) /\ request'[r].item = l /\ request'[r].key = None
        /\ request'[r].doomed = {video[l]} \ {None} /\ request'[r].next = "list"
        /\ \/ request'[r].pc = "list" /\ request'[r].doomed = {}
           \/ request'[r].pc = "purge" /\ request'[r].doomed # {}
        /\ KeptTables /\ condemned' = condemned \cup {l}
        /\ shared' = shared /\ doubtful' = doubtful /\ objects' = objects
    BY <1>4, DeleteLessonFacts DEF Starts
  <2>2. ToGo(r)' = {video[l]} \ {None} /\ Aim(request'[r]) = "list" /\ l \notin Courses
    BY <1>0, <2>1 DEF ToGo, Aim
  <2>3. CleanStep(r)'
    BY <1>v, <2>1, <2>2 DEF CleanStep
  <2>4. QED
    BY <1>0, <1>g, <1>n, <2>1, <2>3 DEF MarksGrow
<1>5. ASSUME NEW l \in Lessons, UploadVideo(r, l)
      PROVE  Tidy'
  <2>1. /\ Starts(r, l) /\ request'[r].pc = "put" /\ request'[r].next = "video"
        /\ request'[r].key = r /\ request'[r].doomed = OldVideo(l, r) /\ request'[r].item = l
        /\ KeptTables /\ KeptMarks /\ objects' = objects
    BY <1>5, UploadVideoFacts DEF Starts
  <2>2. CleanStep(r)'
    BY <1>v, <2>1 DEF CleanStep, Aim, OldVideo
  <2>3. QED
    BY <1>0, <1>g, <1>n, <2>1, <2>2 DEF KeptMarks, MarksGrow
<1>6. ASSUME NEW l \in Lessons, GetVideoUploadURL(r, l)
      PROVE  Tidy'
  <2>1. /\ Starts(r, l) /\ request'[r].pc = "presigned" /\ request'[r].key = r
        /\ KeptTables /\ KeptMarks /\ objects' = objects
    BY <1>6, GetVideoUploadURLFacts
  <2>2. CleanStep(r)'
    BY <2>1 DEF CleanStep, Aim
  <2>3. QED
    BY <1>0, <1>g, <1>n, <2>1, <2>2 DEF KeptMarks, MarksGrow
<1>7. ASSUME NEW l \in Lessons, NEW k \in Keys, CompleteVideoUpload(r, l, k)
      PROVE  Tidy'
  <2>1. /\ Starts(r, l) /\ request'[r].pc = "video" /\ request'[r].key = k /\ request'[r].item = l
        /\ request'[r].doomed = OldVideo(l, k) /\ KeptTables /\ objects' = objects
        /\ condemned' = condemned /\ shared' = shared /\ doubtful \subseteq doubtful'
    BY <1>7, CompleteVideoUploadFacts DEF Starts
  <2>2. CleanStep(r)'
    BY <1>v, <2>1 DEF CleanStep, Aim, OldVideo
  <2>3. QED
    BY <1>0, <1>g, <2>1, <2>2, KeptNames, StartTidy DEF MarksGrow
<1>8. ASSUME NEW l \in Lessons, NEW n \in Names, AddAttachment(r, l, n)
      PROVE  Tidy'
  <2>1. /\ Starts(r, l) /\ <<l, n>> \in AttachmentKeys
        /\ request'[r].pc = "put" /\ request'[r].next = "attach" /\ request'[r].key = <<l, n>>
        /\ KeptTables /\ condemned' = condemned /\ doubtful' = doubtful
        /\ shared \subseteq shared' /\ objects' = objects
    BY <1>8, AddAttachmentFacts
  <2>2. CleanStep(r)'
    BY <2>1 DEF CleanStep, Aim
  <2>3. request'[r].key \notin Requests
    BY <2>1, KeysDiffer
  <2>4. QED
    BY <1>0, <1>g, <1>n, <2>1, <2>2, <2>3 DEF MarksGrow
<1>9. ASSUME NEW k \in AttachmentKeys, DeleteAttachment(r, k)
      PROVE  Tidy'
  <2>1. /\ Starts(r, k[1]) /\ k[1] \in Lessons
        /\ request'[r].pc = "purge" /\ request'[r].next = "detach" /\ request'[r].key = k
        /\ request'[r].doomed = {k}
        /\ KeptTables /\ condemned' = condemned \cup {k} /\ doubtful' = doubtful
        /\ shared \subseteq shared' /\ objects' = objects
    BY <1>9, DeleteAttachmentFacts
  <2>2. CleanStep(r)'
    BY <2>1 DEF CleanStep, Aim, ToGo
  <2>3. request'[r].key \notin Requests
    BY <2>1, KeysDiffer
  <2>4. QED
    BY <1>0, <1>g, <1>n, <2>1, <2>2, <2>3 DEF MarksGrow
<1>10. ASSUME NEW b \in Ebooks, NEW kind \in {"thumbnail", "file"}, NEW n \in Names,
              UploadEbook(r, b, kind, n)
       PROVE  Tidy'
  <2>1. PICK k \in ProductKeys : k = <<b, kind, n>>
    BY <1>10, UploadEbookFacts
  <2>2. /\ Starts(r, b) /\ request'[r].pc = "put" /\ request'[r].next = "read"
        /\ request'[r].key = k /\ KeptTables /\ KeptMarks /\ objects' = objects
    BY <1>10, <2>1, UploadEbookFacts
  <2>3. CleanStep(r)'
    BY <2>2 DEF CleanStep, Aim
  <2>4. request'[r].key \notin Requests
    BY <2>2, KeysDiffer
  <2>5. QED
    BY <1>0, <1>g, <1>n, <2>2, <2>3, <2>4 DEF KeptMarks, MarksGrow
<1>11. ASSUME NEW b \in Ebooks, DeleteEbook(r, b)
       PROVE  Tidy'
  <2>1. /\ Starts(r, b) /\ request'[r].item = b /\ request'[r].key = None
        /\ request'[r].doomed = {row[b]["file"], row[b]["thumbnail"]} \ {None}
        /\ request'[r].next = "delete"
        /\ \/ request'[r].pc = "delete" /\ request'[r].doomed = {}
           \/ request'[r].pc = "purge" /\ request'[r].doomed # {}
        /\ KeptTables /\ condemned' = condemned \cup {b}
        /\ shared' = shared /\ doubtful' = doubtful /\ objects' = objects
    BY <1>11, DeleteEbookFacts DEF Starts
  <2>2. ToGo(r)' = {row[b]["file"], row[b]["thumbnail"]} \ {None} /\ Aim(request'[r]) = "delete"
    BY <2>1 DEF ToGo, Aim
  <2>3. Named(b)' = {row[b]["thumbnail"], row[b]["file"]} \ {None}
    BY <1>0, <2>1, NamedIsNext DEF KeptTables
  <2>4. CleanStep(r)'
    BY <1>b, <2>1, <2>2, <2>3 DEF CleanStep
  <2>5. QED
    BY <1>0, <1>g, <1>n, <2>1, <2>4 DEF MarksGrow
<1>12. ASSUME NEW c \in Courses, SoftDelete(r, c)
       PROVE  Tidy'
  <2>1. /\ request[r].pc = "new" /\ Others(r) /\ request'[r].pc = "done" /\ request'[r].item = c
        /\ request'[r].key = None /\ SetTo(c, "setting", r) /\ KeptMarks
        /\ UNCHANGED <<rows, born, video, attached, objects, untidy>>
    BY <1>12, SoftDeleteFacts
  <2>2. \A x \in Items : row'[x]["thumbnail"] = row[x]["thumbnail"] /\ row'[x]["file"] = row[x]["file"]
    BY <2>1 DEF SetTo, Columns
  <2>3. NamesSame
    BY <2>1, <2>2, NamedAlike DEF NamesSame
  <2>4. QED
    BY <1>0, <1>g, <2>1, <2>3, DoneTidy DEF KeptMarks, MarksGrow
<1>13. ASSUME NEW c \in Courses, LinkPicture(r, c)
       PROVE  Tidy'
  <2>1. /\ Starts(r, c) /\ request'[r].pc = "write" /\ request'[r].item = c
        /\ request'[r].key = None /\ KeptTables /\ KeptMarks /\ objects' = objects
    BY <1>13, LinkPictureFacts DEF Starts
  <2>2. /\ row[c]["thumbnail"] # None => c \in untidy'
        /\ request'[r].row["file"] = row[c]["file"]
    BY <1>13, LinkPictureFacts DEF Columns
  <2>3. Named(c)' = {row[c]["thumbnail"], row[c]["file"]} \ {None}
    BY <1>0, <2>1, NamedIsNext DEF KeptTables
  <2>4. ASSUME Product(c) \notin untidy'
        PROVE  CleanStep(r)'
    <3>1. row[c]["thumbnail"] = None
      BY <1>0, <2>2, <2>4, ProductType
    <3>2. QED
      BY <2>1, <2>2, <2>3, <3>1 DEF CleanStep, Aim
  <2>5. QED
    BY <1>0, <1>g, <1>n, <2>1, <2>4 DEF KeptMarks, MarksGrow
<1>14. ASSUME NEW c \in Courses, NEW n \in Names, QueueThumbnailUpdate(r, c, n)
       PROVE  Tidy'
  <2>1. PICK k \in ProductKeys : k[1] = c /\ request'[r].key = k
    BY <1>14, QueueThumbnailUpdateFacts
  <2>2. /\ Starts(r, c) /\ request'[r].pc = "put" /\ request'[r].next = "picture"
        /\ request'[r].item = c /\ request'[r].doomed = {row[c]["thumbnail"]} \ {None}
        /\ KeptTables /\ KeptMarks /\ objects' = objects
    BY <1>14, QueueThumbnailUpdateFacts DEF Starts
  <2>3. row[c]["file"] = None
    BY <1>0 DEF Kept, RowsOwn, Owns, FilesOf
  <2>4. Named(c)' = {row[c]["thumbnail"], row[c]["file"]} \ {None}
    BY <1>0, <2>2, NamedIsNext DEF KeptTables
  <2>5. CleanStep(r)'
    BY <2>2, <2>3, <2>4 DEF CleanStep, Aim
  <2>6. request'[r].key \notin Requests
    BY <2>1, KeysDiffer
  <2>7. QED
    BY <1>0, <1>g, <1>n, <2>2, <2>5, <2>6 DEF KeptMarks, MarksGrow
<1>15. QED
  BY <1>1, <1>2, <1>3, <1>4, <1>5, <1>6, <1>7, <1>8, <1>9, <1>10, <1>11, <1>12, <1>13, <1>14
     DEF Starting

(***************************************************************************)
(* Steps leave it tidy                                                     *)
(***************************************************************************)
LEMMA NamedAt ==
  ASSUME Typed, NEW x \in Items,
         x \in Lessons => video'[x] = video[x] /\ GetByLessonID(x)' = GetByLessonID(x),
         x \in Products => row'[x] = row[x]
  PROVE  Named(x)' = Named(x)
<1>1. CASE x \in Lessons
  BY <1>1, NamedIs, NamedIsNext
<1>2. CASE x \in Products
  BY <1>2, NamedIs, NamedIsNext
<1>3. CASE x \in Modules
  BY <1>3, NamedIs, NamedIsNext
<1>4. QED
  BY <1>1, <1>2, <1>3 DEF Items

LEMMA RemovedNames ==
  ASSUME Typed, NEW x \in Items, Removes(x), NEW y \in Items
  PROVE  /\ y \notin Below(x) => Named(y)' = Named(y)
         /\ y \in Below(x) => Named(y)' = {}
<1>1. ASSUME y \notin Below(x)
      PROVE  Named(y)' = Named(y)
  <2>1. y \in Lessons => video'[y] = video[y]
    BY <1>1 DEF Removes
  <2>2. y \in Lessons => GetByLessonID(y)' = GetByLessonID(y)
    BY <1>1 DEF Removes, GetByLessonID
  <2>3. y \in Products => row'[y] = row[y]
    BY <1>1 DEF Removes
  <2>4. QED
    BY <2>1, <2>2, <2>3, NamedAt
<1>2. ASSUME y \in Below(x)
      PROVE  Named(y)' = {}
  <2>1. CASE y \in Lessons
    <3>1. video'[y] = None /\ GetByLessonID(y)' = {}
      BY <1>2, <2>1 DEF Removes, GetByLessonID
    <3>2. QED
      BY <2>1, <3>1, NamedIsNext
  <2>2. CASE y \in Products
    <3>1. row'[y] = Blank
      BY <1>2 DEF Removes
    <3>2. QED
      BY <2>2, <3>1, NamedIsNext DEF Blank, Columns
  <2>3. CASE y \in Modules
    BY <2>3, NamedIsNext
  <2>4. QED
    BY <2>1, <2>2, <2>3 DEF Items
<1>3. QED
  BY <1>1, <1>2

LEMMA DoneClean ==
  ASSUME NEW r \in Requests, Aim(request'[r]) = "done"
  PROVE  CleanStep(r)'
BY DEF CleanStep, Aim

\* Names and objects stay as they are.
LEMMA QuietTidy ==
  ASSUME Typed, Kept, Served, Tidy, Typed', NEW r \in Requests, Active(r), MovesOn(r), MarksGrow,
         NamesSame, untidy \subseteq untidy', NEW p, p = Product(request[r].item),
         p \notin untidy' => \A k \in objects : Holds(r, k) => InUse(k) \/ Holds(r, k)',
         p \notin untidy' => CleanStep(r)'
  PROVE  Tidy'
<1>1. Apart(p)
  BY DEF Apart, NamesSame
<1>2. \A k : InUse(k) => InUse(k)'
  BY DEF InUse, NamesSame
<1>3. objects' = objects
  BY DEF NamesSame
<1>4. QED
  BY <1>1, <1>2, <1>3, MoveTidy

LEMMA EndTidy ==
  ASSUME Typed, Kept, Served, Tidy, Typed', NEW r \in Requests, Active(r), Ends(r), MarksGrow,
         NamesSame, untidy \subseteq untidy',
         Product(request[r].item) \notin untidy' => 
           request[r].pc \notin {"video", "attach", "read", "picture", "write", "purge"}
  PROVE  Tidy'
<1>1. MovesOn(r)
  BY EndsOn
<1>2. CleanStep(r)'
  BY DoneClean DEF Ends, Aim
<1>3. Product(request[r].item) \notin untidy' => \A k \in objects : ~Holds(r, k)
  BY DEF Holds
<1>4. QED
  BY <1>1, <1>2, <1>3, QuietTidy

LEMMA SpoiledTidy ==
  ASSUME Typed, Kept, Served, Tidy, Typed', NEW r \in Requests, Active(r), MovesOn(r), MarksGrow,
         NamesSame, SpoilsOne(r)
  PROVE  Tidy'
<1>1. untidy \subseteq untidy' /\ Product(request[r].item) \in untidy'
  BY DEF SpoilsOne
<1>2. QED
  BY <1>1, QuietTidy

\* A client puts a video.
LEMMA ClientPutTidy ==
  ASSUME Typed, Kept, Served, Tidy, Typed', NEW r \in Requests, ClientPut(r)
  PROVE  Tidy'
<1> DEFINE p == Product(request[r].item)
<1>1. /\ request[r].pc = "presigned" /\ request[r].key = r /\ request[r].item \in Lessons
      /\ Advances(r, "uploaded") /\ objects' = objects \cup {r}
      /\ KeptTables /\ KeptMarks /\ untidy' = untidy
  BY ClientPutFacts
<1>2. /\ request'[r].pc = "uploaded" /\ request'[r].item = request[r].item
      /\ request'[r].key = r /\ Others(r) /\ MovesOn(r) /\ ~Active(r) /\ ~Active(r)'
  BY <1>1 DEF Advances, Moves, MovesOn, Writes, Aim, Active
<1>3. Forward
  BY <1>1, <1>2, MovesForward DEF MarksGrow, KeptMarks, Grows
<1>4. \A x \in Items : Named(x)' = Named(x)
  BY <1>1, NamedSame
<1>5. Of(r) = p
  BY OfIs
<1>6. About(r, p) /\ Apart(p)
  BY <1>1, <1>2, <1>4, <1>5 DEF About, Others, Apart
<1>7. ASSUME p \notin untidy', NEW w \in Requests, request[w].key = r
      PROVE  w = r
  BY <1>1, <1>7, KeyType DEF Typed, KeyOf, At, Astray, Owner
<1>8. ASSUME p \notin untidy', NEW x \in Items, Product(x) = p
      PROVE  r \notin Named(x)
  <2>1. SUFFICES ASSUME r \in Named(x)
                 PROVE  FALSE
    OBVIOUS
  <2>2. x \in Lessons /\ r = video[x]
    BY <2>1, NamedOwn, KeysDiffer DEF Kept
  <2>3. Written(r)
    BY <2>2, KeyType DEF Served, VideoWritten
  <2>4. QED
    BY <1>1, <1>7, <1>8, <2>3 DEF Written, Past, Writes
<1>9. Uploaded' /\ OneAtATime'
  BY <1>1, <1>2 DEF Tidy, Uploaded, OneAtATime, Others, Active
<1>10. ASSUME p \notin untidy', NEW k \in objects', Of(k)' = p
       PROVE  Accounted(k)'
  <2>1. CASE k = r
    <3>1. ~Completed(r)'
      BY <1>2, <1>7, <1>10 DEF Completed, Completes, Others
    <3>2. Waits(r)'
      BY <1>2, <3>1 DEF Waits
    <3>3. QED
      BY <2>1, <3>2 DEF Accounted
  <2>2. CASE k # r
    <3>0. k \in objects /\ k \in Keys /\ Accounted(k)
      BY <1>1, <2>2 DEF Tidy, Typed, TypeOK
    <3>1. Of(k) = p
      BY <1>2, <1>10, <2>2, <3>0, OfIs, OfIsNext DEF Keys, Others
    <3>2. CASE InUse(k)
      BY <1>4, <3>2 DEF InUse, Accounted
    <3>3. CASE Waits(k)
      <4>1. request'[k] = request[k]
        BY <1>2, <2>2, <3>3 DEF Waits, Others
      <4>2. \A w \in Requests : Completes(w, k)' => Completes(w, k)
        BY <1>2 DEF Completes, Others
      <4>3. Waits(k)'
        BY <3>3, <4>1, <4>2 DEF Waits, Completed
      <4>4. QED
        BY <4>3 DEF Accounted
    <3>4. CASE \E q \in Requests : Holds(q, k)
      <4>1. PICK q \in Requests : Holds(q, k)
        BY <3>4
      <4>2. request'[q] = request[q]
        BY <1>2, <4>1 DEF Holds, Others
      <4>3. Holds(q, k)'
        BY <1>10, <3>1, <4>1, <4>2 DEF Holds, Active
      <4>4. QED
        BY <4>3 DEF Accounted
    <3>5. QED
      BY <1>1, <1>10, <3>0, <3>1, <3>2, <3>3, <3>4 DEF Accounted
  <2>3. QED
    BY <2>1, <2>2
<1>11. ASSUME p \notin untidy', NEW q \in Requests, Product(request'[q].item) = p
       PROVE  Clean(q)'
  <2>1. SUFFICES ASSUME Active(q), request'[q] = request[q], Product(request[q].item) = p,
                        p \notin untidy
                 PROVE  CleanStep(q)'
    BY <1>1, <1>2, <1>11 DEF Clean, Active, Others
  <2>2. CleanStep(q) /\ StepOf(q) /\ request[q].item \in Items
    BY <2>1 DEF Tidy, Clean, Active, Typed, StepOf
  <2>3. \A x \in Items : Named(x)' = Named(x)
    BY <1>4
  <2>4. \A x \in Items : Product(x) = p => Named(x) \cap objects' = Named(x) \cap objects
    BY <1>1, <1>8, <1>11
  <2>5. \A x \in Below(request[q].item) : x \in Items /\ Product(x) = p
    BY <2>1, <2>2, BelowFacts
  <2>6. Aim(request[q]) = "detach" => {request[q].key} \cap objects' = {request[q].key} \cap objects
    <3>1. Aim(request[q]) = "detach" => request[q].key # r
      BY <2>2, KeysDiffer DEF StepOf
    <3>2. QED
      BY <1>1, <3>1
  <2>7. ToGo(q)' = ToGo(q) /\ Aim(request'[q]) = Aim(request[q])
    BY <2>1 DEF ToGo
  <2>8. QED
    BY <2>1, <2>2, <2>3, <2>4, <2>5, <2>6, <2>7 DEF CleanStep
<1>12. QED
  BY <1>3, <1>6, <1>9, <1>10, <1>11, TidyBy

LEMMA SteppingTidy ==
  ASSUME Typed, Kept, Served, Tidy, Typed', NEW r \in Requests, Stepping(r)
  PROVE  Tidy'
<1>0. /\ Products \subseteq Items /\ Lessons \subseteq Items /\ Modules \subseteq Items
      /\ Courses \subseteq Items /\ Ebooks \subseteq Items /\ Ebooks \subseteq Products
      /\ Courses \subseteq Products /\ Lessons \cap Courses = {} /\ Ebooks \cap Courses = {}
      /\ Modules \cap Courses = {} /\ Lessons \cap Products = {}
      /\ None \notin Requests /\ None \notin Keys
  BY KeyType, NameAssumption DEF Items, Products
<1> DEFINE p == Product(request[r].item)
<1>g. Grows
  BY SteppingGrows
<1>c. Active(r) /\ p \notin untidy' /\ untidy \subseteq untidy' => CleanStep(r)
  BY DEF Tidy, Clean
<1>1. CASE Count(r)
  <2>1. /\ request[r].pc = "count" /\ request[r].item \in Courses /\ Active(r)
        /\ KeptTables /\ shared' = shared /\ doubtful' = doubtful /\ objects' = objects
        /\ untidy' = untidy
    BY <1>1, CountFacts DEF Active
  <2>2. NamesSame
    BY <2>1, KeptNames
  <2>3. CASE Ends(r) /\ condemned' = condemned
    BY <1>g, <2>1, <2>2, <2>3, EndTidy DEF MarksGrow
  <2>4. CASE Clears(r, request[r].doomed, "list") /\ condemned' = condemned \cup {request[r].item}
    <3>1. PICK c \in Courses : c = request[r].item
      BY <2>1
    <3>2. /\ request'[r].item = c /\ request'[r].doomed = request[r].doomed /\ MovesOn(r)
          /\ request'[r].pc \in {"list", "purge"} /\ request'[r].next = "list"
          /\ request'[r].doomed # {} => request'[r].pc = "purge"
      BY <2>1, <2>4, <3>1 DEF Clears, Moves, MovesOn, Writes, Aim
    <3>3. ToGo(r)' = request[r].doomed /\ Aim(request'[r]) = "list" /\ c \notin Lessons
      BY <1>0, <3>2 DEF ToGo, Aim
    <3>4. p \notin untidy' => Named(c)' \subseteq request[r].doomed
      BY <1>0, <1>c, <2>1, <2>2, <3>1 DEF CleanStep, NamesSame
    <3>5. p \notin untidy' => CleanStep(r)'
      BY <3>2, <3>3, <3>4 DEF CleanStep
    <3>6. \A k \in objects : ~Holds(r, k)
      BY <2>1 DEF Holds
    <3>7. QED
      BY <1>g, <2>1, <2>2, <2>4, <3>2, <3>5, <3>6, QuietTidy DEF MarksGrow
  <2>5. QED
    BY <1>1, <2>3, <2>4, CountFacts
<1>2. CASE Put(r)
  <2>1. /\ request[r].pc = "put" /\ request[r].next \in {"video", "attach", "read", "picture"}
        /\ Advances(r, request[r].next) /\ objects' = objects \cup {request[r].key}
        /\ KeptTables /\ KeptMarks /\ request[r].key \in Keys /\ untidy' = untidy /\ Active(r)
    BY <1>2, PutFacts DEF Active
  <2>2. PICK k \in Keys : k = request[r].key
    BY <2>1
  <2>3. /\ request'[r].pc = request[r].next /\ request'[r].item = request[r].item
        /\ request'[r].key = k /\ request'[r].doomed = request[r].doomed
        /\ Aim(request'[r]) = Aim(request[r]) /\ Aim(request[r]) = request[r].next /\ MovesOn(r)
    BY <2>1, <2>2 DEF Advances, Moves, MovesOn, Writes, Aim
  <2>4. StepOf(r) /\ request[r].item \in Items
    BY <2>1, RequestFacts
  <2>5. \/ k = r /\ request[r].item \in Lessons
        \/ k \in AttachmentKeys /\ request[r].item = k[1]
        \/ k \in ProductKeys /\ request[r].item = k[1]
    BY <2>1, <2>2, <2>3, <2>4 DEF StepOf
  <2>6. Of(k) = p
    BY <2>5, OfIs, KeyType, ProductType
  <2>7. \A x \in Items : Named(x)' = Named(x)
    BY <2>1, NamedSame
  <2>8. Apart(p)
    BY <2>1, <2>2, <2>6, <2>7 DEF Apart
  <2>9. Holds(r, k)'
    <3>1. Of(k)' = p
      BY <2>3, <2>5, <2>6, OfIs, OfIsNext
    <3>2. QED
      BY <2>1, <2>3, <3>1 DEF Holds, Active
  <2>10. \A j \in objects' : j \notin objects \/ InUse(j) \/ Holds(r, j) => InUse(j)' \/ Holds(r, j)'
    BY <2>1, <2>2, <2>7, <2>9 DEF InUse, Holds
  <2>11. p \notin untidy' => CleanStep(r)'
    BY <1>c, <2>1, <2>2, <2>3, <2>4, <2>7 DEF CleanStep
  <2>12. \A j \in objects' \cap Requests : j \notin objects => request[j].item \in Lessons
    BY <2>1, <2>2, <2>5, KeysDiffer
  <2>13. QED
    BY <1>g, <2>1, <2>3, <2>8, <2>10, <2>11, <2>12, MoveTidy DEF KeptMarks, MarksGrow
<1>3. CASE Fail(r)
  <2>1. /\ Active(r) /\ Ends(r) /\ SpoilsOne(r) /\ KeptTables /\ KeptMarks /\ objects' = objects
    BY <1>3, FailFacts
  <2>2. QED
    BY <1>g, <2>1, EndsOn, KeptNames, SpoiledTidy DEF KeptMarks, MarksGrow
<1>4. CASE UpdateTitle(r) \/ UpdateOrder(r)
  <2>1. /\ request[r].pc \in {"retitle", "reorder"} /\ Active(r) /\ untidy' = untidy
        /\ UNCHANGED <<rows, video, attached, objects>> /\ KeptMarks
    BY <1>4, UpdateTitleFacts, UpdateOrderFacts DEF Active
  <2>2. \/ Ends(r)
        \/ Advances(r, "reorder") \/ Advances(r, "done")
    BY <1>4, UpdateTitleFacts, UpdateOrderFacts
  <2>3. \/ \E column \in {"title", "setting"} : SetTo(request[r].item, column, r)
        \/ row' = row
    BY <1>4, UpdateTitleFacts, UpdateOrderFacts
  <2>4. \A x \in Items : row'[x]["thumbnail"] = row[x]["thumbnail"] /\ row'[x]["file"] = row[x]["file"]
    BY <2>3 DEF SetTo, Columns
  <2>5. NamesSame
    BY <2>1, <2>4, NamedAlike DEF NamesSame
  <2>6. MovesOn(r) /\ request'[r].pc \in {"reorder", "done"}
    BY <2>1, <2>2 DEF MovesOn, Ends, Advances, Moves, Writes, Aim
  <2>7. CleanStep(r)'
    BY <2>6 DEF CleanStep, Aim
  <2>8. \A k \in objects : ~Holds(r, k)
    BY <2>1 DEF Holds
  <2>9. QED
    BY <1>g, <2>1, <2>5, <2>6, <2>7, <2>8, QuietTidy DEF KeptMarks, MarksGrow
<1>5. CASE Purge(r)
  <2>1. /\ request[r].pc = "purge" /\ KeptTables /\ KeptMarks /\ Active(r)
        /\ request[r].next \in {"list", "delete", "detach", "done"}
    BY <1>5, PurgeFacts, RequestFacts DEF StepOf, Active
  <2>2. PICK k \in request[r].doomed :
          /\ Clears(r, request[r].doomed \ {k}, request[r].next)
          /\ \/ objects' = objects \ {k} /\ untidy' = untidy
             \/ objects' = objects /\ SpoilsOne(r)
    BY <1>5, PurgeFacts
  <2>3. PICK d : d = request[r].doomed \ {k}
    OBVIOUS
  <2>4. /\ request'[r].item = request[r].item /\ request'[r].key = request[r].key
        /\ request'[r].next = request[r].next
        /\ Aim(request'[r]) = request[r].next /\ Aim(request[r]) = request[r].next
        /\ request'[r].pc \in {"purge", request[r].next}
        /\ request'[r].doomed = d
        /\ d # {} => request'[r].pc = "purge"
        /\ MovesOn(r)
    BY <2>1, <2>2, <2>3 DEF Clears, Moves, MovesOn, Writes, Aim
  <2>5. CASE objects' = objects /\ SpoilsOne(r)
    BY <1>g, <2>1, <2>4, <2>5, KeptNames, SpoiledTidy DEF KeptMarks, MarksGrow
  <2>6. CASE objects' = objects \ {k} /\ untidy' = untidy
    <3>1. \A x \in Items : Named(x)' = Named(x)
      BY <2>1, NamedSame
    <3>2. Apart(p)
      BY <2>6, <3>1 DEF Apart
    <3>3. ASSUME NEW j \in objects', Of(j) = p, InUse(j) \/ Holds(r, j)
          PROVE  InUse(j)' \/ Holds(r, j)'
      <4>1. CASE InUse(j)
        BY <3>1, <4>1 DEF InUse
      <4>2. CASE Holds(r, j)
        <5>1. j \in d /\ request'[r].pc = "purge"
          BY <2>1, <2>3, <2>4, <2>6, <3>3, <4>2 DEF Holds
        <5>2. j \in Keys
          BY <2>6, <3>3 DEF Typed, TypeOK
        <5>3. Of(j)' = Of(j)
          <6>1. j \in Requests => request'[j].item = request[j].item
            BY <2>4 DEF MovesOn, Moves, Others
          <6>2. QED
            BY <5>2, <6>1, OfIs, OfIsNext DEF Keys
        <5>4. Holds(r, j)'
          BY <2>4, <3>3, <5>1, <5>3 DEF Holds, Active
        <5>5. QED
          BY <5>4
      <4>3. QED
        BY <3>3, <4>1, <4>2
    <3>4. ToGo(r) = request[r].doomed /\ ToGo(r)' = d
      BY <2>1, <2>4 DEF ToGo
    <3>5. PICK x \in Items : x = request[r].item
      BY <2>1, RequestFacts
    <3>6. Below(x) \subseteq Items
      BY <3>5, BelowFacts
    <3>7. \A j \in objects' : j \in objects /\ (j \in request[r].doomed => j \in d)
      BY <2>3, <2>6
    <3>8. p \notin untidy' => CleanStep(r)'
      <4>1. ASSUME p \notin untidy'
            PROVE  CleanStep(r)
        BY <1>c, <2>1, <2>6, <4>1
      <4>2. ASSUME p \notin untidy', Aim(request[r]) = "list", x \in Lessons
            PROVE  Named(x)' \cap Requests \cap objects' \subseteq d
        <5>1. Named(x) \cap Requests \cap objects \subseteq ToGo(r)
          BY <3>5, <4>1, <4>2 DEF CleanStep
        <5>2. QED
          BY <3>1, <3>4, <3>7, <5>1
      <4>3. ASSUME p \notin untidy', Aim(request[r]) = "list", x \in Courses
            PROVE  Named(x)' \cap objects' \subseteq d
        <5>1. Named(x) \cap objects \subseteq ToGo(r)
          BY <3>5, <4>1, <4>3 DEF CleanStep
        <5>2. QED
          BY <3>1, <3>4, <3>7, <5>1
      <4>4. ASSUME p \notin untidy', Aim(request[r]) = "delete", NEW y \in Below(x)
            PROVE  Named(y)' \cap objects' \subseteq d
        BY <3>1, <3>4, <3>5, <3>6, <3>7, <4>1, <4>4 DEF CleanStep
      <4>5. ASSUME p \notin untidy', Aim(request[r]) = "detach"
            PROVE  {request[r].key} \cap objects' \subseteq d
        BY <3>4, <3>7, <4>1, <4>5 DEF CleanStep
      <4>6. QED
        BY <2>1, <2>4, <3>4, <3>5, <4>2, <4>3, <4>4, <4>5 DEF CleanStep
    <3>9. QED
      BY <1>g, <2>1, <2>4, <2>6, <3>2, <3>3, <3>8, MoveTidy DEF KeptMarks, MarksGrow
  <2>7. QED
    BY <2>2, <2>5, <2>6
<1>6. CASE List(r)
  <2>1. /\ request[r].pc = "list" /\ request[r].item \in Courses \cup Lessons /\ Active(r)
        /\ KeptTables /\ KeptMarks /\ objects' = objects
    BY <1>6, ListFacts DEF Active
  <2>2. NamesSame
    BY <2>1, KeptNames
  <2>3. PICK x \in Courses \cup Lessons : x = request[r].item
    BY <2>1
  <2>4. CASE Advances(r, "delete") /\ SpoilsOne(r)
    <3>1. MovesOn(r)
      BY <2>1, <2>4 DEF Advances, MovesOn, Moves, Writes, Aim
    <3>2. QED
      BY <1>g, <2>1, <2>2, <2>4, <3>1, SpoiledTidy DEF KeptMarks, MarksGrow
  <2>5. CASE Clears(r, Children(x) \ {None}, "delete") /\ untidy' = untidy
    <3>1. PICK d : d = Children(x) \ {None}
      OBVIOUS
    <3>2. /\ request'[r].item = x /\ request'[r].doomed = d /\ MovesOn(r)
          /\ request'[r].pc \in {"delete", "purge"} /\ request'[r].next = "delete"
          /\ d # {} => request'[r].pc = "purge"
      BY <2>1, <2>3, <2>5, <3>1 DEF Clears, Moves, MovesOn, Writes, Aim
    <3>3. ToGo(r)' = d /\ Aim(request'[r]) = "delete"
      BY <3>2 DEF ToGo, Aim
    <3>4. ToGo(r) = {} /\ Aim(request[r]) = "list" /\ x \in Items
      BY <1>0, <2>1 DEF ToGo, Aim
    <3>5. ASSUME p \notin untidy', NEW y \in Below(x), NEW k \in Named(y), k \in objects
          PROVE  k \in d
      <4>0. y \in Items /\ Product(y) = Product(x) /\ k # None
        BY <1>0, <3>4, <3>5, BelowFacts DEF Typed, TypeOK
      <4>1. CleanStep(r)
        BY <1>c, <2>1, <2>5, <3>5
      <4>2. CASE x \in Lessons
        <5>1. y = x
          BY <3>4, <4>2, BelowFacts
        <5>2. k \notin Requests
          BY <2>3, <3>4, <3>5, <4>1, <4>2, <5>1 DEF CleanStep
        <5>3. k \in GetByLessonID(x)
          BY <2>3, <2>5, <3>5, <4>0, <4>2, <5>1, <5>2, NamedIs, OwnVideo
        <5>4. QED
          BY <3>1, <4>0, <4>2, <5>3 DEF Children
      <4>3. CASE x \in Courses
        <5>1. y # x
          BY <2>3, <3>4, <3>5, <4>1, <4>3 DEF CleanStep
        <5>2. Product(y) = x
          BY <1>0, <4>0, <4>3, ProductType
        <5>3. y \in Lessons
          <6>1. y \in Products => y = x
            BY <5>2, ProductType
          <6>2. y \in Modules => Named(y) = {}
            BY NamedIs
          <6>3. QED
            BY <3>5, <4>0, <5>1, <6>1, <6>2 DEF Items
        <5>4. y \in rows
          BY <3>5, <4>0, NothingNamed DEF Kept
        <5>5. k = video[y] \/ k \in GetByLessonID(y)
          BY <3>5, <5>3, NamedIs
        <5>6. k \in Curriculum(x)
          BY <5>2, <5>3, <5>4, <5>5 DEF Curriculum
        <5>7. QED
          BY <1>0, <3>1, <4>0, <4>3, <5>6 DEF Children
      <4>4. QED
        BY <4>2, <4>3
    <3>6. p \notin untidy' => \A y \in Below(x) : Named(y)' \cap objects' \subseteq d
      BY <2>2, <3>4, <3>5, BelowFacts DEF NamesSame
    <3>7. p \notin untidy' => CleanStep(r)'
      BY <3>2, <3>3, <3>6 DEF CleanStep
    <3>8. \A k \in objects : ~Holds(r, k)
      BY <2>1 DEF Holds
    <3>9. QED
      BY <1>g, <2>1, <2>2, <2>5, <3>2, <3>7, <3>8, QuietTidy DEF KeptMarks, MarksGrow
  <2>6. QED
    BY <1>6, <2>3, <2>4, <2>5, ListFacts
<1>7. CASE ReadEbook(r)
  <2>1. /\ request[r].pc = "read" /\ request[r].item \in Ebooks /\ Active(r)
        /\ request[r].column \in {"thumbnail", "file"}
        /\ KeptTables /\ KeptMarks /\ objects' = objects
    BY <1>7, ReadEbookFacts DEF Active
  <2>2. NamesSame
    BY <2>1, KeptNames
  <2>3. CASE Ends(r) /\ SpoilsOne(r)
    BY <1>g, <2>1, <2>2, <2>3, EndsOn, SpoiledTidy DEF KeptMarks, MarksGrow
  <2>4. CASE ~(Ends(r) /\ SpoilsOne(r))
    <3>0. PICK rw : rw = request'[r].row
      OBVIOUS
    <3>1. PICK b \in Ebooks, column \in {"thumbnail", "file"}, k \in ProductKeys :
            b = request[r].item /\ column = request[r].column /\ k = request[r].key
      BY <1>7, ReadEbookFacts
    <3>2. /\ Moves(r) /\ request'[r].pc = "write" /\ rw[column] = k
          /\ \A c \in Columns : c # column => rw[c] = row[b][c]
          /\ untidy \subseteq untidy'
          /\ row[b][column] \in {None, k} \/ b \in untidy'
      BY <1>7, <2>4, <3>0, <3>1, ReadEbookFacts
    <3>3. MovesOn(r) /\ request'[r].item = b /\ request'[r].key = k
      BY <2>1, <3>1, <3>2 DEF Moves, MovesOn, Writes, Aim
    <3>4. p = b /\ b \in Products /\ b \in Items
      BY <1>0, <3>1, ProductType
    <3>5. Named(b)' = {row[b]["thumbnail"], row[b]["file"]} \ {None}
      BY <2>2, <3>4, NamedIs DEF NamesSame
    <3>6. ASSUME p \notin untidy'
          PROVE  CleanStep(r)'
      <4>1. Named(b)' \subseteq {rw["thumbnail"], rw["file"]}
        BY <3>1, <3>2, <3>4, <3>5, <3>6 DEF Columns
      <4>2. QED
        BY <3>0, <3>1, <3>2, <3>3, <4>1 DEF CleanStep, Aim
    <3>7. ASSUME NEW j \in objects, Holds(r, j)
          PROVE  Holds(r, j)'
      <4>1. j = k /\ Of(j) = b
        BY <2>1, <3>1, <3>4, <3>7 DEF Holds
      <4>2. Of(j)' = b
        BY <4>1, OfIs, OfIsNext
      <4>3. j \in {rw["thumbnail"], rw["file"]}
        BY <3>1, <3>2, <4>1
      <4>4. QED
        BY <3>0, <3>1, <3>2, <3>3, <3>4, <4>2, <4>3 DEF Holds, Active
    <3>8. QED
      BY <1>g, <2>1, <2>2, <3>2, <3>3, <3>6, <3>7, QuietTidy DEF KeptMarks, MarksGrow
  <2>5. QED
    BY <2>3, <2>4
<1>8. CASE WriteVideo(r)
  <2>1. /\ request[r].pc = "video" /\ request[r].item \in Lessons /\ request[r].key \in Keys
        /\ UNCHANGED <<rows, born, row, attached, objects>> /\ KeptMarks /\ Active(r)
    BY <1>8, WriteVideoFacts DEF Active
  <2>2. CASE Ends(r) /\ video' = video /\ SpoilsOne(r)
    <3>1. NamesSame
      BY <2>1, <2>2, KeptNames DEF KeptTables
    <3>2. QED
      BY <1>g, <2>1, <2>2, <3>1, EndsOn, SpoiledTidy DEF KeptMarks, MarksGrow
  <2>3. CASE /\ SetVideo(request[r].item, request[r].key) /\ Clears(r, request[r].doomed, "done")
             /\ untidy' = untidy
    <3>1. PICK l \in Lessons, k \in Keys : l = request[r].item /\ k = request[r].key
      BY <2>1
    <3>2. /\ request'[r].pc \in {"done", "purge"} /\ request'[r].next = "done"
          /\ request'[r].doomed = request[r].doomed /\ request'[r].item = l /\ request'[r].key = k
          /\ request[r].doomed # {} => request'[r].pc = "purge"
          /\ MovesOn(r)
      BY <2>1, <2>3, <3>1 DEF Clears, Moves, MovesOn, Writes, Aim
    <3>3. video'[l] = k /\ \A m \in Lessons : m # l => video'[m] = video[m]
      BY <2>3, <3>1 DEF SetVideo
    <3>4. \A x \in Items : x # l => Named(x)' = Named(x)
      BY <2>1, <3>3, NamedAt DEF GetByLessonID
    <3>5. GetByLessonID(l)' = GetByLessonID(l)
      BY <2>1 DEF GetByLessonID
    <3>6. Named(l)' = {k} \cup GetByLessonID(l) /\ Named(l) = ({video[l]} \ {None}) \cup GetByLessonID(l)
      BY <1>0, <3>3, <3>5, NamedIs, NamedIsNext
    <3>7. Apart(p)
      BY <2>1, <2>3, <3>1, <3>4 DEF Apart
    <3>8. ASSUME p \notin untidy', NEW j \in objects, Of(j) = p, InUse(j) \/ Holds(r, j)
          PROVE  InUse(j)' \/ Holds(r, j)'
      <4>0. InUse(k)'
        BY <1>0, <3>6 DEF InUse
      <4>1. CASE Holds(r, j)
        BY <2>1, <3>1, <4>0, <4>1 DEF Holds
      <4>2. CASE InUse(j)
        <5>1. PICK x \in Items : j \in Named(x)
          BY <4>2 DEF InUse
        <5>2. CASE x # l \/ j \in GetByLessonID(l)
          BY <1>0, <3>4, <3>6, <5>1, <5>2 DEF InUse
        <5>3. CASE x = l /\ j \notin GetByLessonID(l)
          <6>1. j \in Requests /\ j \in Named(l)
            BY <2>3, <3>1, <3>6, <3>8, <5>1, <5>3, OwnVideo
          <6>2. j \in request[r].doomed \cup {k}
            BY <1>c, <2>1, <2>3, <3>1, <3>8, <6>1 DEF CleanStep, Aim
          <6>3. ASSUME j \in request[r].doomed
                PROVE  Holds(r, j)'
            <7>1. Of(j)' = p
              BY <3>2, <3>8, <6>1, OfIs, OfIsNext DEF MovesOn, Moves, Others
            <7>2. QED
              BY <3>1, <3>2, <6>3, <7>1 DEF Holds, Active
          <6>4. QED
            BY <4>0, <6>2, <6>3
        <5>4. QED
          BY <5>2, <5>3
      <4>3. QED
        BY <3>8, <4>1, <4>2
    <3>9. CleanStep(r)'
      BY <3>2, DoneClean DEF Aim
    <3>10. QED
      BY <1>g, <2>1, <2>3, <3>2, <3>7, <3>8, <3>9, MoveTidy DEF KeptMarks, MarksGrow
  <2>4. QED
    BY <1>8, <2>2, <2>3, WriteVideoFacts
<1>9. CASE InsertAttachment(r)
  <2>1. PICK l \in Lessons, k \in AttachmentKeys :
          l = request[r].item /\ k = request[r].key /\ k[1] = l
    BY <1>9, InsertAttachmentFacts
  <2>2. /\ request[r].pc = "attach" /\ UNCHANGED <<rows, born, row, video, objects, untidy>>
        /\ shared' = shared /\ condemned \subseteq condemned' /\ Active(r)
    BY <1>9, InsertAttachmentFacts DEF Active
  <2>3. CASE Clears(r, {k}, "done") /\ attached' = attached
    <3>1. /\ request'[r].pc = "purge" /\ request'[r].next = "done" /\ request'[r].item = l
          /\ request'[r].doomed = {k} /\ MovesOn(r)
      BY <2>1, <2>2, <2>3 DEF Clears, Moves, MovesOn, Writes, Aim
    <3>2. NamesSame
      BY <2>2, <2>3, KeptNames DEF KeptTables
    <3>3. ASSUME NEW j \in objects, Holds(r, j)
          PROVE  Holds(r, j)'
      <4>1. j = k /\ Of(j) = p
        BY <2>1, <2>2, <3>3 DEF Holds
      <4>2. Of(j)' = p
        BY <4>1, OfIs, OfIsNext
      <4>3. QED
        BY <2>1, <3>1, <4>1, <4>2 DEF Holds, Active
    <3>4. CleanStep(r)'
      BY <3>1, DoneClean DEF Aim
    <3>5. QED
      BY <1>g, <2>2, <3>1, <3>2, <3>3, <3>4, QuietTidy DEF KeptMarks, MarksGrow
  <2>4. CASE SetAttached(k, r) /\ (Ends(r) \/ Clears(r, {k}, "done"))
    <3>1. MovesOn(r) /\ Aim(request'[r]) = "done"
      <4>1. CASE Ends(r)
        BY <2>2, <4>1, EndsOn DEF Ends, Aim
      <4>2. CASE Clears(r, {k}, "done")
        BY <2>2, <4>2 DEF Clears, Moves, MovesOn, Writes, Aim
      <4>3. QED
        BY <2>4, <4>1, <4>2
    <3>2. attached'[k] = r /\ \A j \in AttachmentKeys : j # k => attached'[j] = attached[j]
      BY <2>4 DEF SetAttached
    <3>3. \A x : x # l => GetByLessonID(x)' = GetByLessonID(x)
      BY <2>1, <3>2 DEF GetByLessonID
    <3>4. GetByLessonID(l) \cup {k} \subseteq GetByLessonID(l)'
      BY <1>0, <2>1, <3>2 DEF GetByLessonID
    <3>5. \A x \in Items : x # l => Named(x)' = Named(x)
      BY <2>2, <3>3, NamedAt
    <3>6. Named(l) \cup {k} \subseteq Named(l)'
      BY <2>2, <3>4, NamedIs, NamedIsNext
    <3>7. Apart(p)
      BY <2>1, <2>2, <3>5 DEF Apart
    <3>8. \A j \in objects : InUse(j) \/ Holds(r, j) => InUse(j)'
      <4>1. \A j : InUse(j) => InUse(j)'
        BY <3>5, <3>6 DEF InUse
      <4>2. InUse(k)'
        BY <1>0, <3>6 DEF InUse
      <4>3. QED
        BY <2>1, <2>2, <4>1, <4>2 DEF Holds
    <3>9. CleanStep(r)'
      BY <3>1, DoneClean
    <3>10. QED
      BY <1>g, <2>2, <3>1, <3>7, <3>8, <3>9, MoveTidy DEF KeptMarks, MarksGrow
  <2>5. QED
    BY <1>9, <2>1, <2>3, <2>4, InsertAttachmentFacts
<1>10. CASE DetachRow(r)
  <2>1. PICK l \in Lessons, k \in AttachmentKeys :
          l = request[r].item /\ k = request[r].key /\ k[1] = l
    BY <1>10, DetachRowFacts
  <2>2. /\ request[r].pc = "detach" /\ Active(r) /\ Ends(r)
        /\ UNCHANGED <<rows, row, video, objects, untidy>>
        /\ shared' = shared /\ doubtful' = doubtful /\ condemned' = condemned \ {k}
        /\ \A j \in AttachmentKeys : j # k => attached'[j] = attached[j]
    BY <1>10, <2>1, DetachRowFacts DEF Active, SetAttached
  <2>3. MovesOn(r)
    BY <2>2, EndsOn
  <2>4. MarksGrow
    BY <1>g, <2>2, KeysDiffer DEF MarksGrow
  <2>5. \A x : x # l => GetByLessonID(x)' = GetByLessonID(x)
    BY <2>1, <2>2 DEF GetByLessonID
  <2>6. GetByLessonID(l) \ {k} \subseteq GetByLessonID(l)'
    BY <2>2 DEF GetByLessonID
  <2>7. \A x \in Items : x # l => Named(x)' = Named(x)
    BY <2>2, <2>5, NamedAt
  <2>8. Named(l) \ {k} \subseteq Named(l)'
    BY <2>2, <2>6, NamedIs, NamedIsNext
  <2>9. Apart(p)
    BY <2>1, <2>2, <2>7 DEF Apart
  <2>10. ASSUME p \notin untidy', NEW j \in objects, InUse(j) \/ Holds(r, j)
         PROVE  InUse(j)'
    <3>1. j # k
      BY <1>c, <2>1, <2>2, <2>10 DEF CleanStep, Aim, ToGo
    <3>2. InUse(j)
      BY <2>2, <2>10 DEF Holds
    <3>3. QED
      BY <1>0, <2>7, <2>8, <3>1, <3>2 DEF InUse
  <2>11. CleanStep(r)'
    BY <2>2, DoneClean DEF Ends, Aim
  <2>12. QED
    BY <2>2, <2>3, <2>4, <2>9, <2>10, <2>11, MoveTidy
<1>11. CASE WriteColumns(r)
  <2>1. /\ request[r].pc = "write" /\ request[r].item \in Products \cup Lessons /\ Active(r) /\ Ends(r)
        /\ UNCHANGED <<rows, born, video, attached, objects>> /\ KeptMarks
    BY <1>11, WriteColumnsFacts DEF Active
  <2>r. PICK rw : rw = request[r].row
    OBVIOUS
  <2>2. PICK x \in Products \cup Lessons : x = request[r].item
    BY <2>1
  <2>3. MovesOn(r)
    BY <2>1, EndsOn
  <2>4. CASE row' = row /\ SpoilsOne(r)
    <3>1. NamesSame
      BY <2>1, <2>4, KeptNames DEF KeptTables
    <3>2. QED
      BY <1>g, <2>1, <2>3, <2>4, <3>1, SpoiledTidy DEF KeptMarks, MarksGrow
  <2>5. CASE /\ \A y \in Items : y # x => row'[y] = row[y]
             /\ row'[x] = rw /\ untidy' = untidy
    <3>1. \A y \in Items : y # x \/ x \in Lessons => Named(y)' = Named(y)
      <4>1. \A y : GetByLessonID(y)' = GetByLessonID(y)
        BY <2>1 DEF GetByLessonID
      <4>2. QED
        BY <1>0, <2>1, <2>5, <4>1, NamedAt
    <3>2. x \in Products => Named(x)' = {rw["thumbnail"], rw["file"]} \ {None}
      BY <2>5, NamedIsNext
    <3>3. x \in Items
      BY <1>0
    <3>4. Apart(p)
      BY <2>1, <2>2, <2>5, <3>1 DEF Apart
    <3>5. ASSUME p \notin untidy', NEW j \in objects, InUse(j) \/ Holds(r, j)
          PROVE  InUse(j)'
      <4>0. j # None
        BY <1>0 DEF Typed, TypeOK
      <4>1. CASE Holds(r, j)
        <5>1. x \in Products /\ j \in {rw["thumbnail"], rw["file"]}
          BY <2>1, <2>r, <2>2, <4>1 DEF Holds
        <5>2. QED
          BY <3>2, <3>3, <4>0, <5>1 DEF InUse
      <4>2. CASE InUse(j)
        <5>1. PICK y \in Items : j \in Named(y)
          BY <4>2 DEF InUse
        <5>2. CASE y # x \/ x \in Lessons
          BY <3>1, <5>1, <5>2 DEF InUse
        <5>3. CASE y = x /\ x \in Products
          <6>1. j \in {rw["thumbnail"], rw["file"]}
            BY <1>c, <2>1, <2>r, <2>2, <2>5, <3>5, <5>1, <5>3 DEF CleanStep
          <6>2. QED
            BY <3>2, <3>3, <4>0, <5>3, <6>1 DEF InUse
        <5>4. QED
          BY <5>2, <5>3
      <4>3. QED
        BY <3>5, <4>1, <4>2
    <3>6. CleanStep(r)'
      BY <2>1, DoneClean DEF Ends, Aim
    <3>7. QED
      BY <1>g, <2>1, <2>3, <2>5, <3>4, <3>5, <3>6, MoveTidy DEF KeptMarks, MarksGrow
  <2>6. QED
    BY <1>11, <2>r, <2>2, <2>4, <2>5, WriteColumnsFacts
<1>12. CASE DeleteRow(r)
  <2>1. /\ request[r].pc = "delete" /\ Active(r) /\ Ends(r) /\ request[r].item \in Items
        /\ objects' = objects /\ untidy' = untidy /\ KeptMarks
    BY <1>0, <1>12, DeleteRowFacts DEF Active
  <2>2. CASE KeptTables
    BY <1>g, <2>1, <2>2, KeptNames, EndTidy DEF KeptMarks, MarksGrow
  <2>3. CASE Removes(request[r].item)
    <3>1. PICK x \in Items : x = request[r].item
      BY <2>1
    <3>2. MovesOn(r) /\ CleanStep(r)'
      BY <2>1, EndsOn, DoneClean DEF Ends, Aim
    <3>3. \A y \in Items : y \notin Below(x) => Named(y)' = Named(y)
      BY <2>3, <3>1, RemovedNames
    <3>4. \A y \in Below(x) : Product(y) = p
      BY <3>1, BelowFacts
    <3>5. Apart(p)
      BY <2>1, <3>3, <3>4 DEF Apart
    <3>6. ASSUME p \notin untidy', NEW j \in objects, InUse(j) \/ Holds(r, j)
          PROVE  InUse(j)'
      <4>1. InUse(j)
        BY <2>1, <3>6 DEF Holds
      <4>2. PICK y \in Items : j \in Named(y)
        BY <4>1 DEF InUse
      <4>3. y \notin Below(x)
        BY <1>c, <2>1, <3>1, <3>6, <4>2 DEF CleanStep, Aim, ToGo
      <4>4. QED
        BY <3>3, <4>2, <4>3 DEF InUse
    <3>7. QED
      BY <1>g, <2>1, <3>1, <3>2, <3>5, <3>6, MoveTidy DEF KeptMarks, MarksGrow
  <2>4. QED
    BY <1>12, <2>2, <2>3, DeleteRowFacts
<1>13. CASE SetThumbnail(r)
  <2>1. PICK c \in Courses, k \in ProductKeys : c = request[r].item /\ k = request[r].key /\ k[1] = c
    BY <1>13, SetThumbnailFacts
  <2>2. /\ request[r].pc = "picture" /\ Active(r) /\ Clears(r, request[r].doomed, "done")
        /\ UNCHANGED <<rows, born, video, attached, objects, condemned, shared>>
    BY <1>13, SetThumbnailFacts DEF Active
  <2>3. /\ MovesOn(r) /\ Others(r) /\ request'[r].pc \in {"done", "purge"} /\ request'[r].next = "done"
        /\ request'[r].doomed = request[r].doomed /\ request'[r].item = c
        /\ request[r].doomed # {} => request'[r].pc = "purge"
    BY <2>1, <2>2 DEF Clears, Moves, MovesOn, Writes, Aim
  <2>4. CASE row' = row /\ SpoilsOne(r)
    <3>1. NamesSame
      BY <2>2, <2>4, KeptNames DEF KeptTables
    <3>2. QED
      BY <1>g, <2>2, <2>3, <2>4, <3>1, SpoiledTidy DEF MarksGrow
  <2>5. CASE SetTo(c, "thumbnail", k) /\ untidy' = untidy
    <3>1. /\ \A y \in Items : y # c => row'[y] = row[y]
          /\ row'[c]["thumbnail"] = k /\ row'[c]["file"] = row[c]["file"] /\ c \in Items
      BY <1>0, <2>5 DEF SetTo, Columns
    <3>2. \A y \in Items : y # c => Named(y)' = Named(y)
      BY <2>2, <3>1, NamedAlike
    <3>3. InUse(k)'
      BY <1>0, <3>1, NamedIsNext, KeyType DEF InUse
    <3>4. p = c
      BY <1>0, <2>1, ProductType
    <3>5. Apart(p)
      BY <1>0, <2>2, <2>5, <3>2, <3>4, ProductType DEF Apart
    <3>6. ASSUME p \notin untidy', NEW j \in objects, Of(j) = p, InUse(j) \/ Holds(r, j)
          PROVE  InUse(j)' \/ Holds(r, j)'
      <4>1. CASE Holds(r, j)
        BY <2>1, <2>2, <3>3, <4>1 DEF Holds
      <4>2. CASE InUse(j)
        <5>1. PICK y \in Items : j \in Named(y)
          BY <4>2 DEF InUse
        <5>2. CASE y # c
          BY <3>2, <5>1, <5>2 DEF InUse
        <5>3. CASE y = c
          <6>1. j \in request[r].doomed
            BY <1>c, <2>1, <2>2, <2>5, <3>6, <5>1, <5>3 DEF CleanStep, Aim
          <6>2. Of(j)' = p
            <7>1. j \in Keys
              BY DEF Typed, TypeOK
            <7>2. j \in Requests => request'[j].item = request[j].item
              BY <2>1, <2>3 DEF Others
            <7>3. QED
              BY <3>6, <7>1, <7>2, OfIs, OfIsNext DEF Keys
          <6>3. Holds(r, j)'
            BY <2>3, <3>4, <3>6, <6>1, <6>2, <2>1 DEF Holds, Active
          <6>4. QED
            BY <6>3
        <5>4. QED
          BY <5>2, <5>3
      <4>3. QED
        BY <3>6, <4>1, <4>2
    <3>7. CleanStep(r)'
      BY <2>3, DoneClean DEF Aim
    <3>8. QED
      BY <1>g, <2>2, <2>3, <3>5, <3>6, <3>7, MoveTidy DEF MarksGrow
  <2>6. QED
    BY <1>13, <2>1, <2>4, <2>5, SetThumbnailFacts
<1>14. QED
  BY <1>1, <1>2, <1>3, <1>4, <1>5, <1>6, <1>7, <1>8, <1>9, <1>10, <1>11, <1>12, <1>13, ClientPutTidy
     DEF Stepping

(***************************************************************************)
(* The bucket is in step with the rows                                     *)
(***************************************************************************)
LEMMA TidyInit ==
  ASSUME Init
  PROVE  Tidy
<1>1. objects = {} /\ \A r \in Requests : request[r].pc = "new"
  BY DEF Init, Fresh
<1>2. QED
  BY <1>1 DEF Tidy, Uploaded, OneAtATime, Clean, Active

\* Steps that are no request's.
LEMMA OutsideTidy ==
  ASSUME Typed, Kept, Served, Tidy, Typed', request' = request, KeptMarks,
         untidy \subseteq untidy', NEW p, Apart(p),
         \A k \in objects' \cap Requests : k \in objects,
         p \notin untidy' => \A k \in objects' : Of(k) = p => Accounted(k)',
         p \notin untidy' => \A q \in Requests : Active(q) => Product(request[q].item) # p
  PROVE  Tidy'
<1>1. None \notin Requests
  BY KeyType
<1>2. Forward
  BY SameForward DEF MarksGrow, KeptMarks, Grows
<1>3. About(None, p)
  BY <1>1 DEF About
<1>4. Uploaded' /\ OneAtATime'
  BY DEF Tidy, Uploaded, OneAtATime, Active
<1>5. ASSUME p \notin untidy', NEW k \in objects', Of(k)' = p
      PROVE  Accounted(k)'
  <2>1. k \in Keys
    BY DEF Typed, TypeOK
  <2>2. Of(k) = p
    BY <1>5, <2>1, OfIs, OfIsNext DEF Keys
  <2>3. QED
    BY <1>5, <2>2
<1>6. ASSUME p \notin untidy', NEW q \in Requests, Product(request'[q].item) = p
      PROVE  Clean(q)'
  BY <1>6 DEF Clean, Active
<1>7. QED
  BY <1>2, <1>3, <1>4, <1>5, <1>6, TidyBy

LEMMA DeleteModuleTidy ==
  ASSUME Typed, Kept, Served, Tidy, Typed', NEW m \in Modules, DeleteModule(m)
  PROVE  Tidy'
<1>1. /\ Removes(m) /\ KeptMarks /\ objects' = objects /\ request' = request
      /\ untidy \subseteq untidy' /\ m \in Items
      /\ (\E l \in Lessons : ModuleOf[l] = m /\ l \in rows) => Product(m) \in untidy'
  BY DeleteModuleFacts DEF Items
<1>2. \A y \in Items : Product(y) # Product(m) => Named(y)' = Named(y)
  BY <1>1, BelowFacts, RemovedNames
<1>3. CASE Product(m) \in untidy'
  <2>1. Apart(Product(m))
    BY <1>1, <1>2 DEF Apart
  <2>2. QED
    BY <1>1, <1>3, <2>1, OutsideTidy
<1>4. CASE \A l \in Lessons : ModuleOf[l] = m => l \notin rows
  <2>1. ASSUME NEW y \in Items
        PROVE  Named(y)' = Named(y)
    <3>1. CASE y \notin Below(m)
      BY <1>1, <3>1, RemovedNames
    <3>2. CASE y \in Below(m)
      <4>1. y \in Modules \/ (y \in Lessons /\ ModuleOf[y] = m)
        BY <3>2, TreeAssumption, NameAssumption DEF Below, Products
      <4>2. Named(y) = {}
        BY <1>4, <4>1, NamedIs, NothingNamed DEF Kept
      <4>3. QED
        BY <1>1, <3>2, <4>2, RemovedNames
    <3>3. QED
      BY <3>1, <3>2
  <2>2. QED
    BY <1>1, <2>1, StillTidy DEF NamesSame
<1>5. QED
  BY <1>1, <1>3, <1>4

LEMMA TidyNext ==
  ASSUME Typed, Kept, Served, Tidy, Typed', [Next]_vars
  PROVE  Tidy'
<1>1. ASSUME NEW x \in Items, Insert(x)
      PROVE  Tidy'
  <2>1. UNCHANGED <<row, video, attached, objects, request, untidy>>
    BY <1>1, InsertFacts
  <2>2. NamesSame
    BY <2>1, NamedAlike DEF NamesSame
  <2>3. QED
    BY <2>1, <2>2, StillTidy
<1>2. ASSUME NEW p \in Products, Buy(p)
      PROVE  Tidy'
  <2>1. KeptTables /\ UNCHANGED <<objects, request, untidy>>
    BY <1>2, BuyFacts
  <2>2. QED
    BY <2>1, KeptNames, StillTidy
<1>3. CASE UNCHANGED vars
  <2>1. KeptTables /\ UNCHANGED <<objects, request, untidy>>
    BY <1>3 DEF vars, tables, KeptTables
  <2>2. QED
    BY <2>1, KeptNames, StillTidy
<1>4. QED
  BY <1>1, <1>2, <1>3, DeleteModuleTidy, StartingTidy, SteppingTidy, NextActions

\* Requests about a product that come one after the other leave the bucket in
\* step with the rows: nothing is there that no row names, but for uploads that
\* clients have not completed, and for products with something left behind by a
\* fault or by a step that the code does not clean up after (a module deleted with
\* its lessons, an ebook's file replaced under another name, a course's picture
\* replaced by a URL, an upload for a row that is gone, a video completed with
\* another's file).
THEOREM InStepCorrect == Spec => []InStep
<1>1. Init => Typed /\ Kept /\ Served /\ Tidy
  BY TypedInit, KeptInit, ServedInit, TidyInit
<1>2. Typed /\ Kept /\ Served /\ Tidy /\ [Next]_vars => (Typed /\ Kept /\ Served /\ Tidy)'
  BY TypedNext, KeptNext, ServedNext, TidyNext
<1>3. Typed /\ Kept /\ Tidy => InStep
  BY TidyInStep
<1>4. QED
  BY <1>1, <1>2, <1>3, PTL DEF Spec
=============================================================================
