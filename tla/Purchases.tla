------------------------------ MODULE Purchases ------------------------------
(***************************************************************************)
(* Buying a course or an ebook: POST /payment/orders, the Razorpay webhook *)
(* and the RabbitMQ worker that opens the access window.  Three actors     *)
(* share one table (purchases, migration 007) and one queue, and none of   *)
(* them holds a transaction across its steps:                              *)
(*                                                                         *)
(*   CreateOrder   checks for an active purchase, then inserts a pending   *)
(*                 row (CheckOrder, PlaceOrder);                           *)
(*   Webhook       reads the row, checks for an active purchase, completes *)
(*                 the row, publishes a task, answers 200 (Lookup,         *)
(*                 CheckActive, CompletePurchase, Publish, Answer);        *)
(*   the worker    takes a task, reads the row, writes the access window,  *)
(*                 acknowledges (Take, Load, ActivateAccess, HandleError,  *)
(*                 Ack).                                                   *)
(*                                                                         *)
(* The term of a course is a column an administrator edits meanwhile       *)
(* (EditValidity), and the worker's delivery channel may close for good    *)
(* (ChannelCloses).                                                        *)
(*                                                                         *)
(* A "fault" is a database or broker call that returns an error, with the  *)
(* write done or not; a crash stops the server process, which restarts.    *)
(***************************************************************************)
EXTENDS Integers, FiniteSets

CONSTANTS
  Users, Courses, Ebooks,
  Orders,      \* the CreateOrder requests, each with the order id it will get
  Notices,     \* the webhook calls Razorpay makes for a captured payment
  Terms,       \* the values of courses.validity_days
  MaxRetries,  \* cfg.RabbitMQ.MaxRetries
  MaxTime, MaxFaults, MaxCrashes, MaxEdits   \* bounds of a run

Items    == Courses \cup Ebooks
Requests == [user : Users, item : Items]
Events   == Orders \X Notices
Tasks    == Orders \X (0 .. MaxRetries)   \* a PurchaseTask and its RetryCount

EbookTerm == 36500   \* days; replaced by NoExpiry at activation
NoExpiry  == -1      \* valid_until IS NULL

ASSUME ItemsAssumption == Courses \cap Ebooks = {}
ASSUME NoticeAssumption == Notices # {}
ASSUME TermAssumption  == Terms \subseteq Nat \ {0}
ASSUME BoundAssumption == /\ MaxRetries \in Nat
                          /\ MaxTime \in Nat
                          /\ MaxFaults \in Nat
                          /\ MaxCrashes \in Nat
                          /\ MaxEdits \in Nat

VARIABLES
  now,        \* the day
  asks,       \* asks[o]: the user and the item of the request; never changes
  validity,   \* validity[c]: the course's validity_days
  request,    \* request[o]: where CreateOrder stands
  term,       \* term[o]: the days CreateOrder read for o's item, until it inserts the row
  status,     \* status[o]: the row's status column, "absent" without a row
  until,      \* until[o]: the row's valid_until
  captured,   \* the orders whose payment Razorpay captured
  due,        \* the notices Razorpay has not had a 200 for
  hook,       \* hook[e]: where the Webhook call for notice e stands
  queue,      \* queue[t]: copies of task t waiting in the purchase queue
  work,       \* work[t]: where the worker stands with task t
  days,       \* validityDays, as the worker read them for the task at work
  consuming,  \* whether the worker's delivery channel is open
  \* What happened, for the properties only:
  published,  \* published[o]: tasks the webhook published for o
  activated,  \* the orders whose access window the worker wrote
  unfulfilled,\* the orders whose completion a fault stopped
  orphaned,   \* the orders whose task was dropped or never published
  lowered,    \* the courses whose validity_days an edit has lowered
  faults, crashes, edits

buying == <<asks, request, term, captured>>
paying == <<due, hook>>
table  == <<status, until>>
tasks  == <<queue, work, days, consuming>>
course == <<validity, lowered>>
ghosts == <<published, activated, unfulfilled, orphaned>>
budget == <<faults, crashes, edits>>
vars   == <<now, buying, paying, table, tasks, course, ghosts, budget>>

TypeOK ==
  /\ now \in Nat
  /\ asks \in [Orders -> Requests]
  /\ validity \in [Courses -> Terms]
  /\ request \in [Orders -> {"new", "checked", "refused", "returned", "failed"}]
  /\ term \in [Orders -> Nat]
  /\ status \in [Orders -> {"absent", "pending", "completed"}]
  /\ until \in [Orders -> Int]
  /\ captured \subseteq Orders
  /\ due \subseteq Events
  /\ hook \in [Events -> {"idle", "check", "complete", "publish", "answer"}]
  /\ queue \in [Tasks -> Nat]
  /\ work \in [Tasks -> {"idle", "load", "activate", "retry", "ack"}]
  /\ days \in Nat
  /\ consuming \in BOOLEAN
  /\ published \in [Orders -> Nat]
  /\ activated \subseteq Orders
  /\ unfulfilled \subseteq Orders
  /\ orphaned \subseteq Orders
  /\ lowered \subseteq Courses
  /\ faults \in Nat
  /\ crashes \in Nat
  /\ edits \in Nat

Init ==
  /\ now = 0
  /\ asks \in [Orders -> Requests]
  /\ validity \in [Courses -> Terms]
  /\ request = [o \in Orders |-> "new"]
  /\ term = [o \in Orders |-> 0]
  /\ status = [o \in Orders |-> "absent"]
  /\ until = [o \in Orders |-> 0]
  /\ captured = {}
  /\ due = {}
  /\ hook = [e \in Events |-> "idle"]
  /\ queue = [t \in Tasks |-> 0]
  /\ work = [t \in Tasks |-> "idle"]
  /\ days = 0
  /\ consuming = TRUE
  /\ published = [o \in Orders |-> 0]
  /\ activated = {}
  /\ unfulfilled = {}
  /\ orphaned = {}
  /\ lowered = {}
  /\ faults = 0
  /\ crashes = 0
  /\ edits = 0

Fault == /\ faults < MaxFaults
         /\ faults' = faults + 1
         /\ UNCHANGED <<crashes, edits>>

NoFault == UNCHANGED budget

(***************************************************************************)
(* The queries                                                             *)
(***************************************************************************)
\* GetActivePurchase and GetActiveEbookPurchase: an ebook never expires.
Active(p) == /\ status[p] = "completed"
             /\ asks[p].item \in Ebooks \/ until[p] > now

HasActivePurchase(o) == \E p \in Orders : asks[p] = asks[o] /\ Active(p)

\* The unique indexes uq_purchases_user_{course,ebook}_completed: the rows that
\* stop o's row from turning completed, whether or not they have expired.
CompletedRival(o) == \E p \in Orders : /\ asks[p] = asks[o]
                                       /\ status[p] = "completed"

(***************************************************************************)
(* CreateOrder                                                             *)
(***************************************************************************)
Term(i) == IF i \in Courses THEN validity[i] ELSE EbookTerm

\* Reads the course, which gives the term, then looks for an active purchase; the
\* error of that query is dropped: the order goes on.
CheckOrder(o) ==
  /\ request[o] = "new"
  /\ term' = [term EXCEPT ![o] = Term(asks[o].item)]
  /\ \/ /\ request' = [request EXCEPT ![o] =
             IF HasActivePurchase(o) THEN "refused" ELSE "checked"]
        /\ NoFault
     \/ request' = [request EXCEPT ![o] = "checked"] /\ Fault
  /\ UNCHANGED <<now, asks, captured, paying, table, tasks, course, ghosts>>

Insert(o) == /\ status' = [status EXCEPT ![o] = "pending"]
             /\ until' = [until EXCEPT ![o] = now + term[o]]

\* The Razorpay order and the INSERT.  After an error the client has no order
\* to pay, though the row may be there.
PlaceOrder(o) ==
  /\ request[o] = "checked"
  /\ \/ /\ request' = [request EXCEPT ![o] = "returned"]
        /\ Insert(o)
        /\ NoFault
     \/ /\ request' = [request EXCEPT ![o] = "failed"]
        /\ Insert(o) \/ UNCHANGED table
        /\ Fault
  /\ term' = [term EXCEPT ![o] = 0]
  /\ UNCHANGED <<now, asks, captured, paying, tasks, course, ghosts>>

\* The buyer pays at Razorpay, which captures the payment and owes the server
\* its notices.
Pay(o) ==
  /\ request[o] = "returned"
  /\ o \notin captured
  /\ captured' = captured \cup {o}
  /\ due' = due \cup ({o} \X Notices)
  /\ UNCHANGED <<now, asks, request, term, hook, table, tasks, course, ghosts, budget>>

(***************************************************************************)
(* Webhook: one call per notice, so that the two notices of a payment run  *)
(* through the handler at the same time.                                   *)
(***************************************************************************)
Step(e, from, to) == /\ hook[e] = from
                     /\ hook' = [hook EXCEPT ![e] = to]

\* GetByOrderID.  A failed read answers 500, and Razorpay keeps the notice.
Lookup(e) ==
  /\ e \in due
  /\ \/ /\ Step(e, "idle", IF status[e[1]] = "completed" THEN "answer" ELSE "check")
        /\ NoFault
     \/ Step(e, "idle", "idle") /\ Fault
  /\ UNCHANGED <<now, buying, due, table, tasks, course, ghosts>>

\* A mistake to check against: taking a failed query for an active purchase.
CheckActiveOrStop(e) ==
  /\ \/ /\ Step(e, "check", IF HasActivePurchase(e[1]) THEN "answer" ELSE "complete")
        /\ NoFault
     \/ Step(e, "check", "answer") /\ Fault
  /\ UNCHANGED <<now, buying, due, table, tasks, course, ghosts>>

\* The double check; here too the error of the query is dropped.
CheckActive(e) ==
  /\ \/ /\ Step(e, "check", IF HasActivePurchase(e[1]) THEN "answer" ELSE "complete")
        /\ NoFault
     \/ Step(e, "check", "complete") /\ Fault
  /\ UNCHANGED <<now, buying, due, table, tasks, course, ghosts>>

\* A mistake to check against: the row guard without the unique indexes.
RowPending(o) == status[o] # "completed"

\* A mistake to check against: the unique indexes without the row guard, which
\* let the UPDATE match a row that is completed already.
NoOtherRival(o) == \A p \in Orders : /\ p # o
                                     /\ asks[p] = asks[o]
                                     => status[p] # "completed"

\* What lets the UPDATE through: its WHERE clause and the unique indexes.
MayComplete(o) == ~CompletedRival(o)

MarkCompleted(o) == status' = [status EXCEPT ![o] = "completed"]

\* A mistake to check against: publishing whatever the UPDATE returned.
CompletePurchaseIgnoringError(e) ==
  /\ Step(e, "complete", "publish")
  /\ \/ MayComplete(e[1]) /\ MarkCompleted(e[1]) /\ NoFault
     \/ ~MayComplete(e[1]) /\ NoFault /\ UNCHANGED status
     \/ Fault /\ UNCHANGED status
  /\ UNCHANGED <<now, buying, due, until, tasks, course, ghosts>>

\* CompletePurchase, whose errors are all answered 200: refused by the WHERE
\* clause or an index; a fault that left the row pending; a fault reported
\* after the row was written.
CompletePurchase(e) == LET o == e[1] IN
  /\ \/ /\ MayComplete(o)
        /\ Step(e, "complete", "publish")
        /\ MarkCompleted(o)
        /\ NoFault
        /\ UNCHANGED ghosts
     \/ /\ ~MayComplete(o)
        /\ Step(e, "complete", "answer")
        /\ NoFault
        /\ UNCHANGED <<status, ghosts>>
     \/ /\ Step(e, "complete", "answer")
        /\ Fault
        /\ unfulfilled' = unfulfilled \cup {o}
        /\ UNCHANGED <<status, published, activated, orphaned>>
     \/ /\ MayComplete(o)
        /\ Step(e, "complete", "answer")
        /\ Fault
        /\ MarkCompleted(o)
        /\ orphaned' = orphaned \cup {o}
        /\ UNCHANGED <<published, activated, unfulfilled>>
  /\ UNCHANGED <<now, buying, due, until, tasks, course>>

Enqueue(t) == queue' = [queue EXCEPT ![t] = @ + 1]

\* The publish error is logged, and the answer is 200 all the same.
Publish(e) == LET o == e[1] IN
  /\ Step(e, "publish", "answer")
  /\ \/ /\ Enqueue(<<o, 0>>)
        /\ published' = [published EXCEPT ![o] = @ + 1]
        /\ NoFault
        /\ UNCHANGED orphaned
     \/ /\ orphaned' = orphaned \cup {o}
        /\ Fault
        /\ UNCHANGED <<queue, published>>
  /\ UNCHANGED <<now, buying, due, table, work, days, consuming, course, activated,
                 unfulfilled>>

\* The 200, which may not reach Razorpay: then the notice stays due.
Answer(e) ==
  /\ Step(e, "answer", "idle")
  /\ \/ due' = due \ {e} /\ NoFault
     \/ UNCHANGED due /\ Fault
  /\ UNCHANGED <<now, buying, table, tasks, course, ghosts>>

(***************************************************************************)
(* The purchase worker: one goroutine over one consumer.  When its delivery *)
(* channel closes the goroutine finishes the task at work and returns; only *)
(* a restart of the process consumes again.  A closed channel has already   *)
(* given its unacknowledged task back to the queue.                         *)
(***************************************************************************)
WorkStep(t, from, to) == /\ work[t] = from
                         /\ work' = [work EXCEPT ![t] = to]

\* A mistake to check against: a delivery the queue does not hold.
TakeBlindly(t) ==
  /\ consuming
  /\ \A u \in Tasks : work[u] = "idle"
  /\ WorkStep(t, "idle", "load")
  /\ queue' = [queue EXCEPT ![t] = @ - 1]
  /\ UNCHANGED <<now, buying, paying, table, days, consuming, course, ghosts, budget>>

Take(t) ==
  /\ consuming
  /\ queue[t] > 0
  /\ \A u \in Tasks : work[u] = "idle"
  /\ WorkStep(t, "idle", "load")
  /\ queue' = [queue EXCEPT ![t] = @ - 1]
  /\ UNCHANGED <<now, buying, paying, table, days, consuming, course, ghosts, budget>>

\* Nack with requeue.
Requeue(t) == IF consuming THEN Enqueue(t) ELSE UNCHANGED queue

\* GetByID of the purchase and of its course, whose days are read afresh; a
\* purchase that is not completed goes back to the queue.
Load(t) == LET o == t[1] IN
  /\ \/ /\ status[o] = "completed"
        /\ WorkStep(t, "load", "activate")
        /\ days' = IF asks[o].item \in Courses THEN validity[asks[o].item] ELSE 0
        /\ NoFault
        /\ UNCHANGED queue
     \/ /\ status[o] # "completed"
        /\ WorkStep(t, "load", "idle")
        /\ Requeue(t)
        /\ NoFault
        /\ UNCHANGED days
     \/ WorkStep(t, "load", "retry") /\ Fault /\ UNCHANGED <<queue, days>>
  /\ UNCHANGED <<now, buying, paying, table, consuming, course, ghosts>>

\* A mistake to check against: the days of a course that could not be read.
WriteEmptyWindow(o) ==
  until' = [until EXCEPT ![o] = IF asks[o].item \in Courses THEN now ELSE NoExpiry]

\* A window from this day on, for the days read before.
WriteWindow(o) ==
  until' = [until EXCEPT ![o] = IF asks[o].item \in Courses THEN now + days ELSE NoExpiry]

\* ActivateAccess; a fault may be reported after the row was written.
ActivateAccess(t) == LET o == t[1] IN
  /\ \/ /\ WorkStep(t, "activate", "ack")
        /\ WriteWindow(o)
        /\ activated' = activated \cup {o}
        /\ NoFault
     \/ /\ WorkStep(t, "activate", "retry")
        /\ Fault
        /\ \/ WriteWindow(o) /\ activated' = activated \cup {o}
           \/ UNCHANGED <<until, activated>>
  /\ days' = 0
  /\ UNCHANGED <<now, buying, paying, status, queue, consuming, course, published,
                 unfulfilled, orphaned>>

\* The task is lost, unless a closed channel has given it back to the queue.
Drop(o) == orphaned' = IF consuming THEN orphaned \cup {o} ELSE orphaned

\* A mistake to check against: acknowledging without publishing the copy.
HandleErrorByAck(t) ==
  /\ WorkStep(t, "retry", "ack")
  /\ UNCHANGED <<now, buying, paying, table, queue, days, consuming, course, ghosts, budget>>

\* A copy with a higher RetryCount replaces the task; the error of that publish
\* is dropped.  At MaxRetries the task is discarded.
HandleError(t) == LET o == t[1]
                      r == t[2] IN
  /\ \/ /\ r < MaxRetries
        /\ WorkStep(t, "retry", "ack")
        /\ \/ Enqueue(<<o, r + 1>>) /\ NoFault /\ UNCHANGED orphaned
           \/ Drop(o) /\ Fault /\ UNCHANGED queue
     \/ /\ r = MaxRetries
        /\ WorkStep(t, "retry", "idle")
        /\ Drop(o)
        /\ NoFault
        /\ UNCHANGED queue
  /\ UNCHANGED <<now, buying, paying, table, days, consuming, course, published, activated,
                 unfulfilled>>

Ack(t) == /\ WorkStep(t, "ack", "idle")
          /\ UNCHANGED <<now, buying, paying, table, queue, days, consuming, course, ghosts,
                         budget>>

(***************************************************************************)
(* The environment                                                         *)
(***************************************************************************)
\* The broker takes the unacknowledged task of a channel back.
Redelivered ==
  [t \in Tasks |-> IF consuming /\ work[t] # "idle" THEN queue[t] + 1 ELSE queue[t]]

\* The connection or its channel is lost.  The publisher reconnects, the worker
\* does not.
ChannelCloses ==
  /\ consuming
  /\ consuming' = FALSE
  /\ queue' = Redelivered
  /\ Fault
  /\ UNCHANGED <<now, buying, paying, table, work, days, course, ghosts>>

\* A mistake to check against: a consumer with auto-ack.
CrashWithAutoAck ==
  /\ crashes < MaxCrashes
  /\ crashes' = crashes + 1
  /\ hook' = [e \in Events |-> "idle"]
  /\ work' = [t \in Tasks |-> "idle"]
  /\ days' = 0
  /\ consuming' = TRUE
  /\ UNCHANGED <<now, buying, due, table, queue, course, ghosts, faults, edits>>

\* The process dies and restarts, with a new consumer.  Requests in flight fail,
\* Razorpay keeps the notices that were not answered, the broker takes the
\* unacknowledged task back, and a webhook that died before its publish never
\* comes to it again.
Crash ==
  /\ crashes < MaxCrashes
  /\ crashes' = crashes + 1
  /\ request' = [o \in Orders |->
                   IF request[o] = "checked" THEN "failed" ELSE request[o]]
  /\ orphaned' = orphaned \cup {o \in Orders :
                                 \E n \in Notices : hook[<<o, n>>] = "publish"}
  /\ hook' = [e \in Events |-> "idle"]
  /\ queue' = Redelivered
  /\ work' = [t \in Tasks |-> "idle"]
  /\ days' = 0
  /\ consuming' = TRUE
  /\ UNCHANGED <<now, asks, term, captured, due, table, course, published, activated,
                 unfulfilled, faults, edits>>

\* PUT /courses/:id with validity_days, or with another field and the days of the
\* row as it was read before somebody else's edit: Update writes the whole row.
EditValidity(c) ==
  /\ edits < MaxEdits
  /\ edits' = edits + 1
  /\ \E d \in Terms \ {validity[c]} :
       /\ validity' = [validity EXCEPT ![c] = d]
       /\ lowered' = IF d < validity[c] THEN lowered \cup {c} ELSE lowered
  /\ UNCHANGED <<now, buying, paying, table, tasks, ghosts, faults, crashes>>

Tick == /\ now < MaxTime
        /\ now' = now + 1
        /\ UNCHANGED <<buying, paying, table, tasks, course, ghosts, budget>>

WebhookStep(e) == \/ Lookup(e) \/ CheckActive(e) \/ CompletePurchase(e)
                  \/ Publish(e) \/ Answer(e)

WorkerStep(t) == \/ Take(t) \/ Load(t) \/ ActivateAccess(t) \/ HandleError(t)
                 \/ Ack(t)

Next == \/ \E o \in Orders : CheckOrder(o) \/ PlaceOrder(o) \/ Pay(o)
        \/ \E e \in Events : WebhookStep(e)
        \/ \E t \in Tasks : WorkerStep(t)
        \/ \E c \in Courses : EditValidity(c)
        \/ ChannelCloses
        \/ Crash
        \/ Tick

Spec == Init /\ [][Next]_vars

\* Razorpay repeats a notice until it has its 200; a request, once in the
\* handler, runs on; the worker goroutine, while its channel is open, takes what is
\* waiting, and in any case finishes the task at work.
FairSpec == /\ Spec
            /\ \A e \in Events : WF_vars(WebhookStep(e))
            /\ \A t \in Tasks : WF_vars(WorkerStep(t))

(***************************************************************************)
(* Properties                                                              *)
(***************************************************************************)
\* The worker only ever meets tasks of completed purchases, so the nil purchase
\* its GetByID may return is never dereferenced and its requeue of incomplete
\* purchases, which has no limit or delay, never spins.
TasksAreForCompleted ==
  \A t \in Tasks : queue[t] > 0 \/ work[t] # "idle" => status[t[1]] = "completed"

Publishing(o) == \E n \in Notices : hook[<<o, n>>] = "publish"

Waiting(o) == \E r \in 0 .. MaxRetries :
                \/ queue[<<o, r>>] > 0
                \/ work[<<o, r>>] \in {"load", "activate", "retry"}

\* A completed purchase gets its access window written or has a task on its way
\* to it, through crashes, redeliveries and retry copies.  The exceptions are
\* the drops marked orphaned: a failed publish, a crash before the publish, a
\* write reported as failed, and the end of the retries.
NoTaskForgotten ==
  \A o \in Orders : status[o] = "completed" =>
    o \in activated \/ o \in orphaned \/ Publishing(o) \/ Waiting(o)

\* However the two notices of a payment interleave, are repeated or cut by a
\* crash, the webhook publishes at most one task for an order.
PublishedOnce == \A o \in Orders : published[o] <= 1

\* Activating a purchase, again after a crash or a retry, or with other days than
\* the order was made with, never takes away days of a course that the buyer had.
\* The exception: an administrator has lowered the days of the course, which the
\* worker reads afresh.
AccessNeverShrinks ==
  [][\A o \in Orders : asks[o].item \in Courses \ lowered => until'[o] >= until[o]]_vars

Outcome(o) ==
  IF o \notin captured THEN "open"
  ELSE IF status[o] = "completed" THEN "granted"
  ELSE IF \E n \in Notices : <<o, n>> \in due THEN "paid"
  ELSE IF o \in unfulfilled THEN "lost"
  ELSE "duplicate"

Promise == INSTANCE Enrollment WITH state <- [o \in Orders |-> Outcome(o)]

\* The payment code implements the promise: an order is granted only if it is
\* paid, nobody is granted an item twice, and once both notices are answered a
\* paid order without access is a duplicate or was lost to a fault.
KeepsPromise == Promise!Spec

\* A captured payment is settled, whatever the order of the notices: the order
\* or another one of the same buyer and item is completed, or a fault cost it.
PaymentSettles ==
  \A o \in Orders :
    o \in captured ~> CompletedRival(o) \/ o \in unfulfilled

\* A completed purchase gets its access window, unless its task was dropped.  It
\* holds if the worker consumes from some day on: after its channel has closed
\* the purchase waits for the next restart of the server.
PurchaseActivates ==
  <>[]consuming =>
    \A o \in Orders :
      status[o] = "completed" ~> o \in activated \/ o \in orphaned

\* The comments on the double check and on the dropped error: a completion is
\* refused to a buyer who has access already (the duplicate it would be), or to
\* an order its other notice has completed.  The unique indexes also count the
\* expired purchases, which the check does not.
RefusedIsDuplicate ==
  [][\A e \in Events :
       /\ hook[e] = "complete" /\ hook'[e] = "answer"
       /\ faults' = faults
       => HasActivePurchase(e[1]) \/ status[e[1]] = "completed"]_vars

\* validity_days is the access duration in days after purchase: the window of
\* an activated purchase stays where it was put.
WindowStays ==
  [][\A o \in activated : until'[o] = until[o]]_vars
=============================================================================
