--------------------------- MODULE PurchasesProofs ---------------------------
(***************************************************************************)
(* Proofs about Purchases, for any sets of users, items, orders and        *)
(* notices, any terms and any number of days, retries, faults, crashes and *)
(* edits.                                                                  *)
(***************************************************************************)
EXTENDS Purchases, TLAPS

\* A notice and a task name their order, and the first copy and the next copy of a
\* task are tasks.
LEMMA EventOrder == \A e \in Events : e[1] \in Orders /\ e[2] \in Notices /\ e = <<e[1], e[2]>>
BY DEF Events

LEMMA EventOf == \A o \in Orders : \A n \in Notices : <<o, n>> \in Events
BY DEF Events

LEMMA TaskOrder == \A t \in Tasks : t[1] \in Orders /\ t[2] \in 0 .. MaxRetries /\ t = <<t[1], t[2]>>
BY DEF Tasks

LEMMA TaskOf == \A o \in Orders : \A r \in 0 .. MaxRetries : <<o, r>> \in Tasks
BY DEF Tasks

LEMMA FirstTask == \A o \in Orders : <<o, 0>> \in Tasks
BY TaskOf, BoundAssumption

LEMMA NextTask == \A t \in Tasks : t[2] # MaxRetries => <<t[1], t[2] + 1>> \in Tasks
<1> SUFFICES ASSUME NEW t \in Tasks, t[2] # MaxRetries PROVE <<t[1], t[2] + 1>> \in Tasks
  OBVIOUS
<1>1. t[2] + 1 \in 0 .. MaxRetries
  BY TaskOrder, BoundAssumption
<1>2. QED
  BY <1>1, TaskOrder, TaskOf

(***************************************************************************)
(* Type correctness                                                        *)
(***************************************************************************)
LEMMA ValidityType == TypeOK => \A c \in Courses : validity[c] \in Nat \ {0}
BY TermAssumption DEF TypeOK

LEMMA TermType == \A o \in Orders : TypeOK => Term(asks[o].item) \in Nat
BY ValidityType DEF Term, EbookTerm

LEMMA WindowType ==
  ASSUME TypeOK, NEW o \in Orders, WriteWindow(o)
  PROVE  until' \in [Orders -> Int]
BY DEF TypeOK, WriteWindow, NoExpiry, Requests, Items

LEMMA QueueType == TypeOK => Redelivered \in [Tasks -> Nat]
BY DEF TypeOK, Redelivered

LEMMA InitType == Init => TypeOK
BY DEF Init, TypeOK

LEMMA RequestType ==
  ASSUME TypeOK, NEW o \in Orders, CheckOrder(o) \/ PlaceOrder(o) \/ Pay(o)
  PROVE  TypeOK'
<1>1. CASE CheckOrder(o)
  <2>1. term' \in [Orders -> Nat]
    BY <1>1, TermType DEF CheckOrder, TypeOK
  <2>2. QED
    BY <1>1, <2>1
    DEF CheckOrder, TypeOK, Fault, NoFault, paying, table, tasks, course, ghosts, budget
<1>2. CASE PlaceOrder(o)
  <2>1. status' \in [Orders -> {"absent", "pending", "completed"}]
    BY <1>2 DEF PlaceOrder, Insert, TypeOK, table
  <2>2. until' \in [Orders -> Int]
    <3>1. now + term[o] \in Int
      BY DEF TypeOK
    <3>2. until' = until \/ until' = [until EXCEPT ![o] = now + term[o]]
      BY <1>2 DEF PlaceOrder, Insert, table
    <3>3. until \in [Orders -> Int]
      BY DEF TypeOK
    <3>4. QED
      BY <3>1, <3>2, <3>3
  <2>3. term' \in [Orders -> Nat] /\ faults' \in Nat
        /\ request' \in [Orders -> {"new", "checked", "refused", "returned", "failed"}]
    BY <1>2 DEF PlaceOrder, TypeOK, Fault, NoFault, budget
  <2>4. UNCHANGED <<now, asks, captured, paying, tasks, course, ghosts, crashes, edits>>
    BY <1>2 DEF PlaceOrder, Fault, NoFault, budget
  <2>5. QED
    BY <2>1, <2>2, <2>3, <2>4 DEF TypeOK, paying, tasks, course, ghosts
<1>3. CASE Pay(o)
  <2>1. due' \subseteq Events
    BY <1>3 DEF Pay, TypeOK, Events
  <2>2. QED
    BY <1>3, <2>1 DEF Pay, TypeOK, table, tasks, course, ghosts, budget
<1>4. QED
  BY <1>1, <1>2, <1>3

LEMMA WebhookType ==
  ASSUME TypeOK, NEW e \in Events, WebhookStep(e)
  PROVE  TypeOK'
<1>1. CASE Lookup(e)
  BY <1>1
  DEF Lookup, Step, TypeOK, Fault, NoFault, buying, table, tasks, course, ghosts, budget
<1>2. CASE CheckActive(e)
  BY <1>2
  DEF CheckActive, Step, TypeOK, Fault, NoFault, buying, table, tasks, course, ghosts, budget
<1>3. CASE CompletePurchase(e)
  BY <1>3, EventOrder DEF CompletePurchase, Step, MarkCompleted, TypeOK, Fault, NoFault, buying, tasks,
              course, ghosts, budget
<1>4. CASE Publish(e)
  <2>1. e[1] \in Orders /\ <<e[1], 0>> \in Tasks
    BY EventOrder, FirstTask
  <2>2. queue' \in [Tasks -> Nat] /\ published' \in [Orders -> Nat]
    BY <1>4, <2>1 DEF Publish, Enqueue, TypeOK
  <2>3. QED
    BY <1>4, <2>1, <2>2 DEF Publish, Step, TypeOK, Fault, NoFault, buying, table, course, budget
<1>5. CASE Answer(e)
  BY <1>5
  DEF Answer, Step, TypeOK, Fault, NoFault, buying, table, tasks, course, ghosts, budget
<1>6. QED
  BY <1>1, <1>2, <1>3, <1>4, <1>5 DEF WebhookStep

LEMMA WorkerType ==
  ASSUME TypeOK, NEW t \in Tasks, WorkerStep(t)
  PROVE  TypeOK'
<1>1. CASE Take(t)
  BY <1>1 DEF Take, WorkStep, TypeOK, buying, paying, table, course, ghosts, budget
<1>2. CASE Load(t)
  <2>1. days' \in Nat
    BY <1>2, ValidityType DEF Load, TypeOK
  <2>2. queue' \in [Tasks -> Nat] /\ work' \in [Tasks -> {"idle", "load", "activate", "retry", "ack"}]
    BY <1>2 DEF Load, WorkStep, Requeue, Enqueue, TypeOK
  <2>3. QED
    BY <1>2, <2>1, <2>2
    DEF Load, TypeOK, Fault, NoFault, buying, paying, table, course, ghosts, budget
<1>3. CASE ActivateAccess(t)
  <2>1. until' \in [Orders -> Int]
    BY <1>3, WindowType, TaskOrder DEF ActivateAccess, TypeOK
  <2>2. QED
    BY <1>3, <2>1, TaskOrder
    DEF ActivateAccess, WorkStep, TypeOK, Fault, NoFault, buying, paying, course, budget
<1>4. CASE HandleError(t)
  <2>1. t[2] < MaxRetries => <<t[1], t[2] + 1>> \in Tasks
    BY NextTask, TaskOrder, BoundAssumption
  <2>2. queue' \in [Tasks -> Nat]
    BY <1>4, <2>1 DEF HandleError, Enqueue, TypeOK
  <2>3. QED
    BY <1>4, <2>2, TaskOrder
    DEF HandleError, Drop, WorkStep, TypeOK, Fault, NoFault, buying, paying, table, course, budget
<1>5. CASE Ack(t)
  BY <1>5 DEF Ack, WorkStep, TypeOK, buying, paying, table, course, ghosts, budget
<1>6. QED
  BY <1>1, <1>2, <1>3, <1>4, <1>5 DEF WorkerStep

LEMMA NextType == TypeOK /\ [Next]_vars => TypeOK'
<1> SUFFICES ASSUME TypeOK, [Next]_vars PROVE TypeOK'
  OBVIOUS
<1>1. CASE \E o \in Orders : CheckOrder(o) \/ PlaceOrder(o) \/ Pay(o)
  BY <1>1, RequestType
<1>2. CASE \E e \in Events : WebhookStep(e)
  BY <1>2, WebhookType
<1>3. CASE \E t \in Tasks : WorkerStep(t)
  BY <1>3, WorkerType
<1>4. CASE Crash
  <2>1. queue' \in [Tasks -> Nat]
    BY <1>4, QueueType DEF Crash
  <2>2. request' \in [Orders -> {"new", "checked", "refused", "returned", "failed"}]
    BY <1>4 DEF Crash, TypeOK
  <2>3. orphaned' \subseteq Orders
    BY <1>4 DEF Crash, TypeOK
  <2>4. QED
    <3>1. hook' \in [Events -> {"idle", "check", "complete", "publish", "answer"}]
          /\ work' \in [Tasks -> {"idle", "load", "activate", "retry", "ack"}]
          /\ days' \in Nat /\ consuming' \in BOOLEAN /\ crashes' \in Nat
      BY <1>4 DEF Crash, TypeOK
    <3>2. UNCHANGED <<now, asks, term, captured, due, table, course, published, activated,
                      unfulfilled, faults, edits>>
      BY <1>4 DEF Crash
    <3>3. QED
      BY <2>1, <2>2, <2>3, <3>1, <3>2 DEF TypeOK, table, course
<1>5. CASE ChannelCloses
  <2>1. queue' \in [Tasks -> Nat]
    BY <1>5, QueueType DEF ChannelCloses
  <2>2. consuming' \in BOOLEAN /\ faults' \in Nat
    <3>1. consuming' = FALSE /\ faults' = faults + 1
      BY <1>5 DEF ChannelCloses, Fault
    <3>2. faults \in Nat
      BY DEF TypeOK
    <3>3. consuming' \in BOOLEAN
      BY <3>1, Zenon
    <3>4. faults' \in Nat
      BY <3>1, <3>2
    <3>5. QED
      BY <3>3, <3>4, Zenon
  <2>3. UNCHANGED <<now, buying, paying, table, work, days, course, ghosts, crashes, edits>>
    BY <1>5 DEF ChannelCloses, Fault
  <2>4. QED
    BY <2>1, <2>2, <2>3 DEF TypeOK, buying, paying, table, course, ghosts
<1>6. CASE \E c \in Courses : EditValidity(c)
  BY <1>6 DEF EditValidity, TypeOK, buying, paying, table, tasks, ghosts
<1>7. CASE Tick
  BY <1>7 DEF Tick, TypeOK, buying, paying, table, tasks, course, ghosts, budget
<1>8. CASE UNCHANGED vars
  BY <1>8 DEF vars, TypeOK, buying, paying, table, tasks, course, ghosts, budget
<1>9. QED
  BY <1>1, <1>2, <1>3, <1>4, <1>5, <1>6, <1>7, <1>8 DEF Next

\* Every variable keeps its type: in particular the queue never counts below zero
\* and no task is published with a RetryCount above MaxRetries.
THEOREM TypeCorrect == Spec => []TypeOK
BY InitType, NextType, PTL DEF Spec

(***************************************************************************)
(* The inductive invariant                                                 *)
(***************************************************************************)
\* Payment and completion: a running call holds a due notice, a due notice is of
\* a captured payment, a captured payment is of an order the client was given,
\* and only captured orders are completed.
PaymentInv ==
  /\ \A e \in Events : hook[e] # "idle" => e \in due
  /\ \A e \in due : e[1] \in captured
  /\ \A o \in captured : request[o] = "returned"
  /\ \A o \in Orders : status[o] = "completed" => o \in captured

\* A call that is about to publish, or a task, is of a completed purchase.
CompletionInv ==
  /\ \A e \in Events : hook[e] = "publish" => status[e[1]] = "completed"
  /\ TasksAreForCompleted

Settled(o) == CompletedRival(o) \/ o \in unfulfilled

\* A call answers only for a settled order, and a captured order that is not
\* settled has a notice due.
SettleInv ==
  /\ \A e \in Events : hook[e] = "answer" => Settled(e[1])
  /\ \A o \in captured : Settled(o) \/ \E n \in Notices : <<o, n>> \in due

\* At most one call is about to publish for an order, and only while nothing was.
PublishInv ==
  /\ \A o \in Orders : status[o] # "completed" => published[o] = 0
  /\ \A e \in Events : hook[e] = "publish" => published[e[1]] = 0
  /\ \A e, f \in Events : hook[e] = "publish" /\ hook[f] = "publish" /\ e[1] = f[1]
                           => e = f
  /\ PublishedOnce

\* One task is at work at a time, and a closed channel has given it back.
WorkInv ==
  /\ \A t, u \in Tasks : work[t] # "idle" /\ work[u] # "idle" => t = u
  /\ \A t \in Tasks : work[t] # "idle" /\ ~consuming => queue[t] > 0

\* The order is for a course whose days were never lowered.
Steady(o) == asks[o].item \in Courses \ lowered

\* An order has no window before its row.  Unless the days of its course were
\* lowered, it has no window, and CreateOrder and the worker write none, that ends
\* later than one opened now would; and the worker's ends no earlier than the row's.
WindowInv ==
  /\ \A o \in Orders : request[o] \in {"new", "checked"} => until[o] = 0
  /\ \A o \in Orders : Steady(o) => /\ until[o] <= now + validity[asks[o].item]
                                    /\ term[o] <= validity[asks[o].item]
  /\ \A t \in Tasks : work[t] = "activate" /\ Steady(t[1]) =>
                        /\ until[t[1]] <= now + days
                        /\ days <= validity[asks[t[1]].item]

IInv == /\ TypeOK /\ PaymentInv /\ CompletionInv /\ SettleInv /\ PublishInv
        /\ WorkInv /\ WindowInv /\ NoTaskForgotten

LEMMA InitInv == Init => IInv
<1> SUFFICES ASSUME Init PROVE IInv
  OBVIOUS
<1>1. PaymentInv /\ SettleInv
  BY DEF Init, PaymentInv, SettleInv
<1>2. CompletionInv /\ NoTaskForgotten
  BY TaskOrder DEF Init, CompletionInv, TasksAreForCompleted, NoTaskForgotten
<1>3. PublishInv
  BY DEF Init, PublishInv, PublishedOnce
<1>4. WorkInv
  BY DEF Init, WorkInv
<1>5. WindowInv
  <2>1. \A o \in Orders : Steady(o) => validity[asks[o].item] \in Nat
    BY ValidityType, InitType DEF Steady
  <2>2. now = 0 /\ \A o \in Orders : until[o] = 0 /\ term[o] = 0
    BY DEF Init
  <2>3. \A t \in Tasks : work[t] # "activate"
    BY DEF Init
  <2>4. QED
    BY <2>1, <2>2, <2>3 DEF WindowInv
<1>6. QED
  BY <1>1, <1>2, <1>3, <1>4, <1>5, InitType DEF IInv

\* The steps of nobody who serves the buyer.
Outside == \/ \E c \in Courses : EditValidity(c)
           \/ ChannelCloses
           \/ Tick

(***************************************************************************)
(* Payment and completion                                                  *)
(***************************************************************************)
LEMMA NextPayment == TypeOK /\ PaymentInv /\ [Next]_vars => PaymentInv'
<1> SUFFICES ASSUME TypeOK, PaymentInv, [Next]_vars PROVE PaymentInv'
  OBVIOUS
<1> USE DEF TypeOK, PaymentInv
<1>1. ASSUME NEW o \in Orders, CheckOrder(o) PROVE PaymentInv'
  BY <1>1 DEF CheckOrder, paying, table
<1>2. ASSUME NEW o \in Orders, PlaceOrder(o) PROVE PaymentInv'
  BY <1>2 DEF PlaceOrder, Insert, paying, table
<1>3. ASSUME NEW o \in Orders, Pay(o) PROVE PaymentInv'
  BY <1>3 DEF Pay, table
<1>4. ASSUME NEW e \in Events, Lookup(e) PROVE PaymentInv'
  BY <1>4 DEF Lookup, Step, buying, table
<1>5. ASSUME NEW e \in Events, CheckActive(e) PROVE PaymentInv'
  BY <1>5 DEF CheckActive, Step, buying, table
<1>6. ASSUME NEW e \in Events, CompletePurchase(e) PROVE PaymentInv'
  BY <1>6, EventOrder DEF CompletePurchase, MarkCompleted, Step, buying
<1>7. ASSUME NEW e \in Events, Publish(e) PROVE PaymentInv'
  BY <1>7 DEF Publish, Step, buying, table
<1>8. ASSUME NEW e \in Events, Answer(e) PROVE PaymentInv'
  BY <1>8 DEF Answer, Step, buying, table
<1>9. ASSUME NEW t \in Tasks, WorkerStep(t) PROVE PaymentInv'
  BY <1>9 DEF WorkerStep, Take, Load, ActivateAccess, HandleError, Ack, buying, paying, table
<1>10. CASE Crash
  BY <1>10 DEF Crash, table
<1>11. CASE Outside \/ UNCHANGED vars
  BY <1>11 DEF Outside, ChannelCloses, EditValidity, Tick, vars, buying, paying, table
<1>12. QED
  BY <1>1, <1>2, <1>3, <1>4, <1>5, <1>6, <1>7, <1>8, <1>9, <1>10, <1>11
  DEF Next, Outside, WebhookStep

\* What a step may never take back: the requests, a captured payment, a
\* completed purchase, and the record of a fault.
LEMMA StepKeeps ==
  ASSUME TypeOK, PaymentInv, [Next]_vars
  PROVE  /\ asks' = asks
         /\ captured \subseteq captured'
         /\ unfulfilled \subseteq unfulfilled'
         /\ \A o \in Orders : status[o] = "completed" => status'[o] = "completed"
<1> USE DEF TypeOK, PaymentInv
<1>1. CASE \E o \in Orders : CheckOrder(o) \/ PlaceOrder(o) \/ Pay(o)
  BY <1>1 DEF CheckOrder, PlaceOrder, Insert, Pay, table, ghosts
<1>2. CASE \E e \in Events : Lookup(e) \/ CheckActive(e) \/ Publish(e) \/ Answer(e)
  BY <1>2 DEF Lookup, CheckActive, Publish, Answer, buying, table, ghosts
<1>3. CASE \E e \in Events : CompletePurchase(e)
  BY <1>3, EventOrder DEF CompletePurchase, MarkCompleted, buying, ghosts
<1>4. CASE \E t \in Tasks : WorkerStep(t)
  BY <1>4 DEF WorkerStep, Take, Load, ActivateAccess, HandleError, Ack, buying, table, ghosts
<1>5. CASE Crash \/ Outside \/ UNCHANGED vars
  BY <1>5 DEF Crash, Outside, ChannelCloses, EditValidity, Tick, vars, buying, table, ghosts
<1>6. QED
  BY <1>1, <1>2, <1>3, <1>4, <1>5 DEF Next, Outside, WebhookStep

LEMMA NextCompletion ==
  TypeOK /\ PaymentInv /\ CompletionInv /\ [Next]_vars => CompletionInv'
<1> SUFFICES ASSUME TypeOK, PaymentInv, CompletionInv, [Next]_vars PROVE CompletionInv'
  OBVIOUS
<1>a. \A o \in Orders : status[o] = "completed" => status'[o] = "completed"
  BY StepKeeps
<1> USE EventOrder, TaskOrder DEF TypeOK, CompletionInv, TasksAreForCompleted
<1>1. ASSUME NEW o \in Orders, CheckOrder(o) \/ PlaceOrder(o) \/ Pay(o) PROVE CompletionInv'
  BY <1>1, <1>a DEF CheckOrder, PlaceOrder, Pay, paying, tasks
<1>2. ASSUME NEW e \in Events, Lookup(e) \/ CheckActive(e) \/ Answer(e)
      PROVE  CompletionInv'
  BY <1>2, <1>a DEF Lookup, CheckActive, Answer, Step, table, tasks
<1>3. ASSUME NEW e \in Events, CompletePurchase(e) PROVE CompletionInv'
  BY <1>3, <1>a DEF CompletePurchase, MarkCompleted, Step, tasks
<1>4. ASSUME NEW e \in Events, Publish(e) PROVE CompletionInv'
  BY <1>4, <1>a, FirstTask DEF Publish, Step, Enqueue, table
<1>5. ASSUME NEW t \in Tasks, Take(t) \/ Ack(t) PROVE CompletionInv'
  BY <1>5, <1>a DEF Take, Ack, WorkStep, paying, table
<1>6. ASSUME NEW t \in Tasks, Load(t) PROVE CompletionInv'
  BY <1>6, <1>a DEF Load, WorkStep, Requeue, Enqueue, paying, table
<1>7. ASSUME NEW t \in Tasks, ActivateAccess(t) PROVE CompletionInv'
  BY <1>7, <1>a DEF ActivateAccess, WorkStep, paying
<1>8. ASSUME NEW t \in Tasks, HandleError(t) PROVE CompletionInv'
  BY <1>8, <1>a, NextTask, BoundAssumption DEF HandleError, WorkStep, Enqueue, paying, table
<1>9. CASE Crash
  BY <1>9, <1>a DEF Crash, Redelivered, table
<1>10. CASE ChannelCloses
  BY <1>10, <1>a DEF ChannelCloses, Redelivered, paying, table
<1>11. CASE (\E c \in Courses : EditValidity(c)) \/ Tick \/ UNCHANGED vars
  BY <1>11, <1>a DEF EditValidity, Tick, vars, paying, table, tasks
<1>12. QED
  BY <1>1, <1>2, <1>3, <1>4, <1>5, <1>6, <1>7, <1>8, <1>9, <1>10, <1>11
  DEF Next, WebhookStep, WorkerStep

\* The worker never meets a task of a purchase that is not completed.
THEOREM TasksCompleted == Spec => []TasksAreForCompleted
<1>1. Init => TypeOK /\ PaymentInv /\ CompletionInv
  BY InitInv DEF IInv
<1>2. TypeOK /\ PaymentInv /\ CompletionInv /\ [Next]_vars
        => (TypeOK /\ PaymentInv /\ CompletionInv)'
  BY NextType, NextPayment, NextCompletion
<1>3. CompletionInv => TasksAreForCompleted
  BY DEF CompletionInv
<1>4. QED
  BY <1>1, <1>2, <1>3, PTL DEF Spec

(***************************************************************************)
(* Settlement                                                              *)
(***************************************************************************)
LEMMA StaysSettled ==
  ASSUME TypeOK, PaymentInv, [Next]_vars, NEW o \in Orders, Settled(o)
  PROVE  Settled(o)'
BY StepKeeps DEF Settled, CompletedRival

LEMMA NextSettle ==
  TypeOK /\ PaymentInv /\ CompletionInv /\ SettleInv /\ [Next]_vars => SettleInv'
<1> SUFFICES ASSUME TypeOK, PaymentInv, CompletionInv, SettleInv, [Next]_vars
             PROVE  SettleInv'
  OBVIOUS
<1> DEFINE Keeps == /\ \A e \in Events : hook'[e] = "answer" => hook[e] = "answer"
                    /\ captured' = captured
                    /\ due' = due
<1>a. \A o \in Orders : Settled(o) => Settled(o)'
  BY StaysSettled
<1>b. captured \subseteq Orders /\ captured' \subseteq Orders
  BY NextType DEF TypeOK
<1>c. ASSUME Keeps PROVE SettleInv'
  BY <1>a, <1>b, <1>c, EventOrder DEF SettleInv
<1>1. ASSUME NEW o \in Orders, CheckOrder(o) \/ PlaceOrder(o) PROVE SettleInv'
  <2>1. Keeps
    BY <1>1 DEF CheckOrder, PlaceOrder, paying
  <2>2. QED
    BY <2>1, <1>c
<1>2. ASSUME NEW o \in Orders, Pay(o) PROVE SettleInv'
  <2>1. \A e \in Events : hook'[e] = "answer" => hook[e] = "answer"
    BY <1>2 DEF Pay
  <2>2. PICK n \in Notices : TRUE
    BY NoticeAssumption
  <2>3. <<o, n>> \in due'
    BY <1>2, <2>2 DEF Pay
  <2>4. due \subseteq due' /\ captured' = captured \cup {o}
    BY <1>2 DEF Pay
  <2>5. QED
    BY <2>1, <2>2, <2>3, <2>4, <1>a, <1>b, EventOrder DEF SettleInv
<1>3. ASSUME NEW e \in Events, Lookup(e) PROVE SettleInv'
  <2>1. due' = due /\ captured' = captured
    BY <1>3 DEF Lookup, buying
  <2>2. \A f \in Events : hook'[f] = "answer"
                          => hook[f] = "answer" \/ (f = e /\ status[e[1]] = "completed")
    BY <1>3 DEF Lookup, Step, TypeOK
  <2>3. status[e[1]] = "completed" => Settled(e[1])
    BY EventOrder DEF Settled, CompletedRival
  <2>4. QED
    BY <2>1, <2>2, <2>3, <1>a, <1>b, EventOrder DEF SettleInv
<1>4. ASSUME NEW e \in Events, CheckActive(e) PROVE SettleInv'
  <2>1. due' = due /\ captured' = captured
    BY <1>4 DEF CheckActive, buying
  <2>2. \A f \in Events : hook'[f] = "answer"
                          => hook[f] = "answer" \/ (f = e /\ HasActivePurchase(e[1]))
    BY <1>4 DEF CheckActive, Step, TypeOK
  <2>3. HasActivePurchase(e[1]) => Settled(e[1])
    BY DEF Settled, CompletedRival, HasActivePurchase, Active
  <2>4. QED
    BY <2>1, <2>2, <2>3, <1>a, <1>b, EventOrder DEF SettleInv
<1>5. ASSUME NEW e \in Events, CompletePurchase(e) PROVE SettleInv'
  <2>1. due' = due /\ captured' = captured
    BY <1>5 DEF CompletePurchase, buying
  <2>2. \A f \in Events : f # e => hook'[f] = hook[f]
    BY <1>5 DEF CompletePurchase, Step, TypeOK
  <2>3. ASSUME hook'[e] = "answer" PROVE Settled(e[1])'
    <3>1. CASE ~MayComplete(e[1])
      BY <3>1, <1>a, EventOrder DEF MayComplete, Settled
    <3>2. CASE e[1] \in unfulfilled'
      BY <3>2 DEF Settled
    <3>3. CASE MarkCompleted(e[1])
      BY <3>3, EventOrder DEF MarkCompleted, Settled, CompletedRival, TypeOK
    <3>4. QED
      BY <1>5, <2>3, <3>1, <3>2, <3>3 DEF CompletePurchase, Step, TypeOK
  <2>4. QED
    BY <2>1, <2>2, <2>3, <1>a, <1>b, EventOrder DEF SettleInv
<1>6. ASSUME NEW e \in Events, Publish(e) PROVE SettleInv'
  <2>1. due' = due /\ captured' = captured
    BY <1>6 DEF Publish, buying
  <2>2. \A f \in Events : f # e => hook'[f] = hook[f]
    BY <1>6 DEF Publish, Step, TypeOK
  <2>3. Settled(e[1])
    BY <1>6, EventOrder DEF Publish, Step, CompletionInv, Settled, CompletedRival
  <2>4. QED
    BY <2>1, <2>2, <2>3, <1>a, <1>b, EventOrder DEF SettleInv
<1>7. ASSUME NEW e \in Events, Answer(e) PROVE SettleInv'
  <2>1. captured' = captured /\ due \ {e} \subseteq due'
    BY <1>7 DEF Answer, buying
  <2>2. \A f \in Events : hook'[f] = "answer" => hook[f] = "answer"
    BY <1>7 DEF Answer, Step, TypeOK
  <2>3. Settled(e[1])
    BY <1>7 DEF Answer, Step, SettleInv
  <2>4. ASSUME NEW o \in captured, NEW n \in Notices, <<o, n>> \in due
        PROVE  Settled(o) \/ <<o, n>> \in due'
    BY <2>1, <2>3, <2>4, EventOrder
  <2>5. QED
    BY <2>1, <2>2, <2>4, <1>a, <1>b, EventOrder DEF SettleInv
<1>8. ASSUME NEW t \in Tasks, WorkerStep(t) PROVE SettleInv'
  <2>1. Keeps
    BY <1>8 DEF WorkerStep, Take, Load, ActivateAccess, HandleError, Ack, buying, paying
  <2>2. QED
    BY <2>1, <1>c
<1>9. CASE Crash \/ Outside \/ UNCHANGED vars
  <2>1. Keeps
    BY <1>9 DEF Crash, Outside, ChannelCloses, EditValidity, Tick, vars, buying, paying
  <2>2. QED
    BY <2>1, <1>c
<1>10. QED
  BY <1>1, <1>2, <1>3, <1>4, <1>5, <1>6, <1>7, <1>8, <1>9 DEF Next, Outside, WebhookStep

(***************************************************************************)
(* One task per purchase                                                   *)
(***************************************************************************)
LEMMA NextPublish ==
  TypeOK /\ PaymentInv /\ CompletionInv /\ PublishInv /\ [Next]_vars => PublishInv'
<1> SUFFICES ASSUME TypeOK, PaymentInv, CompletionInv, PublishInv, [Next]_vars
             PROVE  PublishInv'
  OBVIOUS
<1> USE EventOrder DEF PublishInv, PublishedOnce, TypeOK
<1>a. \A o \in Orders : status[o] = "completed" => status'[o] = "completed"
  BY StepKeeps
<1>b. ASSUME published' = published,
             \A e \in Events : hook'[e] = "publish" => hook[e] = "publish"
      PROVE  PublishInv'
  BY <1>a, <1>b, NextType
<1>1. ASSUME NEW o \in Orders, CheckOrder(o) \/ PlaceOrder(o) \/ Pay(o) PROVE PublishInv'
  BY <1>1, <1>b DEF CheckOrder, PlaceOrder, Pay, paying, ghosts
<1>2. ASSUME NEW e \in Events, Lookup(e) \/ CheckActive(e) \/ Answer(e) PROVE PublishInv'
  BY <1>2, <1>b DEF Lookup, CheckActive, Answer, Step, ghosts
<1>3. ASSUME NEW e \in Events, CompletePurchase(e) PROVE PublishInv'
  <2>1. published' = published
    BY <1>3 DEF CompletePurchase, ghosts
  <2>2. CASE hook'[e] = "publish"
    <3>1. status[e[1]] # "completed" /\ status'[e[1]] = "completed"
      BY <1>3, <2>2 DEF CompletePurchase, Step, MayComplete, CompletedRival, MarkCompleted
    <3>2. \A f \in Events : hook[f] = "publish" => f[1] # e[1]
      BY <3>1 DEF CompletionInv
    <3>3. \A f \in Events : f # e => hook'[f] = hook[f]
      BY <1>3 DEF CompletePurchase, Step
    <3>4. QED
      BY <2>1, <3>1, <3>2, <3>3, <1>a
  <2>3. CASE hook'[e] # "publish"
    BY <1>3, <2>1, <2>3, <1>b DEF CompletePurchase, Step
  <2>4. QED
    BY <2>2, <2>3
<1>4. ASSUME NEW e \in Events, Publish(e) PROVE PublishInv'
  <2>1. hook[e] = "publish" /\ hook' = [hook EXCEPT ![e] = "answer"]
    BY <1>4 DEF Publish, Step
  <2>2. published[e[1]] = 0 /\ status[e[1]] = "completed"
    BY <2>1 DEF CompletionInv
  <2>3. published' \in {published, [published EXCEPT ![e[1]] = 1]}
    BY <1>4, <2>2 DEF Publish
  <2>4. status' = status
    BY <1>4 DEF Publish, table
  <2>5. QED
    BY <2>1, <2>2, <2>3, <2>4
<1>5. ASSUME NEW t \in Tasks, WorkerStep(t) PROVE PublishInv'
  BY <1>5, <1>b DEF WorkerStep, Take, Load, ActivateAccess, HandleError, Ack, paying, ghosts
<1>6. CASE Crash \/ Outside \/ UNCHANGED vars
  BY <1>6, <1>b DEF Crash, Outside, ChannelCloses, EditValidity, Tick, vars, paying, ghosts
<1>7. QED
  BY <1>1, <1>2, <1>3, <1>4, <1>5, <1>6 DEF Next, Outside, WebhookStep

\* Concurrent and repeated webhook calls publish one task for a purchase at most.
THEOREM PublishedAtMostOnce == Spec => []PublishedOnce
<1>1. Init => TypeOK /\ PaymentInv /\ CompletionInv /\ PublishInv
  BY InitInv DEF IInv
<1>2. TypeOK /\ PaymentInv /\ CompletionInv /\ PublishInv /\ [Next]_vars
        => (TypeOK /\ PaymentInv /\ CompletionInv /\ PublishInv)'
  BY NextType, NextPayment, NextCompletion, NextPublish
<1>3. PublishInv => PublishedOnce
  BY DEF PublishInv
<1>4. QED
  BY <1>1, <1>2, <1>3, PTL DEF Spec

(***************************************************************************)
(* The worker                                                              *)
(***************************************************************************)
LEMMA NextWork == TypeOK /\ WorkInv /\ [Next]_vars => WorkInv'
<1> SUFFICES ASSUME TypeOK, WorkInv, [Next]_vars PROVE WorkInv'
  OBVIOUS
<1> USE DEF TypeOK, WorkInv
<1>a. ASSUME consuming' = consuming,
             \A t \in Tasks : work'[t] # "idle" => work[t] # "idle",
             \A t \in Tasks : queue[t] > 0 => queue'[t] > 0
      PROVE  WorkInv'
  BY <1>a
<1>1. CASE \E o \in Orders : CheckOrder(o) \/ PlaceOrder(o) \/ Pay(o)
  BY <1>1, <1>a DEF CheckOrder, PlaceOrder, Pay, tasks
<1>2. CASE \E e \in Events : Lookup(e) \/ CheckActive(e) \/ CompletePurchase(e) \/ Answer(e)
  BY <1>2, <1>a DEF Lookup, CheckActive, CompletePurchase, Answer, tasks
<1>3. ASSUME NEW e \in Events, Publish(e) PROVE WorkInv'
  BY <1>3, <1>a DEF Publish, Enqueue
<1>4. ASSUME NEW t \in Tasks, Take(t) PROVE WorkInv'
  BY <1>4 DEF Take, WorkStep
<1>5. ASSUME NEW t \in Tasks, Load(t) PROVE WorkInv'
  BY <1>5, <1>a DEF Load, WorkStep, Requeue, Enqueue
<1>6. ASSUME NEW t \in Tasks, ActivateAccess(t) PROVE WorkInv'
  BY <1>6, <1>a DEF ActivateAccess, WorkStep
<1>7. ASSUME NEW t \in Tasks, HandleError(t) PROVE WorkInv'
  BY <1>7, <1>a DEF HandleError, WorkStep, Enqueue
<1>8. ASSUME NEW t \in Tasks, Ack(t) PROVE WorkInv'
  BY <1>8, <1>a DEF Ack, WorkStep
<1>9. CASE Crash
  BY <1>9 DEF Crash
<1>10. CASE ChannelCloses
  BY <1>10 DEF ChannelCloses, Redelivered
<1>11. CASE (\E c \in Courses : EditValidity(c)) \/ Tick \/ UNCHANGED vars
  BY <1>11, <1>a DEF EditValidity, Tick, vars, tasks
<1>12. QED
  BY <1>1, <1>2, <1>3, <1>4, <1>5, <1>6, <1>7, <1>8, <1>9, <1>10, <1>11
  DEF Next, WebhookStep, WorkerStep

(***************************************************************************)
(* No task is forgotten                                                    *)
(***************************************************************************)
\* The four ways in which a completed purchase is accounted for.
Accounted(o) == o \in activated \/ o \in orphaned \/ Publishing(o) \/ Waiting(o)

LEMMA NextForgotten ==
  TypeOK /\ PaymentInv /\ WorkInv /\ NoTaskForgotten /\ [Next]_vars => NoTaskForgotten'
<1> SUFFICES ASSUME TypeOK, PaymentInv, WorkInv, NoTaskForgotten, [Next]_vars
             PROVE  NoTaskForgotten'
  OBVIOUS
<1> SUFFICES ASSUME NEW p \in Orders, status'[p] = "completed" PROVE Accounted(p)'
  BY DEF NoTaskForgotten, Accounted
<1> USE DEF TypeOK, Accounted
<1>a. status[p] = "completed" => Accounted(p)
  BY DEF NoTaskForgotten
<1>b. ASSUME status[p] = "completed",
             activated \subseteq activated', orphaned \subseteq orphaned',
             Publishing(p) => Publishing(p)', Waiting(p) => Waiting(p)'
      PROVE  Accounted(p)'
  BY <1>a, <1>b
<1>1. ASSUME NEW o \in Orders, CheckOrder(o) \/ PlaceOrder(o) \/ Pay(o) PROVE Accounted(p)'
  <2>1. status[p] = "completed"
    BY <1>1 DEF CheckOrder, PlaceOrder, Insert, Pay, table
  <2>2. UNCHANGED <<hook, queue, work, activated, orphaned>>
    BY <1>1 DEF CheckOrder, PlaceOrder, Pay, paying, tasks, ghosts
  <2>3. QED
    BY <1>b, <2>1, <2>2 DEF Publishing, Waiting
<1>2. ASSUME NEW e \in Events, Lookup(e) \/ CheckActive(e) \/ Answer(e) PROVE Accounted(p)'
  <2>1. UNCHANGED <<status, queue, work, activated, orphaned>>
    BY <1>2 DEF Lookup, CheckActive, Answer, table, tasks, ghosts
  <2>2. \A f \in Events : hook[f] = "publish" => hook'[f] = "publish"
    BY <1>2 DEF Lookup, CheckActive, Answer, Step
  <2>3. QED
    BY <1>b, <2>1, <2>2, EventOf DEF Publishing, Waiting
<1>3. ASSUME NEW e \in Events, CompletePurchase(e) PROVE Accounted(p)'
  <2>1. queue' = queue /\ work' = work /\ activated \subseteq activated'
        /\ orphaned \subseteq orphaned'
    BY <1>3 DEF CompletePurchase, tasks, ghosts
  <2>2. \A f \in Events : hook[f] = "publish" => hook'[f] = "publish"
    BY <1>3 DEF CompletePurchase, Step
  <2>3. CASE status[p] = "completed"
    BY <1>b, <2>1, <2>2, <2>3, EventOf DEF Publishing, Waiting
  <2>4. CASE status[p] # "completed"
    <3>1. e[1] = p
      BY <1>3, <2>4, EventOrder DEF CompletePurchase, MarkCompleted
    <3>2. hook'[e] = "publish" \/ p \in orphaned'
      BY <1>3, <2>4, <3>1 DEF CompletePurchase, Step
    <3>3. hook'[e] = "publish" => Publishing(p)'
      BY <3>1, EventOrder DEF Publishing
    <3>4. QED
      BY <3>2, <3>3
  <2>5. QED
    BY <2>3, <2>4
<1>4. ASSUME NEW e \in Events, Publish(e) PROVE Accounted(p)'
  <2>1. status' = status /\ work' = work /\ activated \subseteq activated'
        /\ orphaned \subseteq orphaned'
    BY <1>4 DEF Publish, table
  <2>2. \A t \in Tasks : queue[t] > 0 => queue'[t] > 0
    BY <1>4 DEF Publish, Enqueue
  <2>3. CASE e[1] = p
    <3>1. p \in orphaned' \/ queue'[<<p, 0>>] > 0
      BY <1>4, <2>3, FirstTask DEF Publish, Enqueue
    <3>2. 0 \in 0 .. MaxRetries
      BY BoundAssumption
    <3>3. QED
      BY <3>1, <3>2 DEF Waiting
  <2>4. CASE e[1] # p
    <3>1. Publishing(p) => Publishing(p)'
      BY <1>4, <2>4, EventOf DEF Publish, Step, Publishing
    <3>2. QED
      BY <1>b, <2>1, <2>2, <3>1, TaskOf DEF Waiting
  <2>5. QED
    BY <2>3, <2>4
<1>5. ASSUME NEW t \in Tasks, WorkerStep(t) PROVE Accounted(p)'
  <2>1. status[p] = "completed" /\ activated \subseteq activated' /\ orphaned \subseteq orphaned'
        /\ hook' = hook
    BY <1>5 DEF WorkerStep, Take, Load, ActivateAccess, HandleError, Drop, Ack, paying, table,
                ghosts
  <2>2. CASE t[1] # p
    <3>1. \A r \in 0 .. MaxRetries : /\ work'[<<p, r>>] = work[<<p, r>>]
                                     /\ queue[<<p, r>>] > 0 => queue'[<<p, r>>] > 0
      <4>1. \A u \in Tasks : u # t => work'[u] = work[u]
        BY <1>5 DEF WorkerStep, Take, Load, ActivateAccess, HandleError, Ack, WorkStep
      <4>2. \A u \in Tasks : u # t /\ queue[u] > 0 => queue'[u] > 0
        BY <1>5 DEF WorkerStep, Take, Load, ActivateAccess, HandleError, Ack, Requeue, Enqueue
      <4>3. QED
        BY <2>2, <4>1, <4>2, TaskOf
    <3>2. Waiting(p) => Waiting(p)'
      BY <3>1 DEF Waiting
    <3>3. Publishing(p) => Publishing(p)'
      BY <2>1 DEF Publishing
    <3>4. QED
      BY <1>b, <2>1, <3>2, <3>3
  <2>3. CASE t[1] = p
    <3>a. \A u \in Tasks : u[1] = p /\ (queue'[u] > 0 \/ work'[u] \in {"load", "activate", "retry"})
                           => Waiting(p)'
      <4>1. \A u \in Tasks : u[1] = p => u = <<p, u[2]>> /\ u[2] \in 0 .. MaxRetries
        BY TaskOrder
      <4>2. QED
        BY <4>1 DEF Waiting
    <3>1. CASE Take(t)
      <4>1. work'[t] = "load"
        BY <3>1 DEF Take, WorkStep
      <4>2. QED
        BY <2>3, <3>a, <4>1
    <3>2. CASE Load(t)
      <4>1. work'[t] \in {"activate", "retry"}
        BY <2>1, <2>3, <3>2 DEF Load, WorkStep
      <4>2. QED
        BY <2>3, <3>a, <4>1
    <3>3. CASE ActivateAccess(t)
      <4>1. p \in activated' \/ work'[t] = "retry"
        BY <2>3, <3>3 DEF ActivateAccess, WorkStep
      <4>2. QED
        BY <2>3, <3>a, <4>1
    <3>4. CASE HandleError(t)
      <4>1. CASE p \in orphaned'
        BY <4>1
      <4>2. CASE t[2] # MaxRetries /\ Enqueue(<<t[1], t[2] + 1>>)
        <5>1. <<t[1], t[2] + 1>> \in Tasks /\ queue'[<<t[1], t[2] + 1>>] > 0
          BY <4>2, NextTask DEF Enqueue
        <5>2. QED
          BY <2>3, <3>a, <5>1
      <4>3. CASE ~consuming /\ queue' = queue
        BY <2>3, <3>4, <3>a, <4>3 DEF HandleError, WorkStep, WorkInv
      <4>4. QED
        BY <2>3, <3>4, <4>1, <4>2, <4>3, TaskOrder, BoundAssumption DEF HandleError, Drop
    <3>5. CASE Ack(t)
      <4>1. /\ queue' = queue
            /\ \A u \in Tasks : work[u] \in {"load", "activate", "retry"} => work'[u] = work[u]
        BY <3>5 DEF Ack, WorkStep
      <4>2. QED
        BY <1>b, <2>1, <4>1, TaskOf DEF Publishing, Waiting
    <3>6. QED
      BY <1>5, <3>1, <3>2, <3>3, <3>4, <3>5 DEF WorkerStep
  <2>4. QED
    BY <2>2, <2>3
<1>6. CASE Crash
  <2>1. status' = status /\ activated' = activated /\ orphaned \subseteq orphaned'
    BY <1>6 DEF Crash, table
  <2>2. Publishing(p) => p \in orphaned'
    BY <1>6 DEF Crash, Publishing
  <2>3. Waiting(p) => Waiting(p)'
    <3>1. \A t \in Tasks : queue[t] > 0 \/ work[t] # "idle" => queue'[t] > 0
      BY <1>6 DEF Crash, Redelivered, WorkInv
    <3>2. QED
      BY <3>1, TaskOf DEF Waiting
  <2>4. QED
    BY <1>a, <2>1, <2>2, <2>3
<1>7. CASE ChannelCloses
  <2>1. UNCHANGED <<status, hook, work, activated, orphaned>>
    BY <1>7 DEF ChannelCloses, paying, table, ghosts
  <2>2. \A t \in Tasks : queue[t] > 0 => queue'[t] > 0
    BY <1>7 DEF ChannelCloses, Redelivered
  <2>3. QED
    BY <1>a, <2>1, <2>2, TaskOf DEF Publishing, Waiting
<1>8. CASE (\E c \in Courses : EditValidity(c)) \/ Tick \/ UNCHANGED vars
  <2>1. UNCHANGED <<status, hook, queue, work, activated, orphaned>>
    BY <1>8 DEF EditValidity, Tick, vars, paying, table, tasks, ghosts
  <2>2. QED
    BY <1>a, <2>1 DEF Publishing, Waiting
<1>9. QED
  BY <1>1, <1>2, <1>3, <1>4, <1>5, <1>6, <1>7, <1>8 DEF Next, WebhookStep

\* A completed purchase has its window written, or a task on its way to it, or
\* was dropped at one of the places that mark it orphaned.
THEOREM NothingForgotten == Spec => []NoTaskForgotten
<1>1. Init => TypeOK /\ PaymentInv /\ WorkInv /\ NoTaskForgotten
  BY InitInv DEF IInv
<1>2. TypeOK /\ PaymentInv /\ WorkInv /\ NoTaskForgotten /\ [Next]_vars
        => (TypeOK /\ PaymentInv /\ WorkInv /\ NoTaskForgotten)'
  BY NextType, NextPayment, NextWork, NextForgotten
<1>3. QED
  BY <1>1, <1>2, PTL DEF Spec

(***************************************************************************)
(* Course windows                                                          *)
(***************************************************************************)
CourseWindowsGrow == \A o \in Orders : Steady(o) => until'[o] >= until[o]

\* A step that writes no window and reads no days.
Passing == /\ until' = until
           /\ term' = term
           /\ validity' = validity
           /\ lowered' = lowered
           /\ \A o \in Orders : request'[o] \in {"new", "checked"} => request[o] \in {"new", "checked"}
           /\ \A t \in Tasks : work'[t] = "activate" => work[t] = "activate" /\ days' = days

LEMMA WindowTypes ==
  ASSUME TypeOK
  PROVE  /\ now \in Nat /\ days \in Nat
         /\ \A o \in Orders : /\ until[o] \in Int /\ term[o] \in Nat
                              /\ asks[o].item \in Courses => validity[asks[o].item] \in Nat \ {0}
BY ValidityType DEF TypeOK

\* Days that pass do not lengthen a window.
LEMMA PassingWindow ==
  ASSUME TypeOK, TypeOK', WindowInv, asks' = asks, Passing, now' >= now
  PROVE  WindowInv' /\ CourseWindowsGrow
<1>a. /\ now \in Nat /\ now' \in Nat /\ days \in Nat
      /\ \A o \in Orders : /\ until[o] \in Int
                           /\ asks[o].item \in Courses => validity[asks[o].item] \in Nat
  BY WindowTypes DEF TypeOK
<1>1. ASSUME NEW o \in Orders, Steady(o)'
      PROVE  /\ until'[o] <= now' + validity'[asks'[o].item]
             /\ term'[o] <= validity'[asks'[o].item]
  <2>1. Steady(o) /\ asks[o].item \in Courses
    BY <1>1 DEF Steady, Passing
  <2>2. until[o] <= now + validity[asks[o].item] /\ term[o] <= validity[asks[o].item]
    BY <2>1 DEF WindowInv
  <2>3. until[o] <= now' + validity[asks[o].item]
    BY <2>1, <2>2, <1>a
  <2>4. QED
    BY <2>2, <2>3 DEF Passing
<1>2. ASSUME NEW t \in Tasks, work'[t] = "activate", Steady(t[1])'
      PROVE  /\ until'[t[1]] <= now' + days'
             /\ days' <= validity'[asks'[t[1]].item]
  <2>1. work[t] = "activate" /\ days' = days /\ Steady(t[1]) /\ t[1] \in Orders
    BY <1>2, TaskOrder DEF Steady, Passing
  <2>2. until[t[1]] <= now + days /\ days <= validity[asks[t[1]].item]
    BY <2>1 DEF WindowInv
  <2>3. until[t[1]] <= now' + days
    BY <2>1, <2>2, <1>a
  <2>4. QED
    BY <2>1, <2>2, <2>3 DEF Passing
<1>3. \A o \in Orders : request'[o] \in {"new", "checked"} => until'[o] = 0
  BY DEF Passing, WindowInv
<1>4. CourseWindowsGrow
  BY <1>a DEF Passing, CourseWindowsGrow
<1>5. QED
  BY <1>1, <1>2, <1>3, <1>4 DEF WindowInv

LEMMA NextWindow ==
  ASSUME TypeOK, PaymentInv, CompletionInv, WorkInv, WindowInv, [Next]_vars
  PROVE  WindowInv' /\ CourseWindowsGrow
<1>a. asks' = asks
  BY StepKeeps
<1>b. TypeOK'
  BY NextType
<1>c. /\ now \in Nat /\ now' \in Nat /\ days \in Nat
      /\ \A o \in Orders : /\ until[o] \in Int /\ term[o] \in Nat
                           /\ asks[o].item \in Courses => validity[asks[o].item] \in Nat
  BY WindowTypes, <1>b DEF TypeOK
<1>d. \A t \in Tasks : work[t] # "idle" => t[1] \in Orders /\ request[t[1]] = "returned"
  BY TaskOrder DEF CompletionInv, TasksAreForCompleted, PaymentInv
<1>e. ASSUME Passing, now' = now PROVE WindowInv' /\ CourseWindowsGrow
  BY <1>a, <1>b, <1>c, <1>e, PassingWindow
<1>1. ASSUME NEW o \in Orders, CheckOrder(o) PROVE WindowInv' /\ CourseWindowsGrow
  <2>1. /\ UNCHANGED <<now, until, validity, lowered, work, days>>
        /\ term' = [term EXCEPT ![o] = Term(asks[o].item)]
        /\ request[o] = "new" /\ \A p \in Orders : p # o => request'[p] = request[p]
    BY <1>1 DEF CheckOrder, table, tasks, course, TypeOK
  <2>2. Steady(o) => term'[o] = validity[asks[o].item]
    BY <2>1 DEF Steady, Term, TypeOK
  <2>3. \A p \in Orders : p # o => term'[p] = term[p]
    BY <2>1 DEF TypeOK
  <2>4. \A p \in Orders : Steady(p)' <=> Steady(p)
    BY <2>1, <1>a DEF Steady
  <2>5. \A p \in Orders : Steady(p) => term'[p] <= validity[asks[p].item]
    BY <2>2, <2>3, <1>c DEF WindowInv, Steady
  <2>6. \A p \in Orders : request'[p] \in {"new", "checked"} => until[p] = 0
    BY <2>1 DEF WindowInv
  <2>7. WindowInv'
    BY <2>1, <2>4, <2>5, <2>6, <1>a, TaskOrder DEF WindowInv
  <2>8. QED
    BY <2>1, <2>7, <1>c DEF CourseWindowsGrow
<1>2. ASSUME NEW o \in Orders, PlaceOrder(o) PROVE WindowInv' /\ CourseWindowsGrow
  <2>1. /\ UNCHANGED <<now, validity, lowered, work, days>>
        /\ term' = [term EXCEPT ![o] = 0]
        /\ until' = until \/ until' = [until EXCEPT ![o] = now + term[o]]
        /\ request[o] = "checked" /\ request'[o] \notin {"new", "checked"}
        /\ \A p \in Orders : p # o => request'[p] = request[p]
    BY <1>2 DEF PlaceOrder, Insert, table, tasks, course, TypeOK
  <2>2. until[o] = 0
    BY <2>1 DEF WindowInv
  <2>3. \A p \in Orders : p # o => until'[p] = until[p] /\ term'[p] = term[p]
    BY <2>1 DEF TypeOK
  <2>4. \A p \in Orders : Steady(p)' <=> Steady(p)
    BY <2>1, <1>a DEF Steady
  <2>5. term'[o] = 0 /\ until'[o] \in {0, now + term[o]}
    BY <2>1, <2>2 DEF TypeOK
  <2>6. Steady(o) => until'[o] <= now + validity[asks[o].item] /\ term'[o] <= validity[asks[o].item]
    BY <2>5, <1>c DEF WindowInv, Steady
  <2>7. \A t \in Tasks : work[t] = "activate" => t[1] # o
    BY <2>1, <1>d
  <2>8. WindowInv'
    BY <2>1, <2>3, <2>4, <2>6, <2>7, <1>a, TaskOrder DEF WindowInv
  <2>9. \A p \in Orders : until'[p] >= until[p]
    BY <2>2, <2>3, <2>5, <1>c
  <2>10. QED
    BY <2>8, <2>9 DEF CourseWindowsGrow
<1>3. ASSUME NEW t \in Tasks, Load(t) PROVE WindowInv' /\ CourseWindowsGrow
  <2>1. /\ UNCHANGED <<now, until, term, request, validity, lowered>>
        /\ work[t] = "load"
        /\ \A u \in Tasks : u # t => work'[u] = work[u]
        /\ work'[t] = "activate" => days' = IF asks[t[1]].item \in Courses
                                              THEN validity[asks[t[1]].item] ELSE 0
    BY <1>3 DEF Load, WorkStep, buying, table, course, TypeOK
  <2>2. \A u \in Tasks : work'[u] = "activate" => u = t
    BY <2>1 DEF WorkInv
  <2>3. t[1] \in Orders
    BY TaskOrder
  <2>4. \A p \in Orders : Steady(p)' <=> Steady(p)
    BY <2>1, <1>a DEF Steady
  <2>5. work'[t] = "activate" /\ Steady(t[1]) =>
          until[t[1]] <= now + days' /\ days' <= validity[asks[t[1]].item]
    BY <2>1, <2>3, <1>c DEF WindowInv, Steady
  <2>6. WindowInv'
    BY <2>1, <2>2, <2>3, <2>4, <2>5, <1>a DEF WindowInv
  <2>7. QED
    BY <2>1, <2>6, <1>c DEF CourseWindowsGrow
<1>4. ASSUME NEW t \in Tasks, ActivateAccess(t) PROVE WindowInv' /\ CourseWindowsGrow
  <2>1. /\ UNCHANGED <<now, term, request, validity, lowered>>
        /\ work[t] = "activate" /\ work'[t] # "activate"
        /\ \A u \in Tasks : u # t => work'[u] = work[u]
        /\ until' = until \/ WriteWindow(t[1])
    BY <1>4 DEF ActivateAccess, WorkStep, buying, course, TypeOK
  <2>2. \A u \in Tasks : work'[u] # "activate"
    BY <2>1 DEF WorkInv
  <2>3. t[1] \in Orders /\ request[t[1]] = "returned"
    BY <2>1, <1>d
  <2>4. \A p \in Orders : Steady(p)' <=> Steady(p)
    BY <2>1, <1>a DEF Steady
  <2>5. \A p \in Orders : p # t[1] => until'[p] = until[p]
    BY <2>1 DEF WriteWindow, TypeOK
  <2>6. Steady(t[1]) => until'[t[1]] = until[t[1]] \/ until'[t[1]] = now + days
    BY <2>1, <2>3 DEF WriteWindow, Steady, TypeOK
  <2>7. Steady(t[1]) => until[t[1]] <= now + days /\ days <= validity[asks[t[1]].item]
    BY <2>1 DEF WindowInv
  <2>8. Steady(t[1]) => /\ until'[t[1]] <= now + validity[asks[t[1]].item]
                        /\ until'[t[1]] >= until[t[1]]
    BY <2>3, <2>6, <2>7, <1>c DEF WindowInv, Steady
  <2>9. WindowInv'
    BY <2>1, <2>2, <2>3, <2>4, <2>5, <2>8, <1>a DEF WindowInv
  <2>10. QED
    BY <2>3, <2>5, <2>8, <2>9, <1>c DEF CourseWindowsGrow
<1>5. ASSUME NEW c \in Courses, EditValidity(c) PROVE WindowInv' /\ CourseWindowsGrow
  <2>1. UNCHANGED <<now, until, term, request, work, days>>
    BY <1>5 DEF EditValidity, buying, table, tasks
  <2>2. PICK d \in Terms : /\ validity' = [validity EXCEPT ![c] = d]
                           /\ lowered' = IF d < validity[c] THEN lowered \cup {c} ELSE lowered
    BY <1>5 DEF EditValidity
  <2>3. d \in Nat /\ validity[c] \in Nat
    BY TermAssumption DEF TypeOK
  <2>4. ASSUME NEW o \in Orders, Steady(o)'
        PROVE  Steady(o) /\ validity[asks[o].item] <= validity'[asks[o].item]
    <3>1. asks[o].item \in Courses /\ asks[o].item \notin lowered'
      BY <2>4, <1>a DEF Steady
    <3>2. asks[o].item \notin lowered
      BY <2>2, <3>1
    <3>3. CASE asks[o].item = c
      <4>1. ~(d < validity[c])
        BY <2>2, <3>1, <3>3
      <4>2. validity'[c] = d
        BY <2>2 DEF TypeOK
      <4>3. QED
        BY <2>3, <3>1, <3>2, <3>3, <4>1, <4>2 DEF Steady
    <3>4. CASE asks[o].item # c
      BY <2>2, <3>1, <3>2, <3>4, <1>c DEF Steady, TypeOK
    <3>5. QED
      BY <3>3, <3>4
  <2>5. \A o \in Orders : asks[o].item \in Courses => validity'[asks[o].item] \in Nat
    <3>1. \A e \in Courses : validity[e] \in Nat
      BY ValidityType
    <3>2. \A e \in Courses : validity'[e] \in {d, validity[e]}
      BY <2>2 DEF TypeOK
    <3>3. QED
      BY <2>3, <3>1, <3>2
  <2>6. ASSUME NEW o \in Orders, Steady(o)'
        PROVE  /\ until[o] <= now + validity'[asks[o].item]
               /\ term[o] <= validity'[asks[o].item]
    <3>1. Steady(o) /\ asks[o].item \in Courses
      BY <2>4, <2>6 DEF Steady
    <3>2. until[o] <= now + validity[asks[o].item] /\ term[o] <= validity[asks[o].item]
      BY <3>1 DEF WindowInv
    <3>3. QED
      BY <2>4, <2>5, <2>6, <3>1, <3>2, <1>c
  <2>7. ASSUME NEW t \in Tasks, work[t] = "activate", Steady(t[1])'
        PROVE  until[t[1]] <= now + days /\ days <= validity'[asks[t[1]].item]
    <3>1. t[1] \in Orders
      BY TaskOrder
    <3>2. Steady(t[1]) /\ asks[t[1]].item \in Courses
      BY <2>4, <2>7, <3>1 DEF Steady
    <3>3. until[t[1]] <= now + days /\ days <= validity[asks[t[1]].item]
      BY <2>7, <3>2 DEF WindowInv
    <3>4. QED
      BY <2>4, <2>5, <2>7, <3>1, <3>2, <3>3, <1>c
  <2>8. WindowInv'
    BY <2>1, <2>6, <2>7, <1>a DEF WindowInv
  <2>9. QED
    BY <2>1, <2>8, <1>c DEF CourseWindowsGrow
<1>6. CASE Tick
  <2>1. Passing /\ now' >= now
    BY <1>6, <1>c DEF Tick, Passing, buying, table, tasks, course
  <2>2. QED
    BY <2>1, <1>a, <1>b, PassingWindow
<1>7. CASE Crash
  <2>1. Passing /\ now' = now
    BY <1>7 DEF Crash, Passing, table, course, TypeOK
  <2>2. QED
    BY <2>1, <1>e
<1>8. CASE ChannelCloses \/ UNCHANGED vars
  <2>1. Passing /\ now' = now
    BY <1>8 DEF ChannelCloses, vars, Passing, buying, table, tasks, course
  <2>2. QED
    BY <2>1, <1>e
<1>9. ASSUME NEW o \in Orders, Pay(o) PROVE WindowInv' /\ CourseWindowsGrow
  <2>1. Passing /\ now' = now
    BY <1>9 DEF Pay, Passing, table, tasks, course
  <2>2. QED
    BY <2>1, <1>e
<1>10. ASSUME NEW e \in Events, WebhookStep(e) PROVE WindowInv' /\ CourseWindowsGrow
  <2>1. Passing /\ now' = now
    BY <1>10 DEF WebhookStep, Lookup, CheckActive, CompletePurchase, Publish, Answer, Passing,
                 buying, table, tasks, course
  <2>2. QED
    BY <2>1, <1>e
<1>11. ASSUME NEW t \in Tasks, Take(t) \/ HandleError(t) \/ Ack(t)
       PROVE  WindowInv' /\ CourseWindowsGrow
  <2>1. Passing /\ now' = now
    BY <1>11 DEF Take, HandleError, Ack, WorkStep, Passing, buying, table, course, TypeOK
  <2>2. QED
    BY <2>1, <1>e
<1>12. QED
  BY <1>1, <1>2, <1>3, <1>4, <1>5, <1>6, <1>7, <1>8, <1>9, <1>10, <1>11 DEF Next, WorkerStep

\* Writing a window again, however late and whatever the days of the course have
\* become, never shortens it, unless those days were lowered.
THEOREM AccessOnlyGrows == Spec => AccessNeverShrinks
<1>1. Init => TypeOK /\ PaymentInv /\ CompletionInv /\ WorkInv /\ WindowInv
  BY InitInv DEF IInv
<1>2. TypeOK /\ PaymentInv /\ CompletionInv /\ WorkInv /\ WindowInv /\ [Next]_vars
        => /\ (TypeOK /\ PaymentInv /\ CompletionInv /\ WorkInv /\ WindowInv)'
           /\ [CourseWindowsGrow]_vars
  BY NextType, NextPayment, NextCompletion, NextWork, NextWindow
<1>3. CourseWindowsGrow <=> \A o \in Orders : asks[o].item \in Courses \ lowered
                                              => until'[o] >= until[o]
  BY DEF CourseWindowsGrow, Steady
<1>4. QED
  BY <1>1, <1>2, <1>3, PTL DEF Spec, AccessNeverShrinks

(***************************************************************************)
(* Refinement of Enrollment                                                *)
(***************************************************************************)
\* An outcome depends on the payment, the row, the notices and the faults only.
LEMMA SameOutcome ==
  ASSUME NEW o \in Orders,
         o \in captured' <=> o \in captured,
         status'[o] = "completed" <=> status[o] = "completed",
         \A n \in Notices : <<o, n>> \in due' <=> <<o, n>> \in due,
         \/ o \in unfulfilled' <=> o \in unfulfilled
         \/ \E n \in Notices : <<o, n>> \in due
  PROVE  Outcome(o)' = Outcome(o)
BY DEF Outcome

LEMMA CompletedIsGranted ==
  ASSUME PaymentInv, NEW o \in Orders
  PROVE  Outcome(o) = "granted" <=> status[o] = "completed"
BY DEF Outcome, PaymentInv

LEMMA NoneMoves ==
  ASSUME asks' = asks, \A o \in Orders : Outcome(o)' = Outcome(o)
  PROVE  UNCHANGED Promise!vars
BY DEF Promise!vars

LEMMA OneMoves ==
  ASSUME asks' = asks, NEW p \in Orders, NEW from, NEW to,
         \A o \in Orders : o # p => Outcome(o)' = Outcome(o),
         Outcome(p) = from, Outcome(p)' = to
  PROVE  Promise!Move(p, from, to)
BY DEF Promise!Move

LEMMA InitPromise == Init => Promise!Init
BY DEF Init, Promise!Init, Outcome

LEMMA NextPromise ==
  ASSUME TypeOK, PaymentInv, SettleInv, PaymentInv', [Next]_vars
  PROVE  [Promise!Next]_Promise!vars
<1>a. asks' = asks
  BY StepKeeps
<1>b. \A o \in Orders : Promise!Granted(o) <=> CompletedRival(o)
  BY CompletedIsGranted DEF Promise!Granted, CompletedRival
<1>1. ASSUME NEW o \in Orders, CheckOrder(o) PROVE UNCHANGED Promise!vars
  <2>1. UNCHANGED <<captured, status, due, unfulfilled>>
    BY <1>1 DEF CheckOrder, paying, table, ghosts
  <2>2. QED
    BY <2>1, <1>a, SameOutcome, NoneMoves
<1>2. ASSUME NEW o \in Orders, PlaceOrder(o) PROVE UNCHANGED Promise!vars
  <2>1. UNCHANGED <<captured, due, unfulfilled>>
    BY <1>2 DEF PlaceOrder, paying, ghosts
  <2>2. \A p \in Orders : status'[p] = "completed" <=> status[p] = "completed"
    BY <1>2 DEF PlaceOrder, Insert, table, TypeOK, PaymentInv
  <2>3. QED
    BY <2>1, <2>2, <1>a, SameOutcome, NoneMoves
<1>3. ASSUME NEW o \in Orders, Pay(o) PROVE Promise!Pay(o)
  <2>1. status[o] # "completed" /\ status' = status /\ unfulfilled' = unfulfilled
    BY <1>3 DEF Pay, table, ghosts, PaymentInv
  <2>2. PICK n \in Notices : TRUE
    BY NoticeAssumption
  <2>3. <<o, n>> \in due' /\ o \in captured'
    BY <1>3, <2>2 DEF Pay
  <2>4. Outcome(o) = "open" /\ Outcome(o)' = "paid"
    BY <1>3, <2>1, <2>2, <2>3 DEF Pay, Outcome
  <2>5. ASSUME NEW p \in Orders, p # o PROVE Outcome(p)' = Outcome(p)
    <3>1. \A m \in Notices : <<p, m>> \in due' <=> <<p, m>> \in due
      BY <1>3, <2>5 DEF Pay
    <3>2. p \in captured' <=> p \in captured
      BY <1>3, <2>5 DEF Pay
    <3>3. QED
      BY <2>1, <3>1, <3>2, SameOutcome
  <2>6. QED
    BY <2>4, <2>5, <1>a, OneMoves DEF Promise!Pay
<1>4. ASSUME NEW e \in Events, Lookup(e) \/ CheckActive(e) \/ Publish(e)
      PROVE  UNCHANGED Promise!vars
  <2>1. UNCHANGED <<captured, status, due, unfulfilled>>
    BY <1>4 DEF Lookup, CheckActive, Publish, buying, table, ghosts
  <2>2. QED
    BY <2>1, <1>a, SameOutcome, NoneMoves
<1>5. ASSUME NEW e \in Events, CompletePurchase(e)
      PROVE  Promise!Grant(e[1]) \/ UNCHANGED Promise!vars
  <2>1. captured' = captured /\ due' = due
    BY <1>5 DEF CompletePurchase, buying
  <2>2. e[1] \in Orders /\ e[2] \in Notices /\ <<e[1], e[2]>> \in due /\ e[1] \in captured
    BY <1>5, EventOrder DEF CompletePurchase, Step, PaymentInv
  <2>3. \A p \in Orders : p # e[1] => (p \in unfulfilled' <=> p \in unfulfilled)
    BY <1>5 DEF CompletePurchase, ghosts
  <2>4. CASE MayComplete(e[1]) /\ MarkCompleted(e[1])
    <3>1. Outcome(e[1]) = "paid" /\ Outcome(e[1])' = "granted"
      BY <2>1, <2>2, <2>4 DEF MayComplete, CompletedRival, MarkCompleted, Outcome, TypeOK
    <3>2. \A p \in Orders : p # e[1] => status'[p] = status[p]
      BY <2>4 DEF MarkCompleted, TypeOK
    <3>3. \A p \in Orders : p # e[1] => Outcome(p)' = Outcome(p)
      BY <2>1, <2>3, <3>2, SameOutcome
    <3>4. ~Promise!Granted(e[1])
      BY <2>2, <2>4, <1>b DEF MayComplete
    <3>5. QED
      BY <2>2, <3>1, <3>3, <3>4, <1>a, OneMoves DEF Promise!Grant
  <2>5. CASE status' = status
    BY <2>1, <2>2, <2>3, <2>5, <1>a, SameOutcome, NoneMoves
  <2>6. QED
    BY <1>5, <2>4, <2>5 DEF CompletePurchase
<1>6. ASSUME NEW e \in Events, Answer(e)
      PROVE  Promise!Refuse(e[1]) \/ Promise!Lose(e[1]) \/ UNCHANGED Promise!vars
  <2>1. UNCHANGED <<captured, status, unfulfilled>>
    BY <1>6 DEF Answer, buying, table, ghosts
  <2>2. due' = due \/ due' = due \ {e}
    BY <1>6 DEF Answer
  <2>3. e[1] \in Orders /\ e[2] \in Notices /\ <<e[1], e[2]>> \in due /\ e[1] \in captured
    BY <1>6, EventOrder DEF Answer, Step, PaymentInv
  <2>4. \A p \in Orders : p # e[1] => Outcome(p)' = Outcome(p)
    <3>1. \A p \in Orders : p # e[1] => \A n \in Notices : <<p, n>> \in due' <=> <<p, n>> \in due
      BY <2>2, EventOrder
    <3>2. QED
      BY <2>1, <3>1, SameOutcome
  <2>5. CASE status[e[1]] = "completed" \/ \E n \in Notices : <<e[1], n>> \in due'
    <3>1. Outcome(e[1])' = Outcome(e[1])
      BY <2>1, <2>2, <2>3, <2>5 DEF Outcome
    <3>2. QED
      BY <2>4, <3>1, <1>a, NoneMoves
  <2>6. CASE status[e[1]] # "completed" /\ ~\E n \in Notices : <<e[1], n>> \in due'
    <3>1. Outcome(e[1]) = "paid"
      BY <2>3, <2>6 DEF Outcome
    <3>2. CASE e[1] \in unfulfilled
      <4>1. Outcome(e[1])' = "lost"
        BY <2>1, <2>3, <2>6, <3>2 DEF Outcome
      <4>2. QED
        BY <2>3, <2>4, <3>1, <4>1, <1>a, OneMoves DEF Promise!Lose
    <3>3. CASE e[1] \notin unfulfilled
      <4>1. Outcome(e[1])' = "duplicate"
        BY <2>1, <2>3, <2>6, <3>3 DEF Outcome
      <4>2. Promise!Granted(e[1])
        BY <1>6, <2>3, <3>3, <1>b DEF Answer, Step, SettleInv, Settled
      <4>3. QED
        BY <2>3, <2>4, <3>1, <4>1, <4>2, <1>a, OneMoves DEF Promise!Refuse
    <3>4. QED
      BY <3>2, <3>3
  <2>7. QED
    BY <2>5, <2>6
<1>7. ASSUME NEW t \in Tasks, WorkerStep(t) PROVE UNCHANGED Promise!vars
  <2>1. UNCHANGED <<captured, status, due, unfulfilled>>
    BY <1>7 DEF WorkerStep, Take, Load, ActivateAccess, HandleError, Ack, buying, paying, table,
                ghosts
  <2>2. QED
    BY <2>1, <1>a, SameOutcome, NoneMoves
<1>8. CASE Crash \/ Outside \/ UNCHANGED vars
  <2>1. UNCHANGED <<captured, status, due, unfulfilled>>
    BY <1>8
    DEF Crash, Outside, ChannelCloses, EditValidity, Tick, vars, buying, paying, table, ghosts
  <2>2. QED
    BY <2>1, <1>a, SameOutcome, NoneMoves
<1>9. QED
  BY <1>1, <1>2, <1>3, <1>4, <1>5, <1>6, <1>7, <1>8, EventOrder
  DEF Next, Outside, WebhookStep, Promise!Next

\* The payment code implements Enrollment: no order is granted unpaid, none twice
\* for the same buyer and item, and a refusal is of a duplicate.
THEOREM ImplementsPromise == Spec => KeepsPromise
<1>1. Init => TypeOK /\ PaymentInv /\ CompletionInv /\ SettleInv
  BY InitInv DEF IInv
<1>2. TypeOK /\ PaymentInv /\ CompletionInv /\ SettleInv /\ [Next]_vars
        => /\ (TypeOK /\ PaymentInv /\ CompletionInv /\ SettleInv)'
           /\ [Promise!Next]_Promise!vars
  BY NextType, NextPayment, NextCompletion, NextSettle, NextPromise
<1>3. QED
  BY <1>1, <1>2, InitPromise, PTL DEF Spec, KeepsPromise, Promise!Spec
=============================================================================
