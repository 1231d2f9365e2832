# Upraizo: verification models

TLA+ modules, TLC configurations and TLAPS proofs for the Upraizo server (Go,
`src/server`), which sells courses and ebooks: a Fiber HTTP API over PostgreSQL,
Redis, RabbitMQ, Cloudflare R2 and Razorpay.

## The system

| component | state | operations | interacts through |
|---|---|---|---|
| Payments (`handlers/payment/purchase.go`, `repository/purchase.go`, migration 007) | table `purchases` | CreateOrder, Webhook | Razorpay notices; publishes a task for the worker |
| Purchase worker (`queue/purchase_worker.go`, `queue/manager.go`) | RabbitMQ purchase queue | process, handleError | reads and writes `purchases` |
| User sessions (`services/auth/session.go`, `redis/session.go`, `middleware/auth.go`) | Redis `session:*`, `user_sessions:*` | refresh, logout, logout of all, listing, AuthRequired | Redis commands of concurrent requests |
| Accounts (`services/auth/account.go`, `google.go`, `password.go`, `redis/tokens.go`, `services/admin/user_mgmt_service.go`) | table `users`, Redis mailed tokens | register, verify, login, reset, change, ban | sessions; email queue |
| Image workers (`queue/avatar_worker.go`, `queue/course_thumbnail_worker.go`, `services/user`) | temporary files, R2 objects, URLs in rows | upload, process, retry | RabbitMQ, `users`, `courses` |
| Broker connection (`broker/rabbitmq.go`) | one connection and one channel for everything | connect, reconnect | every publisher and consumer |
| Email (`services/email`) | RabbitMQ `email_queue`, goroutines that wait | enqueue, consume, retry | broker, Amazon SES |
| Catalog (`services/course`, `services/ebook`, their repositories) | `courses`, `modules`, `lessons`, attachments, `ebooks`, R2 objects | create, update, publish, soft and permanent delete | foreign keys from `purchases`; R2 |
| Support tickets (`services/support`) | `tickets`, `ticket_messages` | open, reply, set the status, delete | users and admins |
| Admin authentication (`services/auth/admin_auth_service.go`, `redis/admin_*.go`) | Redis admin sessions and mailed reset links, `admins` | login (password and secret key), refresh, list, revoke, reset of either credential | Redis commands of concurrent requests; email queue |
| Rate limiter (`middleware/rate_limit.go`) | Redis counters | count a request | every route |
| Platform statistics (migration 011) | one counter row, which nothing reads | triggers | `users` |

What is hard in it: no request holds a transaction or a lock across its steps,
so every check and the write it guards are apart; RabbitMQ delivers at least
once and retries are copies published by the worker itself; Razorpay sends two
notices per payment and repeats them; Redis pipelines are not transactions;
errors after the first write are mostly logged and dropped.

What makes each part correct: a payment is granted once, a completed purchase is
activated, access only grows (payments, worker); a revoked or banned session is
dead and every living session can be found and revoked (sessions, accounts); a
row never points to a missing object, and no object is left without a row
(images, catalog); every message is handled or counted as failed (broker,
email); no reply of a user is left in a ticket that nobody will look at
(tickets); after a reset no session of the old credentials lives on, and a link
and a session are used once (admins); at most Max requests pass in a window
(limiter).

## Plan

1. `Enrollment`, `Purchases`, `PurchasesProofs` - the money. Done.
2. `Sessions`, `SessionsProofs` - who is let in. Done.
3. `Images`, `ImagesProofs` - avatar and thumbnail tasks over temporary files,
   R2 and rows. Done.
4. `Broker`, `Email`, `Outbox`, `EmailProofs` - connection, channel and watcher, composed
   with the email consumer, whose retries outlive their acknowledgement. Done.
5. `Catalog`, `CatalogProofs` - creation, edits, uploads and deletion against
   foreign keys and R2. Done.
6. `AdminAuth`, `AdminAuthProofs` - credentials, links, sessions. Done.
7. `Tickets`, `TicketsProofs` - statements without a transaction. Done.

The rate limiter and the statistics were planned and dropped (Not modelled).

The abstract specifications are `Enrollment`, which `Purchases` implements, and
`Outbox`, which `Email` implements. The other components promise relations
between their own rows, keys and objects, which are stated as invariants.

## Modules

### Enrollment - what the payment component promises

An order is open, paid, and then settled once: granted, a duplicate of a grant,
or lost. No buyer is granted an item twice. It knows nothing of handlers or
tasks.

### Purchases - orders, webhook, worker

One action per step between two accesses to shared state. `CheckOrder` and
`PlaceOrder` are CreateOrder; `Lookup`, `CheckActive`, `CompletePurchase`,
`Publish`, `Answer` are Webhook, one instance per notice, so the two notices of
a payment (`payment.captured`, `order.paid`) interleave; `Take`, `Load`,
`ActivateAccess`, `HandleError`, `Ack` are the worker. `status` and `until` are
the columns of `purchases`; `MayComplete` is the WHERE clause of the UPDATE
together with the two partial unique indexes, which PostgreSQL checks in the
same statement. `queue` counts the copies of each task, so that order does not
matter (RabbitMQ puts a redelivered task back in front). `due` holds the notices
Razorpay has not had a 200 for; it repeats them.

Every database or broker call can fail (`Fault`), with the write done or not,
and the model does what the code does then: drops the error (`CheckOrder`,
`CheckActive`), answers 200 (`CompletePurchase`, `Publish`), answers 500
(`Lookup`), publishes a copy (`HandleError`). `Crash` stops the process between
any two steps. Days are counted in `now`; a course's access runs out, an
ebook's does not.

The days of a course are not a constant: `EditValidity` is what
`CourseService.Update` does to `validity_days` (of the values `Terms`), at any
time. CreateOrder reads them into `term` in one step and inserts the row with them
in another; the worker reads them afresh into `days` (`Load`) and writes the window
with those (`WriteWindow`). So an edit between the order and the activation, between
the worker's read and its write, or before a redelivery, changes the window: days
that were lowered move `valid_until` back. That is what the code does; `lowered`
marks the courses it was done to, and `AccessNeverShrinks` says that nothing else
does it.

`ChannelCloses` closes the worker's delivery channel: the broker takes the task at
work back (`Redelivered`), the goroutine finishes with it and returns (`Take` needs
`consuming`), and although the publisher reconnects nothing consumes until the
process is started again. `PurchaseActivates` is therefore claimed only of behaviours
in which the worker consumes from some day on (`<>[]consuming`); in the others a
completed purchase waits in the queue for the next restart, with the window that
CreateOrder wrote, and `NoTaskForgotten` says that it does wait there.

`published`, `activated`, `unfulfilled`, `orphaned` and `lowered` record what
happened and are read by properties only.

Left out: prices, signatures (a notice is authentic), payloads, the events other
than the two, malformed tasks (the queue holds what Publish put there), the
five-second pause before a retry. Requests for free and for unknown items are
refused without a trace.

### Sessions - accounts, mailed links, Redis sessions

A request is a `call` with one action per Redis command or database statement:
StoreSession is `SetSession` and `AddSession`, RevokeAllSessions is
`ReadMembers`, `DeleteMembers`, `DropIndex`, GetActiveSessions is
`ListSessions`, `ReadListed`, `PruneIndex`, VerifyEmail is `ReadLink`,
`BurnLink`, `ReadUnverified`, `Promote` and the issue of a session. `live` is
the set of `session:<jti>` keys, `index` the `user_sessions:<id>` sets, `links`
the mailed tokens, `account`, `verified` and `google` the columns of `users`.
`claims` is the account status inside the tokens, which AuthRequired looks at
(`Admitted`). The deletion of one session and of its set entry, pipelined, is
one step, because a dead id in the set is what an expiry leaves too; it may fail
half-way.

A request that is refused changes nothing and has no action. `Abort` stops a
call at any point: a Redis or database error that the handler returns, or the
death of the process. Where the code goes on after an error (`TryRevoke`,
`BurnLink`) the action has both outcomes. `late`, `lost` and `botched` record
the known exceptions of the properties: sessions whose issue ran across a
revocation, sessions a revocation dropped from the set unread, users whose ban
failed half-way.

Left out: passwords, profile data, the age of the access token (a session counts
as admitted while it lives, which is the worst case), the replay branch of
RefreshTokens, which compares the token with the one stored under the token's
own JTI and is never taken. A fresh link is one nobody holds.

### Images - avatars and course thumbnails

A request saves the picture (`SaveFile`), reads the URL to be replaced
(`ReadOld`) and publishes a task (`PublishTask`). One goroutine per kind works
on its queue: `OpenFile` (with resizing and encoding), `PutObject`, `ReadRow`
(avatars only), `WriteRow`, `DeleteOld`, `HandleError`, `Ack` and the deferred
`RemoveFile`. `EditRead` and `EditWrite` are UpdateProfile and
CourseService.Update, which write the URL they read back with the other columns;
`text` stands for those. `files`, `objects` and `image` are the temporary
files, the bucket and the URL columns; `queue` counts copies as in `Purchases`.

A URL is an owner and a second, as in the object's name; a second is also in the
name of a thumbnail's temporary file. No URL and one outside the bucket (a
Google avatar, an admin's link) are the same `None`: the code deletes neither. A
picture that cannot be decoded is a fault of its task. A request that fails
leaves its file behind (`leaked`). `doubtful`, `spoiled` and `overtaken` record
the known exceptions of the properties; what the code gets wrong is in them:

- a failed row write still deletes the old picture,
- an edit writes back a picture the worker has replaced and deleted,
- two uploads in one second have the same object name,
- a profile edit made while the worker has the row is undone,
- a retry never finds its file (`RetriesFindNoFile` states it positively).

Left out: UpdateAvatarSync, which has no caller; the loss of the broker's
connection, after which the workers stop until a restart, as the purchase worker and
the email consumer do (Purchases, Email).

### Broker and Email - connection, publishers, consumer

`Broker` is the one goroutine that connects or watches: `Dial`, `DialAgain`,
`OpenChannel`, `GiveUp`, `NoChannel` are connectWithRetry, `Listen`,
`ListenTooLate`, `NoticeDrop` watchConnectionDrops, whose sleep ends in
`Connect`. `Conn` and `Channel` are the globals, a channel is named by its
connection, 0 is nil; `up` are the connections that are open. Its steps are not a
specification of their own: `Email` EXTENDS it and makes them steps of the whole
process, next to drops, restarts of RabbitMQ, crashes and Close, which end
connections, deliveries and goroutines at once.

`Email` adds a message per email (`mail`, with its place in RabbitMQ, its
RetryCount and whether it is persistent), the consumer (`work`, on the channel
`sub` of the first connection) and the goroutines that hold a copy (`timers`).
`PublishToQueue`, `PublishVanishes`, `PublishFails`, `PublishPanics` are what
becomes of a publish on an open channel, on one that breaks under it, on a closed
and on a nil one; `Take`, `SendSucceeds`, `SendRejected`, `SendFails`, `Settle`,
`Republish` are the consumer and its retries. What the model shows of the code:

- consumers are never subscribed again: after a drop the queue fills until the
  process is restarted (`Settles` excepts a closed `sub`);
- a drop between connectWithRetry's return and NotifyClose is never noticed
  (`unseen`), and a reconnection that opens no channel leaves nil behind, on which
  the next publishing goroutine panics (`PublishPanics`);
- a retry is acknowledged before its copy exists, and the copy is not persistent
  (`lost`).

Left out: the contents of emails, malformed messages (nobody publishes one), the
length of the pauses; but that a goroutine publishes its copy after the
acknowledgement, which the code's pause of seconds arranges, is a guard of
`Republish`. RabbitMQ's notice of a drop is instantaneous.

`Outbox` is what mailing promises: emails that are held, told by the records of
what SES did (`sent`, `again`, `failed`, `given`), and nothing of queue,
goroutines or consumer. Only a held email is mailed; it is let go of once it was
mailed, given up or failed; an email that was let go of is never held, so never
mailed, again. `Email` maps `held` to the emails that RabbitMQ, a goroutine or
the consumer has (`Held`): taking an email, copying it and publishing the copy
again are then no steps of the outbox, and settling, dropping a copy, a restart
of RabbitMQ and a crash are all one, `LetGo`.

### Catalog - rows and objects

Every handler that writes: a `request` takes one step per call to the database or
the bucket, and `pc` names the next. `rows`, `row`, `video`, `attached` are the
tables, `objects` the bucket. `EditRow` and `WriteColumns` are the updates that
read a row and write all of it back; `UploadVideo` to `WriteVideo`, with
`GetVideoUploadURL`, `ClientPut` and `CompleteVideoUpload` for videos that the
browser uploads itself; `AddAttachment`, `InsertAttachment`, `DeleteAttachment`,
`DetachRow`; `UploadEbook`, `ReadEbook`; and the deletions, `PermanentDelete`,
`DeleteLesson`, `DeleteEbook`, which share `Purge`, `List` and `DeleteRow`.
`Remove` is ON DELETE CASCADE, `bought` stands for the purchases whose foreign
keys refuse a deletion. A column's value is the request that asked for it, so
that an update that is undone shows.

`QueueThumbnailUpdate`, `Put`, `SetThumbnail` and `Purge` are a new picture of a
course: what it replaces is read when it is queued and deleted at the end, even if
the row could not be written. Its queue, retries and temporary file are the matter of
`Images`; here it is one more request that may meet edits, deletions and other
pictures. `LinkPicture` is an edit with `thumbnail_url`, which replaces an uploaded
picture by a URL of another site and deletes nothing.

`CompleteVideoUpload` takes whatever key the client sends. `Given` are the keys that
can make a difference: those given out with an upload URL or by a direct upload, put
or not, completed before or not, for this lesson or another, and those of any other
object. (A key that nobody gave out and no object has behaves like one given out and
never put.) `IsPut` is the use that is meant: the client's own video for this lesson.
`InsertAttachment` has three outcomes: the row; no row and an error, or a refusal,
after which the object goes; and the row together with an error (the write context
ends after five seconds), after which the object goes, too, and the row stays.

What the code gets wrong is in the marks, which are set in the step that does it and
which are the only exceptions of the properties:

- `condemned`: a deletion that has begun, and may be refused or stop half-way after
  objects went (ebooks are deleted from the bucket before a purchase refuses the row);
  and attachments inserted with an error reported;
- `shared`: an attachment of a name that is already there or under way, whose
  refusal takes the first one's object;
- `doubtful`: lessons with a video completed twice, or with another's file, and the
  owner of that file; courses whose picture was changed while an edit had the row in
  hand, or whose change failed;
- `untidy`: products with an object nothing will remove: requests that overlapped,
  faults, modules deleted with lessons, ebook files under a new name, pictures
  replaced by a URL, videos completed with another's file;
- `lateOrder`, `raced`: an order, or a write, in between.

Left out: slugs and positions that unique indexes refuse, read-only endpoints,
file contents, a `thumbnail_url` that is one of the bucket's own, a second PUT to one
upload URL.

### AdminAuth - credentials, links, sessions of administrators

As `Sessions`, for the separate code of the administrators: one action per Redis
command or database statement of a `call`. Login takes password and secret key in
one request; `GetAdminID`, `BurnLink`, `Reset`, `ReadMembers`, `DeleteMembers`,
`DropIndex` are the reset of either credential by its mailed link and
RevokeAllSessions; `RefreshTokens`, `GetByID`, `Rotate`, `StoreSession`,
`Register` the rotation. `password` and `secret` count the changes; `origin` and
`line` remember which credentials a session goes back to and by which refreshes.
`late`, `stray`, `forked`, `rushed`, `botched` mark the overlaps and failures the
properties except.

Left out: the profile (a statement nothing depends on), SetActiveStatus (no
caller), the branch "Replay attack" of RefreshTokens: it compares the token with
the one stored under the token's own id, which is drawn anew for every pair, so
it is never taken. Requests that are refused have no action.

### Tickets - support

A reply is three statements: `GetByID`, `UserReply` or `AdminReply`, `MarkOpen`
or `MarkInProgress`; opening is two, `Create` and `FirstMessage`. `talk` is the
conversation, by sender. `FirstRefused` is an empty first message, which passes
the handler and is refused by the table: the ticket stays without a message.
`crossed`, `decided`, `unmarked`, `halved` are the exceptions. Left out: the
texts, lists, requests refused for their sender.

## Runs

| run | question | result |
|---|---|---|
| `purchases_safety` | do webhook and worker keep `Enrollment`, lose no task, publish once, take access away only with the course's days? | holds; 1.1 million states |
| `purchases_liveness` | is a captured payment settled, and a completed purchase activated if the worker keeps consuming? | holds under fairness; 70 thousand states |
| `purchases_renewal` | is an order that is refused, not completed already, always a duplicate? | violated: a renewal after expiry |
| `purchases_redelivery` | does the window stay where the activation put it? | violated: a redelivery moves it |
| `sessions_safety` | are session keys and sets consistent, is a banned user outside? | holds; 1.1 million states |
| `sessions_verify` | do blocked users get no tokens? | violated: VerifyEmail |
| `sessions_link` | is a mailed link redeemed once? | violated: GET, then DEL |
| `images` | do rows, objects and temporary files stay consistent, is no upload forgotten, does each task end? | holds, under fairness for the end; 290 thousand states |
| `catalog` | do rows and objects stay in step, do edits survive, do sold courses keep their files? | holds but for the marks; 351 thousand states |
| `admin_auth` | do old credentials go out, does a revocation reach every session, are sessions and links used once? | holds but for the marks; 463 thousand states |
| `email_delivery` | is an email lost or doubled only where a recorded fault struck (`Outbox` kept), are publishers reconnected, does the queue empty? | holds, under fairness for the last two |
| `tickets` | is no reply overlooked, no message without a ticket, no closed ticket taken up unasked? | holds but for the marks |

Bounds. `purchases_safety` has one buyer, a course and an ebook and two orders,
which may ask for the same item or not: duplicates, renewals and rivals need two
orders, and buyers share nothing but the queue. Two notices per order give the
concurrent webhook, of which two calls run at a time (`TwoCalls`). One fault (an
error, or the closing of the channel), one crash, one edit, one retry and one day make
each kind of failure meet each step; a behaviour has at most two of fault, crash
and edit, and not fault and edit (`TwoTroubles`): a redelivery with other days needs
an edit and a crash; a retry copy with other days, a fault and an edit, is left
to the proof. An edit makes the days of a course more or fewer; a course that
starts with two days has no fault or crash before it is edited (`EditedFirst`). `purchases_liveness` has two faults, since a retry
that ends needs one for the activation and one more; its course has one term, because
no liveness property looks at the window. `purchases_renewal` has no fault and no
crash, one order open at a time (`OneOrderOpen`) and two days, so that what it finds
is a renewal and not a race: one order is completed and expires, the second is
made, paid, looked up, passes the double check, and is refused. `sessions_safety` has one
user (users share no key and no row), two sessions (one to be revoked while the
other is issued, or refreshed into), one verification and one reset link and two
calls, because every hazard here is a race of two requests; the third party of
some (an expiry, a logout) needs no call. One fault. `images` has two uploads and
an edit of one row, a user's or a course's (the constraint `OneRow`: rows share
nothing but the broker, and it only restricts requests, never the workers, so
that it hides no unfair behaviour), two different seconds, one retry, one fault
and one crash: every race here is of two uploads or of an upload and an edit.

`catalog` has a course with a module and two lessons, so that a video can be completed
with the other's file, and an ebook, of which a run's requests are all about one
(`OneProduct`), two file names, a fault and three requests: an upload, its replacement
and a deletion or repetition need three. With both lessons two of the three are at
work at a time and nobody orders (`TwoLessons`). Two products share no row and no
object but through a video completed with a file of the other, which the proofs
cover. `admin_auth` has one
admin (admins share no key and no row), three sessions (one refreshed twice makes
three), two calls, a link of either kind of which one is used (`OneLink`: the two
kinds run through the same code), a fault; three sessions, a link and a fault at
once are left out (`Few`). Constraints cut off states only, and both runs check
safety only. `email_delivery` has two emails, which share the consumer, two
copies of each and two dials (three and five in the code: the count matters only
at its end), and two faults, so that a fault can strike the recovery from
another. `tickets` has one ticket, three requests, four messages and a fault: two
users' and admins' replies and a third party that closes or deletes. Calls,
sessions, requests, names and tickets are interchangeable, and the safety runs use
that symmetry.

No system stops by itself in a way that would matter; deadlock is not checked,
because a bounded run does stop when its orders, sessions, time and faults are
used up.

Fairness (`FairSpec`). Razorpay repeats a notice until it gets a 200, and a
request in the handler runs on, so each notice's webhook step is weakly fair.
The worker goroutine runs while messages wait, and it is alone, so each task's
step is weakly fair; two tasks do not starve each other within the bounds,
because a task leaves the queue for good after its retries. Fairness of `Take` says
nothing once the channel is closed: `Take` is disabled then, and nothing makes a
crash and restart happen. The same fairness holds of the
two image workers, as long as their connection lasts. Nothing is assumed of
buyers, faults, crashes or time.

In `Email` (`FairSpec`) the process is started again when it ends, as
docker-compose's `restart: always` has it (WF of `Connect`); a dial that is tried
again and again succeeds at some time (SF of `Dial`: RabbitMQ may be unreachable
for long, not for ever); the consumer, SES's answer, and the goroutines that
connect or hold a copy run on (WF of their steps). Nothing is assumed of drops,
crashes and requests.

## Findings

- A course bought again after it expired is paid and never completed: the checks
  skip expired purchases, the unique indexes do not (`purchases_renewal`).
- A redelivered activation moves the access window (`purchases_redelivery`).
- A mailed verification link lifts a suspension and issues tokens
  (`sessions_verify`).
- Two requests can redeem one mailed token (`sessions_link`).

## Proofs

`PurchasesProofs` proves, for any sets of users, items, orders, notices and
terms, any edits of the terms, and any bounds:

- `TypeCorrect`: TypeOK is an invariant.
- `TasksCompleted`, `PublishedAtMostOnce`, `NothingForgotten`, `AccessOnlyGrows`:
  the safety properties of `purchases_safety`; the last one for every edit of the
  days, but of courses whose days were lowered.
- `ImplementsPromise`: `Purchases` implements `Enrollment` under the mapping
  `Outcome`.

Assumed are the four ASSUMEs of `Purchases` only: courses and ebooks are
distinct, there is a notice, terms are positive (`validate:"gt=0"`, and a CHECK in
migration 002), bounds are naturals.

The inductive invariant `IInv` strengthens the properties with what they rest
on: `PaymentInv` (a webhook runs only for a notice that is due, notices are due
only for captured payments, only returned orders are captured, only captured ones
completed), `CompletionInv` (whatever is being published, queued or at the worker
belongs to a completed row), `SettleInv` (a webhook answers only once the order
is settled - completed, beaten by a completed rival, or recorded as unfulfilled -
and a captured order that is not settled has a notice due: without it a refusal
in `Enrollment` has no grant to justify it), `PublishInv` (at most one webhook is
about to publish for an order, and only while nothing was published),
`WorkInv` (one task is at work, and when the channel is closed the queue has it, too),
`WindowInv` (of a course whose days were not lowered, the window and the days
CreateOrder has read end at most `validity_days` from now, and the window of the task
at work at most the `days` the worker has read from now, so that writing it anew can
only move it on) and `NoTaskForgotten`. Each part has a lemma
of its own over the steps of Next.

`SessionsProofs` proves, for any sets of users, sessions, links and calls, any
owners and any number of faults:

- `TypeCorrect`: TypeOK is an invariant.
- `RevokedStayDead`, `SessionsIndexed`, `BansHold`: the safety properties of
  `sessions_safety` (NoResurrection, IndexedUnlessLost, BannedIsOut).

Assumed are the ASSUMEs of `Sessions`: a session and a link have an owner, and
the kinds of links are disjoint. The invariant is built in three layers, each
proved from the ones before. `KeyInv`: a call under way has a user, and the
session it refreshes or issues is that user's. `IndexInv` adds to the two key
properties that only minted sessions are anywhere (`KnownInv`) and that a session
about to be stored is known to nobody but its one call (`PendingInv`): without
it, storing could revive a session that a listing has found dead. Most steps only
remove keys (`Calm`), so that the invariant is proved for them once and then for
the two commands of StoreSession. `BanInv`: as long as a user is blocked, every
usable session of theirs has a revocation ahead that will read the set or has
read this session, and every session on its way is late or has a revocation ahead
that has not read the set; no call starts issuing a session to a blocked user,
which is where CanLogin matters.

`ImagesProofs` proves, for any users, courses, uploads and edits and any numbers
of retries, seconds, faults and crashes, `TypeCorrect` and the five safety
properties of `images`: `PicturesExist` (NoDangling), `FilesHeld`
(FilesAccounted), `UploadsRemembered` (NoUploadForgotten), `RetriesFail`
(RetriesFindNoFile) and `EditsSurvive` (EditsKept).

Assumed are the ASSUMEs of `Images`: users are no courses, names of different
things differ, bounds are naturals. One lemma per step says what it does to the
records (`OpenMoved` to `CrashFacts`) and keeps the types and `JobInv`: a task
that waits or is at work belongs to a queued upload, and a worker's task to its
kind, so that the two workers are never at the same row. On top of it stand five
invariants, each kept on its own. `FileInv` is FilesAccounted. `ForgetInv`: as
long as nothing has gone wrong with an upload its file is on the disk
(`SpareInv`, which needs that uploads that share a file are marked, `ShareInv`),
hence a worker reaches its last steps only with the row written or a fault met
(`DoneInv`). `RetryInv`: when the first attempt is neither queued nor at work the
file is gone, has leaked or is shared. `TextInv`: the avatar worker about to
write has the newest name or was overtaken. `PictureInv`: names in the bucket
carry their row, a worker about to write has an existing object in hand, and one
about to delete has replaced what it deletes; so that what one worker deletes is
no row's picture and in no other worker's hand.

`EmailProofs` proves, for any emails and any bounds, `TypeCorrect` and the three
safety properties of `email_delivery`: `AccountedCorrect`, `SentCorrect`,
`CopyCorrect`. `ChannelInv` says which connections can be open and that only the
current ones are; `AckInv` what the consumer has in hand, and that with its
channel open it is what RabbitMQ counts as delivered; `CopyInv` that goroutines
hold no two copies of an email, nor one beside RabbitMQ's but for the original
about to be acknowledged: without it two copies would each be sent. `FreshInv`:
before its publish nothing is known of an email. `CountInv`: every instance of an
email that may still be sent, but one, was paid for by a delivery broken off.
`LossInv`: copies are only made of what failed, and what is acknowledged was sent,
given up or copied. `ImplementsOutbox` proves that `Email` implements `Outbox`,
from this invariant and `HeldInv`: what the consumer is sending is in RabbitMQ or
failed before, since a restart of RabbitMQ may take a copy while it is being sent.
One lemma per kind of step finds the step of `Outbox` (`PublishMails`,
`SendMails`, `SettleMails`, `RepublishMails`, `DropLetsGo`, `EndLetsGo`) or finds
that it is not seen (`TakeMails`).

`AdminAuthProofs` proves, for any admins, sessions, links, calls and faults,
`TypeCorrect` and the four properties of `admin_auth`: `OldCredentialsCorrect`,
`ReachableCorrect`, `SuccessorCorrect`, `SingleUseCorrect`. One lemma per action
says what it does (`LoginFacts` to `FailFacts`); six invariants are built on them,
each from those before. `Typed`: a call under way has an admin and what it is
about. `LinkInv`: an unmarked link is in one call's hand, and is gone once that
has deleted it. `IdentInv`: a session about to be stored belongs to one call and
is known to nobody else. `ReachInv`: Reachable, and while sessions are being
revoked those on their way are late and those that live were read; without it a
revocation's DEL of the whole set would drop sessions from it. `SuccInv`: two
sessions issued are on one line or fork at a marked one, because whatever has a
successor is dead, marked or being refreshed (`Retired`), and what is being
refreshed has that one successor (`Refreshed`, `Childless`). `OldInv`: an old
session is owed a revocation that has yet to read the set, or one that has read
it with this session; one on its way is owed the former.

`TicketsProofs` proves, for any tickets, calls and bounds, `TypeCorrect`,
`ReplyCorrect` (NoReplyOverlooked), `WholeCorrect` and `DoneCorrect`
(DoneStaysDone). `KnownInv`: a ticket is opened once, and no call is about an
unknown one. `MarkInv`: an admin's call about to mark has answered a ticket it
read open, and a user's last message after that answer is crossed. `EmptyInv`:
before the first message only a request changes the status.

`CatalogProofs` proves, for any tree of courses, modules and lessons, any ebooks,
file names, requests and faults, `TypeCorrect`, `SoldCorrect` (SoldCoursesIntact),
`RowsCorrect` (RowsKept), `NoDanglingCorrect` and `InStepCorrect`. Assumed are the ASSUMEs of
`Catalog`: a lesson has a module and a module a course, ids and keys of different
kinds differ, the bound is a natural. Again one lemma per action says what it does
(`EditRowFacts` to `FailFacts`). `Typed`: what a request is about at each step, and
that whoever writes a video's key is the upload's own request, completes one a
client has finished, or completes another's file with both lessons marked (`Astray`). `Kept`: rows that do not exist say nothing (`Unwritten`),
columns name only what is theirs (`RowsOwn`), and a request about to write a row
that nobody else wrote has it as it is (`ReadBack`). `Served` is NoDangling and
what it rests on: a video's key is put to use by one request or its lesson is
doubtful (`VideoOnce`), and a lesson's video was written for that lesson or both are
marked (`VideoOf`, `VideoWritten`); an attachment's name
is used by one request at a time, shared, or taken for a video (`OneName`, `Mixed`);
and each request is
`Well`: there is a reason why everything it is to delete may go - the row no
longer names it, or is being deleted - and what it is about to name exists. For
pictures the reason is `Dropped` (neither the row nor an edit that has it in hand
names it) and `NewPicture` (nobody else knows of a picture before the row does).
A request that is Well stays so while others step (`OthersWell`), because the
marks, the deletions of items begun and the videos written only grow (`Forward`), the
one that steps touches no more than its own (`Steady`), and a picture gets from
one hand to another only by way of the row (`Spreads`). `Tidy` is what InStep
needs, for products that are not marked untidy: one request at most is at work on
a product (`OneAtATime`); each object is named by a row, or waits for its client,
or is held by that request, which will name or delete it (`Accounted`); and the
request is `Clean`: what its next step will make the rows forget it has in hand
to name again or has deleted already. Without the last, a deletion about to
remove its row could leave objects behind that the row still named. Here the
steps are about one product each, a tidy product's objects are in no other product's
hands (completing with another's file marks both untidy), and `TidyBy` says that nothing changes for the
others (`Apart`), so that a step is proved for its own request alone (`MoveTidy`).

Only model-checked: the liveness properties (temporal reasoning under fairness and
ENABLED are beyond the prover), and the runs that end in a violation, which refute a claim and have nothing to prove. There are no
RECURSIVE definitions and nothing is proved by induction over data.

## Not modelled

The rate limiter: a fixed window counted by one atomic script inside Redis, under
a key for each slot of time. No other component reads or writes it, a request
makes one call, and every error lets the request pass, so there is nothing to
interleave. (The script's hash is loaded once; after a restart of Redis the
limiter lets everything pass until the process is restarted. That is one branch,
read off the code.) The platform statistics: triggers that keep counts within
each statement's transaction, of a table nothing reads; StatsRepository counts the
users themselves. Profile updates and passwords of users: single statements no
other part depends on. Dashboards and lists (read only), configuration, logging,
validation, DTOs and routes (no state of their own), migrations beyond the
constraints the models use, Docker and scripts.
