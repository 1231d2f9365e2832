-------------------------------- MODULE Email ---------------------------------
(***************************************************************************)
(* Mailed links by way of RabbitMQ: requests publish to email_queue over   *)
(* broker.Channel, one consumer takes an email at a time from a channel of *)
(* its own, gives it to SES and, when SES fails, leaves a goroutine behind *)
(* that publishes a copy after a pause.                                    *)
(*                                                                         *)
(* The consumer is started once, on the connection of start-up.  After a   *)
(* drop Broker connects again, for publishers only: the consumer's channel *)
(* stays closed until the process is restarted.                            *)
(***************************************************************************)
EXTENDS Broker, FiniteSets

CONSTANTS
  Emails,
  MaxTries,     \* copies of an email that SES fails to take: 3 in the code
  MaxFaults,    \* bound of a run
  None

ASSUME TriesAssumption == MaxTries \in Nat
ASSUME NoneAssumption  == None \notin Emails
ASSUME FaultAssumption == MaxFaults \in Nat

VARIABLES
  sub,       \* the connection of the consumer's channel
  stage,     \* stage[e]: "new", and what the request made of it
  mail,      \* mail[e]: the message in RabbitMQ
  work,      \* what the consumer is at
  timers,    \* the goroutines that wait to publish a copy
  \* What happened:
  sent,      \* sent[e]: times SES took it
  again,     \* again[e]: deliveries broken off, and sends SES took but denied
  failed,    \* emails SES failed to take
  given,     \* emails rejected or given up
  lost,      \* emails lost after a failure of SES
  unsure,    \* emails lost after the publisher was told they were queued
  faults

history == <<sent, again, failed, given, lost, unsure>>
queue   == <<stage, mail>>
process == <<sub, work, timers>>
vars    == <<broker, process, queue, history, faults>>

Message  == [at : {"none", "ready", "unacked"}, tries : 0 .. MaxTries, kept : BOOLEAN]
Delivery == [pc : {"idle", "send", "ack"}, email : Emails \cup {None}, tries : 0 .. MaxTries]

NoMessage == [at |-> "none", tries |-> 0, kept |-> FALSE]
NoWork    == [pc |-> "idle", email |-> None, tries |-> 0]

TypeOK ==
  /\ BrokerTypeOK
  /\ sub \in Nat
  /\ stage \in [Emails -> {"new", "queued", "refused"}]
  /\ mail \in [Emails -> Message]
  /\ work \in Delivery
  /\ timers \subseteq Emails \X (1 .. MaxTries)
  /\ sent \in [Emails -> Nat]
  /\ again \in [Emails -> Nat]
  /\ failed \subseteq Emails
  /\ given \subseteq Emails
  /\ lost \subseteq Emails
  /\ unsure \subseteq Emails
  /\ faults \in Nat

Init ==
  /\ BrokerInit
  /\ sub = 0
  /\ stage = [e \in Emails |-> "new"]
  /\ mail = [e \in Emails |-> NoMessage]
  /\ work = NoWork
  /\ timers = {}
  /\ sent = [e \in Emails |-> 0]
  /\ again = [e \in Emails |-> 0]
  /\ failed = {}
  /\ given = {}
  /\ lost = {}
  /\ unsure = {}
  /\ faults = 0

NoFault == UNCHANGED faults
Fault   == faults < MaxFaults /\ faults' = faults + 1

InQueue(e) == mail[e].at # "none"
Pending(e) == \E t \in timers : t[1] = e

(***************************************************************************)
(* What a broken connection, a restart of RabbitMQ and a crash do          *)
(***************************************************************************)
\* RabbitMQ takes back what was delivered and not acknowledged.
Requeued == [e \in Emails |-> IF mail[e].at = "unacked" THEN [mail[e] EXCEPT !.at = "ready"]
                                                        ELSE mail[e]]
Repeated == [e \in Emails |-> IF mail[e].at = "unacked" THEN again[e] + 1 ELSE again[e]]

ConnectionDrops ==
  /\ Drop /\ Fault
  /\ mail' = Requeued
  /\ again' = Repeated
  /\ UNCHANGED <<process, stage, sent, failed, given, lost, unsure>>

\* A durable queue comes back with its persistent messages.
BrokerRestarts == LET gone == {e \in Emails : InQueue(e) /\ ~mail[e].kept} IN
  /\ Drop /\ Fault
  /\ mail' = [e \in Emails |-> IF e \in gone THEN NoMessage ELSE Requeued[e]]
  /\ lost' = lost \cup (gone \cap failed)
  /\ again' = Repeated
  /\ UNCHANGED <<process, stage, sent, failed, given, unsure>>

\* The goroutines go, with the emails they held.
ProcessEnds ==
  /\ Stop
  /\ sub' = 0
  /\ work' = NoWork
  /\ timers' = {}
  /\ mail' = Requeued
  /\ lost' = lost \cup {e \in Emails : Pending(e) /\ ~InQueue(e)}
  /\ again' = Repeated
  /\ UNCHANGED <<sent, failed, given, unsure>>

Crash == pc # "off" /\ ProcessEnds /\ Fault /\ UNCHANGED stage

\* Close, on a signal: the consumer and the goroutines are not waited for.
Close == CanClose /\ Crash

(***************************************************************************)
(* Publishing                                                              *)
(***************************************************************************)
\* The server listens once everything is started.
Serving == sub # 0

\* A mistake to check against: the message is not persistent.
PublishTransient(e) ==
  /\ Serving /\ stage[e] = "new" /\ Channel \in up
  /\ stage' = [stage EXCEPT ![e] = "queued"]
  /\ mail' = [mail EXCEPT ![e] = [at |-> "ready", tries |-> 0, kept |-> FALSE]]
  /\ UNCHANGED <<broker, process, history, faults>>

PublishToQueue(e) ==
  /\ Serving /\ stage[e] = "new" /\ Channel \in up
  /\ stage' = [stage EXCEPT ![e] = "queued"]
  /\ mail' = [mail EXCEPT ![e] = [at |-> "ready", tries |-> 0, kept |-> TRUE]]
  /\ UNCHANGED <<broker, process, history, faults>>

\* Publishing is not confirmed: it succeeds, and the connection takes the message
\* with it.
PublishVanishes(e) ==
  /\ Serving /\ stage[e] = "new" /\ Channel \in up
  /\ stage' = [stage EXCEPT ![e] = "queued"]
  /\ unsure' = unsure \cup {e}
  /\ Drop /\ Fault
  /\ mail' = Requeued
  /\ again' = Repeated
  /\ UNCHANGED <<process, sent, failed, given, lost>>

\* The channel is closed: the error is logged, the link never mailed.
PublishFails(e) ==
  /\ Serving /\ stage[e] = "new" /\ Channel # 0 /\ Channel \notin up
  /\ stage' = [stage EXCEPT ![e] = "refused"]
  /\ UNCHANGED <<broker, process, mail, history, faults>>

\* A nil channel: the panic is in a goroutine that nobody recovers.
PublishPanics(e) ==
  /\ Serving /\ stage[e] = "new" /\ Channel = 0
  /\ stage' = [stage EXCEPT ![e] = "refused"]
  /\ ProcessEnds
  /\ NoFault

(***************************************************************************)
(* The consumer                                                            *)
(***************************************************************************)
StartEmailConsumer ==
  /\ sub = 0 /\ ~Connecting /\ Channel \in up /\ Conn \in up
  /\ sub' = Conn
  /\ UNCHANGED <<broker, work, timers, queue, history, faults>>

\* DeclareQueue or Conn.Channel() fail, which is fatal.
StartFails ==
  /\ sub = 0 /\ ~Connecting /\ (Channel \notin up \/ Conn \notin up)
  /\ ProcessEnds
  /\ UNCHANGED <<stage, faults>>

\* A mistake to check against: RabbitMQ forgets what it delivers (auto-ack).
TakeAutoAck(e) ==
  /\ sub \in up /\ work.pc = "idle" /\ mail[e].at = "ready"
  /\ mail' = [mail EXCEPT ![e] = NoMessage]
  /\ work' = [pc |-> "send", email |-> e, tries |-> mail[e].tries]
  /\ UNCHANGED <<broker, sub, timers, stage, history, faults>>

\* Qos(1): one delivery at a time.
Take(e) ==
  /\ sub \in up /\ work.pc = "idle" /\ mail[e].at = "ready"
  /\ mail' = [mail EXCEPT ![e].at = "unacked"]
  /\ work' = [pc |-> "send", email |-> e, tries |-> mail[e].tries]
  /\ UNCHANGED <<broker, sub, timers, stage, history, faults>>

Sending(e) == work.pc = "send" /\ work.email = e

SendSucceeds(e) ==
  /\ Sending(e)
  /\ sent' = [sent EXCEPT ![e] = @ + 1]
  /\ work' = [work EXCEPT !.pc = "ack"]
  /\ UNCHANGED <<broker, sub, timers, queue, again, failed, given, lost, unsure, faults>>

\* ErrCodeMessageRejected.
SendRejected(e) ==
  /\ Sending(e)
  /\ given' = given \cup {e}
  /\ work' = [work EXCEPT !.pc = "ack"]
  /\ UNCHANGED <<broker, sub, timers, queue, sent, again, failed, lost, unsure, faults>>

\* A mistake to check against: one copy more.
ScheduleOneMore(e) ==
  IF work.tries <= MaxTries
  THEN timers' = timers \cup {<<e, work.tries + 1>>} /\ UNCHANGED given
  ELSE given' = given \cup {e} /\ UNCHANGED timers

\* The goroutine with the copy, or no further one.
Schedule(e) ==
  IF work.tries < MaxTries
  THEN timers' = timers \cup {<<e, work.tries + 1>>} /\ UNCHANGED given
  ELSE given' = given \cup {e} /\ UNCHANGED timers

\* Any other error; after a timeout SES may have sent the email nevertheless.
SendFails(e) ==
  /\ Sending(e)
  /\ \/ UNCHANGED <<sent, again>> /\ NoFault
     \/ /\ sent' = [sent EXCEPT ![e] = @ + 1]
        /\ again' = [again EXCEPT ![e] = @ + 1]
        /\ Fault
  /\ failed' = failed \cup {e}
  /\ Schedule(e)
  /\ work' = [work EXCEPT !.pc = "ack"]
  /\ UNCHANGED <<broker, sub, queue, lost, unsure>>

\* A mistake to check against: what SES did not take goes back to the queue, too.
SettleRequeue(e) ==
  /\ work.pc = "ack" /\ work.email = e
  /\ mail' = IF sub \notin up THEN mail
             ELSE [mail EXCEPT ![e] = IF e \in failed THEN [@ EXCEPT !.at = "ready"] ELSE NoMessage]
  /\ work' = NoWork
  /\ UNCHANGED <<broker, sub, timers, stage, history, faults>>

\* Ack, or Nack without requeue; on a closed channel their error is dropped.
Settle(e) ==
  /\ work.pc = "ack" /\ work.email = e
  /\ mail' = IF sub \in up THEN [mail EXCEPT ![e] = NoMessage] ELSE mail
  /\ work' = NoWork
  /\ UNCHANGED <<broker, sub, timers, stage, history, faults>>

\* A mistake to check against: the count of tries starts anew.
RepublishAnew(t) ==
  /\ t \in timers
  /\ work.pc = "ack" => work.email # t[1]
  /\ timers' = timers \ {t}
  /\ IF sub \in up
     THEN /\ mail' = [mail EXCEPT ![t[1]] = [at |-> "ready", tries |-> 0, kept |-> FALSE]]
          /\ UNCHANGED lost
     ELSE /\ lost' = IF InQueue(t[1]) THEN lost ELSE lost \cup {t[1]}
          /\ UNCHANGED mail
  /\ UNCHANGED <<broker, sub, work, stage, sent, again, failed, given, unsure, faults>>

\* The copy goes to the consumer's channel, open or not, and is not persistent.
Republish(t) ==
  /\ t \in timers
  /\ work.pc = "ack" => work.email # t[1]   \* seconds later
  /\ timers' = timers \ {t}
  /\ IF sub \in up
     THEN /\ mail' = [mail EXCEPT ![t[1]] = [at |-> "ready", tries |-> t[2], kept |-> FALSE]]
          /\ UNCHANGED lost
     ELSE /\ lost' = IF InQueue(t[1]) THEN lost ELSE lost \cup {t[1]}
          /\ UNCHANGED mail
  /\ UNCHANGED <<broker, sub, work, stage, sent, again, failed, given, unsure, faults>>

Next ==
  \/ (BrokerStep \/ GiveUp \/ NoChannel) /\ UNCHANGED <<process, queue, history, faults>>
  \/ ConnectionDrops \/ BrokerRestarts \/ Crash \/ Close
  \/ StartEmailConsumer \/ StartFails
  \/ \E e \in Emails :
       \/ PublishToQueue(e) \/ PublishVanishes(e) \/ PublishFails(e) \/ PublishPanics(e)
       \/ Take(e) \/ SendSucceeds(e) \/ SendRejected(e) \/ SendFails(e) \/ Settle(e)
  \/ \E t \in timers : Republish(t)

Spec == Init /\ [][Next]_vars

\* The process is restarted when it ends, RabbitMQ is reachable now and then
\* however often it is not, SES answers, and goroutines run.
Fairness ==
  /\ BrokerFairness
  /\ \A e \in Emails : WF_vars(Take(e))
  /\ \A e \in Emails : WF_vars(SendSucceeds(e) \/ SendRejected(e) \/ SendFails(e))
  /\ \A e \in Emails : WF_vars(Settle(e))
  /\ \A t \in Emails \X (1 .. MaxTries) : WF_vars(Republish(t))

FairSpec == Spec /\ Fairness

(***************************************************************************)
(* Properties                                                              *)
(***************************************************************************)
\* "So it survives a broker restart": an email the publisher was told is queued
\* waits somewhere, was sent, or was given up; it is lost only when the publish
\* was never confirmed, or after SES had failed to take it, when its copy is in
\* the memory of the process or not persistent (publishToQueue, the retry).
Accounted ==
  \A e \in Emails : stage[e] = "queued" =>
    \/ InQueue(e) \/ Pending(e)
    \/ sent[e] > 0
    \/ e \in given \cup unsure
    \/ e \in lost \cap failed

\* An email is mailed once, and once more at most for every delivery that broke
\* off and every answer of SES that was lost (StartEmailConsumer).
SentOnce == \A e \in Emails : sent[e] <= 1 + again[e]

\* While the consumer's channel is open an email has one copy: a goroutine's, or
\* RabbitMQ's, but for the original that is about to be acknowledged.
OneCopy ==
  sub \in up => \A e \in Emails :
    /\ \A t, u \in timers : t[1] = e /\ u[1] = e => t = u
    /\ Pending(e) /\ InQueue(e) => work.pc = "ack" /\ work.email = e

\* An email is held while RabbitMQ, a goroutine or the consumer has it.
Held(e) == InQueue(e) \/ Pending(e) \/ work.email = e

Mailing == INSTANCE Outbox WITH held <- {e \in Emails : Held(e)}

\* Queue, consumer and copies implement the outbox: whatever drops, restarts or
\* crashes, an email that is let go of was sent, given up or failed before, and no
\* copy of it turns up to be mailed afterwards (publishToQueue, StartEmailConsumer).
KeepsOutbox == Mailing!Spec

\* "Attempts to reconnect": publishers get an open channel again, unless the
\* connection dropped before its watcher listened (watchConnectionDrops).
Reconnects == Channel \notin up ~> Channel \in up \/ unseen

\* Every email in the queue is sent or given up after finitely many copies, unless
\* the consumer's channel is closed: no reconnection opens it (StartEmailConsumer).
Settles == \A e \in Emails : InQueue(e) ~> (~InQueue(e) /\ ~Pending(e)) \/ sub \notin up
=============================================================================
