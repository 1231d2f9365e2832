----------------------------- MODULE EmailProofs ------------------------------
(***************************************************************************)
(* Proofs of the safety properties of Email and Broker, for any emails and *)
(* any numbers of dials, copies and faults.                                *)
(***************************************************************************)
EXTENDS Email, TLAPS

(***************************************************************************)
(* The inductive invariant                                                 *)
(***************************************************************************)
Sent(e)     == sent[e] > 0
Carried(e)  == Pending(e) \/ Sending(e)
Waits(e)    == mail[e].at = "ready"
Unacked(e)  == mail[e].at = "unacked"

\* The consumer's channel belongs to a connection of this process; no connect
\* at start-up runs beside it.
ChannelInv ==
  /\ sub <= dialed
  /\ pc = "off" => watched = 0
  /\ sub # 0 => pc # "off" /\ ~Connecting
  /\ pc \in {"wait", "sleep"} => watched # 0
  /\ sub = 0 => timers = {} /\ work = NoWork

\* RabbitMQ waits for an acknowledgement exactly of what the consumer is at,
\* over an open channel.
AckInv ==
  /\ \A e \in Emails : Unacked(e) => sub \in up /\ work.pc # "idle" /\ work.email = e
  /\ sub \in up /\ work.pc # "idle" => work.email \in Emails /\ Unacked(work.email)
  /\ work.pc # "idle" => work.email \in Emails

\* One goroutine at most holds a copy of an email, and none while it is sent; none
\* while it waits in the queue either, as long as the channel is open.
CopyInv ==
  /\ \A t, u \in timers : t[1] = u[1] => t = u
  /\ \A e \in Emails : ~(Pending(e) /\ Sending(e))
  /\ sub \in up => \A e \in Emails : ~(Pending(e) /\ Waits(e))

\* What has not been queued is nowhere.
FreshInv ==
  \A e \in Emails : stage[e] # "queued" =>
    mail[e].at = "none" /\ ~Pending(e) /\ work.email # e /\ sent[e] = 0

\* Each instance of an email that may still be sent was paid for.
CountInv ==
  \A e \in Emails :
    /\ sent[e] <= 1 + again[e]
    /\ Waits(e) \/ Carried(e) => sent[e] <= again[e]
    /\ Waits(e) /\ Carried(e) => sent[e] < again[e]

\* Copies are made of what failed; what is acknowledged is dealt with.
LossInv ==
  /\ \A e \in Emails : Pending(e) => e \in failed
  /\ \A e \in Emails : InQueue(e) /\ ~mail[e].kept => e \in failed
  /\ \A e \in Emails : work.pc = "ack" /\ work.email = e => Sent(e) \/ e \in given \/ Pending(e)

Inv == TypeOK /\ ChannelInv /\ AckInv /\ CopyInv /\ FreshInv /\ CountInv /\ LossInv /\ Accounted

LEMMA NoMessageType == NoMessage \in Message
BY TriesAssumption DEF NoMessage, Message

LEMMA NoWorkType == NoWork \in Delivery
BY TriesAssumption DEF NoWork, Delivery

LEMMA InitInv == Init => Inv
<1> SUFFICES ASSUME Init PROVE Inv
  OBVIOUS
<1>1. TypeOK
  <2>1. BrokerTypeOK
    <3>1. 1 \in 1 .. MaxRetries
      BY RetryAssumption
    <3>2. {} \subseteq 1 .. 0
      OBVIOUS
    <3>3. QED
      BY <3>1, <3>2 DEF Init, BrokerInit, BrokerTypeOK, Places
  <2>2. QED
    BY <2>1, NoMessageType, NoWorkType DEF Init, TypeOK
<1>2. \A e \in Emails : mail[e].at = "none" /\ sent[e] = 0 /\ again[e] = 0 /\ stage[e] = "new"
  BY DEF Init, NoMessage
<1>3. timers = {} /\ work.pc = "idle" /\ work.email = None /\ work = NoWork
  BY DEF Init, NoWork
<1>4. ChannelInv
  BY <1>3 DEF Init, BrokerInit, ChannelInv
<1>5. AckInv /\ CopyInv
  BY <1>2, <1>3 DEF AckInv, CopyInv, Unacked, Waits, Pending
<1>6. FreshInv /\ Accounted
  BY <1>2, <1>3, NoneAssumption DEF FreshInv, Accounted, Pending
<1>7. CountInv /\ LossInv
  BY <1>2, <1>3 DEF CountInv, LossInv, Waits, Carried, Sending, Pending, InQueue
<1>8. QED
  BY <1>1, <1>4, <1>5, <1>6, <1>7 DEF Inv

(***************************************************************************)
(* Steps of the connection                                                 *)
(***************************************************************************)
\* The open connections stay, or all close while the consumer is not started.
LEMMA BrokerTypes ==
  ASSUME Inv, BrokerStep \/ GiveUp \/ NoChannel, UNCHANGED sub
  PROVE  /\ BrokerTypeOK'
         /\ dialed <= dialed'
         /\ sub \in up' <=> sub \in up
         /\ sub # 0 => pc' # "off" /\ ~Connecting'
         /\ pc' \in {"wait", "sleep"} => watched' # 0
         /\ pc' = "off" => watched' = 0
<1>1. BrokerTypeOK /\ sub \in Nat /\ ChannelInv
  BY DEF Inv, TypeOK
<1> USE <1>1, RetryAssumption DEF BrokerTypeOK, Places, ChannelInv, Connecting
<1>2. CASE Connect
  BY <1>2 DEF Connect
<1>3. CASE Dial
  <2>1. /\ pc = "dial" /\ dialed' = dialed + 1 /\ up' = up \cup {dialed + 1} /\ Conn' = dialed + 1
        /\ pc' = "channel" /\ UNCHANGED <<tries, Channel, watched, unseen>>
    BY <1>3 DEF Dial
  <2>2. dialed \in Nat /\ sub # dialed + 1
    OBVIOUS
  <2>3. BrokerTypeOK'
    BY <2>1, <2>2
  <2>4. QED
    BY <2>1, <2>2, <2>3
<1>4. CASE DialAgain
  <2>1. /\ pc = "dial" /\ tries' = tries + 1 /\ tries < MaxRetries /\ Conn' = 0
        /\ UNCHANGED <<pc, Channel, watched, dialed, up, unseen>>
    BY <1>4 DEF DialAgain
  <2>2. BrokerTypeOK'
    BY <2>1
  <2>3. QED
    BY <2>1, <2>2
<1>5. CASE OpenChannel
  <2>1. /\ pc = "channel" /\ Channel' = Conn /\ pc' = "listen"
        /\ UNCHANGED <<tries, Conn, watched, dialed, up, unseen>>
    BY <1>5 DEF OpenChannel
  <2>2. BrokerTypeOK'
    BY <2>1
  <2>3. QED
    BY <2>1, <2>2
<1>6. CASE Listen
  BY <1>6 DEF Listen
<1>7. CASE ListenTooLate
  BY <1>7 DEF ListenTooLate
<1>8. CASE NoticeDrop
  BY <1>8 DEF NoticeDrop
<1>9. CASE (GiveUp \/ NoChannel) /\ watched = 0
  <2>1. /\ pc \in {"dial", "channel"} /\ pc' = "off" /\ tries' = 1 /\ Conn' = 0 /\ Channel' = 0
        /\ watched' = 0 /\ up' = {} /\ unseen' = FALSE /\ UNCHANGED dialed
    BY <1>9 DEF GiveUp, NoChannel, ConnectFails, Stop
  <2>2. sub = 0 /\ sub \notin up
    BY <1>9, <2>1
  <2>3. BrokerTypeOK'
    <3>1. 1 \in 1 .. MaxRetries /\ {} \subseteq 1 .. dialed
      OBVIOUS
    <3>2. QED
      BY <2>1, <3>1
  <2>4. dialed <= dialed' /\ (sub \in up' <=> sub \in up)
    BY <2>1, <2>2
  <2>5. (sub # 0 => pc' # "off" /\ ~Connecting') /\ (pc' \in {"wait", "sleep"} => watched' # 0)
        /\ watched' = 0
    BY <2>1, <2>2
  <2>6. QED
    BY <2>3, <2>4, <2>5
<1>10. CASE (GiveUp \/ NoChannel) /\ watched # 0
  <2>1. /\ pc' = "sleep" /\ UNCHANGED <<tries, watched, dialed, up, unseen>>
        /\ Conn' \in {0, Conn} /\ Channel' \in {0, Channel}
    BY <1>10 DEF GiveUp, NoChannel, ConnectFails
  <2>2. BrokerTypeOK'
    BY <2>1
  <2>3. QED
    BY <1>10, <2>1, <2>2
<1>11. QED
  BY <1>2, <1>3, <1>4, <1>5, <1>6, <1>7, <1>8, <1>9, <1>10 DEF BrokerStep

LEMMA BrokerInv ==
  ASSUME Inv, BrokerStep \/ GiveUp \/ NoChannel, UNCHANGED <<process, queue, history, faults>>
  PROVE  Inv'
<1>1. UNCHANGED <<sub, work, timers, stage, mail, sent, again, failed, given, lost, unsure, faults>>
  BY DEF process, queue, history
<1>2. /\ BrokerTypeOK' /\ dialed <= dialed' /\ (sub \in up' <=> sub \in up)
      /\ sub # 0 => pc' # "off" /\ ~Connecting'
      /\ pc' \in {"wait", "sleep"} => watched' # 0
      /\ pc' = "off" => watched' = 0
  BY <1>1, BrokerTypes
<1>3. TypeOK'
  BY <1>1, <1>2 DEF Inv, TypeOK
<1>4. ChannelInv'
  BY <1>1, <1>2 DEF Inv, ChannelInv, TypeOK, BrokerTypeOK
<1>5. AckInv' /\ CopyInv'
  BY <1>1, <1>2 DEF Inv, AckInv, CopyInv, Unacked, Waits, Pending, Sending
<1>6. FreshInv' /\ CountInv' /\ LossInv' /\ Accounted'
  BY <1>1 DEF Inv, FreshInv, CountInv, LossInv, Accounted, Sent, Carried, Waits, Pending, Sending, InQueue
<1>7. QED
  BY <1>3, <1>4, <1>5, <1>6 DEF Inv

LEMMA StutterInv == Inv /\ UNCHANGED vars => Inv'
BY DEF Inv, vars, broker, process, queue, history, TypeOK, BrokerTypeOK, ChannelInv, Connecting,
       AckInv, CopyInv, FreshInv, CountInv, LossInv, Accounted, Sent, Carried, Waits, Unacked,
       Pending, Sending, InQueue

(***************************************************************************)
(* Connections that drop                                                   *)
(***************************************************************************)
LEMMA RequeuedFacts ==
  ASSUME TypeOK
  PROVE  /\ Requeued \in [Emails -> Message]
         /\ Repeated \in [Emails -> Nat]
         /\ \A e \in Emails :
              /\ Requeued[e].at = IF InQueue(e) THEN "ready" ELSE "none"
              /\ Requeued[e].kept = mail[e].kept
              /\ Repeated[e] = IF Unacked(e) THEN again[e] + 1 ELSE again[e]
<1>1. ASSUME NEW e \in Emails
      PROVE  /\ Requeued[e] \in Message
             /\ Requeued[e].at = IF InQueue(e) THEN "ready" ELSE "none"
             /\ Requeued[e].kept = mail[e].kept
  <2>1. mail[e] \in Message
    BY DEF TypeOK
  <2>2. Requeued[e] = IF mail[e].at = "unacked" THEN [mail[e] EXCEPT !.at = "ready"] ELSE mail[e]
    BY DEF Requeued
  <2>3. QED
    BY <2>1, <2>2 DEF Message, InQueue
<1>2. ASSUME NEW e \in Emails
      PROVE  Repeated[e] \in Nat /\ Repeated[e] = IF Unacked(e) THEN again[e] + 1 ELSE again[e]
  BY DEF TypeOK, Repeated, Unacked
<1>3. Requeued \in [Emails -> Message]
  BY <1>1 DEF Requeued
<1>4. Repeated \in [Emails -> Nat]
  BY <1>2 DEF Repeated
<1>5. QED
  BY <1>1, <1>2, <1>3, <1>4

\* The connections close; RabbitMQ takes back its messages, except those in gone.
LEMMA BrokenOff ==
  ASSUME Inv, Drop, NEW gone \in SUBSET Emails,
         \A e \in gone : InQueue(e) /\ ~mail[e].kept,
         mail' = [e \in Emails |-> IF e \in gone THEN NoMessage ELSE Requeued[e]],
         again' = Repeated, lost' = lost \cup (gone \cap failed),
         unsure' \in SUBSET Emails, unsure \subseteq unsure', faults' \in Nat,
         stage' \in [Emails -> {"new", "queued", "refused"}],
         \A e \in Emails : stage[e] = "queued" => stage'[e] = "queued",
         \A e \in Emails : stage'[e] = "queued" /\ stage[e] # "queued" => e \in unsure',
         UNCHANGED <<process, sent, failed, given>>
  PROVE  Inv'
<1>1. /\ up' = {} /\ UNCHANGED <<pc, tries, Conn, Channel, watched, dialed, unseen>>
      /\ UNCHANGED <<sub, work, timers, sent, failed, given>>
  BY DEF Drop, process
<1>2. TypeOK
  BY DEF Inv
<1>3. /\ mail' \in [Emails -> Message] /\ again' \in [Emails -> Nat]
      /\ \A e \in Emails :
           /\ e \in gone => mail'[e] = NoMessage
           /\ e \notin gone => /\ mail'[e].at = IF InQueue(e) THEN "ready" ELSE "none"
                               /\ mail'[e].kept = mail[e].kept
           /\ again'[e] = IF Unacked(e) THEN again[e] + 1 ELSE again[e]
  BY <1>2, RequeuedFacts, NoMessageType
<1>4. \A e \in Emails : (Pending(e)' <=> Pending(e)) /\ (Sending(e)' <=> Sending(e))
  BY <1>1 DEF Pending, Sending
<1>5. \A e \in Emails : mail'[e].at \in {"ready", "none"} /\ (mail'[e].at = "ready" => InQueue(e) /\ e \notin gone)
  BY <1>3 DEF NoMessage
<1>6. TypeOK'
  BY <1>1, <1>2, <1>3 DEF TypeOK, BrokerTypeOK
<1>7. ChannelInv'
  BY <1>1 DEF Inv, ChannelInv, Connecting
<1>8. AckInv' /\ CopyInv'
  BY <1>1, <1>4, <1>5 DEF Inv, AckInv, CopyInv, Unacked
<1>9. FreshInv'
  BY <1>1, <1>4, <1>5 DEF Inv, FreshInv, InQueue
<1>10. CountInv'
  <2> SUFFICES ASSUME NEW e \in Emails
               PROVE  /\ sent'[e] <= 1 + again'[e]
                      /\ Waits(e)' \/ Carried(e)' => sent'[e] <= again'[e]
                      /\ Waits(e)' /\ Carried(e)' => sent'[e] < again'[e]
    BY DEF CountInv
  <2>1. sent'[e] = sent[e] /\ sent[e] \in Nat /\ again[e] \in Nat
    BY <1>1, <1>2 DEF TypeOK
  <2>2. Carried(e)' <=> Carried(e)
    BY <1>4 DEF Carried
  <2>3. /\ sent[e] <= 1 + again[e]
        /\ Waits(e) \/ Carried(e) => sent[e] <= again[e]
        /\ Waits(e) /\ Carried(e) => sent[e] < again[e]
    BY DEF Inv, CountInv
  <2>4. CASE Unacked(e)
    <3>1. again'[e] = again[e] + 1
      BY <2>4, <1>3
    <3>2. QED
      BY <2>1, <2>2, <2>3, <3>1
  <2>5. CASE ~Unacked(e)
    <3>1. again'[e] = again[e]
      BY <2>5, <1>3
    <3>2. Waits(e)' => Waits(e)
      <4>1. mail[e].at \in {"none", "ready", "unacked"}
        BY <1>2 DEF TypeOK, Message
      <4>2. QED
        BY <4>1, <2>5, <1>5 DEF Waits, Unacked, InQueue
    <3>3. QED
      BY <2>1, <2>2, <2>3, <3>1, <3>2
  <2>6. QED
    BY <2>4, <2>5
<1>11. LossInv'
  <2>1. \A e \in Emails : InQueue(e)' => InQueue(e) /\ mail'[e].kept = mail[e].kept
    BY <1>3, <1>5 DEF InQueue
  <2>2. QED
    BY <1>1, <1>4, <2>1 DEF Inv, LossInv, Sent
<1>12. Accounted'
  <2> SUFFICES ASSUME NEW e \in Emails, stage'[e] = "queued", e \notin unsure'
               PROVE  \/ InQueue(e)' \/ Pending(e)' \/ sent'[e] > 0 \/ e \in given'
                      \/ e \in lost' \cap failed'
    BY DEF Accounted
  <2>1. stage[e] = "queued" /\ e \notin unsure
    OBVIOUS
  <2>2. e \in gone => e \in failed
    BY DEF Inv, LossInv
  <2>3. e \notin gone => (InQueue(e) => InQueue(e)')
    BY <1>3 DEF InQueue
  <2>4. InQueue(e) \/ Pending(e) \/ sent[e] > 0 \/ e \in given \/ e \in lost \cap failed
    BY <2>1 DEF Inv, Accounted
  <2>5. QED
    BY <1>1, <1>4, <2>2, <2>3, <2>4
<1>13. QED
  BY <1>6, <1>7, <1>8, <1>9, <1>10, <1>11, <1>12 DEF Inv

LEMMA ConnectionDropsInv ==
  ASSUME Inv, ConnectionDrops
  PROVE  Inv'
<1>1. Drop /\ mail' = Requeued /\ again' = Repeated /\ faults' = faults + 1
      /\ UNCHANGED <<process, stage, sent, failed, given, lost, unsure>>
  BY DEF ConnectionDrops, Fault
<1>2. mail' = [e \in Emails |-> IF e \in {} THEN NoMessage ELSE Requeued[e]]
  BY <1>1 DEF Requeued
<1>3. stage \in [Emails -> {"new", "queued", "refused"}] /\ unsure \in SUBSET Emails /\ faults \in Nat
  BY DEF Inv, TypeOK
<1>4. faults' \in Nat /\ unsure' = unsure /\ stage' = stage /\ lost' = lost \cup ({} \cap failed)
      /\ UNCHANGED <<process, sent, failed, given>> /\ {} \in SUBSET Emails
  BY <1>1, <1>3
<1>5. QED
  BY <1>1, <1>2, <1>3, <1>4, BrokenOff

LEMMA BrokerRestartsInv ==
  ASSUME Inv, BrokerRestarts
  PROVE  Inv'
<1> DEFINE gone == {e \in Emails : InQueue(e) /\ ~mail[e].kept}
<1>1. /\ Drop /\ again' = Repeated /\ faults' = faults + 1
      /\ mail' = [e \in Emails |-> IF e \in gone THEN NoMessage ELSE Requeued[e]]
      /\ lost' = lost \cup (gone \cap failed)
      /\ UNCHANGED <<process, stage, sent, failed, given, unsure>>
  BY DEF BrokerRestarts, Fault
<1>2. gone \in SUBSET Emails /\ \A e \in gone : InQueue(e) /\ ~mail[e].kept
  OBVIOUS
<1>3. stage \in [Emails -> {"new", "queued", "refused"}] /\ unsure \in SUBSET Emails /\ faults \in Nat
  BY DEF Inv, TypeOK
<1> HIDE DEF gone
<1>4. faults' \in Nat /\ unsure' = unsure /\ stage' = stage
      /\ UNCHANGED <<process, sent, failed, given>>
  BY <1>1, <1>3
<1>5. QED
  BY <1>1, <1>2, <1>3, <1>4, BrokenOff

LEMMA PublishVanishesInv ==
  ASSUME Inv, NEW e \in Emails, PublishVanishes(e)
  PROVE  Inv'
<1>1. /\ Drop /\ mail' = Requeued /\ again' = Repeated /\ faults' = faults + 1
      /\ stage' = [stage EXCEPT ![e] = "queued"] /\ unsure' = unsure \cup {e}
      /\ UNCHANGED <<process, sent, failed, given, lost>>
  BY DEF PublishVanishes, Fault
<1>2. mail' = [x \in Emails |-> IF x \in {} THEN NoMessage ELSE Requeued[x]]
  BY <1>1 DEF Requeued
<1>3. TypeOK
  BY DEF Inv
<1>4. /\ stage' \in [Emails -> {"new", "queued", "refused"}]
      /\ \A x \in Emails : stage[x] = "queued" => stage'[x] = "queued"
      /\ \A x \in Emails : stage'[x] = "queued" /\ stage[x] # "queued" => x \in unsure'
  BY <1>1, <1>3 DEF TypeOK
<1>5. unsure' \in SUBSET Emails /\ unsure \subseteq unsure' /\ faults' \in Nat
  BY <1>1, <1>3 DEF TypeOK
<1>6. lost' = lost \cup ({} \cap failed) /\ {} \in SUBSET Emails
      /\ UNCHANGED <<process, sent, failed, given>>
  BY <1>1
<1>7. QED
  BY <1>1, <1>2, <1>4, <1>5, <1>6, BrokenOff

(***************************************************************************)
(* The end of the process                                                  *)
(***************************************************************************)
LEMMA ProcessEndsInv ==
  ASSUME Inv, ProcessEnds, faults' \in Nat,
         stage' \in [Emails -> {"new", "queued", "refused"}],
         \A e \in Emails : stage[e] = "queued" <=> stage'[e] = "queued"
  PROVE  Inv'
<1>1. /\ pc' = "off" /\ tries' = 1 /\ Conn' = 0 /\ Channel' = 0 /\ watched' = 0 /\ up' = {}
      /\ unseen' = FALSE /\ UNCHANGED dialed
      /\ sub' = 0 /\ work' = NoWork /\ timers' = {} /\ mail' = Requeued /\ again' = Repeated
      /\ lost' = lost \cup {e \in Emails : Pending(e) /\ ~InQueue(e)}
      /\ UNCHANGED <<sent, failed, given, unsure>>
  BY DEF ProcessEnds, Stop
<1>2. TypeOK
  BY DEF Inv
<1>3. /\ mail' \in [Emails -> Message] /\ again' \in [Emails -> Nat]
      /\ \A e \in Emails :
           /\ mail'[e].at = IF InQueue(e) THEN "ready" ELSE "none"
           /\ mail'[e].kept = mail[e].kept
           /\ again'[e] = IF Unacked(e) THEN again[e] + 1 ELSE again[e]
  BY <1>1, <1>2, RequeuedFacts
<1>4. \A e \in Emails : ~Pending(e)' /\ ~Sending(e)'
  BY <1>1 DEF Pending, Sending, NoWork
<1>5. TypeOK'
  <2>1. BrokerTypeOK'
    <3>1. 1 \in 1 .. MaxRetries /\ {} \subseteq 1 .. dialed
      BY RetryAssumption
    <3>2. QED
      BY <1>1, <1>2, <3>1 DEF TypeOK, BrokerTypeOK, Places
  <2>2. lost' \subseteq Emails
    BY <1>1, <1>2 DEF TypeOK
  <2>3. QED
    BY <1>1, <1>2, <1>3, <2>1, <2>2, NoWorkType DEF TypeOK
<1>6. ChannelInv'
  BY <1>1, <1>2 DEF ChannelInv, TypeOK, BrokerTypeOK
<1>7. AckInv' /\ CopyInv'
  BY <1>1, <1>3, <1>4 DEF AckInv, CopyInv, Unacked, NoWork
<1>8. FreshInv'
  <2>1. \A e \in Emails : work'.email # e
    BY <1>1, NoneAssumption DEF NoWork
  <2>2. QED
    BY <1>1, <1>3, <1>4, <2>1 DEF Inv, FreshInv, InQueue
<1>9. CountInv'
  <2> SUFFICES ASSUME NEW e \in Emails
               PROVE  sent'[e] <= 1 + again'[e] /\ (Waits(e)' => sent'[e] <= again'[e])
    BY <1>4 DEF CountInv, Carried
  <2>1. sent'[e] = sent[e] /\ sent[e] \in Nat /\ again[e] \in Nat
    BY <1>1, <1>2 DEF TypeOK
  <2>2. sent[e] <= 1 + again[e] /\ (Waits(e) => sent[e] <= again[e])
    BY DEF Inv, CountInv
  <2>3. Waits(e)' => Waits(e) \/ Unacked(e)
    <3>1. mail[e].at \in {"none", "ready", "unacked"}
      BY <1>2 DEF TypeOK, Message
    <3>2. QED
      BY <3>1, <1>3 DEF Waits, Unacked, InQueue
  <2>4. again'[e] = IF Unacked(e) THEN again[e] + 1 ELSE again[e]
    BY <1>3
  <2>5. QED
    BY <2>1, <2>2, <2>3, <2>4
<1>10. LossInv'
  <2>1. \A e \in Emails : InQueue(e)' => InQueue(e) /\ mail'[e].kept = mail[e].kept
    BY <1>3 DEF InQueue
  <2>2. QED
    BY <1>1, <1>4, <2>1 DEF Inv, LossInv, NoWork
<1>11. Accounted'
  <2> SUFFICES ASSUME NEW e \in Emails, stage[e] = "queued"
               PROVE  \/ InQueue(e)' \/ sent'[e] > 0 \/ e \in given' \cup unsure'
                      \/ e \in lost' \cap failed'
    BY DEF Accounted
  <2>1. InQueue(e) => InQueue(e)'
    BY <1>3 DEF InQueue
  <2>2. Pending(e) => e \in failed
    BY DEF Inv, LossInv
  <2>3. QED
    BY <1>1, <2>1, <2>2 DEF Inv, Accounted
<1>12. QED
  BY <1>5, <1>6, <1>7, <1>8, <1>9, <1>10, <1>11 DEF Inv

LEMMA CrashInv ==
  ASSUME Inv, Crash
  PROVE  Inv'
<1>1. ProcessEnds /\ UNCHANGED stage /\ faults' \in Nat
  BY DEF Crash, Fault, Inv, TypeOK
<1>2. QED
  BY <1>1, ProcessEndsInv DEF Inv, TypeOK

LEMMA StartFailsInv ==
  ASSUME Inv, StartFails
  PROVE  Inv'
BY ProcessEndsInv DEF StartFails, Inv, TypeOK

LEMMA PublishPanicsInv ==
  ASSUME Inv, NEW e \in Emails, PublishPanics(e)
  PROVE  Inv'
<1>1. ProcessEnds /\ stage[e] = "new" /\ stage' = [stage EXCEPT ![e] = "refused"] /\ UNCHANGED faults
  BY DEF PublishPanics, NoFault
<1>2. stage \in [Emails -> {"new", "queued", "refused"}] /\ faults \in Nat
  BY DEF Inv, TypeOK
<1>3. /\ stage' \in [Emails -> {"new", "queued", "refused"}]
      /\ \A x \in Emails : stage[x] = "queued" <=> stage'[x] = "queued"
  BY <1>1, <1>2
<1>4. QED
  BY <1>1, <1>2, <1>3, ProcessEndsInv

(***************************************************************************)
(* Publishing and the start of the consumer                                *)
(***************************************************************************)
LEMMA StartInv ==
  ASSUME Inv, StartEmailConsumer
  PROVE  Inv'
<1>1. /\ sub = 0 /\ ~Connecting /\ Conn \in up /\ sub' = Conn
      /\ UNCHANGED <<pc, tries, Conn, Channel, watched, dialed, up, unseen>>
      /\ UNCHANGED <<work, timers, stage, mail, sent, again, failed, given, lost, unsure, faults>>
  BY DEF StartEmailConsumer, broker, queue, history
<1>2. TypeOK /\ Conn \in 1 .. dialed /\ dialed \in Nat
  BY <1>1 DEF Inv, TypeOK, BrokerTypeOK
<1>3. timers = {} /\ work.pc = "idle" /\ sub \notin up
  BY <1>1, <1>2 DEF Inv, ChannelInv, NoWork, TypeOK, BrokerTypeOK
<1>4. TypeOK'
  BY <1>1, <1>2 DEF TypeOK, BrokerTypeOK
<1>5. ChannelInv'
  BY <1>1, <1>2 DEF Inv, ChannelInv, Connecting
<1>6. AckInv' /\ CopyInv'
  BY <1>1, <1>3 DEF Inv, AckInv, CopyInv, Unacked, Pending, Sending
<1>7. FreshInv' /\ CountInv' /\ LossInv' /\ Accounted'
  BY <1>1 DEF Inv, FreshInv, CountInv, LossInv, Accounted, Sent, Carried, Waits, Pending, Sending, InQueue
<1>8. QED
  BY <1>4, <1>5, <1>6, <1>7 DEF Inv

LEMMA PublishToQueueInv ==
  ASSUME Inv, NEW e \in Emails, PublishToQueue(e)
  PROVE  Inv'
<1> DEFINE m == [at |-> "ready", tries |-> 0, kept |-> TRUE]
<1>1. m \in Message /\ m.at = "ready" /\ m.kept
  BY TriesAssumption DEF Message
<1>2. /\ stage[e] = "new" /\ stage' = [stage EXCEPT ![e] = "queued"]
      /\ mail' = [mail EXCEPT ![e] = m]
      /\ UNCHANGED <<pc, tries, Conn, Channel, watched, dialed, up, unseen>>
      /\ UNCHANGED <<sub, work, timers, sent, again, failed, given, lost, unsure, faults>>
  BY DEF PublishToQueue, broker, process, history
<1> HIDE DEF m
<1>3. TypeOK
  BY DEF Inv
<1>4. /\ mail' \in [Emails -> Message] /\ mail'[e] = m
      /\ \A f \in Emails : f # e => mail'[f] = mail[f]
      /\ stage' \in [Emails -> {"new", "queued", "refused"}] /\ stage'[e] = "queued"
      /\ \A f \in Emails : f # e => stage'[f] = stage[f]
  BY <1>1, <1>2, <1>3 DEF TypeOK
<1>5. mail[e].at = "none" /\ ~Pending(e) /\ work.email # e /\ sent[e] = 0
  BY <1>2 DEF Inv, FreshInv
<1>6. TypeOK'
  BY <1>2, <1>3, <1>4 DEF TypeOK, BrokerTypeOK
<1>7. ChannelInv'
  BY <1>2 DEF Inv, ChannelInv, Connecting
<1>8. \A f \in Emails : (Pending(f)' <=> Pending(f)) /\ (Sending(f)' <=> Sending(f))
  BY <1>2 DEF Pending, Sending
<1>9. AckInv'
  BY <1>1, <1>2, <1>4, <1>5 DEF Inv, AckInv, Unacked
<1>10. CopyInv'
  BY <1>2, <1>4, <1>5, <1>8 DEF Inv, CopyInv, Waits
<1>11. FreshInv'
  BY <1>2, <1>4, <1>8 DEF Inv, FreshInv
<1>12. CountInv'
  <2>1. again[e] \in Nat
    BY <1>3 DEF TypeOK
  <2>2. ASSUME NEW f \in Emails
        PROVE  /\ sent'[f] <= 1 + again'[f]
               /\ Waits(f)' \/ Carried(f)' => sent'[f] <= again'[f]
               /\ Waits(f)' /\ Carried(f)' => sent'[f] < again'[f]
    <3>1. CASE f = e
      BY <3>1, <2>1, <1>2, <1>5, <1>8 DEF Carried, Sending
    <3>2. CASE f # e
      <4>1. (Waits(f)' <=> Waits(f)) /\ (Carried(f)' <=> Carried(f))
        BY <3>2, <1>4, <1>8 DEF Waits, Carried
      <4>2. QED
        BY <4>1, <1>2 DEF Inv, CountInv
    <3>3. QED
      BY <3>1, <3>2
  <2>3. QED
    BY <2>2 DEF CountInv
<1>13. LossInv'
  BY <1>1, <1>2, <1>4, <1>8 DEF Inv, LossInv, InQueue, Sent
<1>14. Accounted'
  BY <1>1, <1>2, <1>4, <1>8 DEF Inv, Accounted, InQueue
<1>15. QED
  BY <1>6, <1>7, <1>9, <1>10, <1>11, <1>12, <1>13, <1>14 DEF Inv

LEMMA PublishFailsInv ==
  ASSUME Inv, NEW e \in Emails, PublishFails(e)
  PROVE  Inv'
<1>1. /\ stage[e] = "new" /\ stage' = [stage EXCEPT ![e] = "refused"]
      /\ UNCHANGED <<pc, tries, Conn, Channel, watched, dialed, up, unseen>>
      /\ UNCHANGED <<sub, work, timers, mail, sent, again, failed, given, lost, unsure, faults>>
  BY DEF PublishFails, broker, process, history
<1>2. TypeOK
  BY DEF Inv
<1>3. /\ stage' \in [Emails -> {"new", "queued", "refused"}]
      /\ \A f \in Emails : stage'[f] = "queued" <=> stage[f] = "queued"
  BY <1>1, <1>2 DEF TypeOK
<1>4. TypeOK'
  BY <1>1, <1>2, <1>3 DEF TypeOK, BrokerTypeOK
<1>5. ChannelInv'
  BY <1>1 DEF Inv, ChannelInv, Connecting
<1>6. AckInv' /\ CopyInv'
  BY <1>1 DEF Inv, AckInv, CopyInv, Unacked, Waits, Pending, Sending
<1>7. CountInv' /\ LossInv'
  BY <1>1 DEF Inv, CountInv, LossInv, Sent, Carried, Waits, Pending, Sending, InQueue
<1>8. FreshInv' /\ Accounted'
  BY <1>1, <1>3 DEF Inv, FreshInv, Accounted, Pending, InQueue
<1>9. QED
  BY <1>4, <1>5, <1>6, <1>7, <1>8 DEF Inv

(***************************************************************************)
(* The consumer                                                            *)
(***************************************************************************)
LEMMA TakeInv ==
  ASSUME Inv, NEW e \in Emails, Take(e)
  PROVE  Inv'
<1>1. /\ sub \in up /\ work.pc = "idle" /\ mail[e].at = "ready"
      /\ mail' = [mail EXCEPT ![e].at = "unacked"]
      /\ work' = [pc |-> "send", email |-> e, tries |-> mail[e].tries]
      /\ UNCHANGED <<pc, tries, Conn, Channel, watched, dialed, up, unseen>>
      /\ UNCHANGED <<sub, timers, stage, sent, again, failed, given, lost, unsure, faults>>
  BY DEF Take, broker, history
<1>2. TypeOK
  BY DEF Inv
<1>3. /\ mail' \in [Emails -> Message] /\ mail'[e].at = "unacked" /\ mail'[e].kept = mail[e].kept
      /\ \A f \in Emails : f # e => mail'[f] = mail[f]
  <2>1. mail[e] \in Message /\ mail \in [Emails -> Message]
    BY <1>2 DEF TypeOK
  <2>2. [mail[e] EXCEPT !.at = "unacked"] \in Message
    BY <2>1 DEF Message
  <2>3. mail' = [mail EXCEPT ![e] = [mail[e] EXCEPT !.at = "unacked"]]
    BY <1>1
  <2>4. mail' \in [Emails -> Message] /\ mail'[e] = [mail[e] EXCEPT !.at = "unacked"]
        /\ \A f \in Emails : f # e => mail'[f] = mail[f]
    BY <2>1, <2>2, <2>3
  <2>5. QED
    BY <2>1, <2>4 DEF Message
<1>4. work' \in Delivery /\ work'.pc = "send" /\ work'.email = e
  BY <1>1, <1>2 DEF TypeOK, Message, Delivery
<1>5. \A f \in Emails : (Pending(f)' <=> Pending(f)) /\ (Sending(f)' <=> f = e) /\ ~Sending(f)
                         /\ ~Unacked(f) /\ (InQueue(f)' <=> InQueue(f))
  BY <1>1, <1>3, <1>4 DEF Pending, Sending, InQueue, Inv, AckInv
<1>6. ~Pending(e) /\ stage[e] = "queued"
  BY <1>1 DEF Inv, CopyInv, FreshInv, Waits
<1>7. TypeOK'
  BY <1>1, <1>2, <1>3, <1>4 DEF TypeOK, BrokerTypeOK
<1>8. ChannelInv'
  BY <1>1, <1>2 DEF Inv, ChannelInv, Connecting, TypeOK, BrokerTypeOK
<1>9. AckInv'
  BY <1>1, <1>3, <1>4, <1>5 DEF AckInv, Unacked
<1>10. CopyInv'
  BY <1>1, <1>3, <1>5, <1>6 DEF Inv, CopyInv, Waits
<1>11. FreshInv'
  BY <1>1, <1>3, <1>4, <1>5, <1>6 DEF Inv, FreshInv
<1>12. CountInv'
  <2>1. ASSUME NEW f \in Emails
        PROVE  /\ sent'[f] <= 1 + again'[f]
               /\ Waits(f)' \/ Carried(f)' => sent'[f] <= again'[f]
               /\ Waits(f)' /\ Carried(f)' => sent'[f] < again'[f]
    <3>1. CASE f = e
      BY <3>1, <1>1, <1>3 DEF Inv, CountInv, Waits
    <3>2. CASE f # e
      <4>1. (Waits(f)' <=> Waits(f)) /\ (Carried(f)' <=> Carried(f))
        BY <3>2, <1>3, <1>5 DEF Waits, Carried
      <4>2. QED
        BY <4>1, <1>1 DEF Inv, CountInv
    <3>3. QED
      BY <3>1, <3>2
  <2>2. QED
    BY <2>1 DEF CountInv
<1>13. LossInv'
  <2>1. \A f \in Emails : mail'[f].kept = mail[f].kept
    BY <1>3
  <2>2. QED
    BY <2>1, <1>1, <1>4, <1>5 DEF Inv, LossInv
<1>14. Accounted'
  BY <1>1, <1>5 DEF Inv, Accounted
<1>15. QED
  BY <1>7, <1>8, <1>9, <1>10, <1>11, <1>12, <1>13, <1>14 DEF Inv

\* SES has answered, or failed to: the email at hand is counted, copied, given up
\* or none of these, and the delivery is about to be acknowledged.
LEMMA Answered ==
  ASSUME Inv, NEW e \in Emails, Sending(e),
         work' = [work EXCEPT !.pc = "ack"],
         NEW n \in {0, 1}, NEW a \in {0, 1},
         sent' = [sent EXCEPT ![e] = @ + n], again' = [again EXCEPT ![e] = @ + a],
         NEW copy \in SUBSET {<<e, work.tries + 1>>}, work.tries < MaxTries \/ copy = {},
         timers' = timers \cup copy,
         failed' = failed \/ failed' = failed \cup {e}, copy # {} => e \in failed',
         given' = given \/ given' = given \cup {e},
         n = 1 \/ e \in given' \/ copy # {},
         copy # {} => n = a, n = 1 /\ a = 0 => copy = {},
         UNCHANGED <<broker, sub, queue, lost, unsure>>, faults' \in Nat
  PROVE  Inv'
<1>1. UNCHANGED <<pc, tries, Conn, Channel, watched, dialed, up, unseen, sub, stage, mail, lost, unsure>>
  BY DEF broker, queue
<1>2. TypeOK /\ work.pc = "send" /\ work.email = e
  BY DEF Inv, Sending
<1>3. work' \in Delivery /\ work'.pc = "ack" /\ work'.email = e
  BY <1>2 DEF TypeOK, Delivery
<1>4. /\ sent' \in [Emails -> Nat] /\ sent'[e] = sent[e] + n
      /\ again' \in [Emails -> Nat] /\ again'[e] = again[e] + a
      /\ sent[e] \in Nat /\ again[e] \in Nat
      /\ \A f \in Emails : f # e => sent'[f] = sent[f] /\ again'[f] = again[f]
  BY <1>2 DEF TypeOK
<1>5. ~Pending(e) /\ stage[e] = "queued"
  BY <1>2 DEF Inv, CopyInv, FreshInv
<1>6. /\ \A f \in Emails : f # e => (Pending(f)' <=> Pending(f))
      /\ Pending(e)' <=> copy # {}
      /\ \A f \in Emails : ~Sending(f)' /\ (f # e => ~Sending(f))
  BY <1>2, <1>3, <1>5 DEF Pending, Sending
<1>7. timers' \subseteq Emails \X (1 .. MaxTries)
  <2>1. work.tries \in 0 .. MaxTries
    BY <1>2 DEF TypeOK, Delivery
  <2>2. work.tries < MaxTries => <<e, work.tries + 1>> \in Emails \X (1 .. MaxTries)
    BY <2>1, TriesAssumption
  <2>3. QED
    BY <2>2, <1>2 DEF TypeOK
<1>8. TypeOK'
  BY <1>1, <1>2, <1>3, <1>4, <1>7 DEF TypeOK, BrokerTypeOK
<1>9. ChannelInv'
  <2>1. sub # 0
    BY <1>2 DEF Inv, ChannelInv, NoWork
  <2>2. QED
    BY <2>1, <1>1 DEF Inv, ChannelInv, Connecting
<1>10. AckInv'
  BY <1>1, <1>2, <1>3 DEF Inv, AckInv, Unacked
<1>11. CopyInv'
  <2>1. \A t, u \in timers' : t[1] = u[1] => t = u
    BY <1>5 DEF Inv, CopyInv, Pending
  <2>2. sub \in up => Unacked(e)
    BY <1>2 DEF Inv, AckInv
  <2>3. QED
    BY <1>1, <1>6, <2>1, <2>2 DEF Inv, CopyInv, Waits, Unacked
<1>12. FreshInv'
  BY <1>1, <1>3, <1>4, <1>5, <1>6 DEF Inv, FreshInv
<1>13. CountInv'
  <2>1. ASSUME NEW f \in Emails
        PROVE  /\ sent'[f] <= 1 + again'[f]
               /\ Waits(f)' \/ Carried(f)' => sent'[f] <= again'[f]
               /\ Waits(f)' /\ Carried(f)' => sent'[f] < again'[f]
    <3>1. Waits(f)' <=> Waits(f)
      BY <1>1 DEF Waits
    <3>2. CASE f = e
      <4>1. sent[e] <= again[e] /\ (Waits(e) => sent[e] < again[e])
        BY DEF Inv, CountInv, Carried
      <4>2. Carried(e)' <=> copy # {}
        BY <1>6 DEF Carried
      <4>3. QED
        BY <3>1, <3>2, <4>1, <4>2, <1>4
    <3>3. CASE f # e
      <4>1. Carried(f)' <=> Carried(f)
        BY <3>3, <1>6 DEF Carried
      <4>2. QED
        BY <3>1, <3>3, <4>1, <1>4 DEF Inv, CountInv
    <3>4. QED
      BY <3>2, <3>3
  <2>2. QED
    BY <2>1 DEF CountInv
<1>14. LossInv'
  <2>1. n = 1 => Sent(e)'
    BY <1>4 DEF Sent
  <2>2. \A f \in Emails : Pending(f)' => f \in failed'
    BY <1>6 DEF Inv, LossInv
  <2>3. \A f \in Emails : InQueue(f)' /\ ~mail'[f].kept => f \in failed'
    BY <1>1 DEF Inv, LossInv, InQueue
  <2>4. Sent(e)' \/ e \in given' \/ Pending(e)'
    BY <2>1, <1>6
  <2>5. QED
    BY <2>2, <2>3, <2>4, <1>3 DEF LossInv
<1>15. Accounted'
  <2> SUFFICES ASSUME NEW f \in Emails, stage'[f] = "queued"
               PROVE  \/ InQueue(f)' \/ Pending(f)' \/ sent'[f] > 0
                      \/ f \in given' \cup unsure' \/ f \in lost' \cap failed'
    BY DEF Accounted
  <2>1. CASE f = e
    BY <2>1, <1>4, <1>6
  <2>2. CASE f # e
    BY <2>2, <1>1, <1>4, <1>6 DEF Inv, Accounted, InQueue
  <2>3. QED
    BY <2>1, <2>2
<1>16. QED
  BY <1>8, <1>9, <1>10, <1>11, <1>12, <1>13, <1>14, <1>15 DEF Inv

LEMMA SendSucceedsInv ==
  ASSUME Inv, NEW e \in Emails, SendSucceeds(e)
  PROVE  Inv'
<1>1. /\ Sending(e) /\ sent' = [sent EXCEPT ![e] = @ + 1] /\ work' = [work EXCEPT !.pc = "ack"]
      /\ UNCHANGED <<broker, sub, timers, queue, again, failed, given, lost, unsure, faults>>
  BY DEF SendSucceeds
<1>2. again \in [Emails -> Nat] /\ faults \in Nat
  BY DEF Inv, TypeOK
<1>3. /\ again' = [again EXCEPT ![e] = @ + 0] /\ timers' = timers \cup {} /\ faults' \in Nat
      /\ failed' = failed /\ given' = given
      /\ UNCHANGED <<broker, sub, queue, lost, unsure>>
  BY <1>1, <1>2
<1>4. {} \in SUBSET {<<e, work.tries + 1>>}
  OBVIOUS
<1>5. QED
  BY <1>1, <1>3, <1>4, Answered

LEMMA SendRejectedInv ==
  ASSUME Inv, NEW e \in Emails, SendRejected(e)
  PROVE  Inv'
<1>1. /\ Sending(e) /\ given' = given \cup {e} /\ work' = [work EXCEPT !.pc = "ack"]
      /\ UNCHANGED <<broker, sub, timers, queue, sent, again, failed, lost, unsure, faults>>
  BY DEF SendRejected
<1>2. again \in [Emails -> Nat] /\ sent \in [Emails -> Nat] /\ faults \in Nat
  BY DEF Inv, TypeOK
<1>3. /\ sent' = [sent EXCEPT ![e] = @ + 0] /\ again' = [again EXCEPT ![e] = @ + 0]
      /\ timers' = timers \cup {} /\ faults' \in Nat /\ failed' = failed /\ e \in given'
      /\ UNCHANGED <<broker, sub, queue, lost, unsure>>
  BY <1>1, <1>2
<1>4. {} \in SUBSET {<<e, work.tries + 1>>}
  OBVIOUS
<1>5. QED
  BY <1>1, <1>3, <1>4, Answered

LEMMA SendFailsInv ==
  ASSUME Inv, NEW e \in Emails, SendFails(e)
  PROVE  Inv'
<1>1. /\ Sending(e) /\ failed' = failed \cup {e} /\ work' = [work EXCEPT !.pc = "ack"]
      /\ UNCHANGED <<broker, sub, queue, lost, unsure>>
  BY DEF SendFails
<1>2. again \in [Emails -> Nat] /\ sent \in [Emails -> Nat] /\ faults \in Nat
  BY DEF Inv, TypeOK
<1>3. PICK n \in {0, 1} : /\ sent' = [sent EXCEPT ![e] = @ + n]
                          /\ again' = [again EXCEPT ![e] = @ + n]
                          /\ faults' \in Nat
  <2>1. CASE UNCHANGED <<sent, again>> /\ NoFault
    <3>1. sent' = [sent EXCEPT ![e] = @ + 0] /\ again' = [again EXCEPT ![e] = @ + 0] /\ faults' \in Nat
      BY <2>1, <1>2 DEF NoFault
    <3>2. QED
      BY <3>1
  <2>2. CASE /\ sent' = [sent EXCEPT ![e] = @ + 1]
             /\ again' = [again EXCEPT ![e] = @ + 1]
             /\ Fault
    BY <2>2, <1>2 DEF Fault
  <2>3. QED
    BY <2>1, <2>2 DEF SendFails
<1>4. PICK copy \in SUBSET {<<e, work.tries + 1>>} :
        /\ work.tries < MaxTries \/ copy = {}
        /\ timers' = timers \cup copy
        /\ given' = given \/ given' = given \cup {e}
        /\ e \in given' \/ copy # {}
  <2>1. CASE work.tries < MaxTries
    BY <2>1 DEF SendFails, Schedule
  <2>2. CASE ~(work.tries < MaxTries)
    <3>1. timers' = timers \cup {} /\ given' = given \cup {e} /\ e \in given'
      BY <2>2 DEF SendFails, Schedule
    <3>2. {} \in SUBSET {<<e, work.tries + 1>>}
      OBVIOUS
    <3>3. QED
      BY <3>1, <3>2
  <2>3. QED
    BY <2>1, <2>2
<1>5. e \in failed' /\ (n = 1 /\ n = 0 => copy = {})
  BY <1>1
<1>6. QED
  BY <1>1, <1>3, <1>4, <1>5, Answered

LEMMA SettleInv ==
  ASSUME Inv, NEW e \in Emails, Settle(e)
  PROVE  Inv'
<1>1. /\ work.pc = "ack" /\ work.email = e /\ work' = NoWork
      /\ mail' = (IF sub \in up THEN [mail EXCEPT ![e] = NoMessage] ELSE mail)
      /\ UNCHANGED <<pc, tries, Conn, Channel, watched, dialed, up, unseen>>
      /\ UNCHANGED <<sub, timers, stage, sent, again, failed, given, lost, unsure, faults>>
  BY DEF Settle, broker, history
<1>2. TypeOK
  BY DEF Inv
<1>3. /\ mail' \in [Emails -> Message]
      /\ \A f \in Emails : f # e => mail'[f] = mail[f]
      /\ mail'[e] = IF sub \in up THEN NoMessage ELSE mail[e]
  BY <1>1, <1>2, NoMessageType DEF TypeOK
<1>4. NoMessage.at = "none" /\ NoWork.pc = "idle" /\ NoWork.email = None
  BY DEF NoMessage, NoWork
<1>5. /\ \A f \in Emails : (Pending(f)' <=> Pending(f)) /\ ~Sending(f)' /\ ~Sending(f)
      /\ \A f \in Emails : mail'[f].at = "none" \/ mail'[f] = mail[f]
  BY <1>1, <1>3, <1>4 DEF Pending, Sending
<1>6. TypeOK'
  BY <1>1, <1>2, <1>3, NoWorkType DEF TypeOK, BrokerTypeOK
<1>7. ChannelInv'
  BY <1>1 DEF Inv, ChannelInv, Connecting
<1>8. AckInv'
  <2>1. \A f \in Emails : Unacked(f) => sub \in up /\ f = e
    BY <1>1 DEF Inv, AckInv
  <2>2. \A f \in Emails : ~Unacked(f)'
    BY <2>1, <1>3, <1>4 DEF Unacked
  <2>3. QED
    BY <2>2, <1>1, <1>4 DEF AckInv
<1>9. CopyInv'
  BY <1>1, <1>5 DEF Inv, CopyInv, Waits
<1>10. FreshInv'
  BY <1>1, <1>4, <1>5, NoneAssumption DEF Inv, FreshInv
<1>11. CountInv'
  <2>1. \A f \in Emails : (Waits(f)' => Waits(f)) /\ (Carried(f)' <=> Carried(f))
    BY <1>5 DEF Waits, Carried
  <2>2. QED
    BY <2>1, <1>1 DEF Inv, CountInv
<1>12. LossInv'
  <2>1. \A f \in Emails : InQueue(f)' => InQueue(f) /\ mail'[f].kept = mail[f].kept
    BY <1>5 DEF InQueue
  <2>2. QED
    BY <2>1, <1>1, <1>4, <1>5 DEF Inv, LossInv
<1>13. Accounted'
  <2> SUFFICES ASSUME NEW f \in Emails, stage'[f] = "queued"
               PROVE  \/ InQueue(f)' \/ Pending(f)' \/ sent'[f] > 0
                      \/ f \in given' \cup unsure' \/ f \in lost' \cap failed'
    BY DEF Accounted
  <2>1. CASE f = e
    BY <2>1, <1>1, <1>5 DEF Inv, LossInv, Sent
  <2>2. CASE f # e
    BY <2>2, <1>1, <1>3, <1>5 DEF Inv, Accounted, InQueue
  <2>3. QED
    BY <2>1, <2>2
<1>14. QED
  BY <1>6, <1>7, <1>8, <1>9, <1>10, <1>11, <1>12, <1>13 DEF Inv

LEMMA RepublishInv ==
  ASSUME Inv, NEW t \in timers, Republish(t)
  PROVE  Inv'
<1> DEFINE e == t[1]
           m == [at |-> "ready", tries |-> t[2], kept |-> FALSE]
<1>1. /\ work.pc = "ack" => work.email # e
      /\ timers' = timers \ {t}
      /\ \/ /\ sub \in up /\ mail' = [mail EXCEPT ![e] = m] /\ lost' = lost
         \/ /\ sub \notin up /\ mail' = mail
            /\ lost' = IF InQueue(e) THEN lost ELSE lost \cup {e}
      /\ UNCHANGED <<pc, tries, Conn, Channel, watched, dialed, up, unseen>>
      /\ UNCHANGED <<sub, work, stage, sent, again, failed, given, unsure, faults>>
  BY DEF Republish, broker
<1>2. TypeOK /\ e \in Emails /\ t[2] \in 1 .. MaxTries
  BY DEF Inv, TypeOK
<1>3. m \in Message /\ m.at = "ready"
  BY <1>2, TriesAssumption DEF Message
<1>4. Pending(e) /\ ~Sending(e) /\ stage[e] = "queued" /\ e \in failed
  <2>1. Pending(e)
    BY DEF Pending
  <2>2. QED
    BY <2>1, <1>2 DEF Inv, CopyInv, FreshInv, LossInv
<1>5. ~Unacked(e)
  BY <1>1, <1>2, <1>4 DEF Inv, AckInv, Sending, TypeOK, Delivery
<1>6. sub \in up => mail[e].at = "none"
  <2>1. mail[e].at \in {"none", "ready", "unacked"}
    BY <1>2 DEF TypeOK, Message
  <2>2. QED
    BY <2>1, <1>2, <1>4, <1>5 DEF Inv, CopyInv, Waits, Unacked
<1> HIDE DEF e, m
<1>7. /\ \A f \in Emails : f # e => (Pending(f)' <=> Pending(f))
      /\ ~Pending(e)'
      /\ \A f \in Emails : Sending(f)' <=> Sending(f)
  BY <1>1 DEF Pending, Sending, e, Inv, CopyInv
<1>8. /\ mail' \in [Emails -> Message]
      /\ mail'[e] = IF sub \in up THEN m ELSE mail[e]
      /\ \A f \in Emails : f # e => mail'[f] = mail[f]
  BY <1>1, <1>2, <1>3 DEF TypeOK
<1>9. \A f \in Emails : Unacked(f)' <=> Unacked(f)
  BY <1>3, <1>5, <1>6, <1>8 DEF Unacked
<1>10. TypeOK'
  BY <1>1, <1>2, <1>8 DEF TypeOK, BrokerTypeOK
<1>11. ChannelInv'
  BY <1>1 DEF Inv, ChannelInv, Connecting
<1>12. AckInv'
  BY <1>1, <1>9 DEF Inv, AckInv
<1>13. CopyInv'
  <2>1. \A u, v \in timers' : u[1] = v[1] => u = v
    BY <1>1 DEF Inv, CopyInv
  <2>2. QED
    BY <2>1, <1>1, <1>7, <1>8 DEF Inv, CopyInv, Waits
<1>14. FreshInv'
  BY <1>1, <1>4, <1>7, <1>8 DEF Inv, FreshInv
<1>15. CountInv'
  <2>1. ASSUME NEW f \in Emails
        PROVE  /\ sent'[f] <= 1 + again'[f]
               /\ Waits(f)' \/ Carried(f)' => sent'[f] <= again'[f]
               /\ Waits(f)' /\ Carried(f)' => sent'[f] < again'[f]
    <3>1. CASE f = e
      <4>1. sent[e] <= again[e]
        BY <1>2, <1>4 DEF Inv, CountInv, Carried
      <4>2. ~Carried(e)'
        BY <1>2, <1>4, <1>7 DEF Carried
      <4>3. QED
        BY <3>1, <4>1, <4>2, <1>1, <1>2 DEF TypeOK
    <3>2. CASE f # e
      <4>1. (Waits(f)' <=> Waits(f)) /\ (Carried(f)' <=> Carried(f))
        BY <3>2, <1>7, <1>8 DEF Waits, Carried
      <4>2. QED
        BY <4>1, <1>1 DEF Inv, CountInv
    <3>3. QED
      BY <3>1, <3>2
  <2>2. QED
    BY <2>1 DEF CountInv
<1>16. LossInv'
  <2>1. \A f \in Emails : Pending(f)' => f \in failed'
    BY <1>1, <1>2, <1>7 DEF Inv, LossInv
  <2>2. \A f \in Emails : InQueue(f)' /\ ~mail'[f].kept => f \in failed'
    BY <1>1, <1>4, <1>8 DEF Inv, LossInv, InQueue
  <2>3. \A f \in Emails : work'.pc = "ack" /\ work'.email = f => Sent(f)' \/ f \in given' \/ Pending(f)'
    BY <1>1, <1>7 DEF Inv, LossInv, Sent
  <2>4. QED
    BY <2>1, <2>2, <2>3 DEF LossInv
<1>17. Accounted'
  <2> SUFFICES ASSUME NEW f \in Emails, stage'[f] = "queued"
               PROVE  \/ InQueue(f)' \/ Pending(f)' \/ sent'[f] > 0
                      \/ f \in given' \cup unsure' \/ f \in lost' \cap failed'
    BY DEF Accounted
  <2>1. CASE f = e
    <3>1. CASE sub \in up
      BY <2>1, <3>1, <1>3, <1>8 DEF InQueue
    <3>2. CASE sub \notin up
      BY <2>1, <3>2, <1>1, <1>4, <1>8 DEF InQueue
    <3>3. QED
      BY <3>1, <3>2
  <2>2. CASE f # e
    BY <2>2, <1>1, <1>7, <1>8 DEF Inv, Accounted, InQueue
  <2>3. QED
    BY <2>1, <2>2
<1>18. QED
  BY <1>10, <1>11, <1>12, <1>13, <1>14, <1>15, <1>16, <1>17 DEF Inv

(***************************************************************************)
(* The theorems                                                            *)
(***************************************************************************)
LEMMA NextInv == Inv /\ [Next]_vars => Inv'
<1> SUFFICES ASSUME Inv, [Next]_vars PROVE Inv'
  OBVIOUS
<1>1. CASE UNCHANGED vars
  BY <1>1, StutterInv
<1>2. CASE (BrokerStep \/ GiveUp \/ NoChannel) /\ UNCHANGED <<process, queue, history, faults>>
  BY <1>2, BrokerInv
<1>3. CASE ConnectionDrops \/ BrokerRestarts
  BY <1>3, ConnectionDropsInv, BrokerRestartsInv
<1>4. CASE Crash \/ Close
  BY <1>4, CrashInv DEF Close
<1>5. CASE StartEmailConsumer \/ StartFails
  BY <1>5, StartInv, StartFailsInv
<1>6. ASSUME NEW e \in Emails,
             PublishToQueue(e) \/ PublishVanishes(e) \/ PublishFails(e) \/ PublishPanics(e)
      PROVE  Inv'
  BY <1>6, PublishToQueueInv, PublishVanishesInv, PublishFailsInv, PublishPanicsInv
<1>7. ASSUME NEW e \in Emails, Take(e) \/ Settle(e) PROVE Inv'
  BY <1>7, TakeInv, SettleInv
<1>8. ASSUME NEW e \in Emails, SendSucceeds(e) \/ SendRejected(e) \/ SendFails(e) PROVE Inv'
  BY <1>8, SendSucceedsInv, SendRejectedInv, SendFailsInv
<1>9. ASSUME NEW t \in timers, Republish(t) PROVE Inv'
  BY <1>9, RepublishInv
<1>10. QED
  BY <1>1, <1>2, <1>3, <1>4, <1>5, <1>6, <1>7, <1>8, <1>9 DEF Next

LEMMA SpecInv == Spec => []Inv
<1>1. Init => Inv
  BY InitInv
<1>2. Inv /\ [Next]_vars => Inv'
  BY NextInv
<1>3. QED
  BY <1>1, <1>2, PTL DEF Spec

\* The connection, the queue, the consumer and the records keep their types.
THEOREM TypeCorrect == Spec => []TypeOK
<1>1. Inv => TypeOK
  BY DEF Inv
<1>2. QED
  BY <1>1, SpecInv, PTL

\* A queued email is somewhere, sent, given up, or lost in one of the two ways
\* the code loses emails (publishToQueue, the retry).
THEOREM AccountedCorrect == Spec => []Accounted
<1>1. Inv => Accounted
  BY DEF Inv
<1>2. QED
  BY <1>1, SpecInv, PTL

\* An email is mailed once more at most than deliveries broke off and answers of
\* SES were lost (StartEmailConsumer).
THEOREM SentCorrect == Spec => []SentOnce
<1>1. Inv => SentOnce
  BY DEF Inv, CountInv, SentOnce
<1>2. QED
  BY <1>1, SpecInv, PTL

\* While the consumer's channel is open an email has one copy (the retry).
THEOREM CopyCorrect == Spec => []OneCopy
<1>1. Inv => OneCopy
  <2> SUFFICES ASSUME Inv, sub \in up, NEW e \in Emails
               PROVE  /\ \A t, u \in timers : t[1] = e /\ u[1] = e => t = u
                      /\ Pending(e) /\ InQueue(e) => work.pc = "ack" /\ work.email = e
    BY DEF OneCopy
  <2>1. \A t, u \in timers : t[1] = e /\ u[1] = e => t = u
    BY DEF Inv, CopyInv
  <2>2. ASSUME Pending(e), InQueue(e) PROVE work.pc = "ack" /\ work.email = e
    <3>1. mail[e].at \in {"none", "ready", "unacked"} /\ work.pc \in {"idle", "send", "ack"}
      BY DEF Inv, TypeOK, Message, Delivery
    <3>2. Unacked(e)
      BY <2>2, <3>1 DEF Inv, CopyInv, InQueue, Waits, Unacked
    <3>3. QED
      BY <2>2, <3>1, <3>2 DEF Inv, AckInv, CopyInv, Sending
  <2>3. QED
    BY <2>1, <2>2
<1>2. QED
  BY <1>1, SpecInv, PTL

(***************************************************************************)
(* Refinement of Outbox                                                    *)
(***************************************************************************)
\* The consumer can be at an email that RabbitMQ lost in a restart: a copy, which
\* was not persistent.  At rest it is at none.
HeldInv ==
  /\ \A e \in Emails : Sending(e) /\ ~InQueue(e) => e \in failed
  /\ work.pc = "idle" => work.email = None

LEMMA InitHeld == Init => HeldInv
BY DEF Init, HeldInv, Sending, NoWork

LEMMA RestHeld ==
  ASSUME work' = NoWork
  PROVE  HeldInv'
BY DEF HeldInv, Sending, NoWork

LEMMA SameHeld ==
  ASSUME HeldInv, work' = work, failed \subseteq failed',
         \A e \in Emails : InQueue(e) => InQueue(e)' \/ e \in failed
  PROVE  HeldInv'
BY DEF HeldInv, Sending

LEMMA AckHeld ==
  ASSUME work'.pc = "ack"
  PROVE  HeldInv'
BY DEF HeldInv, Sending

\* What RabbitMQ takes back stays in its queue.
LEMMA RequeuedStays ==
  ASSUME TypeOK, mail' = Requeued, NEW e \in Emails
  PROVE  InQueue(e)' <=> InQueue(e)
BY RequeuedFacts DEF InQueue

\* A restart of RabbitMQ takes copies only, of what failed before.
LEMMA RestartTakes ==
  ASSUME Inv, BrokerRestarts, NEW e \in Emails
  PROVE  /\ InQueue(e)' => InQueue(e)
         /\ InQueue(e) => InQueue(e)' \/ e \in failed
<1>1. mail'[e] = IF InQueue(e) /\ ~mail[e].kept THEN NoMessage ELSE Requeued[e]
  BY DEF BrokerRestarts
<1>2. Requeued[e].at = IF InQueue(e) THEN "ready" ELSE "none"
  BY RequeuedFacts DEF Inv
<1>3. InQueue(e) /\ ~mail[e].kept => e \in failed
  BY DEF Inv, LossInv
<1>4. QED
  BY <1>1, <1>2, <1>3 DEF InQueue, NoMessage

\* A goroutine's copy joins RabbitMQ's messages, or is dropped.
LEMMA RepublishKeeps ==
  ASSUME Inv, NEW t \in timers, Republish(t), NEW e \in Emails
  PROVE  /\ InQueue(e) => InQueue(e)'
         /\ InQueue(e)' => InQueue(e) \/ (e = t[1] /\ sub \in up)
         /\ sub \in up /\ e = t[1] => InQueue(e)'
<1>1. mail \in [Emails -> Message] /\ t[1] \in Emails
  BY DEF Inv, TypeOK
<1>2. CASE sub \in up
  <2>1. mail' = [mail EXCEPT ![t[1]] = [at |-> "ready", tries |-> t[2], kept |-> FALSE]]
    BY <1>2 DEF Republish
  <2>2. e = t[1] => mail'[e].at = "ready"
    BY <1>1, <2>1
  <2>3. e # t[1] => mail'[e] = mail[e]
    BY <1>1, <2>1
  <2>4. QED
    BY <1>2, <2>2, <2>3 DEF InQueue
<1>3. CASE sub \notin up
  BY <1>3 DEF Republish, InQueue
<1>4. QED
  BY <1>2, <1>3

LEMMA NextHeld == Inv /\ HeldInv /\ [Next]_vars => HeldInv'
<1> SUFFICES ASSUME Inv, HeldInv, [Next]_vars PROVE HeldInv'
  OBVIOUS
<1>1. TypeOK
  BY DEF Inv
<1>2. CASE UNCHANGED vars \/ UNCHANGED <<process, queue, history, faults>> \/ StartEmailConsumer
  <2>1. UNCHANGED <<work, mail, failed>>
    BY <1>2 DEF vars, process, queue, history, StartEmailConsumer
  <2>2. QED
    BY <2>1, SameHeld DEF InQueue
<1>3. CASE ConnectionDrops
  BY <1>1, <1>3, RequeuedStays, SameHeld DEF ConnectionDrops, process
<1>4. CASE BrokerRestarts
  <2>1. UNCHANGED <<work, failed>>
    BY <1>4 DEF BrokerRestarts, process
  <2>2. QED
    BY <1>4, <2>1, RestartTakes, SameHeld
<1>5. CASE ProcessEnds
  BY <1>5, RestHeld DEF ProcessEnds
<1>6. ASSUME NEW e \in Emails, PublishToQueue(e) \/ PublishFails(e) PROVE HeldInv'
  <2>1. UNCHANGED <<work, failed>>
    BY <1>6 DEF PublishToQueue, PublishFails, process, history
  <2>2. \A f \in Emails : InQueue(f) => InQueue(f)'
    BY <1>1, <1>6 DEF PublishToQueue, PublishFails, InQueue, TypeOK
  <2>3. QED
    BY <2>1, <2>2, SameHeld
<1>7. ASSUME NEW e \in Emails, PublishVanishes(e) PROVE HeldInv'
  BY <1>1, <1>7, RequeuedStays, SameHeld DEF PublishVanishes, process
<1>8. ASSUME NEW e \in Emails, Take(e) PROVE HeldInv'
  <2>1. work'.pc = "send" /\ work'.email = e
    BY <1>8 DEF Take
  <2>2. InQueue(e)'
    BY <1>1, <1>8 DEF Take, InQueue, TypeOK, Message
  <2>3. QED
    BY <2>1, <2>2 DEF HeldInv, Sending
<1>9. ASSUME NEW e \in Emails, SendSucceeds(e) \/ SendRejected(e) \/ SendFails(e) PROVE HeldInv'
  <2>1. work' = [work EXCEPT !.pc = "ack"]
    BY <1>9 DEF SendSucceeds, SendRejected, SendFails
  <2>2. work \in Delivery
    BY <1>1 DEF TypeOK
  <2>3. work'.pc = "ack"
    BY <2>1, <2>2 DEF Delivery
  <2>4. QED
    BY <2>3, AckHeld
<1>10. ASSUME NEW e \in Emails, Settle(e) PROVE HeldInv'
  BY <1>10, RestHeld DEF Settle
<1>11. ASSUME NEW t \in timers, Republish(t) PROVE HeldInv'
  <2>1. UNCHANGED <<work, failed>>
    BY <1>11 DEF Republish
  <2>2. QED
    BY <1>11, <2>1, RepublishKeeps, SameHeld
<1>12. QED
  BY <1>2, <1>3, <1>4, <1>5, <1>6, <1>7, <1>8, <1>9, <1>10, <1>11
  DEF Next, Crash, Close, StartFails, PublishPanics

LEMMA InitOutbox == Init => Mailing!Init
<1> SUFFICES ASSUME Init PROVE Mailing!Init
  OBVIOUS
<1>1. \A e \in Emails : ~Held(e)
  BY NoneAssumption DEF Init, Held, InQueue, NoMessage, Pending, NoWork
<1>2. QED
  BY <1>1 DEF Init, Mailing!Init

\* A step that changes none of the outbox's state.
LEMMA Unseen ==
  ASSUME UNCHANGED <<stage, sent, again, failed, given>>,
         \A e \in Emails : Held(e)' <=> Held(e)
  PROVE  UNCHANGED Mailing!vars
BY DEF Mailing!vars

\* A step that lets go of emails and breaks deliveries off.
LEMMA LetsGo ==
  ASSUME TypeOK, UNCHANGED <<sent, failed, given>>, again' = again \/ again' = Repeated,
         \A e \in Emails : Held(e)' => Held(e),
         \A e \in Emails : Held(e) => Held(e)' \/ sent[e] > 0 \/ e \in given \/ e \in failed
  PROVE  Mailing!LetGo
<1>1. /\ again \in [Emails -> Nat] /\ again' \in [Emails -> Nat]
      /\ \A e \in Emails : again'[e] # again[e] => Unacked(e) /\ again'[e] = again[e] + 1
  BY RequeuedFacts DEF TypeOK
<1>2. \A e \in Emails : Unacked(e) => Held(e)
  BY DEF Unacked, Held, InQueue
<1> DEFINE H == {e \in Emails : Held(e)}
<1>3. H' \subseteq H /\ \A e \in H \ H' : Mailing!MayGo(e)
  BY DEF Mailing!MayGo
<1>4. \A e \in Emails : again'[e] # again[e] => e \in H /\ again'[e] = again[e] + 1
  BY <1>1, <1>2
<1>5. QED
  BY <1>1, <1>3, <1>4 DEF Mailing!LetGo

\* The connections drop, and with them perhaps the publish of an email.
LEMMA DropLetsGo ==
  ASSUME Inv, UNCHANGED <<process, sent, failed, given>>, again' = Repeated,
         mail' = Requeued \/ BrokerRestarts
  PROVE  Mailing!LetGo
<1>1. TypeOK /\ UNCHANGED <<work, timers>>
  BY DEF Inv, process
<1>2. ASSUME NEW e \in Emails
      PROVE  (Held(e)' => Held(e)) /\ (Held(e) => Held(e)' \/ e \in failed)
  <2>1. (InQueue(e)' => InQueue(e)) /\ (InQueue(e) => InQueue(e)' \/ e \in failed)
    BY <1>1, RequeuedStays, RestartTakes
  <2>2. QED
    BY <1>1, <2>1 DEF Held, Pending
<1>3. QED
  BY <1>1, <1>2, LetsGo

\* The process ends: goroutines held copies of what failed, and what the consumer
\* was at waits in the queue again unless it was answered or a copy lost before.
LEMMA EndLetsGo ==
  ASSUME Inv, HeldInv, ProcessEnds
  PROVE  Mailing!LetGo
<1>1. /\ TypeOK /\ mail' = Requeued /\ again' = Repeated /\ work' = NoWork /\ timers' = {}
      /\ UNCHANGED <<sent, failed, given>>
  BY DEF Inv, ProcessEnds
<1>2. ASSUME NEW e \in Emails
      PROVE  /\ Held(e)' => Held(e)
             /\ Held(e) => Held(e)' \/ sent[e] > 0 \/ e \in given \/ e \in failed
  <2>1. InQueue(e)' <=> InQueue(e)
    BY <1>1, RequeuedStays
  <2>2. ~Pending(e)' /\ work'.email # e
    BY <1>1, NoneAssumption DEF Pending, NoWork
  <2>3. Pending(e) => e \in failed
    BY DEF Inv, LossInv
  <2>4. work.email = e => InQueue(e) \/ sent[e] > 0 \/ e \in given \/ e \in failed
    <3>1. work.email = e => work.pc \in {"send", "ack"}
      BY <1>1, NoneAssumption DEF HeldInv, TypeOK, Delivery
    <3>2. work.pc = "send" /\ work.email = e => InQueue(e) \/ e \in failed
      BY DEF HeldInv, Sending
    <3>3. work.pc = "ack" /\ work.email = e => sent[e] > 0 \/ e \in given \/ e \in failed
      BY <2>3 DEF Inv, LossInv, Sent
    <3>4. QED
      BY <3>1, <3>2, <3>3
  <2>5. QED
    BY <2>1, <2>2, <2>3, <2>4 DEF Held
<1>3. QED
  BY <1>1, <1>2, LetsGo

LEMMA PublishMails ==
  ASSUME Inv, NEW e \in Emails, PublishToQueue(e)
  PROVE  Mailing!Publish(e)
<1>1. /\ stage[e] = "new" /\ stage' = [stage EXCEPT ![e] = "queued"]
      /\ UNCHANGED <<work, timers, sent, again, failed, given>>
  BY DEF PublishToQueue, process, history
<1>2. \A f \in Emails : InQueue(f)' <=> InQueue(f) \/ f = e
  <2>1. mail \in [Emails -> Message]
    BY DEF Inv, TypeOK
  <2>2. mail' = [mail EXCEPT ![e] = [at |-> "ready", tries |-> 0, kept |-> TRUE]]
    BY DEF PublishToQueue
  <2>3. mail'[e].at = "ready" /\ \A f \in Emails : f # e => mail'[f] = mail[f]
    BY <2>1, <2>2
  <2>4. QED
    BY <2>3 DEF InQueue
<1>3. \A f \in Emails : Held(f)' <=> Held(f) \/ f = e
  BY <1>1, <1>2 DEF Held, Pending
<1>4. {f \in Emails : Held(f)}' = {f \in Emails : Held(f)} \cup {e}
  BY <1>3
<1>5. QED
  BY <1>1, <1>4 DEF Mailing!Publish, Mailing!Tell

\* The consumer is told by SES of an email that is due, and keeps it.
LEMMA SendingDue ==
  ASSUME Inv, NEW e \in Emails, Sending(e)
  PROVE  Mailing!Due(e)
<1>1. Held(e)
  BY DEF Sending, Held
<1>2. sent[e] <= again[e]
  BY DEF Inv, CountInv, Carried
<1>3. QED
  BY <1>1, <1>2 DEF Mailing!Due

LEMMA AnswerHeld ==
  ASSUME Inv, NEW e \in Emails, Sending(e), work' = [work EXCEPT !.pc = "ack"], mail' = mail,
         timers' = timers \/ timers' = timers \cup {<<e, work.tries + 1>>}
  PROVE  {f \in Emails : Held(f)}' = {f \in Emails : Held(f)}
<1>1. work \in Delivery
  BY DEF Inv, TypeOK
<1>2. work'.email = work.email
  BY <1>1 DEF Delivery
<1>3. ASSUME NEW f \in Emails PROVE Held(f)' <=> Held(f)
  <2>1. CASE f = e
    BY <2>1, <1>2 DEF Held, Sending
  <2>2. CASE f # e
    <3>1. Pending(f)' <=> Pending(f)
      BY <2>2 DEF Pending
    <3>2. QED
      BY <1>2, <3>1 DEF Held, InQueue
  <2>3. QED
    BY <2>1, <2>2
<1>4. QED
  BY <1>3

LEMMA SendMails ==
  ASSUME Inv, NEW e \in Emails, SendSucceeds(e) \/ SendRejected(e) \/ SendFails(e)
  PROVE  Mailing!Send(e) \/ Mailing!Reject(e) \/ Mailing!Fail(e)
<1>1. /\ Sending(e) /\ work' = [work EXCEPT !.pc = "ack"] /\ UNCHANGED <<mail, stage>>
      /\ timers' = timers \/ timers' = timers \cup {<<e, work.tries + 1>>}
  BY DEF SendSucceeds, SendRejected, SendFails, Schedule, queue
<1>2. {f \in Emails : Held(f)}' = {f \in Emails : Held(f)}
  BY <1>1, AnswerHeld
<1>3. Mailing!Due(e)
  BY <1>1, SendingDue
<1>4. CASE SendSucceeds(e)
  BY <1>1, <1>2, <1>3, <1>4 DEF SendSucceeds, Mailing!Send
<1>5. CASE SendRejected(e)
  BY <1>1, <1>2, <1>3, <1>5 DEF SendRejected, Mailing!Reject
<1>6. CASE SendFails(e)
  <2>1. given' \in {given, given \cup {e}}
    BY <1>6 DEF SendFails, Schedule
  <2>2. QED
    BY <1>1, <1>2, <1>3, <1>6, <2>1 DEF SendFails, Mailing!Fail
<1>7. QED
  BY <1>4, <1>5, <1>6

LEMMA TakeMails ==
  ASSUME Inv, HeldInv, NEW e \in Emails, Take(e)
  PROVE  UNCHANGED Mailing!vars
<1>1. /\ work'.email = e /\ work.email = None
      /\ UNCHANGED <<timers, stage, sent, again, failed, given>>
  BY DEF HeldInv, Take, history
<1>2. InQueue(e) /\ \A f \in Emails : InQueue(f)' <=> InQueue(f)
  <2>1. mail \in [Emails -> Message] /\ mail[e] \in Message
    BY DEF Inv, TypeOK
  <2>2. mail[e].at = "ready" /\ mail' = [mail EXCEPT ![e] = [mail[e] EXCEPT !.at = "unacked"]]
    BY DEF Take
  <2>3. mail'[e].at = "unacked" /\ \A f \in Emails : f # e => mail'[f] = mail[f]
    BY <2>1, <2>2 DEF Message
  <2>4. QED
    BY <2>2, <2>3 DEF InQueue
<1>3. \A f \in Emails : Held(f)' <=> Held(f)
  BY <1>1, <1>2, NoneAssumption DEF Held, Pending
<1>4. QED
  BY <1>1, <1>3, Unseen

\* What is acknowledged was sent or given up, or its copy is with a goroutine.
LEMMA SettleMails ==
  ASSUME Inv, NEW e \in Emails, Settle(e)
  PROVE  Mailing!LetGo
<1>1. /\ TypeOK /\ work.pc = "ack" /\ work.email = e /\ work' = NoWork
      /\ UNCHANGED <<timers, sent, again, failed, given>>
  BY DEF Inv, Settle, history
<1>2. ASSUME NEW f \in Emails PROVE (InQueue(f)' => InQueue(f)) /\ (f # e => (InQueue(f) => InQueue(f)'))
  <2>1. CASE sub \in up
    <3>1. mail' = [mail EXCEPT ![e] = NoMessage] /\ mail \in [Emails -> Message]
      BY <1>1, <2>1 DEF Settle, TypeOK
    <3>2. QED
      BY <3>1 DEF InQueue, NoMessage
  <2>2. CASE sub \notin up
    BY <2>2 DEF Settle, InQueue
  <2>3. QED
    BY <2>1, <2>2
<1>3. sent[e] > 0 \/ e \in given \/ e \in failed
  BY <1>1 DEF Inv, LossInv, Sent
<1>4. ASSUME NEW f \in Emails
      PROVE  /\ Held(f)' => Held(f)
             /\ Held(f) => Held(f)' \/ sent[f] > 0 \/ f \in given \/ f \in failed
  <2>1. work'.email # f
    BY <1>1, NoneAssumption DEF NoWork
  <2>2. Pending(f)' <=> Pending(f)
    BY <1>1 DEF Pending
  <2>3. CASE f = e
    BY <2>1, <2>2, <2>3, <1>1, <1>2, <1>3 DEF Held
  <2>4. CASE f # e
    BY <2>1, <2>2, <2>4, <1>1, <1>2 DEF Held
  <2>5. QED
    BY <2>3, <2>4
<1>5. QED
  BY <1>1, <1>4, LetsGo

\* The copy a goroutine had is RabbitMQ's, or dropped: the email failed before.
LEMMA RepublishMails ==
  ASSUME Inv, NEW t \in timers, Republish(t)
  PROVE  Mailing!LetGo
<1>1. TypeOK /\ timers' = timers \ {t} /\ UNCHANGED <<work, sent, again, failed, given>>
  BY DEF Inv, Republish
<1>2. t[1] \in Emails /\ Pending(t[1]) /\ t[1] \in failed
  BY DEF Inv, TypeOK, Pending, LossInv
<1>3. ASSUME NEW f \in Emails
      PROVE  (Held(f)' => Held(f)) /\ (Held(f) => Held(f)' \/ f \in failed)
  <2>1. CASE f = t[1]
    BY <1>2, <2>1 DEF Held
  <2>2. CASE f # t[1]
    <3>1. InQueue(f)' <=> InQueue(f)
      BY <2>2, RepublishKeeps
    <3>2. Pending(f)' <=> Pending(f)
      BY <1>1, <2>2 DEF Pending
    <3>3. QED
      BY <1>1, <3>1, <3>2 DEF Held
  <2>3. QED
    BY <2>1, <2>2
<1>4. QED
  BY <1>1, <1>3, LetsGo

LEMMA NextOutbox ==
  ASSUME Inv, HeldInv, [Next]_vars
  PROVE  [Mailing!Next]_Mailing!vars
<1>1. CASE UNCHANGED vars \/ UNCHANGED <<process, queue, history, faults>> \/ StartEmailConsumer
  <2>1. UNCHANGED <<work, timers, mail, stage, sent, again, failed, given>>
    BY <1>1 DEF vars, process, queue, history, StartEmailConsumer
  <2>2. \A e \in Emails : Held(e)' <=> Held(e)
    BY <2>1 DEF Held, InQueue, Pending
  <2>3. QED
    BY <2>1, <2>2, Unseen
<1>2. CASE ConnectionDrops \/ BrokerRestarts
  <2>1. UNCHANGED <<process, stage, sent, failed, given>> /\ again' = Repeated
    BY <1>2 DEF ConnectionDrops, BrokerRestarts
  <2>2. Mailing!LetGo
    BY <1>2, <2>1, DropLetsGo DEF ConnectionDrops
  <2>3. QED
    BY <2>1, <2>2 DEF Mailing!Next
<1>3. CASE Crash \/ Close \/ StartFails
  <2>1. ProcessEnds /\ UNCHANGED stage
    BY <1>3 DEF Crash, Close, StartFails
  <2>2. QED
    BY <2>1, EndLetsGo DEF Mailing!Next
<1>4. ASSUME NEW e \in Emails, PublishToQueue(e) PROVE Mailing!Next
  BY <1>4, PublishMails DEF Mailing!Next
<1>5. ASSUME NEW e \in Emails, PublishVanishes(e) PROVE Mailing!Next
  <2>1. Mailing!LetGo
    BY <1>5, DropLetsGo DEF PublishVanishes
  <2>2. Mailing!Tell(e, "queued")
    BY <1>5 DEF PublishVanishes, Mailing!Tell
  <2>3. QED
    BY <2>1, <2>2 DEF Mailing!Next
<1>6. ASSUME NEW e \in Emails, PublishFails(e) PROVE Mailing!Next
  <2>1. UNCHANGED <<work, timers, mail, sent, again, failed, given>> /\ TypeOK
    BY <1>6 DEF PublishFails, process, history, Inv
  <2>2. \A f \in Emails : Held(f)' <=> Held(f)
    BY <2>1 DEF Held, InQueue, Pending
  <2>3. Mailing!LetGo
    BY <2>1, <2>2, LetsGo
  <2>4. Mailing!Tell(e, "refused")
    BY <1>6 DEF PublishFails, Mailing!Tell
  <2>5. QED
    BY <2>3, <2>4 DEF Mailing!Next
<1>7. ASSUME NEW e \in Emails, PublishPanics(e) PROVE Mailing!Next
  <2>1. Mailing!LetGo
    BY <1>7, EndLetsGo DEF PublishPanics
  <2>2. Mailing!Tell(e, "refused")
    BY <1>7 DEF PublishPanics, Mailing!Tell
  <2>3. QED
    BY <2>1, <2>2 DEF Mailing!Next
<1>8. ASSUME NEW e \in Emails, Take(e) PROVE UNCHANGED Mailing!vars
  BY <1>8, TakeMails
<1>9. ASSUME NEW e \in Emails, SendSucceeds(e) \/ SendRejected(e) \/ SendFails(e)
      PROVE  Mailing!Next
  BY <1>9, SendMails DEF Mailing!Next
<1>10. ASSUME NEW e \in Emails, Settle(e) PROVE Mailing!Next
  <2>1. stage' = stage
    BY <1>10 DEF Settle
  <2>2. QED
    BY <1>10, <2>1, SettleMails DEF Mailing!Next
<1>11. ASSUME NEW t \in timers, Republish(t) PROVE Mailing!Next
  <2>1. stage' = stage
    BY <1>11 DEF Republish
  <2>2. QED
    BY <1>11, <2>1, RepublishMails DEF Mailing!Next
<1>12. QED
  BY <1>1, <1>2, <1>3, <1>4, <1>5, <1>6, <1>7, <1>8, <1>9, <1>10, <1>11 DEF Next

\* Publishing, the consumer and its copies implement Outbox: an email is let go of
\* only when it was sent, given up or failed, and is never mailed afterwards.
THEOREM ImplementsOutbox == Spec => KeepsOutbox
<1>1. Init => HeldInv /\ Mailing!Init
  BY InitHeld, InitOutbox
<1>2. Inv /\ HeldInv /\ [Next]_vars => HeldInv' /\ [Mailing!Next]_Mailing!vars
  BY NextHeld, NextOutbox
<1>3. QED
  BY <1>1, <1>2, SpecInv, PTL DEF Spec, KeepsOutbox, Mailing!Spec
=============================================================================
