-------------------------------- MODULE Broker --------------------------------
(***************************************************************************)
(* The process's connection to RabbitMQ: the first connection at start-up, *)
(* the goroutine that watches it, and the reconnection after a drop.       *)
(*                                                                         *)
(* One goroutine at a time connects or watches: connectWithRetry ends by   *)
(* starting a new watcher, and the old one returns.  Its place is pc.  A   *)
(* channel is named by its connection, and connections are numbered as     *)
(* they are dialed; 0 is Go's nil.                                         *)
(***************************************************************************)
EXTENDS Naturals

CONSTANT MaxRetries    \* cfg.RabbitMQ.MaxRetries: the dials of one connectWithRetry

ASSUME RetryAssumption == MaxRetries \in Nat \ {0}

VARIABLES
  pc,        \* where the goroutine stands; "off" while the process is down
  tries,     \* the dial it is at
  Conn,      \* broker.Conn
  Channel,   \* broker.Channel
  watched,   \* the connection the watcher was told to watch
  dialed,    \* connections so far
  up,        \* those that are open
  \* What happened:
  unseen     \* the connection dropped before the watcher listened

broker == <<pc, tries, Conn, Channel, watched, dialed, up, unseen>>

Places == {"off", "dial", "channel", "listen", "wait", "sleep", "returned"}

BrokerTypeOK ==
  /\ pc \in Places
  /\ tries \in 1 .. MaxRetries
  /\ Conn \in Nat
  /\ Channel \in Nat
  /\ watched \in Nat
  /\ dialed \in Nat
  /\ up \subseteq 1 .. dialed
  /\ unseen \in BOOLEAN

BrokerInit ==
  /\ pc = "off"
  /\ tries = 1
  /\ Conn = 0
  /\ Channel = 0
  /\ watched = 0
  /\ dialed = 0
  /\ up = {}
  /\ unseen = FALSE

\* The process ends, and its connections with it.
Stop ==
  /\ pc' = "off"
  /\ tries' = 1
  /\ Conn' = 0
  /\ Channel' = 0
  /\ watched' = 0
  /\ up' = {}
  /\ unseen' = FALSE
  /\ UNCHANGED dialed

\* Connect, at start-up, until it returns without an error.
Connecting == pc \in {"off", "dial", "channel"} /\ watched = 0

\* Its error is fatal at start-up; the watcher sleeps and tries again.
ConnectFails ==
  IF watched = 0 THEN Stop
                 ELSE pc' = "sleep" /\ UNCHANGED <<watched, dialed, up, unseen>>

(***************************************************************************)
(* connectWithRetry, which holds mu from its first dial to its return      *)
(***************************************************************************)
\* The process is started, or the watcher's five seconds are over.
Connect ==
  /\ pc \in {"off", "sleep"}
  /\ pc' = "dial"
  /\ tries' = 1
  /\ UNCHANGED <<Conn, Channel, watched, dialed, up, unseen>>

Dial ==
  /\ pc = "dial"
  /\ dialed' = dialed + 1
  /\ up' = up \cup {dialed + 1}
  /\ Conn' = dialed + 1
  /\ pc' = "channel"
  /\ UNCHANGED <<tries, Channel, watched, unseen>>

\* Another dial after a pause; Dial has set Conn to nil.
DialAgain ==
  /\ pc = "dial" /\ tries < MaxRetries
  /\ tries' = tries + 1
  /\ Conn' = 0
  /\ UNCHANGED <<pc, Channel, watched, dialed, up, unseen>>

\* A mistake to check against: the watcher returns with the error.
GiveUpForGood ==
  /\ pc = "dial" /\ tries = MaxRetries
  /\ pc' = "returned"
  /\ Conn' = 0
  /\ UNCHANGED <<tries, Channel, watched, dialed, up, unseen>>

GiveUp ==
  /\ pc = "dial" /\ tries = MaxRetries
  /\ ConnectFails
  /\ Conn' = 0
  /\ watched # 0 => UNCHANGED <<tries, Channel>>

OpenChannel ==
  /\ pc = "channel" /\ Conn \in up
  /\ Channel' = Conn
  /\ pc' = "listen"
  /\ UNCHANGED <<tries, Conn, watched, dialed, up, unseen>>

\* The connection is gone again; Channel becomes nil, for every publisher.
NoChannel ==
  /\ pc = "channel" /\ Conn \notin up
  /\ ConnectFails
  /\ Channel' = 0
  /\ watched # 0 => UNCHANGED <<tries, Conn>>

(***************************************************************************)
(* watchConnectionDrops                                                    *)
(***************************************************************************)
Listen ==
  /\ pc = "listen" /\ Conn \in up
  /\ pc' = "wait"
  /\ watched' = Conn
  /\ UNCHANGED <<tries, Conn, Channel, dialed, up, unseen>>

\* NotifyClose on a closed connection yields no error: nobody reconnects.
ListenTooLate ==
  /\ pc = "listen" /\ Conn \notin up
  /\ pc' = "returned"
  /\ unseen' = TRUE
  /\ UNCHANGED <<tries, Conn, Channel, watched, dialed, up>>

NoticeDrop ==
  /\ pc = "wait" /\ watched \notin up
  /\ pc' = "sleep"
  /\ UNCHANGED <<tries, Conn, Channel, watched, dialed, up, unseen>>

\* Close, at shutdown, waits for mu.
CanClose == pc \notin {"off", "dial", "channel"}

\* The network or RabbitMQ closes every connection.
Drop ==
  /\ up # {}
  /\ up' = {}
  /\ UNCHANGED <<pc, tries, Conn, Channel, watched, dialed, unseen>>

\* The steps of the goroutine that concern nobody else.
BrokerStep ==
  \/ Connect \/ Dial \/ DialAgain \/ OpenChannel
  \/ Listen \/ ListenTooLate \/ NoticeDrop

BrokerFairness ==
  /\ WF_broker(Connect)
  /\ SF_broker(Dial)
  /\ WF_broker(OpenChannel \/ NoChannel)
  /\ WF_broker(Listen \/ ListenTooLate)
  /\ WF_broker(NoticeDrop)
=============================================================================
