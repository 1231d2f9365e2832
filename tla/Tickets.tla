------------------------------- MODULE Tickets --------------------------------
(***************************************************************************)
(* Support tickets: a row with a status, a conversation, and replies that  *)
(* write one after the other without a transaction.                        *)
(*                                                                         *)
(* A request takes a step for each of its statements.  Requests for a      *)
(* ticket by somebody else than its owner are refused and change nothing;  *)
(* so do empty replies.                                                    *)
(***************************************************************************)
EXTENDS Naturals, SequencesExt

CONSTANTS
  Tickets,
  Calls,        \* the requests the server handles at a time
  MaxMessages,  \* bound of a run, of a conversation
  MaxFaults,    \* bound of a run
  None

ASSUME NoneAssumption  == None \notin Tickets
ASSUME BoundAssumption == MaxMessages \in Nat /\ MaxFaults \in Nat

VARIABLES
  status,    \* status[t]: the row's status, "absent" without a row
  talk,      \* talk[t]: who wrote the messages
  call,      \* call[c]: the request c is at work on
  \* What happened:
  known,     \* the tickets that were opened: a UUID is drawn once
  halved,    \* tickets whose first message was refused or failed
  crossed,   \* tickets whose user's last message came between the writes of an admin's
             \* reply, or was the first and came after it
  decided,   \* tickets whose status was set on request since the user's last reply
  unmarked,  \* tickets whose user's last reply could not set the status
  faults

table == <<status, talk>>
marks == <<known, halved, crossed, decided, unmarked>>
vars  == <<table, call, marks, faults>>

TicketStatus == {"open", "in_progress", "resolved", "closed"}
Sender       == {"user", "admin"}

Call == [pc     : {"idle", "first", "message", "mark", "set"},
         by     : Sender,
         ticket : Tickets \cup {None},
         status : TicketStatus]          \* as read, or to be set

Idle == [pc |-> "idle", by |-> "user", ticket |-> None, status |-> "open"]

TypeOK ==
  /\ status \in [Tickets -> TicketStatus \cup {"absent"}]
  /\ talk \in [Tickets -> Seq(Sender)]
  /\ call \in [Calls -> Call]
  /\ known \subseteq Tickets
  /\ halved \subseteq Tickets
  /\ crossed \subseteq Tickets
  /\ decided \subseteq Tickets
  /\ unmarked \subseteq Tickets
  /\ faults \in 0 .. MaxFaults

Init ==
  /\ status = [t \in Tickets |-> "absent"]
  /\ talk = [t \in Tickets |-> <<>>]
  /\ call = [c \in Calls |-> Idle]
  /\ known = {}
  /\ halved = {}
  /\ crossed = {}
  /\ decided = {}
  /\ unmarked = {}
  /\ faults = 0

NoFault == UNCHANGED faults
Fault   == faults < MaxFaults /\ faults' = faults + 1

At(c, step)     == call[c].pc = step
Exists(t)       == status[t] # "absent"
Start(c, state) == At(c, "idle") /\ call' = [call EXCEPT ![c] = state]
Goto(c, step)   == call' = [call EXCEPT ![c].pc = step]
Stop(c)         == call' = [call EXCEPT ![c] = Idle]

(***************************************************************************)
(* The statements                                                          *)
(***************************************************************************)
\* AddMessage; the foreign key refuses a message to a ticket that is gone.
AddMessage(t, sender) ==
  /\ Exists(t)
  /\ Len(talk[t]) < MaxMessages
  /\ talk' = [talk EXCEPT ![t] = Append(@, sender)]

\* UpdateStatus: of a ticket that is gone, it changes no row and succeeds.
UpdateStatus(t, s) == status' = IF Exists(t) THEN [status EXCEPT ![t] = s] ELSE status

(***************************************************************************)
(* Opening                                                                 *)
(***************************************************************************)
Create(c, t) ==
  /\ t \notin known
  /\ Start(c, [Idle EXCEPT !.pc = "first", !.ticket = t])
  /\ known' = known \cup {t}
  /\ status' = [status EXCEPT ![t] = "open"]
  /\ UNCHANGED <<talk, halved, crossed, decided, unmarked, faults>>

\* It leaves the status alone, and an admin may have answered the bare row.
FirstMessage(c) == LET t == call[c].ticket IN
  /\ At(c, "first")
  /\ AddMessage(t, "user")
  /\ crossed' = IF "admin" \in ToSet(talk[t]) THEN crossed \cup {t} ELSE crossed
  /\ Stop(c)
  /\ UNCHANGED <<status, known, halved, decided, unmarked, faults>>

\* The message is empty, which only the table checks: the row stays.
FirstRefused(c) ==
  /\ At(c, "first")
  /\ halved' = halved \cup {call[c].ticket}
  /\ Stop(c)
  /\ UNCHANGED <<table, known, crossed, decided, unmarked, faults>>

OpenTicket(c) == \E t \in Tickets : Create(c, t)

(***************************************************************************)
(* Replies: read the ticket, add the message, set the status               *)
(***************************************************************************)
\* A mistake to check against: the missing row is not noticed.
GetByIDNoRow(c, t, sender) ==
  /\ Start(c, [pc |-> "message", by |-> sender, ticket |-> t, status |-> status[t]])
  /\ UNCHANGED <<table, marks, faults>>

GetByID(c, t, sender) ==
  /\ Exists(t)
  /\ Start(c, [pc |-> "message", by |-> sender, ticket |-> t, status |-> status[t]])
  /\ UNCHANGED <<table, marks, faults>>

Answering(t) == \E d \in Calls : At(d, "mark") /\ call[d].by = "admin" /\ call[d].ticket = t

\* A mistake to check against: a ticket at work is not opened again.
UserReplyOfClosed(c) == LET t == call[c].ticket IN
  /\ At(c, "message") /\ call[c].by = "user"
  /\ AddMessage(t, "user")
  /\ IF call[c].status \in {"resolved", "closed"} THEN Goto(c, "mark") ELSE Stop(c)
  /\ crossed' = IF Answering(t) THEN crossed \cup {t} ELSE crossed \ {t}
  /\ decided' = decided \ {t}
  /\ unmarked' = unmarked \ {t}
  /\ UNCHANGED <<status, known, halved, faults>>

UserReply(c) == LET t == call[c].ticket IN
  /\ At(c, "message") /\ call[c].by = "user"
  /\ AddMessage(t, "user")
  /\ Goto(c, "mark")
  /\ crossed' = IF Answering(t) THEN crossed \cup {t} ELSE crossed \ {t}
  /\ decided' = decided \ {t}
  /\ unmarked' = unmarked \ {t}
  /\ UNCHANGED <<status, known, halved, faults>>

\* Always, whatever the status: this reopens a closed ticket.
MarkOpen(c) ==
  /\ At(c, "mark") /\ call[c].by = "user"
  /\ UpdateStatus(call[c].ticket, "open")
  /\ Stop(c)
  /\ UNCHANGED <<talk, marks, faults>>

\* A mistake to check against: the status read is not looked at.
AdminReplyAlways(c) ==
  /\ At(c, "message") /\ call[c].by = "admin"
  /\ AddMessage(call[c].ticket, "admin")
  /\ Goto(c, "mark")
  /\ UNCHANGED <<status, marks, faults>>

\* The status counts that was read before the message was added.
AdminReply(c) ==
  /\ At(c, "message") /\ call[c].by = "admin"
  /\ AddMessage(call[c].ticket, "admin")
  /\ IF call[c].status = "open" THEN Goto(c, "mark") ELSE Stop(c)
  /\ UNCHANGED <<status, marks, faults>>

MarkInProgress(c) ==
  /\ At(c, "mark") /\ call[c].by = "admin"
  /\ UpdateStatus(call[c].ticket, "in_progress")
  /\ Stop(c)
  /\ UNCHANGED <<talk, marks, faults>>

\* An error of UpdateStatus is only logged.
MarkFails(c) == LET t == call[c].ticket IN
  /\ At(c, "mark")
  /\ unmarked' = IF call[c].by = "user" THEN unmarked \cup {t} ELSE unmarked
  /\ Fault
  /\ Stop(c)
  /\ UNCHANGED <<table, known, halved, crossed, decided>>

\* The ticket is gone, or the statement fails.
MessageFails(c) ==
  /\ At(c, "message")
  /\ Exists(call[c].ticket) => faults < MaxFaults
  /\ faults' = IF Exists(call[c].ticket) THEN faults + 1 ELSE faults
  /\ Stop(c)
  /\ UNCHANGED <<table, marks>>

HandleUserReply(c)  == \E t \in Tickets : GetByID(c, t, "user")
HandleAdminReply(c) == \E t \in Tickets : GetByID(c, t, "admin")

(***************************************************************************)
(* Setting the status, deletion                                            *)
(***************************************************************************)
\* A user's request reads the ticket first, for its owner.
UserUpdateStatus(c, t, s) ==
  /\ Exists(t)
  /\ Start(c, [pc |-> "set", by |-> "user", ticket |-> t, status |-> s])
  /\ UNCHANGED <<table, marks, faults>>

SetStatus(t, s) ==
  /\ UpdateStatus(t, s)
  /\ decided' = decided \cup {t}
  /\ UNCHANGED <<talk, known, halved, crossed, unmarked, faults>>

UserSets(c) == At(c, "set") /\ SetStatus(call[c].ticket, call[c].status) /\ Stop(c)

AdminUpdateStatus(t, s) == Exists(t) /\ SetStatus(t, s) /\ UNCHANGED call

\* A mistake to check against: the messages stay.
DeleteRow(t) ==
  /\ Exists(t)
  /\ status' = [status EXCEPT ![t] = "absent"]
  /\ UNCHANGED <<talk, call, marks, faults>>

\* The messages go with the row, by the foreign key.
DeleteTicket(t) ==
  /\ Exists(t)
  /\ status' = [status EXCEPT ![t] = "absent"]
  /\ talk' = [talk EXCEPT ![t] = <<>>]
  /\ UNCHANGED <<call, marks, faults>>

HandleUserUpdateStatus(c) == \E t \in Tickets, s \in TicketStatus : UserUpdateStatus(c, t, s)
HandleAdminUpdateStatus   == \E t \in Tickets, s \in TicketStatus : AdminUpdateStatus(t, s)
HandleDeleteTicket        == \E t \in Tickets : DeleteTicket(t)

Next ==
  \/ \E c \in Calls :
       \/ OpenTicket(c) \/ FirstMessage(c) \/ FirstRefused(c)
       \/ HandleUserReply(c) \/ UserReply(c) \/ MarkOpen(c)
       \/ HandleAdminReply(c) \/ AdminReply(c) \/ MarkInProgress(c)
       \/ MarkFails(c) \/ MessageFails(c)
       \/ HandleUserUpdateStatus(c) \/ UserSets(c)
  \/ HandleAdminUpdateStatus \/ HandleDeleteTicket

Spec == Init /\ [][Next]_vars

(***************************************************************************)
(* Properties                                                              *)
(***************************************************************************)
\* "Always update ticket status to 'open' when a user replies": a ticket whose
\* last reply is the user's is open, unless somebody set its status since, the
\* status could not be set, or the message fell between the two writes of an
\* admin's reply, which then put the ticket to in_progress, or was the ticket's
\* first and came after an answer (OpenTicket, AddUserReply, AddAdminReply).
NoReplyOverlooked ==
  \A t \in Tickets : Exists(t) /\ talk[t] # <<>> /\ Last(talk[t]) = "user" =>
    \/ status[t] = "open"
    \/ t \in decided \cup unmarked \cup crossed
    \/ \E c \in Calls : At(c, "mark") /\ call[c].by = "user" /\ call[c].ticket = t

\* A conversation has a ticket; a ticket has the message it was opened with,
\* unless that message was refused or is yet to come (OpenTicket, DeleteTicket).
Whole ==
  \A t \in Tickets :
    /\ ~Exists(t) => talk[t] = <<>>
    /\ Exists(t) => \/ "user" \in ToSet(talk[t])
                    \/ t \in halved
                    \/ \E c \in Calls : At(c, "first") /\ call[c].ticket = t

\* A ticket that is resolved or closed is taken to in_progress by nobody but one
\* who asks for it and an admin whose reply read it while it was still open
\* (AddAdminReply).
DoneStaysDone ==
  [][\A t \in Tickets :
       /\ status[t] \in {"resolved", "closed"}
       /\ status'[t] = "in_progress"
       /\ t \notin decided'
       => \E c \in Calls : /\ At(c, "mark") /\ call[c].by = "admin"
                           /\ call[c].ticket = t /\ call[c].status = "open"]_vars
=============================================================================
