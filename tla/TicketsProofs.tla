---------------------------- MODULE TicketsProofs ----------------------------
(***************************************************************************)
(* Proofs of the safety properties of Tickets, for any tickets, calls,     *)
(* lengths of conversations and number of faults.                          *)
(***************************************************************************)
EXTENDS Tickets, TLAPS

(***************************************************************************)
(* Conversations and calls                                                 *)
(***************************************************************************)
LEMMA Appended ==
  ASSUME NEW s \in Seq(Sender), NEW x \in Sender
  PROVE  /\ Append(s, x) \in Seq(Sender)
         /\ Append(s, x) # <<>>
         /\ Last(Append(s, x)) = x
         /\ ToSet(Append(s, x)) = ToSet(s) \cup {x}
<1>1. /\ Append(s, x) \in Seq(Sender)
      /\ Len(Append(s, x)) = Len(s) + 1
      /\ Append(s, x)[Len(s) + 1] = x
      /\ \A i \in 1 .. Len(s) : Append(s, x)[i] = s[i]
  OBVIOUS
<1>2. DOMAIN s = 1 .. Len(s) /\ DOMAIN Append(s, x) = 1 .. (Len(s) + 1) /\ Len(s) \in Nat
  BY <1>1
<1>3. ToSet(Append(s, x)) = ToSet(s) \cup {x}
  <2>1. ASSUME NEW i \in 1 .. (Len(s) + 1)
        PROVE  Append(s, x)[i] \in ToSet(s) \cup {x}
    BY <1>1, <1>2 DEF ToSet
  <2>2. ASSUME NEW i \in 1 .. Len(s)
        PROVE  s[i] \in ToSet(Append(s, x))
    BY <1>1, <1>2 DEF ToSet
  <2>3. x \in ToSet(Append(s, x))
    BY <1>1, <1>2 DEF ToSet
  <2>4. QED
    BY <1>2, <2>1, <2>2, <2>3 DEF ToSet
<1>4. Append(s, x) # <<>> /\ Last(Append(s, x)) = x
  BY <1>1, <1>2 DEF Last
<1>5. QED
  BY <1>1, <1>3, <1>4

LEMMA EmptyTalk == <<>> \in Seq(Sender) /\ ToSet(<<>>) = {}
BY DEF ToSet

LEMMA IdleType == Idle \in Call
BY DEF Idle, Call, Sender, TicketStatus

\* Replacing the record of one call.
LEMMA OneCall ==
  ASSUME call \in [Calls -> Call], NEW c \in Calls, NEW r \in Call,
         call' = [call EXCEPT ![c] = r]
  PROVE  /\ call' \in [Calls -> Call]
         /\ call'[c] = r
         /\ \A d \in Calls : d # c => call'[d] = call[d]
OBVIOUS

LEMMA StopCall ==
  ASSUME call \in [Calls -> Call], NEW c \in Calls, Stop(c)
  PROVE  /\ call' \in [Calls -> Call]
         /\ call'[c] = Idle
         /\ \A d \in Calls : d # c => call'[d] = call[d]
BY IdleType DEF Stop

LEMMA MarkCall ==
  ASSUME call \in [Calls -> Call], NEW c \in Calls, Goto(c, "mark")
  PROVE  /\ call' \in [Calls -> Call]
         /\ call'[c] = [call[c] EXCEPT !.pc = "mark"]
         /\ \A d \in Calls : d # c => call'[d] = call[d]
<1>1. [call[c] EXCEPT !.pc = "mark"] \in Call
  BY DEF Call
<1>2. call' = [call EXCEPT ![c] = [call[c] EXCEPT !.pc = "mark"]]
  BY DEF Goto
<1>3. QED
  BY <1>1, <1>2, OneCall

\* One conversation grows, the others stay.
LEMMA OneTalk ==
  ASSUME talk \in [Tickets -> Seq(Sender)], NEW t \in Tickets, NEW x \in Sender, AddMessage(t, x)
  PROVE  /\ talk' \in [Tickets -> Seq(Sender)]
         /\ talk'[t] # <<>>
         /\ Last(talk'[t]) = x
         /\ ToSet(talk'[t]) = ToSet(talk[t]) \cup {x}
         /\ \A u \in Tickets : u # t => talk'[u] = talk[u]
<1>1. talk' = [talk EXCEPT ![t] = Append(talk[t], x)]
  BY DEF AddMessage
<1>2. talk'[t] = Append(talk[t], x) /\ Append(talk[t], x) \in Seq(Sender)
  BY <1>1, Appended
<1>3. talk' \in [Tickets -> Seq(Sender)] /\ \A u \in Tickets : u # t => talk'[u] = talk[u]
  BY <1>1, <1>2
<1>4. QED
  BY <1>2, <1>3, Appended

LEMMA LastInTalk ==
  ASSUME NEW s \in Seq(Sender), s # <<>>
  PROVE  Last(s) \in ToSet(s) /\ Last(s) \in Sender
<1>1. Len(s) \in 1 .. Len(s) /\ DOMAIN s = 1 .. Len(s) /\ s[Len(s)] \in Sender
  OBVIOUS
<1>2. QED
  BY <1>1 DEF Last, ToSet

(***************************************************************************)
(* The inductive invariant                                                 *)
(***************************************************************************)
\* A request is about a ticket that was opened; a ticket is opened once.
KnownInv ==
  /\ \A t \in Tickets : Exists(t) => t \in known
  /\ \A c \in Calls : ~At(c, "idle") => call[c].ticket \in known

\* An admin who is about to mark a ticket read it open and has answered; a
\* message of the user after the answer is crossed.
MarkInv ==
  \A c \in Calls : At(c, "mark") /\ call[c].by = "admin" =>
    /\ call[c].status = "open"
    /\ Exists(call[c].ticket) =>
         /\ "admin" \in ToSet(talk[call[c].ticket])
         /\ Last(talk[call[c].ticket]) = "user" => call[c].ticket \in crossed

\* Before the first message only a request changes the status.
EmptyInv ==
  \A t \in Tickets : Exists(t) /\ talk[t] = <<>> => status[t] = "open" \/ t \in decided

Inv == TypeOK /\ KnownInv /\ MarkInv /\ EmptyInv /\ NoReplyOverlooked /\ Whole

LEMMA TicketAtHand ==
  ASSUME TypeOK, KnownInv, NEW c \in Calls, ~At(c, "idle")
  PROVE  call[c].ticket \in Tickets /\ call[c].ticket \in known
BY DEF TypeOK, KnownInv

LEMMA InitInv == Init => Inv
<1> SUFFICES ASSUME Init PROVE Inv
  OBVIOUS
<1>1. TypeOK
  BY EmptyTalk, IdleType, BoundAssumption DEF Init, TypeOK
<1>2. KnownInv /\ MarkInv /\ EmptyInv /\ NoReplyOverlooked /\ Whole
  BY DEF Init, KnownInv, MarkInv, EmptyInv, NoReplyOverlooked, Whole, Exists, At, Idle
<1>3. QED
  BY <1>1, <1>2 DEF Inv

LEMMA StutterInv == Inv /\ UNCHANGED vars => Inv'
BY DEF Inv, vars, table, marks, TypeOK, KnownInv, MarkInv, EmptyInv, NoReplyOverlooked, Whole,
       Exists, At

(***************************************************************************)
(* Opening                                                                 *)
(***************************************************************************)
LEMMA CreateInv ==
  ASSUME Inv, NEW c \in Calls, NEW t \in Tickets, Create(c, t)
  PROVE  Inv'
<1> DEFINE r == [Idle EXCEPT !.pc = "first", !.ticket = t]
<1>1. r \in Call /\ r.pc = "first" /\ r.ticket = t
  BY IdleType DEF Call, Idle
<1> HIDE DEF r
<1>2. /\ call' \in [Calls -> Call] /\ call'[c] = r
      /\ \A d \in Calls : d # c => call'[d] = call[d]
  BY <1>1, OneCall DEF Create, Start, Inv, TypeOK, r
<1>3. /\ t \notin known /\ known' = known \cup {t} /\ status' = [status EXCEPT ![t] = "open"]
      /\ UNCHANGED <<talk, halved, crossed, decided, unmarked, faults>> /\ At(c, "idle")
  BY DEF Create, Start
<1>4. ~Exists(t) /\ talk[t] = <<>> /\ \A d \in Calls : ~At(d, "idle") => call[d].ticket # t
  BY <1>3 DEF Inv, KnownInv, Whole
<1>5. TypeOK'
  BY <1>2, <1>3 DEF Inv, TypeOK, TicketStatus
<1>6. status \in [Tickets -> TicketStatus \cup {"absent"}]
  BY DEF Inv, TypeOK
<1>7. KnownInv'
  BY <1>1, <1>2, <1>3, <1>6 DEF Inv, KnownInv, Exists, At
<1>8. MarkInv'
  BY <1>1, <1>2, <1>3, <1>4, <1>6 DEF Inv, MarkInv, Exists, At
<1>9. EmptyInv' /\ NoReplyOverlooked' /\ Whole'
  BY <1>1, <1>2, <1>3, <1>4, <1>6 DEF Inv, EmptyInv, NoReplyOverlooked, Whole, Exists, At
<1>10. QED
  BY <1>5, <1>7, <1>8, <1>9 DEF Inv

LEMMA FirstMessageInv ==
  ASSUME Inv, NEW c \in Calls, FirstMessage(c)
  PROVE  Inv'
<1> DEFINE t == call[c].ticket
<1>1. At(c, "first") /\ AddMessage(t, "user") /\ Stop(c)
      /\ crossed' = (IF "admin" \in ToSet(talk[t]) THEN crossed \cup {t} ELSE crossed)
      /\ UNCHANGED <<status, known, halved, decided, unmarked, faults>>
  BY DEF FirstMessage
<1>2. t \in Tickets /\ TypeOK
  BY <1>1, TicketAtHand DEF Inv, At
<1>3. /\ call' \in [Calls -> Call] /\ call'[c] = Idle
      /\ \A d \in Calls : d # c => call'[d] = call[d]
  BY <1>1, <1>2, StopCall DEF TypeOK
<1>4. /\ talk' \in [Tickets -> Seq(Sender)] /\ talk'[t] # <<>> /\ Last(talk'[t]) = "user"
      /\ ToSet(talk'[t]) = ToSet(talk[t]) \cup {"user"}
      /\ \A u \in Tickets : u # t => talk'[u] = talk[u]
  BY <1>1, <1>2, OneTalk DEF TypeOK, Sender
<1>5. Exists(t)
  BY <1>1 DEF AddMessage
<1>6. TypeOK'
  BY <1>1, <1>2, <1>3, <1>4 DEF TypeOK
<1>7. KnownInv'
  BY <1>1, <1>3 DEF Inv, KnownInv, Exists, At, Idle
<1>8. MarkInv'
  <2> SUFFICES ASSUME NEW d \in Calls, At(d, "mark")', call'[d].by = "admin"
               PROVE  /\ call'[d].status = "open"
                      /\ status'[call'[d].ticket] # "absent" =>
                           /\ "admin" \in ToSet(talk'[call'[d].ticket])
                           /\ Last(talk'[call'[d].ticket]) = "user" => call'[d].ticket \in crossed'
    BY DEF MarkInv, Exists
  <2>1. d # c /\ call'[d] = call[d] /\ At(d, "mark")
    BY <1>3 DEF At, Idle
  <2>2. call[d].ticket \in Tickets
    BY <2>1, <1>2, TicketAtHand DEF Inv, At
  <2>3. QED
    BY <1>1, <1>4, <2>1, <2>2 DEF Inv, MarkInv, Exists
<1>9. EmptyInv'
  BY <1>1, <1>4 DEF Inv, EmptyInv, Exists
<1>10. \A d \in Calls : At(d, "mark") => At(d, "mark")' /\ call'[d] = call[d]
  BY <1>1, <1>3 DEF At
<1>11. \/ "admin" \in ToSet(talk[t])
       \/ status[t] = "open"
       \/ t \in decided \cup unmarked \cup crossed
       \/ \E d \in Calls : At(d, "mark") /\ call[d].by = "user" /\ call[d].ticket = t
  <2>1. CASE talk[t] = <<>>
    BY <2>1, <1>2, <1>5 DEF Inv, EmptyInv
  <2>2. CASE talk[t] # <<>>
    <3>1. Last(talk[t]) \in ToSet(talk[t]) /\ Last(talk[t]) \in Sender
      BY <2>2, <1>2, LastInTalk DEF TypeOK
    <3>2. QED
      BY <3>1, <2>2, <1>2, <1>5 DEF Inv, NoReplyOverlooked, Sender
  <2>3. QED
    BY <2>1, <2>2
<1> HIDE DEF t
<1>12. NoReplyOverlooked'
  <2> SUFFICES ASSUME NEW u \in Tickets, Exists(u)', talk'[u] # <<>>, Last(talk'[u]) = "user"
               PROVE  \/ status'[u] = "open"
                      \/ u \in decided' \cup unmarked' \cup crossed'
                      \/ \E d \in Calls : At(d, "mark")' /\ call'[d].by = "user" /\ call'[d].ticket = u
    BY DEF NoReplyOverlooked
  <2>1. CASE u = t
    BY <2>1, <1>1, <1>10, <1>11
  <2>2. CASE u # t
    <3>1. Exists(u) /\ talk[u] # <<>> /\ Last(talk[u]) = "user"
      BY <2>2, <1>1, <1>4 DEF Exists
    <3>2. \/ status[u] = "open"
          \/ u \in decided \cup unmarked \cup crossed
          \/ \E d \in Calls : At(d, "mark") /\ call[d].by = "user" /\ call[d].ticket = u
      BY <3>1 DEF Inv, NoReplyOverlooked
    <3>3. QED
      BY <3>2, <1>1, <1>10
  <2>3. QED
    BY <2>1, <2>2
<1>13. Whole'
  <2> SUFFICES ASSUME NEW u \in Tickets
               PROVE  /\ ~Exists(u)' => talk'[u] = <<>>
                      /\ Exists(u)' => \/ "user" \in ToSet(talk'[u])
                                       \/ u \in halved'
                                       \/ \E d \in Calls : At(d, "first")' /\ call'[d].ticket = u
    BY DEF Whole
  <2>1. CASE u = t
    BY <2>1, <1>1, <1>4, <1>5 DEF Exists
  <2>2. CASE u # t
    <3>1. \A d \in Calls : At(d, "first") /\ call[d].ticket = u => At(d, "first")' /\ call'[d].ticket = u
      BY <2>2, <1>3 DEF At, t
    <3>2. QED
      BY <2>2, <3>1, <1>1, <1>4 DEF Inv, Whole, Exists
  <2>3. QED
    BY <2>1, <2>2
<1>14. QED
  BY <1>6, <1>7, <1>8, <1>9, <1>12, <1>13 DEF Inv

LEMMA FirstRefusedInv ==
  ASSUME Inv, NEW c \in Calls, FirstRefused(c)
  PROVE  Inv'
<1> DEFINE t == call[c].ticket
<1>1. At(c, "first") /\ Stop(c) /\ halved' = halved \cup {t}
      /\ UNCHANGED <<status, talk, known, crossed, decided, unmarked, faults>>
  BY DEF FirstRefused, table
<1>2. t \in Tickets /\ TypeOK
  BY <1>1, TicketAtHand DEF Inv, At
<1>3. /\ call' \in [Calls -> Call] /\ call'[c] = Idle
      /\ \A d \in Calls : d # c => call'[d] = call[d]
  BY <1>1, <1>2, StopCall DEF TypeOK
<1>4. TypeOK'
  BY <1>1, <1>2, <1>3 DEF TypeOK
<1>5. KnownInv' /\ MarkInv' /\ EmptyInv'
  BY <1>1, <1>3 DEF Inv, KnownInv, MarkInv, EmptyInv, Exists, At, Idle
<1>6. NoReplyOverlooked'
  BY <1>1, <1>3 DEF Inv, NoReplyOverlooked, Exists, At
<1>7. Whole'
  BY <1>1, <1>3 DEF Inv, Whole, Exists, At
<1>8. QED
  BY <1>4, <1>5, <1>6, <1>7 DEF Inv

(***************************************************************************)
(* Replies                                                                 *)
(***************************************************************************)
\* A call at rest takes up a ticket: nothing but the call changes.
LEMMA TakeUp ==
  ASSUME Inv, NEW c \in Calls, NEW r \in Call, Start(c, r), UNCHANGED <<table, marks, faults>>,
         r.ticket \in Tickets, Exists(r.ticket), r.pc \in {"message", "set"}
  PROVE  Inv'
<1>1. /\ call' \in [Calls -> Call] /\ call'[c] = r
      /\ \A d \in Calls : d # c => call'[d] = call[d]
  BY OneCall DEF Start, Inv, TypeOK
<1>2. At(c, "idle") /\ UNCHANGED <<status, talk, known, halved, crossed, decided, unmarked, faults>>
  BY DEF Start, table, marks
<1>3. TypeOK'
  BY <1>1, <1>2 DEF Inv, TypeOK
<1>4. KnownInv' /\ MarkInv' /\ EmptyInv'
  BY <1>1, <1>2 DEF Inv, KnownInv, MarkInv, EmptyInv, Exists, At
<1>5. NoReplyOverlooked' /\ Whole'
  BY <1>1, <1>2 DEF Inv, NoReplyOverlooked, Whole, Exists, At
<1>6. QED
  BY <1>3, <1>4, <1>5 DEF Inv

LEMMA GetByIDInv ==
  ASSUME Inv, NEW c \in Calls, NEW t \in Tickets, NEW sender \in Sender, GetByID(c, t, sender)
  PROVE  Inv'
<1> DEFINE r == [pc |-> "message", by |-> sender, ticket |-> t, status |-> status[t]]
<1>1. r \in Call
  BY DEF GetByID, Exists, Inv, TypeOK, Call
<1>2. QED
  BY <1>1, TakeUp DEF GetByID

LEMMA UserReplyInv ==
  ASSUME Inv, NEW c \in Calls, UserReply(c)
  PROVE  Inv'
<1> DEFINE t == call[c].ticket
<1>1. At(c, "message") /\ call[c].by = "user" /\ AddMessage(t, "user") /\ Goto(c, "mark")
      /\ crossed' = (IF Answering(t) THEN crossed \cup {t} ELSE crossed \ {t})
      /\ decided' = decided \ {t} /\ unmarked' = unmarked \ {t}
      /\ UNCHANGED <<status, known, halved, faults>>
  BY DEF UserReply
<1>2. t \in Tickets /\ t \in known /\ TypeOK
  BY <1>1, TicketAtHand DEF Inv, At
<1>3. /\ call' \in [Calls -> Call] /\ call'[c] = [call[c] EXCEPT !.pc = "mark"]
      /\ \A d \in Calls : d # c => call'[d] = call[d]
  BY <1>1, <1>2, MarkCall DEF TypeOK
<1>4. call'[c].pc = "mark" /\ call'[c].by = "user" /\ call'[c].ticket = t
  BY <1>1, <1>2, <1>3 DEF TypeOK, Call
<1>5. /\ talk' \in [Tickets -> Seq(Sender)] /\ talk'[t] # <<>> /\ Last(talk'[t]) = "user"
      /\ ToSet(talk'[t]) = ToSet(talk[t]) \cup {"user"}
      /\ \A u \in Tickets : u # t => talk'[u] = talk[u]
  BY <1>1, <1>2, OneTalk DEF TypeOK, Sender
<1>6. TypeOK'
  BY <1>1, <1>2, <1>3, <1>5 DEF TypeOK
<1> HIDE DEF t
<1>7. KnownInv'
  BY <1>1, <1>2, <1>3, <1>4 DEF Inv, KnownInv, Exists, At
<1>8. MarkInv'
  <2> SUFFICES ASSUME NEW d \in Calls, At(d, "mark")', call'[d].by = "admin"
               PROVE  /\ call'[d].status = "open"
                      /\ status'[call'[d].ticket] # "absent" =>
                           /\ "admin" \in ToSet(talk'[call'[d].ticket])
                           /\ Last(talk'[call'[d].ticket]) = "user" => call'[d].ticket \in crossed'
    BY DEF MarkInv, Exists
  <2>1. d # c /\ call'[d] = call[d] /\ At(d, "mark")
    BY <1>3, <1>4 DEF At
  <2>2. call[d].ticket \in Tickets
    BY <2>1, <1>2, TicketAtHand DEF Inv, At
  <2>3. call[d].ticket = t => Answering(t)
    BY <2>1 DEF Answering
  <2>4. QED
    BY <1>1, <1>5, <2>1, <2>2, <2>3 DEF Inv, MarkInv, Exists
<1>9. EmptyInv'
  BY <1>1, <1>5 DEF Inv, EmptyInv, Exists
<1>10. NoReplyOverlooked'
  <2> SUFFICES ASSUME NEW u \in Tickets, Exists(u)', talk'[u] # <<>>, Last(talk'[u]) = "user"
               PROVE  \/ status'[u] = "open"
                      \/ u \in decided' \cup unmarked' \cup crossed'
                      \/ \E d \in Calls : At(d, "mark")' /\ call'[d].by = "user" /\ call'[d].ticket = u
    BY DEF NoReplyOverlooked
  <2>1. CASE u = t
    BY <2>1, <1>4 DEF At
  <2>2. CASE u # t
    <3>1. \A d \in Calls : At(d, "mark") => At(d, "mark")' /\ call'[d] = call[d]
      BY <1>1, <1>3 DEF At
    <3>2. QED
      BY <2>2, <3>1, <1>1, <1>5 DEF Inv, NoReplyOverlooked, Exists
  <2>3. QED
    BY <2>1, <2>2
<1>11. Whole'
  <2>1. \A d \in Calls : At(d, "first") => At(d, "first")' /\ call'[d] = call[d]
    BY <1>1, <1>3 DEF At
  <2>2. Exists(t)
    BY <1>1 DEF AddMessage
  <2>3. QED
    BY <1>1, <1>5, <2>1, <2>2 DEF Inv, Whole, Exists
<1>12. QED
  BY <1>6, <1>7, <1>8, <1>9, <1>10, <1>11 DEF Inv

LEMMA MarkOpenInv ==
  ASSUME Inv, NEW c \in Calls, MarkOpen(c)
  PROVE  Inv'
<1> DEFINE t == call[c].ticket
<1>1. At(c, "mark") /\ call[c].by = "user" /\ Stop(c)
      /\ status' = (IF Exists(t) THEN [status EXCEPT ![t] = "open"] ELSE status)
      /\ UNCHANGED <<talk, known, halved, crossed, decided, unmarked, faults>>
  BY DEF MarkOpen, UpdateStatus, marks
<1>2. t \in Tickets /\ TypeOK
  BY <1>1, TicketAtHand DEF Inv, At
<1>3. /\ call' \in [Calls -> Call] /\ call'[c] = Idle
      /\ \A d \in Calls : d # c => call'[d] = call[d]
  BY <1>1, <1>2, StopCall DEF TypeOK
<1>4. \A u \in Tickets : (Exists(u)' <=> Exists(u)) /\ (u # t => status'[u] = status[u])
                         /\ (Exists(t) => status'[t] = "open")
  BY <1>1, <1>2 DEF TypeOK, Exists
<1>5. TypeOK'
  BY <1>1, <1>2, <1>3 DEF TypeOK, TicketStatus
<1> HIDE DEF t
<1>6. KnownInv' /\ EmptyInv'
  BY <1>1, <1>2, <1>3, <1>4 DEF Inv, KnownInv, EmptyInv, At, Idle
<1>7. MarkInv'
  <2>1. \A d \in Calls : At(d, "mark")' => At(d, "mark") /\ call'[d] = call[d]
                                          /\ call[d].ticket \in Tickets
    BY <1>2, <1>3, TicketAtHand DEF Inv, At, Idle
  <2>2. QED
    BY <1>1, <1>4, <2>1 DEF Inv, MarkInv
<1>8. NoReplyOverlooked'
  <2> SUFFICES ASSUME NEW u \in Tickets, u # t, Exists(u)', talk'[u] # <<>>, Last(talk'[u]) = "user"
               PROVE  \/ status'[u] = "open"
                      \/ u \in decided' \cup unmarked' \cup crossed'
                      \/ \E d \in Calls : At(d, "mark")' /\ call'[d].by = "user" /\ call'[d].ticket = u
    BY <1>2, <1>4 DEF NoReplyOverlooked
  <2>1. \A d \in Calls : At(d, "mark") /\ call[d].ticket = u => At(d, "mark")' /\ call'[d] = call[d]
    BY <1>3 DEF At, t
  <2>2. QED
    BY <1>1, <1>4, <2>1 DEF Inv, NoReplyOverlooked
<1>9. Whole'
  <2>1. \A d \in Calls : At(d, "first") => At(d, "first")' /\ call'[d] = call[d]
    BY <1>1, <1>3 DEF At
  <2>2. QED
    BY <1>1, <1>4, <2>1 DEF Inv, Whole
<1>10. QED
  BY <1>5, <1>6, <1>7, <1>8, <1>9 DEF Inv

LEMMA AdminReplyInv ==
  ASSUME Inv, NEW c \in Calls, AdminReply(c)
  PROVE  Inv'
<1> DEFINE t == call[c].ticket
<1>1. At(c, "message") /\ call[c].by = "admin" /\ AddMessage(t, "admin")
      /\ (IF call[c].status = "open" THEN Goto(c, "mark") ELSE Stop(c))
      /\ UNCHANGED <<status, known, halved, crossed, decided, unmarked, faults>>
  BY DEF AdminReply, marks
<1>2. t \in Tickets /\ t \in known /\ TypeOK
  BY <1>1, TicketAtHand DEF Inv, At
<1>3. /\ call' \in [Calls -> Call]
      /\ \/ call[c].status = "open" /\ call'[c] = [call[c] EXCEPT !.pc = "mark"]
         \/ call'[c] = Idle
      /\ \A d \in Calls : d # c => call'[d] = call[d]
  BY <1>1, <1>2, MarkCall, StopCall DEF TypeOK
<1>4. /\ call'[c].pc \in {"mark", "idle"}
      /\ call'[c].pc = "mark" => call'[c].ticket = t /\ call'[c].by = "admin" /\ call'[c].status = "open"
  BY <1>1, <1>2, <1>3 DEF TypeOK, Call, Idle
<1>5. /\ talk' \in [Tickets -> Seq(Sender)] /\ talk'[t] # <<>> /\ Last(talk'[t]) = "admin"
      /\ ToSet(talk'[t]) = ToSet(talk[t]) \cup {"admin"}
      /\ \A u \in Tickets : u # t => talk'[u] = talk[u]
  BY <1>1, <1>2, OneTalk DEF TypeOK, Sender
<1>6. TypeOK'
  BY <1>1, <1>2, <1>3, <1>5 DEF TypeOK
<1> HIDE DEF t
<1>7. KnownInv'
  BY <1>1, <1>2, <1>3, <1>4 DEF Inv, KnownInv, Exists, At
<1>8. MarkInv'
  <2> SUFFICES ASSUME NEW d \in Calls, At(d, "mark")', call'[d].by = "admin"
               PROVE  /\ call'[d].status = "open"
                      /\ status'[call'[d].ticket] # "absent" =>
                           /\ "admin" \in ToSet(talk'[call'[d].ticket])
                           /\ Last(talk'[call'[d].ticket]) = "user" => call'[d].ticket \in crossed'
    BY DEF MarkInv, Exists
  <2>1. CASE d = c
    BY <2>1, <1>4, <1>5 DEF At
  <2>2. CASE d # c
    <3>1. call'[d] = call[d] /\ At(d, "mark") /\ call[d].ticket \in Tickets
      BY <2>2, <1>2, <1>3, TicketAtHand DEF Inv, At
    <3>2. QED
      BY <1>1, <1>5, <3>1 DEF Inv, MarkInv, Exists
  <2>3. QED
    BY <2>1, <2>2
<1>9. EmptyInv'
  BY <1>1, <1>5 DEF Inv, EmptyInv, Exists
<1>10. NoReplyOverlooked'
  <2> SUFFICES ASSUME NEW u \in Tickets, u # t, Exists(u)', talk'[u] # <<>>, Last(talk'[u]) = "user"
               PROVE  \/ status'[u] = "open"
                      \/ u \in decided' \cup unmarked' \cup crossed'
                      \/ \E d \in Calls : At(d, "mark")' /\ call'[d].by = "user" /\ call'[d].ticket = u
    BY <1>5 DEF NoReplyOverlooked
  <2>1. \A d \in Calls : At(d, "mark") => At(d, "mark")' /\ call'[d] = call[d]
    BY <1>1, <1>3 DEF At
  <2>2. Exists(u) /\ talk[u] # <<>> /\ Last(talk[u]) = "user"
    BY <1>1, <1>5 DEF Exists
  <2>3. \/ status[u] = "open"
        \/ u \in decided \cup unmarked \cup crossed
        \/ \E d \in Calls : At(d, "mark") /\ call[d].by = "user" /\ call[d].ticket = u
    BY <2>2 DEF Inv, NoReplyOverlooked
  <2>4. QED
    BY <2>1, <2>3, <1>1
<1>11. Whole'
  <2>1. \A d \in Calls : At(d, "first") => At(d, "first")' /\ call'[d] = call[d]
    BY <1>1, <1>3 DEF At
  <2>2. Exists(t)
    BY <1>1 DEF AddMessage
  <2>3. QED
    BY <1>1, <1>5, <2>1, <2>2 DEF Inv, Whole, Exists
<1>12. QED
  BY <1>6, <1>7, <1>8, <1>9, <1>10, <1>11 DEF Inv

LEMMA MarkInProgressInv ==
  ASSUME Inv, NEW c \in Calls, MarkInProgress(c)
  PROVE  Inv'
<1> DEFINE t == call[c].ticket
<1>1. At(c, "mark") /\ call[c].by = "admin" /\ Stop(c)
      /\ status' = (IF Exists(t) THEN [status EXCEPT ![t] = "in_progress"] ELSE status)
      /\ UNCHANGED <<talk, known, halved, crossed, decided, unmarked, faults>>
  BY DEF MarkInProgress, UpdateStatus, marks
<1>2. t \in Tickets /\ TypeOK
  BY <1>1, TicketAtHand DEF Inv, At
<1>3. /\ call' \in [Calls -> Call] /\ call'[c] = Idle
      /\ \A d \in Calls : d # c => call'[d] = call[d]
  BY <1>1, <1>2, StopCall DEF TypeOK
<1>4. \A u \in Tickets : (Exists(u)' <=> Exists(u)) /\ (u # t => status'[u] = status[u])
  BY <1>1, <1>2 DEF TypeOK, Exists
<1>5. Exists(t) => /\ "admin" \in ToSet(talk[t])
                   /\ Last(talk[t]) = "user" => t \in crossed
  BY <1>1 DEF Inv, MarkInv
<1>6. Exists(t) => talk[t] # <<>>
  BY <1>5, EmptyTalk
<1>7. TypeOK'
  BY <1>1, <1>2, <1>3 DEF TypeOK, TicketStatus
<1> HIDE DEF t
<1>8. KnownInv' /\ EmptyInv'
  BY <1>1, <1>2, <1>3, <1>4, <1>6 DEF Inv, KnownInv, EmptyInv, At, Idle
<1>9. MarkInv'
  <2>1. \A d \in Calls : At(d, "mark")' => At(d, "mark") /\ call'[d] = call[d]
                                          /\ call[d].ticket \in Tickets
    BY <1>2, <1>3, TicketAtHand DEF Inv, At, Idle
  <2>2. QED
    BY <1>1, <1>4, <2>1 DEF Inv, MarkInv
<1>10. NoReplyOverlooked'
  <2> SUFFICES ASSUME NEW u \in Tickets, Exists(u)', talk'[u] # <<>>, Last(talk'[u]) = "user"
               PROVE  \/ status'[u] = "open"
                      \/ u \in decided' \cup unmarked' \cup crossed'
                      \/ \E d \in Calls : At(d, "mark")' /\ call'[d].by = "user" /\ call'[d].ticket = u
    BY DEF NoReplyOverlooked
  <2>1. CASE u = t
    BY <2>1, <1>1, <1>2, <1>4, <1>5
  <2>2. CASE u # t
    <3>1. \A d \in Calls : At(d, "mark") /\ call[d].by = "user" => At(d, "mark")' /\ call'[d] = call[d]
      BY <1>1, <1>3 DEF At
    <3>2. QED
      BY <2>2, <3>1, <1>1, <1>4 DEF Inv, NoReplyOverlooked
  <2>3. QED
    BY <2>1, <2>2
<1>11. Whole'
  <2>1. \A d \in Calls : At(d, "first") => At(d, "first")' /\ call'[d] = call[d]
    BY <1>1, <1>3 DEF At
  <2>2. QED
    BY <1>1, <1>4, <2>1 DEF Inv, Whole
<1>12. QED
  BY <1>7, <1>8, <1>9, <1>10, <1>11 DEF Inv

LEMMA MarkFailsInv ==
  ASSUME Inv, NEW c \in Calls, MarkFails(c)
  PROVE  Inv'
<1> DEFINE t == call[c].ticket
<1>1. At(c, "mark") /\ Stop(c) /\ Fault
      /\ unmarked' = (IF call[c].by = "user" THEN unmarked \cup {t} ELSE unmarked)
      /\ UNCHANGED <<status, talk, known, halved, crossed, decided>>
  BY DEF MarkFails, table
<1>2. t \in Tickets /\ TypeOK
  BY <1>1, TicketAtHand DEF Inv, At
<1>3. /\ call' \in [Calls -> Call] /\ call'[c] = Idle
      /\ \A d \in Calls : d # c => call'[d] = call[d]
  BY <1>1, <1>2, StopCall DEF TypeOK
<1>4. faults' \in 0 .. MaxFaults
  BY <1>1, <1>2, BoundAssumption DEF Fault, TypeOK
<1>5. TypeOK'
  BY <1>1, <1>2, <1>3, <1>4 DEF TypeOK
<1> HIDE DEF t
<1>6. KnownInv' /\ MarkInv' /\ EmptyInv'
  BY <1>1, <1>3 DEF Inv, KnownInv, MarkInv, EmptyInv, Exists, At, Idle
<1>7. NoReplyOverlooked'
  <2> SUFFICES ASSUME NEW u \in Tickets, Exists(u)', talk'[u] # <<>>, Last(talk'[u]) = "user"
               PROVE  \/ status'[u] = "open"
                      \/ u \in decided' \cup unmarked' \cup crossed'
                      \/ \E d \in Calls : At(d, "mark")' /\ call'[d].by = "user" /\ call'[d].ticket = u
    BY DEF NoReplyOverlooked
  <2>1. \A d \in Calls : At(d, "mark") /\ call[d].by = "user" /\ call[d].ticket = u =>
          u \in unmarked' \/ (At(d, "mark")' /\ call'[d] = call[d])
    BY <1>1, <1>3 DEF At, t
  <2>2. QED
    BY <1>1, <2>1 DEF Inv, NoReplyOverlooked, Exists
<1>8. Whole'
  BY <1>1, <1>3 DEF Inv, Whole, Exists, At
<1>9. QED
  BY <1>5, <1>6, <1>7, <1>8 DEF Inv

LEMMA MessageFailsInv ==
  ASSUME Inv, NEW c \in Calls, MessageFails(c)
  PROVE  Inv'
<1>1. At(c, "message") /\ Stop(c)
      /\ UNCHANGED <<status, talk, known, halved, crossed, decided, unmarked>>
  BY DEF MessageFails, table, marks
<1>2. TypeOK
  BY DEF Inv
<1>3. /\ call' \in [Calls -> Call] /\ call'[c] = Idle
      /\ \A d \in Calls : d # c => call'[d] = call[d]
  BY <1>1, <1>2, StopCall DEF TypeOK
<1>4. faults' \in 0 .. MaxFaults
  BY <1>2, BoundAssumption DEF MessageFails, TypeOK
<1>5. TypeOK'
  BY <1>1, <1>2, <1>3, <1>4 DEF TypeOK
<1>6. KnownInv' /\ MarkInv' /\ EmptyInv'
  BY <1>1, <1>3 DEF Inv, KnownInv, MarkInv, EmptyInv, Exists, At, Idle
<1>7. NoReplyOverlooked' /\ Whole'
  BY <1>1, <1>3 DEF Inv, NoReplyOverlooked, Whole, Exists, At
<1>8. QED
  BY <1>5, <1>6, <1>7 DEF Inv

(***************************************************************************)
(* Setting the status, deletion                                            *)
(***************************************************************************)
LEMMA UserUpdateStatusInv ==
  ASSUME Inv, NEW c \in Calls, NEW t \in Tickets, NEW s \in TicketStatus, UserUpdateStatus(c, t, s)
  PROVE  Inv'
<1> DEFINE r == [pc |-> "set", by |-> "user", ticket |-> t, status |-> s]
<1>1. r \in Call
  BY DEF Call, Sender
<1>2. QED
  BY <1>1, TakeUp DEF UserUpdateStatus

\* The status of a ticket is set on request; of the calls, at most one that had
\* nothing else to do ends.
LEMMA SetStatusInv ==
  ASSUME Inv, NEW t \in Tickets, NEW s \in TicketStatus, SetStatus(t, s),
         call' \in [Calls -> Call],
         \A d \in Calls : call'[d] = call[d] \/ (call'[d] = Idle /\ At(d, "set"))
  PROVE  Inv'
<1>1. status' = (IF Exists(t) THEN [status EXCEPT ![t] = s] ELSE status)
      /\ decided' = decided \cup {t}
      /\ UNCHANGED <<talk, known, halved, crossed, unmarked, faults>>
  BY DEF SetStatus, UpdateStatus
<1>2. TypeOK
  BY DEF Inv
<1>3. \A u \in Tickets : (Exists(u)' <=> Exists(u)) /\ (u # t => status'[u] = status[u])
  BY <1>1, <1>2 DEF TypeOK, Exists, TicketStatus
<1>4. TypeOK'
  BY <1>1, <1>2 DEF TypeOK
<1>5. KnownInv' /\ EmptyInv'
  BY <1>1, <1>3 DEF Inv, KnownInv, EmptyInv, At, Idle
<1>6. MarkInv'
  <2>1. \A d \in Calls : At(d, "mark")' => At(d, "mark") /\ call'[d] = call[d]
                                          /\ call[d].ticket \in Tickets
    BY <1>2, TicketAtHand DEF Inv, At, Idle
  <2>2. QED
    BY <1>1, <1>3, <2>1 DEF Inv, MarkInv
<1>7. \A d \in Calls : ~At(d, "set") => call'[d] = call[d]
  OBVIOUS
<1>8. NoReplyOverlooked'
  BY <1>1, <1>3, <1>7 DEF Inv, NoReplyOverlooked, At
<1>9. Whole'
  BY <1>1, <1>3, <1>7 DEF Inv, Whole, At
<1>10. QED
  BY <1>4, <1>5, <1>6, <1>8, <1>9 DEF Inv

LEMMA UserSetsInv ==
  ASSUME Inv, NEW c \in Calls, UserSets(c)
  PROVE  Inv'
<1>1. call[c].ticket \in Tickets /\ call[c].status \in TicketStatus
  BY TicketAtHand DEF UserSets, At, Inv, TypeOK, Call
<1>2. /\ call' \in [Calls -> Call] /\ call'[c] = Idle
      /\ \A d \in Calls : d # c => call'[d] = call[d]
  BY StopCall DEF UserSets, Inv, TypeOK
<1>3. QED
  BY <1>1, <1>2, SetStatusInv DEF UserSets

LEMMA AdminUpdateStatusInv ==
  ASSUME Inv, NEW t \in Tickets, NEW s \in TicketStatus, AdminUpdateStatus(t, s)
  PROVE  Inv'
BY SetStatusInv DEF AdminUpdateStatus, Inv, TypeOK

LEMMA DeleteTicketInv ==
  ASSUME Inv, NEW t \in Tickets, DeleteTicket(t)
  PROVE  Inv'
<1>1. status' = [status EXCEPT ![t] = "absent"] /\ talk' = [talk EXCEPT ![t] = <<>>]
      /\ UNCHANGED <<call, known, halved, crossed, decided, unmarked, faults>>
  BY DEF DeleteTicket, marks
<1>2. TypeOK
  BY DEF Inv
<1>3. /\ ~Exists(t)' /\ talk'[t] = <<>>
      /\ \A u \in Tickets : u # t => (Exists(u)' <=> Exists(u)) /\ status'[u] = status[u] /\ talk'[u] = talk[u]
  BY <1>1, <1>2 DEF TypeOK, Exists
<1>4. TypeOK'
  BY <1>1, <1>2, EmptyTalk DEF TypeOK
<1>5. KnownInv' /\ EmptyInv'
  BY <1>1, <1>3 DEF Inv, KnownInv, EmptyInv, At
<1>6. MarkInv'
  <2>1. \A d \in Calls : At(d, "mark") => call[d].ticket \in Tickets
    BY <1>2, TicketAtHand DEF Inv, At
  <2>2. QED
    BY <1>1, <1>3, <2>1 DEF Inv, MarkInv, At
<1>7. NoReplyOverlooked'
  BY <1>1, <1>3 DEF Inv, NoReplyOverlooked, At
<1>8. Whole'
  BY <1>1, <1>3 DEF Inv, Whole, At
<1>9. QED
  BY <1>4, <1>5, <1>6, <1>7, <1>8 DEF Inv

(***************************************************************************)
(* The theorems                                                            *)
(***************************************************************************)
LEMMA NextInv == Inv /\ [Next]_vars => Inv'
<1> SUFFICES ASSUME Inv, [Next]_vars PROVE Inv'
  OBVIOUS
<1>1. CASE UNCHANGED vars
  BY <1>1, StutterInv
<1>2. ASSUME NEW c \in Calls, OpenTicket(c) PROVE Inv'
  BY <1>2, CreateInv DEF OpenTicket
<1>3. ASSUME NEW c \in Calls, FirstMessage(c) PROVE Inv'
  BY <1>3, FirstMessageInv
<1>4. ASSUME NEW c \in Calls, FirstRefused(c) PROVE Inv'
  BY <1>4, FirstRefusedInv
<1>5. ASSUME NEW c \in Calls, HandleUserReply(c) \/ HandleAdminReply(c) PROVE Inv'
  BY <1>5, GetByIDInv DEF HandleUserReply, HandleAdminReply, Sender
<1>6. ASSUME NEW c \in Calls, UserReply(c) PROVE Inv'
  BY <1>6, UserReplyInv
<1>7. ASSUME NEW c \in Calls, MarkOpen(c) PROVE Inv'
  BY <1>7, MarkOpenInv
<1>8. ASSUME NEW c \in Calls, AdminReply(c) PROVE Inv'
  BY <1>8, AdminReplyInv
<1>9. ASSUME NEW c \in Calls, MarkInProgress(c) PROVE Inv'
  BY <1>9, MarkInProgressInv
<1>10. ASSUME NEW c \in Calls, MarkFails(c) PROVE Inv'
  BY <1>10, MarkFailsInv
<1>11. ASSUME NEW c \in Calls, MessageFails(c) PROVE Inv'
  BY <1>11, MessageFailsInv
<1>12. ASSUME NEW c \in Calls, HandleUserUpdateStatus(c) PROVE Inv'
  BY <1>12, UserUpdateStatusInv DEF HandleUserUpdateStatus
<1>13. ASSUME NEW c \in Calls, UserSets(c) PROVE Inv'
  BY <1>13, UserSetsInv
<1>14. CASE HandleAdminUpdateStatus
  BY <1>14, AdminUpdateStatusInv DEF HandleAdminUpdateStatus
<1>15. CASE HandleDeleteTicket
  BY <1>15, DeleteTicketInv DEF HandleDeleteTicket
<1>16. QED
  BY <1>1, <1>2, <1>3, <1>4, <1>5, <1>6, <1>7, <1>8, <1>9, <1>10, <1>11, <1>12, <1>13, <1>14, <1>15
     DEF Next

LEMMA SpecInv == Spec => []Inv
<1>1. Init => Inv
  BY InitInv
<1>2. Inv /\ [Next]_vars => Inv'
  BY NextInv
<1>3. QED
  BY <1>1, <1>2, PTL DEF Spec

\* The tables, the requests and the marks keep their types.
THEOREM TypeCorrect == Spec => []TypeOK
<1>1. Inv => TypeOK
  BY DEF Inv
<1>2. QED
  BY <1>1, SpecInv, PTL

\* A ticket whose last reply is the user's is open, but for the named cases
\* (OpenTicket, AddUserReply, AddAdminReply).
THEOREM ReplyCorrect == Spec => []NoReplyOverlooked
<1>1. Inv => NoReplyOverlooked
  BY DEF Inv
<1>2. QED
  BY <1>1, SpecInv, PTL

\* A conversation has a ticket, and a ticket the message it was opened with
\* (OpenTicket, DeleteTicket).
THEOREM WholeCorrect == Spec => []Whole
<1>1. Inv => Whole
  BY DEF Inv
<1>2. QED
  BY <1>1, SpecInv, PTL

\* Only a request for it, or a reply that read the ticket open, takes a ticket
\* that is done back to in_progress (AddAdminReply).
THEOREM DoneCorrect == Spec => DoneStaysDone
<1> DEFINE Done ==
      \A t \in Tickets :
        /\ status[t] \in {"resolved", "closed"}
        /\ status'[t] = "in_progress"
        /\ t \notin decided'
        => \E c \in Calls : /\ At(c, "mark") /\ call[c].by = "admin"
                            /\ call[c].ticket = t /\ call[c].status = "open"
<1>1. ASSUME Inv, [Next]_vars PROVE [Done]_vars
  <2> SUFFICES ASSUME NEW t \in Tickets, status[t] \in {"resolved", "closed"},
                      status'[t] = "in_progress", t \notin decided'
               PROVE  \E c \in Calls : /\ At(c, "mark") /\ call[c].by = "admin"
                                       /\ call[c].ticket = t /\ call[c].status = "open"
    OBVIOUS
  <2>1. status[t] # status'[t] /\ status \in [Tickets -> TicketStatus \cup {"absent"}]
    BY <1>1 DEF Inv, TypeOK
  <2>2. PICK c \in Calls : MarkInProgress(c) /\ call[c].ticket = t
    <3>1. CASE UNCHANGED vars
      BY <3>1, <2>1 DEF vars, table
    <3>2. ASSUME NEW c \in Calls, OpenTicket(c) PROVE FALSE
      BY <3>2, <2>1 DEF OpenTicket, Create
    <3>3. ASSUME NEW c \in Calls, \/ FirstMessage(c) \/ FirstRefused(c) \/ UserReply(c)
                                  \/ AdminReply(c) \/ MarkFails(c) \/ MessageFails(c)
          PROVE  FALSE
      BY <3>3, <2>1 DEF FirstMessage, FirstRefused, UserReply, AdminReply, MarkFails, MessageFails, table
    <3>4. ASSUME NEW c \in Calls, HandleUserReply(c) \/ HandleAdminReply(c) \/ HandleUserUpdateStatus(c)
          PROVE  FALSE
      BY <3>4, <2>1 DEF HandleUserReply, HandleAdminReply, HandleUserUpdateStatus, GetByID,
                        UserUpdateStatus, table
    <3>5. ASSUME NEW c \in Calls, MarkOpen(c) PROVE FALSE
      BY <3>5, <2>1 DEF MarkOpen, UpdateStatus
    <3>6. ASSUME NEW u \in Tickets, NEW s \in TicketStatus, SetStatus(u, s) PROVE FALSE
      BY <3>6, <2>1 DEF SetStatus, UpdateStatus
    <3>7. ASSUME NEW c \in Calls, UserSets(c) PROVE FALSE
      <4>1. call[c].ticket \in Tickets /\ call[c].status \in TicketStatus
        BY <3>7, <1>1, TicketAtHand DEF UserSets, At, Inv, TypeOK, Call
      <4>2. QED
        BY <4>1, <3>6, <3>7 DEF UserSets
    <3>8. CASE HandleAdminUpdateStatus
      BY <3>6, <3>8 DEF HandleAdminUpdateStatus, AdminUpdateStatus
    <3>9. CASE HandleDeleteTicket
      BY <3>9, <2>1 DEF HandleDeleteTicket, DeleteTicket
    <3>10. ASSUME NEW c \in Calls, MarkInProgress(c) PROVE call[c].ticket = t
      BY <3>10, <2>1 DEF MarkInProgress, UpdateStatus
    <3>11. QED
      BY <1>1, <3>1, <3>2, <3>3, <3>4, <3>5, <3>7, <3>8, <3>9, <3>10 DEF Next
  <2>3. QED
    BY <2>2, <1>1 DEF MarkInProgress, Inv, MarkInv
<1>2. QED
  BY <1>1, SpecInv, PTL DEF Spec, DoneStaysDone
=============================================================================
