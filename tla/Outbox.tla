-------------------------------- MODULE Outbox --------------------------------
(***************************************************************************)
(* What mailing promises, without queue, copies or consumer.  An email is  *)
(* held from the moment its publisher is told it is queued until it is let *)
(* go of: once it was mailed or given up or, by a fault, after SES failed  *)
(* to take it.  Only a held email is mailed, and again only once for each  *)
(* delivery that was broken off and each answer of SES that was lost.      *)
(* What SES was not asked to take yet is lost in the publish alone.        *)
(***************************************************************************)
EXTENDS Naturals

CONSTANT Emails

VARIABLES
  stage,     \* stage[e]: "new", or what the publisher was told
  held,      \* the emails that may still be mailed
  sent,      \* sent[e]: times SES took it
  again,     \* again[e]: deliveries broken off, and sends SES took but denied
  failed,    \* emails SES failed to take
  given      \* emails rejected or given up

vars == <<stage, held, sent, again, failed, given>>

Init ==
  /\ stage = [e \in Emails |-> "new"]
  /\ held = {}
  /\ sent = [e \in Emails |-> 0]
  /\ again = [e \in Emails |-> 0]
  /\ failed = {}
  /\ given = {}

Tell(e, answer) ==
  /\ stage[e] = "new"
  /\ stage' = [stage EXCEPT ![e] = answer]

Publish(e) ==
  /\ Tell(e, "queued")
  /\ held' = held \cup {e}
  /\ UNCHANGED <<sent, again, failed, given>>

\* SES may take the email once more.
Due(e) == e \in held /\ sent[e] <= again[e]

Send(e) ==
  /\ Due(e)
  /\ sent' = [sent EXCEPT ![e] = @ + 1]
  /\ UNCHANGED <<stage, held, again, failed, given>>

Reject(e) ==
  /\ Due(e)
  /\ given' = given \cup {e}
  /\ UNCHANGED <<stage, held, sent, again, failed>>

\* SES fails, or denies what it did; the last failure gives the email up.
Fail(e) ==
  /\ Due(e)
  /\ \/ UNCHANGED <<sent, again>>
     \/ /\ sent' = [sent EXCEPT ![e] = @ + 1]
        /\ again' = [again EXCEPT ![e] = @ + 1]
  /\ failed' = failed \cup {e}
  /\ given' \in {given, given \cup {e}}
  /\ UNCHANGED <<stage, held>>

MayGo(e) == sent[e] > 0 \/ e \in given \cup failed

\* Emails are let go of, and deliveries of others broken off.
LetGo ==
  /\ held' \subseteq held
  /\ \A e \in held \ held' : MayGo(e)
  /\ again' \in [Emails -> Nat]
  /\ \A e \in Emails : again'[e] # again[e] => e \in held /\ again'[e] = again[e] + 1
  /\ UNCHANGED <<sent, failed, given>>

Next ==
  \/ \E e \in Emails : Publish(e) \/ Send(e) \/ Reject(e) \/ Fail(e)
  \/ LetGo /\ UNCHANGED stage
  \* A publish fails, or is lost with its connection.
  \/ LetGo /\ \E e \in Emails : Tell(e, "refused") \/ Tell(e, "queued")

Spec == Init /\ [][Next]_vars
=============================================================================
