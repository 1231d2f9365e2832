------------------------------- MODULE MCEmail --------------------------------
(***************************************************************************)
(* Email with two emails, which share the consumer, two copies of each at  *)
(* most, two dials to a connection and two faults.                         *)
(***************************************************************************)
EXTENDS Email

CONSTANTS e1, e2

MCEmails == {e1, e2}
=============================================================================
