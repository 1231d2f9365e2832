------------------------------ MODULE MCTickets -------------------------------
(***************************************************************************)
(* Tickets with one ticket and three requests at a time: tickets share no  *)
(* row.                                                                    *)
(***************************************************************************)
EXTENDS Tickets, TLC

CONSTANTS t1, c1, c2, c3

MCTickets == {t1}
MCCalls   == {c1, c2, c3}

Symmetry == Permutations(MCCalls)
=============================================================================
