----------------------------- MODULE MCPurchases -----------------------------
(***************************************************************************)
(* Purchases with small sets.  A course of one day expires within a run,   *)
(* and an edit makes one of two days, or the other way round.             *)
(***************************************************************************)
EXTENDS Purchases, TLC

CONSTANTS u1, c1, b1, o1, o2

MCUsers    == {u1}
MCCourses  == {c1}
MCEbooks   == {b1}
MCOrders   == {o1, o2}
MCNotices  == {"payment.captured", "order.paid"}
OneNotice  == {"payment.captured"}
NoEbooks   == {}
MCTerms    == {1, 2}
OneTerm    == {1}

\* At most two of a fault, a crash and an edit in one behaviour, and not fault and edit.
TwoTroubles == faults + crashes + edits <= 2 /\ faults + edits <= 1

\* At most two webhook calls run at the same time.
TwoCalls == Cardinality({e \in Events : hook[e] # "idle"}) <= 2

\* A course of two days from the start has no trouble before it is made one of one day.
EditedFirst == \A c \in Courses : validity[c] = 1 \/ edits = 1 \/ faults + crashes = 0

\* A buyer orders again only after the last order is completed.
OneOrderOpen ==
  Cardinality({o \in Orders : request[o] # "new" /\ status[o] # "completed"}) <= 1

OrderSymmetry == Permutations(MCOrders)
=============================================================================
