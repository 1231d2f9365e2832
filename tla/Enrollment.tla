----------------------------- MODULE Enrollment -----------------------------
(***************************************************************************)
(* What the payment component promises a buyer, without handlers, notices  *)
(* or tasks.  An order is open until it is paid; a paid order is settled   *)
(* once, in one of three ways: access is granted, the order is a duplicate *)
(* of a purchase the buyer already holds, or it is lost to a failure.  No  *)
(* buyer is ever granted the same item twice.                              *)
(***************************************************************************)
CONSTANTS Orders,    \* the payment orders
          Requests   \* what an order asks for: a buyer and an item

VARIABLES asks,      \* asks[o]: the request behind order o
          state      \* state[o]: how far the order has come

vars == <<asks, state>>

States == {"open", "paid", "granted", "duplicate", "lost"}

Init == /\ asks \in [Orders -> Requests]
        /\ state = [o \in Orders |-> "open"]

Granted(o) == \E p \in Orders : /\ asks[p] = asks[o]
                                /\ state[p] = "granted"

Move(o, from, to) == /\ state[o] = from
                     /\ state' = [state EXCEPT ![o] = to]
                     /\ UNCHANGED asks

Pay(o) == Move(o, "open", "paid")

Grant(o) == ~Granted(o) /\ Move(o, "paid", "granted")

\* A refusal is justified by the grant it would duplicate.
Refuse(o) == Granted(o) /\ Move(o, "paid", "duplicate")

Lose(o) == Move(o, "paid", "lost")

Next == \E o \in Orders : Pay(o) \/ Grant(o) \/ Refuse(o) \/ Lose(o)

Spec == Init /\ [][Next]_vars
=============================================================================
