------------------------------ MODULE MCSessions ------------------------------
(***************************************************************************)
(* Sessions with one user, who signs up with a password or with Google:    *)
(* users share no key and no row.                                          *)
(***************************************************************************)
EXTENDS Sessions, TLC

CONSTANTS u1, s1, s2, v1, p1, c1, c2

MCUsers    == {u1}
MCSessions == {s1, s2}
MCVerify   == {v1}
MCReset    == {p1}
MCOwnerOf  == [x \in MCSessions \cup MCVerify \cup MCReset |-> u1]
MCCalls    == {c1, c2}

Symmetry == Permutations(MCCalls) \cup Permutations(MCSessions)
=============================================================================
