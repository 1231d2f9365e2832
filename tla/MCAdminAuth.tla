----------------------------- MODULE MCAdminAuth ------------------------------
(***************************************************************************)
(* AdminAuth with one admin, three sessions, a link of either kind and two *)
(* requests at a time: admins share no row and no set.                     *)
(***************************************************************************)
EXTENDS AdminAuth, TLC

CONSTANTS a1, s1, s2, s3, p1, k1, c1, c2

MCAdmins        == {a1}
MCSessions      == {s1, s2, s3}
MCPasswordLinks == {p1}
MCSecretLinks   == {k1}
MCOwnerOf       == [x \in MCSessions \cup MCPasswordLinks \cup MCSecretLinks |-> a1]
MCCalls         == {c1, c2}

InUse(l) == l \in links \/ resets[l] # 0 \/ \E c \in Calls : call[c].link = l

\* A link of one kind only: the other does the same to its own.
OneLink == \E l \in Links : \A m \in Links \ {l} : ~InUse(m)

\* A fault comes with two sessions, or with three and no link.
Few == faults = 0 \/ Cardinality(used) <= 2 \/ \A l \in Links : ~InUse(l)

Symmetry == Permutations(MCCalls) \cup Permutations(MCSessions)
=============================================================================
