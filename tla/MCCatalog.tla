------------------------------ MODULE MCCatalog -------------------------------
(***************************************************************************)
(* Catalog with a course of two lessons, an ebook, and three requests.     *)
(***************************************************************************)
EXTENDS Catalog, TLC

CONSTANTS c1, m1, l1, l2, b1, n1, n2, r1, r2, r3

MCCourses  == {c1}
MCModules  == {m1}
MCLessons  == {l1, l2}
MCEbooks   == {b1}
MCModuleOf == l1 :> m1 @@ l2 :> m1
MCCourseOf == m1 :> c1
MCNames    == {n1, n2}
MCRequests == {r1, r2, r3}

Symmetry == Permutations(MCRequests) \cup Permutations(MCNames) \cup Permutations(MCLessons)

\* The requests of a run are about one product: rows and objects of two meet only when a
\* video is completed with a file of the other, which the proofs cover.
OneProduct == \E p \in Products :
  /\ \A x \in born : Product(x) = p
  /\ \A r \in Requests : request[r].item # None => Product(request[r].item) = p

\* With both lessons two of the three requests are at work at a time, and nobody orders.
TwoLessons == Lessons \subseteq born =>
  bought = {} /\ Cardinality({r \in Requests : Active(r)}) <= 2
=============================================================================
