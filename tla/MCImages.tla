------------------------------- MODULE MCImages -------------------------------
(***************************************************************************)
(* Images with a user and a course, two uploads for either, and one edit.  *)
(***************************************************************************)
EXTENDS Images, TLC

CONSTANTS u1, c1, r1, r2, e1

MCUsers   == {u1}
MCCourses == {c1}
MCUploads == {r1, r2}
MCEdits   == {e1}

\* Rows share nothing but the queues' broker: the requests of one run are
\* about the same row.
OneRow ==
  \E w \in Owners :
    /\ \A r \in Uploads : upload[r].owner \in {w, None}
    /\ \A e \in Edits : edit[e].owner \in {w, None}
=============================================================================
