------------------------------- MODULE MCJobs -------------------------------
(***************************************************************************)
(* The background jobs, for TLC: one student, of a degree with two courses. *)
(***************************************************************************)
EXTENDS Jobs
CONSTANTS s1, bachelor, ticker, admin, d1, d2
Lengths == [d \in Degrees |-> 2]
=============================================================================
