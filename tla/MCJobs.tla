------------------------------ MODULE MCJobs -------------------------------
(***************************************************************************)
(* Model values for Jobs.                                                  *)
(***************************************************************************)
EXTENDS Jobs

CONSTANTS j1, w1, w2, k1, k2, p1
=============================================================================
