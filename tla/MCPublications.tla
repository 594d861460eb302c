--------------------------- MODULE MCPublications ---------------------------
(* Publications for TLC: which publication may be leased more than once. *)
EXTENDS Publications

OnceEach == [p \in 1..MaxDocs |-> 1]
NewerRetried == [p \in 1..MaxDocs |-> IF p = MaxDocs THEN 2 ELSE 1]
=============================================================================
