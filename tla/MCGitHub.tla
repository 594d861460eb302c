------------------------------ MODULE MCGitHub ------------------------------
(* GitHub for TLC: transactions are alike. *)
EXTENDS GitHub, TLC

Symmetry == Permutations(Proc)
=============================================================================
