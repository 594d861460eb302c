------------------------------ MODULE MCBuilds ------------------------------
(* Builds for TLC: one account owns every build. *)
EXTENDS Builds

CONSTANT TheAccount

MCAccount == {TheAccount}
MCAccountOf == [b \in Build |-> TheAccount]
=============================================================================
