--------------------------- MODULE MCBuildWorker ---------------------------
(* BuildWorker for TLC: one account owns every build. *)
EXTENDS BuildWorker

CONSTANT TheAccount

MCAccount == {TheAccount}
MCAccountOf == [b \in Build |-> TheAccount]
=============================================================================
