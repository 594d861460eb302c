-------------------------- MODULE MCTenantDatabases -------------------------
(* TenantDatabases for TLC.  The instance has a liveness property, so the      *)
(* workers are told apart although they are alike.                             *)
EXTENDS TenantDatabases
=============================================================================
