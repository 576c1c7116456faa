------------------------------ MODULE ServerMC ------------------------------
(***************************************************************************)
(* Model-checking instance of Server: two client requests and two probes.  *)
(***************************************************************************)
EXTENDS Server
=============================================================================
