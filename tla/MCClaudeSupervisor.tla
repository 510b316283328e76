-------------------------- MODULE MCClaudeSupervisor --------------------------
(* The instance of ClaudeSupervisor that TLC checks: one launch of either   *)
(* mode with a few requests.                                                *)
EXTENDS ClaudeSupervisor
=============================================================================
