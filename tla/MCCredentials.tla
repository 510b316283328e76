---------------------------- MODULE MCCredentials ----------------------------
(***************************************************************************)
(* The lease of a credential, and the maintenance that refreshes under it, *)
(* checked in one run: a behaviour moves one of them, `focus`.  Handles,   *)
(* tokens and processes are interchangeable.                               *)
(***************************************************************************)
EXTENDS CredentialLease, CodexMaintenance, TLC

VARIABLE focus

credentialVars == <<focus, vars, maintenanceVars>>

CredentialInit ==
    /\ focus \in {"lease", "maintenance"}
    /\ Init
    /\ MaintenanceInit /\ (focus = "lease" => kind = "codex" /\ record = First)

CredentialNext ==
    \/ focus = "lease" /\ Next /\ UNCHANGED <<focus, maintenanceVars>>
    \/ focus = "maintenance" /\ MaintenanceNext /\ UNCHANGED <<focus, vars>>

CredentialSpec == CredentialInit /\ [][CredentialNext]_credentialVars

Symmetry == Permutations(Handle) \cup Permutations(Token) \cup Permutations(Process)
=============================================================================
