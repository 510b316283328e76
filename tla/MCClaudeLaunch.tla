---------------------------- MODULE MCClaudeLaunch ----------------------------
(***************************************************************************)
(* A launch of Claude under a managed label, checked in one run: the files *)
(* of the config directory it prepares, for the account the label is bound *)
(* to; and the login it then works with, with the lease, the heartbeat and *)
(* the publications of several machines.  A behaviour moves one of them,   *)
(* `focus`.                                                                *)
(***************************************************************************)
EXTENDS StateMigration, ClaudeSession, TLC

CONSTANTS p1, p2, a1, a2

VARIABLE focus

launchVars == <<focus, migrationVars, sessionVars>>

LaunchInit ==
    /\ focus \in {"files", "login"}
    /\ MigrationInit
    /\ focus # "files" => app = None /\ legacy = None /\ copies = {}
    /\ SessionInit

LaunchNext ==
    \/ focus = "files" /\ MigrationNext /\ UNCHANGED <<focus, sessionVars>>
    \/ focus = "login" /\ SessionNext /\ UNCHANGED <<focus, migrationVars>>

LaunchSpec == LaunchInit /\ [][LaunchNext]_launchVars

MCProc == {p1, p2}
MCAccount == {a1, a2}

\* Launchers and accounts are interchangeable; the machines are not.
Symmetry == Permutations(MCProc) \cup Permutations(MCAccount)
=============================================================================
