---------------------------- MODULE MCMachineLease ----------------------------
(***************************************************************************)
(* Two parts of a Claude account's life, checked in one run: the sessions  *)
(* of a machine that share its lease, and what makes the account need a    *)
(* person.  A behaviour moves one of them, `focus`.                        *)
(***************************************************************************)
EXTENDS MachineLease, ClaudeReauth, TLC

CONSTANTS w1, w2

VARIABLE focus

accountVars == <<focus, vars, reauthVars>>

AccountInit ==
    /\ focus \in {"sessions", "reauth"}
    /\ Init
    /\ ReauthInit /\ (focus = "sessions" => entry.token = 0)

AccountNext ==
    \/ focus = "sessions" /\ Next /\ UNCHANGED <<focus, reauthVars>>
    \/ focus = "reauth" /\ ReauthNext /\ UNCHANGED <<focus, vars>>

AccountSpec == AccountInit /\ [][AccountNext]_accountVars /\ ReauthFairness

\* One worker for the watch's passes, one for the person's commands.
MCDuties == w1 :> {"maintain"} @@ w2 :> {"login", "capture"}
=============================================================================
