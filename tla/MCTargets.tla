------------------------------- MODULE MCTargets -------------------------------
(***************************************************************************)
(* The three consumers of the pool outside of Codex and Claude, checked in *)
(* one run: a behaviour moves one of them, `focus`.                        *)
(***************************************************************************)
EXTENDS HarnessTarget, OpenclawSync, HermesFleet, TLC

CONSTANTS c1, c2, watch, other

VARIABLE focus

targetVars == <<focus, harnessVars, openclawVars, fleetVars>>

TargetsInit ==
    /\ focus \in {"harness", "openclaw", "hermes"}
    /\ HarnessInit /\ (focus # "harness" => plan = CHOOSE w \in Plans : TRUE)
    /\ OpenclawInit /\ (focus # "openclaw" => assigned = CHOOSE a \in Assignments : TRUE)
    /\ FleetInit /\ (focus # "hermes" => home = [h \in Home |-> Auth(1, 1, TRUE)])

TargetsNext ==
    \/ focus = "harness" /\ HarnessNext /\ UNCHANGED <<focus, openclawVars, fleetVars>>
    \/ focus = "openclaw" /\ OpenclawNext /\ UNCHANGED <<focus, harnessVars, fleetVars>>
    \/ focus = "hermes" /\ FleetNext /\ UNCHANGED <<focus, harnessVars, openclawVars>>

TargetsSpec == TargetsInit /\ [][TargetsNext]_targetVars /\ FleetFairness

\* One label of the first provider, three of the one whose sessions are handed on.
MCLabels == <<1, 3>>

\* Three commands on the files by one process, two that overlap, and a session
\* that is begun and handed on three times, with another process at it.
Files == {"use", "uninstall"}
Again == {"rotate"}
MCPlans == {c1 :> <<Files, Files, Files>> @@ c2 :> <<>>,
            c1 :> <<{"uninstall"}>> @@ c2 :> <<{"use"}>>,
            c1 :> <<{"use"}, {"run"}>> @@ c2 :> <<>>,
            c1 :> <<{"run", "rotate"}, Again, Again, Again>> @@ c2 :> <<Again>>}

\* Three agents; the headroom of one label is four times that of the others.
MCHeadroom == <<10, 10, 40>>
MCAssignments == {<<1, 0, 0>>, <<0, 2, 4>>}

MCPercent == [ample |-> 80, low |-> 10]
=============================================================================
