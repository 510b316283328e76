------------------------------- MODULE MCCodex -------------------------------
(***************************************************************************)
(* Codex on a machine, checked in one run: the account of auth.json, which *)
(* `aim codex use` and `watch` choose; and the threads that resume-fresh   *)
(* copies to another account.  A behaviour moves one of them, `focus`.     *)
(***************************************************************************)
EXTENDS CodexPool, ThreadCopy, TLC

MCCalls == [p \in Runner |-> 2] @@ [p \in Watcher |-> 1]

\* Tokens 2 and 3 expire at the same time; token 1 before.
MCExpiry == [l \in Label |-> <<1, 2, 2>>]

\* Well below, above and beyond the thresholds; the last by its second window.
Low == [primary |-> 10, secondary |-> 10, known |-> TRUE]
High == [primary |-> 85, secondary |-> 10, known |-> TRUE]
Near == [primary |-> 90, secondary |-> 10, known |-> TRUE]
Spent == [primary |-> 85, secondary |-> 95, known |-> TRUE]
MCUsage == {Low, High, Near, Spent}
MCFirst == {[usage |-> <<Low, Low, Low>>, dark |-> {}],
            [usage |-> <<High, Near, High>>, dark |-> {}],
            [usage |-> <<Spent, Spent, High>>, dark |-> {3}]}

Policy(keep, drop) == [keepReasoning |-> keep, dropCompaction |-> drop]
SomePolicies == {Policy(FALSE, FALSE), Policy(TRUE, FALSE), Policy(FALSE, TRUE)}

VARIABLE focus

codexVars == <<focus, vars, copyVars>>

CodexInit ==
    /\ focus \in {"account", "threads"}
    /\ Init /\ (focus # "account" => auth = NoAuth /\ dark = {} /\ usage[1] = Low)
    /\ CopyInit
    /\ focus # "threads" => rollouts[1].lines = CHOOSE s \in Sources : TRUE

CodexNext ==
    \/ focus = "account" /\ Next /\ UNCHANGED <<focus, copyVars>>
    \/ focus = "threads" /\ CopyNext /\ UNCHANGED <<focus, vars>>

CodexSpec == CodexInit /\ [][CodexNext]_codexVars

\* Accounts and callers of resume-fresh are interchangeable.
Symmetry == Permutations(Account) \cup Permutations(Caller)
=============================================================================
