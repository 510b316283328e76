------------------------------ MODULE MCRoutine ------------------------------
(* The instance of RoutineOccurrence that TLC checks.  Three launches: two of *)
(* one fire key and one of another key of the routine; three keys of one      *)
(* routine; or two keys of one routine and one of another.                    *)
EXTENDS RoutineOccurrence, TLC

CONSTANTS l1, l2, l3, f1, f2, f3, f4, r1, r2

Duplicates == (l1 :> f1) @@ (l2 :> f1) @@ (l3 :> f2)
Rivals == (l1 :> f1) @@ (l2 :> f2) @@ (l3 :> f4)
Neighbours == (l1 :> f1) @@ (l2 :> f2) @@ (l3 :> f3)

Launches == {l1, l2, l3}
Fires == {f1, f2, f3, f4}
Routines == {r1, r2}
\* The other routine matters for the bootstrap lock and the auth file only.
LaunchCases ==
    [fireOf : {Duplicates, Rivals, Neighbours}, agent : {(r1 :> a) @@ (r2 :> "codex") : a \in Agent}]
RoutineOfFire == (f1 :> r1) @@ (f2 :> r1) @@ (f3 :> r2) @@ (f4 :> r1)
=============================================================================
