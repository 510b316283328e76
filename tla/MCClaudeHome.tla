----------------------------- MODULE MCClaudeHome -----------------------------
(* The instances of ClaudeHome that TLC checks.  Accounts, labels and         *)
(* commands are interchangeable.                                              *)
EXTENDS ClaudeHome, TLC

Symmetry == Permutations(Identity) \cup Permutations(Label) \cup Permutations(Process)
=============================================================================
