---------------------------- MODULE MCClaudeUsage ----------------------------
(* The instance of ClaudeUsage that TLC checks.  Statuses, labels and         *)
(* accounts are interchangeable.                                              *)
EXTENDS ClaudeUsage, TLC

Symmetry == Permutations(Status) \cup Permutations(Label) \cup Permutations(Owner)
=============================================================================
