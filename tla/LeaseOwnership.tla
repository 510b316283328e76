---------------------------- MODULE LeaseOwnership ----------------------------
(***************************************************************************)
(* What the credential lease promises, free of commands, replies and       *)
(* clocks: a key that names at most one owner, an owner that can only lose *)
(* the key before somebody else takes it, and a token that never comes     *)
(* back once its release took effect.  CredentialLease implements it.      *)
(***************************************************************************)
CONSTANTS Token, NoToken

VARIABLES
    owner,    \* the token stored under the lease key, or NoToken
    freed     \* the tokens whose release has taken effect

vars == <<owner, freed>>

Init == owner = NoToken /\ freed = {}

\* A free key is taken under a token that was never released.
Take(t) ==
    /\ owner = NoToken
    /\ t \notin freed
    /\ owner' = t
    /\ UNCHANGED freed

\* The expiry set with the key passes without a renewal.
Lapse ==
    /\ owner # NoToken
    /\ owner' = NoToken
    /\ UNCHANGED freed

\* A release takes effect: it frees the key if its token still owns it, and
\* the token is spent either way.
Free(t) ==
    /\ owner' = IF owner = t THEN NoToken ELSE owner
    /\ freed' = freed \cup {t}

Next ==
    \/ \E t \in Token : Take(t) \/ Free(t)
    \/ Lapse

Spec == Init /\ [][Next]_vars
=============================================================================
