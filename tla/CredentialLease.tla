---------------------------- MODULE CredentialLease ----------------------------
(***************************************************************************)
(* The Redis lease on one credential (src/coordination/                    *)
(* redis-credential-lease.js).  Redis holds one key whose value is the     *)
(* owner's random token and which expires Ttl after it was last set or     *)
(* extended.  A local handle closes over a token and an `active` flag.     *)
(*                                                                         *)
(* Every operation of a handle is a command on its client's connection:    *)
(* the local guard is tested when the command is written, Redis executes   *)
(* the commands of one connection in the order they were written, and the  *)
(* local flag changes only when the reply is read.  Time passes, other     *)
(* handles act, the connection drops and the process dies between any two  *)
(* of those steps.                                                         *)
(*                                                                         *)
(* Two disciplines of the callers are guards here: a handle sends nothing  *)
(* after its release (every caller stops its renewal loop first), and a    *)
(* token shared by several handles is released only by the last of them    *)
(* (MachineLease models how the sessions of one machine agree on that).    *)
(***************************************************************************)
EXTENDS Integers, Sequences

CONSTANTS
    Handle,        \* local lease objects, one connection each
    Token,         \* randomUUID() values
    NoToken,
    Ttl,           \* ttlMs, in clock ticks
    MaxTime,       \* bound on the clock
    MaxInFlight    \* bound on the commands of a handle not yet answered

ASSUME ConstantsAssumption ==
    /\ NoToken \notin Token
    /\ Ttl \in Nat \ {0}
    /\ MaxTime \in Nat
    /\ MaxInFlight \in Nat \ {0}

VARIABLES
    now,        \* the clock
    owner,      \* Redis: the value of the lease key, NoToken when absent
    expiresAt,  \* Redis: when the key expires
    minted,     \* tokens generated so far
    retired,    \* tokens whose holder has begun to release them
    freed,      \* tokens whose release Redis has executed
    status,     \* of a handle: "none", "asking" (no reply yet), "live"
    token,      \* of a handle: the token its closure holds
    active,     \* of a handle: its local flag
    until,      \* of a handle: how long its last good reply entitles it to act
    sent,       \* of a handle: commands written and not yet executed
    answers     \* of a handle: replies not yet read

redis == <<owner, expiresAt>>
local == <<status, token, active, until>>
vars == <<now, redis, minted, retired, freed, local, sent, answers>>

Op == {"acquire", "join", "renew", "recover", "release"}
Command == [op : Op, at : Nat]
Answer == [op : Op, at : Nat, ok : BOOLEAN]

TypeOK ==
    /\ now \in Nat
    /\ owner \in Token \cup {NoToken}
    /\ expiresAt \in Nat
    /\ minted \subseteq Token
    /\ retired \subseteq minted
    /\ freed \subseteq retired
    /\ status \in [Handle -> {"none", "asking", "live"}]
    /\ token \in [Handle -> Token \cup {NoToken}]
    /\ active \in [Handle -> BOOLEAN]
    /\ until \in [Handle -> Nat]
    /\ sent \in [Handle -> Seq(Command)]
    /\ answers \in [Handle -> Seq(Answer)]

Init ==
    /\ now = 0
    /\ owner = NoToken
    /\ expiresAt = 0
    /\ minted = {} /\ retired = {} /\ freed = {}
    /\ status = [h \in Handle |-> "none"]
    /\ token = [h \in Handle |-> NoToken]
    /\ active = [h \in Handle |-> FALSE]
    /\ until = [h \in Handle |-> 0]
    /\ sent = [h \in Handle |-> <<>>]
    /\ answers = [h \in Handle |-> <<>>]

-----------------------------------------------------------------------------
(* The local side: a command is written. *)

Send(h, op) ==
    /\ Len(sent[h]) + Len(answers[h]) < MaxInFlight
    /\ sent' = [sent EXCEPT ![h] = Append(@, [op |-> op, at |-> now])]

\* Every operation of a handle returns at once when it is not active; none is
\* called once the handle's release has begun.
Usable(h) == status[h] = "live" /\ active[h] /\ token[h] \notin retired

\* acquireRedisCredentialLease: SET NX PX under a new random token.
Acquire(h) ==
    /\ status[h] = "none"
    /\ Send(h, "acquire")
    /\ \E t \in Token \ minted :
         /\ minted' = minted \cup {t}
         /\ token' = [token EXCEPT ![h] = t]
    /\ status' = [status EXCEPT ![h] = "asking"]
    /\ UNCHANGED <<now, redis, retired, freed, active, until, answers>>

\* joinRedisCredentialLease: a later session of the machine asks under the
\* token its holder file names; the file of a released token is gone.
Join(h) ==
    /\ status[h] = "none"
    /\ Send(h, "join")
    /\ \E t \in minted \ retired : token' = [token EXCEPT ![h] = t]
    /\ status' = [status EXCEPT ![h] = "asking"]
    /\ UNCHANGED <<now, redis, minted, retired, freed, active, until, answers>>

Renew(h) ==
    /\ Usable(h)
    /\ Send(h, "renew")
    /\ UNCHANGED <<now, redis, minted, retired, freed, local, answers>>

Recover(h) ==
    /\ Usable(h)
    /\ Send(h, "recover")
    /\ UNCHANGED <<now, redis, minted, retired, freed, local, answers>>

\* lease.release(), called by the last holder of the token on the machine.
Release(h) ==
    /\ Usable(h)
    /\ \A g \in Handle \ {h} : token[g] # token[h]
    /\ Send(h, "release")
    /\ retired' = retired \cup {token[h]}
    /\ UNCHANGED <<now, redis, minted, freed, local, answers>>

-----------------------------------------------------------------------------
(* The Redis side: the oldest command of a connection is executed. *)

Reply(h, ok) ==
    /\ sent' = [sent EXCEPT ![h] = Tail(@)]
    /\ answers' = [answers EXCEPT ![h] =
                     Append(@, [op |-> Head(sent[h]).op,
                                at |-> Head(sent[h]).at,
                                ok |-> ok])]

Executing(h, op) == sent[h] # <<>> /\ Head(sent[h]).op = op

SetWithExpiry(t) == owner' = t /\ expiresAt' = now + Ttl

\* SET NX PX: the key is taken only when it is absent.
ExecAcquire(h) ==
    /\ Executing(h, "acquire")
    /\ \/ /\ owner = NoToken
          /\ SetWithExpiry(token[h])
          /\ Reply(h, TRUE)
       \/ /\ owner # NoToken
          /\ UNCHANGED <<owner, expiresAt>>
          /\ Reply(h, FALSE)
    /\ UNCHANGED <<now, minted, retired, freed, local>>

\* AIMGR_CREDENTIAL_LEASE_RENEW_V1
ExecRenew(h) ==
    /\ Executing(h, "renew")
    /\ \/ /\ owner = token[h]
          /\ SetWithExpiry(token[h])
          /\ Reply(h, TRUE)
       \/ /\ owner # token[h]
          /\ UNCHANGED <<owner, expiresAt>>
          /\ Reply(h, FALSE)
    /\ UNCHANGED <<now, minted, retired, freed, local>>

\* Mutant of ExecRenewOrReacquire: SET whoever owns the key.
ExecSetAlways(h) ==
    /\ Executing(h, "join") \/ Executing(h, "recover")
    /\ SetWithExpiry(token[h])
    /\ Reply(h, TRUE)
    /\ UNCHANGED <<now, minted, retired, freed, local>>

\* AIMGR_CREDENTIAL_LEASE_RENEW_OR_REACQUIRE_V1, for a join and a recovery.
ExecRenewOrReacquire(h) ==
    /\ Executing(h, "join") \/ Executing(h, "recover")
    /\ \/ /\ owner \in {token[h], NoToken}
          /\ SetWithExpiry(token[h])
          /\ Reply(h, TRUE)
       \/ /\ owner \notin {token[h], NoToken}
          /\ UNCHANGED <<owner, expiresAt>>
          /\ Reply(h, FALSE)
    /\ UNCHANGED <<now, minted, retired, freed, local>>

\* Mutant of ExecRelease: DEL without comparing the owner.
ExecDeleteAlways(h) ==
    /\ Executing(h, "release")
    /\ freed' = freed \cup {token[h]}
    /\ owner' = NoToken
    /\ Reply(h, TRUE)
    /\ UNCHANGED <<now, expiresAt, minted, retired, local>>

\* AIMGR_CREDENTIAL_LEASE_RELEASE_V1
ExecRelease(h) ==
    /\ Executing(h, "release")
    /\ freed' = freed \cup {token[h]}
    /\ \/ /\ owner = token[h]
          /\ owner' = NoToken
          /\ Reply(h, TRUE)
       \/ /\ owner # token[h]
          /\ UNCHANGED owner
          /\ Reply(h, FALSE)
    /\ UNCHANGED <<now, expiresAt, minted, retired, local>>

\* PX: the key disappears when its time is up.
Tick ==
    /\ now < MaxTime
    /\ now' = now + 1
    /\ owner' = IF expiresAt <= now + 1 THEN NoToken ELSE owner
    /\ UNCHANGED <<expiresAt, minted, retired, freed, local, sent, answers>>

-----------------------------------------------------------------------------
(* The local side again: a reply is read, or never arrives. *)

Reading(h, ops) == answers[h] # <<>> /\ Head(answers[h]).op \in ops

Read(h) == answers' = [answers EXCEPT ![h] = Tail(@)]

\* A good reply to a command sent at time t shows ownership until t + Ttl.
Entitle(h) ==
    until' = [until EXCEPT ![h] =
                IF @ < Head(answers[h]).at + Ttl THEN Head(answers[h]).at + Ttl ELSE @]

\* A handle is created only from a positive reply; null means busy.
ReadAcquired(h) ==
    /\ Reading(h, {"acquire", "join"})
    /\ Read(h)
    /\ \/ /\ Head(answers[h]).ok
          /\ status' = [status EXCEPT ![h] = "live"]
          /\ active' = [active EXCEPT ![h] = TRUE]
          /\ Entitle(h)
          /\ UNCHANGED token
       \/ /\ ~Head(answers[h]).ok
          /\ status' = [status EXCEPT ![h] = "none"]
          /\ token' = [token EXCEPT ![h] = NoToken]
          /\ UNCHANGED <<active, until>>
    /\ UNCHANGED <<now, redis, minted, retired, freed, sent>>

\* renew() and the recovery capability: a refusal clears `active`, and a later
\* good reply does not set it again.
ReadRenewed(h) ==
    /\ Reading(h, {"renew", "recover"})
    /\ Read(h)
    /\ \/ /\ Head(answers[h]).ok
          /\ Entitle(h)
          /\ UNCHANGED active
       \/ /\ ~Head(answers[h]).ok
          /\ active' = [active EXCEPT ![h] = FALSE]
          /\ UNCHANGED until
    /\ UNCHANGED <<now, redis, minted, retired, freed, status, token, sent>>

\* The local handle is gone: nothing it wrote will be executed any more.
Discard(h) ==
    /\ status' = [status EXCEPT ![h] = "none"]
    /\ token' = [token EXCEPT ![h] = NoToken]
    /\ active' = [active EXCEPT ![h] = FALSE]
    /\ until' = [until EXCEPT ![h] = 0]
    /\ sent' = [sent EXCEPT ![h] = <<>>]
    /\ answers' = [answers EXCEPT ![h] = <<>>]

ReadReleased(h) ==
    /\ Reading(h, {"release"})
    /\ Discard(h)
    /\ UNCHANGED <<now, redis, minted, retired, freed>>

\* The connection drops: every pending command throws, whether or not Redis
\* had executed it, and `active` stays as it was.  A handle being created is
\* never created.
Disconnect(h) ==
    /\ sent[h] # <<>> \/ answers[h] # <<>>
    /\ status[h] = "live"
    /\ sent' = [sent EXCEPT ![h] = <<>>]
    /\ answers' = [answers EXCEPT ![h] = <<>>]
    /\ UNCHANGED <<now, redis, minted, retired, freed, local>>

\* The process dies, or gives up on its handle; the key stays until it expires.
Crash(h) ==
    /\ status[h] # "none"
    /\ Discard(h)
    /\ UNCHANGED <<now, redis, minted, retired, freed>>

-----------------------------------------------------------------------------
Call(h) == Acquire(h) \/ Join(h) \/ Renew(h) \/ Recover(h) \/ Release(h)

Execute(h) ==
    \/ ExecAcquire(h) \/ ExecRenew(h) \/ ExecRenewOrReacquire(h)
    \/ ExecRelease(h)

Receive(h) == ReadAcquired(h) \/ ReadRenewed(h) \/ ReadReleased(h)

Next ==
    \/ \E h \in Handle : Call(h) \/ Execute(h) \/ Receive(h) \/ Disconnect(h) \/ Crash(h)
    \/ Tick

Spec == Init /\ [][Next]_vars
-----------------------------------------------------------------------------
(* A handle whose last good reply is younger than the lease owns the key,  *)
(* whatever expired, crashed, was answered late or was asked by others in  *)
(* the meantime: the reason renewing at a third of the TTL is enough.      *)
EntitledHandleOwnsKey ==
    \A h \in Handle :
      /\ status[h] = "live"
      /\ token[h] \notin retired
      /\ now < until[h]
      => owner = token[h]

(* A token is finished once Redis executed its release: no renewal, join   *)
(* or recovery that was still on its way brings it back as the owner.      *)
ReleaseIsFinal == owner \notin freed

(* Executing a command of a handle that lost the key to another owner      *)
(* changes nothing in Redis: a stale owner never deletes, extends or       *)
(* replaces a lease acquired by a newer process.                           *)
StaleHandleHarmless ==
    [][\A h \in Handle :
         (Len(answers'[h]) > Len(answers[h]) /\ owner \notin {token[h], NoToken})
           => UNCHANGED redis]_vars

(* The lease with its commands in flight implements LeaseOwnership.        *)
Ownership == INSTANCE LeaseOwnership
OwnershipSpec == Ownership!Spec
=============================================================================
