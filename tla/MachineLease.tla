----------------------------- MODULE MachineLease -----------------------------
(***************************************************************************)
(* How the sessions of one machine share the Redis lease on a Claude       *)
(* account (src/targets/claude-machine-lease.js).                          *)
(*                                                                         *)
(* The machine keeps a holder file, the lease's token and the pids that    *)
(* share it, and a lock directory around every use of it.  A session that  *)
(* starts joins the lease of the file or takes a new one; a session that   *)
(* ends takes its pid out and, when no live one is left, removes the file  *)
(* and releases the lease.  A session's process dies at any step, its lock *)
(* and its pid left behind; the lock is then removed as stale.             *)
(*                                                                         *)
(* Outside the section the lease's heartbeat reclaims the key when it is   *)
(* free and ends the session when another owner has it.  Who else may take *)
(* the key (another machine, an exclusive operation) is the environment.   *)
(* Reads and writes of the holder file are one step each (it is replaced   *)
(* by a rename), a Redis command takes effect in one step, its reply lost  *)
(* or not.  Pids are not reused.                                           *)
(***************************************************************************)
EXTENDS Naturals

CONSTANTS
    Proc,        \* the processes, one session each
    NoProc,
    MaxToken,    \* bound on the tokens generated
    Slow,        \* a Redis call of the section may outlast LOCK_STALE_MS (no
                 \* deadline bounds it; or the machine sleeps meanwhile)
    Torn,        \* others may act between a process's look at the age of a
                 \* lock and its removal, two system calls with nothing between
    Takeover     \* another owner may take the key of a running session once
                 \* it has expired

ASSUME ConstantsAssumption ==
    /\ NoProc \notin Proc
    /\ MaxToken \in Nat
    /\ Slow \in BOOLEAN /\ Torn \in BOOLEAN /\ Takeover \in BOOLEAN

VARIABLES
    key,      \* Redis: the token under the lease key, or NoToken
    minted,   \* the last token generated
    spent,    \* the tokens whose release has been executed
    holder,   \* the holder file, or NoHolder
    lock,     \* the process whose mkdir of the lock directory stands
    pc,       \* of a process: its step
    seen,     \* of a process: the holder it has read
    token,    \* of a process: the token of its lease, or NoToken
    after     \* of a process: where its section leads

redis == <<key, minted, spent>>
local == <<pc, seen, token, after>>
vars == <<redis, holder, lock, local>>

NoToken == 0
Token == 1 .. MaxToken
NoHolder == [token |-> NoToken, members |-> {}]
Holder == [token : Token \cup {NoToken}, members : SUBSET Proc]

Section == {"read", "join", "acquire", "write", "leave", "release", "unlock"}
Step == Section \cup {"new", "enter", "run", "stop", "remove", "gone"}

TypeOK ==
    /\ key \in Token \cup {NoToken}
    /\ minted \in 0 .. MaxToken
    /\ spent \subseteq Token
    /\ holder \in Holder
    /\ lock \in Proc \cup {NoProc}
    /\ pc \in [Proc -> Step]
    /\ seen \in [Proc -> Holder]
    /\ token \in [Proc -> Token \cup {NoToken}]
    /\ after \in [Proc -> {"run", "gone"}]
    /\ \A p \in Proc : pc[p] \in {"write", "run", "stop", "leave", "release"} => token[p] # NoToken

Init ==
    /\ key = NoToken /\ minted = 0 /\ spent = {}
    /\ holder = NoHolder
    /\ lock = NoProc
    /\ pc = [p \in Proc |-> "new"]
    /\ seen = [p \in Proc |-> NoHolder]
    /\ token = [p \in Proc |-> NoToken]
    /\ after = [p \in Proc |-> "run"]

Alive(p) == pc[p] \notin {"new", "gone"}
Goto(p, s) == pc' = [pc EXCEPT ![p] = s]

\* The section is over, with or without an exception.
Leads(p, s) == Goto(p, "unlock") /\ after' = [after EXCEPT ![p] = s]

-----------------------------------------------------------------------------
(* withHolderLock *)

Start(p) ==
    /\ pc[p] = "new"
    /\ Goto(p, "enter")
    /\ UNCHANGED <<redis, holder, lock, seen, token, after>>

Lock(p) ==
    /\ pc[p] \in {"enter", "stop"}
    /\ lock = NoProc
    /\ Torn \/ \A q \in Proc : pc[q] # "remove"
    /\ lock' = p
    /\ Goto(p, IF pc[p] = "enter" THEN "read" ELSE "leave")
    /\ UNCHANGED <<redis, holder, seen, token, after>>

\* Mutant of Stale: the age of the lock is not looked at.
AnyLock == lock # NoProc

Stale ==
    /\ lock # NoProc
    /\ ~Alive(lock) \/ (Slow /\ pc[lock] \in {"join", "acquire", "write", "release"})

FindStale(p) ==
    /\ pc[p] \in {"enter", "stop"}
    /\ Stale
    /\ Goto(p, "remove")
    /\ UNCHANGED <<redis, holder, lock, seen, token, after>>

\* Whatever lock is there by now goes; a session that leaves has a token.
RemoveStaleLock(p) ==
    /\ pc[p] = "remove"
    /\ lock' = NoProc
    /\ Goto(p, IF token[p] = NoToken THEN "enter" ELSE "stop")
    /\ UNCHANGED <<redis, holder, seen, token, after>>

\* LOCK_WAIT_MS is over: the launch, or the release, fails.
GiveUp(p) ==
    /\ pc[p] \in {"enter", "stop"}
    /\ lock # NoProc
    /\ Goto(p, "gone")
    /\ UNCHANGED <<redis, holder, lock, seen, token, after>>

\* The lock directory goes, whoever made it.
Unlock(p) ==
    /\ pc[p] = "unlock"
    /\ lock' = NoProc
    /\ Goto(p, after[p])
    /\ UNCHANGED <<redis, holder, seen, token, after>>

-----------------------------------------------------------------------------
(* joinMachineClaudeLease *)

ReadHolder(p) ==
    /\ pc[p] = "read"
    /\ seen' = [seen EXCEPT ![p] = holder]
    /\ Goto(p, IF holder.token = NoToken THEN "acquire" ELSE "join")
    /\ UNCHANGED <<redis, holder, lock, token, after>>

\* The script of joinRedisCredentialLease: renew the token's lease, or take
\* the free key back.
Reclaims(t) == key \in {t, NoToken}

Join(p) ==
    /\ pc[p] = "join"
    /\ IF Reclaims(seen[p].token)
       THEN /\ key' = seen[p].token
            /\ token' = [token EXCEPT ![p] = seen[p].token]
            /\ Goto(p, "write")
       ELSE /\ Goto(p, "acquire")
            /\ UNCHANGED <<key, token>>
    /\ UNCHANGED <<minted, spent, holder, lock, seen, after>>

Acquire(p) ==
    /\ pc[p] = "acquire"
    /\ key = NoToken
    /\ minted < MaxToken
    /\ minted' = minted + 1
    /\ key' = minted'
    /\ token' = [token EXCEPT ![p] = minted']
    /\ Goto(p, "write")
    /\ UNCHANGED <<spent, holder, lock, seen, after>>

\* Another machine or an exclusive AIM operation holds the account.
Busy(p) ==
    /\ pc[p] = "acquire"
    /\ key # NoToken
    /\ Leads(p, "gone")
    /\ UNCHANGED <<redis, holder, lock, seen, token>>

\* A Redis call throws, whether or not the command was executed.
JoinThrows(p) ==
    /\ pc[p] \in {"join", "acquire"}
    /\ \/ UNCHANGED <<key, minted>>
       \/ pc[p] = "join" /\ Reclaims(seen[p].token) /\ key' = seen[p].token /\ UNCHANGED minted
       \/ /\ pc[p] = "acquire" /\ key = NoToken /\ minted < MaxToken
          /\ minted' = minted + 1 /\ key' = minted'
    /\ Leads(p, "gone")
    /\ UNCHANGED <<spent, holder, lock, seen, token>>

\* The members of a holder that still count, for the process that asks.
Siblings(p, h) == {q \in h.members \ {p} : Alive(q)}

Write(p) ==
    /\ pc[p] = "write"
    /\ LET siblings == IF token[p] = seen[p].token THEN Siblings(p, seen[p]) ELSE {}
       IN  holder' = [token |-> token[p], members |-> siblings \cup {p}]
    /\ Leads(p, "run")
    /\ UNCHANGED <<redis, lock, seen, token>>

-----------------------------------------------------------------------------
(* The heartbeat of a running session, and its end *)

\* A renewal finds the key free.
Reclaim(p) ==
    /\ pc[p] = "run"
    /\ key = NoToken
    /\ key' = token[p]
    /\ UNCHANGED <<minted, spent, holder, lock, local>>

\* The session ends, or its heartbeat lost the lease.
End(p) ==
    /\ pc[p] = "run"
    /\ Goto(p, "stop")
    /\ UNCHANGED <<redis, holder, lock, seen, token, after>>

-----------------------------------------------------------------------------
(* leaveMachineClaudeLease *)

OwnsHolder(p) == holder.token = token[p]

\* Mutant of Leave: the file is kept for the next session to join.
LeaveFile(p) ==
    /\ pc[p] = "leave"
    /\ LET remaining == IF OwnsHolder(p) THEN Siblings(p, holder) ELSE {}
       IN  IF remaining # {}
           THEN /\ holder' = [holder EXCEPT !.members = remaining]
                /\ Leads(p, "gone")
           ELSE /\ UNCHANGED holder
                /\ Goto(p, "release")
                /\ UNCHANGED after
    /\ UNCHANGED <<redis, lock, seen, token>>

\* Mutant of Leave: a session that leaves others behind releases, too.
LeaveReleasing(p) ==
    /\ pc[p] = "leave"
    /\ LET remaining == IF OwnsHolder(p) THEN Siblings(p, holder) ELSE {}
       IN  holder' = IF remaining # {} THEN [holder EXCEPT !.members = remaining]
                     ELSE IF OwnsHolder(p) THEN NoHolder ELSE holder
    /\ Goto(p, "release")
    /\ UNCHANGED <<redis, lock, seen, token, after>>

Leave(p) ==
    /\ pc[p] = "leave"
    /\ LET remaining == IF OwnsHolder(p) THEN Siblings(p, holder) ELSE {}
       IN  IF remaining # {}
           THEN /\ holder' = [holder EXCEPT !.members = remaining]
                /\ Leads(p, "gone")
           ELSE /\ holder' = IF OwnsHolder(p) THEN NoHolder ELSE holder
                /\ Goto(p, "release")
                /\ UNCHANGED after
    /\ UNCHANGED <<redis, lock, seen, token>>

\* lease.release(): the key is deleted if it holds the lease's token.
Release(p) ==
    /\ pc[p] = "release"
    /\ key' = IF key = token[p] THEN NoToken ELSE key
    /\ spent' = spent \cup {token[p]}
    /\ Leads(p, "gone")
    /\ UNCHANGED <<minted, holder, lock, seen, token>>

\* The release throws before Redis executed it (a lost reply is Release).
ReleaseThrows(p) ==
    /\ pc[p] = "release"
    /\ Leads(p, "gone")
    /\ UNCHANGED <<redis, holder, lock, seen, token>>

-----------------------------------------------------------------------------
(* The environment *)

Crash(p) ==
    /\ Alive(p)
    /\ Goto(p, "gone")
    /\ UNCHANGED <<redis, holder, lock, seen, token, after>>

\* A session whose lease another owner must not find expired: one that has
\* joined, until it ends.
Keeps(p) == pc[p] \in {"write", "run"} \/ (pc[p] = "unlock" /\ after[p] = "run")

\* The key expires; or its owner, not a session of this machine, releases it.
Lapse ==
    /\ key # NoToken
    /\ key' = NoToken
    /\ UNCHANGED <<minted, spent, holder, lock, local>>

Others ==
    /\ key = NoToken
    /\ Takeover \/ \A p \in Proc : ~Keeps(p)
    /\ minted < MaxToken
    /\ minted' = minted + 1
    /\ key' = minted'
    /\ UNCHANGED <<spent, holder, lock, local>>

Next ==
    \/ \E p \in Proc :
        \/ Start(p) \/ Lock(p) \/ FindStale(p) \/ RemoveStaleLock(p) \/ GiveUp(p) \/ Unlock(p)
        \/ ReadHolder(p) \/ Join(p) \/ Acquire(p) \/ Busy(p) \/ JoinThrows(p)
        \/ Write(p) \/ Reclaim(p) \/ End(p) \/ Leave(p) \/ Release(p)
        \/ ReleaseThrows(p) \/ Crash(p)
    \/ Lapse
    \/ Others

Spec == Init /\ [][Next]_vars

-----------------------------------------------------------------------------
(* Properties *)

\* One process at a time is in the section: the removal of a stale lock, and
\* the removal at the end of a section that asks nobody, never let two in.
OneInSection ==
    \A p, q \in Proc : pc[p] \in Section /\ pc[q] \in Section => p = q

\* Every running session is counted in the holder file, under the token it
\* runs with: readMachineClaudeSessionCounts and the leaving sessions see it.
SessionsRecorded ==
    \A p \in Proc : pc[p] = "run" => holder.token = token[p] /\ p \in holder.members

\* A session that starts while others run on the machine joins them: it never
\* finds the account busy with its own machine's lease.
NotBusyToItself ==
    [][\A p, q \in Proc : Busy(p) => pc[q] # "run"]_vars

\* "The Redis lease is released only when no other live session on this
\* machine still shares it" (claude-machine-lease.js:124).
ReleasedByLast ==
    [][\A p \in Proc : Release(p) =>
          \A q \in Proc \ {p} : pc[q] = "run" => token[q] # token[p]]_vars

\* The shared lease is one lease: its key names one owner at a time, and the
\* token the machine released never comes back, neither from the holder file
\* nor from a heartbeat of another session.
Ownership == INSTANCE LeaseOwnership
    WITH owner <- key, freed <- spent, Token <- Token, NoToken <- NoToken

OwnershipSpec == Ownership!Spec
=============================================================================
