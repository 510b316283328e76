--------------------------- MODULE CodexMaintenance ---------------------------
(***************************************************************************)
(* How the processes of the pool keep one Codex or xAI credential usable   *)
(* (src/credentials/harness-access.js, src/credentials/xai-login.js): the  *)
(* credential helper resolves it or advances to it, `aim auth maintain`    *)
(* refreshes it, `aim login` replaces it and policy commands rewrite its   *)
(* record.  The provider accepts a refresh token once.  A Codex refresh is *)
(* made under the credential lease, which may lapse at any time            *)
(* (CredentialLease); an xAI refresh, a login and a policy command take    *)
(* no lease.  All publish by an atomic comparison of versions              *)
(* (AtomicRecords).                                                        *)
(*                                                                         *)
(* Tokens are numbered in the order the provider issues them; token 0      *)
(* stands for none: such a record has no refresh material.  Of a record    *)
(* only its version, its refresh token and whether it is marked            *)
(* oauth_reauth_required are kept; records keep their identity.            *)
(***************************************************************************)
EXTENDS Naturals

CONSTANTS
    Process,
    Nobody,       \* the holder of a free lease
    MaxToken,     \* bound on the tokens issued
    MaxVersion    \* bound on the versions written

ASSUME MaintenanceAssumption ==
    /\ Nobody \notin Process
    /\ MaxToken \in Nat \ {0}
    /\ MaxVersion \in Nat \ {0}

VARIABLES
    kind,       \* the provider of the credential, "codex" or "xai"
    record,     \* Redis: the credential record
    lease,      \* Redis: who holds the credential lease
    valid,      \* provider: the refresh tokens it accepts
    issued,     \* provider: the last token issued
    late,       \* network: tokens of abandoned refresh requests
    due,        \* the tokens whose access credential is due for a refresh
    pc,         \* of a process: its next step
    job,        \* of a process: what it was called for
    snap,       \* of a process: the record it read
    force,      \* of a process: refresh even when not due
    rejected,   \* of a process: rejectedCredentialVersion, or 0
    next,       \* of a process: the token it obtained, or 0
    result,     \* of a process: the result of its maintenance
    disturbed   \* history: a refresh under way was disturbed

pool == <<record, lease>>
provider == <<valid, issued, late, due>>
call == <<job, force, rejected>>
maintenanceVars == <<kind, pool, provider, pc, call, snap, next, result, disturbed>>

Job == {"resolve", "advance", "maintain", "login", "policy"}
Record == [version : 1..MaxVersion, token : 0..MaxToken, reauth : BOOLEAN]

MaintenanceTypeOK ==
    /\ kind \in {"codex", "xai"}
    /\ record \in Record
    /\ lease \in Process \cup {Nobody}
    /\ valid \subseteq 1..issued
    /\ issued \in 0..MaxToken
    /\ late \subseteq 1..issued
    /\ due \subseteq 1..issued
    /\ pc \in [Process -> {"idle", "admit", "probe", "poll", "acquire", "reread",
                           "refresh", "renew", "publish", "release", "final"}]
    /\ job \in [Process -> Job]
    /\ snap \in [Process -> Record]
    /\ force \in [Process -> BOOLEAN]
    /\ rejected \in [Process -> 0..MaxVersion]
    /\ next \in [Process -> 0..MaxToken]
    /\ result \in [Process -> {"none", "ok", "reauth", "failed"}]
    /\ disturbed \in BOOLEAN
    /\ record.token <= issued /\ \A p \in Process : next[p] <= issued

First == [version |-> 1, token |-> 1, reauth |-> FALSE]
Incomplete == [version |-> 1, token |-> 0, reauth |-> FALSE]

MaintenanceInit ==
    /\ kind \in {"codex", "xai"}
    /\ record \in {First, Incomplete}
    /\ lease = Nobody
    /\ issued = record.token /\ valid = {record.token} \ {0} /\ late = {} /\ due = {}
    /\ pc = [p \in Process |-> "idle"]
    /\ job = [p \in Process |-> "resolve"]
    /\ snap = [p \in Process |-> First]
    /\ force = [p \in Process |-> FALSE]
    /\ rejected = [p \in Process |-> 0]
    /\ next = [p \in Process |-> 0]
    /\ result = [p \in Process |-> "none"]
    /\ disturbed = FALSE

-----------------------------------------------------------------------------
\* A process from its reading of the record it refreshes, for Codex under the
\* lease, to its publication.
Refreshing(p) ==
    \/ pc[p] \in {"reread", "refresh", "renew", "publish"}
    \/ kind = "xai" /\ pc[p] = "admit" /\ job[p] \in {"resolve", "maintain"}

Disturb(P) == disturbed' = (disturbed \/ \E p \in P : Refreshing(p))

Goto(p, l) == pc' = [pc EXCEPT ![p] = l]

\* The call returns or throws, and its other variables are gone.
Return(p, r) ==
    /\ Goto(p, "idle")
    /\ job' = [job EXCEPT ![p] = "resolve"]
    /\ snap' = [snap EXCEPT ![p] = First]
    /\ force' = [force EXCEPT ![p] = FALSE]
    /\ rejected' = [rejected EXCEPT ![p] = 0]
    /\ next' = [next EXCEPT ![p] = 0]
    /\ result' = [result EXCEPT ![p] = r]

\* The caller learns that there is nothing for it, or why.
Finish(p) == Return(p, "none")

\* The caller is given the access credential of the record it last read.
Serve(p) == Return(p, "ok")

\* What parseCredentialHelperRequest accepts, and the commands: only a resolve
\* names a rejected version, only a Codex credential is advanced to.
Accepted(j, v) ==
    /\ j # "resolve" => v = 0
    /\ j = "advance" => kind = "codex"

\* loadRedisRuntime.  A caller may have seen a credential it was given before
\* rejected by the provider.
Load(p, j, v) ==
    /\ pc[p] = "idle"
    /\ v <= record.version /\ Accepted(j, v)
    /\ Goto(p, "admit")
    /\ job' = [job EXCEPT ![p] = j]
    /\ snap' = [snap EXCEPT ![p] = record]
    /\ rejected' = [rejected EXCEPT ![p] = v]
    /\ result' = [result EXCEPT ![p] = "none"]
    /\ UNCHANGED <<pool, provider, force, next, disturbed>>

\* validateRecord: a marked or incomplete record is refused.
Valid(r) == ~r.reauth /\ r.token # 0

\* Due material is maintained: Codex under the lease, xAI at once.
Maintain(p) == IF kind = "codex" THEN Goto(p, "acquire") ELSE Goto(p, "refresh")

\* rejectedCredentialVersion >= record.version
RejectedCurrent(p) == rejected[p] > 0 /\ rejected[p] >= snap[p].version

\* resolveHarnessAccessCredential up to the maintenance.
AdmitResolve(p) ==
    /\ pc[p] = "admit" /\ job[p] = "resolve"
    /\ \/ ~Valid(snap[p]) /\ Finish(p)
       \/ /\ Valid(snap[p])
          /\ snap[p].token \in due \/ RejectedCurrent(p)
          /\ force' = [force EXCEPT ![p] = RejectedCurrent(p)]
          /\ Maintain(p)
          /\ UNCHANGED <<job, rejected, snap, next, result>>
       \/ /\ Valid(snap[p]) /\ snap[p].token \notin due /\ ~RejectedCurrent(p)
          /\ Serve(p)
    /\ UNCHANGED <<pool, provider, disturbed>>

\* advanceHarnessAccessCredential: a credential that is ready, not due and
\* approved for failover is a candidate; the usage of the candidates is probed.
AdmitAdvance(p) ==
    /\ pc[p] = "admit" /\ job[p] = "advance"
    /\ \/ Finish(p)
       \/ /\ Valid(snap[p]) /\ snap[p].token \notin due
          /\ Goto(p, "probe")
          /\ UNCHANGED <<call, snap, next, result>>
    /\ UNCHANGED <<pool, provider, disturbed>>

\* The selected record is resolved as it was read, or another one is selected.
Advance(p) ==
    /\ pc[p] = "probe"
    /\ Serve(p) \/ Finish(p)
    /\ UNCHANGED <<pool, provider, disturbed>>

\* The helper gives up at its deadline or on SIGTERM while it waits for Redis
\* or for the usage probe.
Terminate(p) ==
    /\ pc[p] \in {"admit", "probe", "final"} /\ job[p] \in {"resolve", "advance"}
    /\ Finish(p)
    /\ UNCHANGED <<pool, provider, disturbed>>

\* handleOAuthMaintain: skip, or refresh with force.
AdmitMaintain(p) ==
    /\ pc[p] = "admit" /\ job[p] = "maintain"
    /\ \/ (snap[p].reauth \/ snap[p].token \notin due \cup {0}) /\ Finish(p)
       \/ /\ Valid(snap[p]) /\ snap[p].token \in due
          /\ force' = [force EXCEPT ![p] = TRUE]
          /\ Maintain(p)
          /\ UNCHANGED <<job, rejected, snap, next, result>>
    /\ UNCHANGED <<pool, provider, disturbed>>

\* handleOAuthMaintain, for a record without refresh material: xAI is reported,
\* Codex is read again and marked by the maintenance.
AdmitIncomplete(p) ==
    /\ pc[p] = "admit" /\ job[p] = "maintain"
    /\ ~snap[p].reauth /\ snap[p].token = 0
    /\ \/ (kind = "xai" \/ record.reauth) /\ Finish(p)
       \/ /\ kind = "codex" /\ ~record.reauth
          /\ force' = [force EXCEPT ![p] = TRUE]
          /\ Goto(p, "acquire")
          /\ UNCHANGED <<job, rejected, snap, next, result>>
    /\ UNCHANGED <<pool, provider, disturbed>>

-----------------------------------------------------------------------------
(* maintainRedisCodexCredential.                                           *)

TakeLease(p) ==
    /\ pc[p] = "acquire"
    /\ \/ /\ lease = Nobody
          /\ lease' = p
          /\ Goto(p, "reread")
          /\ UNCHANGED <<record, call, snap, next, result>>
       \/ lease # Nobody /\ Finish(p) /\ UNCHANGED pool   \* lease_busy
    /\ UNCHANGED <<provider, disturbed>>

\* The rest is skipped up to the release.
Leave(p, r) ==
    /\ Goto(p, "release")
    /\ result' = [result EXCEPT ![p] = r]
    /\ next' = [next EXCEPT ![p] = 0]

Reread(p) ==
    /\ pc[p] = "reread"
    /\ snap' = [snap EXCEPT ![p] = record]
    /\ \/ ~Valid(record) /\ ~(record.token = 0 /\ job[p] = "maintain") /\ Leave(p, "failed")
       \/ /\ record.token = 0 /\ job[p] = "maintain"    \* incompleteMeansReauth
          /\ Goto(p, "renew")
          /\ UNCHANGED <<next, result>>
       \/ Valid(record) /\ ~force[p] /\ record.token \notin due /\ Leave(p, "ok")
       \/ /\ Valid(record) /\ (force[p] \/ record.token \in due)
          /\ Goto(p, "refresh")
          /\ UNCHANGED <<next, result>>
    /\ UNCHANGED <<pool, provider, call, disturbed>>

\* The provider exchanges a token it accepts for a new one.
Exchange(t) ==
    /\ t \in valid
    /\ issued < MaxToken
    /\ issued' = issued + 1
    /\ valid' = (valid \ {t}) \cup {issued + 1}

\* Mutant of Refresh: every failure counts as invalid_grant.
RefreshOrReject(p) ==
    /\ pc[p] = "refresh" /\ kind = "codex"
    /\ \/ Exchange(snap[p].token) /\ next' = [next EXCEPT ![p] = issued']
       \/ UNCHANGED <<valid, issued, next>>
    /\ Goto(p, "renew")
    /\ UNCHANGED <<pool, late, due, call, snap, result, disturbed>>

\* refreshCodexWithoutBrowser: rotated tokens, or invalid_grant.
Refresh(p) ==
    /\ pc[p] = "refresh" /\ kind = "codex"
    /\ \/ Exchange(snap[p].token) /\ next' = [next EXCEPT ![p] = issued']
       \/ snap[p].token \notin valid /\ UNCHANGED <<valid, issued, next>>
    /\ Goto(p, "renew")
    /\ UNCHANGED <<pool, late, due, call, snap, result, disturbed>>

\* The request times out, or its answer is unusable: the provider may still
\* execute it.
RefreshFails(p) ==
    /\ pc[p] = "refresh" /\ kind = "codex"
    /\ late' = late \cup {snap[p].token}
    /\ Leave(p, "failed")
    /\ disturbed' = TRUE
    /\ UNCHANGED <<pool, valid, issued, due, call, snap>>

\* An abandoned request reaches the provider; nobody learns its answer.
ExchangeLate(t) ==
    /\ t \in late
    /\ late' = late \ {t}
    /\ Exchange(t) \/ (t \notin valid /\ UNCHANGED <<valid, issued>>)
    /\ UNCHANGED <<pool, due, pc, call, snap, next, result, disturbed>>

\* lease.renew before the publication.
RenewOwned(p) ==
    /\ pc[p] = "renew"
    /\ \/ lease = p /\ Goto(p, "publish") /\ UNCHANGED <<next, result>>
       \/ lease # p /\ Leave(p, "failed")
    /\ UNCHANGED <<pool, provider, call, snap, disturbed>>

\* The call is aborted, or Redis does not answer.
Abort(p) ==
    /\ pc[p] \in {"reread", "renew", "publish"}
    /\ job[p] # "login" /\ kind = "codex"
    /\ Leave(p, "failed")
    /\ Disturb({p})
    /\ UNCHANGED <<pool, provider, call, snap>>

\* What a refresh, an invalid_grant and a login make of the record read.
Revised(p) ==
    [version |-> snap[p].version + 1,
     token   |-> IF next[p] # 0 THEN next[p] ELSE snap[p].token,
     reauth  |-> next[p] = 0]

Published(p) == [result EXCEPT ![p] = IF next[p] # 0 THEN "ok" ELSE "reauth"]

\* Mutant of Publish: the record is written whatever its version.
PublishBlind(p) ==
    /\ pc[p] = "publish" /\ job[p] # "login" /\ kind = "codex"
    /\ snap[p].version < MaxVersion
    /\ record' = Revised(p)
    /\ result' = Published(p)
    /\ Goto(p, "release")
    /\ next' = [next EXCEPT ![p] = 0]
    /\ UNCHANGED <<lease, provider, call, snap, disturbed>>

Publish(p) ==
    /\ pc[p] = "publish" /\ job[p] # "login" /\ kind = "codex"
    /\ \/ /\ record.version = snap[p].version /\ record.version < MaxVersion
          /\ record' = Revised(p)
          \* the answer of the transaction may be lost
          /\ result' \in {Published(p), [result EXCEPT ![p] = "failed"]}
       \/ /\ record.version # snap[p].version
          /\ result' = [result EXCEPT ![p] = "failed"]
          /\ UNCHANGED record
    /\ Goto(p, "release")
    /\ next' = [next EXCEPT ![p] = 0]
    /\ UNCHANGED <<lease, provider, call, snap, disturbed>>

\* lease.release; a resolve goes on to read the maintained record.  A release
\* that finds another holder, or is not answered, is a failure.
FreeLease(p) ==
    /\ pc[p] = "release"
    /\ \/ /\ lease = p /\ lease' = Nobody
          /\ job[p] = "resolve" /\ result[p] = "ok"
          /\ Goto(p, "final")
          /\ UNCHANGED <<call, snap, next, result>>
       \/ /\ lease' \in {lease, IF lease = p THEN Nobody ELSE lease}
          /\ Finish(p)
    /\ UNCHANGED <<record, provider, disturbed>>

\* resolveHarnessAccessCredential after the maintenance.
Final(p) ==
    /\ pc[p] = "final"
    /\ \/ ~(Valid(record) /\ record.token \notin due) /\ Finish(p)
       \/ Valid(record) /\ record.token \notin due /\ Serve(p)
    /\ UNCHANGED <<pool, provider, disturbed>>

-----------------------------------------------------------------------------
(* maintainRedisXaiCredential: the record read at the start, no lease.     *)

\* The tokens are rotated; invalid_grant and every other failure is reported
\* and nothing is written.
RefreshXai(p) ==
    /\ pc[p] = "refresh" /\ kind = "xai"
    /\ \/ /\ Exchange(snap[p].token)
          /\ next' = [next EXCEPT ![p] = issued']
          /\ Goto(p, "publish")
          /\ UNCHANGED <<late, call, snap, result, disturbed>>
       \/ /\ snap[p].token \notin valid
          /\ Finish(p)
          /\ UNCHANGED <<valid, issued, late, disturbed>>
       \/ /\ late' = late \cup {snap[p].token}
          /\ Finish(p)
          /\ disturbed' = TRUE
          /\ UNCHANGED <<valid, issued>>
    /\ UNCHANGED <<pool, due>>

\* publishMaintainedCredential: the tokens obtained replace those of the record
\* that was read, if it is still that version.
PublishMaintained(p) ==
    /\ record.version = snap[p].version /\ record.version < MaxVersion
    /\ record' = Revised(p)

\* A resolve goes on to read the record; a refused publication is an error.
PublishXai(p) ==
    /\ pc[p] = "publish" /\ job[p] # "login" /\ kind = "xai"
    /\ \/ /\ PublishMaintained(p)
          /\ \/ /\ job[p] = "resolve"
                /\ Goto(p, "final")
                /\ next' = [next EXCEPT ![p] = 0]
                /\ UNCHANGED <<call, snap, result>>
             \/ Finish(p)
       \/ record.version # snap[p].version /\ Finish(p) /\ UNCHANGED record
    /\ UNCHANGED <<lease, provider, disturbed>>

-----------------------------------------------------------------------------
(* Commands that take no lease.                                            *)

\* refreshOrLoginCodex: a refresh, or a login in the browser.
Login(p) ==
    /\ pc[p] = "admit" /\ job[p] = "login" /\ kind = "codex"
    /\ \/ Exchange(snap[p].token) /\ UNCHANGED late
       \/ /\ issued < MaxToken
          /\ issued' = issued + 1 /\ valid' = valid \cup {issued + 1}
          /\ late' = late \cup ({snap[p].token} \ {0})
    /\ next' = [next EXCEPT ![p] = issued']
    /\ Goto(p, "publish")
    /\ disturbed' = TRUE
    /\ UNCHANGED <<pool, due, call, snap, result>>

\* performRedisXaiLogin up to the polls: the old token is left alone.
RequestDevice(p) ==
    /\ pc[p] = "admit" /\ job[p] = "login" /\ kind = "xai"
    /\ Goto(p, "poll")
    /\ UNCHANGED <<pool, provider, call, snap, next, result, disturbed>>

\* pollXaiDeviceTokens: approved with the expected address, or denied,
\* expired or approved by another account.
Poll(p) ==
    /\ pc[p] = "poll"
    /\ \/ /\ issued < MaxToken
          /\ issued' = issued + 1 /\ valid' = valid \cup {issued + 1}
          /\ next' = [next EXCEPT ![p] = issued']
          /\ Goto(p, "publish")
          /\ UNCHANGED <<call, snap, result>>
       \/ Finish(p) /\ UNCHANGED <<valid, issued>>
    /\ UNCHANGED <<pool, late, due, disturbed>>

\* performRedisLabelMaintenance, performRedisXaiLogin: publication against the
\* record read before the browser was opened.
PublishLogin(p) ==
    /\ pc[p] = "publish" /\ job[p] = "login"
    /\ \/ /\ PublishMaintained(p)
          /\ Finish(p)
          /\ Disturb(Process \ {p})
       \/ /\ record.version # snap[p].version
          /\ Finish(p)
          /\ UNCHANGED <<record, disturbed>>
    /\ UNCHANGED <<lease, provider>>

\* publishRedisCredentialPolicyFromState: another version of the same tokens.
PublishPolicy(p) ==
    /\ pc[p] = "admit" /\ job[p] = "policy"
    /\ \/ /\ record.version = snap[p].version /\ record.version < MaxVersion
          /\ record' = [snap[p] EXCEPT !.version = @ + 1]
          /\ Disturb(Process \ {p})
       \/ record.version # snap[p].version /\ UNCHANGED <<record, disturbed>>
    /\ Finish(p)
    /\ UNCHANGED <<lease, provider>>

-----------------------------------------------------------------------------
\* The access credential of the record reaches the freshness floor.
BecomeDue ==
    /\ record.token \notin due \cup {0}
    /\ due' = due \cup {record.token}
    /\ UNCHANGED <<pool, valid, issued, late, pc, call, snap, next, result, disturbed>>

Lapse ==
    /\ lease # Nobody
    /\ lease' = Nobody
    /\ Disturb({lease})
    /\ UNCHANGED <<record, provider, pc, call, snap, next, result>>

Die(p) ==
    /\ pc[p] # "idle"
    /\ Finish(p)
    /\ late' = IF pc[p] = "refresh" THEN late \cup {snap[p].token} ELSE late
    /\ Disturb({p})
    /\ UNCHANGED <<pool, valid, issued, due>>

Step(p) ==
    \/ \E j \in Job, v \in 0..MaxVersion : Load(p, j, v)
    \/ AdmitResolve(p) \/ AdmitAdvance(p) \/ Advance(p) \/ Terminate(p)
    \/ AdmitMaintain(p) \/ AdmitIncomplete(p)
    \/ TakeLease(p) \/ Reread(p) \/ Refresh(p) \/ RefreshFails(p)
    \/ RenewOwned(p) \/ Abort(p) \/ Publish(p) \/ FreeLease(p) \/ Final(p)
    \/ RefreshXai(p) \/ PublishXai(p)
    \/ Login(p) \/ RequestDevice(p) \/ Poll(p) \/ PublishLogin(p)
    \/ PublishPolicy(p) \/ Die(p)

MaintenanceNext ==
    /\ \/ \E p \in Process : Step(p)
       \/ \E t \in 1..MaxToken : ExchangeLate(t)
       \/ BecomeDue \/ Lapse
    /\ kind' = kind

MaintenanceSpec == MaintenanceInit /\ [][MaintenanceNext]_maintenanceVars
-----------------------------------------------------------------------------
(* A record is marked oauth_reauth_required only when its token is spent   *)
(* (or missing): no failure, race or late answer blocks a credential that  *)
(* still works (publishCodexReauthRequired).                               *)
BlockedOnlyWhenSpent == record.reauth => record.token \notin valid

(* No write of the record, by a slow maintainer with or without the lease, *)
(* a login or a policy command, replaces a usable credential by one that   *)
(* is not.                                                                 *)
UsableNotReplaced ==
    [][record' # record /\ record.token \in valid => record'.token \in valid']_maintenanceVars

(* However many processes find the credential due at once, with a lease    *)
(* (Codex) or without (xAI), it is not lost: unless a refresh under way is *)
(* disturbed (its process dies or gives up, its lease lapses, the record   *)
(* is rewritten), the pool holds a token the provider accepts, or a        *)
(* process is about to publish one.                                        *)
RotationKept ==
    ~disturbed /\ record.token # 0
        => record.token \in valid \/ \E p \in Process : next[p] \in valid

(* A credential that works is neither lost nor replaced by one that does    *)
(* not.                                                                     *)
CredentialKept == []RotationKept /\ UsableNotReplaced
=============================================================================
