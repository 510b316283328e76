----------------------------- MODULE ClaudeSession -----------------------------
(***************************************************************************)
(* How the machines of the pool share one Claude login: interactive        *)
(* sessions (src/cli/commands/claude.js) and the maintainer                *)
(* (src/credentials/claude-maintenance.js).                                *)
(*                                                                         *)
(* Claude itself refreshes the login, in the file of its machine; whoever  *)
(* runs it publishes the rotation.  A session holds the credential lease   *)
(* by a heartbeat: while Redis is unreachable Claude is paused, and it is  *)
(* resumed if the lease is still ours, or free, and the pool's login did   *)
(* not change.  The publisher of rotations runs beside the heartbeat and   *)
(* shares its snapshot of the pool.                                        *)
(*                                                                         *)
(* A machine runs one session or one maintenance at a time (those of one   *)
(* machine share its lease and its file).  Tokens are numbered in the      *)
(* order the provider issues them, which is that of their expiry; token 0  *)
(* is the empty login Claude leaves when its token was refused.            *)
(*                                                                         *)
(* Time: a heartbeat notices an unreachable Redis, and pauses Claude,      *)
(* before its lease expires (renewal every 10 s, deadline 5 s, pause 2 s,  *)
(* lease 30 s).  So the lease of a machine lapses only while that machine  *)
(* sleeps, runs no AIM process, or is paused.  No deadline bounds the      *)
(* other calls of a session to Redis; only on a machine of Stallers does   *)
(* the lease lapse during one.                                             *)
(***************************************************************************)
EXTENDS Naturals

CONSTANTS
    Machine,
    Nobody,       \* the holder of a free lease
    Sleepers,     \* the machines that may be put to sleep
    Stallers,     \* the machines whose calls to Redis may outlast the lease
    MaxToken,     \* bound on the tokens issued
    MaxVersion    \* bound on the versions written

ASSUME ConstantsAssumption ==
    /\ Nobody \notin Machine
    /\ Sleepers \subseteq Machine /\ Stallers \subseteq Machine
    /\ MaxToken \in Nat \ {0} /\ MaxVersion \in Nat \ {0}

VARIABLES
    record,   \* Redis: the credential record
    lease,    \* Redis: the machine that holds the credential lease
    valid,    \* provider: the refresh tokens it accepts
    issued,   \* provider: the last token issued
    file,     \* of a machine: the token in its login file
    awake,    \* of a machine
    claude,   \* of a machine: its Claude process
    pc,       \* of a machine: the step of its AIM process
    job,      \* of a machine: a session or a maintenance
    snap,     \* of a machine: runtime.snapshot, the record it knows
    beat,     \* of a machine: what its heartbeat waits for
    held,     \* of a machine: heartbeat.paused
    lost,     \* of a machine: heartbeat.lost
    prior,    \* of a machine: the token known before the check, or 0
    pub,      \* of a machine: what its publication waits for
    cand      \* of a machine: the candidate to publish, or 0

pool == <<record, lease>>
provider == <<valid, issued>>
heart == <<beat, held, lost, prior>>
publication == <<pub, cand>>
sessionVars == <<pool, provider, file, awake, claude, pc, job, snap, heart, publication>>

Record == [version : 1..MaxVersion, token : 1..MaxToken, blocked : BOOLEAN]

SessionTypeOK ==
    /\ record \in Record
    /\ lease \in Machine \cup {Nobody}
    /\ valid \subseteq 1..issued /\ issued \in 1..MaxToken
    /\ file \in [Machine -> 0..MaxToken]
    /\ awake \in [Machine -> BOOLEAN]
    /\ claude \in [Machine -> {"none", "running", "stopped", "ending"}]
    /\ pc \in [Machine -> {"idle", "reload", "preflight", "preflight publish", "project",
                           "launch", "run", "after", "block", "release"}]
    /\ job \in [Machine -> {"session", "maintain"}]
    /\ snap \in [Machine -> Record]
    /\ beat \in [Machine -> {"rest", "pause", "check"}]
    /\ held \in [Machine -> BOOLEAN] /\ lost \in [Machine -> BOOLEAN]
    /\ prior \in [Machine -> 0..MaxToken]
    /\ pub \in [Machine -> {"rest", "refresh", "assert", "publish"}]
    /\ cand \in [Machine -> 0..MaxToken]
    /\ \A m \in Machine :
         /\ file[m] <= issued /\ cand[m] <= issued
         /\ (cand[m] = 0) = (pub[m] = "rest" /\ pc[m] # "preflight publish")
         /\ (prior[m] = 0) = (beat[m] # "check")
         /\ claude[m] = "stopped" => held[m]

First == [version |-> 1, token |-> 1, blocked |-> FALSE]

SessionInit ==
    /\ record = First /\ lease = Nobody
    /\ valid = {1} /\ issued = 1
    /\ file = [m \in Machine |-> 0]
    /\ awake = [m \in Machine |-> TRUE]
    /\ claude = [m \in Machine |-> "none"]
    /\ pc = [m \in Machine |-> "idle"]
    /\ job = [m \in Machine |-> "session"]
    /\ snap = [m \in Machine |-> First]
    /\ beat = [m \in Machine |-> "rest"]
    /\ held = [m \in Machine |-> FALSE] /\ lost = [m \in Machine |-> FALSE]
    /\ prior = [m \in Machine |-> 0]
    /\ pub = [m \in Machine |-> "rest"]
    /\ cand = [m \in Machine |-> 0]

-----------------------------------------------------------------------------
At(m, l) == awake[m] /\ pc[m] = l
Goto(m, l) == pc' = [pc EXCEPT ![m] = l]
Set(f, m, v) == f' = [f EXCEPT ![m] = v]

\* The AIM process is gone, with what it knew.
Gone(m) ==
    /\ Goto(m, "idle") /\ Set(job, m, "session") /\ Set(snap, m, First)
    /\ Set(beat, m, "rest") /\ Set(held, m, FALSE) /\ Set(lost, m, FALSE)
    /\ Set(prior, m, 0) /\ Set(pub, m, "rest") /\ Set(cand, m, 0)

\* The heartbeat of a session renews the lease, or takes it back when it is
\* free; the maintainer renews the one it holds.
Owned(m) ==
    /\ lease = m \/ (lease = Nobody /\ job[m] = "session")
    /\ lease' = m

\* publishCredential from the snapshot of m; an unwritten record is an error.
Cas(m, r) ==
    /\ record.version = snap[m].version
    /\ record.version < MaxVersion
    /\ record' = [r EXCEPT !.version = record.version + 1]

-----------------------------------------------------------------------------
(* Up to the launch of Claude.                                             *)

\* joinMachineClaudeLease, or acquireRedisCredentialLease.  A session also
\* joins the lease that a dead session of its machine left.
Acquire(m, j) ==
    /\ At(m, "idle") /\ claude[m] = "none"
    /\ lease = Nobody \/ (lease = m /\ j = "session")
    /\ lease' = m
    /\ Goto(m, "reload") /\ Set(job, m, j)
    /\ UNCHANGED <<record, provider, file, awake, claude, snap, heart, publication>>

\* refreshRedisRuntimeState under the lease; a blocked account is left alone.
Reload(m) ==
    /\ At(m, "reload")
    /\ Set(snap, m, record)
    /\ Goto(m, IF record.blocked THEN "release" ELSE "preflight")
    /\ UNCHANGED <<pool, provider, file, awake, claude, job, heart, publication>>

\* syncClaudeNativeBundleBackToLabel: the file holds a newer login than the
\* pool, as this machine knows it.
Candidate(m) == file[m] > snap[m].token

\* Mutant of Preflight: a newer login in the file is not published first.
PreflightSkips(m) ==
    /\ At(m, "preflight")
    /\ Goto(m, "project")
    /\ UNCHANGED <<pool, provider, file, awake, claude, job, snap, heart, publication>>

\* runSharedClaudePreRunPreflight.
Preflight(m) ==
    /\ At(m, "preflight")
    /\ \/ /\ ~Candidate(m)
          /\ Goto(m, "project") /\ UNCHANGED <<lease, cand>>
       \/ /\ Candidate(m) /\ Owned(m)
          /\ Set(cand, m, file[m]) /\ Goto(m, "preflight publish")
    /\ UNCHANGED <<record, provider, file, awake, claude, job, snap, heart, pub>>

\* publishRedisStateCredential: the tokens are replaced, the rest of the record
\* is kept.
PublishTokens(m) ==
    /\ cand[m] > snap[m].token
    /\ Cas(m, [snap[m] EXCEPT !.token = cand[m]])
    /\ snap' \in {[snap EXCEPT ![m] = record'], snap}   \* the answer may be lost

PreflightPublish(m) ==
    /\ At(m, "preflight publish")
    /\ \/ /\ PublishTokens(m)
          /\ Goto(m, IF snap'[m] = record' THEN "project" ELSE "release")
       \/ /\ record.version # snap[m].version
          /\ Goto(m, "release") /\ UNCHANGED <<record, snap>>
    /\ Set(cand, m, 0)
    /\ UNCHANGED <<lease, provider, file, awake, claude, job, heart, pub>>

\* projectClaudeNativeBundleToManagedConfig: sessions keep a newer file.
Project(m) ==
    /\ At(m, "project")
    /\ Set(file, m, IF job[m] = "session" /\ Candidate(m) THEN file[m] ELSE snap[m].token)
    /\ Goto(m, "launch")
    /\ UNCHANGED <<pool, provider, awake, claude, job, snap, heart, publication>>

Launch(m) ==
    /\ At(m, "launch") /\ Owned(m)
    /\ Set(claude, m, "running") /\ Goto(m, "run")
    /\ UNCHANGED <<record, provider, file, awake, job, snap, heart, publication>>

\* Redis does not answer, or the lease is another's: nothing is launched.
Abandon(m) ==
    /\ awake[m] /\ pc[m] \in {"reload", "preflight", "preflight publish", "launch", "block"}
    /\ Goto(m, "release") /\ Set(cand, m, 0)
    /\ UNCHANGED <<pool, provider, file, awake, claude, job, snap, heart, pub>>

-----------------------------------------------------------------------------
(* Claude: an external program.                                            *)

ClaudeUp(m) == claude[m] = "running" \/ claude[m] = "ending"

\* It refreshes the login in its file.
Rotate(m) ==
    /\ awake[m] /\ ClaudeUp(m)
    /\ file[m] \in valid /\ issued < MaxToken
    /\ issued' = issued + 1
    /\ valid' = (valid \ {file[m]}) \cup {issued + 1}
    /\ Set(file, m, issued + 1)
    /\ UNCHANGED <<pool, awake, claude, pc, job, snap, heart, publication>>

\* Its refresh is refused: it leaves an empty login.
Expire(m) ==
    /\ awake[m] /\ ClaudeUp(m)
    /\ file[m] # 0 /\ file[m] \notin valid
    /\ Set(file, m, 0)
    /\ UNCHANGED <<pool, provider, awake, claude, pc, job, snap, heart, publication>>

\* It ends by itself, or is killed after the grace of a termination.
Exit(m) ==
    /\ awake[m] /\ ClaudeUp(m)
    /\ Set(claude, m, "none")
    /\ UNCHANGED <<pool, provider, file, awake, pc, job, snap, heart, publication>>

-----------------------------------------------------------------------------
(* startClaudeCredentialLeaseHeartbeat, while Claude runs and until the    *)
(* publication after it.                                                   *)

Beating(m) ==
    /\ awake[m] /\ job[m] = "session" /\ pc[m] \in {"run", "after"}
    /\ ~lost[m] /\ beat[m] = "rest"

\* loseOwnership: the supervisor continues and terminates Claude.
Lose(m) ==
    /\ Set(lost, m, TRUE)
    /\ Set(claude, m, IF claude[m] = "none" THEN "none" ELSE "ending")

Renewed(m) ==
    /\ Beating(m) /\ Owned(m)
    /\ IF held[m] THEN Set(beat, m, "check") /\ Set(prior, m, snap[m].token)
                    ELSE UNCHANGED <<beat, prior>>
    /\ UNCHANGED <<record, provider, file, awake, claude, pc, job, snap, held, lost, publication>>

Contended(m) ==
    /\ Beating(m) /\ lease \in Machine \ {m}
    /\ Lose(m)
    /\ UNCHANGED <<pool, provider, file, awake, pc, job, snap, beat, held, prior, publication>>

\* Mutant of Unreachable: Claude is left running.
UnreachableRuns(m) ==
    /\ Beating(m)
    /\ Owned(m) \/ UNCHANGED lease
    /\ Set(held, m, TRUE)
    /\ UNCHANGED <<record, provider, file, awake, claude, pc, job, snap, beat, lost, prior, publication>>

\* No answer within the deadline, whether or not Redis renewed the lease.
Unreachable(m) ==
    /\ Beating(m)
    /\ Owned(m) \/ UNCHANGED lease
    /\ Set(held, m, TRUE)
    /\ Set(beat, m, IF held[m] THEN "rest" ELSE "pause")
    /\ UNCHANGED <<record, provider, file, awake, claude, pc, job, snap, lost, prior, publication>>

\* pauseForUncertainOwnership: Claude is stopped, or lost.
Pause(m) ==
    /\ awake[m] /\ beat[m] = "pause"
    /\ \/ claude[m] = "running" /\ Set(claude, m, "stopped") /\ UNCHANGED lost
       \/ Lose(m)
    /\ Set(beat, m, "rest")
    /\ UNCHANGED <<pool, provider, file, awake, pc, job, snap, held, prior, publication>>

\* Mutant of Resume: the pool's login is not compared.
ResumeAnyway(m) ==
    /\ awake[m] /\ beat[m] = "check"
    /\ Set(snap, m, record)
    /\ \/ /\ claude[m] = "stopped" /\ Set(claude, m, "running")
          /\ Set(held, m, FALSE) /\ UNCHANGED lost
       \/ Lose(m) /\ UNCHANGED held
    /\ Set(beat, m, "rest") /\ Set(prior, m, 0)
    /\ UNCHANGED <<pool, provider, file, awake, pc, job, publication>>

\* resumeAfterOwnershipRecovered: the pool's login must be the one known
\* before, or the one in the file.
Resume(m) ==
    /\ awake[m] /\ beat[m] = "check"
    /\ \/ /\ record.token \in {prior[m], file[m]} /\ claude[m] = "stopped"
          /\ Set(snap, m, record)
          /\ Set(claude, m, "running") /\ Set(held, m, FALSE) /\ UNCHANGED lost
       \/ snap' \in {snap, [snap EXCEPT ![m] = record]} /\ Lose(m) /\ UNCHANGED held
    /\ Set(beat, m, "rest") /\ Set(prior, m, 0)
    /\ UNCHANGED <<pool, provider, file, awake, pc, job, publication>>

-----------------------------------------------------------------------------
(* startClaudeActiveRotationPublisher, and the publication after the run.  *)

\* The publisher's first renewal was answered, and the file is newer.
Notice(m) ==
    /\ Beating(m) /\ pc[m] = "run" /\ pub[m] = "rest" /\ ~held[m]
    /\ claude[m] # "none"
    /\ Owned(m) /\ Candidate(m)
    /\ Set(pub, m, "refresh") /\ Set(cand, m, file[m])
    /\ UNCHANGED <<record, provider, file, awake, claude, pc, job, snap, heart>>

\* The process of a session ended, and its publisher with it.
AfterRun(m) ==
    /\ At(m, "run") /\ job[m] = "session" /\ claude[m] = "none" /\ pub[m] = "rest"
    /\ IF Candidate(m)
         THEN Goto(m, "after") /\ Set(pub, m, "refresh") /\ Set(cand, m, file[m])
         ELSE Goto(m, "release") /\ UNCHANGED publication
    /\ UNCHANGED <<pool, provider, file, awake, claude, job, snap, heart>>

\* The publication ends, and with it the run if it was the last.
Published(m) ==
    /\ Set(pub, m, "rest") /\ Set(cand, m, 0)
    /\ Goto(m, IF pc[m] = "after" THEN "release" ELSE pc[m])

\* readClaudeRotationCandidate reads the pool again, if it answers.
Refresh(m) ==
    /\ awake[m] /\ pub[m] = "refresh"
    /\ \/ UNCHANGED <<snap, cand, pc>> /\ Set(pub, m, "assert")
       \/ /\ Set(snap, m, record)
          /\ IF file[m] > record.token
               THEN Set(cand, m, file[m]) /\ Set(pub, m, "assert") /\ UNCHANGED pc
               ELSE Published(m)
    /\ UNCHANGED <<pool, provider, file, awake, claude, job, heart>>

\* The renewal before the publication.
Reassert(m) ==
    /\ awake[m] /\ pub[m] = "assert" /\ beat[m] = "rest"
    /\ \/ Beating(m) /\ ~held[m] /\ Owned(m) /\ Set(pub, m, "publish") /\ UNCHANGED <<cand, pc>>
       \/ Published(m) /\ UNCHANGED lease
    /\ UNCHANGED <<record, provider, file, awake, claude, job, snap, heart>>

Publish(m) ==
    /\ awake[m] /\ pub[m] = "publish"
    /\ \/ PublishTokens(m)
       \/ /\ record.version # snap[m].version \/ cand[m] <= snap[m].token
          /\ UNCHANGED <<record, snap>>
    /\ Published(m)
    /\ UNCHANGED <<lease, provider, file, awake, claude, job, heart>>

-----------------------------------------------------------------------------
(* maintainRedisClaudeCredential after its Claude ended.                   *)

AfterMaintenance(m) ==
    /\ At(m, "run") /\ job[m] = "maintain" /\ claude[m] = "none"
    /\ \/ /\ Candidate(m) /\ Owned(m)
          /\ Goto(m, "after") /\ Set(pub, m, "publish") /\ Set(cand, m, file[m])
       \/ /\ file[m] = 0 /\ Owned(m)                    \* native_storage_empty
          /\ Goto(m, "block") /\ UNCHANGED publication
       \/ Goto(m, "release") /\ UNCHANGED <<lease, publication>>
    /\ UNCHANGED <<record, provider, file, awake, claude, job, snap, heart>>

\* publishClaudeReauthPolicy.
Block(m) ==
    /\ At(m, "block")
    /\ \/ Cas(m, [snap[m] EXCEPT !.blocked = TRUE])
       \/ record.version # snap[m].version /\ UNCHANGED record
    /\ Goto(m, "release")
    /\ UNCHANGED <<lease, provider, file, awake, claude, job, snap, heart, publication>>

\* leaveMachineClaudeLease, or lease.release; Redis may not answer.
Release(m) ==
    /\ At(m, "release") /\ beat[m] = "rest"
    /\ lease' \in {lease, IF lease = m THEN Nobody ELSE lease}
    /\ Gone(m)
    /\ UNCHANGED <<record, provider, file, awake, claude>>

-----------------------------------------------------------------------------
\* The AIM process dies; its supervisor terminates Claude.
AimDies(m) ==
    /\ pc[m] # "idle"
    /\ Set(claude, m, IF claude[m] = "none" THEN "none" ELSE "ending")
    /\ Gone(m)
    /\ UNCHANGED <<pool, provider, file, awake>>

Sleep(m) ==
    /\ m \in Sleepers /\ awake[m]
    /\ Set(awake, m, FALSE)
    /\ UNCHANGED <<pool, provider, file, claude, pc, job, snap, heart, publication>>

Wake(m) ==
    /\ ~awake[m]
    /\ Set(awake, m, TRUE)
    /\ UNCHANGED <<pool, provider, file, claude, pc, job, snap, heart, publication>>

\* The lease of m expires: see the head of the module.
Lapse(m) ==
    /\ lease = m
    /\ \/ ~awake[m] \/ pc[m] = "idle" \/ lost[m]
       \/ /\ held[m] /\ beat[m] # "pause"
          /\ m \in Stallers \/ (beat[m] = "rest" /\ pub[m] \in {"rest", "assert"})
    /\ lease' = Nobody
    /\ UNCHANGED <<record, provider, file, awake, claude, pc, job, snap, heart, publication>>

Step(m) ==
    \/ \E j \in {"session", "maintain"} : Acquire(m, j)
    \/ Reload(m) \/ Preflight(m) \/ PreflightPublish(m) \/ Project(m) \/ Launch(m)
    \/ Abandon(m) \/ Rotate(m) \/ Expire(m) \/ Exit(m)
    \/ Renewed(m) \/ Contended(m) \/ Unreachable(m) \/ Pause(m) \/ Resume(m)
    \/ Notice(m) \/ AfterRun(m) \/ Refresh(m) \/ Reassert(m) \/ Publish(m)
    \/ AfterMaintenance(m) \/ Block(m) \/ Release(m)
    \/ AimDies(m) \/ Sleep(m) \/ Wake(m) \/ Lapse(m)

SessionNext == \E m \in Machine : Step(m)

SessionSpec == SessionInit /\ [][SessionNext]_sessionVars
-----------------------------------------------------------------------------
Steady == Machine \ (Sleepers \cup Stallers)

(* Claude runs only where the lease is, whatever outages, crashes and      *)
(* recoveries happen: an outage stops Claude before its lease can be       *)
(* taken, and a recovery continues it only as the owner.                   *)
RunsAsOwner == \A m \in Steady : claude[m] = "running" => lease = m

\* The provider accepts the login in the file of m, or the pool has no other.
Current(m) == file[m] # 0 => file[m] \in valid \/ file[m] = record.token

(* When a paused Claude resumes, nobody has superseded its login.          *)
ResumedLoginCurrent ==
    [][\A m \in Steady :
         claude[m] = "stopped" /\ claude'[m] = "running" => Current(m)]_sessionVars

(* Across sleeps, outages, crashes and lost answers, the working login is  *)
(* never lost: it is in the pool, or in the file of a machine, from which  *)
(* the next run on that machine publishes it.                              *)
LoginKept ==
    record.token \in valid \/ \E m \in Machine : file[m] \in valid

(* No publication, however late, replaces a working login of the pool.     *)
WorkingLoginStays ==
    [][record' # record /\ record.token \in valid => record'.token = record.token]_sessionVars

(* What the repair of "login expires after a lost Redis lease" promises: a *)
(* Claude whose login was superseded while the lease was away is stopped.  *)
(* Here, when the heartbeat takes the lease back.                          *)
SupersededLoginStopped ==
    [][\A m \in Machine :
         lease # m /\ lease' = m /\ claude[m] = "running" => Current(m)]_sessionVars

(* ...and here, when a paused Claude is resumed: a login that is not the   *)
(* one from before the outage stops it.                                    *)
ChangedLoginNotResumed ==
    [][\A m \in Machine :
         claude[m] = "stopped" /\ claude'[m] = "running" => Current(m)]_sessionVars

(* `NEEDS YOU` is always correct: the pool does not ask for a new login    *)
(* while the one it has works.                                             *)
NeedsYouCorrect == record.blocked => record.token \notin valid

(* The login Claude goes on with, and the one the pool holds, are not      *)
(* superseded ones: neither a recovery nor a late publication mixes them up.*)
LoginCurrent == ResumedLoginCurrent /\ WorkingLoginStays
=============================================================================
