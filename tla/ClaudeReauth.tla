----------------------------- MODULE ClaudeReauth -----------------------------
(***************************************************************************)
(* How one Claude account comes to need a person, and comes back:          *)
(* the passes of `aim auth maintain`, which mark its record                *)
(* oauth_reauth_required (src/credentials/claude-maintenance.js), and the  *)
(* logins, captures and imports that put a fresh credential in its place   *)
(* (src/cli/commands/login.js, src/cli/commands/claude.js).                *)
(*                                                                         *)
(* Each worker is one command at a time.  All of them take the credential  *)
(* lease, which may lapse under them: a pass must still hold the lease it  *)
(* took when it publishes, the others take it again if it is free.  All    *)
(* publish by a comparison of versions.  A pass runs Claude on the storage *)
(* the machine keeps for the account; a login has a directory of its own,  *)
(* which two logins would share.                                           *)
(*                                                                         *)
(* Tokens are numbered in the order the provider grants them, which is the *)
(* order in which they expire; 0 stands for none.  Infrastructure failures *)
(* (Redis, the proxy, a time limit) are one kind, the account's own are    *)
(* two, "client" and "local".  A pass is short against the two hours of    *)
(* MAINTENANCE_FAILURE_ESCALATE_AFTER_MS, so time passes between passes.   *)
(***************************************************************************)
EXTENDS Naturals

CONSTANTS
    Worker,
    NoWorker,
    Duties,      \* the commands each worker is called for
    MaxLogin,    \* bound on the tokens granted
    MaxFaults,   \* bound on the faults: deaths, lapsed leases, failures of Redis
    Window       \* the escalation window, in ticks

ASSUME ReauthAssumption ==
    /\ NoWorker \notin Worker
    /\ Duties \in [Worker -> SUBSET {"maintain", "login", "capture"}]
    /\ MaxLogin \in Nat \ {0} /\ MaxFaults \in Nat /\ Window \in Nat \ {0}

VARIABLES
    entry,     \* Redis: the account's record, complete or without refresh material (0)
    claim,     \* Redis: the worker that holds the credential lease
    granted,   \* provider: the last token granted
    working,   \* provider: the tokens it accepts
    aged,      \* tokens up to this one are due for a refresh
    disk,      \* the managed storage: its token
    staged,    \* the login's storage: its token
    at,        \* of a worker: its step
    duty,      \* of a worker: its command
    copy,      \* of a worker: the record it has read
    stale,     \* of a worker: the record has been written since
    draft,     \* of a worker: the record it publishes
    then,      \* of a worker: where a publication leads
    found,     \* of a worker: how the run ended and what it left
    own,       \* of a worker: the token of its state (`copy` is its snapshot)
    lapsed,    \* history: a lease has lapsed under a worker
    faults,    \* the faults so far
    settled    \* history: from here on there are only passes, and all fail

store == <<entry, claim>>
provision == <<granted, working, aged>>
worker == <<at, duty, copy, draft, then, found, own>>
reauthVars == <<store, provision, disk, staged, worker, stale, lapsed, faults, settled>>

Kind == {"client", "local"}
NoStreak == [kind |-> "none", age |-> 0]
Blank == [token |-> 0, blocked |-> FALSE, streak |-> NoStreak]
Nothing == [exit |-> "none", left |-> "none"]

Put(p, s) == at' = [at EXCEPT ![p] = s]

\* Something goes wrong that the command is not to blame for.
Fault == faults < MaxFaults /\ faults' = faults + 1

\* The command ends, its lease released if it still holds it.
Free(p) ==
    /\ Put(p, "idle")
    /\ copy' = [copy EXCEPT ![p] = Blank] /\ draft' = [draft EXCEPT ![p] = Blank]
    /\ then' = [then EXCEPT ![p] = "free"] /\ found' = [found EXCEPT ![p] = Nothing]
    /\ own' = [own EXCEPT ![p] = 0] /\ duty' = [duty EXCEPT ![p] = "none"]
    /\ claim' = IF claim = p THEN NoWorker ELSE claim

ReauthInit ==
    /\ \E t \in {0, 1} : entry = [Blank EXCEPT !.token = t]
    /\ claim = NoWorker
    /\ granted = 1 /\ working = {1} /\ aged = 0
    /\ disk = 0 /\ staged = 0
    /\ at = [p \in Worker |-> "idle"] /\ duty = [p \in Worker |-> "none"]
    /\ copy = [p \in Worker |-> Blank] /\ stale = [p \in Worker |-> FALSE]
    /\ draft = [p \in Worker |-> Blank] /\ then = [p \in Worker |-> "free"]
    /\ found = [p \in Worker |-> Nothing] /\ own = [p \in Worker |-> 0]
    /\ lapsed = FALSE /\ faults = 0 /\ settled = FALSE

-----------------------------------------------------------------------------
\* A command begins, with the lease or not at all.
Take(p, d) ==
    /\ at[p] = "idle" /\ claim = NoWorker
    /\ settled => d = "maintain"
    /\ claim' = p
    /\ Put(p, IF d = "login" THEN "open" ELSE "reload")
    /\ duty' = [duty EXCEPT ![p] = d]
    /\ UNCHANGED <<entry, provision, disk, staged, copy, stale, draft, then, found, own, lapsed, faults, settled>>

\* assertLeaseOwned: a pass must not have lost its lease.
HeldStrictly(p) == claim = p

\* renewOrReacquireRedisCredentialLease
Holds(p) == IF duty[p] = "maintain" THEN HeldStrictly(p) ELSE claim \in {p, NoWorker}

\* A step under the lease, checked before it; without it the command fails.
UnderLease(p) == Holds(p) /\ claim' = p
Lost(p) == ~Holds(p) /\ Free(p)

\* refreshRedisRuntimeState
Reload(p) ==
    /\ at[p] = "reload"
    /\ Put(p, "admit")
    /\ copy' = [copy EXCEPT ![p] = entry] /\ stale' = [stale EXCEPT ![p] = FALSE]
    /\ own' = [own EXCEPT ![p] = entry.token]
    /\ UNCHANGED <<store, provision, disk, staged, duty, draft, then, found, lapsed, faults, settled>>

\* The lease is checked, then the record `r` published; `s` follows.
Submit(p, r, s) ==
    /\ Put(p, "assert")
    /\ draft' = [draft EXCEPT ![p] = r] /\ then' = [then EXCEPT ![p] = s]

\* Mutant of Skipped: a record without refresh material has nothing to maintain.
MutantSkipped(p) ==
    \/ copy[p].blocked
    \/ copy[p].token = 0
    \/ copy[p].token > aged

\* What a pass skips; a record that is not due, unless it is forced.
Skipped(p) ==
    \/ copy[p].blocked
    \/ copy[p].token # 0 /\ copy[p].token > aged

Mark(p) == [copy[p] EXCEPT !.blocked = TRUE]

Admit(p) ==
    /\ at[p] = "admit" /\ duty[p] = "maintain"
    /\ \/ Lost(p)
       \/ Holds(p) /\ Skipped(p) /\ Free(p)
       \/ /\ UnderLease(p) /\ ~copy[p].blocked /\ copy[p].token = 0
          /\ Submit(p, Mark(p), "free")
          /\ UNCHANGED <<duty, copy, found, own>>
       \/ /\ UnderLease(p) /\ ~copy[p].blocked /\ copy[p].token # 0
          /\ Put(p, "preflight")
          /\ UNCHANGED <<duty, copy, draft, then, found, own>>
    /\ UNCHANGED <<entry, provision, disk, staged, stale, lapsed, faults, settled>>

\* What a look at the managed storage says against the token of the pass: an empty
\* storage is told apart, a strictly newer token is a candidate.
Against(t, mine) ==
    CASE t = 0 -> "empty"
      [] t > mine -> "candidate"
      [] t = mine -> "same"
      [] OTHER -> "bad"

\* Judged: the pass has a result.
Judged(p, exit, left) ==
    /\ Put(p, "judge")
    /\ found' = [found EXCEPT ![p] = [exit |-> exit, left |-> left]]

\* Mutant of Preflight: the storage is projected over without a look at it.
MutantPreflight(p) ==
    /\ at[p] = "preflight"
    /\ Put(p, "project")
    /\ UNCHANGED <<store, provision, disk, staged, duty, copy, stale, draft, then, found, own, lapsed, faults, settled>>

\* ensureSafeManagedClaudeStorage: a link, another owner, a mode it cannot mend.
UnsafeStorage(p) ==
    /\ ~settled
    /\ Judged(p, "local", "bad")
    /\ UNCHANGED <<claim, duty, copy, draft, then, own>>

\* runSharedClaudePreRunPreflight.  Claude is not installed, or the storage is
\* not safe to use; a newer token in it is published first.
Preflight(p) ==
    /\ at[p] = "preflight"
    /\ \/ ~settled /\ Free(p)
       \/ UnsafeStorage(p)
       \/ /\ Against(disk, own[p]) = "candidate"
          /\ Submit(p, [copy[p] EXCEPT !.token = disk], "project")
          /\ UNCHANGED <<claim, duty, copy, found, own>>
       \/ /\ Against(disk, own[p]) # "candidate"
          /\ Put(p, "project")
          /\ UNCHANGED <<claim, duty, copy, draft, then, found, own>>
    /\ UNCHANGED <<entry, provision, disk, staged, stale, lapsed, faults, settled>>

\* projectClaudeNativeBundleToManagedConfig, between two looks at the lease.
Project(p) ==
    /\ at[p] = "project"
    /\ \/ Lost(p) /\ UNCHANGED disk
       \/ /\ UnderLease(p)
          /\ disk' = own[p]
          /\ Put(p, "launch")
          /\ UNCHANGED <<duty, copy, draft, then, found, own>>
    /\ UNCHANGED <<entry, provision, staged, stale, lapsed, faults, settled>>

Launch(p) ==
    /\ at[p] = "launch"
    /\ \/ Lost(p)
       \/ UnderLease(p) /\ Put(p, "run") /\ UNCHANGED <<duty, copy, draft, then, found, own>>
    /\ UNCHANGED <<entry, provision, disk, staged, stale, lapsed, faults, settled>>

\* `claude /usage` on the managed storage: it refreshes a token that is due, or
\* the provider refuses that, for good, and the storage is emptied, or nothing
\* changes; it may exit otherwise than by success after any of that.
Run(p) ==
    /\ at[p] = "run"
    /\ \/ /\ disk \in working /\ disk <= aged /\ granted < MaxLogin /\ ~settled
          /\ granted' = granted + 1
          /\ working' = (working \ {disk}) \cup {granted + 1}
          /\ disk' = granted + 1
       \/ /\ ~settled
          /\ working' = working \ {disk}
          /\ disk' = 0 /\ UNCHANGED granted
       \/ UNCHANGED <<disk, granted, working>>
    /\ Put(p, "sync")
    /\ \E e \in {"ok", "client", "infrastructure"} :
        /\ settled => e = "client"
        /\ found' = [found EXCEPT ![p] = [exit |-> e, left |-> "none"]]
    /\ UNCHANGED <<store, aged, staged, duty, copy, stale, draft, then, own, lapsed, faults, settled>>

\* syncLiveClaudeRotationBackToLabelFromStorage, and what it found published.
Sync(p) ==
    /\ at[p] = "sync"
    /\ LET left == Against(disk, own[p]) IN
        /\ found' = [found EXCEPT ![p].left = left]
        /\ IF left = "candidate"
             THEN Submit(p, [copy[p] EXCEPT !.token = disk], "judge")
             ELSE Put(p, "judge") /\ UNCHANGED <<draft, then>>
    /\ UNCHANGED <<store, provision, disk, staged, duty, copy, stale, own, lapsed, faults, settled>>

\* Mutant of SameReason: the reason is not compared.
MutantAnyReason(p, k) == copy[p].streak.kind # "none"

\* applyMaintenanceEscalation.  The same failure keeps the time of the first.
SameReason(p, k) == copy[p].streak.kind = k

Streak(p, k) == [kind |-> k, age |-> IF SameReason(p, k) THEN copy[p].streak.age ELSE 0]

Escalated(p, k) ==
    LET streak == Streak(p, k)
    IN [copy[p] EXCEPT !.streak = streak, !.blocked = streak.age >= Window]

Escalate(p, k) ==
    /\ Submit(p, Escalated(p, k), "free")
    /\ UNCHANGED <<claim, duty, copy, found, own>>

Succeeded(p) == found[p].exit = "ok" /\ found[p].left \in {"candidate", "same"}

\* A local failure; or a storage behind what Claude was given.
LocalFault(p) == found[p].exit = "local" \/ (found[p].exit = "ok" /\ found[p].left = "bad")

Judge(p) ==
    /\ at[p] = "judge"
    /\ \/ found[p].exit = "infrastructure" /\ Free(p)
       \/ found[p].exit = "client" /\ Escalate(p, "client")
       \/ LocalFault(p) /\ Escalate(p, "local")
       \/ /\ found[p].exit = "ok" /\ found[p].left = "empty"
          /\ Submit(p, Mark(p), "free")
          /\ UNCHANGED <<claim, duty, copy, found, own>>
       \/ Succeeded(p) /\ copy[p].streak = NoStreak /\ Free(p)
       \/ /\ Succeeded(p) /\ copy[p].streak # NoStreak
          /\ Submit(p, [copy[p] EXCEPT !.streak = NoStreak], "free")
          /\ UNCHANGED <<claim, duty, copy, found, own>>
    /\ UNCHANGED <<entry, provision, disk, staged, stale, lapsed, faults, settled>>

-----------------------------------------------------------------------------
AssertLogin(p) ==
    /\ at[p] = "assert"
    /\ \/ Lost(p)
       \/ UnderLease(p) /\ Put(p, "publish") /\ UNCHANGED <<duty, copy, draft, then, found, own>>
    /\ UNCHANGED <<entry, provision, disk, staged, stale, lapsed, faults, settled>>

\* assertCredentialPublicationFreshness, against the record that was read.
Fresh(p) == draft[p].token >= copy[p].token

\* The comparison of versions, or Redis fails.  A login removes its directory,
\* either way; a pass that goes on reads the records again.
Publish(p) ==
    /\ at[p] = "publish"
    /\ \/ /\ Fresh(p) /\ ~stale[p]
          /\ entry' = draft[p]
          /\ stale' = [q \in Worker |-> q # p /\ at[q] # "idle"]
          /\ IF then[p] = "free"
               THEN Free(p)
               ELSE /\ Put(p, "refresh")
                    /\ own' = [own EXCEPT ![p] = draft[p].token]
                    /\ UNCHANGED <<claim, duty, copy, draft, then, found>>
          /\ UNCHANGED faults
       \/ (~Fresh(p) \/ stale[p]) /\ Free(p) /\ UNCHANGED <<entry, stale, faults>>
       \/ ~settled /\ Fault /\ Free(p) /\ UNCHANGED <<entry, stale>>
    /\ staged' = IF duty[p] = "login" THEN 0 ELSE staged
    /\ UNCHANGED <<provision, disk, lapsed, settled>>

\* refreshRedisRuntimeSnapshot: the record anew, its reauth policy as it was read.
Refresh(p) ==
    /\ at[p] = "refresh"
    /\ copy' = [copy EXCEPT ![p].token = entry.token] /\ stale' = [stale EXCEPT ![p] = FALSE]
    /\ draft' = [draft EXCEPT ![p] = Blank] /\ then' = [then EXCEPT ![p] = "free"]
    /\ Put(p, then[p])
    /\ UNCHANGED <<store, provision, disk, staged, duty, found, own, lapsed, faults, settled>>

-----------------------------------------------------------------------------
\* performRedisClaudeLogin: a directory of its own, empty.
Open(p) ==
    /\ at[p] = "open"
    /\ \/ Lost(p) /\ UNCHANGED staged
       \/ /\ UnderLease(p)
          /\ staged' = 0
          /\ Put(p, "browser")
          /\ UNCHANGED <<duty, copy, draft, then, found, own>>
    /\ UNCHANGED <<entry, provision, disk, stale, lapsed, faults, settled>>

\* The person logs in, or does not.
Browser(p) ==
    /\ at[p] = "browser"
    /\ \/ /\ granted < MaxLogin
          /\ granted' = granted + 1 /\ working' = working \cup {granted + 1}
          /\ staged' = granted + 1
       \/ UNCHANGED <<granted, working, staged>>
    /\ Put(p, "collect")
    /\ UNCHANGED <<store, aged, disk, duty, copy, stale, draft, then, found, own, lapsed, faults, settled>>

Enrolled(t) == [Blank EXCEPT !.token = t]

\* The login's files are read; without a complete credential it has failed.
Collect(p) ==
    /\ at[p] = "collect"
    /\ IF staged = 0
         THEN Free(p)
         ELSE /\ Put(p, "reread")
              /\ draft' = [draft EXCEPT ![p] = Enrolled(staged)]
              /\ UNCHANGED <<claim, duty, copy, then, found, own>>
    /\ UNCHANGED <<entry, provision, disk, staged, stale, lapsed, faults, settled>>

\* The record may have moved on in the meantime.
Reread(p) ==
    /\ at[p] = "reread"
    /\ \/ Lost(p) /\ UNCHANGED stale
       \/ /\ UnderLease(p)
          /\ copy' = [copy EXCEPT ![p] = entry] /\ stale' = [stale EXCEPT ![p] = FALSE]
          /\ Put(p, "assert")
          /\ UNCHANGED <<duty, draft, then, found, own>>
    /\ UNCHANGED <<entry, provision, disk, staged, lapsed, faults, settled>>

\* scheduleRenewal: while the person is at the browser, a free lease is retaken.
Retake(p) ==
    /\ duty[p] = "login" /\ claim = NoWorker
    /\ claim' = p
    /\ UNCHANGED <<entry, provision, disk, staged, worker, stale, lapsed, faults, settled>>

\* The tokens the keychain of the person's own Claude, or a file that was
\* exported once, may hold.
Elsewhere == 1 .. granted

\* handleRedisClaudeCaptureNative, handleRedisClaudeImportNative
Capture(p) ==
    /\ at[p] = "admit" /\ duty[p] = "capture"
    /\ \/ Lost(p)
       \/ Holds(p) /\ Free(p)
       \/ /\ UnderLease(p)
          /\ \E t \in Elsewhere : t >= copy[p].token /\ Submit(p, Enrolled(t), "free")
          /\ UNCHANGED <<duty, copy, found, own>>
    /\ UNCHANGED <<entry, provision, disk, staged, stale, lapsed, faults, settled>>

-----------------------------------------------------------------------------
\* A session of the account (ClaudeSession) has its token rotated; whether it
\* reaches the record or not.
SessionRotates ==
    /\ claim = NoWorker /\ ~entry.blocked /\ ~settled
    /\ entry.token \in working /\ disk \in {0, entry.token} /\ granted < MaxLogin
    /\ granted' = granted + 1
    /\ working' = (working \ {entry.token}) \cup {granted + 1}
    /\ disk' = granted + 1
    /\ \/ /\ entry' = [entry EXCEPT !.token = granted + 1]
          /\ stale' = [q \in Worker |-> at[q] # "idle"]
       \/ UNCHANGED <<entry, stale>>
    /\ UNCHANGED <<claim, aged, staged, worker, lapsed, faults, settled>>

BecomeDue ==
    /\ aged < granted
    /\ aged' = granted
    /\ UNCHANGED <<store, granted, working, disk, staged, worker, stale, lapsed, faults, settled>>

\* Time passes between the passes.
Tick ==
    /\ \A p \in Worker : duty[p] # "maintain"
    /\ entry.streak # NoStreak /\ entry.streak.age < Window
    /\ entry' = [entry EXCEPT !.streak.age = @ + 1]
    /\ UNCHANGED <<claim, provision, disk, staged, worker, stale, lapsed, faults, settled>>

\* The lease runs out: of a command that died, or of one that could not renew it.
Expire ==
    /\ claim # NoWorker
    /\ claim' = NoWorker
    /\ IF at[claim] = "idle"
         THEN UNCHANGED <<lapsed, faults>>
         ELSE ~settled /\ Fault /\ lapsed' = TRUE
    /\ UNCHANGED <<entry, provision, disk, staged, worker, stale, settled>>

\* The command dies; its lease and its directory stay.
Die(p) ==
    /\ at[p] # "idle" /\ ~settled /\ Fault
    /\ Put(p, "idle")
    /\ copy' = [copy EXCEPT ![p] = Blank] /\ draft' = [draft EXCEPT ![p] = Blank]
    /\ then' = [then EXCEPT ![p] = "free"] /\ found' = [found EXCEPT ![p] = Nothing]
    /\ own' = [own EXCEPT ![p] = 0] /\ duty' = [duty EXCEPT ![p] = "none"]
    /\ UNCHANGED <<store, provision, disk, staged, stale, lapsed, settled>>

\* From here on nobody logs in and no session runs, and Claude fails every time.
Settle ==
    /\ ~settled /\ \A p \in Worker : at[p] = "idle"
    /\ settled' = TRUE
    /\ UNCHANGED <<store, provision, disk, staged, worker, stale, lapsed, faults>>

Pass(p) ==
    \/ Reload(p) \/ Admit(p) \/ Preflight(p) \/ Project(p) \/ Launch(p)
    \/ Run(p) \/ Sync(p) \/ Judge(p) \/ AssertLogin(p) \/ Publish(p) \/ Refresh(p)
    \/ Open(p) \/ Browser(p) \/ Collect(p) \/ Reread(p) \/ Capture(p)

ReauthNext ==
    \/ \E p \in Worker :
        \/ \E d \in Duties[p] : Take(p, d)
        \/ Pass(p) \/ Retake(p) \/ Die(p)
    \/ SessionRotates \/ BecomeDue \/ Tick \/ Expire \/ Settle

\* From then on commands end, the watch calls for passes, leases of the dead run
\* out, access credentials expire and time passes.
ReauthFairness ==
    /\ \A p \in Worker : []<>(settled => at[p] = "idle")
    /\ []<>(settled => \E p \in Worker : duty[p] = "maintain")
    /\ []<>(settled /\ claim # NoWorker => at[claim] # "idle")
    /\ []<>(settled => aged = granted)
    /\ SF_reauthVars(Tick)

ReauthSpec == ReauthInit /\ [][ReauthNext]_reauthVars /\ ReauthFairness

-----------------------------------------------------------------------------
\* An account is said to need a person for a cause only: it has no token, the
\* provider refuses the one it has, or its record has shown a failure of the same
\* kind for the whole escalation window.
BlockedForCause ==
    [][entry'.blocked /\ ~entry.blocked =>
         \/ entry.token \notin working
         \/ /\ entry.streak # NoStreak /\ entry.streak.age >= Window
            /\ entry'.streak = entry.streak]_reauthVars

\* A pass marks the login it worked with, never one that was made meanwhile, and
\* a mark changes nothing else of the record's credential.
LoginStands ==
    [][entry'.blocked /\ ~entry.blocked =>
         /\ entry'.token = entry.token
         /\ \E p \in Worker : at[p] = "publish" /\ own[p] = entry.token]_reauthVars

\* As long as leases last, a token that has been rotated into the managed storage
\* and not published yet is the only one that works, and is never written over
\* with an older one.
RotationSurvives ==
    [][(disk \in working /\ disk > entry.token /\ ~lapsed) => disk' >= disk]_reauthVars

\* An account all of whose passes fail in the same way comes to need a person.
FailuresSurface == settled ~> entry.blocked

\* A mark has a cause, and is put on the login that it is about.
MarkedRightly == BlockedForCause /\ LoginStands
=============================================================================
