# Verification of aimgr

`aimgr` manages a pool of AI-provider accounts (Claude, Codex, xAI, ...) for a
team of machines.  Redis holds the accounts' metadata and credentials; every
machine projects them into local files, launches provider CLIs under a
supervising wrapper, keeps rotating OAuth credentials alive, publishes every
rotation back, and runs scheduled routines.  Its hard part is not any single
function: it is that several machines, several processes of one machine, a
provider that accepts a refresh token once, and a Redis that may be away at any
moment must never disagree about who may use, refresh or publish a credential.

This directory holds TLA+ modules translated from the code, TLC configurations
that model-check them on small instances, and proofs checked by TLAPS.

(Line numbers in this document are those of the files under `src/src/`.)

## Inventory

| Component | State it keeps | Operations | Interacts with |
|---|---|---|---|
| Redis credential lease `coordination/redis-credential-lease.js` | one Redis key per credential (owner token, expiry); per handle: token, `active` | acquire (SET NX PX), join, renew, recover, release | every credential user |
| Redis store `coordination/redis-store.js`, `records.js` | account metadata and credential records with versions | snapshot read, compare-and-set publish of one record, import, connect with deadline | everything that reads or writes the pool |
| Codex and xAI maintenance, helper `credentials/harness-access.js`, `codex-login.js`, `xai-login.js` | credential record, lease, the provider's single-use refresh token | resolve, advance, refresh, publish, mark for re-login | lease, store, providers |
| Claude session `cli/commands/claude.js`, `targets/claude-preflight.js` | lease heartbeat, runtime snapshot, rotation candidate | acquire guard, preflight, heartbeat, pause and resume, publish rotation, release | lease, store, supervisor, login file |
| Claude process supervisor `targets/claude-supervisor.js`, `targets/claude-runner.js` | flags `requested` and `childPaused`, kill timers, Claude's process group | launch, pause, resume, terminate, kill | session and maintenance, by IPC and signals |
| Claude machine lease `targets/claude-machine-lease.js` | holder file (token, member pids), lock directory | join, leave | lease, sessions of the machine |
| Claude maintenance and enrollment `credentials/claude-maintenance.js`, `cli/commands/login.js` | managed storage, record, streak of failures | probe, refresh by running the CLI, escalate, login, capture | lease, store |
| Claude state migration `privacy/claude-state-*.js` | identity files, journal, backups, launch files, SH/EX lock | launch, migrate, recover, retire, clean | sessions |
| Claude home `targets/claude-cli.js`, `credentials/claude-native.js` | the user's own login: token file, identity files; state file | use, capture, export, import | Claude itself |
| Codex account selection `cli/commands/codex.js`, `targets/codex-cli.js` | `auth.json`, local state, usage cache, selection lock | use, run, watch | store, Codex itself |
| Codex thread copy `targets/codex-thread-copy.js`, `codex-rollout.js` | rollout files, goals | resume-fresh | Codex itself, selection |
| Harness targets `cli/commands/harness-target.js`, `targets/harness-auth.js` | `auth.json` of Pi and Prime, backup file, owned path | use, run, uninstall, resume --rotate | local state |
| OpenClaw `openclaw/*.js` | auth stores, config, sessions on disk | rebalance, restart | planner, gateway |
| Hermes fleet `pool/watch.js`, `hermes-rebalance.js` | each home's `auth.json` | watch, rebalance | planner, Hermes |
| Planner `pool/weighted-planner.js`, `demand-ledger.js` | none (pure) | plan, demand weights | OpenClaw, Hermes |
| Claude usage `status/claude-redis-view.js`, `redis-cache.js` | cache file and its lock | collect, fetch, choose an account | provider, sessions |
| Routines `routines/*.js` | definitions, receipts, locks, spaces | schedule, launch, worker, close | Herdr, agents |
| Panels, MCP, browser, local state, privacy checks, other views | process and file state | see `components` in `PROJECT.json` | |

How they interact: a session joins or takes the machine's lease, which holds the
Redis lease; its heartbeat renews the latter and tells the supervisor over an
IPC channel to pause, resume or end Claude; Claude itself rewrites the login
file, which a publisher beside the heartbeat reads and publishes to the store by
compare-and-set.  A maintenance does the same without an interactive Claude.
Before either, the launch moves the account's private files under a journal.
The Codex helper, maintainer, login and policy commands meet only in the record
and the lease; the consumers of the pool (Codex, Pi, Prime, OpenClaw, Hermes)
read the records and write files their program reads.  Routine workers meet in
lock directories, receipts and one auth file per agent kind.

What is hard, and where: two owners of one credential after an expiry, a late
answer or a sleep (lease, session, machine lease); a single-use refresh token
spent but not published (Codex, session, home); snapshots that are published
minutes after they were read (store, session, maintenance, watch); locks that
outlive their process (machine lease, routines, usage cache); a prompt given
twice (routines); a Claude that nobody ends (supervisor); several files that
change together (migration, home, OpenClaw).  The full list, line by line, with
the properties that watch each place, is `hazards` in `PROJECT.json`.

## Modules

| Module | Models | Checked by run | Proofs |
|---|---|---|---|
| `LeaseOwnership` | what a lease promises (abstract) | | |
| `CredentialLease` | the Redis lease, commands and answers in flight; implements `LeaseOwnership` | `credentials` | `CredentialProofs` |
| `MachineLease` | the sessions of one machine around holder file and lock; implements `LeaseOwnership` | `machine_lease` | `ClaudeAccountProofs` |
| `AtomicRecords` | what the store promises (abstract) | | |
| `CasStore` | snapshots, WATCH/GET/MULTI/EXEC, imports; implements `AtomicRecords` | `cas_store` | `CredentialProofs` |
| `CodexMaintenance` | one Codex or xAI credential, its maintainers and writers | `credentials` | `CredentialProofs` |
| `ClaudeSession` | one Claude login, sessions and maintenances of several machines | `claude_launch`, `claude_sleep`, `claude_needs_you` | `ClaudeLaunchProofs` |
| `StateMigration` | the private files of one managed account on one machine | `claude_launch` | `ClaudeLaunchProofs` |
| `ClaudeSupervisor` | one launch: AIM, supervisor, Claude | `claude_supervisor` | `ClaudeCommandProofs` |
| `ClaudeReauth` | how an account comes to need a person, and comes back | `machine_lease` | `ClaudeAccountProofs` |
| `ClaudeHome` | the user's own login without Redis | `claude_home` | `ClaudeHomeProofs` |
| `ClaudeUsage` | what status and the choice of an account know of usage | `claude_usage` | `ClaudeCommandProofs` |
| `CodexPool` | which account a machine's Codex uses | `codex` | `CodexPoolProofs` |
| `ThreadCopy` | a Codex thread continued under another account | `codex` | `CodexPoolProofs` |
| `HarnessTarget` | pool accounts in Pi and Prime | `targets` | `TargetProofs` |
| `WeightedPlan` | the planner and the demand ledger (operators) | through the next two | `TargetProofs` |
| `OpenclawSync` | the rebalance of OpenClaw's agents | `targets` | `TargetProofs` |
| `HermesFleet` | the homes of Hermes under their watch | `targets` | `TargetProofs` |
| `RoutineOccurrence` | launches and workers of one machine's routines | `routine` | `RoutineOccurrenceProofs` |

The composed modules (`CodexMaintenance`, `ClaudeSession`, `ClaudeReauth`,
`CodexPool`) take a Redis lease command and a publication as one step each: that
this is sound is what `LeaseOwnership` and `AtomicRecords` say and the detailed
modules are shown, and proved, to implement.

`MC...` modules hold TLC's instances.  Five of them put two or three modules
that share no state into one run: a behaviour chooses one of them (`focus`) and
leaves the others where they start, so that the states add up rather than
multiply, and each property says of the focus what it says of the module alone.

The operators that a comment calls a mutant of another (`PublishBlind`,
`ResumeAnyway`, ...) are altered copies of one definition and no part of any
specification.  They record which mistake in the code each property would notice.

### CredentialLease and LeaseOwnership

`coordination/redis-credential-lease.js`.  Redis is `owner` and `expiresAt`; a
handle is its closure's `token` and `active`, with `until`, the time up to which
its last positive answer entitles it to the key.  An operation of the code is
three steps: `Acquire`, `Join`, `Renew`, `Recover`, `Release` test the local
guard and write the command; `ExecAcquire` (SET NX PX), `ExecRenew` (the compare
and PEXPIRE script), `ExecRenewOrReacquire`, `ExecRelease` (compare and DEL) run
in Redis in the order of the connection; `ReadAcquired`, `ReadRenewed`,
`ReadReleased` change the local flags.  `Tick` is time, `Disconnect` loses what
is in flight in both directions after any part of it was executed, `Crash`
forgets a handle.  Two rules of the callers are guards: nothing is sent after a
release, and a token shared by several handles is released by the last of them;
`MachineLease` models how the second is achieved.

### CasStore and AtomicRecords

`coordination/redis-store.js`.  `ReadMeta`, `ReadIndex`, `ReadRecords` read a
snapshot in three commands; `BeginPublish` and `BeginImport` start a publication
from a snapshot of any age; `Watch`, `Get`, `Exec` follow `casPutJsonRecord`,
with `ExecUnanswered` (the transaction ran, the answer is lost) and
`ExecRefused`; `RereadLatest` is the read after a refused EXEC that tells a stale
version from another conflict; `Drop` is a lost connection; `Remove` is the raw
delete of `sakana remove`.  A record is its version and its writer.
`AtomicRecords` knows one atomic comparison and write per publication, whose
outcome may stay unknown, and refuses only on a real change of version.

### CodexMaintenance

`credentials/harness-access.js`, `codex-login.js`, `xai-login.js`, and the
writers in `cli/commands/auth.js`, `coordination/login-publish.js`.  A process
resolves, advances or maintains: admission (`AdmitResolve`, `AdmitAdvance`,
`AdmitMaintain`), `TakeLease`, `Reread`, `Refresh` or `RefreshFails`,
`RenewOwned`, `Publish`, `FreeLease` and `Final` for Codex, `RefreshXai` and
`PublishXai` without a lease for xAI; or it logs in (`Login`; `RequestDevice`,
`Poll`, `PublishLogin`) or edits (`PublishPolicy`), also without a lease.  The
provider accepts each token once; `ExchangeLate` executes a request its process
has given up.  A long `auth maintain` works from the snapshot of its start
(auth.js:160), whose age is open here as well.

### ClaudeSession

`cli/commands/claude.js`, `credentials/claude-maintenance.js`, `claude-native.js`
and the preflight.  `pc` is the main path (`Acquire`, `Reload`, `Preflight`,
`PreflightPublish`, `Project`, `Launch`, ..., `AfterRun`, `Release`), beside it
the heartbeat (`Renewed`, `Contended`, `Unreachable`, `Pause`, `Resume`), the
rotation publisher (`Notice`, `Refresh`, `Reassert`, `Publish`) and the
maintainer (`AfterMaintenance`, `Block`).  Claude rotates its login in `file`
(`Rotate`) or has it refused.  `snap` is `runtime.snapshot`, shared by
heartbeat and publisher as in the code.  `Sleepers` and `Stallers` are the
machines that may sleep, or whose calls to Redis may outlast the lease; the
others (`Steady`) notice an outage and pause Claude before their lease expires,
as the constants 10 s, 5 s, 2 s and 30 s allow.  A machine's sessions are one
here, which is what `MachineLease` justifies, and Claude's refresh is one step
of file and provider.

### StateMigration

`privacy/claude-state-*.js`, `claude-launch-retention.js`,
`claude-credential-projection.js`.  A launch joins the shared lock (`Join`,
`Inspect`, `Start`, `End`); one that finds state of another account gives its
share up (`Rejoin`, `LookAgain`), takes the lock alone (`Enter`), finishes an
interrupted migration (`Recover`) or plans one (`Plan`), retires native's copies
(`Sweep`, `Prepare`), writes the four files under the journal (`PublishFile`,
`Verify`), cleans the files of earlier launches (`Tidy`) and comes back
(`Return`).  `Crash` is between any two writes.  Native refreshes, copies its
state, detaches and saves jobs; other machines refresh and rebind the label.
The four identifiers are one, and ownership and mode checks are left out.

### MachineLease

`targets/claude-machine-lease.js`.  `Lock`, `ReadHolder`, `Join` or `Acquire`,
`Write`, `Unlock` is `acquire`; `Leave`, `Release`, `Unlock` is `release`; `Busy`
and `JoinThrows`, `ReleaseThrows` are its errors; `GiveUp` is the wait that times
out, `FindStale` and `RemoveStaleLock` the look at a lock's age and its removal.
`Slow` says that a section may outlast that age, `Torn` that others may act
between the look and the removal, `Takeover` that another owner may take the key
of a running session.

### ClaudeReauth

`credentials/claude-maintenance.js`, `cli/commands/login.js`.  A worker is one
command at a time: a pass of `auth maintain` (`Take`, `Reload`, `Admit`,
`Preflight`, `Project`, `Launch`, `Run`, `Sync`, `Judge`, `Publish`), a browser
login (`Open`, `Browser`, `Collect`, `Reread`, `Publish`, `Retake`) or a capture.
A failure extends or restarts the record's streak (`Streak`); one that is old
enough escalates and marks the account.  Time passes only between passes, which
are short against the two hours of the window.  A session's rotations are one
step (`SessionRotates`).  Policy commands, the keychain and two logins that
share a staging directory are left out; the shared-mode state guard excludes
nobody and is not modelled.

### ClaudeSupervisor

`targets/claude-supervisor.js` and the launching half of
`targets/claude-runner.js`.  AIM: `Abort`, `Ask`, `Answer`, `Unanswered`,
`KillSupervisor` (interactive), `KillGroup` (batch), `Close`, `Crash`.  The
supervisor: `Start`, `MissDisconnect`, `HandleSignal`, `HandleDisconnect`,
`HandleControl`, `KillClaude`, `ClaudeClosed`, `SupervisorExits`.  Claude:
`ClaudeExits`, `HelperEnds`.  Messages keep their order, signals overtake them.

### ClaudeHome

`targets/claude-cli.js`, `credentials/claude-native.js`.  A command reads the
state file when it begins (`Begin`), takes Claude's locks and switches, file by
file (`Switch`, `WriteCanon`, `WriteLegacy`, `WriteAuth`, `ReadBack`,
`Rollback`), clears (`ClearAuth`, `ClearIdentity`), or reads the home (`Read`,
`Import`), and saves (`Save`); it may fail or die anywhere.  Claude refreshes in
place and logs in to another account.  Left out: files that do not parse, other
providers' secrets, labels imported from an authority, `lastRunLabel`, several
lineages of one account, and a suspended process that loses its locks.  `Tears`
lets a command die between the two files, `Apart` lets a capture take the two
files apart; the run has both off.

### ClaudeUsage

`status/claude-redis-view.js`, `redis-cache.js`, `claude-session-usage.js`.  A
status reads records, leases and cache in one step (`Collect`), waits for the
cache's lock or takes a stale one over (`Acquire`, with the second look at the
cache; `Reclaim`, `Unlink`), asks the provider, writes and releases in one step
(`Fetch`) and answers (`Reply`).  Sessions come (`StartSession`), go
(`EndSession`), use accounts and leave readings; records are written and labels
bound anew.  An account is asked for again while its entry is fresh only if a
session has since reported a window that has ended: that reading takes the place
of the provider's and cannot be shown (`SingleFlight`).  Left out: the weekly window,
`requireLive`, the egress policy, pool-enabled and individual-OAuth filters, an
unsafe cache file, the reuse of an inode.  `Slow` lets a status look at the cache
long after its clock was taken, `Gap` preempts it between the second stat and the
unlink; the run has both off.

### CodexPool

`cli/commands/codex.js`, `targets/codex-cli.js`, `pool/`.  Runners (`use`, `run`,
`resume`) hold the selection lock, watchers do not: `Begin`, `Read`,
`Reconcile`, `Publish`, `Probe`, then `UseLabel`, `Rotate` or `Watch` (keep,
clear, rotate), `PublishLate` and `Save`.  Codex refreshes and logs out, other
machines refresh and edit, usage changes, cannot be fetched or ages in the
cache.  A stretch without `await` is one step.  Left out: an unreadable
`auth.json`, keyring mode, the pruning of the history, a failing cache lock, two
labels of one account id, and `keepCurrentForTelemetry`, which no caller reaches.

### ThreadCopy

`targets/codex-thread-copy.js`, `codex-rollout.js`.  A record is a set of parts,
a part a set of slots with identifiers.  `Scan` collects what the first account
has seen, `TakeAccount` rotates (atomic under the selection lock), `Copy`
rewrites, `Rename`, `Verify` looks for residue, `CarryGoal`, `Launch`; Codex
appends records meanwhile (`BeginLine`, `EndLine`).  Left out: sizes, compressed
files, how an id is found on disk, the temporary file, the analytics switch.

### HarnessTarget

`cli/commands/harness-target.js`, `targets/harness-auth.js`,
`prime-sessions.js`.  A command walks the providers (`Begin`, `Select`, `First`):
`Stash` and `Put`, or `Look`, `Remove` and `Unlink`, each under the lock of
`auth.json`; then `Save`, `Launch` or `Handoff`.  The environment may name
another `auth.json`.  Left out: the legacy Pi projection, malformed entries, the
session-identity extension, the ranking of candidates by usage, the parsing of
Prime transcripts.

### WeightedPlan, OpenclawSync and HermesFleet

`pool/weighted-planner.js` and `demand-ledger.js` are operators (target units
are positive).  `openclaw/*.js`: `RebalanceBegin`, `RebalancePlan`,
`RebalanceAuth`, `RebalanceStore`, `RebalanceModel`, `RebalanceScan`,
`RebalanceReset`, `RebalanceRestart`, `RebalanceSave`, with `RebalanceFails` and
`RebalanceDies` anywhere; the gateway opens sessions and restarts.  Left out:
`--home`, forms of a model value, malformed stores other than as a failure.
`pool/watch.js`, `hermes-rebalance.js`: `FleetBegin`, `FleetProbe`, `FleetLook`,
`FleetWrite`, `FleetSave`; homes are written by others, tokens are maintained
and expire.  Version 0 are tokens Hermes got itself; a label is one account.

### RoutineOccurrence

`routines/run.js`, `routines/locks.js`, with the hooks of the agents.  `lpc` is a
launch (`Claim`, `CheckLock`, `RecoverLock`, `MakeLock`, `NameLock`,
`CreateSpace`, `RunWorker`, or `ParentFails`), `wpc` its worker (`Begin`,
`CheckBootstrap`, `RecoverBootstrap`, `AcquireBootstrap`, `Select`, `Submit`,
`Admit`, `Settle`, `Late`, `GoBlind`, `SessionEnds`, `StopCodex`, `Fail`), `turn`
and `up` the agent (`BeginTurn`, `EndTurn`, `Exit`).  `Kill` and `Reboot` happen
between any two steps.  A failed `pane run` is taken as not delivered, file
operations do not fail, a lock is recovered in one step under its own short
lock, and what follows a settled turn is left out.

## Runs

Every run is exhaustive for its instance.  Deadlock is not checked, because all
of these systems stop: a command ends, and the bounds end the rest.

| Run | Instance | Distinct states | Shows |
|---|---|---|---|
| `cas_store` | 2 processes, the meta record and one credential that may be deleted, versions to 2 | 2,166,713 | a publication replaces exactly the record its writer read, writers find their writes, `AtomicRecords` is implemented |
| `credentials` | the lease: 2 handles, 2 tokens, TTL 2, time to 3, 2 commands in flight; maintenance: 2 processes, 3 tokens, 3 versions | 3,418,551 | an entitled handle owns the key, `LeaseOwnership` is implemented; a working credential is not blocked, replaced or (undisturbed) lost |
| `claude_launch` | files: 2 launches, 2 accounts, 2 identifiers and tokens each, 3 deaths or rebindings; login: 2 machines, one of them sleeping and stalling, 4 tokens, 4 versions | 3,262,660 | a session sees one account's files, none is torn or rolled back; Claude runs as the owner, resumes with a current login, the working login stays |
| `claude_supervisor` | 5 requests | 26,564 | held means stopped, nothing outlives, and every lost lease or dead AIM ends Claude |
| `machine_lease` | 3 sessions, 4 tokens; 2 workers, one for passes and one for logins and captures, 3 tokens, 1 fault, a window of 1 | 1,667,433 | one session in the section, the last releases, `LeaseOwnership` is implemented; an account is marked for a cause and on the login it is about, rotations survive, failures surface |
| `claude_home` | 2 accounts, 2 labels, 2 processes, 2 commands, 2 expiries | 2,237,417 | each label has its own account's login, the home's two files stay paired, tokens are kept |
| `claude_usage` | 2 statuses, 2 labels, 3 accounts, 2 hours, 1 write, 2 moves of the world, entries fresh for an hour | 770,309 | shown usage is a lower bound, an account is refused for a cause, one process asks and not twice, readings are kept |
| `codex` | account: 1 runner, 1 watcher, 3 labels of which one moves, 2 events; threads: 2 callers, 2 accounts, 2 copies, 1 append | 3,339,709 | no early repeat, publications kept, clearing on evidence; copies share no identifier and lose nothing |
| `routine` | 3 launches in 3 constellations and 3 agents, 1 kill, 1 restart | 1,994,220 | no prompt twice, no overlap, the selected account, no forgotten or misreported job |
| `targets` | harness: 2 commands, 2 providers, 2 paths, 1 event; OpenClaw: 3 agents, 3 rebalances, 2 upsets; Hermes: 2 homes, 1 job, 2 events | 907,475 | the user's own logins come back, a finished rebalance is live, the fleet keeps its logins |
| `claude_sleep` | 2 machines that sleep | violation | after a sleep Claude goes on with a superseded login |
| `claude_needs_you` | 2 steady machines | violation | a block of a spent login stays on the working one |

Why the bounds are enough.

* Lease: two handles are an owner and its rival, or two sharing a token by
  `Join`; with a TTL of 2 and time to 3 a lease expires, is taken over and
  renewed late, and two commands in flight are a renewal and the release behind it.
* Store: two processes, two keys and two versions let a record be created,
  replaced, deleted and created again between any two commands of the other
  process; the index is relevant to the credential only.
* Codex maintenance: three tokens are the first one, its rotation, and one more
  by a login or a second refresh; with them a late request, a refused
  publication and a block all meet.
* Sessions: of four tokens one is known to all at first, two are rotations by
  either machine during one outage and the fourth is what is published after a
  recovery.  Which machine sleeps matters, so there is no symmetry.
* Migration: two launches are one that moves and one that shares or waits; with
  two accounts, two identifiers and three turns a label is bound to the other
  account and back, with a death in between.
* Machine lease: three sessions are one that leaves, one that joins and one
  that waits for the lock or has died; four tokens let each take one and the
  environment another.
* Reauthentication: one fault is a lapsed lease, a death or a failing Redis, and
  the worker whose lease lapsed meets the other; a third token is a rotation of
  one the other worker has replaced.
* Home: two accounts and two labels are a switch and its return; expiry 2 lets
  one token be newer than another.
* Usage: two statuses contend for the cache, two labels of three accounts let
  two labels share one and be rebound; an hour is the short window.
* Codex selection: of three labels one is used last, one before, one not yet;
  which of them is moved by events does not matter, so one moves.
* Threads: two copies are a copy of a copy, and two copies beside each other.
* Targets: the plans pair every command with each of the others; of three
  rebalances one fails, one finishes and one finds nothing to do.
* Routines: the three constellations are two launches of one fire key and a
  third of the same routine; three fire keys of one routine; two of one routine
  and one of another.  One kill and one restart each hit any step, and a
  restart already makes every lock old.
* Supervisor: requests alternate, so five contain a pause and a resume twice
  and an unfinished pause; the actions at one request do not depend on its
  number.

A bound only stops counting: what a counter has reached never enables an action.

### Fairness

* `ClaudeSupervisor.LaunchEnds`: weak fairness of what Node's event loop or the
  kernel does when nothing holds it back: a spawn, the delivery of a signal or
  of the channel's end, reading a message, timers that are set (both
  `forcedKillTimer`s and the grace), the exit of a process that was asked to,
  and the close event.  Nothing is assumed of Claude or its helpers, which may
  ignore SIGTERM forever, and nothing makes a lease get lost, AIM ask, or AIM die.
* `ClaudeReauth.FailuresSurface`: from some time on (`settled`) there are only
  passes and all fail in one way.  Assumed is that commands end, that the watch
  keeps calling for passes (its timer), that a dead command's lease runs out,
  that access tokens come due, and strong fairness of time, which passes only
  between passes.
* `HermesFleet.FleetRecovers` (part of `FleetKept`): the watch goes on after each
  pass, by its timer, and a job that has begun does not stay at one step for
  ever; `FleetFails` lets it stop at any of them.

Where a run has several modules, only behaviours of the fair one are fair; the
others' properties are safety, which TLC checks on every step it reaches.

In the other modules waiting has no bound in the code (a restart, a person, a
provider), and what may not happen is what matters.

### Where the code and its documents disagree

Two runs find a behaviour that a document of the repository denies; `findings`
in `PROJECT.json` quotes them.

1. `claude_sleep`: the login lineage is compared only `if (paused)`
   (`claude.js:319`).  After a sleep longer than the TTL the first renewal may
   find the key free, reacquire it and compare nothing.
2. `claude_needs_you`: `publishRedisStateCredential` (`runtime.js:206`) keeps a
   `blockedReason` set for the login it replaces.

Other weak places the modules can show, by a property that is stated but in no
run, or by a constant the runs leave FALSE:

* `CasStore.NoLostUpdateAnywhere`: `sakana remove` deletes a record beside the
  "only shared mutation boundary" (`redis-store.js:221`); versions start again
  at 1 and an old snapshot passes the comparison (`cli/commands/sakana.js:231`).
* `ClaudeSession.ChangedLoginNotResumed`: the resume compares with
  `runtime.snapshot` (`claude.js:1043`), which the publisher may have replaced
  meanwhile (`claude.js:558`).
* `MachineLease` with `Slow`: a section has no deadline of its own and its lock
  is removed after 15 s (`claude-machine-lease.js:77`), and `ReleasedByLast`
  fails; with `Torn`: the lock is made anew between the look at its age and its
  removal (`:72`, `:78`), and `OneInSection` fails; with `Takeover`: another
  owner takes the key during an outage, and the file can name one token only.
* `ClaudeHome.RotationSurvives`: `use` without an eligible account deletes live
  tokens that were never captured (`claude-status.js:159`).  With `Tears` a
  command dies between the home's two files, with `Apart` a capture takes them
  apart; `HomePaired` and `LoginsApart` fail.
* `ClaudeUsage` with `Gap`: a command removes the lock another one has made since
  the second look (`redis-cache.js:342`), two ask at a time, and `SingleFlight`
  and `ReadingKept` fail.  With `Slow`: entries newer than a status's clock are
  none to it (`claude-redis-view.js:210`), it writes over them, and `ReadingKept`
  fails.
* `CodexPool.FresherSideWins`: a publication of the watch that fails after the
  choice loses the tokens Codex refreshed; `RotatesIfItCan`: a rotation may
  stay on the account it should leave.
* `ThreadCopy.LaunchedAsRotated`: another rotation comes between the copy and
  the launch; with `ShortIds` a short identifier is left in a longer string.
* `RoutineOccurrence.QuietEndTrue` leaves out Codex: when a Codex worker is
  stopped before `turn.started` is read, the event is dropped
  (`native-turn.js:63`), and the receipt says the job failed before its prompt.

## Proofs

A proof holds for every value of the constants that satisfies the named
assumption of its module: any number of handles, processes, keys, machines,
sessions, labels or requests.  All proof modules follow one plan: an inductive
invariant is a conjunction of named parts, each step preserves it (one lemma per
action or per part), and every theorem reads its property off the invariant or
off one step from it.  Each invariant was checked by TLC before it was proved.

* `CredentialProofs`, of `CasStore`: `StoreTypeCorrect`, `UpdatesKept`,
  `ImplementsRecords`, `OwnWritesRead`.  `CopyInv` relates a copy to its record:
  it is never ahead, and an equal version is an equal record, so the comparison
  of versions identifies it as long as the key was never deleted; `WatchInv` says
  that a transaction that will run finds the version its caller expects, and one
  that will fail a later one.  For the own writes, `StoredInv` says that the
  record of a publication that was answered is in the store and in the index,
  `SeenInv` that what a reader has seen of index and records is no older.
  Of `CredentialLease`: `TypeCorrect`, `OneOwner`, `FinalRelease`,
  `HarmlessStaleHandle`, `ImplementsOwnership`.  That an entitled handle owns
  the key is not inductive: it depends on what is still in flight.
  `CommandInv` says that commands bear earlier times and that a release is the
  last of its queue, `AskingInv` that a handle waiting for its first answer has
  one message, `ReleaseInv` that a retired token has one holder and a freed one
  nothing on its way, and `EntitlementInv` that a positive answer, read or not,
  stands for a key that lives at least as long as it entitles to.
  Of `CodexMaintenance`: `MaintenanceTypeCorrect`, `BlockedTruly`, `WorkingKept`.
  `ProcessInv` says which step has which token in hand, `FreshInv` that a process whose comparison of versions will succeed has read
  the record that is there, so a block is written only over the token the
  provider refused.  That no rotation is lost holds as long as nobody disturbs a
  refresh under way; `CalmInv` says what holds until then: a process that is
  refreshing has the lease, or is alone with its record.  As most steps of a
  process touch nothing that the others rely on, `StepShape` sorts them into
  four kinds (alone, reads, writes, obtains), and what the others keep follows
  from the kind.
* `ClaudeLaunchProofs`, of `StateMigration`: `MigrationTypeCorrect`,
  `SeesOneAccount`, `LaunchFilesWhole`, `NothingGoesBack`, without restriction.
  `Coherent` says that the four files are of one account, and which;
  `JournalInv` that they are coherent unless a journal is committed, and that each
  is then what the plan had seen or what it proposes; `Proposal` and `Forward`
  that what is proposed is coherent and takes no account back.  `LockInv` is the
  exclusion of the SH/EX lock, `StageInv` what a launch relies on at each of its
  steps, `Settled` what it has seen when it is let in (the journal gone, the
  copies of other accounts retired), which lasts as long as a session or a
  background process of Claude lives.
  Of `ClaudeSession`: `SessionTypeCorrect`, `RunsUnderLease`,
  `LoginNeverLost`, `NoStaleLogin`.  `TokenInv` says that only the last token
  issued is accepted, and that a login newer than the pool's is that one and in
  one file only; `LeaseInv` that a steady machine whose Claude runs has the lease;
  `LoginInv` that the login it works with is not behind its own snapshot and, if
  it is unpublished, that nobody else works with it (`Sole`).  `PlaceInv`,
  `SnapInv`, `CandInv` and `ReadyInv` relate what a machine has read, found and
  checked at each of its steps to record and file.
* `ClaudeCommandProofs`, of `ClaudeSupervisor`: `SupervisorTypeCorrect`, `HeldStopped`,
  `EndedContinued`, `NoneOutlives`, `NoneLeft`.  `RequestInv` is the heart: in
  a launch nobody has begun to end, exactly one of the request, its answer or
  nothing is on its way, and a positive answer to a pause means Claude is
  stopped.  `EndInv` says that as long as the forced kill is set the supervisor
  is told or has been told.
  Of `ClaudeUsage`: `UsageTypeCorrect`, `ShownIsTrue` and `RefusedForCause`
  without restriction, `OneAsks` under `~Gap`, `ReadingsStay` under `~Slow` and
  `~Gap`.  `View` says that all a status has read is true of the account the
  label was bound to then (`TrueEntry`, `TrueTap`, `TrueRow`), which stays so as
  use only grows; lemmas say so of each operator on readings (`ProjectedFacts`,
  `UsableFacts`, `FoldedTrue`, `CachedRowTrue`).  `Flight` says that who asks has
  made the lock that stands, and that what it holds is what is in the file, or a
  session's newer reading of the same login (`Follows`); `ClockInv` that no entry
  is of a later time than the clock of who may write over it.
* `ClaudeAccountProofs`, of `MachineLease`: `MachineTypeCorrect`, `Exclusive`, `AllRecorded`,
  `NeverBusy`, `LastReleases`, `MachineOwnership`, under `~Slow`, `~Torn` and
  `~Takeover`, each of which is needed.  `Locked` says that who is in the section
  made the lock that stands and that nobody is about to remove it, `Recorded`
  the file, `KeyKept` that the key is the sessions' own or free, `ReadInv` that
  what a section has read is still so, `ReleaseInv` that the token being
  released has no other session, `SpentInv` that no spent token is in the file
  or about to be written.
  Of `ClaudeReauth`: `ReauthTypeCorrect`, `MarkedForCause`, `RotationKept`.
  `CommandInv` says what kind of command is at which step and that only a pass
  has a marked draft; `PassInv` that a pass which still has its lease, or was
  told so just before it publishes, has read the record that is there or will
  be refused, and has a cause for its mark, which no other worker can take away;
  `LastingInv` that as long as leases last nobody else is at work, and that a
  pass writes into the managed storage what is in it or newer.
* `RoutineOccurrenceProofs`: `RoutineTypeCorrect`, `PromptsOnce`, `JobsApart`,
  `ReceiptsTrue`.  `FireInv` says that a fire key is held by one launch, from its
  claim to the end of its job, and that its receipt is there; `OrderInv` that a
  launch ends before its worker starts, which starts the agent; `LockInv` and
  `BootInv` whose the routine's and the bootstrap lock are at each step;
  `CareInv` that who leaves a job leaves its receipt complete or the lock that
  leads to it; `ReportInv` that a receipt of a harmless end has no agent.
* `ClaudeHomeProofs`: `LoginsStayApart`, `HomeStaysPaired`, `RotationsKept`,
  under `~Tears` and `~Apart`.  While Claude's locks are free the two files are
  `Paired`; while they are held, `Chosen` says of each step of a switch what
  the home holds and that the rollback has what it found.  `LoginsInv` says that
  the labels of the state file, and of each command's copy of it, have logins of
  different accounts, none newer than was issued; `AloneInv` that a command that
  runs alone keeps each label's login or a newer one.
* `CodexPoolProofs`, of `CodexPool`: `PoolTypeCorrect`, `PoolWalked`, `TokensKept`,
  `WatchedForCause`, without restriction.  `SnapshotInv` says that a command's
  snapshot is of an older version of a record, or has a token at least as new;
  `FoundInv` that a runner has seen to it that Redis's tokens are no older than
  those it found; `WalkInv` that the walk is the end of the history the next
  selection reads, whoever has the lock, and that its last account is the
  current one.  The accounts avoided are then counted (`NextIsNew`): an account
  among the last ones of the walk is chosen again only if all the others have
  come since.  That a least used account exists, and that the cycle leaves one
  to choose, is induction after all: `LeastNumber` (every nonempty set of
  numbers has a least one) follows from the well-foundedness of `<`, which the
  library states without a parameter, and does for sets and positions what an
  induction theorem would.
  Of `ThreadCopy`: `CopyTypeCorrect`, `CopiesUnlinkable`, `CopiesFaithful`, under
  `~ShortIds`, which is needed.  `ThreadInv` says of a thread that is a copy what
  it was copied from (`Descended`: its map has every id the scan collected),
  that it goes on saying it (`Says`) and that none of the ids it has retired is
  left in it (`AllScrubbed`); `CallerInv` says the same of the file a command has
  made, as far as it has got.  `MarksApart` is the heart: the ids by which a
  thread is known, but for the retired ones, are those of no other thread and of
  no file that is yet to be renamed.  It is inductive since all ids are below
  the next one to be minted, and a rewriting numbers new ids by the rank of the
  old ones, so that two do not become one (`Ranks`, `RewriteMapIs`); a retired
  id cannot be there to be shared, as the residue check has found none
  (`CleanIsScrubbed`).
* `TargetProofs`, of `HarnessTarget`: `HarnessTypeCorrect`, `TargetsCompose`,
  without restriction.  `CommandInv` says where a command is and what it has in
  hand, `LockInv` whose the lock of a file is.  What is claimed of commands given
  one after the other rests on `CalmInv`: one of them runs, on the file that the
  local state owns (`OwnedInv`); an entry of AIM is in that file or in the one a
  command is about to record (`FoundInv`); a displaced login is in the backup
  while AIM has its place (`HeldInv`); and a provider whose turn is over is as
  the command wants it (`DoneInv`).  For the handoffs `WalkInv` says that the walk
  is the end of the root's history, of which a choice avoids the recent part
  (`ChoiceIsNew`, by counting, as in `CodexPool`).
  Of `OpenclawSync`: `RebalanceCloses`, `RebalanceMovesSessions` and
  `RebalancesSettle`, the three parts of `RebalanceReaches` (`RebalancesReach`).
  Each part of `SyncInv` says what is settled from a step on: `StoresInv` the main
  store and the order of the agents that are done, `ModelsInv` the models, which
  are set by index (`IndexTells`: an index names the same agent as long as nobody
  edits the list), `SessionsInv` the sessions, `GatewayInv` that the gateway runs
  what is on disk unless something was written since.  These hold for every
  planner.  That plans settle rests on `RepeatsInv`: the first plan of its inputs
  puts every agent on a usable label, and the second is made again from then on.
  Of `WeightedPlan`: `EverySubjectPlaced`, for labels with some headroom, and
  `PlanSettles`.  That the sums and the recursive function `placed` exist, and what
  their values are, is an induction again, made by a least counterexample:
  `LeastNumber` for the number of subjects placed, `LeastMember` for the best
  candidate and the first subject (`Preferred` and `Earlier` are total and
  transitive).  Once every subject has an eligible label, `Earlier` orders by
  demand and name alone (`NextIsSame`), so each subject meets the same placing in
  both plans; what was selected is then selected again (`SelectionAgain`), whether
  it was the best or was kept.  While some subject has no eligible label the order
  depends on it, so the second plan may still move others: the third is the first
  that moves nobody.
  Of `HermesFleet`: `FleetTypeCorrect`, and `FleetIsServed`, the safety part of
  `FleetKept`.  `WritesInv` says that what a job is to write is an eligible label
  (by `EverySubjectPlaced`) and that a home is written for one reason; `ServedInv`
  that, as long as nobody else writes a home, those the job does not have to write
  any more are served.

Only model-checked, and why: liveness under fairness (`LaunchEnds`,
`FailuresSurface`, and `FleetRecovers`, the other part of `FleetKept`), which is
outside what the proof system can do.  Everything else that the passing runs check is
stated by a theorem, under the assumptions named above.

Types: those of `ClaudeHome` and of `OpenclawSync` (in part, `SyncShapes`) are
parts of their invariants.

## Abstractions and known gaps

* Identifiers, tokens and payloads are model values or small numbers; formatting,
  logging and the contents of records are left out, unless a property is about them.
* The lists of what each module leaves out are in the sections above.
* `ClaudeSupervisor.overtaken`: AIM's 5 s (`claude-runner.js:990`) and the
  supervisor's 4 s (`claude-supervisor.js:101`) start at different moments; if
  the supervisor is more than a second late it is killed before it has killed
  Claude.  `NothingOutlives` shows this to be the only way.  A supervisor that
  someone else kills is not modelled.
* Not modelled at all, with the reason for each: `components` in `PROJECT.json`.

## Plan

Next, in this order:

1. The fenced replacement of the native credential (`claude-native-storage.js`,
   `claude-native-state-lock.js`), which `ClaudeSession` takes as one step, with
   the refinement between them.
2. What follows a settled turn in `RoutineOccurrence`.
