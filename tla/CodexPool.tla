------------------------------- MODULE CodexPool -------------------------------
(***************************************************************************)
(* How one machine chooses the Codex account its Codex processes use       *)
(* (src/cli/commands/codex.js, src/targets/codex-cli.js, src/pool).        *)
(*                                                                         *)
(* Every Codex process of the machine reads one auth.json.  `aim codex     *)
(* use`, `run` and `resume` (the runners) take the selection lock,         *)
(* reconcile auth.json with Redis, publish tokens that Codex refreshed,    *)
(* choose an account and write auth.json and the local state file.  `aim   *)
(* codex watch` (the watchers) does so without the lock and publishes      *)
(* after it has chosen.  Codex refreshes the tokens of auth.json by        *)
(* itself, and other machines refresh and edit the records of Redis.       *)
(*                                                                         *)
(* Labels are numbered in the order localeCompare sorts them; 0 is none.   *)
(* The tokens of an account are numbered in the order the provider issues  *)
(* them; Expiry gives the time its JWT claims say.  What runs without an   *)
(* await is one step.                                                      *)
(***************************************************************************)
EXTENDS Naturals, Sequences, FiniteSets

CONSTANTS
    Runner, Watcher,  \* the processes of each kind
    Nobody,           \* the holder of the free selection lock
    NumLabels,        \* the Codex accounts of the pool
    Expiry,           \* of an account and a token: when it expires
    Usage,            \* the usage levels the provider may report
    First,            \* the usage of the accounts and which cannot be fetched, at first
    Threshold,        \* --rotate-below-weekly-remaining-pct
    MaxCalls,         \* bound on the commands of every process
    Moving,           \* bound: the accounts whose records and usage may change
    MaxEvents,        \* bound on what happens around them
    MaxTime           \* bound on the clock

Label == 1..NumLabels
Token == DOMAIN Expiry[1]
Process == Runner \cup Watcher
Unknown == [primary |-> 100, secondary |-> 100, known |-> FALSE]

ASSUME ConstantsAssumption ==
    /\ Runner \cap Watcher = {} /\ Nobody \notin Process
    /\ NumLabels \in Nat \ {0}
    /\ Token \subseteq Nat \ {0} /\ 1 \in Token /\ Expiry \in [Label -> [Token -> Nat]]
    /\ \A l \in Label, s, t \in Token : s < t => Expiry[l][s] <= Expiry[l][t]
    /\ \A u \in Usage : u.known /\ u.primary \in 0..100 /\ u.secondary \in 0..100
    /\ Moving \subseteq Label /\ First \subseteq [usage : [Label -> Usage], dark : SUBSET Label]
    /\ Threshold \in 0..100

VARIABLES
    redis,    \* Redis: the credential record of every account
    local,    \* the local state file: the target's label and the selections
    auth,     \* auth.json: the account and its token
    lock,     \* codex-selection.lock
    issued,   \* provider: the last token issued to every account
    usage,    \* provider: the usage of every account
    dark,     \* provider: the accounts whose usage cannot be fetched
    cache,    \* the usage cache: by account, the answer for one token
    now,      \* the clock
    pc,       \* of a process: its next step
    want,     \* of a process: the label it was given, or 0
    view,     \* of a process: the state it loaded, as it has changed it
    snap,     \* of a process: the usage it collected
    calls,    \* bound: the commands every process began
    events,   \* bound: what happened around them
    walk,     \* history: the accounts of the last undisturbed rotations
    walked    \* history: the accounts that were eligible for them

world == <<issued, usage, dark, now, events>>
history == <<walk, walked>>
vars == <<redis, local, auth, lock, world, cache, pc, want, view, snap, calls, history>>

NoAuth == [label |-> 0, token |-> 0]
NoUsage == [l \in Label |-> Unknown]
NoView == [redis |-> [l \in Label |-> [version |-> 1, token |-> 1, barred |-> FALSE]],
           active |-> 0, recent |-> <<>>, found |-> NoAuth, status |-> "none"]
NoEntry == [token |-> 0, usage |-> Unknown, recent |-> FALSE]

-----------------------------------------------------------------------------
(* Types: of the records of Redis, of auth.json, of a command's view of both and *)
(* of the usage cache.  What is known of a usage is one the provider reports.    *)

Known == Usage \cup {Unknown}
RecordSet == [version : Nat, token : Token, barred : BOOLEAN]
AuthSet == {NoAuth} \cup [label : Label, token : Token]
Statuses == {"none", "skipped", "conflict", "identical", "redis_newer", "local_newer"}
Phases == {"idle", "read", "reconcile", "publish", "probe", "select", "late", "save"}
ViewSet == [redis : [Label -> RecordSet], active : 0..NumLabels, recent : Seq(Label),
            found : AuthSet, status : Statuses]
EntrySet == [token : {0} \cup Token, usage : Known, recent : BOOLEAN]

PoolTypeOK ==
    /\ redis \in [Label -> RecordSet]
    /\ local \in [active : 0..NumLabels, recent : Seq(Label)]
    /\ auth \in AuthSet
    /\ lock \in Runner \cup {Nobody}
    /\ issued \in [Label -> Token]
    /\ usage \in [Label -> Usage] /\ dark \in SUBSET Label
    /\ cache \in [Label -> EntrySet]
    /\ now \in Nat /\ events \in Nat
    /\ pc \in [Process -> Phases]
    /\ want \in [Process -> 0..NumLabels]
    /\ view \in [Process -> ViewSet]
    /\ snap \in [Process -> [Label -> Known]]
    /\ calls \in [Process -> Nat]
    /\ walk \in Seq(Label) /\ walked \in SUBSET Label

-----------------------------------------------------------------------------
(* The pool: which accounts may be chosen, and which one is.               *)

\* derivePoolAccountStatus: policy does not bar the account and its token is fresh.
CredentialEligible(r) == {l \in Label : ~r[l].barred /\ Expiry[l][r[l].token] > now}

Remaining(u) == 100 - u.primary

\* isUsageSnapshotExhausted
Exhausted(u) == u.primary >= 95 \/ u.secondary >= 95

\* collectCodexPoolStatus
Eligible(r, u) == {l \in CredentialEligible(r) : u[l].known /\ ~Exhausted(u[l])}

Before(k, l, u) ==
    \/ u[k].primary < u[l].primary
    \/ u[k].primary = u[l].primary /\ k <= l

LeastUsed(S, u) == CHOOSE l \in S : \A k \in S : Before(l, k, u)

\* The labels most recently selected among S, all of S but one at most.
CycleAvoid(S, recent) ==
    LET since(i) == {recent[j] : j \in i..Len(recent)}
    IN  {recent[i] : i \in {i \in DOMAIN recent :
            recent[i] \in S /\ Cardinality(S \cap since(i)) < Cardinality(S)}}

\* Mutant of PickLeastUsed: only the last selection is avoided.
PickOther(S, u, recent) ==
    LET last == IF recent = <<>> \/ Cardinality(S) = 1 THEN {} ELSE {recent[Len(recent)]}
    IN  LeastUsed(S \ last, u)

\* pickLeastUsedCodexPoolLabel
PickLeastUsed(S, u, recent) == LeastUsed(S \ CycleAvoid(S, recent), u)

\* rankPoolCandidates and pickNextBestLocalCliPoolLabel: the order of the ranking
\* is replaced by the order of use among those above the floor, if there are any.
PickNextBest(S, u) ==
    LET above == {l \in S : Remaining(u[l]) >= 80}
    IN  LeastUsed(IF above # {} THEN above ELSE S, u)

\* appendOpenaiCodexHistory
Remember(recent, l) == Append(recent, l)

\* readCodexCliTargetStatus: inferredLabel ?? activeLabel
Current(a, v) == IF a.label # 0 THEN a.label ELSE v.active

Init ==
    /\ redis = NoView.redis
    /\ lock = Nobody
    /\ issued = [l \in Label |-> 1]
    /\ \E f \in First : usage = f.usage /\ dark = f.dark
    /\ now = 0
    /\ cache = [l \in Label |-> NoEntry]
    /\ pc = [p \in Process |-> "idle"]
    /\ want = [p \in Process |-> 0]
    /\ view = [p \in Process |-> NoView]
    /\ snap = [p \in Process |-> NoUsage]
    /\ calls = [p \in Process |-> 0] /\ events = 0
    /\ \/ /\ auth = NoAuth
          /\ local = [active |-> 0, recent |-> <<>>]
          /\ walk = <<>> /\ walked = {}
       \/ /\ auth = [label |-> 1, token |-> 1]
          /\ local = [active |-> 1, recent |-> <<NumLabels, 1>>]
          /\ walked = Eligible(redis, usage)
          /\ walk = IF {1, NumLabels} \subseteq walked THEN local.recent ELSE <<>>

-----------------------------------------------------------------------------
Goto(p, l) == pc' = [pc EXCEPT ![p] = l]

\* The command returns or throws; its lock is released.
End(p) ==
    /\ Goto(p, "idle")
    /\ want' = [want EXCEPT ![p] = 0]
    /\ view' = [view EXCEPT ![p] = NoView]
    /\ snap' = [snap EXCEPT ![p] = NoUsage]
    /\ lock' = IF lock = p THEN Nobody ELSE lock

\* A step of a command that does not end it.
Step(p, l, v) ==
    /\ Goto(p, l)
    /\ view' = [view EXCEPT ![p] = v]
    /\ UNCHANGED <<want, lock>>

\* activateCodexForContext and runRedisCodexWatchOnce.  Only the former is
\* given a label and takes the lock.
Begin(p, w) ==
    /\ pc[p] = "idle" /\ calls[p] < MaxCalls[p]
    /\ p \in Watcher => w = 0
    /\ p \in Runner => lock = Nobody
    /\ lock' = IF p \in Runner THEN p ELSE lock
    /\ calls' = [calls EXCEPT ![p] = @ + 1]
    /\ Goto(p, "read")
    /\ want' = [want EXCEPT ![p] = w]
    /\ UNCHANGED <<redis, local, auth, world, cache, view, snap, history>>

\* loadRedisRuntime: the snapshot of Redis.
Read(p) ==
    /\ pc[p] = "read"
    /\ Step(p, "reconcile", [view[p] EXCEPT !.redis = redis])
    /\ UNCHANGED <<redis, local, auth, world, cache, snap, calls, history>>

Chosen(p) == IF want[p] # 0 THEN "select" ELSE "probe"

\* applyCodexCliFromState writes the token of the view.
Project(v, l) == [label |-> l, token |-> v.redis[l].token]
Fresh(v, l) == Expiry[l][v.redis[l].token] > now

\* The local state file is loaded, then reconcileCodexCliAuth compares auth.json
\* with the snapshot: identity first, freshness next.
Reconcile(p) ==
    /\ pc[p] = "reconcile"
    /\ LET l == auth.label
           v == [view[p] EXCEPT !.active = local.active, !.recent = local.recent,
                                !.found = auth]
           stored == v.redis[l].token
       IN  \/ /\ \/ l = 0
                 \/ l # 0 /\ v.active \notin {0, l}
                 \/ l # 0 /\ v.active \in {0, l} /\ stored # auth.token
                    /\ Expiry[l][stored] = Expiry[l][auth.token]
              /\ Step(p, Chosen(p), [v EXCEPT !.status = IF l = 0 THEN "skipped" ELSE "conflict"])
              /\ UNCHANGED <<auth, snap>>
           \/ /\ l # 0 /\ v.active \in {0, l} /\ stored = auth.token
              /\ Step(p, Chosen(p), [v EXCEPT !.status = "identical"])
              /\ UNCHANGED <<auth, snap>>
           \/ /\ l # 0 /\ v.active \in {0, l} /\ Expiry[l][auth.token] < Expiry[l][stored]
              /\ \/ /\ Fresh(v, l)
                    /\ auth' = Project(v, l)
                    /\ Step(p, Chosen(p), [v EXCEPT !.status = "redis_newer", !.active = l])
                    /\ UNCHANGED snap
                 \/ /\ ~Fresh(v, l)
                    /\ End(p)
                    /\ UNCHANGED auth
           \/ /\ l # 0 /\ v.active \in {0, l} /\ Expiry[l][auth.token] > Expiry[l][stored]
              /\ Step(p, IF p \in Runner THEN "publish" ELSE "probe",
                      [v EXCEPT !.status = "local_newer", !.redis[l].token = auth.token])
              /\ UNCHANGED <<auth, snap>>
    /\ UNCHANGED <<redis, local, world, cache, calls, history>>

\* Mutant of Published: the version is not compared.
PublishedBlindly(p) ==
    LET l == view[p].found.label
    IN  redis' = [redis EXCEPT ![l] = [view[p].redis[l] EXCEPT !.version = redis[l].version + 1]]

\* publishCodexReconciliation: the record of the reconciled label is replaced
\* by the view's, unless its version has changed.
Published(p) ==
    LET l == view[p].found.label
        r == [view[p].redis[l] EXCEPT !.version = @ + 1]
    IN  /\ redis[l].version = view[p].redis[l].version
        /\ redis' = [redis EXCEPT ![l] = r]

Stale(p) ==
    LET l == view[p].found.label
    IN  redis[l].version # view[p].redis[l].version

Publish(p) ==
    /\ pc[p] = "publish"
    /\ \/ Published(p) /\ Step(p, Chosen(p), view[p]) /\ UNCHANGED snap
       \/ Stale(p) /\ End(p) /\ UNCHANGED redis
    /\ UNCHANGED <<local, auth, world, cache, calls, history>>

\* collectCodexUsageSnapshots: an entry of the cache counts for its own token;
\* a recent one is not fetched again.
Probe(p) ==
    /\ pc[p] = "probe"
    /\ LET token(l) == view[p].redis[l].token
           match(l) == cache[l].token = token(l)
           live(l) == ~(match(l) /\ cache[l].recent) /\ l \notin dark
       IN  /\ snap' = [snap EXCEPT ![p] = [l \in Label |->
                          IF live(l) THEN usage[l]
                          ELSE IF match(l) THEN cache[l].usage ELSE Unknown]]
           /\ cache' = [l \in Label |->
                          IF live(l) THEN [token |-> token(l), usage |-> usage[l], recent |-> TRUE]
                          ELSE IF match(l) THEN [cache[l] EXCEPT !.recent = TRUE] ELSE NoEntry]
    /\ Step(p, "select", view[p])
    /\ UNCHANGED <<redis, local, auth, world, calls, history>>

-----------------------------------------------------------------------------
\* The local state file is still to be written; a watcher publishes before.
Decided(p, v) ==
    Step(p, IF p \in Watcher /\ v.status = "local_newer" THEN "late" ELSE "save", v)

Activate(p, l) ==
    /\ auth' = Project(view[p], l)
    /\ Decided(p, [view[p] EXCEPT !.active = l, !.recent = Remember(@, l)])

\* activateCodexLabelSelection
UseLabel(p) ==
    /\ pc[p] = "select" /\ want[p] # 0
    /\ \/ Fresh(view[p], want[p]) /\ Activate(p, want[p])
       \/ ~Fresh(view[p], want[p]) /\ Decided(p, view[p]) /\ UNCHANGED auth
    /\ walk' = <<>> /\ walked' = {}
    /\ UNCHANGED <<redis, local, world, cache, snap, calls>>

\* activateCodexPoolSelection avoiding the current label, for the runners.
Rotate(p) ==
    /\ pc[p] = "select" /\ want[p] = 0 /\ p \in Runner
    /\ LET eligible == Eligible(view[p].redis, snap[p])
           others == eligible \ {Current(auth, view[p])}
           next == PickLeastUsed(others, snap[p], view[p].recent)
       IN  \/ /\ others = {}
              /\ Decided(p, view[p])
              /\ UNCHANGED <<auth, history>>
           \/ /\ others # {}
              /\ Activate(p, next)
              /\ walk' = IF eligible = walked THEN Append(walk, next) ELSE <<next>>
              /\ walked' = eligible
    /\ UNCHANGED <<redis, local, world, cache, snap, calls>>

\* buildCodexWatchTargetBlockers
TargetBlocked(v) == v.active # 0 /\ auth.label # v.active

\* watchCodexPoolSelectionOnce on the current account.
WatchKeep(p) ==
    LET current == Current(auth, view[p])
    IN  /\ current # 0
        /\ \/ TargetBlocked(view[p]) /\ Decided(p, view[p])
           \/ ~TargetBlocked(view[p]) /\ ~snap[p][current].known /\ Decided(p, view[p])
           \/ /\ ~TargetBlocked(view[p]) /\ snap[p][current].known
              /\ Remaining(snap[p][current]) >= Threshold
              /\ Decided(p, view[p])
        /\ UNCHANGED auth

\* Mutant of WatchRotate: an account whose usage is unknown does not stop the clearing.
WatchClear(p) ==
    LET current == Current(auth, view[p])
        eligible == Eligible(view[p].redis, snap[p])
    IN  /\ \/ current = 0
           \/ /\ current # 0 /\ ~TargetBlocked(view[p]) /\ snap[p][current].known
              /\ Remaining(snap[p][current]) < Threshold
        /\ \/ eligible # {} /\ Activate(p, PickNextBest(eligible, snap[p]))
           \/ /\ eligible = {} /\ auth' = NoAuth
              /\ Decided(p, [view[p] EXCEPT !.active = 0])

\* watchCodexPoolSelectionOnce when there is no account or it is nearly used up.
WatchRotate(p) ==
    LET current == Current(auth, view[p])
        eligible == Eligible(view[p].redis, snap[p])
        usable == CredentialEligible(view[p].redis)
    IN  /\ \/ current = 0
           \/ /\ current # 0 /\ ~TargetBlocked(view[p]) /\ snap[p][current].known
              /\ Remaining(snap[p][current]) < Threshold
        /\ \/ eligible # {} /\ Activate(p, PickNextBest(eligible, snap[p]))
           \/ /\ eligible = {} /\ \E l \in usable : ~snap[p][l].known
              /\ Decided(p, view[p]) /\ UNCHANGED auth
           \/ /\ eligible = {} /\ \A l \in usable : snap[p][l].known
              /\ auth' = NoAuth
              /\ Decided(p, [view[p] EXCEPT !.active = 0])

Watch(p) ==
    /\ pc[p] = "select" /\ p \in Watcher
    /\ WatchKeep(p) \/ WatchRotate(p)
    /\ walk' = <<>> /\ walked' = {}
    /\ UNCHANGED <<redis, local, world, cache, snap, calls>>

\* The watcher's publication, after its selection.
PublishLate(p) ==
    /\ pc[p] = "late"
    /\ \/ Published(p) /\ Step(p, "save", view[p]) /\ UNCHANGED snap
       \/ Stale(p) /\ End(p) /\ UNCHANGED redis
    /\ UNCHANGED <<local, auth, world, cache, calls, history>>

\* writeRedisLocalStateFromView
Save(p) ==
    /\ pc[p] = "save"
    /\ local' = [active |-> view[p].active, recent |-> view[p].recent]
    /\ End(p)
    /\ IF p \in Watcher THEN walk' = <<>> /\ walked' = {} ELSE UNCHANGED history
    /\ UNCHANGED <<redis, auth, world, cache, calls>>

\* The process is killed; the lock it held becomes stale and is taken over.
Die(p) ==
    /\ pc[p] # "idle" /\ events < MaxEvents
    /\ events' = events + 1
    /\ End(p)
    /\ walk' = <<>> /\ walked' = {}
    /\ UNCHANGED <<redis, local, auth, issued, usage, dark, now, cache, calls>>

-----------------------------------------------------------------------------
\* Before the first command it would only be another beginning.
Happen == (\E p \in Process : calls[p] > 0) /\ events < MaxEvents /\ events' = events + 1
command == <<pc, want, view, snap, calls, lock, history, local>>

\* A running Codex refreshes the token of auth.json: the provider accepts the
\* last refresh token only.
CodexRefresh ==
    /\ Happen
    /\ auth.label # 0 /\ auth.token = issued[auth.label]
    /\ auth.token + 1 \in Token
    /\ auth' = [auth EXCEPT !.token = @ + 1]
    /\ issued' = [issued EXCEPT ![auth.label] = @ + 1]
    /\ UNCHANGED <<command, redis, cache, usage, dark, now>>

\* `codex logout`
CodexLogout ==
    /\ Happen
    /\ auth # NoAuth /\ auth' = NoAuth
    /\ UNCHANGED <<command, redis, cache, issued, usage, dark, now>>

\* `aim auth maintain` on another machine.
RedisRefresh(l) ==
    /\ Happen
    /\ redis[l].token = issued[l] /\ ~redis[l].barred /\ redis[l].token + 1 \in Token
    /\ redis' = [redis EXCEPT ![l].version = @ + 1, ![l].token = @ + 1]
    /\ issued' = [issued EXCEPT ![l] = @ + 1]
    /\ UNCHANGED <<command, auth, cache, usage, dark, now>>

\* A label command on another machine.
RedisEdit(l) ==
    /\ Happen
    /\ redis' = [redis EXCEPT ![l].version = @ + 1, ![l].barred = ~@]
    /\ UNCHANGED <<command, auth, cache, issued, usage, dark, now>>

UsageChange(l, u) ==
    /\ Happen
    /\ u # usage[l] /\ usage' = [usage EXCEPT ![l] = u]
    /\ UNCHANGED <<command, redis, auth, cache, issued, dark, now>>

Darken(l) ==
    /\ Happen
    /\ dark' = IF l \in dark THEN dark \ {l} ELSE dark \cup {l}
    /\ UNCHANGED <<command, redis, auth, cache, issued, usage, now>>

\* The attempts of the cache are no longer recent.
CacheAge ==
    /\ Happen
    /\ \E l \in Label : cache[l].recent
    /\ cache' = [l \in Label |-> [cache[l] EXCEPT !.recent = FALSE]]
    /\ UNCHANGED <<command, redis, auth, issued, usage, dark, now>>

Tick ==
    /\ Happen
    /\ now < MaxTime /\ now' = now + 1
    /\ UNCHANGED <<command, redis, auth, cache, issued, usage, dark>>

Around ==
    \/ CodexRefresh \/ CodexLogout \/ CacheAge \/ Tick
    \/ \E l \in Moving : RedisRefresh(l) \/ RedisEdit(l) \/ Darken(l)
    \/ \E l \in Moving, u \in Usage : UsageChange(l, u)

Command(p) ==
    \/ \E w \in 0..NumLabels : Begin(p, w)
    \/ Read(p) \/ Reconcile(p) \/ Publish(p) \/ Probe(p)
    \/ UseLabel(p) \/ Rotate(p) \/ Watch(p)
    \/ PublishLate(p) \/ Save(p) \/ Die(p)

Next == Around \/ \E p \in Process : Command(p)

Spec == Init /\ [][Next]_vars
-----------------------------------------------------------------------------
(* Properties.                                                             *)

Inside(p) == pc[p] # "idle" /\ pc'[p] # pc[p]

\* Repeated launches walk the eligible pool: as long as the eligible accounts are
\* the same and nobody else selects, an account is not chosen again before every
\* other one has been (the cycle of pickLeastUsedCodexPoolLabel over the history
\* that the local state file carries from one command to the next).
NoEarlyRepeat ==
    \A i, j \in 1..Len(walk) :
        i < j /\ j - i < Cardinality(walked) => walk[i] # walk[j]

\* A runner gives up the tokens that it found in auth.json only when Redis holds
\* tokens at least as fresh for their account, unless it could not tell whose or
\* which were fresher: the publication comes before the selection, and stops it
\* when it fails.
RefreshPublished ==
    [][\A p \in Runner :
          /\ Inside(p) /\ auth' # auth /\ auth.label # 0
          /\ auth = (IF pc[p] = "reconcile" THEN auth ELSE view[p].found)
          /\ view[p].status # "conflict"
          => Expiry[auth.label][redis[auth.label].token] >= Expiry[auth.label][auth.token]]_vars

\* A command never replaces the token of a record by an older one and never undoes
\* what another machine has edited, however long it was between its snapshot and
\* its publication.
PublicationSafe ==
    [][\A p \in Process, l \in Label :
          Inside(p) => /\ redis'[l].token >= redis[l].token
                       /\ redis'[l].barred = redis[l].barred]_vars

\* A watcher leaves an account only for one that its usage showed to be less used,
\* or when the account it leaves could not be chosen any more.
WatchImproves ==
    [][\A p \in Watcher :
          LET old == auth.label  new == auth'.label IN
          Inside(p) /\ old # 0 /\ new \notin {0, old} =>
             \/ snap[p][new].primary <= snap[p][old].primary
             \/ old \notin Eligible(view[p].redis, snap[p])]_vars

\* auth.json is taken away from the machine's Codex processes only by a watcher that
\* knows the usage of every account with a usable credential, and finds each spent:
\* a provider that cannot be reached is no reason.
ClearedOnEvidence ==
    [][\A p \in Process :
          Inside(p) /\ auth' = NoAuth /\ auth # NoAuth =>
             \A l \in CredentialEligible(view[p].redis) :
                snap[p][l].known /\ Exhausted(snap[p][l])]_vars

\* "The fresher side wins": when a command ends that found in auth.json fresher
\* tokens than Redis had, they are in Redis or still in auth.json.  (Not true of a
\* watcher, which has chosen another account when its publication fails.)
FresherSideWins ==
    [][\A p \in Process :
          LET l == view[p].found.label  t == view[p].found.token IN
          pc[p] # "idle" /\ pc'[p] = "idle" /\ events' = events
          /\ view[p].status = "local_newer" =>
             \/ Expiry[l][redis'[l].token] >= Expiry[l][t]
             \/ auth'.label = l /\ Expiry[l][auth'.token] >= Expiry[l][t]]_vars

\* A bare `aim codex use` does not fail while an eligible alternative exists,
\* unless another writer got in between.  (Not true: an expired record stops it.)
RotatesIfItCan ==
    [][\A p \in Runner :
          pc[p] = "reconcile" /\ pc'[p] = "idle" /\ events' = events /\ want[p] = 0 =>
             \A l \in CredentialEligible(view[p].redis) \ {auth.label} :
                Exhausted(usage[l])]_vars

\* Across `use` and `watch` no token that is newer than the record's is given up for
\* an older one: neither auth.json's, nor the record's, nor another machine's edit.
PublicationsKept == RefreshPublished /\ PublicationSafe

\* A watcher takes auth.json from the machine's Codex processes for a known cause
\* only, whether it gives another account or none.
WatchForCause == WatchImproves /\ ClearedOnEvidence
=============================================================================
