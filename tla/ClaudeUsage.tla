----------------------------- MODULE ClaudeUsage -----------------------------
(*****************************************************************************)
(* What `aim claude status` and the automatic choice of an account know of   *)
(* the use of each Claude account (src/status/claude-redis-view.js,          *)
(* redis-cache.js, claude-session-usage.js): the cache file several          *)
(* processes read and write, its lock, the readings running sessions leave,  *)
(* the provider's answer, and the choice made of it.                         *)
(*                                                                           *)
(* A usage window belongs to the account that counts in it and ends at a     *)
(* time of its own; `used` says how far it was used.  A status has the       *)
(* clock of the moment its command was started and keeps it.                 *)
(*****************************************************************************)
EXTENDS Naturals, FiniteSets

CONSTANTS Status,       \* processes that collect the usage
          Label,        \* the labels of the Redis inventory
          Owner,        \* Claude accounts
          MaxTime, MaxWrite, MaxMoves,   \* bounds: clock, versions of a record, moves of the world
          FreshFor, KeepFor, LockStale,   \* ages, in ticks
          Slow,         \* a status may look at the cache long after its clock was taken
          Gap,          \* a process may be preempted between the second stat and the unlink
          Nothing

\* "session" is what running sessions report (the five hours, and the week
\* likewise); "scoped" is a model's weekly window, which only the provider tells.
Window == {"session", "scoped"}
Length == [session |-> 2, scoped |-> 3]
Limit == 2
Ends(w, t) == ((t \div Length[w]) + 1) * Length[w]

ASSUME UsageAssumption ==
    /\ MaxTime \in Nat \ {0} /\ {MaxWrite, MaxMoves, FreshFor, KeepFor, LockStale} \subseteq Nat
    /\ {Slow, Gap} \subseteq BOOLEAN

VARIABLES
    time, used,      \* the hour; the levels each window of an account has reached
    record, lease,   \* Redis: the login of each label, who holds its lease
    tap,             \* the last reading a session left in the label's home
    cache, cacheLock, \* provider entries of the cache file, and its lock file
    status,          \* the processes
    moves            \* what the world has done so far

usageVars == <<time, used, record, lease, tap, cache, cacheLock, status, moves>>

Times == 1 .. MaxTime
Resets == 1 .. MaxTime + 3
Reading == [level : 0 .. Limit, reset : Resets \cup {Nothing}]
Usage == [Window -> Reading \cup {Nothing}]
Login == [of : Owner, version : 1 .. MaxWrite + 1, state : {"ready", "expired", "blocked"}]
Entry == [of : Owner, version : 1 .. MaxWrite + 1, state : {"readable", "limited", "failed"},
          seen : Times \cup {Nothing}, tried : Times, usage : Usage]

TapReading == [level : 0 .. Limit, reset : Resets, at : Times]
LockFile == [by : Status \cup {Nothing}, at : Times]

\* What is not there is none of what could be.
ASSUME NothingAssumption ==
    /\ Nothing \notin Status /\ Nothing \notin Resets /\ Nothing \notin Reading
    /\ Nothing \notin Entry /\ Nothing \notin TapReading /\ Nothing \notin LockFile

Peak(a, w, r) == Cardinality({n \in 1 .. Limit : <<a, w, r, n>> \in used})

Blank == [w \in Window |-> Nothing]
Known(u) == u # Blank
Row(state, usage) == [state |-> state, usage |-> usage]
NoRow == Row("none", Blank)
Idle == [at |-> "idle", clock |-> Nothing, facts |-> Nothing, taps |-> Nothing,
         entries |-> Nothing, due |-> {}, rows |-> [l \in Label |-> NoRow],
         stat |-> Nothing, again |-> FALSE]

UsageTypeOK ==
    /\ time \in Times /\ used \subseteq Owner \X Window \X Resets \X (1 .. Limit)
    /\ record \in [Label -> Login] /\ lease \in [Label -> {"free", "here", "away"}]
    /\ tap \in [Label -> TapReading \cup {Nothing}]
    /\ cache \in [Label -> Entry \cup {Nothing}] /\ moves \in 0 .. MaxMoves
    /\ cacheLock \in LockFile \cup {Nothing}
    /\ \A p \in Status : status[p].at \in
         {"idle", "lock", "stale", "unlink", "fetch", "answer"}

-----------------------------------------------------------------------------
(* Readings.  A window whose reset has passed has started over at zero.      *)
Projected(u, clock) ==
    [w \in Window |-> IF u[w] # Nothing /\ u[w].reset # Nothing /\ u[w].reset <= clock
                      THEN [level |-> 0, reset |-> Nothing] ELSE u[w]]
Exhausted(u) == \E w \in Window : u[w] # Nothing /\ u[w].level = Limit
ExpiredWindow(u, clock) ==
    \E w \in Window : u[w] # Nothing /\ u[w].reset # Nothing /\ u[w].reset <= clock
Healthy(u) == IF Exhausted(u) THEN "limited" ELSE "readable"

\* normalizeCachedEntry: what a later clock wrote is no entry, or no reading.
Normalized(e, clock) ==
    IF e = Nothing \/ e.tried > clock THEN Nothing
    ELSE IF e.seen = Nothing \/ e.seen <= clock THEN e
    ELSE [e EXCEPT !.seen = Nothing, !.usage = Blank]

\* usableStaleUsage
MutantUsable(e, clock) == \* Mutant of Usable: a window that has ended keeps its level.
    IF e = Nothing \/ e.seen = Nothing \/ clock - e.seen > KeepFor THEN Blank ELSE e.usage
Usable(e, clock) ==
    IF e = Nothing \/ e.seen = Nothing \/ clock - e.seen > KeepFor THEN Blank
    ELSE Projected(e.usage, clock)

\* buildCredentialFacts, selectFacts: an account under two labels is neither's.
Duplicate(f, l) == \E k \in Label \ {l} : f[k].of = f[l].of
Facts(f, l) == IF Duplicate(f, l) THEN "blocked" ELSE f[l].state
\* identityBinding: the login an entry was made with.
ForFacts(e, f, l) ==
    IF e[l] # Nothing /\ ~Duplicate(f, l) /\ e[l].of = f[l].of /\ e[l].version = f[l].version
    THEN e[l] ELSE Nothing

\* foldSessionUsage: the session's own reading replaces an older one.
Folded(e, f, taps, clock) ==
    [l \in Label |->
       LET cached == ForFacts(e, f, l)
           reading == taps[l]
           seen == IF reading.at < clock THEN reading.at ELSE clock
           usage == [Blank EXCEPT !["session"] = [level |-> reading.level, reset |-> reading.reset],
                                  !["scoped"] = IF cached = Nothing THEN Nothing ELSE cached.usage["scoped"]]
       IN  IF \/ reading = Nothing \/ Facts(f, l) = "blocked"
              \/ cached # Nothing /\ cached.seen # Nothing /\ Known(cached.usage) /\ cached.seen > seen
           THEN e[l]
           ELSE [of |-> f[l].of, version |-> f[l].version, state |-> Healthy(usage), seen |-> seen,
                 tried |-> IF cached # Nothing /\ cached.tried > seen THEN cached.tried ELSE seen,
                 usage |-> usage]]

\* shouldUseCachedEntry
UseCached(e, clock) ==
    /\ e # Nothing
    /\ ~(e.state \in {"readable", "limited"} /\ ExpiredWindow(e.usage, clock))
    /\ clock - e.tried <= FreshFor

\* buildCachedAccount
CachedRow(e, clock) ==
    LET u == Usable(e, clock)
    IN  Row(IF e.state = "failed" THEN "failed" ELSE IF Known(u) THEN Healthy(u) ELSE "unknown", u)
-----------------------------------------------------------------------------
UsageInit ==
    /\ time = 1 /\ moves = 0 /\ cacheLock = Nothing /\ used = {}
    /\ record \in [Label -> [of : Owner, version : {1}, state : {"ready"}]]
    /\ \A l \in Label : ~Duplicate(record, l)
    /\ lease = [l \in Label |-> "free"] /\ tap = [l \in Label |-> Nothing]
    /\ cache = [l \in Label |-> Nothing] /\ status = [p \in Status |-> Idle]

World == moves < MaxMoves /\ moves' = moves + 1
Become(p, s) == status' = [status EXCEPT ![p] = s]
\* The answer is all that is left of a status.
Done(s, rows) == [Idle EXCEPT !.at = "answer", !.clock = s.clock, !.facts = s.facts, !.rows = rows]
Move(p, to) == Become(p, [status[p] EXCEPT !.at = to])

Cached(clock) == [l \in Label |-> Normalized(cache[l], clock)]

\* What is answered without a request, and what is due.
FirstRow(s, entries, l) ==
    LET e == ForFacts(entries, s.facts, l)
        expired == Facts(s.facts, l) = "expired"
    IN  IF Facts(s.facts, l) = "ready" THEN IF UseCached(e, s.clock) THEN CachedRow(e, s.clock) ELSE NoRow
        ELSE IF expired /\ Known(Usable(e, s.clock)) THEN CachedRow(e, s.clock)
        ELSE Row(Facts(s.facts, l), Blank)
Snapshot == [l \in Label |-> [of |-> record[l].of, version |-> record[l].version,
                              state |-> record[l].state, lease |-> lease[l]]]
\* The records and the leases that are held, then the cache and the sessions'
\* readings.  nowMs is the start of the command, however long ago that was.
Collect(p) ==
    /\ status[p].at = "idle"
    /\ \E clock \in 1 .. time :
         LET s == [Idle EXCEPT !.clock = clock, !.facts = Snapshot, !.taps = tap,
                               !.entries = Folded(Cached(clock), Snapshot, tap, clock)]
             rows == [l \in Label |-> FirstRow(s, s.entries, l)]
             due == {l \in Label : rows[l] = NoRow}
         IN  /\ Slow \/ clock = time
             /\ Become(p, IF due = {} THEN Done(s, rows)
                          ELSE [s EXCEPT !.at = "lock", !.due = due, !.rows = rows])
    /\ UNCHANGED <<time, used, record, lease, tap, cache, cacheLock, moves>>

-----------------------------------------------------------------------------
(* acquireRedisCacheLock: a lock is left alone while it is young or its      *)
(* owner lives; otherwise it is looked at a second time and removed.         *)
InProgress(s) ==
    Done(s, [l \in Label |-> IF l \in s.due
                             THEN Row("busy", Usable(ForFacts(s.entries, s.facts, l), s.clock))
                             ELSE s.rows[l]])
Young(s) == s.clock <= cacheLock.at + LockStale
\* The file again, under the lock: somebody else may have asked meanwhile.
Recheck(s) ==
    LET entries == Folded(Cached(s.clock), s.facts, s.taps, s.clock)
        known == {l \in s.due : UseCached(ForFacts(entries, s.facts, l), s.clock)}
    IN  [s EXCEPT !.at = "fetch", !.entries = entries, !.due = @ \ known, !.taps = Nothing,
                  !.rows = [l \in Label |-> IF l \in known
                                            THEN CachedRow(ForFacts(entries, s.facts, l), s.clock)
                                            ELSE s.rows[l]]]
MutantAcquire(p) == \* Mutant of Acquire: a stale lock is taken over while its owner lives.
    LET s == status[p] IN
    /\ s.at = "lock"
    /\ \/ /\ cacheLock = Nothing /\ cacheLock' = [by |-> p, at |-> time]
          /\ Become(p, Recheck(s))
       \/ /\ cacheLock # Nothing /\ UNCHANGED cacheLock
          /\ Become(p, IF Young(s) THEN InProgress(s) ELSE [s EXCEPT !.at = "stale", !.stat = cacheLock])
    /\ UNCHANGED <<time, used, record, lease, tap, cache, moves>>
Acquire(p) ==
    LET s == status[p] IN
    /\ s.at = "lock"
    /\ \/ /\ cacheLock = Nothing /\ cacheLock' = [by |-> p, at |-> time]
          /\ Become(p, Recheck(s))
       \/ /\ cacheLock # Nothing /\ UNCHANGED cacheLock
          /\ Become(p, IF Young(s) \/ cacheLock.by # Nothing THEN InProgress(s)
                       ELSE [s EXCEPT !.at = "stale", !.stat = cacheLock])
    /\ UNCHANGED <<time, used, record, lease, tap, cache, moves>>

\* The second stat, and the unlink that is a call of its own.
Reclaim(p) ==
    LET s == status[p] IN
    /\ s.at = "stale"
    /\ IF cacheLock # s.stat THEN Become(p, InProgress(s)) ELSE Move(p, "unlink")
    /\ UNCHANGED <<time, used, record, lease, tap, cache, cacheLock, moves>>
Unlink(p) ==
    LET s == status[p] IN
    /\ s.at = "unlink" /\ cacheLock' = Nothing
    /\ Become(p, IF s.again \/ cacheLock = Nothing THEN InProgress(s) ELSE [s EXCEPT !.at = "lock", !.again = TRUE])
    /\ UNCHANGED <<time, used, record, lease, tap, cache, moves>>

\* The provider's answer for the accounts that are due, or a failure of any.
Truth(a) == [w \in Window |-> [level |-> Peak(a, w, Ends(w, time)), reset |-> Ends(w, time)]]
Live(s, l) == [of |-> s.facts[l].of, version |-> s.facts[l].version, state |-> Healthy(Truth(s.facts[l].of)),
               seen |-> s.clock, tried |-> s.clock, usage |-> Truth(s.facts[l].of)]
Failure(s, l) ==
    LET e == ForFacts(s.entries, s.facts, l)
        u == Usable(e, s.clock)
    IN  [of |-> s.facts[l].of, version |-> s.facts[l].version, state |-> "failed",
         seen |-> IF Known(u) THEN e.seen ELSE Nothing, tried |-> s.clock, usage |-> u]
Readable(s) == SUBSET s.due
\* writeCachedProviderUsage replaces the provider's entries, or fails;
\* releaseRedisCacheLock removes the lock file it has made, and no other.
WriteCache(e) == cache' \in {cache, e}
Release(p) == cacheLock' = IF cacheLock # Nothing /\ cacheLock.by = p THEN Nothing ELSE cacheLock
MutantFetch(p) == \* Mutant of Fetch: a failed request leaves an entry without a reading.
    LET s == status[p] IN
    /\ s.at = "fetch"
    /\ \E ok \in Readable(s) :
         LET e == [l \in Label |-> IF l \notin s.due THEN s.entries[l]
                                   ELSE IF l \in ok THEN Live(s, l)
                                   ELSE [Failure(s, l) EXCEPT !.seen = Nothing, !.usage = Blank]]
         IN  /\ WriteCache(e)
             /\ Become(p, Done(s, [l \in Label |-> IF l \in s.due THEN Row(e[l].state, e[l].usage)
                                                   ELSE s.rows[l]]))
    /\ Release(p)
    /\ UNCHANGED <<time, used, record, lease, tap, moves>>
Fetch(p) ==
    LET s == status[p] IN
    /\ s.at = "fetch"
    /\ \E ok \in Readable(s) :
         LET e == [l \in Label |-> IF l \notin s.due THEN s.entries[l]
                                   ELSE IF l \in ok THEN Live(s, l) ELSE Failure(s, l)]
         IN  /\ WriteCache(e)
             /\ Become(p, Done(s, [l \in Label |-> IF l \in s.due THEN Row(e[l].state, e[l].usage)
                                                   ELSE s.rows[l]]))
    /\ Release(p)
    /\ UNCHANGED <<time, used, record, lease, tap, moves>>
Answering(p) == status[p].at = "answer"
Reply(p) ==
    /\ Answering(p) /\ Become(p, Idle)
    /\ UNCHANGED <<time, used, record, lease, tap, cache, cacheLock, moves>>
Killed(p) ==
    /\ status[p].at \notin {"idle", "answer"} /\ Become(p, Idle)
    /\ World
    /\ cacheLock' = IF cacheLock # Nothing /\ cacheLock.by = p THEN [cacheLock EXCEPT !.by = Nothing] ELSE cacheLock
    /\ UNCHANGED <<time, used, record, lease, tap, cache>>
-----------------------------------------------------------------------------
(* The world: accounts are used here and elsewhere, sessions report, records *)
(* are written, time passes.                                                 *)
Use(a) ==
    /\ World
    /\ \E w \in Window, n \in 1 .. Limit :
         /\ n > Peak(a, w, Ends(w, time))
         /\ used' = used \cup {<<a, w, Ends(w, time), k>> : k \in 1 .. n}
    /\ UNCHANGED <<time, record, lease, tap, cache, cacheLock, status>>
StartSession(l) ==
    /\ World /\ lease[l] = "free" /\ record[l].state # "blocked"
    /\ lease' \in {[lease EXCEPT ![l] = "here"], [lease EXCEPT ![l] = "away"]}
    /\ UNCHANGED <<time, used, record, tap, cache, cacheLock, status>>
EndSession(l) ==
    /\ lease[l] # "free" /\ lease' = [lease EXCEPT ![l] = "free"]
    /\ UNCHANGED <<time, used, record, tap, cache, cacheLock, status, moves>>
\* The status-line tap of a session of this machine.
Tap(l) ==
    /\ lease[l] = "here"
    /\ tap' = [tap EXCEPT ![l] = [level |-> Peak(record[l].of, "session", Ends("session", time)),
                                  reset |-> Ends("session", time), at |-> time]]
    /\ UNCHANGED <<time, used, record, lease, cache, cacheLock, status, moves>>
\* A rotation, a policy, a block: a new version, and the login is as it is then.
WriteRecord(l) ==
    /\ World /\ record[l].version <= MaxWrite
    /\ \E s \in {"ready", "blocked"} :
         record' = [record EXCEPT ![l].version = @ + 1, ![l].state = s]
    /\ UNCHANGED <<time, used, lease, tap, cache, cacheLock, status>>
\* The label is given to another account, none of its sessions' readings being
\* left: a reading does not say whose it is.
Reassign(l, a) ==
    /\ World /\ record[l].version <= MaxWrite
    /\ lease[l] = "free" /\ tap[l] = Nothing /\ a # record[l].of
    /\ record' = [record EXCEPT ![l] = [of |-> a, version |-> @.version + 1, state |-> "ready"]]
    /\ UNCHANGED <<time, used, lease, tap, cache, cacheLock, status>>
Expire(l) ==
    /\ World /\ record[l].state = "ready" /\ lease[l] = "free"
    /\ record' = [record EXCEPT ![l].state = "expired"]
    /\ UNCHANGED <<time, used, lease, tap, cache, cacheLock, status>>
Looking == {"lock", "stale", "unlink"}
Pass ==
    /\ time < MaxTime /\ time' = time + 1
    /\ Slow \/ \A p \in Status : status[p].at \notin Looking
    /\ UNCHANGED <<used, record, lease, tap, cache, cacheLock, status, moves>>

StatusStep(p) ==
    \/ Collect(p) \/ Acquire(p) \/ Reclaim(p) \/ Unlink(p)
    \/ Fetch(p) \/ Killed(p)
WorldStep ==
    \/ \E l \in Label : StartSession(l) \/ EndSession(l) \/ Tap(l) \/ WriteRecord(l) \/ Expire(l)
    \/ \E l \in Label, a \in Owner : Reassign(l, a)
    \/ \E a \in Owner : Use(a)
    \/ Pass
\* An answer is made of what was read before: it is given at once.
UsageNext ==
    \/ \E p \in Status : Reply(p)
    \/ /\ \A p \in Status : ~Answering(p)
       /\ \/ WorldStep
          \/ \E p \in Status :
               /\ Gap \/ \A q \in Status \ {p} : status[q].at # "unlink"
               /\ StatusStep(p)
UsageSpec == UsageInit /\ [][UsageNext]_usageVars
-----------------------------------------------------------------------------
(* selectClaudeAccountForSession: not held by another machine, the login     *)
(* usable, no window known to be full; the most left for each session first. *)
MutantEligible(s, l) == \* Mutant of Eligible: the usage must have been read just now.
    /\ s.facts[l].lease = "free" \/ lease[l] = "here"
    /\ s.rows[l].state = "readable" /\ ~Exhausted(s.rows[l].usage)
Eligible(s, l) ==
    /\ s.facts[l].lease = "free" \/ lease[l] = "here"
    /\ \/ s.rows[l].state = "readable"
       \/ Facts(s.facts, l) \in {"ready", "expired"} /\ s.rows[l].state # "limited"
    /\ ~Exhausted(s.rows[l].usage)
Sessions(l) == IF lease[l] = "here" THEN 1 ELSE 0
Score(s, l) ==
    LET w == s.rows[l].usage["session"]
    IN  IF w = Nothing THEN 0 ELSE 1 + (Limit - w.level) * (2 - Sessions(l))
Chosen(s) ==
    {l \in Label : /\ Eligible(s, l)
                   /\ \A k \in Label : Eligible(s, k) => Score(s, k) <= Score(s, l)}

Flying(p) == status[p].at = "fetch"

(* Usage that is shown is a lower bound: whatever file, session, answer or   *)
(* older reading it comes from, the level of a window is one the account     *)
(* the label is bound to has reached, in a window that had not ended by the  *)
(* status's clock (claude-redis-view.js:41, "a reading stays a true lower    *)
(* bound until that window resets").                                         *)
LowerBound ==
    \A p \in Status, l \in Label, w \in Window :
      LET r == status[p].rows[l].usage[w] IN
      Answering(p) /\ r # Nothing /\ r.level > 0
        => /\ r.reset > status[p].clock
           /\ r.level <= Peak(status[p].facts[l].of, w, r.reset)

(* An automatic launch finds no account only when there is none: each is     *)
(* held by another machine, cannot log in, or has a window that is full.     *)
NotFound ==
    \A p \in Status, l \in Label :
      LET f == status[p].facts IN
      Answering(p) /\ Chosen(status[p]) = {} =>
        \/ f[l].lease # "free" /\ lease[l] # "here"
        \/ Facts(f, l) = "blocked"
        \/ \E w \in Window, r \in Resets : r > status[p].clock /\ Peak(f[l].of, w, r) = Limit

(* One process asks the provider at a time, and never for what was asked of  *)
(* it a moment ago (docs/bugs/CLAUDE_AUTO_SELECT_REJECTS_...,                *)
(* "The status collector intentionally single-flights provider refreshes"),  *)
(* unless a session has reported a window since then that has ended.         *)
SingleFlight ==
    /\ \A p, q \in Status : Flying(p) /\ Flying(q) => p = q
    /\ \A p \in Status, l \in Label :
         LET s == status[p] IN
         /\ Flying(p) /\ l \in s.due
         /\ UseCached(ForFacts(Cached(s.clock), s.facts, l), s.clock)
         => ExpiredWindow(s.entries[l].usage, s.clock)

(* The last reading of a login is kept until it is too old: no write of the  *)
(* cache, a failed request's or a slower process's, blanks it or puts an     *)
(* older one in its place.                                                   *)
ReadingKept ==
    [][\A l \in Label :
         LET old == cache[l] new == cache'[l] IN
         /\ old # Nothing /\ new # old /\ Known(old.usage) /\ time - old.seen <= KeepFor
         /\ new # Nothing => new.of = old.of /\ new.version = old.version
         => new # Nothing /\ Known(new.usage) /\ new.seen >= old.seen]_usageVars
=============================================================================
