------------------------- MODULE ClaudeCommandProofs -------------------------
(***************************************************************************)
(* Proofs about two commands on Claude accounts, each a module of its own. *)
(*                                                                         *)
(* `aim claude status` and the automatic choice (ClaudeUsage), for every   *)
(* set of processes, labels and accounts, every clock and every age:       *)
(*   UsageTypeCorrect       every variable keeps to its type;              *)
(*   ShownIsTrue            a level that is shown has been reached, in a   *)
(*                          window that is still open;                     *)
(*   RefusedForCause        an account is passed over for a true cause;    *)
(*   OneAsks                one process asks the provider at a time, for   *)
(*                          what nobody has asked a moment ago (~Gap);     *)
(*   ReadingsStay           a reading that is still good is not lost       *)
(*                          (~Slow and ~Gap).                              *)
(* The argument: every entry, session's reading, row and answer is true of *)
(* the account it is bound to, and use only grows; who asks holds the lock,*)
(* so the file is what was read under it, or a session's newer reading.    *)
(*                                                                         *)
(* A launch and its supervisor (ClaudeSupervisor), for any number of pause *)
(* and resume requests:                                                    *)
(*   SupervisorTypeCorrect  every variable stays within its type;          *)
(*   HeldStopped            a Claude that AIM holds does not run;          *)
(*   EndedContinued         a Claude that is being ended is not stopped;   *)
(*   NoneOutlives           Claude does not outlive its supervisor;        *)
(*   NoneLeft               a terminated batch leaves no process behind.   *)
(* That a launch ends at all is liveness, and left to TLC.                 *)
(***************************************************************************)
EXTENDS ClaudeSupervisor, ClaudeUsage, TLAPS, SequenceTheorems, FiniteSetTheorems

-----------------------------------------------------------------------------
(* What is known of the use of accounts.                                    *)

(* A level is one the account has reached in the window it is told for; U   *)
(* is what has been used.                                                   *)
Reached(U, o, w, r) == Cardinality({n \in 1 .. Limit : <<o, w, r, n>> \in U})
TrueUsage(U, o, u) ==
    /\ u \in Usage
    /\ \A w \in Window : u[w] # Nothing /\ u[w].level > 0
         => u[w].reset # Nothing /\ u[w].level <= Reached(U, o, w, u[w].reset)
TrueEntry(U, e) ==
    e # Nothing => /\ e \in Entry /\ TrueUsage(U, e.of, e.usage)
                   /\ Known(e.usage) => e.seen # Nothing
TrueTap(U, o, r) ==
    r # Nothing => r \in TapReading /\ r.level <= Reached(U, o, "session", r.reset)

(* What is shown is true, and of no window that has ended; only a window    *)
(* that is full makes an account limited.                                   *)
Ahead(clock, u) == \A w \in Window : u[w] # Nothing /\ u[w].level > 0 => u[w].reset > clock
TrueRow(U, o, clock, row) ==
    /\ TrueUsage(U, o, row.usage) /\ Ahead(clock, row.usage)
    /\ row.state = "limited" => Exhausted(row.usage)

Stored == [of : Owner, version : 1 .. MaxWrite + 1, state : {"ready", "expired", "blocked"},
           lease : {"free", "here", "away"}]
Fields == {"at", "clock", "facts", "taps", "entries", "due", "rows", "stat", "again"}

(* What a status has read, at time t. *)
View(U, t, s) ==
    /\ DOMAIN s = Fields /\ s.at \in Looking \cup {"idle", "fetch", "answer"}
    /\ s.at # "idle" =>
         /\ s.clock \in Times /\ s.clock <= t /\ s.facts \in [Label -> Stored]
         /\ \A l \in Label : TrueRow(U, s.facts[l].of, s.clock, s.rows[l])
    /\ s.at \in Looking \cup {"fetch"} =>
         /\ s.due \subseteq Label /\ \A l \in s.due : Facts(s.facts, l) = "ready"
         /\ s.entries \in [Label -> Entry \cup {Nothing}]
         /\ \A l \in Label : TrueEntry(U, s.entries[l])
    /\ s.at \in Looking =>
         /\ s.taps \in [Label -> TapReading \cup {Nothing}]
         /\ \A l \in Label : TrueTap(U, s.facts[l].of, s.taps[l])

(* What is known of the use of accounts is true. *)
UsageInv ==
    /\ UsageTypeOK /\ DOMAIN status = Status
    /\ \A l \in Label : TrueEntry(used, cache[l]) /\ TrueTap(used, record[l].of, tap[l])
    /\ \A p \in Status : View(used, time, status[p])

(* An entry as it was, or one that a session's reading has brought up to    *)
(* date: of the login of the record, and no older.                          *)
Follows(new, old, f, l, clock) ==
    \/ new[l] = old[l]
    \/ /\ new[l] # Nothing /\ ~Duplicate(f, l) /\ Known(new[l].usage) /\ new[l].state # "failed"
       /\ new[l].of = f[l].of /\ new[l].version = f[l].version
       /\ new[l].seen # Nothing /\ new[l].seen <= clock /\ new[l].tried <= clock
       /\ ForFacts(old, f, l) # Nothing =>
            /\ new[l].tried >= old[l].tried
            /\ old[l].seen # Nothing /\ Known(old[l].usage) => new[l].seen >= old[l].seen

(* Who asks has the lock, and what it found in the cache c under the lock   *)
(* is still there.                                                          *)
Found(c, clock) == [l \in Label |-> Normalized(c[l], clock)]
Flight(p, lock, c, s) ==
    /\ s.at \in {"stale", "unlink"} => s.stat # Nothing /\ s.stat.by = Nothing
    /\ s.at = "unlink" => lock = Nothing \/ lock.by = Nothing
    /\ s.at = "fetch" =>
         /\ lock # Nothing /\ lock.by = p
         /\ \A l \in Label : Follows(s.entries, Found(c, s.clock), s.facts, l, s.clock)
         /\ \A l \in s.due : ~UseCached(ForFacts(s.entries, s.facts, l), s.clock)

(* Nothing in the cache is of a later time than the clock of who asks.      *)
Past(e, clock) ==
    e # Nothing => e.tried <= clock /\ (e.seen # Nothing => e.seen <= clock)
Punctual(c, t, s) ==
    /\ s.at \in Looking => s.clock = t
    /\ s.at \in Looking \cup {"fetch"} => \A l \in Label : Past(s.entries[l], s.clock)
    /\ s.at = "fetch" => \A l \in Label : Past(c[l], s.clock)
ClockInv ==
    /\ \A l \in Label : Past(cache[l], time)
    /\ \A p \in Status : Punctual(cache, time, status[p])

SingleInv == UsageInv /\ \A p \in Status : Flight(p, cacheLock, cache, status[p])
KeptInv == SingleInv /\ ClockInv

-----------------------------------------------------------------------------
(* Windows, levels and readings.                                            *)

LEMMA Sizes ==
    /\ MaxTime \in Nat \ {0} /\ FreshFor \in Nat /\ KeepFor \in Nat /\ LockStale \in Nat
    /\ MaxWrite \in Nat /\ MaxMoves \in Nat
    /\ Slow \in BOOLEAN /\ Gap \in BOOLEAN /\ 1 \in Times /\ Times \subseteq Nat /\ Resets \subseteq Nat
    /\ Nothing \notin Status /\ Nothing \notin Resets /\ Nothing \notin Reading /\ Nothing \notin Times
    /\ Nothing \notin Entry /\ Nothing \notin TapReading /\ Nothing \notin LockFile
<1>1. MaxTime \in Nat \ {0}
  BY UsageAssumption
<1> QED  BY <1>1, UsageAssumption, NothingAssumption DEF Times, Resets

LEMMA OneTwo == IsFiniteSet(1 .. 2) /\ Cardinality(1 .. 2) = 2
<1>1. 1 .. 2 = {1, 2} /\ 1 # 2
  OBVIOUS
<1>2. IsFiniteSet({1}) /\ Cardinality({1}) = 1
  BY FS_Singleton
<1>3. IsFiniteSet({1} \cup {2}) /\ Cardinality({1} \cup {2}) = 2
  BY <1>2, FS_AddElement
<1>4. {1} \cup {2} = 1 .. 2
  BY <1>1
<1> QED  BY <1>3, <1>4

LEMMA ReachedBounds ==
    ASSUME NEW U, NEW o, NEW w, NEW r
    PROVE  Reached(U, o, w, r) \in 0 .. 2 /\ Reached(U, o, w, r) \in Nat
<1> DEFINE S == {n \in 1 .. 2 : <<o, w, r, n>> \in U}
<1>1. IsFiniteSet(1 .. 2) /\ Cardinality(1 .. 2) = 2
  BY OneTwo
<1>2. IsFiniteSet(S) /\ Cardinality(S) <= 2
  BY <1>1, FS_Subset
<1>3. Cardinality(S) \in Nat
  BY <1>2, FS_CardinalityType
<1> QED  BY <1>2, <1>3 DEF Reached, Limit

LEMMA ReachedGrows ==
    ASSUME NEW U, NEW V, U \subseteq V, NEW o, NEW w, NEW r
    PROVE  Reached(U, o, w, r) <= Reached(V, o, w, r)
<1> DEFINE S == {n \in 1 .. 2 : <<o, w, r, n>> \in U}
           T == {n \in 1 .. 2 : <<o, w, r, n>> \in V}
<1>1. IsFiniteSet(1 .. 2)
  BY OneTwo
<1>2. IsFiniteSet(T)
  BY <1>1, FS_Subset
<1>3. S \subseteq T
  OBVIOUS
<1>4. Cardinality(S) <= Cardinality(T)
  BY <1>2, <1>3, FS_Subset
<1> QED  BY <1>4 DEF Reached, Limit

LEMMA PeakReached == \A o, w, r : Peak(o, w, r) = Reached(used, o, w, r)
BY DEF Peak, Reached

LEMMA EndsLater ==
    ASSUME NEW w \in Window, NEW t \in Times
    PROVE  Ends(w, t) \in Resets /\ Ends(w, t) > t
<1>1. t \in Nat /\ t <= MaxTime /\ MaxTime \in Nat
  BY Sizes DEF Times
<1>2. CASE w = "session"
  <2>1. Ends(w, t) = ((t \div 2) + 1) * 2
    BY <1>2 DEF Ends, Length
  <2> QED  BY <1>1, <2>1 DEF Resets
<1>3. CASE w = "scoped"
  <2>1. Ends(w, t) = ((t \div 3) + 1) * 3
    BY <1>3 DEF Ends, Length
  <2> QED  BY <1>1, <2>1 DEF Resets
<1> QED  BY <1>2, <1>3 DEF Window

LEMMA ReadingParts ==
    ASSUME NEW u \in Usage, NEW w \in Window, u[w] # Nothing
    PROVE  /\ u[w] \in Reading /\ u[w].level \in 0 .. 2 /\ u[w].level \in Nat
           /\ u[w].reset \in Resets \cup {Nothing}
BY DEF Usage, Reading, Limit

LEMMA BlankTrue ==
    ASSUME NEW U, NEW o, NEW clock
    PROVE  /\ Blank \in Usage /\ TrueUsage(U, o, Blank) /\ Ahead(clock, Blank) /\ ~Exhausted(Blank)
           /\ \A w \in Window : Blank[w] = Nothing
BY DEF Blank, Usage, TrueUsage, Ahead, Exhausted

LEMMA EntryParts ==
    ASSUME NEW e \in Entry
    PROVE  /\ e.of \in Owner /\ e.version \in 1 .. MaxWrite + 1
           /\ e.state \in {"readable", "limited", "failed"}
           /\ e.seen \in Times \cup {Nothing} /\ e.tried \in Times /\ e.tried \in Nat /\ e.usage \in Usage
           /\ e.seen # Nothing => e.seen \in Nat
           /\ e # Nothing
BY Sizes DEF Entry

\* Whatever is true stays true as more is used.
LEMMA UsageGrows ==
    ASSUME NEW U, NEW V, U \subseteq V, NEW o, NEW u, TrueUsage(U, o, u)
    PROVE  TrueUsage(V, o, u)
<1> SUFFICES ASSUME NEW w \in Window, u[w] # Nothing, u[w].level > 0
             PROVE  u[w].reset # Nothing /\ u[w].level <= Reached(V, o, w, u[w].reset)
  BY DEF TrueUsage
<1>1. u[w].reset # Nothing /\ u[w].level <= Reached(U, o, w, u[w].reset) /\ u[w].level \in Nat
  BY ReadingParts DEF TrueUsage
<1> QED  BY <1>1, ReachedGrows, ReachedBounds

LEMMA EntryGrows ==
    ASSUME NEW U, NEW V, U \subseteq V, NEW e, TrueEntry(U, e)
    PROVE  TrueEntry(V, e)
BY UsageGrows DEF TrueEntry

LEMMA TapGrows ==
    ASSUME NEW U, NEW V, U \subseteq V, NEW o, NEW r, TrueTap(U, o, r)
    PROVE  TrueTap(V, o, r)
<1> SUFFICES ASSUME r # Nothing PROVE r.level <= Reached(V, o, "session", r.reset)
  BY DEF TrueTap
<1>1. r.level \in Nat /\ r.level <= Reached(U, o, "session", r.reset)
  BY Sizes DEF TrueTap, TapReading, Limit
<1> QED  BY <1>1, ReachedGrows, ReachedBounds

LEMMA RowGrows ==
    ASSUME NEW U, NEW V, U \subseteq V, NEW o, NEW clock, NEW row, TrueRow(U, o, clock, row)
    PROVE  TrueRow(V, o, clock, row)
BY UsageGrows DEF TrueRow

LEMMA ViewGrows ==
    ASSUME NEW U, NEW V, U \subseteq V, NEW t \in Nat, NEW u \in Nat, t <= u, NEW s, View(U, t, s)
    PROVE  View(V, u, s)
<1>1. s.at # "idle" => s.clock \in Times /\ s.clock <= t
  BY DEF View
<1>2. s.at # "idle" => s.clock <= u
  <2>1. s.at # "idle" => s.clock \in Nat
    BY <1>1, Sizes
  <2> QED  BY <1>1, <2>1
<1> QED  BY <1>2, RowGrows, EntryGrows, TapGrows DEF View

-----------------------------------------------------------------------------
(* What is made of a reading.                                               *)

LEMMA ProjectedFacts ==
    ASSUME NEW U, NEW o, NEW u, TrueUsage(U, o, u), NEW clock \in Times
    PROVE  /\ TrueUsage(U, o, Projected(u, clock)) /\ Ahead(clock, Projected(u, clock))
           /\ Known(u) => Known(Projected(u, clock))
<1> DEFINE v == Projected(u, clock)
<1>1. u \in Usage /\ clock \in Nat
  BY Sizes DEF TrueUsage
<1>2. ASSUME NEW w \in Window
      PROVE  /\ v[w] \in Reading \cup {Nothing} /\ (u[w] # Nothing => v[w] # Nothing)
             /\ v[w] # Nothing /\ v[w].level > 0 =>
                  /\ v[w] = u[w] /\ u[w] # Nothing
                  /\ v[w].reset # Nothing => v[w].reset > clock
  <2>1. v[w] = IF u[w] # Nothing /\ u[w].reset # Nothing /\ u[w].reset <= clock
               THEN [level |-> 0, reset |-> Nothing] ELSE u[w]
    BY DEF Projected
  <2>2. [level |-> 0, reset |-> Nothing] \in Reading /\ [level |-> 0, reset |-> Nothing] # Nothing
    BY Sizes DEF Reading, Limit
  <2>3. u[w] \in Reading \cup {Nothing}
    BY <1>1 DEF Usage
  <2>4. u[w] # Nothing /\ u[w].reset # Nothing => u[w].reset \in Nat
    BY <1>1, ReadingParts, Sizes
  <2> QED  BY <1>1, <2>1, <2>2, <2>3, <2>4
<1>3. v \in Usage
  BY <1>2 DEF Usage, Projected
<1>4. Known(u) => Known(v)
  <2>1. Known(u) => \E w \in Window : u[w] # Nothing
    BY <1>1 DEF Known, Blank, Usage
  <2> QED  BY <1>2, <2>1 DEF Known, Blank
<1> HIDE DEF v
<1>5. TrueUsage(U, o, v) /\ Ahead(clock, v)
  BY <1>2, <1>3 DEF TrueUsage, Ahead
<1> QED  BY <1>4, <1>5 DEF v

LEMMA UsableFacts ==
    ASSUME NEW U, NEW o, NEW e, TrueEntry(U, e), e # Nothing => e.of = o, NEW clock \in Times
    PROVE  TrueUsage(U, o, Usable(e, clock)) /\ Ahead(clock, Usable(e, clock))
<1>1. CASE e = Nothing \/ e.seen = Nothing \/ clock - e.seen > KeepFor
  BY <1>1, BlankTrue DEF Usable
<1>2. CASE ~(e = Nothing \/ e.seen = Nothing \/ clock - e.seen > KeepFor)
  BY <1>2, ProjectedFacts DEF Usable, TrueEntry
<1> QED  BY <1>1, <1>2

LEMMA HealthyFacts == ASSUME NEW u PROVE Healthy(u) = "limited" => Exhausted(u)
BY DEF Healthy

LEMMA CachedRowTrue ==
    ASSUME NEW U, NEW o, NEW e, TrueEntry(U, e), e # Nothing => e.of = o, NEW clock \in Times
    PROVE  TrueRow(U, o, clock, CachedRow(e, clock)) /\ CachedRow(e, clock).state # "none"
<1> DEFINE u == Usable(e, clock)
<1>1. TrueUsage(U, o, u) /\ Ahead(clock, u)
  BY UsableFacts
<1> HIDE DEF u
<1>2. CachedRow(e, clock) =
        [state |-> IF e.state = "failed" THEN "failed" ELSE IF Known(u) THEN Healthy(u) ELSE "unknown",
         usage |-> u]
  BY DEF CachedRow, Row, u
<1> QED  BY <1>1, <1>2, HealthyFacts DEF TrueRow, Healthy

\* A row without usage.
LEMMA BareRow ==
    ASSUME NEW U, NEW o, NEW clock, NEW state, state # "limited"
    PROVE  TrueRow(U, o, clock, Row(state, Blank))
BY BlankTrue DEF TrueRow, Row

LEMMA NormalizedTrue ==
    ASSUME NEW U, NEW e, TrueEntry(U, e), NEW clock
    PROVE  /\ TrueEntry(U, Normalized(e, clock))
           /\ Normalized(e, clock) \in Entry \cup {Nothing}
<1>1. CASE Normalized(e, clock) \in {Nothing, e}
  BY <1>1 DEF TrueEntry
<1>2. CASE e # Nothing /\ Normalized(e, clock) = [e EXCEPT !.seen = Nothing, !.usage = Blank]
  <2>1. e \in Entry
    BY <1>2 DEF TrueEntry
  <2> DEFINE n == [e EXCEPT !.seen = Nothing, !.usage = Blank]
  <2>2. n \in Entry /\ n.of = e.of /\ n.usage = Blank
    BY <2>1, BlankTrue DEF Entry
  <2> QED  BY <1>2, <2>2, BlankTrue DEF TrueEntry, Known
<1> QED  BY <1>1, <1>2 DEF Normalized

LEMMA ForFactsParts ==
    ASSUME NEW e, NEW f, NEW l, ForFacts(e, f, l) # Nothing
    PROVE  /\ ForFacts(e, f, l) = e[l] /\ ~Duplicate(f, l)
           /\ e[l].of = f[l].of /\ e[l].version = f[l].version
BY DEF ForFacts

LEMMA ForFactsTrue ==
    ASSUME NEW U, NEW e, NEW f, NEW l, TrueEntry(U, e[l])
    PROVE  TrueEntry(U, ForFacts(e, f, l)) /\ (ForFacts(e, f, l) # Nothing => ForFacts(e, f, l).of = f[l].of)
BY DEF ForFacts, TrueEntry

LEMMA FactsReady ==
    ASSUME NEW f, NEW l, Facts(f, l) = "ready"
    PROVE  ~Duplicate(f, l)
BY DEF Facts

-----------------------------------------------------------------------------
(* The fold of a session's reading into an entry.                           *)

FoldInputs(U, e, f, taps, clock) ==
    /\ clock \in Times /\ f \in [Label -> Stored]
    /\ e \in [Label -> Entry \cup {Nothing}] /\ \A l \in Label : TrueEntry(U, e[l])
    /\ taps \in [Label -> TapReading \cup {Nothing}] /\ \A l \in Label : TrueTap(U, f[l].of, taps[l])

\* Either nothing is folded, or the session's reading is in the entry.
LEMMA FoldedShape ==
    ASSUME NEW U, NEW e, NEW f, NEW taps, NEW clock, FoldInputs(U, e, f, taps, clock), NEW l \in Label,
           Folded(e, f, taps, clock)[l] # e[l]
    PROVE  LET n == Folded(e, f, taps, clock)[l]
               c == ForFacts(e, f, l)
               seen == IF taps[l].at < clock THEN taps[l].at ELSE clock
               scoped == IF c = Nothing THEN Nothing ELSE c.usage["scoped"]
               usage == [w \in Window |-> IF w = "session"
                                          THEN [level |-> taps[l].level, reset |-> taps[l].reset]
                                          ELSE scoped]
           IN  /\ taps[l] \in TapReading /\ ~Duplicate(f, l)
               /\ n = [of |-> f[l].of, version |-> f[l].version, state |-> Healthy(usage), seen |-> seen,
                       tried |-> IF c # Nothing /\ c.tried > seen THEN c.tried ELSE seen, usage |-> usage]
               /\ ~(c # Nothing /\ c.seen # Nothing /\ Known(c.usage) /\ c.seen > seen)
<1> DEFINE n == Folded(e, f, taps, clock)[l]
           c == ForFacts(e, f, l)
           seen == IF taps[l].at < clock THEN taps[l].at ELSE clock
           scoped == IF c = Nothing THEN Nothing ELSE c.usage["scoped"]
           usage == [w \in Window |-> IF w = "session"
                                      THEN [level |-> taps[l].level, reset |-> taps[l].reset]
                                      ELSE scoped]
           folding == [Blank EXCEPT !["session"] = [level |-> taps[l].level, reset |-> taps[l].reset],
                                    !["scoped"] = scoped]
<1>1. folding = usage
  BY DEF Blank, Window
<1>2. n = IF \/ taps[l] = Nothing \/ Facts(f, l) = "blocked"
             \/ c # Nothing /\ c.seen # Nothing /\ Known(c.usage) /\ c.seen > seen
          THEN e[l]
          ELSE [of |-> f[l].of, version |-> f[l].version, state |-> Healthy(folding), seen |-> seen,
                tried |-> IF c # Nothing /\ c.tried > seen THEN c.tried ELSE seen, usage |-> folding]
  BY DEF Folded
<1>3. ~(taps[l] = Nothing \/ Facts(f, l) = "blocked")
  BY <1>2
<1>4. taps[l] \in TapReading
  BY <1>3 DEF FoldInputs
<1>5. ~Duplicate(f, l)
  BY <1>3 DEF Facts
<1> HIDE DEF usage, folding
<1>6. /\ n = [of |-> f[l].of, version |-> f[l].version, state |-> Healthy(usage), seen |-> seen,
              tried |-> IF c # Nothing /\ c.tried > seen THEN c.tried ELSE seen, usage |-> usage]
      /\ ~(c # Nothing /\ c.seen # Nothing /\ Known(c.usage) /\ c.seen > seen)
  BY <1>1, <1>2
<1> QED  BY <1>4, <1>5, <1>6 DEF usage

LEMMA FoldedTrue ==
    ASSUME NEW U, NEW e, NEW f, NEW taps, NEW clock, FoldInputs(U, e, f, taps, clock), NEW l \in Label
    PROVE  /\ Folded(e, f, taps, clock)[l] \in Entry \cup {Nothing}
           /\ TrueEntry(U, Folded(e, f, taps, clock)[l])
           /\ Folded(e, f, taps, clock)[l] # e[l] => Folded(e, f, taps, clock)[l] \in Entry
<1> DEFINE n == Folded(e, f, taps, clock)[l]
<1>1. CASE n = e[l]
  BY <1>1 DEF FoldInputs
<1>2. CASE n # e[l]
  <2> DEFINE c == ForFacts(e, f, l)
             seen == IF taps[l].at < clock THEN taps[l].at ELSE clock
             scoped == IF c = Nothing THEN Nothing ELSE c.usage["scoped"]
             usage == [w \in Window |-> IF w = "session"
                                        THEN [level |-> taps[l].level, reset |-> taps[l].reset]
                                        ELSE scoped]
             tried == IF c # Nothing /\ c.tried > seen THEN c.tried ELSE seen
  <2>1. /\ taps[l] \in TapReading
        /\ n = [of |-> f[l].of, version |-> f[l].version, state |-> Healthy(usage), seen |-> seen,
                tried |-> tried, usage |-> usage]
    BY <1>2, FoldedShape
  <2>2. TrueEntry(U, c) /\ (c # Nothing => c.of = f[l].of)
    <3>1. TrueEntry(U, e[l])
      BY DEF FoldInputs
    <3> QED  BY <3>1, ForFactsTrue
  <2>3. c # Nothing => c \in Entry
    BY <2>2 DEF TrueEntry
  <2>4. seen \in Times
    BY <2>1 DEF FoldInputs, TapReading
  <2>5. tried \in Times
    BY <2>3, <2>4, EntryParts
  <2>6. f[l].of \in Owner /\ f[l].version \in 1 .. MaxWrite + 1
    BY DEF FoldInputs, Stored
  <2>7. LET r == [level |-> taps[l].level, reset |-> taps[l].reset] IN
        /\ r \in Reading /\ r # Nothing /\ r.reset # Nothing
        /\ r.level <= Reached(U, f[l].of, "session", r.reset)
    <3>1. taps[l].level <= Reached(U, f[l].of, "session", taps[l].reset)
      BY <2>1, Sizes DEF FoldInputs, TrueTap
    <3> QED  BY <2>1, <3>1, Sizes DEF TapReading, Reading
  <2>8. scoped \in Reading \cup {Nothing}
    BY <2>3, EntryParts DEF Usage, Window
  <2>9. scoped # Nothing /\ scoped.level > 0 =>
          scoped.reset # Nothing /\ scoped.level <= Reached(U, f[l].of, "scoped", scoped.reset)
    BY <2>2 DEF TrueEntry, TrueUsage, Window
  <2> HIDE DEF c, seen, scoped, tried
  <2>10. usage \in Usage
    BY <2>7, <2>8 DEF Usage
  <2>11. TrueUsage(U, f[l].of, usage)
    <3>1. SUFFICES ASSUME NEW w \in Window, usage[w] # Nothing, usage[w].level > 0
                   PROVE  usage[w].reset # Nothing
                            /\ usage[w].level <= Reached(U, f[l].of, w, usage[w].reset)
      BY <2>10 DEF TrueUsage
    <3>2. CASE w = "session"
      BY <2>7, <3>2
    <3>3. CASE w = "scoped"
      <4>1. usage[w] = scoped
        BY <3>3
      <4> QED  BY <2>9, <3>1, <3>3, <4>1
    <3> QED  BY <3>2, <3>3 DEF Window
  <2> HIDE DEF usage
  <2>12. n \in Entry /\ n.of = f[l].of /\ n.usage = usage /\ n.seen = seen
    BY <2>1, <2>4, <2>5, <2>6, <2>10 DEF Entry, Healthy
  <2> QED  BY <2>4, <2>11, <2>12, Sizes DEF TrueEntry
<1> QED  BY <1>1, <1>2

LEMMA FoldedFollows ==
    ASSUME NEW U, NEW e, NEW f, NEW taps, NEW clock, FoldInputs(U, e, f, taps, clock), NEW l \in Label,
           ForFacts(e, f, l) # Nothing => e[l].tried <= clock
    PROVE  Follows(Folded(e, f, taps, clock), e, f, l, clock)
<1> DEFINE n == Folded(e, f, taps, clock)[l]
<1>1. CASE n = e[l]
  BY <1>1 DEF Follows
<1>2. CASE n # e[l]
  <2> DEFINE c == ForFacts(e, f, l)
             seen == IF taps[l].at < clock THEN taps[l].at ELSE clock
             scoped == IF c = Nothing THEN Nothing ELSE c.usage["scoped"]
             usage == [w \in Window |-> IF w = "session"
                                        THEN [level |-> taps[l].level, reset |-> taps[l].reset]
                                        ELSE scoped]
             tried == IF c # Nothing /\ c.tried > seen THEN c.tried ELSE seen
  <2>1. /\ taps[l] \in TapReading /\ ~Duplicate(f, l)
        /\ n = [of |-> f[l].of, version |-> f[l].version, state |-> Healthy(usage), seen |-> seen,
                tried |-> tried, usage |-> usage]
        /\ ~(c # Nothing /\ c.seen # Nothing /\ Known(c.usage) /\ c.seen > seen)
    BY <1>2, FoldedShape
  <2>2. n \in Entry
    BY <1>2, FoldedTrue
  <2>3. seen \in Nat /\ seen <= clock /\ clock \in Nat /\ seen # Nothing
    <3>1. taps[l].at \in Nat /\ clock \in Nat /\ taps[l].at # Nothing /\ clock # Nothing
      BY <2>1, Sizes DEF TapReading, FoldInputs
    <3> QED  BY <3>1
  <2>4. c # Nothing => /\ c = e[l] /\ e[l] \in Entry /\ e[l].tried <= clock
    BY ForFactsParts DEF FoldInputs
  <2>5. Known(usage)
    <3>1. usage["session"] = [level |-> taps[l].level, reset |-> taps[l].reset]
      BY DEF Window
    <3>2. [level |-> taps[l].level, reset |-> taps[l].reset] \in Reading
      BY <2>1 DEF TapReading, Reading
    <3>3. usage["session"] # Nothing /\ Blank["session"] = Nothing
      BY <3>1, <3>2, Sizes DEF Blank, Window
    <3> QED  BY <3>3 DEF Known
  <2> HIDE DEF usage, seen
  <2>6. n.seen = seen /\ n.usage = usage /\ n.tried = tried /\ n.of = f[l].of /\ n.version = f[l].version
        /\ n.state # "failed"
    BY <2>1 DEF Healthy
  <2>7. tried <= clock /\ (c # Nothing => tried >= e[l].tried)
    BY <2>3, <2>4, EntryParts
  <2>8. c # Nothing /\ e[l].seen # Nothing /\ Known(e[l].usage) => seen >= e[l].seen
    BY <2>1, <2>3, <2>4, EntryParts
  <2> HIDE DEF tried
  <2>9. n # Nothing
    BY <2>2, Sizes
  <2> QED  BY <2>1, <2>3, <2>5, <2>6, <2>7, <2>8, <2>9 DEF Follows
<1> QED  BY <1>1, <1>2

-----------------------------------------------------------------------------
(* What a status makes of what it has read.                                 *)

Reads(U, clock, f, e) ==
    /\ clock \in Times /\ f \in [Label -> Stored]
    /\ e \in [Label -> Entry \cup {Nothing}] /\ \A l \in Label : TrueEntry(U, e[l])

LEMMA FactsKinds ==
    ASSUME NEW f \in [Label -> Stored], NEW l \in Label
    PROVE  Facts(f, l) \in {"ready", "expired", "blocked"}
BY DEF Facts, Stored

LEMMA FirstRowTrue ==
    ASSUME NEW U, NEW s, NEW e, Reads(U, s.clock, s.facts, e), NEW l \in Label
    PROVE  /\ TrueRow(U, s.facts[l].of, s.clock, FirstRow(s, e, l))
           /\ FirstRow(s, e, l) = NoRow => Facts(s.facts, l) = "ready"
<1> DEFINE c == ForFacts(e, s.facts, l)
<1>1. s.clock \in Times /\ s.facts \in [Label -> Stored] /\ TrueEntry(U, e[l])
  BY DEF Reads
<1>2. TrueEntry(U, c) /\ (c # Nothing => c.of = s.facts[l].of)
  BY <1>1, ForFactsTrue
<1>3. /\ TrueRow(U, s.facts[l].of, s.clock, CachedRow(c, s.clock))
      /\ CachedRow(c, s.clock).state # "none"
  BY <1>1, <1>2, CachedRowTrue
<1>4. NoRow.state = "none" /\ NoRow = Row("none", Blank)
  BY DEF NoRow, Row
<1>5. TrueRow(U, s.facts[l].of, s.clock, NoRow)
  BY <1>4, BareRow
<1>6. CASE Facts(s.facts, l) = "ready"
  <2>1. FirstRow(s, e, l) = IF UseCached(c, s.clock) THEN CachedRow(c, s.clock) ELSE NoRow
    BY <1>6 DEF FirstRow
  <2> QED  BY <1>3, <1>5, <1>6, <2>1
<1>7. CASE Facts(s.facts, l) # "ready"
  <2>1. FirstRow(s, e, l) \in {CachedRow(c, s.clock), Row(Facts(s.facts, l), Blank)}
    BY <1>7 DEF FirstRow
  <2>2. Facts(s.facts, l) \in {"expired", "blocked"}
    BY <1>1, <1>7, FactsKinds
  <2>3. /\ TrueRow(U, s.facts[l].of, s.clock, Row(Facts(s.facts, l), Blank))
        /\ Row(Facts(s.facts, l), Blank).state # "none"
    BY <2>2, BareRow DEF Row
  <2> QED  BY <1>3, <1>4, <2>1, <2>3
<1> QED  BY <1>6, <1>7

LEMMA IdleView == ASSUME NEW U, NEW t PROVE View(U, t, Idle) /\ Idle.at = "idle"
BY DEF View, Idle, Fields, Looking

LEMMA DoneView ==
    ASSUME NEW U, NEW t, NEW s, NEW rows, s.clock \in Times, s.clock <= t, s.facts \in [Label -> Stored],
           \A l \in Label : TrueRow(U, s.facts[l].of, s.clock, rows[l])
    PROVE  View(U, t, Done(s, rows)) /\ Done(s, rows).at = "answer"
<1> DEFINE d == Done(s, rows)
<1>1. DOMAIN d = Fields /\ d.at = "answer" /\ d.clock = s.clock /\ d.facts = s.facts /\ d.rows = rows
  BY DEF Done, Idle, Fields
<1> HIDE DEF d
<1>2. View(U, t, d)
  BY <1>1 DEF View, Looking
<1> QED  BY <1>1, <1>2 DEF d

LEMMA ViewReads ==
    ASSUME NEW U, NEW t, NEW s, View(U, t, s), s.at \in Looking \cup {"fetch"}
    PROVE  Reads(U, s.clock, s.facts, s.entries) /\ s.clock <= t /\ s.due \subseteq Label
           /\ (\A l \in Label : TrueRow(U, s.facts[l].of, s.clock, s.rows[l]))
           /\ \A l \in s.due : Facts(s.facts, l) = "ready"
BY DEF View, Looking, Reads

LEMMA InProgressView ==
    ASSUME NEW U, NEW t, NEW s, View(U, t, s), s.at \in Looking
    PROVE  View(U, t, InProgress(s)) /\ InProgress(s).at = "answer"
<1>1. /\ Reads(U, s.clock, s.facts, s.entries) /\ s.clock <= t
      /\ \A l \in Label : TrueRow(U, s.facts[l].of, s.clock, s.rows[l])
  BY ViewReads
<1> DEFINE busy(l) == Row("busy", Usable(ForFacts(s.entries, s.facts, l), s.clock))
           rows == [l \in Label |-> IF l \in s.due THEN busy(l) ELSE s.rows[l]]
<1>2. ASSUME NEW l \in Label PROVE TrueRow(U, s.facts[l].of, s.clock, busy(l))
  <2> DEFINE c == ForFacts(s.entries, s.facts, l)
  <2>1. s.clock \in Times /\ TrueEntry(U, s.entries[l])
    BY <1>1 DEF Reads
  <2>2. TrueEntry(U, c) /\ (c # Nothing => c.of = s.facts[l].of)
    BY <2>1, ForFactsTrue
  <2>3. TrueUsage(U, s.facts[l].of, Usable(c, s.clock)) /\ Ahead(s.clock, Usable(c, s.clock))
    BY <2>1, <2>2, UsableFacts
  <2> QED  BY <2>3 DEF TrueRow, Row
<1>3. ASSUME NEW l \in Label PROVE TrueRow(U, s.facts[l].of, s.clock, rows[l])
  BY <1>1, <1>2
<1>4. InProgress(s) = Done(s, rows)
  BY DEF InProgress
<1>5. s.clock \in Times /\ s.facts \in [Label -> Stored]
  BY <1>1 DEF Reads
<1> HIDE DEF rows
<1> QED  BY <1>1, <1>3, <1>4, <1>5, DoneView

\* The cache as it is read at a clock, with the readings of sessions.
LEMMA ReadCache ==
    ASSUME NEW U, NEW c, c \in [Label -> Entry \cup {Nothing}], \A l \in Label : TrueEntry(U, c[l]),
           NEW clock \in Times, NEW f \in [Label -> Stored],
           NEW taps \in [Label -> TapReading \cup {Nothing}], \A l \in Label : TrueTap(U, f[l].of, taps[l])
    PROVE  /\ FoldInputs(U, Found(c, clock), f, taps, clock)
           /\ Reads(U, clock, f, Folded(Found(c, clock), f, taps, clock))
<1>1. FoldInputs(U, Found(c, clock), f, taps, clock)
  BY NormalizedTrue DEF FoldInputs, Found
<1>2. \A l \in Label : /\ Folded(Found(c, clock), f, taps, clock)[l] \in Entry \cup {Nothing}
                       /\ TrueEntry(U, Folded(Found(c, clock), f, taps, clock)[l])
  BY <1>1, FoldedTrue
<1>3. Folded(Found(c, clock), f, taps, clock) \in [Label -> Entry \cup {Nothing}]
  BY <1>2 DEF Folded
<1> QED  BY <1>1, <1>2, <1>3 DEF Reads

LEMMA CachedFound == \A clock : Cached(clock) = Found(cache, clock)
BY DEF Cached, Found

\* The second look under the lock.
Second(s, c) == Folded(Found(c, s.clock), s.facts, s.taps, s.clock)
Answered(s, c) == {l \in s.due : UseCached(ForFacts(Second(s, c), s.facts, l), s.clock)}
LEMMA RecheckParts ==
    ASSUME NEW s, DOMAIN s = Fields
    PROVE  /\ DOMAIN Recheck(s) = Fields /\ Recheck(s).at = "fetch"
           /\ Recheck(s).clock = s.clock /\ Recheck(s).facts = s.facts
           /\ Recheck(s).entries = Second(s, cache) /\ Recheck(s).due = s.due \ Answered(s, cache)
           /\ Recheck(s).rows =
                [l \in Label |-> IF l \in Answered(s, cache)
                                 THEN CachedRow(ForFacts(Second(s, cache), s.facts, l), s.clock)
                                 ELSE s.rows[l]]
<1>1. Folded(Cached(s.clock), s.facts, s.taps, s.clock) = Second(s, cache)
  BY CachedFound DEF Second
<1> DEFINE e == Second(s, cache)
           known == {l \in s.due : UseCached(ForFacts(e, s.facts, l), s.clock)}
           rows == [l \in Label |-> IF l \in known THEN CachedRow(ForFacts(e, s.facts, l), s.clock)
                                    ELSE s.rows[l]]
<1>2. Recheck(s) = [s EXCEPT !.at = "fetch", !.entries = e, !.due = s.due \ known, !.taps = Nothing,
                             !.rows = rows]
  BY <1>1 DEF Recheck
<1>3. known = Answered(s, cache)
  BY DEF Answered
<1> HIDE DEF e, known, rows
<1>4. /\ DOMAIN Recheck(s) = Fields /\ Recheck(s).at = "fetch" /\ Recheck(s).clock = s.clock
      /\ Recheck(s).facts = s.facts /\ Recheck(s).entries = e /\ Recheck(s).due = s.due \ known
      /\ Recheck(s).rows = rows
  BY <1>2 DEF Fields
<1> QED  BY <1>3, <1>4 DEF e, rows

LEMMA RecheckView ==
    ASSUME NEW s, View(used, time, s), s.at \in Looking, cache \in [Label -> Entry \cup {Nothing}],
           \A l \in Label : TrueEntry(used, cache[l])
    PROVE  View(used, time, Recheck(s))
<1> DEFINE e == Second(s, cache)
           r == Recheck(s)
<1>1. /\ s.clock \in Times /\ s.clock <= time /\ s.facts \in [Label -> Stored] /\ s.due \subseteq Label
      /\ \A l \in Label : TrueRow(used, s.facts[l].of, s.clock, s.rows[l])
      /\ \A l \in s.due : Facts(s.facts, l) = "ready"
      /\ s.taps \in [Label -> TapReading \cup {Nothing}]
      /\ \A l \in Label : TrueTap(used, s.facts[l].of, s.taps[l])
  BY DEF View, Looking
<1>2. Reads(used, s.clock, s.facts, e)
  BY <1>1, ReadCache DEF Second
<1>3. ASSUME NEW l \in Label
      PROVE  TrueRow(used, s.facts[l].of, s.clock, CachedRow(ForFacts(e, s.facts, l), s.clock))
  <2>1. TrueEntry(used, e[l])
    BY <1>2 DEF Reads
  <2>2. LET c == ForFacts(e, s.facts, l) IN TrueEntry(used, c) /\ (c # Nothing => c.of = s.facts[l].of)
    BY <2>1, ForFactsTrue
  <2> QED  BY <1>1, <2>2, CachedRowTrue
<1>4. /\ DOMAIN r = Fields /\ r.at = "fetch" /\ r.clock = s.clock /\ r.facts = s.facts
      /\ r.entries = e /\ r.due = s.due \ Answered(s, cache)
      /\ r.rows = [l \in Label |-> IF l \in Answered(s, cache)
                                   THEN CachedRow(ForFacts(e, s.facts, l), s.clock) ELSE s.rows[l]]
  BY RecheckParts DEF View
<1> HIDE DEF e, r
<1>5. ASSUME NEW l \in Label PROVE TrueRow(used, s.facts[l].of, s.clock, r.rows[l])
  BY <1>1, <1>3, <1>4
<1>6. View(used, time, r)
  BY <1>1, <1>2, <1>4, <1>5 DEF View, Reads, Looking
<1> QED  BY <1>6 DEF r

-----------------------------------------------------------------------------
(* What is known stays true.                                                *)

LEMMA UsageTyped ==
    ASSUME UsageTypeOK
    PROVE  /\ time \in Times /\ time \in Nat /\ used \subseteq Owner \X Window \X Resets \X (1 .. Limit)
           /\ record \in [Label -> Login] /\ lease \in [Label -> {"free", "here", "away"}]
           /\ tap \in [Label -> TapReading \cup {Nothing}]
           /\ cache \in [Label -> Entry \cup {Nothing}] /\ moves \in 0 .. MaxMoves
           /\ cacheLock \in LockFile \cup {Nothing}
BY Sizes DEF UsageTypeOK

LEMMA Became ==
    ASSUME NEW p \in Status, DOMAIN status = Status, NEW s, Become(p, s)
    PROVE  /\ DOMAIN status' = Status /\ status'[p] = s
           /\ \A q \in Status \ {p} : status'[q] = status[q]
BY DEF Become

\* A step of a status.
LEMMA StatusKeeps ==
    ASSUME UsageInv, NEW p \in Status, NEW s, Become(p, s), View(used, time, s),
           UNCHANGED <<time, used, record, lease, tap>>,
           cache' \in [Label -> Entry \cup {Nothing}], \A l \in Label : TrueEntry(used, cache'[l]),
           cacheLock' \in LockFile \cup {Nothing}, moves' \in 0 .. MaxMoves
    PROVE  UsageInv'
<1>1. /\ DOMAIN status' = Status /\ status'[p] = s
      /\ \A q \in Status \ {p} : status'[q] = status[q]
  BY Became DEF UsageInv
<1>2. ASSUME NEW q \in Status PROVE View(used', time', status'[q])
  BY <1>1 DEF UsageInv
<1>3. UsageTypeOK'
  BY <1>2 DEF UsageInv, UsageTypeOK, View, Looking
<1> QED  BY <1>1, <1>2, <1>3 DEF UsageInv

LEMMA CollectKeeps ==
    ASSUME UsageInv, NEW p \in Status, Collect(p)
    PROVE  UsageInv'
<1>1. PICK clock \in 1 .. time :
         LET s == [Idle EXCEPT !.clock = clock, !.facts = Snapshot, !.taps = tap,
                               !.entries = Folded(Cached(clock), Snapshot, tap, clock)]
             rows == [l \in Label |-> FirstRow(s, s.entries, l)]
             due == {l \in Label : rows[l] = NoRow}
         IN  Become(p, IF due = {} THEN Done(s, rows)
                       ELSE [s EXCEPT !.at = "lock", !.due = due, !.rows = rows])
  BY DEF Collect
<1>2. /\ UsageTypeOK /\ time \in Times /\ cache \in [Label -> Entry \cup {Nothing}]
      /\ tap \in [Label -> TapReading \cup {Nothing}] /\ record \in [Label -> Login]
      /\ lease \in [Label -> {"free", "here", "away"}]
      /\ moves \in 0 .. MaxMoves /\ cacheLock \in LockFile \cup {Nothing}
      /\ \A l \in Label : TrueEntry(used, cache[l]) /\ TrueTap(used, record[l].of, tap[l])
  BY UsageTyped DEF UsageInv
<1>3. clock \in Times /\ clock <= time
  BY <1>2, Sizes DEF Times
<1>4. Snapshot \in [Label -> Stored] /\ \A l \in Label : Snapshot[l].of = record[l].of
  BY <1>2 DEF Snapshot, Stored, Login
<1> DEFINE e == Folded(Found(cache, clock), Snapshot, tap, clock)
           s == [Idle EXCEPT !.clock = clock, !.facts = Snapshot, !.taps = tap, !.entries = e]
           rows == [l \in Label |-> FirstRow(s, e, l)]
           due == {l \in Label : rows[l] = NoRow}
           d == [s EXCEPT !.at = "lock", !.due = due, !.rows = rows]
<1>5. Reads(used, clock, Snapshot, e)
  BY <1>2, <1>3, <1>4, ReadCache
<1> HIDE DEF e
<1>6. /\ DOMAIN s = Fields /\ s.clock = clock /\ s.facts = Snapshot /\ s.taps = tap /\ s.entries = e
  BY DEF Idle, Fields
<1>7. Become(p, IF due = {} THEN Done(s, rows) ELSE d)
  <2>1. e = Folded(Cached(clock), Snapshot, tap, clock)
    BY CachedFound DEF e
  <2>2. LET r == [l \in Label |-> FirstRow(s, s.entries, l)]
            v == {l \in Label : r[l] = NoRow}
        IN  Become(p, IF v = {} THEN Done(s, r) ELSE [s EXCEPT !.at = "lock", !.due = v, !.rows = r])
    BY <1>1, <2>1
  <2>3. s.entries = e
    BY <1>6
  <2> HIDE DEF s
  <2> QED  BY <2>2, <2>3
<1> HIDE DEF s
<1>8. ASSUME NEW l \in Label
      PROVE  TrueRow(used, s.facts[l].of, s.clock, rows[l]) /\ (l \in due => Facts(s.facts, l) = "ready")
  BY <1>5, <1>6, FirstRowTrue
<1> HIDE DEF rows
<1>9. View(used, time, Done(s, rows))
  BY <1>3, <1>4, <1>6, <1>8, DoneView
<1>10. View(used, time, d)
  <2>1. /\ DOMAIN d = Fields /\ d.at = "lock" /\ d.clock = clock /\ d.facts = Snapshot /\ d.taps = tap
        /\ d.entries = e /\ d.due = due /\ d.rows = rows
    BY <1>6 DEF Fields
  <2>2. due \subseteq Label
    OBVIOUS
  <2> HIDE DEF d, due
  <2> QED  BY <1>2, <1>3, <1>4, <1>5, <1>6, <1>8, <2>1, <2>2 DEF View, Reads, Looking
<1> HIDE DEF d, due
<1>11. UNCHANGED <<time, used, record, lease, tap, cache, cacheLock, moves>>
  BY DEF Collect
<1> QED  BY <1>2, <1>7, <1>9, <1>10, <1>11, StatusKeeps

LEMMA AcquireKeeps ==
    ASSUME UsageInv, NEW p \in Status, Acquire(p)
    PROVE  UsageInv'
<1> DEFINE s == status[p]
           look == [s EXCEPT !.at = "stale", !.stat = cacheLock]
<1>1. /\ s.at = "lock" /\ s.at \in Looking /\ View(used, time, s)
      /\ UNCHANGED <<time, used, record, lease, tap, cache, moves>>
  BY DEF Acquire, UsageInv, Looking
<1>2. /\ time \in Times /\ cache \in [Label -> Entry \cup {Nothing}] /\ moves \in 0 .. MaxMoves
      /\ cacheLock \in LockFile \cup {Nothing} /\ \A l \in Label : TrueEntry(used, cache[l])
  BY UsageTyped DEF UsageInv
<1>3. View(used, time, InProgress(s)) /\ View(used, time, Recheck(s))
  BY <1>1, <1>2, InProgressView, RecheckView
<1>4. View(used, time, look)
  <2>1. /\ DOMAIN look = Fields /\ look.at = "stale" /\ look.clock = s.clock /\ look.facts = s.facts
        /\ look.taps = s.taps /\ look.entries = s.entries /\ look.due = s.due /\ look.rows = s.rows
    BY <1>1 DEF View, Fields
  <2> HIDE DEF look
  <2> QED  BY <1>1, <2>1 DEF View, Looking
<1>5. \E d \in {InProgress(s), Recheck(s), look} : Become(p, d)
  BY DEF Acquire
<1>6. cacheLock' \in LockFile \cup {Nothing}
  <2>1. [by |-> p, at |-> time] \in LockFile
    BY <1>2 DEF LockFile
  <2> QED  BY <1>2, <2>1 DEF Acquire
<1> HIDE DEF look, s
<1>7. PICK d \in {InProgress(s), Recheck(s), look} : Become(p, d)
  BY <1>5
<1>8. View(used, time, d)
  BY <1>3, <1>4, <1>7
<1> QED  BY <1>1, <1>2, <1>6, <1>7, <1>8, StatusKeeps

LEMMA TakeOverKeeps ==
    ASSUME UsageInv, NEW p \in Status, Reclaim(p) \/ Unlink(p)
    PROVE  UsageInv'
<1> DEFINE s == status[p]
           go == [s EXCEPT !.at = "unlink"]
           back == [s EXCEPT !.at = "lock", !.again = TRUE]
<1>1. /\ s.at \in {"stale", "unlink"} /\ s.at \in Looking /\ View(used, time, s)
      /\ UNCHANGED <<time, used, record, lease, tap, cache, moves>>
  BY DEF Reclaim, Unlink, UsageInv, Looking
<1>2. /\ cache \in [Label -> Entry \cup {Nothing}] /\ moves \in 0 .. MaxMoves
      /\ cacheLock \in LockFile \cup {Nothing} /\ \A l \in Label : TrueEntry(used, cache[l])
  BY UsageTyped DEF UsageInv
<1>3. View(used, time, InProgress(s))
  BY <1>1, InProgressView
<1>4. View(used, time, go)
  <2>1. /\ DOMAIN go = Fields /\ go.at = "unlink" /\ go.clock = s.clock /\ go.facts = s.facts
        /\ go.taps = s.taps /\ go.entries = s.entries /\ go.due = s.due /\ go.rows = s.rows
    BY <1>1 DEF View, Fields
  <2> HIDE DEF go
  <2> QED  BY <1>1, <2>1 DEF View, Looking
<1>5. View(used, time, back)
  <2>1. /\ DOMAIN back = Fields /\ back.at = "lock" /\ back.clock = s.clock /\ back.facts = s.facts
        /\ back.taps = s.taps /\ back.entries = s.entries /\ back.due = s.due /\ back.rows = s.rows
    BY <1>1 DEF View, Fields
  <2> HIDE DEF back
  <2> QED  BY <1>1, <2>1 DEF View, Looking
<1>6. \E d \in {InProgress(s), go, back} : Become(p, d)
  BY DEF Reclaim, Unlink, Move
<1>7. cacheLock' \in LockFile \cup {Nothing}
  BY <1>2 DEF Reclaim, Unlink
<1> HIDE DEF go, back, s
<1>8. PICK d \in {InProgress(s), go, back} : Become(p, d)
  BY <1>6
<1>9. View(used, time, d)
  BY <1>3, <1>4, <1>5, <1>8
<1> QED  BY <1>1, <1>2, <1>7, <1>8, <1>9, StatusKeeps

LEMMA TruthTrue ==
    ASSUME NEW o, NEW clock \in Times, clock <= time, time \in Times
    PROVE  TrueUsage(used, o, Truth(o)) /\ Ahead(clock, Truth(o)) /\ Known(Truth(o))
<1>1. ASSUME NEW w \in Window
      PROVE  /\ Truth(o)[w] \in Reading /\ Truth(o)[w] # Nothing
             /\ Truth(o)[w].reset # Nothing /\ Truth(o)[w].reset > clock
             /\ Truth(o)[w].level <= Reached(used, o, w, Truth(o)[w].reset)
  <2> DEFINE r == Ends(w, time)
             k == Reached(used, o, w, r)
  <2>1. Truth(o)[w] = [level |-> k, reset |-> r]
    BY PeakReached DEF Truth
  <2>2. r \in Resets /\ r > time /\ k \in 0 .. 2 /\ k \in Nat
    BY EndsLater, ReachedBounds
  <2>3. r \in Nat /\ clock \in Nat /\ time \in Nat /\ r # Nothing
    BY <2>2, Sizes
  <2> HIDE DEF r, k
  <2>4. [level |-> k, reset |-> r] \in Reading
    BY <2>2 DEF Reading, Limit
  <2>5. k = Reached(used, o, w, r)
    BY DEF k
  <2> QED  BY <2>1, <2>2, <2>3, <2>4, <2>5, Sizes
<1>2. Truth(o) \in Usage
  BY <1>1 DEF Usage, Truth
<1>3. Known(Truth(o))
  <2>1. Truth(o)["session"] # Blank["session"]
    BY <1>1 DEF Window, Blank
  <2> QED  BY <2>1 DEF Known
<1> QED  BY <1>1, <1>2, <1>3 DEF TrueUsage, Ahead

\* What a request gives for one account: an answer, or a failure.
LEMMA AnswerTrue ==
    ASSUME NEW s, Reads(used, s.clock, s.facts, s.entries), s.clock <= time, time \in Times,
           NEW l \in Label, NEW n \in {Live(s, l), Failure(s, l)}
    PROVE  n \in Entry /\ TrueEntry(used, n) /\ TrueRow(used, s.facts[l].of, s.clock, Row(n.state, n.usage))
<1>1. /\ s.clock \in Times /\ s.clock # Nothing /\ s.facts[l].of \in Owner
      /\ s.facts[l].version \in 1 .. MaxWrite + 1 /\ TrueEntry(used, s.entries[l])
  BY Sizes DEF Reads, Stored
<1>2. CASE n = Live(s, l)
  <2> DEFINE u == Truth(s.facts[l].of)
  <2>1. TrueUsage(used, s.facts[l].of, u) /\ Ahead(s.clock, u)
    BY <1>1, TruthTrue
  <2> HIDE DEF u
  <2>2. n = [of |-> s.facts[l].of, version |-> s.facts[l].version, state |-> Healthy(u),
             seen |-> s.clock, tried |-> s.clock, usage |-> u]
    BY <1>2 DEF Live, u
  <2>3. n \in Entry /\ n.of = s.facts[l].of /\ n.usage = u /\ n.seen # Nothing /\ n.state = Healthy(u)
    BY <1>1, <2>1, <2>2 DEF Entry, TrueUsage, Healthy
  <2> QED  BY <2>1, <2>3, HealthyFacts DEF TrueEntry, TrueRow, Row
<1>3. CASE n = Failure(s, l)
  <2> DEFINE c == ForFacts(s.entries, s.facts, l)
             u == Usable(c, s.clock)
             seen == IF Known(u) THEN c.seen ELSE Nothing
  <2>1. TrueEntry(used, c) /\ (c # Nothing => c.of = s.facts[l].of)
    <3>1. TrueEntry(used, s.entries[l])
      BY <1>1
    <3> QED  BY ONLY <3>1, ForFactsTrue
  <2>2. TrueUsage(used, s.facts[l].of, u) /\ Ahead(s.clock, u)
    BY <1>1, <2>1, UsableFacts
  <2>3. Known(u) => c # Nothing /\ c.seen # Nothing /\ c.seen \in Times
    <3>1. Known(u) => ~(c = Nothing \/ c.seen = Nothing)
      BY DEF Usable, Known
    <3> QED  BY <2>1, <3>1, EntryParts DEF TrueEntry
  <2>4. seen \in Times \cup {Nothing} /\ (Known(u) => seen # Nothing)
    BY <2>3
  <2> HIDE DEF u, c
  <2>5. n = [of |-> s.facts[l].of, version |-> s.facts[l].version, state |-> "failed",
             seen |-> seen, tried |-> s.clock, usage |-> u]
    BY <1>3 DEF Failure, u, c
  <2> HIDE DEF seen
  <2>6. n \in Entry /\ n.of = s.facts[l].of /\ n.usage = u /\ n.seen = seen /\ n.state = "failed"
    BY <1>1, <2>2, <2>4, <2>5 DEF Entry, TrueUsage
  <2> QED  BY <2>2, <2>4, <2>6 DEF TrueEntry, TrueRow, Row
<1> QED  BY <1>2, <1>3

\* The cache a request leads to.
After(s, ok) ==
    [l \in Label |-> IF l \notin s.due THEN s.entries[l] ELSE IF l \in ok THEN Live(s, l) ELSE Failure(s, l)]

LEMMA FetchParts ==
    ASSUME NEW p \in Status, Fetch(p)
    PROVE  \E ok \in SUBSET status[p].due :
             /\ cache' \in {cache, After(status[p], ok)}
             /\ Become(p, Done(status[p], [l \in Label |->
                  IF l \in status[p].due
                  THEN Row(After(status[p], ok)[l].state, After(status[p], ok)[l].usage)
                  ELSE status[p].rows[l]]))
BY DEF Fetch, Readable, WriteCache, After

LEMMA FetchKeeps ==
    ASSUME UsageInv, NEW p \in Status, Fetch(p)
    PROVE  UsageInv'
<1> DEFINE s == status[p]
<1>1. /\ s.at = "fetch" /\ View(used, time, s)
      /\ UNCHANGED <<time, used, record, lease, tap, moves>>
      /\ cacheLock' \in {cacheLock, Nothing}
  BY DEF Fetch, UsageInv, Release
<1>2. /\ time \in Times /\ cache \in [Label -> Entry \cup {Nothing}] /\ moves \in 0 .. MaxMoves
      /\ cacheLock \in LockFile \cup {Nothing} /\ \A l \in Label : TrueEntry(used, cache[l])
  BY UsageTyped DEF UsageInv
<1>3. /\ Reads(used, s.clock, s.facts, s.entries) /\ s.clock <= time /\ s.due \subseteq Label
      /\ \A l \in Label : TrueRow(used, s.facts[l].of, s.clock, s.rows[l])
  BY <1>1, ViewReads
<1>4. PICK ok \in SUBSET s.due :
        /\ cache' \in {cache, After(s, ok)}
        /\ Become(p, Done(s, [l \in Label |->
             IF l \in s.due THEN Row(After(s, ok)[l].state, After(s, ok)[l].usage) ELSE s.rows[l]]))
  BY FetchParts
<1> DEFINE e == After(s, ok)
           rows == [l \in Label |-> IF l \in s.due THEN Row(e[l].state, e[l].usage) ELSE s.rows[l]]
<1> HIDE DEF s
<1>5. ASSUME NEW l \in Label
      PROVE  e[l] \in Entry \cup {Nothing} /\ TrueEntry(used, e[l])
               /\ TrueRow(used, s.facts[l].of, s.clock, rows[l])
  <2>1. CASE l \notin s.due
    <3>1. e[l] = s.entries[l] /\ rows[l] = s.rows[l]
      BY <2>1 DEF After
    <3> QED  BY <1>3, <3>1 DEF Reads
  <2>2. CASE l \in s.due
    <3>1. e[l] \in {Live(s, l), Failure(s, l)}
      BY <2>2 DEF After
    <3>2. /\ e[l] \in Entry /\ TrueEntry(used, e[l])
          /\ TrueRow(used, s.facts[l].of, s.clock, Row(e[l].state, e[l].usage))
      BY <1>2, <1>3, <3>1, AnswerTrue
    <3> QED  BY <2>2, <3>2
  <2> QED  BY <2>1, <2>2
<1>6. e \in [Label -> Entry \cup {Nothing}]
  BY <1>5 DEF After
<1>7. View(used, time, Done(s, rows))
  BY <1>3, <1>5, DoneView DEF Reads
<1> HIDE DEF e, rows
<1>8. cache' \in [Label -> Entry \cup {Nothing}] /\ \A l \in Label : TrueEntry(used, cache'[l])
  BY <1>2, <1>4, <1>5, <1>6 DEF e
<1>9. Become(p, Done(s, rows))
  BY <1>4 DEF e, rows
<1> QED  BY <1>1, <1>2, <1>7, <1>8, <1>9, StatusKeeps DEF s

LEMMA EndKeeps ==
    ASSUME UsageInv, NEW p \in Status, Reply(p) \/ Killed(p)
    PROVE  UsageInv'
<1>1. /\ Become(p, Idle) /\ UNCHANGED <<time, used, record, lease, tap, cache>>
      /\ moves' \in {moves, moves + 1} /\ (moves' = moves + 1 => moves < MaxMoves \/ moves' = moves)
  BY DEF Reply, Killed, World
<1>2. /\ cache \in [Label -> Entry \cup {Nothing}] /\ moves \in 0 .. MaxMoves
      /\ cacheLock \in LockFile \cup {Nothing} /\ \A l \in Label : TrueEntry(used, cache[l])
  BY UsageTyped DEF UsageInv
<1>3. moves' \in 0 .. MaxMoves
  BY <1>1, <1>2, Sizes
<1>4. cacheLock' \in LockFile \cup {Nothing}
  <2>1. CASE UNCHANGED cacheLock
    BY <1>2, <2>1
  <2>2. CASE cacheLock # Nothing /\ cacheLock' = [cacheLock EXCEPT !.by = Nothing]
    BY <1>2, <2>2 DEF LockFile
  <2> QED  BY <2>1, <2>2 DEF Reply, Killed
<1>5. View(used, time, Idle)
  BY IdleView
<1> QED  BY <1>1, <1>2, <1>3, <1>4, <1>5, StatusKeeps

\* A step of the world.
LEMMA WorldKeeps ==
    ASSUME UsageInv, UNCHANGED <<cache, cacheLock, status>>, used \subseteq used',
           used' \subseteq Owner \X Window \X Resets \X (1 .. Limit),
           time' \in Times, time <= time', record' \in [Label -> Login],
           lease' \in [Label -> {"free", "here", "away"}],
           tap' \in [Label -> TapReading \cup {Nothing}],
           \A l \in Label : TrueTap(used', record'[l].of, tap'[l]),
           moves' \in 0 .. MaxMoves
    PROVE  UsageInv'
<1>1. time \in Nat /\ time' \in Nat /\ UsageTypeOK
  BY UsageTyped, Sizes DEF UsageInv
<1>2. ASSUME NEW p \in Status PROVE View(used', time', status'[p])
  <2>1. View(used, time, status[p])
    BY DEF UsageInv
  <2> QED  BY <1>1, <2>1, ViewGrows
<1>3. ASSUME NEW l \in Label PROVE TrueEntry(used', cache'[l])
  <2>1. TrueEntry(used, cache[l])
    BY DEF UsageInv
  <2> QED  BY <2>1, EntryGrows
<1>4. UsageTypeOK'
  BY <1>1 DEF UsageTypeOK
<1> QED  BY <1>2, <1>3, <1>4 DEF UsageInv

LEMMA UseKeeps ==
    ASSUME UsageInv, NEW a \in Owner, Use(a)
    PROVE  UsageInv'
<1>1. PICK w \in Window, n \in 1 .. Limit : used' = used \cup {<<a, w, Ends(w, time), k>> : k \in 1 .. n}
  BY DEF Use
<1>2. UNCHANGED <<time, record, lease, tap, cache, cacheLock, status>> /\ moves < MaxMoves /\ moves' = moves + 1
  BY DEF Use, World
<1>3. /\ time \in Times /\ used \subseteq Owner \X Window \X Resets \X (1 .. Limit)
      /\ record \in [Label -> Login] /\ lease \in [Label -> {"free", "here", "away"}]
      /\ tap \in [Label -> TapReading \cup {Nothing}] /\ moves \in 0 .. MaxMoves /\ time \in Nat
  BY UsageTyped DEF UsageInv
<1>4. moves' \in 0 .. MaxMoves
  BY <1>2, <1>3, Sizes
<1>5. used' \subseteq Owner \X Window \X Resets \X (1 .. Limit)
  <2>1. Ends(w, time) \in Resets
    BY <1>3, EndsLater
  <2>2. \A k \in 1 .. n : k \in 1 .. Limit
    BY DEF Limit
  <2> QED  BY <1>1, <1>3, <2>1, <2>2
<1>6. used \subseteq used'
  BY <1>1
<1>7. ASSUME NEW l \in Label PROVE TrueTap(used', record'[l].of, tap'[l])
  <2>1. TrueTap(used, record[l].of, tap[l])
    BY DEF UsageInv
  <2> QED  BY <1>2, <1>6, <2>1, TapGrows
<1> QED  BY <1>2, <1>3, <1>4, <1>5, <1>6, <1>7, WorldKeeps

LEMMA TapKeeps ==
    ASSUME UsageInv, NEW l \in Label, Tap(l)
    PROVE  UsageInv'
<1> DEFINE k == Reached(used, record[l].of, "session", Ends("session", time))
           r == [level |-> k, reset |-> Ends("session", time), at |-> time]
<1>1. /\ tap' = [tap EXCEPT ![l] = r]
      /\ UNCHANGED <<time, used, record, lease, cache, cacheLock, status, moves>>
  BY PeakReached DEF Tap
<1>2. /\ time \in Times /\ used \subseteq Owner \X Window \X Resets \X (1 .. Limit)
      /\ record \in [Label -> Login] /\ lease \in [Label -> {"free", "here", "away"}]
      /\ tap \in [Label -> TapReading \cup {Nothing}] /\ moves \in 0 .. MaxMoves /\ time \in Nat
  BY UsageTyped DEF UsageInv
<1>3. r \in TapReading /\ TrueTap(used, record[l].of, r)
  <2>1. Ends("session", time) \in Resets
    BY <1>2, EndsLater DEF Window
  <2>2. k \in 0 .. 2 /\ k \in Nat
    BY ReachedBounds
  <2>3. r \in TapReading
    BY <1>2, <2>1, <2>2 DEF TapReading, Limit
  <2>4. r.level = k /\ r.reset = Ends("session", time) /\ k <= k
    BY <2>2
  <2> QED  BY <2>3, <2>4 DEF TrueTap
<1> HIDE DEF r, k
<1>4. tap' \in [Label -> TapReading \cup {Nothing}]
  BY <1>1, <1>2, <1>3
<1>5. ASSUME NEW m \in Label PROVE TrueTap(used', record'[m].of, tap'[m])
  <2>1. TrueTap(used, record[m].of, tap[m])
    BY DEF UsageInv
  <2>2. tap'[m] = IF m = l THEN r ELSE tap[m]
    BY <1>1, <1>2
  <2> QED  BY <1>1, <1>3, <2>1, <2>2
<1> QED  BY <1>1, <1>2, <1>4, <1>5, WorldKeeps

LEMMA RecordKeeps ==
    ASSUME UsageInv, NEW l \in Label,
           \/ WriteRecord(l) \/ Expire(l) \/ \E a \in Owner : Reassign(l, a)
    PROVE  UsageInv'
<1>1. /\ UNCHANGED <<time, used, lease, tap, cache, cacheLock, status>>
      /\ moves < MaxMoves /\ moves' = moves + 1
  BY DEF WriteRecord, Expire, Reassign, World
<1>2. /\ time \in Times /\ used \subseteq Owner \X Window \X Resets \X (1 .. Limit)
      /\ record \in [Label -> Login] /\ lease \in [Label -> {"free", "here", "away"}]
      /\ tap \in [Label -> TapReading \cup {Nothing}] /\ moves \in 0 .. MaxMoves /\ time \in Nat
  BY UsageTyped DEF UsageInv
<1>3. moves' \in 0 .. MaxMoves
  BY <1>1, <1>2, Sizes
<1>4. record[l] \in Login /\ record[l].version \in 1 .. MaxWrite + 1
  BY <1>2 DEF Login
<1>5. /\ record' \in [Label -> Login]
      /\ \A m \in Label : record'[m].of = record[m].of \/ tap[m] = Nothing
  <2>1. CASE WriteRecord(l)
    <3>1. PICK s \in {"ready", "blocked"} :
            record' = [record EXCEPT ![l] = [of |-> record[l].of, version |-> record[l].version + 1,
                                             state |-> s]]
      <4>1. PICK s \in {"ready", "blocked"} :
              record' = [record EXCEPT ![l].version = @ + 1, ![l].state = s]
        BY <2>1 DEF WriteRecord
      <4>2. /\ DOMAIN record'[l] = {"of", "version", "state"} /\ record'[l].of = record[l].of
            /\ record'[l].version = record[l].version + 1 /\ record'[l].state = s
        BY <1>2, <1>4, <4>1 DEF Login
      <4>3. record'[l] = [of |-> record[l].of, version |-> record[l].version + 1, state |-> s]
        <5> DEFINE r == [record[l] EXCEPT !.version = record[l].version + 1]
        <5>1. record[l] = [of |-> record[l].of, version |-> record[l].version, state |-> record[l].state]
          BY <1>4 DEF Login
        <5>2. record'[l] = [record[l] EXCEPT !.version = record[l].version + 1, !.state = s]
          BY <1>2, <4>1
        <5> QED  BY <5>1, <5>2
      <4>4. record' \in [Label -> {record'[m] : m \in Label}] /\ \A m \in Label \ {l} : record'[m] = record[m]
        BY <1>2, <4>1
      <4> QED  BY <1>2, <4>3, <4>4
    <3>2. record[l].version <= MaxWrite
      BY <2>1 DEF WriteRecord
    <3>3. record[l].version + 1 \in 1 .. MaxWrite + 1
      BY <1>4, <3>2, Sizes
    <3> QED  BY <1>2, <1>4, <3>1, <3>3 DEF Login
  <2>2. CASE Expire(l)
    BY <1>2, <1>4, <2>2 DEF Expire, Login
  <2>3. CASE \E a \in Owner : Reassign(l, a)
    <3>1. PICK a \in Owner :
            /\ record' = [record EXCEPT ![l] = [of |-> a, version |-> record[l].version + 1, state |-> "ready"]]
            /\ tap[l] = Nothing /\ record[l].version <= MaxWrite
      BY <1>2, <2>3 DEF Reassign
    <3>2. record[l].version + 1 \in 1 .. MaxWrite + 1
      BY <1>4, <3>1, Sizes
    <3> QED  BY <1>2, <1>4, <3>1, <3>2 DEF Login
  <2> QED  BY <2>1, <2>2, <2>3
<1>6. ASSUME NEW m \in Label PROVE TrueTap(used', record'[m].of, tap'[m])
  <2>1. TrueTap(used, record[m].of, tap[m])
    BY DEF UsageInv
  <2> QED  BY <1>1, <1>5, <2>1 DEF TrueTap
<1> QED  BY <1>1, <1>2, <1>3, <1>5, <1>6, WorldKeeps

LEMMA LeaseKeeps ==
    ASSUME UsageInv, \/ Pass \/ \E l \in Label : StartSession(l) \/ EndSession(l)
    PROVE  UsageInv'
<1>1. /\ UNCHANGED <<used, record, tap, cache, cacheLock, status>>
      /\ time' \in {time, time + 1} /\ (time' = time \/ time < MaxTime)
      /\ moves' \in {moves, moves + 1} /\ (moves' = moves \/ moves < MaxMoves)
  BY DEF Pass, StartSession, EndSession, World
<1>2. /\ time \in Times /\ used \subseteq Owner \X Window \X Resets \X (1 .. Limit)
      /\ record \in [Label -> Login] /\ lease \in [Label -> {"free", "here", "away"}]
      /\ tap \in [Label -> TapReading \cup {Nothing}] /\ moves \in 0 .. MaxMoves /\ time \in Nat
      /\ \A l \in Label : TrueTap(used, record[l].of, tap[l])
  BY UsageTyped DEF UsageInv
<1>3. moves' \in 0 .. MaxMoves
  BY <1>1, <1>2, Sizes
<1>4. time' \in Times /\ time <= time'
  BY <1>1, <1>2, Sizes DEF Times
<1>5. lease' \in [Label -> {"free", "here", "away"}]
  BY <1>2 DEF Pass, StartSession, EndSession
<1> QED  BY <1>1, <1>2, <1>3, <1>4, <1>5, WorldKeeps

LEMMA UsageStays ==
    ASSUME UsageInv, UNCHANGED usageVars
    PROVE  UsageInv'
BY DEF UsageInv, UsageTypeOK, usageVars

LEMMA UsageKept == UsageInv /\ [UsageNext]_usageVars => UsageInv'
<1> SUFFICES ASSUME UsageInv, [UsageNext]_usageVars PROVE UsageInv'
  OBVIOUS
<1>1. ASSUME NEW p \in Status, Reply(p) \/ StatusStep(p) PROVE UsageInv'
  BY <1>1, EndKeeps, CollectKeeps, AcquireKeeps, TakeOverKeeps, FetchKeeps DEF StatusStep
<1>2. CASE WorldStep
  BY <1>2, LeaseKeeps, TapKeeps, RecordKeeps, UseKeeps DEF WorldStep
<1>3. CASE UNCHANGED usageVars
  BY <1>3, UsageStays
<1> QED  BY <1>1, <1>2, <1>3 DEF UsageNext

LEMMA UsageInitially == UsageInit => UsageInv
<1> SUFFICES ASSUME UsageInit PROVE UsageInv
  OBVIOUS
<1>1. /\ time = 1 /\ moves = 0 /\ cacheLock = Nothing /\ used = {}
      /\ record \in [Label -> [of : Owner, version : {1}, state : {"ready"}]]
      /\ lease = [l \in Label |-> "free"] /\ tap = [l \in Label |-> Nothing]
      /\ cache = [l \in Label |-> Nothing] /\ status = [p \in Status |-> Idle]
  BY DEF UsageInit
<1>2. record \in [Label -> Login]
  <2>1. 1 \in 1 .. MaxWrite + 1
    BY Sizes
  <2> QED  BY <1>1, <2>1 DEF Login
<1>3. UsageTypeOK
  <2>1. time \in Times /\ moves \in 0 .. MaxMoves
    BY <1>1, Sizes DEF Times
  <2>2. /\ used \subseteq Owner \X Window \X Resets \X (1 .. Limit)
        /\ lease \in [Label -> {"free", "here", "away"}] /\ cacheLock \in LockFile \cup {Nothing}
    BY <1>1
  <2>3. tap \in [Label -> TapReading \cup {Nothing}] /\ cache \in [Label -> Entry \cup {Nothing}]
    BY <1>1
  <2>4. \A p \in Status : status[p].at = "idle"
    BY <1>1, IdleView
  <2> QED  BY <1>2, <2>1, <2>2, <2>3, <2>4 DEF UsageTypeOK
<1> QED  BY <1>1, <1>3, IdleView DEF UsageInv, TrueEntry, TrueTap

LEMMA UsageAlways == UsageSpec => []UsageInv
BY UsageInitially, UsageKept, PTL DEF UsageSpec

\* The variables keep to their types.
THEOREM UsageTypeCorrect == UsageSpec => []UsageTypeOK
<1>1. UsageInv => UsageTypeOK
  BY DEF UsageInv
<1> QED  BY <1>1, UsageAlways, PTL

\* Whatever a level comes from, the account has reached it, in a window that
\* is still open: a reading is projected to the status's clock when it is used.
THEOREM ShownIsTrue == UsageSpec => []LowerBound
<1>1. UsageInv => LowerBound
  <2> SUFFICES ASSUME UsageInv, NEW p \in Status, NEW l \in Label, NEW w \in Window,
                      Answering(p), status[p].rows[l].usage[w] # Nothing,
                      status[p].rows[l].usage[w].level > 0
               PROVE  /\ status[p].rows[l].usage[w].reset > status[p].clock
                      /\ status[p].rows[l].usage[w].level
                           <= Peak(status[p].facts[l].of, w, status[p].rows[l].usage[w].reset)
    BY DEF LowerBound
  <2>1. View(used, time, status[p]) /\ status[p].at = "answer"
    BY DEF UsageInv, Answering
  <2>2. TrueRow(used, status[p].facts[l].of, status[p].clock, status[p].rows[l])
    BY <2>1 DEF View
  <2> QED  BY <2>2, PeakReached DEF TrueRow, TrueUsage, Ahead
<1> QED  BY <1>1, UsageAlways, PTL

-----------------------------------------------------------------------------
(* The choice of an account.                                                *)

LEMMA ScoreBounds ==
    ASSUME UsageInv, NEW p \in Status, Answering(p), NEW l \in Label
    PROVE  Score(status[p], l) \in 0 .. 5
<1> DEFINE u == status[p].rows[l].usage
<1>1. u \in Usage
  BY DEF UsageInv, Answering, View, TrueRow, TrueUsage
<1> HIDE DEF u
<1>2. Sessions(l) \in {0, 1}
  BY DEF Sessions
<1>3. CASE u["session"] = Nothing
  BY <1>3 DEF Score, u
<1>4. CASE u["session"] # Nothing
  <2>1. u["session"].level \in {0, 1, 2}
    BY <1>1, <1>4, ReadingParts DEF Window
  <2>2. Score(status[p], l) = 1 + (2 - u["session"].level) * (2 - Sessions(l))
    BY <1>4 DEF Score, u, Limit
  <2>3. /\ Sessions(l) = 0 => 2 - Sessions(l) = 2
        /\ Sessions(l) = 1 => 2 - Sessions(l) = 1
    OBVIOUS
  <2> QED  BY <1>2, <2>1, <2>2
<1> QED  BY <1>3, <1>4

\* Of the accounts that may be taken, one has the best score.
LEMMA BestExists ==
    ASSUME UsageInv, NEW p \in Status, Answering(p), NEW l \in Label, Eligible(status[p], l)
    PROVE  Chosen(status[p]) # {}
<1> DEFINE E == {k \in Label : Eligible(status[p], k)}
           score(k) == Score(status[p], k)
<1>1. \A k \in Label : score(k) \in 0 .. 5
  BY ScoreBounds
<1> HIDE DEF score
<1>2. \E k \in E : \A m \in E : score(m) <= score(k)
  <2>1. l \in E
    OBVIOUS
  <2> HIDE DEF E
  <2>2. E \subseteq Label
    BY DEF E
  <2>3. \A k \in E : score(k) \in 0 .. 5
    BY <1>1, <2>2
  <2>4. CASE \E k \in E : score(k) = 5
    BY <2>3, <2>4
  <2>5. CASE (\A k \in E : score(k) # 5) /\ \E k \in E : score(k) = 4
    BY <2>3, <2>5
  <2>6. CASE (\A k \in E : score(k) \notin {4, 5}) /\ \E k \in E : score(k) = 3
    BY <2>3, <2>6
  <2>7. CASE (\A k \in E : score(k) \notin {3, 4, 5}) /\ \E k \in E : score(k) = 2
    BY <2>3, <2>7
  <2>8. CASE (\A k \in E : score(k) \notin {2, 3, 4, 5}) /\ \E k \in E : score(k) = 1
    BY <2>3, <2>8
  <2>9. CASE \A k \in E : score(k) \notin {1, 2, 3, 4, 5}
    BY <2>1, <2>3, <2>9
  <2> QED  BY <2>4, <2>5, <2>6, <2>7, <2>8, <2>9
<1> QED  BY <1>2 DEF Chosen, score

\* An account that is refused has a cause that is true: a lease elsewhere, a
\* login that is blocked, or a window that is full and open.  A reading that is
\* missing, stale or failed is none.
THEOREM RefusedForCause == UsageSpec => []NotFound
<1>1. UsageInv => NotFound
  <2> SUFFICES ASSUME UsageInv, NEW p \in Status, NEW l \in Label, Answering(p), Chosen(status[p]) = {},
                      ~(status[p].facts[l].lease # "free" /\ lease[l] # "here"),
                      Facts(status[p].facts, l) # "blocked"
               PROVE  \E w \in Window, r \in Resets :
                        r > status[p].clock /\ Peak(status[p].facts[l].of, w, r) = Limit
    BY DEF NotFound
  <2> DEFINE s == status[p]
             u == s.rows[l].usage
  <2>1. View(used, time, s) /\ s.at = "answer"
    BY DEF UsageInv, Answering
  <2>2. TrueRow(used, s.facts[l].of, s.clock, s.rows[l]) /\ s.facts \in [Label -> Stored]
    BY <2>1 DEF View
  <2>3. Facts(s.facts, l) \in {"ready", "expired"}
    BY <2>2, FactsKinds
  <2>4. ~Eligible(s, l)
    BY BestExists
  <2>5. Exhausted(u)
    BY <2>2, <2>3, <2>4 DEF Eligible, TrueRow
  <2>6. PICK w \in Window : u[w] # Nothing /\ u[w].level = 2
    BY <2>5 DEF Exhausted, Limit
  <2>7. u \in Usage /\ u[w].reset # Nothing /\ 2 <= Reached(used, s.facts[l].of, w, u[w].reset)
    <3>1. TrueUsage(used, s.facts[l].of, u)
      BY <2>2 DEF TrueRow
    <3> HIDE DEF s, u
    <3>2. u \in Usage /\ u[w].reset # Nothing /\ u[w].level <= Reached(used, s.facts[l].of, w, u[w].reset)
      BY <2>6, <3>1 DEF TrueUsage
    <3> QED  BY <2>6, <3>2
  <2>8. u[w].reset > s.clock
    <3>1. Ahead(s.clock, u)
      BY <2>2 DEF TrueRow
    <3> HIDE DEF s, u
    <3> QED  BY <2>6, <3>1 DEF Ahead
  <2>9. u[w].reset \in Resets
    BY <2>6, <2>7, ReadingParts
  <2>10. Peak(s.facts[l].of, w, u[w].reset) = Limit
    <3>1. Reached(used, s.facts[l].of, w, u[w].reset) \in 0 .. 2
      BY ReachedBounds
    <3> QED  BY <2>7, <3>1, PeakReached DEF Limit
  <2> HIDE DEF s, u
  <2> QED  BY <2>8, <2>9, <2>10 DEF s
<1> QED  BY <1>1, UsageAlways, PTL

-----------------------------------------------------------------------------
(* One asks at a time, when nobody is preempted between the second look at a *)
(* stale lock and its removal.                                              *)

LEMMA NormalizedPast ==
    ASSUME NEW e \in Entry \cup {Nothing}, NEW clock \in Nat
    PROVE  /\ Past(Normalized(e, clock), clock)
           /\ Past(e, clock) => Normalized(e, clock) = e
<1>1. CASE e = Nothing
  BY <1>1 DEF Normalized, Past
<1>2. CASE e \in Entry /\ e # Nothing
  <2>1. /\ e.tried \in Nat /\ (e.seen # Nothing => e.seen \in Nat)
        /\ DOMAIN e = {"of", "version", "state", "seen", "tried", "usage"}
    BY <1>2, EntryParts DEF Entry
  <2> DEFINE n == [e EXCEPT !.seen = Nothing, !.usage = Blank]
  <2>2. n.tried = e.tried /\ n.seen = Nothing
    BY <2>1
  <2>3. Normalized(e, clock) = IF e.tried > clock THEN Nothing
                               ELSE IF e.seen = Nothing \/ e.seen <= clock THEN e ELSE n
    BY <1>2 DEF Normalized
  <2> HIDE DEF n
  <2> QED  BY <1>2, <2>1, <2>2, <2>3 DEF Past
<1> QED  BY <1>1, <1>2

LEMMA SecondFollows ==
    ASSUME UsageInv, NEW s, View(used, time, s), s.at \in Looking, NEW l \in Label
    PROVE  Follows(Second(s, cache), Found(cache, s.clock), s.facts, l, s.clock)
<1>1. /\ s.clock \in Times /\ s.facts \in [Label -> Stored]
      /\ s.taps \in [Label -> TapReading \cup {Nothing}]
      /\ \A k \in Label : TrueTap(used, s.facts[k].of, s.taps[k])
  BY DEF View, Looking
<1>2. cache \in [Label -> Entry \cup {Nothing}] /\ \A k \in Label : TrueEntry(used, cache[k])
  BY UsageTyped DEF UsageInv
<1>3. FoldInputs(used, Found(cache, s.clock), s.facts, s.taps, s.clock)
  BY <1>1, <1>2, ReadCache
<1>4. ForFacts(Found(cache, s.clock), s.facts, l) # Nothing => Found(cache, s.clock)[l].tried <= s.clock
  <2>1. Past(Found(cache, s.clock)[l], s.clock)
    BY <1>1, <1>2, NormalizedPast, Sizes DEF Found
  <2> QED  BY <2>1, ForFactsParts DEF Past
<1> QED  BY <1>3, <1>4, FoldedFollows DEF Second

\* A status that asks has made the lock, and everybody else leaves it alone.
LEMMA RecheckFlight ==
    ASSUME UsageInv, NEW p \in Status, NEW s, View(used, time, s), s.at \in Looking
    PROVE  Flight(p, [by |-> p, at |-> time], cache, Recheck(s))
<1> DEFINE r == Recheck(s)
           lock == [by |-> p, at |-> time]
<1>1. /\ r.at = "fetch" /\ r.clock = s.clock /\ r.facts = s.facts
      /\ r.entries = Second(s, cache) /\ r.due = s.due \ Answered(s, cache)
  <2>1. DOMAIN s = Fields
    BY DEF View
  <2> QED  BY ONLY <2>1, RecheckParts
<1>2. s.due \subseteq Label
  BY DEF View, Looking
<1>3. \A l \in r.due : ~UseCached(ForFacts(r.entries, r.facts, l), r.clock)
  BY <1>1 DEF Answered
<1>4. \A l \in Label : Follows(r.entries, Found(cache, r.clock), r.facts, l, r.clock)
  BY <1>1, SecondFollows
<1>5. lock # Nothing /\ lock.by = p
  <2>1. lock \in LockFile
    BY UsageTyped DEF UsageInv, LockFile
  <2> QED  BY <2>1, Sizes
<1> HIDE DEF r, lock
<1>6. Flight(p, lock, cache, r)
  BY <1>1, <1>3, <1>4, <1>5 DEF Flight
<1> QED  BY <1>6 DEF lock, r

Grounded(s) == s.at \notin {"stale", "unlink", "fetch"}
LEMMA GroundedFlight ==
    ASSUME NEW p, NEW lock, NEW c, NEW s, Grounded(s)
    PROVE  Flight(p, lock, c, s)
BY DEF Grounded, Flight

LEMMA AnswersGrounded ==
    ASSUME NEW t, NEW U, NEW s, View(U, t, s), s.at \in Looking
    PROVE  Grounded(InProgress(s)) /\ Grounded(Idle)
BY InProgressView, IdleView DEF Grounded

LEMMA CollectGrounds ==
    ASSUME NEW p \in Status, DOMAIN status = Status, Collect(p)
    PROVE  Grounded(status'[p])
<1>1. PICK clock \in 1 .. time :
         LET s == [Idle EXCEPT !.clock = clock, !.facts = Snapshot, !.taps = tap,
                               !.entries = Folded(Cached(clock), Snapshot, tap, clock)]
             rows == [l \in Label |-> FirstRow(s, s.entries, l)]
             due == {l \in Label : rows[l] = NoRow}
         IN  Become(p, IF due = {} THEN Done(s, rows)
                       ELSE [s EXCEPT !.at = "lock", !.due = due, !.rows = rows])
  BY DEF Collect
<1> DEFINE s == [Idle EXCEPT !.clock = clock, !.facts = Snapshot, !.taps = tap,
                             !.entries = Folded(Cached(clock), Snapshot, tap, clock)]
           rows == [l \in Label |-> FirstRow(s, s.entries, l)]
           due == {l \in Label : rows[l] = NoRow}
           d == [s EXCEPT !.at = "lock", !.due = due, !.rows = rows]
<1>2. DOMAIN s = Fields
  BY DEF Idle, Fields
<1> HIDE DEF s, rows, due
<1>3. d.at = "lock"
  BY <1>2 DEF Fields
<1>4. Done(s, rows).at = "answer"
  BY DEF Done, Idle
<1>5. Become(p, IF due = {} THEN Done(s, rows) ELSE d)
  BY <1>1 DEF s, rows, due
<1> HIDE DEF d
<1>6. status'[p] \in {Done(s, rows), d}
  BY <1>5, Became
<1> QED  BY <1>3, <1>4, <1>6 DEF Grounded

LEMMA SingleStatusStep ==
    ASSUME SingleInv, NEW p \in Status, StatusStep(p),
           \A q \in Status \ {p} : status[q].at # "unlink", UsageInv'
    PROVE  SingleInv'
<1> DEFINE s == status[p]
<1>1. UsageInv /\ DOMAIN status = Status /\ View(used, time, s) /\ Flight(p, cacheLock, cache, s)
  BY DEF SingleInv, UsageInv
<1>2. \A q \in Status \ {p} : Flight(q, cacheLock, cache, status[q]) /\ status[q].at # "unlink"
  BY DEF SingleInv
<1>3. /\ \A q \in Status \ {p} : status'[q] = status[q]
      /\ \A d : Become(p, d) => status'[p] = d
  <2>1. \E d : Become(p, d)
    <3>1. CASE Collect(p)
      BY <3>1 DEF Collect
    <3>2. CASE Acquire(p) \/ Reclaim(p) \/ Unlink(p) \/ Killed(p)
      BY <3>2 DEF Acquire, Reclaim, Unlink, Killed, Move
    <3>3. CASE Fetch(p)
      BY <3>3, FetchParts
    <3> QED  BY <3>1, <3>2, <3>3 DEF StatusStep
  <2> QED  BY <1>1, <2>1, Became
<1> SUFFICES /\ Flight(p, cacheLock', cache', status'[p])
             /\ \A q \in Status \ {p} : status[q].at = "fetch" => UNCHANGED <<cacheLock, cache>>
  <2> HIDE DEF s
  <2> QED  BY <1>2, <1>3 DEF SingleInv, Flight
<1>4. CASE Collect(p)
  <2>1. Grounded(status'[p]) /\ UNCHANGED <<cacheLock, cache>>
    BY <1>1, <1>4, CollectGrounds DEF Collect
  <2> QED  BY <2>1, GroundedFlight
<1>5. CASE Acquire(p)
  <2>1. s.at \in Looking /\ UNCHANGED cache
    BY <1>5 DEF Acquire, Looking
  <2>2. CASE cacheLock = Nothing /\ cacheLock' = [by |-> p, at |-> time] /\ Become(p, Recheck(s))
    <3>1. Flight(p, cacheLock', cache, status'[p])
      BY <1>1, <1>3, <2>1, <2>2, RecheckFlight
    <3>2. \A q \in Status \ {p} : status[q].at # "fetch"
      BY <1>2, <2>2 DEF Flight
    <3> QED  BY <2>1, <3>1, <3>2
  <2>3. CASE /\ UNCHANGED cacheLock
             /\ Become(p, InProgress(s))
    <3>1. Grounded(status'[p])
      BY <1>1, <1>3, <2>1, <2>3, AnswersGrounded
    <3> QED  BY <2>1, <2>3, <3>1, GroundedFlight
  <2>4. CASE /\ UNCHANGED cacheLock /\ cacheLock # Nothing /\ cacheLock.by = Nothing
             /\ Become(p, [s EXCEPT !.at = "stale", !.stat = cacheLock])
    <3> DEFINE look == [s EXCEPT !.at = "stale", !.stat = cacheLock]
    <3>1. DOMAIN s = Fields
      BY <1>1 DEF View
    <3>2. look.at = "stale" /\ look.stat = cacheLock
      BY <3>1 DEF Fields
    <3>3. status'[p] = look
      BY <1>3, <2>4
    <3> HIDE DEF look
    <3>4. Flight(p, cacheLock', cache', status'[p])
      BY <2>4, <3>2, <3>3 DEF Flight
    <3> QED  BY <2>1, <2>4, <3>4
  <2> QED  BY <1>5, <2>2, <2>3, <2>4 DEF Acquire
<1>6. CASE Reclaim(p)
  <2>1. s.at = "stale" /\ s.at \in Looking /\ UNCHANGED <<cache, cacheLock>>
    BY <1>6 DEF Reclaim, Looking
  <2>2. CASE Become(p, InProgress(s))
    <3>1. Grounded(status'[p])
      BY <1>1, <1>3, <2>1, <2>2, AnswersGrounded
    <3> QED  BY <2>1, <3>1, GroundedFlight
  <2>3. CASE cacheLock = s.stat /\ Move(p, "unlink")
    <3>1. DOMAIN s = Fields
      BY <1>1 DEF View
    <3>2. status'[p] = [s EXCEPT !.at = "unlink"]
      BY <1>3, <2>3 DEF Move
    <3>3. status'[p].at = "unlink" /\ status'[p].stat = s.stat
      BY <3>1, <3>2 DEF Fields
    <3>4. s.stat # Nothing /\ s.stat.by = Nothing
      BY <1>1, <2>1 DEF Flight
    <3> QED  BY <2>1, <2>3, <3>3, <3>4 DEF Flight
  <2> QED  BY <1>6, <2>2, <2>3 DEF Reclaim
<1>7. CASE Unlink(p)
  <2>1. s.at = "unlink" /\ s.at \in Looking /\ UNCHANGED cache
    BY <1>7 DEF Unlink, Looking
  <2>2. \A q \in Status \ {p} : status[q].at # "fetch"
    <3>1. cacheLock = Nothing \/ cacheLock.by = Nothing
      BY <1>1, <2>1 DEF Flight
    <3> QED  BY <1>2, <3>1, Sizes DEF Flight
  <2>3. Grounded(status'[p])
    <3> DEFINE back == [s EXCEPT !.at = "lock", !.again = TRUE]
    <3>1. status'[p] \in {InProgress(s), back}
      BY <1>3, <1>7 DEF Unlink
    <3>2. back.at = "lock"
      BY <1>1 DEF View, Fields
    <3> HIDE DEF back
    <3> QED  BY <1>1, <2>1, <3>1, <3>2, AnswersGrounded DEF Grounded
  <2> QED  BY <2>2, <2>3, GroundedFlight
<1>8. CASE Fetch(p)
  <2>1. s.at = "fetch" /\ cacheLock.by = p
    BY <1>1, <1>8 DEF Fetch, Flight
  <2>2. \A q \in Status \ {p} : status[q].at # "fetch"
    BY <1>2, <2>1 DEF Flight
  <2>3. \E rows : status'[p] = Done(s, rows)
    BY <1>3, <1>8, FetchParts
  <2>4. \A rows : Done(s, rows).at = "answer"
    BY DEF Done, Idle
  <2>5. Grounded(status'[p])
    BY <2>3, <2>4 DEF Grounded
  <2> QED  BY <2>2, <2>5, GroundedFlight
<1>9. CASE Killed(p)
  <2>1. status'[p] = Idle /\ UNCHANGED cache
    BY <1>3, <1>9 DEF Killed
  <2>2. \A q \in Status \ {p} : status[q].at = "fetch" => UNCHANGED cacheLock
    <3>1. \A q \in Status \ {p} : status[q].at = "fetch" => cacheLock.by # p
      BY <1>2 DEF Flight
    <3> QED  BY <1>9, <3>1 DEF Killed
  <2>3. Grounded(status'[p])
    BY <2>1, IdleView DEF Grounded
  <2> QED  BY <2>1, <2>2, <2>3, GroundedFlight
<1> QED  BY <1>4, <1>5, <1>6, <1>7, <1>8, <1>9 DEF StatusStep

LEMMA SingleKept == ~Gap /\ SingleInv /\ [UsageNext]_usageVars => SingleInv'
<1> SUFFICES ASSUME ~Gap, SingleInv, [UsageNext]_usageVars PROVE SingleInv'
  OBVIOUS
<1>1. UsageInv /\ UsageInv'
  BY UsageKept DEF SingleInv
<1>2. CASE WorldStep \/ UNCHANGED usageVars
  <2>1. UNCHANGED <<cache, cacheLock, status>>
    BY <1>2 DEF WorldStep, StartSession, EndSession, Tap, WriteRecord, Expire, Reassign, Use, Pass, usageVars
  <2> QED  BY <1>1, <2>1 DEF SingleInv
<1>3. CASE \E p \in Status : Reply(p)
  <2>1. PICK p \in Status : Reply(p)
    BY <1>3
  <2>2. /\ UNCHANGED <<cache, cacheLock>> /\ status'[p] = Idle
        /\ \A q \in Status \ {p} : status'[q] = status[q]
    BY <1>1, <2>1, Became DEF Reply, UsageInv
  <2>3. Flight(p, cacheLock', cache', status'[p])
    BY <2>2, IdleView, GroundedFlight DEF Grounded
  <2>4. \A q \in Status \ {p} : Flight(q, cacheLock', cache', status'[q])
    BY <2>2 DEF SingleInv
  <2> QED  BY <1>1, <2>3, <2>4 DEF SingleInv
<1>4. CASE \E p \in Status : (\A q \in Status \ {p} : status[q].at # "unlink") /\ StatusStep(p)
  BY <1>1, <1>4, SingleStatusStep
<1> QED  BY <1>2, <1>3, <1>4 DEF UsageNext

LEMMA SingleInitially == UsageInit => SingleInv
<1> SUFFICES ASSUME UsageInit PROVE SingleInv
  OBVIOUS
<1>1. \A p \in Status : Grounded(status[p])
  BY IdleView DEF UsageInit, Grounded
<1> QED  BY <1>1, UsageInitially, GroundedFlight DEF SingleInv

\* Only the holder of the lock asks, and for what the file does not answer.
THEOREM OneAsks == ASSUME ~Gap PROVE UsageSpec => []SingleFlight
<1>1. SingleInv => SingleFlight
  <2> SUFFICES ASSUME SingleInv PROVE SingleFlight
    OBVIOUS
  <2>1. ASSUME NEW p \in Status, NEW q \in Status, Flying(p), Flying(q) PROVE p = q
    BY <2>1 DEF SingleInv, Flight, Flying
  <2>2. ASSUME NEW p \in Status, NEW l \in Label, Flying(p), l \in status[p].due,
               UseCached(ForFacts(Cached(status[p].clock), status[p].facts, l), status[p].clock)
        PROVE  ExpiredWindow(status[p].entries[l].usage, status[p].clock)
    <3> DEFINE s == status[p]
               h == Found(cache, s.clock)
    <3>1. /\ s.at = "fetch" /\ l \in s.due /\ Follows(s.entries, h, s.facts, l, s.clock)
          /\ ~UseCached(ForFacts(s.entries, s.facts, l), s.clock)
          /\ UseCached(ForFacts(h, s.facts, l), s.clock)
      BY <2>2, CachedFound DEF SingleInv, Flight, Flying
    <3>2. View(used, time, s) /\ cache \in [Label -> Entry \cup {Nothing}]
      BY UsageTyped DEF SingleInv, UsageInv
    <3>3. s.clock \in Nat /\ s.entries[l] \in Entry \cup {Nothing}
      BY <3>1, <3>2, Sizes DEF View
    <3>4. h[l] \in Entry \cup {Nothing}
      <4>1. TrueEntry(used, cache[l])
        BY DEF SingleInv, UsageInv
      <4> QED  BY <4>1, NormalizedTrue DEF Found
    <3>5. ForFacts(h, s.facts, l) # Nothing /\ ForFacts(h, s.facts, l) = h[l]
      BY <3>1, ForFactsParts DEF UseCached
    <3>6. s.entries[l] # h[l]
      BY <3>1 DEF ForFacts
    <3>7. /\ s.entries[l] # Nothing /\ ForFacts(s.entries, s.facts, l) = s.entries[l]
          /\ s.entries[l].tried >= h[l].tried /\ s.entries[l].tried <= s.clock
      BY <3>1, <3>5, <3>6 DEF Follows, ForFacts
    <3> HIDE DEF h, s
    <3>8. s.entries[l].tried \in Nat /\ h[l].tried \in Nat
      BY <3>3, <3>4, <3>5, <3>7, EntryParts
    <3>9. s.clock - h[l].tried <= FreshFor
      BY <3>1, <3>5 DEF UseCached
    <3>10. s.clock - s.entries[l].tried <= FreshFor
      BY <3>3, <3>7, <3>8, <3>9, Sizes
    <3>11. ExpiredWindow(s.entries[l].usage, s.clock)
      BY <3>1, <3>7, <3>10 DEF UseCached
    <3> QED  BY <3>11 DEF s
  <2> QED  BY <2>1, <2>2 DEF SingleFlight, Flying
<1>2. UsageSpec => []SingleInv
  BY SingleInitially, SingleKept, PTL DEF UsageSpec
<1> QED  BY <1>1, <1>2, PTL

-----------------------------------------------------------------------------
(* The clocks, when a status looks at the cache at the time of its clock.    *)

LEMMA PastLater ==
    ASSUME NEW e \in Entry \cup {Nothing}, NEW t \in Nat, NEW u \in Nat, t <= u, Past(e, t)
    PROVE  Past(e, u)
<1>1. e # Nothing => e.tried \in Nat /\ (e.seen # Nothing => e.seen \in Nat)
  BY EntryParts
<1> QED  BY <1>1 DEF Past

LEMMA FollowsPast ==
    ASSUME NEW new, NEW old, NEW f, NEW l, NEW clock, Follows(new, old, f, l, clock), Past(old[l], clock)
    PROVE  Past(new[l], clock)
BY DEF Follows, Past

LEMMA FoundIsCache ==
    ASSUME cache \in [Label -> Entry \cup {Nothing}], NEW clock \in Nat, NEW l \in Label, Past(cache[l], clock)
    PROVE  Found(cache, clock)[l] = cache[l]
BY NormalizedPast DEF Found

\* The entries a status reads, first and under the lock.
LEMMA ReadsPast ==
    ASSUME UsageInv, NEW f \in [Label -> Stored], NEW taps \in [Label -> TapReading \cup {Nothing}],
           \A l \in Label : TrueTap(used, f[l].of, taps[l]), NEW clock \in Times, NEW l \in Label
    PROVE  Past(Folded(Found(cache, clock), f, taps, clock)[l], clock)
<1>1. cache \in [Label -> Entry \cup {Nothing}] /\ \A k \in Label : TrueEntry(used, cache[k])
  BY UsageTyped DEF UsageInv
<1>2. FoldInputs(used, Found(cache, clock), f, taps, clock)
  BY <1>1, ReadCache
<1>3. Past(Found(cache, clock)[l], clock)
  BY <1>1, NormalizedPast, Sizes DEF Found
<1>4. ForFacts(Found(cache, clock), f, l) # Nothing => Found(cache, clock)[l].tried <= clock
  BY <1>3, ForFactsParts DEF Past
<1> QED  BY <1>2, <1>3, <1>4, FoldedFollows, FollowsPast

Away(s) == s.at \notin Looking \cup {"fetch"}
LEMMA AwayPunctual ==
    ASSUME NEW c, NEW t, NEW s, Away(s)
    PROVE  Punctual(c, t, s)
BY DEF Away, Punctual, Looking

LEMMA AnswersAway ==
    ASSUME NEW t, NEW U, NEW s, View(U, t, s), s.at \in Looking
    PROVE  Away(InProgress(s)) /\ Away(Idle)
BY InProgressView, IdleView DEF Away, Looking

LEMMA CollectPunctual ==
    ASSUME UsageInv, ~Slow, NEW p \in Status, Collect(p)
    PROVE  Punctual(cache, time, status'[p])
<1> DEFINE Read(clock) ==
      LET s == [Idle EXCEPT !.clock = clock, !.facts = Snapshot, !.taps = tap,
                            !.entries = Folded(Cached(clock), Snapshot, tap, clock)]
          rows == [l \in Label |-> FirstRow(s, s.entries, l)]
          due == {l \in Label : rows[l] = NoRow}
      IN  Become(p, IF due = {} THEN Done(s, rows)
                    ELSE [s EXCEPT !.at = "lock", !.due = due, !.rows = rows])
<1>1. Read(time)
  <2>1. \E clock \in 1 .. time : clock = time /\ Read(clock)
    BY DEF Collect
  <2> HIDE DEF Read
  <2> QED  BY <2>1
<1> DEFINE e == Folded(Found(cache, time), Snapshot, tap, time)
           s == [Idle EXCEPT !.clock = time, !.facts = Snapshot, !.taps = tap, !.entries = e]
           rows == [l \in Label |-> FirstRow(s, s.entries, l)]
           due == {l \in Label : rows[l] = NoRow}
           d == [s EXCEPT !.at = "lock", !.due = due, !.rows = rows]
<1>2. Become(p, IF due = {} THEN Done(s, rows) ELSE d)
  <2>1. e = Folded(Cached(time), Snapshot, tap, time)
    BY CachedFound
  <2> HIDE DEF e
  <2> QED  BY <1>1, <2>1
<1>3. /\ time \in Times /\ time \in Nat /\ cache \in [Label -> Entry \cup {Nothing}]
      /\ tap \in [Label -> TapReading \cup {Nothing}]
      /\ Snapshot \in [Label -> Stored] /\ \A l \in Label : TrueTap(used, Snapshot[l].of, tap[l])
  <2>1. /\ record \in [Label -> Login] /\ lease \in [Label -> {"free", "here", "away"}]
        /\ \A l \in Label : TrueTap(used, record[l].of, tap[l])
    BY UsageTyped DEF UsageInv
  <2>2. Snapshot \in [Label -> Stored] /\ \A l \in Label : Snapshot[l].of = record[l].of
    BY <2>1 DEF Snapshot, Stored, Login
  <2> QED  BY <2>1, <2>2, UsageTyped DEF UsageInv
<1>4. \A l \in Label : Past(e[l], time)
  BY <1>3, ReadsPast
<1> HIDE DEF e
<1>5. DOMAIN s = Fields /\ s.clock = time /\ s.entries = e
  BY DEF Idle, Fields
<1> HIDE DEF s, rows, due
<1>6. d.at = "lock" /\ d.clock = time /\ d.entries = e
  BY <1>5 DEF Fields
<1>7. Done(s, rows).at = "answer"
  BY DEF Done, Idle
<1> HIDE DEF d
<1>8. status'[p] \in {Done(s, rows), d}
  BY <1>2, Became DEF UsageInv
<1>9. Punctual(cache, time, d)
  BY <1>4, <1>6 DEF Punctual, Looking
<1> QED  BY <1>7, <1>8, <1>9, AwayPunctual DEF Away, Looking

\* What a request writes is of no later time than the clock it has.
LEMMA AfterPast ==
    ASSUME NEW s, s.clock \in Nat, s.entries \in [Label -> Entry \cup {Nothing}],
           \A l \in Label : Past(s.entries[l], s.clock), NEW ok, NEW l \in Label
    PROVE  Past(After(s, ok)[l], s.clock)
<1> DEFINE n == After(s, ok)[l]
<1>1. n \in {s.entries[l], Live(s, l), Failure(s, l)}
  BY DEF After
<1>2. Past(Live(s, l), s.clock)
  BY DEF Past, Live
<1>3. Past(Failure(s, l), s.clock)
  <2> DEFINE c == ForFacts(s.entries, s.facts, l)
             u == Usable(c, s.clock)
  <2>1. Known(u) => c # Nothing
    BY DEF Usable, Known
  <2>2. Past(c, s.clock)
    BY DEF ForFacts, Past
  <2> HIDE DEF c, u
  <2>3. Failure(s, l).tried = s.clock /\ Failure(s, l).seen = IF Known(u) THEN c.seen ELSE Nothing
    BY DEF Failure, c, u
  <2> QED  BY <2>1, <2>2, <2>3 DEF Past
<1> QED  BY <1>1, <1>2, <1>3

LEMMA ClockStatusStep ==
    ASSUME KeptInv, ~Slow, NEW p \in Status, StatusStep(p)
    PROVE  ClockInv'
<1> DEFINE s == status[p]
<1>1. /\ UsageInv /\ DOMAIN status = Status /\ View(used, time, s) /\ Punctual(cache, time, s)
      /\ Flight(p, cacheLock, cache, s)
  BY DEF KeptInv, SingleInv, UsageInv, ClockInv
<1>2. /\ \A q \in Status \ {p} : status'[q] = status[q]
      /\ \A d : Become(p, d) => status'[p] = d
  <2>1. \E d : Become(p, d)
    <3>1. CASE Collect(p)
      BY <3>1 DEF Collect
    <3>2. CASE Acquire(p) \/ Reclaim(p) \/ Unlink(p) \/ Killed(p)
      BY <3>2 DEF Acquire, Reclaim, Unlink, Killed, Move
    <3>3. CASE Fetch(p)
      BY <3>3, FetchParts
    <3> QED  BY <3>1, <3>2, <3>3 DEF StatusStep
  <2> QED  BY <1>1, <2>1, Became
<1>3. /\ cache \in [Label -> Entry \cup {Nothing}] /\ time \in Times /\ time \in Nat
      /\ UNCHANGED time
  BY <1>1, UsageTyped DEF UsageInv, StatusStep, Collect, Acquire, Reclaim, Unlink, Fetch, Killed
<1>4. CASE Fetch(p)
  <2>1. s.at = "fetch" /\ Away(status'[p])
    <3>1. \E rows : status'[p] = Done(s, rows)
      BY <1>2, <1>4, FetchParts
    <3>2. \A rows : Done(s, rows).at = "answer"
      BY DEF Done, Idle
    <3> QED  BY <1>4, <3>1, <3>2 DEF Away, Looking, Fetch
  <2>2. PICK ok \in SUBSET s.due : cache' \in {cache, After(s, ok)}
    BY <1>4, FetchParts
  <2>3. /\ s.clock \in Times /\ s.clock \in Nat /\ s.clock <= time
        /\ s.entries \in [Label -> Entry \cup {Nothing}] /\ \A l \in Label : Past(s.entries[l], s.clock)
    BY <1>1, <2>1, Sizes DEF View, Punctual
  <2>4. ASSUME NEW l \in Label PROVE Past(cache'[l], time)
    <3>1. CASE cache' = cache
      BY <3>1 DEF KeptInv, ClockInv
    <3>2. CASE cache' = After(s, ok)
      <4>1. Past(After(s, ok)[l], s.clock)
        BY <2>3, AfterPast
      <4>2. UsageInv'
        BY <1>1, <1>4, FetchKeeps
      <4>3. cache'[l] \in Entry \cup {Nothing}
        BY <4>2 DEF UsageInv, UsageTypeOK
      <4> HIDE DEF s
      <4> QED  BY <1>3, <2>3, <3>2, <4>1, <4>3, PastLater
    <3> QED  BY <2>2, <3>1, <3>2
  <2>5. ASSUME NEW q \in Status \ {p} PROVE Punctual(cache', time, status[q])
    <3>1. Punctual(cache, time, status[q])
      BY DEF KeptInv, ClockInv
    <3>2. status[q].at # "fetch"
      BY <1>1, <2>1 DEF KeptInv, SingleInv, Flight
    <3> QED  BY <3>1, <3>2 DEF Punctual
  <2>6. Punctual(cache', time, status'[p])
    BY <2>1, AwayPunctual
  <2> QED  BY <1>2, <1>3, <2>4, <2>5, <2>6 DEF ClockInv
<1>5. CASE Collect(p) \/ Acquire(p) \/ Reclaim(p) \/ Unlink(p) \/ Killed(p)
  <2>1. UNCHANGED cache
    BY <1>5 DEF Collect, Acquire, Reclaim, Unlink, Killed
  <2> SUFFICES Punctual(cache, time, status'[p])
    BY <1>2, <1>3, <2>1 DEF KeptInv, ClockInv
  <2>2. CASE Collect(p)
    BY <1>1, <2>2, CollectPunctual
  <2>3. CASE Killed(p)
    BY <1>2, <2>3, IdleView, AwayPunctual DEF Killed, Away, Looking
  <2>4. CASE Acquire(p) \/ Reclaim(p) \/ Unlink(p)
    <3>1. s.at \in Looking /\ s.clock = time /\ \A l \in Label : Past(s.entries[l], time)
      BY <1>1, <2>4 DEF Acquire, Reclaim, Unlink, Looking, Punctual
    <3>2. Away(InProgress(s))
      BY <1>1, <3>1, AnswersAway
    <3>3. Punctual(cache, time, Recheck(s))
      <4> DEFINE r == Recheck(s)
      <4>1. r.at = "fetch" /\ r.clock = time /\ r.entries = Second(s, cache)
        <5>1. r.at = "fetch" /\ r.clock = s.clock /\ r.entries = Second(s, cache)
          <6>1. DOMAIN s = Fields
            BY <1>1 DEF View
          <6> QED  BY ONLY <6>1, RecheckParts
        <5> QED  BY <3>1, <5>1
      <4>2. \A l \in Label : Past(Second(s, cache)[l], time)
        <5>1. /\ s.facts \in [Label -> Stored] /\ s.taps \in [Label -> TapReading \cup {Nothing}]
              /\ \A l \in Label : TrueTap(used, s.facts[l].of, s.taps[l])
          BY <1>1, <3>1 DEF View, Looking
        <5> QED  BY <1>1, <1>3, <3>1, <5>1, ReadsPast DEF Second
      <4>3. \A l \in Label : Past(cache[l], time)
        BY DEF KeptInv, ClockInv
      <4> HIDE DEF r
      <4>4. Punctual(cache, time, r)
        BY <4>1, <4>2, <4>3 DEF Punctual, Looking
      <4> QED  BY <4>4 DEF r
    <3>4. \A d \in {[s EXCEPT !.at = "stale", !.stat = cacheLock], [s EXCEPT !.at = "unlink"],
                    [s EXCEPT !.at = "lock", !.again = TRUE]} : Punctual(cache, time, d)
      <4> DEFINE d1 == [s EXCEPT !.at = "stale", !.stat = cacheLock]
                 d2 == [s EXCEPT !.at = "unlink"]
                 d3 == [s EXCEPT !.at = "lock", !.again = TRUE]
      <4>1. DOMAIN s = Fields
        BY <1>1 DEF View
      <4>2. /\ d1.at = "stale" /\ d1.clock = s.clock /\ d1.entries = s.entries
            /\ d2.at = "unlink" /\ d2.clock = s.clock /\ d2.entries = s.entries
            /\ d3.at = "lock" /\ d3.clock = s.clock /\ d3.entries = s.entries
        BY <4>1 DEF Fields
      <4> HIDE DEF d1, d2, d3
      <4>3. \A d \in {d1, d2, d3} : Punctual(cache, time, d)
        BY <3>1, <4>2 DEF Punctual, Looking
      <4> QED  BY <4>3 DEF d1, d2, d3
    <3>5. \/ Become(p, InProgress(s)) \/ Become(p, Recheck(s))
          \/ Become(p, [s EXCEPT !.at = "stale", !.stat = cacheLock])
          \/ Become(p, [s EXCEPT !.at = "unlink"])
          \/ Become(p, [s EXCEPT !.at = "lock", !.again = TRUE])
      BY <2>4 DEF Acquire, Reclaim, Unlink, Move
    <3>6. status'[p] \in {InProgress(s), Recheck(s), [s EXCEPT !.at = "stale", !.stat = cacheLock],
                          [s EXCEPT !.at = "unlink"], [s EXCEPT !.at = "lock", !.again = TRUE]}
      BY <1>2, <3>5
    <3> HIDE DEF s
    <3> QED  BY <3>2, <3>3, <3>4, <3>6, AwayPunctual
  <2> QED  BY <1>5, <2>2, <2>3, <2>4
<1> QED  BY <1>4, <1>5 DEF StatusStep

LEMMA ClockWorldStep ==
    ASSUME KeptInv, ~Slow, WorldStep
    PROVE  ClockInv'
<1>1. UNCHANGED <<cache, status>>
  BY DEF WorldStep, StartSession, EndSession, Tap, WriteRecord, Expire, Reassign, Use, Pass
<1>2. time \in Nat /\ cache \in [Label -> Entry \cup {Nothing}]
  BY UsageTyped DEF KeptInv, SingleInv, UsageInv
<1>3. CASE Pass
  <2>1. time' = time + 1 /\ \A p \in Status : status[p].at \notin Looking
    BY <1>3 DEF Pass
  <2>2. \A l \in Label : Past(cache[l], time')
    BY <1>2, <2>1, PastLater DEF KeptInv, ClockInv
  <2> QED  BY <1>1, <2>1, <2>2 DEF KeptInv, ClockInv, Punctual
<1>4. CASE UNCHANGED time
  BY <1>1, <1>4 DEF KeptInv, ClockInv
<1> QED  BY <1>3, <1>4 DEF WorldStep, StartSession, EndSession, Tap, WriteRecord, Expire, Reassign, Use

LEMMA KeptKept == ~Slow /\ ~Gap /\ KeptInv /\ [UsageNext]_usageVars => KeptInv'
<1> SUFFICES ASSUME ~Slow, ~Gap, KeptInv, [UsageNext]_usageVars PROVE KeptInv'
  OBVIOUS
<1>1. SingleInv'
  BY SingleKept DEF KeptInv
<1>2. CASE WorldStep
  BY <1>1, <1>2, ClockWorldStep DEF KeptInv
<1>3. CASE UNCHANGED usageVars
  BY <1>1, <1>3 DEF KeptInv, ClockInv, usageVars
<1>4. CASE \E p \in Status : Reply(p)
  <2>1. PICK p \in Status : Reply(p)
    BY <1>4
  <2>2. /\ UNCHANGED <<cache, time>> /\ status'[p] = Idle
        /\ \A q \in Status \ {p} : status'[q] = status[q]
    BY <2>1, Became DEF Reply, KeptInv, SingleInv, UsageInv
  <2>3. Punctual(cache', time', status'[p])
    BY <2>2, IdleView, AwayPunctual DEF Away, Looking
  <2> QED  BY <1>1, <2>2, <2>3 DEF KeptInv, ClockInv
<1>5. CASE \E p \in Status : StatusStep(p)
  BY <1>1, <1>5, ClockStatusStep DEF KeptInv
<1> QED  BY <1>2, <1>3, <1>4, <1>5 DEF UsageNext

LEMMA KeptInitially == UsageInit => KeptInv
<1> SUFFICES ASSUME UsageInit PROVE KeptInv
  OBVIOUS
<1>1. \A p \in Status : Away(status[p])
  BY IdleView DEF UsageInit, Away, Looking
<1>2. \A l \in Label : Past(cache[l], time)
  BY DEF UsageInit, Past
<1> QED  BY <1>1, <1>2, SingleInitially, AwayPunctual DEF KeptInv, ClockInv

-----------------------------------------------------------------------------
(* A reading that is written over.                                          *)

LEMMA FetchKeepsReadings ==
    ASSUME KeptInv, NEW p \in Status, Fetch(p), NEW l \in Label,
           cache[l] # Nothing, cache'[l] # cache[l], Known(cache[l].usage),
           time - cache[l].seen <= KeepFor,
           cache'[l] # Nothing => cache'[l].of = cache[l].of /\ cache'[l].version = cache[l].version
    PROVE  /\ cache'[l] # Nothing /\ Known(cache'[l].usage) /\ cache'[l].seen >= cache[l].seen
<1> DEFINE s == status[p]
           old == cache[l]
           new == cache'[l]
           c == ForFacts(s.entries, s.facts, l)
<1>1. /\ s.at = "fetch" /\ UsageInv /\ View(used, time, s) /\ Flight(p, cacheLock, cache, s)
      /\ Punctual(cache, time, s)
  BY DEF Fetch, KeptInv, SingleInv, UsageInv, ClockInv
<1>2. /\ s.clock \in Times /\ s.clock \in Nat /\ s.clock <= time /\ time \in Times /\ time \in Nat
      /\ s.facts \in [Label -> Stored] /\ s.due \subseteq Label
      /\ s.entries[l] \in Entry \cup {Nothing} /\ TrueEntry(used, s.entries[l])
      /\ \A k \in s.due : Facts(s.facts, k) = "ready"
      /\ cache \in [Label -> Entry \cup {Nothing}] /\ TrueEntry(used, old)
  BY <1>1, UsageTyped, Sizes DEF UsageInv, View
<1>3. /\ old \in Entry /\ old.seen # Nothing /\ old.seen \in Nat /\ old.seen <= s.clock
      /\ Found(cache, s.clock)[l] = old
  <2>1. Past(old, s.clock)
    BY <1>1 DEF Punctual
  <2> QED  BY <1>2, <2>1, EntryParts, FoundIsCache DEF TrueEntry, Past
<1>4. PICK ok \in SUBSET s.due : cache' = After(s, ok)
  BY FetchParts
\* What was read under the lock, if it is of the same login.
<1>5. ASSUME s.entries[l] # old, old.of = s.facts[l].of, old.version = s.facts[l].version
      PROVE  /\ c = s.entries[l] /\ c # Nothing /\ Known(c.usage)
             /\ c.seen \in Nat /\ c.seen # Nothing /\ c.seen >= old.seen /\ c.seen <= s.clock
  <2>1. Follows(s.entries, Found(cache, s.clock), s.facts, l, s.clock)
    BY <1>1 DEF Flight
  <2>2. /\ s.entries[l] # Nothing /\ ~Duplicate(s.facts, l) /\ Known(s.entries[l].usage)
        /\ s.entries[l].of = s.facts[l].of /\ s.entries[l].version = s.facts[l].version
        /\ s.entries[l].seen # Nothing /\ s.entries[l].seen <= s.clock
        /\ ForFacts(Found(cache, s.clock), s.facts, l) # Nothing => s.entries[l].seen >= old.seen
    BY <1>3, <1>5, <2>1 DEF Follows
  <2>3. ForFacts(Found(cache, s.clock), s.facts, l) # Nothing
    BY <1>2, <1>3, <1>5, <2>2 DEF ForFacts
  <2>4. c = s.entries[l]
    BY <2>2 DEF ForFacts
  <2>5. s.entries[l].seen \in Nat
    BY <1>2, <2>2, EntryParts
  <2> QED  BY <2>2, <2>3, <2>4, <2>5
<1>6. CASE l \notin s.due
  <2>1. new = s.entries[l]
    BY <1>4, <1>6 DEF After
  <2>2. Follows(s.entries, Found(cache, s.clock), s.facts, l, s.clock)
    BY <1>1 DEF Flight
  <2>3. s.entries[l] # Nothing /\ s.entries[l].of = s.facts[l].of /\ s.entries[l].version = s.facts[l].version
    BY <1>3, <2>1, <2>2 DEF Follows
  <2>4. old.of = s.facts[l].of /\ old.version = s.facts[l].version
    BY <2>1, <2>3
  <2> QED  BY <1>5, <2>1, <2>4
<1>7. CASE l \in ok
  <2>1. new = Live(s, l)
    BY <1>4, <1>7 DEF After
  <2>2. Known(Truth(s.facts[l].of))
    BY <1>2, TruthTrue
  <2>3. new.seen = s.clock /\ Known(new.usage)
    BY <2>1, <2>2 DEF Live
  <2>4. new # Nothing
    <3>1. new \in Entry
      BY <1>1, <1>2, <2>1, AnswerTrue, ViewReads
    <3> QED  BY <3>1, Sizes
  <2> HIDE DEF new, old
  <2> QED  BY <1>2, <1>3, <2>3, <2>4 DEF new, old
<1>8. CASE l \in s.due /\ l \notin ok
  <2>1. new = Failure(s, l)
    BY <1>4, <1>8 DEF After
  <2>2. new.of = s.facts[l].of /\ new.version = s.facts[l].version /\ new # Nothing
    <3>1. new \in Entry
      BY <1>1, <1>2, <2>1, AnswerTrue, ViewReads
    <3> QED  BY <2>1, <3>1, Sizes DEF Failure
  <2>3. old.of = s.facts[l].of /\ old.version = s.facts[l].version
    BY <2>2
  <2>4. ~Duplicate(s.facts, l)
    BY <1>2, <1>8, FactsReady
  <2>5. /\ c # Nothing /\ Known(c.usage) /\ c.seen \in Nat /\ c.seen # Nothing
        /\ c.seen >= old.seen /\ c.seen <= s.clock
    <3>1. CASE s.entries[l] = old
      <4>1. c = old
        BY <1>3, <2>3, <2>4, <3>1 DEF ForFacts
      <4> HIDE DEF c
      <4> QED  BY <1>3, <4>1
    <3>2. CASE s.entries[l] # old
      BY <1>5, <2>3, <3>2
    <3> QED  BY <3>1, <3>2
  <2> HIDE DEF c
  <2>6. s.clock - c.seen <= KeepFor
    <3>1. time - old.seen <= KeepFor
      OBVIOUS
    <3> HIDE DEF old, s
    <3> QED  BY <1>2, <1>3, <2>5, <3>1, Sizes
  <2>7. Known(Usable(c, s.clock))
    <3>1. Usable(c, s.clock) = Projected(c.usage, s.clock)
      <4>1. ~(s.clock - c.seen > KeepFor)
        <5> HIDE DEF s
        <5> QED  BY <1>2, <2>5, <2>6, Sizes
      <4> QED  BY <2>5, <4>1 DEF Usable
    <3>2. TrueEntry(used, c)
      BY <1>2, ForFactsTrue DEF c
    <3>3. TrueUsage(used, c.of, c.usage)
      BY <2>5, <3>2 DEF TrueEntry
    <3> QED  BY <1>2, <2>5, <3>1, <3>3, ProjectedFacts
  <2>8. Failure(s, l).seen = c.seen /\ Failure(s, l).usage = Usable(c, s.clock)
    BY <2>7 DEF Failure, c
  <2> HIDE DEF new
  <2>9. Known(new.usage) /\ new.seen = c.seen
    BY <2>1, <2>7, <2>8
  <2> QED  BY <2>2, <2>5, <2>9 DEF new
<1> QED  BY <1>6, <1>7, <1>8

\* A reading that is still good is not lost: what is written was read under the
\* lock, at the time of the clock it is dated with.
THEOREM ReadingsStay == ASSUME ~Slow, ~Gap PROVE UsageSpec => ReadingKept
<1> DEFINE Keeps ==
      \A l \in Label :
        LET old == cache[l] new == cache'[l] IN
        /\ old # Nothing /\ new # old /\ Known(old.usage) /\ time - old.seen <= KeepFor
        /\ new # Nothing => new.of = old.of /\ new.version = old.version
        => new # Nothing /\ Known(new.usage) /\ new.seen >= old.seen
<1>1. KeptInv /\ [UsageNext]_usageVars => [Keeps]_usageVars
  <2> SUFFICES ASSUME KeptInv, UsageNext PROVE Keeps
    OBVIOUS
  <2>1. CASE \E p \in Status : Fetch(p)
    BY <2>1, FetchKeepsReadings
  <2>2. CASE UNCHANGED cache
    BY <2>2
  <2>3. (\E p \in Status : Fetch(p)) \/ UNCHANGED cache
    BY DEF UsageNext, WorldStep, StatusStep, StartSession, EndSession, Tap, WriteRecord, Expire, Reassign,
           Use, Pass, Collect, Acquire, Reclaim, Unlink, Killed, Reply
  <2> QED  BY <2>1, <2>2, <2>3
<1>2. UsageSpec => []KeptInv
  BY KeptInitially, KeptKept, PTL DEF UsageSpec
<1>3. UsageSpec => [][Keeps]_usageVars
  BY <1>1, <1>2, PTL DEF UsageSpec
<1> QED  BY <1>3 DEF ReadingKept

-----------------------------------------------------------------------------
(* A launch and its supervisor.                                             *)

(* A launch nobody has begun to end. *)
Untroubled == aim = "up" /\ ~aborted

(* The supervisor's process, its flags and Claude's process agree.         *)
ProcessInv ==
    /\ sup = "booting" =>
         child = "none" /\ helper = "none" /\ ~childPaused /\ ~requested
    /\ sup = "ending" => ~Alive
    /\ sup = "up" /\ child = "stopped" => childPaused
    /\ sup = "up" /\ childPaused => child # "running"
    /\ requested <=> killTimer # "unset"
    /\ killTimer = "fired" => ~Alive
    /\ requested => ~childPaused

(* Nothing that ends Claude is under way in an untroubled launch.          *)
CalmInv == Untroubled => link = "open" /\ ~signal /\ ~requested

(* In an untroubled launch the request AIM waits for is on its way, or its *)
(* answer is, and nothing else.  A request was obeyed when it was answered *)
(* so, and a Claude that was paused does not run.                          *)
Held == sup # "booting" /\ child # "running"

RequestInv ==
    Untroubled =>
      \/ /\ asked = NoRequest /\ mail = <<>> /\ acks = <<>>
         /\ paused => Held
      \/ asked # NoRequest /\ mail = <<asked>> /\ acks = <<>>
      \/ /\ asked # NoRequest /\ mail = <<>>
         /\ \E ok \in BOOLEAN :
              /\ acks = <<[id |-> asked.id, action |-> asked.action, ok |-> ok]>>
              /\ ok /\ asked.action = "pause" => Held

(* A launch that is to end has its forced kill set or done; until it is    *)
(* done the supervisor is told, has been told or is leaving.               *)
EndInv ==
    /\ mode = "batch" => asked = NoRequest
    /\ force # "unset" => aborted
    /\ mode = "batch" /\ aborted => force # "unset"
    /\ force = "set" /\ sup \in {"booting", "up"} => signal \/ requested
    /\ mode = "batch" /\ force = "fired" =>
         sup = "gone" /\ ~Alive /\ helper = "none"

(* The end of a launch is noticed after the end of the supervisor, which   *)
(* no Claude outlives.                                                     *)
GoneInv ==
    /\ run # "open" => sup = "gone"
    /\ sup = "gone" => ~Alive \/ overtaken
    /\ mode = "batch" /\ run = "closed" /\ aborted => force = "fired"

IInv == TypeOK /\ ProcessInv /\ CalmInv /\ RequestInv /\ EndInv /\ GoneInv

-----------------------------------------------------------------------------
(* Queues of one message.                                                  *)

LEMMA QueueFacts ==
    ASSUME NEW S, NEW s \in Seq(S)
    PROVE  /\ <<>> \in Seq(S)
           /\ \A e \in S : Append(s, e) \in Seq(S)
           /\ s # <<>> => Head(s) \in S /\ Tail(s) \in Seq(S)
<1>1. s # <<>> => Head(s) \in S /\ Tail(s) \in Seq(S)
  BY HeadTailProperties
<1> QED BY <1>1, EmptySeq

LEMMA SingleFacts ==
    ASSUME NEW e
    PROVE  /\ Append(<<>>, e) = <<e>>
           /\ Head(<<e>>) = e
           /\ Tail(<<e>>) = <<>>
           /\ <<e>> # <<>>
OBVIOUS

-----------------------------------------------------------------------------
(* Every step preserves the invariant: one lemma per action.               *)

LEMMA AbortStep == ASSUME IInv, Abort PROVE IInv'
<1> USE DEF IInv, Abort, Terminate, Running, wires, supervisor, processes
<1>1. TypeOK' BY DEF TypeOK, Timer
<1>2. (ProcessInv /\ CalmInv /\ RequestInv)'
  BY DEF ProcessInv, CalmInv, RequestInv, Untroubled, Alive
<1>3. (EndInv /\ GoneInv)'
  BY DEF EndInv, GoneInv, Alive, TypeOK
<1> QED BY <1>1, <1>2, <1>3

LEMMA AskStep ==
    ASSUME IInv, NEW action \in Actions, Ask(action)
    PROVE  IInv'
<1> USE DEF IInv, Ask, Running, supervisor, processes
<1>1. /\ requests' \in 1 .. MaxRequests
      /\ asked' = [id |-> requests', action |-> action]
      /\ asked' \in Request /\ asked' # NoRequest
  BY RequestsAssumption DEF TypeOK, Request, NoRequest
<1>2. Append(mail, asked') \in Seq(Request)
  BY <1>1, QueueFacts DEF TypeOK
<1>3. TypeOK' BY <1>1, <1>2, RequestsAssumption DEF TypeOK
<1>4. RequestInv'
  BY <1>1, SingleFacts DEF RequestInv, Untroubled, Held
<1>5. (ProcessInv /\ CalmInv /\ EndInv /\ GoneInv)'
  BY DEF ProcessInv, CalmInv, Untroubled, EndInv, GoneInv, Alive
<1> QED BY <1>3, <1>4, <1>5

(* Both ways a request is settled; it is the one AIM waits for.            *)
LEMMA SettledFacts ==
    ASSUME IInv, NEW ok \in BOOLEAN, Settled(ok), mode' = mode, run' = run, sup' = sup
    PROVE  /\ asked' = NoRequest
           /\ aborted' \in BOOLEAN /\ paused' \in BOOLEAN
           /\ force' \in Timer /\ signal' \in BOOLEAN
           /\ aborted => aborted' /\ UNCHANGED <<force, signal>>
           /\ ~aborted' => /\ ok /\ UNCHANGED <<aborted, force, signal>>
                           /\ paused' => asked.action = "pause"
           /\ ~aborted /\ aborted' => force' = "set" /\ signal' = (sup # "gone")
BY DEF IInv, TypeOK, Settled, Terminate, Timer

LEMMA AnswerStep == ASSUME IInv, Answer PROVE IInv'
<1> DEFINE matches == /\ asked # NoRequest
                      /\ Head(acks).id = asked.id
                      /\ Head(acks).action = asked.action
           Ack == [id : 1 .. MaxRequests, action : Actions, ok : BOOLEAN]
<1> USE DEF IInv, Answer, Running, supervisor, processes
<1>1. acks \in Seq(Ack) /\ acks # <<>>
  BY DEF TypeOK
<1>2. Head(acks) \in Ack /\ Tail(acks) \in Seq(Ack)
  BY <1>1, QueueFacts
<1>3. Head(acks).ok \in BOOLEAN
  BY <1>2
<1>4. CASE matches
  <2>1. Settled(Head(acks).ok)
    BY <1>4
  <2>2. /\ asked' = NoRequest
        /\ aborted' \in BOOLEAN /\ paused' \in BOOLEAN
        /\ force' \in Timer /\ signal' \in BOOLEAN
        /\ aborted => aborted' /\ UNCHANGED <<force, signal>>
        /\ ~aborted' => /\ Head(acks).ok /\ UNCHANGED <<aborted, force, signal>>
                        /\ paused' => asked.action = "pause"
        /\ ~aborted /\ aborted' => force' = "set" /\ signal' = (sup # "gone")
    BY <1>3, <2>1, SettledFacts
  <2>3. TypeOK'
    BY <1>2, <2>2 DEF TypeOK
  <2>4. RequestInv'
    <3>1. SUFFICES ASSUME Untroubled' PROVE RequestInv'
      BY DEF RequestInv
    <3>2. Untroubled
      BY <2>2, <3>1 DEF Untroubled
    <3>3. PICK ok \in BOOLEAN :
            /\ mail = <<>>
            /\ acks = <<[id |-> asked.id, action |-> asked.action, ok |-> ok]>>
            /\ ok /\ asked.action = "pause" => Held
      BY <1>1, <1>4, <3>2 DEF RequestInv
    <3>4. Head(acks) = [id |-> asked.id, action |-> asked.action, ok |-> ok]
          /\ Tail(acks) = <<>>
      BY <3>3, SingleFacts
    <3>5. paused' => Held'
      BY <2>2, <3>1, <3>3, <3>4 DEF Untroubled, Held
    <3> QED BY <2>2, <3>3, <3>4, <3>5 DEF RequestInv
  <2>5. (ProcessInv /\ CalmInv)'
    BY <2>2 DEF ProcessInv, CalmInv, Untroubled, Alive
  <2>6. (EndInv /\ GoneInv)'
    BY <1>4, <2>2 DEF EndInv, GoneInv, Alive, TypeOK
  <2> QED BY <2>3, <2>4, <2>5, <2>6
<1>5. CASE ~matches
  <2>1. UNCHANGED <<asked, paused, aborted, force, signal>>
    BY <1>5
  <2>2. TypeOK'
    BY <1>2, <2>1 DEF TypeOK
  <2>3. ~Untroubled
    <3>1. SUFFICES ASSUME Untroubled PROVE FALSE
      OBVIOUS
    <3>2. PICK ok \in BOOLEAN :
            /\ asked # NoRequest
            /\ acks = <<[id |-> asked.id, action |-> asked.action, ok |-> ok]>>
      BY <1>1, <3>1 DEF RequestInv
    <3>3. Head(acks) = [id |-> asked.id, action |-> asked.action, ok |-> ok]
      BY <3>2, SingleFacts
    <3> QED BY <1>5, <3>2, <3>3
  <2>4. (ProcessInv /\ CalmInv /\ RequestInv /\ EndInv /\ GoneInv)'
    BY <2>1, <2>3 DEF ProcessInv, CalmInv, RequestInv, EndInv, GoneInv, Untroubled, Alive
  <2> QED BY <2>2, <2>4
<1> QED BY <1>4, <1>5

LEMMA UnansweredStep == ASSUME IInv, Unanswered PROVE IInv'
<1> USE DEF IInv, Unanswered, Running, supervisor, processes
<1>1. /\ asked' = NoRequest
      /\ aborted' \in BOOLEAN /\ paused' \in BOOLEAN
      /\ force' \in Timer /\ signal' \in BOOLEAN
      /\ aborted => aborted' /\ UNCHANGED <<force, signal>>
      /\ aborted'
      /\ ~aborted /\ aborted' => force' = "set" /\ signal' = (sup # "gone")
  BY SettledFacts
<1>2. TypeOK' BY <1>1 DEF TypeOK
<1>3. (ProcessInv /\ CalmInv /\ RequestInv)'
  BY <1>1 DEF ProcessInv, CalmInv, RequestInv, Untroubled, Alive
<1>4. (EndInv /\ GoneInv)'
  BY <1>1 DEF EndInv, GoneInv, Alive, TypeOK
<1> QED BY <1>2, <1>3, <1>4

LEMMA KillSupervisorStep == ASSUME IInv, KillSupervisor PROVE IInv'
<1> USE DEF IInv, KillSupervisor, Running, wires
<1>1. TypeOK' BY DEF TypeOK, Timer
<1>2. (ProcessInv /\ CalmInv /\ RequestInv)'
  BY DEF ProcessInv, CalmInv, RequestInv, EndInv, Untroubled, Alive
<1>3. EndInv'
  BY DEF EndInv, Alive
<1>4. GoneInv'
  BY DEF GoneInv, EndInv, ProcessInv, TypeOK, Timer, Alive
<1> QED BY <1>1, <1>2, <1>3, <1>4

LEMMA KillGroupStep == ASSUME IInv, KillGroup PROVE IInv'
<1> USE DEF IInv, KillGroup, Running, wires
<1>1. TypeOK' BY DEF TypeOK, Timer
<1>2. (ProcessInv /\ CalmInv /\ RequestInv)'
  BY DEF ProcessInv, CalmInv, RequestInv, EndInv, Untroubled, Alive
<1>3. (EndInv /\ GoneInv)'
  BY DEF EndInv, GoneInv, Alive
<1> QED BY <1>1, <1>2, <1>3

LEMMA CloseStep == ASSUME IInv, Close PROVE IInv'
<1> USE DEF IInv, Close, wires, supervisor, processes
<1>1. TypeOK' BY DEF TypeOK
<1>2. (ProcessInv /\ CalmInv)'
  BY DEF ProcessInv, CalmInv, Untroubled, Alive
<1>3. RequestInv'
  BY DEF RequestInv, Untroubled, Held
<1>4. (EndInv /\ GoneInv)'
  BY DEF EndInv, GoneInv, Alive, TypeOK, Timer
<1> QED BY <1>1, <1>2, <1>3, <1>4

LEMMA CrashStep == ASSUME IInv, Crash PROVE IInv'
<1> USE DEF IInv, Crash, supervisor, processes
<1>1. TypeOK'
  <2>1. signal' = signal \/ signal' = TRUE
    OBVIOUS
  <2>2. signal' \in BOOLEAN
    BY <2>1 DEF TypeOK
  <2> QED BY <2>2 DEF TypeOK
<1>2. (ProcessInv /\ CalmInv /\ RequestInv /\ EndInv /\ GoneInv)'
  BY DEF ProcessInv, CalmInv, RequestInv, EndInv, GoneInv, Untroubled, Alive
<1> QED BY <1>1, <1>2

LEMMA StartStep == ASSUME IInv, Start PROVE IInv'
<1> USE DEF IInv, Start, runner, wires
<1>1. TypeOK' BY DEF TypeOK
<1>2. (ProcessInv /\ CalmInv)'
  BY DEF ProcessInv, CalmInv, Untroubled, Alive, TypeOK, Timer
<1>3. RequestInv'
  BY DEF RequestInv, Untroubled, Held
<1>4. (EndInv /\ GoneInv)'
  BY DEF EndInv, GoneInv, Alive
<1> QED BY <1>1, <1>2, <1>3, <1>4

LEMMA MissDisconnectStep == ASSUME IInv, MissDisconnect PROVE IInv'
<1> USE DEF IInv, MissDisconnect, runner, supervisor, processes
<1>1. TypeOK' BY DEF TypeOK
<1>2. (ProcessInv /\ CalmInv /\ RequestInv /\ EndInv /\ GoneInv)'
  BY DEF ProcessInv, CalmInv, RequestInv, EndInv, GoneInv, Untroubled, Alive, Held
<1> QED BY <1>1, <1>2

LEMMA HandleSignalStep == ASSUME IInv, HandleSignal PROVE IInv'
<1> USE DEF IInv, HandleSignal, RequestTermination, runner
<1>1. TypeOK'
  <2>1. childPaused' \in BOOLEAN /\ requested' \in BOOLEAN
    BY DEF TypeOK
  <2>2. child' \in {"none", "running", "stopped", "gone"}
    BY DEF TypeOK
  <2>3. sup' \in {"booting", "up", "ending", "gone"}
    BY DEF TypeOK
  <2>4. killTimer' \in Timer
    BY DEF TypeOK, Timer
  <2>5. signal' \in BOOLEAN /\ UNCHANGED <<mode, runner, link, mail, acks, helper, overtaken>>
    OBVIOUS
  <2> QED BY <2>1, <2>2, <2>3, <2>4, <2>5 DEF TypeOK
<1>2. ~Untroubled' /\ UNCHANGED aborted
  BY DEF CalmInv, Untroubled
<1>3. ProcessInv'
  BY DEF ProcessInv, Alive, TypeOK, Timer
<1>4. (CalmInv /\ RequestInv)'
  BY <1>2 DEF CalmInv, RequestInv
<1>5. EndInv'
  BY DEF EndInv, ProcessInv, Alive
<1>6. GoneInv'
  BY DEF GoneInv, ProcessInv, Alive, TypeOK
<1> QED BY <1>1, <1>3, <1>4, <1>5, <1>6

LEMMA HandleDisconnectStep == ASSUME IInv, HandleDisconnect PROVE IInv'
<1> USE DEF IInv, HandleDisconnect, RequestTermination, runner
<1>1. TypeOK'
  <2>1. childPaused' \in BOOLEAN /\ requested' \in BOOLEAN
    BY DEF TypeOK
  <2>2. /\ child' \in {"none", "running", "stopped", "gone"}
        /\ sup' \in {"booting", "up", "ending", "gone"} /\ killTimer' \in Timer
    BY DEF TypeOK, Timer
  <2> QED BY <2>1, <2>2 DEF TypeOK
<1>2. ~Untroubled'
  BY DEF CalmInv, Untroubled
<1>3. ProcessInv'
  BY DEF ProcessInv, Alive, TypeOK, Timer
<1>4. (CalmInv /\ RequestInv)'
  BY <1>2 DEF CalmInv, RequestInv
<1>5. (EndInv /\ GoneInv)'
  BY DEF EndInv, GoneInv, ProcessInv, Alive
<1> QED BY <1>1, <1>3, <1>4, <1>5

LEMMA HandleControlStep == ASSUME IInv, HandleControl PROVE IInv'
<1> DEFINE action == Head(mail).action
           answer == [id |-> Head(mail).id, action |-> action, ok |-> Obeyed(action)]
<1> USE DEF IInv, HandleControl, runner
<1>1. Head(mail) \in Request /\ Tail(mail) \in Seq(Request)
  BY QueueFacts DEF TypeOK
<1>2. action \in Actions
  BY <1>1 DEF Request
<1>3. acks' = IF aim = "up" THEN Append(acks, answer) ELSE acks
  BY DEF Acknowledge
<1>4. /\ child' \in {"none", "running", "stopped", "gone"} /\ childPaused' \in BOOLEAN
      /\ Alive <=> Alive'
      /\ child' = "stopped" => childPaused'
      /\ childPaused' => child' # "running"
      /\ requested => UNCHANGED <<child, childPaused>>
      /\ Obeyed(action) /\ action = "pause" => child' # "running"
  BY <1>2 DEF TypeOK, ProcessInv, Obeyed, Alive, Actions
<1>5. Obeyed(action) \in BOOLEAN
  BY <1>2 DEF Obeyed, Alive
<1>6. TypeOK'
  <2>1. answer \in [id : 1 .. MaxRequests, action : Actions, ok : BOOLEAN]
    BY <1>1, <1>2, <1>5 DEF Request
  <2>2. acks' \in Seq([id : 1 .. MaxRequests, action : Actions, ok : BOOLEAN])
    BY <1>3, <2>1, QueueFacts DEF TypeOK
  <2> QED BY <1>1, <1>4, <2>2 DEF TypeOK
<1>7. RequestInv'
  <2>1. SUFFICES ASSUME Untroubled' PROVE RequestInv'
    BY DEF RequestInv
  <2>2. asked # NoRequest /\ mail = <<asked>> /\ acks = <<>>
    BY <2>1 DEF RequestInv, Untroubled
  <2>3. Head(mail) = asked /\ Tail(mail) = <<>> /\ acks' = <<answer>>
    BY <1>3, <2>1, <2>2, SingleFacts DEF Untroubled
  <2>4. Obeyed(action) /\ action = "pause" => Held'
    BY <1>4 DEF Held
  <2>5. answer = [id |-> asked'.id, action |-> asked'.action, ok |-> Obeyed(action)]
    BY <2>3
  <2> QED BY <1>5, <2>2, <2>3, <2>4, <2>5 DEF RequestInv
<1>8. (ProcessInv /\ CalmInv)'
  BY <1>4 DEF ProcessInv, CalmInv, Untroubled
<1>9. (EndInv /\ GoneInv)'
  BY <1>4 DEF EndInv, GoneInv
<1> QED BY <1>6, <1>7, <1>8, <1>9

LEMMA ProcessSteps ==
    ASSUME IInv, \/ KillClaude \/ ClaudeClosed \/ SupervisorExits
                 \/ ClaudeExits \/ HelperEnds
    PROVE  IInv'
<1> USE DEF IInv, runner, wires
<1>1. CASE KillClaude
  BY <1>1 DEF KillClaude, TypeOK, Timer, ProcessInv, CalmInv, RequestInv,
     EndInv, GoneInv, Untroubled, Alive, Held
<1>2. CASE ClaudeClosed
  BY <1>2 DEF ClaudeClosed, processes, TypeOK, ProcessInv, CalmInv, RequestInv,
     EndInv, GoneInv, Untroubled, Alive, Held
<1>3. CASE SupervisorExits
  BY <1>3 DEF SupervisorExits, processes, TypeOK, ProcessInv, CalmInv,
     RequestInv, EndInv, GoneInv, Untroubled, Alive, Held
<1>4. CASE ClaudeExits
  BY <1>4 DEF ClaudeExits, supervisor, TypeOK, ProcessInv, CalmInv, RequestInv,
     EndInv, GoneInv, Untroubled, Alive, Held
<1>5. CASE HelperEnds
  BY <1>5 DEF HelperEnds, supervisor, TypeOK, ProcessInv, CalmInv, RequestInv,
     EndInv, GoneInv, Untroubled, Alive, Held
<1> QED BY <1>1, <1>2, <1>3, <1>4, <1>5

-----------------------------------------------------------------------------
(* The invariant, and the properties it gives.                             *)

LEMMA InitInv == Init => IInv
<1>1. \A S : <<>> \in Seq(S)
  BY EmptySeq
<1>2. Init => TypeOK
  <2>1. SUFFICES ASSUME Init PROVE TypeOK
    OBVIOUS
  <2>2. mail \in Seq(Request)
        /\ acks \in Seq([id : 1 .. MaxRequests, action : Actions, ok : BOOLEAN])
    BY <1>1, <2>1 DEF Init
  <2>3. /\ aborted \in BOOLEAN /\ paused \in BOOLEAN /\ signal \in BOOLEAN
        /\ childPaused \in BOOLEAN /\ requested \in BOOLEAN /\ overtaken \in BOOLEAN
    BY <2>1 DEF Init
  <2>4. requests \in 0 .. MaxRequests
    BY <2>1, RequestsAssumption DEF Init
  <2> QED BY <2>1, <2>2, <2>3, <2>4 DEF Init, TypeOK, Timer
<1>3. Init => ProcessInv /\ CalmInv /\ RequestInv /\ EndInv /\ GoneInv
  BY DEF Init, ProcessInv, CalmInv, RequestInv, EndInv, GoneInv, Untroubled, Alive
<1> QED BY <1>2, <1>3 DEF IInv

LEMMA NextInv == IInv /\ [Next]_vars => IInv'
<1>1. SUFFICES ASSUME IInv, [Next]_vars PROVE IInv'
  OBVIOUS
<1>2. CASE UNCHANGED vars
  BY <1>1, <1>2 DEF vars, runner, wires, supervisor, processes, IInv, TypeOK,
     ProcessInv, CalmInv, RequestInv, EndInv, GoneInv, Untroubled, Alive, Held
<1> QED BY <1>1, <1>2, AbortStep, AskStep, AnswerStep, UnansweredStep,
     KillSupervisorStep, KillGroupStep, CloseStep, CrashStep, StartStep,
     MissDisconnectStep, HandleSignalStep, HandleDisconnectStep,
     HandleControlStep, ProcessSteps DEF Next

LEMMA AlwaysInv == Spec => []IInv
BY InitInv, NextInv, PTL DEF Spec

(* Every variable stays within its type.                                   *)
THEOREM SupervisorTypeCorrect == Spec => []TypeOK
<1>1. IInv => TypeOK BY DEF IInv
<1> QED BY <1>1, AlwaysInv, PTL

(* Between an acknowledged pause and its resume Claude does not run: the   *)
(* acknowledgement belongs to the request AIM waits for, and nothing       *)
(* continues Claude but the end of the launch.                             *)
THEOREM HeldStopped == Spec => []HeldMeansStopped
<1>1. IInv => HeldMeansStopped
  BY DEF IInv, TypeOK, RequestInv, Untroubled, Held, HeldMeansStopped
<1> QED BY <1>1, AlwaysInv, PTL

(* Whatever requests are still on their way, a Claude that is being ended  *)
(* has been continued and stays so.                                        *)
THEOREM EndedContinued == Spec => []EndedNotStopped
<1>1. IInv => EndedNotStopped
  BY DEF IInv, ProcessInv, EndedNotStopped
<1> QED BY <1>1, AlwaysInv, PTL

(* A supervisor that is gone has left no Claude behind, except when AIM's  *)
(* SIGKILL overtook it.                                                    *)
THEOREM NoneOutlives == Spec => []NothingOutlives
<1>1. IInv => NothingOutlives
  BY DEF IInv, TypeOK, GoneInv, NothingOutlives
<1> QED BY <1>1, AlwaysInv, PTL

(* The result of a terminated batch is reported after its whole group has  *)
(* been killed.                                                            *)
THEOREM NoneLeft == Spec => []GroupGone
<1>1. IInv => GroupGone
  BY DEF IInv, EndInv, GoneInv, GroupGone
<1> QED BY <1>1, AlwaysInv, PTL

=============================================================================
