---------------------------- MODULE CodexPoolProofs ----------------------------
(***************************************************************************)
(* Proofs about the Codex accounts: the choice of one, and the copy of a   *)
(* thread for another.                                                     *)
(*                                                                         *)
(* The choice, for every number of accounts and of processes, every usage, *)
(* every expiry of tokens and every bound:                                 *)
(*   PoolTypeCorrect   every variable keeps to its type;                   *)
(*   PoolWalked        launches walk the pool without early repeats;       *)
(*   TokensKept        refreshed tokens are in Redis before auth.json is   *)
(*                     given to another account, and no record is undone;  *)
(*   WatchedForCause   a watcher takes auth.json away for a known cause.   *)
(*                                                                         *)
(* The argument: a snapshot is of an older version of a record, or has a   *)
(* token at least as new; a runner has seen to it that the tokens it found *)
(* are in Redis; the walk is the end of the history that the next          *)
(* selection reads, so an account among its last ones is avoided by the    *)
(* cycle, unless all the accounts to choose from have come since.          *)
(*                                                                         *)
(* The copy, for every number of commands and accounts, every option, and  *)
(* every bound, for rollouts without short ids:                            *)
(*   CopyTypeCorrect   every variable keeps to its type;                   *)
(*   CopiesUnlinkable  threads of two accounts have no identifier in       *)
(*                     common, nor a uuid of one in a text of the other;   *)
(*   CopiesFaithful    a copy says what its thread said, with the          *)
(*                     encrypted items that were kept, and its ids pair.   *)
(*                                                                         *)
(* The argument: the ids a rewriting mints are new and differ as the old   *)
(* ones do; a copy that was found clean has none of the ids it retires,    *)
(* and what Codex writes later has new ones; so the ids by which a thread  *)
(* is known, but for those it has retired, are those of no other thread.   *)
(***************************************************************************)
EXTENDS CodexPool, ThreadCopy, TLAPS, FiniteSetTheorems, WellFoundedInduction

(* Every nonempty set of numbers has a least one. *)
Smaller == {r \in Nat \X Nat : r[1] < r[2]}

LEMMA LeastNumber ==
    ASSUME NEW S \in SUBSET Nat, S # {}
    PROVE  \E n \in S : \A m \in S : n <= m
<1>1. OpToRel(<, Nat) = Smaller
  BY DEF OpToRel, Smaller
<1>2. IsWellFoundedOn(Smaller, Nat)
  BY <1>1, NatLessThanWellFounded
<1>3. PICK n \in S : \A m \in S : ~(<<m, n>> \in Smaller)
  BY <1>2, WFMin
<1>4. n \in Nat
  OBVIOUS
<1>5. ASSUME NEW m \in S, m < n PROVE FALSE
  <2>1. <<m, n>> \in Nat \X Nat /\ <<m, n>>[1] < <<m, n>>[2]
    BY <1>4, <1>5
  <2> QED  BY <1>3, <2>1 DEF Smaller
<1>6. \A m \in S : m \in Nat /\ ~(m < n)
  BY <1>5
<1> QED  BY <1>4, <1>6

LEMMA KnownLevels ==
    ASSUME NEW u \in Known
    PROVE  u.primary \in 0..100 /\ u.secondary \in 0..100
BY ConstantsAssumption DEF Known, Unknown

(* Of some accounts one is used least, and LeastUsed is it. *)
LEMMA LeastUsedIs ==
    ASSUME NEW S \in SUBSET Label, S # {}, NEW u \in [Label -> Known]
    PROVE  /\ LeastUsed(S, u) \in S
           /\ \A k \in S : Before(LeastUsed(S, u), k, u)
           /\ \A k \in S : u[LeastUsed(S, u)].primary <= u[k].primary
<1>1. \A l \in Label : l \in Nat /\ u[l].primary \in Nat
  <2>1. \A l \in Label : u[l] \in Known
    OBVIOUS
  <2>2. \A v \in Known : v.primary \in Nat
    BY KnownLevels
  <2>3. Label \subseteq Nat
    BY ConstantsAssumption DEF Label
  <2> QED  BY <2>1, <2>2, <2>3
<1> DEFINE levels == {u[l].primary : l \in S}
<1>2. PICK m \in levels : \A n \in levels : m <= n
  <2>1. levels \in SUBSET Nat
    BY <1>1
  <2>2. levels # {}
    OBVIOUS
  <2> HIDE DEF levels
  <2> QED  BY <2>1, <2>2, LeastNumber
<1> DEFINE lowest == {l \in S : u[l].primary = m}
<1>3. lowest # {} /\ lowest \in SUBSET Nat
  BY <1>1
<1>4. PICK l \in lowest : \A k \in lowest : l <= k
  <2> HIDE DEF lowest
  <2> QED  BY <1>3, LeastNumber
<1>5. ASSUME NEW k \in S PROVE Before(l, k, u)
  <2>0. l \in S /\ u[l].primary = m
    BY <1>4
  <2>1. m <= u[k].primary
    <3>1. u[k].primary \in levels
      OBVIOUS
    <3> QED  BY <1>2, <3>1
  <2>2. u[k].primary = m => l <= k
    <3>1. u[k].primary = m => k \in lowest
      OBVIOUS
    <3> QED  BY <1>4, <3>1
  <2>3. m \in Nat /\ u[k].primary \in Nat
    BY <1>1, <2>0
  <2> QED  BY <2>0, <2>1, <2>2, <2>3 DEF Before
<1>6. \E c \in S : \A k \in S : Before(c, k, u)
  BY <1>4, <1>5
<1>7. /\ LeastUsed(S, u) \in S
      /\ \A k \in S : Before(LeastUsed(S, u), k, u)
  BY <1>6 DEF LeastUsed
<1> DEFINE least == LeastUsed(S, u)
<1> HIDE DEF least
<1>8. \A k \in S : u[least].primary <= u[k].primary
  <2>1. \A k \in S : u[least].primary \in Nat /\ u[k].primary \in Nat /\ Before(least, k, u)
    BY <1>1, <1>7 DEF least
  <2> QED  BY <2>1 DEF Before
<1> QED  BY <1>7, <1>8 DEF least

LEMMA LabelsFinite ==
    ASSUME NEW S \in SUBSET Label
    PROVE  IsFiniteSet(S) /\ Cardinality(S) \in Nat
<1>1. IsFiniteSet(Label)
  BY FS_Interval, ConstantsAssumption DEF Label
<1> QED  BY <1>1, FS_Subset, FS_CardinalityType

(* The accounts that were selected since the i-th selection. *)
Since(recent, i) == {recent[j] : j \in i..Len(recent)}

(* They are as many as the selections, at most. *)
LEMMA SinceBounded ==
    ASSUME NEW recent \in Seq(Label), NEW i \in 1..Len(recent)
    PROVE  /\ Since(recent, i) \subseteq Label
           /\ Cardinality(Since(recent, i)) <= Len(recent) - i + 1
<1> DEFINE f == [j \in i..Len(recent) |-> recent[j]]
<1>0. Len(recent) \in Nat /\ \A j \in i..Len(recent) : recent[j] \in Label
  OBVIOUS
<1>1. f \in Surjection(i..Len(recent), Since(recent, i))
  BY DEF Since, Surjection
<1>2. IsFiniteSet(i..Len(recent)) /\ Cardinality(i..Len(recent)) = Len(recent) - i + 1
  BY <1>0, FS_Interval
<1>3. Cardinality(Since(recent, i)) <= Cardinality(i..Len(recent))
  BY <1>1, <1>2, FS_Surjection DEF ExistsSurjection
<1> QED  BY <1>0, <1>2, <1>3 DEF Since

(* The cycle leaves an account to choose, one that was not selected lately:   *)
(* if it ever was, all the accounts to choose from have been selected since.  *)
LEMMA CycleLeaves ==
    ASSUME NEW S \in SUBSET Label, S # {}, NEW recent \in Seq(Label)
    PROVE  S \ CycleAvoid(S, recent) # {}
<1> DEFINE late == {i \in DOMAIN recent : /\ recent[i] \in S
                      /\ Cardinality(S \cap Since(recent, i)) < Cardinality(S)}
<1>1. CycleAvoid(S, recent) = {recent[i] : i \in late}
  BY DEF CycleAvoid, Since
<1>2. SUFFICES ASSUME S \subseteq CycleAvoid(S, recent) PROVE FALSE
  OBVIOUS
<1>3. late # {} /\ late \in SUBSET Nat
  <2>1. \E l \in {recent[i] : i \in late} : TRUE
    BY <1>1, <1>2
  <2>2. DOMAIN recent \subseteq Nat
    OBVIOUS
  <2> QED  BY <2>1, <2>2
<1>4. PICK i \in late : \A j \in late : i <= j
  <2> HIDE DEF late
  <2> QED  BY <1>3, LeastNumber
<1>5. ASSUME NEW l \in S PROVE l \in Since(recent, i)
  <2>1. PICK j \in late : recent[j] = l
    <3>1. l \in {recent[k] : k \in late}
      BY <1>1, <1>2
    <3> QED  BY <3>1
  <2>2. j \in i..Len(recent)
    <3>1. i \in 1..Len(recent) /\ j \in 1..Len(recent) /\ i <= j
      BY <1>4
    <3> QED  BY <3>1
  <2> QED  BY <2>1, <2>2 DEF Since
<1>6. S \cap Since(recent, i) = S
  BY <1>5
<1>7. Cardinality(S) \in Nat
  BY LabelsFinite
<1>8. Cardinality(S \cap Since(recent, i)) < Cardinality(S)
  BY <1>4
<1>9. Cardinality(S) < Cardinality(S)
  BY <1>6, <1>8
<1> QED  BY <1>7, <1>9

LEMMA PickIs ==
    ASSUME NEW S \in SUBSET Label, S # {}, NEW u \in [Label -> Known],
           NEW recent \in Seq(Label)
    PROVE  PickLeastUsed(S, u, recent) \in S \ CycleAvoid(S, recent)
<1>1. S \ CycleAvoid(S, recent) \in SUBSET Label /\ S \ CycleAvoid(S, recent) # {}
  BY CycleLeaves
<1> QED  BY <1>1, LeastUsedIs DEF PickLeastUsed

LEMMA EligibleLabels ==
    ASSUME NEW r, NEW u
    PROVE  /\ Eligible(r, u) \subseteq Label
           /\ \A l \in Eligible(r, u) : u[l].known /\ ~Exhausted(u[l])
           /\ \A l \in CredentialEligible(r) : l \notin Eligible(r, u) =>
                 ~u[l].known \/ Exhausted(u[l])
BY DEF Eligible, CredentialEligible

(* The next best account is used no more than any that could be chosen. *)
LEMMA NextBestIs ==
    ASSUME NEW S \in SUBSET Label, S # {}, NEW u \in [Label -> Known]
    PROVE  /\ PickNextBest(S, u) \in S
           /\ \A k \in S : u[PickNextBest(S, u)].primary <= u[k].primary
<1> DEFINE above == {l \in S : Remaining(u[l]) >= 80}
           from == IF above # {} THEN above ELSE S
           best == LeastUsed(from, u)
<1>0. PickNextBest(S, u) = best
  BY DEF PickNextBest
<1>1. \A l \in Label : u[l].primary \in 0..100
  BY KnownLevels
<1>2. best \in from /\ \A k \in from : u[best].primary <= u[k].primary
  BY LeastUsedIs
<1>3. ASSUME NEW k \in S PROVE u[best].primary <= u[k].primary
  <2>1. u[k].primary \in 0..100 /\ u[best].primary \in 0..100
    <3>1. best \in Label /\ k \in Label
      BY <1>2
    <3> QED  BY <1>1, <3>1
  <2>2. CASE k \in from
    BY <1>2, <2>2
  <2>3. CASE k \notin from
    <3>1. above # {} /\ best \in above /\ ~(Remaining(u[k]) >= 80)
      BY <1>2, <2>3
    <3>2. 100 - u[best].primary >= 80 /\ ~(100 - u[k].primary >= 80)
      BY <3>1 DEF Remaining
    <3> QED  BY <2>1, <3>2
  <2> QED  BY <2>2, <2>3
<1> QED  BY <1>0, <1>2, <1>3

-----------------------------------------------------------------------------
(* The inductive invariant.                                                *)

(* A runner holds the lock while it works; only a watcher publishes late, and *)
(* has no label to use.                                                       *)
RoleInv(p) ==
    /\ p \in Watcher => want[p] = 0
    /\ p \in Runner /\ pc[p] # "idle" => lock = p
    /\ pc[p] = "late" => p \in Watcher
    /\ pc[p] = "publish" => p \in Runner
    /\ pc[p] \in {"publish", "late"} => view[p].status = "local_newer"

(* A snapshot is of an older record, or of the same one with a token that is  *)
(* at least as new; until it is reconciled its tokens are the record's.       *)
SnapshotInv(p) ==
    /\ pc[p] \notin {"idle", "read"} =>
         \A k \in Label :
            /\ view[p].redis[k].version <= redis[k].version
            /\ view[p].redis[k].version = redis[k].version =>
                 /\ view[p].redis[k].barred = redis[k].barred
                 /\ redis[k].token <= view[p].redis[k].token
    /\ pc[p] = "reconcile" =>
         \A k \in Label : view[p].redis[k].token <= redis[k].token

(* The tokens that a command found in auth.json: the fresher ones are in its  *)
(* view, and a runner that goes on to choose has seen to it that Redis's are  *)
(* no older.                                                                  *)
FoundInv(p) ==
    LET found == view[p].found IN
    /\ pc[p] \in {"publish", "probe", "select", "late"} /\ view[p].status = "local_newer" =>
         /\ found.label \in Label
         /\ view[p].redis[found.label].token = found.token
    /\ p \in Runner /\ pc[p] \in {"probe", "select"} /\ view[p].status # "conflict"
       /\ found.label # 0 =>
         found.token <= redis[found.label].token

ProcessInv(p) == RoleInv(p) /\ SnapshotInv(p) /\ FoundInv(p)

(* The walk is the end of the history that the next selection reads, and its  *)
(* last account is the current one.                                           *)
Tracks(recent, last) ==
    walk # <<>> =>
      /\ Len(walk) <= Len(recent)
      /\ \A i \in 1..Len(walk) : walk[i] = recent[Len(recent) - Len(walk) + i]
      /\ last = walk[Len(walk)]

Loaded == {"publish", "probe", "select", "save"}

WalkInv ==
    /\ \A p \in Runner : pc[p] \in Loaded => Tracks(view[p].recent, view[p].active)
    /\ (\A p \in Runner : pc[p] # "save") => Tracks(local.recent, local.active)
    /\ walk # <<>> => auth.label \in {0, walk[Len(walk)]}
    /\ NoEarlyRepeat

IInv ==
    /\ PoolTypeOK
    /\ \A p \in Process : ProcessInv(p)
    /\ WalkInv

LEMMA Bounds ==
    /\ Label \subseteq Nat \ {0} /\ Label \cup {0} = 0..NumLabels
    /\ Token \subseteq Nat \ {0} /\ 1 \in Token
    /\ NoView \in ViewSet /\ NoUsage \in [Label -> Known] /\ NoEntry \in EntrySet
    /\ NoAuth.label = 0 /\ NoAuth.token = 0
<1>1. /\ Label \subseteq Nat \ {0} /\ Label \cup {0} = 0..NumLabels
      /\ Token \subseteq Nat \ {0} /\ 1 \in Token
  BY ConstantsAssumption DEF Label
<1>2. NoView \in ViewSet
  BY <1>1, ConstantsAssumption DEF NoView, ViewSet, RecordSet, AuthSet, Statuses
<1>3. NoUsage \in [Label -> Known] /\ NoEntry \in EntrySet
  BY DEF NoUsage, NoEntry, EntrySet, Known
<1> QED  BY <1>1, <1>2, <1>3 DEF NoAuth

(* An account found, if there is one, is a place in auth.json. *)
LEMMA Places ==
    ASSUME NEW a \in AuthSet
    PROVE  /\ a.label \in 0..NumLabels
           /\ a.label # 0 => a.label \in Label /\ a.token \in Token
           /\ a.label = 0 => a = NoAuth
BY Bounds DEF AuthSet, NoAuth

(* The claims of a fresher token are those of a later one. *)
LEMMA FresherIsLater ==
    ASSUME NEW l \in Label, NEW s \in Token, NEW t \in Token
    PROVE  /\ Expiry[l][s] \in Nat /\ Expiry[l][t] \in Nat
           /\ Expiry[l][s] < Expiry[l][t] => s < t
           /\ s <= t => Expiry[l][s] <= Expiry[l][t]
<1>1. s \in Nat /\ t \in Nat
  BY Bounds
<1>2. Expiry[l][s] \in Nat /\ Expiry[l][t] \in Nat
  BY ConstantsAssumption
<1>3. /\ s < t => Expiry[l][s] <= Expiry[l][t]
      /\ t < s => Expiry[l][t] <= Expiry[l][s]
  BY ConstantsAssumption
<1> QED  BY <1>1, <1>2, <1>3

LEMMA InitInv == Init => IInv
<1> SUFFICES ASSUME Init PROVE IInv
  OBVIOUS
<1>1. redis \in [Label -> RecordSet]
  BY Bounds DEF Init, ViewSet, NoView
<1>2. /\ usage \in [Label -> Usage] /\ dark \in SUBSET Label
      /\ issued \in [Label -> Token] /\ cache \in [Label -> EntrySet]
  <2>1. PICK f \in First : usage = f.usage /\ dark = f.dark
    BY DEF Init
  <2>2. f \in [usage : [Label -> Usage], dark : SUBSET Label]
    BY ConstantsAssumption
  <2> QED  BY <2>1, <2>2, Bounds DEF Init
<1>3. /\ local \in [active : 0..NumLabels, recent : Seq(Label)] /\ auth \in AuthSet
      /\ walk \in Seq(Label) /\ walked \in SUBSET Label
  <2>1. 1 \in Label /\ NumLabels \in Label /\ 0 \in 0..NumLabels /\ 1 \in 0..NumLabels
    BY ConstantsAssumption DEF Label
  <2>2. <<NumLabels, 1>> \in Seq(Label) /\ <<>> \in Seq(Label)
    BY <2>1
  <2>3. Eligible(redis, usage) \subseteq Label
    BY EligibleLabels
  <2>4. NoAuth \in AuthSet /\ [label |-> 1, token |-> 1] \in AuthSet
    BY <2>1, Bounds DEF AuthSet
  <2>5. CASE /\ auth = NoAuth /\ local = [active |-> 0, recent |-> <<>>]
             /\ walk = <<>> /\ walked = {}
    BY <2>1, <2>2, <2>4, <2>5
  <2>6. CASE /\ auth = [label |-> 1, token |-> 1]
             /\ local = [active |-> 1, recent |-> <<NumLabels, 1>>]
             /\ walked = Eligible(redis, usage)
             /\ walk = IF {1, NumLabels} \subseteq walked THEN local.recent ELSE <<>>
    BY <2>1, <2>2, <2>3, <2>4, <2>6
  <2> QED  BY <2>5, <2>6 DEF Init
<1>4. PoolTypeOK
  BY <1>1, <1>2, <1>3, Bounds DEF Init, PoolTypeOK, Phases
<1>5. \A p \in Process : ProcessInv(p)
  <2> TAKE p \in Process
  <2>1. pc[p] = "idle" /\ want[p] = 0
    BY DEF Init
  <2> QED  BY <2>1 DEF ProcessInv, RoleInv, SnapshotInv, FoundInv
<1>6. WalkInv
  <2>1. /\ \A p \in Runner : pc[p] = "idle"
    BY DEF Init, Process
  <2>2. /\ Tracks(local.recent, local.active)
        /\ walk # <<>> => auth.label \in {0, walk[Len(walk)]}
        /\ NoEarlyRepeat
    <3>1. CASE walk = <<>>
      BY <3>1 DEF Tracks, NoEarlyRepeat
    <3>2. CASE walk # <<>>
      <4>1. /\ auth = [label |-> 1, token |-> 1]
            /\ local = [active |-> 1, recent |-> <<NumLabels, 1>>]
            /\ walk = <<NumLabels, 1>> /\ {1, NumLabels} \subseteq walked
            /\ walked \subseteq Label
        BY <3>2, <1>4 DEF Init, PoolTypeOK
      <4>2. Tracks(local.recent, local.active)
        BY <4>1 DEF Tracks
      <4>3. ASSUME NumLabels = 1 PROVE Cardinality(walked) = 1
        <5>1. walked = {1}
          <6>1. Label = {1}
            BY <4>3 DEF Label
          <6> QED  BY <4>1, <6>1
        <5> QED  BY <5>1, FS_Singleton
      <4>4. NoEarlyRepeat
        BY <4>1, <4>3, ConstantsAssumption DEF NoEarlyRepeat
      <4> QED  BY <4>1, <4>2, <4>4
    <3> QED  BY <3>1, <3>2
  <2> QED  BY <2>1, <2>2 DEF WalkInv, Loaded
<1> QED  BY <1>4, <1>5, <1>6 DEF IInv

-----------------------------------------------------------------------------
(* What a step leaves alone.                                               *)

(* A record that changes gets a new version and no older token. *)
RedisGrows ==
    \A k \in Label :
        \/ redis'[k] = redis[k]
        \/ redis'[k].version > redis[k].version /\ redis'[k].token >= redis[k].token

Untouched(p) ==
    /\ pc'[p] = pc[p] /\ want'[p] = want[p] /\ view'[p] = view[p]
    /\ lock = p => lock' = p

LEMMA OthersKept ==
    ASSUME PoolTypeOK, PoolTypeOK', NEW p \in Process, ProcessInv(p),
           RedisGrows, Untouched(p)
    PROVE  ProcessInv(p)'
<1>1. \A k \in Label :
        /\ redis[k].version \in Nat /\ redis'[k].version \in Nat
        /\ redis[k].token \in Nat /\ redis'[k].token \in Nat
        /\ view[p].redis[k].version \in Nat /\ view[p].redis[k].token \in Nat
  <2>1. \A k \in Label : /\ redis[k] \in RecordSet /\ redis'[k] \in RecordSet
                          /\ view[p].redis[k] \in RecordSet
    BY DEF PoolTypeOK, ViewSet
  <2>2. \A r \in RecordSet : r.version \in Nat /\ r.token \in Nat
    BY Bounds DEF RecordSet
  <2> QED  BY <2>1, <2>2
<1>2. RoleInv(p)'
  BY DEF ProcessInv, RoleInv, Untouched
<1>3. SnapshotInv(p)'
  <2>1. ASSUME pc[p] \notin {"idle", "read"}, NEW k \in Label
        PROVE  /\ view[p].redis[k].version <= redis'[k].version
               /\ view[p].redis[k].version = redis'[k].version =>
                    /\ view[p].redis[k].barred = redis'[k].barred
                    /\ redis'[k].token <= view[p].redis[k].token
    BY <1>1, <2>1 DEF ProcessInv, SnapshotInv, RedisGrows
  <2>2. ASSUME pc[p] = "reconcile", NEW k \in Label
        PROVE  view[p].redis[k].token <= redis'[k].token
    BY <1>1, <2>2 DEF ProcessInv, SnapshotInv, RedisGrows
  <2> QED  BY <2>1, <2>2 DEF SnapshotInv, Untouched
<1>4. FoundInv(p)'
  <2>1. ASSUME p \in Runner, pc[p] \in {"probe", "select"}, view[p].status # "conflict",
               view[p].found.label # 0
        PROVE  view[p].found.token <= redis'[view[p].found.label].token
    <3>1. view[p].found.label \in Label /\ view[p].found.token \in Nat
      BY <2>1, Places, Bounds DEF PoolTypeOK, ViewSet
    <3>2. view[p].found.token <= redis[view[p].found.label].token
      BY <2>1 DEF ProcessInv, FoundInv
    <3> QED  BY <1>1, <3>1, <3>2 DEF RedisGrows
  <2> QED  BY <2>1 DEF ProcessInv, FoundInv, Untouched
<1> QED  BY <1>2, <1>3, <1>4 DEF ProcessInv

(* The walk stays what it is when nobody selects. *)
LEMMA WalkKept ==
    ASSUME WalkInv, UNCHANGED <<walk, walked, local>>, auth'.label \in {0, auth.label},
           \A q \in Runner : pc'[q] \in Loaded => Tracks(view'[q].recent, view'[q].active),
           \A q \in Runner : pc[q] = "save" => pc'[q] = "save"
                 \/ Tracks(local.recent, local.active)
    PROVE  WalkInv'
<1>1. (\A q \in Runner : pc'[q] # "save") => Tracks(local.recent, local.active)
  BY DEF WalkInv
<1> QED  BY <1>1 DEF WalkInv, Tracks, NoEarlyRepeat

LEMMA WalkReset ==
    ASSUME walk' = <<>>
    PROVE  WalkInv'
BY DEF WalkInv, Tracks, NoEarlyRepeat

-----------------------------------------------------------------------------
(* What happens around the commands.                                       *)

LEMMA AroundKeeps ==
    ASSUME IInv, PoolTypeOK', RedisGrows, UNCHANGED command,
           auth'.label \in {0, auth.label}
    PROVE  IInv'
<1>1. \A p \in Process : ProcessInv(p)'
  <2> TAKE p \in Process
  <2>1. Untouched(p)
    BY DEF command, Untouched
  <2> QED  BY <2>1, OthersKept DEF IInv
<1>2. WalkInv'
  <2>1. \A q \in Runner : pc'[q] \in Loaded => Tracks(view'[q].recent, view'[q].active)
    BY DEF IInv, WalkInv, command
  <2>2. UNCHANGED <<walk, walked, local, pc>>
    BY DEF command, history
  <2> QED  BY <2>1, <2>2, WalkKept DEF IInv
<1> QED  BY <1>1, <1>2 DEF IInv

LEMMA CodexRefreshStep == IInv /\ CodexRefresh => IInv' /\ RedisGrows
<1> SUFFICES ASSUME IInv, CodexRefresh PROVE IInv' /\ RedisGrows
  OBVIOUS
<1> USE DEF CodexRefresh
<1>1. auth.label \in Label /\ auth.token \in Token /\ auth \in [label : Label, token : Token]
  BY Places DEF IInv, PoolTypeOK, AuthSet, NoAuth
<1>2. auth' \in [label : Label, token : Token] /\ auth'.label = auth.label
  BY <1>1
<1>3. issued' \in [Label -> Token]
  BY <1>1 DEF IInv, PoolTypeOK
<1>4. PoolTypeOK'
  BY <1>2, <1>3 DEF IInv, PoolTypeOK, AuthSet, Happen, command, history
<1> QED  BY <1>2, <1>4, AroundKeeps DEF RedisGrows

LEMMA CodexLogoutStep == IInv /\ CodexLogout => IInv' /\ RedisGrows
<1> SUFFICES ASSUME IInv, CodexLogout PROVE IInv' /\ RedisGrows
  OBVIOUS
<1> USE DEF CodexLogout
<1>1. PoolTypeOK'
  BY DEF IInv, PoolTypeOK, AuthSet, Happen, command, history
<1> QED  BY <1>1, Bounds, AroundKeeps DEF RedisGrows

LEMMA RecordEdited ==
    ASSUME NEW r \in RecordSet, NEW n \in Nat, NEW t \in Token, NEW b \in BOOLEAN
    PROVE  /\ [r EXCEPT !.version = n, !.token = t] \in RecordSet
           /\ [r EXCEPT !.version = n, !.barred = b] \in RecordSet
BY DEF RecordSet

(* Another machine writes one record. *)
LEMMA RecordWritten ==
    ASSUME IInv, NEW l \in Label, Happen, UNCHANGED <<command, auth, cache, usage, dark, now>>,
           issued' \in [Label -> Token], NEW r \in RecordSet,
           redis' = [redis EXCEPT ![l] = r],
           r.version = redis[l].version + 1, r.token >= redis[l].token
    PROVE  IInv' /\ RedisGrows
<1>1. redis[l] \in RecordSet /\ redis[l].version \in Nat /\ redis' \in [Label -> RecordSet]
  BY DEF IInv, PoolTypeOK, RecordSet
<1>2. PoolTypeOK'
  BY <1>1 DEF IInv, PoolTypeOK, Happen, command, history
<1>3. RedisGrows
  <2>1. redis'[l] = r /\ \A k \in Label : k # l => redis'[k] = redis[k]
    BY DEF IInv, PoolTypeOK
  <2> QED  BY <1>1, <2>1 DEF RedisGrows
<1> QED  BY <1>2, <1>3, AroundKeeps

LEMMA RedisRefreshStep ==
    ASSUME IInv, NEW l \in Moving, RedisRefresh(l)
    PROVE  IInv' /\ RedisGrows
<1> DEFINE r == [redis[l] EXCEPT !.version = redis[l].version + 1, !.token = redis[l].token + 1]
<1>1. l \in Label
  BY ConstantsAssumption
<1>2. /\ redis[l] \in RecordSet /\ redis[l].version \in Nat /\ redis[l].token \in Nat
      /\ redis[l].barred \in BOOLEAN
  BY <1>1, Bounds DEF IInv, PoolTypeOK, RecordSet
<1>3. r \in RecordSet /\ r.version = redis[l].version + 1 /\ r.token >= redis[l].token
  <2>1. /\ r.version = redis[l].version + 1 /\ r.token = redis[l].token + 1
    BY <1>2 DEF RecordSet
  <2>2. redis[l].token + 1 \in Token
    BY DEF RedisRefresh
  <2>3. redis[l].version + 1 \in Nat
    BY <1>2
  <2>4. r \in RecordSet
    BY <1>2, <2>2, <2>3, RecordEdited, Zenon
  <2> QED  BY <1>2, <2>1, <2>4
<1>4. redis' = [redis EXCEPT ![l] = r]
  BY <1>1, <1>2 DEF IInv, PoolTypeOK, RecordSet, RedisRefresh
<1>5. issued' \in [Label -> Token]
  BY <1>1, <1>2 DEF IInv, PoolTypeOK, RedisRefresh
<1> HIDE DEF r
<1> QED  BY <1>1, <1>3, <1>4, <1>5, RecordWritten DEF RedisRefresh

LEMMA RedisEditStep ==
    ASSUME IInv, NEW l \in Moving, RedisEdit(l)
    PROVE  IInv' /\ RedisGrows
<1> DEFINE r == [redis[l] EXCEPT !.version = redis[l].version + 1, !.barred = ~redis[l].barred]
<1>1. l \in Label
  BY ConstantsAssumption
<1>2. /\ redis[l] \in RecordSet /\ redis[l].version \in Nat /\ redis[l].token \in Nat
      /\ redis[l].barred \in BOOLEAN
  BY <1>1, Bounds DEF IInv, PoolTypeOK, RecordSet
<1>3. r \in RecordSet /\ r.version = redis[l].version + 1 /\ r.token >= redis[l].token
  <2>1. /\ r.version = redis[l].version + 1 /\ r.token = redis[l].token
    BY <1>2 DEF RecordSet
  <2>2. redis[l].version + 1 \in Nat
    BY <1>2
  <2>3. r \in RecordSet
    BY <1>2, <2>2, RecordEdited, Bounds, Zenon
  <2> QED  BY <1>2, <2>1, <2>3
<1>4. redis' = [redis EXCEPT ![l] = r]
  BY <1>1, <1>2 DEF IInv, PoolTypeOK, RecordSet, RedisEdit
<1>5. issued' \in [Label -> Token]
  BY DEF IInv, PoolTypeOK, RedisEdit
<1> HIDE DEF r
<1> QED  BY <1>1, <1>3, <1>4, <1>5, RecordWritten DEF RedisEdit

LEMMA WorldStep ==
    ASSUME IInv,
           \/ CacheAge \/ Tick
           \/ \E l \in Moving : Darken(l) \/ \E u \in Usage : UsageChange(l, u)
    PROVE  IInv' /\ RedisGrows
<1>1. cache' \in [Label -> EntrySet] /\ usage' \in [Label -> Usage]
      /\ dark' \in SUBSET Label /\ now' \in Nat /\ events' \in Nat
      /\ UNCHANGED <<command, redis, auth, issued>>
  <2>1. CASE CacheAge
    <3>1. \A e \in EntrySet : [e EXCEPT !.recent = FALSE] \in EntrySet
      BY DEF EntrySet
    <3> QED  BY <2>1, <3>1 DEF CacheAge, Happen, IInv, PoolTypeOK
  <2>2. CASE Tick
    BY <2>2 DEF Tick, Happen, IInv, PoolTypeOK
  <2>3. CASE \E l \in Moving : Darken(l)
    BY <2>3, ConstantsAssumption DEF Darken, Happen, IInv, PoolTypeOK
  <2>4. CASE \E l \in Moving, u \in Usage : UsageChange(l, u)
    <3>1. PICK l \in Moving, u \in Usage : UsageChange(l, u)
      BY <2>4
    <3>2. usage' = [usage EXCEPT ![l] = u]
      BY <3>1 DEF UsageChange
    <3>3. usage' \in [Label -> Usage]
      BY <3>2 DEF IInv, PoolTypeOK
    <3> QED  BY <3>1, <3>3 DEF UsageChange, Happen, IInv, PoolTypeOK
  <2> QED  BY <2>1, <2>2, <2>3, <2>4
<1>2. PoolTypeOK'
  BY <1>1 DEF IInv, PoolTypeOK, command, history
<1> QED  BY <1>1, <1>2, AroundKeeps DEF RedisGrows

LEMMA AroundStep == IInv /\ Around => IInv' /\ RedisGrows
BY CodexRefreshStep, CodexLogoutStep, RedisRefreshStep, RedisEditStep, WorldStep DEF Around

-----------------------------------------------------------------------------
(* The steps of the commands.                                              *)

LEMMA ProcessKeeps ==
    ASSUME IInv, PoolTypeOK', RedisGrows, NEW p \in Process, ProcessInv(p)',
           \A q \in Process \ {p} : Untouched(q)
    PROVE  \A q \in Process : ProcessInv(q)'
<1> TAKE q \in Process
<1>1. CASE q = p
  BY <1>1
<1>2. CASE q # p
  BY <1>2, OthersKept DEF IInv
<1> QED  BY <1>1, <1>2

LEMMA StepTouches ==
    ASSUME PoolTypeOK, NEW p \in Process, NEW l \in Phases, NEW v \in ViewSet, Step(p, l, v)
    PROVE  /\ pc'[p] = l /\ view'[p] = v
           /\ pc' \in [Process -> Phases] /\ view' \in [Process -> ViewSet]
           /\ want' = want /\ lock' = lock
           /\ \A q \in Process \ {p} : Untouched(q)
BY DEF PoolTypeOK, Step, Goto, Untouched

LEMMA EndTouches ==
    ASSUME PoolTypeOK, NEW p \in Process, End(p)
    PROVE  /\ pc'[p] = "idle"
           /\ pc' \in [Process -> Phases] /\ view' \in [Process -> ViewSet]
           /\ want' \in [Process -> 0..NumLabels] /\ snap' \in [Process -> [Label -> Known]]
           /\ lock' \in Runner \cup {Nobody}
           /\ ProcessInv(p)'
           /\ \A q \in Process \ {p} : Untouched(q)
<1>1. pc'[p] = "idle" /\ pc' \in [Process -> Phases]
  BY DEF PoolTypeOK, End, Goto, Phases
<1>2. view' \in [Process -> ViewSet] /\ snap' \in [Process -> [Label -> Known]]
  BY Bounds DEF PoolTypeOK, End
<1>3. want'[p] = 0 /\ want' \in [Process -> 0..NumLabels]
  BY Bounds DEF PoolTypeOK, End
<1>4. ProcessInv(p)'
  BY <1>1, <1>3 DEF ProcessInv, RoleInv, SnapshotInv, FoundInv
<1>5. \A q \in Process \ {p} : Untouched(q)
  BY DEF PoolTypeOK, End, Goto, Untouched
<1> QED  BY <1>1, <1>2, <1>3, <1>4, <1>5 DEF PoolTypeOK, End

(* A command that goes on without selecting, or ends before it saves.        *)
LEMMA WalkGoesOn ==
    ASSUME IInv, UNCHANGED <<walk, walked, local>>, auth'.label \in {0, auth.label},
           NEW p \in Process, pc[p] # "save", \A q \in Process \ {p} : Untouched(q),
           p \in Runner /\ pc'[p] \in Loaded => Tracks(view'[p].recent, view'[p].active)
    PROVE  WalkInv'
<1>1. ASSUME NEW q \in Runner, pc'[q] \in Loaded
      PROVE  Tracks(view'[q].recent, view'[q].active)
  <2>1. CASE q = p
    BY <1>1, <2>1
  <2>2. CASE q # p
    BY <1>1, <2>2 DEF Untouched, Process, IInv, WalkInv
  <2> QED  BY <2>1, <2>2
<1>2. \A q \in Runner : pc[q] = "save" => pc'[q] = "save"
  BY DEF Untouched, Process
<1> QED  BY <1>1, <1>2, WalkKept DEF IInv

LEMMA EndKeeps ==
    ASSUME IInv, PoolTypeOK', RedisGrows, NEW p \in Process, End(p), pc[p] # "save",
           UNCHANGED <<walk, walked, local>>, auth'.label \in {0, auth.label}
    PROVE  IInv'
<1>1. /\ pc'[p] = "idle" /\ ProcessInv(p)' /\ \A q \in Process \ {p} : Untouched(q)
  BY EndTouches DEF IInv
<1>2. \A q \in Process : ProcessInv(q)'
  BY <1>1, ProcessKeeps
<1>3. WalkInv'
  BY <1>1, WalkGoesOn DEF Loaded
<1> QED  BY <1>2, <1>3 DEF IInv

LEMMA BeginStep ==
    ASSUME IInv, NEW p \in Process, NEW w \in 0..NumLabels, Begin(p, w)
    PROVE  IInv' /\ RedisGrows
<1> USE DEF Begin
<1>1. pc' = [pc EXCEPT ![p] = "read"] /\ pc' \in [Process -> Phases] /\ pc'[p] = "read"
  BY DEF IInv, PoolTypeOK, Goto, Phases
<1>2. PoolTypeOK'
  BY <1>1 DEF IInv, PoolTypeOK, world, history
<1>3. ASSUME NEW q \in Process \ {p} PROVE Untouched(q)
  BY <1>1, ConstantsAssumption DEF Untouched, IInv, PoolTypeOK, Process
<1>4. ProcessInv(p)'
  <2>1. pc'[p] = "read" /\ want'[p] = w /\ (p \in Runner => lock' = p)
    BY <1>1 DEF IInv, PoolTypeOK
  <2> QED  BY <2>1 DEF ProcessInv, RoleInv, SnapshotInv, FoundInv
<1>5. RedisGrows
  BY DEF RedisGrows
<1>6. \A q \in Process : ProcessInv(q)'
  BY <1>2, <1>3, <1>4, <1>5, ProcessKeeps
<1>7. WalkInv'
  BY <1>1, <1>3, WalkGoesOn DEF Loaded, history
<1> QED  BY <1>2, <1>5, <1>6, <1>7 DEF IInv

LEMMA ReadStep ==
    ASSUME IInv, NEW p \in Process, Read(p)
    PROVE  IInv' /\ RedisGrows
<1> DEFINE v == [view[p] EXCEPT !.redis = redis]
<1>1. v \in ViewSet /\ v.redis = redis
  BY DEF IInv, PoolTypeOK, ViewSet
<1>2. Step(p, "reconcile", v) /\ "reconcile" \in Phases
  BY DEF Read, Phases
<1> HIDE DEF v
<1>3. /\ pc'[p] = "reconcile" /\ view'[p] = v
      /\ pc' \in [Process -> Phases] /\ view' \in [Process -> ViewSet]
      /\ want' = want /\ lock' = lock /\ \A q \in Process \ {p} : Untouched(q)
  BY <1>1, <1>2, StepTouches DEF IInv
<1>4. PoolTypeOK'
  BY <1>3 DEF Read, IInv, PoolTypeOK, world, history
<1>5. RedisGrows
  BY DEF Read, RedisGrows
<1>6. ProcessInv(p)'
  <2>1. RoleInv(p)'
    BY <1>3 DEF Read, IInv, ProcessInv, RoleInv
  <2>2. SnapshotInv(p)'
    <3>1. redis' = redis
      BY DEF Read
    <3>2. \A k \in Label : redis[k].version \in Nat /\ redis[k].token \in Nat
      BY Bounds DEF IInv, PoolTypeOK, RecordSet
    <3> QED  BY <1>1, <1>3, <3>1, <3>2 DEF SnapshotInv
  <2>3. FoundInv(p)'
    BY <1>3 DEF FoundInv
  <2> QED  BY <2>1, <2>2, <2>3 DEF ProcessInv
<1>7. \A q \in Process : ProcessInv(q)'
  BY <1>3, <1>4, <1>5, <1>6, ProcessKeeps
<1>8. WalkInv'
  BY <1>3, WalkGoesOn DEF Loaded, history, Read
<1> QED  BY <1>4, <1>5, <1>7, <1>8 DEF IInv

(* The reconciliation, when the command goes on with the view w. *)
LEMMA ReconcileGoesOn ==
    ASSUME IInv, NEW p \in Process, pc[p] = "reconcile",
           NEW w \in ViewSet, NEW l \in {"select", "probe", "publish"}, Step(p, l, w),
           UNCHANGED <<redis, local, world, cache, calls, history, snap>>,
           auth' \in AuthSet, auth'.label = auth.label,
           w.recent = local.recent, w.found = auth,
           w.active = local.active \/ (w.active = auth.label /\ auth.label # 0),
           \A k \in Label : /\ w.redis[k].version = view[p].redis[k].version
                            /\ w.redis[k].barred = view[p].redis[k].barred
                            /\ view[p].redis[k].token <= w.redis[k].token,
           w.status = "local_newer" =>
              auth.label \in Label /\ w.redis[auth.label].token = auth.token,
           l = "publish" <=> p \in Runner /\ w.status = "local_newer",
           w.status \notin {"conflict", "local_newer"} /\ auth.label # 0 =>
              auth.token <= view[p].redis[auth.label].token
    PROVE  IInv' /\ RedisGrows
<1>0. l \in Phases /\ l \in Loaded
  BY DEF Phases, Loaded
<1>1. /\ pc'[p] = l /\ view'[p] = w
      /\ pc' \in [Process -> Phases] /\ view' \in [Process -> ViewSet]
      /\ want' = want /\ lock' = lock /\ \A q \in Process \ {p} : Untouched(q)
  BY <1>0, StepTouches DEF IInv
<1>2. PoolTypeOK'
  BY <1>1 DEF IInv, PoolTypeOK, world, history
<1>3. RedisGrows
  BY DEF RedisGrows
<1>4. RoleInv(p)'
  BY <1>1 DEF IInv, ProcessInv, RoleInv
<1>5. SnapshotInv(p)'
  <2>1. \A k \in Label : /\ redis[k].token \in Nat /\ view[p].redis[k].token \in Nat
                         /\ w.redis[k].token \in Nat
    <3>1. \A k \in Label : /\ redis[k] \in RecordSet /\ view[p].redis[k] \in RecordSet
                           /\ w.redis[k] \in RecordSet
      BY DEF IInv, PoolTypeOK, ViewSet
    <3> QED  BY <3>1, Bounds DEF RecordSet
  <2>2. \A k \in Label :
           /\ view[p].redis[k].version <= redis[k].version
           /\ view[p].redis[k].version = redis[k].version =>
                /\ view[p].redis[k].barred = redis[k].barred
                /\ redis[k].token <= view[p].redis[k].token
    BY DEF IInv, ProcessInv, SnapshotInv
  <2> QED  BY <1>1, <2>1, <2>2 DEF SnapshotInv
<1>6. FoundInv(p)'
  <2>1. ASSUME p \in Runner, l \in {"probe", "select"}, w.status # "conflict",
               auth.label # 0
        PROVE  auth.token <= redis[auth.label].token
    <3>1. auth.label \in Label /\ auth.token \in Nat
      BY <2>1, Places, Bounds DEF IInv, PoolTypeOK
    <3>2. redis[auth.label] \in RecordSet /\ view[p].redis[auth.label] \in RecordSet
      BY <3>1 DEF IInv, PoolTypeOK, ViewSet
    <3>3. view[p].redis[auth.label].token <= redis[auth.label].token
      BY <3>1 DEF IInv, ProcessInv, SnapshotInv
    <3>4. auth.token <= view[p].redis[auth.label].token
      BY <2>1
    <3>5. redis[auth.label].token \in Nat /\ view[p].redis[auth.label].token \in Nat
      BY <3>2, Bounds DEF RecordSet
    <3> QED  BY <3>1, <3>3, <3>4, <3>5
  <2> QED  BY <1>1, <2>1 DEF FoundInv
<1>7. \A q \in Process : ProcessInv(q)'
  BY <1>1, <1>2, <1>3, <1>4, <1>5, <1>6, ProcessKeeps DEF ProcessInv
<1>8. WalkInv'
  <2>1. ASSUME p \in Runner PROVE Tracks(local.recent, local.active)
    <3>1. \A q \in Runner : pc[q] # "save"
      <4>1. lock = p /\ \A q \in Runner : pc[q] = "save" => lock = q
        BY <2>1 DEF IInv, ProcessInv, RoleInv, Process
      <4> QED  BY <4>1
    <3> QED  BY <3>1 DEF IInv, WalkInv
  <2>2. walk # <<>> => auth.label \in {0, walk[Len(walk)]}
    BY DEF IInv, WalkInv
  <2>3. p \in Runner => Tracks(w.recent, w.active)
    BY <2>1, <2>2 DEF Tracks
  <2> QED  BY <1>1, <2>3, WalkGoesOn DEF history
<1> QED  BY <1>2, <1>3, <1>7, <1>8 DEF IInv

LEMMA ReconcileStep ==
    ASSUME IInv, NEW p \in Process, Reconcile(p)
    PROVE  IInv' /\ RedisGrows
<1> DEFINE l == auth.label
           v == [view[p] EXCEPT !.active = local.active, !.recent = local.recent,
                                !.found = auth]
           stored == v.redis[l].token
<1>0. pc[p] = "reconcile" /\ UNCHANGED <<redis, local, world, cache, calls, history>>
  BY DEF Reconcile
<1>1. /\ v \in ViewSet /\ v.redis = view[p].redis /\ v.found = auth
      /\ v.recent = local.recent /\ v.active = local.active
  BY DEF IInv, PoolTypeOK, ViewSet
<1>2. l # 0 => l \in Label /\ l \in 0..NumLabels /\ auth.token \in Token /\ stored \in Token
  <2>1. l # 0 => l \in Label /\ auth.token \in Token
    BY Places DEF IInv, PoolTypeOK
  <2>2. \A k \in Label : v.redis[k].token \in Token
    BY <1>1 DEF ViewSet, RecordSet
  <2> QED  BY <2>1, <2>2, Bounds
<1>3. Chosen(p) \in {"select", "probe"}
  BY DEF Chosen
<1>4. \A k \in Label : view[p].redis[k].token \in Nat
  <2>1. \A k \in Label : view[p].redis[k] \in RecordSet
    BY DEF IInv, PoolTypeOK, ViewSet
  <2> QED  BY <2>1, Bounds DEF RecordSet
<1>5. auth \in AuthSet
  BY DEF IInv, PoolTypeOK
<1>a. CASE /\ \/ l = 0
              \/ l # 0 /\ v.active \notin {0, l}
              \/ l # 0 /\ v.active \in {0, l} /\ stored # auth.token
                 /\ Expiry[l][stored] = Expiry[l][auth.token]
           /\ Step(p, Chosen(p), [v EXCEPT !.status = IF l = 0 THEN "skipped" ELSE "conflict"])
           /\ UNCHANGED <<auth, snap>>
  <2> DEFINE w == [v EXCEPT !.status = IF l = 0 THEN "skipped" ELSE "conflict"]
  <2>1. /\ w \in ViewSet /\ w.redis = v.redis /\ w.found = auth /\ w.active = local.active
        /\ w.recent = local.recent /\ w.status = IF l = 0 THEN "skipped" ELSE "conflict"
    BY <1>1 DEF ViewSet, Statuses
  <2>2. Step(p, Chosen(p), w) /\ UNCHANGED <<auth, snap>>
    BY <1>a
  <2>9. \A k \in Label : /\ w.redis[k].version = view[p].redis[k].version
                         /\ w.redis[k].barred = view[p].redis[k].barred
                         /\ view[p].redis[k].token <= w.redis[k].token
    BY <1>1, <1>4, <2>1
  <2> HIDE DEF w, v, stored
  <2> QED  BY <1>0, <1>3, <1>5, <2>1, <2>2, <2>9, ReconcileGoesOn
<1>b. CASE /\ l # 0 /\ v.active \in {0, l} /\ stored = auth.token
           /\ Step(p, Chosen(p), [v EXCEPT !.status = "identical"])
           /\ UNCHANGED <<auth, snap>>
  <2> DEFINE w == [v EXCEPT !.status = "identical"]
  <2>1. /\ w \in ViewSet /\ w.redis = v.redis /\ w.found = auth /\ w.active = local.active
        /\ w.recent = local.recent /\ w.status = "identical"
    BY <1>1 DEF ViewSet, Statuses
  <2>2. Step(p, Chosen(p), w) /\ UNCHANGED <<auth, snap>>
    BY <1>b
  <2>3. auth.token <= view[p].redis[l].token
    BY <1>1, <1>2, <1>b, Bounds
  <2>9. \A k \in Label : /\ w.redis[k].version = view[p].redis[k].version
                         /\ w.redis[k].barred = view[p].redis[k].barred
                         /\ view[p].redis[k].token <= w.redis[k].token
    BY <1>1, <1>4, <2>1
  <2> HIDE DEF w, v, stored
  <2> QED  BY <1>0, <1>3, <1>5, <2>1, <2>2, <2>3, <2>9, ReconcileGoesOn
<1>c. CASE /\ l # 0 /\ v.active \in {0, l} /\ Expiry[l][auth.token] < Expiry[l][stored]
           /\ auth' = Project(v, l)
           /\ Step(p, Chosen(p), [v EXCEPT !.status = "redis_newer", !.active = l])
           /\ UNCHANGED snap
  <2> DEFINE w == [v EXCEPT !.status = "redis_newer", !.active = l]
  <2>1. /\ w \in ViewSet /\ w.redis = v.redis /\ w.found = auth /\ w.active = auth.label
        /\ w.recent = local.recent /\ w.status = "redis_newer"
    BY <1>1, <1>2, <1>c DEF ViewSet, Statuses
  <2>2. Step(p, Chosen(p), w) /\ UNCHANGED snap
    BY <1>c
  <2>3. auth.token <= view[p].redis[l].token
    BY <1>1, <1>2, <1>c, FresherIsLater, Bounds
  <2>4. auth' \in AuthSet /\ auth'.label = l
    BY <1>2, <1>c DEF Project, AuthSet
  <2>9. \A k \in Label : /\ w.redis[k].version = view[p].redis[k].version
                         /\ w.redis[k].barred = view[p].redis[k].barred
                         /\ view[p].redis[k].token <= w.redis[k].token
    BY <1>1, <1>4, <2>1
  <2> HIDE DEF w, v, stored
  <2> QED  BY <1>0, <1>3, <1>c, <2>1, <2>2, <2>3, <2>4, <2>9, ReconcileGoesOn
<1>d. CASE End(p) /\ UNCHANGED auth
  <2>1. PoolTypeOK'
    BY <1>0, <1>d, EndTouches DEF IInv, PoolTypeOK, world, history
  <2>2. RedisGrows
    BY <1>0 DEF RedisGrows
  <2> QED  BY <1>0, <1>d, <2>1, <2>2, EndKeeps DEF history
<1>e. CASE /\ l # 0 /\ v.active \in {0, l} /\ Expiry[l][auth.token] > Expiry[l][stored]
           /\ Step(p, IF p \in Runner THEN "publish" ELSE "probe",
                   [v EXCEPT !.status = "local_newer", !.redis[l].token = auth.token])
           /\ UNCHANGED <<auth, snap>>
  <2> DEFINE w == [v EXCEPT !.status = "local_newer", !.redis[l].token = auth.token]
  <2>1. stored < auth.token /\ stored \in Nat /\ auth.token \in Nat /\ l \in Label
    <3>1. Expiry[l][auth.token] \in Nat /\ Expiry[l][stored] \in Nat
      BY <1>2, <1>e, FresherIsLater
    <3>2. Expiry[l][stored] < Expiry[l][auth.token]
      BY <1>e, <3>1
    <3> QED  BY <1>2, <1>e, <3>2, FresherIsLater, Bounds
  <2>2. v.redis \in [Label -> RecordSet] /\ auth.token \in Token
    BY <1>1, <1>2, <1>e DEF ViewSet
  <2>3. w.redis = [v.redis EXCEPT ![l].token = auth.token]
    BY <1>1 DEF ViewSet
  <2>4. /\ w.redis \in [Label -> RecordSet] /\ w.redis[l].token = auth.token
        /\ \A k \in Label : /\ w.redis[k].version = v.redis[k].version
                            /\ w.redis[k].barred = v.redis[k].barred
                            /\ k # l => w.redis[k].token = v.redis[k].token
    <3> DEFINE r == [v.redis[l] EXCEPT !.token = auth.token]
    <3>1. v.redis[l] \in RecordSet /\ l \in Label
      BY <2>1, <2>2
    <3>2. w.redis = [v.redis EXCEPT ![l] = r]
      BY <2>3
    <3> HIDE DEF w, v
    <3>3. /\ r \in RecordSet /\ r.token = auth.token
          /\ r.version = v.redis[l].version /\ r.barred = v.redis[l].barred
      BY <2>2, <3>1 DEF RecordSet
    <3> HIDE DEF r
    <3> QED  BY <2>2, <3>1, <3>2, <3>3
  <2>5. /\ w \in ViewSet /\ w.found = auth /\ w.active = local.active
        /\ w.recent = local.recent /\ w.status = "local_newer"
    <3> DEFINE redisNew == w.redis
    <3>1. w = [v EXCEPT !.status = "local_newer", !.redis = redisNew]
      BY <1>1, <2>3 DEF ViewSet
    <3> HIDE DEF w
    <3>2. redisNew \in [Label -> RecordSet] /\ "local_newer" \in Statuses
      BY <2>4 DEF Statuses
    <3> HIDE DEF redisNew, v
    <3> QED  BY <1>1, <3>1, <3>2 DEF ViewSet
  <2>6. \A k \in Label : view[p].redis[k].token <= w.redis[k].token
    <3>1. v.redis[l].token < auth.token
      BY <2>1
    <3> HIDE DEF w, v
    <3> QED  BY <1>1, <1>4, <2>1, <2>4, <3>1
  <2>7. Step(p, IF p \in Runner THEN "publish" ELSE "probe", w) /\ UNCHANGED <<auth, snap>>
    BY <1>e
  <2>9. \A k \in Label : /\ w.redis[k].version = view[p].redis[k].version
                         /\ w.redis[k].barred = view[p].redis[k].barred
                         /\ view[p].redis[k].token <= w.redis[k].token
    BY <1>1, <1>4, <2>4, <2>6
  <2> HIDE DEF w, v, stored
  <2> QED  BY <1>0, <1>5, <2>1, <2>4, <2>5, <2>7, <2>9, ReconcileGoesOn
<1> QED  BY <1>a, <1>b, <1>c, <1>d, <1>e DEF Reconcile

(* A publication replaces the record that was read by one no older. *)
LEMMA PublishedIs ==
    ASSUME IInv, NEW p \in Process, pc[p] \in {"publish", "late"}, Published(p)
    PROVE  LET found == view[p].found IN
           /\ redis' \in [Label -> RecordSet] /\ RedisGrows
           /\ \A k \in Label : redis'[k].barred = redis[k].barred
           /\ found.label \in Label /\ redis'[found.label].token = found.token
           /\ \A k \in Label : view[p].redis[k].version <= redis'[k].version
           /\ \A k \in Label : view[p].redis[k].version = redis'[k].version =>
                /\ view[p].redis[k].barred = redis'[k].barred
                /\ redis'[k].token <= view[p].redis[k].token
<1> DEFINE l == view[p].found.label
           r == [view[p].redis[l] EXCEPT !.version = view[p].redis[l].version + 1]
<1>1. l \in Label /\ view[p].redis[l].token = view[p].found.token
  BY DEF IInv, ProcessInv, RoleInv, FoundInv
<1>2. \A k \in Label : /\ redis[k] \in RecordSet /\ view[p].redis[k] \in RecordSet
                       /\ redis[k].version \in Nat /\ view[p].redis[k].version \in Nat
                       /\ redis[k].token \in Nat /\ view[p].redis[k].token \in Nat
  <2>1. \A k \in Label : redis[k] \in RecordSet /\ view[p].redis[k] \in RecordSet
    BY DEF IInv, PoolTypeOK, ViewSet
  <2> QED  BY <2>1, Bounds DEF RecordSet
<1>3. redis' = [redis EXCEPT ![l] = r] /\ redis[l].version = view[p].redis[l].version
  BY DEF Published
<1>4. /\ r \in RecordSet /\ r.version = redis[l].version + 1
      /\ r.token = view[p].redis[l].token /\ r.barred = view[p].redis[l].barred
  <2>1. view[p].redis[l] \in RecordSet /\ view[p].redis[l].version + 1 \in Nat
    BY <1>1, <1>2
  <2>2. \A q \in RecordSet, n \in Nat :
           /\ [q EXCEPT !.version = n] \in RecordSet /\ [q EXCEPT !.version = n].version = n
           /\ [q EXCEPT !.version = n].token = q.token
           /\ [q EXCEPT !.version = n].barred = q.barred
    BY DEF RecordSet
  <2>3. /\ r \in RecordSet /\ r.version = view[p].redis[l].version + 1
        /\ r.token = view[p].redis[l].token /\ r.barred = view[p].redis[l].barred
    BY <2>1, <2>2, Zenon
  <2> QED  BY <1>3, <2>3
<1>5. /\ redis[l].barred = view[p].redis[l].barred
      /\ redis[l].token <= view[p].redis[l].token
  BY <1>1, <1>3 DEF IInv, ProcessInv, SnapshotInv
<1>6. redis' \in [Label -> RecordSet] /\ redis'[l] = r
      /\ \A k \in Label : k # l => redis'[k] = redis[k]
  BY <1>1, <1>3, <1>4 DEF IInv, PoolTypeOK
<1>7. \A k \in Label :
         /\ view[p].redis[k].version <= redis[k].version
         /\ view[p].redis[k].version = redis[k].version =>
              /\ view[p].redis[k].barred = redis[k].barred
              /\ redis[k].token <= view[p].redis[k].token
  BY DEF IInv, ProcessInv, SnapshotInv
<1> HIDE DEF r
<1>8. RedisGrows /\ \A k \in Label : redis'[k].barred = redis[k].barred
  <2>1. \A k \in Label : redis'[k].barred = redis[k].barred
    BY <1>4, <1>5, <1>6
  <2>2. redis[l].version \in Nat
    BY <1>1, <1>2, <1>3
  <2>3. \A k \in Label :
           \/ redis'[k] = redis[k]
           \/ k = l /\ redis'[k].version = redis[k].version + 1 /\ redis[k].token <= redis'[k].token
    BY <1>4, <1>5, <1>6
  <2> QED  BY <1>1, <1>2, <2>1, <2>2, <2>3 DEF RedisGrows
<1>9. \A k \in Label : k # l =>
         /\ view[p].redis[k].version <= redis'[k].version
         /\ view[p].redis[k].version = redis'[k].version =>
              /\ view[p].redis[k].barred = redis'[k].barred
              /\ redis'[k].token <= view[p].redis[k].token
  BY <1>6, <1>7
<1>10. view[p].redis[l].version < redis'[l].version
  <2>1. redis'[l].version = redis[l].version + 1 /\ redis[l].version = view[p].redis[l].version
    BY <1>3, <1>4, <1>6
  <2> QED  BY <1>1, <1>2, <2>1
<1>11. \A k \in Label :
          /\ view[p].redis[k].version <= redis'[k].version
          /\ view[p].redis[k].version = redis'[k].version =>
               /\ view[p].redis[k].barred = redis'[k].barred
               /\ redis'[k].token <= view[p].redis[k].token
  <2>1. view[p].redis[l].version <= redis'[l].version /\ view[p].redis[l].version # redis'[l].version
    <3>1. view[p].redis[l].version \in Nat /\ redis'[l].version \in Nat
      <4>1. redis[l].version \in Nat /\ redis'[l].version = redis[l].version + 1
        BY <1>1, <1>2, <1>4, <1>6
      <4> QED  BY <1>1, <1>2, <4>1
    <3> QED  BY <1>10, <3>1
  <2> QED  BY <1>9, <2>1
<1>12. redis'[l].token = view[p].found.token
  BY <1>1, <1>4, <1>6
<1> QED  BY <1>1, <1>6, <1>8, <1>11, <1>12

(* A publication, after which the command goes on, or that ends it. *)
LEMMA PublicationStep ==
    ASSUME IInv, NEW p \in Process, pc[p] \in {"publish", "late"},
           NEW l \in {"probe", "select", "save"}, pc[p] = "late" => l = "save",
           \/ Published(p) /\ Step(p, l, view[p]) /\ UNCHANGED snap
           \/ Stale(p) /\ End(p) /\ UNCHANGED redis,
           UNCHANGED <<local, auth, world, cache, calls, history>>
    PROVE  IInv' /\ RedisGrows
<1>1. CASE Published(p) /\ Step(p, l, view[p]) /\ UNCHANGED snap
  <2>0. l \in Phases /\ l \in Loaded /\ view[p] \in ViewSet
    BY DEF Phases, Loaded, IInv, PoolTypeOK
  <2>1. /\ pc'[p] = l /\ view'[p] = view[p]
        /\ pc' \in [Process -> Phases] /\ view' \in [Process -> ViewSet]
        /\ want' = want /\ lock' = lock /\ \A q \in Process \ {p} : Untouched(q)
    BY <1>1, <2>0, StepTouches DEF IInv
  <2>2. redis' \in [Label -> RecordSet] /\ RedisGrows
    BY <1>1, PublishedIs
  <2>3. PoolTypeOK'
    BY <1>1, <2>1, <2>2 DEF IInv, PoolTypeOK, world, history
  <2>4. RoleInv(p)'
    BY <2>1 DEF IInv, ProcessInv, RoleInv
  <2>5. SnapshotInv(p)'
    BY <1>1, <2>1, PublishedIs DEF SnapshotInv
  <2>6. FoundInv(p)'
    <3>1. /\ view[p].found.label \in Label
          /\ redis'[view[p].found.label].token = view[p].found.token
          /\ view[p].redis[view[p].found.label].token = view[p].found.token
      BY <1>1, PublishedIs DEF IInv, ProcessInv, RoleInv, FoundInv
    <3>2. redis'[view[p].found.label] \in RecordSet
      BY <2>2, <3>1
    <3>3. view[p].found.token <= redis'[view[p].found.label].token
      <4>1. redis'[view[p].found.label].token \in Nat
        BY <3>2, Bounds DEF RecordSet
      <4> QED  BY <3>1, <4>1
    <3> QED  BY <2>1, <3>1, <3>3 DEF FoundInv
  <2>7. \A q \in Process : ProcessInv(q)'
    BY <2>1, <2>2, <2>3, <2>4, <2>5, <2>6, ProcessKeeps DEF ProcessInv
  <2>8. WalkInv'
    <3>1. ASSUME p \in Runner PROVE Tracks(view[p].recent, view[p].active)
      <4>1. pc[p] = "publish"
        BY <3>1, ConstantsAssumption DEF IInv, ProcessInv, RoleInv
      <4> QED  BY <3>1, <4>1 DEF IInv, WalkInv, Loaded
    <3> QED  BY <2>1, <3>1, WalkGoesOn DEF history
  <2> QED  BY <2>2, <2>3, <2>7, <2>8 DEF IInv
<1>2. CASE Stale(p) /\ End(p) /\ UNCHANGED redis
  <2>1. PoolTypeOK'
    BY <1>2, EndTouches DEF IInv, PoolTypeOK, world, history
  <2>2. RedisGrows
    BY <1>2 DEF RedisGrows
  <2> QED  BY <1>2, <2>1, <2>2, EndKeeps DEF history
<1> QED  BY <1>1, <1>2

LEMMA ProbeStep ==
    ASSUME IInv, NEW p \in Process, Probe(p)
    PROVE  IInv' /\ RedisGrows
<1>0. pc[p] = "probe" /\ Step(p, "select", view[p])
      /\ UNCHANGED <<redis, local, auth, world, calls, history>>
  BY DEF Probe
<1>1. "select" \in Phases /\ view[p] \in ViewSet
  BY DEF Phases, IInv, PoolTypeOK
<1>2. /\ pc'[p] = "select" /\ view'[p] = view[p]
      /\ pc' \in [Process -> Phases] /\ view' \in [Process -> ViewSet]
      /\ want' = want /\ lock' = lock /\ \A q \in Process \ {p} : Untouched(q)
  BY <1>0, <1>1, StepTouches DEF IInv
<1> DEFINE token(l) == view[p].redis[l].token
           match(l) == cache[l].token = token(l)
           live(l) == ~(match(l) /\ cache[l].recent) /\ l \notin dark
<1>3. snap' = [snap EXCEPT ![p] = [l \in Label |->
                 IF live(l) THEN usage[l] ELSE IF match(l) THEN cache[l].usage ELSE Unknown]]
      /\ cache' = [l \in Label |->
                 IF live(l) THEN [token |-> token(l), usage |-> usage[l], recent |-> TRUE]
                 ELSE IF match(l) THEN [cache[l] EXCEPT !.recent = TRUE] ELSE NoEntry]
  BY DEF Probe
<1>4. \A l \in Label : /\ token(l) \in Token /\ usage[l] \in Usage /\ cache[l] \in EntrySet
                       /\ cache[l].usage \in Known
  BY DEF IInv, PoolTypeOK, ViewSet, RecordSet, EntrySet
<1>5. snap' \in [Process -> [Label -> Known]]
  <2> DEFINE s == [l \in Label |->
                 IF live(l) THEN usage[l] ELSE IF match(l) THEN cache[l].usage ELSE Unknown]
  <2>1. s \in [Label -> Known]
    BY <1>4 DEF Known
  <2>2. snap' = [snap EXCEPT ![p] = s]
    BY <1>3
  <2> HIDE DEF s
  <2> QED  BY <2>1, <2>2 DEF IInv, PoolTypeOK
<1>6. cache' \in [Label -> EntrySet]
  <2>1. ASSUME NEW l \in Label
        PROVE  /\ [token |-> token(l), usage |-> usage[l], recent |-> TRUE] \in EntrySet
               /\ [cache[l] EXCEPT !.recent = TRUE] \in EntrySet
    BY <1>4 DEF EntrySet, Known
  <2> HIDE DEF token, match, live
  <2> QED  BY <1>3, <2>1, Bounds
<1>7. PoolTypeOK'
  BY <1>0, <1>2, <1>5, <1>6 DEF IInv, PoolTypeOK, world, history
<1>8. RedisGrows
  BY <1>0 DEF RedisGrows
<1>9. ProcessInv(p)'
  BY <1>0, <1>2 DEF IInv, ProcessInv, RoleInv, SnapshotInv, FoundInv
<1>10. \A q \in Process : ProcessInv(q)'
  BY <1>2, <1>7, <1>8, <1>9, ProcessKeeps
<1>11. WalkInv'
  BY <1>0, <1>2, WalkGoesOn DEF history, IInv, WalkInv, Loaded
<1> QED  BY <1>7, <1>8, <1>10, <1>11 DEF IInv

(* The view of a command that has selected, before it is published or saved. *)
LEMMA DecidedKeeps ==
    ASSUME IInv, NEW p \in Process, pc[p] = "select", NEW v \in ViewSet, Decided(p, v),
           v.redis = view[p].redis, v.found = view[p].found, v.status = view[p].status,
           auth' \in AuthSet, walk' \in Seq(Label), walked' \in SUBSET Label,
           UNCHANGED <<redis, local, world, cache, snap, calls>>
    PROVE  /\ PoolTypeOK' /\ RedisGrows
           /\ \A q \in Process : ProcessInv(q)'
           /\ pc'[p] \in {"late", "save"} /\ view'[p] = v
           /\ \A q \in Process \ {p} : Untouched(q)
           /\ p \in Runner => pc'[p] = "save"
<1> DEFINE l == IF p \in Watcher /\ v.status = "local_newer" THEN "late" ELSE "save"
<1>1. Step(p, l, v) /\ l \in Phases
  BY DEF Decided, Phases
<1>2. /\ pc'[p] = l /\ view'[p] = v
      /\ pc' \in [Process -> Phases] /\ view' \in [Process -> ViewSet]
      /\ want' = want /\ lock' = lock /\ \A q \in Process \ {p} : Untouched(q)
  BY <1>1, StepTouches DEF IInv
<1>3. PoolTypeOK'
  BY <1>2 DEF IInv, PoolTypeOK, world
<1>4. RedisGrows
  BY DEF RedisGrows
<1>5. ProcessInv(p)'
  <2>1. RoleInv(p)'
    BY <1>2 DEF IInv, ProcessInv, RoleInv
  <2>2. SnapshotInv(p)'
    BY <1>2 DEF IInv, ProcessInv, SnapshotInv
  <2>3. FoundInv(p)'
    BY <1>2 DEF IInv, ProcessInv, FoundInv
  <2> QED  BY <2>1, <2>2, <2>3 DEF ProcessInv
<1>6. \A q \in Process : ProcessInv(q)'
  BY <1>2, <1>3, <1>4, <1>5, ProcessKeeps
<1> QED  BY <1>2, <1>3, <1>4, <1>6, ConstantsAssumption

(* auth.json is written from the view. *)
LEMMA ActivateIs ==
    ASSUME IInv, NEW p \in Process, NEW l \in Label, Activate(p, l)
    PROVE  /\ auth' \in AuthSet /\ auth'.label = l
           /\ \E v \in ViewSet :
                /\ Decided(p, v)
                /\ v.redis = view[p].redis /\ v.found = view[p].found
                /\ v.status = view[p].status
                /\ v.active = l /\ v.recent = Append(view[p].recent, l)
<1> DEFINE v == [view[p] EXCEPT !.active = l, !.recent = Append(view[p].recent, l)]
<1>1. view[p] \in ViewSet /\ view[p].redis[l].token \in Token
  BY DEF IInv, PoolTypeOK, ViewSet, RecordSet
<1>2. l \in 0..NumLabels /\ view[p].recent \in Seq(Label)
  BY <1>1, Bounds DEF ViewSet
<1>3. Append(view[p].recent, l) \in Seq(Label)
  BY <1>2
<1>4. v \in ViewSet /\ v.redis = view[p].redis /\ v.found = view[p].found
      /\ v.status = view[p].status /\ v.active = l /\ v.recent = Append(view[p].recent, l)
  BY <1>1, <1>2, <1>3 DEF ViewSet
<1>5. auth' \in AuthSet /\ auth'.label = l
  BY <1>1 DEF Activate, Project, AuthSet
<1>6. [view[p] EXCEPT !.active = l, !.recent = Remember(@, l)] = v
  BY <1>1 DEF Remember, ViewSet
<1> HIDE DEF v
<1>7. Decided(p, v)
  BY <1>6 DEF Activate
<1> QED  BY <1>4, <1>5, <1>7

LEMMA UseLabelStep ==
    ASSUME IInv, NEW p \in Process, UseLabel(p)
    PROVE  IInv' /\ RedisGrows
<1>0. /\ pc[p] = "select" /\ want[p] \in Label
      /\ walk' = <<>> /\ walked' = {} /\ UNCHANGED <<redis, local, world, cache, snap, calls>>
  BY Bounds DEF UseLabel, IInv, PoolTypeOK
<1>1. walk' \in Seq(Label) /\ walked' \in SUBSET Label
  BY <1>0
<1>2. \E v \in ViewSet :
        /\ Decided(p, v) /\ auth' \in AuthSet
        /\ v.redis = view[p].redis /\ v.found = view[p].found /\ v.status = view[p].status
  <2>1. CASE Activate(p, want[p])
    BY <1>0, <2>1, ActivateIs
  <2>2. CASE Decided(p, view[p]) /\ UNCHANGED auth
    BY <2>2 DEF IInv, PoolTypeOK
  <2> QED  BY <2>1, <2>2 DEF UseLabel
<1>3. PoolTypeOK' /\ RedisGrows /\ \A q \in Process : ProcessInv(q)'
  BY <1>0, <1>1, <1>2, DecidedKeeps
<1> QED  BY <1>0, <1>3, WalkReset DEF IInv

LEMMA WatchStep ==
    ASSUME IInv, NEW p \in Process, Watch(p)
    PROVE  IInv' /\ RedisGrows
<1>0. /\ pc[p] = "select"
      /\ walk' = <<>> /\ walked' = {} /\ UNCHANGED <<redis, local, world, cache, snap, calls>>
  BY DEF Watch
<1>1. walk' \in Seq(Label) /\ walked' \in SUBSET Label
  BY <1>0
<1> DEFINE eligible == Eligible(view[p].redis, snap[p])
<1>2. \E v \in ViewSet :
        /\ Decided(p, v) /\ auth' \in AuthSet
        /\ v.redis = view[p].redis /\ v.found = view[p].found /\ v.status = view[p].status
  <2>0. view[p] \in ViewSet /\ auth \in AuthSet /\ snap[p] \in [Label -> Known]
    BY DEF IInv, PoolTypeOK
  <2>1. CASE Decided(p, view[p]) /\ UNCHANGED auth
    BY <2>0, <2>1
  <2>2. CASE eligible # {} /\ Activate(p, PickNextBest(eligible, snap[p]))
    <3>1. PickNextBest(eligible, snap[p]) \in Label
      <4>1. eligible \in SUBSET Label /\ eligible # {}
        BY <2>2, EligibleLabels
      <4> HIDE DEF eligible
      <4> QED  BY <2>0, <4>1, NextBestIs
    <3> QED  BY <2>2, <3>1, ActivateIs
  <2>3. CASE auth' = NoAuth /\ Decided(p, [view[p] EXCEPT !.active = 0])
    <3> DEFINE v == [view[p] EXCEPT !.active = 0]
    <3>1. /\ v \in ViewSet /\ v.redis = view[p].redis /\ v.found = view[p].found
          /\ v.status = view[p].status
      BY <2>0, Bounds DEF ViewSet
    <3>2. Decided(p, v) /\ auth' \in AuthSet
      BY <2>3 DEF AuthSet
    <3> HIDE DEF v
    <3> QED  BY <3>1, <3>2
  <2> QED  BY <2>1, <2>2, <2>3 DEF Watch, WatchKeep, WatchRotate
<1>3. PoolTypeOK' /\ RedisGrows /\ \A q \in Process : ProcessInv(q)'
  BY <1>0, <1>1, <1>2, DecidedKeeps
<1> QED  BY <1>0, <1>3, WalkReset DEF IInv

LEMMA DieStep ==
    ASSUME IInv, NEW p \in Process, Die(p)
    PROVE  IInv' /\ RedisGrows
<1>1. /\ PoolTypeOK' /\ ProcessInv(p)' /\ \A q \in Process \ {p} : Untouched(q)
  BY EndTouches DEF Die, IInv, PoolTypeOK
<1>2. RedisGrows
  BY DEF Die, RedisGrows
<1>3. \A q \in Process : ProcessInv(q)'
  BY <1>1, <1>2, ProcessKeeps
<1> QED  BY <1>1, <1>2, <1>3, WalkReset DEF IInv, Die

LEMMA SaveStep ==
    ASSUME IInv, NEW p \in Process, Save(p)
    PROVE  IInv' /\ RedisGrows
<1>1. view[p].active \in 0..NumLabels /\ view[p].recent \in Seq(Label)
  BY DEF IInv, PoolTypeOK, ViewSet
<1>2. local' \in [active : 0..NumLabels, recent : Seq(Label)]
      /\ local'.active = view[p].active /\ local'.recent = view[p].recent
  BY <1>1 DEF Save
<1>3. walk' \in Seq(Label) /\ walked' \in SUBSET Label
  <2>1. \/ walk' = <<>> /\ walked' = {}
        \/ walk' = walk /\ walked' = walked
    BY DEF Save, history
  <2>2. walk \in Seq(Label) /\ walked \in SUBSET Label /\ <<>> \in Seq(Label)
    BY DEF IInv, PoolTypeOK
  <2> QED  BY <2>1, <2>2
<1>4. /\ pc'[p] = "idle" /\ PoolTypeOK' /\ ProcessInv(p)'
      /\ \A q \in Process \ {p} : Untouched(q)
  BY <1>2, <1>3, EndTouches DEF Save, IInv, PoolTypeOK, world
<1>5. RedisGrows
  BY DEF Save, RedisGrows
<1>6. \A q \in Process : ProcessInv(q)'
  BY <1>4, <1>5, ProcessKeeps
<1>7. WalkInv'
  <2>1. CASE p \in Watcher
    BY <2>1, WalkReset DEF Save
  <2>2. CASE p \in Runner
    <3>1. UNCHANGED <<walk, walked, auth>> /\ pc[p] = "save"
      BY <2>2, ConstantsAssumption DEF Save, history
    <3>2. \A q \in Runner : q # p => pc[q] = "idle"
      <4>1. \A q \in Runner : pc[q] # "idle" => lock = q
        BY DEF IInv, ProcessInv, RoleInv, Process
      <4> QED  BY <2>2, <3>1, <4>1
    <3>3. \A q \in Runner : pc'[q] = "idle"
      BY <1>4, <3>2 DEF Untouched, Process
    <3>4. Tracks(view[p].recent, view[p].active)
      BY <2>2, <3>1 DEF IInv, WalkInv, Loaded
    <3>5. /\ \A q \in Runner : ~(pc'[q] \in Loaded)
          /\ Tracks(local.recent, local.active)'
      BY <1>2, <3>1, <3>3, <3>4 DEF Tracks, Loaded
    <3>6. (walk # <<>> => auth.label \in {0, walk[Len(walk)]})' /\ NoEarlyRepeat'
      BY <3>1 DEF IInv, WalkInv, NoEarlyRepeat
    <3> QED  BY <3>5, <3>6 DEF WalkInv
  <2> QED  BY <2>1, <2>2 DEF Process
<1> QED  BY <1>4, <1>5, <1>6, <1>7 DEF IInv

(* A rotation that takes the walk further takes it to an account that is not  *)
(* among the last ones, as many as there are others.                          *)
LEMMA NextIsNew ==
    ASSUME NEW E \in SUBSET Label, NEW recent \in Seq(Label), walk \in Seq(Label),
           walk # <<>>, NEW current, Tracks(recent, current),
           NEW pick \in (E \ {current}) \ CycleAvoid(E \ {current}, recent),
           NEW i \in 1..Len(walk), Len(walk) + 1 - i < Cardinality(E)
    PROVE  walk[i] # pick
<1> DEFINE S == E \ {current}
           k == Len(recent) - Len(walk) + i
<1> SUFFICES ASSUME walk[i] = pick PROVE FALSE
  OBVIOUS
<1>1. /\ Len(walk) \in Nat /\ Len(recent) \in Nat /\ Len(walk) <= Len(recent)
      /\ Len(walk) >= 1
  BY DEF Tracks
<1>2. k \in 1..Len(recent) /\ recent[k] = pick /\ Len(recent) - k + 1 = Len(walk) + 1 - i
  BY <1>1 DEF Tracks
<1>3. current = recent[Len(recent)] /\ current \in Since(recent, k)
  <2>1. Len(walk) \in 1..Len(walk) /\ Len(recent) - Len(walk) + Len(walk) = Len(recent)
    BY <1>1
  <2>2. current = recent[Len(recent)]
    BY <2>1 DEF Tracks
  <2>3. Len(recent) \in k..Len(recent)
    BY <1>1, <1>2
  <2> QED  BY <2>2, <2>3 DEF Since
<1>4. pick \in S /\ pick \notin CycleAvoid(S, recent)
  OBVIOUS
<1>5. ~(Cardinality(S \cap Since(recent, k)) < Cardinality(S))
  <2>1. CycleAvoid(S, recent) = {recent[j] : j \in {j \in DOMAIN recent :
           recent[j] \in S /\ Cardinality(S \cap Since(recent, j)) < Cardinality(S)}}
    BY DEF CycleAvoid, Since
  <2>2. k \in DOMAIN recent
    BY <1>2
  <2> HIDE DEF S, k
  <2> QED  BY <1>2, <1>4, <2>1, <2>2
<1>6. /\ Since(recent, k) \in SUBSET Label
      /\ Cardinality(Since(recent, k)) <= Len(walk) + 1 - i
  <2>1. /\ Since(recent, k) \subseteq Label
        /\ Cardinality(Since(recent, k)) <= Len(recent) - k + 1
    BY <1>2, SinceBounded
  <2> QED  BY <1>2, <2>1
<1> HIDE DEF k
<1>7. S \cap Since(recent, k) \subseteq Since(recent, k) \ {current}
  OBVIOUS
<1>8. /\ IsFiniteSet(Since(recent, k)) /\ Cardinality(Since(recent, k)) \in Nat
      /\ Cardinality(E) \in Nat /\ IsFiniteSet(E)
  BY <1>6, LabelsFinite
<1>9. /\ Cardinality(Since(recent, k) \ {current}) = Cardinality(Since(recent, k)) - 1
      /\ IsFiniteSet(Since(recent, k) \ {current})
  BY <1>3, <1>8, FS_RemoveElement
<1>10. Cardinality(S \cap Since(recent, k)) <= Cardinality(Since(recent, k)) - 1
  BY <1>7, <1>9, FS_Subset
<1>11. Cardinality(S) >= Cardinality(E) - 1 /\ Cardinality(S) \in Nat
  <2>1. Cardinality(S) = IF current \in E THEN Cardinality(E) - 1 ELSE Cardinality(E)
    BY <1>8, FS_RemoveElement
  <2>2. Cardinality(S) \in Nat
    BY LabelsFinite
  <2> HIDE DEF S
  <2> QED  BY <1>8, <2>1, <2>2
<1>12. Cardinality(S \cap Since(recent, k)) \in Nat
  BY <1>6, LabelsFinite
<1> HIDE DEF S
<1> QED  BY <1>1, <1>5, <1>6, <1>8, <1>10, <1>11, <1>12

LEMMA RotateStep ==
    ASSUME IInv, NEW p \in Process, Rotate(p)
    PROVE  IInv' /\ RedisGrows
<1> DEFINE eligible == Eligible(view[p].redis, snap[p])
           current == Current(auth, view[p])
           others == eligible \ {current}
           pick == PickLeastUsed(others, snap[p], view[p].recent)
<1>0. /\ pc[p] = "select" /\ p \in Runner
      /\ UNCHANGED <<redis, local, world, cache, snap, calls>>
  BY DEF Rotate
<1>1. /\ view[p] \in ViewSet /\ view[p].recent \in Seq(Label) /\ snap[p] \in [Label -> Known]
      /\ walk \in Seq(Label) /\ walked \in SUBSET Label /\ auth \in AuthSet
  BY DEF IInv, PoolTypeOK, ViewSet
<1>2. eligible \in SUBSET Label
  BY EligibleLabels
<1>3. Tracks(view[p].recent, view[p].active)
  BY <1>0 DEF IInv, WalkInv, Loaded
<1>4. CASE others = {}
  <2>1. Decided(p, view[p]) /\ UNCHANGED <<auth, history>>
    BY <1>4 DEF Rotate
  <2>2. walk' \in Seq(Label) /\ walked' \in SUBSET Label /\ auth' \in AuthSet
    BY <1>1, <2>1 DEF history
  <2>3. /\ PoolTypeOK' /\ RedisGrows /\ \A q \in Process : ProcessInv(q)'
        /\ view'[p] = view[p] /\ \A q \in Process \ {p} : Untouched(q)
    BY <1>0, <1>1, <2>1, <2>2, DecidedKeeps
  <2>4. WalkInv'
    BY <1>0, <1>3, <2>1, <2>3, WalkGoesOn DEF history
  <2> QED  BY <2>3, <2>4 DEF IInv
<1>5. CASE others # {}
  <2>1. /\ Activate(p, pick) /\ walked' = eligible
        /\ walk' = IF eligible = walked THEN Append(walk, pick) ELSE <<pick>>
    BY <1>5 DEF Rotate
  <2>2. pick \in others \ CycleAvoid(others, view[p].recent) /\ pick \in Label
    <3>1. others \in SUBSET Label /\ others # {}
      BY <1>2, <1>5
    <3> HIDE DEF others
    <3> QED  BY <1>1, <3>1, PickIs
  <2> HIDE DEF pick
  <2>3. walk' \in Seq(Label) /\ walked' \in SUBSET Label
    BY <1>1, <1>2, <2>1, <2>2
  <2>4. auth' \in AuthSet /\ auth'.label = pick
    BY <2>1, <2>2, ActivateIs
  <2>5. PICK v \in ViewSet :
          /\ Decided(p, v) /\ v.redis = view[p].redis /\ v.found = view[p].found
          /\ v.status = view[p].status /\ v.active = pick
          /\ v.recent = Append(view[p].recent, pick)
    BY <2>1, <2>2, ActivateIs
  <2>6. /\ PoolTypeOK' /\ RedisGrows /\ \A q \in Process : ProcessInv(q)'
        /\ view'[p] = v /\ pc'[p] = "save"
    BY <1>0, <2>3, <2>4, <2>5, DecidedKeeps
  <2>7. \A q \in Runner : q = p \/ pc'[q] = "idle"
    <3>1. \A q \in Runner : pc'[q] # "idle" => lock' = q
      BY <2>6 DEF ProcessInv, RoleInv, Process
    <3> QED  BY <1>0, <2>6, <3>1
  <2>8. /\ walk' # <<>> /\ Len(walk') \in Nat /\ walk'[Len(walk')] = pick
        /\ Len(walk') <= Len(v.recent)
        /\ \A i \in 1..Len(walk') : walk'[i] = v.recent[Len(v.recent) - Len(walk') + i]
    <3>1. CASE eligible = walked /\ walk # <<>>
      <4>1. /\ Len(walk) \in Nat /\ Len(view[p].recent) \in Nat
            /\ Len(walk) <= Len(view[p].recent)
            /\ \A i \in 1..Len(walk) :
                  walk[i] = view[p].recent[Len(view[p].recent) - Len(walk) + i]
        BY <1>1, <1>3, <3>1 DEF Tracks
      <4>2. /\ walk' = Append(walk, pick) /\ Len(walk') = Len(walk) + 1
            /\ Len(v.recent) = Len(view[p].recent) + 1
            /\ \A m \in 1..Len(walk) : walk'[m] = walk[m]
            /\ \A m \in 1..Len(view[p].recent) : v.recent[m] = view[p].recent[m]
            /\ walk'[Len(walk) + 1] = pick /\ v.recent[Len(view[p].recent) + 1] = pick
        BY <1>1, <2>1, <2>2, <2>5, <3>1
      <4>3. ASSUME NEW i \in 1..Len(walk')
            PROVE  walk'[i] = v.recent[Len(v.recent) - Len(walk') + i]
        <5>1. CASE i = Len(walk')
          <6>1. i = Len(walk) + 1
            BY <4>2, <5>1
          <6>2. Len(v.recent) - Len(walk') + i = Len(view[p].recent) + 1
            <7>1. \A a, b \in Nat : (a + 1) - (b + 1) + (b + 1) = a + 1
              OBVIOUS
            <7>2. Len(walk') = Len(walk) + 1 /\ Len(v.recent) = Len(view[p].recent) + 1
              BY <4>2
            <7> QED  BY <4>1, <6>1, <7>1, <7>2
          <6> QED  BY <4>2, <6>1, <6>2
        <5>2. CASE i # Len(walk')
          <6>1. i \in 1..Len(walk)
            BY <4>1, <4>2, <5>2
          <6>2. /\ Len(v.recent) - Len(walk') + i = Len(view[p].recent) - Len(walk) + i
                /\ Len(view[p].recent) - Len(walk) + i \in 1..Len(view[p].recent)
            BY <4>1, <4>2, <6>1
          <6> QED  BY <4>1, <4>2, <6>1, <6>2
        <5> QED  BY <5>1, <5>2
      <4>4. walk' # <<>> /\ Len(walk') \in Nat /\ Len(walk') <= Len(v.recent)
        BY <3>1, <4>1, <4>2
      <4> QED  BY <4>1, <4>2, <4>3, <4>4
    <3>2. CASE ~(eligible = walked /\ walk # <<>>)
      <4>1. walk' = <<pick>>
        <5>1. CASE walk = <<>>
          BY <2>1, <2>2, <5>1
        <5>2. CASE eligible # walked
          BY <2>1, <5>2
        <5> QED  BY <3>2, <5>1, <5>2
      <4>2. /\ Len(v.recent) = Len(view[p].recent) + 1 /\ Len(view[p].recent) \in Nat
            /\ v.recent[Len(v.recent)] = pick
        BY <1>1, <2>2, <2>5
      <4> QED  BY <4>1, <4>2
    <3> QED  BY <3>1, <3>2
  <2>9. NoEarlyRepeat'
    <3> SUFFICES ASSUME NEW i \in 1..Len(walk'), NEW j \in 1..Len(walk'),
                        i < j, j - i < Cardinality(eligible)
                 PROVE  walk'[i] # walk'[j]
      BY <2>1 DEF NoEarlyRepeat
    <3>1. eligible = walked /\ walk' = Append(walk, pick) /\ walk # <<>>
      BY <1>1, <2>1
    <3>2. CASE j # Len(walk')
      <4>0. Len(walk) \in Nat /\ Len(walk') = Len(walk) + 1
        BY <1>1, <3>1
      <4>1. i \in 1..Len(walk) /\ j \in 1..Len(walk)
        BY <3>2, <4>0
      <4>2. walk'[i] = walk[i] /\ walk'[j] = walk[j]
        BY <1>1, <2>2, <3>1, <4>1
      <4> QED  BY <3>1, <4>1, <4>2 DEF IInv, WalkInv, NoEarlyRepeat
    <3>3. CASE j = Len(walk')
      <4>1. i \in 1..Len(walk) /\ walk'[i] = walk[i] /\ walk'[j] = pick
            /\ j = Len(walk) + 1
        BY <1>1, <2>2, <3>1, <3>3
      <4>2. Tracks(view[p].recent, current)
        <5>1. auth.label \in {0, walk[Len(walk)]} /\ view[p].active = walk[Len(walk)]
          BY <1>3, <3>1 DEF IInv, WalkInv, Tracks
        <5>2. current = view[p].active
          BY <5>1 DEF Current
        <5> QED  BY <1>3, <5>2
      <4>3. pick \in (eligible \ {current}) \ CycleAvoid(eligible \ {current}, view[p].recent)
        BY <2>2
      <4>4. Len(walk) + 1 - i < Cardinality(eligible)
        BY <4>1
      <4> HIDE DEF eligible, current
      <4>5. walk[i] # pick
        BY <1>1, <1>2, <3>1, <4>1, <4>2, <4>3, <4>4, NextIsNew
      <4> QED  BY <4>1, <4>5
    <3> QED  BY <3>2, <3>3
  <2>10. WalkInv'
    <3>1. \A q \in Runner : pc'[q] \in Loaded => q = p
      BY <2>7 DEF Loaded
    <3>2. Tracks(view[p].recent, view[p].active)'
      BY <2>5, <2>6, <2>8 DEF Tracks
    <3>3. ~(\A q \in Runner : pc'[q] # "save")
      BY <1>0, <2>6
    <3>4. (walk # <<>> => auth.label \in {0, walk[Len(walk)]})'
      BY <2>4, <2>8
    <3> QED  BY <2>9, <3>1, <3>2, <3>3, <3>4 DEF WalkInv
  <2> QED  BY <2>6, <2>10 DEF IInv
<1> QED  BY <1>4, <1>5

-----------------------------------------------------------------------------
(* The theorems.                                                           *)

LEMMA CommandStep ==
    ASSUME IInv, NEW p \in Process, Command(p)
    PROVE  IInv' /\ RedisGrows
<1>1. CASE Publish(p)
  <2>1. pc[p] = "publish" /\ Chosen(p) \in {"probe", "select", "save"}
    BY <1>1 DEF Publish, Chosen
  <2> QED  BY <1>1, <2>1, PublicationStep DEF Publish
<1>2. CASE PublishLate(p)
  <2>1. pc[p] = "late"
    BY <1>2 DEF PublishLate
  <2> QED  BY <1>2, <2>1, PublicationStep DEF PublishLate
<1> QED  BY <1>1, <1>2, BeginStep, ReadStep, ReconcileStep, ProbeStep, UseLabelStep,
            RotateStep, WatchStep, SaveStep, DieStep DEF Command

LEMMA NextInv == IInv /\ [Next]_vars => IInv' /\ RedisGrows
<1> SUFFICES ASSUME IInv, [Next]_vars PROVE IInv' /\ RedisGrows
  OBVIOUS
<1>1. CASE Next
  BY <1>1, AroundStep, CommandStep DEF Next
<1>2. CASE UNCHANGED vars
  <2>1. /\ UNCHANGED <<redis, local, auth, lock, issued, usage, dark, now, events, cache,
                       pc, want, view, snap, calls, walk, walked>>
    BY <1>2 DEF vars, world, history
  <2>2. PoolTypeOK'
    BY <2>1 DEF IInv, PoolTypeOK
  <2>3. (\A p \in Process : ProcessInv(p))'
    BY <2>1 DEF IInv, ProcessInv, RoleInv, SnapshotInv, FoundInv
  <2>4. WalkInv'
    BY <2>1 DEF IInv, WalkInv, Tracks, NoEarlyRepeat
  <2> QED  BY <2>1, <2>2, <2>3, <2>4 DEF IInv, RedisGrows
<1> QED  BY <1>1, <1>2

(* Every variable keeps to its type. *)
THEOREM PoolTypeCorrect == Spec => []PoolTypeOK
<1>1. IInv => PoolTypeOK
  BY DEF IInv
<1> QED  BY <1>1, InitInv, NextInv, PTL DEF Spec

(* Launches walk the pool: an account is not selected again before every other *)
(* eligible one has been, whatever watchers, Codex and other machines do       *)
(* (pickLeastUsedCodexPoolLabel over the history of the local state file).     *)
THEOREM PoolWalked == Spec => []NoEarlyRepeat
<1>1. IInv => NoEarlyRepeat
  BY DEF IInv, WalkInv
<1> QED  BY <1>1, InitInv, NextInv, PTL DEF Spec

(* A step of a process that it is inside of is its own. *)
LEMMA OwnStep ==
    ASSUME IInv, [Next]_vars, NEW p \in Process, Inside(p)
    PROVE  Command(p) /\ ~\E w \in 0..NumLabels : Begin(p, w)
<1>1. pc'[p] # pc[p] /\ pc[p] # "idle"
  BY DEF Inside
<1>2. ~UNCHANGED vars
  BY <1>1 DEF vars
<1>3. ~Around
  <2>1. CodexRefresh => UNCHANGED pc
    BY DEF CodexRefresh, command
  <2>2. CodexLogout \/ CacheAge \/ Tick => UNCHANGED pc
    BY DEF CodexLogout, CacheAge, Tick, command
  <2>3. \A l : RedisRefresh(l) => UNCHANGED pc
    BY DEF RedisRefresh, command
  <2>4. \A l : RedisEdit(l) => UNCHANGED pc
    BY DEF RedisEdit, command
  <2>5. \A l : Darken(l) => UNCHANGED pc
    BY DEF Darken, command
  <2>6. \A l, u : UsageChange(l, u) => UNCHANGED pc
    BY DEF UsageChange, command
  <2> QED  BY <1>1, <2>1, <2>2, <2>3, <2>4, <2>5, <2>6 DEF Around
<1>4. PICK q \in Process : Command(q)
  BY <1>2, <1>3 DEF Next
<1>5. q = p
  <2> DEFINE Moves == \E l : Goto(q, l)
  <2>0. /\ \A l, v : Step(q, l, v) => Moves
        /\ End(q) => Moves
    BY DEF Step, End
  <2> HIDE DEF Moves
  <2>1. \A v : Decided(q, v) => Moves
    BY <2>0 DEF Decided
  <2>2. /\ \A l : Activate(q, l) => Moves
        /\ \A w : Begin(q, w) => Moves
    <3>1. \A l : Activate(q, l) => Moves
      BY <2>1 DEF Activate
    <3>2. \A w : Begin(q, w) => Goto(q, "read")
      BY DEF Begin
    <3> QED  BY <3>1, <3>2 DEF Moves
  <2>3. Read(q) \/ Probe(q) \/ Save(q) \/ Die(q) => Moves
    BY <2>0 DEF Read, Probe, Save, Die
  <2>4. Reconcile(q) => Moves
    BY <2>0 DEF Reconcile
  <2>5. Publish(q) \/ PublishLate(q) => Moves
    BY <2>0 DEF Publish, PublishLate
  <2>6. UseLabel(q) \/ Rotate(q) => Moves
    BY <2>1, <2>2 DEF UseLabel, Rotate
  <2>7. Watch(q) => Moves
    BY <2>1, <2>2 DEF Watch, WatchKeep, WatchRotate
  <2>8. \E l : pc' = [pc EXCEPT ![q] = l]
    BY <1>4, <2>2, <2>4, <2>5, <2>6, <2>7, <2>3 DEF Command, Goto, Moves
  <2> QED  BY <1>1, <2>8 DEF IInv, PoolTypeOK
<1> QED  BY <1>1, <1>4, <1>5 DEF Begin

(* Only these steps of a command write auth.json or Redis. *)
LEMMA Writers ==
    ASSUME NEW p \in Process, Command(p), ~\E w \in 0..NumLabels : Begin(p, w)
    PROVE  /\ auth' # auth => Reconcile(p) \/ UseLabel(p) \/ Rotate(p) \/ Watch(p)
           /\ redis' # redis => Publish(p) \/ PublishLate(p)
<1>1. /\ Read(p) => auth' = auth /\ redis' = redis
      /\ Probe(p) => auth' = auth /\ redis' = redis
      /\ Save(p) => auth' = auth /\ redis' = redis
      /\ Die(p) => auth' = auth /\ redis' = redis
  BY DEF Read, Probe, Save, Die
<1>2. /\ Publish(p) => auth' = auth
      /\ PublishLate(p) => auth' = auth
  BY DEF Publish, PublishLate
<1>3. /\ Reconcile(p) => redis' = redis
      /\ UseLabel(p) => redis' = redis
  BY DEF Reconcile, UseLabel
<1>4. /\ Rotate(p) => redis' = redis
      /\ Watch(p) => redis' = redis
  BY DEF Rotate, Watch
<1> QED  BY <1>1, <1>2, <1>3, <1>4 DEF Command

LEMMA ReconcileSameLabel ==
    ASSUME NEW p \in Process, Reconcile(p), auth' # auth
    PROVE  auth.label # 0 /\ auth'.label = auth.label
<1>1. auth.label # 0 /\ \E v : auth' = Project(v, auth.label)
  BY DEF Reconcile
<1> QED  BY <1>1 DEF Project

(* A runner reconciles with a newer record, or has seen to it that Redis's    *)
(* tokens are no older than those it found.                                   *)
LEMMA PublishesFirst ==
    ASSUME IInv, [Next]_vars, NEW p \in Runner, Inside(p), auth' # auth, auth.label # 0,
           auth = (IF pc[p] = "reconcile" THEN auth ELSE view[p].found),
           view[p].status # "conflict"
    PROVE  Expiry[auth.label][redis[auth.label].token] >= Expiry[auth.label][auth.token]
<1>0. p \in Process /\ p \notin Watcher
  BY ConstantsAssumption DEF Process
<1>1. Reconcile(p) \/ UseLabel(p) \/ Rotate(p) \/ Watch(p)
  BY <1>0, OwnStep, Writers
<1>2. auth.label \in Label /\ auth.token \in Token /\ redis[auth.label].token \in Token
  BY Places DEF IInv, PoolTypeOK, RecordSet
<1>3. auth.token <= redis[auth.label].token
  <2>1. CASE Reconcile(p)
    <3> DEFINE stored == view[p].redis[auth.label].token
    <3>1. Expiry[auth.label][auth.token] < Expiry[auth.label][stored] /\ pc[p] = "reconcile"
      <4>1. /\ view[p] \in ViewSet
            /\ [view[p] EXCEPT !.active = local.active, !.recent = local.recent,
                               !.found = auth].redis = view[p].redis
        BY <1>0 DEF IInv, PoolTypeOK, ViewSet
      <4> QED  BY <2>1, <4>1 DEF Reconcile
    <3>2. stored \in Token /\ stored <= redis[auth.label].token
      BY <1>0, <1>2, <3>1 DEF IInv, ProcessInv, SnapshotInv, PoolTypeOK, ViewSet, RecordSet
    <3>3. auth.token < stored
      BY <1>2, <3>1, <3>2, FresherIsLater
    <3>4. auth.token \in Nat /\ stored \in Nat /\ redis[auth.label].token \in Nat
      BY <1>2, <3>2, Bounds
    <3> HIDE DEF stored
    <3> QED  BY <3>2, <3>3, <3>4
  <2>2. CASE UseLabel(p) \/ Rotate(p)
    <3>1. pc[p] = "select"
      BY <2>2 DEF UseLabel, Rotate
    <3>2. auth = view[p].found
      BY <3>1
    <3> QED  BY <1>0, <3>1, <3>2 DEF IInv, ProcessInv, FoundInv
  <2>3. CASE Watch(p)
    BY <1>0, <2>3 DEF Watch
  <2> QED  BY <1>1, <2>1, <2>2, <2>3
<1> QED  BY <1>2, <1>3, FresherIsLater

LEMMA PublishesSafely ==
    ASSUME IInv, [Next]_vars, NEW p \in Process, NEW l \in Label, Inside(p)
    PROVE  redis'[l].token >= redis[l].token /\ redis'[l].barred = redis[l].barred
<1>1. redis[l].token \in Nat
  <2>1. redis[l] \in RecordSet
    BY DEF IInv, PoolTypeOK
  <2> QED  BY <2>1, Bounds DEF RecordSet
<1>2. redis' # redis => Publish(p) \/ PublishLate(p)
  BY OwnStep, Writers
<1>3. CASE redis' = redis
  BY <1>1, <1>3
<1>4. CASE redis' # redis
  <2>1. Published(p) /\ pc[p] \in {"publish", "late"}
    BY <1>2, <1>4 DEF Publish, PublishLate
  <2>2. RedisGrows /\ redis'[l].barred = redis[l].barred
    BY <2>1, PublishedIs
  <2> QED  BY <1>1, <2>2 DEF RedisGrows
<1> QED  BY <1>3, <1>4

(* Tokens that Codex has refreshed are not given up, nor is a record undone.  *)
THEOREM TokensKept == Spec => PublicationsKept
<1>1. IInv /\ [Next]_vars =>
        \A p \in Runner :
          /\ Inside(p) /\ auth' # auth /\ auth.label # 0
          /\ auth = (IF pc[p] = "reconcile" THEN auth ELSE view[p].found)
          /\ view[p].status # "conflict"
          => Expiry[auth.label][redis[auth.label].token] >= Expiry[auth.label][auth.token]
  BY PublishesFirst
<1>2. IInv /\ [Next]_vars =>
        \A p \in Process, l \in Label :
           Inside(p) => /\ redis'[l].token >= redis[l].token
                        /\ redis'[l].barred = redis[l].barred
  BY PublishesSafely
<1>3. Spec => []IInv
  BY InitInv, NextInv, PTL DEF Spec
<1>4. Spec => RefreshPublished
  BY <1>1, <1>3, PTL DEF Spec, RefreshPublished
<1>5. Spec => PublicationSafe
  BY <1>2, <1>3, PTL DEF Spec, PublicationSafe
<1> QED  BY <1>4, <1>5 DEF PublicationsKept

(* A watcher selects with its own eyes: from the usage that it collected.     *)
LEMMA WatcherSelects ==
    ASSUME IInv, [Next]_vars, NEW p \in Watcher, Inside(p), auth' # auth
    PROVE  \/ Reconcile(p) /\ auth.label # 0 /\ auth'.label = auth.label
           \/ Watch(p) /\ WatchRotate(p)
<1>0. p \in Process /\ p \notin Runner /\ want[p] = 0
  BY ConstantsAssumption DEF Process, IInv, ProcessInv, RoleInv
<1>1. Reconcile(p) \/ Watch(p)
  BY <1>0, OwnStep, Writers DEF UseLabel, Rotate
<1>2. Reconcile(p) => auth.label # 0 /\ auth'.label = auth.label
  BY <1>0, ReconcileSameLabel
<1>3. WatchKeep(p) => auth' = auth
  BY DEF WatchKeep
<1> QED  BY <1>1, <1>2, <1>3 DEF Watch

LEMMA ImprovesOrBarred ==
    ASSUME IInv, [Next]_vars, NEW p \in Watcher, Inside(p),
           auth.label # 0, auth'.label \notin {0, auth.label}
    PROVE  \/ snap[p][auth'.label].primary <= snap[p][auth.label].primary
           \/ auth.label \notin Eligible(view[p].redis, snap[p])
<1> DEFINE eligible == Eligible(view[p].redis, snap[p])
           pick == PickNextBest(eligible, snap[p])
<1>0. p \in Process /\ snap[p] \in [Label -> Known]
  BY DEF Process, IInv, PoolTypeOK
<1>1. WatchRotate(p)
  BY WatcherSelects
<1>2. eligible # {} /\ Activate(p, pick)
  BY <1>1, Bounds DEF WatchRotate
<1>3. /\ eligible \in SUBSET Label /\ pick \in eligible
      /\ \A k \in eligible : snap[p][pick].primary <= snap[p][k].primary
  <2>1. eligible \in SUBSET Label /\ eligible # {}
    BY <1>2, EligibleLabels
  <2> HIDE DEF eligible
  <2> QED  BY <1>0, <2>1, NextBestIs
<1>4. auth'.label = pick
  BY <1>2 DEF Activate, Project
<1> QED  BY <1>3, <1>4

LEMMA ClearsOnEvidence ==
    ASSUME IInv, [Next]_vars, NEW p \in Process, Inside(p), auth' = NoAuth, auth # NoAuth
    PROVE  \A l \in CredentialEligible(view[p].redis) :
              snap[p][l].known /\ Exhausted(snap[p][l])
<1>1. auth.label # 0 /\ auth'.label = 0
  BY Places, Bounds DEF IInv, PoolTypeOK
<1>2. p \in Watcher
  <2>1. SUFFICES ASSUME p \in Runner PROVE FALSE
    BY DEF Process
  <2>2. p \notin Watcher
    BY <2>1, ConstantsAssumption
  <2>3. Reconcile(p) \/ UseLabel(p) \/ Rotate(p)
    BY <2>2, OwnStep, Writers DEF Watch
  <2>4. ~Reconcile(p)
    BY <1>1, ReconcileSameLabel
  <2>5. CASE UseLabel(p)
    <3>1. auth'.label = want[p]
      BY <1>1, <2>5 DEF UseLabel, Activate, Project
    <3> QED  BY <1>1, <2>5, <3>1 DEF UseLabel
  <2>6. CASE Rotate(p)
    <3> DEFINE others == Eligible(view[p].redis, snap[p]) \ {Current(auth, view[p])}
               pick == PickLeastUsed(others, snap[p], view[p].recent)
    <3>1. others # {} /\ Activate(p, pick)
      BY <1>1, <2>6 DEF Rotate, history
    <3>2. others \in SUBSET Label /\ snap[p] \in [Label -> Known]
          /\ view[p].recent \in Seq(Label)
      BY EligibleLabels DEF IInv, PoolTypeOK, ViewSet
    <3>3. pick \in Label
      <4> HIDE DEF others
      <4> QED  BY <3>1, <3>2, PickIs
    <3>4. auth'.label = pick
      BY <3>1 DEF Activate, Project
    <3> QED  BY <1>1, <3>3, <3>4, Bounds
  <2> QED  BY <2>3, <2>4, <2>5, <2>6
<1>3. WatchRotate(p)
  BY <1>1, <1>2, WatcherSelects
<1> DEFINE eligible == Eligible(view[p].redis, snap[p])
           pick == PickNextBest(eligible, snap[p])
<1>4. ASSUME eligible # {}, Activate(p, pick) PROVE FALSE
  <2>1. eligible \in SUBSET Label /\ snap[p] \in [Label -> Known]
    BY EligibleLabels DEF IInv, PoolTypeOK
  <2>2. pick \in Label
    <3> HIDE DEF eligible
    <3> QED  BY <1>4, <2>1, NextBestIs
  <2>3. auth'.label = pick
    BY <1>4 DEF Activate, Project
  <2> QED  BY <1>1, <2>2, <2>3, Bounds
<1>5. eligible = {} /\ \A l \in CredentialEligible(view[p].redis) : snap[p][l].known
  BY <1>1, <1>3, <1>4 DEF WatchRotate
<1> QED  BY <1>5, EligibleLabels

(* A watcher takes auth.json away for a known cause only.                     *)
THEOREM WatchedForCause == Spec => WatchForCause
<1>1. IInv /\ [Next]_vars =>
        \A p \in Watcher :
          LET old == auth.label  new == auth'.label IN
          Inside(p) /\ old # 0 /\ new \notin {0, old} =>
             \/ snap[p][new].primary <= snap[p][old].primary
             \/ old \notin Eligible(view[p].redis, snap[p])
  BY ImprovesOrBarred
<1>2. IInv /\ [Next]_vars =>
        \A p \in Process :
          Inside(p) /\ auth' = NoAuth /\ auth # NoAuth =>
             \A l \in CredentialEligible(view[p].redis) :
                snap[p][l].known /\ Exhausted(snap[p][l])
  BY ClearsOnEvidence
<1>3. Spec => []IInv
  BY InitInv, NextInv, PTL DEF Spec
<1>4. Spec => WatchImproves
  BY <1>1, <1>3, PTL DEF Spec, WatchImproves
<1>5. Spec => ClearedOnEvidence
  BY <1>2, <1>3, PTL DEF Spec, ClearedOnEvidence
<1> QED  BY <1>4, <1>5 DEF WatchForCause


-----------------------------------------------------------------------------
(* The copy of a thread.                                                   *)

(* The sequences that Without goes through, up to some line. *)
KeptAt(lines, gone, kept, i) ==
    IF i = 0 THEN <<>> ELSE IF i \in gone THEN kept[i - 1] ELSE Append(kept[i - 1], lines[i])
KeptUpTo(lines, gone, n, kept) == kept = [i \in 0..n |-> KeptAt(lines, gone, kept, i)]

LEMMA KeptExists ==
    ASSUME NEW lines, NEW gone, NEW n \in Nat
    PROVE  \E kept : KeptUpTo(lines, gone, n, kept)
<1> DEFINE Lacking == {m \in Nat : ~\E kept : KeptUpTo(lines, gone, m, kept)}
<1>1. SUFFICES ASSUME Lacking # {} PROVE FALSE
  OBVIOUS
<1>2. PICK m \in Lacking : \A k \in Lacking : m <= k
  BY <1>1, LeastNumber
<1>3. m \in Nat /\ ~\E kept : KeptUpTo(lines, gone, m, kept)
  BY <1>2
<1>4. CASE m = 0
  <2> DEFINE kept == [i \in 0..0 |-> <<>>]
  <2>1. KeptUpTo(lines, gone, 0, kept)
    BY DEF KeptUpTo, KeptAt
  <2> QED  BY <1>3, <1>4, <2>1
<1>5. CASE m # 0
  <2>1. m - 1 \in Nat /\ m - 1 \notin Lacking
    BY <1>2, <1>3, <1>5
  <2>2. PICK g : KeptUpTo(lines, gone, m - 1, g)
    BY <2>1
  <2> DEFINE kept == [i \in 0..m |-> IF i < m THEN g[i] ELSE KeptAt(lines, gone, g, m)]
  <2>3. \A i \in 0..m : kept[i] = KeptAt(lines, gone, kept, i)
    <3>1. \A i \in 0..(m - 1) : kept[i] = g[i]
      BY <1>3, <1>5
    <3>2. \A i \in 0..(m - 1) : g[i] = KeptAt(lines, gone, g, i)
      BY <2>2 DEF KeptUpTo
    <3>3. kept[m] = KeptAt(lines, gone, g, m)
      BY <1>3
    <3> HIDE DEF kept
    <3>4. \A i \in 0..m : KeptAt(lines, gone, kept, i) = KeptAt(lines, gone, g, i)
      <4> TAKE i \in 0..m
      <4>1. i # 0 => i - 1 \in 0..(m - 1)
        BY <1>3
      <4> QED  BY <3>1, <4>1 DEF KeptAt
    <3>5. \A i \in 0..m : i = m \/ i \in 0..(m - 1)
      BY <1>3
    <3> QED  BY <1>3, <3>1, <3>2, <3>3, <3>4, <3>5
  <2>4. KeptUpTo(lines, gone, m, kept)
    <3>1. kept = [i \in 0..m |-> kept[i]]
      OBVIOUS
    <3> HIDE DEF kept
    <3> QED  BY <2>3, <3>1 DEF KeptUpTo
  <2> QED  BY <1>3, <2>4
<1> QED  BY <1>4, <1>5

(* What Without keeps are lines of the sequence at places that are not gone. *)
LEMMA WithoutKeeps ==
    ASSUME NEW S, NEW lines \in Seq(S), NEW gone
    PROVE  /\ Without(lines, gone) \in Seq(S)
           /\ \A k \in DOMAIN Without(lines, gone) :
                 \E n \in DOMAIN lines \ gone : Without(lines, gone)[k] = lines[n]
<1> DEFINE f == CHOOSE kept : KeptUpTo(lines, gone, Len(lines), kept)
           Good(i) == /\ f[i] \in Seq(S)
                      /\ \A k \in DOMAIN f[i] : \E n \in DOMAIN lines \ gone : f[i][k] = lines[n]
           Bad == {i \in 0..Len(lines) : ~Good(i)}
<1>1. KeptUpTo(lines, gone, Len(lines), f)
  <2>0. Len(lines) \in Nat
    OBVIOUS
  <2>1. \E kept : KeptUpTo(lines, gone, Len(lines), kept)
    <3> HIDE DEF f
    <3> QED  BY <2>0, KeptExists
  <2> QED  BY <2>1, Zenon
<1>2. Without(lines, gone) = f[Len(lines)]
  BY DEF Without, KeptUpTo, KeptAt
<1> HIDE DEF f
<1>3. \A i \in 0..Len(lines) : f[i] = KeptAt(lines, gone, f, i)
  BY <1>1 DEF KeptUpTo
<1>4. Bad = {}
  <2>1. SUFFICES ASSUME Bad # {} PROVE FALSE
    OBVIOUS
  <2>2. PICK m \in Bad : \A k \in Bad : m <= k
    <3>1. Bad \in SUBSET Nat
      OBVIOUS
    <3> HIDE DEF Bad
    <3> QED  BY <2>1, <3>1, LeastNumber
  <2>3. m \in 0..Len(lines) /\ ~Good(m)
    BY <2>2
  <2>4. CASE m = 0
    <3>1. f[m] = <<>>
      BY <1>3, <2>3, <2>4 DEF KeptAt
    <3>2. f[m] \in Seq(S) /\ DOMAIN f[m] = {}
      BY <3>1
    <3> QED  BY <2>3, <3>2
  <2>5. CASE m # 0
    <3>1. m - 1 \in 0..Len(lines) /\ Good(m - 1) /\ m \in DOMAIN lines
      BY <2>2, <2>3, <2>5
    <3>2. CASE m \in gone
      BY <1>3, <2>3, <2>5, <3>1, <3>2 DEF KeptAt
    <3>3. CASE m \notin gone
      <4>1. f[m] = Append(f[m - 1], lines[m])
        BY <1>3, <2>3, <2>5, <3>3 DEF KeptAt
      <4>2. f[m] \in Seq(S)
        BY <3>1, <4>1
      <4>3. ASSUME NEW k \in DOMAIN f[m] PROVE \E n \in DOMAIN lines \ gone : f[m][k] = lines[n]
        <5>1. k \in 1..Len(f[m - 1]) \/ k = Len(f[m - 1]) + 1
          BY <3>1, <4>1, <4>3
        <5>2. CASE k \in 1..Len(f[m - 1])
          <6>1. f[m][k] = f[m - 1][k] /\ k \in DOMAIN f[m - 1]
            BY <3>1, <4>1, <5>2
          <6> QED  BY <3>1, <6>1
        <5>3. CASE k = Len(f[m - 1]) + 1
          <6>1. f[m][k] = lines[m]
            BY <3>1, <4>1, <5>3
          <6> QED  BY <3>1, <3>3, <6>1
        <5> QED  BY <5>1, <5>2, <5>3
      <4> QED  BY <2>3, <4>2, <4>3
    <3> QED  BY <3>2, <3>3
  <2> QED  BY <2>4, <2>5
<1>5. Good(Len(lines))
  BY <1>4
<1> QED  BY <1>2, <1>5

-----------------------------------------------------------------------------
(* Types.  Everything is below `next`, the number that nobody has seen.    *)
Kinds == {"uuid", "item", "word", "plain"}
SlotPlaces == {"own", "key", "verbatim", "response", "content", "field", "window", "lineage"}
Types == {"session_meta", "response_item", "compacted", "event_msg"}
IdsBelow(m) == [kind : Kinds, n : 0..(m - 1)]
SlotsBelow(m) ==
    {s \in [at : SlotPlaces, id : IdsBelow(m), whole : BOOLEAN] : s.at = "own" => s.whole}
PartsBelow(m) == [blob : {"none", "reasoning", "compaction"}, slots : SUBSET SlotsBelow(m)]
RecordsBelow(m) ==
    {r \in [type : Types, parts : SUBSET PartsBelow(m)] :
        r.type = "session_meta" => \A p \in r.parts : p.blob = "none"}
LinesBelow(m) == Seq(RecordsBelow(m))
MapsBelow(m) == UNION {[D -> IdsBelow(m)] : D \in SUBSET IdsBelow(m)}

Descents(m) ==
    {Original} \cup [source : Nat \ {0}, upto : Nat, policy : Policies, map : MapsBelow(m),
                     account : Account \cup {NoAccount}]
RolloutsBelow(m) ==
    [id : IdsBelow(m), lines : LinesBelow(m), owner : Account \cup {NoAccount}, half : BOOLEAN,
     archived : BOOLEAN, of : Descents(m)]
JobsBelow(m) ==
    [source : Nat \ {0}, upto : Nat, policy : Policies, archived : BOOLEAN,
     retired : SUBSET IdsBelow(m), account : Account \cup {NoAccount},
     newId : IdsBelow(m) \cup {NoId}, map : MapsBelow(m) \cup {<<>>}, file : LinesBelow(m)]

CopyPhases == {"idle", "scanned", "rotated", "copied", "renamed", "verified", "carried"}

CopyTypeOK ==
    /\ next \in Nat /\ 40 <= next
    /\ rollouts \in Seq(RolloutsBelow(next))
    /\ goals \in Seq(0..(next - 1)) /\ Len(goals) = Len(rollouts)
    /\ active \in Account /\ era \in Nat /\ appends \in Nat /\ begun \in Nat
    /\ phase \in [Caller -> CopyPhases]
    /\ job \in [Caller -> {NoJob} \cup JobsBelow(next)]
    /\ \A c \in Caller : phase[c] # "idle" => job[c] \in JobsBelow(next)

-----------------------------------------------------------------------------
(* What the lines of a copy are, of is its descent or the job that made it. *)

WornIn(lines) ==
    {s.id : s \in {s \in UNION {UNION {{s \in p.slots : p.blob = "none" \/ s.at # "own"} :
                                         p \in r.parts} : r \in Lines(lines)} :
        s.whole /\ s.at # "content" /\ IsIdentifyingId(s.id)}}

\* The lines that the scan of a thread has seen, among the rollouts rs.
Scanned(rs, of) == SubSeq(rs[of.source].lines, 1, of.upto)

\* The descent is of a thread that runs, and it has retired what the thread had.
Descended(rs, of, retired) ==
    /\ of.source \in DOMAIN rs /\ rs[of.source].owner # NoAccount
    /\ of.upto \in 0..Len(rs[of.source].lines)
    /\ retired = Collected(Scanned(rs, of)) \cup {rs[of.source].id}

Joins(map, newId) ==
    \A a, b \in DOMAIN map : map[a] = map[b] /\ map[a] # newId => a = b

KeptLines(origin, policy) ==
    Without(origin, {n \in DOMAIN origin : /\ origin[n].type = "response_item"
                                          /\ \E p \in origin[n].parts : Gone(p.blob, policy)})

Says(lines, origin, policy) ==
    /\ Len(KeptLines(origin, policy)) <= Len(lines)
    /\ \A k \in DOMAIN KeptLines(origin, policy) :
        /\ lines[k].type = KeptLines(origin, policy)[k].type
        /\ Blobs(lines[k], policy) = Blobs(KeptLines(origin, policy)[k], policy)

\* In the texts that are content no uuid of the thread is left.
ContentScrubbed(lines, retired) ==
    \A s \in SlotsOf(Lines(lines)) :
        ~s.whole /\ s.id.kind = "uuid" /\ s.id \in retired => s.at # "content"

\* Nothing of the thread is left at all.
AllScrubbed(lines, retired) ==
    /\ WornIn(lines) \cap retired = {}
    /\ \A s \in SlotsOf(Lines(lines)) : ~(~s.whole /\ s.id.kind = "uuid" /\ s.id \in retired)

-----------------------------------------------------------------------------
(* The threads and the commands. *)

IsCopy(i) == rollouts[i].of.source # 0
Retired(i) == IF IsCopy(i) THEN DOMAIN rollouts[i].of.map ELSE {}

ThreadInv(i) ==
    /\ IsCopy(i) => Descended(rollouts, rollouts[i].of, Retired(i)) /\ Joins(rollouts[i].of.map, rollouts[i].id)
    /\ IsCopy(i) /\ i \in Running =>
          /\ Says(rollouts[i].lines, Scanned(rollouts, rollouts[i].of), rollouts[i].of.policy)
          /\ AllScrubbed(rollouts[i].lines, Retired(i))

HasFile == {"copied", "renamed", "verified", "carried"}

\* The rollout that a command has made and not yet launched.
Pending(i, c) ==
    /\ rollouts[i].id = job[c].newId /\ rollouts[i].owner = NoAccount /\ IsCopy(i)
    /\ rollouts[i].of.source = job[c].source /\ rollouts[i].of.upto = job[c].upto
    /\ rollouts[i].of.policy = job[c].policy /\ rollouts[i].of.map = job[c].map
    /\ Says(rollouts[i].lines, Scanned(rollouts, job[c]), job[c].policy)
    /\ phase[c] = "renamed" => ContentScrubbed(rollouts[i].lines, Retired(i))
    /\ phase[c] # "renamed" => AllScrubbed(rollouts[i].lines, Retired(i))

CallerInv(c) ==
    /\ phase[c] # "idle" => Descended(rollouts, job[c], job[c].retired)
    /\ phase[c] \in HasFile =>
          /\ job[c].newId \in IdsBelow(next) /\ DOMAIN job[c].map = job[c].retired
          /\ job[c].newId \notin job[c].retired /\ Joins(job[c].map, job[c].newId)
          /\ job[c].map \in MapsBelow(next)
    /\ phase[c] = "copied" =>
          /\ \A i \in DOMAIN rollouts : rollouts[i].id # job[c].newId
          /\ Says(job[c].file, Scanned(rollouts, job[c]), job[c].policy)
          /\ ContentScrubbed(job[c].file, job[c].retired)
    /\ phase[c] \in HasFile \ {"copied"} => \E i \in DOMAIN rollouts : Pending(i, c)

\* An id names one thread, and a command makes one of its own.
IdsUnique ==
    /\ \A i, j \in DOMAIN rollouts : rollouts[i].id = rollouts[j].id => i = j
    /\ \A c, d \in Caller : phase[c] \in HasFile /\ phase[d] \in HasFile
                               /\ job[c].newId = job[d].newId => c = d

\* The ids of a thread, of a file that is to become one, which were minted for it.
Marks(i) == Worn(i) \ Retired(i)
FileMarks(c) == WornIn(job[c].file) \ job[c].retired

MarksApart ==
    /\ \A i, j \in DOMAIN rollouts : i # j => Marks(i) \cap Marks(j) = {}
    /\ \A c \in Caller, i \in DOMAIN rollouts : phase[c] = "copied" => FileMarks(c) \cap Marks(i) = {}
    /\ \A c, d \in Caller : phase[c] = "copied" /\ phase[d] = "copied" /\ c # d =>
                               FileMarks(c) \cap FileMarks(d) = {}

CopyInv ==
    /\ CopyTypeOK
    /\ \A i \in DOMAIN rollouts : ThreadInv(i)
    /\ \A c \in Caller : CallerInv(c)
    /\ IdsUnique /\ MarksApart

-----------------------------------------------------------------------------
(* Members of the sets of slots and ids. *)

Mark(p, s) ==
    (p.blob = "none" \/ s.at # "own") /\ s.whole /\ s.at # "content" /\ IsIdentifyingId(s.id)

LEMMA WornMember ==
    ASSUME NEW lines, NEW x
    PROVE  x \in WornIn(lines) <=>
              \E k \in DOMAIN lines : \E p \in lines[k].parts : \E s \in p.slots :
                 Mark(p, s) /\ s.id = x
BY DEF WornIn, Lines, Mark

LEMMA SlotMember ==
    ASSUME NEW lines, NEW s
    PROVE  s \in SlotsOf(Lines(lines)) <=>
              \E k \in DOMAIN lines : \E p \in lines[k].parts : s \in p.slots
BY DEF SlotsOf, Lines

LEMMA CollectedMember ==
    ASSUME NEW lines, NEW x
    PROVE  x \in Collected(lines) <=>
              \E k \in DOMAIN lines : \E p \in lines[k].parts : \E s \in p.slots :
                 s.whole /\ IsIdentifyingId(s.id) /\ s.at # "content" /\ s.id = x
<1>1. x \in Collected(lines) <=>
         \E s \in SlotsOf(Lines(lines)) : s.whole /\ IsIdentifyingId(s.id) /\ s.at # "content" /\ s.id = x
  BY DEF Collected
<1>2. ASSUME NEW s
      PROVE  s \in SlotsOf(Lines(lines)) <=>
                \E k \in DOMAIN lines : \E p \in lines[k].parts : s \in p.slots
  BY SlotMember
<1> QED  BY <1>1, <1>2

LEMMA WornSum ==
    ASSUME NEW i
    PROVE  /\ \A x : x \in Worn(i) <=> \/ x \in WornIn(rollouts[i].lines)
                                       \/ goals[i] # 0 /\ x = Id("goal", goals[i])
           /\ WornIn(rollouts[i].lines) \subseteq Worn(i)
BY DEF Worn, WornIn

(* A line more: what it has, and no more. *)
LEMMA AppendedSlots ==
    ASSUME NEW S, NEW lines \in Seq(S), NEW r
    PROVE  /\ \A x : x \in WornIn(Append(lines, r)) <=>
                        \/ x \in WornIn(lines)
                        \/ \E p \in r.parts : \E s \in p.slots : Mark(p, s) /\ s.id = x
           /\ \A s : s \in SlotsOf(Lines(Append(lines, r))) <=>
                        s \in SlotsOf(Lines(lines)) \/ \E p \in r.parts : s \in p.slots
<1>1. /\ \A k \in DOMAIN lines : k \in DOMAIN Append(lines, r) /\ Append(lines, r)[k] = lines[k]
      /\ Len(lines) + 1 \in DOMAIN Append(lines, r) /\ Append(lines, r)[Len(lines) + 1] = r
      /\ \A k \in DOMAIN Append(lines, r) : k \in DOMAIN lines \/ k = Len(lines) + 1
  OBVIOUS
<1> DEFINE more == Append(lines, r)
<1> HIDE DEF more
<1>2. /\ \A k \in DOMAIN lines : k \in DOMAIN more /\ more[k] = lines[k]
      /\ Len(lines) + 1 \in DOMAIN more /\ more[Len(lines) + 1] = r
      /\ \A k \in DOMAIN more : k \in DOMAIN lines \/ k = Len(lines) + 1
  BY <1>1 DEF more
<1>3. ASSUME NEW x
      PROVE  x \in WornIn(more) <=>
                        \/ x \in WornIn(lines)
                        \/ \E p \in r.parts : \E s \in p.slots : Mark(p, s) /\ s.id = x
  <2>1. x \in WornIn(more) <=>
              \E k \in DOMAIN more : \E p \in more[k].parts : \E s \in p.slots : Mark(p, s) /\ s.id = x
    BY WornMember
  <2>2. x \in WornIn(lines) <=>
              \E k \in DOMAIN lines : \E p \in lines[k].parts : \E s \in p.slots : Mark(p, s) /\ s.id = x
    BY WornMember
  <2> QED  BY <1>2, <2>1, <2>2
<1>4. ASSUME NEW s
      PROVE  s \in SlotsOf(Lines(more)) <=>
                        s \in SlotsOf(Lines(lines)) \/ \E p \in r.parts : s \in p.slots
  <2>1. s \in SlotsOf(Lines(more)) <=> \E k \in DOMAIN more : \E p \in more[k].parts : s \in p.slots
    BY SlotMember
  <2>2. s \in SlotsOf(Lines(lines)) <=> \E k \in DOMAIN lines : \E p \in lines[k].parts : s \in p.slots
    BY SlotMember
  <2> QED  BY <1>2, <2>1, <2>2
<1> QED  BY <1>3, <1>4 DEF more

(* The types grow with the bound. *)
LEMMA TypesGrow ==
    ASSUME NEW m \in Nat, NEW n \in Nat, m <= n
    PROVE  /\ IdsBelow(m) \subseteq IdsBelow(n) /\ RecordsBelow(m) \subseteq RecordsBelow(n)
           /\ LinesBelow(m) \subseteq LinesBelow(n) /\ MapsBelow(m) \subseteq MapsBelow(n)
           /\ RolloutsBelow(m) \subseteq RolloutsBelow(n) /\ JobsBelow(m) \subseteq JobsBelow(n)
<1>1. IdsBelow(m) \subseteq IdsBelow(n)
  BY DEF IdsBelow
<1>2. SlotsBelow(m) \subseteq SlotsBelow(n)
  BY <1>1 DEF SlotsBelow
<1>3. PartsBelow(m) \subseteq PartsBelow(n)
  BY <1>2 DEF PartsBelow
<1>4. RecordsBelow(m) \subseteq RecordsBelow(n)
  BY <1>3 DEF RecordsBelow
<1>5. LinesBelow(m) \subseteq LinesBelow(n)
  <2> SUFFICES ASSUME NEW lines \in Seq(RecordsBelow(m)) PROVE lines \in Seq(RecordsBelow(n))
    BY DEF LinesBelow
  <2>1. lines \in [1..Len(lines) -> RecordsBelow(m)] /\ Len(lines) \in Nat
    OBVIOUS
  <2>2. lines \in [1..Len(lines) -> RecordsBelow(n)]
    BY <1>4, <2>1
  <2> QED  BY <2>1, <2>2
<1>6. MapsBelow(m) \subseteq MapsBelow(n)
  <2> SUFFICES ASSUME NEW D \in SUBSET IdsBelow(m), NEW f \in [D -> IdsBelow(m)]
               PROVE  D \in SUBSET IdsBelow(n) /\ f \in [D -> IdsBelow(n)]
    BY DEF MapsBelow
  <2> QED  BY <1>1
<1>7. Descents(m) \subseteq Descents(n)
  BY <1>6 DEF Descents
<1>8. RolloutsBelow(m) \subseteq RolloutsBelow(n)
  BY <1>1, <1>5, <1>7 DEF RolloutsBelow
<1>9. JobsBelow(m) \subseteq JobsBelow(n)
  BY <1>1, <1>5, <1>6 DEF JobsBelow
<1> QED  BY <1>1, <1>4, <1>5, <1>6, <1>8, <1>9

(* The slots of typed lines. *)
LEMMA TypedSlots ==
    ASSUME NEW m \in Nat, NEW lines \in LinesBelow(m)
    PROVE  /\ \A k \in DOMAIN lines : /\ lines[k] \in RecordsBelow(m)
                                      /\ \A p \in lines[k].parts : p \in PartsBelow(m)
                                      /\ \A p \in lines[k].parts : \A s \in p.slots : s \in SlotsBelow(m)
           /\ \A s \in SlotsOf(Lines(lines)) : s \in SlotsBelow(m)
           /\ WornIn(lines) \subseteq IdsBelow(m) /\ Collected(lines) \subseteq IdsBelow(m)
<1>1. \A k \in DOMAIN lines : lines[k] \in RecordsBelow(m)
  BY DEF LinesBelow
<1>2. ASSUME NEW k \in DOMAIN lines, NEW p \in lines[k].parts
      PROVE  p \in PartsBelow(m) /\ \A s \in p.slots : s \in SlotsBelow(m)
  <2>1. p \in PartsBelow(m)
    BY <1>1 DEF RecordsBelow
  <2> QED  BY <2>1 DEF PartsBelow
<1>3. ASSUME NEW s \in SlotsOf(Lines(lines)) PROVE s \in SlotsBelow(m)
  BY <1>2, SlotMember
<1>4. ASSUME NEW x \in WornIn(lines) PROVE x \in IdsBelow(m)
  <2>1. PICK k \in DOMAIN lines : \E p \in lines[k].parts : \E s \in p.slots : s.id = x
    BY WornMember
  <2>2. PICK s \in SlotsBelow(m) : s.id = x
    BY <1>2, <2>1
  <2> QED  BY <2>2 DEF SlotsBelow
<1>5. ASSUME NEW x \in Collected(lines) PROVE x \in IdsBelow(m)
  <2>1. PICK k \in DOMAIN lines : \E p \in lines[k].parts : \E s \in p.slots : s.id = x
    BY CollectedMember
  <2>2. PICK s \in SlotsBelow(m) : s.id = x
    BY <1>2, <2>1
  <2> QED  BY <2>2 DEF SlotsBelow
<1> QED  BY <1>1, <1>2, <1>3, <1>4, <1>5

-----------------------------------------------------------------------------
(* The rewriting of a thread. *)

Rank(R, id) == Cardinality({o \in R : o.n < id.n})

LEMMA IdsFinite ==
    ASSUME NEW m \in Nat, NEW R \in SUBSET IdsBelow(m)
    PROVE  IsFiniteSet(R)
<1>1. IsFiniteSet(Kinds)
  <2>1. IsFiniteSet({"uuid"})
    BY FS_Singleton
  <2>2. IsFiniteSet({"uuid"} \cup {"item"})
    BY <2>1, FS_AddElement
  <2>3. IsFiniteSet(({"uuid"} \cup {"item"}) \cup {"word"})
    BY <2>2, FS_AddElement
  <2>4. IsFiniteSet((({"uuid"} \cup {"item"}) \cup {"word"}) \cup {"plain"})
    BY <2>3, FS_AddElement
  <2>5. (({"uuid"} \cup {"item"}) \cup {"word"}) \cup {"plain"} = Kinds
    BY DEF Kinds
  <2> QED  BY <2>4, <2>5
<1>2. IsFiniteSet(0..(m - 1))
  BY FS_Interval
<1>3. IsFiniteSet(Kinds \X (0..(m - 1)))
  BY <1>1, <1>2, FS_Product
<1> DEFINE f == [t \in Kinds \X (0..(m - 1)) |-> [kind |-> t[1], n |-> t[2]]]
<1>4. f \in Surjection(Kinds \X (0..(m - 1)), IdsBelow(m))
  <2>1. f \in [Kinds \X (0..(m - 1)) -> IdsBelow(m)]
    BY DEF IdsBelow
  <2>2. ASSUME NEW id \in IdsBelow(m) PROVE \E t \in Kinds \X (0..(m - 1)) : f[t] = id
    <3>1. <<id.kind, id.n>> \in Kinds \X (0..(m - 1)) /\ id = [kind |-> id.kind, n |-> id.n]
      BY DEF IdsBelow
    <3>2. f[<<id.kind, id.n>>] = id
      BY <3>1
    <3> QED  BY <3>1, <3>2
  <2> HIDE DEF f
  <2> QED  BY <2>1, <2>2 DEF Surjection
<1>5. IsFiniteSet(IdsBelow(m))
  <2> HIDE DEF f
  <2> QED  BY <1>3, <1>4, FS_Surjection
<1> QED  BY <1>5, FS_Subset

(* The ranks of ids by their numbers tell those of one kind apart. *)
LEMMA Ranks ==
    ASSUME NEW m \in Nat, NEW R \in SUBSET IdsBelow(m)
    PROVE  /\ Cardinality(R) \in Nat
           /\ \A id \in R : Rank(R, id) \in 0..(Cardinality(R) - 1)
           /\ \A a, b \in R : a.kind = b.kind /\ Rank(R, a) = Rank(R, b) => a = b
<1>1. IsFiniteSet(R) /\ Cardinality(R) \in Nat
  BY IdsFinite, FS_CardinalityType
<1>2. ASSUME NEW a \in R, NEW T \in SUBSET R, a \notin T
      PROVE  Cardinality(T) \in Nat /\ Cardinality(T) < Cardinality(R)
  <2>1. IsFiniteSet(T) /\ Cardinality(T) <= Cardinality(R) /\ (Cardinality(R) = Cardinality(T) => R = T)
    BY <1>1, FS_Subset
  <2>2. Cardinality(T) \in Nat
    BY <2>1, FS_CardinalityType
  <2> QED  BY <1>1, <1>2, <2>1, <2>2
<1>3. \A id \in R : id.n \in Nat /\ id = [kind |-> id.kind, n |-> id.n]
  BY DEF IdsBelow
<1>4. ASSUME NEW id \in R PROVE Rank(R, id) \in 0..(Cardinality(R) - 1)
  <2> DEFINE T == {o \in R : o.n < id.n}
  <2>1. T \in SUBSET R /\ id \notin T
    BY <1>3
  <2>2. Cardinality(T) \in Nat /\ Cardinality(T) < Cardinality(R)
    <3> HIDE DEF T
    <3> QED  BY <1>2, <2>1
  <2> QED  BY <1>1, <2>2 DEF Rank
<1>5. ASSUME NEW a \in R, NEW b \in R, a.n < b.n PROVE Rank(R, a) # Rank(R, b)
  <2> DEFINE S == {o \in R : o.n < a.n}
             T == {o \in R : o.n < b.n}
  <2>1. S \in SUBSET T /\ a \in T /\ a \notin S /\ T \in SUBSET R
    BY <1>3, <1>5
  <2>2. Cardinality(S) # Cardinality(T)
    <3> HIDE DEF S, T
    <3>1. IsFiniteSet(T)
      BY <1>1, <2>1, FS_Subset
    <3>2. Cardinality(T) = Cardinality(S) => T = S
      BY <2>1, <3>1, FS_Subset
    <3> QED  BY <2>1, <3>2
  <2> QED  BY <2>2 DEF Rank
<1>6. ASSUME NEW a \in R, NEW b \in R, a.kind = b.kind, Rank(R, a) = Rank(R, b) PROVE a = b
  <2>1. ~(a.n < b.n) /\ ~(b.n < a.n)
    BY <1>5, <1>6
  <2> QED  BY <1>3, <1>6, <2>1
<1> QED  BY <1>1, <1>4, <1>6

\* Where the numbers of a copy end.
Minted(R) == next + Cardinality(R) + 2

(* Every id gets a new one of its kind; two do not become one. *)
LEMMA RewriteMapIs ==
    ASSUME CopyTypeOK, NEW R \in SUBSET IdsBelow(next), NEW own,
           NEW newId, newId = Id("uuid", next + Cardinality(R)),
           NEW map, map = RewriteMap(R, own, newId)
    PROVE  /\ Minted(R) \in Nat /\ next <= Minted(R)
           /\ newId \in IdsBelow(Minted(R)) /\ newId \notin R
           /\ Id("uuid", next + Cardinality(R) + 1) \in IdsBelow(Minted(R))
           /\ map \in [R -> IdsBelow(Minted(R))]
           /\ \A id \in R : map[id].n >= next
           /\ Joins(map, newId)
<1>0. next \in Nat
  BY DEF CopyTypeOK
<1>1. /\ Cardinality(R) \in Nat
      /\ \A id \in R : Rank(R, id) \in 0..(Cardinality(R) - 1)
      /\ \A a, b \in R : a.kind = b.kind /\ Rank(R, a) = Rank(R, b) => a = b
  BY <1>0, Ranks
<1>2. newId \in IdsBelow(Minted(R)) /\ newId.n = next + Cardinality(R)
      /\ Id("uuid", next + Cardinality(R) + 1) \in IdsBelow(Minted(R))
  BY <1>0, <1>1 DEF Id, IdsBelow, Minted, Kinds
<1>3. \A id \in R : id.kind \in Kinds /\ id.n \in 0..(next - 1) /\ id = [kind |-> id.kind, n |-> id.n]
  BY DEF IdsBelow
<1>4. newId \notin R
  BY <1>0, <1>1, <1>2, <1>3
<1>5. DOMAIN map = R
  BY DEF RewriteMap
<1>6. ASSUME NEW id \in R, id \notin own
      PROVE  map[id] = [kind |-> id.kind, n |-> next + Rank(R, id)]
  <2>1. map[id] = RemapIdValue(id, next + Rank(R, id))
    BY <1>6 DEF RewriteMap, Rank
  <2>2. id.kind # "short"
    BY <1>3 DEF Kinds
  <2>3. map[id] = [id EXCEPT !.n = next + Rank(R, id)]
    BY <2>1, <2>2 DEF RemapIdValue
  <2> QED  BY <1>3, <2>3
<1>7. \A id \in R : id \in own => map[id] = newId
  BY DEF RewriteMap
<1>8. ASSUME NEW id \in R PROVE map[id] \in IdsBelow(Minted(R)) /\ map[id].n >= next
  <2>1. CASE id \in own
    BY <1>0, <1>1, <1>2, <1>7, <2>1
  <2>2. CASE id \notin own
    <3>1. next + Rank(R, id) \in 0..(Minted(R) - 1) /\ next + Rank(R, id) >= next
      BY <1>0, <1>1 DEF Minted
    <3>2. map[id] = [kind |-> id.kind, n |-> next + Rank(R, id)] /\ id.kind \in Kinds
      BY <1>3, <1>6, <2>2
    <3> HIDE DEF Minted, Rank
    <3>3. map[id].n = next + Rank(R, id)
      BY <3>2
    <3> QED  BY <3>1, <3>2, <3>3 DEF IdsBelow
  <2> QED  BY <2>1, <2>2
<1>9. map \in [R -> IdsBelow(Minted(R))]
  BY <1>5, <1>8 DEF RewriteMap
<1>10. Joins(map, newId)
  <2> SUFFICES ASSUME NEW a \in R, NEW b \in R, map[a] = map[b], map[a] # newId PROVE a = b
    BY <1>5 DEF Joins
  <2>1. a \notin own /\ b \notin own
    BY <1>7
  <2>2. a.kind = b.kind /\ next + Rank(R, a) = next + Rank(R, b)
    <3>1. map[a] = [kind |-> a.kind, n |-> next + Rank(R, a)]
      BY <1>6, <2>1
    <3>2. map[b] = [kind |-> b.kind, n |-> next + Rank(R, b)]
      BY <1>6, <2>1
    <3>3. map[a].kind = a.kind /\ map[a].n = next + Rank(R, a)
      BY <3>1
    <3>4. map[b].kind = b.kind /\ map[b].n = next + Rank(R, b)
      BY <3>2
    <3> QED  BY <3>3, <3>4
  <2>3. Rank(R, a) = Rank(R, b)
    BY <1>0, <1>1, <2>2
  <2> QED  BY <1>1, <2>2, <2>3
<1> QED  BY <1>0, <1>1, <1>2, <1>4, <1>8, <1>9, <1>10 DEF Minted

LEMMA GoneIsDropped ==
    ASSUME NEW blob, NEW policy PROVE Gone(blob, policy) <=> ItemDropped(blob, policy)
BY DEF Gone, ItemDropped

RewrittenSlots(p, map) == {RewriteSlot(s, p.blob, map) : s \in {s \in p.slots : s.at # "response"}}

(* A slot stays where it is; its id is as it was or a new one. *)
LEMMA RewriteSlotIs ==
    ASSUME NEW m \in Nat, NEW s \in SlotsBelow(m), NEW blob, NEW map, NEW t,
           t = RewriteSlot(s, blob, map)
    PROVE  /\ t.at = s.at /\ t.whole = s.whole
           /\ t = s \/ (t = [at |-> s.at, id |-> map[s.id], whole |-> s.whole] /\ s.id \in DOMAIN map)
           /\ s.at = "own" /\ blob # "none" => t = s
           /\ t = s /\ s.id \in DOMAIN map /\ s.id.kind = "uuid" =>
                 s.at = "verbatim" \/ s.at = "own" \/ map[s.id] = s.id
<1>1. s = [at |-> s.at, id |-> s.id, whole |-> s.whole]
  BY DEF SlotsBelow
<1>2. t = s \/ (t = [s EXCEPT !.id = map[s.id]] /\ s.id \in DOMAIN map)
  BY DEF RewriteSlot
<1>3. t = s \/ (t = [at |-> s.at, id |-> map[s.id], whole |-> s.whole] /\ s.id \in DOMAIN map)
  BY <1>1, <1>2
<1>4. t.at = s.at /\ t.whole = s.whole
  BY <1>3
<1>5. s.at = "own" /\ blob # "none" => t = s
  BY DEF RewriteSlot
<1>6. ASSUME t = s, s.id \in DOMAIN map, s.id.kind = "uuid", s.at # "verbatim", s.at # "own"
      PROVE  map[s.id] = s.id
  <2>1. t = [s EXCEPT !.id = map[s.id]]
    BY <1>6 DEF RewriteSlot
  <2>2. t.id = map[s.id]
    BY <1>1, <2>1
  <2> QED  BY <1>6, <2>2
<1> QED  BY <1>3, <1>4, <1>5, <1>6

(* The encrypted items of a record keep the ids they were minted for. *)
LEMMA RewrittenBlobs ==
    ASSUME NEW m \in Nat, NEW r \in RecordsBelow(m), NEW map, NEW policy
    PROVE  Blobs(RewriteRecord(r, map, policy), policy) = Blobs(r, policy)
<1> DEFINE w == RewriteRecord(r, map, policy)
           Own(slots) == {s \in slots : s.at = "own"}
<1>1. w.parts = {Part(p.blob, RewrittenSlots(p, map)) : p \in {p \in r.parts : ~ItemDropped(p.blob, policy)}}
  BY DEF RewriteRecord, RecordsBelow, RewrittenSlots
<1>2. ASSUME NEW p \in r.parts, p.blob # "none" PROVE Own(RewrittenSlots(p, map)) = Own(p.slots)
  <2>1. p.slots \subseteq SlotsBelow(m)
    BY DEF RecordsBelow, PartsBelow
  <2>2. ASSUME NEW s \in Own(p.slots) PROVE s \in Own(RewrittenSlots(p, map))
    <3>1. s.at # "response" /\ RewriteSlot(s, p.blob, map) = s
      BY <1>2, <2>1, <2>2, RewriteSlotIs
    <3> QED  BY <2>2, <3>1 DEF RewrittenSlots
  <2>3. ASSUME NEW t \in Own(RewrittenSlots(p, map)) PROVE t \in Own(p.slots)
    <3>1. PICK s \in p.slots : t = RewriteSlot(s, p.blob, map)
      BY DEF RewrittenSlots
    <3>2. s.at = "own"
      BY <2>1, <2>3, <3>1, RewriteSlotIs
    <3>3. t = s
      BY <1>2, <2>1, <3>1, <3>2, RewriteSlotIs
    <3> QED  BY <3>2, <3>3
  <2> QED  BY <2>2, <2>3
<1> HIDE DEF w, Own
<1>3. /\ Blobs(w, policy) = {<<q.blob, Own(q.slots)>> : q \in {q \in w.parts : q.blob # "none" /\ ~Gone(q.blob, policy)}}
      /\ Blobs(r, policy) = {<<q.blob, Own(q.slots)>> : q \in {q \in r.parts : q.blob # "none" /\ ~Gone(q.blob, policy)}}
  BY DEF Blobs, Own
<1>4. ASSUME NEW x \in Blobs(w, policy) PROVE x \in Blobs(r, policy)
  <2>1. PICK q \in w.parts : q.blob # "none" /\ ~Gone(q.blob, policy) /\ x = <<q.blob, Own(q.slots)>>
    BY <1>3
  <2>2. PICK p \in r.parts : q = Part(p.blob, RewrittenSlots(p, map))
    BY <1>1
  <2>3. q.blob = p.blob /\ q.slots = RewrittenSlots(p, map)
    BY <2>2 DEF Part
  <2> QED  BY <1>2, <1>3, <2>1, <2>3
<1>5. ASSUME NEW x \in Blobs(r, policy) PROVE x \in Blobs(w, policy)
  <2>1. PICK p \in r.parts : p.blob # "none" /\ ~Gone(p.blob, policy) /\ x = <<p.blob, Own(p.slots)>>
    BY <1>3
  <2> DEFINE q == Part(p.blob, RewrittenSlots(p, map))
  <2>2. q \in w.parts
    BY <1>1, <2>1, GoneIsDropped
  <2>3. q.blob = p.blob /\ q.slots = RewrittenSlots(p, map)
    BY DEF Part
  <2> HIDE DEF q
  <2> QED  BY <1>2, <1>3, <2>1, <2>2, <2>3
<1> QED  BY <1>4, <1>5 DEF w

\* A record of the copy.
CopiedRecord(r, map, newId, window, policy) ==
    IF r.type = "session_meta" THEN Header(newId, window, {}) ELSE RewriteRecord(r, map, policy)

\* A map to new ids, for what lies below m, with the thread's id and another.
Rewriting(m, n, R, map, newId, window) ==
    /\ m \in Nat /\ n \in Nat /\ m <= n /\ R \in SUBSET IdsBelow(m)
    /\ map \in [R -> IdsBelow(n)] /\ \A id \in R : map[id].n >= m
    /\ newId \in IdsBelow(n) /\ newId.n >= m /\ window \in IdsBelow(n) /\ window.n >= m

RetiredAll(r, R) ==
    \A p \in r.parts : \A s \in p.slots :
       s.whole /\ IsIdentifyingId(s.id) /\ s.at # "content" => s.id \in R

CopiedWell(w, r, m, n, R, policy) ==
    /\ w \in RecordsBelow(n) /\ w.type = r.type /\ Blobs(w, policy) = Blobs(r, policy)
    /\ \A q \in w.parts : \A t \in q.slots :
          /\ Mark(q, t) => t.id \in R \/ t.id.n >= m
          /\ ~t.whole /\ t.id.kind = "uuid" /\ t.id \in R => t.at # "content"

(* Of the ids of a copied record those are new that Codex or the server would *)
(* know, or they are retired; and a text has no uuid that is retired.         *)
LEMMA CopiedRecordIs ==
    ASSUME NEW m, NEW n, NEW R, NEW map, NEW newId, NEW window, NEW r, NEW policy,
           Rewriting(m, n, R, map, newId, window), r \in RecordsBelow(m), RetiredAll(r, R)
    PROVE  CopiedWell(CopiedRecord(r, map, newId, window, policy), r, m, n, R, policy)
<1> DEFINE w == CopiedRecord(r, map, newId, window, policy)
<1>a. w = CopiedRecord(r, map, newId, window, policy)
  OBVIOUS
<1> HIDE DEF w
<1>0. /\ m \in Nat /\ n \in Nat /\ m <= n /\ R \in SUBSET IdsBelow(m)
      /\ map \in [R -> IdsBelow(n)] /\ \A id \in R : map[id].n >= m
      /\ newId \in IdsBelow(n) /\ newId.n >= m /\ window \in IdsBelow(n) /\ window.n >= m
  BY DEF Rewriting
<1>b. SUFFICES /\ w \in RecordsBelow(n) /\ w.type = r.type /\ Blobs(w, policy) = Blobs(r, policy)
               /\ \A q \in w.parts : \A t \in q.slots :
                     /\ Mark(q, t) => t.id \in R \/ t.id.n >= m
                     /\ ~t.whole /\ t.id.kind = "uuid" /\ t.id \in R => t.at # "content"
  BY <1>a DEF CopiedWell
<1>c. \A p \in r.parts : \A s \in p.slots :
         s.whole /\ IsIdentifyingId(s.id) /\ s.at # "content" => s.id \in R
  BY DEF RetiredAll
<1> USE <1>0, <1>a, <1>c
<1>1. CASE r.type = "session_meta"
  <2> DEFINE key == [at |-> "key", id |-> newId, whole |-> TRUE]
             win == [at |-> "window", id |-> window, whole |-> TRUE]
             part == [blob |-> "none", slots |-> {key, win}]
  <2>1. w = [type |-> "session_meta", parts |-> {part}]
    <3>1. {Slot("key", newId, TRUE), Slot("window", window, TRUE)}
             \cup {Slot("lineage", l, TRUE) : l \in {}} = {key, win}
      BY DEF Slot
    <3> QED  BY <1>1, <3>1 DEF CopiedRecord, Header, Record, Part
  <2>2. /\ key \in SlotsBelow(n) /\ key.whole /\ key.id = newId
        /\ win \in SlotsBelow(n) /\ win.whole /\ win.id = window
    BY DEF SlotsBelow, SlotPlaces
  <2> HIDE DEF key, win
  <2>3. part \in PartsBelow(n) /\ part.blob = "none" /\ part.slots = {key, win}
    BY <2>2 DEF PartsBelow
  <2> HIDE DEF part
  <2>4. w \in RecordsBelow(n) /\ w.type = r.type /\ w.parts = {part}
    BY <1>1, <2>1, <2>3 DEF RecordsBelow, Types
  <2>5. Blobs(w, policy) = {} /\ Blobs(r, policy) = {}
    BY <1>1, <2>3, <2>4 DEF Blobs, RecordsBelow
  <2> QED  BY <2>2, <2>3, <2>4, <2>5
<1>2. CASE r.type # "session_meta"
  <2>1. /\ w.type = r.type /\ DOMAIN w = {"type", "parts"}
        /\ w = [type |-> r.type, parts |->
                {Part(p.blob, RewrittenSlots(p, map)) : p \in {p \in r.parts : ~ItemDropped(p.blob, policy)}}]
    BY <1>2 DEF CopiedRecord, RewriteRecord, RecordsBelow, RewrittenSlots
  <2>2. r.parts \subseteq PartsBelow(m) /\ \A p \in r.parts : p.slots \subseteq SlotsBelow(m)
    BY DEF RecordsBelow, PartsBelow
  <2>3. SlotsBelow(m) \subseteq SlotsBelow(n) /\ IdsBelow(m) \subseteq IdsBelow(n)
    BY DEF SlotsBelow, IdsBelow
  <2>4. ASSUME NEW p \in r.parts, NEW t \in RewrittenSlots(p, map)
        PROVE  /\ t \in SlotsBelow(n)
               /\ t.whole /\ t.at # "content" /\ IsIdentifyingId(t.id) => t.id \in R \/ t.id.n >= m
               /\ ~t.whole /\ t.id.kind = "uuid" /\ t.id \in R => t.at # "content"
    <3>1. PICK s \in p.slots : t = RewriteSlot(s, p.blob, map)
      BY DEF RewrittenSlots
    <3>2. s \in SlotsBelow(m)
      BY <2>2
    <3>3. /\ t.at = s.at /\ t.whole = s.whole
          /\ t = s \/ (t = [at |-> s.at, id |-> map[s.id], whole |-> s.whole] /\ s.id \in R)
          /\ t = s /\ s.id \in R /\ s.id.kind = "uuid" =>
                 s.at = "verbatim" \/ s.at = "own" \/ map[s.id] = s.id
      BY <3>1, <3>2, RewriteSlotIs
    <3>4. CASE t = s
      <4>1. ASSUME t.id.kind = "uuid", t.id \in R PROVE t.at # "content"
        <5>1. map[t.id] # t.id
          BY <4>1 DEF IdsBelow
        <5> QED  BY <3>3, <3>4, <4>1, <5>1
      <4> QED  BY <2>3, <3>2, <3>4, <4>1
    <3>5. CASE t = [at |-> s.at, id |-> map[s.id], whole |-> s.whole] /\ s.id \in R
      <4>1. t.id = map[s.id] /\ t.id \in IdsBelow(n) /\ t.id.n >= m
        BY <3>5
      <4>2. t.id \notin R
        BY <4>1 DEF IdsBelow
      <4>3. t \in SlotsBelow(n)
        BY <3>2, <3>5, <4>1 DEF SlotsBelow
      <4> QED  BY <4>1, <4>2, <4>3
    <3> QED  BY <3>3, <3>4, <3>5
  <2>5. ASSUME NEW q \in w.parts
        PROVE  /\ q \in PartsBelow(n)
               /\ \E p \in r.parts : q.slots = RewrittenSlots(p, map)
    <3>1. PICK p \in r.parts : q = Part(p.blob, RewrittenSlots(p, map))
      BY <2>1
    <3>2. q = [blob |-> p.blob, slots |-> RewrittenSlots(p, map)]
      BY <3>1 DEF Part
    <3>3. RewrittenSlots(p, map) \subseteq SlotsBelow(n)
      BY <2>4
    <3>4. p.blob \in {"none", "reasoning", "compaction"}
      BY <2>2 DEF PartsBelow
    <3> QED  BY <3>2, <3>3, <3>4 DEF PartsBelow
  <2>6. w \in RecordsBelow(n)
    <3>1. r.type \in Types /\ w.parts \in SUBSET PartsBelow(n)
      BY <2>5 DEF RecordsBelow
    <3>2. w = [type |-> r.type, parts |-> w.parts]
      BY <2>1
    <3> QED  BY <1>2, <3>1, <3>2 DEF RecordsBelow
  <2>7. Blobs(w, policy) = Blobs(r, policy)
    BY <1>2, RewrittenBlobs DEF CopiedRecord
  <2>8. ASSUME NEW q \in w.parts, NEW t \in q.slots
        PROVE  /\ Mark(q, t) => t.id \in R \/ t.id.n >= m
               /\ ~t.whole /\ t.id.kind = "uuid" /\ t.id \in R => t.at # "content"
    <3>1. PICK p \in r.parts : q.slots = RewrittenSlots(p, map)
      BY <2>5
    <3> QED  BY <2>4, <3>1 DEF Mark
  <2> QED  BY <2>1, <2>6, <2>7, <2>8
<1> QED  BY <1>1, <1>2

(* The copied lines say what the origin says. *)
LEMMA CopyLinesIs ==
    ASSUME NEW m, NEW n, NEW R, NEW map, NEW newId, NEW window, Rewriting(m, n, R, map, newId, window),
           NEW origin \in LinesBelow(m), Collected(origin) \subseteq R, NEW policy,
           NEW file, file = CopyLines(origin, map, newId, window, policy)
    PROVE  /\ file \in LinesBelow(n) /\ Says(file, origin, policy) /\ ContentScrubbed(file, R)
           /\ \A x \in WornIn(file) : x \in R \/ x.n >= m
<1> DEFINE kept == KeptLines(origin, policy)
<1>0. /\ m \in Nat /\ n \in Nat /\ m <= n /\ R \in SUBSET IdsBelow(m)
  BY DEF Rewriting
<1>1. /\ kept \in Seq(RecordsBelow(m))
      /\ \A k \in DOMAIN kept : \E i \in DOMAIN origin : kept[k] = origin[i]
  <2>1. origin \in Seq(RecordsBelow(m))
    BY DEF LinesBelow
  <2> DEFINE gone == {i \in DOMAIN origin : /\ origin[i].type = "response_item"
                                           /\ \E p \in origin[i].parts : Gone(p.blob, policy)}
  <2>2. kept = Without(origin, gone)
    BY DEF KeptLines
  <2> HIDE DEF gone, kept
  <2> QED  BY <2>1, <2>2, WithoutKeeps
<1>2. kept = Without(origin, {i \in DOMAIN origin : LineDropped(origin[i], policy)})
  <2>1. {i \in DOMAIN origin : /\ origin[i].type = "response_item"
                              /\ \E p \in origin[i].parts : Gone(p.blob, policy)}
          = {i \in DOMAIN origin : LineDropped(origin[i], policy)}
    BY GoneIsDropped DEF LineDropped
  <2> QED  BY <2>1 DEF KeptLines
<1> HIDE DEF kept
<1>3. file = [i \in DOMAIN kept |-> CopiedRecord(kept[i], map, newId, window, policy)]
  BY <1>2 DEF CopyLines, CopiedRecord
<1>4. ASSUME NEW k \in DOMAIN kept
      PROVE  /\ file[k] \in RecordsBelow(n) /\ file[k].type = kept[k].type
             /\ Blobs(file[k], policy) = Blobs(kept[k], policy)
             /\ \A q \in file[k].parts : \A t \in q.slots :
                   /\ Mark(q, t) => t.id \in R \/ t.id.n >= m
                   /\ ~t.whole /\ t.id.kind = "uuid" /\ t.id \in R => t.at # "content"
  <2>1. kept[k] \in RecordsBelow(m)
    BY <1>1
  <2>2. PICK i \in DOMAIN origin : kept[k] = origin[i]
    BY <1>1
  <2>3. ASSUME NEW p \in kept[k].parts, NEW s \in p.slots, s.whole, IsIdentifyingId(s.id), s.at # "content"
        PROVE  s.id \in R
    BY <2>2, <2>3, CollectedMember
  <2>4. file[k] = CopiedRecord(kept[k], map, newId, window, policy)
    BY <1>3
  <2>5. RetiredAll(kept[k], R)
    BY <2>3 DEF RetiredAll
  <2>6. CopiedWell(file[k], kept[k], m, n, R, policy)
    BY <2>1, <2>4, <2>5, CopiedRecordIs
  <2> QED  BY <2>6 DEF CopiedWell
<1>5. DOMAIN kept = 1..Len(kept) /\ Len(kept) \in Nat /\ file \in [1..Len(kept) -> RecordsBelow(n)]
  <2>1. DOMAIN kept = 1..Len(kept) /\ Len(kept) \in Nat
    BY <1>1
  <2>2. DOMAIN file = DOMAIN kept
    BY <1>3
  <2> QED  BY <1>3, <1>4, <2>1, <2>2
<1>6. file \in LinesBelow(n) /\ Len(file) = Len(kept) /\ DOMAIN file = DOMAIN kept
  BY <1>5 DEF LinesBelow
<1>7. Says(file, origin, policy)
  <2>1. /\ Len(KeptLines(origin, policy)) <= Len(file)
        /\ \A k \in DOMAIN KeptLines(origin, policy) :
             /\ file[k].type = KeptLines(origin, policy)[k].type
             /\ Blobs(file[k], policy) = Blobs(KeptLines(origin, policy)[k], policy)
    BY <1>4, <1>5, <1>6 DEF kept
  <2> QED  BY <2>1 DEF Says
<1>8. ContentScrubbed(file, R)
  BY <1>4, <1>6, SlotMember DEF ContentScrubbed
<1>9. ASSUME NEW x \in WornIn(file) PROVE x \in R \/ x.n >= m
  <2>1. PICK k \in DOMAIN file : \E p \in file[k].parts : \E s \in p.slots : Mark(p, s) /\ s.id = x
    BY WornMember
  <2> QED  BY <1>4, <1>6, <2>1
<1> QED  BY <1>6, <1>7, <1>8, <1>9

(* What passes for clean has nothing of the thread. *)
LEMMA CleanIsScrubbed ==
    ASSUME NEW m \in Nat, NEW lines \in LinesBelow(m), NEW R, NEW newId, newId \notin R, NEW policy,
           ContentScrubbed(lines, R), Clean(lines, R, newId, policy)
    PROVE  AllScrubbed(lines, R)
<1>1. ~Residue(lines, R)
  <2>1. R \ {newId} = R
    OBVIOUS
  <2> QED  BY <2>1 DEF Clean
<1>2. ASSUME NEW k \in DOMAIN lines, NEW p \in lines[k].parts, NEW s \in p.slots, s.id \in R,
             ~(s.at = "own" /\ p.blob # "none")
      PROVE  ~s.whole /\ ~(IsStrongId(s.id) /\ s.at # "content")
  BY <1>1, <1>2 DEF Residue, Lines
<1>3. ASSUME NEW x \in WornIn(lines), x \in R PROVE FALSE
  <2>1. PICK k \in DOMAIN lines : \E p \in lines[k].parts : \E s \in p.slots : Mark(p, s) /\ s.id = x
    BY WornMember
  <2>2. PICK p \in lines[k].parts : \E s \in p.slots : Mark(p, s) /\ s.id = x
    BY <2>1
  <2>3. PICK s \in p.slots : Mark(p, s) /\ s.id = x
    BY <2>2
  <2> QED  BY <1>2, <1>3, <2>3 DEF Mark
<1>4. ASSUME NEW s \in SlotsOf(Lines(lines)), ~s.whole, s.id.kind = "uuid", s.id \in R PROVE FALSE
  <2>1. PICK k \in DOMAIN lines : \E p \in lines[k].parts : s \in p.slots
    BY SlotMember
  <2>2. PICK p \in lines[k].parts : s \in p.slots
    BY <2>1
  <2>3. s \in SlotsBelow(m)
    BY TypedSlots
  <2>4. s.at # "own"
    BY <1>4, <2>3 DEF SlotsBelow
  <2>5. s.at # "content"
    BY <1>4 DEF ContentScrubbed
  <2>6. IsStrongId(s.id)
    BY <1>4 DEF IsStrongId
  <2> QED  BY <1>2, <1>4, <2>2, <2>4, <2>5, <2>6
<1> QED  BY <1>3, <1>4 DEF AllScrubbed

LEMMA PrefixKept ==
    ASSUME NEW S, NEW s \in Seq(S), NEW r \in S, NEW n \in 0..Len(s)
    PROVE  /\ SubSeq(s, 1, n) \in Seq(S) /\ Len(s) <= Len(Append(s, r))
           /\ SubSeq(Append(s, r), 1, n) = SubSeq(s, 1, n)
           /\ SubSeq(s, 1, Len(s)) = s
<1>1. SubSeq(s, 1, n) \in Seq(S) /\ Len(SubSeq(s, 1, n)) = n
      /\ \A k \in 1..n : SubSeq(s, 1, n)[k] = s[k]
  OBVIOUS
<1>2. Append(s, r) \in Seq(S) /\ Len(Append(s, r)) = Len(s) + 1 /\ n \in 0..Len(Append(s, r))
      /\ \A k \in 1..n : Append(s, r)[k] = s[k]
  OBVIOUS
<1>3. SubSeq(Append(s, r), 1, n) \in Seq(S) /\ Len(SubSeq(Append(s, r), 1, n)) = n
      /\ \A k \in 1..n : SubSeq(Append(s, r), 1, n)[k] = Append(s, r)[k]
  BY <1>2
<1>4. SubSeq(Append(s, r), 1, n) = SubSeq(s, 1, n)
  BY <1>1, <1>2, <1>3
<1>5. SubSeq(s, 1, Len(s)) = s
  OBVIOUS
<1> QED  BY <1>1, <1>2, <1>4, <1>5

-----------------------------------------------------------------------------
(* Every step keeps the types. *)

LEMMA SeqGrows ==
    ASSUME NEW S, NEW T, S \subseteq T, NEW s \in Seq(S)
    PROVE  s \in Seq(T)
<1>1. s \in [1..Len(s) -> S] /\ Len(s) \in Nat
  OBVIOUS
<1>2. s \in [1..Len(s) -> T]
  BY <1>1
<1> QED  BY <1>1, <1>2

LEMMA SeqUpdate ==
    ASSUME NEW S, NEW s \in Seq(S), NEW i, NEW v, i \in DOMAIN s => v \in S
    PROVE  /\ [s EXCEPT ![i] = v] \in Seq(S) /\ Len([s EXCEPT ![i] = v]) = Len(s)
           /\ DOMAIN [s EXCEPT ![i] = v] = DOMAIN s
           /\ \A j \in DOMAIN s : [s EXCEPT ![i] = v][j] = IF j = i THEN v ELSE s[j]
<1>1. s \in [1..Len(s) -> S] /\ Len(s) \in Nat /\ DOMAIN s = 1..Len(s)
  OBVIOUS
<1>2. [s EXCEPT ![i] = v] \in [1..Len(s) -> S]
  BY <1>1
<1> QED  BY <1>1, <1>2

(* What is typed stays so when `next` goes on. *)
LEMMA TypesLater ==
    ASSUME CopyTypeOK, NEW m \in Nat, next <= m
    PROVE  /\ rollouts \in Seq(RolloutsBelow(m)) /\ goals \in Seq(0..(m - 1))
           /\ job \in [Caller -> {NoJob} \cup JobsBelow(m)]
           /\ \A c \in Caller : phase[c] # "idle" => job[c] \in JobsBelow(m)
<1>1. next \in Nat /\ RolloutsBelow(next) \subseteq RolloutsBelow(m) /\ JobsBelow(next) \subseteq JobsBelow(m)
      /\ 0..(next - 1) \subseteq 0..(m - 1)
  BY TypesGrow DEF CopyTypeOK
<1>2. rollouts \in Seq(RolloutsBelow(m)) /\ goals \in Seq(0..(m - 1))
  BY <1>1, SeqGrows DEF CopyTypeOK
<1> QED  BY <1>1, <1>2 DEF CopyTypeOK

(* A thread as it is typed, and its changes. *)
LEMMA ThreadTyped ==
    ASSUME CopyTypeOK, NEW i \in DOMAIN rollouts
    PROVE  /\ rollouts[i] \in RolloutsBelow(next) /\ i \in Nat \ {0} /\ i \in DOMAIN goals
           /\ rollouts[i].lines \in LinesBelow(next) /\ Len(rollouts[i].lines) \in Nat
           /\ rollouts[i].id \in IdsBelow(next) /\ rollouts[i].of \in Descents(next)
           /\ goals[i] \in 0..(next - 1)
<1>1. rollouts[i] \in RolloutsBelow(next) /\ i \in Nat \ {0} /\ i \in DOMAIN goals /\ goals[i] \in 0..(next - 1)
  BY DEF CopyTypeOK
<1>2. rollouts[i].lines \in LinesBelow(next) /\ rollouts[i].id \in IdsBelow(next)
      /\ rollouts[i].of \in Descents(next)
  BY <1>1 DEF RolloutsBelow
<1> QED  BY <1>1, <1>2 DEF LinesBelow

(* What a thread that runs may become in a step. *)
Grown(i) ==
    \/ rollouts'[i].lines = rollouts[i].lines
    \/ \E r \in Written : rollouts'[i].lines = Append(rollouts[i].lines, r)

LEMMA WrittenTyped ==
    ASSUME next \in Nat, NEW r \in Written
    PROVE  /\ r \in RecordsBelow(next + 2)
           /\ \A p \in r.parts : \A s \in p.slots : s.whole /\ s.id.n \in {next, next + 1}
<1> DEFINE key == [at |-> "key", id |-> [kind |-> "uuid", n |-> next], whole |-> TRUE]
           own == [at |-> "own", id |-> [kind |-> "item", n |-> next + 1], whole |-> TRUE]
           said == [blob |-> "none", slots |-> {key, own}]
           item == [blob |-> "compaction", slots |-> {own, key}]
<1>1. r \in {[type |-> "response_item", parts |-> {said}], [type |-> "compacted", parts |-> {item}]}
  BY DEF Written, Turn, Record, Part, Slot, Id
<1>2. /\ key \in SlotsBelow(next + 2) /\ key.whole /\ key.id.n = next
      /\ own \in SlotsBelow(next + 2) /\ own.whole /\ own.id.n = next + 1
  <2>1. [kind |-> "uuid", n |-> next] \in IdsBelow(next + 2) /\ [kind |-> "item", n |-> next + 1] \in IdsBelow(next + 2)
    BY DEF IdsBelow, Kinds
  <2> QED  BY <2>1 DEF SlotsBelow, SlotPlaces
<1> HIDE DEF key, own
<1>3. /\ said \in PartsBelow(next + 2) /\ said.slots = {key, own}
      /\ item \in PartsBelow(next + 2) /\ item.slots = {own, key}
  BY <1>2 DEF PartsBelow
<1> HIDE DEF said, item
<1>4. r \in RecordsBelow(next + 2) /\ (r.parts = {said} \/ r.parts = {item})
  BY <1>1, <1>3 DEF RecordsBelow, Types
<1> QED  BY <1>2, <1>3, <1>4

JobsTyped ==
    /\ phase \in [Caller -> CopyPhases]
    /\ job \in [Caller -> {NoJob} \cup JobsBelow(next)]
    /\ \A c \in Caller : phase[c] # "idle" => job[c] \in JobsBelow(next)

LEMMA JobsLater ==
    ASSUME CopyTypeOK, next' \in Nat, next <= next', job' = job, phase' = phase
    PROVE  JobsTyped'
BY TypesLater DEF JobsTyped, CopyTypeOK

LEMMA JobGoesOn ==
    ASSUME CopyTypeOK, next' \in Nat, next <= next', NEW c \in Caller, NEW at \in CopyPhases,
           NEW j \in JobsBelow(next'), job' = [job EXCEPT ![c] = j], phase' = [phase EXCEPT ![c] = at]
    PROVE  /\ JobsTyped' /\ job'[c] = j /\ phase'[c] = at
           /\ \A d \in Caller : d # c => job'[d] = job[d] /\ phase'[d] = phase[d]
<1>1. /\ job \in [Caller -> {NoJob} \cup JobsBelow(next')] /\ phase \in [Caller -> CopyPhases]
      /\ \A d \in Caller : phase[d] # "idle" => job[d] \in JobsBelow(next')
  BY TypesLater DEF CopyTypeOK
<1> QED  BY <1>1 DEF JobsTyped

LEMMA JobEnds ==
    ASSUME CopyTypeOK, next' \in Nat, next <= next', NEW c \in Caller, Ended(c)
    PROVE  /\ JobsTyped' /\ phase'[c] = "idle"
           /\ \A d \in Caller : d # c => job'[d] = job[d] /\ phase'[d] = phase[d]
<1>1. /\ job \in [Caller -> {NoJob} \cup JobsBelow(next')] /\ phase \in [Caller -> CopyPhases]
      /\ \A d \in Caller : phase[d] # "idle" => job[d] \in JobsBelow(next')
  BY TypesLater DEF CopyTypeOK
<1>2. /\ job' \in [Caller -> {NoJob} \cup JobsBelow(next')] /\ phase' \in [Caller -> CopyPhases]
      /\ phase'[c] = "idle"
      /\ \A d \in Caller : d # c => job'[d] = job[d] /\ phase'[d] = phase[d]
  BY <1>1 DEF Ended, CopyPhases
<1>3. \A d \in Caller : phase'[d] # "idle" => job'[d] \in JobsBelow(next')
  BY <1>1, <1>2
<1> QED  BY <1>2, <1>3 DEF JobsTyped

RestTyped == active \in Account /\ era \in Nat /\ appends \in Nat /\ begun \in Nat
ThreadsTyped ==
    /\ rollouts \in Seq(RolloutsBelow(next)) /\ goals \in Seq(0..(next - 1))
    /\ Len(goals) = Len(rollouts)

LEMMA ThreadsLater ==
    ASSUME CopyTypeOK, next' \in Nat, next <= next', rollouts' = rollouts, goals' = goals
    PROVE  ThreadsTyped'
BY TypesLater DEF ThreadsTyped, CopyTypeOK

LEMMA TypeParts == CopyTypeOK <=> next \in Nat /\ 40 <= next /\ JobsTyped /\ ThreadsTyped /\ RestTyped
BY DEF CopyTypeOK, JobsTyped, ThreadsTyped, RestTyped

(* One thread is changed. *)
LEMMA ThreadUpdate ==
    ASSUME CopyTypeOK, next' \in Nat, next <= next', NEW i, NEW t,
           i \in DOMAIN rollouts => t \in RolloutsBelow(next'),
           rollouts' = [rollouts EXCEPT ![i] = t], goals' = goals
    PROVE  /\ ThreadsTyped' /\ DOMAIN rollouts' = DOMAIN rollouts
           /\ \A j \in DOMAIN rollouts : rollouts'[j] = IF j = i THEN t ELSE rollouts[j]
<1>1. rollouts \in Seq(RolloutsBelow(next')) /\ goals \in Seq(0..(next' - 1)) /\ Len(goals) = Len(rollouts)
  BY TypesLater DEF CopyTypeOK
<1>2. /\ rollouts' \in Seq(RolloutsBelow(next')) /\ Len(rollouts') = Len(rollouts)
      /\ DOMAIN rollouts' = DOMAIN rollouts
      /\ \A j \in DOMAIN rollouts : rollouts'[j] = IF j = i THEN t ELSE rollouts[j]
  <2> DEFINE S == RolloutsBelow(next')
  <2>1. rollouts \in Seq(S) /\ (i \in DOMAIN rollouts => t \in S)
    BY <1>1
  <2> HIDE DEF S
  <2>2. /\ [rollouts EXCEPT ![i] = t] \in Seq(S) /\ Len([rollouts EXCEPT ![i] = t]) = Len(rollouts)
        /\ DOMAIN [rollouts EXCEPT ![i] = t] = DOMAIN rollouts
        /\ \A j \in DOMAIN rollouts : [rollouts EXCEPT ![i] = t][j] = IF j = i THEN t ELSE rollouts[j]
    BY <2>1, SeqUpdate, Zenon
  <2> QED  BY <2>2 DEF S
<1> QED  BY <1>1, <1>2 DEF ThreadsTyped

\* Threads keep their names and descents; one that runs goes on with its account.
ThreadsKept ==
    /\ DOMAIN rollouts \subseteq DOMAIN rollouts'
    /\ \A i \in DOMAIN rollouts :
          /\ rollouts'[i].id = rollouts[i].id /\ rollouts'[i].of = rollouts[i].of
          /\ rollouts[i].owner # NoAccount => rollouts'[i].owner = rollouts[i].owner /\ Grown(i)

(* The rollout that a command has made is the one with its id. *)
LEMMA CopiedIs ==
    ASSUME CopyInv, NEW c \in Caller, phase[c] \in {"renamed", "verified", "carried"}
    PROVE  Copied(c) \in DOMAIN rollouts /\ Pending(Copied(c), c)
<1>1. PICK i \in DOMAIN rollouts : Pending(i, c)
  BY DEF CopyInv, CallerInv, HasFile
<1>2. rollouts[i].id = job[c].newId /\ \A j \in DOMAIN rollouts : rollouts[j].id = job[c].newId => j = i
  BY <1>1 DEF Pending, CopyInv, IdsUnique
<1>3. Copied(c) = i
  BY <1>2 DEF Copied
<1> QED  BY <1>1, <1>3

-----------------------------------------------------------------------------
(* What each step does to the threads and to its command. *)

LEMMA ScanDoes ==
    ASSUME CopyInv, NEW c \in Caller, Scan(c)
    PROVE  /\ CopyTypeOK' /\ rollouts' = rollouts /\ goals' = goals /\ next' = next
           /\ phase'[c] = "scanned" /\ Descended(rollouts, job'[c], job'[c].retired)
           /\ \A d \in Caller : d # c => job'[d] = job[d] /\ phase'[d] = phase[d]
<1>1. CopyTypeOK /\ next \in Nat
  BY DEF CopyInv, CopyTypeOK
<1>2. PICK i \in Running, policy \in Policies :
        job' = [job EXCEPT ![c] =
            [source |-> i, upto |-> Len(rollouts[i].lines), policy |-> policy,
             archived |-> rollouts[i].archived,
             retired |-> Collected(rollouts[i].lines) \cup {rollouts[i].id},
             account |-> NoAccount, newId |-> NoId, map |-> <<>>, file |-> <<>>]]
  BY DEF Scan
<1> DEFINE j == [source |-> i, upto |-> Len(rollouts[i].lines), policy |-> policy,
             archived |-> rollouts[i].archived,
             retired |-> Collected(rollouts[i].lines) \cup {rollouts[i].id},
             account |-> NoAccount, newId |-> NoId, map |-> <<>>, file |-> <<>>]
<1>3. /\ i \in DOMAIN rollouts /\ rollouts[i] \in RolloutsBelow(next) /\ i \in Nat \ {0}
      /\ rollouts[i].lines \in LinesBelow(next) /\ Len(rollouts[i].lines) \in Nat
      /\ rollouts[i].id \in IdsBelow(next) /\ rollouts[i].owner # NoAccount
      /\ rollouts[i].archived \in BOOLEAN
  <2>1. i \in DOMAIN rollouts /\ rollouts[i].owner # NoAccount
    BY DEF Running
  <2>2. rollouts[i] \in RolloutsBelow(next)
    BY <1>1, <2>1, ThreadTyped
  <2> QED  BY <1>1, <2>1, <2>2, ThreadTyped DEF RolloutsBelow
<1>4. Collected(rollouts[i].lines) \subseteq IdsBelow(next)
  BY <1>1, <1>3, TypedSlots
<1>5. j \in JobsBelow(next)
  <2>1. <<>> \in LinesBelow(next)
    BY DEF LinesBelow
  <2> QED  BY <1>3, <1>4, <2>1 DEF JobsBelow
<1>6. Descended(rollouts, j, j.retired)
  <2>1. Scanned(rollouts, j) = rollouts[i].lines
    BY <1>3 DEF Scanned, LinesBelow
  <2> QED  BY <1>3, <2>1 DEF Descended
<1>7. next' = next /\ rollouts' = rollouts /\ goals' = goals
  BY DEF Scan
<1>8. phase' = [phase EXCEPT ![c] = "scanned"] /\ "scanned" \in CopyPhases /\ job' = [job EXCEPT ![c] = j]
  BY <1>2 DEF Scan, Reach, CopyPhases
<1> HIDE DEF j
<1>9. /\ JobsTyped' /\ job'[c] = j /\ phase'[c] = "scanned"
      /\ \A d \in Caller : d # c => job'[d] = job[d] /\ phase'[d] = phase[d]
  <2>1. next' \in Nat /\ next <= next' /\ j \in JobsBelow(next')
    BY <1>1, <1>5, <1>7
  <2> QED  BY <1>1, <1>8, <2>1, JobGoesOn
<1>10. ThreadsTyped' /\ RestTyped'
  BY <1>1, <1>7, ThreadsLater DEF Scan, CopyTypeOK, RestTyped
<1>11. CopyTypeOK'
  BY <1>1, <1>7, <1>9, <1>10 DEF CopyTypeOK, JobsTyped, ThreadsTyped, RestTyped
<1> QED  BY <1>6, <1>7, <1>9, <1>11

LEMMA TakeAccountDoes ==
    ASSUME CopyInv, NEW c \in Caller, TakeAccount(c)
    PROVE  /\ CopyTypeOK' /\ rollouts' = rollouts /\ goals' = goals /\ next' = next
           /\ \/ /\ phase'[c] = "rotated" /\ phase[c] = "scanned"
                 /\ job'[c].source = job[c].source /\ job'[c].upto = job[c].upto
                 /\ job'[c].retired = job[c].retired
              \/ phase'[c] = "idle"
           /\ \A d \in Caller : d # c => job'[d] = job[d] /\ phase'[d] = phase[d]
<1>1. CopyTypeOK /\ next \in Nat /\ next' = next /\ rollouts' = rollouts /\ goals' = goals
      /\ phase[c] = "scanned" /\ job[c] \in JobsBelow(next)
  BY DEF CopyInv, CopyTypeOK, TakeAccount
<1>2. ThreadsTyped'
  BY <1>1, ThreadsLater
<1>3. CASE Ended(c) /\ UNCHANGED active
  <2>1. /\ JobsTyped' /\ phase'[c] = "idle"
        /\ \A d \in Caller : d # c => job'[d] = job[d] /\ phase'[d] = phase[d]
    BY <1>1, <1>3, JobEnds
  <2>2. CopyTypeOK'
    BY <1>1, <1>2, <1>3, <2>1 DEF TakeAccount, CopyTypeOK, JobsTyped, ThreadsTyped, RestTyped
  <2> QED  BY <1>1, <2>1, <2>2
<1>4. ASSUME NEW a \in Account, active' = a, job' = [job EXCEPT ![c].account = a], Reach(c, "rotated")
      PROVE  /\ CopyTypeOK' /\ phase'[c] = "rotated"
             /\ job'[c].source = job[c].source /\ job'[c].upto = job[c].upto
             /\ job'[c].retired = job[c].retired
             /\ \A d \in Caller : d # c => job'[d] = job[d] /\ phase'[d] = phase[d]
  <2> DEFINE j == [job[c] EXCEPT !.account = a]
  <2>1. /\ j \in JobsBelow(next) /\ j.source = job[c].source /\ j.upto = job[c].upto
        /\ j.retired = job[c].retired
    BY <1>1 DEF JobsBelow
  <2>2. job' = [job EXCEPT ![c] = j] /\ phase' = [phase EXCEPT ![c] = "rotated"] /\ "rotated" \in CopyPhases
    BY <1>4 DEF Reach, CopyPhases
  <2> HIDE DEF j
  <2>3. /\ JobsTyped' /\ job'[c] = j /\ phase'[c] = "rotated"
        /\ \A d \in Caller : d # c => job'[d] = job[d] /\ phase'[d] = phase[d]
    <3>1. next' \in Nat /\ next <= next' /\ j \in JobsBelow(next')
      BY <1>1, <2>1
    <3> QED  BY <1>1, <2>2, <3>1, JobGoesOn
  <2>4. CopyTypeOK'
    BY <1>1, <1>2, <1>4, <2>3 DEF TakeAccount, CopyTypeOK, JobsTyped, ThreadsTyped, RestTyped
  <2> QED  BY <2>1, <2>3, <2>4
<1> QED  BY <1>1, <1>3, <1>4 DEF TakeAccount

MintedFile(c) ==
    /\ phase'[c] = "copied" /\ phase[c] = "rotated"
    /\ job'[c].source = job[c].source /\ job'[c].upto = job[c].upto
    /\ job'[c].policy = job[c].policy /\ job'[c].retired = job[c].retired
    /\ job'[c].newId \in IdsBelow(next') /\ job'[c].newId.n >= next
    /\ job'[c].newId \notin job[c].retired
    /\ DOMAIN job'[c].map = job[c].retired /\ Joins(job'[c].map, job'[c].newId)
    /\ job'[c].map \in MapsBelow(next')
    /\ Says(job'[c].file, Scanned(rollouts, job[c]), job[c].policy)
    /\ ContentScrubbed(job'[c].file, job[c].retired)
    /\ \A x \in WornIn(job'[c].file) : x \in job[c].retired \/ x.n >= next

LEMMA CopyDoes ==
    ASSUME CopyInv, NEW c \in Caller, Copy(c)
    PROVE  /\ CopyTypeOK' /\ rollouts' = rollouts /\ goals' = goals /\ next <= next'
           /\ MintedFile(c) \/ phase'[c] = "idle"
           /\ \A d \in Caller : d # c => job'[d] = job[d] /\ phase'[d] = phase[d]
<1> DEFINE j == job[c]
           R == job[c].retired
           own == OwnIds(job[c])
           newId == Id("uuid", next + Cardinality(R))
           window == Id("uuid", next + Cardinality(R) + 1)
           map == RewriteMap(R, own, newId)
           n == Minted(R)
           origin == Scanned(rollouts, job[c])
           file == CopyLines(origin, map, newId, window, job[c].policy)
<1>1. /\ CopyTypeOK /\ next \in Nat /\ rollouts' = rollouts /\ goals' = goals
      /\ phase[c] = "rotated" /\ j \in JobsBelow(next) /\ Descended(rollouts, j, R)
  BY DEF CopyInv, CopyTypeOK, Copy, CallerInv
<1>2. R \in SUBSET IdsBelow(next) /\ Cardinality(R) \in Nat
  <2>1. R \in SUBSET IdsBelow(next)
    BY <1>1 DEF JobsBelow
  <2> QED  BY <1>1, <2>1, Ranks
<1>3. /\ n \in Nat /\ next <= n
      /\ newId \in IdsBelow(n) /\ newId \notin R /\ window \in IdsBelow(n)
      /\ map \in [R -> IdsBelow(n)] /\ \A id \in R : map[id].n >= next
      /\ Joins(map, newId)
  <2> HIDE DEF R, own
  <2>1. newId = Id("uuid", next + Cardinality(R)) /\ map = RewriteMap(R, own, newId)
    OBVIOUS
  <2> HIDE DEF newId, map, n, window
  <2>2. /\ Minted(R) \in Nat /\ next <= Minted(R)
        /\ newId \in IdsBelow(Minted(R)) /\ newId \notin R
        /\ Id("uuid", next + Cardinality(R) + 1) \in IdsBelow(Minted(R))
        /\ map \in [R -> IdsBelow(Minted(R))]
        /\ \A id \in R : map[id].n >= next
        /\ Joins(map, newId)
    BY <1>1, <1>2, <2>1, RewriteMapIs
  <2> QED  BY <2>2 DEF window, n
<1>4. newId.n >= next /\ window.n >= next
  BY <1>1, <1>2 DEF Id
<1>5. origin \in LinesBelow(next) /\ Collected(origin) \subseteq R
  <2>1. /\ j.source \in DOMAIN rollouts /\ j.upto \in 0..Len(rollouts[j.source].lines)
        /\ Collected(origin) \subseteq R
    BY <1>1 DEF Descended
  <2>2. rollouts[j.source].lines \in Seq(RecordsBelow(next))
    BY <1>1, <2>1, ThreadTyped DEF LinesBelow
  <2>3. SubSeq(rollouts[j.source].lines, 1, j.upto) \in Seq(RecordsBelow(next))
    BY <2>1, <2>2
  <2> QED  BY <2>1, <2>3 DEF Scanned, LinesBelow
<1>6. /\ file \in LinesBelow(n) /\ Says(file, origin, j.policy) /\ ContentScrubbed(file, R)
      /\ \A x \in WornIn(file) : x \in R \/ x.n >= next
  <2> HIDE DEF R, own, newId, window, map, n, origin, j
  <2>1. Rewriting(next, n, R, map, newId, window)
    BY <1>1, <1>2, <1>3, <1>4 DEF Rewriting
  <2>2. file = CopyLines(origin, map, newId, window, j.policy)
    BY DEF j
  <2> HIDE DEF file
  <2> QED  BY <1>5, <2>1, <2>2, CopyLinesIs
<1>7. CASE ~InPlace(c) /\ Ended(c) /\ UNCHANGED next
  <2>1. next' \in Nat /\ next <= next'
    BY <1>1, <1>7
  <2>2. /\ JobsTyped' /\ phase'[c] = "idle"
        /\ \A d \in Caller : d # c => job'[d] = job[d] /\ phase'[d] = phase[d]
    BY <1>1, <1>7, <2>1, JobEnds
  <2>3. ThreadsTyped'
    BY <1>1, <2>1, ThreadsLater
  <2>4. CopyTypeOK'
    BY <1>1, <1>7, <2>2, <2>3 DEF Copy, CopyTypeOK, JobsTyped, ThreadsTyped, RestTyped
  <2> QED  BY <1>1, <2>1, <2>2, <2>4
<1>8. CASE InPlace(c) /\ Reach(c, "copied")
             /\ job' = [job EXCEPT ![c].newId = newId, ![c].map = map, ![c].file = file]
             /\ next' = next + Cardinality(R) + 2
  <2> DEFINE k == [job[c] EXCEPT !.newId = newId, !.map = map, !.file = file]
  <2>1. next' = n /\ next' \in Nat /\ next <= next'
    BY <1>1, <1>2, <1>3, <1>8 DEF Minted
  <2>2. j \in JobsBelow(next')
    BY <1>1, <2>1, TypesLater
  <2>3. map \in MapsBelow(next') /\ DOMAIN map = R
    <3>1. R \in SUBSET IdsBelow(next')
      BY <1>1, <1>2, <2>1, TypesGrow
    <3> HIDE DEF R, map, n
    <3> QED  BY <1>3, <2>1, <3>1 DEF MapsBelow
  <2>4. /\ k \in JobsBelow(next') /\ k.newId = newId /\ k.map = map /\ k.file = file
        /\ k.source = j.source /\ k.upto = j.upto /\ k.policy = j.policy /\ k.retired = R
    <3>1. newId \in IdsBelow(next') /\ file \in LinesBelow(next')
      BY <1>3, <1>6, <2>1
    <3> HIDE DEF newId, map, file, n
    <3> QED  BY <2>2, <2>3, <3>1 DEF JobsBelow
  <2>5. job' = [job EXCEPT ![c] = k] /\ phase' = [phase EXCEPT ![c] = "copied"] /\ "copied" \in CopyPhases
    BY <1>8 DEF Reach, CopyPhases
  <2> HIDE DEF k, newId, map, file, n, R, j, origin
  <2>6. /\ JobsTyped' /\ job'[c] = k /\ phase'[c] = "copied"
        /\ \A d \in Caller : d # c => job'[d] = job[d] /\ phase'[d] = phase[d]
    BY <1>1, <2>1, <2>4, <2>5, JobGoesOn
  <2>7. ThreadsTyped'
    BY <1>1, <2>1, ThreadsLater
  <2>8. CopyTypeOK'
    BY <1>1, <2>1, <2>6, <2>7 DEF Copy, CopyTypeOK, JobsTyped, ThreadsTyped, RestTyped
  <2>9. MintedFile(c)
    <3>1. /\ job'[c].newId = newId /\ job'[c].map = map /\ job'[c].file = file
          /\ job'[c].source = j.source /\ job'[c].upto = j.upto /\ job'[c].policy = j.policy
          /\ job'[c].retired = R
      BY <2>4, <2>6
    <3>2. j = job[c] /\ R = job[c].retired /\ origin = Scanned(rollouts, job[c])
      BY DEF j, R, origin
    <3> QED  BY <1>1, <1>3, <1>4, <1>6, <2>1, <2>3, <2>6, <3>1, <3>2 DEF MintedFile
  <2> QED  BY <1>1, <2>1, <2>6, <2>8, <2>9
<1> QED  BY <1>7, <1>8 DEF Copy, Snapshot, Scanned

\* The thread that a command has copied appears under its new id.
Appears(c) ==
    LET i == Len(rollouts) + 1 IN
    /\ phase[c] = "copied" /\ phase'[c] = "renamed" /\ job'[c] = job[c]
    /\ DOMAIN rollouts' = DOMAIN rollouts \cup {i} /\ i \notin DOMAIN rollouts
    /\ \A k \in DOMAIN rollouts : rollouts'[k] = rollouts[k] /\ goals'[k] = goals[k]
    /\ rollouts'[i].id = job[c].newId /\ rollouts'[i].lines = job[c].file
    /\ rollouts'[i].owner = NoAccount /\ goals'[i] = 0
    /\ rollouts'[i].of.source = job[c].source /\ rollouts'[i].of.upto = job[c].upto
    /\ rollouts'[i].of.policy = job[c].policy /\ rollouts'[i].of.map = job[c].map

LEMMA RenameDoes ==
    ASSUME CopyInv, NEW c \in Caller, Rename(c)
    PROVE  /\ CopyTypeOK' /\ next' = next
           /\ \/ Appears(c)
              \/ phase'[c] = "idle" /\ rollouts' = rollouts /\ goals' = goals
           /\ \A d \in Caller : d # c => job'[d] = job[d] /\ phase'[d] = phase[d]
<1>1. /\ CopyTypeOK /\ next \in Nat /\ next' = next /\ phase[c] = "copied"
      /\ job[c] \in JobsBelow(next) /\ CallerInv(c)
  BY DEF CopyInv, CopyTypeOK, Rename
<1>2. next' \in Nat /\ next <= next'
  BY <1>1
<1>3. CASE ~InPlace(c) /\ Ended(c) /\ UNCHANGED <<rollouts, goals>>
  <2>1. /\ JobsTyped' /\ phase'[c] = "idle"
        /\ \A d \in Caller : d # c => job'[d] = job[d] /\ phase'[d] = phase[d]
    BY <1>1, <1>2, <1>3, JobEnds
  <2>2. ThreadsTyped'
    BY <1>1, <1>2, <1>3, ThreadsLater
  <2>3. CopyTypeOK'
    BY <1>1, <1>2, <2>1, <2>2 DEF Rename, CopyTypeOK, JobsTyped, ThreadsTyped, RestTyped
  <2> QED  BY <1>1, <1>3, <2>1, <2>3
<1>4. CASE InPlace(c) /\ Reach(c, "renamed") /\ UNCHANGED job
  <2> DEFINE of == [source |-> job[c].source, upto |-> job[c].upto,
                         policy |-> job[c].policy, map |-> job[c].map,
                         account |-> job[c].account]
             t == Rollout(job[c].newId, job[c].file, NoAccount, of)
             i == Len(rollouts) + 1
  <2>1. rollouts' = Append(rollouts, t) /\ goals' = Append(goals, 0)
    BY <1>4 DEF Rename, InPlace
  <2>2. job[c].newId \in IdsBelow(next) /\ job[c].map \in MapsBelow(next)
    BY <1>1 DEF CallerInv, HasFile
  <2>3. of \in Descents(next)
    BY <1>1, <2>2 DEF JobsBelow, Descents
  <2>4. /\ t \in RolloutsBelow(next) /\ t.id = job[c].newId /\ t.lines = job[c].file
        /\ t.owner = NoAccount /\ t.of = of
    <3>1. job[c].file \in LinesBelow(next)
      BY <1>1 DEF JobsBelow
    <3> HIDE DEF of
    <3> QED  BY <2>2, <2>3, <3>1 DEF RolloutsBelow, Rollout
  <2>5. /\ of.source = job[c].source /\ of.upto = job[c].upto
        /\ of.policy = job[c].policy /\ of.map = job[c].map
    OBVIOUS
  <2> HIDE DEF t, of
  <2>6. rollouts \in Seq(RolloutsBelow(next)) /\ goals \in Seq(0..(next - 1)) /\ Len(goals) = Len(rollouts)
        /\ 0 \in 0..(next - 1) /\ Len(rollouts) \in Nat
    BY <1>1 DEF CopyTypeOK
  <2>7. /\ rollouts' \in Seq(RolloutsBelow(next)) /\ goals' \in Seq(0..(next - 1))
        /\ Len(rollouts') = i /\ Len(goals') = i
        /\ rollouts'[i] = t /\ goals'[i] = 0
        /\ \A k \in DOMAIN rollouts : rollouts'[k] = rollouts[k] /\ goals'[k] = goals[k]
    BY <2>1, <2>4, <2>6
  <2>8. DOMAIN rollouts' = DOMAIN rollouts \cup {i} /\ i \notin DOMAIN rollouts
    BY <2>6, <2>7
  <2>9. phase' = [phase EXCEPT ![c] = "renamed"] /\ phase'[c] = "renamed" /\ "renamed" \in CopyPhases
        /\ \A d \in Caller : d # c => phase'[d] = phase[d]
    BY <1>1, <1>4 DEF Reach, CopyPhases, CopyTypeOK
  <2>10. JobsTyped'
    BY <1>1, <1>4, <2>9 DEF JobsTyped, CopyTypeOK
  <2>11. ThreadsTyped'
    BY <1>1, <2>7 DEF ThreadsTyped
  <2>12. CopyTypeOK'
    BY <1>1, <1>2, <2>10, <2>11 DEF Rename, CopyTypeOK, JobsTyped, ThreadsTyped, RestTyped
  <2>13. Appears(c)
    BY <1>1, <1>4, <2>4, <2>5, <2>7, <2>8, <2>9 DEF Appears
  <2> QED  BY <1>1, <1>4, <2>9, <2>12, <2>13
<1> QED  BY <1>3, <1>4 DEF Rename

LEMMA VerifyDoes ==
    ASSUME CopyInv, NEW c \in Caller, Verify(c)
    PROVE  /\ CopyTypeOK' /\ next' = next /\ goals' = goals
           /\ \/ /\ phase[c] = "renamed" /\ phase'[c] = "verified"
                 /\ job'[c] = job[c] /\ rollouts' = rollouts
                 /\ Clean(rollouts[Copied(c)].lines, job[c].retired, job[c].newId, job[c].policy)
              \/ /\ phase'[c] = "idle" /\ DOMAIN rollouts' = DOMAIN rollouts
                 /\ \A i \in DOMAIN rollouts :
                       /\ rollouts'[i].id = rollouts[i].id /\ rollouts'[i].of = rollouts[i].of
                       /\ rollouts'[i].owner = rollouts[i].owner
                       /\ \/ rollouts'[i].lines = rollouts[i].lines
                          \/ rollouts[i].owner = NoAccount /\ rollouts'[i].lines = <<>>
           /\ \A d \in Caller : d # c => job'[d] = job[d] /\ phase'[d] = phase[d]
           /\ \A i \in DOMAIN rollouts : i # Copied(c) => rollouts'[i] = rollouts[i]
<1>1. /\ CopyTypeOK /\ next \in Nat /\ next' = next /\ goals' = goals /\ phase[c] = "renamed"
      /\ Copied(c) \in DOMAIN rollouts /\ rollouts[Copied(c)].owner = NoAccount
  <2>1. phase[c] = "renamed"
    BY DEF Verify
  <2> QED  BY <2>1, CopiedIs DEF CopyInv, CopyTypeOK, Verify, Pending
<1>2. next' \in Nat /\ next <= next'
  BY <1>1
<1>3. CASE Clean(rollouts[Copied(c)].lines, job[c].retired, job[c].newId, job[c].policy)
  <2>1. Reach(c, "verified") /\ rollouts' = rollouts /\ job' = job
    BY <1>3 DEF Verify
  <2>2. /\ phase'[c] = "verified" /\ JobsTyped'
        /\ \A d \in Caller : d # c => phase'[d] = phase[d]
    BY <1>1, <2>1 DEF Reach, CopyPhases, CopyTypeOK, JobsTyped
  <2>3. ThreadsTyped'
    BY <1>1, <1>2, <2>1, ThreadsLater
  <2>4. CopyTypeOK'
    BY <1>1, <1>2, <2>2, <2>3 DEF Verify, CopyTypeOK, JobsTyped, ThreadsTyped, RestTyped
  <2> QED  BY <1>1, <1>3, <2>1, <2>2, <2>4
<1>4. CASE ~Clean(rollouts[Copied(c)].lines, job[c].retired, job[c].newId, job[c].policy)
  <2> DEFINE k == Copied(c)
             t == [rollouts[k] EXCEPT !.lines = <<>>]
  <2>1. rollouts' = [rollouts EXCEPT ![k] = t] /\ Ended(c)
    BY <1>4 DEF Verify
  <2> HIDE DEF k
  <2>2. k \in DOMAIN rollouts /\ k = Copied(c) /\ rollouts[k].owner = NoAccount
    BY <1>1 DEF k
  <2>3. /\ t \in RolloutsBelow(next') /\ t.lines = <<>> /\ t.id = rollouts[k].id
        /\ t.owner = rollouts[k].owner /\ t.of = rollouts[k].of
    <3>1. rollouts[k] \in RolloutsBelow(next)
      BY <1>1, <2>2, ThreadTyped
    <3>2. <<>> \in LinesBelow(next)
      BY DEF LinesBelow
    <3> QED  BY <1>1, <3>1, <3>2 DEF RolloutsBelow
  <2> HIDE DEF t
  <2>4. /\ ThreadsTyped' /\ DOMAIN rollouts' = DOMAIN rollouts
        /\ \A j \in DOMAIN rollouts : rollouts'[j] = IF j = k THEN t ELSE rollouts[j]
    BY <1>1, <1>2, <2>1, <2>3, ThreadUpdate
  <2>5. /\ JobsTyped' /\ phase'[c] = "idle"
        /\ \A d \in Caller : d # c => job'[d] = job[d] /\ phase'[d] = phase[d]
    BY <1>1, <1>2, <2>1, JobEnds
  <2>6. CopyTypeOK'
    BY <1>1, <1>2, <2>4, <2>5 DEF Verify, CopyTypeOK, JobsTyped, ThreadsTyped, RestTyped
  <2> QED  BY <1>1, <2>2, <2>3, <2>4, <2>5, <2>6
<1> QED  BY <1>3, <1>4

LEMMA CarryGoalDoes ==
    ASSUME CopyInv, NEW c \in Caller, CarryGoal(c)
    PROVE  /\ CopyTypeOK' /\ rollouts' = rollouts /\ job' = job
           /\ next' \in {next, next + 1} /\ phase[c] = "verified" /\ phase'[c] = "carried"
           /\ \A d \in Caller : d # c => phase'[d] = phase[d]
           /\ \A i \in DOMAIN rollouts : goals'[i] = goals[i] \/ (goals'[i] = next /\ i = Copied(c))
<1>1. /\ CopyTypeOK /\ next \in Nat /\ rollouts' = rollouts /\ job' = job /\ phase[c] = "verified"
      /\ phase' = [phase EXCEPT ![c] = "carried"] /\ phase \in [Caller -> CopyPhases] /\ 40 <= next
  BY DEF CopyInv, CopyTypeOK, CarryGoal, Reach
<1>2. /\ phase'[c] = "carried" /\ phase' \in [Caller -> CopyPhases]
      /\ \A d \in Caller : d # c => phase'[d] = phase[d]
  BY <1>1 DEF CopyPhases
<1>3. next' \in {next, next + 1}
  BY DEF CarryGoal
<1>4. next' \in Nat /\ next <= next'
  BY <1>1, <1>3
<1>5. JobsTyped'
  <2>1. /\ job \in [Caller -> {NoJob} \cup JobsBelow(next')]
        /\ \A d \in Caller : phase[d] # "idle" => job[d] \in JobsBelow(next')
    BY <1>1, <1>4, TypesLater
  <2> QED  BY <1>1, <1>2, <2>1 DEF JobsTyped
<1>6. /\ goals' \in Seq(0..(next' - 1)) /\ Len(goals') = Len(goals)
      /\ \A i \in DOMAIN rollouts : goals'[i] = goals[i] \/ (goals'[i] = next /\ i = Copied(c))
  <2>1. goals \in Seq(0..(next' - 1)) /\ DOMAIN goals = DOMAIN rollouts
    BY <1>1, <1>4, TypesLater DEF CopyTypeOK
  <2>2. CASE goals' = goals
    BY <2>1, <2>2
  <2>3. CASE goals' = [goals EXCEPT ![Copied(c)] = next] /\ next' = next + 1
    <3> DEFINE k == Copied(c)
    <3>1. goals' = [goals EXCEPT ![k] = next] /\ next \in 0..(next' - 1)
      BY <1>1, <2>3
    <3> HIDE DEF k
    <3>2. /\ goals' \in Seq(0..(next' - 1)) /\ Len(goals') = Len(goals)
          /\ \A i \in DOMAIN goals : goals'[i] = IF i = k THEN next ELSE goals[i]
      BY <2>1, <3>1, SeqUpdate
    <3> QED  BY <2>1, <3>2 DEF k
  <2> QED  BY <2>2, <2>3 DEF CarryGoal
<1>7. rollouts' \in Seq(RolloutsBelow(next'))
  BY <1>1, <1>4, TypesLater
<1>8. ThreadsTyped'
  BY <1>1, <1>6, <1>7 DEF ThreadsTyped, CopyTypeOK
<1>9. CopyTypeOK'
  BY <1>1, <1>4, <1>5, <1>8 DEF CarryGoal, CopyTypeOK, JobsTyped, ThreadsTyped, RestTyped
<1> QED  BY <1>1, <1>2, <1>3, <1>6, <1>9

LEMMA LaunchDoes ==
    ASSUME CopyInv, NEW c \in Caller, Launch(c)
    PROVE  /\ CopyTypeOK' /\ next' = next /\ goals' = goals
           /\ phase[c] = "carried" /\ phase'[c] = "idle" /\ DOMAIN rollouts' = DOMAIN rollouts
           /\ \A i \in DOMAIN rollouts :
                 /\ rollouts'[i].id = rollouts[i].id /\ rollouts'[i].of = rollouts[i].of
                 /\ rollouts'[i].lines = rollouts[i].lines
                 /\ i # Copied(c) => rollouts'[i].owner = rollouts[i].owner
           /\ \A d \in Caller : d # c => job'[d] = job[d] /\ phase'[d] = phase[d]
<1>1. /\ CopyTypeOK /\ next \in Nat /\ next' = next /\ goals' = goals /\ phase[c] = "carried"
      /\ active \in Account /\ Ended(c)
  BY DEF CopyInv, CopyTypeOK, Launch
<1>2. next' \in Nat /\ next <= next'
  BY <1>1
<1> DEFINE k == Copied(c)
           s == job[c].source
           one == [rollouts EXCEPT ![k] = [rollouts[k] EXCEPT !.owner = active]]
<1>3. PICK archive \in BOOLEAN :
        rollouts' = [rollouts EXCEPT ![k].owner = active, ![s].archived = @ \/ archive]
  BY DEF Launch
<1>4. rollouts' = [one EXCEPT ![s] = [one[s] EXCEPT !.archived = one[s].archived \/ archive]]
  BY <1>3
<1> HIDE DEF k, s
<1>5. rollouts \in Seq(RolloutsBelow(next)) /\ \A i \in DOMAIN rollouts : rollouts[i] \in RolloutsBelow(next)
  BY <1>1 DEF CopyTypeOK
<1>6. /\ one \in Seq(RolloutsBelow(next)) /\ Len(one) = Len(rollouts) /\ DOMAIN one = DOMAIN rollouts
      /\ \A i \in DOMAIN rollouts :
            /\ one[i] \in RolloutsBelow(next)
            /\ one[i].id = rollouts[i].id /\ one[i].of = rollouts[i].of
            /\ one[i].lines = rollouts[i].lines
            /\ i # k => one[i].owner = rollouts[i].owner
  <2> DEFINE t == [rollouts[k] EXCEPT !.owner = active]
  <2>1. k \in DOMAIN rollouts => /\ t \in RolloutsBelow(next) /\ t.id = rollouts[k].id
                                 /\ t.of = rollouts[k].of /\ t.lines = rollouts[k].lines
    BY <1>1, <1>5 DEF RolloutsBelow
  <2>2. one = [rollouts EXCEPT ![k] = t]
    OBVIOUS
  <2> HIDE DEF t, one
  <2>3. /\ one \in Seq(RolloutsBelow(next)) /\ Len(one) = Len(rollouts) /\ DOMAIN one = DOMAIN rollouts
        /\ \A i \in DOMAIN rollouts : one[i] = IF i = k THEN t ELSE rollouts[i]
    BY <1>5, <2>1, <2>2, SeqUpdate
  <2> QED  BY <1>5, <2>1, <2>3
<1> HIDE DEF one
<1>7. /\ rollouts' \in Seq(RolloutsBelow(next)) /\ Len(rollouts') = Len(one) /\ DOMAIN rollouts' = DOMAIN one
      /\ \A i \in DOMAIN one :
            /\ rollouts'[i].id = one[i].id /\ rollouts'[i].of = one[i].of
            /\ rollouts'[i].lines = one[i].lines /\ rollouts'[i].owner = one[i].owner
  <2> DEFINE t == [one[s] EXCEPT !.archived = one[s].archived \/ archive]
  <2>1. s \in DOMAIN one => /\ t \in RolloutsBelow(next) /\ t.id = one[s].id
                            /\ t.of = one[s].of /\ t.lines = one[s].lines /\ t.owner = one[s].owner
    BY <1>6 DEF RolloutsBelow
  <2>2. rollouts' = [one EXCEPT ![s] = t]
    BY <1>4
  <2> HIDE DEF t
  <2>3. /\ rollouts' \in Seq(RolloutsBelow(next)) /\ Len(rollouts') = Len(one) /\ DOMAIN rollouts' = DOMAIN one
        /\ \A i \in DOMAIN one : rollouts'[i] = IF i = s THEN t ELSE one[i]
    <3>1. one \in Seq(RolloutsBelow(next)) /\ (s \in DOMAIN one => t \in RolloutsBelow(next))
      BY <1>6, <2>1
    <3>2. /\ [one EXCEPT ![s] = t] \in Seq(RolloutsBelow(next))
          /\ Len([one EXCEPT ![s] = t]) = Len(one) /\ DOMAIN [one EXCEPT ![s] = t] = DOMAIN one
          /\ \A i \in DOMAIN one : [one EXCEPT ![s] = t][i] = IF i = s THEN t ELSE one[i]
      BY <3>1, SeqUpdate
    <3> QED  BY <2>2, <3>2
  <2> QED  BY <2>1, <2>3
<1>8. /\ JobsTyped' /\ phase'[c] = "idle"
      /\ \A d \in Caller : d # c => job'[d] = job[d] /\ phase'[d] = phase[d]
  BY <1>1, <1>2, JobEnds
<1>9. ThreadsTyped'
  BY <1>1, <1>6, <1>7 DEF ThreadsTyped, CopyTypeOK
<1>10. CopyTypeOK'
  BY <1>1, <1>2, <1>8, <1>9 DEF Launch, CopyTypeOK, JobsTyped, ThreadsTyped, RestTyped
<1> QED  BY <1>1, <1>6, <1>7, <1>8, <1>10 DEF k

LEMMA KilledDoes ==
    ASSUME CopyInv, NEW c \in Caller, Killed(c)
    PROVE  /\ CopyTypeOK' /\ next' = next /\ goals' = goals /\ rollouts' = rollouts
           /\ phase'[c] = "idle"
           /\ \A d \in Caller : d # c => job'[d] = job[d] /\ phase'[d] = phase[d]
<1>1. /\ CopyTypeOK /\ next \in Nat /\ next' = next /\ goals' = goals /\ rollouts' = rollouts /\ Ended(c)
  BY DEF CopyInv, CopyTypeOK, Killed
<1>2. next' \in Nat /\ next <= next'
  BY <1>1
<1>3. /\ JobsTyped' /\ phase'[c] = "idle"
      /\ \A d \in Caller : d # c => job'[d] = job[d] /\ phase'[d] = phase[d]
  BY <1>1, <1>2, JobEnds
<1>4. ThreadsTyped'
  BY <1>1, <1>2, ThreadsLater
<1>5. CopyTypeOK'
  BY <1>1, <1>2, <1>3, <1>4 DEF Killed, CopyTypeOK, JobsTyped, ThreadsTyped, RestTyped
<1> QED  BY <1>1, <1>3, <1>5

\* Codex goes on with a thread: at most there is a line more, with new ids.
CodexWrites ==
    /\ job' = job /\ phase' = phase /\ goals' = goals /\ next' \in {next, next + 2}
    /\ DOMAIN rollouts' = DOMAIN rollouts
    /\ \A i \in DOMAIN rollouts :
          /\ rollouts'[i].id = rollouts[i].id /\ rollouts'[i].of = rollouts[i].of
          /\ rollouts'[i].owner = rollouts[i].owner
          /\ \/ rollouts'[i].lines = rollouts[i].lines
             \/ /\ rollouts[i].owner # NoAccount /\ next' = next + 2
                /\ \E r \in Written : rollouts'[i].lines = Append(rollouts[i].lines, r)
    /\ \A i, k \in DOMAIN rollouts :
          rollouts'[i].lines # rollouts[i].lines /\ rollouts'[k].lines # rollouts[k].lines => i = k

LEMMA CodexDoes ==
    ASSUME CopyInv,
           (\E i \in DOMAIN rollouts : BeginLine(i) \/ EndLine(i)) \/ NextEra \/ UNCHANGED copyVars
    PROVE  CopyTypeOK' /\ CodexWrites
<1>1. CopyTypeOK /\ next \in Nat /\ 40 <= next /\ RestTyped
  BY DEF CopyInv, CopyTypeOK, RestTyped
<1>2. ASSUME NEW i \in DOMAIN rollouts, BeginLine(i) PROVE CopyTypeOK' /\ CodexWrites
  <2> DEFINE t == [rollouts[i] EXCEPT !.half = TRUE]
  <2>1. /\ next' = next /\ next' \in Nat /\ next <= next' /\ job' = job /\ phase' = phase /\ goals' = goals
        /\ rollouts' = [rollouts EXCEPT ![i] = t]
    BY <1>1, <1>2 DEF BeginLine
  <2>2. /\ t \in RolloutsBelow(next') /\ t.lines = rollouts[i].lines
        /\ t.id = rollouts[i].id /\ t.owner = rollouts[i].owner /\ t.of = rollouts[i].of
    <3>1. rollouts[i] \in RolloutsBelow(next)
      BY <1>1, ThreadTyped
    <3> QED  BY <2>1, <3>1 DEF RolloutsBelow
  <2> HIDE DEF t
  <2>3. /\ ThreadsTyped' /\ DOMAIN rollouts' = DOMAIN rollouts
        /\ \A j \in DOMAIN rollouts : rollouts'[j] = IF j = i THEN t ELSE rollouts[j]
    BY <1>1, <2>1, <2>2, ThreadUpdate
  <2>4. JobsTyped'
    BY <1>1, <2>1, JobsLater
  <2>5. RestTyped'
    BY <1>1, <1>2 DEF BeginLine, RestTyped
  <2>6. CopyTypeOK'
    BY <1>1, <2>1, <2>3, <2>4, <2>5 DEF CopyTypeOK, JobsTyped, ThreadsTyped, RestTyped
  <2>7. CodexWrites
    BY <2>1, <2>2, <2>3 DEF CodexWrites
  <2> QED  BY <2>6, <2>7
<1>3. ASSUME NEW i \in DOMAIN rollouts, EndLine(i) PROVE CopyTypeOK' /\ CodexWrites
  <2>1. PICK r \in Written : rollouts' = [rollouts EXCEPT ![i].half = FALSE, ![i].lines = Append(@, r)]
    BY <1>3 DEF EndLine
  <2> DEFINE lines == Append(rollouts[i].lines, r)
             t == [rollouts[i] EXCEPT !.half = FALSE, !.lines = lines]
  <2>2. /\ next' = next + 2 /\ next' \in Nat /\ next <= next' /\ job' = job /\ phase' = phase
        /\ goals' = goals /\ rollouts[i].owner # NoAccount
    <3>1. i \in Running /\ next' = next + 2 /\ job' = job /\ phase' = phase /\ goals' = goals
      BY <1>3 DEF EndLine
    <3>2. rollouts[i].owner # NoAccount
      BY <3>1 DEF Running
    <3> QED  BY <1>1, <3>1, <3>2
  <2>3. rollouts' = [rollouts EXCEPT ![i] = t]
    BY <2>1
  <2>4. rollouts[i] \in RolloutsBelow(next') /\ rollouts[i].lines \in LinesBelow(next')
    BY <1>1, <2>2, ThreadTyped, TypesGrow
  <2>5. lines \in LinesBelow(next')
    <3>1. r \in RecordsBelow(next')
      BY <1>1, <2>2, WrittenTyped
    <3> QED  BY <2>4, <3>1 DEF LinesBelow
  <2>6. /\ t \in RolloutsBelow(next') /\ t.lines = lines
        /\ t.id = rollouts[i].id /\ t.owner = rollouts[i].owner /\ t.of = rollouts[i].of
    <3> HIDE DEF lines
    <3> QED  BY <2>4, <2>5 DEF RolloutsBelow
  <2> HIDE DEF t
  <2>7. /\ ThreadsTyped' /\ DOMAIN rollouts' = DOMAIN rollouts
        /\ \A j \in DOMAIN rollouts : rollouts'[j] = IF j = i THEN t ELSE rollouts[j]
    BY <1>1, <2>2, <2>3, <2>6, ThreadUpdate
  <2>8. JobsTyped'
    BY <1>1, <2>2, JobsLater
  <2>9. RestTyped'
    BY <1>1, <1>3 DEF EndLine, RestTyped
  <2>10. CopyTypeOK'
    BY <1>1, <2>2, <2>7, <2>8, <2>9 DEF CopyTypeOK, JobsTyped, ThreadsTyped, RestTyped
  <2>11. CodexWrites
    BY <2>2, <2>6, <2>7 DEF CodexWrites
  <2> QED  BY <2>10, <2>11
<1>4. CASE NextEra \/ UNCHANGED copyVars
  <2>1. /\ next' = next /\ next' \in Nat /\ next <= next' /\ job' = job /\ phase' = phase /\ goals' = goals
        /\ rollouts' = rollouts /\ RestTyped'
    BY <1>1, <1>4 DEF NextEra, copyVars, RestTyped
  <2>2. CopyTypeOK'
    BY <1>1, <2>1, ThreadsLater, JobsLater DEF CopyTypeOK, JobsTyped, ThreadsTyped, RestTyped
  <2>3. CodexWrites
    BY <2>1 DEF CodexWrites
  <2> QED  BY <2>2, <2>3
<1> QED  BY <1>2, <1>3, <1>4

-----------------------------------------------------------------------------
(* What the scan has seen stays as it was. *)

LEMMA GrownPrefix ==
    ASSUME CopyTypeOK, NEW i \in DOMAIN rollouts, Grown(i)
    PROVE  /\ Len(rollouts[i].lines) <= Len(rollouts'[i].lines) /\ Len(rollouts'[i].lines) \in Nat
           /\ \A n \in 0..Len(rollouts[i].lines) :
                 SubSeq(rollouts'[i].lines, 1, n) = SubSeq(rollouts[i].lines, 1, n)
           /\ \A k \in DOMAIN rollouts[i].lines :
                 k \in DOMAIN rollouts'[i].lines /\ rollouts'[i].lines[k] = rollouts[i].lines[k]
<1> DEFINE s == rollouts[i].lines
           t == rollouts'[i].lines
           S == RecordsBelow(next + 2)
<1>1. next \in Nat /\ s \in Seq(S) /\ Len(s) \in Nat
  <2>1. next \in Nat /\ s \in LinesBelow(next)
    BY ThreadTyped DEF CopyTypeOK
  <2>2. s \in LinesBelow(next + 2)
    <3>1. next + 2 \in Nat /\ next <= next + 2
      BY <2>1
    <3> HIDE DEF s
    <3> QED  BY <2>1, <3>1, TypesGrow
  <2> QED  BY <2>1, <2>2 DEF LinesBelow
<1>2. CASE t = s
  BY <1>1, <1>2
<1>3. CASE \E r \in Written : t = Append(s, r)
  <2>1. PICK r \in Written : t = Append(s, r)
    BY <1>3
  <2>2. r \in S
    BY <1>1, WrittenTyped
  <2> HIDE DEF s, t, S
  <2>3. \A n \in 0..Len(s) : SubSeq(t, 1, n) = SubSeq(s, 1, n)
    BY <1>1, <2>1, <2>2, PrefixKept
  <2>4. Len(t) = Len(s) + 1 /\ \A k \in DOMAIN s : k \in DOMAIN t /\ t[k] = s[k]
    BY <1>1, <2>1, <2>2
  <2> QED  BY <1>1, <2>3, <2>4 DEF s, t
<1> QED  BY <1>2, <1>3 DEF Grown

LEMMA DescendedKept ==
    ASSUME CopyTypeOK, ThreadsKept, NEW of, NEW R, Descended(rollouts, of, R)
    PROVE  Descended(rollouts', of, R) /\ Scanned(rollouts', of) = Scanned(rollouts, of)
<1> DEFINE i == of.source
<1>1. /\ i \in DOMAIN rollouts /\ rollouts[i].owner # NoAccount
      /\ of.upto \in 0..Len(rollouts[i].lines)
      /\ R = Collected(Scanned(rollouts, of)) \cup {rollouts[i].id}
  BY DEF Descended
<1> HIDE DEF i
<1>2. /\ i \in DOMAIN rollouts' /\ rollouts'[i].id = rollouts[i].id
      /\ rollouts'[i].owner = rollouts[i].owner /\ Grown(i)
  BY <1>1 DEF ThreadsKept
<1>3. /\ Len(rollouts[i].lines) <= Len(rollouts'[i].lines) /\ Len(rollouts'[i].lines) \in Nat
      /\ SubSeq(rollouts'[i].lines, 1, of.upto) = SubSeq(rollouts[i].lines, 1, of.upto)
  BY <1>1, <1>2, GrownPrefix
<1>4. Len(rollouts[i].lines) \in Nat
  BY <1>1, ThreadTyped
<1>5. Scanned(rollouts', of) = Scanned(rollouts, of)
  BY <1>3 DEF Scanned, i
<1> QED  BY <1>1, <1>2, <1>3, <1>4, <1>5 DEF Descended, i

(* What a copy says it goes on saying; and what is written is none of what *)
(* is retired.                                                             *)
LEMMA SaysKept ==
    ASSUME CopyTypeOK, NEW i \in DOMAIN rollouts, Grown(i), NEW origin \in LinesBelow(next), NEW policy,
           Says(rollouts[i].lines, origin, policy)
    PROVE  Says(rollouts'[i].lines, origin, policy)
<1> DEFINE kept == KeptLines(origin, policy)
           s == rollouts[i].lines
           t == rollouts'[i].lines
<1>1. /\ Len(s) <= Len(t) /\ Len(s) \in Nat /\ Len(t) \in Nat
      /\ \A k \in DOMAIN s : k \in DOMAIN t /\ t[k] = s[k]
      /\ DOMAIN s = 1..Len(s)
  BY GrownPrefix, ThreadTyped DEF LinesBelow
<1>2. kept \in Seq(RecordsBelow(next))
  <2>1. origin \in Seq(RecordsBelow(next))
    BY DEF LinesBelow
  <2> DEFINE gone == {n \in DOMAIN origin : /\ origin[n].type = "response_item"
                                           /\ \E p \in origin[n].parts : Gone(p.blob, policy)}
  <2>2. kept = Without(origin, gone)
    BY DEF KeptLines
  <2> HIDE DEF gone, kept
  <2> QED  BY <2>1, <2>2, WithoutKeeps
<1>3. Len(kept) \in Nat /\ DOMAIN kept = 1..Len(kept)
  BY <1>2
<1> HIDE DEF s, t, kept
<1>4. /\ Len(kept) <= Len(s)
      /\ \A k \in DOMAIN kept : s[k].type = kept[k].type /\ Blobs(s[k], policy) = Blobs(kept[k], policy)
  BY DEF Says, s, kept
<1>5. \A k \in DOMAIN kept : k \in DOMAIN s
  BY <1>1, <1>3, <1>4
<1>6. /\ Len(kept) <= Len(t)
      /\ \A k \in DOMAIN kept : t[k].type = kept[k].type /\ Blobs(t[k], policy) = Blobs(kept[k], policy)
  BY <1>1, <1>3, <1>4, <1>5
<1> QED  BY <1>6 DEF Says, t, kept

(* The ids of a thread that grows are what they were, or new. *)
LEMMA GrownWorn ==
    ASSUME CopyTypeOK, NEW i \in DOMAIN rollouts, Grown(i)
    PROVE  /\ \A x \in WornIn(rollouts'[i].lines) : x \in WornIn(rollouts[i].lines) \/ x.n \in {next, next + 1}
           /\ \A s \in SlotsOf(Lines(rollouts'[i].lines)) : s \in SlotsOf(Lines(rollouts[i].lines)) \/ s.whole
<1> DEFINE lines == rollouts[i].lines
           more == rollouts'[i].lines
<1>1. next \in Nat /\ lines \in Seq(RecordsBelow(next))
  BY ThreadTyped DEF CopyTypeOK, LinesBelow
<1>2. ASSUME NEW r \in Written, more = Append(lines, r)
      PROVE  /\ \A x \in WornIn(more) : x \in WornIn(lines) \/ x.n \in {next, next + 1}
             /\ \A s \in SlotsOf(Lines(more)) : s \in SlotsOf(Lines(lines)) \/ s.whole
  <2>1. \A p \in r.parts : \A s \in p.slots : s.whole /\ s.id.n \in {next, next + 1}
    BY <1>1, WrittenTyped
  <2> HIDE DEF lines, more
  <2>2. /\ \A x : x \in WornIn(Append(lines, r)) <=>
                        \/ x \in WornIn(lines)
                        \/ \E p \in r.parts : \E s \in p.slots : Mark(p, s) /\ s.id = x
        /\ \A s : s \in SlotsOf(Lines(Append(lines, r))) <=>
                        s \in SlotsOf(Lines(lines)) \/ \E p \in r.parts : s \in p.slots
    BY <1>1, AppendedSlots
  <2>3. ASSUME NEW x \in WornIn(more) PROVE x \in WornIn(lines) \/ x.n \in {next, next + 1}
    BY <1>2, <2>1, <2>2
  <2>4. ASSUME NEW s \in SlotsOf(Lines(more)) PROVE s \in SlotsOf(Lines(lines)) \/ s.whole
    BY <1>2, <2>1, <2>2
  <2> QED  BY <2>3, <2>4
<1> QED  BY <1>2 DEF Grown

LEMMA ScrubbedKept ==
    ASSUME CopyTypeOK, NEW i \in DOMAIN rollouts, Grown(i), NEW R \in SUBSET IdsBelow(next),
           AllScrubbed(rollouts[i].lines, R)
    PROVE  AllScrubbed(rollouts'[i].lines, R)
<1>1. next \in Nat
  BY DEF CopyTypeOK
<1>2. ASSUME NEW x \in WornIn(rollouts'[i].lines), x \in R PROVE FALSE
  <2>1. x \notin WornIn(rollouts[i].lines)
    BY <1>2 DEF AllScrubbed
  <2>2. x.n \in {next, next + 1} /\ x.n \in 0..(next - 1)
    BY <1>2, <2>1, GrownWorn DEF IdsBelow
  <2> QED  BY <1>1, <2>2
<1>3. ASSUME NEW s \in SlotsOf(Lines(rollouts'[i].lines)), ~s.whole, s.id.kind = "uuid", s.id \in R PROVE FALSE
  <2>1. s \in SlotsOf(Lines(rollouts[i].lines))
    BY <1>3, GrownWorn
  <2> QED  BY <1>3, <2>1 DEF AllScrubbed
<1> QED  BY <1>2, <1>3 DEF AllScrubbed

-----------------------------------------------------------------------------
(* What a step may make of a thread: nothing, its launch, its removal, a   *)
(* line more; and a thread that is new is what a command has copied.       *)

LinesKept(i) == rollouts'[i].lines = rollouts[i].lines /\ rollouts'[i].owner = rollouts[i].owner
Launched(i) ==
    /\ rollouts[i].owner = NoAccount /\ rollouts'[i].lines = rollouts[i].lines
    /\ IsCopy(i) /\ AllScrubbed(rollouts[i].lines, Retired(i))
    /\ Says(rollouts[i].lines, Scanned(rollouts, rollouts[i].of), rollouts[i].of.policy)
Emptied(i) ==
    rollouts[i].owner = NoAccount /\ rollouts'[i].owner = NoAccount /\ rollouts'[i].lines = <<>>
GoesOn(i) == rollouts[i].owner # NoAccount /\ rollouts'[i].owner = rollouts[i].owner /\ Grown(i)

ThreadSteps ==
    /\ DOMAIN rollouts \subseteq DOMAIN rollouts'
    /\ \A i \in DOMAIN rollouts :
        /\ rollouts'[i].id = rollouts[i].id /\ rollouts'[i].of = rollouts[i].of
        /\ LinesKept(i) \/ Launched(i) \/ Emptied(i) \/ GoesOn(i)
    /\ \A i \in DOMAIN rollouts' \ DOMAIN rollouts :
          \E c \in Caller : Appears(c) /\ i = Len(rollouts) + 1

LEMMA StepsKeep ==
    ASSUME ThreadSteps PROVE ThreadsKept
<1>1. ASSUME NEW i \in DOMAIN rollouts, rollouts[i].owner # NoAccount
      PROVE  rollouts'[i].owner = rollouts[i].owner /\ Grown(i)
  BY <1>1 DEF ThreadSteps, LinesKept, Launched, Emptied, GoesOn, Grown
<1> QED  BY <1>1 DEF ThreadSteps, ThreadsKept

LEMMA ScannedTyped ==
    ASSUME CopyTypeOK, NEW of, NEW R, Descended(rollouts, of, R)
    PROVE  Scanned(rollouts, of) \in LinesBelow(next) /\ R \in SUBSET IdsBelow(next)
<1>1. /\ of.source \in DOMAIN rollouts /\ of.upto \in 0..Len(rollouts[of.source].lines)
      /\ R = Collected(Scanned(rollouts, of)) \cup {rollouts[of.source].id}
  BY DEF Descended
<1>2. rollouts[of.source].lines \in Seq(RecordsBelow(next)) /\ rollouts[of.source].id \in IdsBelow(next)
  BY <1>1, ThreadTyped DEF LinesBelow
<1>3. SubSeq(rollouts[of.source].lines, 1, of.upto) \in Seq(RecordsBelow(next))
  BY <1>1, <1>2
<1>4. Scanned(rollouts, of) \in LinesBelow(next) /\ next \in Nat
  BY <1>3 DEF Scanned, LinesBelow, CopyTypeOK
<1>5. Collected(Scanned(rollouts, of)) \subseteq IdsBelow(next)
  BY <1>4, TypedSlots
<1> QED  BY <1>1, <1>2, <1>4, <1>5

LEMMA ThreadsStayWell ==
    ASSUME CopyInv, ThreadSteps
    PROVE  \A i \in DOMAIN rollouts' : ThreadInv(i)'
<1>1. CopyTypeOK /\ ThreadsKept
  BY StepsKeep DEF CopyInv
<1>2. ASSUME NEW i \in DOMAIN rollouts PROVE ThreadInv(i)'
  <2>1. /\ rollouts'[i].id = rollouts[i].id /\ rollouts'[i].of = rollouts[i].of
        /\ LinesKept(i) \/ Launched(i) \/ Emptied(i) \/ GoesOn(i)
        /\ ThreadInv(i)
    BY DEF ThreadSteps, CopyInv
  <2>2. IsCopy(i)' = IsCopy(i) /\ Retired(i)' = Retired(i)
    BY <2>1 DEF IsCopy, Retired
  <2>3. ASSUME IsCopy(i)
        PROVE  /\ Descended(rollouts, rollouts[i].of, Retired(i))
               /\ Descended(rollouts', rollouts'[i].of, Retired(i)')
               /\ Scanned(rollouts', rollouts'[i].of) = Scanned(rollouts, rollouts[i].of)
               /\ Joins(rollouts'[i].of.map, rollouts'[i].id)
    <3>1. Descended(rollouts, rollouts[i].of, Retired(i)) /\ Joins(rollouts[i].of.map, rollouts[i].id)
      BY <2>1, <2>3 DEF ThreadInv
    <3>2. /\ Descended(rollouts', rollouts[i].of, Retired(i))
          /\ Scanned(rollouts', rollouts[i].of) = Scanned(rollouts, rollouts[i].of)
      BY <1>1, <3>1, DescendedKept
    <3> QED  BY <2>1, <2>2, <3>1, <3>2
  <2>4. ASSUME IsCopy(i), rollouts'[i].owner # NoAccount
        PROVE  /\ Says(rollouts'[i].lines, Scanned(rollouts', rollouts'[i].of), rollouts'[i].of.policy)
               /\ AllScrubbed(rollouts'[i].lines, Retired(i)')
    <3>1. /\ Says(rollouts[i].lines, Scanned(rollouts, rollouts[i].of), rollouts[i].of.policy)
          /\ AllScrubbed(rollouts[i].lines, Retired(i))
      BY <2>1, <2>4 DEF LinesKept, Launched, Emptied, GoesOn, ThreadInv, Running
    <3>2. /\ Says(rollouts'[i].lines, Scanned(rollouts, rollouts[i].of), rollouts[i].of.policy)
          /\ AllScrubbed(rollouts'[i].lines, Retired(i))
      <4>1. Scanned(rollouts, rollouts[i].of) \in LinesBelow(next) /\ Retired(i) \in SUBSET IdsBelow(next)
        BY <1>1, <2>3, <2>4, ScannedTyped
      <4>2. Grown(i)
        BY <2>1, <2>4 DEF LinesKept, Launched, Emptied, GoesOn, Grown
      <4> QED  BY <1>1, <3>1, <4>1, <4>2, SaysKept, ScrubbedKept
    <3> QED  BY <2>1, <2>2, <2>3, <2>4, <3>2
  <2> QED  BY <2>2, <2>3, <2>4 DEF ThreadInv, Running
<1>3. ASSUME NEW i \in DOMAIN rollouts', i \notin DOMAIN rollouts PROVE ThreadInv(i)'
  <2>1. PICK c \in Caller : Appears(c) /\ i = Len(rollouts) + 1
    BY <1>3 DEF ThreadSteps
  <2>2. /\ phase[c] = "copied" /\ rollouts'[i].id = job[c].newId /\ rollouts'[i].owner = NoAccount
        /\ rollouts'[i].of.source = job[c].source /\ rollouts'[i].of.upto = job[c].upto
        /\ rollouts'[i].of.map = job[c].map
    BY <2>1 DEF Appears
  <2>3. /\ Descended(rollouts, job[c], job[c].retired) /\ DOMAIN job[c].map = job[c].retired
        /\ Joins(job[c].map, job[c].newId)
    BY <2>2 DEF CopyInv, CallerInv, HasFile
  <2>4. Descended(rollouts', job[c], job[c].retired)
    BY <1>1, <2>3, DescendedKept
  <2>5. Descended(rollouts', rollouts'[i].of, job[c].retired)
    BY <2>2, <2>4 DEF Descended, Scanned
  <2>6. rollouts'[i].of.source # 0
    <3>1. job[c].source \in DOMAIN rollouts
      BY <2>3 DEF Descended
    <3> QED  BY <1>1, <2>2, <3>1, ThreadTyped
  <2> QED  BY <2>2, <2>3, <2>5, <2>6 DEF ThreadInv, IsCopy, Retired, Running
<1> QED  BY <1>2, <1>3

-----------------------------------------------------------------------------
(* A command that takes no step. *)

LeftAlone(d) ==
    /\ job'[d] = job[d] /\ phase'[d] = phase[d]
    /\ phase[d] \in HasFile => \A i \in DOMAIN rollouts : Pending(i, d) => LinesKept(i)
    /\ phase[d] = "copied" => \A i \in DOMAIN rollouts' \ DOMAIN rollouts : rollouts'[i].id # job[d].newId

LEMMA PendingKept ==
    ASSUME CopyInv, ThreadSteps, NEW d \in Caller, NEW i \in DOMAIN rollouts, Pending(i, d),
           phase[d] # "idle", LinesKept(i), job'[d] = job[d],
           phase'[d] = phase[d] \/ (phase[d] = "verified" /\ phase'[d] = "carried")
    PROVE  i \in DOMAIN rollouts' /\ Pending(i, d)'
<1>1. /\ i \in DOMAIN rollouts' /\ rollouts'[i].id = rollouts[i].id /\ rollouts'[i].of = rollouts[i].of
      /\ rollouts'[i].lines = rollouts[i].lines /\ rollouts'[i].owner = rollouts[i].owner
  BY DEF ThreadSteps, LinesKept
<1>2. Scanned(rollouts', job[d]) = Scanned(rollouts, job[d])
  <2>1. CopyTypeOK /\ ThreadsKept /\ Descended(rollouts, job[d], job[d].retired)
    BY StepsKeep DEF CopyInv, CallerInv
  <2> QED  BY <2>1, DescendedKept
<1>3. IsCopy(i)' = IsCopy(i) /\ Retired(i)' = Retired(i)
  BY <1>1 DEF IsCopy, Retired
<1> QED  BY <1>1, <1>2, <1>3 DEF Pending

LEMMA CallerKept ==
    ASSUME CopyInv, CopyTypeOK', next <= next', ThreadSteps, NEW d \in Caller, LeftAlone(d)
    PROVE  CallerInv(d)'
<1>1. CopyTypeOK /\ ThreadsKept /\ CallerInv(d) /\ job'[d] = job[d] /\ phase'[d] = phase[d]
  BY StepsKeep DEF CopyInv, LeftAlone
<1>2. ASSUME phase[d] # "idle"
      PROVE  /\ Descended(rollouts', job[d], job[d].retired)
             /\ Scanned(rollouts', job[d]) = Scanned(rollouts, job[d])
  <2>1. Descended(rollouts, job[d], job[d].retired)
    BY <1>1, <1>2 DEF CallerInv
  <2> QED  BY <1>1, <2>1, DescendedKept
<1>3. IdsBelow(next) \subseteq IdsBelow(next') /\ MapsBelow(next) \subseteq MapsBelow(next')
  <2>1. next \in Nat /\ next' \in Nat
    BY <1>1 DEF CopyTypeOK
  <2> QED  BY <2>1, TypesGrow
<1>4. phase[d] \in HasFile =>
          /\ job'[d].newId \in IdsBelow(next') /\ DOMAIN job'[d].map = job'[d].retired
          /\ job'[d].newId \notin job'[d].retired /\ Joins(job'[d].map, job'[d].newId)
          /\ job'[d].map \in MapsBelow(next')
  BY <1>1, <1>3 DEF CallerInv
<1>5. ASSUME phase[d] = "copied"
      PROVE  /\ \A i \in DOMAIN rollouts' : rollouts'[i].id # job'[d].newId
             /\ Says(job'[d].file, Scanned(rollouts', job'[d]), job'[d].policy)
             /\ ContentScrubbed(job'[d].file, job'[d].retired)
  <2>1. ASSUME NEW i \in DOMAIN rollouts' PROVE rollouts'[i].id # job'[d].newId
    <3>1. CASE i \in DOMAIN rollouts
      BY <1>1, <1>5, <3>1 DEF ThreadSteps, CallerInv
    <3>2. CASE i \notin DOMAIN rollouts
      BY <1>1, <1>5, <3>2 DEF LeftAlone
    <3> QED  BY <3>1, <3>2
  <2>2. Says(job[d].file, Scanned(rollouts, job[d]), job[d].policy) /\ ContentScrubbed(job[d].file, job[d].retired)
    BY <1>1, <1>5 DEF CallerInv
  <2> QED  BY <1>1, <1>2, <1>5, <2>1, <2>2
<1>6. ASSUME phase[d] \in HasFile \ {"copied"}
      PROVE  \E i \in DOMAIN rollouts' : Pending(i, d)'
  <2>1. PICK i \in DOMAIN rollouts : Pending(i, d)
    BY <1>1, <1>6 DEF CallerInv
  <2>2. LinesKept(i) /\ phase[d] # "idle"
    BY <1>6, <2>1 DEF LeftAlone, HasFile
  <2>3. i \in DOMAIN rollouts' /\ Pending(i, d)'
    BY <1>1, <2>1, <2>2, PendingKept
  <2> QED  BY <2>3
<1> QED  BY <1>1, <1>2, <1>4, <1>5, <1>6 DEF CallerInv

(* Names stay unique. *)

KeepsName(d) == phase'[d] \in HasFile => phase[d] \in HasFile /\ job'[d].newId = job[d].newId

LEMMA IdsStayUnique ==
    ASSUME CopyInv, ThreadSteps, NEW c,
           \A d \in Caller : KeepsName(d) \/ (d = c /\ job'[d].newId.n >= next)
    PROVE  IdsUnique'
<1>1. next \in Nat
  BY DEF CopyInv, CopyTypeOK
<1>2. ASSUME NEW i \in DOMAIN rollouts', NEW k \in DOMAIN rollouts', rollouts'[i].id = rollouts'[k].id
      PROVE  i = k
  <2>1. CASE i \in DOMAIN rollouts /\ k \in DOMAIN rollouts
    BY <1>2, <2>1 DEF ThreadSteps, CopyInv, IdsUnique
  <2>2. ASSUME NEW a \in DOMAIN rollouts, NEW b \in DOMAIN rollouts' \ DOMAIN rollouts
        PROVE  rollouts'[a].id # rollouts'[b].id
    <3>1. PICK d \in Caller : Appears(d) /\ b = Len(rollouts) + 1
      BY DEF ThreadSteps
    <3>2. rollouts'[b].id = job[d].newId /\ phase[d] = "copied"
      BY <3>1 DEF Appears
    <3>3. rollouts[a].id # job[d].newId
      BY <3>2 DEF CopyInv, CallerInv
    <3> QED  BY <3>2, <3>3 DEF ThreadSteps
  <2>3. CASE i \notin DOMAIN rollouts /\ k \notin DOMAIN rollouts
    <3>1. i = Len(rollouts) + 1 /\ k = Len(rollouts) + 1
      BY <2>3 DEF ThreadSteps
    <3> QED  BY <3>1
  <2> QED  BY <1>2, <2>1, <2>2, <2>3
<1>3. ASSUME NEW d \in Caller, NEW e \in Caller, phase'[d] \in HasFile, phase'[e] \in HasFile,
             job'[d].newId = job'[e].newId, d # e
      PROVE  FALSE
  <2>1. \A f \in Caller : phase[f] \in HasFile => job[f].newId.n < next
    <3>1. ASSUME NEW f \in Caller, phase[f] \in HasFile PROVE job[f].newId.n < next
      <4>1. job[f].newId \in IdsBelow(next)
        BY <3>1 DEF CopyInv, CallerInv
      <4> QED  BY <1>1, <4>1 DEF IdsBelow
    <3> QED  BY <3>1
  <2>2. CASE KeepsName(d) /\ KeepsName(e)
    BY <1>3, <2>2 DEF KeepsName, CopyInv, IdsUnique
  <2>3. ASSUME NEW f \in Caller, NEW g \in Caller, KeepsName(f), phase'[f] \in HasFile,
               job'[g].newId.n >= next, job'[f].newId = job'[g].newId
        PROVE  FALSE
    <3>1. job'[f].newId.n < next /\ job'[f].newId \in IdsBelow(next)
      BY <2>1, <2>3 DEF KeepsName, CopyInv, CallerInv
    <3>2. job'[f].newId.n \in Nat
      BY <1>1, <3>1 DEF IdsBelow
    <3> QED  BY <1>1, <2>3, <3>1, <3>2
  <2> QED  BY <1>3, <2>2, <2>3
<1> QED  BY <1>2, <1>3 DEF IdsUnique

-----------------------------------------------------------------------------
(* The ids that were minted for a thread are those of no other.            *)

LEMMA MarkIs ==
    ASSUME NEW i, NEW x
    PROVE  x \in Marks(i) <=> /\ x \in WornIn(rollouts[i].lines) \/ (goals[i] # 0 /\ x = Id("goal", goals[i]))
                              /\ x \notin Retired(i)
BY WornSum DEF Marks

LEMMA MarkIsThen ==
    ASSUME NEW i, NEW x
    PROVE  x \in Marks(i)' <=> /\ x \in WornIn(rollouts'[i].lines) \/ (goals'[i] # 0 /\ x = Id("goal", goals'[i]))
                               /\ x \notin Retired(i)'
BY DEF Marks, Worn, WornIn

LEMMA MarksTyped ==
    ASSUME CopyTypeOK
    PROVE  /\ \A i \in DOMAIN rollouts : \A x \in Marks(i) : x.n \in 0..(next - 1)
           /\ \A c \in Caller : phase[c] # "idle" => \A x \in FileMarks(c) : x.n \in 0..(next - 1)
<1>1. next \in Nat
  BY DEF CopyTypeOK
<1>2. ASSUME NEW i \in DOMAIN rollouts, NEW x \in Marks(i) PROVE x.n \in 0..(next - 1)
  <2>1. rollouts[i].lines \in LinesBelow(next) /\ goals[i] \in 0..(next - 1)
    BY ThreadTyped
  <2>2. x \in WornIn(rollouts[i].lines) => x \in IdsBelow(next)
    BY <1>1, <2>1, TypedSlots
  <2>3. x \in WornIn(rollouts[i].lines) \/ x = Id("goal", goals[i])
    BY <1>2, MarkIs
  <2> QED  BY <2>1, <2>2, <2>3 DEF IdsBelow, Id
<1>3. ASSUME NEW c \in Caller, phase[c] # "idle", NEW x \in FileMarks(c) PROVE x.n \in 0..(next - 1)
  <2>1. job[c].file \in LinesBelow(next)
    BY <1>3 DEF CopyTypeOK, JobsBelow
  <2>2. WornIn(job[c].file) \subseteq IdsBelow(next)
    BY <1>1, <2>1, TypedSlots
  <2> QED  BY <1>3, <2>2 DEF FileMarks, IdsBelow
<1> QED  BY <1>2, <1>3

NoNewMarks(i) == \A x : x \in Marks(i)' => x \in Marks(i)
NewMarks(i) == \A x : x \in Marks(i)' => x \in Marks(i) \/ x.n >= next
FileKept(d) ==
    phase'[d] = "copied" => phase[d] = "copied" /\ \A x : x \in FileMarks(d)' => x \in FileMarks(d)
FileNew(d) == phase'[d] = "copied" => \A x : x \in FileMarks(d)' => x.n >= next

LEMMA MarksStayApart ==
    ASSUME CopyInv, DOMAIN rollouts' = DOMAIN rollouts, NEW k, NEW c,
           \A i \in DOMAIN rollouts : NoNewMarks(i) \/ (i = k /\ NewMarks(i)),
           \A d \in Caller : FileKept(d) \/ (d = c /\ FileNew(d)),
           (\A i \in DOMAIN rollouts : NoNewMarks(i)) \/ (\A d \in Caller : FileKept(d))
    PROVE  MarksApart'
<1>1. next \in Nat /\ CopyTypeOK /\ MarksApart
  BY DEF CopyInv, CopyTypeOK
<1>2. /\ \A i \in DOMAIN rollouts : \A x : ~(x \in Marks(i) /\ x.n >= next)
      /\ \A d \in Caller : phase[d] = "copied" => \A x : ~(x \in FileMarks(d) /\ x.n >= next)
  <2>1. /\ \A i \in DOMAIN rollouts : \A x \in Marks(i) : x.n \in 0..(next - 1)
        /\ \A d \in Caller : phase[d] # "idle" => \A x \in FileMarks(d) : x.n \in 0..(next - 1)
    BY <1>1, MarksTyped
  <2> QED  BY <1>1, <2>1
<1>3. ASSUME NEW i \in DOMAIN rollouts', NEW j \in DOMAIN rollouts', i # j, NEW x, x \in Marks(i)', x \in Marks(j)'
      PROVE  FALSE
  <2>1. /\ x \in Marks(i) \/ (x.n >= next /\ i = k)
        /\ x \in Marks(j) \/ (x.n >= next /\ j = k)
    BY <1>3 DEF NoNewMarks, NewMarks
  <2> QED  BY <1>1, <1>2, <1>3, <2>1 DEF MarksApart
<1>4. ASSUME NEW d \in Caller, NEW i \in DOMAIN rollouts', phase'[d] = "copied", NEW x, x \in FileMarks(d)', x \in Marks(i)'
      PROVE  FALSE
  <2>1. /\ (phase[d] = "copied" /\ x \in FileMarks(d)) \/ x.n >= next
        /\ x \in Marks(i) \/ x.n >= next
        /\ x \in Marks(i) \/ (phase[d] = "copied" /\ x \in FileMarks(d))
    BY <1>4 DEF NoNewMarks, NewMarks, FileKept, FileNew
  <2> QED  BY <1>1, <1>2, <1>4, <2>1 DEF MarksApart
<1>5. ASSUME NEW d \in Caller, NEW e \in Caller, phase'[d] = "copied", phase'[e] = "copied", d # e,
             NEW x, x \in FileMarks(d)', x \in FileMarks(e)'
      PROVE  FALSE
  <2>1. /\ (phase[d] = "copied" /\ x \in FileMarks(d)) \/ (x.n >= next /\ d = c)
        /\ (phase[e] = "copied" /\ x \in FileMarks(e)) \/ (x.n >= next /\ e = c)
    BY <1>5 DEF FileKept, FileNew
  <2> QED  BY <1>1, <1>2, <1>5, <2>1 DEF MarksApart
<1>6. /\ \A i, j \in DOMAIN rollouts' : i # j => Marks(i)' \cap Marks(j)' = {}
      /\ \A d \in Caller, i \in DOMAIN rollouts' : phase'[d] = "copied" => FileMarks(d)' \cap Marks(i)' = {}
      /\ \A d, e \in Caller : phase'[d] = "copied" /\ phase'[e] = "copied" /\ d # e =>
                                 FileMarks(d)' \cap FileMarks(e)' = {}
  BY <1>3, <1>4, <1>5
<1> QED  BY <1>6 DEF MarksApart

\* The file becomes the thread.
LEMMA MarksMove ==
    ASSUME CopyInv, NEW c \in Caller, Appears(c), \A d \in Caller : d # c => job'[d] = job[d] /\ phase'[d] = phase[d]
    PROVE  MarksApart'
<1>0. PICK n : n = Len(rollouts) + 1
  OBVIOUS
<1>1. /\ phase[c] = "copied" /\ phase'[c] = "renamed"
      /\ DOMAIN rollouts' = DOMAIN rollouts \cup {n} /\ n \notin DOMAIN rollouts
      /\ \A i \in DOMAIN rollouts : rollouts'[i] = rollouts[i] /\ goals'[i] = goals[i]
      /\ rollouts'[n].lines = job[c].file /\ goals'[n] = 0
      /\ rollouts'[n].of.source = job[c].source /\ rollouts'[n].of.map = job[c].map
  BY <1>0 DEF Appears
<1>2. job[c].source # 0 /\ DOMAIN job[c].map = job[c].retired
  <2>1. CopyTypeOK /\ Descended(rollouts, job[c], job[c].retired) /\ DOMAIN job[c].map = job[c].retired
    BY <1>1 DEF CopyInv, CallerInv, HasFile
  <2>2. job[c].source \in DOMAIN rollouts
    BY <2>1 DEF Descended
  <2> QED  BY <2>1, <2>2, ThreadTyped
<1>3. Retired(n)' = job[c].retired /\ \A i \in DOMAIN rollouts : Retired(i)' = Retired(i)
  BY <1>1, <1>2 DEF Retired, IsCopy
<1>4. \A x : x \in Marks(n)' => x \in FileMarks(c)
  BY <1>1, <1>3, MarkIsThen DEF FileMarks
<1>5. \A i \in DOMAIN rollouts : \A x : x \in Marks(i)' => x \in Marks(i)
  BY <1>1, <1>3, MarkIsThen, MarkIs
<1>6. \A d \in Caller : phase'[d] = "copied" => d # c /\ phase[d] = "copied" /\ FileMarks(d)' = FileMarks(d)
  BY <1>1 DEF FileMarks
<1>7. MarksApart
  BY DEF CopyInv
<1>8. ASSUME NEW i \in DOMAIN rollouts', NEW j \in DOMAIN rollouts', i # j, NEW x, x \in Marks(i)', x \in Marks(j)'
      PROVE  FALSE
  <2>1. i = n => x \in FileMarks(c) /\ j \in DOMAIN rollouts /\ x \in Marks(j)
    BY <1>1, <1>4, <1>5, <1>8
  <2>2. j = n => x \in FileMarks(c) /\ i \in DOMAIN rollouts /\ x \in Marks(i)
    BY <1>1, <1>4, <1>5, <1>8
  <2>3. i # n /\ j # n => i \in DOMAIN rollouts /\ j \in DOMAIN rollouts /\ x \in Marks(i) /\ x \in Marks(j)
    BY <1>1, <1>5, <1>8
  <2> QED  BY <1>1, <1>7, <1>8, <2>1, <2>2, <2>3 DEF MarksApart
<1>9. ASSUME NEW d \in Caller, NEW i \in DOMAIN rollouts', phase'[d] = "copied", NEW x, x \in FileMarks(d)', x \in Marks(i)'
      PROVE  FALSE
  <2>1. d # c /\ phase[d] = "copied" /\ x \in FileMarks(d)
    BY <1>6, <1>9
  <2>2. CASE i = n
    BY <1>1, <1>4, <1>7, <1>9, <2>1, <2>2 DEF MarksApart
  <2>3. CASE i \in DOMAIN rollouts
    BY <1>5, <1>7, <1>9, <2>1, <2>3 DEF MarksApart
  <2> QED  BY <1>1, <2>2, <2>3
<1>10. \A d, e \in Caller : phase'[d] = "copied" /\ phase'[e] = "copied" /\ d # e =>
                                 FileMarks(d)' \cap FileMarks(e)' = {}
  BY <1>6, <1>7 DEF MarksApart
<1>11. /\ \A i, j \in DOMAIN rollouts' : i # j => Marks(i)' \cap Marks(j)' = {}
       /\ \A d \in Caller, i \in DOMAIN rollouts' : phase'[d] = "copied" => FileMarks(d)' \cap Marks(i)' = {}
  BY <1>8, <1>9
<1> QED  BY <1>10, <1>11 DEF MarksApart

-----------------------------------------------------------------------------
(* The steps. *)

\* A command's own step that leaves the threads as they are.
LEMMA QuietStep ==
    ASSUME CopyInv, CopyTypeOK', next <= next', rollouts' = rollouts, goals' = goals, NEW c \in Caller,
           \A d \in Caller : d # c => job'[d] = job[d] /\ phase'[d] = phase[d],
           CallerInv(c)', KeepsName(c) \/ job'[c].newId.n >= next, FileKept(c) \/ FileNew(c)
    PROVE  CopyInv'
<1>1. ThreadSteps
  BY DEF ThreadSteps, LinesKept
<1>2. \A d \in Caller : d # c => LeftAlone(d) /\ KeepsName(d) /\ FileKept(d)
  BY DEF LeftAlone, LinesKept, KeepsName, FileKept, FileMarks
<1>3. \A d \in Caller : CallerInv(d)'
  BY <1>1, <1>2, CallerKept
<1>4. IdsUnique'
  BY <1>1, <1>2, IdsStayUnique
<1>5. MarksApart'
  <2>1. \A i \in DOMAIN rollouts : NoNewMarks(i)
    BY MarkIs, MarkIsThen DEF NoNewMarks, Retired, IsCopy
  <2>2. \A d \in Caller : FileKept(d) \/ (d = c /\ FileNew(d))
    BY <1>2
  <2>3. DOMAIN rollouts' = DOMAIN rollouts /\ \A i \in DOMAIN rollouts : NoNewMarks(i) \/ (i = 0 /\ NewMarks(i))
    BY <2>1
  <2> QED  BY <2>1, <2>2, <2>3, MarksStayApart
<1> QED  BY <1>1, <1>3, <1>4, <1>5, ThreadsStayWell DEF CopyInv

\* A command that has ended has nothing left to be right about.
LEMMA IdleIsWell ==
    ASSUME NEW c \in Caller, phase'[c] = "idle"
    PROVE  CallerInv(c)' /\ KeepsName(c) /\ FileKept(c)
BY DEF CallerInv, KeepsName, FileKept, HasFile

LEMMA ScanStep == ASSUME CopyInv, NEW c \in Caller, Scan(c) PROVE CopyInv'
<1>1. /\ CopyTypeOK' /\ rollouts' = rollouts /\ goals' = goals /\ next' = next
      /\ phase'[c] = "scanned" /\ Descended(rollouts, job'[c], job'[c].retired)
      /\ \A d \in Caller : d # c => job'[d] = job[d] /\ phase'[d] = phase[d]
  BY ScanDoes
<1>2. CallerInv(c)' /\ KeepsName(c) /\ FileKept(c)
  BY <1>1 DEF CallerInv, KeepsName, FileKept, HasFile
<1>3. next <= next'
  BY <1>1 DEF CopyTypeOK
<1> QED  BY <1>1, <1>2, <1>3, QuietStep

LEMMA TakeAccountStep == ASSUME CopyInv, NEW c \in Caller, TakeAccount(c) PROVE CopyInv'
<1>1. /\ CopyTypeOK' /\ rollouts' = rollouts /\ goals' = goals /\ next' = next
      /\ \/ /\ phase'[c] = "rotated" /\ phase[c] = "scanned"
            /\ job'[c].source = job[c].source /\ job'[c].upto = job[c].upto
            /\ job'[c].retired = job[c].retired
         \/ phase'[c] = "idle"
      /\ \A d \in Caller : d # c => job'[d] = job[d] /\ phase'[d] = phase[d]
  BY TakeAccountDoes
<1>2. ASSUME /\ phase'[c] = "rotated" /\ phase[c] = "scanned"
             /\ job'[c].source = job[c].source /\ job'[c].upto = job[c].upto
             /\ job'[c].retired = job[c].retired
      PROVE  CallerInv(c)' /\ KeepsName(c) /\ FileKept(c)
  <2>1. Descended(rollouts, job[c], job[c].retired)
    BY <1>2 DEF CopyInv, CallerInv
  <2>2. Descended(rollouts', job'[c], job'[c].retired)
    BY <1>1, <1>2, <2>1 DEF Descended, Scanned
  <2> QED  BY <1>2, <2>2 DEF CallerInv, KeepsName, FileKept, HasFile
<1>3. CallerInv(c)' /\ KeepsName(c) /\ FileKept(c)
  BY <1>1, <1>2, IdleIsWell
<1>4. next <= next'
  BY <1>1 DEF CopyTypeOK
<1> QED  BY <1>1, <1>3, <1>4, QuietStep

LEMMA CopyStep == ASSUME CopyInv, NEW c \in Caller, Copy(c) PROVE CopyInv'
<1>1. /\ CopyTypeOK' /\ rollouts' = rollouts /\ goals' = goals /\ next <= next'
      /\ MintedFile(c) \/ phase'[c] = "idle"
      /\ \A d \in Caller : d # c => job'[d] = job[d] /\ phase'[d] = phase[d]
  BY CopyDoes
<1>2. ASSUME MintedFile(c)
      PROVE  CallerInv(c)' /\ job'[c].newId.n >= next /\ FileNew(c)
  <2>1. /\ phase'[c] = "copied" /\ phase[c] = "rotated"
        /\ job'[c].source = job[c].source /\ job'[c].upto = job[c].upto
        /\ job'[c].policy = job[c].policy /\ job'[c].retired = job[c].retired
        /\ job'[c].newId \in IdsBelow(next') /\ job'[c].newId.n >= next
        /\ job'[c].newId \notin job[c].retired
        /\ DOMAIN job'[c].map = job[c].retired /\ Joins(job'[c].map, job'[c].newId)
        /\ job'[c].map \in MapsBelow(next')
        /\ Says(job'[c].file, Scanned(rollouts, job[c]), job[c].policy)
        /\ ContentScrubbed(job'[c].file, job[c].retired)
        /\ \A x \in WornIn(job'[c].file) : x \in job[c].retired \/ x.n >= next
    BY <1>2 DEF MintedFile
  <2>2. Descended(rollouts, job[c], job[c].retired)
    BY <2>1 DEF CopyInv, CallerInv
  <2>3. /\ Descended(rollouts', job'[c], job'[c].retired)
        /\ Scanned(rollouts', job'[c]) = Scanned(rollouts, job[c])
    BY <1>1, <2>1, <2>2 DEF Descended, Scanned
  <2>4. \A i \in DOMAIN rollouts' : rollouts'[i].id # job'[c].newId
    <3>1. ASSUME NEW i \in DOMAIN rollouts PROVE rollouts[i].id # job'[c].newId
      <4>1. next \in Nat /\ rollouts[i].id \in IdsBelow(next)
        BY ThreadTyped DEF CopyInv, CopyTypeOK
      <4>2. rollouts[i].id.n \in 0..(next - 1)
        BY <4>1 DEF IdsBelow
      <4> QED  BY <2>1, <4>1, <4>2
    <3> QED  BY <1>1, <3>1
  <2>5. CallerInv(c)'
    BY <2>1, <2>3, <2>4 DEF CallerInv, HasFile
  <2>6. FileNew(c)
    BY <2>1 DEF FileNew, FileMarks
  <2> QED  BY <2>1, <2>5, <2>6
<1>3. CallerInv(c)' /\ (KeepsName(c) \/ job'[c].newId.n >= next) /\ (FileKept(c) \/ FileNew(c))
  BY <1>1, <1>2, IdleIsWell
<1> QED  BY <1>1, <1>3, QuietStep

LEMMA KilledStep == ASSUME CopyInv, NEW c \in Caller, Killed(c) PROVE CopyInv'
<1>1. /\ CopyTypeOK' /\ next' = next /\ goals' = goals /\ rollouts' = rollouts
      /\ phase'[c] = "idle"
      /\ \A d \in Caller : d # c => job'[d] = job[d] /\ phase'[d] = phase[d]
  BY KilledDoes
<1>2. next <= next'
  BY <1>1 DEF CopyTypeOK
<1> QED  BY <1>1, <1>2, IdleIsWell, QuietStep

LEMMA RenameStep == ASSUME CopyInv, NEW c \in Caller, Rename(c) PROVE CopyInv'
<1>1. /\ CopyTypeOK' /\ next' = next
      /\ \/ Appears(c)
         \/ phase'[c] = "idle" /\ rollouts' = rollouts /\ goals' = goals
      /\ \A d \in Caller : d # c => job'[d] = job[d] /\ phase'[d] = phase[d]
  BY RenameDoes
<1>2. next <= next'
  BY <1>1 DEF CopyTypeOK
<1>3. CASE phase'[c] = "idle" /\ rollouts' = rollouts /\ goals' = goals
  BY <1>1, <1>2, <1>3, IdleIsWell, QuietStep
<1>4. CASE Appears(c)
  <2>0. PICK n : n = Len(rollouts) + 1
    OBVIOUS
  <2>1. /\ phase[c] = "copied" /\ phase'[c] = "renamed" /\ job'[c] = job[c]
        /\ DOMAIN rollouts' = DOMAIN rollouts \cup {n} /\ n \notin DOMAIN rollouts
        /\ \A k \in DOMAIN rollouts : rollouts'[k] = rollouts[k] /\ goals'[k] = goals[k]
        /\ rollouts'[n].id = job[c].newId /\ rollouts'[n].lines = job[c].file
        /\ rollouts'[n].owner = NoAccount /\ goals'[n] = 0
        /\ rollouts'[n].of.source = job[c].source /\ rollouts'[n].of.upto = job[c].upto
        /\ rollouts'[n].of.policy = job[c].policy /\ rollouts'[n].of.map = job[c].map
    BY <1>4, <2>0 DEF Appears
  <2>2. ThreadSteps
    BY <1>4, <2>0, <2>1 DEF ThreadSteps, LinesKept
  <2>3. \A i \in DOMAIN rollouts' : ThreadInv(i)'
    BY <2>2, ThreadsStayWell
  <2>4. ASSUME NEW d \in Caller, d # c PROVE LeftAlone(d)
    <3>1. job'[d] = job[d] /\ phase'[d] = phase[d]
      BY <1>1, <2>4
    <3>2. phase[d] = "copied" => job[c].newId # job[d].newId
      BY <2>1, <2>4 DEF CopyInv, IdsUnique, HasFile
    <3> QED  BY <2>1, <3>1, <3>2 DEF LeftAlone, LinesKept
  <2>5. CallerInv(c)'
    <3>1. /\ CallerInv(c) /\ CopyTypeOK /\ ThreadsKept
      BY <2>2, StepsKeep DEF CopyInv
    <3>2. /\ Descended(rollouts, job[c], job[c].retired) /\ DOMAIN job[c].map = job[c].retired
          /\ job[c].newId \in IdsBelow(next)
          /\ job[c].newId \notin job[c].retired /\ Joins(job[c].map, job[c].newId)
          /\ job[c].map \in MapsBelow(next)
          /\ Says(job[c].file, Scanned(rollouts, job[c]), job[c].policy)
          /\ ContentScrubbed(job[c].file, job[c].retired)
      BY <2>1, <3>1 DEF CallerInv, HasFile
    <3>3. /\ Descended(rollouts', job[c], job[c].retired)
          /\ Scanned(rollouts', job[c]) = Scanned(rollouts, job[c])
      BY <3>1, <3>2, DescendedKept
    <3>4. job[c].source # 0
      <4>1. job[c].source \in DOMAIN rollouts
        BY <3>2 DEF Descended
      <4> QED  BY <3>1, <4>1, ThreadTyped
    <3>5. IsCopy(n)' /\ Retired(n)' = job[c].retired
      BY <2>1, <3>2, <3>4 DEF IsCopy, Retired
    <3>6. Pending(n, c)'
      BY <2>1, <3>2, <3>3, <3>5 DEF Pending
    <3>7. n \in DOMAIN rollouts'
      BY <2>1
    <3> QED  BY <1>1, <2>1, <3>2, <3>3, <3>6, <3>7 DEF CallerInv
  <2>6. \A d \in Caller : CallerInv(d)'
    BY <1>1, <1>2, <2>2, <2>4, <2>5, CallerKept
  <2>7. \A d \in Caller : KeepsName(d)
    BY <1>1, <2>1 DEF KeepsName, HasFile
  <2>8. IdsUnique'
    BY <2>2, <2>7, IdsStayUnique
  <2>9. MarksApart'
    BY <1>1, <1>4, MarksMove
  <2> QED  BY <1>1, <2>3, <2>6, <2>8, <2>9 DEF CopyInv
<1> QED  BY <1>1, <1>3, <1>4

LEMMA VerifyStep == ASSUME CopyInv, NEW c \in Caller, Verify(c) PROVE CopyInv'
<1>1. /\ CopyTypeOK' /\ next' = next /\ goals' = goals
      /\ \/ /\ phase[c] = "renamed" /\ phase'[c] = "verified"
            /\ job'[c] = job[c] /\ rollouts' = rollouts
            /\ Clean(rollouts[Copied(c)].lines, job[c].retired, job[c].newId, job[c].policy)
         \/ /\ phase'[c] = "idle" /\ DOMAIN rollouts' = DOMAIN rollouts
            /\ \A i \in DOMAIN rollouts :
                  /\ rollouts'[i].id = rollouts[i].id /\ rollouts'[i].of = rollouts[i].of
                  /\ rollouts'[i].owner = rollouts[i].owner
                  /\ \/ rollouts'[i].lines = rollouts[i].lines
                     \/ rollouts[i].owner = NoAccount /\ rollouts'[i].lines = <<>>
      /\ \A d \in Caller : d # c => job'[d] = job[d] /\ phase'[d] = phase[d]
      /\ \A i \in DOMAIN rollouts : i # Copied(c) => rollouts'[i] = rollouts[i]
  BY VerifyDoes
<1>2. next <= next' /\ phase[c] = "renamed"
  BY <1>1 DEF CopyTypeOK, Verify
<1>3. PICK k : k = Copied(c)
  OBVIOUS
<1>4. k \in DOMAIN rollouts /\ Pending(k, c)
  BY <1>2, <1>3, CopiedIs
<1>5. CASE /\ phase'[c] = "verified" /\ job'[c] = job[c] /\ rollouts' = rollouts
           /\ Clean(rollouts[k].lines, job[c].retired, job[c].newId, job[c].policy)
  <2>1. /\ CopyTypeOK /\ next \in Nat /\ rollouts[k].lines \in LinesBelow(next)
        /\ job[c].newId \notin job[c].retired /\ DOMAIN job[c].map = job[c].retired
    BY <1>2, <1>4, ThreadTyped DEF CopyInv, CopyTypeOK, CallerInv, HasFile
  <2>2. Retired(k) = job[c].retired
    BY <1>4, <2>1 DEF Pending, Retired
  <2>3. AllScrubbed(rollouts[k].lines, Retired(k))
    <3>1. ContentScrubbed(rollouts[k].lines, job[c].retired)
      BY <1>2, <1>4, <2>2 DEF Pending
    <3> QED  BY <1>5, <2>1, <2>2, <3>1, CleanIsScrubbed
  <2>4. IsCopy(k)' = IsCopy(k) /\ Retired(k)' = Retired(k)
    BY <1>5 DEF IsCopy, Retired
  <2>5. Pending(k, c)'
    BY <1>4, <1>5, <2>3, <2>4 DEF Pending
  <2>6. CallerInv(c)'
    <3>1. CallerInv(c)
      BY DEF CopyInv
    <3> QED  BY <1>1, <1>2, <1>4, <1>5, <2>5, <3>1 DEF CallerInv, HasFile
  <2>7. KeepsName(c) /\ FileKept(c)
    BY <1>2, <1>5 DEF KeepsName, FileKept, HasFile
  <2> QED  BY <1>1, <1>2, <1>5, <2>6, <2>7, QuietStep
<1>6. CASE /\ phase'[c] = "idle" /\ DOMAIN rollouts' = DOMAIN rollouts
           /\ \A i \in DOMAIN rollouts :
                 /\ rollouts'[i].id = rollouts[i].id /\ rollouts'[i].of = rollouts[i].of
                 /\ rollouts'[i].owner = rollouts[i].owner
                 /\ \/ rollouts'[i].lines = rollouts[i].lines
                    \/ rollouts[i].owner = NoAccount /\ rollouts'[i].lines = <<>>
  <2>1. ThreadSteps
    BY <1>6 DEF ThreadSteps, LinesKept, Emptied
  <2>2. ASSUME NEW d \in Caller, d # c PROVE LeftAlone(d) /\ KeepsName(d) /\ FileKept(d)
    <3>1. job'[d] = job[d] /\ phase'[d] = phase[d]
      BY <1>1, <2>2
    <3>2. ASSUME NEW i \in DOMAIN rollouts, phase[d] \in HasFile, Pending(i, d) PROVE LinesKept(i)
      <4>1. i # k
        BY <1>2, <1>4, <2>2, <3>2 DEF Pending, CopyInv, IdsUnique, HasFile
      <4> QED  BY <1>1, <1>3, <4>1 DEF LinesKept
    <3> QED  BY <1>6, <3>1, <3>2 DEF LeftAlone, KeepsName, FileKept, FileMarks
  <2>3. CallerInv(c)' /\ KeepsName(c) /\ FileKept(c)
    BY <1>6, IdleIsWell
  <2>4. \A d \in Caller : CallerInv(d)'
    BY <1>1, <1>2, <2>1, <2>2, <2>3, CallerKept
  <2>5. IdsUnique'
    BY <2>1, <2>2, <2>3, IdsStayUnique
  <2>6. MarksApart'
    <3>1. ASSUME NEW i \in DOMAIN rollouts PROVE NoNewMarks(i)
      <4>1. Retired(i)' = Retired(i) /\ goals'[i] = goals[i]
        BY <1>1, <1>6 DEF Retired, IsCopy
      <4>2. \A x : x \notin WornIn(<<>>)
        BY WornMember
      <4>3. \A x : x \in WornIn(rollouts'[i].lines) => x \in WornIn(rollouts[i].lines)
        BY <1>6, <4>2
      <4> QED  BY <4>1, <4>3, MarkIs, MarkIsThen DEF NoNewMarks
    <3>2. \A d \in Caller : FileKept(d)
      BY <2>2, <2>3
    <3> QED  BY <1>6, <3>1, <3>2, MarksStayApart
  <2> QED  BY <1>1, <2>1, <2>4, <2>5, <2>6, ThreadsStayWell DEF CopyInv
<1> QED  BY <1>1, <1>3, <1>5, <1>6

LEMMA CarryGoalStep == ASSUME CopyInv, NEW c \in Caller, CarryGoal(c) PROVE CopyInv'
<1>1. /\ CopyTypeOK' /\ rollouts' = rollouts /\ job' = job
      /\ next' \in {next, next + 1} /\ phase[c] = "verified" /\ phase'[c] = "carried"
      /\ \A d \in Caller : d # c => phase'[d] = phase[d]
      /\ \A i \in DOMAIN rollouts : goals'[i] = goals[i] \/ (goals'[i] = next /\ i = Copied(c))
  BY CarryGoalDoes
<1>2. next \in Nat /\ next <= next' /\ CallerInv(c)
  BY <1>1 DEF CopyInv, CopyTypeOK
<1>3. ThreadSteps
  BY <1>1 DEF ThreadSteps, LinesKept
<1>4. CallerInv(c)'
  <2>1. PICK k \in DOMAIN rollouts : Pending(k, c)
    BY <1>1, <1>2 DEF CallerInv, HasFile
  <2>2. k \in DOMAIN rollouts' /\ Pending(k, c)'
    BY <1>1, <1>3, <2>1, PendingKept DEF LinesKept
  <2>3. IdsBelow(next) \subseteq IdsBelow(next') /\ MapsBelow(next) \subseteq MapsBelow(next')
    BY <1>1, <1>2, TypesGrow DEF CopyTypeOK
  <2> QED  BY <1>1, <1>2, <2>2, <2>3 DEF CallerInv, HasFile
<1>5. \A d \in Caller : d # c => LeftAlone(d)
  BY <1>1 DEF LeftAlone, LinesKept
<1>6. \A d \in Caller : KeepsName(d) /\ FileKept(d)
  BY <1>1 DEF KeepsName, FileKept, FileMarks, HasFile
<1>7. \A d \in Caller : CallerInv(d)'
  BY <1>1, <1>2, <1>3, <1>4, <1>5, CallerKept
<1>8. IdsUnique'
  BY <1>3, <1>6, IdsStayUnique
<1>9. MarksApart'
  <2>0. PICK k : k = Copied(c)
    OBVIOUS
  <2>1. ASSUME NEW i \in DOMAIN rollouts PROVE NoNewMarks(i) \/ (i = k /\ NewMarks(i))
    <3>1. Retired(i)' = Retired(i) /\ rollouts'[i].lines = rollouts[i].lines
      BY <1>1 DEF Retired, IsCopy
    <3>2. CASE goals'[i] = goals[i]
      BY <3>1, <3>2, MarkIs, MarkIsThen DEF NoNewMarks
    <3>3. CASE goals'[i] = next /\ i = k
      <4>1. Id("goal", next).n >= next
        BY <1>2 DEF Id
      <4> QED  BY <3>1, <3>3, <4>1, MarkIs, MarkIsThen DEF NewMarks
    <3> QED  BY <1>1, <2>0, <3>2, <3>3
  <2>2. DOMAIN rollouts' = DOMAIN rollouts
    BY <1>1
  <2> QED  BY <1>6, <2>1, <2>2, MarksStayApart
<1> QED  BY <1>1, <1>3, <1>7, <1>8, <1>9, ThreadsStayWell DEF CopyInv

LEMMA LaunchStep == ASSUME CopyInv, NEW c \in Caller, Launch(c) PROVE CopyInv'
<1>1. /\ CopyTypeOK' /\ next' = next /\ goals' = goals
      /\ phase[c] = "carried" /\ phase'[c] = "idle" /\ DOMAIN rollouts' = DOMAIN rollouts
      /\ \A i \in DOMAIN rollouts :
            /\ rollouts'[i].id = rollouts[i].id /\ rollouts'[i].of = rollouts[i].of
            /\ rollouts'[i].lines = rollouts[i].lines
            /\ i # Copied(c) => rollouts'[i].owner = rollouts[i].owner
      /\ \A d \in Caller : d # c => job'[d] = job[d] /\ phase'[d] = phase[d]
  BY LaunchDoes
<1>2. next <= next'
  BY <1>1 DEF CopyTypeOK
<1>3. PICK k : k = Copied(c)
  OBVIOUS
<1>4. k \in DOMAIN rollouts /\ Pending(k, c)
  BY <1>1, <1>3, CopiedIs
<1>5. Launched(k)
  <2>1. Scanned(rollouts, rollouts[k].of) = Scanned(rollouts, job[c])
    BY <1>4 DEF Pending, Scanned
  <2> QED  BY <1>1, <1>4, <2>1 DEF Pending, Launched
<1>6. ThreadSteps
  BY <1>1, <1>3, <1>5 DEF ThreadSteps, LinesKept
<1>7. ASSUME NEW d \in Caller, d # c PROVE LeftAlone(d) /\ KeepsName(d) /\ FileKept(d)
  <2>1. job'[d] = job[d] /\ phase'[d] = phase[d]
    BY <1>1, <1>7
  <2>2. ASSUME NEW i \in DOMAIN rollouts, phase[d] \in HasFile, Pending(i, d) PROVE LinesKept(i)
    <3>1. i # k
      BY <1>1, <1>4, <1>7, <2>2 DEF Pending, CopyInv, IdsUnique, HasFile
    <3> QED  BY <1>1, <1>3, <3>1 DEF LinesKept
  <2> QED  BY <1>1, <2>1, <2>2 DEF LeftAlone, KeepsName, FileKept, FileMarks
<1>8. CallerInv(c)' /\ KeepsName(c) /\ FileKept(c)
  BY <1>1, IdleIsWell
<1>9. \A d \in Caller : CallerInv(d)'
  BY <1>1, <1>2, <1>6, <1>7, <1>8, CallerKept
<1>10. IdsUnique'
  BY <1>6, <1>7, <1>8, IdsStayUnique
<1>11. MarksApart'
  <2>1. \A i \in DOMAIN rollouts : Retired(i)' = Retired(i)
    BY <1>1 DEF Retired, IsCopy
  <2>2. \A i \in DOMAIN rollouts : NoNewMarks(i)
    BY <1>1, <2>1, MarkIs, MarkIsThen DEF NoNewMarks
  <2>3. \A d \in Caller : FileKept(d)
    BY <1>7, <1>8
  <2> QED  BY <1>1, <2>2, <2>3, MarksStayApart
<1> QED  BY <1>1, <1>6, <1>9, <1>10, <1>11, ThreadsStayWell DEF CopyInv

LEMMA CodexStep ==
    ASSUME CopyInv,
           (\E i \in DOMAIN rollouts : BeginLine(i) \/ EndLine(i)) \/ NextEra \/ UNCHANGED copyVars
    PROVE  CopyInv'
<1>1. CopyTypeOK' /\ CodexWrites /\ CopyTypeOK /\ next \in Nat
  BY CodexDoes DEF CopyInv, CopyTypeOK
<1>2. /\ job' = job /\ phase' = phase /\ goals' = goals /\ next <= next'
      /\ DOMAIN rollouts' = DOMAIN rollouts
  BY <1>1 DEF CodexWrites
<1>3. ThreadSteps
  BY <1>1 DEF ThreadSteps, CodexWrites, LinesKept, GoesOn, Grown
<1>4. ASSUME NEW d \in Caller PROVE LeftAlone(d) /\ KeepsName(d) /\ FileKept(d)
  <2>1. ASSUME NEW i \in DOMAIN rollouts, Pending(i, d) PROVE LinesKept(i)
    BY <1>1, <2>1 DEF CodexWrites, LinesKept, Pending
  <2> QED  BY <1>2, <2>1 DEF LeftAlone, KeepsName, FileKept, FileMarks
<1>5. \A d \in Caller : CallerInv(d)'
  BY <1>1, <1>2, <1>3, <1>4, CallerKept
<1>6. IdsUnique'
  BY <1>3, <1>4, IdsStayUnique
<1>7. MarksApart'
  <2>1. PICK k : \A i \in DOMAIN rollouts : i # k => rollouts'[i].lines = rollouts[i].lines
    BY <1>1 DEF CodexWrites
  <2>2. ASSUME NEW i \in DOMAIN rollouts PROVE NoNewMarks(i) \/ (i = k /\ NewMarks(i))
    <3>1. Retired(i)' = Retired(i) /\ goals'[i] = goals[i]
      BY <1>1 DEF Retired, IsCopy, CodexWrites
    <3>2. CASE rollouts'[i].lines = rollouts[i].lines
      BY <3>1, <3>2, MarkIs, MarkIsThen DEF NoNewMarks
    <3>3. CASE i = k
      <4>1. Grown(i)
        BY <1>1 DEF CodexWrites, Grown
      <4>2. \A x \in WornIn(rollouts'[i].lines) : x \in WornIn(rollouts[i].lines) \/ x.n >= next
        BY <1>1, <4>1, GrownWorn
      <4> QED  BY <3>1, <3>3, <4>2, MarkIs, MarkIsThen DEF NewMarks
    <3> QED  BY <2>1, <3>2, <3>3
  <2> QED  BY <1>2, <1>4, <2>2, MarksStayApart
<1> QED  BY <1>1, <1>3, <1>5, <1>6, <1>7, ThreadsStayWell DEF CopyInv

-----------------------------------------------------------------------------
(* The beginning: the threads that there may be are typed. *)

LEMMA HeaderIs ==
    ASSUME NEW id, NEW window
    PROVE  /\ Header(id, window, {}) =
                Record("session_meta", {Part("none", {Slot("key", id, TRUE), Slot("window", window, TRUE)})})
           /\ \A l : Header(id, window, {l}) =
                Record("session_meta",
                    {Part("none", {Slot("key", id, TRUE), Slot("window", window, TRUE), Slot("lineage", l, TRUE)})})
<1> DEFINE key == Slot("key", id, TRUE)
           win == Slot("window", window, TRUE)
           line(l) == Slot("lineage", l, TRUE)
<1>1. {key, win} \cup {line(l) : l \in {}} = {key, win}
  <2> HIDE DEF key, win, line
  <2> QED  OBVIOUS
<1>2. \A m : {key, win} \cup {line(l) : l \in {m}} = {key, win, line(m)}
  <2> HIDE DEF key, win, line
  <2> QED  OBVIOUS
<1>3. Header(id, window, {}) = Record("session_meta", {Part("none", {key, win} \cup {line(l) : l \in {}})})
  BY Zenon DEF Header
<1>4. \A m : Header(id, window, {m}) = Record("session_meta", {Part("none", {key, win} \cup {line(l) : l \in {m}})})
  BY Zenon DEF Header
<1>5. Header(id, window, {}) = Record("session_meta", {Part("none", {key, win})})
  <2> HIDE DEF key, win, line
  <2> QED  BY <1>1, <1>3
<1>6. \A m : Header(id, window, {m}) = Record("session_meta", {Part("none", {key, win, line(m)})})
  <2> HIDE DEF key, win, line
  <2> QED  BY <1>2, <1>4
<1> QED  BY <1>5, <1>6

LEMMA SourcesTyped ==
    ASSUME ~ShortIds PROVE Sources \subseteq LinesBelow(40)
<1> DEFINE k0 == Slot("key", U(0), TRUE)
           k1 == Slot("key", U(1), TRUE)
           k2 == Slot("key", U(2), TRUE)
           k9 == Slot("key", U(9), TRUE)
           w1 == Slot("window", U(1), TRUE)
           w8 == Slot("window", U(8), TRUE)
           l9 == Slot("lineage", U(9), TRUE)
           o3 == Slot("own", I(3), TRUE)
           o4 == Slot("own", I(4), TRUE)
           o6 == Slot("own", I(6), TRUE)
           c0 == Slot("content", U(0), FALSE)
           c4 == Slot("content", I(4), FALSE)
           c7 == Slot("content", U(7), FALSE)
           r5 == Slot("response", I(5), TRUE)
           f7 == Slot("field", U(7), TRUE)
           f4 == Slot("field", I(4), FALSE)
           v4 == Slot("verbatim", I(4), TRUE)
           fw == Slot("field", Id("word", 18), FALSE)
           ow == Slot("own", Id("word", 18), TRUE)
           op == Slot("own", Id("plain", 19), TRUE)
<1>1. /\ {k0, k1, k2, k9, w1, w8, l9} \subseteq SlotsBelow(40)
      /\ {o3, o4, o6, c0, c4, c7, r5} \subseteq SlotsBelow(40)
      /\ {f7, f4, v4, fw, ow, op} \subseteq SlotsBelow(40)
  <2>1. {k0, k1, k2, k9, w1, w8, l9} \subseteq SlotsBelow(40)
    BY DEF Slot, U, Id, SlotsBelow, IdsBelow, Kinds, SlotPlaces
  <2>2. {o3, o4, o6, c0, c4, c7, r5} \subseteq SlotsBelow(40)
    BY DEF Slot, U, I, Id, SlotsBelow, IdsBelow, Kinds, SlotPlaces
  <2>3. {f7, f4, v4, fw, ow, op} \subseteq SlotsBelow(40)
    BY DEF Slot, U, I, Id, SlotsBelow, IdsBelow, Kinds, SlotPlaces
  <2> QED  BY <2>1, <2>2, <2>3
<1> DEFINE head == Header(U(0), U(1), {})
           fork == Header(U(0), U(1), {U(9)})
           child == Header(U(9), U(8), {})
           reasoning == Record("response_item", {Part("reasoning", {o3, k2})})
           said == Record("response_item", {Part("none", {o4, k2, c0, c4, r5} \cup Short)})
           compacted == Record("compacted", {Part("none", {o4, k1}), Part("compaction", {o6, k2})})
           event == Record("event_msg", {Part("none", {f7, c7, fw, ow, op})})
           named == Record("event_msg", {Part("none", {v4})})
           logged == Record("event_msg", {Part("none", {f4})})
<1>2. Sources = {<<head, said, reasoning>>, <<head, said, compacted>>, <<fork, child, event>>,
                 <<head, said, named>>, <<head, said, logged>>}
  BY Zenon DEF Sources
<1>3. /\ head = Record("session_meta", {Part("none", {k0, w1})})
      /\ fork = Record("session_meta", {Part("none", {k0, w1, l9})})
      /\ child = Record("session_meta", {Part("none", {k9, w8})})
  BY HeaderIs, Zenon
<1>4. Short = {}
  BY DEF Short
<1> HIDE DEF k0, k1, k2, k9, w1, w8, l9, o3, o4, o6, c0, c4, c7, r5, f7, f4, v4, fw, ow, op
<1>5. \A p \in {Part("none", {k0, w1}), Part("none", {k0, w1, l9}), Part("none", {k9, w8})} :
         p \in PartsBelow(40) /\ p.blob = "none"
  BY <1>1 DEF Part, PartsBelow
<1>6. {Part("reasoning", {o3, k2}), Part("none", {o4, k2, c0, c4, r5} \cup Short),
       Part("none", {o4, k1}), Part("compaction", {o6, k2})} \subseteq PartsBelow(40)
  BY <1>1, <1>4 DEF Part, PartsBelow
<1>7. {Part("none", {f7, c7, fw, ow, op}), Part("none", {v4}), Part("none", {f4})} \subseteq PartsBelow(40)
  BY <1>1 DEF Part, PartsBelow
<1>8. {head, fork, child} \subseteq RecordsBelow(40)
  <2>1. \A p : p \in PartsBelow(40) /\ p.blob = "none" => Record("session_meta", {p}) \in RecordsBelow(40)
    BY DEF Record, RecordsBelow, Types
  <2> HIDE DEF head, fork, child
  <2> QED  BY <1>3, <1>5, <2>1
<1>9. {reasoning, said, compacted, event, named, logged} \subseteq RecordsBelow(40)
  <2>1. \A P \in SUBSET PartsBelow(40) : \A T \in {"response_item", "compacted", "event_msg"} :
           Record(T, P) \in RecordsBelow(40)
    BY DEF Record, RecordsBelow, Types
  <2>2. reasoning \in RecordsBelow(40) /\ said \in RecordsBelow(40) /\ compacted \in RecordsBelow(40)
    BY <1>6, <2>1
  <2>3. event \in RecordsBelow(40) /\ named \in RecordsBelow(40) /\ logged \in RecordsBelow(40)
    BY <1>7, <2>1
  <2> HIDE DEF reasoning, said, compacted, event, named, logged
  <2> QED  BY <2>2, <2>3
<1> HIDE DEF head, fork, child, reasoning, said, compacted, event, named, logged
<1> QED  BY <1>2, <1>8, <1>9 DEF LinesBelow

LEMMA CopyInitial == ASSUME ~ShortIds, CopyInit PROVE CopyInv
<1>1. PICK s \in Sources : rollouts = <<Rollout(U(0), s, active, Original)>>
  BY DEF CopyInit
<1>2. /\ s \in LinesBelow(40) /\ active \in Account /\ goals = <<31>> /\ next = 40
      /\ era = 0 /\ appends = 0 /\ begun = 0
      /\ phase = [c \in Caller |-> "idle"] /\ job = [c \in Caller |-> NoJob]
  BY SourcesTyped DEF CopyInit
<1>3. PICK t : t = Rollout(U(0), s, active, Original)
  OBVIOUS
<1>4. t \in RolloutsBelow(40) /\ t.of = Original
  <2>1. U(0) \in IdsBelow(40)
    BY DEF U, Id, IdsBelow, Kinds
  <2> QED  BY <1>2, <1>3, <2>1 DEF Rollout, RolloutsBelow, Descents
<1>5. rollouts = <<t>> /\ DOMAIN rollouts = {1} /\ rollouts[1] = t
  BY <1>1, <1>3
<1>6. CopyTypeOK
  <2>1. rollouts \in Seq(RolloutsBelow(next)) /\ Len(rollouts) = 1
    BY <1>2, <1>4, <1>5
  <2>2. goals \in Seq(0..(next - 1)) /\ Len(goals) = 1
    BY <1>2
  <2>3. \A c \in Caller : phase[c] = "idle"
    BY <1>2
  <2>4. phase \in [Caller -> CopyPhases] /\ job \in [Caller -> {NoJob} \cup JobsBelow(next)]
    BY <1>2 DEF CopyPhases
  <2> QED  BY <1>2, <2>1, <2>2, <2>3, <2>4 DEF CopyTypeOK
<1>7. \A i \in DOMAIN rollouts : ThreadInv(i)
  <2>1. ~IsCopy(1)
    BY <1>4, <1>5 DEF IsCopy, Original
  <2> QED  BY <1>5, <2>1 DEF ThreadInv
<1>8. \A c \in Caller : phase[c] = "idle"
  BY <1>2
<1>9. \A c \in Caller : CallerInv(c)
  BY <1>8 DEF CallerInv, HasFile
<1>10. IdsUnique /\ MarksApart
  BY <1>5, <1>8 DEF IdsUnique, MarksApart, HasFile
<1> QED  BY <1>6, <1>7, <1>9, <1>10 DEF CopyInv

LEMMA CopyInvStep == ASSUME CopyInv, [CopyNext]_copyVars PROVE CopyInv'
<1>1. ASSUME NEW c \in Caller, CallerStep(c) PROVE CopyInv'
  BY <1>1, ScanStep, TakeAccountStep, CopyStep, RenameStep, VerifyStep, CarryGoalStep, LaunchStep,
     KilledStep DEF CallerStep
<1>2. CASE (\E i \in DOMAIN rollouts : BeginLine(i) \/ EndLine(i)) \/ NextEra \/ UNCHANGED copyVars
  BY <1>2, CodexStep
<1> QED  BY <1>1, <1>2 DEF CopyNext

LEMMA CopyInvHolds == ~ShortIds /\ CopySpec => []CopyInv
<1>1. ~ShortIds /\ CopyInit => CopyInv
  BY CopyInitial
<1>2. CopyInv /\ [CopyNext]_copyVars => CopyInv'
  BY CopyInvStep
<1> QED  BY <1>1, <1>2, PTL DEF CopySpec

(* What the invariant says of the threads that run. *)

LEMMA InvUnlinkable == CopyInv => Unlinkable
<1> SUFFICES ASSUME CopyInv PROVE Unlinkable
  OBVIOUS
<1>1. CopyTypeOK /\ MarksApart /\ \A i \in DOMAIN rollouts : ThreadInv(i)
  BY DEF CopyInv
<1>2. ASSUME NEW i \in Running PROVE i \in DOMAIN rollouts /\ \A x \in Worn(i) : x \in Marks(i)
  <2>1. i \in DOMAIN rollouts /\ ThreadInv(i)
    BY <1>1 DEF Running
  <2>2. ASSUME NEW x \in Worn(i), x \in Retired(i) PROVE FALSE
    <3>1. IsCopy(i) /\ Descended(rollouts, rollouts[i].of, Retired(i)) /\ AllScrubbed(rollouts[i].lines, Retired(i))
      BY <2>1, <2>2 DEF Retired, ThreadInv
    <3>2. x \in IdsBelow(next)
      BY <1>1, <2>2, <3>1, ScannedTyped
    <3>3. x \notin WornIn(rollouts[i].lines)
      BY <2>2, <3>1 DEF AllScrubbed
    <3>4. x = Id("goal", goals[i])
      BY <3>3, WornSum
    <3> QED  BY <3>2, <3>4 DEF Id, IdsBelow, Kinds
  <2> QED  BY <2>1, <2>2 DEF Marks
<1>3. NoSharedIds
  BY <1>1, <1>2 DEF NoSharedIds, MarksApart
<1>4. TextScrubbed
  <2>1. ASSUME NEW i \in Copies, NEW s \in SlotsOf(Lines(rollouts[i].lines)), ~s.whole, s.id.kind = "uuid",
               s.id \in Collected(Origin(rollouts[i].of))
        PROVE  FALSE
    <3>1. i \in DOMAIN rollouts /\ ThreadInv(i) /\ IsCopy(i) /\ i \in Running
      BY <1>1 DEF Copies, Running, IsCopy
    <3>2. Descended(rollouts, rollouts[i].of, Retired(i)) /\ AllScrubbed(rollouts[i].lines, Retired(i))
      BY <3>1 DEF ThreadInv
    <3>3. s.id \in Retired(i)
      BY <2>1, <3>2 DEF Descended, Scanned, Origin
    <3> QED  BY <2>1, <3>2, <3>3 DEF AllScrubbed
  <2> QED  BY <2>1 DEF TextScrubbed
<1> QED  BY <1>3, <1>4 DEF Unlinkable

LEMMA InvFaithful == CopyInv => CopyFaithful
<1> SUFFICES ASSUME CopyInv PROVE CopyFaithful
  OBVIOUS
<1>1. ASSUME NEW i \in Copies
      PROVE  /\ Says(rollouts[i].lines, Scanned(rollouts, rollouts[i].of), rollouts[i].of.policy)
             /\ Joins(rollouts[i].of.map, rollouts[i].id)
  <2>1. ThreadInv(i) /\ IsCopy(i) /\ i \in Running
    BY DEF Copies, Running, IsCopy, CopyInv
  <2> QED  BY <2>1 DEF ThreadInv
<1>2. SnapshotKept
  BY <1>1 DEF SnapshotKept, Says, KeptLines, Origin, Scanned
<1>3. JoinsKept
  BY <1>1 DEF JoinsKept, Joins
<1> QED  BY <1>2, <1>3 DEF CopyFaithful

(* The rollouts, the goals and the commands keep to their types, and nobody has   *)
(* an id that is yet to be minted.  This and what follows is claimed of rollouts   *)
(* whose ids are whole UUIDs, prefixed items and words (~ShortIds): an id with a   *)
(* short hex suffix is filled from the clock, and two copies made in the same era  *)
(* get the same one (remapIdValue).                                                *)
THEOREM CopyTypeCorrect == ~ShortIds /\ CopySpec => []CopyTypeOK
<1>1. CopyInv => CopyTypeOK
  BY DEF CopyInv
<1> QED  BY <1>1, CopyInvHolds, PTL

(* No identifier goes to the server under two accounts, however many copies are    *)
(* made of copies while Codex goes on writing, and no uuid of a thread is left in  *)
(* the text of a copy that is launched (the three passes of codex-thread-copy.js). *)
THEOREM CopiesUnlinkable == ~ShortIds /\ CopySpec => []Unlinkable
BY InvUnlinkable, CopyInvHolds, PTL

(* A copy that is launched has the records of the thread as it was scanned, in     *)
(* their order and with every encrypted item the options keep, and two ids of the  *)
(* thread do not become one (rewriteRecord, buildRewriteMap).                      *)
THEOREM CopiesFaithful == ~ShortIds /\ CopySpec => []CopyFaithful
BY InvFaithful, CopyInvHolds, PTL
=============================================================================
