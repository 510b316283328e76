--------------------------- MODULE CredentialProofs ---------------------------
(***************************************************************************)
(* Proofs about the three modules on credentials in Redis.                 *)
(*                                                                         *)
(* The versioned records, for every set of processes and keys and every    *)
(* number of versions:                                                     *)
(*   StoreTypeCorrect        every variable stays within its type, and a   *)
(*                           connection watches the key it is publishing   *)
(*                           and nothing else;                             *)
(*   UpdatesKept             no publication overwrites a record its writer *)
(*                           did not read;                                 *)
(*   ImplementsRecords       WATCH, GET, MULTI and EXEC make each          *)
(*                           publication atomic: the store implements      *)
(*                           AtomicRecords;                                *)
(*   OwnWritesRead           a snapshot misses nothing its reader was told *)
(*                           it published.                                 *)
(*                                                                         *)
(* The credential lease, for every set of handles and tokens, every TTL    *)
(* and every bound:                                                        *)
(*   TypeCorrect             every variable stays within its type;         *)
(*   OneOwner                a handle acting on a reply younger than the   *)
(*                           TTL owns the key;                             *)
(*   FinalRelease            a released token never owns the key again;    *)
(*   ImplementsOwnership     the lease with its commands in flight         *)
(*                           implements LeaseOwnership.                    *)
(*                                                                         *)
(* The maintenance of one Codex or xAI credential, for every set of        *)
(* processes and every bound:                                              *)
(*   MaintenanceTypeCorrect  every variable keeps to its type;             *)
(*   BlockedTruly            only a credential that is spent is blocked;   *)
(*   WorkingKept             no credential that works is lost or replaced  *)
(*                           by one that does not.                         *)
(***************************************************************************)
EXTENDS CasStore, CredentialLease, CodexMaintenance, SequenceTheorems, TLAPS

-----------------------------------------------------------------------------
(* The records.                                                            *)

(* A record without a version is the absent record.                        *)
RecordInv == \A k \in Key : stored[k].version = 0 => stored[k] = Absent

(* Of a key never deleted, a copy is never ahead of the record, and a copy *)
(* of the same version is the record.                                      *)
Follows(copy, k) ==
    /\ copy.version <= stored[k].version
    /\ copy.version = stored[k].version => copy = stored[k]

CopyInv ==
    /\ \A p \in Client, k \in Key \ removed : Follows(snapshot[p][k], k)
    /\ \A p \in Client : Follows(draft[p], Meta)

(* A transaction that will run finds the version its caller expects; one   *)
(* that will fail, or failed, finds a later one; only a connection that    *)
(* watches is dirty.                                                       *)
Later(p) == key[p] \in Removable \/ stored[key[p]].version > Expected(p)

Watching(p) ==
    /\ at[p] = "exec" /\ ~dirty[p] => stored[key[p]].version = Expected(p)
    /\ at[p] \in {"get", "exec"} /\ dirty[p] => Later(p)
    /\ at[p] = "reread" => Later(p)
    /\ at[p] \notin {"get", "exec"} => ~dirty[p]

WatchInv == \A p \in Client : Watching(p)

StoreInv == StoreTypeOK /\ RecordInv /\ CopyInv /\ WatchInv

-----------------------------------------------------------------------------
(* Numbers of a version and of those before it.                            *)
LEMMA Versions ==
    /\ \A n \in Nat : n + 1 \in Nat /\ n + 1 > n /\ n <= n /\ n + 1 # 0
    /\ \A m, n \in Nat : m <= n => m <= n + 1 /\ m # n + 1 /\ n + 1 > m
OBVIOUS

(* The record a process means to replace, and its version.                 *)
LEMMA BaseType ==
    ASSUME StoreTypeOK, NEW p \in Client, NEW k \in Key
    PROVE  /\ Absent \in StoredRecord
           /\ Base(p, k) \in StoredRecord
           /\ Base(p, k).version \in Nat
           /\ Expected(p) \in Nat
           /\ Expected(p) = Base(p, key[p]).version
<1>1. Absent \in StoredRecord BY DEF Absent, StoredRecord
<1>2. snapshot[p][k] \in StoredRecord /\ key[p] \in Key /\ snapshot[p][key[p]] \in StoredRecord BY DEF StoreTypeOK
<1>3. Base(p, k) \in StoredRecord /\ Base(p, key[p]) \in StoredRecord BY <1>1, <1>2 DEF Base
<1>4. \A r \in StoredRecord : r.version \in Nat BY DEF StoredRecord
<1> QED BY <1>1, <1>3, <1>4 DEF Expected

(* The base of a publication follows its record.                           *)
LEMMA BaseFollows ==
    ASSUME StoreInv, NEW p \in Client, NEW k \in Key \ removed
    PROVE  Follows(Base(p, k), k)
<1>1. CASE task[p] = "import"
  <2>1. Base(p, k) = Absent /\ Absent.version = 0 BY <1>1 DEF Base, Absent
  <2>2. stored[k].version \in Nat BY DEF StoreInv, StoreTypeOK, StoredRecord
  <2>3. \A n \in Nat : 0 <= n OBVIOUS
  <2>4. stored[k].version = 0 => stored[k] = Absent BY DEF StoreInv, RecordInv
  <2> QED BY <2>1, <2>2, <2>3, <2>4 DEF Follows
<1>2. CASE task[p] # "import"
  BY <1>2 DEF Base, StoreInv, CopyInv
<1> QED BY <1>1, <1>2

(* What a transaction that runs does: it replaces the base by the next     *)
(* version, and the transactions of those who watch the key will fail.     *)
LEMMA WriteFacts ==
    ASSUME StoreInv, NEW p \in Client, at[p] = "exec", ~dirty[p], Write(p)
    PROVE  /\ key[p] \in Key
           /\ Expected(p) \in Nat
           /\ stored[key[p]].version = Expected(p)
           /\ stored' \in [Key -> StoredRecord]
           /\ stored'[key[p]] = [version |-> Expected(p) + 1, writer |-> p]
           /\ \A k \in Key \ {key[p]} : stored'[k] = stored[k]
           /\ UNCHANGED removed
           /\ index' \subseteq Key \ {Meta}
           /\ watched' = [watched EXCEPT ![p] = {}]
           /\ dirty' \in [Client -> BOOLEAN]
           /\ ~dirty'[p]
           /\ \A q \in Client \ {p} : dirty'[q] <=> (dirty[q] \/ key[p] \in watched[q])
<1>1. key[p] \in Key /\ stored \in [Key -> StoredRecord] BY DEF StoreInv, StoreTypeOK
<1>2. Expected(p) \in Nat BY <1>1, BaseType DEF StoreInv
<1>3. stored[key[p]].version = Expected(p) BY DEF StoreInv, WatchInv, Watching
<1>4. [version |-> Expected(p) + 1, writer |-> p] \in StoredRecord BY <1>2 DEF StoredRecord
<1>5. /\ stored' \in [Key -> StoredRecord]
      /\ stored'[key[p]] = [version |-> Expected(p) + 1, writer |-> p]
      /\ \A k \in Key \ {key[p]} : stored'[k] = stored[k]
  BY <1>1, <1>4 DEF Write
<1>6. /\ UNCHANGED removed
      /\ index' \subseteq Key \ {Meta}
  BY <1>1 DEF Write, StoreInv, StoreTypeOK
<1>7. /\ watched' = [watched EXCEPT ![p] = {}]
      /\ dirty' = [q \in Client |-> q # p /\ (dirty[q] \/ key[p] \in watched[q])]
  BY DEF Write, MarkOthers
<1>8. /\ dirty' \in [Client -> BOOLEAN]
      /\ ~dirty'[p]
      /\ \A q \in Client \ {p} : dirty'[q] <=> (dirty[q] \/ key[p] \in watched[q])
  BY <1>7 DEF StoreInv, StoreTypeOK
<1> QED BY <1>1, <1>2, <1>3, <1>5, <1>6, <1>7, <1>8

(* The record a continuing or aborted job leaves behind.                   *)
LEMMA JobType ==
    ASSUME StoreTypeOK, NEW p \in Client,
           AbortJob(p) \/ \E o \in {"ok", "stale"} : Continue(p, o)
    PROVE  /\ task' \in [Client -> {"publish", "import"}]
           /\ todo' \in [Client -> SUBSET Key]
           /\ key' \in [Client -> Key]
           /\ outcome' \in [Client -> {"none", "ok", "stale", "failed"}]
           /\ at' \in [Client -> {"idle", "index", "records", "watch", "get", "exec", "reread"}]
           /\ at'[p] \in {"idle", "watch"}
           /\ \A q \in Client \ {p} : at'[q] = at[q] /\ key'[q] = key[q] /\ task'[q] = task[q]
<1>1. CASE AbortJob(p)
  BY <1>1, StoreAssumption DEF StoreTypeOK, AbortJob, Forget
<1>2. ASSUME NEW o \in {"ok", "stale"}, Continue(p, o),
             NEW i \in {"idle", "watch"}, at' = [at EXCEPT ![p] = i]
      PROVE  /\ todo' \in [Client -> SUBSET Key]
             /\ outcome' \in [Client -> {"none", "ok", "stale", "failed"}]
             /\ at' \in [Client -> {"idle", "index", "records", "watch", "get", "exec", "reread"}]
             /\ at'[p] \in {"idle", "watch"}
             /\ \A q \in Client \ {p} : at'[q] = at[q]
  BY <1>2 DEF StoreTypeOK, Continue
<1>3. ASSUME NEW o \in {"ok", "stale"}, Continue(p, o)
      PROVE  /\ \E i \in {"idle", "watch"} : at' = [at EXCEPT ![p] = i]
             /\ Forget(p) \/ UNCHANGED <<task, key>>
  BY <1>3 DEF Continue
<1>4. CASE Forget(p) \/ UNCHANGED <<task, key>>
  <2>1. /\ task' \in [Client -> {"publish", "import"}]
        /\ key' \in [Client -> Key]
        /\ \A q \in Client \ {p} : key'[q] = key[q] /\ task'[q] = task[q]
    <3>1. CASE Forget(p) BY <3>1, StoreAssumption DEF StoreTypeOK, Forget
    <3>2. CASE UNCHANGED <<task, key>> BY <3>2 DEF StoreTypeOK
    <3> QED BY <1>4, <3>1, <3>2
  <2> QED BY <1>1, <1>2, <1>3, <2>1
<1> QED BY <1>1, <1>3, <1>4

(* Type correctness.                                                       *)
LEMMA StoreTypeStep == ASSUME StoreInv, [StoreNext]_storeVars PROVE StoreTypeOK'
<1> USE DEF store, reading, working
<1>a. StoreTypeOK /\ Absent \in StoredRecord /\ Meta \in Key /\ Removable \subseteq Key \ {Meta}
  BY StoreAssumption DEF StoreInv, Absent, StoredRecord
<1>1. ASSUME NEW p \in Client, ReadMeta(p) PROVE StoreTypeOK'
  BY <1>a, <1>1 DEF ReadMeta, StoreTypeOK
<1>2. ASSUME NEW p \in Client, ReadIndex(p) PROVE StoreTypeOK'
  BY <1>a, <1>2 DEF ReadIndex, StoreTypeOK
<1>3. ASSUME NEW p \in Client, ReadRecords(p) PROVE StoreTypeOK'
  BY <1>a, <1>3 DEF ReadRecords, StopReading, StoreTypeOK
<1>4. ASSUME NEW p \in Client, NEW k \in Key, BeginPublish(p, k) PROVE StoreTypeOK'
  BY <1>a, <1>4 DEF BeginPublish, StoreTypeOK
<1>5. ASSUME NEW p \in Client, NEW K \in SUBSET Key, BeginImport(p, K) PROVE StoreTypeOK'
  BY <1>a, <1>5 DEF BeginImport, StoreTypeOK
<1>6. ASSUME NEW p \in Client, Watch(p) PROVE StoreTypeOK'
  <2>1. PICK k \in todo[p] : /\ key' = [key EXCEPT ![p] = k]
                            /\ watched' = [watched EXCEPT ![p] = @ \cup {k}]
    BY <1>6 DEF Watch
  <2>2. k \in Key /\ watched[p] = {} BY <1>a, <1>6 DEF Watch, StoreTypeOK
  <2>3. /\ at' = [at EXCEPT ![p] = "get"]
        /\ outcome' = [outcome EXCEPT ![p] = "none"]
        /\ UNCHANGED <<store, reading, task, todo, dirty, wrote>>
    BY <1>6 DEF Watch
  <2>4. /\ watched' \in [Client -> SUBSET Key]
        /\ \A q \in Client : watched'[q] = IF at'[q] \in {"get", "exec"} THEN {key'[q]} ELSE {}
    BY <1>a, <2>1, <2>2, <2>3 DEF StoreTypeOK
  <2> QED BY <1>a, <2>1, <2>2, <2>3, <2>4 DEF StoreTypeOK
<1>7. ASSUME NEW p \in Client, Get(p) PROVE StoreTypeOK'
  <2>1. CASE at' = [at EXCEPT ![p] = "exec"] /\ UNCHANGED <<working, watched, dirty, outcome>>
    BY <1>a, <1>7, <2>1 DEF Get, StoreTypeOK
  <2>2. CASE Unwatch(p) /\ Continue(p, "stale")
    <3>1. /\ task' \in [Client -> {"publish", "import"}]
          /\ todo' \in [Client -> SUBSET Key]
          /\ key' \in [Client -> Key]
          /\ outcome' \in [Client -> {"none", "ok", "stale", "failed"}]
          /\ at' \in [Client -> {"idle", "index", "records", "watch", "get", "exec", "reread"}]
          /\ at'[p] \in {"idle", "watch"}
          /\ \A q \in Client \ {p} : at'[q] = at[q] /\ key'[q] = key[q]
      BY <1>a, <2>2, JobType
    <3>2. /\ watched' = [watched EXCEPT ![p] = {}]
          /\ dirty' = [dirty EXCEPT ![p] = FALSE]
      BY <2>2 DEF Unwatch
    <3>3. /\ watched' \in [Client -> SUBSET Key]
          /\ dirty' \in [Client -> BOOLEAN]
      BY <1>a, <3>2 DEF StoreTypeOK
    <3>4. \A q \in Client : watched'[q] = IF at'[q] \in {"get", "exec"} THEN {key'[q]} ELSE {}
      BY <1>a, <3>1, <3>2 DEF StoreTypeOK
    <3>5. UNCHANGED <<store, reading, wrote>> BY <1>7 DEF Get
    <3> QED BY <1>a, <3>1, <3>3, <3>4, <3>5 DEF StoreTypeOK
  <2> QED BY <1>7, <2>1, <2>2 DEF Get
<1>b. ASSUME NEW p \in Client, at[p] = "exec", ~dirty[p], Write(p),
             AbortJob(p) \/ Continue(p, "ok"), UNCHANGED reading,
             wrote' \in [Client -> [Key -> Nat]]
      PROVE  StoreTypeOK'
  <2>1. /\ stored' \in [Key -> StoredRecord]
        /\ removed' = removed
        /\ index' \subseteq Key \ {Meta}
        /\ watched' = [watched EXCEPT ![p] = {}]
        /\ dirty' \in [Client -> BOOLEAN]
    BY <1>b, WriteFacts
  <2>2. /\ task' \in [Client -> {"publish", "import"}]
        /\ todo' \in [Client -> SUBSET Key]
        /\ key' \in [Client -> Key]
        /\ outcome' \in [Client -> {"none", "ok", "stale", "failed"}]
        /\ at' \in [Client -> {"idle", "index", "records", "watch", "get", "exec", "reread"}]
        /\ at'[p] \in {"idle", "watch"}
        /\ \A q \in Client \ {p} : at'[q] = at[q] /\ key'[q] = key[q]
    BY <1>a, <1>b, JobType
  <2> QED BY <1>a, <1>b, <2>1, <2>2 DEF StoreTypeOK
<1>8. ASSUME NEW p \in Client, Exec(p) PROVE StoreTypeOK'
  <2>1. Expected(p) \in Nat /\ key[p] \in Key BY <1>8, WriteFacts DEF Exec
  <2>2. Expected(p) + 1 \in Nat BY <2>1, Versions
  <2>3. wrote' \in [Client -> [Key -> Nat]]
    BY <1>a, <1>8, <2>1, <2>2 DEF Exec, StoreTypeOK
  <2> QED BY <1>b, <1>8, <2>3 DEF Exec
<1>9. ASSUME NEW p \in Client, ExecUnanswered(p) PROVE StoreTypeOK'
  BY <1>a, <1>b, <1>9 DEF ExecUnanswered, StoreTypeOK
<1>10. ASSUME NEW p \in Client, ExecRefused(p) PROVE StoreTypeOK'
  BY <1>a, <1>10 DEF ExecRefused, Unwatch, StoreTypeOK
<1>11. ASSUME NEW p \in Client, RereadLatest(p) PROVE StoreTypeOK'
  <2>1. /\ Continue(p, "stale")
        /\ at[p] = "reread"
        /\ UNCHANGED <<store, reading, watched, dirty, wrote>>
    BY <1>11 DEF RereadLatest
  <2>2. /\ task' \in [Client -> {"publish", "import"}]
        /\ todo' \in [Client -> SUBSET Key]
        /\ key' \in [Client -> Key]
        /\ outcome' \in [Client -> {"none", "ok", "stale", "failed"}]
        /\ at' \in [Client -> {"idle", "index", "records", "watch", "get", "exec", "reread"}]
        /\ at'[p] \in {"idle", "watch"}
        /\ \A q \in Client \ {p} : at'[q] = at[q] /\ key'[q] = key[q]
    BY <1>a, <2>1, JobType
  <2>3. \A q \in Client : watched'[q] = IF at'[q] \in {"get", "exec"} THEN {key'[q]} ELSE {}
    BY <1>a, <2>1, <2>2 DEF StoreTypeOK
  <2> QED BY <1>a, <2>1, <2>2, <2>3 DEF StoreTypeOK
<1>12. ASSUME NEW p \in Client, Drop(p) PROVE StoreTypeOK'
  <2>1. CASE at[p] \in {"index", "records", "watch"}
    <3>1. /\ Unwatch(p) /\ StopReading(p) /\ Forget(p)
          /\ todo' = [todo EXCEPT ![p] = {}]
          /\ at' = [at EXCEPT ![p] = "idle"]
          /\ UNCHANGED <<store, snapshot, wrote, outcome>>
      BY <1>12, <2>1 DEF Drop
    <3> QED BY <1>a, <3>1 DEF Unwatch, StopReading, Forget, StoreTypeOK
  <2>2. CASE at[p] \notin {"index", "records", "watch"}
    <3>1. AbortJob(p) /\ Unwatch(p) /\ StopReading(p) /\ UNCHANGED <<store, snapshot, wrote>>
      BY <1>12, <2>2 DEF Drop
    <3>2. /\ task' \in [Client -> {"publish", "import"}]
          /\ todo' \in [Client -> SUBSET Key]
          /\ key' \in [Client -> Key]
          /\ outcome' \in [Client -> {"none", "ok", "stale", "failed"}]
          /\ at' \in [Client -> {"idle", "index", "records", "watch", "get", "exec", "reread"}]
          /\ at'[p] \in {"idle", "watch"}
          /\ \A q \in Client \ {p} : at'[q] = at[q] /\ key'[q] = key[q]
      BY <1>a, <3>1, JobType
    <3>3. /\ watched' \in [Client -> SUBSET Key] /\ dirty' \in [Client -> BOOLEAN]
          /\ watched'[p] = {} /\ \A q \in Client \ {p} : watched'[q] = watched[q]
      BY <1>a, <3>1 DEF Unwatch, StoreTypeOK
    <3>4. \A q \in Client :
            watched'[q] = IF at'[q] \in {"get", "exec"} THEN {key'[q]} ELSE {}
      BY <1>a, <3>2, <3>3 DEF StoreTypeOK
    <3>5. draft' \in [Client -> StoredRecord] /\ members' \in [Client -> SUBSET (Key \ {Meta})]
      BY <1>a, <3>1 DEF StopReading, StoreTypeOK, StoredRecord, Absent
    <3>6. UNCHANGED <<stored, removed, index, snapshot, wrote>> BY <3>1
    <3> QED BY <1>a, <3>2, <3>3, <3>4, <3>5, <3>6 DEF StoreTypeOK
  <2> QED BY <2>1, <2>2
<1>13. ASSUME NEW p \in Client, NEW k \in Removable, Remove(p, k) PROVE StoreTypeOK'
  BY <1>a, <1>13 DEF Remove, StoreTypeOK
<1>14. CASE UNCHANGED storeVars
  BY <1>a, <1>14 DEF storeVars, StoreTypeOK
<1> QED
  BY <1>1, <1>2, <1>3, <1>4, <1>5, <1>6, <1>7, <1>8, <1>9, <1>10, <1>11, <1>12, <1>13, <1>14
     DEF StoreNext, StoreStep

(* The three kinds of step, as far as records are concerned: a publication *)
(* takes effect, a key is deleted, or the records stay as they are.        *)
LEMMA RecordSteps ==
    ASSUME [StoreNext]_storeVars
    PROVE  \/ \E p \in Client : Exec(p) \/ ExecUnanswered(p)
           \/ \E p \in Client, k \in Removable : Remove(p, k)
           \/ UNCHANGED <<stored, removed>>
<1> USE DEF store
<1>1. ASSUME NEW p \in Client,
             ReadMeta(p) \/ ReadIndex(p) \/ ReadRecords(p) \/ Watch(p) \/ Get(p)
               \/ ExecRefused(p) \/ RereadLatest(p) \/ Drop(p)
               \/ (\E k \in Key : BeginPublish(p, k))
               \/ (\E K \in SUBSET Key : BeginImport(p, K))
      PROVE  UNCHANGED <<stored, removed>>
  BY <1>1 DEF ReadMeta, ReadIndex, ReadRecords, Watch, Get, ExecRefused, RereadLatest, Drop,
     BeginPublish, BeginImport
<1>2. UNCHANGED storeVars => UNCHANGED <<stored, removed>> BY DEF storeVars
<1> QED BY <1>1, <1>2 DEF StoreNext, StoreStep

(* A record without a version stays the absent record.                     *)
LEMMA RecordStep == ASSUME StoreInv, [StoreNext]_storeVars PROVE RecordInv'
<1>a. RecordInv /\ stored \in [Key -> StoredRecord] BY DEF StoreInv, StoreTypeOK
<1>1. ASSUME NEW p \in Client, Exec(p) \/ ExecUnanswered(p) PROVE RecordInv'
  <2>1. /\ Expected(p) \in Nat
        /\ stored'[key[p]] = [version |-> Expected(p) + 1, writer |-> p]
        /\ \A k \in Key \ {key[p]} : stored'[k] = stored[k]
    BY <1>1, WriteFacts DEF Exec, ExecUnanswered
  <2>2. stored'[key[p]].version # 0 BY <2>1, Versions
  <2> QED BY <1>a, <2>1, <2>2 DEF RecordInv
<1>2. ASSUME NEW p \in Client, NEW k \in Removable, Remove(p, k) PROVE RecordInv'
  BY <1>a, <1>2 DEF Remove, RecordInv
<1>3. CASE UNCHANGED <<stored, removed>>
  BY <1>a, <1>3 DEF RecordInv
<1> QED BY <1>1, <1>2, <1>3, RecordSteps

(* A copy keeps following its record: of a key never deleted, the record   *)
(* only moves to the next version.                                         *)
LEMMA FollowsStep ==
    ASSUME StoreInv, [StoreNext]_storeVars, NEW k \in Key \ removed', NEW copy \in StoredRecord, Follows(copy, k)
    PROVE  Follows(copy, k)'
<1>a. stored \in [Key -> StoredRecord] /\ (\A r \in StoredRecord : r.version \in Nat)
  BY DEF StoreInv, StoreTypeOK, StoredRecord
<1>1. ASSUME NEW p \in Client, Exec(p) \/ ExecUnanswered(p) PROVE Follows(copy, k)'
  <2>1. /\ stored[key[p]].version = Expected(p)
        /\ stored'[key[p]] = [version |-> Expected(p) + 1, writer |-> p]
        /\ \A j \in Key \ {key[p]} : stored'[j] = stored[j]
    BY <1>1, WriteFacts DEF Exec, ExecUnanswered
  <2>2. CASE k # key[p] BY <2>1, <2>2 DEF Follows
  <2>3. CASE k = key[p]
    <3>1. copy.version \in Nat /\ stored[k].version \in Nat BY <1>a
    <3>2. stored'[k].version = stored[k].version + 1 BY <2>1, <2>3
    <3> QED BY <3>1, <3>2, Versions DEF Follows
  <2> QED BY <2>2, <2>3
<1>2. ASSUME NEW p \in Client, NEW j \in Removable, Remove(p, j) PROVE Follows(copy, k)'
  <2>1. k # j /\ stored'[k] = stored[k] BY <1>a, <1>2 DEF Remove
  <2> QED BY <2>1 DEF Follows
<1>3. CASE UNCHANGED <<stored, removed>>
  BY <1>3 DEF Follows
<1> QED BY <1>1, <1>2, <1>3, RecordSteps

(* Only readRedisState fills a snapshot.                                    *)
LEMMA SnapChanged ==
    ASSUME StoreTypeOK, [StoreNext]_storeVars, NEW p \in Client, snapshot'[p] # snapshot[p]
    PROVE  ReadRecords(p)
<1> USE DEF reading, store, StopReading
<1>1. PICK q \in Client : StoreStep(q) BY DEF StoreNext, storeVars
<1>2. ~(ReadMeta(q) \/ ReadIndex(q)) BY DEF ReadMeta, ReadIndex
<1>3. ~((\E k \in Key : BeginPublish(q, k)) \/ \E K \in SUBSET Key : BeginImport(q, K))
  BY DEF BeginPublish, BeginImport
<1>4. ~(Watch(q) \/ Get(q)) BY DEF Watch, Get
<1>5. ~(Exec(q) \/ ExecUnanswered(q) \/ ExecRefused(q))
  BY DEF Exec, ExecUnanswered, ExecRefused
<1>6. ~(RereadLatest(q) \/ Drop(q)) BY DEF RereadLatest, Drop
<1>7. ~\E k \in Removable : Remove(q, k) BY DEF Remove
<1>8. ReadRecords(q) BY <1>1, <1>2, <1>3, <1>4, <1>5, <1>6, <1>7 DEF StoreStep
<1>9. q = p BY <1>8 DEF ReadRecords, StoreTypeOK
<1> QED BY <1>8, <1>9

(* Only a reader changes the copy of the meta record it holds.              *)
LEMMA DraftChanged ==
    ASSUME StoreTypeOK, [StoreNext]_storeVars, NEW p \in Client, draft'[p] # draft[p]
    PROVE  ReadMeta(p) \/ ReadRecords(p) \/ Drop(p)
<1> USE DEF reading, store, StopReading
<1>1. PICK q \in Client : StoreStep(q) BY DEF StoreNext, storeVars
<1>2. ~ReadIndex(q) BY DEF ReadIndex
<1>3. ~((\E k \in Key : BeginPublish(q, k)) \/ \E K \in SUBSET Key : BeginImport(q, K))
  BY DEF BeginPublish, BeginImport
<1>4. ~(Watch(q) \/ Get(q)) BY DEF Watch, Get
<1>5. ~(Exec(q) \/ ExecUnanswered(q) \/ ExecRefused(q))
  BY DEF Exec, ExecUnanswered, ExecRefused
<1>6. ~RereadLatest(q) BY DEF RereadLatest
<1>7. ~\E k \in Removable : Remove(q, k) BY DEF Remove
<1>8. ReadMeta(q) \/ ReadRecords(q) \/ Drop(q)
  BY <1>1, <1>2, <1>3, <1>4, <1>5, <1>6, <1>7 DEF StoreStep
<1>9. q = p BY <1>8 DEF ReadMeta, ReadRecords, Drop, StoreTypeOK
<1> QED BY <1>8, <1>9

(* What is read follows its record when it is read, and ever after.        *)
LEMMA CopyStep == ASSUME StoreInv, [StoreNext]_storeVars PROVE CopyInv'
<1> USE DEF store, reading
<1>a. /\ StoreTypeOK /\ CopyInv /\ RecordInv /\ Absent \in StoredRecord
      /\ Meta \in Key \ removed /\ Meta \notin removed' /\ removed \subseteq removed'
      /\ \A r \in StoredRecord : r.version \in Nat
      /\ StoreTypeOK'
  <2>1. removed \subseteq removed' BY RecordSteps, WriteFacts DEF Exec, ExecUnanswered, Remove
  <2>2. Absent \in StoredRecord /\ \A r \in StoredRecord : r.version \in Nat BY DEF Absent, StoredRecord
  <2> QED BY <2>1, <2>2, StoreTypeStep, StoreAssumption DEF StoreInv, StoreTypeOK
<1>b. \A k \in Key : Follows(stored[k], k) /\ Follows(Absent, k)
  <2> SUFFICES ASSUME NEW k \in Key PROVE Follows(stored[k], k) /\ Follows(Absent, k)
    OBVIOUS
  <2>1. stored[k].version \in Nat BY <1>a DEF StoreTypeOK
  <2>2. \A n \in Nat : 0 <= n /\ n <= n OBVIOUS
  <2>3. Absent.version = 0 BY DEF Absent
  <2>4. stored[k].version = 0 => stored[k] = Absent BY <1>a DEF RecordInv
  <2> QED BY <2>1, <2>2, <2>3, <2>4 DEF Follows
<1>1. ASSUME NEW p \in Client, NEW k \in Key \ removed' PROVE Follows(snapshot[p][k], k)'
  <2>1. CASE snapshot'[p] = snapshot[p]
    <3>1. snapshot[p][k] \in StoredRecord /\ Follows(snapshot[p][k], k) BY <1>a DEF StoreTypeOK, CopyInv
    <3>2. PICK c : c = snapshot[p][k] OBVIOUS
    <3>3. Follows(c, k)' BY <3>1, <3>2, FollowsStep
    <3> QED BY <2>1, <3>2, <3>3 DEF Follows
  <2>2. CASE snapshot'[p] # snapshot[p]
    <3>1. ReadRecords(p)
      BY <1>a, <2>2, SnapChanged
    <3>2. snapshot'[p][k] \in {draft[p], stored[k], Absent} /\ (snapshot'[p][k] = draft[p] => k = Meta \/ draft[p] \in {stored[k], Absent})
      BY <1>a, <3>1 DEF ReadRecords, StoreTypeOK
    <3>3. Follows(snapshot'[p][k], k)
      BY <1>a, <1>b, <3>2 DEF CopyInv
    <3>4. stored' = stored BY <3>1 DEF ReadRecords
    <3> QED BY <3>3, <3>4 DEF Follows
  <2> QED BY <2>1, <2>2
<1>2. ASSUME NEW p \in Client PROVE Follows(draft[p], Meta)'
  <2>1. CASE draft'[p] = draft[p]
    <3>1. draft[p] \in StoredRecord /\ Follows(draft[p], Meta) BY <1>a DEF StoreTypeOK, CopyInv
    <3>2. PICK c : c = draft[p] OBVIOUS
    <3>3. Follows(c, Meta)' BY <1>a, <3>1, <3>2, FollowsStep
    <3> QED BY <2>1, <3>2, <3>3 DEF Follows
  <2>2. CASE draft'[p] # draft[p]
    <3>1. ReadMeta(p) \/ ReadRecords(p) \/ Drop(p)
      BY <1>a, <2>2, DraftChanged
    <3>2. draft'[p] \in {stored[Meta], Absent} /\ stored' = stored
      BY <1>a, <3>1 DEF ReadMeta, ReadRecords, Drop, StopReading, StoreTypeOK
    <3>3. Follows(draft'[p], Meta) BY <1>a, <1>b, <3>2
    <3> QED BY <3>2, <3>3 DEF Follows
  <2> QED BY <2>1, <2>2
<1> QED BY <1>1, <1>2 DEF CopyInv

(* A process that takes no step keeps its expectation.                     *)
LEMMA OthersStep ==
    ASSUME StoreInv, NEW p \in Client, StoreStep(p), NEW q \in Client \ {p}
    PROVE  at'[q] = at[q] /\ key'[q] = key[q] /\ Expected(q)' = Expected(q)
<1> USE DEF store, reading, working
<1>1. at'[q] = at[q] /\ key'[q] = key[q] /\ task'[q] = task[q] /\ snapshot'[q] = snapshot[q]
  <2>1. StoreTypeOK BY DEF StoreInv
  <2>2. CASE AbortJob(p) \/ \E o \in {"ok", "stale"} : Continue(p, o)
    <3>1. at'[q] = at[q] /\ key'[q] = key[q] /\ task'[q] = task[q] BY <2>1, <2>2, JobType
    <3>2. Get(p) \/ Exec(p) \/ ExecUnanswered(p) \/ RereadLatest(p) \/ Drop(p) => UNCHANGED snapshot
      BY DEF Get, Exec, ExecUnanswered, RereadLatest, Drop
    <3>3. ReadMeta(p) \/ ReadIndex(p) \/ ReadRecords(p) \/ Watch(p) \/ ExecRefused(p)
            \/ (\E k \in Key : BeginPublish(p, k)) \/ (\E K \in SUBSET Key : BeginImport(p, K))
            \/ (\E k \in Removable : Remove(p, k))
          => snapshot'[q] = snapshot[q]
      BY <2>1 DEF ReadMeta, ReadIndex, ReadRecords, Watch, ExecRefused, BeginPublish,
         BeginImport, Remove, StoreTypeOK
    <3> QED BY <3>1, <3>2, <3>3 DEF StoreStep
  <2>3. CASE ~(AbortJob(p) \/ \E o \in {"ok", "stale"} : Continue(p, o))
    BY <2>1, <2>3 DEF StoreStep, ReadMeta, ReadIndex, ReadRecords, BeginPublish, BeginImport,
       Watch, Get, Exec, ExecUnanswered, ExecRefused, RereadLatest, Drop, Remove, Forget, StoreTypeOK
  <2> QED BY <2>2, <2>3
<1> QED BY <1>1 DEF Expected, Base

(* A transaction still runs only on the version its caller expects.        *)
LEMMA WatchStep == ASSUME StoreInv, [StoreNext]_storeVars PROVE WatchInv'
<1> USE DEF store, reading, working
<1>a. StoreTypeOK /\ StoreTypeOK' /\ (\A q \in Client : Watching(q)) BY StoreTypeStep DEF StoreInv, WatchInv
<1>b. \A q \in Client : /\ key[q] \in Key /\ Expected(q) \in Nat
                         /\ stored[key[q]].version \in Nat
  BY <1>a, BaseType DEF StoreTypeOK, StoredRecord
<1>c. \A q \in Client : key[q] \notin Removable => Expected(q) <= stored[key[q]].version
  <2> SUFFICES ASSUME NEW q \in Client, key[q] \notin Removable
               PROVE  Expected(q) <= stored[key[q]].version
    OBVIOUS
  <2>1. key[q] \in Key \ removed BY <1>a, <1>b DEF StoreTypeOK
  <2> QED BY <1>a, <1>b, <2>1, BaseFollows, BaseType DEF Follows
(* A step that writes nothing.                                             *)
<1>d. ASSUME NEW p \in Client, StoreStep(p), UNCHANGED stored, Watching(p)',
             \A q \in Client \ {p} : dirty'[q] = dirty[q]
      PROVE  WatchInv'
  <2>1. ASSUME NEW q \in Client \ {p} PROVE Watching(q)'
    BY <1>a, <1>d, OthersStep DEF Watching, Later
  <2> QED BY <1>d, <2>1 DEF WatchInv
<1>1. ASSUME NEW p \in Client,
             ReadMeta(p) \/ ReadIndex(p) \/ ReadRecords(p) \/ Watch(p)
               \/ (\E k \in Key : BeginPublish(p, k))
               \/ (\E K \in SUBSET Key : BeginImport(p, K))
      PROVE  WatchInv'
  <2>1. UNCHANGED <<stored, dirty>> /\ ~dirty[p]
    BY <1>a, <1>1 DEF ReadMeta, ReadIndex, ReadRecords, Watch, BeginPublish, BeginImport, Watching
  <2>2. at'[p] \notin {"exec", "reread"}
    BY <1>a, <1>1 DEF ReadMeta, ReadIndex, ReadRecords, Watch, BeginPublish, BeginImport, StoreTypeOK
  <2>3. Watching(p)' BY <2>1, <2>2 DEF Watching
  <2> QED BY <1>1, <1>d, <2>1, <2>3 DEF StoreStep
<1>2. ASSUME NEW p \in Client, Get(p) PROVE WatchInv'
  <2>1. UNCHANGED stored BY <1>2 DEF Get
  <2>2. CASE /\ stored[key[p]].version = Expected(p)
             /\ at' = [at EXCEPT ![p] = "exec"]
             /\ UNCHANGED <<working, watched, dirty, outcome>>
    <3>1. at'[p] = "exec" /\ at[p] = "get" /\ UNCHANGED <<stored, dirty, key, snapshot, task>>
      BY <1>a, <1>2, <2>2 DEF Get, StoreTypeOK
    <3>2. Expected(p)' = Expected(p) /\ (Later(p)' <=> Later(p))
      BY <3>1 DEF Expected, Base, Later
    <3>3. Watching(p)' BY <1>a, <2>2, <3>1, <3>2 DEF Watching
    <3> QED BY <1>2, <1>d, <3>1, <3>3 DEF StoreStep
  <2>3. CASE Unwatch(p) /\ Continue(p, "stale")
    <3>1. at'[p] \in {"idle", "watch"} BY <1>a, <2>3, JobType
    <3>2. ~dirty'[p] /\ \A q \in Client \ {p} : dirty'[q] = dirty[q]
      BY <1>a, <2>3 DEF Unwatch, StoreTypeOK
    <3>3. Watching(p)' BY <3>1, <3>2 DEF Watching
    <3> QED BY <1>2, <1>d, <2>1, <3>2, <3>3 DEF StoreStep
  <2> QED BY <1>2, <2>2, <2>3 DEF Get
<1>3. ASSUME NEW p \in Client, Exec(p) \/ ExecUnanswered(p) PROVE WatchInv'
  <2>0. at[p] = "exec" /\ ~dirty[p] /\ Write(p) /\ StoreStep(p)
    BY <1>3 DEF Exec, ExecUnanswered, StoreStep
  <2>1. /\ stored'[key[p]] = [version |-> Expected(p) + 1, writer |-> p]
        /\ stored[key[p]].version = Expected(p)
        /\ \A k \in Key \ {key[p]} : stored'[k] = stored[k]
        /\ ~dirty'[p]
        /\ \A q \in Client \ {p} : dirty'[q] <=> (dirty[q] \/ key[p] \in watched[q])
    BY <2>0, WriteFacts
  <2>2. at'[p] \in {"idle", "watch"}
    BY <1>a, <1>3, JobType DEF Exec, ExecUnanswered
  <2>3. Watching(p)' BY <2>1, <2>2 DEF Watching
  <2>4. ASSUME NEW q \in Client \ {p} PROVE Watching(q)'
    <3>1. at'[q] = at[q] /\ key'[q] = key[q] /\ Expected(q)' = Expected(q)
      BY <2>0, OthersStep
    <3>2. watched[q] = IF at[q] \in {"get", "exec"} THEN {key[q]} ELSE {}
      BY <1>a DEF StoreTypeOK
    <3>3. CASE key[q] # key[p]
      <4>1. stored'[key[q]] = stored[key[q]] /\ (dirty'[q] <=> dirty[q])
        BY <1>b, <2>1, <3>2, <3>3
      <4> QED BY <1>a, <3>1, <4>1 DEF Watching, Later
    <3>4. CASE key[q] = key[p]
      <4>1. stored'[key[q]].version = stored[key[q]].version + 1
        BY <2>1, <3>4
      <4>2. key[q] \notin Removable => stored[key[q]].version + 1 > Expected(q)
        BY <1>b, <1>c, Versions
      <4>3. Later(q)' BY <3>1, <4>1, <4>2 DEF Later
      <4>4. at[q] \in {"get", "exec"} <=> dirty'[q]
        BY <1>a, <2>1, <3>2, <3>4 DEF Watching
      <4> QED BY <3>1, <4>3, <4>4 DEF Watching
    <3> QED BY <3>3, <3>4
  <2> QED BY <2>3, <2>4 DEF WatchInv
<1>4. ASSUME NEW p \in Client, ExecRefused(p) PROVE WatchInv'
  <2>1. /\ UNCHANGED <<stored, key, snapshot, task>> /\ at[p] = "exec" /\ dirty[p]
        /\ at'[p] = "reread" /\ ~dirty'[p]
        /\ \A q \in Client \ {p} : dirty'[q] = dirty[q]
    BY <1>a, <1>4 DEF ExecRefused, Unwatch, StoreTypeOK
  <2>2. Expected(p)' = Expected(p) /\ (Later(p)' <=> Later(p))
    BY <2>1 DEF Expected, Base, Later
  <2>3. Watching(p)' BY <1>a, <2>1, <2>2 DEF Watching
  <2> QED BY <1>4, <1>d, <2>1, <2>3 DEF StoreStep
<1>5. ASSUME NEW p \in Client, RereadLatest(p) PROVE WatchInv'
  <2>1. UNCHANGED <<stored, dirty>> /\ ~dirty[p] BY <1>a, <1>5 DEF RereadLatest, Watching
  <2>2. at'[p] \in {"idle", "watch"} BY <1>a, <1>5, JobType DEF RereadLatest
  <2>3. Watching(p)' BY <2>1, <2>2 DEF Watching
  <2> QED BY <1>5, <1>d, <2>1, <2>3 DEF StoreStep
<1>6. ASSUME NEW p \in Client, Drop(p) PROVE WatchInv'
  <2>1. UNCHANGED stored /\ ~dirty'[p] /\ \A q \in Client \ {p} : dirty'[q] = dirty[q]
    BY <1>a, <1>6 DEF Drop, Unwatch, StoreTypeOK
  <2>2. at'[p] = "idle" BY <1>a, <1>6 DEF Drop, AbortJob, StoreTypeOK
  <2>3. Watching(p)' BY <2>1, <2>2 DEF Watching
  <2> QED BY <1>6, <1>d, <2>1, <2>3 DEF StoreStep
<1>7. ASSUME NEW p \in Client, NEW k \in Removable, Remove(p, k) PROVE WatchInv'
  <2>1. ASSUME NEW q \in Client PROVE Watching(q)'
    <3>1. UNCHANGED <<at, key, snapshot, task>> /\ Expected(q)' = Expected(q)
      BY <1>7 DEF Remove, Expected, Base
    <3>2. dirty'[q] <=> dirty[q] \/ (stored[k] # Absent /\ k \in watched[q])
      BY <1>a, <1>7 DEF Remove, StoreTypeOK
    <3>3. watched[q] = IF at[q] \in {"get", "exec"} THEN {key[q]} ELSE {}
      BY <1>a DEF StoreTypeOK
    <3>4. CASE key[q] # k
      <4>1. stored'[key[q]] = stored[key[q]] /\ (dirty'[q] <=> dirty[q])
        BY <1>a, <1>b, <1>7, <3>2, <3>3, <3>4 DEF Remove, StoreTypeOK
      <4> QED BY <1>a, <3>1, <4>1 DEF Watching, Later
    <3>5. CASE key[q] = k
      <4>1. Later(q)' BY <1>7, <3>1, <3>5 DEF Later
      <4>2. stored'[k] = Absent BY <1>a, <1>b, <1>7, <3>5 DEF Remove, StoreTypeOK
      <4>3. at[q] = "exec" /\ ~dirty'[q] => stored'[k] = stored[k] /\ ~dirty[q]
        BY <3>2, <3>3, <3>5, <4>2
      <4>4. at[q] \notin {"get", "exec"} => ~dirty'[q]
        BY <1>a, <3>2, <3>3 DEF Watching
      <4> QED BY <1>a, <3>1, <3>5, <4>1, <4>3, <4>4 DEF Watching
    <3> QED BY <3>4, <3>5
  <2> QED BY <2>1 DEF WatchInv
<1>8. CASE UNCHANGED storeVars
  BY <1>a, <1>8 DEF storeVars, WatchInv, Watching, Later, Expected, Base
<1> QED
  BY <1>1, <1>2, <1>3, <1>4, <1>5, <1>6, <1>7, <1>8 DEF StoreNext, StoreStep

-----------------------------------------------------------------------------
LEMMA StoreInvInitial == StoreInit => StoreInv
<1> SUFFICES ASSUME StoreInit PROVE StoreInv OBVIOUS
<1>1. Absent \in StoredRecord /\ Absent.version = 0 BY DEF Absent, StoredRecord
<1>2. StoreTypeOK BY <1>1, StoreAssumption DEF StoreInit, StoreTypeOK
<1>3. RecordInv BY DEF StoreInit, RecordInv
<1>4. CopyInv
  <2>1. 0 <= 0 OBVIOUS
  <2> QED BY <1>1, <2>1, StoreAssumption DEF StoreInit, CopyInv, Follows
<1>5. WatchInv BY DEF StoreInit, WatchInv, Watching
<1> QED BY <1>2, <1>3, <1>4, <1>5 DEF StoreInv

LEMMA StoreInvNext == StoreInv /\ [StoreNext]_storeVars => StoreInv'
BY StoreTypeStep, RecordStep, CopyStep, WatchStep DEF StoreInv

LEMMA StoreInvAlways == StoreSpec => []StoreInv
BY StoreInvInitial, StoreInvNext, PTL DEF StoreSpec

(* The variables of the store stay within their types, and a connection    *)
(* watches the key casPutJsonRecord is working on and no other.            *)
THEOREM StoreTypeCorrect == StoreSpec => []StoreTypeOK
<1>1. StoreInv => StoreTypeOK BY DEF StoreInv
<1> QED BY <1>1, StoreInvAlways, PTL

(* casPutJsonRecord never overwrites a record that its caller did not read *)
(* in its snapshot, unless the key was deleted behind its back.            *)
THEOREM UpdatesKept == StoreSpec => NoLostUpdate
<1> DEFINE Kept == \A k \in Key \ removed' : ReplacesItsBase(k)
<1>1. StoreInv /\ [StoreNext]_storeVars => [Kept]_storeVars
  <2> SUFFICES ASSUME StoreInv, [StoreNext]_storeVars, NEW k \in Key \ removed', stored'[k] # stored[k]
               PROVE  Base(stored'[k].writer, k) = stored[k]
    BY DEF ReplacesItsBase
  <2>1. CASE UNCHANGED <<stored, removed>> BY <2>1
  <2>2. ASSUME NEW p \in Client, NEW j \in Removable, Remove(p, j) PROVE FALSE
    BY <2>2 DEF Remove, StoreInv, StoreTypeOK
  <2>3. ASSUME NEW p \in Client, Exec(p) \/ ExecUnanswered(p)
        PROVE  Base(stored'[k].writer, k) = stored[k]
    <3>1. /\ stored'[key[p]] = [version |-> Expected(p) + 1, writer |-> p]
          /\ stored[key[p]].version = Expected(p)
          /\ \A j \in Key \ {key[p]} : stored'[j] = stored[j]
          /\ removed' = removed
      BY <2>3, WriteFacts DEF Exec, ExecUnanswered
    <3>2. k = key[p] /\ stored'[k].writer = p BY <3>1
    <3>3. Follows(Base(p, k), k) BY <3>1, BaseFollows
    <3>4. Base(p, k).version = stored[k].version BY <3>1, <3>2 DEF Expected
    <3> QED BY <3>2, <3>3, <3>4 DEF Follows
  <2> QED BY <2>1, <2>2, <2>3, RecordSteps
<1> QED BY <1>1, StoreInvAlways, PTL DEF StoreSpec, NoLostUpdate

(* WATCH, GET, MULTI and EXEC make a publication one atomic comparison and *)
(* write, and "stale_version" is answered only when the record is another. *)
THEOREM ImplementsRecords == StoreSpec => AtomicPublication
<1> USE DEF store, reading, working, Records!vars, Records!None, Records!Absent
<1>1. StoreInit => Records!Init
  BY DEF StoreInit, Records!Init, Request, Waiting, Absent
<1>2. StoreInv /\ [StoreNext]_storeVars => [Records!Next]_Records!vars
  <2> SUFFICES ASSUME StoreInv, [StoreNext]_storeVars PROVE [Records!Next]_Records!vars
    OBVIOUS
  <2>a. StoreTypeOK /\ WatchInv BY DEF StoreInv
  (* The request of a process is what it waits for.                        *)
  <2>b. /\ \A p \in Client : Waiting(p) =>
             /\ Request[p] = [waiting |-> TRUE, key |-> key[p], expected |-> Expected(p)]
             /\ Request[p] # Records!None
        /\ \A p \in Client : ~Waiting(p) => Request[p] = Records!None
    BY DEF Request
  <2>c. ASSUME NEW p \in Client, StoreStep(p)
        PROVE  \A q \in Client \ {p} : Request'[q] = Request[q]
    BY <2>c, OthersStep DEF Request, Waiting
  <2>r. \A p \in Client : Waiting(p) =>
          /\ Request[p] # Records!None
          /\ Request[p].key = key[p]
          /\ Request[p].expected = Expected(p)
    <3>1. \A k, e : LET r == [waiting |-> TRUE, key |-> k, expected |-> e]
                    IN  r.key = k /\ r.expected = e
      OBVIOUS
    <3>2. SUFFICES ASSUME NEW p \in Client, Waiting(p)
                   PROVE  /\ Request[p] # Records!None
                          /\ Request[p].key = key[p]
                          /\ Request[p].expected = Expected(p)
      OBVIOUS
    <3>3. Request[p] # Records!None BY <2>b, <3>2, Zenon
    <3>4. Request[p] = [waiting |-> TRUE, key |-> key[p], expected |-> Expected(p)]
      BY <2>b, <3>2, Zenon
    <3>5. Request[p].key = key[p] BY <3>4
    <3>6. Request[p].expected = Expected(p)
      <4>1. PICK e : e = Expected(p) OBVIOUS
      <4>2. Request[p] = [waiting |-> TRUE, key |-> key[p], expected |-> e] BY <3>4, <4>1
      <4>3. Request[p].expected = e BY <3>1, <4>2
      <4> QED BY <4>1, <4>3
    <3> QED BY <3>3, <3>5, <3>6
  (* A step within a call, or outside of any.                              *)
  <2>d. ASSUME NEW p \in Client, StoreStep(p), Waiting(p)' <=> Waiting(p),
               Waiting(p) => key'[p] = key[p] /\ Expected(p)' = Expected(p)
        PROVE  Request' = Request
    BY <2>c, <2>d DEF Request
  (* The end of a call.                                                    *)
  <2>e. ASSUME NEW p \in Client, StoreStep(p), Waiting(p), at'[p] \in {"idle", "watch"}
        PROVE  Request' = [Request EXCEPT ![p] = Records!None]
    <3>1. Request'[p] = Records!None BY <2>e DEF Request, Waiting
    <3>2. \A q \in Client \ {p} : Request'[q] = Request[q] BY <2>c, <2>e
    <3> QED BY <3>1, <3>2 DEF Request
  <2>1. ASSUME NEW p \in Client,
               ReadMeta(p) \/ ReadIndex(p) \/ ReadRecords(p)
                 \/ (\E k \in Key : BeginPublish(p, k))
                 \/ (\E K \in SUBSET Key : BeginImport(p, K))
        PROVE  UNCHANGED Records!vars
    <3>1. ~Waiting(p) /\ ~Waiting(p)' /\ UNCHANGED <<stored, outcome>>
      BY <2>a, <2>1 DEF ReadMeta, ReadIndex, ReadRecords, BeginPublish, BeginImport,
         Waiting, StoreTypeOK
    <3>2. Request' = Request BY <2>1, <2>d, <3>1 DEF StoreStep
    <3> QED BY <3>1, <3>2
  <2>2. ASSUME NEW p \in Client, Watch(p) PROVE Records!Begin(p)
    <3>1. /\ ~Waiting(p) /\ Waiting(p)' /\ key'[p] \in Key
          /\ outcome' = [outcome EXCEPT ![p] = "none"] /\ UNCHANGED stored
      BY <2>a, <2>2 DEF Watch, Waiting, StoreTypeOK
    <3>2. Request'[p] = [waiting |-> TRUE, key |-> key'[p], expected |-> Expected(p)']
      BY <3>1 DEF Request
    <3>3. Request' = [Request EXCEPT ![p] = Request'[p]]
      <4>1. \A q \in Client \ {p} : Request'[q] = Request[q] BY <2>2, <2>c DEF StoreStep
      <4> QED BY <4>1 DEF Request
    <3>4. Request[p] = Records!None BY <2>b, <3>1
    <3>5. Request'[p] # Records!None /\ Request'[p].key \in Key BY <3>1, <3>2
    <3> QED BY <3>1, <3>3, <3>4, <3>5 DEF Records!Begin
  <2>3. ASSUME NEW p \in Client, Get(p) PROVE [Records!Next]_Records!vars
    <3>1. Waiting(p) /\ UNCHANGED stored BY <2>3 DEF Get, Waiting
    <3>2. CASE at' = [at EXCEPT ![p] = "exec"] /\ UNCHANGED <<working, watched, dirty, outcome>>
      <4>1. Waiting(p)' /\ key'[p] = key[p] /\ Expected(p)' = Expected(p)
        BY <2>a, <2>3, <3>2 DEF Get, Waiting, Expected, Base, StoreTypeOK
      <4>2. Request' = Request BY <2>3, <2>d, <3>1, <4>1 DEF StoreStep
      <4> QED BY <3>1, <3>2, <4>2
    <3>3. CASE stored[key[p]].version # Expected(p) /\ Unwatch(p) /\ Continue(p, "stale")
      <4>1. at'[p] \in {"idle", "watch"} BY <2>a, <3>3, JobType
      <4>2. Request' = [Request EXCEPT ![p] = Records!None] BY <2>3, <2>e, <3>1, <4>1 DEF StoreStep
      <4>3. outcome' = [outcome EXCEPT ![p] = "stale"] BY <3>3 DEF Continue
      <4>4. Records!Answer(p, "stale") BY <2>r, <3>1, <4>2, <4>3 DEF Records!Answer
      <4>5. stored[Request[p].key].version # Request[p].expected BY <2>r, <3>1, <3>3
      <4>6. Records!Refuse(p) BY <3>1, <4>4, <4>5 DEF Records!Refuse
      <4> QED BY <4>6 DEF Records!Next
    <3> QED BY <2>3, <3>2, <3>3 DEF Get
  <2>4. ASSUME NEW p \in Client, Exec(p) \/ ExecUnanswered(p) PROVE Records!Win(p)
    <3>1. Waiting(p) /\ StoreStep(p) /\ Write(p)
      BY <2>4 DEF Exec, ExecUnanswered, Waiting, StoreStep
    <3>2. stored[key[p]].version = Expected(p)
      BY <2>4, WriteFacts DEF Exec, ExecUnanswered
    <3>3. at'[p] \in {"idle", "watch"} BY <2>a, <2>4, JobType DEF Exec, ExecUnanswered
    <3>4. Request' = [Request EXCEPT ![p] = Records!None] BY <2>e, <3>1, <3>3
    <3>5. \E o \in {"ok", "failed"} : outcome' = [outcome EXCEPT ![p] = o]
      BY <2>4 DEF Exec, ExecUnanswered, Continue, AbortJob
    <3>6. stored' = [stored EXCEPT ![key[p]] = [version |-> Expected(p) + 1, writer |-> p]]
      BY <3>1 DEF Write
    <3>7. \E o \in {"ok", "failed"} : Records!Answer(p, o)
      BY <2>r, <3>1, <3>4, <3>5 DEF Records!Answer
    <3>8. Request[p].key = key[p] /\ Request[p].expected = Expected(p) BY <2>r, <3>1
    <3> QED BY <3>2, <3>6, <3>7, <3>8 DEF Records!Win
  <2>5. ASSUME NEW p \in Client, ExecRefused(p) PROVE UNCHANGED Records!vars
    <3>1. /\ Waiting(p) /\ Waiting(p)' /\ key'[p] = key[p] /\ Expected(p)' = Expected(p)
          /\ UNCHANGED <<stored, outcome>>
      BY <2>a, <2>5 DEF ExecRefused, Waiting, Expected, Base, StoreTypeOK
    <3>2. Request' = Request BY <2>5, <2>d, <3>1 DEF StoreStep
    <3> QED BY <3>1, <3>2
  <2>6. ASSUME NEW p \in Client, RereadLatest(p) PROVE Records!Refuse(p)
    <3>1. Waiting(p) /\ UNCHANGED stored /\ Later(p)
      BY <2>a, <2>6 DEF RereadLatest, Waiting, WatchInv, Watching
    <3>2. at'[p] \in {"idle", "watch"} BY <2>a, <2>6, JobType DEF RereadLatest
    <3>3. Request' = [Request EXCEPT ![p] = Records!None] BY <2>6, <2>e, <3>1, <3>2 DEF StoreStep
    <3>4. outcome' = [outcome EXCEPT ![p] = "stale"] BY <2>6 DEF RereadLatest, Continue
    <3>5. key[p] \in Removable \/ stored[key[p]].version # Expected(p)
      <4>1. key[p] \in Key /\ Expected(p) \in Nat /\ stored[key[p]].version \in Nat
        BY <2>a, BaseType DEF StoreTypeOK, StoredRecord
      <4>2. \A m, n \in Nat : m > n => m # n OBVIOUS
      <4> QED BY <3>1, <4>1, <4>2 DEF Later
    <3>6. Records!Answer(p, "stale") BY <2>r, <3>1, <3>3, <3>4 DEF Records!Answer
    <3>7. Request[p].key = key[p] /\ Request[p].expected = Expected(p) BY <2>r, <3>1
    <3> QED BY <3>1, <3>5, <3>6, <3>7 DEF Records!Refuse
  <2>7. ASSUME NEW p \in Client, Drop(p) PROVE [Records!Next]_Records!vars
    <3>1. UNCHANGED stored BY <2>7 DEF Drop
    <3>2. at'[p] = "idle" BY <2>a, <2>7 DEF Drop, AbortJob, StoreTypeOK
    <3>3. CASE at[p] \in {"index", "records", "watch"}
      <4>1. ~Waiting(p) /\ ~Waiting(p)' /\ UNCHANGED outcome
        BY <2>7, <3>2, <3>3 DEF Drop, Waiting
      <4>2. Request' = Request BY <2>7, <2>d, <4>1 DEF StoreStep
      <4> QED BY <3>1, <4>1, <4>2
    <3>4. CASE at[p] \notin {"index", "records", "watch"}
      <4>1. Waiting(p) /\ outcome' = [outcome EXCEPT ![p] = "failed"]
        BY <2>a, <2>7, <3>4 DEF Drop, AbortJob, Waiting, StoreTypeOK
      <4>2. Request' = [Request EXCEPT ![p] = Records!None] BY <2>7, <2>e, <3>2, <4>1 DEF StoreStep
      <4>3. Records!Fail(p) BY <2>b, <3>1, <4>1, <4>2 DEF Records!Fail, Records!Answer
      <4> QED BY <4>3 DEF Records!Next
    <3> QED BY <3>3, <3>4
  <2>8. ASSUME NEW p \in Client, NEW k \in Removable, Remove(p, k) PROVE Records!Remove(k)
    <3>1. ~Waiting(p) /\ ~Waiting(p)' BY <2>8 DEF Remove, Waiting
    <3>2. Request' = Request BY <2>8, <2>d, <3>1 DEF StoreStep
    <3>3. stored' = [stored EXCEPT ![k] = Absent] /\ UNCHANGED outcome BY <2>8 DEF Remove
    <3> QED BY <3>2, <3>3 DEF Records!Remove, Absent
  <2>9. CASE UNCHANGED storeVars
    BY <2>9 DEF storeVars, Request, Waiting, Expected, Base
  <2> QED
    BY <2>1, <2>2, <2>3, <2>4, <2>5, <2>6, <2>7, <2>8, <2>9 DEF StoreNext, StoreStep, Records!Next
<1> QED BY <1>1, <1>2, StoreInvAlways, PTL DEF StoreSpec, AtomicPublication, Records!Spec
-----------------------------------------------------------------------------
(* A record is in the index, and no older than what its writers were told.  *)
StoredInv ==
    /\ \A k \in Key \ {Meta} : stored[k].version # 0 => k \in index
    /\ \A p \in Client, k \in Key \ removed : wrote[p][k] <= stored[k].version

(* A process that reads has not fallen behind what it wrote before.         *)
Reader(p) ==
    /\ at[p] \in {"index", "records"} => wrote[p][Meta] <= draft[p].version
    /\ at[p] = "records" =>
           \A k \in Key \ (removed \cup {Meta}) : wrote[p][k] # 0 => k \in members[p]

SeenInv == StoredInv /\ \A p \in Client : Reader(p)

(* While a process does not read, it has nothing to keep up with.           *)
LEMMA NotReading ==
    ASSUME NEW p \in Client, at'[p] \notin {"index", "records"}
    PROVE  Reader(p)'
  BY DEF Reader

(* A reader keeps up while it is not its turn and others publish.           *)
LEMMA ReaderKept ==
    ASSUME NEW p \in Client, Reader(p), at'[p] = at[p], draft'[p] = draft[p],
           members'[p] = members[p], removed \subseteq removed',
           \A k \in Key \ removed' : wrote'[p][k] = wrote[p][k], Meta \in Key \ removed'
    PROVE  Reader(p)'
  BY DEF Reader

LEMMA StoredKept ==
    ASSUME StoredInv, UNCHANGED <<stored, removed, index, wrote>>
    PROVE  StoredInv'
  BY DEF StoredInv

LEMMA SeenStep == ASSUME StoreInv, SeenInv, [StoreNext]_storeVars PROVE SeenInv'
<1> USE DEF store, reading, working
<1>a. StoreTypeOK /\ StoredInv /\ Meta \in Key \ removed /\ Meta \in Key \ removed'
  <2>1. removed' \subseteq Removable BY StoreTypeStep DEF StoreTypeOK
  <2> QED BY <2>1, StoreAssumption DEF StoreInv, SeenInv, StoreTypeOK
(* A step that neither writes nor reads.                                    *)
<1>b. ASSUME NEW p \in Client, StoreStep(p), at'[p] \notin {"index", "records"},
             UNCHANGED <<stored, removed, index, wrote>>,
             \A q \in Client \ {p} : draft'[q] = draft[q] /\ members'[q] = members[q]
      PROVE  SeenInv'
  <2>1. ASSUME NEW q \in Client \ {p} PROVE Reader(q)'
    BY <1>a, <1>b, OthersStep, ReaderKept DEF SeenInv
  <2> QED BY <1>a, <1>b, <2>1, NotReading, StoredKept DEF SeenInv
<1>1. ASSUME NEW p \in Client,
             Watch(p) \/ Get(p) \/ ExecRefused(p) \/ RereadLatest(p)
               \/ (\E k \in Key : BeginPublish(p, k))
               \/ (\E K \in SUBSET Key : BeginImport(p, K))
      PROVE  SeenInv'
  <2>1. UNCHANGED <<stored, removed, index, wrote, draft, members>>
    BY <1>1 DEF Watch, Get, ExecRefused, RereadLatest, BeginPublish, BeginImport
  <2>2. at'[p] \notin {"index", "records"}
    <3>1. CASE Get(p) \/ RereadLatest(p)
      BY <1>a, <3>1, JobType DEF Get, RereadLatest, StoreTypeOK
    <3>2. CASE ~(Get(p) \/ RereadLatest(p))
      BY <1>a, <1>1, <3>2 DEF Watch, ExecRefused, BeginPublish, BeginImport, StoreTypeOK
    <3> QED BY <3>1, <3>2
  <2> QED BY <1>b, <1>1, <2>1, <2>2 DEF StoreStep
<1>2. ASSUME NEW p \in Client, ReadRecords(p) \/ Drop(p) PROVE SeenInv'
  <2>1. /\ UNCHANGED <<stored, removed, index, wrote>> /\ at'[p] = "idle"
        /\ \A q \in Client \ {p} : draft'[q] = draft[q] /\ members'[q] = members[q]
    BY <1>a, <1>2 DEF ReadRecords, Drop, StopReading, AbortJob, StoreTypeOK
  <2> QED BY <1>b, <1>2, <2>1 DEF StoreStep
<1>3. ASSUME NEW p \in Client, ReadMeta(p) PROVE SeenInv'
  <2>1. /\ UNCHANGED <<stored, removed, index, wrote, members>>
        /\ at'[p] = "index" /\ draft'[p] = stored[Meta]
        /\ \A q \in Client \ {p} : draft'[q] = draft[q] /\ at'[q] = at[q]
    BY <1>a, <1>3 DEF ReadMeta, StoreTypeOK
  <2>2. Reader(p)' BY <1>a, <2>1 DEF StoredInv, Reader
  <2>3. ASSUME NEW q \in Client \ {p} PROVE Reader(q)'
    BY <1>a, <2>1, ReaderKept DEF SeenInv
  <2> QED BY <1>a, <2>1, <2>2, <2>3, StoredKept DEF SeenInv
<1>4. ASSUME NEW p \in Client, ReadIndex(p) PROVE SeenInv'
  <2>1. /\ UNCHANGED <<stored, removed, index, wrote, draft>>
        /\ at[p] = "index" /\ at'[p] = "records" /\ members'[p] = index
        /\ \A q \in Client \ {p} : members'[q] = members[q] /\ at'[q] = at[q]
    BY <1>a, <1>4 DEF ReadIndex, StoreTypeOK
  <2>2. ASSUME NEW k \in Key \ (removed \cup {Meta}), wrote[p][k] # 0
        PROVE  k \in index
    <3>1. wrote[p][k] <= stored[k].version /\ (stored[k].version # 0 => k \in index)
      BY <1>a DEF StoredInv
    <3>2. wrote[p][k] \in Nat /\ stored[k].version \in Nat BY <1>a DEF StoreTypeOK, StoredRecord
    <3> QED BY <2>2, <3>1, <3>2
  <2>3. Reader(p)' BY <2>1, <2>2 DEF SeenInv, Reader
  <2>4. ASSUME NEW q \in Client \ {p} PROVE Reader(q)'
    BY <1>a, <2>1, ReaderKept DEF SeenInv
  <2> QED BY <1>a, <2>1, <2>3, <2>4, StoredKept DEF SeenInv
<1>5. ASSUME NEW p \in Client, Exec(p) \/ ExecUnanswered(p) PROVE SeenInv'
  <2>0. at[p] = "exec" /\ ~dirty[p] /\ Write(p) /\ StoreStep(p) /\ UNCHANGED <<draft, members>>
    BY <1>5 DEF Exec, ExecUnanswered, StoreStep
  <2>1. /\ key[p] \in Key /\ Expected(p) \in Nat /\ stored[key[p]].version = Expected(p)
        /\ stored'[key[p]] = [version |-> Expected(p) + 1, writer |-> p]
        /\ \A k \in Key \ {key[p]} : stored'[k] = stored[k]
        /\ removed' = removed
    BY <2>0, WriteFacts
  <2>2. stored'[key[p]].version = Expected(p) + 1 BY <2>1
  <2>3. index' = index \cup ({key[p]} \ {Meta}) BY <2>0 DEF Write
  <2>4. \A q \in Client, k \in Key :
            \/ wrote'[q][k] = wrote[q][k]
            \/ q = p /\ k = key[p] /\ wrote'[q][k] = Expected(p) + 1
    BY <1>a, <1>5, <2>1 DEF Exec, ExecUnanswered, StoreTypeOK
  <2>5. \A k \in Key \ {Meta} : stored'[k].version # 0 => k \in index'
    BY <1>a, <2>1, <2>3 DEF StoredInv
  <2>6. ASSUME NEW q \in Client, NEW k \in Key \ removed
        PROVE  wrote'[q][k] <= stored'[k].version
    <3>1. wrote[q][k] \in Nat /\ wrote[q][k] <= stored[k].version BY <1>a DEF StoredInv, StoreTypeOK
    <3> QED BY <2>1, <2>2, <2>4, <3>1
  <2>7. StoredInv' BY <2>1, <2>5, <2>6 DEF StoredInv
  <2>8. at'[p] \in {"idle", "watch"} BY <1>a, <1>5, JobType DEF Exec, ExecUnanswered
  <2>9. ASSUME NEW q \in Client \ {p} PROVE Reader(q)'
    <3>1. at'[q] = at[q] BY <2>0, OthersStep
    <3>2. \A k \in Key \ removed' : wrote'[q][k] = wrote[q][k] BY <2>4
    <3> QED BY <1>a, <2>0, <2>1, <3>1, <3>2, ReaderKept DEF SeenInv
  <2> QED BY <2>7, <2>8, <2>9, NotReading DEF SeenInv
<1>6. ASSUME NEW p \in Client, NEW j \in Removable, Remove(p, j) PROVE SeenInv'
  <2>1. /\ UNCHANGED <<index, draft, members, at>> /\ removed' = removed \cup {j}
        /\ \A k \in Key \ {j} : stored'[k] = stored[k]
        /\ stored'[j].version = 0
        /\ \A q \in Client, k \in Key \ {j} : wrote'[q][k] = wrote[q][k]
    <3>1. j \in Key /\ Absent.version = 0 BY StoreAssumption DEF Absent
    <3> QED BY <1>a, <1>6, <3>1 DEF Remove, StoreTypeOK
  <2>2. StoredInv' BY <1>a, <2>1 DEF StoredInv
  <2>3. ASSUME NEW q \in Client PROVE Reader(q)'
    BY <1>a, <2>1, ReaderKept DEF SeenInv
  <2> QED BY <2>2, <2>3 DEF SeenInv
<1>7. CASE UNCHANGED storeVars
  BY <1>7 DEF storeVars, SeenInv, StoredInv, Reader
<1> QED
  BY <1>1, <1>2, <1>3, <1>4, <1>5, <1>6, <1>7 DEF StoreNext, StoreStep

LEMMA AlwaysSeen == StoreSpec => []SeenInv
<1>1. ASSUME StoreInit PROVE SeenInv
  <2>1. Absent.version = 0 /\ 0 <= 0 BY DEF Absent
  <2> QED BY <1>1, <2>1, StoreAssumption DEF StoreInit, SeenInv, StoredInv, Reader
<1> QED BY <1>1, SeenStep, StoreInvAlways, PTL DEF StoreSpec

(* A process that was told it published a record finds it, or a later one,  *)
(* in every snapshot readRedisState returns to it afterwards.  The snapshot *)
(* is put together at three moments: what was published before is in the    *)
(* meta record, in the index, and in the records read by way of the index.  *)
THEOREM OwnWritesRead == StoreSpec => ReadsItsWrites
<1> DEFINE Found == \A p \in Client, k \in Key \ removed :
                        at[p] = "records" /\ at'[p] = "idle" /\ snapshot'[p] # snapshot[p]
                          => snapshot'[p][k].version >= wrote[p][k]
<1>1. StoreInv /\ SeenInv /\ [StoreNext]_storeVars => [Found]_storeVars
  <2> SUFFICES ASSUME StoreInv, SeenInv, [StoreNext]_storeVars, NEW p \in Client, NEW k \in Key \ removed,
                      at[p] = "records", snapshot'[p] # snapshot[p]
               PROVE  snapshot'[p][k].version >= wrote[p][k]
    OBVIOUS
  <2>1. StoreTypeOK /\ StoredInv /\ Reader(p) BY DEF StoreInv, SeenInv
  <2>2. ReadRecords(p) BY <2>1, SnapChanged
  <2>3. snapshot'[p][k] = IF k = Meta THEN draft[p] ELSE IF k \in members[p] THEN stored[k] ELSE Absent
    BY <2>1, <2>2 DEF ReadRecords, StoreTypeOK
  <2>4. wrote[p][k] \in Nat /\ draft[p].version \in Nat /\ stored[k].version \in Nat
    BY <2>1 DEF StoreTypeOK, StoredRecord
  <2>5. CASE k = Meta
    <3>1. wrote[p][k] <= draft[p].version BY <2>1, <2>5 DEF Reader
    <3> QED BY <2>3, <2>4, <2>5, <3>1
  <2>6. CASE k # Meta /\ k \in members[p]
    <3>1. wrote[p][k] <= stored[k].version BY <2>1 DEF StoredInv
    <3> QED BY <2>3, <2>4, <2>6, <3>1
  <2>7. CASE k # Meta /\ k \notin members[p]
    <3>1. wrote[p][k] = 0 BY <2>1, <2>7 DEF Reader
    <3>2. Absent.version = 0 BY DEF Absent
    <3> QED BY <2>3, <2>7, <3>1, <3>2
  <2> QED BY <2>5, <2>6, <2>7
<1> QED BY <1>1, StoreInvAlways, AlwaysSeen, PTL DEF StoreSpec, ReadsItsWrites

-----------------------------------------------------------------------------
(* The lease.                                                              *)

(* The messages of a queue, and the two shapes of queue the proof needs:   *)
(* at most one message, and no message after a release.                    *)
Messages(s) == {s[i] : i \in 1 .. Len(s)}
AtMostOne(s) == s = <<>> \/ Tail(s) = <<>>
ReleaseLast(s) == \A i \in 1 .. Len(s) : s[i].op = "release" => i = Len(s)

(* The local side starts empty; only a handle that asked has a token.      *)
LocalInv ==
    \A h \in Handle :
      /\ status[h] = "none" => sent[h] = <<>> /\ answers[h] = <<>> /\ token[h] = NoToken
      /\ status[h] # "none" => token[h] \in minted

(* A handle that asks waits for that one answer; such a handle, and no     *)
(* other, has an acquisition or a join on its way.                         *)
Asks(message) == message.op \in {"acquire", "join"}

WaitsForOne(h) ==
    /\ status[h] = "asking" =>
         /\ sent[h] = <<>> \/ answers[h] = <<>>
         /\ AtMostOne(sent[h])
         /\ AtMostOne(answers[h])
    /\ \A m \in Messages(sent[h]) \cup Messages(answers[h]) :
         Asks(m) <=> status[h] = "asking"

AskingInv == \A h \in Handle : WaitsForOne(h)

(* Commands were sent in the past; a release is the last command of its    *)
(* connection, and its token is retired.                                   *)
SentEarlier(h) ==
    /\ ReleaseLast(sent[h])
    /\ \A m \in Messages(sent[h]) :
         m.at <= now /\ (m.op = "release" => token[h] \in retired)

CommandInv == \A h \in Handle : SentEarlier(h)

(* A retired token has one holder, a freed one nothing on its way.         *)
ReleaseInv ==
    /\ \A g, h \in Handle : token[g] = token[h] /\ token[h] \in retired => g = h
    /\ \A h \in Handle : token[h] \in freed => sent[h] = <<>>
    /\ owner \notin freed

(* A good reply that is still young, read or not, means ownership, the key *)
(* outlives what the reply entitles to, and no reply entitles to more than *)
(* a renewal executed now.                                                 *)
Covers(h, end) ==
    /\ end <= now + Ttl
    /\ now < end => owner = token[h] /\ end <= expiresAt

Entitled(h) ==
    /\ status[h] # "live" => until[h] = 0
    /\ token[h] \notin retired =>
         /\ Covers(h, until[h])
         /\ \A m \in Messages(answers[h]) : m.ok => Covers(h, m.at + Ttl)

EntitlementInv == \A h \in Handle : Entitled(h)

IInv == TypeOK /\ LocalInv /\ AskingInv /\ CommandInv /\ ReleaseInv /\ EntitlementInv

-----------------------------------------------------------------------------
(* What appending to a queue and taking its head do to these shapes.       *)
LEMMA EmptyFacts ==
    /\ Messages(<<>>) = {}
    /\ AtMostOne(<<>>)
    /\ ReleaseLast(<<>>)
    /\ \A S : <<>> \in Seq(S)
<1>1. \A S : <<>> \in Seq(S) /\ Len(<<>>) = 0 BY EmptySeq
<1> QED BY <1>1 DEF Messages, AtMostOne, ReleaseLast

LEMMA MessageType ==
    ASSUME NEW S, NEW s \in Seq(S)
    PROVE  Messages(s) \subseteq S
BY ElementOfSeq DEF Messages

LEMMA AppendFacts ==
    ASSUME NEW S, NEW s \in Seq(S), NEW e \in S
    PROVE  /\ Append(s, e) \in Seq(S)
           /\ Messages(Append(s, e)) = Messages(s) \cup {e}
           /\ s = <<>> => AtMostOne(Append(s, e))
           /\ (\A m \in Messages(s) : m.op # "release") => ReleaseLast(Append(s, e))
<1>1. /\ Append(s, e) \in Seq(S)
      /\ Len(Append(s, e)) = Len(s) + 1
      /\ \A i \in 1 .. Len(s) : Append(s, e)[i] = s[i]
      /\ Append(s, e)[Len(s) + 1] = e
      /\ Len(s) \in Nat
  OBVIOUS
<1>2. Messages(Append(s, e)) = Messages(s) \cup {e}
  <2>1. ASSUME NEW i \in 1 .. Len(Append(s, e)) PROVE Append(s, e)[i] \in Messages(s) \cup {e}
    <3>1. CASE i \in 1 .. Len(s) BY <1>1, <3>1 DEF Messages
    <3>2. CASE i = Len(s) + 1 BY <1>1, <3>2
    <3> QED BY <1>1, <3>1, <3>2
  <2>2. ASSUME NEW i \in 1 .. Len(s) PROVE s[i] \in Messages(Append(s, e))
    BY <1>1 DEF Messages
  <2>3. e \in Messages(Append(s, e))
    BY <1>1 DEF Messages
  <2> QED BY <2>1, <2>2, <2>3 DEF Messages
<1>3. s = <<>> => AtMostOne(Append(s, e))
  BY DEF AtMostOne
<1>4. ASSUME \A m \in Messages(s) : m.op # "release" PROVE ReleaseLast(Append(s, e))
  <2>1. \A i \in 1 .. Len(s) : s[i].op # "release" BY <1>4 DEF Messages
  <2> QED BY <1>1, <2>1 DEF ReleaseLast
<1> QED BY <1>1, <1>2, <1>3, <1>4

LEMMA TailFacts ==
    ASSUME NEW S, NEW s \in Seq(S), s # <<>>
    PROVE  /\ Head(s) \in S
           /\ Head(s) \in Messages(s)
           /\ Tail(s) \in Seq(S)
           /\ Messages(Tail(s)) \subseteq Messages(s)
           /\ AtMostOne(s) => Tail(s) = <<>>
           /\ ReleaseLast(s) => ReleaseLast(Tail(s))
           /\ ReleaseLast(s) /\ Head(s).op = "release" => Tail(s) = <<>>
<1>1. Len(s) \in Nat \ {0} BY EmptySeq
<1>2. /\ Head(s) = s[1] /\ Head(s) \in S /\ Tail(s) \in Seq(S)
      /\ Len(Tail(s)) = Len(s) - 1
      /\ \A i \in 1 .. Len(Tail(s)) : Tail(s)[i] = s[i + 1]
  BY HeadTailProperties
<1>3. Tail(s) # <<>> => Len(Tail(s)) # 0
  BY <1>2, EmptySeq
<1>4. Head(s) \in Messages(s)
  BY <1>1, <1>2 DEF Messages
<1>5. Messages(Tail(s)) \subseteq Messages(s)
  BY <1>1, <1>2 DEF Messages
<1>6. ASSUME ReleaseLast(s) PROVE ReleaseLast(Tail(s))
  <2>1. ASSUME NEW i \in 1 .. Len(Tail(s)), Tail(s)[i].op = "release"
        PROVE  i = Len(Tail(s))
    <3>1. i + 1 \in 1 .. Len(s) /\ s[i + 1].op = "release" BY <1>1, <1>2, <2>1
    <3>2. i + 1 = Len(s) BY <1>6, <3>1 DEF ReleaseLast
    <3>3. ASSUME NEW n \in Nat, NEW k, k = n - 1, NEW j \in 1 .. k, j + 1 = n PROVE j = k
      BY <3>3
    <3> QED BY <1>1, <1>2, <3>2, <3>3
  <2> QED BY <2>1 DEF ReleaseLast
<1>7. ASSUME ReleaseLast(s), Head(s).op = "release" PROVE Len(s) = 1
  <2>1. 1 \in 1 .. Len(s) BY <1>1
  <2>2. s[1].op = "release" BY <1>2, <1>7
  <2> QED BY <1>7, <2>1, <2>2 DEF ReleaseLast
<1> QED BY <1>2, <1>3, <1>4, <1>5, <1>6, <1>7 DEF AtMostOne

(* A command written to a connection becomes the last of its queue.        *)
LEMMA SendFacts ==
    ASSUME TypeOK, NEW h \in Handle, NEW op \in Op, Send(h, op)
    PROVE  /\ sent' \in [Handle -> Seq(Command)]
           /\ Messages(sent'[h]) = Messages(sent[h]) \cup {[op |-> op, at |-> now]}
           /\ sent[h] = <<>> => AtMostOne(sent'[h])
           /\ (\A m \in Messages(sent[h]) : m.op # "release") => ReleaseLast(sent'[h])
           /\ \A g \in Handle \ {h} : sent'[g] = sent[g]
<1> DEFINE c == [op |-> op, at |-> now]
<1>1. c \in Command BY DEF TypeOK, Command
<1> HIDE DEF c
<1>2. sent' = [sent EXCEPT ![h] = Append(@, c)] BY DEF Send, c
<1>3. sent'[h] = Append(sent[h], c) /\ sent[h] \in Seq(Command)
      /\ \A g \in Handle \ {h} : sent'[g] = sent[g]
  BY <1>2 DEF TypeOK
<1>4. Append(sent[h], c) \in Seq(Command) BY <1>1, <1>3, AppendFacts
<1>5. sent' \in [Handle -> Seq(Command)] BY <1>2, <1>4 DEF TypeOK
<1>6. /\ Messages(sent'[h]) = Messages(sent[h]) \cup {c}
      /\ sent[h] = <<>> => AtMostOne(sent'[h])
      /\ (\A m \in Messages(sent[h]) : m.op # "release") => ReleaseLast(sent'[h])
  BY <1>1, <1>3, AppendFacts
<1> QED BY <1>3, <1>5, <1>6 DEF c

(* A command executed by Redis leaves the front of one queue, its reply    *)
(* becomes the last of the other.                                          *)
LEMMA ReplyFacts ==
    ASSUME TypeOK, NEW h \in Handle, NEW ok \in BOOLEAN, sent[h] # <<>>, Reply(h, ok)
    PROVE  /\ sent' \in [Handle -> Seq(Command)]
           /\ answers' \in [Handle -> Seq(Answer)]
           /\ Head(sent[h]) \in Command
           /\ Head(sent[h]) \in Messages(sent[h])
           /\ sent'[h] = Tail(sent[h])
           /\ Messages(sent'[h]) \subseteq Messages(sent[h])
           /\ Messages(answers'[h]) = Messages(answers[h]) \cup
                {[op |-> Head(sent[h]).op, at |-> Head(sent[h]).at, ok |-> ok]}
           /\ AtMostOne(sent[h]) => sent'[h] = <<>>
           /\ answers[h] = <<>> => AtMostOne(answers'[h])
           /\ ReleaseLast(sent[h]) => ReleaseLast(sent'[h])
           /\ \A g \in Handle \ {h} : sent'[g] = sent[g] /\ answers'[g] = answers[g]
<1> DEFINE a == [op |-> Head(sent[h]).op, at |-> Head(sent[h]).at, ok |-> ok]
<1>1. sent[h] \in Seq(Command) /\ answers[h] \in Seq(Answer) BY DEF TypeOK
<1>2. /\ Head(sent[h]) \in Command
      /\ Head(sent[h]) \in Messages(sent[h])
      /\ Tail(sent[h]) \in Seq(Command)
      /\ Messages(Tail(sent[h])) \subseteq Messages(sent[h])
      /\ AtMostOne(sent[h]) => Tail(sent[h]) = <<>>
      /\ ReleaseLast(sent[h]) => ReleaseLast(Tail(sent[h]))
  BY <1>1, TailFacts
<1>3. a \in Answer BY <1>2 DEF Command, Answer
<1>4. sent' = [sent EXCEPT ![h] = Tail(@)] /\ answers' = [answers EXCEPT ![h] = Append(@, a)]
  BY DEF Reply
<1> HIDE DEF a
<1>5. /\ Append(answers[h], a) \in Seq(Answer)
      /\ Messages(Append(answers[h], a)) = Messages(answers[h]) \cup {a}
      /\ answers[h] = <<>> => AtMostOne(Append(answers[h], a))
  BY <1>1, <1>3, AppendFacts
<1>6. /\ sent' \in [Handle -> Seq(Command)] /\ answers' \in [Handle -> Seq(Answer)]
      /\ sent'[h] = Tail(sent[h]) /\ answers'[h] = Append(answers[h], a)
      /\ \A g \in Handle \ {h} : sent'[g] = sent[g] /\ answers'[g] = answers[g]
  BY <1>2, <1>4, <1>5 DEF TypeOK
<1> QED BY <1>2, <1>5, <1>6 DEF a

(* A reply that is read leaves the front of its queue.                     *)
LEMMA ReadFacts ==
    ASSUME TypeOK, NEW h \in Handle, answers[h] # <<>>, Read(h)
    PROVE  /\ answers' \in [Handle -> Seq(Answer)]
           /\ Head(answers[h]) \in Answer
           /\ Head(answers[h]) \in Messages(answers[h])
           /\ answers'[h] = Tail(answers[h])
           /\ Messages(answers'[h]) \subseteq Messages(answers[h])
           /\ \A g \in Handle \ {h} : answers'[g] = answers[g]
<1>1. answers[h] \in Seq(Answer) BY DEF TypeOK
<1>2. /\ Head(answers[h]) \in Answer
      /\ Head(answers[h]) \in Messages(answers[h])
      /\ Tail(answers[h]) \in Seq(Answer)
      /\ Messages(Tail(answers[h])) \subseteq Messages(answers[h])
  BY <1>1, TailFacts
<1>3. /\ answers' \in [Handle -> Seq(Answer)]
      /\ answers'[h] = Tail(answers[h])
      /\ \A g \in Handle \ {h} : answers'[g] = answers[g]
  BY <1>2 DEF Read, TypeOK
<1> QED BY <1>2, <1>3

LEMMA DiscardType ==
    ASSUME TypeOK, NEW h \in Handle, Discard(h)
    PROVE  /\ status' \in [Handle -> {"none", "asking", "live"}]
           /\ token' \in [Handle -> Token \cup {NoToken}]
           /\ active' \in [Handle -> BOOLEAN]
           /\ until' \in [Handle -> Nat]
           /\ sent' \in [Handle -> Seq(Command)]
           /\ answers' \in [Handle -> Seq(Answer)]
<1>1. <<>> \in Seq(Command) /\ <<>> \in Seq(Answer) BY EmptyFacts
<1> QED BY <1>1 DEF Discard, TypeOK

(* When Redis is about to execute a release, it is the only command left   *)
(* on its connection and its token is retired.                             *)
LEMMA ReleaseHead ==
    ASSUME IInv, NEW h \in Handle, Executing(h, "release")
    PROVE  token[h] \in retired /\ Tail(sent[h]) = <<>>
<1>1. sent[h] \in Seq(Command) /\ sent[h] # <<>> /\ Head(sent[h]).op = "release"
  BY DEF IInv, TypeOK, Executing
<1>2. SentEarlier(h) BY DEF IInv, CommandInv
<1>3. Head(sent[h]) \in Messages(sent[h]) BY <1>1, TailFacts
<1>4. token[h] \in retired BY <1>1, <1>2, <1>3 DEF SentEarlier
<1>5. Tail(sent[h]) = <<>> BY <1>1, <1>2, TailFacts DEF SentEarlier
<1> QED BY <1>4, <1>5

(* A command that may set the key sets it to the handle's token with a     *)
(* full TTL, or leaves it alone, and it is answered accordingly.           *)
LEMMA SetFacts ==
    ASSUME NEW h \in Handle,
           ExecAcquire(h) \/ ExecRenew(h) \/ ExecRenewOrReacquire(h)
    PROVE  /\ sent[h] # <<>>
           /\ UNCHANGED <<now, minted, retired, freed, local>>
           /\ \/ /\ owner \in {NoToken, token[h]}
                 /\ owner' = token[h]
                 /\ expiresAt' = now + Ttl
                 /\ Reply(h, TRUE)
              \/ /\ UNCHANGED <<owner, expiresAt>>
                 /\ Reply(h, FALSE)
BY ZenonT(30) DEF ExecAcquire, ExecRenew, ExecRenewOrReacquire, Executing, SetWithExpiry

(* When the answer to an acquisition or a join is read, nothing else of    *)
(* the handle is in flight.                                                *)
LEMMA AskedHead ==
    ASSUME IInv, NEW h \in Handle, Reading(h, {"acquire", "join"})
    PROVE  status[h] = "asking" /\ Tail(answers[h]) = <<>> /\ sent[h] = <<>>
<1>1. answers[h] \in Seq(Answer) /\ answers[h] # <<>> /\ Asks(Head(answers[h]))
  BY DEF IInv, TypeOK, Reading, Asks
<1>2. WaitsForOne(h) BY DEF IInv, AskingInv
<1>3. Head(answers[h]) \in Messages(answers[h]) BY <1>1, TailFacts
<1>4. status[h] = "asking" BY <1>1, <1>2, <1>3 DEF WaitsForOne
<1>5. sent[h] = <<>> /\ AtMostOne(answers[h]) BY <1>1, <1>2, <1>4 DEF WaitsForOne
<1> QED BY <1>1, <1>4, <1>5, TailFacts

(* A release frees the key when its token owns it.                         *)
LEMMA ReleaseFacts ==
    ASSUME NEW h \in Handle, ExecRelease(h)
    PROVE  /\ sent[h] # <<>>
           /\ UNCHANGED <<now, expiresAt, minted, retired, local>>
           /\ freed' = freed \cup {token[h]}
           /\ \/ owner = token[h] /\ owner' = NoToken /\ Reply(h, TRUE)
              \/ owner # token[h] /\ owner' = owner /\ Reply(h, FALSE)
BY ZenonT(30) DEF ExecRelease, Executing

-----------------------------------------------------------------------------
(* Type correctness.  That a release names a minted token and frees a      *)
(* retired one comes from the other parts of the invariant.                *)
LEMMA TypeStep == ASSUME IInv, [Next]_vars PROVE TypeOK'
<1> USE DEF Op, redis, local
<1>a. Ttl \in Nat /\ TypeOK BY ConstantsAssumption DEF IInv
<1>1. ASSUME NEW h \in Handle, Acquire(h) PROVE TypeOK'
  BY <1>a, <1>1, SendFacts DEF Acquire, TypeOK
<1>2. ASSUME NEW h \in Handle, Join(h) PROVE TypeOK'
  BY <1>a, <1>2, SendFacts DEF Join, TypeOK
<1>3. ASSUME NEW h \in Handle, Renew(h) PROVE TypeOK'
  BY <1>a, <1>3, SendFacts DEF Renew, TypeOK
<1>4. ASSUME NEW h \in Handle, Recover(h) PROVE TypeOK'
  BY <1>a, <1>4, SendFacts DEF Recover, TypeOK
<1>5. ASSUME NEW h \in Handle, Release(h) PROVE TypeOK'
  <2>1. token[h] \in minted BY <1>5 DEF Release, Usable, IInv, LocalInv
  <2> QED BY <1>a, <1>5, <2>1, SendFacts DEF Release, TypeOK
<1>6. ASSUME NEW h \in Handle, ExecAcquire(h) \/ ExecRenew(h) \/ ExecRenewOrReacquire(h)
      PROVE  TypeOK'
  <2>1. PICK ok \in BOOLEAN : Reply(h, ok)
    BY <1>6, SetFacts
  <2>2. sent' \in [Handle -> Seq(Command)] /\ answers' \in [Handle -> Seq(Answer)]
    BY <1>a, <1>6, <2>1, SetFacts, ReplyFacts
  <2>3. \/ owner' = token[h] /\ expiresAt' = now + Ttl
        \/ UNCHANGED <<owner, expiresAt>>
    BY <1>6, SetFacts
  <2>4. UNCHANGED <<now, minted, retired, freed, local>>
    BY <1>6, SetFacts
  <2> QED BY <1>a, <2>2, <2>3, <2>4 DEF TypeOK
<1>7. ASSUME NEW h \in Handle, ExecRelease(h) PROVE TypeOK'
  <2>1. sent' \in [Handle -> Seq(Command)] /\ answers' \in [Handle -> Seq(Answer)]
    BY <1>a, <1>7, ReplyFacts DEF ExecRelease, Executing
  <2>2. token[h] \in retired
    BY <1>7, ReleaseHead DEF ExecRelease
  <2> QED BY <1>a, <1>7, <2>1, <2>2 DEF ExecRelease, TypeOK
<1>8. ASSUME NEW h \in Handle, ReadAcquired(h) PROVE TypeOK'
  <2>1. answers' \in [Handle -> Seq(Answer)] /\ Head(answers[h]).at \in Nat
    BY <1>a, <1>8, ReadFacts DEF ReadAcquired, Reading, Answer
  <2>2. until' \in [Handle -> Nat]
    <3>1. Entitle(h) \/ until' = until
      BY <1>8 DEF ReadAcquired
    <3>2. until \in [Handle -> Nat] /\ Head(answers[h]).at + Ttl \in Nat
      BY <1>a, <2>1, ConstantsAssumption DEF TypeOK, Answer
    <3> QED  BY <3>1, <3>2 DEF Entitle
  <2> QED BY <1>a, <1>8, <2>1, <2>2 DEF ReadAcquired, TypeOK
<1>9. ASSUME NEW h \in Handle, ReadRenewed(h) PROVE TypeOK'
  <2>1. answers' \in [Handle -> Seq(Answer)] /\ Head(answers[h]).at \in Nat
    BY <1>a, <1>9, ReadFacts DEF ReadRenewed, Reading, Answer
  <2>2. until' \in [Handle -> Nat]
    <3>1. Entitle(h) \/ until' = until
      BY <1>9 DEF ReadRenewed
    <3>2. until \in [Handle -> Nat] /\ Head(answers[h]).at + Ttl \in Nat
      BY <1>a, <2>1, ConstantsAssumption DEF TypeOK, Answer
    <3> QED  BY <3>1, <3>2 DEF Entitle
  <2> QED BY <1>a, <1>9, <2>1, <2>2 DEF ReadRenewed, TypeOK
<1>10. ASSUME NEW h \in Handle, ReadReleased(h) PROVE TypeOK'
  BY <1>a, <1>10, DiscardType DEF ReadReleased, TypeOK
<1>11. ASSUME NEW h \in Handle, Disconnect(h) PROVE TypeOK'
  <2>1. <<>> \in Seq(Command) /\ <<>> \in Seq(Answer) BY EmptyFacts
  <2> QED BY <1>a, <1>11, <2>1 DEF Disconnect, TypeOK
<1>12. ASSUME NEW h \in Handle, Crash(h) PROVE TypeOK'
  BY <1>a, <1>12, DiscardType DEF Crash, TypeOK
<1>13. CASE Tick
  BY <1>a, <1>13 DEF Tick, TypeOK
<1>14. CASE UNCHANGED vars
  BY <1>a, <1>14 DEF vars, TypeOK
<1> QED
  BY <1>1, <1>2, <1>3, <1>4, <1>5, <1>6, <1>7, <1>8, <1>9, <1>10,
     <1>11, <1>12, <1>13, <1>14 DEF Next, Call, Execute, Receive

-----------------------------------------------------------------------------
(* The local part of the invariant.                                        *)
LEMMA LocalStep == ASSUME IInv, [Next]_vars PROVE LocalInv'
<1> USE DEF IInv, redis, local
<1>1. ASSUME NEW h \in Handle, Acquire(h) \/ Join(h) PROVE LocalInv'
  BY <1>1 DEF Acquire, Join, Send, LocalInv, TypeOK
<1>2. ASSUME NEW h \in Handle, Renew(h) \/ Recover(h) \/ Release(h) PROVE LocalInv'
  BY <1>2 DEF Renew, Recover, Release, Usable, Send, LocalInv, TypeOK
<1>3. ASSUME NEW h \in Handle, ExecAcquire(h) \/ ExecRenew(h) \/ ExecRenewOrReacquire(h)
      PROVE  LocalInv'
  <2>1. PICK ok \in BOOLEAN : Reply(h, ok)
    BY <1>3, SetFacts
  <2>2. sent[h] # <<>> /\ UNCHANGED <<now, minted, retired, freed, local>>
    BY <1>3, SetFacts
  <2> QED BY <2>1, <2>2 DEF Reply, LocalInv, TypeOK
<1>4. ASSUME NEW h \in Handle, ExecRelease(h) PROVE LocalInv'
  BY <1>4 DEF ExecRelease, Executing, Reply, LocalInv, TypeOK
<1>5. ASSUME NEW h \in Handle, ReadAcquired(h) PROVE LocalInv'
  <2>1. Tail(answers[h]) = <<>> /\ sent[h] = <<>>
    BY <1>5, AskedHead DEF ReadAcquired
  <2>2. answers'[h] = <<>> /\ sent'[h] = <<>>
        /\ \A g \in Handle \ {h} : sent'[g] = sent[g] /\ answers'[g] = answers[g]
    BY <1>5, <2>1 DEF ReadAcquired, Read, TypeOK
  <2>3. status[h] # "none" BY <1>5, AskedHead DEF ReadAcquired
  <2>4. /\ status'[h] = "none" => token'[h] = NoToken
        /\ status'[h] # "none" => token'[h] = token[h]
        /\ \A g \in Handle \ {h} : status'[g] = status[g] /\ token'[g] = token[g]
        /\ minted' = minted
    BY <1>5 DEF ReadAcquired, TypeOK
  <2> QED BY <2>2, <2>3, <2>4 DEF LocalInv
<1>6. ASSUME NEW h \in Handle, ReadRenewed(h) PROVE LocalInv'
  BY <1>6 DEF ReadRenewed, Reading, Read, LocalInv, TypeOK
<1>7. ASSUME NEW h \in Handle, ReadReleased(h) \/ Crash(h) PROVE LocalInv'
  BY <1>7 DEF ReadReleased, Crash, Discard, LocalInv, TypeOK
<1>8. ASSUME NEW h \in Handle, Disconnect(h) PROVE LocalInv'
  BY <1>8 DEF Disconnect, LocalInv, TypeOK
<1>9. CASE Tick
  BY <1>9 DEF Tick, LocalInv, TypeOK
<1>10. CASE UNCHANGED vars
  BY <1>10 DEF vars, LocalInv, TypeOK
<1> QED
  BY <1>1, <1>2, <1>3, <1>4, <1>5, <1>6, <1>7, <1>8, <1>9, <1>10
     DEF Next, Call, Execute, Receive

(* A handle that asks has one message in flight.                           *)
LEMMA AskingStep == ASSUME IInv, [Next]_vars PROVE AskingInv'
<1> USE DEF redis, local
<1>a. TypeOK /\ LocalInv /\ (\A h \in Handle : WaitsForOne(h)) BY DEF IInv, AskingInv
<1>c. ASSUME NEW h \in Handle, WaitsForOne(h)',
             \A g \in Handle \ {h} :
               status'[g] = status[g] /\ sent'[g] = sent[g] /\ answers'[g] = answers[g]
      PROVE  AskingInv'
  <2>1. ASSUME NEW g \in Handle \ {h} PROVE WaitsForOne(g)'
    BY <1>a, <1>c DEF WaitsForOne
  <2> QED BY <1>c, <2>1 DEF AskingInv
<1>1. ASSUME NEW h \in Handle, NEW op \in {"acquire", "join"},
             status[h] = "none", Send(h, op), UNCHANGED answers,
             status' = [status EXCEPT ![h] = "asking"]
      PROVE  AskingInv'
  <2>0. op \in Op BY <1>1 DEF Op
  <2>1. sent[h] = <<>> /\ answers[h] = <<>> BY <1>a, <1>1 DEF LocalInv
  <2>2. /\ AtMostOne(sent'[h])
        /\ Messages(sent'[h]) = Messages(sent[h]) \cup {[op |-> op, at |-> now]}
        /\ \A g \in Handle \ {h} : sent'[g] = sent[g]
    BY <1>a, <1>1, <2>0, <2>1, SendFacts
  <2>3. status'[h] = "asking" /\ \A g \in Handle \ {h} : status'[g] = status[g]
    BY <1>a, <1>1 DEF TypeOK
  <2>4. Asks([op |-> op, at |-> now]) BY <1>1 DEF Asks
  <2>5. Messages(sent[h]) = {} /\ Messages(answers'[h]) = {} /\ answers'[h] = <<>>
        /\ AtMostOne(answers'[h])
    BY <1>1, <2>1, EmptyFacts
  <2>6. WaitsForOne(h)'
    BY <2>2, <2>3, <2>4, <2>5 DEF WaitsForOne
  <2> QED BY <1>c, <1>1, <2>2, <2>3, <2>6
<1>2. ASSUME NEW h \in Handle, NEW op \in {"renew", "recover", "release"},
             status[h] = "live", Send(h, op), UNCHANGED <<answers, status>>
      PROVE  AskingInv'
  <2>0. op \in Op BY <1>2 DEF Op
  <2>1. /\ Messages(sent'[h]) = Messages(sent[h]) \cup {[op |-> op, at |-> now]}
        /\ \A g \in Handle \ {h} : sent'[g] = sent[g]
    BY <1>a, <1>2, <2>0, SendFacts
  <2>2. ~Asks([op |-> op, at |-> now])
    BY <1>2 DEF Asks
  <2>3. WaitsForOne(h)'
    BY <1>a, <1>2, <2>1, <2>2 DEF WaitsForOne
  <2> QED BY <1>c, <1>2, <2>1, <2>3
<1>3. ASSUME NEW h \in Handle, NEW ok \in BOOLEAN,
             sent[h] # <<>>, Reply(h, ok), UNCHANGED status
      PROVE  AskingInv'
  <2> DEFINE a == [op |-> Head(sent[h]).op, at |-> Head(sent[h]).at, ok |-> ok]
  <2>1. Asks(a) <=> Asks(Head(sent[h])) BY DEF Asks
  <2> HIDE DEF a
  <2>2. /\ Head(sent[h]) \in Messages(sent[h])
        /\ Messages(sent'[h]) \subseteq Messages(sent[h])
        /\ Messages(answers'[h]) = Messages(answers[h]) \cup {a}
        /\ AtMostOne(sent[h]) => sent'[h] = <<>>
        /\ answers[h] = <<>> => AtMostOne(answers'[h])
        /\ \A g \in Handle \ {h} : sent'[g] = sent[g] /\ answers'[g] = answers[g]
    BY <1>a, <1>3, ReplyFacts DEF a
  <2>3. WaitsForOne(h)'
    BY <1>a, <1>3, <2>1, <2>2, EmptyFacts DEF WaitsForOne
  <2> QED BY <1>c, <1>3, <2>2, <2>3
<1>4. ASSUME NEW h \in Handle, ReadAcquired(h) PROVE AskingInv'
  <2>1. Tail(answers[h]) = <<>> /\ sent[h] = <<>>
    BY <1>4, AskedHead DEF ReadAcquired
  <2>2. /\ answers'[h] = <<>> /\ sent'[h] = <<>>
        /\ \A g \in Handle \ {h} :
             status'[g] = status[g] /\ sent'[g] = sent[g] /\ answers'[g] = answers[g]
    BY <1>a, <1>4, <2>1 DEF ReadAcquired, Read, TypeOK
  <2>3. WaitsForOne(h)'
    BY <2>2, EmptyFacts DEF WaitsForOne
  <2> QED BY <1>c, <2>2, <2>3
<1>5. ASSUME NEW h \in Handle, ReadRenewed(h) PROVE AskingInv'
  <2>1. /\ Head(answers[h]) \in Messages(answers[h])
        /\ Messages(answers'[h]) \subseteq Messages(answers[h])
        /\ \A g \in Handle \ {h} : answers'[g] = answers[g]
    BY <1>a, <1>5, ReadFacts DEF ReadRenewed, Reading
  <2>2. UNCHANGED <<status, sent>> BY <1>5 DEF ReadRenewed
  <2>3. AtMostOne(answers[h]) => answers'[h] = <<>>
    BY <1>a, <1>5, TailFacts DEF ReadRenewed, Reading, Read, TypeOK
  <2>4. WaitsForOne(h)'
    BY <1>a, <2>1, <2>2, <2>3, EmptyFacts DEF WaitsForOne
  <2> QED BY <1>c, <2>1, <2>2, <2>4
<1>6. ASSUME NEW h \in Handle, ReadReleased(h) \/ Crash(h) \/ Disconnect(h)
      PROVE  AskingInv'
  <2>1. /\ sent'[h] = <<>> /\ answers'[h] = <<>>
        /\ \A g \in Handle \ {h} :
             status'[g] = status[g] /\ sent'[g] = sent[g] /\ answers'[g] = answers[g]
    BY <1>a, <1>6 DEF ReadReleased, Crash, Discard, Disconnect, TypeOK
  <2>2. WaitsForOne(h)'
    BY <2>1, EmptyFacts DEF WaitsForOne
  <2> QED BY <1>c, <2>1, <2>2
<1>7. CASE Tick \/ UNCHANGED vars
  <2>1. UNCHANGED <<status, sent, answers>> BY <1>7 DEF Tick, vars
  <2> QED BY <1>a, <2>1 DEF AskingInv, WaitsForOne
<1>8. ASSUME NEW h \in Handle, Call(h) PROVE AskingInv'
  BY <1>1, <1>2, <1>8 DEF Call, Acquire, Join, Renew, Recover, Release, Usable
<1>9. ASSUME NEW h \in Handle, Execute(h) PROVE AskingInv'
  <2>1. PICK ok \in BOOLEAN : sent[h] # <<>> /\ Reply(h, ok) /\ UNCHANGED status
    BY <1>9, SetFacts, ReleaseFacts DEF Execute
  <2> QED BY <1>3, <2>1
<1> QED
  BY <1>4, <1>5, <1>6, <1>7, <1>8, <1>9 DEF Next, Receive

(* Commands stay in the past, a release stays last and marked.             *)
LEMMA CommandStep == ASSUME IInv, [Next]_vars PROVE CommandInv'
<1> USE DEF redis, local
<1>a. TypeOK /\ LocalInv /\ AskingInv /\ (\A h \in Handle : SentEarlier(h))
  BY DEF IInv, CommandInv
<1>c. ASSUME NEW h \in Handle, SentEarlier(h)', now' >= now,
             \A g \in Handle \ {h} : sent'[g] = sent[g],
             \A g \in Handle \ {h} : token[g] \in retired => token'[g] \in retired'
      PROVE  CommandInv'
  <2>1. ASSUME NEW g \in Handle \ {h} PROVE SentEarlier(g)'
    <3>1. ASSUME NEW m \in Messages(sent[g]) PROVE m.at <= now'
      <4>1. m \in Command /\ m.at <= now BY <1>a, MessageType DEF TypeOK, SentEarlier
      <4>2. now' \in Nat BY TypeStep DEF TypeOK
      <4> QED BY <1>a, <1>c, <4>1, <4>2 DEF TypeOK, Command
    <3> QED BY <1>a, <1>c, <3>1 DEF SentEarlier
  <2> QED BY <1>c, <2>1 DEF CommandInv
<1>1. ASSUME NEW h \in Handle, NEW op \in {"acquire", "join", "renew", "recover"},
             Send(h, op), UNCHANGED <<now, retired>>,
             \A g \in Handle \ {h} : token'[g] = token[g],
             token[h] \notin retired \/ sent[h] = <<>>
      PROVE  CommandInv'
  <2>0. op \in Op BY <1>1 DEF Op
  <2>1. /\ Messages(sent'[h]) = Messages(sent[h]) \cup {[op |-> op, at |-> now]}
        /\ (\A m \in Messages(sent[h]) : m.op # "release") => ReleaseLast(sent'[h])
        /\ \A g \in Handle \ {h} : sent'[g] = sent[g]
    BY <1>a, <1>1, <2>0, SendFacts
  <2>2. \A m \in Messages(sent[h]) : m.op # "release" /\ m.at <= now
    BY <1>a, <1>1, EmptyFacts DEF SentEarlier
  <2>3. now <= now BY <1>a DEF TypeOK
  <2>4. SentEarlier(h)'
    BY <1>1, <2>1, <2>2, <2>3 DEF SentEarlier
  <2> QED BY <1>c, <1>1, <2>1, <2>3, <2>4
<1>2. ASSUME NEW h \in Handle, Release(h) PROVE CommandInv'
  <2>0. "release" \in Op BY DEF Op
  <2>1. /\ Messages(sent'[h]) = Messages(sent[h]) \cup {[op |-> "release", at |-> now]}
        /\ (\A m \in Messages(sent[h]) : m.op # "release") => ReleaseLast(sent'[h])
        /\ \A g \in Handle \ {h} : sent'[g] = sent[g]
    BY <1>a, <1>2, <2>0, SendFacts DEF Release
  <2>2. \A m \in Messages(sent[h]) : m.op # "release" /\ m.at <= now
    BY <1>a, <1>2 DEF Release, Usable, SentEarlier
  <2>3. now <= now /\ UNCHANGED <<now, token>> /\ retired' = retired \cup {token[h]}
    BY <1>a, <1>2 DEF Release, TypeOK
  <2>4. SentEarlier(h)'
    BY <2>1, <2>2, <2>3 DEF SentEarlier
  <2> QED BY <1>c, <2>1, <2>3, <2>4
<1>3. ASSUME NEW h \in Handle, NEW ok \in BOOLEAN,
             sent[h] # <<>>, Reply(h, ok), UNCHANGED <<now, retired, token>>
      PROVE  CommandInv'
  <2>1. /\ Messages(sent'[h]) \subseteq Messages(sent[h])
        /\ ReleaseLast(sent[h]) => ReleaseLast(sent'[h])
        /\ \A g \in Handle \ {h} : sent'[g] = sent[g]
    BY <1>a, <1>3, ReplyFacts
  <2>2. SentEarlier(h)' /\ now <= now
    BY <1>a, <1>3, <2>1 DEF SentEarlier, TypeOK
  <2> QED BY <1>c, <1>3, <2>1, <2>2
<1>4. ASSUME NEW h \in Handle, ReadAcquired(h) PROVE CommandInv'
  <2>1. sent'[h] = <<>> /\ UNCHANGED <<now, retired, sent>>
        /\ \A g \in Handle \ {h} : token'[g] = token[g]
    BY <1>a, <1>4, AskedHead DEF ReadAcquired, TypeOK
  <2>2. SentEarlier(h)' /\ now <= now BY <1>a, <2>1, EmptyFacts DEF SentEarlier, TypeOK
  <2> QED BY <1>c, <2>1, <2>2
<1>5. ASSUME NEW h \in Handle, ReadReleased(h) \/ Crash(h) \/ Disconnect(h)
      PROVE  CommandInv'
  <2>1. /\ sent'[h] = <<>> /\ UNCHANGED <<now, retired>>
        /\ \A g \in Handle \ {h} : token'[g] = token[g] /\ sent'[g] = sent[g]
    BY <1>a, <1>5 DEF ReadReleased, Crash, Discard, Disconnect, TypeOK
  <2>2. SentEarlier(h)' /\ now <= now BY <1>a, <2>1, EmptyFacts DEF SentEarlier, TypeOK
  <2> QED BY <1>c, <2>1, <2>2
<1>6. CASE Tick \/ UNCHANGED vars \/ \E h \in Handle : ReadRenewed(h)
  <2>1. UNCHANGED <<sent, token, retired>> /\ now' >= now
    BY <1>a, <1>6 DEF Tick, vars, ReadRenewed, TypeOK
  <2>2. ASSUME NEW g \in Handle PROVE SentEarlier(g)'
    <3>1. ASSUME NEW m \in Messages(sent[g]) PROVE m.at <= now'
      <4>1. m \in Command /\ m.at <= now BY <1>a, MessageType DEF TypeOK, SentEarlier
      <4>2. now' \in Nat BY TypeStep DEF TypeOK
      <4> QED BY <1>a, <2>1, <4>1, <4>2 DEF TypeOK, Command
    <3> QED BY <1>a, <2>1, <3>1 DEF SentEarlier
  <2> QED BY <2>2 DEF CommandInv
<1>7. ASSUME NEW h \in Handle, Call(h) PROVE CommandInv'
  <2>1. CASE Acquire(h) \/ Join(h)
    <3>1. sent[h] = <<>> BY <1>a, <2>1 DEF Acquire, Join, LocalInv
    <3>2. UNCHANGED <<now, retired>> /\ \A g \in Handle \ {h} : token'[g] = token[g]
      BY <1>a, <2>1 DEF Acquire, Join, TypeOK
    <3> QED BY <1>1, <2>1, <3>1, <3>2 DEF Acquire, Join
  <2>2. CASE Renew(h) \/ Recover(h)
    BY <1>1, <2>2 DEF Renew, Recover, Usable
  <2> QED BY <1>2, <1>7, <2>1, <2>2 DEF Call
<1>8. ASSUME NEW h \in Handle, Execute(h) PROVE CommandInv'
  <2>1. PICK ok \in BOOLEAN : sent[h] # <<>> /\ Reply(h, ok) /\ UNCHANGED <<now, retired, token>>
    BY <1>8, SetFacts, ReleaseFacts DEF Execute
  <2> QED BY <1>3, <2>1
<1> QED
  BY <1>4, <1>5, <1>6, <1>7, <1>8 DEF Next, Receive

(* Once Redis executed a release, its token is never the owner again.      *)
LEMMA ReleaseStep == ASSUME IInv, [Next]_vars PROVE ReleaseInv'
<1> USE DEF redis, local
<1>a. /\ TypeOK /\ LocalInv /\ ReleaseInv
      /\ \A h \in Handle : token[h] \in Token \cup {NoToken}
      /\ NoToken \notin Token /\ freed \subseteq retired /\ retired \subseteq minted
      /\ minted \subseteq Token
  BY ConstantsAssumption DEF IInv, TypeOK
<1>1. ASSUME NEW h \in Handle, Acquire(h) \/ Join(h) PROVE ReleaseInv'
  <2>1. token'[h] \notin retired
    BY <1>a, <1>1 DEF Acquire, Join, TypeOK
  <2>2. /\ UNCHANGED <<owner, retired, freed>>
        /\ \A g \in Handle \ {h} : token'[g] = token[g] /\ sent'[g] = sent[g]
    BY <1>a, <1>1 DEF Acquire, Join, Send, TypeOK
  <2> QED BY <1>a, <2>1, <2>2 DEF ReleaseInv
<1>2. ASSUME NEW h \in Handle, Renew(h) \/ Recover(h) PROVE ReleaseInv'
  <2>1. /\ token[h] \notin retired
        /\ UNCHANGED <<owner, retired, freed, token>>
        /\ \A g \in Handle \ {h} : sent'[g] = sent[g]
    BY <1>a, <1>2 DEF Renew, Recover, Usable, Send, TypeOK
  <2> QED BY <1>a, <2>1 DEF ReleaseInv
<1>3. ASSUME NEW h \in Handle, Release(h) PROVE ReleaseInv'
  <2>1. /\ token[h] \notin retired
        /\ \A g \in Handle \ {h} : token[g] # token[h]
        /\ retired' = retired \cup {token[h]}
        /\ UNCHANGED <<owner, freed, token>>
        /\ \A g \in Handle \ {h} : sent'[g] = sent[g]
    BY <1>a, <1>3 DEF Release, Usable, Send, TypeOK
  <2> QED BY <1>a, <2>1 DEF ReleaseInv
<1>4. ASSUME NEW h \in Handle, ExecAcquire(h) \/ ExecRenew(h) \/ ExecRenewOrReacquire(h)
      PROVE  ReleaseInv'
  <2>1. /\ sent[h] # <<>> /\ UNCHANGED <<retired, freed, token>>
        /\ owner' \in {owner, token[h]}
    BY <1>4, SetFacts
  <2>2. \E ok \in BOOLEAN : Reply(h, ok)
    BY <1>4, SetFacts
  <2>3. \A g \in Handle \ {h} : sent'[g] = sent[g]
    BY <1>a, <2>2 DEF Reply, TypeOK
  <2> QED BY <1>a, <2>1, <2>3 DEF ReleaseInv
<1>5. ASSUME NEW h \in Handle, ExecRelease(h) PROVE ReleaseInv'
  <2>1. token[h] \in retired /\ Tail(sent[h]) = <<>>
    BY <1>5, ReleaseHead DEF ExecRelease
  <2>2. /\ UNCHANGED <<retired, token>>
        /\ freed' = freed \cup {token[h]}
        /\ owner' # token[h] /\ owner' \in {owner, NoToken}
    BY <1>a, <1>5, <2>1, ReleaseFacts
  <2>3. \E ok \in BOOLEAN : Reply(h, ok)
    BY <1>5, ReleaseFacts
  <2>4. sent'[h] = <<>> /\ \A g \in Handle \ {h} : sent'[g] = sent[g]
    BY <1>a, <2>1, <2>3 DEF Reply, TypeOK
  <2>5. \A g \in Handle : token[g] = token[h] => g = h
    BY <1>a, <2>1 DEF ReleaseInv
  <2>6. owner' \notin freed' BY <1>a, <2>2 DEF ReleaseInv
  <2>7. \A g \in Handle : token'[g] \in freed' => sent'[g] = <<>>
    BY <1>a, <2>2, <2>4, <2>5 DEF ReleaseInv
  <2> QED BY <1>a, <2>2, <2>6, <2>7 DEF ReleaseInv
<1>6. ASSUME NEW h \in Handle, ReadAcquired(h) \/ ReadReleased(h) \/ Crash(h) PROVE ReleaseInv'
  <2>1. /\ token'[h] \in {token[h], NoToken}
        /\ sent'[h] = <<>>
        /\ UNCHANGED <<owner, retired, freed>>
        /\ \A g \in Handle \ {h} : token'[g] = token[g] /\ sent'[g] = sent[g]
    BY <1>a, <1>6, AskedHead DEF ReadAcquired, ReadReleased, Crash, Discard, TypeOK
  <2> QED BY <1>a, <2>1 DEF ReleaseInv
<1>7. ASSUME NEW h \in Handle, ReadRenewed(h) \/ Disconnect(h) PROVE ReleaseInv'
  <2>1. /\ UNCHANGED <<owner, retired, freed, token>>
        /\ \A g \in Handle : sent'[g] \in {sent[g], <<>>}
    BY <1>a, <1>7 DEF ReadRenewed, Disconnect, TypeOK
  <2> QED BY <1>a, <2>1 DEF ReleaseInv
<1>8. CASE Tick \/ UNCHANGED vars
  <2>1. UNCHANGED <<sent, token, retired, freed>> /\ owner' \in {owner, NoToken}
    BY <1>8 DEF Tick, vars
  <2> QED BY <1>a, <2>1 DEF ReleaseInv
<1> QED
  BY <1>1, <1>2, <1>3, <1>4, <1>5, <1>6, <1>7, <1>8 DEF Next, Call, Execute, Receive

(* A young good reply keeps meaning ownership: only the handles of its own *)
(* token set, extend or delete the key before the reply is too old.        *)
LEMMA EntitlementStep == ASSUME IInv, [Next]_vars PROVE EntitlementInv'
<1> USE DEF redis, local
<1>a. /\ TypeOK /\ LocalInv /\ AskingInv /\ CommandInv /\ ReleaseInv
      /\ \A h \in Handle : Entitled(h)
      /\ now \in Nat /\ expiresAt \in Nat /\ Ttl \in Nat \ {0}
      /\ \A h \in Handle : token[h] \in Token \cup {NoToken} /\ until[h] \in Nat
      /\ NoToken \notin Token /\ retired \subseteq minted /\ minted \subseteq Token
      /\ TypeOK'
  BY TypeStep, ConstantsAssumption DEF IInv, EntitlementInv, TypeOK
<1>b. ASSUME NEW h \in Handle
      PROVE  /\ \A m \in Messages(sent[h]) : m.at \in Nat /\ m.at <= now
             /\ \A m \in Messages(answers[h]) : m.at \in Nat
  <2>1. sent[h] \in Seq(Command) /\ answers[h] \in Seq(Answer) BY <1>a DEF TypeOK
  <2>2. Messages(sent[h]) \subseteq Command /\ Messages(answers[h]) \subseteq Answer
    BY <2>1, MessageType
  <2>3. \A m \in Messages(sent[h]) : m.at <= now
    BY <1>a DEF CommandInv, SentEarlier
  <2> QED BY <2>2, <2>3 DEF Command, Answer
(* Without a lease and without answers there is nothing to entitle.        *)
<1>z. ASSUME NEW h \in Handle, until'[h] = 0 PROVE Covers(h, until[h])'
  <2>1. Ttl \in Nat /\ now' \in Nat BY <1>a DEF TypeOK
  <2>2. \A n, t \in Nat : 0 <= n + t /\ ~(n < 0) OBVIOUS
  <2>3. 0 <= now' + Ttl /\ ~(now' < 0) BY <2>1, <2>2, Zenon
  <2> QED BY <1>z, <2>3, Zenon DEF Covers
<1>d. ASSUME NEW h \in Handle, until'[h] = 0, answers'[h] = <<>>
      PROVE  Entitled(h)'
  <2>1. Messages(answers'[h]) = {} BY <1>d, EmptyFacts
  <2>2. Covers(h, until[h])' BY <1>d, <1>z
  <2> QED BY <1>d, <2>1, <2>2 DEF Entitled
(* A handle that takes no step stays entitled when entitlement persists.   *)
<1>e. ASSUME NEW h \in Handle,
             status'[h] = status[h], token'[h] = token[h], until'[h] = until[h],
             retired \subseteq retired',
             Messages(answers'[h]) \subseteq Messages(answers[h]),
             \A end \in Nat :
               token[h] \in Token \ retired /\ Covers(h, end) => Covers(h, end)'
      PROVE  Entitled(h)'
  <2>1. CASE token[h] \in Token
    <3>1. \A m \in Messages(answers[h]) : m.at + Ttl \in Nat BY <1>a, <1>b
    <3> QED BY <1>a, <1>e, <2>1, <3>1 DEF Entitled
  <2>2. CASE token[h] \notin Token
    <3>1. status[h] = "none" /\ answers[h] = <<>> /\ until[h] = 0
      BY <1>a, <2>2 DEF LocalInv, Entitled
    <3>2. Messages(answers'[h]) = {} /\ until'[h] = 0 /\ now' \in Nat
      BY <1>a, <1>e, <3>1, EmptyFacts DEF TypeOK
    <3>3. Covers(h, until[h])' BY <3>2, <1>z
    <3> QED BY <3>2, <3>3 DEF Entitled
  <2> QED BY <2>1, <2>2
<1>1. ASSUME NEW h \in Handle, Acquire(h) \/ Join(h) PROVE EntitlementInv'
  <2>1. /\ until'[h] = 0 /\ answers'[h] = <<>> /\ now' \in Nat
        /\ UNCHANGED <<now, owner, expiresAt, answers, until, retired>>
        /\ \A g \in Handle \ {h} : status'[g] = status[g] /\ token'[g] = token[g]
    BY <1>a, <1>1 DEF Acquire, Join, LocalInv, TypeOK, Entitled
  <2>2. ASSUME NEW g \in Handle \ {h} PROVE Entitled(g)'
    BY <1>e, <2>1, <2>2 DEF Covers
  <2> QED BY <1>d, <2>1, <2>2 DEF EntitlementInv
<1>2. ASSUME NEW h \in Handle, Renew(h) \/ Recover(h) \/ Release(h) \/ Disconnect(h)
      PROVE  EntitlementInv'
  <2>1. /\ UNCHANGED <<now, owner, expiresAt, token, status, until>>
        /\ retired \subseteq retired'
        /\ \A g \in Handle : answers'[g] \in {answers[g], <<>>}
    BY <1>a, <1>2 DEF Renew, Recover, Release, Disconnect, TypeOK
  <2>2. \A g \in Handle : Messages(answers'[g]) \subseteq Messages(answers[g])
    BY <2>1, EmptyFacts
  <2>3. ASSUME NEW g \in Handle PROVE Entitled(g)'
    BY <1>e, <2>1, <2>2 DEF Covers
  <2> QED BY <2>3 DEF EntitlementInv
<1>3. ASSUME NEW h \in Handle, ExecAcquire(h) \/ ExecRenew(h) \/ ExecRenewOrReacquire(h)
      PROVE  EntitlementInv'
  <2>1. sent[h] # <<>> /\ UNCHANGED <<now, retired, status, token, until>>
    BY <1>3, SetFacts
  <2>c. PICK c : c = Head(sent[h]) OBVIOUS
  <2>2. CASE /\ owner \in {NoToken, token[h]}
             /\ owner' = token[h]
             /\ expiresAt' = now + Ttl
             /\ Reply(h, TRUE)
    <3>1. /\ c \in Messages(sent[h])
          /\ Messages(answers'[h]) = Messages(answers[h]) \cup
               {[op |-> c.op, at |-> c.at, ok |-> TRUE]}
          /\ \A g \in Handle \ {h} : answers'[g] = answers[g]
      BY <1>a, <2>1, <2>c, <2>2, ReplyFacts
    <3>2. c.at \in Nat /\ c.at <= now BY <1>b, <3>1
    (* An entitled handle other than h holds the token that is set.        *)
    <3>3. ASSUME NEW g \in Handle, NEW end \in Nat,
                 token[g] \in Token \ retired, Covers(g, end)
          PROVE  Covers(g, end)'
      <4>1. now < end => owner' = token[g]
        BY <1>a, <2>2, <3>3 DEF Covers
      <4> QED BY <1>a, <2>1, <2>2, <3>3, <4>1 DEF Covers
    <3>4. ASSUME NEW g \in Handle \ {h} PROVE Entitled(g)'
      BY <1>e, <2>1, <3>1, <3>3
    <3>5. Entitled(h)'
      <4>1. ASSUME token[h] \notin retired, NEW m \in Messages(answers[h]), m.ok
            PROVE  Covers(h, m.at + Ttl)'
        <5>1. token[h] \in Token BY <1>a, <4>1, EmptyFacts DEF LocalInv
        <5>2. m.at + Ttl \in Nat BY <1>a, <1>b, <4>1
        <5>3. Covers(h, m.at + Ttl) BY <1>a, <4>1 DEF Entitled
        <5> QED BY <3>3, <4>1, <5>1, <5>2, <5>3
      <4>2. Covers(h, c.at + Ttl)'
        BY <1>a, <2>1, <2>2, <3>2 DEF Covers
      <4>3. token[h] \notin retired => Covers(h, until[h])'
        <5>1. CASE token[h] \in Token
          <6>1. token[h] \notin retired => Covers(h, until[h]) BY <1>a DEF Entitled
          <6>2. \A end : until[h] = end => (Covers(h, until[h])' <=> Covers(h, end)')
            BY <2>1 DEF Covers
          <6> QED BY <1>a, <3>3, <5>1, <6>1, <6>2
        <5>2. CASE token[h] \notin Token
          BY <1>a, <2>1, <5>2 DEF LocalInv, Entitled, Covers
        <5> QED BY <5>1, <5>2
      <4> QED BY <1>a, <2>1, <3>1, <4>1, <4>2, <4>3 DEF Entitled
    <3> QED BY <3>4, <3>5 DEF EntitlementInv
  <2>3. CASE UNCHANGED <<owner, expiresAt>> /\ Reply(h, FALSE)
    <3>1. /\ Messages(answers'[h]) = Messages(answers[h]) \cup
               {[op |-> c.op, at |-> c.at, ok |-> FALSE]}
          /\ \A g \in Handle \ {h} : answers'[g] = answers[g]
      BY <1>a, <2>1, <2>c, <2>3, ReplyFacts
    <3>2. ASSUME NEW g \in Handle PROVE Entitled(g)'
      BY <1>a, <2>1, <2>3, <3>1 DEF Entitled, Covers
    <3> QED BY <3>2 DEF EntitlementInv
  <2> QED BY <1>3, <2>2, <2>3, SetFacts
<1>4. ASSUME NEW h \in Handle, ExecRelease(h) PROVE EntitlementInv'
  <2>1. token[h] \in retired
    BY <1>4, ReleaseHead DEF ExecRelease
  <2>2. /\ sent[h] # <<>> /\ UNCHANGED <<now, expiresAt, retired, status, token, until>>
        /\ owner # token[h] => owner' = owner
        /\ \E ok \in BOOLEAN : Reply(h, ok)
    BY <1>4, ReleaseFacts
  <2>3. \A g \in Handle \ {h} : answers'[g] = answers[g]
    BY <1>a, <2>2 DEF Reply, TypeOK
  <2>4. Entitled(h)' BY <1>a, <2>1, <2>2 DEF Entitled
  <2>5. ASSUME NEW g \in Handle \ {h} PROVE Entitled(g)'
    BY <1>e, <2>1, <2>2, <2>3 DEF Covers
  <2> QED BY <2>4, <2>5 DEF EntitlementInv
<1>5. ASSUME NEW h \in Handle, ReadAcquired(h) \/ ReadRenewed(h) PROVE EntitlementInv'
  <2>a. PICK a : a = Head(answers[h]) OBVIOUS
  <2>1. /\ a \in Messages(answers[h])
        /\ Messages(answers'[h]) \subseteq Messages(answers[h])
        /\ \A g \in Handle \ {h} : answers'[g] = answers[g]
    BY <1>a, <1>5, <2>a, ReadFacts DEF ReadAcquired, ReadRenewed, Reading
  <2>2. /\ UNCHANGED <<now, owner, expiresAt, retired>>
        /\ \A g \in Handle \ {h} :
             status'[g] = status[g] /\ token'[g] = token[g] /\ until'[g] = until[g]
    BY <1>a, <1>5 DEF ReadAcquired, ReadRenewed, Entitle, TypeOK
  <2>3. ASSUME NEW g \in Handle \ {h} PROVE Entitled(g)'
    BY <1>e, <2>1, <2>2, <2>3 DEF Covers
  <2>4. Asks(a) <=> status[h] = "asking"
    BY <1>a, <2>1 DEF AskingInv, WaitsForOne
  <2>5. CASE a.ok
    <3>1. /\ status'[h] = "live" /\ token'[h] = token[h]
          /\ until'[h] \in {until[h], a.at + Ttl}
      BY <1>a, <1>5, <2>a, <2>1, <2>4, <2>5, EmptyFacts
         DEF ReadAcquired, ReadRenewed, Reading, Asks, Entitle, LocalInv, TypeOK
    <3>2. token[h] \notin retired => Covers(h, until[h]) /\ Covers(h, a.at + Ttl)
      BY <1>a, <2>1, <2>5 DEF Entitled
    <3>3. token[h] \notin retired => Covers(h, until[h])'
      BY <2>2, <3>1, <3>2 DEF Covers
    <3>4. \A m \in Messages(answers'[h]) :
            token[h] \notin retired /\ m.ok => Covers(h, m.at + Ttl)'
      BY <1>a, <2>1, <2>2, <3>1 DEF Entitled, Covers
    <3>5. Entitled(h)' BY <2>2, <3>1, <3>3, <3>4 DEF Entitled
    <3> QED BY <2>3, <3>5 DEF EntitlementInv
  <2>6. CASE ~a.ok
    <3>1. CASE ReadAcquired(h)
      <4>1. /\ until'[h] = until[h] /\ status[h] = "asking"
            /\ answers'[h] = <<>> /\ now' \in Nat
        BY <1>a, <2>a, <2>6, <3>1, AskedHead DEF ReadAcquired, Read, TypeOK
      <4>2. Entitled(h)' BY <1>a, <1>d, <4>1 DEF Entitled
      <4> QED BY <2>3, <4>2 DEF EntitlementInv
    <3>2. CASE ReadRenewed(h)
      <4>1. UNCHANGED <<status, token, until>>
        BY <2>a, <2>6, <3>2 DEF ReadRenewed
      <4>2. Entitled(h)'
        BY <1>e, <2>1, <2>2, <4>1 DEF Covers
      <4> QED BY <2>3, <4>2 DEF EntitlementInv
    <3> QED BY <1>5, <3>1, <3>2
  <2> QED BY <2>5, <2>6
<1>6. ASSUME NEW h \in Handle, ReadReleased(h) \/ Crash(h) PROVE EntitlementInv'
  <2>1. /\ until'[h] = 0 /\ answers'[h] = <<>> /\ now' \in Nat
        /\ UNCHANGED <<now, owner, expiresAt, retired>>
        /\ \A g \in Handle \ {h} :
             /\ status'[g] = status[g] /\ token'[g] = token[g]
             /\ until'[g] = until[g] /\ answers'[g] = answers[g]
    BY <1>a, <1>6 DEF ReadReleased, Crash, Discard, TypeOK
  <2>2. ASSUME NEW g \in Handle \ {h} PROVE Entitled(g)'
    BY <1>e, <2>1, <2>2 DEF Covers
  <2> QED BY <1>d, <2>1, <2>2 DEF EntitlementInv
<1>7. CASE Tick
  <2>1. /\ now' = now + 1
        /\ owner' = IF expiresAt <= now + 1 THEN NoToken ELSE owner
        /\ UNCHANGED <<expiresAt, retired, status, token, until, answers>>
    BY <1>7 DEF Tick
  <2>2. ASSUME NEW g \in Handle, NEW end \in Nat, Covers(g, end) PROVE Covers(g, end)'
    BY <1>a, <2>1, <2>2 DEF Covers
  <2>3. ASSUME NEW g \in Handle PROVE Entitled(g)'
    BY <1>e, <2>1, <2>2
  <2> QED BY <2>3 DEF EntitlementInv
<1>8. CASE UNCHANGED vars
  BY <1>a, <1>8 DEF vars, EntitlementInv, Entitled, Covers
<1> QED
  BY <1>1, <1>2, <1>3, <1>4, <1>5, <1>6, <1>7, <1>8 DEF Next, Call, Execute, Receive

-----------------------------------------------------------------------------
LEMMA InitInv == Init => IInv
<1> SUFFICES ASSUME Init PROVE IInv
  OBVIOUS
<1>1. TypeOK BY EmptyFacts, ConstantsAssumption DEF Init, TypeOK
<1>2. LocalInv /\ ReleaseInv BY DEF Init, LocalInv, ReleaseInv
<1>3. AskingInv /\ CommandInv
  BY EmptyFacts DEF Init, AskingInv, WaitsForOne, CommandInv, SentEarlier
<1>4. ASSUME NEW h \in Handle PROVE Entitled(h)
  <2>1. until[h] = 0 /\ Messages(answers[h]) = {} /\ now = 0 /\ Ttl \in Nat \ {0}
        /\ token[h] = NoToken /\ owner = NoToken /\ status[h] = "none"
    BY EmptyFacts, ConstantsAssumption DEF Init
  <2> QED BY <2>1 DEF Entitled, Covers
<1> QED BY <1>1, <1>2, <1>3, <1>4 DEF IInv, EntitlementInv

LEMMA NextInv == IInv /\ [Next]_vars => IInv'
BY TypeStep, LocalStep, AskingStep, CommandStep, ReleaseStep, EntitlementStep DEF IInv

LEMMA AlwaysInv == Spec => []IInv
BY InitInv, NextInv, PTL DEF Spec

(* The variables of the lease stay within their types: in particular only  *)
(* minted tokens are retired and only retired ones are freed.              *)
THEOREM TypeCorrect == Spec => []TypeOK
<1>1. IInv => TypeOK BY DEF IInv
<1> QED BY <1>1, AlwaysInv, PTL

(* A handle that acts within the TTL of its last positive answer owns the  *)
(* key in Redis, whatever the interleaving: acquireRedisCredentialLease    *)
(* and renew() keep two machines from using one credential.                *)
THEOREM OneOwner == Spec => []EntitledHandleOwnsKey
<1>1. IInv => EntitledHandleOwnsKey
  BY DEF IInv, EntitlementInv, Entitled, Covers, EntitledHandleOwnsKey
<1> QED BY <1>1, AlwaysInv, PTL

(* After the release script ran for a token, no command still on its way   *)
(* makes it the owner again.                                               *)
THEOREM FinalRelease == Spec => []ReleaseIsFinal
<1>1. IInv => ReleaseIsFinal BY DEF IInv, ReleaseInv, ReleaseIsFinal
<1> QED BY <1>1, AlwaysInv, PTL

(* The scripts executed for a handle that lost the key change nothing.     *)
THEOREM HarmlessStaleHandle == Spec => StaleHandleHarmless
<1> DEFINE Harmless ==
      \A h \in Handle :
        (Len(answers'[h]) > Len(answers[h]) /\ owner \notin {token[h], NoToken})
          => UNCHANGED redis
<1>1. IInv /\ [Next]_vars => [Harmless]_vars
  <2> SUFFICES ASSUME IInv, Next, NEW h \in Handle,
                      Len(answers'[h]) > Len(answers[h]),
                      owner \notin {token[h], NoToken}
               PROVE  UNCHANGED redis
    OBVIOUS
  <2>1. \A n \in Nat : ~(n > n) OBVIOUS
  <2>2. answers'[h] # answers[h]
    <3>1. Len(answers[h]) \in Nat BY DEF IInv, TypeOK
    <3> QED BY <2>1, <3>1
  <2>3. ASSUME NEW g \in Handle, Execute(g) PROVE g = h
    <3>1. \E ok \in BOOLEAN : Reply(g, ok) BY <2>3, SetFacts, ReleaseFacts DEF Execute
    <3>2. g # h => answers'[h] = answers[h] BY <3>1 DEF Reply, IInv, TypeOK
    <3> QED BY <2>2, <3>2
  <2>4. ASSUME NEW g \in Handle, Execute(g) PROVE UNCHANGED redis
    <3>1. CASE ExecRelease(g)
      BY <2>3, <2>4, <3>1, ReleaseFacts DEF redis
    <3>2. CASE ExecAcquire(g) \/ ExecRenew(g) \/ ExecRenewOrReacquire(g)
      BY <2>3, <2>4, <3>2, SetFacts DEF redis
    <3> QED BY <2>4, <3>1, <3>2 DEF Execute
  <2>5. ASSUME NEW g \in Handle, Call(g) \/ Receive(g) \/ Disconnect(g) \/ Crash(g)
        PROVE  UNCHANGED redis
    BY <2>5 DEF Call, Acquire, Join, Renew, Recover, Release,
       Receive, ReadAcquired, ReadRenewed, ReadReleased, Disconnect, Crash, redis
  <2>6. ~Tick BY <2>2 DEF Tick
  <2> QED BY <2>4, <2>5, <2>6 DEF Next
<1> QED BY <1>1, AlwaysInv, PTL DEF Spec, StaleHandleHarmless

(* Every step of the lease is a step of LeaseOwnership or leaves the owner *)
(* and the freed tokens alone.                                             *)
THEOREM ImplementsOwnership == Spec => OwnershipSpec
<1>1. Init => Ownership!Init BY DEF Init, Ownership!Init
<1>2. IInv /\ [Next]_vars => [Ownership!Next]_Ownership!vars
  <2> SUFFICES ASSUME IInv, [Next]_vars PROVE [Ownership!Next]_Ownership!vars
    OBVIOUS
  <2> USE DEF Ownership!Next, Ownership!vars, Ownership!Take, Ownership!Lapse, Ownership!Free
  <2>1. ASSUME NEW h \in Handle, ExecAcquire(h) \/ ExecRenew(h) \/ ExecRenewOrReacquire(h)
        PROVE  [Ownership!Next]_Ownership!vars
    <3>1. /\ freed' = freed
          /\ \/ owner = NoToken /\ owner' = token[h]
             \/ owner' = owner
      BY <2>1, SetFacts
    <3>2. token[h] \in Token /\ token[h] \notin freed
      <4>1. sent[h] # <<>> BY <2>1, SetFacts
      <4> QED BY <4>1 DEF IInv, TypeOK, LocalInv, ReleaseInv
    <3> QED BY <3>1, <3>2
  <2>2. ASSUME NEW h \in Handle, ExecRelease(h) PROVE Ownership!Next
    <3>1. token[h] \in Token
      BY <2>2, ReleaseHead DEF ExecRelease, IInv, TypeOK
    <3> QED BY <2>2, <3>1, ReleaseFacts
  <2>3. CASE Tick
    BY <2>3 DEF Tick
  <2>4. ASSUME NEW h \in Handle, Call(h) \/ Receive(h) \/ Disconnect(h) \/ Crash(h)
        PROVE  UNCHANGED <<owner, freed>>
    BY <2>4 DEF Call, Acquire, Join, Renew, Recover, Release,
       Receive, ReadAcquired, ReadRenewed, ReadReleased, Disconnect, Crash, redis
  <2>5. CASE UNCHANGED vars
    BY <2>5 DEF vars, redis
  <2> QED BY <2>1, <2>2, <2>3, <2>4, <2>5 DEF Next, Execute
<1> QED BY <1>1, <1>2, AlwaysInv, PTL DEF Spec, OwnershipSpec, Ownership!Spec

-----------------------------------------------------------------------------
(* The maintenance.                                                        *)

(* Who maintains the credential, and is not a login or a policy command. *)
Maintainer == {"resolve", "maintain"}

(* A process at rest has obtained nothing.  Under way, what it read was    *)
(* the record at its version; a token is obtained on the way to the        *)
(* publication; nothing is published without one but that the token read   *)
(* is spent.                                                               *)
ProcessInv(p) ==
    /\ pc[p] # "idle" =>
         /\ snap[p].version <= record.version /\ snap[p].token <= issued
         /\ snap[p].version = record.version => snap[p] = record
    /\ next[p] # 0 => pc[p] \in {"renew", "publish"}
    /\ pc[p] = "refresh" => snap[p].token # 0
    /\ pc[p] \in {"acquire", "reread", "refresh", "renew"} => job[p] \in Maintainer
    /\ pc[p] = "publish" => job[p] \in Maintainer \cup {"login"}
    /\ pc[p] = "publish" /\ (kind = "xai" \/ job[p] = "login") => next[p] # 0
    /\ pc[p] \in {"renew", "publish"} /\ next[p] = 0 => snap[p].token \notin valid
    /\ pc[p] \in {"acquire", "reread", "renew"} => kind = "codex"
    /\ pc[p] = "poll" => job[p] = "login"

(* A token on its way into the record works, and nobody else knows it. *)
FreshInv(p) ==
    next[p] # 0 =>
      /\ next[p] \in valid /\ next[p] # record.token /\ next[p] \notin late
      /\ \A q \in Process :
           /\ pc[q] # "idle" => snap[q].token # next[p]
           /\ q # p => next[q] # next[p]

(* A process that has obtained a token by maintaining the credential. *)
Rotated(p) == next[p] # 0 /\ job[p] # "login"

(* As long as no refresh is disturbed, a Codex maintainer has the lease     *)
(* and the record it read; an xAI one has the record, or a spent token; a   *)
(* token obtained has spent the record's.                                  *)
CalmInv(p) ==
    /\ kind = "codex" /\ job[p] # "login" =>
         /\ pc[p] \in {"reread", "refresh", "renew", "publish"} => lease = p
         /\ pc[p] \in {"refresh", "renew", "publish"} => snap[p] = record
    /\ kind = "xai" /\ (pc[p] = "refresh" \/ (pc[p] = "admit" /\ job[p] \in Maintainer)) =>
         snap[p] = record \/ snap[p].token \notin valid
    /\ Rotated(p) => record.token \notin valid /\ snap[p] = record

Undisturbed ==
    /\ late = {}
    /\ \A p \in Process : CalmInv(p)
    /\ \A p, q \in Process : Rotated(p) /\ Rotated(q) => p = q
    /\ record.token \in valid \cup {0} \/ \E p \in Process : Rotated(p)

UpkeepInv ==
    /\ MaintenanceTypeOK
    /\ BlockedOnlyWhenSpent
    /\ \A p \in Process : ProcessInv(p) /\ FreshInv(p)
    /\ ~disturbed => Undisturbed

-----------------------------------------------------------------------------
(* What a process and the rest of the pool are, apart.                      *)

LocalsOK ==
    /\ pc \in [Process -> {"idle", "admit", "probe", "poll", "acquire", "reread",
                           "refresh", "renew", "publish", "release", "final"}]
    /\ job \in [Process -> Job]
    /\ snap \in [Process -> Record]
    /\ force \in [Process -> BOOLEAN]
    /\ rejected \in [Process -> 0..MaxVersion]
    /\ next \in [Process -> 0..MaxToken]
    /\ result \in [Process -> {"none", "ok", "reauth", "failed"}]

LEMMA Typed ==
    ASSUME MaintenanceTypeOK
    PROVE  /\ LocalsOK
           /\ kind \in {"codex", "xai"} /\ record \in Record
           /\ record.version \in 1..MaxVersion /\ record.token \in 0..MaxToken
           /\ record.reauth \in BOOLEAN
           /\ issued \in 0..MaxToken /\ valid \subseteq 1..issued /\ late \subseteq 1..issued
           /\ disturbed \in BOOLEAN /\ MaxToken \in Nat /\ MaxVersion \in Nat
           /\ record.token <= issued /\ 0 \notin valid
           /\ \A q \in Process :
                /\ snap[q] \in Record /\ next[q] \in 0..MaxToken /\ next[q] <= issued
                /\ snap[q].version \in 1..MaxVersion /\ snap[q].token \in 0..MaxToken
                /\ snap[q].reauth \in BOOLEAN
BY MaintenanceAssumption DEF MaintenanceTypeOK, LocalsOK, Record

\* Every process but p is where it was.
Alone(p) ==
    \A q \in Process \ {p} :
        pc'[q] = pc[q] /\ job'[q] = job[q] /\ snap'[q] = snap[q] /\ next'[q] = next[q]

LEMMA Returned ==
    ASSUME LocalsOK, NEW p \in Process, NEW r \in {"none", "ok", "reauth", "failed"},
           Return(p, r)
    PROVE  /\ LocalsOK' /\ Alone(p)
           /\ pc'[p] = "idle" /\ next'[p] = 0
<1>1. First \in Record
  BY MaintenanceAssumption DEF First, Record
<1>2. "resolve" \in Job /\ 0 \in 0..MaxVersion /\ 0 \in 0..MaxToken
  BY MaintenanceAssumption DEF Job
<1>3. LocalsOK'
  BY <1>1, <1>2 DEF LocalsOK, Return, Goto
<1>4. Alone(p) /\ pc'[p] = "idle" /\ next'[p] = 0
  BY DEF LocalsOK, Return, Goto, Alone
<1> QED  BY <1>3, <1>4

LEMMA Finished ==
    ASSUME LocalsOK, NEW p \in Process, Finish(p) \/ Serve(p)
    PROVE  /\ LocalsOK' /\ Alone(p)
           /\ pc'[p] = "idle" /\ next'[p] = 0
BY Returned DEF Finish, Serve

LEMMA Left ==
    ASSUME LocalsOK, NEW p \in Process, NEW r \in {"none", "ok", "reauth", "failed"},
           Leave(p, r), UNCHANGED call, snap' = snap \/ snap' = [snap EXCEPT ![p] = record],
           record \in Record
    PROVE  /\ LocalsOK' /\ Alone(p)
           /\ pc'[p] = "release" /\ next'[p] = 0 /\ job'[p] = job[p]
BY MaintenanceAssumption DEF LocalsOK, Leave, Goto, Alone, call

-----------------------------------------------------------------------------
(* What a step of a process does to the rest of the pool.                   *)

\* What p knows it read before or reads now.
Reads(p) ==
    pc'[p] # "idle" =>
        /\ snap'[p] \in {snap[p], record}
        /\ pc[p] = "idle" => snap'[p] = record

\* p replaces the record it read, by one that is not marked or whose token is
\* spent, and that works if the one it read did.
Writes(p) ==
    \/ record' = record
    \/ /\ pc[p] # "idle" /\ snap[p] = record /\ next'[p] = 0
       /\ record' \in Record /\ record'.version = record.version + 1
       /\ record'.token = record.token \/ (record'.token = next[p] /\ next[p] # 0)
       /\ record'.reauth => record'.token \notin valid
       /\ record.token \in valid => record'.token \in valid
       /\ valid' = valid /\ issued' = issued

\* p obtains the next token, for the one it read or besides it.
Obtains(p) ==
    \/ /\ valid' = valid /\ issued' = issued
       /\ next'[p] \in {0, next[p]}
    \/ /\ pc[p] # "idle" /\ record' = record
       /\ issued' = issued + 1 /\ issued' <= MaxToken /\ next'[p] = issued'
       /\ valid' \subseteq valid \cup {issued'} /\ issued' \in valid'
       /\ valid \ {snap[p].token} \subseteq valid'

Shape(p) ==
    /\ LocalsOK' /\ Alone(p) /\ Reads(p) /\ Writes(p) /\ Obtains(p)
    /\ due' = due /\ lease' \in {lease, p, Nobody}
    /\ late' = late \/ (late' = late \cup ({snap[p].token} \ {0}) /\ pc[p] # "idle")
    /\ disturbed' \in BOOLEAN /\ (disturbed => disturbed')

LEMMA Returns ==
    ASSUME MaintenanceTypeOK, NEW p \in Process, Finish(p) \/ Serve(p),
           UNCHANGED <<record, provider>>, lease' \in {lease, p, Nobody}, disturbed' = disturbed
    PROVE  Shape(p)
<1>1. LocalsOK' /\ Alone(p) /\ pc'[p] = "idle" /\ next'[p] = 0
  BY Finished, Typed
<1> QED  BY <1>1, Typed DEF Shape, Reads, Writes, Obtains, provider

\* The process moves on with what it knows.
LEMMA Proceeds ==
    ASSUME MaintenanceTypeOK, NEW p \in Process, NEW l \in {"admit", "probe", "poll",
           "acquire", "reread", "refresh", "renew", "publish", "release", "final"},
           pc[p] # "idle", Goto(p, l), UNCHANGED <<record, provider, job, rejected, next>>,
           snap' = snap \/ snap' = [snap EXCEPT ![p] = record],
           lease' \in {lease, p, Nobody}, disturbed' = disturbed,
           force' = force \/ (\E b \in BOOLEAN : force' = [force EXCEPT ![p] = b]),
           result' = result \/ result' = [result EXCEPT ![p] = "ok"]
                            \/ result' = [result EXCEPT ![p] = "failed"]
    PROVE  Shape(p) /\ pc'[p] = l
<1>1. LocalsOK'
  BY Typed DEF LocalsOK, Goto
<1>2. Alone(p) /\ pc'[p] = l /\ snap'[p] \in {snap[p], record}
  BY Typed DEF LocalsOK, Goto, Alone
<1> QED  BY <1>1, <1>2, Typed DEF Shape, Reads, Writes, Obtains, provider

LEMMA Leaves ==
    ASSUME MaintenanceTypeOK, NEW p \in Process, NEW r \in {"none", "ok", "reauth", "failed"},
           pc[p] # "idle", Leave(p, r), UNCHANGED <<record, valid, issued, due, lease, call>>,
           snap' = snap \/ snap' = [snap EXCEPT ![p] = record],
           late' = late \/ late' = late \cup ({snap[p].token} \ {0}),
           disturbed' \in BOOLEAN, disturbed => disturbed'
    PROVE  Shape(p) /\ pc'[p] = "release" /\ next'[p] = 0 /\ job'[p] = job[p]
<1>1. /\ LocalsOK' /\ Alone(p) /\ pc'[p] = "release" /\ next'[p] = 0
      /\ job'[p] = job[p]
  BY Left, Typed
<1>2. snap'[p] \in {snap[p], record}
  BY Typed DEF LocalsOK
<1> QED  BY <1>1, <1>2, Typed DEF Shape, Reads, Writes, Obtains

LEMMA Disturbs ==
    ASSUME MaintenanceTypeOK, NEW P, Disturb(P) \/ disturbed' = disturbed
    PROVE  disturbed' \in BOOLEAN /\ (disturbed => disturbed')
<1>1. disturbed \in BOOLEAN
  BY Typed
<1>2. CASE disturbed' = disturbed
  BY <1>1, <1>2
<1>3. CASE Disturb(P)
  <2> DEFINE D == \E p \in P : Refreshing(p)
  <2>1. disturbed' = (disturbed \/ D)
    BY <1>3 DEF Disturb
  <2> HIDE DEF D
  <2> QED  BY <1>1, <2>1
<1> QED  BY <1>2, <1>3

\* The actions whose leaves are of one form.
LEMMA Moving ==
    ASSUME MaintenanceTypeOK, NEW p \in Process, pc[p] \in {"admit", "acquire"},
           NEW b \in BOOLEAN, force' = [force EXCEPT ![p] = b], Maintain(p) \/ Goto(p, "acquire"),
           UNCHANGED <<job, rejected, snap, next, result, pool, provider, disturbed>>
    PROVE  Shape(p) /\ pc'[p] \in {"acquire", "refresh"}
           /\ (Maintain(p) => pc'[p] = IF kind = "codex" THEN "acquire" ELSE "refresh")
<1>1. lease' = lease /\ record' = record /\ pc[p] # "idle"
  BY DEF pool
<1>2. CASE Goto(p, "acquire")
  <2>1. Shape(p) /\ pc'[p] = "acquire"
    BY <1>1, <1>2, Proceeds
  <2>2. Maintain(p) => kind = "codex"
    BY <1>2, <2>1, Typed DEF Maintain, Goto, LocalsOK
  <2> QED  BY <2>1, <2>2
<1>3. CASE Goto(p, "refresh") /\ kind # "codex"
  <2>1. Shape(p) /\ pc'[p] = "refresh"
    BY <1>1, <1>3, Proceeds
  <2> QED  BY <2>1, <1>3
<1> QED  BY <1>2, <1>3 DEF Maintain

LEMMA LoadShape ==
    ASSUME UpkeepInv, NEW p \in Process, NEW j \in Job, NEW v \in 0..MaxVersion, Load(p, j, v)
    PROVE  Shape(p) /\ pc'[p] = "admit" /\ job'[p] = j /\ snap'[p] = record /\ next'[p] = next[p]
<1> USE Typed DEF LocalsOK, UpkeepInv, Load, Goto
<1>1. LocalsOK'
  OBVIOUS
<1>2. /\ Alone(p) /\ pc'[p] = "admit" /\ job'[p] = j /\ snap'[p] = record
      /\ next'[p] = next[p]
  BY DEF Alone
<1> HIDE DEF LocalsOK, UpkeepInv
<1> QED  BY <1>1, <1>2 DEF UpkeepInv, Shape, Reads, Writes, Obtains, pool, provider

\* The record that p replaces is the one it read; what it writes.
LEMMA RevisedFacts ==
    ASSUME UpkeepInv, NEW p \in Process, pc[p] = "publish", record.version = snap[p].version,
           record.version < MaxVersion, record' = Revised(p), next'[p] = 0,
           valid' = valid, issued' = issued
    PROVE  /\ Writes(p) /\ snap[p] = record /\ record' # record
           /\ next[p] # 0 => record'.token = next[p] /\ next[p] \in valid
           /\ next[p] = 0 => record'.token = record.token /\ record.token \notin valid
<1>1. /\ MaintenanceTypeOK /\ ProcessInv(p) /\ FreshInv(p)
  BY DEF UpkeepInv
<1>2. /\ snap[p] = record
      /\ next[p] # 0 => next[p] \in valid
      /\ next[p] = 0 => record.token \notin valid
  BY <1>1 DEF ProcessInv, FreshInv
<1>3. /\ record' \in Record /\ record'.version = record.version + 1
      /\ record'.token = (IF next[p] # 0 THEN next[p] ELSE record.token)
      /\ record'.reauth = (next[p] = 0)
  BY <1>1, <1>2, Typed DEF Revised, Record
<1>4. record' # record
  BY <1>1, <1>3, Typed
<1> QED  BY <1>1, <1>2, <1>3, <1>4 DEF Writes

LEMMA PolicyFacts ==
    ASSUME UpkeepInv, NEW p \in Process, PublishPolicy(p), record' # record
    PROVE  /\ Writes(p) /\ record'.token = record.token
<1>1. /\ MaintenanceTypeOK /\ ProcessInv(p) /\ BlockedOnlyWhenSpent
      /\ pc[p] = "admit" /\ Finish(p)
      /\ record.version = snap[p].version /\ record.version < MaxVersion
      /\ record' = [snap[p] EXCEPT !.version = @ + 1]
      /\ valid' = valid /\ issued' = issued
  BY DEF UpkeepInv, PublishPolicy, provider
<1>2. snap[p] = record /\ next'[p] = 0
  BY <1>1, Finished, Typed DEF ProcessInv
<1>3. /\ record' \in Record /\ record'.version = record.version + 1
      /\ record'.token = record.token /\ record'.reauth = record.reauth
  BY <1>1, <1>2, Typed DEF Record
<1> QED  BY <1>1, <1>2, <1>3, Typed DEF Writes, BlockedOnlyWhenSpent

LEMMA ExchangeFacts ==
    ASSUME MaintenanceTypeOK, NEW t \in Nat, Exchange(t)
    PROVE  /\ t \in valid /\ issued' = issued + 1 /\ issued' \in 1..MaxToken
           /\ valid' = (valid \ {t}) \cup {issued'} /\ issued' \notin valid
           /\ t \notin valid' /\ t <= issued
BY Typed DEF Exchange

LEMMA GrantFacts ==
    ASSUME MaintenanceTypeOK, issued < MaxToken,
           issued' = issued + 1, valid' = valid \cup {issued + 1}
    PROVE  issued' \in 1..MaxToken /\ issued' \notin valid /\ issued' \in valid'
BY Typed

\* p obtains a token.
LEMMA ObtainShape ==
    ASSUME MaintenanceTypeOK, NEW p \in Process, NEW l \in {"renew", "publish"},
           pc[p] # "idle", Goto(p, l), UNCHANGED <<pool, due, call, snap, result>>,
           Exchange(snap[p].token) \/ (issued < MaxToken /\ issued' = issued + 1
                                         /\ valid' = valid \cup {issued + 1}),
           next' = [next EXCEPT ![p] = issued'],
           late' = late \/ late' = late \cup ({snap[p].token} \ {0}),
           disturbed' \in BOOLEAN, disturbed => disturbed'
    PROVE  /\ Shape(p) /\ pc'[p] = l /\ next'[p] = issued + 1 /\ job'[p] = job[p]
           /\ snap'[p] = snap[p] /\ issued' = issued + 1 /\ issued' \in 1..MaxToken
<1>1. issued' = issued + 1 /\ issued' \in 1..MaxToken
  BY Typed, ExchangeFacts, GrantFacts
<1>2. LocalsOK'
  BY <1>1, Typed DEF LocalsOK, Goto, call
<1>3. /\ Alone(p) /\ pc'[p] = l /\ snap'[p] = snap[p] /\ next'[p] = issued' /\ job'[p] = job[p]
  BY Typed DEF LocalsOK, Goto, Alone, call
<1>4. /\ valid' \subseteq valid \cup {issued'} /\ issued' \in valid'
      /\ valid \ {snap[p].token} \subseteq valid'
  BY <1>1, Typed, ExchangeFacts, GrantFacts
<1> QED  BY <1>1, <1>2, <1>3, <1>4, Typed DEF Shape, Reads, Writes, Obtains, pool

\* Every step of a process has this shape.
LEMMA StepShape ==
    ASSUME UpkeepInv, NEW p \in Process, Step(p)
    PROVE  Shape(p)
<1>a. MaintenanceTypeOK /\ ProcessInv(p) /\ LocalsOK
  BY Typed DEF UpkeepInv
<1>b. ASSUME Finish(p) \/ Serve(p), UNCHANGED <<record, provider, disturbed>>,
             lease' \in {lease, p, Nobody}
      PROVE  Shape(p)
  BY <1>a, <1>b, Returns
<1>1. CASE \E j \in Job, v \in 0..MaxVersion : Load(p, j, v)
  BY <1>1, LoadShape
<1>2. CASE AdmitResolve(p)
  BY <1>a, <1>b, <1>2, Moving DEF AdmitResolve, RejectedCurrent, pool
<1>3. CASE AdmitAdvance(p)
  BY <1>a, <1>b, <1>3, Proceeds DEF AdmitAdvance, pool, call
<1>4. CASE Advance(p) \/ Terminate(p) \/ Final(p)
  BY <1>b, <1>4 DEF Advance, Terminate, Final, pool
<1>5. CASE AdmitMaintain(p)
  BY <1>a, <1>b, <1>5, Moving DEF AdmitMaintain, pool
<1>6. CASE AdmitIncomplete(p)
  BY <1>a, <1>b, <1>6, Moving DEF AdmitIncomplete, pool
<1>7. CASE TakeLease(p)
  BY <1>a, <1>b, <1>7, Proceeds DEF TakeLease, pool, call
<1>8. CASE Reread(p)
  <2>1. CASE \/ Leave(p, "failed") \/ Leave(p, "ok")
    BY <1>a, <1>8, <2>1, Leaves, Typed DEF Reread, pool, provider
  <2>2. CASE (Goto(p, "renew") \/ Goto(p, "refresh")) /\ UNCHANGED <<next, result>>
    BY <1>a, <1>8, <2>2, Proceeds DEF Reread, pool, call
  <2> QED  BY <1>8, <2>1, <2>2 DEF Reread
<1>9. CASE Refresh(p)
  <2>1. CASE Exchange(snap[p].token) /\ next' = [next EXCEPT ![p] = issued']
    BY <1>a, <1>9, <2>1, ObtainShape, Typed DEF Refresh
  <2>2. CASE UNCHANGED <<valid, issued, next>>
    BY <1>a, <1>9, <2>2, Proceeds DEF Refresh, pool, call, provider
  <2> QED  BY <1>9, <2>1, <2>2 DEF Refresh
<1>10. CASE RefreshFails(p)
  <2>1. snap[p].token # 0
    BY <1>a, <1>10 DEF RefreshFails, ProcessInv
  <2> QED  BY <1>a, <1>10, <2>1, Leaves DEF RefreshFails, pool
<1>11. CASE RenewOwned(p)
  <2>1. CASE Leave(p, "failed")
    BY <1>a, <1>11, <2>1, Leaves, Typed DEF RenewOwned, pool, provider
  <2>2. CASE Goto(p, "publish") /\ UNCHANGED <<next, result>>
    BY <1>a, <1>11, <2>2, Proceeds DEF RenewOwned, pool, call
  <2> QED  BY <1>11, <2>1, <2>2 DEF RenewOwned
<1>12. CASE Abort(p)
  BY <1>a, <1>12, Leaves, Disturbs DEF Abort, pool, provider
<1>13. CASE Publish(p)
  <2>1. /\ pc[p] = "publish" /\ Goto(p, "release") /\ next' = [next EXCEPT ![p] = 0]
        /\ UNCHANGED <<lease, valid, issued, late, due, call, snap, disturbed>>
        /\ result' \in {Published(p), [result EXCEPT ![p] = "failed"]}
    BY <1>13 DEF Publish, provider
  <2>2. LocalsOK'
    BY <1>a, <2>1, MaintenanceAssumption DEF LocalsOK, Goto, call, Published
  <2>3. Alone(p) /\ pc'[p] = "release" /\ snap'[p] = snap[p] /\ next'[p] = 0
    BY <1>a, <2>1 DEF LocalsOK, Goto, call, Alone
  <2>4. Writes(p)
    BY <1>13, <2>1, <2>3, RevisedFacts DEF Publish, Writes
  <2> QED  BY <1>a, <2>1, <2>2, <2>3, <2>4, Typed DEF Shape, Reads, Obtains
<1>14. CASE FreeLease(p)
  <2>1. CASE Goto(p, "final") /\ UNCHANGED <<call, snap, next, result>> /\ lease' = Nobody
    BY <1>a, <1>14, <2>1, Proceeds DEF FreeLease, call
  <2>2. CASE Finish(p) /\ lease' \in {lease, Nobody}
    BY <1>b, <1>14, <2>2 DEF FreeLease
  <2> QED  BY <1>14, <2>1, <2>2 DEF FreeLease
<1>15. CASE RefreshXai(p)
  <2>1. CASE Exchange(snap[p].token) /\ next' = [next EXCEPT ![p] = issued'] /\ Goto(p, "publish")
             /\ UNCHANGED <<late, call, snap, result, disturbed>>
    BY <1>a, <1>15, <2>1, ObtainShape, Typed DEF RefreshXai
  <2>2. CASE Finish(p) /\ UNCHANGED <<valid, issued, late, disturbed>>
    BY <1>b, <1>15, <2>2 DEF RefreshXai, pool, provider
  <2>3. CASE late' = late \cup {snap[p].token} /\ Finish(p) /\ disturbed' = TRUE
             /\ UNCHANGED <<valid, issued>>
    <3>1. LocalsOK' /\ Alone(p) /\ pc'[p] = "idle" /\ next'[p] = 0
      BY <1>a, <2>3, Finished
    <3>2. snap[p].token # 0 /\ pc[p] # "idle"
      BY <1>a, <1>15 DEF RefreshXai, ProcessInv
    <3> QED  BY <1>15, <2>3, <3>1, <3>2 DEF RefreshXai, Shape, Reads, Writes, Obtains, pool
  <2> QED  BY <1>15, <2>1, <2>2, <2>3 DEF RefreshXai
<1>16. CASE PublishXai(p)
  <2>1. pc[p] = "publish" /\ UNCHANGED <<lease, valid, issued, late, due, disturbed>>
    BY <1>16 DEF PublishXai, provider
  <2>2. CASE record' = record
    <3>1. Finish(p) \/ (Goto(p, "final") /\ PublishMaintained(p))
      BY <1>16 DEF PublishXai
    <3>2. ~PublishMaintained(p)
      <4> SUFFICES ASSUME PublishMaintained(p) PROVE FALSE
        OBVIOUS
      <4> QED  BY <1>a, <2>2, Typed DEF PublishMaintained, Revised
    <3> QED  BY <1>b, <2>1, <2>2, <3>1, <3>2 DEF provider
  <2>3. CASE PublishMaintained(p) /\ Finish(p)
    <3>1. LocalsOK' /\ Alone(p) /\ pc'[p] = "idle" /\ next'[p] = 0
      BY <1>a, <2>3, Finished
    <3>2. Writes(p)
      BY <2>1, <2>3, <3>1, RevisedFacts DEF PublishMaintained
    <3> QED  BY <1>a, <2>1, <3>1, <3>2, Typed DEF Shape, Reads, Obtains
  <2>4. CASE /\ PublishMaintained(p) /\ Goto(p, "final")
             /\ next' = [next EXCEPT ![p] = 0] /\ UNCHANGED <<call, snap, result>>
    <3>1. LocalsOK'
      BY <1>a, <2>4, MaintenanceAssumption DEF LocalsOK, Goto, call
    <3>2. Alone(p) /\ snap'[p] = snap[p] /\ next'[p] = 0
      BY <1>a, <2>4 DEF LocalsOK, Goto, call, Alone
    <3>3. Writes(p)
      BY <2>1, <2>4, <3>2, RevisedFacts DEF PublishMaintained
    <3> QED  BY <1>a, <2>1, <3>1, <3>2, <3>3, Typed DEF Shape, Reads, Obtains
  <2> QED  BY <1>16, <2>2, <2>3, <2>4 DEF PublishXai
<1>17. CASE Login(p)
  <2>1. /\ pc[p] # "idle" /\ Goto(p, "publish") /\ UNCHANGED <<pool, due, call, snap, result>>
        /\ Exchange(snap[p].token) \/ (issued < MaxToken /\ issued' = issued + 1
                                         /\ valid' = valid \cup {issued + 1})
        /\ next' = [next EXCEPT ![p] = issued'] /\ disturbed' = TRUE
        /\ late' = late \/ late' = late \cup ({snap[p].token} \ {0})
    BY <1>17 DEF Login
  <2> QED  BY <1>a, <2>1, ObtainShape
<1>18. CASE RequestDevice(p)
  BY <1>a, <1>18, Proceeds DEF RequestDevice, pool, call
<1>19. CASE Poll(p)
  <2>1. CASE Finish(p) /\ UNCHANGED <<valid, issued>>
    BY <1>b, <1>19, <2>1 DEF Poll, pool, provider
  <2>2. CASE /\ issued < MaxToken /\ issued' = issued + 1 /\ valid' = valid \cup {issued + 1}
             /\ next' = [next EXCEPT ![p] = issued'] /\ Goto(p, "publish")
             /\ UNCHANGED <<call, snap, result>>
    BY <1>a, <1>19, <2>2, ObtainShape, Typed DEF Poll
  <2> QED  BY <1>19, <2>1, <2>2 DEF Poll
<1>20. CASE PublishLogin(p)
  <2>1. /\ LocalsOK' /\ Alone(p) /\ pc'[p] = "idle" /\ next'[p] = 0
    BY <1>a, <1>20, Finished DEF PublishLogin
  <2>2. /\ UNCHANGED <<lease, valid, issued, late, due>>
        /\ disturbed' \in BOOLEAN /\ (disturbed => disturbed')
    <3>1. Disturb(Process \ {p}) \/ disturbed' = disturbed
      BY <1>20 DEF PublishLogin
    <3>2. UNCHANGED <<lease, valid, issued, late, due>>
      BY <1>20 DEF PublishLogin, provider
    <3> QED  BY <1>a, <3>1, <3>2, Disturbs
  <2>3. Writes(p)
    BY <1>20, <2>1, <2>2, RevisedFacts DEF PublishLogin, PublishMaintained, Writes
  <2> QED  BY <2>1, <2>2, <2>3 DEF Shape, Reads, Obtains
<1>21. CASE PublishPolicy(p)
  <2>1. /\ LocalsOK' /\ Alone(p) /\ pc'[p] = "idle" /\ next'[p] = 0
    BY <1>a, <1>21, Finished DEF PublishPolicy
  <2>2. /\ UNCHANGED <<lease, valid, issued, late, due>>
        /\ disturbed' \in BOOLEAN /\ (disturbed => disturbed')
    <3>1. Disturb(Process \ {p}) \/ disturbed' = disturbed
      BY <1>21 DEF PublishPolicy
    <3>2. UNCHANGED <<lease, valid, issued, late, due>>
      BY <1>21 DEF PublishPolicy, provider
    <3> QED  BY <1>a, <3>1, <3>2, Disturbs
  <2>3. Writes(p)
    BY <1>21, PolicyFacts DEF Writes
  <2> QED  BY <2>1, <2>2, <2>3 DEF Shape, Reads, Obtains
<1>22. CASE Die(p)
  <2>1. LocalsOK' /\ Alone(p) /\ pc'[p] = "idle" /\ next'[p] = 0
    BY <1>a, <1>22, Finished DEF Die
  <2>2. pc[p] # "idle" /\ UNCHANGED <<record, lease, valid, issued, due>>
    BY <1>22 DEF Die, pool
  <2>3. late' = late \/ late' = late \cup ({snap[p].token} \ {0})
    BY <1>a, <1>22 DEF Die, ProcessInv
  <2>4. disturbed' \in BOOLEAN /\ (disturbed => disturbed')
    BY <1>a, <1>22, Disturbs DEF Die
  <2> QED  BY <2>1, <2>2, <2>3, <2>4 DEF Shape, Reads, Writes, Obtains
<1> QED
  BY <1>1, <1>2, <1>3, <1>4, <1>5, <1>6, <1>7, <1>8, <1>9, <1>10, <1>11, <1>12, <1>13,
     <1>14, <1>15, <1>16, <1>17, <1>18, <1>19, <1>20, <1>21, <1>22 DEF Step

-----------------------------------------------------------------------------
(* The parts of the invariant that follow from the shape alone.             *)

LEMMA ShapeProvider ==
    ASSUME UpkeepInv, NEW p \in Process, Shape(p)
    PROVE  /\ issued' \in 0..MaxToken /\ issued <= issued'
           /\ valid' \subseteq 1..issued' /\ late' \subseteq 1..issued'
           /\ \A t \in valid' : t \in valid \/ t = issued + 1
           /\ \A t \in valid : t \in valid' \/ (t = snap[p].token /\ pc[p] # "idle")
           /\ record.version <= record'.version
           /\ record' # record => record.version < record'.version
           /\ record' \in Record /\ record'.token <= issued'
           /\ \A t \in 0..issued : t \notin valid => t \notin valid'
<1>1. /\ MaintenanceTypeOK /\ (pc[p] # "idle" => snap[p].token <= issued)
  BY DEF UpkeepInv, ProcessInv
<1>2. /\ Writes(p) /\ Obtains(p)
      /\ late' = late \/ (late' = late \cup ({snap[p].token} \ {0}) /\ pc[p] # "idle")
  BY DEF Shape
<1>3. /\ issued' \in 0..MaxToken /\ issued <= issued'
      /\ \A t \in valid' : t \in valid \/ (t = issued + 1 /\ t = issued')
      /\ \A t \in valid : t \in valid' \/ (t = snap[p].token /\ pc[p] # "idle")
  BY <1>1, <1>2, Typed DEF Obtains
<1>4. late' \subseteq 1..issued'
  BY <1>1, <1>2, <1>3, Typed
<1>5. /\ record.version <= record'.version
      /\ record' # record => record.version < record'.version
      /\ record' \in Record /\ record'.token <= issued'
  BY <1>1, <1>2, <1>3, Typed DEF Writes
<1>6. valid' \subseteq 1..issued' /\ \A t \in 0..issued : t \notin valid => t \notin valid'
  BY <1>1, <1>3, Typed
<1> QED  BY <1>3, <1>4, <1>5, <1>6

LEMMA UpkeepType ==
    ASSUME UpkeepInv, NEW p \in Process, Shape(p), kind' = kind
    PROVE  MaintenanceTypeOK'
<1>1. /\ MaintenanceTypeOK /\ LocalsOK' /\ due' = due /\ lease' \in {lease, p, Nobody}
      /\ disturbed' \in BOOLEAN
  BY DEF UpkeepInv, Shape
<1>2. \A q \in Process : next'[q] <= issued'
  <2>1. next'[p] <= issued'
    BY <1>1, ShapeProvider, Typed DEF Shape, Obtains
  <2>2. \A q \in Process \ {p} : next'[q] = next[q] /\ next[q] <= issued
    BY <1>1, Typed DEF Shape, Alone
  <2>3. issued <= issued' /\ issued \in Nat /\ issued' \in Nat
    BY <1>1, ShapeProvider, Typed
  <2> QED  BY <1>1, <2>1, <2>2, <2>3, Typed
<1>3. due \subseteq 1..issued' /\ lease' \in Process \cup {Nobody}
  BY <1>1, ShapeProvider, Typed DEF MaintenanceTypeOK
<1> QED  BY <1>1, <1>2, <1>3, ShapeProvider, Typed DEF MaintenanceTypeOK, LocalsOK

LEMMA BlockedStep ==
    ASSUME UpkeepInv, NEW p \in Process, Shape(p)
    PROVE  BlockedOnlyWhenSpent'
<1>1. /\ MaintenanceTypeOK /\ BlockedOnlyWhenSpent /\ Writes(p)
  BY DEF UpkeepInv, Shape
<1>2. CASE record' = record
  BY <1>1, <1>2, ShapeProvider, Typed DEF BlockedOnlyWhenSpent
<1>3. CASE record' # record
  BY <1>1, <1>3 DEF BlockedOnlyWhenSpent, Writes
<1> QED  BY <1>2, <1>3

\* What the others read stays what it was, and the tokens they know stay spent.
LEMMA OtherProcess ==
    ASSUME UpkeepInv, NEW p \in Process, Shape(p), kind' = kind, NEW q \in Process \ {p}
    PROVE  ProcessInv(q)'
<1>1. /\ MaintenanceTypeOK /\ ProcessInv(q)
      /\ pc'[q] = pc[q] /\ job'[q] = job[q] /\ snap'[q] = snap[q] /\ next'[q] = next[q]
  BY DEF UpkeepInv, Shape, Alone
<1>2. pc[q] # "idle" =>
        /\ snap[q].version <= record'.version /\ snap[q].token <= issued'
        /\ snap[q].version = record'.version => snap[q] = record'
  BY <1>1, ShapeProvider, Typed DEF ProcessInv, Record
<1>3. pc[q] # "idle" /\ snap[q].token \notin valid => snap[q].token \notin valid'
  BY <1>1, ShapeProvider, Typed DEF ProcessInv
<1> QED  BY <1>1, <1>2, <1>3 DEF ProcessInv

LEMMA FreshStep ==
    ASSUME UpkeepInv, NEW p \in Process, Shape(p), NEW q \in Process
    PROVE  FreshInv(q)'
<1>1. /\ MaintenanceTypeOK /\ \A r \in Process : ProcessInv(r) /\ FreshInv(r)
      /\ Alone(p) /\ Reads(p) /\ Writes(p) /\ Obtains(p)
      /\ late' = late \/ (late' = late \cup ({snap[p].token} \ {0}) /\ pc[p] # "idle")
      /\ \A r \in Process : next[r] # 0 => pc[r] # "idle"
  BY DEF UpkeepInv, Shape, ProcessInv
<1>2. SUFFICES ASSUME next'[q] # 0 PROVE FreshInv(q)'
  BY DEF FreshInv
<1>3. CASE next'[q] = next[q] /\ (q = p => valid' = valid /\ issued' = issued)
  <2>1. /\ FreshInv(q) /\ next[q] # 0 /\ next[q] <= issued /\ next[q] \in Nat /\ issued \in Nat
        /\ next[q] \in valid /\ pc[q] # "idle"
    BY <1>1, <1>2, <1>3, Typed DEF FreshInv
  <2>2. next[q] \in valid'
    BY <1>1, <1>3, <2>1, ShapeProvider DEF FreshInv
  <2>3. record'.token # next[q]
    <3>1. CASE q = p
      BY <1>1, <1>2, <2>1, <3>1 DEF Writes, FreshInv
    <3>2. CASE q # p
      BY <1>1, <2>1, <3>2 DEF Writes, FreshInv
    <3> QED  BY <3>1, <3>2
  <2>4. next[q] \notin late'
    BY <1>1, <2>1 DEF FreshInv
  <2>5. ASSUME NEW r \in Process, pc'[r] # "idle" PROVE snap'[r].token # next[q]
    BY <1>1, <2>1, <2>5 DEF FreshInv, Alone, Reads
  <2>6. ASSUME NEW r \in Process, r # q PROVE next'[r] # next[q]
    <3>1. CASE r # p
      BY <1>1, <2>1, <2>6, <3>1 DEF FreshInv, Alone
    <3>2. CASE r = p
      <4>1. next'[p] \in {0, next[p], issued + 1}
        BY <1>1 DEF Obtains
      <4> QED  BY <2>1, <2>6, <3>2, <4>1 DEF FreshInv
    <3> QED  BY <3>1, <3>2
  <2> QED  BY <1>3, <2>2, <2>3, <2>4, <2>5, <2>6 DEF FreshInv
<1>4. CASE ~(next'[q] = next[q] /\ (q = p => valid' = valid /\ issued' = issued))
  <2>1. /\ q = p /\ next'[q] = issued' /\ issued' = issued + 1 /\ record' = record
        /\ issued' \in valid' /\ pc[p] # "idle"
    BY <1>1, <1>2, <1>4 DEF Obtains, Alone
  <2>2. issued \in Nat /\ record.token <= issued /\ record.token \in Nat
        /\ \A t \in late' : t \in Nat /\ t <= issued
    BY <1>1, Typed DEF ProcessInv
  <2>3. ASSUME NEW r \in Process, pc'[r] # "idle" PROVE snap'[r].token # issued + 1
    <3>1. /\ \E t \in Process : snap'[r] = record \/ (snap'[r] = snap[t] /\ pc[t] # "idle")
      BY <1>1, <2>1, <2>3 DEF Alone, Reads
    <3> QED  BY <1>1, <2>2, <3>1, Typed DEF ProcessInv
  <2>4. ASSUME NEW r \in Process, r # q PROVE next'[r] # issued + 1
    BY <1>1, <2>1, <2>2, <2>4, Typed DEF Alone
  <2> QED  BY <2>1, <2>2, <2>3, <2>4 DEF FreshInv
<1> QED  BY <1>3, <1>4

-----------------------------------------------------------------------------
(* The process's own invariant.                                             *)

\* Of the shape: what p read is no newer than the record and, if current, is it.
LEMMA OwnReading ==
    ASSUME UpkeepInv, NEW p \in Process, Shape(p), pc'[p] # "idle"
    PROVE  /\ snap'[p].version <= record'.version /\ snap'[p].token <= issued'
           /\ snap'[p].version = record'.version => snap'[p] = record'
<1>1. /\ MaintenanceTypeOK /\ ProcessInv(p) /\ Reads(p) /\ Writes(p)
  BY DEF UpkeepInv, Shape
<1>2. /\ snap'[p].version <= record.version /\ snap'[p].token <= issued
      /\ snap'[p].version = record.version => snap'[p] = record
      /\ snap'[p] \in Record /\ snap'[p].version \in Nat /\ snap'[p].token \in Nat
  BY <1>1, Typed DEF ProcessInv, Reads
<1>3. record' = record \/ record.version < record'.version
  BY <1>1, Typed DEF Writes
<1> QED  BY <1>1, <1>2, <1>3, ShapeProvider, Typed, MaintenanceAssumption DEF Record

LEMMA OwnProcess ==
    ASSUME UpkeepInv, NEW p \in Process, Step(p), kind' = kind
    PROVE  ProcessInv(p)'
<1>a. /\ MaintenanceTypeOK /\ ProcessInv(p) /\ LocalsOK /\ Shape(p)
      /\ kind \in {"codex", "xai"}
  BY StepShape, Typed DEF UpkeepInv
<1>b. CASE pc'[p] = "idle" /\ next'[p] = 0
  BY <1>b DEF ProcessInv
<1>c. CASE Finish(p) \/ Serve(p)
  BY <1>a, <1>b, <1>c, Finished
\* where nothing is obtained and nothing is owed
<1>d. CASE next'[p] = 0 /\ pc'[p] \in {"admit", "probe", "release", "final"}
  BY <1>a, <1>d, OwnReading DEF ProcessInv
<1>1. CASE \E j \in Job, v \in 0..MaxVersion : Load(p, j, v)
  <2>1. pc[p] = "idle" /\ pc'[p] = "admit" /\ next'[p] = next[p]
    BY <1>1, LoadShape DEF Load
  <2> QED  BY <1>a, <1>d, <2>1 DEF ProcessInv
<1>e. CASE Leave(p, "failed") \/ Leave(p, "ok")
  BY <1>a, <1>d, <1>e DEF Leave, Goto, LocalsOK
<1>2. CASE AdmitResolve(p)
  <2>1. CASE /\ Valid(snap[p]) /\ Maintain(p) /\ pc[p] = "admit" /\ job[p] = "resolve"
             /\ UNCHANGED <<job, rejected, snap, next, result, pool, provider>>
    <3>1. /\ pc'[p] = (IF kind = "codex" THEN "acquire" ELSE "refresh")
          /\ job'[p] = "resolve" /\ next'[p] = 0 /\ snap'[p].token # 0
      BY <1>a, <2>1 DEF Maintain, Goto, LocalsOK, ProcessInv, Valid
    <3> QED  BY <1>a, <3>1, OwnReading DEF ProcessInv, Maintainer
  <2> QED  BY <1>2, <1>c, <2>1 DEF AdmitResolve
<1>3. CASE AdmitAdvance(p)
  BY <1>a, <1>c, <1>d, <1>3 DEF AdmitAdvance, Goto, LocalsOK, ProcessInv
<1>4. CASE Advance(p) \/ Terminate(p) \/ Final(p)
  BY <1>c, <1>4 DEF Advance, Terminate, Final
<1>5. CASE AdmitMaintain(p)
  <2>1. CASE /\ Valid(snap[p]) /\ Maintain(p) /\ pc[p] = "admit" /\ job[p] = "maintain"
             /\ UNCHANGED <<job, rejected, snap, next, result, pool, provider>>
    <3>1. /\ pc'[p] = (IF kind = "codex" THEN "acquire" ELSE "refresh")
          /\ job'[p] = "maintain" /\ next'[p] = 0 /\ snap'[p].token # 0
      BY <1>a, <2>1 DEF Maintain, Goto, LocalsOK, ProcessInv, Valid
    <3> QED  BY <1>a, <3>1, OwnReading DEF ProcessInv, Maintainer
  <2> QED  BY <1>5, <1>c, <2>1 DEF AdmitMaintain
<1>6. CASE AdmitIncomplete(p)
  <2>1. CASE /\ kind = "codex" /\ Goto(p, "acquire") /\ pc[p] = "admit" /\ job[p] = "maintain"
             /\ UNCHANGED <<job, rejected, snap, next, result>>
    <3>1. pc'[p] = "acquire" /\ job'[p] = "maintain" /\ next'[p] = 0
      BY <1>a, <2>1 DEF Goto, LocalsOK, ProcessInv
    <3> QED  BY <1>a, <2>1, <3>1, OwnReading DEF ProcessInv, Maintainer
  <2> QED  BY <1>6, <1>c, <2>1 DEF AdmitIncomplete
<1>7. CASE TakeLease(p)
  <2>1. CASE /\ pc[p] = "acquire" /\ Goto(p, "reread")
             /\ UNCHANGED <<record, call, snap, next, result>>
    <3>1. pc'[p] = "reread" /\ job'[p] = job[p] /\ next'[p] = 0
      BY <1>a, <2>1 DEF Goto, LocalsOK, ProcessInv, call
    <3> QED  BY <1>a, <2>1, <3>1, OwnReading DEF ProcessInv
  <2> QED  BY <1>7, <1>c, <2>1 DEF TakeLease
<1>8. CASE Reread(p)
  <2>1. /\ pc[p] = "reread" /\ snap'[p] = record /\ job'[p] = job[p] /\ next[p] = 0
        /\ UNCHANGED <<record, valid>>
    BY <1>a, <1>8 DEF Reread, LocalsOK, ProcessInv, call, pool, provider
  <2>2. CASE record.token = 0 /\ Goto(p, "renew") /\ UNCHANGED <<next, result>>
    <3>1. pc'[p] = "renew" /\ next'[p] = 0 /\ 0 \notin valid'
      BY <1>a, <2>1, <2>2, Typed DEF Goto, LocalsOK
    <3> QED  BY <1>a, <2>1, <2>2, <3>1, OwnReading DEF ProcessInv
  <2>3. CASE Valid(record) /\ Goto(p, "refresh") /\ UNCHANGED <<next, result>>
    <3>1. pc'[p] = "refresh" /\ next'[p] = 0 /\ snap'[p].token # 0
      BY <1>a, <2>1, <2>3 DEF Goto, LocalsOK, Valid
    <3> QED  BY <1>a, <2>1, <3>1, OwnReading DEF ProcessInv
  <2> QED  BY <1>8, <1>e, <2>2, <2>3 DEF Reread
<1>9. CASE Refresh(p)
  <2>1. /\ pc[p] = "refresh" /\ kind = "codex" /\ pc'[p] = "renew" /\ job'[p] = job[p]
        /\ snap'[p] = snap[p] /\ next[p] = 0
    BY <1>a, <1>9 DEF Refresh, Goto, LocalsOK, ProcessInv, call
  <2>2. next'[p] # 0 \/ snap'[p].token \notin valid'
    <3>1. CASE Exchange(snap[p].token) /\ next' = [next EXCEPT ![p] = issued']
      BY <1>a, <3>1, ExchangeFacts, Typed DEF LocalsOK
    <3>2. CASE snap[p].token \notin valid /\ UNCHANGED <<valid, issued, next>>
      BY <2>1, <3>2
    <3> QED  BY <1>9, <3>1, <3>2 DEF Refresh
  <2> QED  BY <1>a, <2>1, <2>2, OwnReading DEF ProcessInv
<1>10. CASE RefreshFails(p) \/ Abort(p)
  BY <1>e, <1>10 DEF RefreshFails, Abort
<1>11. CASE RenewOwned(p)
  <2>1. CASE Goto(p, "publish") /\ UNCHANGED <<next, result>>
    <3>1. /\ pc[p] = "renew" /\ pc'[p] = "publish" /\ next'[p] = next[p]
          /\ job'[p] = job[p] /\ snap'[p] = snap[p] /\ valid' = valid
      BY <1>a, <1>11, <2>1 DEF RenewOwned, Goto, LocalsOK, call, provider
    <3>2. "login" \notin Maintainer
      BY DEF Maintainer
    <3> QED  BY <1>a, <3>1, <3>2, OwnReading DEF ProcessInv
  <2> QED  BY <1>11, <1>e, <2>1 DEF RenewOwned
<1>12. CASE Publish(p)
  BY <1>a, <1>d, <1>12 DEF Publish, Goto, LocalsOK
<1>13. CASE FreeLease(p)
  <2>1. CASE pc[p] = "release" /\ Goto(p, "final") /\ UNCHANGED next
    BY <1>a, <1>d, <2>1 DEF Goto, LocalsOK, ProcessInv
  <2> QED  BY <1>13, <1>c, <2>1 DEF FreeLease
<1>14. CASE RefreshXai(p)
  <2>1. CASE /\ pc[p] = "refresh" /\ kind = "xai" /\ Exchange(snap[p].token)
             /\ next' = [next EXCEPT ![p] = issued'] /\ Goto(p, "publish")
             /\ UNCHANGED <<late, call, snap, result, disturbed>>
    <3>1. /\ pc'[p] = "publish" /\ next'[p] # 0 /\ job'[p] = job[p] /\ snap'[p] = snap[p]
      BY <1>a, <2>1, ExchangeFacts, Typed DEF Goto, LocalsOK, call
    <3> QED  BY <1>a, <2>1, <3>1, OwnReading DEF ProcessInv
  <2> QED  BY <1>14, <1>c, <2>1 DEF RefreshXai
<1>15. CASE PublishXai(p)
  <2>1. CASE Goto(p, "final") /\ next' = [next EXCEPT ![p] = 0]
    BY <1>a, <1>d, <2>1 DEF Goto, LocalsOK
  <2> QED  BY <1>15, <1>c, <2>1 DEF PublishXai
<1>16. CASE Login(p)
  <2>1. /\ pc'[p] = "publish" /\ job'[p] = "login" /\ next'[p] # 0
    <3>1. /\ pc'[p] = "publish" /\ job'[p] = "login" /\ next'[p] = issued'
      BY <1>a, <1>16 DEF Login, Goto, LocalsOK, call
    <3>2. issued' = issued + 1
      BY <1>a, <1>16, ExchangeFacts, Typed DEF Login
    <3> QED  BY <1>a, <3>1, <3>2, Typed
  <2> QED  BY <1>a, <2>1, OwnReading DEF ProcessInv
<1>17. CASE RequestDevice(p)
  <2>1. pc'[p] = "poll" /\ job'[p] = "login" /\ next'[p] = 0
    BY <1>a, <1>17 DEF RequestDevice, Goto, LocalsOK, call, ProcessInv
  <2> QED  BY <1>a, <2>1, OwnReading DEF ProcessInv
<1>18. CASE Poll(p)
  <2>1. CASE /\ pc[p] = "poll" /\ issued < MaxToken /\ issued' = issued + 1
             /\ next' = [next EXCEPT ![p] = issued'] /\ Goto(p, "publish")
             /\ UNCHANGED <<call, snap, result>>
    <3>1. pc'[p] = "publish" /\ job'[p] = "login" /\ next'[p] # 0
      BY <1>a, <2>1, Typed DEF Goto, LocalsOK, call, ProcessInv
    <3> QED  BY <1>a, <3>1, OwnReading DEF ProcessInv
  <2> QED  BY <1>18, <1>c, <2>1 DEF Poll
<1>19. CASE PublishLogin(p)
  BY <1>c, <1>19 DEF PublishLogin
<1>20. CASE PublishPolicy(p) \/ Die(p)
  BY <1>c, <1>20 DEF PublishPolicy, Die
<1> QED
  BY <1>1, <1>2, <1>3, <1>4, <1>5, <1>6, <1>7, <1>8, <1>9, <1>10, <1>11, <1>12, <1>13,
     <1>14, <1>15, <1>16, <1>17, <1>18, <1>19, <1>20 DEF Step

-----------------------------------------------------------------------------
(* Steps that disturb no refresh.                                           *)

\* p replaces the record under the lease, or when nobody else refreshes, or
\* (xAI) for a token that it obtained for the record's.
Replaces(p) ==
    record' # record =>
        \/ \A q \in Process \ {p} : ~Refreshing(q)
        \/ kind = "codex" /\ lease = p
        \/ kind = "xai" /\ Rotated(p)

\* p obtains a token for the record's, or as a login besides it.
Gains(p) ==
    valid' # valid =>
        \/ valid \subseteq valid' /\ ~Rotated(p)'
        \/ /\ Rotated(p)' /\ record.token \in valid /\ record.token \notin valid'
           /\ record' = record /\ snap'[p] = record /\ (kind = "codex" => lease = p)

Calm(p) ==
    /\ late' = late /\ Replaces(p) /\ Gains(p) /\ CalmInv(p)'
    /\ lease' = lease \/ lease = Nobody \/ lease = p
    /\ Rotated(p) /\ ~Rotated(p)' => record'.token \in valid'
    /\ Rotated(p)' => Rotated(p) \/ valid' # valid

\* Nothing is obtained, and nothing that was obtained is dropped.
LEMMA CalmStay ==
    ASSUME UpkeepInv, NEW p \in Process, ~Rotated(p), next'[p] = 0,
           UNCHANGED <<record, valid, late>>,
           lease' = lease \/ lease = Nobody \/ lease = p, kind' = kind,
           kind = "codex" /\ job'[p] # "login" =>
             /\ pc'[p] \in {"reread", "refresh", "renew", "publish"} => lease' = p
             /\ pc'[p] \in {"refresh", "renew", "publish"} => snap'[p] = record,
           kind = "xai" /\ (pc'[p] = "refresh" \/ (pc'[p] = "admit" /\ job'[p] \in Maintainer)) =>
             snap'[p] = record \/ snap'[p].token \notin valid
    PROVE  Calm(p)
<1>1. ~Rotated(p)'
  BY DEF Rotated
<1>2. CalmInv(p)'
  BY <1>1 DEF CalmInv
<1> QED  BY <1>1, <1>2 DEF Calm, Replaces, Gains

LEMMA CalmRest ==
    ASSUME UpkeepInv, NEW p \in Process, ~Rotated(p), next'[p] = 0,
           pc'[p] \in {"idle", "probe", "poll", "acquire", "release", "final"},
           UNCHANGED <<record, valid, late>>,
           lease' = lease \/ lease = Nobody \/ lease = p, kind' = kind
    PROVE  Calm(p)
BY CalmStay

\* A record written where nobody is disturbed.
LEMMA CalmWrite ==
    ASSUME UpkeepInv, NEW p \in Process, next'[p] = 0, kind' = kind,
           pc'[p] \in {"idle", "release", "final"}, UNCHANGED <<valid, late, lease>>, Replaces(p),
           Rotated(p) => record'.token \in valid'
    PROVE  Calm(p)
<1>1. ~Rotated(p)'
  BY DEF Rotated
<1>2. CalmInv(p)'
  BY <1>1 DEF CalmInv
<1> QED  BY <1>1, <1>2 DEF Calm, Gains

LEMMA CalmStep ==
    ASSUME UpkeepInv, ~disturbed, ~disturbed', NEW p \in Process, Step(p), kind' = kind
    PROVE  Calm(p)
<1>a. /\ MaintenanceTypeOK /\ ProcessInv(p) /\ FreshInv(p) /\ LocalsOK
      /\ CalmInv(p) /\ late = {} /\ kind \in {"codex", "xai"}
      /\ next[p] # 0 => pc[p] \in {"renew", "publish"}
      /\ "login" \notin Maintainer
  BY Typed DEF UpkeepInv, Undisturbed, ProcessInv, Maintainer
<1>b. /\ Rotated(p) => next[p] # 0 /\ pc[p] \in {"renew", "publish"}
      /\ pc[p] \notin {"renew", "publish"} => ~Rotated(p) /\ next[p] = 0
  BY <1>a DEF Rotated
<1>c. ASSUME Finish(p) \/ Serve(p), UNCHANGED <<record, valid, late>>,
             lease' = lease \/ lease = Nobody \/ lease = p, pc[p] \notin {"renew", "publish"}
      PROVE  Calm(p)
  BY <1>a, <1>b, <1>c, Finished, CalmRest
<1>1. CASE \E j \in Job, v \in 0..MaxVersion : Load(p, j, v)
  <2>1. /\ pc[p] = "idle" /\ pc'[p] = "admit" /\ next'[p] = next[p] /\ snap'[p] = record
        /\ UNCHANGED <<record, lease, valid, late>>
    BY <1>1, LoadShape DEF Load, pool, provider
  <2> QED  BY <1>b, <2>1, CalmStay
<1>2. ASSUME Maintain(p) \/ (kind = "codex" /\ Goto(p, "acquire")), pc[p] = "admit",
             job[p] \in Maintainer, UNCHANGED <<job, snap, next, pool, provider>>
      PROVE  Calm(p)
  <2>1. /\ pc'[p] = (IF kind = "codex" THEN "acquire" ELSE "refresh")
        /\ job'[p] = job[p] /\ snap'[p] = snap[p] /\ next'[p] = next[p]
        /\ UNCHANGED <<record, lease, valid, late>>
    BY <1>a, <1>2 DEF Maintain, Goto, LocalsOK, pool, provider
  <2>2. kind = "xai" => snap[p] = record \/ snap[p].token \notin valid
    BY <1>a, <1>2 DEF CalmInv
  <2> QED  BY <1>b, <1>2, <2>1, <2>2, CalmStay
<1>3. CASE AdmitResolve(p)
  BY <1>c, <1>2, <1>3 DEF AdmitResolve, pool, provider, Maintainer
<1>4. CASE AdmitAdvance(p)
  <2>1. CASE Goto(p, "probe") /\ UNCHANGED <<call, snap, next, result>>
    BY <1>a, <1>b, <1>4, <2>1, CalmRest DEF AdmitAdvance, Goto, LocalsOK, pool, provider
  <2> QED  BY <1>c, <1>4, <2>1 DEF AdmitAdvance, pool, provider
<1>5. CASE Advance(p) \/ Terminate(p) \/ Final(p)
  BY <1>c, <1>5 DEF Advance, Terminate, Final, pool, provider
<1>6. CASE AdmitMaintain(p)
  BY <1>c, <1>2, <1>6 DEF AdmitMaintain, pool, provider, Maintainer
<1>7. CASE AdmitIncomplete(p)
  BY <1>c, <1>2, <1>7 DEF AdmitIncomplete, pool, provider, Maintainer
<1>8. CASE TakeLease(p)
  <2>1. CASE /\ lease = Nobody /\ lease' = p /\ Goto(p, "reread") /\ pc[p] = "acquire"
             /\ UNCHANGED <<record, call, snap, next, result, provider>>
    <3>1. pc'[p] = "reread" /\ next'[p] = next[p] /\ UNCHANGED <<valid, late>>
      BY <1>a, <2>1 DEF Goto, LocalsOK, provider
    <3> QED  BY <1>b, <2>1, <3>1, CalmStay
  <2> QED  BY <1>c, <1>8, <2>1 DEF TakeLease, pool, provider
<1>9. CASE Reread(p)
  <2>1. /\ pc[p] = "reread" /\ kind = "codex" /\ lease = p /\ snap'[p] = record
        /\ UNCHANGED <<record, lease, valid, late>>
    BY <1>a, <1>9 DEF Reread, pool, provider, LocalsOK, ProcessInv, CalmInv
  <2>2. next'[p] = 0
    BY <1>a, <1>b, <1>9, <2>1 DEF Reread, Leave, LocalsOK
  <2> QED  BY <1>b, <2>1, <2>2, CalmStay
\* a Codex maintainer that refreshes or publishes
<1>d. ASSUME kind = "codex", job[p] # "login", pc[p] \in {"refresh", "renew", "publish"}
      PROVE  lease = p /\ snap[p] = record
  BY <1>a, <1>d DEF CalmInv
<1>10. CASE Refresh(p)
  <2>1. /\ pc[p] = "refresh" /\ kind = "codex" /\ pc'[p] = "renew" /\ job'[p] = job[p]
        /\ job[p] # "login" /\ snap'[p] = snap[p] /\ next[p] = 0
        /\ UNCHANGED <<record, lease, late>>
    BY <1>a, <1>10 DEF Refresh, Goto, LocalsOK, ProcessInv, call, pool
  <2>2. lease = p /\ snap[p] = record
    BY <1>d, <2>1
  <2>3. CASE snap[p].token \notin valid /\ UNCHANGED <<valid, issued, next>>
    BY <1>b, <2>1, <2>2, <2>3, CalmStay
  <2>4. CASE Exchange(snap[p].token) /\ next' = [next EXCEPT ![p] = issued']
    <3>1. /\ record.token \in valid /\ record.token \notin valid'
          /\ next'[p] # 0 /\ valid' # valid
      BY <1>a, <2>2, <2>4, ExchangeFacts, Typed DEF LocalsOK
    <3>2. Rotated(p)' /\ ~Rotated(p)
      BY <1>b, <2>1, <3>1 DEF Rotated
    <3>3. CalmInv(p)'
      BY <2>1, <2>2, <3>1 DEF CalmInv
    <3> QED  BY <2>1, <2>2, <3>1, <3>2, <3>3 DEF Calm, Replaces, Gains
  <2> QED  BY <1>10, <2>3, <2>4 DEF Refresh
<1>11. CASE RefreshFails(p)
  BY <1>11 DEF RefreshFails
<1>12. CASE RenewOwned(p)
  <2>1. /\ pc[p] = "renew" /\ kind = "codex" /\ job[p] # "login" /\ job'[p] = job[p]
        /\ snap'[p] = snap[p] /\ UNCHANGED <<record, lease, valid, late>>
    BY <1>a, <1>12 DEF RenewOwned, pool, provider, call, ProcessInv
  <2>2. lease = p /\ snap[p] = record
    BY <1>d, <2>1
  <2>3. pc'[p] = "publish" /\ next'[p] = next[p]
    BY <1>a, <1>12, <2>2 DEF RenewOwned, Goto, LocalsOK
  <2>4. Rotated(p)' <=> Rotated(p)
    BY <2>1, <2>3 DEF Rotated
  <2>5. CalmInv(p)'
    BY <1>a, <2>1, <2>2, <2>3, <2>4 DEF CalmInv
  <2> QED  BY <2>1, <2>4, <2>5 DEF Calm, Replaces, Gains
<1>e. ASSUME Disturb({p}), pc[p] # "idle" PROVE ~Refreshing(p)
  BY <1>e DEF Disturb
<1>13. CASE Abort(p)
  BY <1>e, <1>13 DEF Abort, Refreshing
<1>14. CASE Publish(p)
  <2>1. /\ pc[p] = "publish" /\ kind = "codex" /\ job[p] # "login"
        /\ pc'[p] = "release" /\ next'[p] = 0 /\ UNCHANGED <<valid, issued, late, lease>>
        /\ record.version = snap[p].version => record.version < MaxVersion /\ record' = Revised(p)
    BY <1>a, <1>14 DEF Publish, Goto, LocalsOK, provider
  <2>2. lease = p /\ snap[p] = record
    BY <1>d, <2>1
  <2>3. next[p] # 0 => record'.token = next[p] /\ next[p] \in valid
    BY <2>1, <2>2, RevisedFacts
  <2> QED  BY <1>b, <2>1, <2>2, <2>3, CalmWrite DEF Replaces
<1>15. CASE FreeLease(p)
  <2>1. /\ pc[p] = "release" /\ (lease' = lease \/ lease = p)
        /\ UNCHANGED <<record, valid, late>>
    BY <1>15 DEF FreeLease, provider
  <2>2. CASE Goto(p, "final") /\ UNCHANGED <<call, snap, next, result>>
    <3>1. pc'[p] = "final" /\ next'[p] = next[p]
      BY <1>a, <2>2 DEF Goto, LocalsOK
    <3> QED  BY <1>b, <2>1, <3>1, CalmRest
  <2> QED  BY <1>c, <1>15, <2>1, <2>2 DEF FreeLease
<1>16. CASE RefreshXai(p)
  <2>1. pc[p] = "refresh" /\ kind = "xai" /\ UNCHANGED <<record, lease>>
    BY <1>16 DEF RefreshXai, pool
  <2>2. CASE Finish(p) /\ UNCHANGED <<valid, issued, late, disturbed>>
    BY <1>c, <2>1, <2>2
  <2>3. CASE /\ Exchange(snap[p].token) /\ next' = [next EXCEPT ![p] = issued']
             /\ Goto(p, "publish") /\ UNCHANGED <<late, call, snap, result, disturbed>>
    <3>1. snap[p].token \in valid /\ snap[p].token \notin valid' /\ next'[p] # 0 /\ valid' # valid
      BY <1>a, <2>3, ExchangeFacts, Typed DEF LocalsOK
    <3>2. snap[p] = record
      BY <1>a, <2>1, <3>1 DEF CalmInv
    <3>3. pc'[p] = "publish" /\ job'[p] = job[p] /\ snap'[p] = snap[p]
      BY <1>a, <2>3 DEF Goto, LocalsOK, call
    <3>4. job[p] # "login"
      BY <1>a, <2>1 DEF ProcessInv
    <3>5. Rotated(p)' /\ ~Rotated(p)
      BY <1>b, <2>1, <3>1, <3>3, <3>4 DEF Rotated
    <3>6. CalmInv(p)'
      BY <2>1, <3>1, <3>2, <3>3 DEF CalmInv
    <3> QED  BY <2>1, <2>3, <3>1, <3>2, <3>3, <3>5, <3>6 DEF Calm, Replaces, Gains
  <2> QED  BY <1>16, <2>2, <2>3 DEF RefreshXai
<1>17. CASE PublishXai(p)
  <2>1. /\ pc[p] = "publish" /\ kind = "xai" /\ job[p] # "login"
        /\ UNCHANGED <<lease, valid, issued, late>>
    BY <1>17 DEF PublishXai, provider
  <2>2. next[p] # 0 /\ Rotated(p) /\ snap[p] = record
    BY <1>a, <2>1 DEF ProcessInv, Rotated, CalmInv
  <2>3. PublishMaintained(p)
    BY <1>17, <2>2 DEF PublishXai
  <2>4. pc'[p] \in {"idle", "final"} /\ next'[p] = 0
    BY <1>a, <1>17, <2>2, Finished DEF PublishXai, Goto, LocalsOK
  <2>5. record'.token = next[p] /\ next[p] \in valid
    BY <2>1, <2>2, <2>3, <2>4, RevisedFacts DEF PublishMaintained
  <2> QED  BY <2>1, <2>2, <2>4, <2>5, CalmWrite DEF Replaces
<1>18. CASE Login(p)
  BY <1>18 DEF Login
<1>19. CASE RequestDevice(p)
  BY <1>a, <1>b, <1>19, CalmRest DEF RequestDevice, Goto, LocalsOK, pool, provider
<1>20. CASE Poll(p)
  <2>1. pc[p] = "poll" /\ job[p] = "login" /\ UNCHANGED <<record, lease, late>>
    BY <1>a, <1>20 DEF Poll, ProcessInv, pool
  <2>2. CASE /\ issued < MaxToken /\ issued' = issued + 1 /\ valid' = valid \cup {issued + 1}
             /\ Goto(p, "publish") /\ UNCHANGED <<call, snap, result>>
    <3>1. pc'[p] = "publish" /\ job'[p] = "login" /\ snap'[p] = snap[p]
      BY <1>a, <2>1, <2>2 DEF Goto, LocalsOK, call
    <3>2. ~Rotated(p)' /\ ~Rotated(p) /\ valid \subseteq valid'
      BY <2>1, <2>2, <3>1 DEF Rotated
    <3>3. CalmInv(p)'
      BY <3>1, <3>2 DEF CalmInv
    <3> QED  BY <2>1, <3>2, <3>3 DEF Calm, Replaces, Gains
  <2> QED  BY <1>c, <1>20, <2>1, <2>2 DEF Poll
<1>21. CASE PublishLogin(p) \/ PublishPolicy(p)
  <2>1. /\ Finish(p) /\ UNCHANGED <<lease, valid, late>>
        /\ record' # record => Disturb(Process \ {p})
        /\ pc[p] = "admit" \/ job[p] = "login"
    BY <1>21 DEF PublishLogin, PublishPolicy, provider
  <2>2. pc'[p] = "idle" /\ next'[p] = 0 /\ ~Rotated(p)
    BY <1>a, <1>b, <2>1, Finished DEF Rotated
  <2>3. Replaces(p)
    BY <2>1 DEF Replaces, Disturb
  <2> QED  BY <2>1, <2>2, <2>3, CalmWrite
<1>22. CASE Die(p)
  <2>1. /\ Finish(p) /\ pc[p] # "idle" /\ Disturb({p}) /\ UNCHANGED <<record, lease, valid>>
        /\ pc[p] # "refresh" => late' = late
    BY <1>22 DEF Die, pool
  <2>2. pc[p] \notin {"refresh", "renew", "publish"}
    BY <1>e, <2>1 DEF Refreshing
  <2> QED  BY <1>c, <2>1, <2>2
<1> QED
  BY <1>1, <1>3, <1>4, <1>5, <1>6, <1>7, <1>8, <1>9, <1>10, <1>11, <1>12, <1>13, <1>14,
     <1>15, <1>16, <1>17, <1>18, <1>19, <1>20, <1>21, <1>22 DEF Step

\* The others go on undisturbed.
LEMMA CalmOthers ==
    ASSUME UpkeepInv, Undisturbed, NEW p \in Process, Shape(p), Calm(p), kind' = kind,
           NEW q \in Process \ {p}
    PROVE  CalmInv(q)'
<1>1. /\ MaintenanceTypeOK /\ ProcessInv(q) /\ CalmInv(q) /\ CalmInv(p)
      /\ pc'[q] = pc[q] /\ job'[q] = job[q] /\ snap'[q] = snap[q] /\ next'[q] = next[q]
      /\ Replaces(p) /\ (lease' = lease \/ lease = Nobody \/ lease = p)
      /\ Nobody # q
  BY MaintenanceAssumption DEF UpkeepInv, Undisturbed, Calm, Shape, Alone
<1>2. /\ Refreshing(q)' <=> Refreshing(q)
      /\ Rotated(q)' <=> Rotated(q)
      /\ Rotated(q) => Refreshing(q) /\ ~(kind = "codex" /\ lease = p) /\ ~Rotated(p)
  <2>1. (Refreshing(q)' <=> Refreshing(q)) /\ (Rotated(q)' <=> Rotated(q))
    BY <1>1 DEF Refreshing, Rotated
  <2>2. Rotated(q) => Refreshing(q) /\ job[q] # "login" /\ pc[q] \in {"renew", "publish"}
    BY <1>1 DEF Refreshing, Rotated, ProcessInv
  <2>3. Rotated(q) => ~(kind = "codex" /\ lease = p)
    BY <1>1, <2>2 DEF CalmInv
  <2>4. Rotated(q) => ~Rotated(p)
    BY DEF Undisturbed
  <2> QED  BY <2>1, <2>2, <2>3, <2>4
<1>3. CASE kind = "codex"
  <2>1. ASSUME job[q] # "login", pc[q] \in {"reread", "refresh", "renew", "publish"}
        PROVE  lease' = q /\ record' = record
    <3>1. lease = q /\ Refreshing(q)
      BY <1>1, <1>3, <2>1 DEF CalmInv, Refreshing
    <3> QED  BY <1>1, <1>3, <3>1 DEF Replaces
  <2>2. Rotated(q) => record' = record
    BY <1>1, <1>2, <1>3 DEF Replaces
  <2>3. Rotated(q) => record'.token \notin valid' /\ snap[q] = record'
    BY <1>1, <2>2, ShapeProvider, Typed DEF CalmInv
  <2> QED  BY <1>1, <1>2, <1>3, <2>1, <2>3 DEF CalmInv
<1>4. CASE kind = "xai"
  <2>1. Rotated(q) => record' = record
    BY <1>1, <1>2, <1>4 DEF Replaces
  <2>2. Rotated(q) => record'.token \notin valid' /\ snap[q] = record'
    BY <1>1, <2>1, ShapeProvider, Typed DEF CalmInv
  <2>3. ASSUME pc[q] = "refresh" \/ (pc[q] = "admit" /\ job[q] \in Maintainer)
        PROVE  snap[q] = record' \/ snap[q].token \notin valid'
    <3>1. /\ Refreshing(q) /\ pc[q] # "idle"
          /\ snap[q] = record \/ snap[q].token \notin valid
      BY <1>1, <1>4, <2>3 DEF CalmInv, Refreshing, Maintainer
    <3>2. snap[q].token \notin valid => snap[q].token \notin valid'
      BY <1>1, <3>1, ShapeProvider, Typed DEF ProcessInv
    <3>3. CASE record' = record
      BY <3>1, <3>2, <3>3
    <3>4. CASE record' # record
      <4>1. Rotated(p)
        BY <1>4, <3>1, <3>4, <1>1 DEF Replaces
      <4>2. record.token \notin valid
        BY <1>1, <4>1 DEF CalmInv
      <4> QED  BY <3>1, <3>2, <4>2
    <3> QED  BY <3>3, <3>4
  <2> QED  BY <1>1, <1>2, <1>4, <2>2, <2>3 DEF CalmInv
<1> QED  BY <1>1, <1>3, <1>4, Typed

LEMMA CalmKept ==
    ASSUME UpkeepInv, ~disturbed, ~disturbed', NEW p \in Process, Step(p), kind' = kind
    PROVE  Undisturbed'
<1>1. /\ MaintenanceTypeOK /\ Undisturbed /\ Shape(p) /\ Calm(p)
      /\ \A q \in Process : FreshInv(q) /\ ProcessInv(q) /\ CalmInv(q)
      /\ kind \in {"codex", "xai"}
  BY StepShape, CalmStep, Typed DEF UpkeepInv, Undisturbed
<1>2. ASSUME NEW q \in Process \ {p} PROVE Rotated(q)' <=> Rotated(q)
  BY <1>1 DEF Shape, Alone, Rotated
<1>3. late' = {} /\ \A q \in Process : CalmInv(q)'
  BY <1>1, CalmOthers DEF Undisturbed, Calm
\* nobody else has obtained a token when p obtains the record's
<1>4. ASSUME NEW q \in Process \ {p}, Rotated(q), Rotated(p)' PROVE FALSE
  <2>1. ~Rotated(p)
    BY <1>1, <1>4 DEF Undisturbed
  <2>2. /\ record.token \in valid
    BY <1>1, <1>4, <2>1 DEF Calm, Gains
  <2>3. record.token \notin valid
    BY <1>1, <1>4 DEF CalmInv
  <2> QED  BY <2>2, <2>3
<1>5. \A q, r \in Process : Rotated(q)' /\ Rotated(r)' => q = r
  <2> SUFFICES ASSUME NEW q \in Process, NEW r \in Process, Rotated(q)', Rotated(r)', q # r
               PROVE  FALSE
    OBVIOUS
  <2>1. CASE q # p /\ r # p
    BY <1>1, <1>2, <2>1 DEF Undisturbed
  <2>2. CASE q = p \/ r = p
    BY <1>2, <1>4, <2>2
  <2> QED  BY <2>1, <2>2
<1>6. record'.token \in valid' \cup {0} \/ \E q \in Process : Rotated(q)'
  <2>1. CASE Rotated(p)
    BY <1>1, <2>1 DEF Calm
  <2>2. CASE \E q \in Process \ {p} : Rotated(q)
    BY <1>2, <2>2
  <2>3. CASE record.token \in valid \cup {0} /\ ~Rotated(p)
    <3>1. CASE record' = record /\ (record.token = 0 \/ record.token \in valid')
      BY <3>1
    <3>2. CASE record' = record /\ record.token \in valid /\ record.token \notin valid'
      BY <1>1, <3>2 DEF Calm, Gains
    <3>3. CASE record' # record
      <4>1. /\ valid' = valid
            /\ record'.token = record.token \/ (record'.token = next[p] /\ next[p] # 0)
        BY <1>1, <3>3 DEF Shape, Writes
      <4>2. next[p] # 0 => next[p] \in valid
        BY <1>1 DEF FreshInv
      <4> QED  BY <2>3, <4>1, <4>2
    <3> QED  BY <2>3, <3>1, <3>2, <3>3
  <2> QED  BY <1>1, <2>1, <2>2, <2>3 DEF Undisturbed
<1> QED  BY <1>3, <1>5, <1>6 DEF Undisturbed

-----------------------------------------------------------------------------
(* The steps of the provider and of time.                                   *)

LEMMA ElsewhereStep ==
    ASSUME UpkeepInv, kind' = kind,
           (\E t \in 1..MaxToken : ExchangeLate(t)) \/ BecomeDue \/ Lapse
    PROVE  UpkeepInv'
<1>a. /\ MaintenanceTypeOK /\ LocalsOK /\ BlockedOnlyWhenSpent
      /\ \A p \in Process : ProcessInv(p) /\ FreshInv(p)
  BY Typed DEF UpkeepInv
<1>1. CASE \E t \in 1..MaxToken : ExchangeLate(t)
  <2> PICK t \in 1..MaxToken : ExchangeLate(t)
    BY <1>1
  <2>1. /\ t \in late /\ late' = late \ {t} /\ t <= issued
        /\ UNCHANGED <<record, lease, due, pc, call, snap, next, result, disturbed>>
    BY <1>a, Typed DEF ExchangeLate, pool
  <2>2. /\ issued' \in 0..MaxToken /\ issued <= issued'
        /\ valid \ {t} \subseteq valid' /\ valid' \subseteq valid \cup {issued + 1}
        /\ valid' \subseteq 1..issued'
    <3>1. CASE Exchange(t)
      BY <1>a, <3>1, ExchangeFacts, Typed
    <3>2. CASE t \notin valid /\ UNCHANGED <<valid, issued>>
      BY <1>a, <3>2, Typed
    <3> QED  BY <3>1, <3>2 DEF ExchangeLate
  <2>3. late' \subseteq 1..issued' /\ due' \subseteq 1..issued' /\ record'.token <= issued'
        /\ \A q \in Process : next'[q] <= issued'
    BY <1>a, <2>1, <2>2, Typed DEF MaintenanceTypeOK
  <2>4. MaintenanceTypeOK'
    BY <1>a, <2>1, <2>2, <2>3 DEF MaintenanceTypeOK, call
  <2>5. BlockedOnlyWhenSpent'
    BY <1>a, <2>1, <2>2, Typed DEF BlockedOnlyWhenSpent
  <2>6. ASSUME NEW p \in Process PROVE ProcessInv(p)'
    <3>1. pc[p] # "idle" =>
            /\ snap[p].token <= issued'
            /\ snap[p].token \notin valid => snap[p].token \notin valid'
      BY <1>a, <2>2, Typed DEF ProcessInv
    <3> QED  BY <1>a, <2>1, <3>1 DEF ProcessInv, call
  <2>7. ASSUME NEW p \in Process PROVE FreshInv(p)'
    BY <1>a, <2>1, <2>2 DEF FreshInv
  <2>8. disturbed
    BY <2>1 DEF UpkeepInv, Undisturbed
  <2> QED  BY <2>1, <2>4, <2>5, <2>6, <2>7, <2>8 DEF UpkeepInv
<1>2. CASE BecomeDue
  <2>1. /\ record.token \in 1..issued /\ due' = due \cup {record.token}
        /\ UNCHANGED <<record, lease, valid, issued, late, pc, call, snap, next, result, disturbed>>
    BY <1>a, <1>2, Typed DEF BecomeDue, pool
  <2>2. MaintenanceTypeOK'
    BY <1>a, <2>1 DEF MaintenanceTypeOK, call
  <2>3. /\ BlockedOnlyWhenSpent' /\ \A p \in Process : ProcessInv(p)' /\ FreshInv(p)'
    BY <1>a, <2>1 DEF BlockedOnlyWhenSpent, ProcessInv, FreshInv, call
  <2>4. ~disturbed' => Undisturbed'
    BY <2>1 DEF UpkeepInv, Undisturbed, CalmInv, Rotated, call
  <2> QED  BY <2>2, <2>3, <2>4 DEF UpkeepInv
<1>3. CASE Lapse
  <2>1. /\ lease' = Nobody /\ Disturb({lease}) /\ lease \in Process
        /\ UNCHANGED <<record, valid, issued, late, due, pc, call, snap, next, result>>
    BY <1>a, <1>3 DEF Lapse, provider, MaintenanceTypeOK
  <2>2. disturbed' \in BOOLEAN /\ (disturbed => disturbed')
    BY <1>a, <2>1, Disturbs
  <2>3. MaintenanceTypeOK'
    BY <1>a, <2>1, <2>2 DEF MaintenanceTypeOK, call
  <2>4. /\ BlockedOnlyWhenSpent' /\ \A p \in Process : ProcessInv(p)' /\ FreshInv(p)'
    BY <1>a, <2>1 DEF BlockedOnlyWhenSpent, ProcessInv, FreshInv, call
  <2>5. ASSUME ~disturbed' PROVE Undisturbed'
    <3>1. Undisturbed /\ ~Refreshing(lease)
      BY <2>1, <2>2, <2>5 DEF UpkeepInv, Disturb
    <3>2. ASSUME NEW p \in Process PROVE CalmInv(p)'
      <4>1. CalmInv(p)
        BY <3>1 DEF Undisturbed
      <4>2. ~(kind = "codex" /\ job[p] # "login"
                /\ pc[p] \in {"reread", "refresh", "renew", "publish"})
        BY <3>1, <4>1 DEF CalmInv, Refreshing
      <4> QED  BY <2>1, <4>1, <4>2 DEF CalmInv, Rotated, call
    <3>3. \A p \in Process : Rotated(p)' <=> Rotated(p)
      BY <2>1 DEF Rotated, call
    <3> QED  BY <2>1, <3>1, <3>2, <3>3 DEF Undisturbed
  <2> QED  BY <2>3, <2>4, <2>5 DEF UpkeepInv
<1> QED  BY <1>1, <1>2, <1>3

-----------------------------------------------------------------------------
LEMMA UpkeepInit == MaintenanceInit => UpkeepInv
<1> SUFFICES ASSUME MaintenanceInit PROVE UpkeepInv
  OBVIOUS
<1> USE MaintenanceAssumption DEF MaintenanceInit
<1>0. 1 \in 1..MaxToken /\ 1 \in 1..MaxVersion /\ 0 \in 0..MaxToken /\ 1 \in 0..MaxToken
      /\ 0 \in 0..MaxVersion
  OBVIOUS
<1>1. /\ record \in Record /\ record.token \in {0, 1} /\ First \in Record
      /\ record.reauth = FALSE
  <2>1. FALSE \in BOOLEAN /\ First \in Record /\ Incomplete \in Record
    BY <1>0 DEF First, Incomplete, Record
  <2>2. CASE record = First
    BY <2>1, <2>2 DEF First
  <2>3. CASE record = Incomplete
    BY <2>1, <2>3 DEF Incomplete
  <2> QED  BY <2>2, <2>3
<1>2. MaintenanceTypeOK
  <2>1. /\ issued \in 0..MaxToken /\ valid \subseteq 1..issued /\ late \subseteq 1..issued
        /\ due \subseteq 1..issued /\ record.token <= issued
    BY <1>0, <1>1
  <2>2. \A p \in Process : next[p] <= issued
    <3>1. 0 <= issued
      BY <1>1
    <3> QED
      <4> TAKE p \in Process
      <4>1. next[p] = 0
        OBVIOUS
      <4> QED  BY <3>1, <4>1
  <2>3. LocalsOK
    BY <1>0, <1>1 DEF LocalsOK, Job
  <2>4. /\ kind \in {"codex", "xai"} /\ lease \in Process \cup {Nobody} /\ disturbed \in BOOLEAN
    OBVIOUS
  <2> QED  BY <1>1, <2>1, <2>2, <2>3, <2>4 DEF MaintenanceTypeOK, LocalsOK
<1>3. \A p \in Process : pc[p] = "idle" /\ next[p] = 0
  OBVIOUS
<1>4. BlockedOnlyWhenSpent /\ \A p \in Process : ProcessInv(p) /\ FreshInv(p)
  BY <1>1, <1>3 DEF BlockedOnlyWhenSpent, ProcessInv, FreshInv
<1>5. Undisturbed
  BY <1>1, <1>3 DEF Undisturbed, CalmInv, Rotated
<1> QED  BY <1>2, <1>4, <1>5 DEF UpkeepInv

LEMMA UpkeepNext == UpkeepInv /\ [MaintenanceNext]_maintenanceVars => UpkeepInv'
<1> SUFFICES ASSUME UpkeepInv, [MaintenanceNext]_maintenanceVars PROVE UpkeepInv'
  OBVIOUS
<1>1. CASE UNCHANGED maintenanceVars
  BY <1>1 DEF maintenanceVars, pool, provider, call, UpkeepInv, MaintenanceTypeOK,
     BlockedOnlyWhenSpent, ProcessInv, FreshInv, Undisturbed, CalmInv, Rotated
<1>2. ASSUME NEW p \in Process, Step(p), kind' = kind PROVE UpkeepInv'
  <2>1. Shape(p)
    BY <1>2, StepShape
  <2>2. MaintenanceTypeOK' /\ BlockedOnlyWhenSpent'
    BY <1>2, <2>1, UpkeepType, BlockedStep
  <2>3. \A q \in Process : ProcessInv(q)' /\ FreshInv(q)'
    BY <1>2, <2>1, OwnProcess, OtherProcess, FreshStep
  <2>4. ~disturbed' => Undisturbed'
    BY <1>2, <2>1, CalmKept DEF Shape
  <2> QED  BY <2>2, <2>3, <2>4 DEF UpkeepInv
<1>3. CASE MaintenanceNext
  BY <1>2, <1>3, ElsewhereStep DEF MaintenanceNext
<1> QED  BY <1>1, <1>3

\* The invariant of the maintenance (harness-access.js, xai-login.js).
THEOREM MaintenanceInvariant == MaintenanceSpec => []UpkeepInv
BY UpkeepInit, UpkeepNext, PTL DEF MaintenanceSpec

\* Every variable keeps to its type: the token of the record and those obtained
\* are ones that the provider issued.
THEOREM MaintenanceTypeCorrect == MaintenanceSpec => []MaintenanceTypeOK
<1>1. UpkeepInv => MaintenanceTypeOK
  BY DEF UpkeepInv
<1> QED  BY <1>1, MaintenanceInvariant, PTL

\* A record is marked oauth_reauth_required only when its token is spent or
\* missing, whatever lapses, aborts, late answers and other writers do
\* (publishCodexReauthRequired).
THEOREM BlockedTruly == MaintenanceSpec => []BlockedOnlyWhenSpent
<1>1. UpkeepInv => BlockedOnlyWhenSpent
  BY DEF UpkeepInv
<1> QED  BY <1>1, MaintenanceInvariant, PTL

LEMMA KeptByInv == UpkeepInv => RotationKept
<1> SUFFICES ASSUME UpkeepInv, ~disturbed, record.token # 0
             PROVE  record.token \in valid \/ \E p \in Process : next[p] \in valid
  BY DEF RotationKept
<1>1. record.token \in valid \/ \E p \in Process : Rotated(p)
  BY DEF UpkeepInv, Undisturbed
<1>2. \A p \in Process : Rotated(p) => next[p] \in valid
  BY DEF UpkeepInv, Rotated, FreshInv
<1> QED  BY <1>1, <1>2

LEMMA NotReplaced ==
    UpkeepInv /\ [MaintenanceNext]_maintenanceVars =>
      [record' # record /\ record.token \in valid => record'.token \in valid']_maintenanceVars
<1> SUFFICES ASSUME UpkeepInv, MaintenanceNext, record' # record, record.token \in valid
             PROVE  record'.token \in valid'
  OBVIOUS
<1>1. CASE \E p \in Process : Step(p)
  <2> PICK p \in Process : Step(p)
    BY <1>1
  <2>1. Writes(p)
    BY StepShape DEF Shape
  <2> QED  BY <2>1 DEF Writes
<1>2. CASE (\E t \in 1..MaxToken : ExchangeLate(t)) \/ BecomeDue \/ Lapse
  BY <1>2 DEF ExchangeLate, BecomeDue, Lapse, pool
<1> QED  BY <1>1, <1>2 DEF MaintenanceNext

\* A credential that works is neither lost, as long as no refresh is
\* disturbed, nor ever replaced by one that does not (maintainRedisCodexCredential,
\* maintainRedisXaiCredential, publishRedisCredentialPolicyFromState).
THEOREM WorkingKept == MaintenanceSpec => CredentialKept
<1>1. MaintenanceSpec => []RotationKept
  BY MaintenanceInvariant, KeptByInv, PTL
<1>2. MaintenanceSpec => UsableNotReplaced
  BY MaintenanceInvariant, NotReplaced, PTL DEF MaintenanceSpec, UsableNotReplaced
<1> QED  BY <1>1, <1>2 DEF CredentialKept

=============================================================================
