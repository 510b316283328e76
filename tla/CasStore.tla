------------------------------- MODULE CasStore -------------------------------
(***************************************************************************)
(* The shared mutation boundary of the pool (src/coordination/             *)
(* redis-store.js).  A process reads a snapshot (GET of the meta record,   *)
(* SMEMBERS of the index, MGET of its members), keeps it for as long as it *)
(* likes, and publishes a record by WATCH, GET, a comparison of versions   *)
(* and MULTI/EXEC; an import publishes several records, one after another, *)
(* that must not exist yet.  Each process has a connection of its own; any *)
(* other process acts, and the connection may fail, between two commands.  *)
(*                                                                         *)
(* A record is its version and the process that wrote it: what else it     *)
(* holds is its writer's business.  Version 0 stands for "absent", which   *)
(* the code writes as expectedVersion null.                                *)
(***************************************************************************)
EXTENDS Naturals, FiniteSets

CONSTANTS
    Client,
    Key,          \* the record keys, Meta among them
    Meta,
    Removable,    \* the keys a command deletes outright (sakana accounts)
    MaxStored    \* bound on the versions written

ASSUME StoreAssumption ==
    /\ Meta \in Key
    /\ Removable \subseteq Key \ {Meta}
    /\ MaxStored \in Nat

VARIABLES
    stored,     \* Redis: the records
    removed,    \* Redis: the keys deleted so far (history)
    index,      \* Redis: the set of credential keys
    snapshot,       \* of a process: the snapshot it works from
    draft,      \* of a process: the meta record of the snapshot it is reading
    members,    \* of a process: the index it read
    at,         \* of a process: the command it sends next
    task,        \* of a process: "publish" or "import"
    todo,       \* of a process: the keys it still has to publish
    key,        \* of a process: the key it is publishing
    watched,    \* of a connection: the keys Redis watches for it
    dirty,      \* of a connection: a watched key was written
    outcome,    \* of a process: how its last publication ended
    wrote       \* of a process and a key: the last version it was told it wrote

store == <<stored, removed, index>>
reading == <<snapshot, draft, members>>
working == <<task, todo, key>>
storeVars == <<store, reading, at, working, watched, dirty, outcome, wrote>>

Absent == [version |-> 0, writer |-> "nobody"]
StoredRecord == [version : Nat, writer : Client \cup {"nobody"}]

StoreTypeOK ==
    /\ stored \in [Key -> StoredRecord]
    /\ removed \subseteq Removable
    /\ index \subseteq Key \ {Meta}
    /\ snapshot \in [Client -> [Key -> StoredRecord]]
    /\ draft \in [Client -> StoredRecord]
    /\ members \in [Client -> SUBSET (Key \ {Meta})]
    /\ at \in [Client -> {"idle", "index", "records", "watch", "get", "exec", "reread"}]
    /\ task \in [Client -> {"publish", "import"}]
    /\ todo \in [Client -> SUBSET Key]
    /\ key \in [Client -> Key]
    /\ watched \in [Client -> SUBSET Key]
    /\ dirty \in [Client -> BOOLEAN]
    /\ outcome \in [Client -> {"none", "ok", "stale", "failed"}]
    /\ wrote \in [Client -> [Key -> Nat]]
    /\ \A p \in Client : watched[p] = IF at[p] \in {"get", "exec"} THEN {key[p]} ELSE {}

StoreInit ==
    /\ stored = [k \in Key |-> Absent]
    /\ removed = {}
    /\ index = {}
    /\ snapshot = [p \in Client |-> [k \in Key |-> Absent]]
    /\ draft = [p \in Client |-> Absent]
    /\ members = [p \in Client |-> {}]
    /\ at = [p \in Client |-> "idle"]
    /\ task = [p \in Client |-> "publish"]
    /\ todo = [p \in Client |-> {}]
    /\ key = [p \in Client |-> Meta]
    /\ watched = [p \in Client |-> {}]
    /\ dirty = [p \in Client |-> FALSE]
    /\ outcome = [p \in Client |-> "none"]
    /\ wrote = [p \in Client |-> [k \in Key |-> 0]]

-----------------------------------------------------------------------------
(* readSnapshot: the meta record, the index and its members are read at    *)
(* three moments.                                                          *)

ReadMeta(p) ==
    /\ at[p] = "idle"
    /\ draft' = [draft EXCEPT ![p] = stored[Meta]]
    /\ at' = [at EXCEPT ![p] = "index"]
    /\ UNCHANGED <<store, snapshot, members, working, watched, dirty, outcome, wrote>>

ReadIndex(p) ==
    /\ at[p] = "index"
    /\ members' = [members EXCEPT ![p] = index]
    /\ at' = [at EXCEPT ![p] = "records"]
    /\ UNCHANGED <<store, snapshot, draft, working, watched, dirty, outcome, wrote>>

\* The variables of a call are gone once it returns.
StopReading(p) ==
    /\ draft' = [draft EXCEPT ![p] = Absent]
    /\ members' = [members EXCEPT ![p] = {}]

\* One MGET: the credentials are read at one moment.
ReadRecords(p) ==
    /\ at[p] = "records"
    /\ snapshot' = [snapshot EXCEPT ![p] =
                  [k \in Key |-> IF k = Meta THEN draft[p]
                                ELSE IF k \in members[p] THEN stored[k]
                                ELSE Absent]]
    /\ StopReading(p)
    /\ at' = [at EXCEPT ![p] = "idle"]
    /\ UNCHANGED <<store, working, watched, dirty, outcome, wrote>>

-----------------------------------------------------------------------------
(* casPutJsonRecord, and the loop of importCredentialsSnapshot around it.  *)

\* publishCredential; only an import writes the meta record.
BeginPublish(p, k) ==
    /\ at[p] = "idle"
    /\ k # Meta
    /\ task' = [task EXCEPT ![p] = "publish"]
    /\ todo' = [todo EXCEPT ![p] = {k}]
    /\ at' = [at EXCEPT ![p] = "watch"]
    /\ UNCHANGED <<store, reading, key, watched, dirty, outcome, wrote>>

BeginImport(p, K) ==
    /\ at[p] = "idle"
    /\ K # {}
    /\ task' = [task EXCEPT ![p] = "import"]
    /\ todo' = [todo EXCEPT ![p] = K]
    /\ at' = [at EXCEPT ![p] = "watch"]
    /\ UNCHANGED <<store, reading, key, watched, dirty, outcome, wrote>>

\* The record the publication is meant to replace.
Base(p, k) == IF task[p] = "import" THEN Absent ELSE snapshot[p][k]

Expected(p) == Base(p, key[p]).version

\* The meta record is imported before the credentials.
Watch(p) ==
    /\ at[p] = "watch"
    /\ \E k \in todo[p] :
         /\ Meta \in todo[p] => k = Meta
         /\ key' = [key EXCEPT ![p] = k]
         /\ watched' = [watched EXCEPT ![p] = @ \cup {k}]
    /\ outcome' = [outcome EXCEPT ![p] = "none"]
    /\ at' = [at EXCEPT ![p] = "get"]
    /\ UNCHANGED <<store, reading, task, todo, dirty, wrote>>

Unwatch(p) ==
    /\ watched' = [watched EXCEPT ![p] = {}]
    /\ dirty' = [dirty EXCEPT ![p] = FALSE]

Forget(p) ==
    /\ task' = [task EXCEPT ![p] = "publish"]
    /\ key' = [key EXCEPT ![p] = Meta]

\* The next record of an import, or the end of the job.
Continue(p, o) ==
    /\ outcome' = [outcome EXCEPT ![p] = o]
    /\ todo' = [todo EXCEPT ![p] = @ \ {key[p]}]
    /\ \/ /\ todo[p] # {key[p]}
          /\ at' = [at EXCEPT ![p] = "watch"]
          /\ UNCHANGED <<task, key>>
       \/ /\ todo[p] = {key[p]}
          /\ at' = [at EXCEPT ![p] = "idle"]
          /\ Forget(p)

\* A thrown error leaves the whole job, and its connection is gone.
AbortJob(p) ==
    /\ outcome' = [outcome EXCEPT ![p] = "failed"]
    /\ todo' = [todo EXCEPT ![p] = {}]
    /\ at' = [at EXCEPT ![p] = "idle"]
    /\ Forget(p)

Get(p) ==
    /\ at[p] = "get"
    /\ \/ /\ stored[key[p]].version = Expected(p)
          /\ at' = [at EXCEPT ![p] = "exec"]
          /\ UNCHANGED <<working, watched, dirty, outcome>>
       \/ /\ stored[key[p]].version # Expected(p)
          /\ Unwatch(p)
          /\ Continue(p, "stale")
    /\ UNCHANGED <<store, reading, wrote>>

\* A write makes the transactions of the others that watch the key fail.
MarkOthers(p, k) ==
    /\ watched' = [watched EXCEPT ![p] = {}]
    /\ dirty' = [q \in Client |->
                   q # p /\ (dirty[q] \/ k \in watched[q])]

\* Mutant of Write: the transaction leaves the index alone.
WriteUnindexed(p) ==
    /\ stored' = [stored EXCEPT ![key[p]] = [version |-> Expected(p) + 1, writer |-> p]]
    /\ UNCHANGED <<removed, index>>
    /\ MarkOthers(p, key[p])

Write(p) ==
    /\ stored' = [stored EXCEPT ![key[p]] = [version |-> Expected(p) + 1, writer |-> p]]
    /\ index' = index \cup ({key[p]} \ {Meta})
    /\ UNCHANGED removed
    /\ MarkOthers(p, key[p])

\* Mutant of Exec: a plain SET, without the transaction.
ExecRegardless(p) ==
    /\ at[p] = "exec"
    /\ Expected(p) < MaxStored
    /\ Write(p)
    /\ Continue(p, "ok")
    /\ wrote' = [wrote EXCEPT ![p][key[p]] = Expected(p) + 1]
    /\ UNCHANGED reading

Exec(p) ==
    /\ at[p] = "exec"
    /\ ~dirty[p]
    /\ Expected(p) < MaxStored
    /\ Write(p)
    /\ Continue(p, "ok")
    /\ wrote' = [wrote EXCEPT ![p][key[p]] = Expected(p) + 1]
    /\ UNCHANGED reading

\* The transaction runs and its reply is lost.
ExecUnanswered(p) ==
    /\ at[p] = "exec"
    /\ ~dirty[p]
    /\ Expected(p) < MaxStored
    /\ Write(p)
    /\ AbortJob(p)
    /\ UNCHANGED <<reading, wrote>>

\* EXEC answers null: nothing was written, and the latest record is read for
\* the caller.
ExecRefused(p) ==
    /\ at[p] = "exec"
    /\ dirty[p]
    /\ Unwatch(p)
    /\ at' = [at EXCEPT ![p] = "reread"]
    /\ UNCHANGED <<store, reading, working, outcome, wrote>>

\* Mutant of RereadLatest: the publication is reported as written.
RereadAsWritten(p) ==
    /\ at[p] = "reread"
    /\ Continue(p, "ok")
    /\ wrote' = [wrote EXCEPT ![p][key[p]] = Expected(p) + 1]
    /\ UNCHANGED <<store, reading, watched, dirty>>

RereadLatest(p) ==
    /\ at[p] = "reread"
    /\ Continue(p, "stale")
    /\ UNCHANGED <<store, reading, watched, dirty, wrote>>

\* The connection fails: a read is given up, a publication throws.
Drop(p) ==
    /\ at[p] # "idle"
    /\ Unwatch(p)
    /\ IF at[p] \in {"index", "records", "watch"}
         THEN /\ todo' = [todo EXCEPT ![p] = {}]
              /\ at' = [at EXCEPT ![p] = "idle"]
              /\ Forget(p)
              /\ UNCHANGED outcome
         ELSE AbortJob(p)
    /\ StopReading(p)
    /\ UNCHANGED <<store, snapshot, wrote>>

\* handleRemove of sakana: a DEL of the key, with no version and no index; at
\* most once for a key (a bound).
Remove(p, k) ==
    /\ at[p] = "idle"
    /\ k \in Removable \ removed
    /\ snapshot[p][k] # Absent
    /\ stored' = [stored EXCEPT ![k] = Absent]
    /\ removed' = removed \cup {k}
    /\ dirty' = [q \in Client |-> dirty[q] \/ (stored[k] # Absent /\ k \in watched[q])]
    /\ wrote' = [q \in Client |-> [wrote[q] EXCEPT ![k] = 0]]
    /\ UNCHANGED <<index, reading, at, working, watched, outcome>>

-----------------------------------------------------------------------------
StoreStep(p) ==
    \/ ReadMeta(p) \/ ReadIndex(p) \/ ReadRecords(p)
    \/ \E k \in Key : BeginPublish(p, k)
    \/ \E K \in SUBSET Key : BeginImport(p, K)
    \/ Watch(p) \/ Get(p) \/ Exec(p) \/ ExecUnanswered(p) \/ ExecRefused(p)
    \/ RereadLatest(p) \/ Drop(p)
    \/ \E k \in Removable : Remove(p, k)

StoreNext == \E p \in Client : StoreStep(p)

StoreSpec == StoreInit /\ [][StoreNext]_storeVars
-----------------------------------------------------------------------------
(* No lost update: as long as a key was never deleted, what a publication  *)
(* replaces is exactly the record its writer read in its snapshot, however *)
(* old that snapshot is; an import replaces nothing.                       *)
ReplacesItsBase(k) ==
    stored'[k] # stored[k] => Base(stored'[k].writer, k) = stored[k]

NoLostUpdate == [][\A k \in Key \ removed' : ReplacesItsBase(k)]_storeVars

(* "This is the only shared mutation boundary for Redis-backed AIM state"  *)
(* (redis-store.js:221): every replacement of a record is of the record    *)
(* its writer read, also when the key was deleted and created again.       *)
NoLostUpdateAnywhere ==
    [][\A k \in Key : stored'[k].version # 0 => ReplacesItsBase(k)]_storeVars

(* A process that was told it published a record finds it, or a later one, *)
(* in every snapshot it reads afterwards, through the index or without.    *)
ReadsItsWrites ==
    [][\A p \in Client, k \in Key \ removed :
         at[p] = "records" /\ at'[p] = "idle" /\ snapshot'[p] # snapshot[p]
           => snapshot'[p][k].version >= wrote[p][k]]_storeVars

(* Each publication is atomic, and a refusal is never spurious: the store  *)
(* implements AtomicRecords.                                               *)
Waiting(p) == at[p] \in {"get", "exec", "reread"}

Request ==
    [p \in Client |->
       IF Waiting(p) THEN [waiting |-> TRUE, key |-> key[p], expected |-> Expected(p)]
                     ELSE [waiting |-> FALSE]]

Records == INSTANCE AtomicRecords
              WITH Process <- Client, record <- stored, request <- Request
AtomicPublication == Records!Spec
=============================================================================
