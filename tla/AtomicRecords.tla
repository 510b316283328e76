---------------------------- MODULE AtomicRecords -----------------------------
(***************************************************************************)
(* What the Redis store promises its callers: versioned records on which a *)
(* publication is one atomic comparison and write, somewhere between its   *)
(* call and its answer, and a refusal is never spurious.  CasStore         *)
(* implements it with WATCH, GET, MULTI and EXEC.                          *)
(***************************************************************************)
EXTENDS Naturals

CONSTANTS
    Process,     \* connections, one caller each
    Key,         \* record keys
    Removable    \* the keys some command deletes outright

VARIABLES
    record,      \* the stored records, version 0 when absent
    request,     \* of a process: the publication it waits for, or None
    outcome      \* of a process: how its last publication ended

vars == <<record, request, outcome>>

None == [waiting |-> FALSE]
Absent == [version |-> 0, writer |-> "nobody"]

Init ==
    /\ record = [k \in Key |-> Absent]
    /\ request = [p \in Process |-> None]
    /\ outcome = [p \in Process |-> "none"]

Begin(p) ==
    /\ request[p] = None
    /\ request'[p] # None
    /\ request'[p].key \in Key
    /\ request' = [request EXCEPT ![p] = request'[p]]
    /\ outcome' = [outcome EXCEPT ![p] = "none"]
    /\ UNCHANGED record

Answer(p, o) ==
    /\ request[p] # None
    /\ request' = [request EXCEPT ![p] = None]
    /\ outcome' = [outcome EXCEPT ![p] = o]

\* The publication replaces the version its caller expects; only a failing
\* connection keeps the caller from learning of it.
Win(p) ==
    /\ \E o \in {"ok", "failed"} : Answer(p, o)
    /\ record[request[p].key].version = request[p].expected
    /\ record' = [record EXCEPT ![request[p].key] =
                    [version |-> request[p].expected + 1, writer |-> p]]

\* stale_version: the record is not the one the caller expects.
Refuse(p) ==
    /\ Answer(p, "stale")
    /\ \/ record[request[p].key].version # request[p].expected
       \/ request[p].key \in Removable
    /\ UNCHANGED record

\* The connection fails before anything was written.
Fail(p) == Answer(p, "failed") /\ UNCHANGED record

Remove(k) ==
    /\ k \in Removable
    /\ record' = [record EXCEPT ![k] = Absent]
    /\ UNCHANGED <<request, outcome>>

Next ==
    \/ \E p \in Process : Begin(p) \/ Win(p) \/ Refuse(p) \/ Fail(p)
    \/ \E k \in Removable : Remove(k)

Spec == Init /\ [][Next]_vars
=============================================================================
