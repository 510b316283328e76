------------------------------ MODULE ThreadCopy ------------------------------
(***************************************************************************)
(* `aim codex resume-fresh` (src/targets/codex-thread-copy.js,             *)
(* codex-rollout.js, src/cli/commands/codex.js): continue a Codex thread   *)
(* under another account as a thread of its own.  The command scans the    *)
(* rollout file of the thread for the identifiers the first account has    *)
(* seen, rotates the account, copies the file with every one of them       *)
(* replaced, looks for what is left of them, and launches the copy.        *)
(*                                                                         *)
(* A rollout is a sequence of records; a record is a set of parts, of      *)
(* which one may be an encrypted item of the server's (reasoning or        *)
(* compaction); a part is a set of slots: a string at some place which is  *)
(* an identifier, or which has one inside.  An identifier is its shape and *)
(* a number.  Several commands run at once, and a Codex goes on writing    *)
(* the threads it has open.                                                *)
(*                                                                         *)
(* What is left out: sizes (--max-copy-mb, the disk), compressed files,    *)
(* the profile's analytics switch, the position of a slot, a temporary     *)
(* file that nobody reads.                                                 *)
(***************************************************************************)
EXTENDS Naturals, Sequences, FiniteSets

CONSTANTS
    Caller,      \* calls of resume-fresh
    Account,     \* the pool
    NoAccount,
    Policies,    \* the options that are given: [keepReasoning, dropCompaction]
    ShortIds,    \* whether a rollout holds ids like msg_00f3a1
    MaxCopies,   \* bound on the calls that begin
    MaxAppends,  \* bound on the records Codex adds
    MaxEra       \* bound on the clock, in units of the leading digits of a
                 \* UUIDv7 (16^6 ms for an id of six)

ASSUME CopyAssumption ==
    /\ NoAccount \notin Account /\ ShortIds \in BOOLEAN
    /\ Policies \subseteq [keepReasoning : BOOLEAN, dropCompaction : BOOLEAN]
    /\ MaxCopies \in Nat /\ MaxAppends \in Nat /\ MaxEra \in Nat

VARIABLES
    rollouts,  \* the rollout files: thread id, records, who may write it
    active,    \* the account in Codex's auth.json
    goals,     \* the goals database: of a rollout, its goal's number or 0
    next,      \* the next number nobody has seen
    era,
    appends, begun,  \* how many there have been
    phase, job \* of a command

copyVars == <<rollouts, active, goals, next, era, appends, begun, phase, job>>

-----------------------------------------------------------------------------
(* Identifiers.  A uuid is recognised anywhere in a text; an item has a    *)
(* known prefix or a uuid behind one; a word is anything with a hex suffix *)
(* (a date, a directory); a plain one, item-1, is in every thread.         *)

Id(kind, n) == [kind |-> kind, n |-> n]

IsIdentifyingId(id) == id.kind # "plain"
IsStrongId(id) == id.kind \in {"uuid", "item", "short"}

\* A short hex suffix is filled from the front of a UUIDv7: with the clock.
RemapIdValue(id, n) == [id EXCEPT !.n = IF id.kind = "short" THEN era ELSE n]

(* Slots, parts and records.  "own" is an item's id or call_id, "key" any  *)
(* other field for ids, "verbatim" a type, role, name or status,           *)
(* "response" a response_id or create_time, which no copy keeps.           *)

Slot(at, id, whole) == [at |-> at, id |-> id, whole |-> whole]
Part(blob, slots) == [blob |-> blob, slots |-> slots]
Record(type, parts) == [type |-> type, parts |-> parts]

Header(id, window, lineage) ==
    Record("session_meta",
        {Part("none", {Slot("key", id, TRUE), Slot("window", window, TRUE)}
                      \cup {Slot("lineage", l, TRUE) : l \in lineage})})

(* Mutant of ItemDropped: one switch for both kinds of item. *)
MutantItemDropped(blob, policy) == blob # "none" /\ ~policy.keepReasoning

ItemDropped(blob, policy) ==
    \/ blob = "reasoning" /\ ~policy.keepReasoning
    \/ blob = "compaction" /\ policy.dropCompaction

SlotsOf(records) == UNION {UNION {p.slots : p \in r.parts} : r \in records}
Lines(s) == {s[i] : i \in DOMAIN s}

\* What the scan collects: ids at their fields, and strings that are ids
\* wherever they are not content.
Collected(lines) ==
    {s.id : s \in {s \in SlotsOf(Lines(lines)) :
        /\ s.whole /\ IsIdentifyingId(s.id)
        /\ s.at # "content"}}

-----------------------------------------------------------------------------
(* The copy. *)

\* A fresh id for each one collected, the new thread's own for the thread.
RewriteMap(retired, own, newId) ==
    [id \in retired |->
        IF id \in own THEN newId
        ELSE RemapIdValue(id, next + Cardinality({o \in retired : o.n < id.n}))]

\* An item's own id stays on the encrypted item it was minted for.
RewriteSlot(s, blob, map) ==
    IF \/ s.at = "verbatim"
       \/ (s.at = "own" /\ blob # "none")
       \/ s.id \notin DOMAIN map
       \/ (~s.whole /\ s.id.kind # "uuid")
    THEN s ELSE [s EXCEPT !.id = map[s.id]]

RewriteRecord(r, map, policy) ==
    [r EXCEPT !.parts =
        {Part(p.blob, {RewriteSlot(s, p.blob, map) :
                          s \in {s \in p.slots : s.at # "response"}}) :
         p \in {p \in r.parts : ~ItemDropped(p.blob, policy)}}]

\* The lines but those at the places `gone`.
Without(lines, gone) ==
    LET kept[n \in 0..Len(lines)] ==
            IF n = 0 THEN <<>>
            ELSE IF n \in gone THEN kept[n - 1] ELSE Append(kept[n - 1], lines[n])
    IN  kept[Len(lines)]

\* A record that is itself an encrypted item goes as a whole.
LineDropped(r, policy) ==
    r.type = "response_item" /\ \E p \in r.parts : ItemDropped(p.blob, policy)

CopyLines(lines, map, newId, window, policy) ==
    LET kept == Without(lines, {n \in DOMAIN lines : LineDropped(lines[n], policy)})
    IN  [i \in DOMAIN kept |->
            IF kept[i].type = "session_meta" THEN Header(newId, window, {})
            ELSE RewriteRecord(kept[i], map, policy)]

\* What of a retired id is residue: the whole of a string anywhere, or, if only
\* Codex or the server would mint it, a piece of one that is not content.
Residue(lines, retired) ==
    \E r \in Lines(lines) : \E p \in r.parts : \E s \in p.slots :
        /\ s.id \in retired
        /\ ~(s.at = "own" /\ p.blob # "none")
        /\ (s.whole \/ (IsStrongId(s.id) /\ s.at # "content"))

Clean(lines, retired, newId, policy) ==
    /\ ~Residue(lines, retired \ {newId})
    /\ \A r \in Lines(lines) : \A p \in r.parts : ~ItemDropped(p.blob, policy)
    /\ lines # <<>> /\ lines[1].type = "session_meta"
    /\ Slot("key", newId, TRUE) \in SlotsOf({lines[1]})
    /\ ~\E s \in SlotsOf({lines[1]}) : s.at = "lineage"

-----------------------------------------------------------------------------
(* The rollouts a thread may start from.  Numbers below `next` are taken;  *)
(* the eras lie below them all.                                            *)

U(n) == Id("uuid", 10 + n)
I(n) == Id("item", 10 + n)

Short == IF ShortIds THEN {Slot("own", Id("short", 30), TRUE)} ELSE {}

Turn(turn, item) ==
    Record("response_item", {Part("none", {Slot("key", turn, TRUE), Slot("own", item, TRUE)})})

Sources ==
    LET reasoning == Record("response_item",
            {Part("reasoning", {Slot("own", I(3), TRUE), Slot("key", U(2), TRUE)})})
        said == Record("response_item",
            {Part("none", {Slot("own", I(4), TRUE), Slot("key", U(2), TRUE),
                           Slot("content", U(0), FALSE), Slot("content", I(4), FALSE),
                           Slot("response", I(5), TRUE)} \cup Short)})
        compacted == Record("compacted",
            {Part("none", {Slot("own", I(4), TRUE), Slot("key", U(1), TRUE)}),
             Part("compaction", {Slot("own", I(6), TRUE), Slot("key", U(2), TRUE)})})
        event == Record("event_msg",
            {Part("none", {Slot("field", U(7), TRUE), Slot("content", U(7), FALSE),
                           Slot("field", Id("word", 18), FALSE),
                           Slot("own", Id("word", 18), TRUE),
                           Slot("own", Id("plain", 19), TRUE)})})
        named == Record("event_msg", {Part("none", {Slot("verbatim", I(4), TRUE)})})
        logged == Record("event_msg", {Part("none", {Slot("field", I(4), FALSE)})})
    IN  {<<Header(U(0), U(1), {}), said, reasoning>>,
         <<Header(U(0), U(1), {}), said, compacted>>,
         <<Header(U(0), U(1), {U(9)}), Header(U(9), U(8), {}), event>>,
         <<Header(U(0), U(1), {}), said, named>>,
         <<Header(U(0), U(1), {}), said, logged>>}

\* A rollout: whose it is on the server, and, of a copy, what it is one of.
Rollout(id, lines, owner, of) ==
    [id |-> id, lines |-> lines, owner |-> owner, half |-> FALSE,
     archived |-> FALSE, of |-> of]

NoJob == [source |-> 0]
NoId == Id("none", 0)
Original == [source |-> 0]

CopyInit ==
    /\ active \in Account
    /\ \E s \in Sources : rollouts = <<Rollout(U(0), s, active, Original)>>
    /\ goals = <<31>>
    /\ next = 40 /\ era = 0 /\ appends = 0 /\ begun = 0
    /\ phase = [c \in Caller |-> "idle"]
    /\ job = [c \in Caller |-> NoJob]

-----------------------------------------------------------------------------
(* The command. *)

Ended(c) ==
    /\ phase' = [phase EXCEPT ![c] = "idle"]
    /\ job' = [job EXCEPT ![c] = NoJob]

Reach(c, at) == phase' = [phase EXCEPT ![c] = at]

Running == {i \in DOMAIN rollouts : rollouts[i].owner # NoAccount}

\* Read-only: find the thread, collect the ids of the file as it is.  A line that
\* is half written is a corrupt one: the command refuses.  (The new id, which the
\* plan mints, is drawn in Copy.)
Scan(c) ==
    /\ phase[c] = "idle" /\ begun < MaxCopies /\ begun' = begun + 1
    /\ \E i \in Running, policy \in Policies :
        /\ ~rollouts[i].half
        /\ job' = [job EXCEPT ![c] =
            [source |-> i, upto |-> Len(rollouts[i].lines), policy |-> policy,
             archived |-> rollouts[i].archived,
             retired |-> Collected(rollouts[i].lines) \cup {rollouts[i].id},
             account |-> NoAccount, newId |-> NoId, map |-> <<>>, file |-> <<>>]]
    /\ Reach(c, "scanned")
    /\ UNCHANGED <<rollouts, active, goals, next, era, appends>>

\* Under the selection lock another account becomes Codex's; with none left
\* nothing is written.  A dry run ends before.
TakeAccount(c) ==
    /\ phase[c] = "scanned"
    /\ \/ \E a \in Account \ {active} :
            /\ active' = a /\ job' = [job EXCEPT ![c].account = a]
            /\ Reach(c, "rotated")
       \/ Ended(c) /\ UNCHANGED active
    /\ UNCHANGED <<rollouts, goals, next, era, appends, begun>>

\* The file is still where the plan found it.
InPlace(c) == rollouts[job[c].source].archived = job[c].archived

(* Mutant of Snapshot: the file as it is by now. *)
MutantSnapshot(j) == rollouts[j.source].lines

\* What the copy reads: the lines the scan has seen, though there be more.
Snapshot(j) == SubSeq(rollouts[j.source].lines, 1, j.upto)

\* The ids that become the new thread's: the thread's, and the session's, which
\* is the last header's.
OwnIds(j) ==
    LET headers == {i \in 1..j.upto : rollouts[j.source].lines[i].type = "session_meta"}
        last == CHOOSE i \in headers : \A k \in headers : k <= i
    IN  {rollouts[j.source].id} \cup
        {s.id : s \in {s \in SlotsOf({rollouts[j.source].lines[last]}) : s.at = "key"}}

Copy(c) ==
    /\ phase[c] = "rotated"
    /\ \/ /\ InPlace(c)
          /\ LET j == job[c]
                 newId == Id("uuid", next + Cardinality(j.retired))
                 window == Id("uuid", next + Cardinality(j.retired) + 1)
                 map == RewriteMap(j.retired, OwnIds(j), newId)
             IN  /\ job' = [job EXCEPT ![c].newId = newId, ![c].map = map,
                        ![c].file = CopyLines(Snapshot(j), map, newId, window, j.policy)]
                 /\ next' = next + Cardinality(j.retired) + 2
          /\ Reach(c, "copied")
       \/ ~InPlace(c) /\ Ended(c) /\ UNCHANGED next
    /\ UNCHANGED <<rollouts, active, goals, era, appends, begun>>

\* The file gets its name.  A source that was archived meanwhile stops it.
Rename(c) ==
    /\ phase[c] = "copied"
    /\ \/ /\ InPlace(c)
          /\ rollouts' = Append(rollouts,
                Rollout(job[c].newId, job[c].file, NoAccount,
                        [source |-> job[c].source, upto |-> job[c].upto,
                         policy |-> job[c].policy, map |-> job[c].map,
                         account |-> job[c].account]))
          /\ goals' = Append(goals, 0)
          /\ Reach(c, "renamed") /\ UNCHANGED job
       \/ ~InPlace(c) /\ Ended(c) /\ UNCHANGED <<rollouts, goals>>
    /\ UNCHANGED <<active, next, era, appends, begun>>

Copied(c) == CHOOSE i \in DOMAIN rollouts : rollouts[i].id = job[c].newId

\* A copy that is not clean is removed, and nothing is launched.
Verify(c) ==
    /\ phase[c] = "renamed"
    /\ IF Clean(rollouts[Copied(c)].lines, job[c].retired, job[c].newId, job[c].policy)
       THEN Reach(c, "verified") /\ UNCHANGED <<rollouts, job>>
       ELSE rollouts' = [rollouts EXCEPT ![Copied(c)].lines = <<>>] /\ Ended(c)
    /\ UNCHANGED <<active, goals, next, era, appends, begun>>

\* The goal goes along under an id of its own, unless --no-goal or the database
\* fails.
CarryGoal(c) ==
    /\ phase[c] = "verified"
    /\ \/ /\ goals[job[c].source] # 0
          /\ goals' = [goals EXCEPT ![Copied(c)] = next] /\ next' = next + 1
       \/ UNCHANGED <<goals, next>>
    /\ Reach(c, "carried")
    /\ UNCHANGED <<rollouts, active, era, appends, job, begun>>

\* Codex opens the copy with the account it finds in auth.json.  With
\* --archive-source the thread it was copied from is archived.
Launch(c) ==
    /\ phase[c] = "carried"
    /\ \E archive \in BOOLEAN :
        rollouts' = [rollouts EXCEPT ![Copied(c)].owner = active,
                                     ![job[c].source].archived = @ \/ archive]
    /\ Ended(c)
    /\ UNCHANGED <<active, goals, next, era, appends, begun>>

Killed(c) ==
    /\ phase[c] # "idle"
    /\ Ended(c)
    /\ UNCHANGED <<rollouts, active, goals, next, era, appends, begun>>

-----------------------------------------------------------------------------
(* Codex, and the clock. *)

\* A Codex that has a thread open writes a record, with what the server mints.
Written == {Turn(Id("uuid", next), Id("item", next + 1)),
            Record("compacted",
                {Part("compaction", {Slot("own", Id("item", next + 1), TRUE),
                                     Slot("key", Id("uuid", next), TRUE)})})}

BeginLine(i) ==
    /\ i \in Running /\ ~rollouts[i].half /\ ~rollouts[i].archived
    /\ appends < MaxAppends /\ appends' = appends + 1
    /\ rollouts' = [rollouts EXCEPT ![i].half = TRUE]
    /\ UNCHANGED <<active, goals, next, era, phase, job, begun>>

EndLine(i) ==
    /\ i \in Running /\ rollouts[i].half
    /\ \E r \in Written :
        rollouts' = [rollouts EXCEPT ![i].half = FALSE, ![i].lines = Append(@, r)]
    /\ next' = next + 2
    /\ UNCHANGED <<active, goals, era, appends, phase, job, begun>>

NextEra ==
    /\ era < MaxEra /\ era' = era + 1
    /\ UNCHANGED <<rollouts, active, goals, next, appends, phase, job, begun>>

CallerStep(c) ==
    \/ Scan(c) \/ TakeAccount(c) \/ Copy(c) \/ Rename(c) \/ Verify(c)
    \/ CarryGoal(c) \/ Launch(c) \/ Killed(c)

CopyNext ==
    \/ \E c \in Caller : CallerStep(c)
    \/ \E i \in DOMAIN rollouts : BeginLine(i) \/ EndLine(i)
    \/ NextEra

CopySpec == CopyInit /\ [][CopyNext]_copyVars

-----------------------------------------------------------------------------
(* Properties. *)

\* The ids by which a server knows a rollout again: its own and those of its
\* items, but not what the transcript says nor the id of an encrypted item.
Worn(i) ==
    {s.id : s \in {s \in UNION {UNION {{s \in p.slots : p.blob = "none" \/ s.at # "own"} :
                                         p \in r.parts} : r \in Lines(rollouts[i].lines)} :
        s.whole /\ s.at # "content" /\ IsIdentifyingId(s.id)}}
    \cup (IF goals[i] = 0 THEN {} ELSE {Id("goal", goals[i])})

\* No identifier ever goes to the server under two accounts, however the threads
\* descend from each other, with Codex writing to them all the while: what is
\* written after the scan is not copied, and two copies have nothing in common
\* (codex-thread-copy.js, the three passes; criterion 2 of the plan in docs/).
NoSharedIds ==
    \A i, j \in Running :
        rollouts[i].owner # rollouts[j].owner => Worn(i) \cap Worn(j) = {}

Copies == {i \in Running : rollouts[i].of.source # 0}

\* What a copy is one of: the records the scan has seen.
Origin(of) == SubSeq(rollouts[of.source].lines, 1, of.upto)

\* The encrypted items the options give up, and those of a record that are kept,
\* each with the id it was minted for.
Gone(blob, policy) ==
    IF blob = "reasoning" THEN ~policy.keepReasoning
    ELSE blob = "compaction" /\ policy.dropCompaction
Blobs(r, policy) ==
    {<<p.blob, {s \in p.slots : s.at = "own"}>> :
        p \in {p \in r.parts : p.blob # "none" /\ ~Gone(p.blob, policy)}}

\* A copy that runs says what the thread said when it was scanned: the same
\* records in the same order, without the encrypted items the policy drops and
\* with every one it keeps, under the id it was minted for: the compacted memory
\* of the thread is there or was given up on request (rewriteRecord).
SnapshotKept ==
    \A i \in Copies :
        LET of == rollouts[i].of
            kept == Without(Origin(of), {n \in DOMAIN Origin(of) :
                        /\ Origin(of)[n].type = "response_item"
                        /\ \E p \in Origin(of)[n].parts : Gone(p.blob, of.policy)})
        IN  /\ Len(kept) <= Len(rollouts[i].lines)
            /\ \A k \in DOMAIN kept :
                /\ rollouts[i].lines[k].type = kept[k].type
                /\ Blobs(rollouts[i].lines[k], of.policy) = Blobs(kept[k], of.policy)

\* No uuid that identified the thread, its session, a turn or a child is left in
\* the text of a copy that runs, where the residue check lets a mention pass
\* (remapUuidsInText, classifyHit).
TextScrubbed ==
    \A i \in Copies :
        ~\E s \in SlotsOf(Lines(rollouts[i].lines)) :
            ~s.whole /\ s.id.kind = "uuid" /\ s.id \in Collected(Origin(rollouts[i].of))

\* Two ids of a thread do not become one: calls still pair with their outputs and
\* items with their turns.  Only the thread's and its session's are the same.
JoinsKept ==
    \A i \in Copies : \A a, b \in DOMAIN rollouts[i].of.map :
        /\ rollouts[i].of.map[a] = rollouts[i].of.map[b]
        /\ rollouts[i].of.map[a] # rollouts[i].id
        => a = b

\* A copy runs under the account its command has rotated to ("Launch the new
\* thread on the rotated account", codex.js).
LaunchedAsRotated ==
    \A i \in Copies : rollouts[i].owner = rollouts[i].of.account

\* The server cannot link a copy to its thread: no identifier and no uuid in a text
\* of the thread goes out under another account.
Unlinkable == NoSharedIds /\ TextScrubbed

\* A copy says what the thread said, and its parts still belong together.
CopyFaithful == SnapshotKept /\ JoinsKept
=============================================================================
