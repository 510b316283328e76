------------------------------ MODULE ClaudeHome ------------------------------
(***************************************************************************)
(* The user's own Claude login on an install without Redis: `aim claude    *)
(* use`, capture-native, export-live and import-native                     *)
(* (src/targets/claude-cli.js, src/credentials/claude-native.js).          *)
(*                                                                         *)
(* The home holds a login in two files: the tokens (.credentials.json) and *)
(* the account they belong to, in .claude.json or, where it is there, in   *)
(* the legacy .config.json.  Claude refreshes the tokens in place; an      *)
(* account accepts only the newest refresh token.  AIM keeps one login per *)
(* label in its state file, which a command reads when it starts and       *)
(* writes when it ends.                                                    *)
(*                                                                         *)
(* A token is its owner and its expiry: the expiry says which of two is    *)
(* newer, which is how the code compares them.  What is left out: files    *)
(* that do not parse, the secrets of other providers, and the labels an    *)
(* authority once imported (nothing imports them any more).                *)
(***************************************************************************)
EXTENDS Naturals, FiniteSets

CONSTANTS
    Identity,    \* Claude accounts
    NoAccount,
    Label,
    NoLabel,
    Process,     \* commands of AIM
    NoProcess,
    MaxExpiry,   \* bound on the tokens issued
    MaxNow,      \* bound on the clock
    MaxCommands, \* bound on the commands started
    Tears,       \* a command may die, or its rollback fail, between the
                 \* writes of the two files
    Apart        \* a capture may take the two files of a home apart: they are
                 \* written meanwhile, or a legacy file is the active one

ASSUME ConstantsAssumption ==
    /\ NoAccount \notin Identity /\ "missing" \notin Identity \cup {NoAccount}
    /\ NoLabel \notin Label
    /\ NoProcess \notin Process
    /\ MaxExpiry \in Nat \ {0} /\ MaxNow \in Nat /\ MaxCommands \in Nat
    /\ Tears \in BOOLEAN /\ Apart \in BOOLEAN

VARIABLES
    credentials,  \* .credentials.json: a token, Blank or Gone
    canon,        \* the account in .claude.json
    legacyId,     \* the account in .config.json, or Missing
    store,      \* AIM's state file: of a label, its login
    expected,   \* of a label: the account its email says, or NoAccount
    exported,   \* the file of export-live
    latest,     \* of an account: the expiry of the newest token issued
    now,
    started,    \* how many commands
    lock,       \* who holds Claude's own locks on the home
    phase, cmd, label,
    mem,        \* of a command: the state it has read
    snap,       \* of a command: the home as it found it
    pick,       \* of a command: the login it writes or has read
    calm        \* no two commands have overlapped, and none has died between
                \* its write of the home and that of the state file

home == <<credentials, canon, legacyId>>
command == <<phase, cmd, label, mem, snap, pick>>
homeVars == <<home, store, expected, exported, latest, now, started, lock, command, calm>>

Missing == "missing"
Gone == [owner |-> NoAccount, exp |-> 0]
Blank == [owner |-> NoAccount, exp |-> 1]   \* the two tokens empty strings
Token == [owner : Identity, exp : 1 .. MaxExpiry]
NoLogin == [id |-> NoAccount, owner |-> NoAccount, exp |-> 0]
Login == [id : Identity, owner : Identity, exp : 1 .. MaxExpiry]
Known == Login \cup {NoLogin}
Home == [auth : Token \cup {Gone, Blank}, canon : Identity \cup {NoAccount},
         legacy : Identity \cup {NoAccount, Missing}]
Writing == {"canon", "legacy", "auth", "verify"}
Kind == {"label", "pool", "capture", "export", "import"}
NoHome == [auth |-> Gone, canon |-> NoAccount, legacy |-> Missing]

HomeTypeOK ==
    /\ credentials \in Token \cup {Gone, Blank}
    /\ canon \in Identity \cup {NoAccount}
    /\ legacyId \in Identity \cup {NoAccount, Missing}
    /\ store \in [Label -> Known]
    /\ expected \in [Label -> Identity \cup {NoAccount}]
    /\ exported \in Known
    /\ latest \in [Identity -> 0 .. MaxExpiry] /\ now \in 0 .. MaxNow
    /\ started \in 0 .. MaxCommands
    /\ lock \in Process \cup {NoProcess}
    /\ phase \in [Process -> {"idle", "use", "identity", "clear", "forget",
                           "import", "save"} \cup Writing]
    /\ cmd \in [Process -> Kind \cup {"none"}]
    /\ label \in [Process -> Label \cup {NoLabel}]
    /\ mem \in [Process -> [Label -> Known]]
    /\ snap \in [Process -> Home]
    /\ pick \in [Process -> Known]
    /\ calm \in BOOLEAN

-----------------------------------------------------------------------------
(* Logins *)

\* The account of the home: the legacy file's where there is one.
ActiveId(h) == IF h.legacy = Missing THEN h.canon ELSE h.legacy

Here == [auth |-> credentials, canon |-> canon, legacy |-> legacyId]

\* A login out of a token and an account; NoLogin when it is not complete.
Bundle(t, id) ==
    IF t \in {Gone, Blank} \/ id = NoAccount THEN NoLogin
    ELSE [id |-> id, owner |-> t.owner, exp |-> t.exp]

Live(h) == Bundle(h.auth, ActiveId(h))

\* May candidate replace current?  "noop" when the tokens are the same.
Replacement(current, candidate, expired) ==
    IF candidate = NoLogin THEN "candidate_incomplete"
    ELSE IF current # NoLogin /\ current.id # candidate.id THEN "identity_conflict"
    ELSE IF current = candidate THEN "noop"
    ELSE IF ~expired /\ candidate.exp <= now THEN "candidate_expired"
    ELSE IF current = NoLogin THEN "create"
    ELSE IF candidate.exp < current.exp THEN "stale_candidate"
    ELSE IF candidate.exp = current.exp THEN "ambiguous_equal_expiry"
    ELSE "update"

\* The state with the login of the home taken back to the label it belongs
\* to, when it is newer than the one stored there.
SyncBack(m, live) ==
    IF live = NoLogin THEN m
    ELSE [l \in Label |->
            IF m[l].id = live.id /\ Replacement(m[l], live, TRUE) = "update"
            THEN live ELSE m[l]]

\* Mutant of Selected: what the state file says.
MutantSelected(m, h, l) == m[l]

\* A label's login as `use` publishes it: the home's own when that is the same
\* account's and not older.
Selected(m, h, l) ==
    IF /\ m[l] # NoLogin /\ Live(h) # NoLogin /\ ActiveId(h) = m[l].id
       /\ Replacement(Live(h), m[l], TRUE) \in {"noop", "stale_candidate"}
    THEN Live(h) ELSE m[l]

UseRefused(m, h, l) ==
    \/ m[l] = NoLogin
    \/ /\ ActiveId(h) \in {NoAccount, m[l].id}
       /\ IF Live(h) # NoLogin
          THEN Replacement(Live(h), m[l], TRUE) = "ambiguous_equal_expiry"
          ELSE h.auth \notin {Gone, Blank}
    \/ Selected(m, h, l).exp <= now
    \/ h.auth # Gone /\ ActiveId(h) = NoAccount   \* no verified owner

\* Mutant of Stores: the other labels are not looked at.
MutantStores(m, l, b) ==
    /\ b # NoLogin
    /\ expected[l] \in {NoAccount, b.id}
    /\ Replacement(m[l], b, FALSE) \in {"noop", "create", "update"}

\* What capture and import ask of a login before they store it.
Stores(m, l, b) ==
    /\ b # NoLogin
    /\ expected[l] \in {NoAccount, b.id}
    /\ \A k \in Label \ {l} : m[k].id # b.id
    /\ Replacement(m[l], b, FALSE) \in {"noop", "create", "update"}

-----------------------------------------------------------------------------
(* Commands *)

At(p, step) == phase[p] = step
Reach(p, step) == phase' = [phase EXCEPT ![p] = step]
Finish(p) ==
    /\ Reach(p, "idle")
    /\ cmd' = [cmd EXCEPT ![p] = "none"] /\ label' = [label EXCEPT ![p] = NoLabel]
    /\ mem' = [mem EXCEPT ![p] = [l \in Label |-> NoLogin]]
    /\ snap' = [snap EXCEPT ![p] = NoHome]
    /\ pick' = [pick EXCEPT ![p] = NoLogin]

\* A command starts: it reads the state file.
Begin(p, c, l) ==
    /\ At(p, "idle") /\ started < MaxCommands /\ started' = started + 1
    /\ c \in {"capture", "export"} /\ ~Apart => legacyId = Missing /\ lock = NoProcess
    /\ Reach(p, CASE c = "label" -> "use" [] c = "pool" -> "use"
                 [] c = "import" -> "import" [] OTHER -> "identity")
    /\ cmd' = [cmd EXCEPT ![p] = c]
    /\ label' = [label EXCEPT ![p] = l]
    /\ mem' = [mem EXCEPT ![p] = store]
    /\ calm' = (calm /\ \A q \in Process : phase[q] = "idle")
    /\ IF c \in {"capture", "export"}
       THEN snap' = [snap EXCEPT ![p] = Here] ELSE UNCHANGED snap
    /\ UNCHANGED <<home, store, expected, exported, latest, now, lock, pick>>

Unchanged == UNCHANGED <<store, expected, exported, latest, now, started>>

\* A label the user named is reported blocked, and the state file written as
\* it was read; without one the command ends with the error.
Fail(p) ==
    IF cmd[p] = "label"
    THEN /\ Reach(p, "save")
         /\ snap' = [snap EXCEPT ![p] = NoHome]
         /\ pick' = [pick EXCEPT ![p] = NoLogin]
         /\ UNCHANGED <<cmd, label, mem>>
    ELSE Finish(p)

\* Under Claude's locks: reconcile, choose, and refuse before any write.
Switch(p) ==
    /\ At(p, "use") /\ lock = NoProcess
    /\ IF UseRefused(mem[p], Here, label[p])
       THEN Fail(p) /\ UNCHANGED lock
       ELSE /\ Reach(p, "canon") /\ lock' = p
            /\ snap' = [snap EXCEPT ![p] = Here]
            /\ pick' = [pick EXCEPT ![p] = Selected(mem[p], Here, label[p])]
            /\ UNCHANGED <<cmd, label, mem>>
    /\ UNCHANGED <<home, calm>> /\ Unchanged

WriteCanon(p) ==
    /\ At(p, "canon") /\ canon' = pick[p].id
    /\ Reach(p, IF legacyId = Missing THEN "auth" ELSE "legacy")
    /\ UNCHANGED <<credentials, legacyId, lock, cmd, label, mem, snap, pick, calm>> /\ Unchanged

WriteLegacy(p) ==
    /\ At(p, "legacy") /\ legacyId' = pick[p].id
    /\ Reach(p, "auth")
    /\ UNCHANGED <<credentials, canon, lock, cmd, label, mem, snap, pick, calm>> /\ Unchanged

WriteAuth(p) ==
    /\ At(p, "auth") /\ credentials' = [owner |-> pick[p].owner, exp |-> pick[p].exp]
    /\ Reach(p, "verify")
    /\ UNCHANGED <<canon, legacyId, lock, cmd, label, mem, snap, pick, calm>> /\ Unchanged

\* The files read back are the login chosen; the state takes it, and what the
\* home held before.
ReadBack(p) ==
    /\ At(p, "verify") /\ Bundle(credentials, canon) = pick[p]
    /\ mem' = [mem EXCEPT ![p] =
                 [SyncBack(@, Live(snap[p])) EXCEPT ![label[p]] = pick[p]]]
    /\ Reach(p, "save") /\ lock' = NoProcess
    /\ UNCHANGED <<home, cmd, label, snap, pick, calm>> /\ Unchanged

\* Mutant of Rollback: the tokens are restored, the account is not.
MutantRollback(p) ==
    /\ phase[p] \in Writing
    /\ credentials' = snap[p].auth
    /\ lock' = NoProcess
    /\ Fail(p)
    /\ UNCHANGED <<canon, legacyId, calm>> /\ Unchanged

\* A write fails, or the files do not read back: all of them are restored.
Rollback(p) ==
    /\ phase[p] \in Writing
    /\ credentials' = snap[p].auth /\ canon' = snap[p].canon
    /\ legacyId' = snap[p].legacy
    /\ lock' = NoProcess
    /\ Fail(p)
    /\ UNCHANGED calm /\ Unchanged

\* No account of the pool is eligible: the home's login is removed.
ClearAuth(p) ==
    /\ At(p, "use") /\ cmd[p] = "pool"
    /\ credentials' = Gone
    /\ Reach(p, IF canon = NoAccount THEN "save" ELSE "forget")
    /\ UNCHANGED <<canon, legacyId, lock, cmd, label, mem, snap, pick, calm>> /\ Unchanged

ClearIdentity(p) ==
    /\ At(p, "forget") /\ canon' = NoAccount
    /\ Reach(p, "save")
    /\ UNCHANGED <<credentials, legacyId, lock, cmd, label, mem, snap, pick, calm>> /\ Unchanged

\* The second read of a capture or an export: the account, never of the
\* legacy file, with the tokens read first.
Read(p) ==
    LET b == Bundle(snap[p].auth, IF Apart THEN canon ELSE snap[p].canon) IN
    /\ At(p, "identity")
    /\ \/ /\ cmd[p] = "export"
          /\ exported' = IF b = NoLogin THEN exported ELSE b
          /\ Finish(p)
       \/ /\ cmd[p] = "capture"
          /\ Reach(p, "save")
          /\ mem' = IF Stores(mem[p], label[p], b)
                    THEN [mem EXCEPT ![p][label[p]] = b] ELSE mem
          /\ UNCHANGED <<exported, cmd, label, snap, pick>>
    /\ UNCHANGED <<home, store, expected, latest, now, started, lock, calm>>

Import(p) ==
    /\ At(p, "import")
    /\ Reach(p, "save")
    /\ mem' = IF Stores(mem[p], label[p], exported)
              THEN [mem EXCEPT ![p][label[p]] = exported] ELSE mem
    /\ UNCHANGED <<home, lock, cmd, label, snap, pick, calm>> /\ Unchanged

\* The state file is replaced by what the command has made of its copy.
Save(p) ==
    /\ At(p, "save") /\ store' = mem[p]
    /\ Finish(p)
    /\ UNCHANGED <<home, expected, exported, latest, now, started, lock, calm>>

\* A command dies, or its last write fails.
Die(p) ==
    /\ phase[p] # "idle" /\ (phase[p] \in Writing => Tears)
    /\ Finish(p)
    /\ lock' = IF lock = p THEN NoProcess ELSE lock
    /\ calm' = (calm /\ phase[p] \notin {"save", "forget"} \cup Writing)
    /\ UNCHANGED home /\ Unchanged

-----------------------------------------------------------------------------
(* Claude *)

Issued(a) == IF latest[a] > now THEN latest[a] + 1 ELSE now + 1

\* Claude refreshes its token, under its locks; a token that is not the
\* account's newest is refused and its login emptied.
ClaudeRefresh ==
    /\ lock = NoProcess /\ credentials \notin {Gone, Blank}
    /\ IF latest[credentials.owner] = credentials.exp
       THEN /\ Issued(credentials.owner) <= MaxExpiry
            /\ latest' = [latest EXCEPT ![credentials.owner] = Issued(credentials.owner)]
            /\ credentials' = [credentials EXCEPT !.exp = Issued(credentials.owner)]
       ELSE credentials' = Blank /\ UNCHANGED latest
    /\ UNCHANGED <<canon, legacyId, store, expected, exported, now, started, lock, command, calm>>

\* The user logs in to an account with Claude itself.
NativeLogin(a) ==
    /\ lock = NoProcess /\ Issued(a) <= MaxExpiry
    /\ latest' = [latest EXCEPT ![a] = Issued(a)]
    /\ credentials' = [owner |-> a, exp |-> Issued(a)]
    /\ IF legacyId = Missing THEN canon' = a /\ UNCHANGED legacyId
       ELSE legacyId' = a /\ UNCHANGED canon
    /\ UNCHANGED <<store, expected, exported, now, started, lock, command, calm>>

Tick ==
    /\ now < MaxNow /\ now' = now + 1
    /\ UNCHANGED <<home, store, expected, exported, latest, started, lock, command, calm>>

HomeInit ==
    /\ latest \in [Identity -> {0, 1}]
    /\ store \in [Label -> {[id |-> a, owner |-> a, exp |-> 1] :
                              a \in {b \in Identity : latest[b] = 1}} \cup {NoLogin}]
    /\ \A k, l \in Label : k # l /\ store[k] # NoLogin => store[k].id # store[l].id
    /\ expected \in [Label -> Identity \cup {NoAccount}]
    /\ \A l \in Label : store[l] # NoLogin => expected[l] \in {NoAccount, store[l].id}
    /\ credentials \in {Gone} \cup {[owner |-> a, exp |-> 1] :
                               a \in {b \in Identity : latest[b] = 1}}
    /\ legacyId \in {Missing, credentials.owner}
    /\ canon \in Identity \cup {NoAccount}
    /\ legacyId = Missing => canon = credentials.owner
    /\ exported \in {NoLogin} \cup {[id |-> a, owner |-> a, exp |-> 1] : a \in {b \in Identity : latest[b] = 1}}
    /\ now = 0 /\ started = 0 /\ lock = NoProcess
    /\ phase = [p \in Process |-> "idle"] /\ cmd = [p \in Process |-> "none"]
    /\ label = [p \in Process |-> NoLabel]
    /\ mem = [p \in Process |-> [l \in Label |-> NoLogin]]
    /\ snap = [p \in Process |-> NoHome] /\ pick = [p \in Process |-> NoLogin]
    /\ calm = TRUE

Commands(p) ==
    \/ \E c \in Kind, l \in Label : Begin(p, c, l)
    \/ Switch(p) \/ WriteCanon(p) \/ WriteLegacy(p) \/ WriteAuth(p)
    \/ ReadBack(p) \/ Rollback(p) \/ ClearAuth(p) \/ ClearIdentity(p)
    \/ Read(p) \/ Import(p) \/ Save(p) \/ Die(p)

HomeNext ==
    \/ \E p \in Process : Commands(p)
    \/ ClaudeRefresh \/ Tick \/ \E a \in Identity : NativeLogin(a)

HomeSpec == HomeInit /\ [][HomeNext]_homeVars

-----------------------------------------------------------------------------
(* Properties *)

\* Tokens are stored under the account they belong to: no capture, import or
\* reconciliation files one account's tokens under another's label.
OwnLabel == \A l \in Label : store[l].id = store[l].owner

\* No two labels of the pool hold one account's login: two labels would spend
\* each other's refresh token.
NoSharedAccount ==
    \A k, l \in Label : k # l /\ store[k] # NoLogin => store[k].id # store[l].id

\* Whenever Claude may take its locks the two files name one account, failed
\* and interrupted commands included.
HomePaired ==
    lock = NoProcess /\ credentials \notin {Gone, Blank} /\ ActiveId(Here) # NoAccount
        => credentials.owner = ActiveId(Here)

\* `use` never puts a token the home's account has already spent back into
\* the home, however old the state the command has read.
HomeForward ==
    [][credentials.owner = credentials'.owner /\ credentials.owner # NoAccount
         => credentials'.exp >= credentials.exp \/ \E p \in Process : Rollback(p)]_homeVars

\* The newest token of an account of the pool is in the home, in the state
\* file, or with a command that is about to write it.
Safe(a) ==
    \/ credentials = [owner |-> a, exp |-> latest[a]]
    \/ \E l \in Label : store[l].owner = a /\ store[l].exp = latest[a]
    \/ \E p \in Process :
          \/ phase[p] \in Writing /\ snap[p].auth = [owner |-> a, exp |-> latest[a]]
          \/ \E l \in Label : mem[p][l].owner = a /\ mem[p][l].exp = latest[a]

Pooled(a) == \E l \in Label : store[l].id = a

\* `use` keeps the rotation Claude has made in place: a label's newest refresh
\* token is not lost when the home goes to another account, as long as
\* commands run one after the other.  (Clearing the home is not covered.)
RotationKept ==
    [][\A a \in Identity : calm' /\ Pooled(a) /\ Safe(a) =>
         \/ Safe(a)'
         \/ \E p \in Process : ClearAuth(p)
         \/ \E b \in Identity : NativeLogin(b)]_homeVars

\* The same of every command, those that find no eligible account included.
RotationSurvives ==
    [][\A a \in Identity : calm' /\ Pooled(a) /\ Safe(a) =>
         Safe(a)' \/ \E b \in Identity : NativeLogin(b)]_homeVars

\* The logins of the pool stay apart: each is the label's own, and no other's.
LoginsApart == OwnLabel /\ NoSharedAccount

\* `use` neither brings a spent token back nor loses the newest one.
TokensKept == HomeForward /\ RotationKept
=============================================================================
