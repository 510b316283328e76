----------------------------- MODULE HarnessTarget -----------------------------
(***************************************************************************)
(* How `aim pi` and `aim prime` put pool accounts into a harness           *)
(* (src/cli/commands/harness-target.js, src/targets/harness-auth.js,       *)
(* prime-sessions.js).                                                     *)
(*                                                                         *)
(* The harness keeps one entry per provider in its auth.json.  `use` puts  *)
(* a descriptor there, which names a label and holds no secret; the login  *)
(* of the harness's own that it displaces goes to one backup file, and     *)
(* `uninstall` (or `use --<provider> off`) puts it back.  The auth.json    *)
(* that AIM writes is the one it recorded in its local state file, or the  *)
(* one the environment names.  Every provider is a transaction of its own  *)
(* under the lock of auth.json; the backup and the local state have none.  *)
(* `run` is a use and then a launch.  `resume --rotate` hands one live     *)
(* root session of Prime to another account.                               *)
(*                                                                         *)
(* Providers are numbered in the order of HARNESS_MANAGED_PROVIDERS,       *)
(* labels in sorted order; 0 is none.  A number also names a login of the  *)
(* harness's own.                                                          *)
(***************************************************************************)
EXTENDS Naturals, Sequences, FiniteSets

CONSTANTS
    Command,      \* the aim processes
    Nobody,       \* the holder of a free lock
    Path,         \* the auth.json files the environment may name
    NumProviders, \* the managed providers
    NumLabels,    \* by provider: its labels
    Balanced,     \* the providers whose rotation avoids the recent labels
    RootProvider, \* the provider of the live root session
    Plans,        \* bound: by process, what its first, second ... command may be
    MaxEvents,    \* bound on what happens around them
    MaxNative     \* bound on the harness's own logins

Provider == 1..NumProviders
Labels(p) == 1..NumLabels[p]
Nowhere == "nowhere"

ASSUME ConstantsAssumption ==
    /\ Nobody \notin Command /\ Nowhere \notin Path
    /\ NumProviders \in Nat \ {0} /\ NumLabels \in [Provider -> Nat \ {0}]
    /\ Balanced \subseteq Provider /\ RootProvider \in Provider
    /\ \A w \in Plans : DOMAIN w = Command

VARIABLES
    auth,     \* by auth.json and provider: the entry
    lock,     \* by auth.json: who holds its lock
    backup,   \* by provider: the displaced login in the backup file, or 0
    owned,    \* the local state file: the auth.json that AIM wrote
    ready,    \* Redis: by provider, the labels with a usable record
    root,     \* the live root session: its label and the labels it has had
    cmd,      \* the commands, as Idle says
    plan,     \* bound: by process, what its next commands may be
    events,   \* bound: what happened around them
    born,     \* bound: the last of the harness's own logins
    held,     \* history: by provider, the login that AIM displaced and its file
    calm,     \* history: no two commands have overlapped
    whole,    \* history: no command that wrote a new file has stopped before its record
    walk      \* history: the labels of the root, and those it could have, since they changed

history == <<held, calm, whole, walk>>
harnessVars == <<auth, lock, backup, owned, ready, root, cmd, plan, events, born, history>>

NoEntry == [kind |-> "none", of |-> 0]
Login(n) == [kind |-> "native", of |-> n]
Descriptor(l) == [kind |-> "aim", of |-> l]
NotHeld == [of |-> 0, at |-> Nowhere]

\* A command: its next step, what it is, what it asks for by provider ("keep",
\* "off" or "use"), the labels it has chosen, the auth.json of its environment and
\* the one it works on, the provider whose turn it is, what it has read (labels,
\* root, backup) and whether it has written.
Idle == [pc |-> "idle", op |-> "none", want |-> [p \in Provider |-> "keep"],
         chosen |-> [p \in Provider |-> 0],
         env |-> Nowhere, at |-> Nowhere, turn |-> 1, ready |-> [p \in Provider |-> {}],
         root |-> [label |-> 0, past |-> <<>>], found |-> 0, seen |-> FALSE, wrote |-> FALSE]

\* What the options may ask for.
Asks(how) == {[p \in Provider |-> how]}
             \cup {[Idle.want EXCEPT ![p] = how] : p \in Provider}

Requests ==
    {[op |-> "use", want |-> w] : w \in Asks("use") \cup Asks("off")}
    \cup {[op |-> "uninstall", want |-> w] : w \in Asks("off")}
    \cup {[op |-> "run", want |-> [Idle.want EXCEPT ![RootProvider] = "use"]],
          [op |-> "rotate", want |-> [Idle.want EXCEPT ![RootProvider] = "use"]]}

HarnessInit ==
    /\ auth = [f \in Path |-> [p \in Provider |-> Login(1)]]
    /\ lock = [f \in Path |-> Nobody]
    /\ backup = [p \in Provider |-> 0]
    /\ owned = Nowhere
    /\ ready = [p \in Provider |-> Labels(p)]
    /\ root = [label |-> 1, past |-> <<1>>]
    /\ cmd = [c \in Command |-> Idle]
    /\ plan \in Plans
    /\ events = 0 /\ born = 1
    /\ held = [p \in Provider |-> NotHeld]
    /\ calm = TRUE /\ whole = TRUE
    /\ walk = [past |-> <<1>>, among |-> Labels(RootProvider)]

-----------------------------------------------------------------------------
Step(c, changed) == cmd' = [cmd EXCEPT ![c] = changed]
End(c) == Step(c, Idle)

\* The provider whose turn it is from p on, then the local state file.
Turn(c, p, changed) ==
    LET later == {q \in Provider : q >= p /\ cmd[c].want[q] # "keep"}
        q == CHOOSE q \in later : \A r \in later : q <= r
    IN  Step(c, IF later = {} THEN [changed EXCEPT !.pc = "save"]
                ELSE [changed EXCEPT !.turn = q, !.seen = FALSE, !.found = 0,
                      !.pc = IF cmd[c].want[q] = "off" THEN "look" ELSE "install"])

\* A command begins: the auth.json it owns comes before that of its environment.
Begin(c, r, f) ==
    /\ cmd[c].pc = "idle" /\ plan[c] # <<>> /\ r.op \in Head(plan[c])
    /\ plan' = [plan EXCEPT ![c] = Tail(@)]
    /\ LET begun == [Idle EXCEPT !.op = r.op, !.want = r.want, !.env = f,
                         !.at = IF owned # Nowhere THEN owned ELSE f]
       IN  IF r.op = "uninstall" THEN Step(c, [begun EXCEPT !.pc = "turn"])
           ELSE Step(c, [begun EXCEPT !.pc = "select", !.ready = ready, !.root = root])
    /\ calm' = (calm /\ \A d \in Command : cmd[d].pc = "idle")
    /\ UNCHANGED <<auth, lock, backup, owned, ready, root, events, born, held, whole, walk>>

\* buildRecentSelectionCycleAvoidLabels: of the labels S other than the source,
\* those the root had most recently, all but one at most.
Recent(past, S) ==
    {past[i] : i \in {i \in DOMAIN past : past[i] \in S
        /\ Cardinality({past[j] : j \in i..Len(past)} \cap S) < Cardinality(S)}}

\* selectNextBestPiCodexLabel, selectClaudePreset, selectReadyXaiLabel: the labels
\* one of which is chosen (by usage), an old one only when there is no other.
Choices(p, labels, source, past) ==
    LET others == labels \ {source}
        fresh == others \ (IF p \in Balanced THEN Recent(past, others) ELSE {})
    IN  IF fresh # {} THEN fresh ELSE IF others # {} THEN others ELSE labels

\* resolveUseSelections for every provider that is to be chosen, from what was
\* read at the beginning.  `run` avoids the installed label, `resume --rotate`
\* insists on another one than the session's.
Select(c, chosen) ==
    /\ cmd[c].pc = "select"
    /\ LET me == cmd[c]
           source(p) == IF me.op = "rotate" THEN me.root.label
                        ELSE IF me.op = "run" /\ auth[me.at][p].kind = "aim"
                             THEN auth[me.at][p].of ELSE 0
           past == IF me.op = "rotate" THEN me.root.past ELSE <<>>
           choices(p) == Choices(p, me.ready[p], source(p), past)
           asked == {p \in Provider : me.want[p] = "use"}
       IN  \/ /\ \E p \in asked :
                    choices(p) = {} \/ (me.op = "rotate" /\ choices(p) = {source(p)})
              /\ chosen = [p \in Provider |-> 0]
              /\ End(c)
           \/ /\ \A p \in Provider : IF p \in asked THEN chosen[p] \in choices(p)
                                     ELSE chosen[p] = 0
              /\ me.op = "rotate" => chosen[RootProvider] # me.root.label
              /\ Step(c, IF me.op = "rotate" THEN [me EXCEPT !.chosen = chosen, !.pc = "hand"]
                         ELSE [me EXCEPT !.chosen = chosen, !.pc = "turn",
                                         !.ready = Idle.ready, !.root = Idle.root])
    /\ UNCHANGED <<auth, lock, backup, owned, ready, root, plan, events, born, history>>

First(c) ==
    /\ cmd[c].pc = "turn"
    /\ Turn(c, 1, cmd[c])
    /\ UNCHANGED <<auth, lock, backup, owned, ready, root, plan, events, born, history>>

\* Mutant of Stash: a backup that is there is kept.
StashOnce(c) ==
    LET me == cmd[c]  old == auth[me.at][me.turn] IN
    /\ me.pc = "install" /\ lock[me.at] = Nobody
    /\ lock' = [lock EXCEPT ![me.at] = c]
    /\ backup' = IF old.kind = "native" /\ backup[me.turn] = 0
                 THEN [backup EXCEPT ![me.turn] = old.of] ELSE backup
    /\ Step(c, [me EXCEPT !.pc = "put"])
    /\ UNCHANGED <<auth, owned, ready, root, plan, events, born, history>>

\* installHarnessProvider under the lock: a login of the harness's own is saved.
Stash(c) ==
    LET me == cmd[c]  old == auth[me.at][me.turn] IN
    /\ me.pc = "install" /\ lock[me.at] = Nobody
    /\ lock' = [lock EXCEPT ![me.at] = c]
    /\ backup' = IF old.kind = "native" THEN [backup EXCEPT ![me.turn] = old.of] ELSE backup
    /\ Step(c, [me EXCEPT !.pc = "put"])
    /\ UNCHANGED <<auth, owned, ready, root, plan, events, born, history>>

\* The descriptor is written and the lock released.
Put(c) ==
    LET me == cmd[c]  p == me.turn  old == auth[me.at][p] IN
    /\ me.pc = "put"
    /\ auth' = [auth EXCEPT ![me.at][p] = Descriptor(me.chosen[p])]
    /\ lock' = [lock EXCEPT ![me.at] = Nobody]
    /\ held' = IF old.kind = "native" THEN [held EXCEPT ![p] = [of |-> old.of, at |-> me.at]]
               ELSE held
    /\ Turn(c, p + 1, [me EXCEPT !.wrote = TRUE])
    /\ UNCHANGED <<backup, owned, ready, root, plan, events, born, calm, whole, walk>>

\* uninstallHarnessProvider reads the backup before it has the lock.
Look(c) ==
    LET me == cmd[c] IN
    /\ me.pc = "look"
    /\ Step(c, [me EXCEPT !.pc = "remove", !.found = backup[me.turn],
                          !.seen = backup[me.turn] # 0])
    /\ UNCHANGED <<auth, lock, backup, owned, ready, root, plan, events, born, history>>

\* Under the lock, a descriptor is replaced by the backup; anything else is left.
Remove(c) ==
    LET me == cmd[c]  p == me.turn IN
    /\ me.pc = "remove" /\ lock[me.at] = Nobody
    /\ \/ /\ auth[me.at][p].kind = "aim"
          /\ auth' = [auth EXCEPT ![me.at][p] = IF me.found # 0 THEN Login(me.found)
                                                ELSE NoEntry]
          /\ held' = [held EXCEPT ![p] = IF me.found = @.of THEN NotHeld ELSE @]
          /\ Step(c, [me EXCEPT !.pc = "unlink", !.wrote = TRUE])
       \/ /\ auth[me.at][p].kind # "aim"
          /\ Step(c, [me EXCEPT !.pc = "unlink"])
          /\ UNCHANGED <<auth, held>>
    /\ UNCHANGED <<lock, backup, owned, ready, root, plan, events, born, calm, whole, walk>>

\* The backup that was there is deleted.
Unlink(c) ==
    LET me == cmd[c] IN
    /\ me.pc = "unlink"
    /\ backup' = IF me.seen THEN [backup EXCEPT ![me.turn] = 0] ELSE backup
    /\ Turn(c, me.turn + 1, me)
    /\ UNCHANGED <<auth, lock, owned, ready, root, plan, events, born, history>>

\* The local state file is written: AIM owns the auth.json it has worked on.
Save(c) ==
    /\ cmd[c].pc = "save"
    /\ owned' = cmd[c].at
    /\ IF cmd[c].op = "run" THEN Step(c, [cmd[c] EXCEPT !.pc = "launch"]) ELSE End(c)
    /\ UNCHANGED <<auth, lock, backup, ready, root, plan, events, born, history>>

\* handleRun launches Prime, which reads the auth.json of its environment: a new
\* root session has the account that it finds there.
Launch(c) ==
    LET found == auth[cmd[c].env][RootProvider] IN
    /\ cmd[c].pc = "launch"
    /\ IF found.kind = "aim"
       THEN /\ root' = [label |-> found.of, past |-> <<found.of>>]
            /\ walk' = [past |-> <<found.of>>, among |-> ready[RootProvider]]
       ELSE UNCHANGED <<root, walk>>
    /\ End(c)
    /\ UNCHANGED <<auth, lock, backup, owned, ready, plan, events, born, held, calm, whole>>

\* Prime exchanges the account of the live root if it is still the expected one.
Handoff(c) ==
    LET me == cmd[c]  new == me.chosen[RootProvider] IN
    /\ me.pc = "hand"
    /\ \/ /\ root.label = me.root.label
          /\ root' = [label |-> new, past |-> Append(root.past, new)]
          /\ walk' = IF me.ready[RootProvider] = walk.among /\ me.root = root
                     THEN [walk EXCEPT !.past = Append(@, new)]
                     ELSE [past |-> <<new>>, among |-> me.ready[RootProvider]]
       \/ root.label # me.root.label /\ UNCHANGED <<root, walk>>
    /\ End(c)
    /\ UNCHANGED <<auth, lock, backup, owned, ready, plan, events, born, held, calm, whole>>

\* The command cannot get a lock, or is killed and its lock becomes stale.
Stop(c) ==
    /\ cmd[c].pc # "idle" /\ events < MaxEvents
    /\ events' = events + 1
    /\ lock' = [f \in Path |-> IF lock[f] = c THEN Nobody ELSE lock[f]]
    /\ whole' = (whole /\ ~(cmd[c].wrote /\ cmd[c].pc # "launch" /\ cmd[c].at # owned))
    /\ End(c)
    /\ UNCHANGED <<auth, backup, owned, ready, root, plan, born, held, calm, walk>>

-----------------------------------------------------------------------------
\* The harness changes an entry under the same lock: the user logs in or out, and
\* a login of its own is refreshed.
Harness(f, p) ==
    /\ events < MaxEvents /\ events' = events + 1
    /\ lock[f] = Nobody
    /\ \/ /\ born < MaxNative /\ born' = born + 1
          /\ auth' = [auth EXCEPT ![f][p] = Login(born')]
       \/ /\ auth[f][p] # NoEntry
          /\ auth' = [auth EXCEPT ![f][p] = NoEntry]
          /\ UNCHANGED born
    /\ held' = [held EXCEPT ![p] = IF @.at = f THEN NotHeld ELSE @]
    /\ UNCHANGED <<lock, backup, owned, ready, root, cmd, plan, calm, whole, walk>>

\* The record of a label of the root's provider becomes usable, or is no more.
RecordChange(l) ==
    /\ events < MaxEvents /\ events' = events + 1
    /\ ready' = [ready EXCEPT ![RootProvider] = IF l \in @ THEN @ \ {l} ELSE @ \cup {l}]
    /\ UNCHANGED <<auth, lock, backup, owned, root, cmd, plan, born, history>>

HarnessNext ==
    \/ \E c \in Command :
          \/ \E r \in Requests, f \in Path : Begin(c, r, f)
          \/ \E chosen \in [Provider -> UNION {0..NumLabels[p] : p \in Provider}] : Select(c, chosen)
          \/ First(c) \/ Stash(c) \/ Put(c) \/ Look(c) \/ Remove(c) \/ Unlink(c)
          \/ Save(c) \/ Launch(c) \/ Handoff(c) \/ Stop(c)
    \/ \E f \in Path, p \in Provider : Harness(f, p)
    \/ \E l \in Labels(RootProvider) : RecordChange(l)

HarnessSpec == HarnessInit /\ [][HarnessNext]_harnessVars
-----------------------------------------------------------------------------
(* Properties.                                                             *)

Ends(c) == cmd[c].pc # "idle" /\ cmd'[c].pc = "idle"

\* The backup keeps what AIM displaced last until it is put back, also when
\* commands are killed; as long as commands do not overlap, and none is killed
\* before the file it was the first to write is recorded.
HeldKept ==
    calm /\ whole => \A p \in Provider : held[p] # NotHeld => backup[p] = held[p].of

\* When an uninstall ends, no auth.json of any environment holds a descriptor of
\* the providers it was for, and a login that AIM had displaced is back in the file
\* it was taken from: the file that AIM wrote is found again.
UninstallRestores ==
    [][\A c \in Command, p \in Provider :
          Ends(c) /\ cmd[c].pc = "save" /\ cmd[c].want[p] = "off" /\ calm /\ whole =>
             \A f \in Path : auth[f][p].kind # "aim" /\ held[p] = NotHeld]_harnessVars

\* "Repeated" handoffs of a root whose provider is balanced give it every usable
\* account before one of them again.
HandoffsWalk ==
    RootProvider \in Balanced =>
        \A i, j \in 1..Len(walk.past) :
            i < j /\ j - i < Cardinality(walk.among) => walk.past[i] # walk.past[j]

\* Whatever commands a person gives to the targets one after the other: a login that
\* AIM displaced is kept and put back where it was, and handoffs use the whole pool.
CommandsCompose == [](HeldKept /\ HandoffsWalk) /\ UninstallRestores
=============================================================================
