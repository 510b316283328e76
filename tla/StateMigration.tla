--------------------------- MODULE StateMigration ---------------------------
(*****************************************************************************)
(* The private installation identity of one managed Claude account on one    *)
(* machine, and the files that carry it: the application state, a legacy     *)
(* selector that native prefers to it, the credential document, AIM's own    *)
(* identity record, the copies native keeps of its state, and the settings   *)
(* files of earlier launches (src/privacy/claude-state-*.js, the backups'    *)
(* and the launch files' retirement, and the SH/EX assignment lock).         *)
(*                                                                           *)
(* A launch holds the lock shared.  One that finds state of another account  *)
(* gives its share up, takes the lock alone, moves the four files under a    *)
(* journal and comes back.  Any process can die between two writes.  The     *)
(* lock is held by an open file: it falls with its process.                  *)
(*                                                                           *)
(* An identifier is the account it was made for and a number; what native    *)
(* reads of the disk tells it nothing of that account, it is only there to   *)
(* say whose identifier is seen.                                             *)
(*****************************************************************************)
EXTENDS Naturals, FiniteSets, Sequences

CONSTANTS Proc,         \* processes of this machine that launch the account
          Account,      \* the accounts the label may be bound to
          MaxId,        \* identifiers made for an account (a bound)
          MaxIssued,     \* tokens issued to an account (a bound)
          MaxTurns,     \* deaths of a launch and rebindings of the label (a bound)
          MaxTries,     \* attempts to take the lock alone before the deadline
          Slot,         \* places for the files of a launch (a bound)
          None

ASSUME SizesAssumption ==
    /\ MaxId \in Nat \ {0} /\ MaxIssued \in Nat \ {0} /\ MaxTries \in Nat /\ MaxTurns \in Nat
    /\ None \notin Account /\ "elsewhere" \notin Account

VARIABLES
    app, legacy, auth, rec,     \* the four files of the config directory
    journal,                    \* transaction.json, None once it is complete: it is a backup then
    copies, bucket, marker,     \* native's copies, the inventory being moved, backups-retired.json
    shot, saved,                \* the files of earlier launches, the ones a saved job names
    bound,                      \* the account the label is bound to
    cred, given,               \* Redis' token of each account, the last token issued to it
    turns,                      \* deaths and rebindings so far
    daemon,                     \* a background process of Claude outlives its session
    step, expect, retire, tries, plan, slot

files == <<app, legacy, auth, rec>>
backups == <<copies, bucket, marker>>
launches == <<shot, saved>>
outside == <<bound, cred, given, daemon, turns>>
steps == <<expect, retire, tries, plan, slot>>
migrationVars == <<files, journal, backups, launches, outside, step, steps>>

Ident == [of : Account \cup {"elsewhere"}, n : 1 .. MaxId]
State == [acct : Account \cup {None}, id : Ident \cup {None}]
Empty == [acct |-> None, id |-> None]
Auth == [of : Account, token : 1 .. MaxIssued, device : Account \cup {None}, whole : BOOLEAN]
IdRecord == [acct : Account, id : Ident]
Files == [app : State \cup {None}, auth : Auth \cup {None}, rec : IdRecord \cup {None},
          legacy : State \cup {None}]
Journals == [phase : {"prepared", "committed"}, before : Files, after : Files]

\* What is not there is none of what could be.
ASSUME NoneAssumption == None \notin State /\ None \notin Auth /\ None \notin Journals

Target == <<"app", "auth", "rec", "legacy">>

Shared == {"joined", "rejoined", "ready", "run"}
Exclusive == {"recover", "plan", "sweep", "retired", "verify", "publish", "tidy"}
Steps == Shared \cup Exclusive \cup {"idle", "apart", "again"}

MigrationTypeOK ==
    /\ app \in State \cup {None} /\ legacy \in State \cup {None}
    /\ auth \in Auth \cup {None} /\ rec \in IdRecord \cup {None}
    /\ journal \in Journals \cup {None}
    /\ copies \subseteq Ident /\ marker \in IdRecord \cup {None}
    /\ bucket \in (SUBSET Ident) \cup {None}
    /\ shot \in [Slot -> {"none", "whole", "receipt"}] /\ saved \subseteq Slot
    /\ bound \in Account /\ daemon \in BOOLEAN /\ turns \in 0 .. MaxTurns
    /\ cred \in [Account -> 1 .. MaxIssued] /\ given \in [Account -> 1 .. MaxIssued]
    /\ step \in [Proc -> Steps] /\ expect \in [Proc -> Account \cup {None}] /\ retire \in [Proc -> BOOLEAN]
    /\ tries \in [Proc -> 0 .. MaxTries] /\ plan \in [Proc -> Files \cup {None}]
    /\ slot \in [Proc -> Slot \cup {None}]

-----------------------------------------------------------------------------
(* What native reads: selectClaudeAppStateFile chooses by what is there,     *)
(* never by what it holds.                                                   *)
Legacy == legacy # None /\ (legacy # Empty \/ app = None)
Active == IF Legacy THEN legacy ELSE IF app = None THEN Empty ELSE app

\* Identifiers that another home of this machine holds.
Foreign == {i \in Ident : i.of = "elsewhere"}

\* planClaudePrivateIdentity: the identifiers the plan may give, none when it refuses.
Rebound(a) == IF rec # None THEN rec.acct # a ELSE Active.acct \notin {None, a}
PlanRefused(a) ==
    \/ rec # None /\ rec.acct = a /\ Active.acct \notin {None, a}
    \/ rec = None /\ Active.id # None /\ Active.acct = None
    \/ rec # None /\ rec.acct = a /\ rec.id # Active.id
PlannedIds(a) ==
    IF Rebound(a) \/ Active.id \in Foreign \cup {None}
    THEN LET fresh == {i \in Ident : /\ i.of = a
                                     /\ i \notin copies \cup {Active.id}
                                     /\ rec # None => i # rec.id}
         IN  {i \in fresh : \A j \in fresh : i.n <= j.n}
    ELSE {Active.id}

\* planClaudeCredentialProjection: other accounts' provider state stays behind.
ProjectionRefused == auth # None /\ Active.acct = None
KeptDevice(a) == IF auth # None /\ Active.acct = a /\ auth.device = a THEN a ELSE None
Projected(a, t) == [of |-> a, token |-> t, whole |-> TRUE, device |-> KeptDevice(a)]

\* The token to project: the newer of the account's own on disk and Redis' one.
Ours(a) == auth # None /\ Active.acct = a
SelectedToken(a) == IF Ours(a) /\ auth.token > cred[a] THEN auth.token ELSE cred[a]

Held == [app |-> app, auth |-> auth, rec |-> rec, legacy |-> legacy]
\* What migrateClaudePrivateState wants of the four files.
Desired(a, i) ==
    [app |-> [acct |-> a, id |-> i], auth |-> Projected(a, SelectedToken(a)),
     rec |-> [acct |-> a, id |-> i], legacy |-> None]

\* claudeBackupRetirementComplete
RetirementComplete(r) == r # None /\ marker = r /\ bucket = None

\* needsIdentityMigration
Unfinished == journal # None
NeedsMigration(a) ==
    \/ Unfinished
    \/ ~RetirementComplete(rec)
    \/ Legacy \/ rec = None \/ rec.acct # a \/ PlannedIds(a) # {Active.id}
    \/ auth = None
    \/ auth # None /\ auth.device # KeptDevice(a)
\* It throws where the planners refuse, once the journal is out of the way.
InspectionFails(a) ==
    ~Unfinished /\ RetirementComplete(rec)
      /\ (PlanRefused(a) \/ (~Legacy /\ rec # None /\ rec.acct = a /\ ProjectionRefused))
-----------------------------------------------------------------------------
MigrationInit ==
    /\ \E a \in Account, i \in {Empty.id, [of |-> "elsewhere", n |-> 1]} \cup [of : Account, n : {1}] :
         /\ i \in [of : Account, n : {1}] => i.of = a
         /\ app \in {None, [acct |-> a, id |-> i]}
         /\ legacy \in {None, Empty, [acct |-> a, id |-> i]}
         /\ \/ auth = None
            \/ \E b \in Account \ {a} :
                  auth \in {[of |-> a, token |-> t, device |-> b, whole |-> TRUE] : t \in 1 .. MaxIssued}
                           \cup {[of |-> a, token |-> 1, device |-> None, whole |-> FALSE]}
         /\ copies = {i} \ {None}
         /\ legacy \in {None, Empty} \/ app = None
         /\ (app = None /\ legacy \in {None, Empty}) => auth = None
    /\ rec = None /\ journal = None /\ bucket = None /\ marker = None
    /\ shot = [s \in Slot |-> "none"] /\ saved = {}
    /\ bound \in Account /\ daemon = FALSE /\ turns = 0
    /\ cred = [a \in Account |-> 1] 
    /\ given = [a \in Account |-> IF auth # None /\ auth.of = a THEN auth.token ELSE 1]
    /\ step = [p \in Proc |-> "idle"] /\ expect = [p \in Proc |-> None] /\ retire = [p \in Proc |-> FALSE]
    /\ tries = [p \in Proc |-> 0] /\ plan = [p \in Proc |-> None]
    /\ slot = [p \in Proc |-> None]

MoveTo(p, s) == step' = [step EXCEPT ![p] = s]
\* The launch is refused, or its process dies: what is on the disk stays.
Forgotten(p) ==
    /\ plan' = [plan EXCEPT ![p] = None] /\ tries' = [tries EXCEPT ![p] = 0]
    /\ slot' = [slot EXCEPT ![p] = None] /\ retire' = [retire EXCEPT ![p] = FALSE]
    /\ expect' = [expect EXCEPT ![p] = None]
Leave(p) == MoveTo(p, "idle") /\ Forgotten(p)

-----------------------------------------------------------------------------
(* acquireClaudeAssignmentLock: SH waits for an EX holder, EX never waits.   *)
SharedFree == \A q \in Proc : step[q] \notin Exclusive
ExclusiveFree == \A q \in Proc : step[q] \notin Exclusive \cup Shared

(* acquireClaudeStateGuard                                                   *)
Join(p) ==
    /\ step[p] = "idle" /\ SharedFree
    /\ MoveTo(p, "joined") /\ expect' = [expect EXCEPT ![p] = bound]
    /\ UNCHANGED <<files, journal, backups, launches, outside, retire, tries, plan, slot>>

Retained == \E s \in Slot : shot[s] # "none"
Inspect(p) ==
    /\ step[p] = "joined"
    /\ \/ InspectionFails(expect[p]) /\ Leave(p)
       \/ /\ ~InspectionFails(expect[p]) /\ retire' = [retire EXCEPT ![p] = Retained]
          /\ MoveTo(p, IF NeedsMigration(expect[p]) \/ Retained THEN "apart" ELSE "ready")
          /\ UNCHANGED <<expect, tries, plan, slot>>
    /\ UNCHANGED <<files, journal, backups, launches, outside>>

\* The lock is busy: take a share again, as long as the deadline is not over.
Rejoin(p) ==
    /\ step[p] = "apart" /\ ~ExclusiveFree
    /\ \/ /\ SharedFree /\ tries[p] < MaxTries
          /\ MoveTo(p, "rejoined") /\ tries' = [tries EXCEPT ![p] = @ + 1]
          /\ UNCHANGED <<expect, retire, plan, slot>>
       \/ (tries[p] = MaxTries \/ ~SharedFree) /\ Leave(p)
    /\ UNCHANGED <<files, journal, backups, launches, outside>>

LookAgain(p) ==
    /\ step[p] = "rejoined"
    /\ \/ (bound # expect[p] \/ InspectionFails(expect[p])) /\ Leave(p)
       \/ /\ bound = expect[p] /\ ~InspectionFails(expect[p])
          /\ MoveTo(p, IF NeedsMigration(expect[p]) THEN "apart" ELSE "ready")
          /\ UNCHANGED steps
    /\ UNCHANGED <<files, journal, backups, launches, outside>>

\* Alone: the binding again, then assertClaudeNativeOwnersStopped.
Enter(p) ==
    /\ step[p] = "apart" /\ ExclusiveFree
    /\ \/ (bound # expect[p] \/ InspectionFails(expect[p])) /\ Leave(p)
       \/ /\ bound = expect[p] /\ ~InspectionFails(expect[p])
          /\ IF NeedsMigration(expect[p])
             THEN IF daemon THEN Leave(p)
                  ELSE MoveTo(p, IF Unfinished THEN "recover" ELSE "plan") /\ UNCHANGED steps
             ELSE MoveTo(p, IF retire[p] /\ ~daemon THEN "tidy" ELSE "again") /\ UNCHANGED steps
    /\ UNCHANGED <<files, journal, backups, launches, outside>>
-----------------------------------------------------------------------------
(* commitClaudeIdentityMigration.  A journal that is only prepared must      *)
(* find every file as it was.                                                *)
Recover(p) ==
    /\ step[p] = "recover"
    /\ IF journal.phase = "prepared" /\ journal.before # Held THEN Leave(p)
       ELSE MoveTo(p, "verify") /\ UNCHANGED steps
    /\ UNCHANGED <<files, journal, backups, launches, outside>>

\* verifyStaged, the commit marker, and then nothing but the old and the
\* proposed bytes may be there.
Verify(p) ==
    LET staged == journal.after IN
    /\ step[p] = "verify"
    /\ IF staged.app.acct # staged.rec.acct \/ staged.app.id # staged.rec.id
       THEN Leave(p) /\ UNCHANGED journal
       ELSE /\ journal' = [journal EXCEPT !.phase = "committed"]
            /\ IF \A t \in DOMAIN Held : Held[t] \in {journal.before[t], staged[t]}
               THEN MoveTo(p, "publish") /\ UNCHANGED steps ELSE Leave(p)
    /\ UNCHANGED <<files, backups, launches, outside>>

Put(t, v) ==
    /\ app' = (IF t = "app" THEN v ELSE app) /\ auth' = (IF t = "auth" THEN v ELSE auth)
    /\ rec' = (IF t = "rec" THEN v ELSE rec) /\ legacy' = (IF t = "legacy" THEN v ELSE legacy)

\* One file, in order; the last of all makes the journal complete.
Migrated(p) == IF retire[p] THEN "tidy" ELSE "again"
Differs(t) == Held[t] # journal.after[t]
PublishFile(p) ==
    /\ step[p] = "publish"
    /\ \/ \E i \in DOMAIN Target :
            /\ Differs(Target[i]) /\ \A j \in 1 .. i - 1 : ~Differs(Target[j])
            /\ Put(Target[i], journal.after[Target[i]])
            /\ UNCHANGED <<journal, step, steps>>
       \/ /\ \A t \in DOMAIN Held : ~Differs(t)
          /\ journal' = None
          /\ MoveTo(p, IF plan[p] = None THEN "plan" ELSE Migrated(p))
          /\ UNCHANGED <<files, steps>>
    /\ UNCHANGED <<backups, launches, outside>>

\* Plan against the old state; retire its copies before anything is journalled.
LineageBroken(a) == Ours(a) /\ ~auth.whole
MutantPlan(p) == \* Mutant of Plan: Redis' token wins over a newer one on the disk.
    LET a == expect[p] IN
    /\ step[p] = "plan"
    /\ \/ (PlanRefused(a) \/ ProjectionRefused \/ LineageBroken(a)) /\ Leave(p)
       \/ /\ ~PlanRefused(a) /\ ~ProjectionRefused /\ ~LineageBroken(a)
          /\ \E i \in PlannedIds(a) :
               plan' = [plan EXCEPT ![p] = [Desired(a, i) EXCEPT !.auth.token = cred[a]]]
          /\ MoveTo(p, IF RetirementComplete(plan'[p].rec) THEN "retired" ELSE "sweep")
          /\ UNCHANGED <<expect, retire, tries, slot>>
    /\ UNCHANGED <<files, journal, backups, launches, outside>>
Plan(p) ==
    LET a == expect[p] IN
    /\ step[p] = "plan"
    /\ \/ (PlanRefused(a) \/ ProjectionRefused \/ LineageBroken(a)) /\ Leave(p)
       \/ /\ ~PlanRefused(a) /\ ~ProjectionRefused /\ ~LineageBroken(a)
          /\ \E i \in PlannedIds(a) : plan' = [plan EXCEPT ![p] = Desired(a, i)]
          /\ MoveTo(p, IF RetirementComplete(plan'[p].rec) THEN "retired" ELSE "sweep")
          /\ UNCHANGED <<expect, retire, tries, slot>>
    /\ UNCHANGED <<files, journal, backups, launches, outside>>

\* retireClaudeLegacyBackups: finish the bucket that is open, then inventory
\* what is left; the marker is the last write.
MutantSweep(p) == \* Mutant of Sweep: the marker is written before the copies are moved.
    /\ step[p] = "sweep"
    /\ marker' = plan[p].rec /\ MoveTo(p, "retired")
    /\ UNCHANGED <<copies, bucket, files, journal, launches, outside, steps>>
Sweep(p) ==
    /\ step[p] = "sweep"
    /\ \/ /\ bucket # None /\ bucket # {}
          /\ \E i \in bucket : copies' = copies \ {i} /\ bucket' = bucket \ {i}
          /\ UNCHANGED <<marker, step>>
       \/ bucket = {} /\ bucket' = None /\ UNCHANGED <<copies, marker, step>>
       \/ bucket = None /\ copies # {} /\ bucket' = copies /\ UNCHANGED <<copies, marker, step>>
       \/ /\ bucket = None /\ copies = {}
          /\ marker' = plan[p].rec /\ MoveTo(p, "retired") /\ UNCHANGED <<copies, bucket>>
    /\ UNCHANGED <<files, journal, launches, outside, steps>>

\* Nothing to do, or a new journal (a completed one has been put aside).
Prepare(p) ==
    /\ step[p] = "retired"
    /\ IF plan[p] = Held THEN MoveTo(p, Migrated(p)) /\ UNCHANGED journal
       ELSE /\ journal' = [phase |-> "prepared", before |-> Held, after |-> plan[p]]
            /\ MoveTo(p, "verify")
    /\ UNCHANGED <<files, backups, launches, outside, steps>>

\* retireClaudeLaunchFiles: the settings first, the receipt last; nothing at
\* all while the ledger of saved jobs cannot be read, nor what a job names.
MutantTidy(p) == \* Mutant of Tidy: the ledger of saved jobs is not read.
    /\ step[p] = "tidy" /\ UNCHANGED <<files, journal, backups, saved, outside, steps>>
    /\ \/ /\ UNCHANGED step
          /\ \E s \in Slot :
               \/ shot[s] = "whole" /\ shot' = [shot EXCEPT ![s] = "receipt"]
               \/ shot[s] = "receipt" /\ shot' = [shot EXCEPT ![s] = "none"]
       \/ MoveTo(p, "again") /\ UNCHANGED shot
Tidy(p) ==
    /\ step[p] = "tidy"
    /\ \/ /\ UNCHANGED step
          /\ \E s \in Slot \ saved :
               \/ shot[s] = "whole" /\ shot' = [shot EXCEPT ![s] = "receipt"]
               \/ shot[s] = "receipt" /\ shot' = [shot EXCEPT ![s] = "none"]
       \/ MoveTo(p, "again") /\ UNCHANGED shot
    /\ UNCHANGED <<files, journal, backups, saved, outside, steps>>

\* EX is given up, a share is taken, and everything is looked at once more.
Return(p) ==
    /\ step[p] = "again" /\ SharedFree
    /\ IF bound = expect[p] /\ ~NeedsMigration(expect[p]) /\ ~InspectionFails(expect[p])
       THEN MoveTo(p, "ready") /\ plan' = [plan EXCEPT ![p] = None]
            /\ UNCHANGED <<expect, retire, tries, slot>>
       ELSE Leave(p)
    /\ UNCHANGED <<files, journal, backups, launches, outside>>

-----------------------------------------------------------------------------
(* The session.  retainClaudeLaunchFiles precedes it; the supervisor holds   *)
(* the lock until Claude has exited.                                         *)
Start(p) ==
    /\ step[p] = "ready"
    /\ \E s \in Slot : /\ shot[s] = "none" /\ shot' = [shot EXCEPT ![s] = "whole"]
                       /\ slot' = [slot EXCEPT ![p] = s]
    /\ MoveTo(p, "run")
    /\ UNCHANGED <<files, journal, backups, saved, outside, expect, retire, tries, plan>>

End(p) ==
    /\ step[p] = "run" /\ Leave(p)
    /\ UNCHANGED <<files, journal, backups, launches, outside>>

Crash(p) ==
    /\ step[p] \notin {"idle", "run"} /\ Leave(p)
    /\ turns < MaxTurns /\ turns' = turns + 1
    /\ UNCHANGED <<files, journal, backups, launches, bound, cred, given, daemon>>

LaunchStep(p) ==
    \/ Inspect(p) \/ Rejoin(p) \/ LookAgain(p) \/ Enter(p)
    \/ Recover(p) \/ Verify(p) \/ PublishFile(p) \/ Plan(p) \/ Sweep(p)
    \/ Prepare(p) \/ Tidy(p) \/ Return(p)

-----------------------------------------------------------------------------
(* Claude itself, while a session or a background process lives: it          *)
(* refreshes its token, copies its state, leaves a background process or a   *)
(* saved job behind.                                                         *)
Alive == daemon \/ \E p \in Proc : step[p] = "run"
NativeRefresh ==
    /\ Alive /\ auth # None /\ given[auth.of] < MaxIssued
    /\ given' = [given EXCEPT ![auth.of] = @ + 1]
    /\ auth' = [auth EXCEPT !.token = given'[auth.of]]
    /\ UNCHANGED <<app, legacy, rec, journal, backups, launches, bound, cred, daemon, turns, step, steps>>
NativeCopy ==
    /\ Alive /\ Active.id # None /\ copies' = copies \cup {Active.id}
    /\ UNCHANGED <<files, journal, bucket, marker, launches, outside, step, steps>>
Detach ==
    /\ \E p \in Proc : step[p] = "run"
    /\ ~daemon /\ daemon' = TRUE
    /\ UNCHANGED <<files, journal, backups, launches, bound, cred, given, turns, step, steps>>
DaemonEnds ==
    /\ daemon /\ daemon' = FALSE
    /\ UNCHANGED <<files, journal, backups, launches, bound, cred, given, turns, step, steps>>
SaveJob ==
    /\ \E p \in Proc : step[p] = "run" /\ saved' = saved \cup {slot[p]}
    /\ UNCHANGED <<files, journal, backups, shot, outside, step, steps>>

\* Another machine refreshes an account of this label, or the label is bound
\* to another account; either needs the local lock or Redis' lease of the account.
RemoteRefresh(a) ==
    /\ ExclusiveFree /\ ~daemon /\ given[a] < MaxIssued
    /\ given' = [given EXCEPT ![a] = @ + 1] /\ cred' = [cred EXCEPT ![a] = given'[a]]
    /\ UNCHANGED <<files, journal, backups, launches, bound, daemon, turns, step, steps>>
Rebind(a) ==
    /\ ExclusiveFree /\ bound' = a /\ a # bound
    /\ turns < MaxTurns /\ turns' = turns + 1
    /\ UNCHANGED <<files, journal, backups, launches, cred, given, daemon, step, steps>>

MigrationNext ==
    \/ \E p \in Proc : Join(p) \/ LaunchStep(p) \/ Start(p) \/ End(p) \/ Crash(p)
    \/ NativeRefresh \/ NativeCopy \/ Detach \/ DaemonEnds \/ SaveJob
    \/ \E a \in Account : RemoteRefresh(a) \/ Rebind(a)

MigrationSpec == MigrationInit /\ [][MigrationNext]_migrationVars
-----------------------------------------------------------------------------
(* A session sees one account: its application state, its tokens, its        *)
(* signed-device key and its identifiers are those of the account it was     *)
(* launched for, and no file it can read - the legacy state, a copy native   *)
(* kept - names an identifier of another account or of another home,         *)
(* whatever migration was interrupted before it.                             *)
OneAccount ==
    \A p \in Proc : step[p] = "run" =>
      /\ Active.acct = expect[p] /\ ~Legacy
      /\ auth # None /\ auth.of = expect[p] /\ auth.device \in {None, expect[p]}
      /\ \A i \in copies \cup {Active.id} : i.of = expect[p]

(* What the journal proposed is what is there: while no session runs and no  *)
(* migration is under way, the four files are either untouched or all        *)
(* published, unless the journal still says which (claude-state-transaction  *)
(* .js: "A half-published commit never permits launch").                     *)
NeverHalf ==
    \/ rec = None \/ (journal # None /\ journal.phase = "committed")
    \/ rec.acct = Active.acct /\ rec.id = Active.id /\ auth # None /\ auth.of = rec.acct

(* No token is rolled back: as long as the credential document stays with    *)
(* its account, no write replaces a token by an older one, a recovery long   *)
(* after the plan included.                                                  *)
TokensForward ==
    [][auth # None /\ auth' # None /\ auth.of = auth'.of => auth'.token >= auth.token]_migrationVars

(* An account keeps its installation identifier: what was published for it   *)
(* is finished by a recovery and never planned a second time, whoever the    *)
(* label is bound to by then (claude-state-transaction.js: "it must never    *)
(* call the identity planner again").                                        *)
IdKept ==
    [][app # None /\ app' # None /\ app'.acct = app.acct /\ app.id # None /\ app.id.of = app.acct
         => app'.id = app.id]_migrationVars

(* The settings a saved job will be woken with are not deleted.              *)
SavedSettingsKept == \A s \in saved : shot[s] = "whole"

(* What a launch may need is whole: the four files, and the settings of the  *)
(* jobs that are saved.                                                      *)
FilesWhole == NeverHalf /\ SavedSettingsKept

(* Neither tokens nor identifiers of an account are exchanged for earlier    *)
(* or other ones.                                                            *)
NothingRolledBack == TokensForward /\ IdKept
=============================================================================
