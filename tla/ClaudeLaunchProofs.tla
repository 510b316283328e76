-------------------------- MODULE ClaudeLaunchProofs --------------------------
(***************************************************************************)
(* Proofs about the two parts of a launch of Claude that MCClaudeLaunch    *)
(* checks together.                                                        *)
(*                                                                         *)
(* The files of the config directory (StateMigration), for every set of    *)
(* launching processes, accounts, slots and every bound:                   *)
(*   MigrationTypeCorrect  every variable keeps to its type;               *)
(*   SeesOneAccount        a session sees the files of its account only;   *)
(*   LaunchFilesWhole      the files are whole, or the journal says how    *)
(*                         to make them so; saved settings stay;           *)
(*   NothingGoesBack       no older token and no second identifier.        *)
(* The argument: a plan is made alone, from files nobody else writes, and  *)
(* the journal keeps the plan with what the plan had seen.  Each file is   *)
(* then one of the two, so any recovery moves it forward or not at all,    *)
(* and a launch is let in only when the journal is gone.                   *)
(*                                                                         *)
(* The login a session shares with other machines (ClaudeSession), for     *)
(* every set of machines, of those that may sleep or stall, and any number *)
(* of tokens and versions:                                                 *)
(*   SessionTypeCorrect   every variable keeps to its type;                *)
(*   RunsUnderLease       Claude runs only where the lease is;             *)
(*   LoginNeverLost       the working login is in the pool or in a file;   *)
(*   NoStaleLogin         a recovery resumes no superseded login, and a    *)
(*                        publication replaces no working one.             *)
(* The argument: only the last token issued is valid.  A login newer than  *)
(* the pool's is therefore the valid one, and one machine has it; so what  *)
(* is published is never older than what it replaces.  A machine that      *)
(* keeps its lease sees nobody rotate the login it works with.             *)
(***************************************************************************)
EXTENDS StateMigration, ClaudeSession, TLAPS

-----------------------------------------------------------------------------
(* The files.                                                               *)

(* The files as they are while no publication is under way: the state is of *)
(* one account, and so is the credential; an identity record says which.    *)
Coherent ==
    /\ app # None => legacy \in {None, Empty}
    /\ Active.id # None => Active.id.of \in {Active.acct, "elsewhere"}
    /\ auth # None => auth.of = Active.acct
    /\ rec # None =>
         /\ app = rec /\ legacy = None /\ auth # None
         /\ auth.of = rec.acct /\ rec.id.of = rec.acct

(* What a plan or a journal proposes. *)
Proposal(f) ==
    /\ f \in Files /\ f.rec \in IdRecord /\ f.app = f.rec /\ f.legacy = None
    /\ f.auth \in Auth /\ f.auth.of = f.rec.acct /\ f.rec.id.of = f.rec.acct
    /\ f.auth.token <= given[f.auth.of]

(* It takes no account back to an older token or another identifier. *)
Forward(old, new) ==
    /\ old.auth # None /\ old.auth.of = new.auth.of => old.auth.token <= new.auth.token
    /\ old.app # None /\ old.app.acct = new.app.acct /\ old.app.id # None
         /\ old.app.id.of = old.app.acct => new.app.id = old.app.id

(* The journal that is there is enough to finish what it began. *)
JournalInv ==
    /\ journal = None => Coherent
    /\ journal # None =>
         /\ Proposal(journal.after) /\ Forward(journal.before, journal.after)
         /\ journal.phase = "prepared" => Coherent /\ journal.before = Held
         /\ journal.phase = "committed" =>
              /\ app \in {journal.before.app, journal.after.app}
              /\ auth \in {journal.before.auth, journal.after.auth}
              /\ rec \in {journal.before.rec, journal.after.rec}
              /\ legacy \in {journal.before.legacy, journal.after.legacy}

(* Claude may run on what is there. *)
Settled ==
    /\ journal = None /\ rec # None /\ marker = rec
    /\ auth.device \in {None, rec.acct}

LockInv ==
    \A p, q \in Proc : p # q /\ step[p] \in Exclusive => step[q] \notin Exclusive \cup Shared

StageInv(p) ==
    /\ step[p] \in Exclusive => ~daemon /\ expect[p] \in Account
    /\ step[p] \in {"plan", "sweep", "retired", "tidy"} => journal = None
    /\ step[p] \in {"recover", "verify", "publish"} => journal # None
    /\ step[p] = "publish" => journal.phase = "committed"
    /\ step[p] \in {"sweep", "retired"} => Proposal(plan[p]) /\ Forward(Held, plan[p])
    /\ step[p] \in {"ready", "run"} => Settled /\ rec.acct = expect[p]
    /\ step[p] = "run" => slot[p] \in Slot /\ shot[slot[p]] = "whole"

(* What is left beside the four files. *)
BesideInv ==
    /\ daemon => Settled
    /\ marker # None => \A i \in copies : i.of = marker.acct
    /\ auth # None => auth.token <= given[auth.of]
    /\ \A a \in Account : cred[a] <= given[a]
    /\ SavedSettingsKept

MigrationInv ==
    /\ MigrationTypeOK /\ LockInv /\ JournalInv /\ BesideInv
    /\ \A p \in Proc : StageInv(p)

-----------------------------------------------------------------------------
(* Values.                                                                  *)

LEMMA Sizes ==
    /\ MaxId \in Nat \ {0} /\ MaxIssued \in Nat \ {0} /\ MaxTries \in Nat /\ MaxTurns \in Nat
    /\ 1 \in 1 .. MaxIssued /\ 1 \in 1 .. MaxId /\ 0 \in 0 .. MaxTries /\ 0 \in 0 .. MaxTurns
    /\ None \notin Account /\ "elsewhere" \notin Account
    /\ None \notin State /\ None \notin Auth /\ None \notin Journals
BY SizesAssumption, NoneAssumption

LEMMA EmptyTyped == Empty \in State /\ Empty.acct = None /\ Empty.id = None
BY DEF Empty, State

LEMMA ActiveTyped ==
    ASSUME app \in State \cup {None}, legacy \in State \cup {None}
    PROVE  Active \in State
BY EmptyTyped DEF Active, Legacy

\* An identity record is a state that has both an account and an identifier.
LEMMA RecordParts ==
    ASSUME NEW r \in IdRecord
    PROVE  /\ r \in State /\ r # None /\ r.acct \in Account /\ r.id \in Ident
           /\ r = [acct |-> r.acct, id |-> r.id] /\ r # Empty
<1>1. r \in State /\ r.acct \in Account /\ r.id \in Ident /\ r = [acct |-> r.acct, id |-> r.id]
  BY DEF IdRecord, State
<1> QED  BY <1>1, Sizes DEF Empty

LEMMA StateParts ==
    ASSUME NEW s \in State
    PROVE  s.acct \in Account \cup {None} /\ s.id \in Ident \cup {None} /\ s # None
BY Sizes DEF State

LEMMA AuthParts ==
    ASSUME NEW u \in Auth
    PROVE  /\ u.of \in Account /\ u.token \in 1 .. MaxIssued /\ u.device \in Account \cup {None}
           /\ u.whole \in BOOLEAN /\ u # None /\ u.token \in Nat
BY Sizes DEF Auth

LEMMA HeldParts ==
    /\ Held.app = app /\ Held.auth = auth /\ Held.rec = rec /\ Held.legacy = legacy
    /\ Held["app"] = app /\ Held["auth"] = auth /\ Held["rec"] = rec /\ Held["legacy"] = legacy
    /\ DOMAIN Held = {"app", "auth", "rec", "legacy"}
BY DEF Held

LEMMA FilesParts ==
    ASSUME NEW f \in Files
    PROVE  /\ f.app \in State \cup {None} /\ f.auth \in Auth \cup {None}
           /\ f.rec \in IdRecord \cup {None} /\ f.legacy \in State \cup {None}
           /\ f = [app |-> f.app, auth |-> f.auth, rec |-> f.rec, legacy |-> f.legacy]
           /\ f["app"] = f.app /\ f["auth"] = f.auth /\ f["rec"] = f.rec /\ f["legacy"] = f.legacy
BY DEF Files

LEMMA FilesTyped ==
    ASSUME MigrationTypeOK
    PROVE  /\ app \in State \cup {None} /\ legacy \in State \cup {None}
           /\ auth \in Auth \cup {None} /\ rec \in IdRecord \cup {None}
           /\ journal \in Journals \cup {None} /\ Held \in Files
           /\ copies \subseteq Ident /\ marker \in IdRecord \cup {None}
           /\ bucket \in (SUBSET Ident) \cup {None}
           /\ shot \in [Slot -> {"none", "whole", "receipt"}] /\ saved \subseteq Slot
           /\ bound \in Account /\ daemon \in BOOLEAN /\ turns \in 0 .. MaxTurns
           /\ cred \in [Account -> 1 .. MaxIssued] /\ given \in [Account -> 1 .. MaxIssued]
           /\ step \in [Proc -> Steps] /\ expect \in [Proc -> Account \cup {None}]
           /\ retire \in [Proc -> BOOLEAN] /\ tries \in [Proc -> 0 .. MaxTries]
           /\ plan \in [Proc -> Files \cup {None}] /\ slot \in [Proc -> Slot \cup {None}]
<1>1. Held \in Files
  BY DEF MigrationTypeOK, Held, Files
<1> QED  BY <1>1 DEF MigrationTypeOK

-----------------------------------------------------------------------------
(* The lock.                                                                *)

\* A process takes the lock as it may, or keeps what it has of it.
Grant(p, s) ==
    /\ step' = [step EXCEPT ![p] = s] /\ s \in Steps
    /\ s \in Exclusive => ExclusiveFree \/ step[p] \in Exclusive
    /\ s \in Shared => SharedFree \/ step[p] \in Shared

LEMMA Apart == Exclusive \cap Shared = {} /\ Exclusive \subseteq Steps /\ Shared \subseteq Steps
BY DEF Exclusive, Shared, Steps

LEMMA LockKept ==
    ASSUME LockInv, step \in [Proc -> Steps], NEW p \in Proc, NEW s \in Steps, Grant(p, s)
    PROVE  LockInv'
<1> SUFFICES ASSUME NEW q \in Proc, NEW r \in Proc, q # r, step'[q] \in Exclusive
             PROVE  step'[r] \notin Exclusive \cup Shared
  BY DEF LockInv
<1>1. /\ step'[p] = s /\ \A u \in Proc \ {p} : step'[u] = step[u]
      /\ s \in Exclusive => ExclusiveFree \/ step[p] \in Exclusive
      /\ s \in Shared => SharedFree \/ step[p] \in Shared
  BY DEF Grant
<1>2. \A u, v \in Proc : u # v /\ step[u] \in Exclusive => step[v] \notin Exclusive \cup Shared
  BY DEF LockInv
<1>3. CASE q = p
  BY <1>1, <1>2, <1>3 DEF ExclusiveFree
<1>4. CASE r = p
  BY <1>1, <1>2, <1>4 DEF ExclusiveFree, SharedFree
<1>5. CASE q # p /\ r # p
  BY <1>1, <1>2, <1>5
<1> QED  BY <1>3, <1>4, <1>5

\* While a process has the lock alone, nothing is promised of the others.
LEMMA OthersOut ==
    ASSUME LockInv, NEW p \in Proc, step[p] \in Exclusive, NEW q \in Proc \ {p}
    PROVE  step[q] \notin Exclusive \cup Shared
BY DEF LockInv

LEMMA OutStage ==
    ASSUME NEW q \in Proc, step[q] \notin Exclusive \cup {"ready", "run"}
    PROVE  StageInv(q)
BY DEF StageInv, Exclusive

\* While one has a share, nobody has the lock alone.
LEMMA NoneAlone ==
    ASSUME LockInv, step \in [Proc -> Steps], NEW p \in Proc, step[p] \in Shared
    PROVE  SharedFree
BY Apart DEF LockInv, SharedFree

-----------------------------------------------------------------------------
(* Kinds of steps.                                                          *)

\* The other processes' steps stay theirs.
RestStays(p) ==
    \A q \in Proc \ {p} :
        /\ step'[q] = step[q] /\ expect'[q] = expect[q] /\ plan'[q] = plan[q] /\ slot'[q] = slot[q]

StepsTyped ==
    /\ step \in [Proc -> Steps] /\ expect \in [Proc -> Account \cup {None}]
    /\ retire \in [Proc -> BOOLEAN] /\ tries \in [Proc -> 0 .. MaxTries]
    /\ plan \in [Proc -> Files \cup {None}] /\ slot \in [Proc -> Slot \cup {None}]

\* A step of a launch that writes nothing.
LEMMA WalkStep ==
    ASSUME MigrationInv, NEW p \in Proc, NEW s \in Steps, Grant(p, s), RestStays(p), StepsTyped',
           UNCHANGED <<files, journal, backups, launches, bound, cred, given, daemon>>,
           turns' \in 0 .. MaxTurns, StageInv(p)'
    PROVE  MigrationInv'
<1>1. MigrationTypeOK' /\ step \in [Proc -> Steps]
  BY DEF MigrationInv, MigrationTypeOK, StepsTyped, files, backups, launches
<1>2. LockInv'
  BY <1>1, LockKept DEF MigrationInv
<1>3. UNCHANGED <<Held, Active, Legacy>>
  BY DEF Held, Active, Legacy, files
<1>4. JournalInv'
  BY <1>3 DEF MigrationInv, JournalInv, Coherent, Proposal, files
<1>5. BesideInv'
  BY DEF MigrationInv, BesideInv, Settled, SavedSettingsKept, files, backups, launches
<1>6. ASSUME NEW q \in Proc \ {p} PROVE StageInv(q)'
  BY <1>3 DEF MigrationInv, StageInv, RestStays, Settled, Proposal, files, backups, launches
<1> QED  BY <1>1, <1>2, <1>4, <1>5, <1>6 DEF MigrationInv

\* A step under the lock.
LEMMA AloneStep ==
    ASSUME MigrationInv, NEW p \in Proc, step[p] \in Exclusive,
           NEW s \in Exclusive \cup {"again", "idle"}, step' = [step EXCEPT ![p] = s],
           MigrationTypeOK', JournalInv', BesideInv', StageInv(p)'
    PROVE  MigrationInv'
<1>1. step \in [Proc -> Steps] /\ s \in Steps /\ s \notin Shared
  BY FilesTyped DEF MigrationInv, Exclusive, Shared, Steps
<1>2. LockInv'
  BY <1>1, LockKept DEF MigrationInv, Grant
<1>3. ASSUME NEW q \in Proc \ {p} PROVE StageInv(q)'
  <2>1. step'[q] = step[q] /\ step[q] \notin Exclusive \cup Shared
    BY <1>1, OthersOut DEF MigrationInv
  <2> QED  BY <2>1 DEF StageInv, Exclusive, Shared
<1> QED  BY <1>2, <1>3 DEF MigrationInv

\* The refusal or the death of a launch.
LEMMA LeftStep ==
    ASSUME MigrationInv, NEW p \in Proc, Leave(p)
    PROVE  /\ Grant(p, "idle") /\ RestStays(p) /\ StepsTyped' /\ StageInv(p)' /\ step'[p] = "idle"
           /\ "idle" \in Steps
<1>1. StepsTyped
  BY FilesTyped DEF MigrationInv, StepsTyped
<1>2. StepsTyped' /\ RestStays(p) /\ step' = [step EXCEPT ![p] = "idle"] /\ step'[p] = "idle"
      /\ "idle" \in Steps
  BY <1>1, Sizes DEF StepsTyped, Leave, MoveTo, Forgotten, RestStays, Steps
<1> QED  BY <1>2 DEF Grant, StageInv, Exclusive, Shared

LEMMA LeaveStep ==
    ASSUME MigrationInv, NEW p \in Proc, Leave(p),
           UNCHANGED <<files, journal, backups, launches, bound, cred, given, daemon>>,
           turns' \in 0 .. MaxTurns
    PROVE  MigrationInv'
BY LeftStep, WalkStep

-----------------------------------------------------------------------------
(* The steps of a launch that write nothing.                                *)

\* What a launch looks for is what a session needs.
LEMMA Inspected ==
    ASSUME MigrationInv, NEW a, ~NeedsMigration(a)
    PROVE  Settled /\ rec.acct = a /\ journal = None
<1>1. /\ journal = None /\ rec # None /\ marker = rec /\ rec.acct = a
      /\ auth.device = KeptDevice(a)
  BY DEF NeedsMigration, Unfinished, RetirementComplete
<1>2. KeptDevice(a) \in {None, a}
  BY DEF KeptDevice
<1> QED  BY <1>1, <1>2 DEF Settled

\* It moves on, with what it knows, but for what is named.
LEMMA OnStep ==
    ASSUME MigrationInv, NEW p \in Proc, NEW s \in Steps, MoveTo(p, s), Grant(p, s),
           UNCHANGED <<expect, plan, slot>>, retire' \in [Proc -> BOOLEAN],
           tries' \in [Proc -> 0 .. MaxTries],
           UNCHANGED <<files, journal, backups, launches, bound, cred, given, daemon, turns>>,
           StageInv(p)'
    PROVE  MigrationInv'
<1>1. step \in [Proc -> Steps] /\ turns \in 0 .. MaxTurns /\ StepsTyped
  BY FilesTyped DEF MigrationInv, StepsTyped
<1>2. StepsTyped' /\ RestStays(p)
  BY <1>1 DEF StepsTyped, MoveTo, RestStays
<1> QED  BY <1>1, <1>2, WalkStep

\* Steps at which nothing is promised, or what the launch has just looked at.
LEMMA IdleStage ==
    ASSUME NEW p \in Proc, MigrationTypeOK, NEW s, MoveTo(p, s),
           \/ s \in {"joined", "rejoined", "apart", "again"}
           \/ s = "ready" /\ Settled' /\ rec'.acct = expect'[p]
           \/ s \in {"plan", "tidy"} /\ journal' = None /\ ~daemon' /\ expect'[p] \in Account
           \/ s \in {"recover", "verify"} /\ journal' # None /\ ~daemon' /\ expect'[p] \in Account
    PROVE  StageInv(p)'
<1>1. step'[p] = s
  BY FilesTyped DEF MoveTo
<1> QED  BY <1>1 DEF StageInv, Exclusive

LEMMA Members ==
    /\ {"idle", "joined", "rejoined", "apart", "again", "ready", "run"} \subseteq Steps
    /\ Exclusive \subseteq Steps /\ {"joined", "rejoined", "ready", "run"} = Shared
    /\ {"idle", "apart", "again"} \cap (Exclusive \cup Shared) = {}
    /\ Exclusive = {"recover", "plan", "sweep", "retired", "verify", "publish", "tidy"}
BY DEF Steps, Shared, Exclusive

LEMMA JoinStep ==
    ASSUME MigrationInv, NEW p \in Proc, Join(p)
    PROVE  MigrationInv'
<1>1. StepsTyped /\ bound \in Account /\ turns \in 0 .. MaxTurns /\ MigrationTypeOK
  BY FilesTyped DEF MigrationInv, StepsTyped
<1>2. /\ Grant(p, "joined") /\ MoveTo(p, "joined") /\ "joined" \in Steps
      /\ UNCHANGED <<files, journal, backups, launches, outside, retire, tries, plan, slot>>
      /\ expect' = [expect EXCEPT ![p] = bound]
  BY Members DEF Join, Grant, MoveTo, Exclusive
<1>3. StepsTyped' /\ RestStays(p)
  BY <1>1, <1>2 DEF StepsTyped, MoveTo, RestStays
<1>4. StageInv(p)'
  BY <1>1, <1>2, IdleStage
<1> QED  BY <1>1, <1>2, <1>3, <1>4, WalkStep DEF outside

LEMMA InspectStep ==
    ASSUME MigrationInv, NEW p \in Proc, Inspect(p)
    PROVE  MigrationInv'
<1>1. MigrationTypeOK /\ StepsTyped /\ turns \in 0 .. MaxTurns
  BY FilesTyped DEF MigrationInv, StepsTyped
<1>2. step[p] = "joined" /\ UNCHANGED <<files, journal, backups, launches, outside>>
  BY DEF Inspect
<1>3. CASE Leave(p)
  BY <1>1, <1>2, <1>3, LeaveStep DEF outside
<1>4. ASSUME NEW s \in {"apart", "ready"}, MoveTo(p, s), UNCHANGED <<expect, tries, plan, slot>>,
             retire' = [retire EXCEPT ![p] = Retained], s = "ready" => ~NeedsMigration(expect[p])
      PROVE  MigrationInv'
  <2>1. Grant(p, s) /\ s \in Steps
    BY <1>2, <1>4, Members DEF Grant, MoveTo
  <2>2. retire' \in [Proc -> BOOLEAN] /\ tries' \in [Proc -> 0 .. MaxTries]
    BY <1>1, <1>4 DEF StepsTyped, Retained
  <2>3. s = "ready" => Settled /\ rec.acct = expect[p]
    BY <1>4, Inspected
  <2>4. s = "ready" => Settled' /\ rec'.acct = expect'[p]
    BY <1>2, <1>4, <2>3 DEF Settled, files, backups
  <2>5. StageInv(p)'
    BY <1>1, <1>4, <2>4, IdleStage
  <2> QED  BY <1>2, <1>4, <2>1, <2>2, <2>5, OnStep DEF outside
<1> QED  BY <1>3, <1>4 DEF Inspect

LEMMA RejoinStep ==
    ASSUME MigrationInv, NEW p \in Proc, Rejoin(p)
    PROVE  MigrationInv'
<1>1. MigrationTypeOK /\ StepsTyped /\ turns \in 0 .. MaxTurns
  BY FilesTyped DEF MigrationInv, StepsTyped
<1>2. UNCHANGED <<files, journal, backups, launches, outside>>
  BY DEF Rejoin
<1>3. CASE Leave(p)
  BY <1>1, <1>2, <1>3, LeaveStep DEF outside
<1>4. CASE /\ SharedFree /\ tries[p] < MaxTries
           /\ MoveTo(p, "rejoined") /\ tries' = [tries EXCEPT ![p] = @ + 1]
           /\ UNCHANGED <<expect, retire, plan, slot>>
  <2>1. Grant(p, "rejoined") /\ "rejoined" \in Steps
    BY <1>4, Members DEF Grant, MoveTo
  <2>2. tries' \in [Proc -> 0 .. MaxTries] /\ retire' \in [Proc -> BOOLEAN]
    BY <1>1, <1>4, Sizes DEF StepsTyped
  <2>3. StageInv(p)'
    BY <1>1, <1>4, IdleStage
  <2> QED  BY <1>2, <1>4, <2>1, <2>2, <2>3, OnStep DEF outside
<1> QED  BY <1>3, <1>4 DEF Rejoin

LEMMA LookAgainStep ==
    ASSUME MigrationInv, NEW p \in Proc, LookAgain(p)
    PROVE  MigrationInv'
<1>1. MigrationTypeOK /\ StepsTyped /\ turns \in 0 .. MaxTurns
  BY FilesTyped DEF MigrationInv, StepsTyped
<1>2. UNCHANGED <<files, journal, backups, launches, outside>> /\ step[p] = "rejoined"
  BY DEF LookAgain
<1>3. CASE Leave(p)
  BY <1>1, <1>2, <1>3, LeaveStep DEF outside
<1>4. ASSUME NEW s \in {"apart", "ready"}, MoveTo(p, s), UNCHANGED steps,
             s = "ready" => ~NeedsMigration(expect[p])
      PROVE  MigrationInv'
  <2>1. Grant(p, s) /\ s \in Steps
    BY <1>2, <1>4, Members DEF Grant, MoveTo
  <2>2. s = "ready" => Settled /\ rec.acct = expect[p]
    BY <1>4, Inspected
  <2>3. s = "ready" => Settled' /\ rec'.acct = expect'[p]
    BY <1>2, <1>4, <2>2 DEF Settled, files, backups, steps
  <2>4. StageInv(p)'
    BY <1>1, <1>4, <2>3, IdleStage
  <2> QED  BY <1>1, <1>2, <1>4, <2>1, <2>4, OnStep DEF outside, steps, StepsTyped
<1> QED  BY <1>3, <1>4 DEF LookAgain

LEMMA EnterStep ==
    ASSUME MigrationInv, NEW p \in Proc, Enter(p)
    PROVE  MigrationInv'
<1>1. MigrationTypeOK /\ StepsTyped /\ turns \in 0 .. MaxTurns
  BY FilesTyped DEF MigrationInv, StepsTyped
<1>2. UNCHANGED <<files, journal, backups, launches, outside>> /\ ExclusiveFree
  BY DEF Enter
<1>3. CASE Leave(p)
  BY <1>1, <1>2, <1>3, LeaveStep DEF outside
<1>4. ASSUME NEW s \in {"recover", "plan", "tidy", "again"}, MoveTo(p, s), UNCHANGED steps,
             s # "again" => ~daemon, bound = expect[p], s = "recover" => journal # None,
             s \in {"plan", "tidy"} => journal = None
      PROVE  MigrationInv'
  <2>1. Grant(p, s) /\ s \in Steps
    BY <1>2, <1>4, Members DEF Grant, MoveTo
  <2>2. expect'[p] \in Account
    BY <1>4, FilesTyped DEF steps, MigrationInv
  <2>3. StageInv(p)'
    BY <1>1, <1>2, <1>4, <2>2, IdleStage DEF outside
  <2> QED  BY <1>1, <1>2, <1>4, <2>1, <2>3, OnStep DEF outside, steps, StepsTyped
<1>5. ~NeedsMigration(expect[p]) => journal = None
  BY Inspected
<1> QED  BY <1>3, <1>4, <1>5 DEF Enter, Unfinished

LEMMA RecoverStep ==
    ASSUME MigrationInv, NEW p \in Proc, Recover(p)
    PROVE  MigrationInv'
<1>1. MigrationTypeOK /\ StepsTyped /\ turns \in 0 .. MaxTurns /\ StageInv(p)
  BY FilesTyped DEF MigrationInv, StepsTyped
<1>2. UNCHANGED <<files, journal, backups, launches, outside>> /\ step[p] = "recover"
  BY DEF Recover
<1>3. CASE Leave(p)
  BY <1>1, <1>2, <1>3, LeaveStep DEF outside
<1>4. CASE MoveTo(p, "verify") /\ UNCHANGED steps
  <2>1. Grant(p, "verify") /\ "verify" \in Steps /\ journal # None /\ ~daemon
        /\ expect[p] \in Account
    BY <1>1, <1>2, <1>4, Members DEF Grant, MoveTo, StageInv, MigrationInv
  <2>2. StageInv(p)'
    BY <1>1, <1>2, <1>4, <2>1, IdleStage DEF outside, steps
  <2> QED  BY <1>1, <1>2, <1>4, <2>1, <2>2, OnStep DEF outside, steps, StepsTyped
<1> QED  BY <1>3, <1>4 DEF Recover

LEMMA ReturnStep ==
    ASSUME MigrationInv, NEW p \in Proc, Return(p)
    PROVE  MigrationInv'
<1>1. MigrationTypeOK /\ StepsTyped /\ turns \in 0 .. MaxTurns
  BY FilesTyped DEF MigrationInv, StepsTyped
<1>2. UNCHANGED <<files, journal, backups, launches, outside>> /\ SharedFree
  BY DEF Return
<1>3. CASE Leave(p)
  BY <1>1, <1>2, <1>3, LeaveStep DEF outside
<1>4. CASE /\ ~NeedsMigration(expect[p]) /\ MoveTo(p, "ready")
           /\ plan' = [plan EXCEPT ![p] = None] /\ UNCHANGED <<expect, retire, tries, slot>>
  <2>1. Grant(p, "ready") /\ "ready" \in Steps
    BY <1>2, <1>4, Members DEF Grant, MoveTo
  <2>2. Settled /\ rec.acct = expect[p]
    BY <1>4, Inspected
  <2>3. Settled' /\ rec'.acct = expect'[p]
    BY <1>2, <1>4, <2>2 DEF Settled, files, backups
  <2>4. StageInv(p)' /\ StepsTyped' /\ RestStays(p)
    BY <1>1, <1>4, <2>1, <2>3, IdleStage DEF StepsTyped, MoveTo, RestStays
  <2> QED  BY <1>1, <1>2, <2>1, <2>4, WalkStep DEF outside
<1> QED  BY <1>3, <1>4 DEF Return

LEMMA EndStep ==
    ASSUME MigrationInv, NEW p \in Proc, End(p) \/ Crash(p)
    PROVE  MigrationInv'
<1>1. turns \in 0 .. MaxTurns
  BY FilesTyped DEF MigrationInv
<1>2. turns' \in 0 .. MaxTurns
  BY <1>1, Sizes DEF End, Crash, outside
<1> QED  BY <1>2, LeaveStep DEF End, Crash, outside

-----------------------------------------------------------------------------
(* What a launch does under the lock.                                       *)

LEMMA OursAlone ==
    ASSUME MigrationInv, NEW p \in Proc, step[p] \in Exclusive
    PROVE  ~daemon /\ expect[p] \in Account /\ StageInv(p) /\ BesideInv /\ MigrationTypeOK
BY DEF MigrationInv, StageInv

LEMMA VerifyStep ==
    ASSUME MigrationInv, NEW p \in Proc, Verify(p)
    PROVE  MigrationInv'
<1>1. /\ step[p] = "verify" /\ step[p] \in Exclusive
      /\ UNCHANGED <<files, backups, launches, outside>>
  BY Members DEF Verify
<1>2. /\ MigrationTypeOK /\ journal # None /\ ~daemon /\ expect[p] \in Account /\ StageInv(p)
      /\ turns \in 0 .. MaxTurns /\ StepsTyped
  BY <1>1, OursAlone, FilesTyped DEF StageInv, StepsTyped
<1>3. CASE Leave(p) /\ UNCHANGED journal
  BY <1>1, <1>2, <1>3, LeaveStep DEF outside
<1>4. CASE journal' = [journal EXCEPT !.phase = "committed"]
  <2>1. journal \in Journals /\ journal.phase \in {"prepared", "committed"}
    BY <1>2, FilesTyped DEF Journals
  <2>2. /\ journal' \in Journals /\ journal'.phase = "committed"
        /\ journal'.before = journal.before /\ journal'.after = journal.after
    BY <1>4, <2>1 DEF Journals
  <2>3. journal' # None
    BY <2>2, Sizes
  <2>4. JournalInv'
    <3>1. JournalInv /\ Proposal(journal.after) /\ Forward(journal.before, journal.after)
      BY <1>2 DEF MigrationInv, JournalInv
    <3>2. Proposal(journal.after)' /\ Forward(journal.before, journal.after)'
      BY <1>1, <2>2, <3>1 DEF Proposal, Forward, outside
    <3>3. /\ app \in {journal.before.app, journal.after.app}
          /\ auth \in {journal.before.auth, journal.after.auth}
          /\ rec \in {journal.before.rec, journal.after.rec}
          /\ legacy \in {journal.before.legacy, journal.after.legacy}
      <4>1. CASE journal.phase = "committed"
        BY <1>2, <3>1, <4>1 DEF JournalInv
      <4>2. CASE journal.phase = "prepared"
        BY <1>2, <3>1, <4>2, HeldParts DEF JournalInv
      <4> QED  BY <2>1, <4>1, <4>2
    <3> QED  BY <1>1, <2>2, <2>3, <3>2, <3>3 DEF JournalInv, files
  <2>5. MigrationTypeOK'
    <3>1. StepsTyped'
      <4>1. CASE MoveTo(p, "publish") /\ UNCHANGED steps
        BY <1>2, <4>1, Members DEF StepsTyped, MoveTo, steps
      <4>2. CASE Leave(p)
        BY <4>2, LeftStep
      <4> QED  BY <1>4, <2>3, <4>1, <4>2 DEF Verify
    <3> QED  BY <1>1, <1>2, <2>2, <3>1 DEF MigrationTypeOK, StepsTyped, files, backups, launches, outside
  <2>6. BesideInv'
    BY <1>1, <1>2 DEF MigrationInv, BesideInv, Settled, SavedSettingsKept, files, backups, launches, outside
  <2>7. CASE MoveTo(p, "publish") /\ UNCHANGED steps
    <3>1. StageInv(p)'
      BY <1>1, <1>2, <2>2, <2>3, <2>7 DEF StageInv, MoveTo, StepsTyped, steps, outside, Exclusive
    <3> QED  BY <1>1, <2>4, <2>5, <2>6, <2>7, <3>1, AloneStep, Members DEF MoveTo
  <2>8. CASE Leave(p)
    <3>1. StageInv(p)'
      BY <2>8, LeftStep
    <3> QED  BY <1>1, <2>4, <2>5, <2>6, <2>8, <3>1, AloneStep DEF Leave, MoveTo
  <2> QED  BY <1>4, <2>3, <2>7, <2>8 DEF Verify
<1> QED  BY <1>3, <1>4 DEF Verify

\* The files of a journal that may be published.
LEMMA Publishing ==
    ASSUME MigrationInv, journal # None, journal.phase = "committed"
    PROVE  /\ Proposal(journal.after) /\ journal.after \in Files
           /\ Forward(journal.before, journal.after)
           /\ app \in {journal.before.app, journal.after.app}
           /\ auth \in {journal.before.auth, journal.after.auth}
           /\ rec \in {journal.before.rec, journal.after.rec}
           /\ legacy \in {journal.before.legacy, journal.after.legacy}
BY DEF MigrationInv, JournalInv, Proposal

LEMMA PutStep ==
    ASSUME MigrationInv, NEW p \in Proc, step[p] = "publish",
           NEW t \in {"app", "auth", "rec", "legacy"}, Put(t, journal.after[t]),
           UNCHANGED <<journal, step, steps, backups, launches, outside>>
    PROVE  MigrationInv'
<1>1. step[p] \in Exclusive
  BY Members
<1>2. /\ journal # None /\ journal.phase = "committed" /\ ~daemon /\ StageInv(p)
      /\ MigrationTypeOK /\ step \in [Proc -> Steps]
  BY <1>1, OursAlone, FilesTyped DEF StageInv
<1> DEFINE f == journal.after
<1>3. /\ Proposal(f) /\ f \in Files /\ Forward(journal.before, f)
      /\ app \in {journal.before.app, f.app} /\ auth \in {journal.before.auth, f.auth}
      /\ rec \in {journal.before.rec, f.rec} /\ legacy \in {journal.before.legacy, f.legacy}
  BY <1>2, Publishing
<1>4. /\ f["app"] = f.app /\ f["auth"] = f.auth /\ f["rec"] = f.rec /\ f["legacy"] = f.legacy
      /\ f.app \in State \cup {None} /\ f.auth \in Auth \cup {None}
      /\ f.rec \in IdRecord \cup {None} /\ f.legacy \in State \cup {None}
  BY <1>3, FilesParts
<1> HIDE DEF f
<1>5. /\ app' \in {app, f.app} /\ auth' \in {auth, f.auth}
      /\ rec' \in {rec, f.rec} /\ legacy' \in {legacy, f.legacy}
  BY <1>4 DEF Put, f
<1>6. MigrationTypeOK'
  BY <1>2, <1>4, <1>5 DEF MigrationTypeOK, backups, launches, outside, steps
<1>7. JournalInv'
  <2>1. Proposal(journal.after)' /\ Forward(journal.before, journal.after)'
    BY <1>3 DEF Proposal, Forward, outside, f
  <2> QED  BY <1>2, <1>3, <1>5, <2>1 DEF JournalInv, f
<1>8. BesideInv'
  <2>1. auth' # None => auth'.token <= given'[auth'.of]
    BY <1>3, <1>5 DEF MigrationInv, BesideInv, Proposal, outside
  <2> QED  BY <1>2, <2>1 DEF MigrationInv, BesideInv, SavedSettingsKept, backups, launches, outside
<1>9. StageInv(p)'
  BY <1>2 DEF StageInv, steps, outside, Exclusive
<1> QED  BY <1>1, <1>2, <1>6, <1>7, <1>8, <1>9, AloneStep

\* What has been published is coherent.
LEMMA PublishedCoherent ==
    ASSUME NEW f, Proposal(f), app = f.app, auth = f.auth, rec = f.rec, legacy = f.legacy
    PROVE  Coherent
<1>1. /\ f.rec \in IdRecord /\ app = f.rec /\ rec = f.rec /\ legacy = None
      /\ auth \in Auth /\ auth.of = f.rec.acct /\ f.rec.id.of = f.rec.acct
  BY DEF Proposal
<1>2. app # None /\ auth # None
  BY <1>1, RecordParts, AuthParts
<1>3. Active = app
  BY <1>1, <1>2 DEF Active, Legacy
<1> QED  BY <1>1, <1>2, <1>3 DEF Coherent

LEMMA PublishStep ==
    ASSUME MigrationInv, NEW p \in Proc, PublishFile(p)
    PROVE  MigrationInv'
<1>1. step[p] = "publish" /\ step[p] \in Exclusive /\ UNCHANGED <<backups, launches, outside>>
  BY Members DEF PublishFile
<1>2. /\ journal # None /\ journal.phase = "committed" /\ ~daemon /\ expect[p] \in Account
      /\ StageInv(p) /\ MigrationTypeOK /\ StepsTyped
  BY <1>1, OursAlone, FilesTyped DEF StageInv, StepsTyped
<1>3. CASE \E i \in DOMAIN Target :
             /\ Put(Target[i], journal.after[Target[i]]) /\ UNCHANGED <<journal, step, steps>>
  <2>1. PICK i \in DOMAIN Target : Put(Target[i], journal.after[Target[i]])
    BY <1>3
  <2>2. Target[i] \in {"app", "auth", "rec", "legacy"}
    BY DEF Target
  <2> QED  BY <1>1, <1>3, <2>1, <2>2, PutStep
<1>4. CASE /\ \A t \in DOMAIN Held : ~Differs(t)
           /\ journal' = None
           /\ MoveTo(p, IF plan[p] = None THEN "plan" ELSE Migrated(p))
           /\ UNCHANGED <<files, steps>>
  <2>1. Proposal(journal.after) /\ journal.after \in Files
    BY <1>2, Publishing
  <2>2. /\ app = journal.after.app /\ auth = journal.after.auth
        /\ rec = journal.after.rec /\ legacy = journal.after.legacy
    BY <1>4, <2>1, HeldParts, FilesParts DEF Differs
  <2>3. Coherent
    BY <2>1, <2>2, PublishedCoherent
  <2>4. Coherent'
    BY <1>4, <2>3 DEF Coherent, Active, Legacy, files
  <2>5. JournalInv'
    BY <1>4, <2>4 DEF JournalInv
  <2>6. PICK s \in {"plan", "tidy", "again"} : MoveTo(p, s)
    BY <1>4 DEF Migrated
  <2>7. MigrationTypeOK'
    BY <1>1, <1>2, <1>4, <2>6, Members DEF MigrationTypeOK, MoveTo, files, backups, launches, outside, steps
  <2>8. BesideInv'
    BY <1>1, <1>2, <1>4 DEF MigrationInv, BesideInv, SavedSettingsKept, files, backups, launches, outside
  <2>9. StageInv(p)'
    BY <1>1, <1>2, <1>4, <2>6, IdleStage DEF steps, outside
  <2> QED  BY <1>1, <2>5, <2>6, <2>7, <2>8, <2>9, AloneStep, Members DEF MoveTo
<1> QED  BY <1>3, <1>4 DEF PublishFile

\* The identifier a plan gives is of its account, and the one the account has.
LEMMA PlannedId ==
    ASSUME MigrationTypeOK, Coherent, NEW a \in Account, ~PlanRefused(a), NEW i \in PlannedIds(a)
    PROVE  /\ i \in Ident /\ i.of = a
           /\ app # None /\ app.acct = a /\ app.id # None /\ app.id.of = a => i = app.id
<1>1. /\ app \in State \cup {None} /\ legacy \in State \cup {None} /\ rec \in IdRecord \cup {None}
      /\ Active \in State /\ a # None /\ a # "elsewhere" /\ None \notin Account
  BY FilesTyped, ActiveTyped, Sizes
<1>2. rec # None => app = rec /\ app # None /\ legacy = None /\ Active = app
  BY <1>1, RecordParts DEF Coherent, Active, Legacy
<1>3. app # None => Active = app
  BY <1>1 DEF Coherent, Active, Legacy
<1>4. Active.id \in Foreign => Active.id.of = "elsewhere"
  BY DEF Foreign
<1>5. CASE Rebound(a) \/ Active.id \in Foreign \cup {None}
  <2>1. i \in Ident /\ i.of = a
    BY <1>5 DEF PlannedIds
  <2>2. ASSUME app # None, app.acct = a, app.id # None, app.id.of = a
        PROVE  FALSE
    <3>1. Rebound(a)
      BY <1>1, <1>3, <1>4, <1>5, <2>2
    <3> QED  BY <1>1, <1>2, <1>3, <2>2, <3>1 DEF Rebound
  <2> QED  BY <2>1, <2>2
<1>6. CASE ~Rebound(a) /\ Active.id \notin Foreign \cup {None}
  <2>1. i = Active.id /\ i \in Ident
    BY <1>1, <1>6, StateParts DEF PlannedIds
  <2>2. i.of = Active.acct /\ i.of \in Account
    <3>1. i.of \in Account \cup {"elsewhere"} /\ i.of # "elsewhere"
      BY <1>6, <2>1 DEF Ident, Foreign
    <3> QED  BY <1>6, <2>1, <3>1 DEF Coherent
  <2>3. Active.acct = a
    <3>1. CASE rec # None
      BY <1>2, <1>6, <3>1 DEF Rebound
    <3>2. CASE rec = None
      BY <1>1, <1>6, <2>2, <3>2 DEF Rebound
    <3> QED  BY <3>1, <3>2
  <2> QED  BY <1>3, <2>1, <2>2, <2>3
<1> QED  BY <1>5, <1>6

\* The token it gives is one of the account's, and none older than the one there.
LEMMA PlannedToken ==
    ASSUME MigrationTypeOK, Coherent, BesideInv, NEW a \in Account
    PROVE  /\ SelectedToken(a) \in 1 .. MaxIssued /\ SelectedToken(a) <= given[a]
           /\ auth # None /\ auth.of = a => auth.token <= SelectedToken(a)
<1>1. /\ cred[a] \in 1 .. MaxIssued /\ given[a] \in 1 .. MaxIssued /\ MaxIssued \in Nat
      /\ cred[a] <= given[a]
      /\ auth # None => auth \in Auth /\ auth.token \in 1 .. MaxIssued /\ auth.token <= given[auth.of]
  BY FilesTyped, Sizes, AuthParts DEF BesideInv
<1>2. auth # None => auth.of = Active.acct
  BY DEF Coherent
<1>3. Ours(a) <=> auth # None /\ auth.of = a
  BY <1>2 DEF Ours
<1> QED  BY <1>1, <1>3 DEF SelectedToken

LEMMA Planned ==
    ASSUME MigrationTypeOK, Coherent, BesideInv, NEW a \in Account, ~PlanRefused(a),
           NEW i \in PlannedIds(a)
    PROVE  Proposal(Desired(a, i)) /\ Forward(Held, Desired(a, i)) /\ Desired(a, i) \in Files
<1>1. /\ i \in Ident /\ i.of = a
      /\ app # None /\ app.acct = a /\ app.id # None /\ app.id.of = a => i = app.id
  BY PlannedId
<1>2. /\ SelectedToken(a) \in 1 .. MaxIssued /\ SelectedToken(a) <= given[a]
      /\ auth # None /\ auth.of = a => auth.token <= SelectedToken(a)
  BY PlannedToken
<1> DEFINE r == [acct |-> a, id |-> i]
           u == Projected(a, SelectedToken(a))
           f == Desired(a, i)
<1>3. r \in IdRecord /\ r \in State /\ r.acct = a /\ r.id = i
  BY <1>1 DEF IdRecord, State
<1>4. u \in Auth /\ u.of = a /\ u.token = SelectedToken(a)
  <2>1. KeptDevice(a) \in Account \cup {None}
    BY DEF KeptDevice
  <2> QED  BY <1>2, <2>1 DEF Projected, Auth
<1>5. f.app = r /\ f.auth = u /\ f.rec = r /\ f.legacy = None
      /\ f = [app |-> r, auth |-> u, rec |-> r, legacy |-> None]
  BY DEF Desired
<1> HIDE DEF r, u, f
<1>6. f \in Files
  BY <1>3, <1>4, <1>5 DEF Files
<1>7. Proposal(f)
  BY <1>1, <1>2, <1>3, <1>4, <1>5, <1>6 DEF Proposal
<1>8. Forward(Held, f)
  BY <1>1, <1>2, <1>3, <1>4, <1>5, HeldParts DEF Forward
<1> QED  BY <1>6, <1>7, <1>8 DEF f

LEMMA PlanStep ==
    ASSUME MigrationInv, NEW p \in Proc, Plan(p)
    PROVE  MigrationInv'
<1>1. /\ step[p] = "plan" /\ step[p] \in Exclusive
      /\ UNCHANGED <<files, journal, backups, launches, outside>>
  BY Members DEF Plan
<1>2. /\ ~daemon /\ expect[p] \in Account /\ StageInv(p) /\ BesideInv /\ MigrationTypeOK
      /\ journal = None /\ StepsTyped /\ turns \in 0 .. MaxTurns
  BY <1>1, OursAlone, FilesTyped DEF StageInv, StepsTyped
<1>3. Coherent
  BY <1>2 DEF MigrationInv, JournalInv
<1>4. CASE Leave(p)
  BY <1>1, <1>2, <1>4, LeaveStep DEF outside
<1>5. ASSUME NEW i \in PlannedIds(expect[p]), ~PlanRefused(expect[p]),
             plan' = [plan EXCEPT ![p] = Desired(expect[p], i)],
             NEW s \in {"retired", "sweep"}, MoveTo(p, s), UNCHANGED <<expect, retire, tries, slot>>
      PROVE  MigrationInv'
  <2>1. /\ Proposal(Desired(expect[p], i)) /\ Forward(Held, Desired(expect[p], i))
        /\ Desired(expect[p], i) \in Files
    BY <1>2, <1>3, <1>5, Planned
  <2>2. plan'[p] = Desired(expect[p], i) /\ step'[p] = s
    BY <1>2, <1>5 DEF StepsTyped, MoveTo
  <2>3. StepsTyped' /\ RestStays(p) /\ Grant(p, s)
    BY <1>1, <1>2, <1>5, <2>1, Members DEF StepsTyped, MoveTo, RestStays, Grant
  <2>4. StageInv(p)'
    <3>1. Proposal(plan[p])'
      BY <1>1, <2>1, <2>2 DEF Proposal, outside
    <3>2. Forward(Held, plan[p])'
      BY <1>1, <2>1, <2>2 DEF Forward, Held, files
    <3> QED  BY <1>1, <1>2, <1>5, <2>2, <3>1, <3>2 DEF StageInv, Exclusive, outside
  <2> QED  BY <1>1, <1>2, <2>3, <2>4, WalkStep, Members DEF outside
<1> QED  BY <1>4, <1>5 DEF Plan

LEMMA SweepStep ==
    ASSUME MigrationInv, NEW p \in Proc, Sweep(p)
    PROVE  MigrationInv'
<1>1. /\ step[p] = "sweep" /\ step[p] \in Exclusive
      /\ UNCHANGED <<files, journal, launches, outside, steps>>
  BY Members DEF Sweep
<1>2. /\ ~daemon /\ expect[p] \in Account /\ StageInv(p) /\ BesideInv /\ MigrationTypeOK
      /\ journal = None /\ StepsTyped /\ Proposal(plan[p]) /\ Forward(Held, plan[p])
      /\ copies \subseteq Ident /\ marker \in IdRecord \cup {None}
      /\ bucket \in (SUBSET Ident) \cup {None}
  BY <1>1, OursAlone, FilesTyped DEF StageInv, StepsTyped
<1>3. plan[p].rec \in IdRecord
  BY <1>2 DEF Proposal
<1>4. PICK s \in {"sweep", "retired"} : step' = [step EXCEPT ![p] = s]
  BY <1>1, <1>2 DEF Sweep, MoveTo, StepsTyped
<1>5. /\ copies' \subseteq Ident /\ marker' \in IdRecord \cup {None}
      /\ bucket' \in (SUBSET Ident) \cup {None}
      /\ copies' \subseteq copies /\ (marker' = marker \/ copies' = {})
  <2>1. CASE /\ bucket # None /\ bucket # {}
             /\ \E i \in bucket : copies' = copies \ {i} /\ bucket' = bucket \ {i}
             /\ UNCHANGED marker
    BY <1>2, <2>1
  <2>2. CASE bucket' = None /\ UNCHANGED <<copies, marker>>
    BY <1>2, <2>2
  <2>3. CASE bucket' = copies /\ UNCHANGED <<copies, marker>>
    BY <1>2, <2>3
  <2>4. CASE copies = {} /\ marker' = plan[p].rec /\ UNCHANGED <<copies, bucket>>
    BY <1>2, <1>3, <2>4
  <2> QED  BY <2>1, <2>2, <2>3, <2>4 DEF Sweep
<1>6. MigrationTypeOK'
  BY <1>1, <1>2, <1>4, <1>5, Members DEF MigrationTypeOK, files, launches, outside, steps
<1>7. JournalInv'
  BY <1>1 DEF MigrationInv, JournalInv, Coherent, Active, Legacy, Held, Proposal, files, outside
<1>8. BesideInv'
  BY <1>1, <1>2, <1>5 DEF BesideInv, SavedSettingsKept, files, launches, outside
<1>9. StageInv(p)'
  <2>1. step'[p] = s /\ Proposal(plan[p])' /\ Forward(Held, plan[p])'
    BY <1>1, <1>2, <1>4 DEF Proposal, Forward, Held, StepsTyped, files, outside, steps
  <2> QED  BY <1>1, <1>2, <2>1 DEF StageInv, Exclusive, outside, steps
<1> QED  BY <1>1, <1>4, <1>6, <1>7, <1>8, <1>9, AloneStep, Members

LEMMA PrepareStep ==
    ASSUME MigrationInv, NEW p \in Proc, Prepare(p)
    PROVE  MigrationInv'
<1>1. /\ step[p] = "retired" /\ step[p] \in Exclusive
      /\ UNCHANGED <<files, backups, launches, outside, steps>>
  BY Members DEF Prepare
<1>2. /\ ~daemon /\ expect[p] \in Account /\ StageInv(p) /\ BesideInv /\ MigrationTypeOK
      /\ journal = None /\ StepsTyped /\ Proposal(plan[p]) /\ Forward(Held, plan[p])
      /\ Held \in Files
  BY <1>1, OursAlone, FilesTyped DEF StageInv, StepsTyped
<1>3. Coherent /\ plan[p] \in Files
  BY <1>2 DEF MigrationInv, JournalInv, Proposal
<1>4. PICK s \in {"verify", "tidy", "again"} :
        /\ MoveTo(p, s)
        /\ IF s = "verify" THEN journal' = [phase |-> "prepared", before |-> Held, after |-> plan[p]]
           ELSE UNCHANGED journal
  BY DEF Prepare, Migrated
<1>5. s = "verify" =>
        /\ journal' \in Journals /\ journal' # None /\ journal'.phase = "prepared"
        /\ journal'.before = Held /\ journal'.after = plan[p]
  BY <1>2, <1>3, <1>4, Sizes DEF Journals
<1>6. s # "verify" => journal' = None
  BY <1>2, <1>4
<1>7. MigrationTypeOK'
  BY <1>1, <1>2, <1>4, <1>5, <1>6, Members DEF MigrationTypeOK, MoveTo, files, backups, launches, outside, steps
<1>8. JournalInv'
  <2>1. Coherent' /\ Held' = Held
    BY <1>1, <1>3 DEF Coherent, Active, Legacy, Held, files
  <2>2. CASE s = "verify"
    <3>1. Proposal(journal.after)' /\ Forward(journal.before, journal.after)'
      BY <1>1, <1>2, <1>5, <2>2 DEF Proposal, Forward, outside
    <3> QED  BY <1>5, <2>1, <2>2, <3>1 DEF JournalInv
  <2> QED  BY <1>6, <2>1, <2>2 DEF JournalInv
<1>9. BesideInv'
  BY <1>1, <1>2 DEF BesideInv, SavedSettingsKept, files, backups, launches, outside
<1>10. StageInv(p)'
  BY <1>1, <1>2, <1>4, <1>5, <1>6, IdleStage DEF outside, steps
<1> QED  BY <1>1, <1>4, <1>7, <1>8, <1>9, <1>10, AloneStep, Members DEF MoveTo

LEMMA TidyStep ==
    ASSUME MigrationInv, NEW p \in Proc, Tidy(p)
    PROVE  MigrationInv'
<1>1. /\ step[p] = "tidy" /\ step[p] \in Exclusive
      /\ UNCHANGED <<files, journal, backups, saved, outside, steps>>
  BY Members DEF Tidy
<1>2. /\ ~daemon /\ expect[p] \in Account /\ StageInv(p) /\ BesideInv /\ MigrationTypeOK
      /\ journal = None /\ StepsTyped /\ shot \in [Slot -> {"none", "whole", "receipt"}]
  BY <1>1, OursAlone, FilesTyped DEF StageInv, StepsTyped
<1>3. PICK s \in {"tidy", "again"} : MoveTo(p, s)
  BY <1>1, <1>2 DEF Tidy, MoveTo, StepsTyped
<1>4. shot' \in [Slot -> {"none", "whole", "receipt"}] /\ \A t \in saved : shot'[t] = shot[t]
  BY <1>2, FilesTyped DEF Tidy
<1>5. MigrationTypeOK'
  BY <1>1, <1>2, <1>3, <1>4, Members DEF MigrationTypeOK, MoveTo, files, backups, outside, steps
<1>6. JournalInv'
  BY <1>1 DEF MigrationInv, JournalInv, Coherent, Active, Legacy, Held, Proposal, files, outside
<1>7. BesideInv'
  BY <1>1, <1>2, <1>4 DEF BesideInv, SavedSettingsKept, files, backups, outside
<1>8. StageInv(p)'
  BY <1>1, <1>2, <1>3, IdleStage DEF outside, steps
<1> QED  BY <1>1, <1>3, <1>5, <1>6, <1>7, <1>8, AloneStep, Members DEF MoveTo

-----------------------------------------------------------------------------
(* The session, and what Claude does beside the launches.                   *)

LEMMA StartStep ==
    ASSUME MigrationInv, NEW p \in Proc, Start(p)
    PROVE  MigrationInv'
<1>1. /\ step[p] = "ready" /\ step[p] \in Shared /\ step' = [step EXCEPT ![p] = "run"]
      /\ UNCHANGED <<files, journal, backups, saved, outside, expect, retire, tries, plan>>
  BY Members DEF Start, MoveTo
<1>2. /\ MigrationTypeOK /\ StepsTyped /\ shot \in [Slot -> {"none", "whole", "receipt"}]
      /\ StageInv(p) /\ BesideInv
  BY FilesTyped DEF MigrationInv, StepsTyped
<1>3. PICK s \in Slot : /\ shot[s] = "none" /\ shot' = [shot EXCEPT ![s] = "whole"]
                        /\ slot' = [slot EXCEPT ![p] = s]
  BY DEF Start
<1>4. /\ shot' \in [Slot -> {"none", "whole", "receipt"}] /\ shot'[s] = "whole"
      /\ \A t \in Slot : shot[t] = "whole" => shot'[t] = "whole"
  BY <1>2, <1>3
<1>5. step' \in [Proc -> Steps] /\ slot' \in [Proc -> Slot \cup {None}]
  BY <1>1, <1>2, <1>3, Members DEF StepsTyped
<1>6. MigrationTypeOK'
  BY <1>1, <1>2, <1>4, <1>5 DEF MigrationTypeOK, files, backups, outside
<1>7. LockInv'
  BY <1>1, <1>2, LockKept, Members DEF MigrationInv, Grant, StepsTyped
<1>8. JournalInv'
  BY <1>1 DEF MigrationInv, JournalInv, Coherent, Active, Legacy, Held, Proposal, files, outside
<1>9. BesideInv'
  <2>1. saved \subseteq Slot
    BY <1>2, FilesTyped
  <2> QED  BY <1>1, <1>2, <1>4, <2>1 DEF BesideInv, Settled, SavedSettingsKept, files, backups, outside
<1>10. ASSUME NEW q \in Proc PROVE StageInv(q)'
  <2>1. CASE q = p
    <3>1. step'[p] = "run" /\ slot'[p] = s
      BY <1>1, <1>2, <1>3 DEF StepsTyped
    <3>2. Settled /\ rec.acct = expect[p]
      BY <1>1, <1>2 DEF StageInv
    <3> QED  BY <1>1, <1>3, <1>4, <2>1, <3>1, <3>2 DEF StageInv, Settled, Exclusive, files, backups
  <2>2. CASE q # p
    <3>1. step'[q] = step[q] /\ slot'[q] = slot[q] /\ StageInv(q)
      BY <1>1, <1>2, <1>3, <2>2 DEF StepsTyped, MigrationInv
    <3> QED  BY <1>1, <1>4, <3>1
             DEF StageInv, Settled, Proposal, Forward, Held, files, backups, outside
  <2> QED  BY <2>1, <2>2
<1> QED  BY <1>6, <1>7, <1>8, <1>9, <1>10 DEF MigrationInv

\* Claude lives: nobody moves the files, and they are of one account.
LEMMA AliveFacts ==
    ASSUME MigrationInv, Alive
    PROVE  /\ Settled /\ Coherent /\ \A q \in Proc : step[q] \notin Exclusive
           /\ rec \in IdRecord /\ auth \in Auth /\ Active = rec /\ ~Legacy
<1>1. Settled /\ \A q \in Proc : step[q] \notin Exclusive
  <2>1. CASE daemon
    BY <2>1 DEF MigrationInv, BesideInv, StageInv
  <2>2. CASE \E p \in Proc : step[p] = "run"
    <3>1. PICK p \in Proc : step[p] = "run"
      BY <2>2
    <3>2. Settled
      BY <3>1 DEF MigrationInv, StageInv
    <3>3. SharedFree
      BY <3>1, NoneAlone, FilesTyped, Members DEF MigrationInv
    <3> QED  BY <3>2, <3>3 DEF SharedFree
  <2> QED  BY <2>1, <2>2 DEF Alive
<1>2. Coherent
  BY <1>1 DEF MigrationInv, JournalInv, Settled
<1>3. rec \in IdRecord /\ auth \in Auth
  BY <1>1, <1>2, FilesTyped DEF MigrationInv, Settled, Coherent
<1>4. app = rec /\ legacy = None /\ rec # None
  BY <1>1, <1>2 DEF Settled, Coherent
<1> QED  BY <1>1, <1>2, <1>3, <1>4 DEF Active, Legacy

\* Nothing of the launches changes while Claude, or who is outside, acts.
LEMMA BesideStep ==
    ASSUME MigrationInv, UNCHANGED <<step, steps, shot>>, Settled => Settled', rec' = rec,
           MigrationTypeOK', JournalInv', BesideInv', \A q \in Proc : step[q] \notin Exclusive
    PROVE  MigrationInv'
<1>1. LockInv'
  BY DEF MigrationInv, LockInv
<1>2. ASSUME NEW q \in Proc PROVE StageInv(q)'
  BY DEF MigrationInv, StageInv, Exclusive, steps
<1> QED  BY <1>1, <1>2 DEF MigrationInv

LEMMA NativeRefreshStep ==
    ASSUME MigrationInv, NativeRefresh
    PROVE  MigrationInv' /\ auth'.token >= auth.token
<1>1. /\ Settled /\ Coherent /\ auth \in Auth /\ rec \in IdRecord /\ journal = None
      /\ \A q \in Proc : step[q] \notin Exclusive
      /\ MigrationTypeOK /\ BesideInv
  BY AliveFacts DEF NativeRefresh, Settled, MigrationInv
<1>2. /\ auth.of \in Account /\ auth.token \in 1 .. MaxIssued /\ auth.token <= given[auth.of]
      /\ given \in [Account -> 1 .. MaxIssued] /\ cred \in [Account -> 1 .. MaxIssued]
      /\ \A a \in Account : cred[a] <= given[a]
      /\ given[auth.of] < MaxIssued /\ MaxIssued \in Nat /\ auth # None
  <2>1. auth # None /\ given[auth.of] < MaxIssued
    BY DEF NativeRefresh
  <2>2. auth.of \in Account /\ auth.token \in 1 .. MaxIssued
    BY <1>1, AuthParts
  <2>3. given \in [Account -> 1 .. MaxIssued] /\ cred \in [Account -> 1 .. MaxIssued] /\ MaxIssued \in Nat
    BY <1>1, FilesTyped, Sizes
  <2> QED  BY <1>1, <2>1, <2>2, <2>3 DEF BesideInv
<1>3. DEFINE t == given[auth.of] + 1
<1>4. t \in 1 .. MaxIssued /\ t \in Nat /\ t >= auth.token /\ t >= given[auth.of]
  BY <1>2
<1>5. /\ given' = [given EXCEPT ![auth.of] = t] /\ auth' = [auth EXCEPT !.token = t]
      /\ UNCHANGED <<app, legacy, rec, journal, backups, launches, bound, cred, daemon, turns, step, steps>>
  BY <1>2 DEF NativeRefresh
<1> HIDE DEF t
<1>6. /\ given' \in [Account -> 1 .. MaxIssued] /\ \A a \in Account : given'[a] >= given[a]
      /\ given'[auth.of] = t
  BY <1>2, <1>4, <1>5
<1>7. /\ auth' \in Auth /\ auth'.token = t /\ auth'.of = auth.of /\ auth'.device = auth.device
      /\ auth' # None
  BY <1>1, <1>4, <1>5, Sizes DEF Auth
<1>8. MigrationTypeOK'
  BY <1>1, <1>5, <1>6, <1>7 DEF MigrationTypeOK, backups, launches, steps
<1>9. Coherent' /\ Settled'
  BY <1>1, <1>2, <1>5, <1>7 DEF Coherent, Settled, Active, Legacy, backups
<1>10. JournalInv'
  BY <1>1, <1>5, <1>9 DEF JournalInv
<1>11. BesideInv'
  <2>1. \A a \in Account : cred'[a] <= given'[a]
    BY <1>2, <1>5, <1>6
  <2> QED  BY <1>1, <1>5, <1>6, <1>7, <1>9, <2>1, <1>4 DEF BesideInv, SavedSettingsKept, backups, launches
<1>12. MigrationInv'
  BY <1>1, <1>5, <1>8, <1>9, <1>10, <1>11, BesideStep DEF launches
<1> QED  BY <1>4, <1>7, <1>12

LEMMA NativeCopyStep ==
    ASSUME MigrationInv, NativeCopy
    PROVE  MigrationInv'
<1>1. /\ Settled /\ Coherent /\ rec \in IdRecord /\ journal = None /\ Active = rec
      /\ \A q \in Proc : step[q] \notin Exclusive
      /\ MigrationTypeOK /\ BesideInv
      /\ copies' = copies \cup {rec.id}
      /\ UNCHANGED <<files, journal, bucket, marker, launches, outside, step, steps>>
  BY AliveFacts DEF NativeCopy, Settled, MigrationInv
<1>2. rec.id \in Ident /\ rec.id.of = rec.acct /\ rec # None /\ marker = rec
  BY <1>1, RecordParts DEF Coherent, Settled
<1>3. MigrationTypeOK'
  BY <1>1, <1>2 DEF MigrationTypeOK, files, launches, outside, steps
<1>4. JournalInv'
  BY <1>1 DEF MigrationInv, JournalInv, Coherent, Active, Legacy, Held, Proposal, files, outside
<1>5. Settled'
  BY <1>1 DEF Settled, files
<1>6. BesideInv'
  BY <1>1, <1>2, <1>5 DEF BesideInv, SavedSettingsKept, files, launches, outside
<1> QED  BY <1>1, <1>3, <1>4, <1>5, <1>6, BesideStep DEF files, launches

LEMMA DaemonStep ==
    ASSUME MigrationInv, Detach \/ DaemonEnds
    PROVE  MigrationInv'
<1>1. /\ Alive /\ daemon' \in BOOLEAN
      /\ UNCHANGED <<files, journal, backups, launches, bound, cred, given, turns, step, steps>>
  BY DEF Detach, DaemonEnds, Alive
<1>2. Settled /\ \A q \in Proc : step[q] \notin Exclusive
  BY <1>1, AliveFacts
<1>3. MigrationTypeOK' /\ Settled'
  BY <1>1, <1>2 DEF MigrationInv, MigrationTypeOK, Settled, files, backups, launches, steps
<1>4. JournalInv'
  BY <1>1 DEF MigrationInv, JournalInv, Coherent, Active, Legacy, Held, Proposal, files
<1>5. BesideInv'
  BY <1>1, <1>3 DEF MigrationInv, BesideInv, SavedSettingsKept, files, backups, launches
<1> QED  BY <1>1, <1>2, <1>3, <1>4, <1>5, BesideStep DEF files, launches

LEMMA SaveJobStep ==
    ASSUME MigrationInv, SaveJob
    PROVE  MigrationInv'
<1>1. PICK p \in Proc : step[p] = "run" /\ saved' = saved \cup {slot[p]}
  BY DEF SaveJob
<1>2. UNCHANGED <<files, journal, backups, shot, outside, step, steps>>
  BY DEF SaveJob
<1>3. /\ \A q \in Proc : step[q] \notin Exclusive
      /\ slot[p] \in Slot /\ shot[slot[p]] = "whole" /\ MigrationTypeOK /\ BesideInv
  BY <1>1, AliveFacts DEF Alive, MigrationInv, StageInv
<1>4. MigrationTypeOK'
  BY <1>1, <1>2, <1>3 DEF MigrationTypeOK, files, backups, outside, steps
<1>5. JournalInv' /\ (Settled => Settled')
  BY <1>2 DEF MigrationInv, JournalInv, Settled, Coherent, Active, Legacy, Held, Proposal, files,
              backups, outside
<1>6. BesideInv'
  BY <1>1, <1>2, <1>3, <1>5 DEF BesideInv, SavedSettingsKept, files, backups, outside
<1> QED  BY <1>2, <1>3, <1>4, <1>5, <1>6, BesideStep DEF files

LEMMA RemoteRefreshStep ==
    ASSUME MigrationInv, NEW a \in Account, RemoteRefresh(a)
    PROVE  MigrationInv'
<1>1. /\ UNCHANGED <<files, journal, backups, launches, bound, daemon, turns, step, steps>>
      /\ \A q \in Proc : step[q] \notin Exclusive
  BY DEF RemoteRefresh, ExclusiveFree
<1>2. /\ MigrationTypeOK /\ BesideInv /\ JournalInv /\ given[a] < MaxIssued /\ MaxIssued \in Nat
      /\ given \in [Account -> 1 .. MaxIssued] /\ cred \in [Account -> 1 .. MaxIssued]
      /\ auth \in Auth \cup {None} /\ journal \in Journals \cup {None}
  BY FilesTyped, Sizes DEF RemoteRefresh, MigrationInv
<1>3. given[a] + 1 \in 1 .. MaxIssued
  BY <1>2
<1>4. given' = [given EXCEPT ![a] = given[a] + 1] /\ cred' = [cred EXCEPT ![a] = given[a] + 1]
  BY <1>2 DEF RemoteRefresh
<1>5. /\ given' \in [Account -> 1 .. MaxIssued] /\ cred' \in [Account -> 1 .. MaxIssued]
      /\ \A b \in Account : given'[b] >= given[b] /\ cred'[b] <= given'[b]
  <2>1. given' \in [Account -> 1 .. MaxIssued] /\ cred' \in [Account -> 1 .. MaxIssued]
    BY <1>2, <1>3, <1>4
  <2>2. \A b \in Account : given'[b] >= given[b]
    BY <1>2, <1>3, <1>4
  <2>3. \A b \in Account : cred'[b] <= given'[b]
    BY <1>2, <1>3, <1>4 DEF BesideInv
  <2> QED  BY <2>1, <2>2, <2>3
<1>6. MigrationTypeOK'
  BY <1>1, <1>2, <1>5 DEF MigrationTypeOK, files, backups, launches, steps
<1>7. UNCHANGED <<Active, Held>> /\ (Settled => Settled') /\ (Coherent => Coherent')
  BY <1>1 DEF Settled, Coherent, Active, Legacy, Held, files, backups
<1>8. ASSUME NEW f, Proposal(f) PROVE f.auth.token <= given'[f.auth.of]
  <2>1. f.auth \in Auth /\ f.auth.of \in Account /\ f.auth.token \in Nat /\ f.auth.token <= given[f.auth.of]
    BY <1>8, AuthParts DEF Proposal
  <2> QED  BY <1>2, <1>5, <2>1
<1>9. JournalInv'
  <2>1. journal # None => Proposal(journal.after)'
    BY <1>1, <1>2, <1>8 DEF JournalInv, Proposal
  <2> QED  BY <1>1, <1>2, <1>7, <2>1 DEF JournalInv, Forward, files
<1>10. BesideInv'
  <2>1. auth # None => auth'.token <= given'[auth'.of]
    <3>1. SUFFICES ASSUME auth # None PROVE auth.token <= given'[auth.of]
      BY <1>1 DEF files
    <3>2. auth \in Auth /\ auth.of \in Account /\ auth.token \in Nat /\ auth.token <= given[auth.of]
      BY <1>2, <3>1, AuthParts DEF BesideInv
    <3> QED  BY <1>2, <1>5, <3>2
  <2> QED  BY <1>1, <1>2, <1>5, <1>7, <2>1 DEF BesideInv, SavedSettingsKept, files, backups, launches
<1> QED  BY <1>1, <1>6, <1>7, <1>9, <1>10, BesideStep DEF files, launches

LEMMA RebindStep ==
    ASSUME MigrationInv, NEW a \in Account, Rebind(a)
    PROVE  MigrationInv'
<1>1. /\ UNCHANGED <<files, journal, backups, launches, cred, given, daemon, step, steps>>
      /\ \A q \in Proc : step[q] \notin Exclusive
      /\ bound' \in Account /\ turns' = turns + 1 /\ turns < MaxTurns
  BY DEF Rebind, ExclusiveFree
<1>2. turns' \in 0 .. MaxTurns
  BY <1>1, FilesTyped, Sizes DEF MigrationInv
<1>3. MigrationTypeOK'
  BY <1>1, <1>2 DEF MigrationInv, MigrationTypeOK, files, backups, launches, steps
<1>4. JournalInv' /\ (Settled => Settled')
  BY <1>1 DEF MigrationInv, JournalInv, Settled, Coherent, Active, Legacy, Held, Proposal, files, backups
<1>5. BesideInv'
  BY <1>1, <1>4 DEF MigrationInv, BesideInv, SavedSettingsKept, files, backups, launches
<1> QED  BY <1>1, <1>3, <1>4, <1>5, BesideStep DEF files, launches

-----------------------------------------------------------------------------
(* The invariant.                                                           *)

LEMMA MigrationInitially == MigrationInit => MigrationInv
<1> SUFFICES ASSUME MigrationInit PROVE MigrationInv
  OBVIOUS
<1>1. PICK a \in Account, i \in {Empty.id, [of |-> "elsewhere", n |-> 1]} \cup [of : Account, n : {1}] :
         /\ i \in [of : Account, n : {1}] => i.of = a
         /\ app \in {None, [acct |-> a, id |-> i]}
         /\ legacy \in {None, Empty, [acct |-> a, id |-> i]}
         /\ \/ auth = None
            \/ \E b \in Account \ {a} :
                  auth \in {[of |-> a, token |-> t, device |-> b, whole |-> TRUE] : t \in 1 .. MaxIssued}
                           \cup {[of |-> a, token |-> 1, device |-> None, whole |-> FALSE]}
         /\ copies = {i} \ {None}
         /\ legacy \in {None, Empty} \/ app = None
         /\ (app = None /\ legacy \in {None, Empty}) => auth = None
  BY DEF MigrationInit
<1>2. /\ i \in Ident \cup {None} /\ (i # None => i.of \in {a, "elsewhere"})
  <2>1. CASE i = Empty.id
    BY <2>1, EmptyTyped
  <2>2. CASE i = [of |-> "elsewhere", n |-> 1]
    BY <2>2, Sizes DEF Ident
  <2>3. CASE i \in [of : Account, n : {1}]
    BY <1>1, <2>3, Sizes DEF Ident
  <2> QED  BY <1>1, <2>1, <2>2, <2>3
<1> DEFINE s == [acct |-> a, id |-> i]
<1>3. s \in State /\ s # None /\ s.acct = a /\ s.id = i /\ s # Empty
  BY <1>2, Sizes DEF State, Empty
<1>4. app \in {None, s} /\ legacy \in {None, Empty, s}
  BY <1>1
<1> HIDE DEF s
<1>5. /\ auth # None => auth \in Auth /\ auth.of = a /\ auth.token \in 1 .. MaxIssued
  <2>1. CASE \E b \in Account \ {a} :
               auth \in {[of |-> a, token |-> t, device |-> b, whole |-> TRUE] : t \in 1 .. MaxIssued}
                        \cup {[of |-> a, token |-> 1, device |-> None, whole |-> FALSE]}
    <3>1. CASE auth = [of |-> a, token |-> 1, device |-> None, whole |-> FALSE]
      BY <3>1, Sizes DEF Auth
    <3>2. CASE \E b \in Account \ {a}, t \in 1 .. MaxIssued :
                 auth = [of |-> a, token |-> t, device |-> b, whole |-> TRUE]
      BY <3>2, Sizes DEF Auth
    <3> QED  BY <2>1, <3>1, <3>2
  <2> QED  BY <1>1, <2>1
<1>6. /\ rec = None /\ journal = None /\ bucket = None /\ marker = None
      /\ shot = [t \in Slot |-> "none"] /\ saved = {}
      /\ bound \in Account /\ daemon = FALSE /\ turns = 0
      /\ cred = [b \in Account |-> 1]
      /\ given = [b \in Account |-> IF auth # None /\ auth.of = b THEN auth.token ELSE 1]
      /\ step = [p \in Proc |-> "idle"] /\ expect = [p \in Proc |-> None]
      /\ retire = [p \in Proc |-> FALSE]
      /\ tries = [p \in Proc |-> 0] /\ plan = [p \in Proc |-> None] /\ slot = [p \in Proc |-> None]
  BY DEF MigrationInit
<1>7. MigrationTypeOK
  <2>1. /\ app \in State \cup {None} /\ legacy \in State \cup {None} /\ auth \in Auth \cup {None}
        /\ copies \subseteq Ident
    BY <1>1, <1>2, <1>3, <1>4, <1>5, EmptyTyped
  <2>2. given \in [Account -> 1 .. MaxIssued] /\ cred \in [Account -> 1 .. MaxIssued]
    BY <1>5, <1>6, Sizes
  <2>3. step \in [Proc -> Steps]
    BY <1>6, Members
  <2> QED  BY <1>6, <2>1, <2>2, <2>3, Sizes DEF MigrationTypeOK
<1>8. Coherent
  <2>1. app # None => Active = s /\ legacy \in {None, Empty}
    BY <1>1, <1>3, <1>4, EmptyTyped DEF Active, Legacy
  <2>2. app = None /\ legacy = s => Active = s
    BY <1>3 DEF Active, Legacy
  <2>3. app = None /\ legacy # s => Active = Empty /\ auth = None
    BY <1>1, <1>3, <1>4 DEF Active, Legacy
  <2> QED  BY <1>2, <1>3, <1>4, <1>5, <1>6, <2>1, <2>2, <2>3, EmptyTyped DEF Coherent
<1>9. JournalInv /\ LockInv
  BY <1>6, <1>8, Members DEF JournalInv, LockInv
<1>10. BesideInv
  <2>1. auth # None => auth.token <= given[auth.of]
    BY <1>5, <1>6
  <2>2. \A b \in Account : cred[b] <= given[b]
    BY <1>5, <1>6
  <2> QED  BY <1>6, <2>1, <2>2 DEF BesideInv, SavedSettingsKept
<1>11. ASSUME NEW p \in Proc PROVE StageInv(p)
  BY <1>6, OutStage, Members
<1> QED  BY <1>7, <1>9, <1>10, <1>11 DEF MigrationInv

LEMMA MigrationStays ==
    ASSUME MigrationInv, UNCHANGED migrationVars
    PROVE  MigrationInv'
<1>1. UNCHANGED <<files, journal, backups, launches, outside, step, steps>>
  BY DEF migrationVars
<1>2. MigrationTypeOK' /\ LockInv'
  BY <1>1 DEF MigrationInv, MigrationTypeOK, LockInv, files, backups, launches, outside, steps
<1>3. JournalInv' /\ BesideInv'
  BY <1>1 DEF MigrationInv, JournalInv, BesideInv, Settled, SavedSettingsKept, Coherent, Active, Legacy,
              Held, Proposal, files, backups, launches, outside
<1>4. ASSUME NEW p \in Proc PROVE StageInv(p)'
  BY <1>1 DEF MigrationInv, StageInv, Settled, Proposal, Forward, Held, files, backups, launches,
              outside, steps
<1> QED  BY <1>2, <1>3, <1>4 DEF MigrationInv

LEMMA MigrationStep == MigrationInv /\ [MigrationNext]_migrationVars => MigrationInv'
<1> SUFFICES ASSUME MigrationInv, [MigrationNext]_migrationVars PROVE MigrationInv'
  OBVIOUS
<1>1. ASSUME NEW p \in Proc, Join(p) PROVE MigrationInv'
  BY <1>1, JoinStep
<1>2. ASSUME NEW p \in Proc, LaunchStep(p) PROVE MigrationInv'
  BY <1>2, InspectStep, RejoinStep, LookAgainStep, EnterStep, RecoverStep, VerifyStep, PublishStep,
     PlanStep, SweepStep, PrepareStep, TidyStep, ReturnStep DEF LaunchStep
<1>3. ASSUME NEW p \in Proc, Start(p) \/ End(p) \/ Crash(p) PROVE MigrationInv'
  BY <1>3, StartStep, EndStep
<1>4. CASE NativeRefresh \/ NativeCopy \/ Detach \/ DaemonEnds \/ SaveJob
  BY <1>4, NativeRefreshStep, NativeCopyStep, DaemonStep, SaveJobStep
<1>5. ASSUME NEW a \in Account, RemoteRefresh(a) \/ Rebind(a) PROVE MigrationInv'
  BY <1>5, RemoteRefreshStep, RebindStep
<1>6. CASE UNCHANGED migrationVars
  BY <1>6, MigrationStays
<1> QED  BY <1>1, <1>2, <1>3, <1>4, <1>5, <1>6 DEF MigrationNext

LEMMA MigrationAlways == MigrationSpec => []MigrationInv
BY MigrationInitially, MigrationStep, PTL DEF MigrationSpec

\* The variables keep to their types: identifiers, tokens and the journal
\* among them, whatever was interrupted.
THEOREM MigrationTypeCorrect == MigrationSpec => []MigrationTypeOK
<1>1. MigrationInv => MigrationTypeOK
  BY DEF MigrationInv
<1> QED  BY <1>1, MigrationAlways, PTL

\* The session runs on files of one account: nobody moves them while it has
\* its share of the lock, and it was let in by a look at all of them.
THEOREM SeesOneAccount == MigrationSpec => []OneAccount
<1>1. MigrationInv => OneAccount
  <2> SUFFICES ASSUME MigrationInv, NEW p \in Proc, step[p] = "run"
               PROVE  /\ Active.acct = expect[p] /\ ~Legacy
                      /\ auth # None /\ auth.of = expect[p] /\ auth.device \in {None, expect[p]}
                      /\ \A i \in copies \cup {Active.id} : i.of = expect[p]
    BY DEF OneAccount
  <2>1. /\ Settled /\ Coherent /\ rec \in IdRecord /\ Active = rec /\ ~Legacy /\ rec # None
    BY AliveFacts DEF Alive, Settled
  <2>2. rec.acct = expect[p] /\ \A i \in copies : marker # None => i.of = marker.acct
    BY DEF MigrationInv, StageInv, BesideInv
  <2> QED  BY <2>1, <2>2 DEF Settled, Coherent
<1> QED  BY <1>1, MigrationAlways, PTL

\* Either the four files are as one plan left them or the journal still says
\* what they shall be; and the settings of a saved job are there.
THEOREM LaunchFilesWhole == MigrationSpec => []FilesWhole
<1>1. MigrationInv => FilesWhole
  <2> SUFFICES ASSUME MigrationInv PROVE NeverHalf
    BY DEF FilesWhole, MigrationInv, BesideInv
  <2>1. CASE Coherent
    <3>1. rec # None => Active = rec
      BY <2>1 DEF Coherent, Active, Legacy
    <3> QED  BY <2>1, <3>1 DEF NeverHalf, Coherent
  <2>2. CASE ~Coherent
    <3>1. journal # None /\ journal.phase # "prepared" /\ journal \in Journals
      BY <2>2, FilesTyped DEF MigrationInv, JournalInv
    <3> QED  BY <3>1 DEF NeverHalf, Journals
  <2> QED  BY <2>1, <2>2
<1> QED  BY <1>1, MigrationAlways, PTL

\* Only a publication and Claude's own refresh write the credential, only a
\* publication the state.
LEMMA WhoWrites ==
    ASSUME [MigrationNext]_migrationVars
    PROVE  UNCHANGED <<app, auth>> \/ NativeRefresh \/ \E p \in Proc : PublishFile(p)
<1>1. ASSUME NEW p \in Proc, LaunchStep(p), ~PublishFile(p) PROVE UNCHANGED <<app, auth>>
  BY <1>1 DEF LaunchStep, Inspect, Rejoin, LookAgain, Enter, Recover, Verify, Plan, Sweep, Prepare,
              Tidy, Return, files
<1>2. ASSUME NEW p \in Proc, Join(p) \/ Start(p) \/ End(p) \/ Crash(p) PROVE UNCHANGED <<app, auth>>
  BY <1>2 DEF Join, Start, End, Crash, files
<1>3. CASE NativeCopy \/ Detach \/ DaemonEnds \/ SaveJob
  BY <1>3 DEF NativeCopy, Detach, DaemonEnds, SaveJob, files
<1>4. ASSUME NEW a \in Account, RemoteRefresh(a) \/ Rebind(a) PROVE UNCHANGED <<app, auth>>
  BY <1>4 DEF RemoteRefresh, Rebind, files
<1>5. CASE UNCHANGED migrationVars
  BY <1>5 DEF migrationVars, files
<1> QED  BY <1>1, <1>2, <1>3, <1>4, <1>5 DEF MigrationNext

\* A publication writes what the journal has, over what the plan had seen.
LEMMA PublicationForward ==
    ASSUME MigrationInv, NEW p \in Proc, PublishFile(p)
    PROVE  /\ app' # app => app = journal.before.app /\ app' = journal.after.app
           /\ auth' # auth => auth = journal.before.auth /\ auth' = journal.after.auth
           /\ Forward(journal.before, journal.after)
<1>1. step[p] = "publish" /\ step[p] \in Exclusive
  BY Members DEF PublishFile
<1>2. journal # None /\ journal.phase = "committed"
  BY <1>1, OursAlone DEF StageInv
<1>3. /\ journal.after \in Files /\ Forward(journal.before, journal.after)
      /\ app \in {journal.before.app, journal.after.app}
      /\ auth \in {journal.before.auth, journal.after.auth}
  BY <1>2, Publishing
<1>4. /\ journal.after["app"] = journal.after.app /\ journal.after["auth"] = journal.after.auth
  BY <1>3, FilesParts
<1>5. app' \in {app, journal.after.app} /\ auth' \in {auth, journal.after.auth}
  BY <1>4 DEF PublishFile, Put, files
<1> QED  BY <1>3, <1>5

LEMMA ForwardStep ==
    ASSUME MigrationInv, [MigrationNext]_migrationVars
    PROVE  /\ auth # None /\ auth' # None /\ auth.of = auth'.of => auth'.token >= auth.token
           /\ app # None /\ app' # None /\ app'.acct = app.acct /\ app.id # None /\ app.id.of = app.acct
                => app'.id = app.id
<1>1. auth # None => auth.token \in Nat
  BY FilesTyped, AuthParts DEF MigrationInv
<1>2. CASE UNCHANGED <<app, auth>>
  BY <1>1, <1>2
<1>3. CASE NativeRefresh
  BY <1>3, NativeRefreshStep DEF NativeRefresh
<1>4. ASSUME NEW p \in Proc, PublishFile(p)
      PROVE  /\ auth # None /\ auth' # None /\ auth.of = auth'.of => auth'.token >= auth.token
             /\ app # None /\ app' # None /\ app'.acct = app.acct /\ app.id # None /\ app.id.of = app.acct
                  => app'.id = app.id
  <2>1. /\ app' # app => app = journal.before.app /\ app' = journal.after.app
        /\ auth' # auth => auth = journal.before.auth /\ auth' = journal.after.auth
        /\ Forward(journal.before, journal.after)
    BY <1>4, PublicationForward
  <2>2. auth' # None => auth'.token \in Nat
    <3>1. MigrationInv'
      BY <1>4, PublishStep
    <3>2. auth' \in Auth \cup {None}
      BY <3>1 DEF MigrationInv, MigrationTypeOK
    <3> QED  BY <3>2, AuthParts
  <2> QED  BY <1>1, <2>1, <2>2 DEF Forward
<1> QED  BY <1>2, <1>3, <1>4, WhoWrites

\* No token gives way to an older one of its account, and no account gets a
\* second identifier: the plan is made alone, from what is there, and what a
\* recovery publishes much later still lies ahead of what it replaces.
THEOREM NothingGoesBack == MigrationSpec => NothingRolledBack
<1>1. MigrationInv /\ [MigrationNext]_migrationVars
        => [auth # None /\ auth' # None /\ auth.of = auth'.of => auth'.token >= auth.token]_migrationVars
  BY ForwardStep
<1>2. MigrationInv /\ [MigrationNext]_migrationVars
        => [app # None /\ app' # None /\ app'.acct = app.acct /\ app.id # None /\ app.id.of = app.acct
              => app'.id = app.id]_migrationVars
  BY ForwardStep
<1> QED  BY <1>1, <1>2, MigrationAlways, PTL DEF MigrationSpec, NothingRolledBack, TokensForward, IdKept

-----------------------------------------------------------------------------
(* The login.                                                               *)

Supervised(m) == claude[m] \in {"running", "stopped"}
Starting == {"reload", "preflight", "preflight publish", "project", "launch"}

(* The steps of a session, and what its heartbeat and publisher do in each. *)
PlaceInv(m) ==
    /\ pc[m] \in Starting => claude[m] = "none"
    /\ Supervised(m) => pc[m] = "run" /\ ~lost[m]
    /\ pc[m] \notin {"run", "after", "release"} => ~held[m] /\ ~lost[m] /\ beat[m] = "rest"
    /\ beat[m] # "rest" => held[m] /\ ~lost[m]
    /\ beat[m] = "pause" => claude[m] # "stopped"
    /\ held[m] /\ claude[m] = "running" => beat[m] = "pause"
    /\ pub[m] # "rest" => pc[m] \in {"run", "after"}
    /\ job[m] = "maintain" => /\ ~held[m] /\ ~lost[m] /\ beat[m] = "rest"
                              /\ pc[m] = "run" => pub[m] = "rest"

(* The snapshot of a process is an earlier record, or the record. *)
SnapInv(m) ==
    /\ snap[m].token <= record.token
    /\ snap[m].version <= record.version
    /\ snap[m].version = record.version => snap[m] = record

(* Only the last token is valid.  A login newer than the pool's is that one. *)
TokenInv ==
    /\ valid = {issued}
    /\ record.token <= issued
    /\ record.version = 1 => record = First
    /\ \A m \in Machine : file[m] > record.token => file[m] = issued
    /\ \A m, n \in Machine : file[m] > record.token /\ file[n] > record.token => m = n

(* A candidate was read from the file, which only moves on from it. *)
CandInv(m) ==
    /\ cand[m] <= file[m] \/ file[m] = 0
    /\ cand[m] > record.token => cand[m] <= file[m]

(* Up to the launch, the file is brought to what the pool has. *)
ReadyInv(m) ==
    /\ pc[m] = "preflight publish" => cand[m] = file[m]
    /\ pc[m] = "project" => file[m] <= snap[m].token
    /\ pc[m] = "launch" => file[m] = snap[m].token

(* The lease of a machine that neither sleeps nor stalls. *)
LeaseInv(m) ==
    /\ awake[m]
    /\ \/ claude[m] = "running" \/ beat[m] = "check"
       \/ Supervised(m) /\ pub[m] \in {"refresh", "publish"}
       => lease = m

(* Its login is the last issued, and no other Claude works with that one. *)
Sole(m) ==
    /\ file[m] = issued
    /\ \A n \in Machine \ {m} : claude[n] # "none" => file[n] # issued

(* While it keeps its lease, the login it works with is not behind its own *)
(* snapshot; and one it has not published, nobody else has rotated.        *)
LoginInv(m) ==
    Supervised(m) /\ file[m] # 0 =>
        /\ file[m] >= snap[m].token
        /\ beat[m] = "check" => file[m] >= prior[m]
        /\ pub[m] = "refresh" => Sole(m)
        /\ (~held[m] \/ beat[m] = "pause") /\ file[m] > snap[m].token => Sole(m)

IInv ==
    /\ SessionTypeOK
    /\ \A m \in Machine : PlaceInv(m) /\ SnapInv(m) /\ CandInv(m) /\ ReadyInv(m)
    /\ TokenInv
    /\ LoginKept
    /\ \A m \in Steady : LeaseInv(m) /\ LoginInv(m)

-----------------------------------------------------------------------------
(* What a step of one machine leaves alone.                                 *)

Token == 0..MaxToken
Place == Starting \cup {"idle", "run", "after", "block", "release"}

FunctionsTyped ==
    /\ file \in [Machine -> Token] /\ snap \in [Machine -> Record]
    /\ awake \in [Machine -> BOOLEAN] /\ held \in [Machine -> BOOLEAN]
    /\ lost \in [Machine -> BOOLEAN]
    /\ claude \in [Machine -> {"none", "running", "stopped", "ending"}]
    /\ job \in [Machine -> {"session", "maintain"}]
    /\ pc \in [Machine -> Place]
    /\ beat \in [Machine -> {"rest", "pause", "check"}]
    /\ pub \in [Machine -> {"rest", "refresh", "assert", "publish"}]
    /\ prior \in [Machine -> Token] /\ cand \in [Machine -> Token]

LEMMA Typed ==
    ASSUME SessionTypeOK
    PROVE  FunctionsTyped
  BY DEF SessionTypeOK, FunctionsTyped, Token, Place, Starting

Stays(n) ==
    /\ file'[n] = file[n] /\ snap'[n] = snap[n]
    /\ claude'[n] = claude[n] /\ pc'[n] = pc[n] /\ job'[n] = job[n]
    /\ beat'[n] = beat[n] /\ prior'[n] = prior[n]
    /\ pub'[n] = pub[n] /\ cand'[n] = cand[n]
    /\ awake'[n] = awake[n] /\ held'[n] = held[n] /\ lost'[n] = lost[n]

LEMMA OthersStay ==
    ASSUME SessionTypeOK, NEW m \in Machine, Step(m), NEW n \in Machine \ {m}
    PROVE  Stays(n)
<1> USE DEF Set, Goto, At, provider, heart, publication, pool
<1> USE Typed DEF Stays, FunctionsTyped
<1>1. CASE \/ \E j \in {"session", "maintain"} : Acquire(m, j)
           \/ Reload(m) \/ Preflight(m) \/ Project(m) \/ Launch(m) \/ Abandon(m)
  <2>1. CASE \E j \in {"session", "maintain"} : Acquire(m, j)
    BY <2>1 DEF Acquire
  <2>2. CASE Reload(m)
    BY <2>2 DEF Reload
  <2>3. CASE Preflight(m)
    BY <2>3 DEF Preflight
  <2>4. CASE Project(m)
    BY <2>4 DEF Project
  <2>5. CASE Launch(m)
    BY <2>5 DEF Launch
  <2>6. CASE Abandon(m)
    BY <2>6 DEF Abandon
  <2> QED  BY <1>1, <2>1, <2>2, <2>3, <2>4, <2>5, <2>6
<1>2. CASE PreflightPublish(m)
  BY <1>2 DEF PreflightPublish, PublishTokens
<1>3. CASE Rotate(m) \/ Expire(m) \/ Exit(m) \/ Sleep(m) \/ Wake(m) \/ Lapse(m) \/ Block(m)
  BY <1>3 DEF Rotate, Expire, Exit, Sleep, Wake, Lapse, Block
<1>4. CASE Renewed(m) \/ Contended(m) \/ Unreachable(m) \/ Pause(m)
  BY <1>4 DEF Renewed, Contended, Unreachable, Pause, Lose
<1>5. CASE Resume(m)
  BY <1>5 DEF Resume, Lose
<1>6. CASE Notice(m) \/ AfterRun(m) \/ AfterMaintenance(m)
  BY <1>6 DEF Notice, AfterRun, AfterMaintenance
<1>7. CASE Refresh(m) \/ Reassert(m)
  BY <1>7 DEF Refresh, Reassert, Published
<1>8. CASE Publish(m)
  BY <1>8 DEF Publish, PublishTokens, Published
<1>9. CASE Release(m) \/ AimDies(m)
  BY <1>9 DEF Release, AimDies, Gone
<1> QED
  BY <1>1, <1>2, <1>3, <1>4, <1>5, <1>6, <1>7, <1>8, <1>9 DEF Step

\* A machine takes the lease only when it is free, and frees only its own.
LEMMA LeaseMoves ==
    ASSUME NEW m \in Machine, Step(m)
    PROVE  \/ lease' = lease
           \/ lease' = m /\ lease = Nobody
           \/ lease' = Nobody /\ lease = m
<1> USE DEF Owned, pool
<1>1. CASE \/ \E j \in {"session", "maintain"} : Acquire(m, j)
           \/ Reload(m) \/ Preflight(m) \/ PreflightPublish(m) \/ Project(m) \/ Launch(m)
           \/ Abandon(m)
  BY <1>1 DEF Acquire, Reload, Preflight, PreflightPublish, Project, Launch, Abandon
<1>2. CASE Rotate(m) \/ Expire(m) \/ Exit(m) \/ Sleep(m) \/ Wake(m) \/ Lapse(m) \/ Block(m)
  BY <1>2 DEF Rotate, Expire, Exit, Sleep, Wake, Lapse, Block
<1>3. CASE Renewed(m) \/ Contended(m) \/ Unreachable(m) \/ Pause(m) \/ Resume(m)
  BY <1>3 DEF Renewed, Contended, Unreachable, Pause, Resume
<1>4. CASE \/ Notice(m) \/ AfterRun(m) \/ AfterMaintenance(m) \/ Refresh(m) \/ Reassert(m)
           \/ Publish(m)
  BY <1>4 DEF Notice, AfterRun, AfterMaintenance, Refresh, Reassert, Publish
<1>5. CASE Release(m) \/ AimDies(m)
  BY <1>5 DEF Release, AimDies
<1> QED  BY <1>1, <1>2, <1>3, <1>4, <1>5 DEF Step

\* The record changes only by a publication from the snapshot of the machine.
Writes(m) == PublishTokens(m) \/ Cas(m, [snap[m] EXCEPT !.blocked = TRUE])

LEMMA RecordMoves ==
    ASSUME NEW m \in Machine, Step(m)
    PROVE  \/ UNCHANGED record
           \/ PublishTokens(m) /\ (PreflightPublish(m) \/ Publish(m))
           \/ Cas(m, [snap[m] EXCEPT !.blocked = TRUE]) /\ Block(m)
<1> USE DEF pool
<1>1. CASE \/ \E j \in {"session", "maintain"} : Acquire(m, j)
           \/ Reload(m) \/ Preflight(m) \/ Project(m) \/ Launch(m) \/ Abandon(m)
  BY <1>1 DEF Acquire, Reload, Preflight, Project, Launch, Abandon
<1>2. CASE Rotate(m) \/ Expire(m) \/ Exit(m) \/ Sleep(m) \/ Wake(m) \/ Lapse(m)
  BY <1>2 DEF Rotate, Expire, Exit, Sleep, Wake, Lapse
<1>3. CASE Renewed(m) \/ Contended(m) \/ Unreachable(m) \/ Pause(m) \/ Resume(m)
  BY <1>3 DEF Renewed, Contended, Unreachable, Pause, Resume
<1>4. CASE Notice(m) \/ AfterRun(m) \/ AfterMaintenance(m) \/ Refresh(m) \/ Reassert(m)
  BY <1>4 DEF Notice, AfterRun, AfterMaintenance, Refresh, Reassert
<1>5. CASE Release(m) \/ AimDies(m)
  BY <1>5 DEF Release, AimDies
<1>6. CASE PreflightPublish(m) \/ Publish(m) \/ Block(m)
  BY <1>6 DEF PreflightPublish, Publish, Block
<1> QED  BY <1>1, <1>2, <1>3, <1>4, <1>5, <1>6 DEF Step

\* Only Claude has the provider issue a token.
LEMMA ProviderMoves ==
    ASSUME NEW m \in Machine, Step(m)
    PROVE  UNCHANGED <<valid, issued>> \/ Rotate(m)
<1> USE DEF provider
<1>1. CASE \/ \E j \in {"session", "maintain"} : Acquire(m, j)
           \/ Reload(m) \/ Preflight(m) \/ PreflightPublish(m) \/ Project(m) \/ Launch(m)
           \/ Abandon(m)
  BY <1>1 DEF Acquire, Reload, Preflight, PreflightPublish, Project, Launch, Abandon
<1>2. CASE Expire(m) \/ Exit(m) \/ Sleep(m) \/ Wake(m) \/ Lapse(m) \/ Block(m)
  BY <1>2 DEF Expire, Exit, Sleep, Wake, Lapse, Block
<1>3. CASE Renewed(m) \/ Contended(m) \/ Unreachable(m) \/ Pause(m) \/ Resume(m)
  BY <1>3 DEF Renewed, Contended, Unreachable, Pause, Resume
<1>4. CASE \/ Notice(m) \/ AfterRun(m) \/ AfterMaintenance(m) \/ Refresh(m) \/ Reassert(m)
           \/ Publish(m)
  BY <1>4 DEF Notice, AfterRun, AfterMaintenance, Refresh, Reassert, Publish
<1>5. CASE Release(m) \/ AimDies(m)
  BY <1>5 DEF Release, AimDies
<1> QED  BY <1>1, <1>2, <1>3, <1>4, <1>5 DEF Step

-----------------------------------------------------------------------------
(* What a publication does. *)

LEMMA FirstTyped == First \in Record /\ First.token = 1 /\ First.version = 1 /\ ~First.blocked
  BY ConstantsAssumption DEF First, Record

LEMMA NumbersTyped ==
    ASSUME SessionTypeOK
    PROVE  /\ issued \in Nat /\ record.token \in Nat /\ record.version \in Nat
           /\ record \in Record
           /\ \A m \in Machine :
                 /\ file[m] \in Nat /\ cand[m] \in Nat /\ prior[m] \in Nat
                 /\ snap[m] \in Record
                 /\ snap[m].token \in Nat /\ snap[m].version \in Nat
                 /\ file[m] <= issued /\ cand[m] <= issued
<1>1. \A r \in Record : r.token \in Nat /\ r.version \in Nat
  BY DEF Record
<1>2. record \in Record /\ issued \in Nat
  <2>1. record \in Record /\ issued \in 1..MaxToken
    BY DEF SessionTypeOK
  <2> QED  BY <2>1, ConstantsAssumption
<1>3. \A m \in Machine : file[m] <= issued /\ cand[m] <= issued
  BY DEF SessionTypeOK
<1> QED  BY <1>1, <1>2, <1>3, Typed DEF FunctionsTyped, Token

\* The record that m publishes replaces the one it knows, by a later login.
LEMMA Replaces ==
    ASSUME SessionTypeOK, NEW m \in Machine, SnapInv(m), PublishTokens(m)
    PROVE  /\ snap[m] = record
           /\ record' \in Record
           /\ record'.version = record.version + 1
           /\ record'.token = cand[m] /\ cand[m] > record.token
           /\ record'.blocked = record.blocked
           /\ snap' = [snap EXCEPT ![m] = record'] \/ snap' = snap
<1>1. /\ record.version = snap[m].version /\ cand[m] > snap[m].token
      /\ record.version < MaxVersion
      /\ record' = [[snap[m] EXCEPT !.token = cand[m]] EXCEPT !.version = record.version + 1]
      /\ snap' = [snap EXCEPT ![m] = record'] \/ snap' = snap
  BY DEF PublishTokens, Cas
<1>2. snap[m] = record
  BY <1>1 DEF SnapInv
<1>3. cand[m] \in 1..MaxToken
  BY <1>1, NumbersTyped, Typed DEF FunctionsTyped, Token
<1>4. record.version + 1 \in 1..MaxVersion
  BY <1>1, NumbersTyped, ConstantsAssumption
<1>5. /\ record' \in Record /\ record'.version = record.version + 1
      /\ record'.token = cand[m] /\ record'.blocked = record.blocked
  BY <1>1, <1>2, <1>3, <1>4, NumbersTyped DEF Record
<1> QED  BY <1>1, <1>2, <1>5

LEMMA Marks ==
    ASSUME SessionTypeOK, NEW m \in Machine, SnapInv(m),
           Cas(m, [snap[m] EXCEPT !.blocked = TRUE])
    PROVE  /\ snap[m] = record
           /\ record' \in Record
           /\ record'.version = record.version + 1
           /\ record'.token = record.token
<1>1. /\ record.version = snap[m].version
      /\ record.version < MaxVersion
      /\ record' = [[snap[m] EXCEPT !.blocked = TRUE] EXCEPT !.version = record.version + 1]
  BY DEF Cas
<1>2. snap[m] = record
  BY <1>1 DEF SnapInv
<1>3. record.version + 1 \in 1..MaxVersion
  BY <1>1, NumbersTyped, ConstantsAssumption
<1> QED  BY <1>1, <1>2, <1>3, NumbersTyped DEF Record

\* In every step the record stays, or its version grows and its token does not
\* shrink; a token it did not have before is a candidate of the publisher.
LEMMA RecordGrows ==
    ASSUME SessionTypeOK, NEW m \in Machine, SnapInv(m), Step(m)
    PROVE  \/ UNCHANGED record
           \/ /\ snap[m] = record /\ record' \in Record
              /\ record'.version = record.version + 1
              /\ record'.token = record.token \/ (record'.token = cand[m] /\ cand[m] > record.token)
  BY RecordMoves, Replaces, Marks

-----------------------------------------------------------------------------
(* Every variable keeps to its type. *)

LEMMA FunctionsStep ==
    ASSUME IInv, NEW m \in Machine, Step(m)
    PROVE  FunctionsTyped'
<1> USE DEF Set, Goto, At, provider, heart, publication, pool
<1>a. /\ FunctionsTyped
      /\ record \in Record /\ First \in Record
      /\ 0 \in Token /\ file[m] \in Token /\ \A n \in Machine : snap[n].token \in Token
      /\ Starting \cup {"idle", "run", "after", "block", "release"} \subseteq Place
  <2>1. SessionTypeOK /\ 0 \in Token /\ \A r \in Record : r.token \in Token
    BY ConstantsAssumption DEF IInv, Record, Token
  <2> QED  BY <2>1, Typed, FirstTyped, NumbersTyped DEF Place, FunctionsTyped
<1>r. Rotate(m) => issued + 1 \in Token
  <2>1. Rotate(m) => issued < MaxToken
    BY DEF Rotate
  <2>2. issued \in Nat /\ MaxToken \in Nat
    BY NumbersTyped, ConstantsAssumption DEF IInv
  <2> QED  BY <2>1, <2>2 DEF Token
<1> USE <1>a DEF FunctionsTyped, Starting
<1>1. CASE \E j \in {"session", "maintain"} : Acquire(m, j)
  <2>1. PICK j \in {"session", "maintain"} : Acquire(m, j)
    BY <1>1
  <2>2. /\ pc' = [pc EXCEPT ![m] = "reload"] /\ "reload" \in Place
        /\ job' = [job EXCEPT ![m] = j] /\ j \in {"session", "maintain"}
    BY <2>1 DEF Acquire
  <2>3. pc' \in [Machine -> Place] /\ job' \in [Machine -> {"session", "maintain"}]
    BY <2>2
  <2>4. UNCHANGED <<file, awake, claude, snap, heart, publication>>
    BY <2>1 DEF Acquire
  <2> QED  BY <2>3, <2>4
<1>2. CASE Reload(m)
  BY <1>2 DEF Reload
<1>3. CASE Preflight(m)
  BY <1>3 DEF Preflight
<1>4. CASE PreflightPublish(m)
  <2>1. snap' \in [Machine -> Record]
    <3>1. CASE PublishTokens(m)
      BY <3>1, Replaces DEF IInv
    <3> QED  BY <1>4, <3>1 DEF PreflightPublish
  <2> QED  BY <1>4, <2>1 DEF PreflightPublish
<1>5. CASE Project(m) \/ Launch(m) \/ Abandon(m)
  <2>1. CASE Project(m)
    BY <2>1 DEF Project
  <2>2. CASE Launch(m)
    BY <2>2 DEF Launch
  <2>3. CASE Abandon(m)
    BY <2>3 DEF Abandon
  <2> QED  BY <1>5, <2>1, <2>2, <2>3
<1>6. CASE Rotate(m)
  BY <1>6, <1>r DEF Rotate
<1>7. CASE Expire(m) \/ Exit(m)
  BY <1>7 DEF Expire, Exit
<1>8. CASE Sleep(m) \/ Wake(m) \/ Lapse(m) \/ Block(m)
  BY <1>8 DEF Sleep, Wake, Lapse, Block
<1>9. CASE Renewed(m)
  BY <1>9 DEF Renewed
<1>10. CASE Contended(m)
  BY <1>10 DEF Contended, Lose
<1>11. CASE Unreachable(m)
  BY <1>11 DEF Unreachable
<1>12. CASE Pause(m)
  BY <1>12 DEF Pause, Lose
<1>13. CASE Resume(m)
  BY ZenonT(40), <1>13 DEF Resume, Lose
<1>14. CASE Notice(m)
  BY <1>14 DEF Notice
<1>15. CASE AfterRun(m)
  <2>1. CASE Candidate(m)
    BY <1>15, <2>1 DEF AfterRun
  <2>2. CASE ~Candidate(m)
    BY <1>15, <2>2 DEF AfterRun
  <2> QED  BY <2>1, <2>2
<1>16. CASE AfterMaintenance(m)
  <2>1. CASE Goto(m, "after")
    BY <1>16, <2>1 DEF AfterMaintenance
  <2>2. CASE ~Goto(m, "after")
    BY <1>16, <2>2 DEF AfterMaintenance
  <2> QED  BY <2>1, <2>2
<1>17. CASE Refresh(m)
  <2>1. CASE UNCHANGED <<snap, cand, pc>> /\ pub' = [pub EXCEPT ![m] = "assert"]
    BY <1>17, <2>1 DEF Refresh
  <2>2. CASE Set(snap, m, record) /\ file[m] > record.token
    BY <1>17, <2>2 DEF Refresh
  <2>3. CASE Set(snap, m, record) /\ Published(m)
    BY <1>17, <2>3 DEF Refresh, Published
  <2> QED  BY <1>17, <2>1, <2>2, <2>3 DEF Refresh
<1>18. CASE Reassert(m)
  <2>1. CASE pub' = [pub EXCEPT ![m] = "publish"] /\ UNCHANGED <<cand, pc>>
    BY <1>18, <2>1 DEF Reassert
  <2>2. CASE Published(m)
    BY <1>18, <2>2 DEF Reassert, Published
  <2> QED  BY <1>18, <2>1, <2>2 DEF Reassert
<1>19. CASE Publish(m)
  <2>1. snap' \in [Machine -> Record]
    <3>1. CASE PublishTokens(m)
      BY <3>1, Replaces DEF IInv
    <3> QED  BY <1>19, <3>1 DEF Publish
  <2> QED  BY <1>19, <2>1 DEF Publish, Published
<1>20. CASE Release(m)
  BY <1>20 DEF Release, Gone
<1>21. CASE AimDies(m)
  BY <1>21 DEF AimDies, Gone
<1> QED
  BY <1>1, <1>2, <1>3, <1>4, <1>5, <1>6, <1>7, <1>8, <1>9, <1>10, <1>11, <1>12, <1>13,
     <1>14, <1>15, <1>16, <1>17, <1>18, <1>19, <1>20, <1>21 DEF Step

\* The clause of the type invariant about one machine.
Bound(m) ==
    /\ file[m] <= issued /\ cand[m] <= issued
    /\ cand[m] = 0 <=> pub[m] = "rest" /\ pc[m] # "preflight publish"
    /\ prior[m] = 0 <=> beat[m] # "check"
    /\ claude[m] = "stopped" => held[m]

LEMMA BoundStep ==
    ASSUME IInv, NEW m \in Machine, Step(m)
    PROVE  Bound(m)'
<1> USE DEF Set, Goto, At, provider, heart, publication, pool
<1>a. FunctionsTyped /\ Bound(m) /\ PlaceInv(m)
  BY Typed DEF IInv, SessionTypeOK, Bound
<1>b. /\ issued \in Nat /\ 0 <= issued /\ record.token <= issued
      /\ file[m] \in Nat /\ cand[m] \in Nat /\ snap[m].token \in Nat /\ snap[m].token <= issued
      /\ record.token # 0 /\ snap[m].token # 0
  <2>1. \A r \in Record : r.token # 0
    BY DEF Record
  <2>2. snap[m].token <= record.token /\ record.token <= issued
    BY DEF IInv, SnapInv, TokenInv
  <2> QED  BY <2>1, <2>2, NumbersTyped DEF IInv
<1>c. /\ Candidate(m) => file[m] # 0
      /\ file[m] > record.token => file[m] # 0
      /\ cand[m] <= issued + 1 /\ issued + 1 <= issued + 1
      /\ 0 <= issued /\ snap[m].token <= issued /\ snap[m].token # 0
  <2>1. \A x, y \in Nat : x > y => x # 0
    OBVIOUS
  <2>2. record.token \in Nat /\ cand[m] <= issued
    BY <1>a, NumbersTyped DEF Bound, IInv
  <2>3. \A x, y \in Nat : x <= y => x <= y + 1 /\ x <= x
    OBVIOUS
  <2> QED  BY <1>b, <2>1, <2>2, <2>3 DEF Candidate
<1> USE <1>a, <1>c DEF FunctionsTyped, Bound, PlaceInv
<1>1. CASE \E j \in {"session", "maintain"} : Acquire(m, j)
  BY <1>1 DEF Acquire
<1>2. CASE Reload(m)
  BY <1>2 DEF Reload
<1>3. CASE Preflight(m)
  <2>1. /\ UNCHANGED <<file, issued, pub, prior, beat, claude, held>>
        /\ pc[m] = "preflight"
        /\ \/ cand' = cand /\ pc' = [pc EXCEPT ![m] = "project"]
           \/ /\ cand' = [cand EXCEPT ![m] = file[m]] /\ Candidate(m)
              /\ pc' = [pc EXCEPT ![m] = "preflight publish"]
    BY <1>3 DEF Preflight
  <2>3. pub[m] = "rest"
    BY <2>1 DEF Starting
  <2>4. CASE cand' = cand
    BY <2>1, <2>3, <2>4
  <2>5. CASE cand' # cand
    BY <2>1, <2>3, <2>5
  <2> QED  BY <2>4, <2>5
<1>4. CASE PreflightPublish(m)
  BY <1>4 DEF PreflightPublish
<1>5. CASE Project(m)
  BY <1>5 DEF Project
<1>6. CASE Launch(m)
  BY <1>6 DEF Launch
<1>7. CASE Abandon(m)
  BY <1>7 DEF Abandon
<1>8. CASE Rotate(m)
  <2>1. /\ UNCHANGED <<cand, pub, pc, prior, beat, claude, held>>
        /\ file'[m] = issued + 1 /\ issued' = issued + 1
    BY <1>8 DEF Rotate
  <2> QED  BY <2>1
<1>9. CASE Expire(m)
  BY <1>9 DEF Expire
<1>10. CASE Exit(m)
  BY <1>10 DEF Exit
<1>11. CASE Sleep(m)
  BY <1>11 DEF Sleep
<1>12. CASE Wake(m)
  BY <1>12 DEF Wake
<1>13. CASE Lapse(m)
  BY <1>13 DEF Lapse
<1>14. CASE Block(m)
  BY <1>14 DEF Block
<1>15. CASE Renewed(m)
  BY <1>15 DEF Renewed, Beating
<1>16. CASE Contended(m)
  BY <1>16 DEF Contended, Lose, Beating
<1>17. CASE Unreachable(m)
  BY <1>17 DEF Unreachable, Beating
<1>18. CASE Pause(m)
  BY <1>18 DEF Pause, Lose
<1>19. CASE Resume(m)
  BY <1>19 DEF Resume, Lose
<1>20. CASE Notice(m)
  BY <1>20 DEF Notice
<1>21. CASE AfterRun(m)
  <2>1. /\ UNCHANGED <<file, issued, prior, beat, claude, held>>
        /\ pub[m] = "rest" /\ pc[m] = "run" /\ pc'[m] \in {"after", "release"}
        /\ \/ cand'[m] = file[m] /\ pub'[m] = "refresh" /\ file[m] # 0
           \/ cand' = cand /\ pub' = pub
    BY <1>21 DEF AfterRun
  <2> QED  BY <2>1
<1>22. CASE AfterMaintenance(m)
  <2>1. /\ UNCHANGED <<file, issued, prior, beat, claude, held>>
        /\ pc[m] = "run" /\ pc'[m] \in {"after", "block", "release"}
        /\ \/ cand'[m] = file[m] /\ pub'[m] = "publish" /\ file[m] # 0
           \/ cand' = cand /\ pub' = pub
    BY <1>22 DEF AfterMaintenance
  <2> QED  BY <2>1
<1>23. CASE Refresh(m)
  <2>1. /\ UNCHANGED <<file, issued, prior, beat, claude, held>>
        /\ pub[m] = "refresh"
        /\ \/ cand' = cand /\ pc' = pc /\ pub'[m] = "assert"
           \/ cand'[m] = file[m] /\ pc' = pc /\ pub'[m] = "assert" /\ file[m] > record.token
           \/ cand'[m] = 0 /\ pub'[m] = "rest" /\ pc'[m] \in {pc[m], "release"}
    BY <1>23 DEF Refresh, Published
  <2>2. pc[m] \in {"run", "after"}
    BY <2>1
  <2>3. file'[m] <= issued' /\ cand'[m] <= issued'
    BY <2>1
  <2> QED  BY <2>1, <2>2, <2>3
<1>24. CASE Reassert(m)
  BY <1>24 DEF Reassert, Published
<1>25. CASE Publish(m)
  BY <1>25 DEF Publish, Published
<1>26. CASE Release(m)
  <2>1. /\ UNCHANGED <<file, issued, claude>>
        /\ cand'[m] = 0 /\ prior'[m] = 0
        /\ pub'[m] = "rest" /\ beat'[m] = "rest" /\ pc'[m] = "idle"
        /\ claude[m] # "stopped"
    BY <1>26 DEF Release, Gone, Supervised
  <2> QED  BY <2>1
<1>27. CASE AimDies(m)
  BY <1>27 DEF AimDies, Gone
<1> QED
  BY <1>1, <1>2, <1>3, <1>4, <1>5, <1>6, <1>7, <1>8, <1>9, <1>10, <1>11, <1>12, <1>13,
     <1>14, <1>15, <1>16, <1>17, <1>18, <1>19, <1>20, <1>21, <1>22, <1>23, <1>24, <1>25,
     <1>26, <1>27 DEF Step

-----------------------------------------------------------------------------
(* The steps of one machine, its snapshot and its file. *)

LEMMA PlaceStep ==
    ASSUME IInv, NEW m \in Machine, Step(m)
    PROVE  PlaceInv(m)'
<1> USE DEF Set, Goto, At, provider, heart, publication, pool
<1>a. FunctionsTyped /\ Bound(m) /\ PlaceInv(m)
  BY Typed DEF IInv, SessionTypeOK, Bound
<1>b. Refresh(m) => \/ pc'[m] = pc[m]
                    \/ pc[m] = "after" /\ pc'[m] = "release" /\ pub'[m] = "rest"
  <2>1. pc \in [Machine -> Place] /\ pub \in [Machine -> {"rest", "refresh", "assert", "publish"}]
    BY <1>a DEF FunctionsTyped
  <2> QED  BY ZenonT(40), <2>1 DEF Refresh, Published
<1> USE <1>a DEF FunctionsTyped, Bound, PlaceInv, Supervised, Starting
<1>1. CASE \E j \in {"session", "maintain"} : Acquire(m, j)
  BY <1>1 DEF Acquire
<1>2. CASE Reload(m)
  BY <1>2 DEF Reload
<1>3. CASE Preflight(m)
  BY <1>3 DEF Preflight
<1>4. CASE PreflightPublish(m)
  BY <1>4 DEF PreflightPublish
<1>5. CASE Project(m)
  BY <1>5 DEF Project
<1>6. CASE Launch(m)
  BY <1>6 DEF Launch
<1>7. CASE Abandon(m)
  BY <1>7 DEF Abandon
<1>8. CASE Sleep(m) \/ Wake(m) \/ Lapse(m) \/ Rotate(m) \/ Expire(m) \/ Exit(m)
  BY <1>8 DEF Sleep, Wake, Lapse, Rotate, Expire, Exit
<1>9. CASE Block(m)
  BY <1>9 DEF Block
<1>10. CASE Renewed(m)
  BY <1>10 DEF Renewed, Beating
<1>11. CASE Contended(m)
  BY <1>11 DEF Contended, Lose, Beating
<1>12. CASE Unreachable(m)
  BY <1>12 DEF Unreachable, Beating
<1>13. CASE Pause(m)
  BY <1>13 DEF Pause, Lose
<1>14. CASE Resume(m)
  BY <1>14 DEF Resume, Lose
<1>15. CASE Notice(m)
  BY <1>15 DEF Notice, Beating
<1>16. CASE AfterRun(m)
  BY <1>16 DEF AfterRun
<1>17. CASE AfterMaintenance(m)
  BY <1>17 DEF AfterMaintenance
<1>18. CASE Refresh(m)
  <2>1. /\ UNCHANGED <<held, lost, beat, claude, job>>
        /\ pub[m] = "refresh"
    BY <1>18 DEF Refresh
  <2>2. CASE pc'[m] = pc[m]
    BY <2>1, <2>2
  <2>3. CASE pc[m] = "after" /\ pc'[m] = "release" /\ pub'[m] = "rest"
    BY <2>1, <2>3 DEF Starting
  <2> QED  BY <1>18, <1>b, <2>2, <2>3
<1>19. CASE Reassert(m)
  BY <1>19 DEF Reassert, Published
<1>20. CASE Publish(m)
  BY <1>20 DEF Publish, Published
<1>21. CASE Release(m)
  BY <1>21 DEF Release, Gone
<1>22. CASE AimDies(m)
  BY <1>22 DEF AimDies, Gone
<1> QED
  BY <1>1, <1>2, <1>3, <1>4, <1>5, <1>6, <1>7, <1>8, <1>9, <1>10, <1>11, <1>12, <1>13,
     <1>14, <1>15, <1>16, <1>17, <1>18, <1>19, <1>20, <1>21, <1>22 DEF Step

\* A snapshot is taken of the record, or lost with the process.
LEMMA SnapMoves ==
    ASSUME SessionTypeOK, NEW m \in Machine, Step(m)
    PROVE  snap'[m] \in {snap[m], First, record'}
<1> USE DEF Set, Goto, At, provider, heart, publication, pool
<1> USE Typed DEF FunctionsTyped
<1>1. CASE \/ (\E j \in {"session", "maintain"} : Acquire(m, j)) \/ Preflight(m)
           \/ Project(m) \/ Launch(m) \/ Abandon(m)
  BY <1>1 DEF Acquire, Preflight, Project, Launch, Abandon
<1>2. CASE Reload(m)
  BY <1>2 DEF Reload
<1>3. CASE PreflightPublish(m)
  BY <1>3 DEF PreflightPublish, PublishTokens
<1>4. CASE \/ Rotate(m) \/ Expire(m) \/ Exit(m) \/ Sleep(m) \/ Wake(m) \/ Lapse(m)
           \/ Block(m)
  BY <1>4 DEF Rotate, Expire, Exit, Sleep, Wake, Lapse, Block
<1>5. CASE Renewed(m) \/ Contended(m) \/ Unreachable(m) \/ Pause(m)
  BY <1>5 DEF Renewed, Contended, Lose, Unreachable, Pause
<1>6. CASE Resume(m)
  BY <1>6 DEF Resume, Lose
<1>7. CASE Notice(m) \/ AfterRun(m) \/ AfterMaintenance(m) \/ Reassert(m)
  BY <1>7 DEF Notice, AfterRun, AfterMaintenance, Reassert, Published
<1>8. CASE Refresh(m)
  BY <1>8 DEF Refresh, Published
<1>9. CASE Publish(m)
  BY <1>9 DEF Publish, PublishTokens
<1>10. CASE Release(m) \/ AimDies(m)
  BY <1>10 DEF Release, Gone, AimDies
<1> QED
  BY <1>1, <1>2, <1>3, <1>4, <1>5, <1>6, <1>7, <1>8, <1>9, <1>10 DEF Step

\* The file changes only by Claude, or by the projection before it.
LEMMA FileMoves ==
    ASSUME NEW m \in Machine, Step(m)
    PROVE  UNCHANGED file \/ Rotate(m) \/ Expire(m) \/ Project(m)
<1>1. CASE \/ (\E j \in {"session", "maintain"} : Acquire(m, j)) \/ Reload(m)
           \/ Preflight(m) \/ PreflightPublish(m) \/ Launch(m) \/ Abandon(m)
  BY <1>1 DEF Acquire, Reload, Preflight, PreflightPublish, Launch, Abandon
<1>2. CASE Rotate(m) \/ Expire(m) \/ Project(m)
  BY <1>2 DEF Rotate, Expire, Project
<1>3. CASE Exit(m) \/ Sleep(m) \/ Wake(m) \/ Lapse(m) \/ Block(m)
  BY <1>3 DEF Exit, Sleep, Wake, Lapse, Block
<1>4. CASE Renewed(m) \/ Contended(m) \/ Unreachable(m) \/ Pause(m) \/ Resume(m)
  BY <1>4 DEF Renewed, Contended, Unreachable, Pause, Resume
<1>5. CASE \/ Notice(m) \/ AfterRun(m) \/ AfterMaintenance(m) \/ Refresh(m)
           \/ Reassert(m) \/ Publish(m)
  BY <1>5 DEF Notice, AfterRun, AfterMaintenance, Refresh, Reassert, Publish
<1>6. CASE Release(m) \/ AimDies(m)
  BY <1>6 DEF Release, AimDies
<1> QED
  BY <1>1, <1>2, <1>3, <1>4, <1>5, <1>6 DEF Step

\* Claude is started only by the launch.
LEMMA ClaudeMoves ==
    ASSUME SessionTypeOK, NEW m \in Machine, Step(m)
    PROVE  claude'[m] # "none" => claude[m] # "none" \/ Launch(m)
<1> USE Typed DEF FunctionsTyped, Set
<1>1. CASE \/ (\E j \in {"session", "maintain"} : Acquire(m, j)) \/ Reload(m)
           \/ Preflight(m) \/ PreflightPublish(m) \/ Project(m) \/ Abandon(m)
  BY <1>1 DEF Acquire, Reload, Preflight, PreflightPublish, Project, Abandon
<1>2. CASE Launch(m)
  BY <1>2
<1>3. CASE Rotate(m) \/ Expire(m) \/ Sleep(m) \/ Wake(m) \/ Lapse(m) \/ Block(m)
  BY <1>3 DEF Rotate, Expire, Sleep, Wake, Lapse, Block
<1>4. CASE Exit(m)
  BY <1>4 DEF Exit
<1>5. CASE Renewed(m) \/ Unreachable(m)
  BY <1>5 DEF Renewed, Unreachable
<1>6. CASE Contended(m) \/ Pause(m)
  BY <1>6 DEF Contended, Lose, Pause
<1>7. CASE Resume(m)
  BY <1>7 DEF Resume, Lose
<1>8. CASE \/ Notice(m) \/ AfterRun(m) \/ AfterMaintenance(m) \/ Refresh(m)
           \/ Reassert(m) \/ Publish(m)
  BY <1>8 DEF Notice, AfterRun, AfterMaintenance, Refresh, Reassert, Publish
<1>9. CASE Release(m) \/ AimDies(m)
  BY <1>9 DEF Release, AimDies
<1> QED
  BY <1>1, <1>2, <1>3, <1>4, <1>5, <1>6, <1>7, <1>8, <1>9 DEF Step

LEMMA TypeStep ==
    ASSUME IInv, NEW m \in Machine, Step(m)
    PROVE  SessionTypeOK'
<1>a. /\ SessionTypeOK /\ TokenInv
      /\ issued \in 1..MaxToken /\ issued \in Nat /\ valid \subseteq 1..issued
  BY NumbersTyped DEF IInv, SessionTypeOK
<1>1. record' \in Record
  <2>1. record \in Record /\ SnapInv(m)
    BY DEF IInv, SessionTypeOK
  <2> QED  BY <1>a, <2>1, RecordGrows
<1>2. lease' \in Machine \cup {Nobody}
  BY <1>a, LeaseMoves DEF SessionTypeOK
<1>3. issued' \in 1..MaxToken /\ issued <= issued' /\ valid' \subseteq 1..issued'
  <2>1. CASE UNCHANGED <<valid, issued>>
    BY <1>a, <2>1
  <2>2. CASE Rotate(m)
    <3>1. /\ issued' = issued + 1 /\ issued < MaxToken
          /\ valid' \subseteq valid \cup {issued + 1}
      BY <2>2 DEF Rotate
    <3>2. valid = {issued}
      BY <1>a DEF TokenInv
    <3> QED  BY <1>a, <3>1, <3>2, ConstantsAssumption
  <2> QED  BY <2>1, <2>2, ProviderMoves
<1>4. \A n \in Machine : Bound(n)'
  <2>1. ASSUME NEW n \in Machine \ {m} PROVE Bound(n)'
    <3>1. Stays(n)
      BY <1>a, OthersStay
    <3>2. Bound(n) /\ file[n] \in Nat /\ cand[n] \in Nat
      BY <1>a, NumbersTyped DEF SessionTypeOK, Bound
    <3>3. file'[n] <= issued' /\ cand'[n] <= issued'
      <4>1. issued' \in Nat
        BY <1>3
      <4>2. \A k \in Nat : k <= issued => k <= issued'
        BY <1>a, <1>3, <4>1
      <4> QED  BY <3>1, <3>2, <4>2 DEF Stays, Bound
    <3> QED  BY <3>1, <3>2, <3>3 DEF Stays, Bound
  <2> QED  BY <2>1, BoundStep
<1>5. FunctionsTyped'
  BY FunctionsStep
<1> HIDE DEF Record
<1> QED
  BY <1>1, <1>2, <1>3, <1>4, <1>5
  DEF SessionTypeOK, FunctionsTyped, Bound, Token, Place, Starting

LEMMA SnapStep ==
    ASSUME IInv, NEW m \in Machine, Step(m), NEW n \in Machine
    PROVE  SnapInv(n)'
<1>a. /\ SessionTypeOK /\ SnapInv(m) /\ SnapInv(n)
      /\ record.version = 1 => record = First
  BY DEF IInv, TokenInv
<1>b. /\ record \in Record /\ record' \in Record /\ snap[n] \in Record
      /\ snap'[n] \in {snap[n], First, record'}
  <2>1. snap'[n] \in {snap[n], First, record'}
    BY <1>a, SnapMoves, OthersStay DEF Stays
  <2>2. record' \in Record
    BY TypeStep DEF SessionTypeOK
  <2> QED  BY <1>a, <2>1, <2>2, NumbersTyped
<1>c. \A r \in Record : r.token \in Nat /\ r.version \in Nat /\ 1 <= r.token /\ 1 <= r.version
  BY DEF Record
<1>d. \/ record' = record
      \/ record'.version = record.version + 1 /\ record'.token >= record.token
  <2>1. cand[m] \in Nat
    BY <1>a, NumbersTyped
  <2> QED  BY <1>a, <1>b, <1>c, <2>1, RecordGrows
<1>1. CASE snap'[n] = snap[n]
  <2>1. snap[n].token <= record'.token /\ snap[n].version <= record'.version
    BY <1>a, <1>b, <1>c, <1>d DEF SnapInv
  <2>2. snap[n].version = record'.version => snap[n] = record'
    BY <1>a, <1>b, <1>c, <1>d DEF SnapInv
  <2> QED  BY <1>1, <2>1, <2>2 DEF SnapInv
<1>2. CASE snap'[n] = First
  <2>1. First.token = 1 /\ First.version = 1
    BY FirstTyped
  <2>2. record'.version = 1 => record' = First
    BY <1>a, <1>b, <1>c, <1>d
  <2> QED  BY <1>2, <1>b, <1>c, <2>1, <2>2 DEF SnapInv
<1>3. CASE snap'[n] = record'
  BY <1>3, <1>b, <1>c DEF SnapInv
<1> QED  BY <1>b, <1>1, <1>2, <1>3

\* What is valid, and which files hold it.
LEMMA TokenStep ==
    ASSUME IInv, NEW m \in Machine, Step(m)
    PROVE  TokenInv'
<1>a. /\ SessionTypeOK /\ TokenInv /\ SnapInv(m)
      /\ issued \in Nat /\ record.token \in Nat /\ record.version \in Nat
      /\ cand[m] \in Nat /\ cand[m] <= issued
      /\ \A n \in Machine : file[n] \in Nat /\ file[n] <= issued
      /\ file \in [Machine -> Token]
  BY NumbersTyped, Typed DEF IInv, FunctionsTyped
<1>b. /\ record'.token \in Nat /\ record'.token >= record.token /\ record'.token <= issued
      /\ record' = record \/ record'.version = record.version + 1
  BY <1>a, RecordGrows DEF TokenInv
<1>c. record'.version = 1 => record' = First
  <2>1. record.version >= 1
    BY <1>a, NumbersTyped DEF Record
  <2> QED  BY <1>a, <1>b, <2>1 DEF TokenInv
<1>1. CASE Rotate(m)
  <2>1. /\ file' = [file EXCEPT ![m] = issued + 1] /\ issued' = issued + 1
        /\ valid' = (valid \ {file[m]}) \cup {issued + 1} /\ record' = record
        /\ file[m] = issued
    BY <1>1, <1>a DEF Rotate, Set, pool, TokenInv
  <2>2. valid' = {issued'}
    BY <1>a, <2>1 DEF TokenInv
  <2>3. \A n \in Machine \ {m} : file'[n] = file[n]
    BY <1>a, <2>1
  <2>4. ASSUME NEW n \in Machine, file'[n] > record'.token PROVE n = m
    <3>1. CASE n # m
      <4>1. file[n] > record.token
        BY <2>1, <2>3, <2>4, <3>1
      <4>2. file[m] > record.token
        BY <4>1, <2>1, <1>a
      <4> QED  BY <4>1, <4>2, <3>1, <1>a DEF TokenInv
    <3> QED  BY <3>1
  <2>5. file'[m] = issued'
    BY <2>1, <1>a
  <2>6. record'.token <= issued'
    BY <2>1, <1>a, <1>b
  <2> QED  BY <1>c, <2>2, <2>4, <2>5, <2>6 DEF TokenInv
<1>2. CASE UNCHANGED <<valid, issued>>
  <2>1. ASSUME NEW n \in Machine, file'[n] > record'.token
        PROVE  file'[n] = file[n] /\ file[n] > record.token
    <3>1. CASE UNCHANGED file
      BY <3>1, <2>1, <1>a, <1>b
    <3>2. CASE Rotate(m)
      BY <3>2, <1>2, <1>a DEF Rotate
    <3>3. CASE Expire(m)
      <4>1. file' = [file EXCEPT ![m] = 0]
        BY <3>3 DEF Expire, Set
      <4>2. CASE n = m
        BY <4>1, <4>2, <2>1, <1>a, <1>b
      <4>3. CASE n # m
        BY <4>1, <4>3, <2>1, <1>a, <1>b
      <4> QED  BY <4>2, <4>3
    <3>4. CASE Project(m)
      <4>1. /\ file' = [file EXCEPT ![m] = file[m]] \/ file' = [file EXCEPT ![m] = snap[m].token]
            /\ snap[m].token <= record.token /\ snap[m].token \in Nat
        BY <3>4, <1>a, NumbersTyped DEF Project, Set, SnapInv
      <4>2. CASE n = m
        BY <4>1, <4>2, <2>1, <1>a, <1>b
      <4>3. CASE n # m
        BY <4>1, <4>3, <2>1, <1>a, <1>b
      <4> QED  BY <4>2, <4>3
    <3> QED  BY <3>1, <3>2, <3>3, <3>4, FileMoves
  <2> QED  BY <1>2, <1>a, <1>b, <1>c, <2>1 DEF TokenInv
<1> QED  BY <1>1, <1>2, ProviderMoves

-----------------------------------------------------------------------------
(* The candidate of a publication, and the file before a launch. *)

LEMMA CandMoves ==
    ASSUME SessionTypeOK, NEW m \in Machine, Step(m)
    PROVE  cand'[m] \in {0, cand[m], file[m]}
<1> USE DEF Set, Goto, At, provider, heart, publication, pool
<1> USE Typed DEF FunctionsTyped
<1>1. CASE \/ (\E j \in {"session", "maintain"} : Acquire(m, j)) \/ Reload(m)
           \/ Project(m) \/ Launch(m)
  BY <1>1 DEF Acquire, Reload, Project, Launch
<1>2. CASE Preflight(m)
  BY <1>2 DEF Preflight
<1>3. CASE PreflightPublish(m) \/ Abandon(m)
  BY <1>3 DEF PreflightPublish, Abandon
<1>4. CASE \/ Rotate(m) \/ Expire(m) \/ Exit(m) \/ Sleep(m) \/ Wake(m) \/ Lapse(m)
           \/ Block(m)
  BY <1>4 DEF Rotate, Expire, Exit, Sleep, Wake, Lapse, Block
<1>5. CASE Renewed(m) \/ Contended(m) \/ Unreachable(m) \/ Pause(m) \/ Resume(m)
  BY <1>5 DEF Renewed, Contended, Unreachable, Pause, Resume
<1>6. CASE Notice(m)
  BY <1>6 DEF Notice
<1>7. CASE AfterRun(m)
  BY <1>7 DEF AfterRun
<1>8. CASE AfterMaintenance(m)
  BY <1>8 DEF AfterMaintenance
<1>9. CASE Refresh(m)
  BY <1>9 DEF Refresh, Published
<1>10. CASE Reassert(m)
  BY <1>10 DEF Reassert, Published
<1>11. CASE Publish(m)
  BY <1>11 DEF Publish, Published
<1>12. CASE Release(m) \/ AimDies(m)
  BY <1>12 DEF Release, Gone, AimDies
<1> QED
  BY <1>1, <1>2, <1>3, <1>4, <1>5, <1>6, <1>7, <1>8, <1>9, <1>10, <1>11, <1>12 DEF Step

LEMMA CandStep ==
    ASSUME IInv, NEW m \in Machine, Step(m), NEW n \in Machine
    PROVE  CandInv(n)'
<1>a. /\ SessionTypeOK /\ TokenInv /\ SnapInv(m) /\ PlaceInv(m) /\ CandInv(n)
      /\ issued \in Nat /\ record.token \in Nat /\ cand[n] \in Nat /\ file[n] \in Nat
      /\ cand[n] <= issued /\ cand[m] \in Nat
  BY NumbersTyped DEF IInv
<1>b. record'.token \in Nat /\ record'.token >= record.token
  BY <1>a, RecordGrows
<1>1. CASE file'[n] = file[n] /\ cand'[n] \in {0, cand[n], file[n]}
  <2>1. cand'[n] <= file[n] \/ cand'[n] = cand[n]
    BY <1>1, <1>a
  <2>2. cand[n] <= file[n] \/ file[n] = 0
    BY <1>a DEF CandInv
  <2>3. cand[n] > record'.token => cand[n] <= file[n]
    BY <1>a, <1>b DEF CandInv
  <2> QED  BY <1>1, <2>1, <2>2, <2>3 DEF CandInv
<1>2. CASE n # m
  BY <1>a, <1>1, <1>2, OthersStay DEF Stays
<1>3. CASE n = m /\ UNCHANGED file
  BY <1>a, <1>1, <1>3, CandMoves
<1>4. CASE n = m /\ Rotate(m)
  <2>1. file[n] = issued /\ file'[n] = issued + 1 /\ cand'[n] = cand[n]
    BY <1>4, <1>a, Typed DEF Rotate, Set, publication, TokenInv, FunctionsTyped
  <2>2. cand'[n] <= file'[n]
    BY <1>a, <2>1
  <2> QED  BY <2>2 DEF CandInv
<1>5. CASE n = m /\ Expire(m)
  <2>1. file[n] # issued /\ file'[n] = 0 /\ cand'[n] = cand[n] /\ record' = record
    BY <1>5, <1>a, Typed DEF Expire, Set, publication, pool, TokenInv, FunctionsTyped
  <2>2. ~(cand[n] > record.token)
    BY <2>1, <1>a DEF CandInv, TokenInv
  <2> QED  BY <2>1, <2>2 DEF CandInv
<1>6. CASE n = m /\ Project(m)
  <2>1. cand'[n] = cand[n] /\ pc[n] = "project"
    BY <1>6 DEF Project, At, publication
  <2>2. pub[n] = "rest"
    BY <1>a, <1>6, <2>1 DEF PlaceInv
  <2>3. cand[n] = 0
    BY <2>1, <2>2, <1>a DEF SessionTypeOK
  <2>4. file'[n] \in Nat
    BY FunctionsStep, <1>6, ConstantsAssumption DEF FunctionsTyped, Token
  <2> QED  BY <2>1, <2>3, <2>4, <1>b DEF CandInv
<1> QED  BY <1>2, <1>3, <1>4, <1>5, <1>6, FileMoves

LEMMA ReadyStep ==
    ASSUME IInv, NEW m \in Machine, Step(m)
    PROVE  ReadyInv(m)'
<1> USE DEF Set, Goto, At, provider, heart, publication, pool
<1>a. FunctionsTyped /\ PlaceInv(m) /\ ReadyInv(m)
  BY Typed DEF IInv
<1>b. /\ ~Candidate(m) => file[m] <= snap[m].token
      /\ \A k \in Nat : k <= k
      /\ file[m] \in Nat /\ snap[m].token \in Nat
  BY NumbersTyped DEF IInv, Candidate
<1> USE <1>a DEF FunctionsTyped, PlaceInv, ReadyInv, Starting
<1>1. CASE \/ (\E j \in {"session", "maintain"} : Acquire(m, j)) \/ Reload(m)
           \/ Launch(m) \/ Abandon(m)
  BY <1>1 DEF Acquire, Reload, Launch, Abandon
<1>2. CASE Preflight(m)
  BY <1>2, <1>b DEF Preflight
<1>3. CASE PreflightPublish(m)
  <2>1. UNCHANGED file /\ pc[m] = "preflight publish" /\ pc'[m] \in {"project", "release"}
    BY <1>3 DEF PreflightPublish
  <2>2. CASE pc'[m] = "project"
    <3>1. PublishTokens(m) /\ snap'[m] = record'
      BY <1>3, <2>1, <2>2 DEF PreflightPublish
    <3>2. record'.token = cand[m]
      BY <3>1, Replaces DEF IInv
    <3> QED  BY <2>1, <2>2, <3>1, <3>2, <1>b
  <2> QED  BY <2>1, <2>2
<1>4. CASE Project(m)
  <2>1. pc[m] = "project" /\ UNCHANGED snap /\ pc'[m] = "launch"
    BY <1>4 DEF Project
  <2>2. ~Candidate(m)
    BY <2>1, <1>b DEF Candidate
  <2>3. file'[m] = snap[m].token
    BY <1>4, <2>2 DEF Project
  <2> QED  BY <2>1, <2>3
<1>5. CASE Rotate(m) \/ Expire(m)
  BY <1>5 DEF Rotate, ClaudeUp, Expire
<1>6. CASE Exit(m) \/ Sleep(m) \/ Wake(m) \/ Lapse(m)
  BY <1>6 DEF Exit, Sleep, Wake, Lapse
<1>7. CASE Block(m)
  BY <1>7 DEF Block
<1>8. CASE Renewed(m) \/ Contended(m) \/ Unreachable(m) \/ Pause(m)
  BY <1>8 DEF Renewed, Contended, Lose, Unreachable, Pause
<1>9. CASE Resume(m)
  <2>1. pc[m] \in {"run", "after", "release"} /\ pc'[m] \in {pc[m], "release"}
    BY <1>9 DEF Resume, Lose
  <2> QED  BY <2>1
<1>10. CASE Notice(m)
  BY <1>10 DEF Notice, Beating
<1>11. CASE AfterRun(m) \/ AfterMaintenance(m)
  BY <1>11 DEF AfterRun, AfterMaintenance
<1>12. CASE Refresh(m)
  <2>1. pc[m] \in {"run", "after", "release"} /\ pc'[m] \in {pc[m], "release"}
    BY <1>12 DEF Refresh, Published
  <2> QED  BY <2>1
<1>13. CASE Reassert(m)
  <2>1. pc[m] \in {"run", "after", "release"} /\ pc'[m] \in {pc[m], "release"}
    BY <1>13 DEF Reassert, Published
  <2> QED  BY <2>1
<1>14. CASE Publish(m)
  <2>1. pc[m] \in {"run", "after", "release"} /\ pc'[m] \in {pc[m], "release"}
    BY <1>14 DEF Publish, Published
  <2> QED  BY <2>1
<1>15. CASE Release(m) \/ AimDies(m)
  BY <1>15 DEF Release, Gone, AimDies
<1> QED
  BY <1>1, <1>2, <1>3, <1>4, <1>5, <1>6, <1>7, <1>8, <1>9, <1>10, <1>11, <1>12, <1>13,
     <1>14, <1>15 DEF Step

-----------------------------------------------------------------------------
(* The working login, the lease, and the login a session works with. *)

LEMMA KeptStep ==
    ASSUME IInv, NEW m \in Machine, Step(m)
    PROVE  LoginKept'
<1>a. /\ SessionTypeOK /\ TokenInv /\ LoginKept /\ SnapInv(m) /\ CandInv(m) /\ ReadyInv(m)
      /\ issued \in Nat /\ record.token \in Nat /\ cand[m] \in Nat /\ file[m] \in Nat
      /\ snap[m].token \in Nat /\ cand[m] <= issued
      /\ file \in [Machine -> Token]
  BY NumbersTyped, Typed DEF IInv, FunctionsTyped
<1>1. CASE Rotate(m)
  <2>1. file'[m] \in valid'
    BY <1>1, <1>a DEF Rotate, Set
  <2> QED  BY <2>1 DEF LoginKept
<1>2. CASE ~Rotate(m) /\ record.token \in valid
  <2>1. record'.token = record.token
    BY <1>2, <1>a, RecordGrows DEF TokenInv
  <2> QED  BY <1>2, <2>1, ProviderMoves DEF LoginKept
<1>3. CASE ~Rotate(m) /\ record.token \notin valid
  <2>1. PICK n \in Machine : file[n] = issued /\ issued \in valid
    BY <1>3, <1>a DEF LoginKept, TokenInv
  <2>2. valid' = valid
    BY <1>3, ProviderMoves
  <2>3. file'[n] = file[n]
    <3>1. CASE Expire(m)
      <4>1. file' = [file EXCEPT ![m] = 0] /\ n # m
        BY <3>1, <2>1 DEF Expire, Set
      <4> QED  BY <4>1, <1>a
    <3>2. CASE Project(m)
      <4>1. snap[m].token <= record.token /\ record.token <= issued /\ record.token # issued
        BY <1>3, <1>a DEF SnapInv, TokenInv
      <4>2. file[m] <= snap[m].token
        BY <3>2, <1>a DEF Project, At, ReadyInv
      <4>3. n # m
        BY <4>1, <4>2, <2>1, <1>a
      <4>4. \E k \in Token \cup Nat : file' = [file EXCEPT ![m] = k]
        BY <3>2, <1>a DEF Project, Set
      <4> QED  BY <4>3, <4>4, <1>a
    <3> QED  BY <1>3, <3>1, <3>2, FileMoves
  <2> QED  BY <2>1, <2>2, <2>3 DEF LoginKept
<1> QED  BY <1>1, <1>2, <1>3

LEMMA OwnLeaseStep ==
    ASSUME FunctionsTyped, NEW m \in Machine, Step(m), PlaceInv(m), LeaseInv(m),
           m \notin Sleepers, m \notin Stallers, m # Nobody
    PROVE  LeaseInv(m)'
<1> USE DEF Set, Goto, At, provider, heart, publication, pool
<1> USE DEF FunctionsTyped, PlaceInv, LeaseInv, Supervised, Starting
<1>1. CASE \E j \in {"session", "maintain"} : Acquire(m, j)
  BY <1>1 DEF Acquire
<1>2. CASE Reload(m) \/ Project(m) \/ Abandon(m)
  BY <1>2 DEF Reload, Project, Abandon
<1>3. CASE Preflight(m)
  BY <1>3 DEF Preflight, Owned
<1>4. CASE PreflightPublish(m)
  BY <1>4 DEF PreflightPublish
<1>5. CASE Launch(m)
  BY <1>5 DEF Launch, Owned
<1>6. CASE Rotate(m) \/ Expire(m) \/ Exit(m)
  BY <1>6 DEF Rotate, ClaudeUp, Expire, Exit
<1>7. CASE Sleep(m) \/ Wake(m) \/ Block(m)
  BY <1>7 DEF Sleep, Wake, Block
<1>8. CASE Lapse(m)
  BY <1>8 DEF Lapse
<1>9. CASE Renewed(m)
  BY <1>9 DEF Renewed, Owned, Beating
<1>10. CASE Contended(m)
  BY <1>10 DEF Contended, Lose, Beating
<1>11. CASE Unreachable(m)
  BY <1>11 DEF Unreachable, Owned, Beating
<1>12. CASE Pause(m)
  BY <1>12 DEF Pause, Lose
<1>13. CASE Resume(m)
  BY <1>13 DEF Resume, Lose
<1>14. CASE Notice(m)
  BY <1>14 DEF Notice, Owned, Beating
<1>15. CASE AfterRun(m)
  BY <1>15 DEF AfterRun
<1>16. CASE AfterMaintenance(m)
  BY <1>16 DEF AfterMaintenance, Owned
<1>17. CASE Refresh(m)
  BY <1>17 DEF Refresh, Published
<1>18. CASE Reassert(m)
  BY <1>18 DEF Reassert, Published, Owned, Beating
<1>19. CASE Publish(m)
  BY <1>19 DEF Publish, Published
<1>20. CASE Release(m) \/ AimDies(m)
  BY <1>20 DEF Release, Gone, AimDies
<1> QED
  BY <1>1, <1>2, <1>3, <1>4, <1>5, <1>6, <1>7, <1>8, <1>9, <1>10, <1>11, <1>12, <1>13,
     <1>14, <1>15, <1>16, <1>17, <1>18, <1>19, <1>20 DEF Step

\* A machine that neither sleeps nor stalls keeps its lease while it needs it.
LEMMA LeaseStep ==
    ASSUME IInv, NEW m \in Machine, Step(m), NEW n \in Steady
    PROVE  LeaseInv(n)'
<1>n. n \in Machine /\ n # Nobody /\ LeaseInv(n) /\ SessionTypeOK /\ FunctionsTyped
  BY ConstantsAssumption, Typed DEF Steady, IInv
<1>1. CASE n # m
  <2>1. Stays(n)
    BY <1>1, <1>n, OthersStay
  <2>2. lease = n => lease' = n
    BY <1>1, <1>n, LeaseMoves
  <2> QED  BY <1>n, <2>1, <2>2 DEF Stays, LeaseInv, Supervised
<1>2. CASE n = m
  <2>1. PlaceInv(m) /\ LeaseInv(m) /\ m \notin Sleepers /\ m \notin Stallers /\ m # Nobody
    BY <1>2, <1>n DEF IInv, Steady
  <2>2. LeaseInv(m)'
    BY <1>n, <2>1, OwnLeaseStep
  <2> QED  BY <1>2, <2>2
<1> QED  BY <1>1, <1>2

\* While a machine has the lease, no other Claude comes to have its login.
LEMMA SoleStays ==
    ASSUME IInv, NEW m \in Machine, Step(m), NEW n \in Machine \ {m}, Sole(n), lease = n
    PROVE  Sole(n)'
<1>a. /\ SessionTypeOK /\ TokenInv /\ PlaceInv(m) /\ FunctionsTyped
      /\ issued \in Nat /\ issued # 0 /\ n # Nobody
      /\ file \in [Machine -> Token]
  <2>1. issued \in 1..MaxToken
    BY DEF IInv, SessionTypeOK
  <2> QED  BY <2>1, NumbersTyped, Typed, ConstantsAssumption DEF IInv, FunctionsTyped
<1>1. ~Rotate(m)
  BY <1>a DEF Rotate, ClaudeUp, Sole, TokenInv
<1>2. issued' = issued /\ file'[n] = file[n]
  BY <1>a, <1>1, ProviderMoves, OthersStay DEF Stays
<1>3. ASSUME NEW k \in Machine \ {n}, claude'[k] # "none" PROVE file'[k] # issued
  <2>1. CASE k # m
    BY <1>a, <1>3, <2>1, OthersStay DEF Stays, Sole
  <2>2. CASE k = m
    <3>1. ~Launch(m)
      BY <1>a DEF Launch, Owned
    <3>2. claude[m] # "none" /\ file[m] # issued
      BY <1>a, <1>3, <2>2, <3>1, ClaudeMoves DEF Sole
    <3>3. ~Project(m)
      BY <1>a, <3>2 DEF Project, At, PlaceInv, Starting
    <3>4. CASE Expire(m)
      BY <1>a, <2>2, <3>4 DEF Expire, Set
    <3>5. CASE UNCHANGED file
      BY <2>2, <3>2, <3>5
    <3> QED  BY <1>1, <3>3, <3>4, <3>5, FileMoves
  <2> QED  BY <2>1, <2>2
<1> QED  BY <1>2, <1>3, <1>a DEF Sole

LEMMA OthersLogin ==
    ASSUME IInv, NEW m \in Machine, Step(m), NEW n \in Steady, n # m
    PROVE  LoginInv(n)'
<1>a. /\ n \in Machine /\ SessionTypeOK /\ LeaseInv(n) /\ LoginInv(n) /\ PlaceInv(n)
      /\ Stays(n)
  BY OthersStay DEF IInv, Steady
<1>1. CASE Sole(n) /\ lease = n
  <2>1. Sole(n)'
    BY <1>a, <1>1, SoleStays
  <2> QED  BY <1>a, <2>1 DEF LoginInv, Stays, Supervised
<1>2. CASE ~(Sole(n) /\ lease = n) /\ Supervised(n) /\ file[n] # 0
  <2>1. pub[n] # "refresh"
    BY <1>a, <1>2 DEF LoginInv, LeaseInv
  <2>2. ~((~held[n] \/ beat[n] = "pause") /\ file[n] > snap[n].token)
    <3>1. CASE ~held[n] \/ beat[n] = "pause"
      <4>1. claude[n] = "running"
        BY <1>a, <1>2, <3>1 DEF SessionTypeOK, PlaceInv, Supervised
      <4> QED  BY <1>a, <1>2, <4>1 DEF LoginInv, LeaseInv
    <3> QED  BY <3>1
  <2> QED  BY <1>a, <1>2, <2>1, <2>2 DEF LoginInv, Stays
<1>3. CASE ~(Supervised(n) /\ file[n] # 0)
  BY <1>a, <1>3 DEF LoginInv, Stays, Supervised
<1> QED  BY <1>1, <1>2, <1>3

\* The others do not come to have the login of m by a step of m that is no
\* rotation and leaves its file.
LEMMA OwnSole ==
    ASSUME SessionTypeOK, NEW m \in Machine, Step(m), Sole(m), UNCHANGED <<file, issued>>
    PROVE  Sole(m)'
  BY OthersStay DEF Stays, Sole

LEMMA OwnLogin ==
    ASSUME IInv, NEW m \in Steady, Step(m)
    PROVE  LoginInv(m)'
<1> USE DEF Set, Goto, At, provider, heart, publication, pool
<1>a. /\ m \in Machine /\ SessionTypeOK /\ FunctionsTyped /\ TokenInv /\ PlaceInv(m)
      /\ SnapInv(m) /\ CandInv(m) /\ ReadyInv(m) /\ LoginInv(m)
  BY Typed DEF IInv, Steady
<1>b. /\ issued \in Nat /\ issued \in 1..MaxToken /\ record.token \in Nat
      /\ file[m] \in Nat /\ cand[m] \in Nat /\ prior[m] \in Nat /\ snap[m].token \in Nat
      /\ \A n \in Machine : file[n] \in Nat /\ file[n] <= issued
  BY <1>a, NumbersTyped DEF SessionTypeOK
<1> USE <1>a DEF Steady
<1>0. CASE ~Supervised(m)'
  BY <1>0 DEF LoginInv
<1>1. CASE \E j \in {"session", "maintain"} : Acquire(m, j)
  <2>1. ~Supervised(m)'
    BY <1>1 DEF Acquire, Supervised, PlaceInv, FunctionsTyped, Starting
  <2> QED  BY <2>1, <1>0
<1>2. CASE Reload(m)
  <2>1. ~Supervised(m)'
    BY <1>2 DEF Reload, Supervised, PlaceInv, FunctionsTyped, Starting
  <2> QED  BY <2>1, <1>0
<1>3. CASE Preflight(m)
  <2>1. ~Supervised(m)'
    BY <1>3 DEF Preflight, Supervised, PlaceInv, FunctionsTyped, Starting
  <2> QED  BY <2>1, <1>0
<1>4. CASE PreflightPublish(m)
  <2>1. ~Supervised(m)'
    BY <1>4 DEF PreflightPublish, Supervised, PlaceInv, FunctionsTyped, Starting
  <2> QED  BY <2>1, <1>0
<1>5. CASE Project(m)
  <2>1. ~Supervised(m)'
    BY <1>5 DEF Project, Supervised, PlaceInv, FunctionsTyped, Starting
  <2> QED  BY <2>1, <1>0
<1>6. CASE Launch(m)
  <2>1. /\ UNCHANGED <<file, snap, pub, beat>> /\ pc[m] = "launch"
        /\ pub[m] = "rest" /\ beat[m] = "rest" /\ file[m] = snap[m].token
    BY <1>6 DEF Launch, PlaceInv, ReadyInv
  <2>2. file[m] >= snap[m].token /\ ~(file[m] > snap[m].token)
    BY <1>b, <2>1
  <2> QED  BY <2>1, <2>2 DEF LoginInv
<1>7. CASE Abandon(m)
  <2>1. ~Supervised(m)'
    BY <1>7 DEF Abandon, Supervised, PlaceInv, FunctionsTyped, Starting
  <2> QED  BY <2>1, <1>0
<1>8. CASE Rotate(m)
  <2>1. /\ UNCHANGED <<snap, pub, beat, prior, claude>>
        /\ issued' = issued + 1 /\ file' = [file EXCEPT ![m] = issued + 1] /\ file[m] = issued
    BY <1>8 DEF Rotate, TokenInv
  <2>2. file'[m] = issued' /\ \A n \in Machine \ {m} : file'[n] # issued'
    BY <2>1, <1>b DEF FunctionsTyped
  <2>3. Sole(m)'
    BY <2>2 DEF Sole
  <2>4. file[m] # 0 /\ (file[m] >= snap[m].token => file'[m] >= snap[m].token)
        /\ (file[m] >= prior[m] => file'[m] >= prior[m])
    BY <2>1, <2>2, <1>b
  <2> QED  BY <2>1, <2>3, <2>4 DEF LoginInv, Supervised
<1>9. CASE Expire(m)
  <2>1. file'[m] = 0
    BY <1>9 DEF Expire, FunctionsTyped
  <2> QED  BY <2>1 DEF LoginInv
<1>10. CASE Exit(m)
  <2>1. ~Supervised(m)'
    BY <1>10 DEF Exit, ClaudeUp, Supervised, PlaceInv, FunctionsTyped, Starting
  <2> QED  BY <2>1, <1>0
<1>11. CASE Sleep(m) \/ Wake(m) \/ Lapse(m)
  <2>1. UNCHANGED <<file, issued, snap, pub, claude, prior, beat, held>>
    BY <1>11 DEF Sleep, Wake, Lapse
  <2> QED  BY <2>1, OwnSole DEF LoginInv, Supervised
<1>12. CASE Block(m)
  <2>1. ~Supervised(m)'
    BY <1>12 DEF Block, Supervised, PlaceInv, FunctionsTyped, Starting
  <2> QED  BY <2>1, <1>0
<1>13. CASE Renewed(m)
  <2>1. /\ UNCHANGED <<file, issued, snap, pub, claude, held>> /\ beat[m] = "rest"
        /\ beat'[m] = "check" => prior'[m] = snap[m].token
        /\ beat'[m] # "pause"
    BY <1>13 DEF Renewed, Beating, FunctionsTyped
  <2> QED  BY <2>1, OwnSole DEF LoginInv, Supervised
<1>14. CASE Contended(m)
  <2>1. ~Supervised(m)'
    BY <1>14 DEF Contended, Lose, Beating, Supervised, PlaceInv, FunctionsTyped, Starting
  <2> QED  BY <2>1, <1>0
<1>15. CASE Unreachable(m)
  <2>1. /\ UNCHANGED <<file, issued, snap, pub, claude, prior>> /\ held'[m]
        /\ (beat'[m] = "pause" /\ ~held[m]) \/ beat'[m] = "rest"
    BY <1>15 DEF Unreachable, Beating, FunctionsTyped
  <2> QED  BY <2>1, OwnSole DEF LoginInv, Supervised
<1>16. CASE Pause(m)
  <2>1. /\ UNCHANGED <<file, issued, snap, pub, held>> /\ beat[m] = "pause"
        /\ held'[m] /\ beat'[m] = "rest"
    BY <1>16 DEF Pause, PlaceInv, FunctionsTyped
  <2>2. CASE Supervised(m)'
    <3>1. claude[m] = "running"
      BY <1>16, <2>2 DEF Pause, Lose, Supervised, FunctionsTyped
    <3> QED  BY <2>1, <3>1, OwnSole DEF LoginInv, Supervised
  <2> QED  BY <2>2, <1>0
<1>17. CASE Resume(m)
  <2>1. CASE Supervised(m)'
    <3>1. /\ UNCHANGED <<file, issued, pub>> /\ snap'[m] = record
          /\ beat[m] = "check" /\ beat'[m] = "rest" /\ claude[m] = "stopped"
          /\ record.token \in {prior[m], file[m]}
      BY <1>17, <2>1 DEF Resume, Lose, Supervised, FunctionsTyped
    <3>2. file[m] # 0 => file[m] >= record.token
      BY <3>1, <1>b DEF LoginInv, Supervised
    <3>3. file[m] # 0 /\ pub[m] = "refresh" => Sole(m)
      BY <3>1 DEF LoginInv, Supervised
    <3>4. file[m] > record.token => Sole(m)
      <4>1. ASSUME file[m] > record.token, NEW n \in Machine \ {m} PROVE file[n] # issued
        <5>1. file[m] = issued
          BY <4>1 DEF TokenInv
        <5> QED  BY <4>1, <5>1 DEF TokenInv
      <4> QED  BY <4>1 DEF Sole, TokenInv
    <3> QED  BY <3>1, <3>2, <3>3, <3>4, OwnSole DEF LoginInv
  <2> QED  BY <2>1, <1>0
<1>18. CASE Notice(m)
  <2>1. /\ UNCHANGED <<file, issued, snap, claude, beat, prior, held>> /\ ~held[m]
        /\ beat[m] = "rest" /\ file[m] > snap[m].token
    BY <1>18 DEF Notice, Beating, Candidate
  <2> QED  BY <2>1, OwnSole DEF LoginInv, Supervised
<1>19. CASE AfterRun(m)
  <2>1. ~Supervised(m)'
    BY <1>19 DEF AfterRun, Supervised, PlaceInv, FunctionsTyped, Starting
  <2> QED  BY <2>1, <1>0
<1>20. CASE AfterMaintenance(m)
  <2>1. ~Supervised(m)'
    BY <1>20 DEF AfterMaintenance, Supervised, PlaceInv, FunctionsTyped, Starting
  <2> QED  BY <2>1, <1>0
<1>21. CASE Refresh(m)
  <2>1. /\ UNCHANGED <<file, issued, claude, beat, prior, held>> /\ pub[m] = "refresh"
        /\ pub'[m] # "refresh" /\ snap'[m] \in {snap[m], record}
    BY <1>21 DEF Refresh, Published, FunctionsTyped
  <2>2. CASE Supervised(m) /\ file[m] # 0
    <3>1. Sole(m) /\ file[m] >= snap[m].token /\ (beat[m] = "check" => file[m] >= prior[m])
      BY <2>1, <2>2 DEF LoginInv
    <3>2. file[m] >= record.token
      BY <3>1, <1>b DEF Sole, TokenInv
    <3> QED  BY <2>1, <3>1, <3>2, OwnSole DEF LoginInv
  <2> QED  BY <2>1, <2>2 DEF LoginInv, Supervised
<1>22. CASE Reassert(m)
  <2>1. /\ UNCHANGED <<file, issued, snap, claude, beat, prior, held>>
        /\ pub'[m] \in {"publish", "rest"}
    BY <1>22 DEF Reassert, Published, FunctionsTyped
  <2> QED  BY <2>1, OwnSole DEF LoginInv, Supervised
<1>23. CASE Publish(m)
  <2>1. /\ UNCHANGED <<file, issued, claude, beat, prior, held>> /\ pub'[m] = "rest"
    BY <1>23 DEF Publish, Published, FunctionsTyped
  <2>2. CASE snap'[m] = snap[m]
    BY <2>1, <2>2, OwnSole DEF LoginInv, Supervised
  <2>3. CASE snap'[m] # snap[m]
    <3>1. PublishTokens(m)
      BY <1>23, <2>3 DEF Publish
    <3>2. /\ snap[m] = record /\ snap'[m] = record'
          /\ record'.token = cand[m] /\ cand[m] > record.token
      BY <3>1, <2>3, Replaces DEF FunctionsTyped
    <3>3. file[m] # 0 => file[m] >= snap'[m].token
      BY <3>2, <1>b DEF CandInv
    <3>4. file[m] > snap'[m].token => file[m] > snap[m].token
      BY <3>2, <1>b
    <3> QED  BY <2>1, <3>3, <3>4, OwnSole DEF LoginInv, Supervised
  <2> QED  BY <2>2, <2>3
<1>24. CASE Release(m)
  <2>1. ~Supervised(m)'
    BY <1>24 DEF Release, Gone, Supervised, PlaceInv, FunctionsTyped, Starting
  <2> QED  BY <2>1, <1>0
<1>25. CASE AimDies(m)
  <2>1. ~Supervised(m)'
    BY <1>25 DEF AimDies, Gone, Supervised, PlaceInv, FunctionsTyped, Starting
  <2> QED  BY <2>1, <1>0
<1> QED
  BY <1>1, <1>2, <1>3, <1>4, <1>5, <1>6, <1>7, <1>8, <1>9, <1>10, <1>11, <1>12, <1>13,
     <1>14, <1>15, <1>16, <1>17, <1>18, <1>19, <1>20, <1>21, <1>22, <1>23, <1>24, <1>25 DEF Step

-----------------------------------------------------------------------------
(* The invariant, and what follows from it. *)

LEMMA InitInv == SessionInit => IInv
<1> SUFFICES ASSUME SessionInit PROVE IInv
  OBVIOUS
<1> USE DEF SessionInit
<1>a. /\ First \in Record /\ First.token = 1 /\ First.version = 1
      /\ 1 \in 1..MaxToken /\ 0 \in 0..MaxToken /\ 0 <= 1 /\ 1 <= 1 /\ ~(0 > 1)
      /\ {1} \subseteq 1..1
  BY FirstTyped, ConstantsAssumption
<1>1. SessionTypeOK
  BY <1>a DEF SessionTypeOK
<1>2. \A m \in Machine : PlaceInv(m) /\ SnapInv(m) /\ CandInv(m) /\ ReadyInv(m)
  BY <1>a DEF PlaceInv, SnapInv, CandInv, ReadyInv, Supervised, Starting
<1>3. TokenInv /\ LoginKept
  BY <1>a DEF TokenInv, LoginKept
<1>4. \A m \in Steady : LeaseInv(m) /\ LoginInv(m)
  BY DEF LeaseInv, LoginInv, Supervised, Steady
<1> QED  BY <1>1, <1>2, <1>3, <1>4 DEF IInv

LEMMA StepInv ==
    ASSUME IInv, NEW m \in Machine, Step(m)
    PROVE  IInv'
<1>1. \A n \in Machine : PlaceInv(n)' /\ ReadyInv(n)'
  <2>1. ASSUME NEW n \in Machine \ {m} PROVE PlaceInv(n)' /\ ReadyInv(n)'
    <3>1. Stays(n) /\ PlaceInv(n) /\ ReadyInv(n)
      BY OthersStay DEF IInv
    <3> QED  BY <3>1 DEF Stays, PlaceInv, ReadyInv, Supervised
  <2> QED  BY <2>1, PlaceStep, ReadyStep
<1>2. \A n \in Steady : LeaseInv(n)' /\ LoginInv(n)'
  BY LeaseStep, OwnLogin, OthersLogin
<1> QED  BY <1>1, <1>2, TypeStep, SnapStep, CandStep, TokenStep, KeptStep DEF IInv

\* Only the heartbeat continues a stopped Claude, after its check.
LEMMA Continues ==
    ASSUME FunctionsTyped, NEW m \in Machine, PlaceInv(m), Step(m),
           claude[m] = "stopped", claude'[m] = "running"
    PROVE  beat[m] = "check" /\ record.token \in {prior[m], file[m]}
<1> USE DEF FunctionsTyped, Set
<1>1. CASE \/ (\E j \in {"session", "maintain"} : Acquire(m, j)) \/ Reload(m)
           \/ Preflight(m) \/ PreflightPublish(m) \/ Project(m) \/ Abandon(m)
  BY <1>1 DEF Acquire, Reload, Preflight, PreflightPublish, Project, Abandon
<1>2. CASE Launch(m)
  BY <1>2 DEF Launch, At, PlaceInv, Starting
<1>3. CASE \/ Rotate(m) \/ Expire(m) \/ Exit(m) \/ Sleep(m) \/ Wake(m) \/ Lapse(m)
           \/ Block(m)
  BY <1>3 DEF Rotate, Expire, Exit, Sleep, Wake, Lapse, Block
<1>4. CASE Renewed(m) \/ Unreachable(m)
  BY <1>4 DEF Renewed, Unreachable
<1>5. CASE Contended(m) \/ Pause(m)
  BY <1>5 DEF Contended, Lose, Pause
<1>6. CASE Resume(m)
  BY <1>6 DEF Resume, Lose
<1>7. CASE \/ Notice(m) \/ AfterRun(m) \/ AfterMaintenance(m) \/ Refresh(m)
           \/ Reassert(m) \/ Publish(m)
  BY <1>7 DEF Notice, AfterRun, AfterMaintenance, Refresh, Reassert, Publish
<1>8. CASE Release(m) \/ AimDies(m)
  BY <1>8 DEF Release, AimDies
<1> QED
  BY <1>1, <1>2, <1>3, <1>4, <1>5, <1>6, <1>7, <1>8 DEF Step

THEOREM SessionInvariant == SessionSpec => []IInv
<1>1. IInv /\ [SessionNext]_sessionVars => IInv'
  <2> SUFFICES ASSUME IInv, [SessionNext]_sessionVars PROVE IInv'
    OBVIOUS
  <2>1. CASE SessionNext
    BY <2>1, StepInv DEF SessionNext
  <2>2. CASE UNCHANGED sessionVars
    <3> USE <2>2 DEF sessionVars, pool, provider, heart, publication
    <3>1. SessionTypeOK'
      BY DEF IInv, SessionTypeOK
    <3>2. ASSUME NEW m \in Machine
          PROVE  PlaceInv(m)' /\ SnapInv(m)' /\ CandInv(m)' /\ ReadyInv(m)'
      <4>1. PlaceInv(m)'
        BY DEF IInv, PlaceInv, Supervised
      <4>2. SnapInv(m)' /\ CandInv(m)'
        BY DEF IInv, SnapInv, CandInv
      <4>3. ReadyInv(m)'
        BY DEF IInv, ReadyInv
      <4> QED  BY <4>1, <4>2, <4>3
    <3> QED  BY <3>1, <3>2 DEF IInv, TokenInv, LoginKept, LeaseInv, LoginInv, Sole, Supervised
  <2> QED  BY <2>1, <2>2
<1> QED  BY InitInv, <1>1, PTL DEF SessionSpec

(* Every variable of a shared login keeps to its type: no token or version *)
(* leaves its bounds, and no session has a candidate, a check or a stopped *)
(* Claude that its steps do not account for.                               *)
THEOREM SessionTypeCorrect == SessionSpec => []SessionTypeOK
<1>1. IInv => SessionTypeOK
  BY DEF IInv
<1> QED  BY <1>1, SessionInvariant, PTL

(* The heartbeat of claude.js keeps its promise: on a machine that does    *)
(* not sleep, and whose calls to Redis end before the lease does, Claude   *)
(* runs only while that machine has the credential lease.                  *)
THEOREM RunsUnderLease == SessionSpec => []RunsAsOwner
<1>1. IInv => RunsAsOwner
  BY DEF IInv, LeaseInv, RunsAsOwner
<1> QED  BY <1>1, SessionInvariant, PTL

(* The login the provider accepts is never lost: whatever sleeps, dies or  *)
(* is not answered, it is in the pool or in the file of a machine, where   *)
(* the preflight of the next run (runSharedClaudePreRunPreflight) finds    *)
(* it.                                                                     *)
THEOREM LoginNeverLost == SessionSpec => []LoginKept
<1>1. IInv => LoginKept
  BY DEF IInv
<1> QED  BY <1>1, SessionInvariant, PTL

(* resumeAfterOwnershipRecovered continues no Claude with a login that was *)
(* superseded while it was paused, and a publication of claude.js writes   *)
(* over no login that still works, however late it comes.                  *)
THEOREM NoStaleLogin == SessionSpec => LoginCurrent
<1>1. ASSUME IInv, [SessionNext]_sessionVars, NEW m \in Steady,
             claude[m] = "stopped" /\ claude'[m] = "running"
      PROVE  Current(m)
  <2>a. /\ m \in Machine /\ SessionTypeOK /\ FunctionsTyped /\ TokenInv /\ PlaceInv(m)
        /\ LoginInv(m) /\ record.token \in Nat /\ file[m] \in Nat /\ prior[m] \in Nat
    BY <1>1, NumbersTyped, Typed DEF IInv, Steady
  <2>1. PICK n \in Machine : Step(n)
    BY <1>1 DEF SessionNext, sessionVars
  <2>2. n = m
    BY <1>1, <2>a, <2>1, OthersStay DEF Stays
  <2>3. beat[m] = "check" /\ record.token \in {prior[m], file[m]}
    BY <1>1, <2>a, <2>1, <2>2, Continues
  <2>4. CASE file[m] # 0 /\ file[m] # record.token
    <3>1. file[m] >= prior[m] /\ record.token = prior[m]
      BY <1>1, <2>a, <2>3, <2>4 DEF LoginInv, Supervised
    <3>2. file[m] > record.token
      BY <3>1, <2>4, <2>a
    <3> QED  BY <3>2, <2>a DEF TokenInv, Current
  <2> QED  BY <2>4 DEF Current
<1>2. ASSUME IInv, [SessionNext]_sessionVars, record' # record, record.token \in valid
      PROVE  record'.token = record.token
  <2>1. PICK m \in Machine : Step(m)
    BY <1>2 DEF SessionNext, sessionVars, pool
  <2>2. /\ SessionTypeOK /\ SnapInv(m) /\ TokenInv
        /\ issued \in Nat /\ record.token \in Nat /\ cand[m] \in Nat /\ cand[m] <= issued
    BY <1>2, NumbersTyped DEF IInv
  <2>3. record.token = issued
    BY <1>2, <2>2 DEF TokenInv
  <2> QED  BY <1>2, <2>1, <2>2, <2>3, RecordGrows
<1>3. IInv /\ [SessionNext]_sessionVars
        => [\A m \in Steady :
              claude[m] = "stopped" /\ claude'[m] = "running" => Current(m)]_sessionVars
  BY <1>1
<1>4. IInv /\ [SessionNext]_sessionVars
        => [record' # record /\ record.token \in valid => record'.token = record.token]_sessionVars
  BY <1>2
<1> QED
  BY <1>3, <1>4, SessionInvariant, PTL
  DEF SessionSpec, LoginCurrent, ResumedLoginCurrent, WorkingLoginStays

==============================================================================
