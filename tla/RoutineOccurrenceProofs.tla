------------------------ MODULE RoutineOccurrenceProofs ------------------------
(***************************************************************************)
(* Proofs about the scheduled jobs of a machine, for every set of launches,*)
(* fire keys and routines, every assignment of agents, and any number of   *)
(* kills and restarts:                                                     *)
(*   RoutineTypeCorrect   every variable stays within its type;            *)
(*   PromptsOnce          a fire key's prompt is given to one agent;       *)
(*   JobsApart            jobs do not overlap nor swap accounts;           *)
(*   ReceiptsTrue         no receipt forgets or hides a job that began.    *)
(* They need to know who holds a fire key and a lock, also after deaths    *)
(* and restarts: that is the inductive invariant.                          *)
(***************************************************************************)
EXTENDS RoutineOccurrence, TLAPS

Launching == {"check", "recover", "mkdir", "name", "space", "pane"}

(* A launch that has claimed its fire key and got further, or whose lock is *)
(* still there.                                                             *)
HoldsFire(l) == lpc[l] \in Launching \/ wpc[l] # "none" \/ lock[Job(l)].by = l

(* A fire key is held by one launch, and its receipt exists. *)
FireInv ==
    /\ \A l, m \in Launch : HoldsFire(l) /\ HoldsFire(m) /\ fireOf[l] = fireOf[m] => l = m
    /\ \A l \in Launch : HoldsFire(l) => receipt[fireOf[l]].outcome # "none"

(* The launch ends before its worker starts, which starts the agent. *)
OrderInv ==
    \A l \in Launch :
        /\ lpc[l] # "done" => wpc[l] = "none"
        /\ up[l] \/ turn[l] # "none" => wpc[l] \in Watching \cup {"after", "gone"}

(* A lock belongs to its routine; and a launch has it, of this boot, from its *)
(* making to the end of the job, or of the agent if the worker was killed.    *)
LockInv ==
    /\ \A r \in Routine :
        /\ lock[r].by = Nobody => ~lock[r].named /\ ~lock[r].old
        /\ lock[r].by # Nobody => r = Job(lock[r].by)
    /\ \A l \in Launch :
        /\ lpc[l] = "name" => lock[Job(l)].by = l /\ ~lock[Job(l)].named /\ ~lock[Job(l)].old
        /\ lpc[l] \in {"space", "pane"} \/ wpc[l] \notin Ended \/ (up[l] /\ wpc[l] = "gone") =>
               OwnedBy(l) /\ ~lock[Job(l)].old

(* The bootstrap lock is held from the selection to the start of a Claude, or *)
(* to the admission of another agent's prompt; nobody else selects meanwhile. *)
BootInv ==
    \A l \in Launch :
        /\ wpc[l] \in {"select", "submit"} \/ (wpc[l] = "observe" /\ AgentOf(l) # "claude") =>
               bootstrap.by = l /\ ~bootstrap.old
        /\ wpc[l] \in {"submit", "observe"} /\ AgentOf(l) # "claude" => auth = l

(* Who leaves a job leaves its receipt complete, or the lock that leads to it. *)
CareInv ==
    \A l \in Launch :
        /\ wpc[l] = "after" => receipt[fireOf[l]].done
        /\ wpc[l] = "gone" => OwnedBy(l) \/ receipt[fireOf[l]].done

(* A receipt that reports a harmless end. *)
QuietEnd(l) ==
    /\ receipt[fireOf[l]].outcome \in {"failed_before_prompt", "overlap", "missed_window"}
    /\ ~receipt[fireOf[l]].attention

(* The receipt of a running job is an open one; a harmless end is reported   *)
(* only where no agent has begun, or will.                                   *)
ReportInv ==
    \A l \in Launch :
        /\ lpc[l] = "pane" \/ wpc[l] \notin Ended =>
               receipt[fireOf[l]].outcome \in {"queued", "starting", "prompt_admitted", "needs_attention"}
        /\ QuietEnd(l) /\ AgentOf(l) # "codex" => turn[l] = "none" /\ ~up[l]
        /\ wpc[l] \in {"observe", "admitted"} /\ AgentOf(l) = "prime" => admitted[l]
        /\ wpc[l] = "stopping" => AgentOf(l) = "codex"

IInv == TypeOK /\ FireInv /\ OrderInv /\ LockInv /\ BootInv /\ CareInv /\ ReportInv

-----------------------------------------------------------------------------
(* What the operators of the model do to the state. *)

LEMMA Typed ==
    ASSUME TypeOK
    PROVE  /\ fireOf \in [Launch -> Fire]
           /\ \A l \in Launch :
                 /\ Job(l) \in Routine /\ AgentOf(l) \in Agent
                 /\ receipt[fireOf[l]] \in Receipt
                 /\ lock[Job(l)] \in LockDir
<1>1. /\ fireOf \in [Launch -> Fire]
      /\ agent \in [Routine -> Agent]
  BY ConstantsAssumption DEF TypeOK
<1> QED  BY <1>1, ConstantsAssumption DEF TypeOK, Job, AgentOf

LEMMA Alone ==
    ASSUME FireInv, NEW l \in Launch, NEW m \in Launch, HoldsFire(l), HoldsFire(m), l # m
    PROVE  fireOf[l] # fireOf[m]
  BY DEF FireInv

\* A writer's receipt is no other holder's.
OthersKept(l) == \A f \in Fire : f # fireOf[l] => receipt'[f] = receipt[f]

LEMMA WriteAlone ==
    ASSUME TypeOK, FireInv, NEW l \in Launch, HoldsFire(l), OthersKept(l),
           NEW m \in Launch, HoldsFire(m), l # m
    PROVE  receipt'[fireOf[m]] = receipt[fireOf[m]]
<1>1. fireOf[m] \in Fire
  BY Typed
<1> QED  BY <1>1, Alone DEF OthersKept

\* The outcomes that end a job.
Settled == {"overlap", "completed", "failed_before_prompt", "interrupted"}

LEMMA Written ==
    ASSUME TypeOK, NEW l \in Launch, NEW v \in Receipt,
           receipt' = [receipt EXCEPT ![fireOf[l]] = v],
           v.outcome \in Settled => v.done
    PROVE  /\ receipt' \in [Fire -> Receipt]
           /\ receipt'[fireOf[l]] = v /\ OthersKept(l)
           /\ \A f \in Fire : receipt'[f].outcome \in Settled => receipt'[f].done
<1>1. fireOf[l] \in Fire /\ receipt \in [Fire -> Receipt]
  BY Typed DEF TypeOK
<1> QED  BY <1>1 DEF TypeOK, OthersKept, Settled

LEMMA LockSet ==
    ASSUME TypeOK, NEW l \in Launch, NEW v \in LockDir, lock' = [lock EXCEPT ![Job(l)] = v]
    PROVE  /\ lock' \in [Routine -> LockDir]
           /\ lock'[Job(l)] = v
           /\ \A r \in Routine : r # Job(l) => lock'[r] = lock[r]
  BY Typed DEF TypeOK

LEMMA FreeTyped == Free \in LockDir /\ Free.by = Nobody
  BY DEF Free, LockDir

LEMMA LockReleased ==
    ASSUME TypeOK, NEW l \in Launch, ReleaseOwnership(l)
    PROVE  /\ lock' \in [Routine -> LockDir]
           /\ \A r \in Routine :
                 \/ lock'[r] = lock[r]
                 \/ lock'[r] = Free /\ lock[r].by = l
<1>1. CASE OwnedBy(l)
  <2>1. lock' = [lock EXCEPT ![Job(l)] = Free]
    BY <1>1 DEF ReleaseOwnership
  <2>2. lock[Job(l)].by = l
    BY <1>1 DEF OwnedBy
  <2> QED  BY <2>1, <2>2, LockSet, FreeTyped
<1>2. CASE ~OwnedBy(l)
  BY <1>2 DEF ReleaseOwnership, TypeOK
<1> QED  BY <1>1, <1>2

\* Fire keys stay with their holders where nobody gains one and no receipt is lost.
LEMMA FireKept ==
    ASSUME TypeOK, FireInv, UNCHANGED config,
           \A m \in Launch : HoldsFire(m)' => HoldsFire(m),
           \A f \in Fire : receipt'[f].outcome = "none" => receipt[f].outcome = "none"
    PROVE  FireInv'
<1>1. UNCHANGED fireOf
  BY DEF config
<1>2. \A m \in Launch : fireOf[m] \in Fire
  BY Typed
<1> QED  BY <1>1, <1>2 DEF FireInv

\* A lock of the last boot has an owner, of the same routine.
LEMMA OldOwner ==
    ASSUME TypeOK, LockInv, NEW l \in Launch, lock[Job(l)].old
    PROVE  lock[Job(l)].by \in Launch /\ Job(lock[Job(l)].by) = Job(l)
  BY Typed DEF LockInv, LockDir

\* The receipt a recovery completes is that of the lock's owner.
Recovers(l) ==
    lock[Job(l)].old /\ Write(lock[Job(l)].by, "interrupted", TRUE, TRUE)

LEMMA Recovered ==
    ASSUME TypeOK, LockInv, NEW l \in Launch, Recovers(l)
    PROVE  /\ receipt' \in [Fire -> Receipt]
           /\ \A f \in Fire : receipt'[f].outcome \in Settled => receipt'[f].done
           /\ receipt'[fireOf[lock[Job(l)].by]].outcome = "interrupted"
           /\ receipt'[fireOf[lock[Job(l)].by]].done
           /\ OthersKept(lock[Job(l)].by)
<1>1. lock[Job(l)].by \in Launch
  BY OldOwner DEF Recovers
<1> DEFINE v == [outcome |-> "interrupted", done |-> TRUE, attention |-> TRUE]
<1>2. v \in Receipt /\ v.outcome = "interrupted" /\ v.done
  BY DEF Receipt, Outcome, Quiet
<1>3. receipt' = [receipt EXCEPT ![fireOf[lock[Job(l)].by]] = v]
  BY DEF Recovers, Write
<1> HIDE DEF v
<1> QED  BY <1>1, <1>2, <1>3, Written

-----------------------------------------------------------------------------
(* Every step preserves the invariant: one lemma per action, and in it one   *)
(* step per part.                                                            *)

LEMMA ClaimStep ==
    ASSUME NEW l \in Launch, IInv, Claim(l)
    PROVE  IInv'
<1>1. TypeOK'
  <2>1. /\ receipt' \in [Fire -> Receipt]
        /\ \A f \in Fire : receipt'[f].outcome \in Settled => receipt'[f].done
    <3>1. CASE Write(l, "claiming", FALSE, FALSE)
      <4>1. [outcome |-> "claiming", done |-> FALSE, attention |-> FALSE] \in Receipt
        BY DEF Receipt, Outcome, Quiet
      <4> QED  BY <3>1, <4>1, Written DEF IInv, Write, Settled
    <3>2. CASE Write(l, "missed_window", FALSE, FALSE)
      <4>1. [outcome |-> "missed_window", done |-> FALSE, attention |-> FALSE] \in Receipt
        BY DEF Receipt, Outcome, Quiet
      <4> QED  BY <3>2, <4>1, Written DEF IInv, Write, Settled
    <3>3. CASE UNCHANGED receipt
      BY <3>3 DEF IInv, TypeOK, Settled
    <3> QED  BY <3>1, <3>2, <3>3 DEF Claim
  <2> QED  BY <2>1 DEF IInv, Claim, TypeOK, Launcher, Settled, config, job, clock
<1>2. FireInv'
  <2>1. \A m \in Launch : fireOf[m] \in Fire
    BY Typed DEF IInv
  <2>2. ASSUME NEW m \in Launch, HoldsFire(m)', m # l \/ ~Unclaimed(l)
        PROVE  HoldsFire(m)
    BY <2>2 DEF IInv, Claim, TypeOK, Launcher, HoldsFire, Launching, Job, config
  <2>3. CASE Unclaimed(l)
    <3>1. \A m \in Launch : HoldsFire(m) => fireOf[m] # fireOf[l]
      BY <2>3 DEF IInv, FireInv, Unclaimed
    <3>2. /\ receipt'[fireOf[l]].outcome # "none"
          /\ \A f \in Fire : f # fireOf[l] => receipt'[f] = receipt[f]
      BY <2>3, Typed DEF IInv, Claim, TypeOK, Write
    <3> QED  BY <2>1, <2>2, <3>1, <3>2 DEF IInv, FireInv, Claim, config
  <2>4. CASE ~Unclaimed(l)
    BY <2>2, <2>4, FireKept DEF IInv, Claim
  <2> QED  BY <2>3, <2>4
<1>3. OrderInv'
  BY Typed DEF IInv, Claim, Unclaimed, Write, Launcher, config, job, clock,
     OrderInv, Watching, Job, TypeOK
<1>4. LockInv'
  <2>1. \A m \in Launch : lpc'[m] = lpc[m] \/ lpc'[m] \in {"check", "done"}
    BY Typed DEF IInv, Claim, Launcher, TypeOK
  <2>2. UNCHANGED <<config, lock, wpc, job>>
    BY DEF Claim, config, job
  <2> QED  BY <2>1, <2>2 DEF IInv, LockInv, OwnedBy, Ended, Job, config, job
<1>5. BootInv'
  BY Typed DEF IInv, Claim, Unclaimed, Write, Launcher, config, job, clock,
     BootInv, AgentOf, Job, TypeOK
<1>6. CareInv'
  BY Typed DEF IInv, Claim, Unclaimed, Write, Launcher, config, job, clock,
     CareInv, OwnedBy, Ended, Job, TypeOK, Watching, FireInv, HoldsFire,
     Launching, OrderInv
<1>7. ReportInv'
  <2>1. wpc[l] = "none" /\ turn[l] = "none" /\ ~up[l]
    BY DEF IInv, Claim, OrderInv, Watching
  <2>2. ASSUME NEW m \in Launch, Unclaimed(l), fireOf[m] = fireOf[l]
        PROVE  wpc[m] = "none" /\ turn[m] = "none" /\ ~up[m] /\ lpc[m] # "pane"
    BY <2>2 DEF IInv, FireInv, HoldsFire, Launching, Unclaimed, OrderInv, Watching
  <2>3. ASSUME NEW m \in Launch, ~Unclaimed(l) \/ fireOf[m] # fireOf[l]
        PROVE  receipt'[fireOf[m]] = receipt[fireOf[m]]
    BY <2>3, Typed DEF IInv, Claim, TypeOK, Write
  <2>4. UNCHANGED <<fireOf, agent, wpc, admitted, up, turn>>
    BY DEF Claim, config, job
  <2>5. \A m \in Launch : lpc'[m] = "pane" => lpc[m] = "pane"
    BY DEF IInv, Claim, Launcher, TypeOK
  <2> QED
    BY <2>1, <2>2, <2>3, <2>4, <2>5
    DEF IInv, ReportInv, QuietEnd, AgentOf, Job, Ended
<1> QED  BY <1>1, <1>2, <1>3, <1>4, <1>5, <1>6, <1>7 DEF IInv

LEMMA CheckLockStep ==
    ASSUME NEW l \in Launch, IInv, CheckLock(l)
    PROVE  IInv'
<1>1. TypeOK'
  BY Typed DEF IInv, CheckLock, Launcher, config, files, job, clock, TypeOK,
     Job
<1>2. FireInv'
  BY Typed DEF IInv, CheckLock, Launcher, config, files, job, clock, FireInv,
     HoldsFire, Launching, Job, TypeOK
<1>3. OrderInv'
  BY Typed DEF IInv, CheckLock, Launcher, config, files, job, clock, OrderInv,
     Watching, Job, TypeOK
<1>4. LockInv'
  BY Typed DEF IInv, CheckLock, Launcher, config, files, job, clock, LockInv,
     OwnedBy, Ended, Free, Job, TypeOK
<1>5. BootInv'
  BY Typed DEF IInv, CheckLock, Launcher, config, files, job, clock, BootInv,
     AgentOf, Job, TypeOK
<1>6. CareInv'
  BY Typed DEF IInv, CheckLock, Launcher, config, files, job, clock, CareInv,
     OwnedBy, Ended, Job, TypeOK
<1>7. ReportInv'
  BY Typed DEF IInv, CheckLock, Launcher, config, files, job, clock,
     ReportInv, QuietEnd, AgentOf, Ended, Job, TypeOK
<1> QED  BY <1>1, <1>2, <1>3, <1>4, <1>5, <1>6, <1>7 DEF IInv

LEMMA RecoverLockStep ==
    ASSUME NEW l \in Launch, IInv, RecoverLock(l)
    PROVE  IInv'
<1>1. TypeOK'
  <2>1. /\ receipt' \in [Fire -> Receipt]
        /\ \A f \in Fire : receipt'[f].outcome \in Settled => receipt'[f].done
    <3>1. CASE Recovers(l)
      BY <3>1, Recovered DEF IInv, Settled
    <3>2. CASE UNCHANGED receipt
      BY <3>2 DEF IInv, TypeOK, Settled
    <3> QED  BY <3>1, <3>2 DEF RecoverLock, Recovers
  <2>2. lock' \in [Routine -> LockDir]
    BY LockSet, FreeTyped DEF IInv, RecoverLock, TypeOK
  <2> QED  BY <2>1, <2>2 DEF IInv, RecoverLock, TypeOK, Launcher, Settled, config, job, clock
<1>2. FireInv'
  <2>1. \A r \in Routine : lock'[r] = lock[r] \/ lock'[r].by = Nobody
    BY LockSet, FreeTyped DEF IInv, RecoverLock
  <2>2. \A m \in Launch : lpc'[m] \in Launching => lpc[m] \in Launching
    BY DEF IInv, RecoverLock, TypeOK, Launcher, Launching
  <2>3. UNCHANGED <<fireOf, wpc>> /\ \A m \in Launch : Job(m) \in Routine /\ m # Nobody
    BY Typed, ConstantsAssumption DEF IInv, RecoverLock, config
  <2>4. \A m \in Launch : HoldsFire(m)' => HoldsFire(m)
    BY <2>1, <2>2, <2>3 DEF HoldsFire, Job
  <2>5. ASSUME NEW f \in Fire, receipt'[f].outcome = "none"
        PROVE  receipt[f].outcome = "none"
    <3>1. CASE Recovers(l)
      BY <2>5, <3>1, Recovered DEF IInv, OthersKept
    <3> QED  BY <2>5, <3>1 DEF RecoverLock, Recovers
  <2> QED  BY <2>4, <2>5, FireKept DEF IInv, RecoverLock
<1>3. OrderInv'
  BY Typed DEF IInv, RecoverLock, Launcher, Write, Free, config, job, clock,
     OrderInv, Watching, Job, TypeOK
<1>4. LockInv'
  <2>1. \A r \in Routine : lock'[r] = lock[r] \/ (lock'[r] = Free /\ lock[r].old)
    BY Typed DEF IInv, RecoverLock, TypeOK
  <2>2. \A m \in Launch : lpc'[m] = lpc[m] \/ lpc'[m] = "mkdir"
    BY DEF IInv, RecoverLock, Launcher, TypeOK
  <2>3. UNCHANGED <<fireOf, wpc, up>>
    BY DEF RecoverLock, config, job
  <2>4. \A m \in Launch : Job(m) \in Routine
    BY Typed DEF IInv
  <2> QED  BY <2>1, <2>2, <2>3, <2>4, ConstantsAssumption DEF IInv, LockInv, OwnedBy, Job, Free
<1>5. BootInv'
  BY Typed DEF IInv, RecoverLock, Launcher, Write, Free, config, job, clock,
     BootInv, AgentOf, Job, TypeOK
<1>6. CareInv'
  <2>1. ASSUME NEW m \in Launch
        PROVE  /\ receipt[fireOf[m]].done => receipt'[fireOf[m]].done
               /\ OwnedBy(m) => OwnedBy(m)' \/ receipt'[fireOf[m]].done
    <3>1. CASE ~lock[Job(l)].old
      BY <3>1 DEF RecoverLock, OwnedBy, Job, config
    <3>2. CASE lock[Job(l)].old
      <4> DEFINE owner == lock[Job(l)]
      <4>1. owner.by \in Launch /\ Job(owner.by) = Job(l)
        BY <3>2, OldOwner DEF IInv
      <4>2. \A r \in Routine : r # Job(l) => lock'[r] = lock[r]
        BY <3>2, LockSet, FreeTyped DEF IInv, RecoverLock
      <4>3. CASE Recovers(l)
        BY <4>1, <4>2, <4>3, Recovered, Typed
        DEF IInv, OthersKept, OwnedBy, Job, RecoverLock, config
      <4>4. CASE ~Recovers(l)
        <5>1. UNCHANGED receipt /\ (owner.named => receipt[fireOf[owner.by]].done)
          BY <3>2, <4>4 DEF RecoverLock, Recovers
        <5> QED  BY <4>1, <4>2, <5>1, Typed DEF IInv, OwnedBy, Job, RecoverLock, config
      <4> QED  BY <4>3, <4>4
    <3> QED  BY <3>1, <3>2
  <2>2. UNCHANGED <<fireOf, wpc>>
    BY DEF RecoverLock, config
  <2> QED  BY <2>1, <2>2 DEF IInv, CareInv
<1>7. ReportInv'
  <2> DEFINE owner == lock[Job(l)]
  <2>1. UNCHANGED <<fireOf, agent, wpc, admitted, up, turn>>
    BY DEF RecoverLock, config, job
  <2>2. \A m \in Launch : lpc'[m] = "pane" => lpc[m] = "pane"
    BY DEF IInv, RecoverLock, Launcher, TypeOK
  <2>3. CASE UNCHANGED receipt
    BY <2>1, <2>2, <2>3 DEF IInv, ReportInv, QuietEnd, AgentOf, Job
  <2>4. CASE Recovers(l)
    <3>1. owner.by \in Launch /\ Job(owner.by) = Job(l) /\ owner.old
      BY <2>4, OldOwner DEF IInv, Recovers
    <3>2. HoldsFire(owner.by)
      BY <3>1 DEF HoldsFire
    <3>3. receipt'[fireOf[owner.by]].outcome = "interrupted" /\ OthersKept(owner.by)
      BY <2>4, Recovered DEF IInv
    <3>4. ASSUME NEW m \in Launch, lpc[m] = "pane" \/ wpc[m] \notin Ended
          PROVE  fireOf[m] # fireOf[owner.by]
      <4>1. HoldsFire(m)
        BY <3>4 DEF HoldsFire, Launching, Ended
      <4>2. ~lock[Job(m)].old
        BY <3>4 DEF IInv, LockInv
      <4> QED  BY <3>1, <3>2, <4>1, <4>2, Alone DEF IInv
    <3>5. \A m \in Launch : fireOf[m] \in Fire
      BY Typed DEF IInv
    <3> QED
      BY <2>1, <2>2, <3>3, <3>4, <3>5 DEF IInv, ReportInv, QuietEnd, AgentOf, Job, OthersKept
  <2> QED  BY <2>3, <2>4 DEF RecoverLock, Recovers
<1> QED  BY <1>1, <1>2, <1>3, <1>4, <1>5, <1>6, <1>7 DEF IInv

LEMMA MakeLockStep ==
    ASSUME NEW l \in Launch, IInv, MakeLock(l)
    PROVE  IInv'
<1>1. TypeOK'
  <2>1. /\ receipt' \in [Fire -> Receipt]
        /\ \A f \in Fire : receipt'[f].outcome \in Settled => receipt'[f].done
    <3>1. CASE Write(l, "overlap", TRUE, FALSE)
      <4>1. [outcome |-> "overlap", done |-> TRUE, attention |-> FALSE] \in Receipt
        BY DEF Receipt, Outcome, Quiet
      <4> QED  BY <3>1, <4>1, Written DEF IInv, Write, Settled
    <3>2. CASE UNCHANGED receipt
      BY <3>2 DEF IInv, TypeOK, Settled
    <3> QED  BY <3>1, <3>2 DEF MakeLock
  <2>2. lock' \in [Routine -> LockDir]
    <3>1. [lock[Job(l)] EXCEPT !.by = l] \in LockDir
      BY Typed DEF IInv, LockDir
    <3> QED  BY <3>1, LockSet DEF IInv, MakeLock, TypeOK
  <2> QED  BY <2>1, <2>2 DEF IInv, MakeLock, TypeOK, Launcher, Settled, config, job, clock
<1>2. FireInv'
  <2>1. \A r \in Routine : lock'[r].by = lock[r].by \/ (r = Job(l) /\ lock'[r].by = l)
    <3>1. lock[Job(l)] \in LockDir /\ lock \in [Routine -> LockDir] /\ Job(l) \in Routine
      BY Typed DEF IInv, TypeOK
    <3>2. lock' = lock \/ lock' = [lock EXCEPT ![Job(l)] = [@ EXCEPT !.by = l]]
      BY DEF MakeLock
    <3>3. [lock[Job(l)] EXCEPT !.by = l].by = l
      BY <3>1 DEF LockDir
    <3> QED  BY <3>1, <3>2, <3>3
  <2>2. \A m \in Launch : lpc'[m] \in Launching => lpc[m] \in Launching
    BY DEF IInv, MakeLock, TypeOK, Launcher, Launching
  <2>3. /\ UNCHANGED <<fireOf, wpc>> /\ HoldsFire(l)
        /\ \A m \in Launch : Job(m) \in Routine
    BY Typed DEF IInv, MakeLock, config, HoldsFire, Launching
  <2>4. \A m \in Launch : HoldsFire(m)' => HoldsFire(m)
    BY <2>1, <2>2, <2>3 DEF HoldsFire, Job
  <2>5. ASSUME NEW f \in Fire, receipt'[f].outcome = "none"
        PROVE  receipt[f].outcome = "none"
    BY <2>5, Typed DEF IInv, MakeLock, TypeOK, Write
  <2> QED  BY <2>4, <2>5, FireKept DEF IInv, MakeLock
<1>3. OrderInv'
  BY Typed DEF IInv, MakeLock, Launcher, Write, config, job, clock, OrderInv,
     Watching, Job, TypeOK
<1>4. LockInv'
  <2>1. UNCHANGED <<fireOf, wpc, up>>
    BY DEF MakeLock, config, job
  <2>2. \A m \in Launch : Job(m) \in Routine
    BY Typed DEF IInv
  <2>3. CASE lock[Job(l)].by # Nobody
    <3>1. UNCHANGED lock /\ \A m \in Launch : lpc'[m] = lpc[m] \/ lpc'[m] = "done"
      BY <2>3 DEF IInv, MakeLock, Launcher, TypeOK
    <3> QED  BY <2>1, <3>1 DEF IInv, LockInv, OwnedBy, Job
  <2>4. CASE lock[Job(l)].by = Nobody
    <3>1. ~lock[Job(l)].named /\ ~lock[Job(l)].old
      BY <2>2, <2>4 DEF IInv, LockInv
    <3>2. /\ lock'[Job(l)].by = l /\ ~lock'[Job(l)].named /\ ~lock'[Job(l)].old
          /\ \A r \in Routine : r # Job(l) => lock'[r] = lock[r]
      BY <2>2, <2>4, <3>1 DEF IInv, MakeLock, TypeOK, LockDir
    <3>3. lpc'[l] = "name" /\ wpc[l] = "none" /\ \A m \in Launch : m # l => lpc'[m] = lpc[m]
      BY <2>4 DEF IInv, MakeLock, Launcher, TypeOK, OrderInv
    <3>4. ASSUME NEW m \in Launch, m # l,
                 lpc[m] = "name" \/ lpc[m] \in {"space", "pane"} \/ wpc[m] \notin Ended
                   \/ (up[m] /\ wpc[m] = "gone")
          PROVE  Job(m) # Job(l)
      BY <2>4, <3>4, ConstantsAssumption DEF IInv, LockInv, OwnedBy
    <3> QED
      BY <2>1, <2>2, <3>2, <3>3, <3>4, ConstantsAssumption DEF IInv, LockInv, OwnedBy, Job, Ended
  <2> QED  BY <2>3, <2>4
<1>5. BootInv'
  BY Typed DEF IInv, MakeLock, Launcher, Write, config, job, clock, BootInv,
     AgentOf, Job, TypeOK
<1>6. CareInv'
  <2>1. UNCHANGED <<fireOf, wpc>> /\ HoldsFire(l) /\ wpc[l] = "none"
    BY DEF IInv, MakeLock, config, HoldsFire, Launching, OrderInv
  <2>2. ASSUME NEW m \in Launch, wpc[m] # "none"
        PROVE  receipt'[fireOf[m]] = receipt[fireOf[m]]
    <3>1. OthersKept(l)
      BY Typed DEF IInv, MakeLock, Write, TypeOK, OthersKept
    <3> QED  BY <2>1, <2>2, <3>1, WriteAlone DEF IInv, HoldsFire
  <2>3. \A r \in Routine : lock[r].by # Nobody => lock'[r] = lock[r]
    BY Typed DEF IInv, MakeLock, TypeOK
  <2>4. ASSUME NEW m \in Launch, OwnedBy(m)
        PROVE  OwnedBy(m)'
    <3>1. Job(m) \in Routine /\ m # Nobody
      BY Typed, ConstantsAssumption DEF IInv
    <3> QED  BY <2>1, <2>3, <2>4, <3>1 DEF OwnedBy, Job, MakeLock, config
  <2> QED  BY <2>1, <2>2, <2>4 DEF IInv, CareInv
<1>7. ReportInv'
  <2>1. UNCHANGED <<fireOf, agent, wpc, admitted, up, turn>> /\ HoldsFire(l) /\ wpc[l] = "none"
    BY DEF IInv, MakeLock, config, job, HoldsFire, Launching, OrderInv
  <2>2. \A m \in Launch : lpc'[m] = "pane" => lpc[m] = "pane" /\ m # l
    BY DEF IInv, MakeLock, Launcher, TypeOK
  <2>3. ASSUME NEW m \in Launch, lpc'[m] = "pane" \/ wpc[m] # "none"
        PROVE  receipt'[fireOf[m]] = receipt[fireOf[m]]
    <3>1. OthersKept(l)
      BY Typed DEF IInv, MakeLock, Write, TypeOK, OthersKept
    <3>2. HoldsFire(m) /\ m # l
      BY <2>1, <2>2, <2>3 DEF HoldsFire, Launching
    <3> QED  BY <2>1, <3>1, <3>2, WriteAlone DEF IInv
  <2>4. \A m \in Launch : wpc[m] = "none" => turn[m] = "none" /\ ~up[m]
    BY DEF IInv, OrderInv, Watching
  <2> QED  BY <2>1, <2>2, <2>3, <2>4 DEF IInv, ReportInv, QuietEnd, AgentOf, Job, Ended
<1> QED  BY <1>1, <1>2, <1>3, <1>4, <1>5, <1>6, <1>7 DEF IInv

LEMMA NameLockStep ==
    ASSUME NEW l \in Launch, IInv, NameLock(l)
    PROVE  IInv'
<1>1. TypeOK'
  <2>1. lock' \in [Routine -> LockDir]
    BY Typed DEF IInv, NameLock, TypeOK, LockDir
  <2> QED  BY <2>1 DEF IInv, NameLock, TypeOK, Launcher, config, job, clock
<1>2. FireInv'
  BY Typed DEF IInv, NameLock, Launcher, config, job, clock, FireInv,
     HoldsFire, Launching, Job, TypeOK
<1>3. OrderInv'
  BY Typed DEF IInv, NameLock, Launcher, config, job, clock, OrderInv,
     Watching, Job, TypeOK
<1>4. LockInv'
  <2>1. UNCHANGED <<fireOf, wpc, up>> /\ wpc[l] = "none"
    BY DEF IInv, NameLock, config, job, OrderInv
  <2>2. \A m \in Launch : Job(m) \in Routine
    BY Typed DEF IInv
  <2>3. lock[Job(l)].by = l /\ ~lock[Job(l)].old
    BY DEF IInv, LockInv, NameLock
  <2>4. /\ lock'[Job(l)].by = l /\ lock'[Job(l)].named /\ ~lock'[Job(l)].old
        /\ \A r \in Routine : r # Job(l) => lock'[r] = lock[r]
    BY <2>2, <2>3 DEF IInv, NameLock, TypeOK, LockDir
  <2>5. lpc'[l] = "space" /\ \A m \in Launch : m # l => lpc'[m] = lpc[m]
    BY DEF IInv, NameLock, Launcher, TypeOK
  <2>6. ASSUME NEW m \in Launch, m # l,
               lpc[m] = "name" \/ lpc[m] \in {"space", "pane"} \/ wpc[m] \notin Ended
                 \/ (up[m] /\ wpc[m] = "gone")
        PROVE  Job(m) # Job(l)
    BY <2>3, <2>6 DEF IInv, LockInv, OwnedBy
  <2> QED
    BY <2>1, <2>2, <2>4, <2>5, <2>6, ConstantsAssumption DEF IInv, LockInv, OwnedBy, Job, Ended
<1>5. BootInv'
  BY Typed DEF IInv, NameLock, Launcher, config, job, clock, BootInv, AgentOf,
     Job, TypeOK
<1>6. CareInv'
  BY Typed DEF IInv, NameLock, Launcher, config, job, clock, CareInv, OwnedBy,
     Ended, Job, TypeOK
<1>7. ReportInv'
  BY Typed DEF IInv, NameLock, Launcher, config, job, clock, ReportInv,
     QuietEnd, AgentOf, Ended, Job, TypeOK
<1> QED  BY <1>1, <1>2, <1>3, <1>4, <1>5, <1>6, <1>7 DEF IInv

LEMMA CreateSpaceStep ==
    ASSUME NEW l \in Launch, IInv, CreateSpace(l)
    PROVE  IInv'
<1>1. TypeOK'
  BY Typed DEF IInv, CreateSpace, Launcher, Write, config, job, clock, TypeOK,
     Job, Outcome, Quiet, Receipt, LockDir, Watching, Ended, Free
<1>2. FireInv'
  BY Typed DEF IInv, CreateSpace, Launcher, Write, config, job, clock,
     FireInv, HoldsFire, Launching, Job, TypeOK
<1>3. OrderInv'
  BY Typed DEF IInv, CreateSpace, Launcher, Write, config, job, clock,
     OrderInv, Watching, Job, TypeOK
<1>4. LockInv'
  BY Typed DEF IInv, CreateSpace, Launcher, Write, config, job, clock,
     LockInv, OwnedBy, Ended, Free, Job, TypeOK
<1>5. BootInv'
  BY Typed DEF IInv, CreateSpace, Launcher, Write, config, job, clock,
     BootInv, AgentOf, Job, TypeOK
<1>6. CareInv'
  BY Typed DEF IInv, CreateSpace, Launcher, Write, config, job, clock,
     CareInv, OwnedBy, Ended, Job, TypeOK, Watching, FireInv, HoldsFire,
     Launching, OrderInv
<1>7. ReportInv'
  <2>1. /\ UNCHANGED <<fireOf, agent, wpc, admitted, up, turn>>
        /\ HoldsFire(l) /\ wpc[l] = "none"
    BY DEF IInv, CreateSpace, config, job, HoldsFire, Launching, OrderInv
  <2>2. /\ receipt'[fireOf[l]].outcome = "queued"
        /\ \A f \in Fire : f # fireOf[l] => receipt'[f] = receipt[f]
    BY Typed DEF IInv, CreateSpace, TypeOK, Write
  <2>3. \A m \in Launch : m # l => lpc'[m] = lpc[m]
    BY DEF IInv, CreateSpace, Launcher, TypeOK
  <2>4. \A m \in Launch : fireOf[m] \in Fire
    BY Typed DEF IInv
  <2> QED
    BY <2>1, <2>2, <2>3, <2>4 DEF IInv, ReportInv, QuietEnd, AgentOf, Job, Ended
<1> QED  BY <1>1, <1>2, <1>3, <1>4, <1>5, <1>6, <1>7 DEF IInv

LEMMA ParentFailsStep ==
    ASSUME NEW l \in Launch, IInv, ParentFails(l)
    PROVE  IInv'
<1>1. TypeOK'
  BY Typed DEF IInv, ParentFails, Launcher, Write, ReleaseOwnership, OwnedBy,
     Free, config, job, clock, TypeOK, Job, Outcome, Quiet, Receipt, LockDir,
     Watching, Ended
<1>2. FireInv'
  <2>1. ASSUME NEW m \in Launch, HoldsFire(m)'
        PROVE  HoldsFire(m)
    BY <2>1, Typed, LockReleased, ConstantsAssumption DEF IInv, ParentFails,
       TypeOK, Launcher, HoldsFire, Launching, Free, Job, config
  <2>2. ASSUME NEW f \in Fire, receipt'[f].outcome = "none"
        PROVE  receipt[f].outcome = "none"
    BY <2>2, Typed DEF IInv, ParentFails, TypeOK, Write
  <2> QED  BY <2>1, <2>2, FireKept DEF IInv, ParentFails
<1>3. OrderInv'
  BY Typed DEF IInv, ParentFails, Launcher, Write, ReleaseOwnership, OwnedBy,
     Free, config, job, clock, OrderInv, Watching, Job, TypeOK
<1>4. LockInv'
  <2>1. UNCHANGED <<fireOf, wpc, up>>
    BY DEF ParentFails, config, job
  <2>2. \A m \in Launch : Job(m) \in Routine
    BY Typed DEF IInv
  <2>3. \A r \in Routine : lock'[r] = lock[r] \/ (lock'[r] = Free /\ lock[r].by = l)
    BY LockReleased DEF IInv, ParentFails
  <2>4. wpc[l] = "none" /\ lpc'[l] = "done" /\ \A m \in Launch : m # l => lpc'[m] = lpc[m]
    BY DEF IInv, ParentFails, Launcher, TypeOK, OrderInv
  <2> QED
    BY <2>1, <2>2, <2>3, <2>4, ConstantsAssumption DEF IInv, LockInv, OwnedBy, Job, Ended, Free
<1>5. BootInv'
  BY Typed DEF IInv, ParentFails, Launcher, Write, ReleaseOwnership, OwnedBy,
     Free, config, job, clock, BootInv, AgentOf, Job, TypeOK
<1>6. CareInv'
  BY Typed DEF IInv, ParentFails, Launcher, Write, ReleaseOwnership, OwnedBy,
     Free, config, job, clock, CareInv, Ended, Job, TypeOK
<1>7. ReportInv'
  BY Typed DEF IInv, ParentFails, Launcher, Write, ReleaseOwnership, OwnedBy,
     Free, config, job, clock, ReportInv, QuietEnd, AgentOf, Ended, Job,
     TypeOK, Watching, FireInv, HoldsFire, Launching, OrderInv
<1> QED  BY <1>1, <1>2, <1>3, <1>4, <1>5, <1>6, <1>7 DEF IInv

LEMMA RunWorkerStep ==
    ASSUME NEW l \in Launch, IInv, RunWorker(l)
    PROVE  IInv'
<1>1. TypeOK'
  BY Typed DEF IInv, RunWorker, Launcher, Worker, config, files, job, clock,
     TypeOK, Job
<1>2. FireInv'
  BY Typed DEF IInv, RunWorker, Launcher, Worker, config, files, job, clock,
     FireInv, HoldsFire, Launching, Job, TypeOK
<1>3. OrderInv'
  BY Typed DEF IInv, RunWorker, Launcher, Worker, config, files, job, clock,
     OrderInv, Watching, Job, TypeOK
<1>4. LockInv'
  BY Typed DEF IInv, RunWorker, Launcher, Worker, config, files, job, clock,
     LockInv, OwnedBy, Ended, Free, Job, TypeOK
<1>5. BootInv'
  BY Typed DEF IInv, RunWorker, Launcher, Worker, config, files, job, clock,
     BootInv, AgentOf, Job, TypeOK
<1>6. CareInv'
  BY Typed DEF IInv, RunWorker, Launcher, Worker, config, files, job, clock,
     CareInv, OwnedBy, Ended, Job, TypeOK
<1>7. ReportInv'
  BY Typed DEF IInv, RunWorker, Launcher, Worker, config, files, job, clock,
     ReportInv, QuietEnd, AgentOf, Ended, Job, TypeOK
<1> QED  BY <1>1, <1>2, <1>3, <1>4, <1>5, <1>6, <1>7 DEF IInv

LEMMA BeginStep ==
    ASSUME NEW l \in Launch, IInv, Begin(l)
    PROVE  IInv'
<1>1. TypeOK'
  <2>1. /\ receipt' \in [Fire -> Receipt]
        /\ \A f \in Fire : receipt'[f].outcome \in Settled => receipt'[f].done
    <3>1. CASE Write(l, "starting", FALSE, FALSE)
      <4>1. [outcome |-> "starting", done |-> FALSE, attention |-> FALSE] \in Receipt
        BY DEF Receipt, Outcome, Quiet
      <4> QED  BY <3>1, <4>1, Written DEF IInv, Write, Settled
    <3>2. CASE UNCHANGED receipt
      BY <3>2 DEF IInv, TypeOK, Settled
    <3> QED  BY <3>1, <3>2 DEF Begin
  <2> QED  BY <2>1 DEF IInv, Begin, TypeOK, Worker, Watching, Ended, Settled, config, job, clock
<1>2. FireInv'
  <2>1. ASSUME NEW m \in Launch, HoldsFire(m)'
        PROVE  HoldsFire(m)
    BY <2>1 DEF IInv, Begin, TypeOK, Worker, HoldsFire, Launching, Job, config
  <2>2. ASSUME NEW f \in Fire, receipt'[f].outcome = "none"
        PROVE  receipt[f].outcome = "none"
    BY <2>2, Typed DEF IInv, Begin, TypeOK, Write
  <2> QED  BY <2>1, <2>2, FireKept DEF IInv, Begin
<1>3. OrderInv'
  BY Typed DEF IInv, Begin, OwnedBy, Write, Worker, config, job, clock,
     OrderInv, Watching, Job, TypeOK
<1>4. LockInv'
  BY Typed DEF IInv, Begin, OwnedBy, Write, Worker, config, job, clock,
     LockInv, Ended, Free, Job, TypeOK
<1>5. BootInv'
  BY Typed DEF IInv, Begin, OwnedBy, Write, Worker, config, job, clock,
     BootInv, AgentOf, Job, TypeOK
<1>6. CareInv'
  <2>1. OwnedBy(l) /\ HoldsFire(l)
    BY DEF IInv, LockInv, Begin, Ended, OwnedBy, HoldsFire
  <2>2. UNCHANGED <<fireOf, lock>> /\ wpc' = [wpc EXCEPT ![l] = "check"]
    BY <2>1 DEF Begin, Worker, config
  <2>3. ASSUME NEW m \in Launch, wpc[m] # "none", m # l
        PROVE  receipt'[fireOf[m]] = receipt[fireOf[m]]
    <3>1. OthersKept(l)
      BY Typed DEF IInv, Begin, Write, TypeOK, OthersKept
    <3> QED  BY <2>1, <2>3, <3>1, WriteAlone DEF IInv, HoldsFire
  <2> QED  BY <2>2, <2>3 DEF IInv, CareInv, OwnedBy, Job, TypeOK
<1>7. ReportInv'
  BY Typed DEF IInv, Begin, OwnedBy, Write, Worker, config, job, clock,
     ReportInv, QuietEnd, AgentOf, Ended, Job, TypeOK
<1> QED  BY <1>1, <1>2, <1>3, <1>4, <1>5, <1>6, <1>7 DEF IInv

LEMMA CheckBootstrapStep ==
    ASSUME NEW l \in Launch, IInv, CheckBootstrap(l)
    PROVE  IInv'
<1>1. TypeOK'
  BY Typed DEF IInv, CheckBootstrap, Worker, config, files, job, clock,
     TypeOK, Job
<1>2. FireInv'
  BY Typed DEF IInv, CheckBootstrap, Worker, config, files, job, clock,
     FireInv, HoldsFire, Launching, Job, TypeOK
<1>3. OrderInv'
  BY Typed DEF IInv, CheckBootstrap, Worker, config, files, job, clock,
     OrderInv, Watching, Job, TypeOK
<1>4. LockInv'
  BY Typed DEF IInv, CheckBootstrap, Worker, config, files, job, clock,
     LockInv, OwnedBy, Ended, Free, Job, TypeOK
<1>5. BootInv'
  BY Typed DEF IInv, CheckBootstrap, Worker, config, files, job, clock,
     BootInv, AgentOf, Job, TypeOK
<1>6. CareInv'
  BY Typed DEF IInv, CheckBootstrap, Worker, config, files, job, clock,
     CareInv, OwnedBy, Ended, Job, TypeOK
<1>7. ReportInv'
  BY Typed DEF IInv, CheckBootstrap, Worker, config, files, job, clock,
     ReportInv, QuietEnd, AgentOf, Ended, Job, TypeOK
<1> QED  BY <1>1, <1>2, <1>3, <1>4, <1>5, <1>6, <1>7 DEF IInv

LEMMA RecoverBootstrapStep ==
    ASSUME NEW l \in Launch, IInv, RecoverBootstrap(l)
    PROVE  IInv'
<1>1. TypeOK'
  BY Typed DEF IInv, RecoverBootstrap, StillOld, Worker, Free, config, job,
     clock, TypeOK, Job, Outcome, Quiet, Receipt, LockDir, Watching, Ended
<1>2. FireInv'
  BY Typed DEF IInv, RecoverBootstrap, StillOld, Worker, Free, config, job,
     clock, FireInv, HoldsFire, Launching, Job, TypeOK
<1>3. OrderInv'
  BY Typed DEF IInv, RecoverBootstrap, StillOld, Worker, Free, config, job,
     clock, OrderInv, Watching, Job, TypeOK
<1>4. LockInv'
  BY Typed DEF IInv, RecoverBootstrap, StillOld, Worker, Free, config, job,
     clock, LockInv, OwnedBy, Ended, Job, TypeOK
<1>5. BootInv'
  BY Typed DEF IInv, RecoverBootstrap, StillOld, Worker, Free, config, job,
     clock, BootInv, AgentOf, Job, TypeOK
<1>6. CareInv'
  BY Typed DEF IInv, RecoverBootstrap, StillOld, Worker, Free, config, job,
     clock, CareInv, OwnedBy, Ended, Job, TypeOK
<1>7. ReportInv'
  BY Typed DEF IInv, RecoverBootstrap, StillOld, Worker, Free, config, job,
     clock, ReportInv, QuietEnd, AgentOf, Ended, Job, TypeOK
<1> QED  BY <1>1, <1>2, <1>3, <1>4, <1>5, <1>6, <1>7 DEF IInv

LEMMA AcquireBootstrapStep ==
    ASSUME NEW l \in Launch, IInv, AcquireBootstrap(l)
    PROVE  IInv'
<1>1. TypeOK'
  BY Typed DEF IInv, AcquireBootstrap, Worker, config, job, clock, TypeOK,
     Job, Outcome, Quiet, Receipt, LockDir, Watching, Ended, Free
<1>2. FireInv'
  BY Typed DEF IInv, AcquireBootstrap, Worker, config, job, clock, FireInv,
     HoldsFire, Launching, Job, TypeOK
<1>3. OrderInv'
  BY Typed DEF IInv, AcquireBootstrap, Worker, config, job, clock, OrderInv,
     Watching, Job, TypeOK
<1>4. LockInv'
  BY Typed DEF IInv, AcquireBootstrap, Worker, config, job, clock, LockInv,
     OwnedBy, Ended, Free, Job, TypeOK
<1>5. BootInv'
  <2>1. UNCHANGED <<fireOf, agent, auth>>
    BY DEF AcquireBootstrap, config
  <2>2. /\ wpc'[l] = "select" /\ \A m \in Launch : m # l => wpc'[m] = wpc[m]
        /\ bootstrap' = [by |-> l, named |-> FALSE, old |-> FALSE]
    BY DEF IInv, AcquireBootstrap, Worker, TypeOK
  <2>3. bootstrap.by = Nobody
    BY DEF AcquireBootstrap
  <2> QED  BY <2>1, <2>2, <2>3, ConstantsAssumption DEF IInv, BootInv, AgentOf, Job
<1>6. CareInv'
  BY Typed DEF IInv, AcquireBootstrap, Worker, config, job, clock, CareInv,
     OwnedBy, Ended, Job, TypeOK
<1>7. ReportInv'
  BY Typed DEF IInv, AcquireBootstrap, Worker, config, job, clock, ReportInv,
     QuietEnd, AgentOf, Ended, Job, TypeOK
<1> QED  BY <1>1, <1>2, <1>3, <1>4, <1>5, <1>6, <1>7 DEF IInv

LEMMA SelectStep ==
    ASSUME NEW l \in Launch, IInv, Select(l)
    PROVE  IInv'
<1>1. TypeOK'
  BY Typed DEF IInv, Select, Worker, config, job, clock, TypeOK, Job
<1>2. FireInv'
  BY Typed DEF IInv, Select, Worker, config, job, clock, FireInv, HoldsFire,
     Launching, Job, TypeOK
<1>3. OrderInv'
  BY Typed DEF IInv, Select, Worker, config, job, clock, OrderInv, Watching,
     Job, TypeOK
<1>4. LockInv'
  BY Typed DEF IInv, Select, Worker, config, job, clock, LockInv, OwnedBy,
     Ended, Free, Job, TypeOK
<1>5. BootInv'
  BY Typed DEF IInv, Select, Worker, config, job, clock, BootInv, AgentOf,
     Job, TypeOK
<1>6. CareInv'
  BY Typed DEF IInv, Select, Worker, config, job, clock, CareInv, OwnedBy,
     Ended, Job, TypeOK
<1>7. ReportInv'
  BY Typed DEF IInv, Select, Worker, config, job, clock, ReportInv, QuietEnd,
     AgentOf, Ended, Job, TypeOK
<1> QED  BY <1>1, <1>2, <1>3, <1>4, <1>5, <1>6, <1>7 DEF IInv

LEMMA SubmitStep ==
    ASSUME NEW l \in Launch, IInv, Submit(l)
    PROVE  IInv'
<1>1. TypeOK'
  <2>1. bootstrap' \in LockDir
    BY FreeTyped DEF IInv, TypeOK, Submit, ReleaseBootstrap
  <2>2. admitted' \in [Launch -> BOOLEAN]
    BY DEF IInv, TypeOK, Submit
  <2> QED  BY <2>1, <2>2 DEF IInv, TypeOK, Submit, Worker, Watching, config, clock
<1>2. FireInv'
  BY Typed DEF IInv, Submit, Worker, ReleaseBootstrap, Free, config, clock,
     FireInv, HoldsFire, Launching, Job, TypeOK
<1>3. OrderInv'
  BY Typed DEF IInv, Submit, Worker, ReleaseBootstrap, Free, config, clock,
     OrderInv, Watching, Job, TypeOK
<1>4. LockInv'
  <2>1. /\ UNCHANGED <<config, lock, lpc>> /\ wpc[l] \notin Ended
        /\ \A m \in Launch : m # l => wpc'[m] = wpc[m] /\ up'[m] = up[m]
    BY DEF IInv, TypeOK, Submit, Worker, Ended
  <2> QED  BY <2>1 DEF IInv, LockInv, OwnedBy, Job, config
<1>5. BootInv'
  BY Typed DEF IInv, Submit, Worker, ReleaseBootstrap, Free, config, clock,
     BootInv, AgentOf, Job, TypeOK
<1>6. CareInv'
  BY Typed DEF IInv, Submit, Worker, ReleaseBootstrap, Free, config, clock,
     CareInv, OwnedBy, Ended, Job, TypeOK
<1>7. ReportInv'
  <2>1. UNCHANGED <<fireOf, agent, lpc, receipt, turn>>
    BY DEF Submit, config
  <2>2. /\ wpc'[l] = "observe" /\ up'[l] /\ (AgentOf(l) = "prime" => admitted'[l])
        /\ \A m \in Launch : m # l => wpc'[m] = wpc[m] /\ up'[m] = up[m] /\ admitted'[m] = admitted[m]
    BY DEF IInv, Submit, Worker, TypeOK
  <2>3. receipt[fireOf[l]].outcome \in {"queued", "starting", "prompt_admitted", "needs_attention"}
    BY DEF IInv, ReportInv, Submit, Ended
  <2>4. ASSUME NEW m \in Launch
        PROVE  /\ wpc'[m] \in {"observe", "admitted"} /\ AgentOf(m) = "prime" => admitted'[m]
               /\ wpc'[m] = "stopping" => AgentOf(m) = "codex"
    BY <2>2 DEF IInv, ReportInv
  <2>5. ASSUME NEW m \in Launch, lpc[m] = "pane" \/ wpc'[m] \notin Ended
        PROVE  receipt[fireOf[m]].outcome \in {"queued", "starting", "prompt_admitted", "needs_attention"}
    BY <2>2, <2>3, <2>5 DEF IInv, ReportInv
  <2>6. ASSUME NEW m \in Launch, QuietEnd(m), AgentOf(m) # "codex"
        PROVE  turn[m] = "none" /\ ~up'[m]
    BY <2>2, <2>3, <2>6 DEF IInv, ReportInv, QuietEnd
  <2> QED  BY <2>1, <2>4, <2>5, <2>6 DEF ReportInv, QuietEnd, AgentOf, Job
<1> QED  BY <1>1, <1>2, <1>3, <1>4, <1>5, <1>6, <1>7 DEF IInv

LEMMA BeginTurnStep ==
    ASSUME NEW l \in Launch, IInv, BeginTurn(l)
    PROVE  IInv'
<1>1. TypeOK'
  BY Typed DEF IInv, BeginTurn, config, files, clock, TypeOK, Job
<1>2. FireInv'
  BY Typed DEF IInv, BeginTurn, config, files, clock, FireInv, HoldsFire,
     Launching, Job, TypeOK
<1>3. OrderInv'
  BY Typed DEF IInv, BeginTurn, config, files, clock, OrderInv, Watching, Job,
     TypeOK
<1>4. LockInv'
  BY Typed DEF IInv, BeginTurn, config, files, clock, LockInv, OwnedBy, Ended,
     Free, Job, TypeOK
<1>5. BootInv'
  BY Typed DEF IInv, BeginTurn, config, files, clock, BootInv, AgentOf, Job,
     TypeOK
<1>6. CareInv'
  BY Typed DEF IInv, BeginTurn, config, files, clock, CareInv, OwnedBy, Ended,
     Job, TypeOK
<1>7. ReportInv'
  BY Typed DEF IInv, BeginTurn, config, files, clock, ReportInv, QuietEnd,
     AgentOf, Ended, Job, TypeOK
<1> QED  BY <1>1, <1>2, <1>3, <1>4, <1>5, <1>6, <1>7 DEF IInv

LEMMA EndTurnStep ==
    ASSUME NEW l \in Launch, IInv, EndTurn(l)
    PROVE  IInv'
<1>1. TypeOK'
  BY Typed DEF IInv, EndTurn, config, files, clock, TypeOK, Job
<1>2. FireInv'
  BY Typed DEF IInv, EndTurn, config, files, clock, FireInv, HoldsFire,
     Launching, Job, TypeOK
<1>3. OrderInv'
  BY Typed DEF IInv, EndTurn, config, files, clock, OrderInv, Watching, Job,
     TypeOK
<1>4. LockInv'
  BY Typed DEF IInv, EndTurn, config, files, clock, LockInv, OwnedBy, Ended,
     Free, Job, TypeOK
<1>5. BootInv'
  BY Typed DEF IInv, EndTurn, config, files, clock, BootInv, AgentOf, Job,
     TypeOK
<1>6. CareInv'
  BY Typed DEF IInv, EndTurn, config, files, clock, CareInv, OwnedBy, Ended,
     Job, TypeOK
<1>7. ReportInv'
  BY Typed DEF IInv, EndTurn, config, files, clock, ReportInv, QuietEnd,
     AgentOf, Ended, Job, TypeOK
<1> QED  BY <1>1, <1>2, <1>3, <1>4, <1>5, <1>6, <1>7 DEF IInv

LEMMA ExitStep ==
    ASSUME NEW l \in Launch, IInv, Exit(l)
    PROVE  IInv'
<1>1. TypeOK'
  BY Typed DEF IInv, Exit, config, files, clock, TypeOK, Job
<1>2. FireInv'
  BY Typed DEF IInv, Exit, config, files, clock, FireInv, HoldsFire,
     Launching, Job, TypeOK
<1>3. OrderInv'
  BY Typed DEF IInv, Exit, config, files, clock, OrderInv, Watching, Job,
     TypeOK
<1>4. LockInv'
  BY Typed DEF IInv, Exit, config, files, clock, LockInv, OwnedBy, Ended,
     Free, Job, TypeOK
<1>5. BootInv'
  BY Typed DEF IInv, Exit, config, files, clock, BootInv, AgentOf, Job, TypeOK
<1>6. CareInv'
  BY Typed DEF IInv, Exit, config, files, clock, CareInv, OwnedBy, Ended, Job,
     TypeOK
<1>7. ReportInv'
  BY Typed DEF IInv, Exit, config, files, clock, ReportInv, QuietEnd, AgentOf,
     Ended, Job, TypeOK
<1> QED  BY <1>1, <1>2, <1>3, <1>4, <1>5, <1>6, <1>7 DEF IInv

LEMMA AdmitStep ==
    ASSUME NEW l \in Launch, IInv, Admit(l)
    PROVE  IInv'
<1>1. TypeOK'
  BY Typed DEF IInv, Admit, Write, ReleaseBootstrap, Worker, Free, config,
     job, clock, TypeOK, Job, Outcome, Quiet, Receipt, LockDir, Watching,
     Ended
<1>2. FireInv'
  BY Typed DEF IInv, Admit, Write, ReleaseBootstrap, Worker, Free, config,
     job, clock, FireInv, HoldsFire, Launching, Job, TypeOK
<1>3. OrderInv'
  BY Typed DEF IInv, Admit, Write, ReleaseBootstrap, Worker, Free, config,
     job, clock, OrderInv, Watching, Job, TypeOK
<1>4. LockInv'
  BY Typed DEF IInv, Admit, Write, ReleaseBootstrap, Worker, Free, config,
     job, clock, LockInv, OwnedBy, Ended, Job, TypeOK
<1>5. BootInv'
  BY Typed DEF IInv, Admit, Write, ReleaseBootstrap, Worker, Free, config,
     job, clock, BootInv, AgentOf, Job, TypeOK
<1>6. CareInv'
  BY Typed DEF IInv, Admit, Write, ReleaseBootstrap, Worker, Free, config,
     job, clock, CareInv, OwnedBy, Ended, Job, TypeOK, Watching, FireInv,
     HoldsFire, Launching, OrderInv
<1>7. ReportInv'
  BY Typed DEF IInv, Admit, Write, ReleaseBootstrap, Worker, Free, config,
     job, clock, ReportInv, QuietEnd, AgentOf, Ended, Job, TypeOK
<1> QED  BY <1>1, <1>2, <1>3, <1>4, <1>5, <1>6, <1>7 DEF IInv

LEMMA SettleStep ==
    ASSUME NEW l \in Launch, IInv, Settle(l)
    PROVE  IInv'
<1>1. TypeOK'
  <2>1. /\ receipt' \in [Fire -> Receipt]
        /\ \A f \in Fire : receipt'[f].outcome \in Settled => receipt'[f].done
    <3>1. CASE Write(l, "completed", TRUE, FALSE)
      <4>1. [outcome |-> "completed", done |-> TRUE, attention |-> FALSE] \in Receipt
        BY DEF Receipt, Outcome, Quiet
      <4> QED  BY <3>1, <4>1, Written DEF IInv, Write, Settled
    <3>2. CASE Write(l, "needs_attention", TRUE, TRUE)
      <4>1. [outcome |-> "needs_attention", done |-> TRUE, attention |-> TRUE] \in Receipt
        BY DEF Receipt, Outcome, Quiet
      <4> QED  BY <3>2, <4>1, Written DEF IInv, Write, Settled
    <3> QED  BY <3>1, <3>2 DEF Settle
  <2>2. lock' \in [Routine -> LockDir]
    BY LockReleased DEF IInv, Settle
  <2> QED  BY <2>1, <2>2 DEF IInv, Settle, TypeOK, Worker, Ended, Settled, config, job, clock
<1>2. FireInv'
  <2>1. ASSUME NEW m \in Launch, HoldsFire(m)'
        PROVE  HoldsFire(m)
    BY <2>1, Typed, LockReleased, ConstantsAssumption DEF IInv, Settle,
       TypeOK, Worker, HoldsFire, Launching, Free, Job, config
  <2>2. ASSUME NEW f \in Fire, receipt'[f].outcome = "none"
        PROVE  receipt[f].outcome = "none"
    BY <2>2, Typed DEF IInv, Settle, TypeOK, Write
  <2> QED  BY <2>1, <2>2, FireKept DEF IInv, Settle
<1>3. OrderInv'
  BY Typed DEF IInv, Settle, Write, ReleaseOwnership, OwnedBy, Worker, Free,
     config, job, clock, OrderInv, Watching, Job, TypeOK
<1>4. LockInv'
  <2>1. UNCHANGED <<fireOf, lpc, up>>
    BY DEF Settle, config, job
  <2>2. \A m \in Launch : Job(m) \in Routine
    BY Typed DEF IInv
  <2>3. \A r \in Routine : lock'[r] = lock[r] \/ (lock'[r] = Free /\ lock[r].by = l)
    BY LockReleased DEF IInv, Settle
  <2>4. lpc[l] = "done" /\ wpc'[l] = "after" /\ \A m \in Launch : m # l => wpc'[m] = wpc[m]
    BY DEF IInv, Settle, Worker, TypeOK, OrderInv
  <2> QED
    BY <2>1, <2>2, <2>3, <2>4, ConstantsAssumption DEF IInv, LockInv, OwnedBy, Job, Ended, Free
<1>5. BootInv'
  BY Typed DEF IInv, Settle, Write, ReleaseOwnership, OwnedBy, Worker, Free,
     config, job, clock, BootInv, AgentOf, Job, TypeOK
<1>6. CareInv'
  BY Typed DEF IInv, Settle, Write, ReleaseOwnership, OwnedBy, Worker, Free,
     config, job, clock, CareInv, Ended, Job, TypeOK
<1>7. ReportInv'
  BY Typed DEF IInv, Settle, Write, ReleaseOwnership, OwnedBy, Worker, Free,
     config, job, clock, ReportInv, QuietEnd, AgentOf, Ended, Job, TypeOK,
     Watching, FireInv, HoldsFire, Launching, OrderInv
<1> QED  BY <1>1, <1>2, <1>3, <1>4, <1>5, <1>6, <1>7 DEF IInv

LEMMA LateStep ==
    ASSUME NEW l \in Launch, IInv, Late(l)
    PROVE  IInv'
<1>1. TypeOK'
  BY Typed DEF IInv, Late, Write, config, job, clock, TypeOK, Job, Outcome,
     Quiet, Receipt, LockDir, Watching, Ended, Free
<1>2. FireInv'
  BY Typed DEF IInv, Late, Write, config, job, clock, FireInv, HoldsFire,
     Launching, Job, TypeOK
<1>3. OrderInv'
  BY Typed DEF IInv, Late, Write, config, job, clock, OrderInv, Watching, Job,
     TypeOK
<1>4. LockInv'
  BY Typed DEF IInv, Late, Write, config, job, clock, LockInv, OwnedBy, Ended,
     Free, Job, TypeOK
<1>5. BootInv'
  BY Typed DEF IInv, Late, Write, config, job, clock, BootInv, AgentOf, Job,
     TypeOK
<1>6. CareInv'
  BY Typed DEF IInv, Late, Write, config, job, clock, CareInv, OwnedBy, Ended,
     Job, TypeOK, Watching, FireInv, HoldsFire, Launching, OrderInv
<1>7. ReportInv'
  BY Typed DEF IInv, Late, Write, config, job, clock, ReportInv, QuietEnd,
     AgentOf, Ended, Job, TypeOK
<1> QED  BY <1>1, <1>2, <1>3, <1>4, <1>5, <1>6, <1>7 DEF IInv

LEMMA GoBlindStep ==
    ASSUME NEW l \in Launch, IInv, GoBlind(l)
    PROVE  IInv'
<1>1. TypeOK'
  BY Typed DEF IInv, GoBlind, Write, Worker, config, job, clock, TypeOK, Job,
     Outcome, Quiet, Receipt, LockDir, Watching, Ended, Free
<1>2. FireInv'
  BY Typed DEF IInv, GoBlind, Write, Worker, config, job, clock, FireInv,
     HoldsFire, Launching, Job, TypeOK
<1>3. OrderInv'
  BY Typed DEF IInv, GoBlind, Write, Worker, config, job, clock, OrderInv,
     Watching, Job, TypeOK
<1>4. LockInv'
  BY Typed DEF IInv, GoBlind, Write, Worker, config, job, clock, LockInv,
     OwnedBy, Ended, Free, Job, TypeOK
<1>5. BootInv'
  BY Typed DEF IInv, GoBlind, Write, Worker, config, job, clock, BootInv,
     AgentOf, Job, TypeOK
<1>6. CareInv'
  BY Typed DEF IInv, GoBlind, Write, Worker, config, job, clock, CareInv,
     OwnedBy, Ended, Job, TypeOK, Watching, FireInv, HoldsFire, Launching,
     OrderInv
<1>7. ReportInv'
  BY Typed DEF IInv, GoBlind, Write, Worker, config, job, clock, ReportInv,
     QuietEnd, AgentOf, Ended, Job, TypeOK
<1> QED  BY <1>1, <1>2, <1>3, <1>4, <1>5, <1>6, <1>7 DEF IInv

LEMMA SessionEndsStep ==
    ASSUME NEW l \in Launch, IInv, SessionEnds(l)
    PROVE  IInv'
<1>1. TypeOK'
  BY Typed DEF IInv, SessionEnds, AllRead, GivenUp, Write, ReleaseOwnership,
     OwnedBy, Worker, Free, config, job, clock, TypeOK, Job, Outcome, Quiet,
     Receipt, LockDir, Watching, Ended
<1>2. FireInv'
  <2>1. ASSUME NEW m \in Launch, HoldsFire(m)'
        PROVE  HoldsFire(m)
    BY <2>1, Typed, LockReleased, ConstantsAssumption DEF IInv, SessionEnds,
       TypeOK, Worker, AllRead, HoldsFire, Launching, Free, Job, config
  <2>2. ASSUME NEW f \in Fire, receipt'[f].outcome = "none"
        PROVE  receipt[f].outcome = "none"
    BY <2>2, Typed DEF IInv, SessionEnds, TypeOK, Write, GivenUp
  <2> QED  BY <2>1, <2>2, FireKept DEF IInv, SessionEnds
<1>3. OrderInv'
  BY Typed DEF IInv, SessionEnds, AllRead, GivenUp, Write, ReleaseOwnership,
     OwnedBy, Worker, Free, config, job, clock, OrderInv, Watching, Job,
     TypeOK
<1>4. LockInv'
  <2>1. UNCHANGED <<fireOf, lpc, up>>
    BY DEF SessionEnds, config, job
  <2>2. \A m \in Launch : Job(m) \in Routine
    BY Typed DEF IInv
  <2>3. \A r \in Routine : lock'[r] = lock[r] \/ (lock'[r] = Free /\ lock[r].by = l)
    BY LockReleased DEF IInv, SessionEnds
  <2>4. lpc[l] = "done" /\ wpc'[l] = "after" /\ \A m \in Launch : m # l => wpc'[m] = wpc[m]
    BY DEF IInv, SessionEnds, Worker, AllRead, TypeOK, OrderInv
  <2> QED
    BY <2>1, <2>2, <2>3, <2>4, ConstantsAssumption DEF IInv, LockInv, OwnedBy, Job, Ended, Free
<1>5. BootInv'
  BY Typed DEF IInv, SessionEnds, AllRead, GivenUp, Write, ReleaseOwnership,
     OwnedBy, Worker, Free, config, job, clock, BootInv, AgentOf, Job, TypeOK
<1>6. CareInv'
  BY Typed DEF IInv, SessionEnds, AllRead, GivenUp, Write, ReleaseOwnership,
     OwnedBy, Worker, Free, config, job, clock, CareInv, Ended, Job, TypeOK
<1>7. ReportInv'
  BY Typed DEF IInv, SessionEnds, AllRead, GivenUp, Write, ReleaseOwnership,
     OwnedBy, Worker, Free, config, job, clock, ReportInv, QuietEnd, AgentOf,
     Ended, Job, TypeOK, Watching, FireInv, HoldsFire, Launching, OrderInv
<1> QED  BY <1>1, <1>2, <1>3, <1>4, <1>5, <1>6, <1>7 DEF IInv

LEMMA StopCodexStep ==
    ASSUME NEW l \in Launch, IInv, StopCodex(l)
    PROVE  IInv'
<1>1. TypeOK'
  BY Typed DEF IInv, StopCodex, Worker, config, files, job, clock, TypeOK,
     Job, Watching, Ended
<1>2. FireInv'
  BY Typed DEF IInv, StopCodex, Worker, config, files, job, clock, FireInv,
     HoldsFire, Launching, Job, TypeOK
<1>3. OrderInv'
  BY Typed DEF IInv, StopCodex, Worker, config, files, job, clock, OrderInv,
     Watching, Job, TypeOK
<1>4. LockInv'
  BY Typed DEF IInv, StopCodex, Worker, config, files, job, clock, LockInv,
     OwnedBy, Ended, Free, Job, TypeOK
<1>5. BootInv'
  BY Typed DEF IInv, StopCodex, Worker, config, files, job, clock, BootInv,
     AgentOf, Job, TypeOK
<1>6. CareInv'
  BY Typed DEF IInv, StopCodex, Worker, config, files, job, clock, CareInv,
     OwnedBy, Ended, Job, TypeOK
<1>7. ReportInv'
  BY Typed DEF IInv, StopCodex, Worker, config, files, job, clock, ReportInv,
     QuietEnd, AgentOf, Ended, Job, TypeOK
<1> QED  BY <1>1, <1>2, <1>3, <1>4, <1>5, <1>6, <1>7 DEF IInv

LEMMA FailStep ==
    ASSUME NEW l \in Launch, IInv, Fail(l)
    PROVE  IInv'
<1>1. TypeOK'
  BY Typed DEF IInv, Fail, CanFail, GivenUp, Write, ReleaseBootstrap,
     ReleaseOwnership, OwnedBy, Worker, Free, config, job, clock, TypeOK, Job,
     Outcome, Quiet, Receipt, LockDir, Watching, Ended
<1>2. FireInv'
  <2>1. ASSUME NEW m \in Launch, HoldsFire(m)'
        PROVE  HoldsFire(m)
    BY <2>1, Typed, LockReleased, ConstantsAssumption DEF IInv, Fail, TypeOK,
       Worker, CanFail, HoldsFire, Launching, Free, Job, config
  <2>2. ASSUME NEW f \in Fire, receipt'[f].outcome = "none"
        PROVE  receipt[f].outcome = "none"
    BY <2>2, Typed DEF IInv, Fail, TypeOK, Write, GivenUp
  <2> QED  BY <2>1, <2>2, FireKept DEF IInv, Fail
<1>3. OrderInv'
  BY Typed DEF IInv, Fail, CanFail, GivenUp, Write, ReleaseBootstrap,
     ReleaseOwnership, OwnedBy, Worker, Free, config, job, clock, OrderInv,
     Watching, Job, TypeOK
<1>4. LockInv'
  <2>1. UNCHANGED <<fireOf, lpc, up>>
    BY DEF Fail, config, job
  <2>2. \A m \in Launch : Job(m) \in Routine
    BY Typed DEF IInv
  <2>3. \A r \in Routine : lock'[r] = lock[r] \/ (lock'[r] = Free /\ lock[r].by = l)
    BY LockReleased DEF IInv, Fail
  <2>4. lpc[l] = "done" /\ wpc'[l] = "after" /\ \A m \in Launch : m # l => wpc'[m] = wpc[m]
    BY DEF IInv, Fail, Worker, CanFail, TypeOK, OrderInv
  <2> QED
    BY <2>1, <2>2, <2>3, <2>4, ConstantsAssumption DEF IInv, LockInv, OwnedBy, Job, Ended, Free
<1>5. BootInv'
  BY Typed DEF IInv, Fail, CanFail, GivenUp, Write, ReleaseBootstrap,
     ReleaseOwnership, OwnedBy, Worker, Free, config, job, clock, BootInv,
     AgentOf, Job, TypeOK
<1>6. CareInv'
  BY Typed DEF IInv, Fail, CanFail, GivenUp, Write, ReleaseBootstrap,
     ReleaseOwnership, OwnedBy, Worker, Free, config, job, clock, CareInv,
     Ended, Job, TypeOK
<1>7. ReportInv'
  BY Typed DEF IInv, Fail, CanFail, GivenUp, Write, ReleaseBootstrap,
     ReleaseOwnership, OwnedBy, Worker, Free, config, job, clock, ReportInv,
     QuietEnd, AgentOf, Ended, Job, TypeOK, Watching, FireInv, HoldsFire,
     Launching, OrderInv
<1> QED  BY <1>1, <1>2, <1>3, <1>4, <1>5, <1>6, <1>7 DEF IInv

LEMMA KillStep ==
    ASSUME NEW l \in Launch, IInv, Kill(l)
    PROVE  IInv'
<1>1. TypeOK'
  <2>1. kills' \in 0 .. MaxKills
    BY ConstantsAssumption DEF IInv, Kill, TypeOK
  <2> QED  BY <2>1 DEF IInv, Kill, TypeOK, Launcher, Worker, Ended, config, files, job
<1>2. FireInv'
  BY Typed DEF IInv, Kill, Launcher, Worker, config, files, job, FireInv,
     HoldsFire, Launching, Job, TypeOK, Watching, OrderInv, Ended
<1>3. OrderInv'
  BY Typed DEF IInv, Kill, Launcher, Worker, config, files, job, OrderInv,
     Watching, Job, TypeOK
<1>4. LockInv'
  BY Typed DEF IInv, Kill, Launcher, Worker, config, files, job, LockInv,
     OwnedBy, Ended, Free, Job, TypeOK
<1>5. BootInv'
  BY Typed DEF IInv, Kill, Launcher, Worker, config, files, job, BootInv,
     AgentOf, Job, TypeOK
<1>6. CareInv'
  <2>1. UNCHANGED <<fireOf, receipt, lock>>
    BY DEF Kill, config, files
  <2>2. ASSUME NEW m \in Launch
        PROVE  \/ wpc'[m] = wpc[m]
               \/ wpc'[m] = "gone" /\ wpc[m] \notin Ended
    BY DEF IInv, Kill, Worker, TypeOK
  <2>3. \A m \in Launch : wpc[m] \notin Ended => OwnedBy(m)
    BY DEF IInv, LockInv, OwnedBy
  <2> QED  BY <2>1, <2>2, <2>3 DEF IInv, CareInv, OwnedBy, Job
<1>7. ReportInv'
  BY Typed DEF IInv, Kill, Launcher, Worker, config, files, job, ReportInv,
     QuietEnd, AgentOf, Ended, Job, TypeOK
<1> QED  BY <1>1, <1>2, <1>3, <1>4, <1>5, <1>6, <1>7 DEF IInv

LEMMA RebootStep ==
    ASSUME IInv, Reboot
    PROVE  IInv'
<1>1. TypeOK'
  <2>1. reboots' \in 0 .. MaxReboots
    BY ConstantsAssumption DEF IInv, Reboot, TypeOK
  <2>2. lock' \in [Routine -> LockDir] /\ bootstrap' \in LockDir
    BY DEF IInv, Reboot, TypeOK, LockDir
  <2> QED  BY <2>1, <2>2 DEF IInv, Reboot, TypeOK, Ended, config
<1>2. FireInv'
  BY Typed DEF IInv, Reboot, config, FireInv, HoldsFire, Launching, Job,
     TypeOK
<1>3. OrderInv'
  BY Typed DEF IInv, Reboot, config, OrderInv, Watching, Job, TypeOK
<1>4. LockInv'
  <2>1. UNCHANGED fireOf
    BY DEF Reboot, config
  <2>2. \A r \in Routine :
            /\ lock'[r].by = lock[r].by
            /\ lock[r].by = Nobody => lock'[r].named = lock[r].named /\ ~lock'[r].old
    BY DEF IInv, Reboot, TypeOK, LockDir
  <2>3. \A r \in Routine : lock'[r].by = Nobody => ~lock'[r].named /\ ~lock'[r].old
    BY <2>2 DEF IInv, LockInv
  <2>4. \A m \in Launch : lpc'[m] \in {"new", "done"} /\ wpc'[m] \in {"none", "gone"} /\ ~up'[m]
    BY DEF Reboot
  <2> QED  BY <2>1, <2>2, <2>3, <2>4 DEF IInv, LockInv, OwnedBy, Job, Ended
<1>5. BootInv'
  BY Typed DEF IInv, Reboot, config, BootInv, AgentOf, Job, TypeOK
<1>6. CareInv'
  <2>1. UNCHANGED <<fireOf, receipt>>
    BY DEF Reboot, config
  <2>2. ASSUME NEW m \in Launch, OwnedBy(m)
        PROVE  OwnedBy(m)'
    BY <2>1, <2>2, Typed DEF IInv, Reboot, TypeOK, OwnedBy, Job, LockDir
  <2>3. \A m \in Launch : wpc[m] \notin Ended => OwnedBy(m)
    BY DEF IInv, LockInv, OwnedBy
  <2>4. \A m \in Launch : wpc'[m] # "after" /\ (wpc'[m] = "gone" => wpc[m] # "none")
    BY DEF Reboot
  <2> QED  BY <2>1, <2>2, <2>3, <2>4 DEF IInv, CareInv, Ended
<1>7. ReportInv'
  BY Typed DEF IInv, Reboot, config, ReportInv, QuietEnd, AgentOf, Ended, Job,
     TypeOK
<1> QED  BY <1>1, <1>2, <1>3, <1>4, <1>5, <1>6, <1>7 DEF IInv

LEMMA InitInv ==
    ASSUME Init
    PROVE  IInv
<1>1. [fireOf |-> fireOf, agent |-> agent] \in Cases
  <2>1. PICK c \in Cases : fireOf = c.fireOf /\ agent = c.agent
    BY DEF Init
  <2>2. c = [fireOf |-> c.fireOf, agent |-> c.agent]
    BY ConstantsAssumption
  <2> QED  BY <2>1, <2>2
<1>2. TypeOK
  <2>1. [outcome |-> "none", done |-> FALSE, attention |-> FALSE] \in Receipt
    BY DEF Receipt, Outcome
  <2>2. /\ receipt \in [Fire -> Receipt]
        /\ \A f \in Fire : receipt[f].outcome = "none"
    BY <2>1 DEF Init
  <2>3. kills \in 0 .. MaxKills /\ reboots \in 0 .. MaxReboots
    BY ConstantsAssumption DEF Init
  <2> QED  BY <1>1, <2>2, <2>3, FreeTyped DEF Init, TypeOK, Watching, Ended
<1>3. \A l \in Launch : /\ Job(l) \in Routine
                        /\ receipt[fireOf[l]].outcome = "none"
                        /\ lock[Job(l)].by = Nobody
  BY <1>2, Typed, FreeTyped DEF Init
<1>4. \A r \in Routine : lock[r].by = Nobody /\ ~lock[r].named /\ ~lock[r].old
  BY DEF Init, Free
<1>5. \A l \in Launch : lpc[l] = "new" /\ wpc[l] = "none" /\ ~up[l] /\ turn[l] = "none"
  BY DEF Init
<1>6. FireInv
  BY <1>3, <1>5, ConstantsAssumption DEF FireInv, HoldsFire, Launching
<1>7. OrderInv /\ LockInv /\ BootInv /\ CareInv /\ ReportInv
  BY <1>4, <1>5 DEF OrderInv, LockInv, BootInv, CareInv, ReportInv, Ended, Watching
<1> QED  BY <1>2, <1>6, <1>7 DEF IInv

LEMMA NextInv ==
    ASSUME IInv, [Next]_vars
    PROVE  IInv'
<1>1. ASSUME NEW l \in Launch,
             \/ Claim(l) \/ CheckLock(l) \/ RecoverLock(l) \/ MakeLock(l) \/ NameLock(l)
             \/ CreateSpace(l) \/ ParentFails(l) \/ RunWorker(l)
      PROVE  IInv'
  BY <1>1, ClaimStep, CheckLockStep, RecoverLockStep, MakeLockStep, NameLockStep,
     CreateSpaceStep, ParentFailsStep, RunWorkerStep
<1>2. ASSUME NEW l \in Launch,
             \/ Begin(l) \/ CheckBootstrap(l) \/ RecoverBootstrap(l) \/ AcquireBootstrap(l)
             \/ Select(l) \/ Submit(l) \/ BeginTurn(l) \/ EndTurn(l) \/ Exit(l)
      PROVE  IInv'
  BY <1>2, BeginStep, CheckBootstrapStep, RecoverBootstrapStep, AcquireBootstrapStep,
     SelectStep, SubmitStep, BeginTurnStep, EndTurnStep, ExitStep
<1>3. ASSUME NEW l \in Launch,
             \/ Admit(l) \/ Settle(l) \/ Late(l) \/ GoBlind(l) \/ SessionEnds(l)
             \/ StopCodex(l) \/ Fail(l) \/ Kill(l)
      PROVE  IInv'
  BY <1>3, AdmitStep, SettleStep, LateStep, GoBlindStep, SessionEndsStep, StopCodexStep,
     FailStep, KillStep
<1>4. CASE UNCHANGED vars
  <2>1. /\ UNCHANGED <<fireOf, agent, receipt, lock, bootstrap, auth, lpc, wpc>>
        /\ UNCHANGED <<admitted, up, turn, kills, reboots>>
    BY <1>4 DEF vars, config, files, job, clock
  <2>2. TypeOK' /\ FireInv' /\ OrderInv' /\ LockInv'
    BY <2>1 DEF IInv, TypeOK, FireInv, OrderInv, LockInv, HoldsFire, OwnedBy, Job
  <2>3. BootInv' /\ CareInv' /\ ReportInv'
    BY <2>1 DEF IInv, BootInv, CareInv, ReportInv, QuietEnd, OwnedBy, AgentOf, Job
  <2> QED  BY <2>2, <2>3 DEF IInv
<1> QED  BY <1>1, <1>2, <1>3, <1>4, RebootStep DEF Next

THEOREM RoutineInvariant == Spec => []IInv
<1> QED  BY InitInv, NextInv, PTL DEF Spec

-----------------------------------------------------------------------------
(* What follows from it. *)

(* Every variable keeps to its type, and a receipt with a final outcome is  *)
(* closed (launchRoutineOccurrence, executeRoutineWorker, markParentFailure *)
(* write both fields in one replacement of the file).                       *)
THEOREM RoutineTypeCorrect == Spec => []TypeOK
<1>1. IInv => TypeOK
  BY DEF IInv
<1> QED  BY <1>1, RoutineInvariant, PTL

(* Duplicate prevention: whatever is launched again, killed or restarted,   *)
(* the prompt of a fire key is given to one agent only.  A launch whose     *)
(* agent began has a worker, so it holds the fire key (createReceipt), and  *)
(* a fire key is held once.                                                 *)
THEOREM PromptsOnce == Spec => []PromptedOnce
<1>1. ASSUME IInv, NEW l \in Launch, turn[l] # "none"
      PROVE  HoldsFire(l)
  BY <1>1 DEF IInv, OrderInv, HoldsFire, Watching
<1>2. IInv => PromptedOnce
  BY <1>1 DEF IInv, FireInv, PromptedOnce
<1> QED  BY <1>2, RoutineInvariant, PTL

(* Jobs do not disturb each other.  An agent that runs for a job not yet    *)
(* settled has the lock of its routine, of this boot, so there is one (the  *)
(* recovery of a lock, locks.js, removes only those of an earlier boot); and *)
(* who has selected an account has the bootstrap lock until the prompt is    *)
(* admitted, so nobody else selects.                                        *)
THEOREM JobsApart == Spec => []NoInterference
<1>1. IInv => NoOverlap
  <2>1. ASSUME IInv, NEW l \in Launch, up[l], wpc[l] # "after"
        PROVE  lock[Job(l)].by = l
    BY <2>1 DEF IInv, OrderInv, LockInv, OwnedBy, Watching, Ended
  <2> QED  BY <2>1 DEF NoOverlap
<1>2. IInv => SelectionKept
  BY DEF IInv, BootInv, SelectionKept
<1> QED  BY <1>1, <1>2, RoutineInvariant, PTL DEF NoInterference

(* What a receipt says of a prompt an agent has begun is not less than what *)
(* happened: while it is open a worker watches the job or its lock leads to *)
(* the receipt, and it does not report a harmless end.                      *)
THEOREM ReceiptsTrue == Spec => []JobsAccounted
<1>1. IInv => StartedJobAccounted
  <2>1. ASSUME IInv, NEW l \in Launch, turn[l] # "none", ~receipt[fireOf[l]].done, wpc[l] \in Ended
        PROVE  wpc[l] = "gone"
    BY <2>1 DEF IInv, OrderInv, CareInv, Watching, Ended
  <2> QED  BY <2>1 DEF IInv, CareInv, OwnedBy, StartedJobAccounted
<1>2. IInv => QuietEndTrue
  BY DEF IInv, ReportInv, QuietEnd, QuietEndTrue
<1> QED  BY <1>1, <1>2, RoutineInvariant, PTL DEF JobsAccounted
=============================================================================
