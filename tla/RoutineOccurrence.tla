--------------------------- MODULE RoutineOccurrence ---------------------------
(***************************************************************************)
(* The scheduled jobs of one machine (src/routines/run.js, locks.js).      *)
(*                                                                         *)
(* A launch claims the receipt of its fire key, takes the lock of its      *)
(* routine, opens a Space and has a worker started there.  The worker      *)
(* takes the bootstrap lock, selects an account, starts the agent with the *)
(* prompt, watches the turn and releases the lock of the routine when it   *)
(* has settled or the job is given up.  The agent is a process of its own. *)
(* Locks are directories: they survive their process, and only a restart   *)
(* of the machine makes them removable.                                    *)
(*                                                                         *)
(* A launch and its worker are one member of Launch (the token).  Between  *)
(* two awaits a process is killed or the machine restarts at any step      *)
(* written here.  A `pane run` that fails has started no worker; file      *)
(* operations do not fail; the recovery of a lock is one step under its    *)
(* own short lock.  What happens after a turn has settled (follow-ups,     *)
(* parking, closing the Space) is left out.                                *)
(***************************************************************************)
EXTENDS Naturals

CONSTANTS
    Launch,       \* the launches, each with its token
    Nobody,
    Fire,         \* the fire keys
    Routine,
    Cases,        \* which launch is for which fire key, and which agent a
                  \* routine is configured for: the cases looked at
    RoutineOf,    \* the routine of a fire key
    MaxKills,     \* bound on the processes killed
    MaxReboots    \* bound on the restarts of the machine

Agent == {"claude", "codex", "prime"}

ASSUME ConstantsAssumption ==
    /\ Nobody \notin Launch
    /\ Cases \subseteq [fireOf : [Launch -> Fire], agent : [Routine -> Agent]]
    /\ RoutineOf \in [Fire -> Routine]
    /\ MaxKills \in Nat /\ MaxReboots \in Nat

VARIABLES
    fireOf,      \* of a launch: its fire key
    agent,       \* of a routine: the agent it is configured for
    receipt,     \* of a fire key: the receipt file
    lock,        \* of a routine: its lock directory
    bootstrap,   \* the bootstrap lock
    auth,        \* the launch whose account is in the agents' auth file
    lpc,         \* of a launch: its step
    wpc,         \* of a launch: the step of its worker
    admitted,    \* of a launch: promptSubmissionStarted of its worker
    up,          \* of a launch: its agent process runs
    turn,        \* of a launch: the scheduled turn of its agent
    kills, reboots

config == <<fireOf, agent>>
files == <<receipt, lock, bootstrap, auth>>
job == <<up, turn>>
clock == <<kills, reboots>>
vars == <<config, files, lpc, wpc, admitted, job, clock>>

Quiet == {"claiming", "missed_window", "queued", "starting", "interrupted"}
Outcome == Quiet \cup {"none", "overlap", "prompt_admitted", "completed", "needs_attention", "failed_before_prompt"}
Receipt == [outcome : Outcome, done : BOOLEAN, attention : BOOLEAN]
Free == [by |-> Nobody, named |-> FALSE, old |-> FALSE]
LockDir == [by : Launch \cup {Nobody}, named : BOOLEAN, old : BOOLEAN]

\* The steps of a worker that watches an agent, and of one that has ended.
Watching == {"observe", "admitted", "blind", "stopping"}
Ended == {"none", "after", "gone"}

TypeOK ==
    /\ [fireOf |-> fireOf, agent |-> agent] \in Cases
    /\ receipt \in [Fire -> Receipt]
    /\ lock \in [Routine -> LockDir]
    /\ bootstrap \in LockDir
    /\ auth \in Launch \cup {Nobody}
    /\ lpc \in [Launch -> {"new", "check", "recover", "mkdir", "name", "space", "pane", "done"}]
    /\ wpc \in [Launch -> {"start", "check", "recover", "wait", "select", "submit"} \cup Watching \cup Ended]
    /\ admitted \in [Launch -> BOOLEAN]
    /\ up \in [Launch -> BOOLEAN]
    /\ turn \in [Launch -> {"none", "open", "ended"}]
    /\ kills \in 0 .. MaxKills
    /\ reboots \in 0 .. MaxReboots
    /\ \A f \in Fire : receipt[f].outcome \in {"overlap", "completed", "failed_before_prompt", "interrupted"} =>
           receipt[f].done

Init ==
    /\ \E c \in Cases : fireOf = c.fireOf /\ agent = c.agent
    /\ receipt = [f \in Fire |-> [outcome |-> "none", done |-> FALSE, attention |-> FALSE]]
    /\ lock = [r \in Routine |-> Free]
    /\ bootstrap = Free
    /\ auth = Nobody
    /\ lpc = [l \in Launch |-> "new"]
    /\ wpc = [l \in Launch |-> "none"]
    /\ admitted = [l \in Launch |-> FALSE]
    /\ up = [l \in Launch |-> FALSE]
    /\ turn = [l \in Launch |-> "none"]
    /\ kills = 0 /\ reboots = 0

Job(l) == RoutineOf[fireOf[l]]
AgentOf(l) == agent[Job(l)]
Launcher(l, s) == lpc' = [lpc EXCEPT ![l] = s]
Worker(l, s) == wpc' = [wpc EXCEPT ![l] = s]

\* writeReceipt
Write(l, outcome, done, attention) ==
    receipt' = [receipt EXCEPT ![fireOf[l]] = [outcome |-> outcome, done |-> done, attention |-> attention]]

\* releaseOwnership: only the lock that carries the token of the launch.
OwnedBy(l) == lock[Job(l)].by = l /\ lock[Job(l)].named

ReleaseOwnership(l) ==
    lock' = IF OwnedBy(l) THEN [lock EXCEPT ![Job(l)] = Free] ELSE lock

-----------------------------------------------------------------------------
(* launchRoutineOccurrence *)

\* Mutant of Unclaimed: a launch that failed may be launched again.
Replayable(l) == receipt[fireOf[l]].outcome \in {"none", "failed_before_prompt", "interrupted"}

\* createReceipt: the first launch of a fire key creates the file.
Unclaimed(l) == receipt[fireOf[l]].outcome = "none"

Claim(l) ==
    /\ lpc[l] = "new"
    /\ \/ /\ Unclaimed(l)
          /\ \/ Write(l, "claiming", FALSE, FALSE) /\ Launcher(l, "check")
             \/ Write(l, "missed_window", FALSE, FALSE) /\ Launcher(l, "done")
       \/ ~Unclaimed(l) /\ Launcher(l, "done") /\ UNCHANGED receipt
    /\ UNCHANGED <<config, lock, bootstrap, auth, wpc, admitted, job, clock>>

\* recoverRoutineLockAfterRestart: look at the lock's age ...
CheckLock(l) ==
    /\ lpc[l] = "check"
    /\ Launcher(l, IF lock[Job(l)].old THEN "recover" ELSE "mkdir")
    /\ UNCHANGED <<config, files, wpc, admitted, job, clock>>

\* Mutant of RecoverLock: the age is not looked at again under the recovery lock.
RecoverBlindly(l) ==
    /\ lpc[l] = "recover"
    /\ Launcher(l, "mkdir")
    /\ lock' = [lock EXCEPT ![Job(l)] = Free]
    /\ UNCHANGED <<config, receipt, bootstrap, auth, wpc, admitted, job, clock>>

\* ... and, under the recovery lock, look again, complete the receipt of the
\* interrupted owner and remove its lock.
RecoverLock(l) ==
    /\ lpc[l] = "recover"
    /\ Launcher(l, "mkdir")
    /\ LET owner == lock[Job(l)]
       IN  IF ~owner.old THEN UNCHANGED <<receipt, lock>>
           ELSE /\ lock' = [lock EXCEPT ![Job(l)] = Free]
                /\ IF owner.named /\ ~receipt[fireOf[owner.by]].done
                   THEN Write(owner.by, "interrupted", TRUE, TRUE)
                   ELSE UNCHANGED receipt
    /\ UNCHANGED <<config, bootstrap, auth, wpc, admitted, job, clock>>

MakeLock(l) ==
    /\ lpc[l] = "mkdir"
    /\ \/ /\ lock[Job(l)].by = Nobody
          /\ lock' = [lock EXCEPT ![Job(l)].by = l]
          /\ Launcher(l, "name")
          /\ UNCHANGED receipt
       \/ /\ lock[Job(l)].by # Nobody
          /\ Write(l, "overlap", TRUE, FALSE)
          /\ Launcher(l, "done")
          /\ UNCHANGED lock
    /\ UNCHANGED <<config, bootstrap, auth, wpc, admitted, job, clock>>

\* owner.json: the token, the fire key and the receipt of the owner.
NameLock(l) ==
    /\ lpc[l] = "name"
    /\ lock' = [lock EXCEPT ![Job(l)].named = TRUE]
    /\ Launcher(l, "space")
    /\ UNCHANGED <<config, receipt, bootstrap, auth, wpc, admitted, job, clock>>

CreateSpace(l) ==
    /\ lpc[l] = "space"
    /\ Write(l, "queued", FALSE, FALSE)
    /\ Launcher(l, "pane")
    /\ UNCHANGED <<config, lock, bootstrap, auth, wpc, admitted, job, clock>>

\* markParentFailure
ParentFails(l) ==
    /\ lpc[l] \in {"space", "pane"}
    /\ Write(l, "failed_before_prompt", TRUE, FALSE)
    /\ ReleaseOwnership(l)
    /\ Launcher(l, "done")
    /\ UNCHANGED <<config, bootstrap, auth, wpc, admitted, job, clock>>

RunWorker(l) ==
    /\ lpc[l] = "pane"
    /\ Launcher(l, "done")
    /\ Worker(l, "start")
    /\ UNCHANGED <<config, files, admitted, job, clock>>

-----------------------------------------------------------------------------
(* executeRoutineWorker: up to the start of the agent *)

\* readOwner: a worker whose lock is not there writes nothing.
Begin(l) ==
    /\ wpc[l] = "start"
    /\ IF OwnedBy(l) THEN Write(l, "starting", FALSE, FALSE) /\ Worker(l, "check")
       ELSE Worker(l, "gone") /\ UNCHANGED receipt
    /\ UNCHANGED <<config, lock, bootstrap, auth, lpc, admitted, job, clock>>

CheckBootstrap(l) ==
    /\ wpc[l] = "check"
    /\ Worker(l, IF bootstrap.old THEN "recover" ELSE "wait")
    /\ UNCHANGED <<config, files, lpc, admitted, job, clock>>

StillOld == bootstrap.old

RecoverBootstrap(l) ==
    /\ wpc[l] = "recover"
    /\ bootstrap' = IF StillOld THEN Free ELSE bootstrap
    /\ Worker(l, "wait")
    /\ UNCHANGED <<config, receipt, lock, auth, lpc, admitted, job, clock>>

AcquireBootstrap(l) ==
    /\ wpc[l] = "wait"
    /\ bootstrap.by = Nobody
    /\ bootstrap' = [by |-> l, named |-> FALSE, old |-> FALSE]
    /\ Worker(l, "select")
    /\ UNCHANGED <<config, receipt, lock, auth, lpc, admitted, job, clock>>

ReleaseBootstrap(l) == bootstrap' = IF bootstrap.by = l THEN Free ELSE bootstrap

\* selectAccount writes the auth file its agent reads; a Claude session gets
\* an account of its own under the credential lease.
Select(l) ==
    /\ wpc[l] = "select"
    /\ auth' = IF AgentOf(l) = "claude" THEN auth ELSE l
    /\ Worker(l, "submit")
    /\ UNCHANGED <<config, receipt, lock, bootstrap, lpc, admitted, job, clock>>

\* Mutant of Submit: Prime's worker does not mark the submission it starts.
SubmitUnmarked(l) ==
    /\ wpc[l] = "submit"
    /\ up' = [up EXCEPT ![l] = TRUE]
    /\ Worker(l, "observe")
    /\ IF AgentOf(l) = "claude" THEN ReleaseBootstrap(l) ELSE UNCHANGED bootstrap
    /\ UNCHANGED <<config, receipt, lock, auth, lpc, admitted, turn, clock>>

\* The agent is started with the prompt.  Claude's worker has released the
\* bootstrap lock before; Prime's has marked the submission.
Submit(l) ==
    /\ wpc[l] = "submit"
    /\ up' = [up EXCEPT ![l] = TRUE]
    /\ Worker(l, "observe")
    /\ admitted' = [admitted EXCEPT ![l] = AgentOf(l) = "prime"]
    /\ IF AgentOf(l) = "claude" THEN ReleaseBootstrap(l) ELSE UNCHANGED bootstrap
    /\ UNCHANGED <<config, receipt, lock, auth, lpc, turn, clock>>

-----------------------------------------------------------------------------
(* The agent *)

BeginTurn(l) ==
    /\ up[l] /\ turn[l] = "none"
    /\ turn' = [turn EXCEPT ![l] = "open"]
    /\ UNCHANGED <<config, files, lpc, wpc, admitted, up, clock>>

EndTurn(l) ==
    /\ up[l] /\ turn[l] = "open"
    /\ turn' = [turn EXCEPT ![l] = "ended"]
    /\ UNCHANGED <<config, files, lpc, wpc, admitted, up, clock>>

Exit(l) ==
    /\ up[l]
    /\ up' = [up EXCEPT ![l] = FALSE]
    /\ UNCHANGED <<config, files, lpc, wpc, admitted, turn, clock>>

-----------------------------------------------------------------------------
(* The worker watches its agent *)

\* The event, or the entry of the session file, that proves the admission.
Admit(l) ==
    /\ wpc[l] = "observe"
    /\ turn[l] # "none"
    /\ admitted' = [admitted EXCEPT ![l] = TRUE]
    /\ Write(l, "prompt_admitted", FALSE, receipt[fireOf[l]].attention)
    /\ ReleaseBootstrap(l)
    /\ Worker(l, "admitted")
    /\ UNCHANGED <<config, lock, auth, lpc, job, clock>>

\* Claude reports how its turn ended; the others have completed, Codex with the
\* exit of its process.
Settle(l) ==
    /\ wpc[l] = "admitted"
    /\ turn[l] = "ended"
    /\ AgentOf(l) = "codex" => ~up[l]
    /\ \/ Write(l, "completed", TRUE, FALSE)
       \/ AgentOf(l) = "claude" /\ Write(l, "needs_attention", TRUE, TRUE)
    /\ ReleaseOwnership(l)
    /\ Worker(l, "after")
    /\ UNCHANGED <<config, bootstrap, auth, lpc, admitted, job, clock>>

\* Claude's first turn is late: the receipt says so, the watch goes on.
Late(l) ==
    /\ wpc[l] \in {"observe", "admitted"}
    /\ AgentOf(l) = "claude"
    /\ Write(l, "needs_attention", FALSE, TRUE)
    /\ UNCHANGED <<config, lock, bootstrap, auth, lpc, wpc, admitted, job, clock>>

\* The events of a Claude session cannot be read: nothing more is observed.
GoBlind(l) ==
    /\ wpc[l] \in {"observe", "admitted"}
    /\ AgentOf(l) = "claude"
    /\ Write(l, "needs_attention", FALSE, TRUE)
    /\ Worker(l, "blind")
    /\ UNCHANGED <<config, lock, bootstrap, auth, lpc, admitted, job, clock>>

\* Claude has exited and every event before it is read.
AllRead(l) ==
    \/ wpc[l] = "observe" /\ turn[l] = "none"
    \/ wpc[l] = "admitted" /\ turn[l] = "open"
    \/ wpc[l] = "blind"

GivenUp(l) == IF admitted[l] THEN "needs_attention" ELSE "failed_before_prompt"

SessionEnds(l) ==
    /\ AgentOf(l) = "claude"
    /\ AllRead(l) /\ ~up[l]
    /\ Write(l, GivenUp(l), TRUE, TRUE)
    /\ ReleaseOwnership(l)
    /\ Worker(l, "after")
    /\ UNCHANGED <<config, bootstrap, auth, lpc, admitted, job, clock>>

\* Codex is stopped, and its exit awaited, before the failure is recorded.
StopCodex(l) ==
    /\ wpc[l] \in {"observe", "admitted"}
    /\ AgentOf(l) = "codex"
    /\ Worker(l, "stopping")
    /\ UNCHANGED <<config, files, lpc, admitted, job, clock>>

\* What can fail: everything before the start; then Prime's admission and
\* turn, a Codex that was stopped.  A worker that runs Claude does not fail.
CanFail(l) ==
    \/ wpc[l] \in {"check", "wait", "select", "submit"}
    \/ wpc[l] \in {"observe", "admitted"} /\ AgentOf(l) = "prime"
    \/ wpc[l] = "stopping" /\ ~up[l]

\* The catch block of the worker.
Fail(l) ==
    /\ CanFail(l)
    /\ Write(l, GivenUp(l), TRUE, admitted[l])
    /\ ReleaseBootstrap(l)
    /\ ReleaseOwnership(l)
    /\ Worker(l, "after")
    /\ UNCHANGED <<config, auth, lpc, admitted, job, clock>>

-----------------------------------------------------------------------------
(* Kills and restarts *)

Kill(l) ==
    /\ kills < MaxKills
    /\ kills' = kills + 1
    /\ \/ lpc[l] \notin {"new", "done"} /\ Launcher(l, "done") /\ UNCHANGED wpc
       \/ wpc[l] \notin Ended /\ Worker(l, "gone") /\ UNCHANGED lpc
    /\ UNCHANGED <<config, files, admitted, job, reboots>>

Reboot ==
    /\ reboots < MaxReboots
    /\ reboots' = reboots + 1
    /\ lpc' = [l \in Launch |-> IF lpc[l] = "new" THEN "new" ELSE "done"]
    /\ wpc' = [l \in Launch |-> IF wpc[l] = "none" THEN "none" ELSE "gone"]
    /\ up' = [l \in Launch |-> FALSE]
    /\ lock' = [r \in Routine |-> [lock[r] EXCEPT !.old = lock[r].by # Nobody]]
    /\ bootstrap' = [bootstrap EXCEPT !.old = bootstrap.by # Nobody]
    /\ UNCHANGED <<config, receipt, auth, admitted, turn, kills>>

Next ==
    \/ \E l \in Launch :
        \/ Claim(l) \/ CheckLock(l) \/ RecoverLock(l) \/ MakeLock(l) \/ NameLock(l)
        \/ CreateSpace(l) \/ ParentFails(l) \/ RunWorker(l)
        \/ Begin(l) \/ CheckBootstrap(l) \/ RecoverBootstrap(l) \/ AcquireBootstrap(l)
        \/ Select(l) \/ Submit(l)
        \/ BeginTurn(l) \/ EndTurn(l) \/ Exit(l)
        \/ Admit(l) \/ Settle(l) \/ Late(l) \/ GoBlind(l) \/ SessionEnds(l)
        \/ StopCodex(l) \/ Fail(l) \/ Kill(l)
    \/ Reboot

Spec == Init /\ [][Next]_vars

-----------------------------------------------------------------------------
(* Properties *)

\* Duplicate prevention: whatever is launched again, killed or restarted, the
\* prompt of a fire key is given to one agent only ("never automatically
\* replayed", README.md:580).
PromptedOnce ==
    \A l, m \in Launch :
        fireOf[l] = fireOf[m] /\ turn[l] # "none" /\ turn[m] # "none" => l = m

\* Overlap protection: of the agents of one routine, at most one runs for a
\* job that is neither settled nor given up; also when its worker was killed,
\* and when launches race to recover a lock of the previous boot.
NoOverlap ==
    \A l, m \in Launch :
        /\ Job(l) = Job(m)
        /\ up[l] /\ up[m] /\ wpc[l] # "after" /\ wpc[m] # "after"
        => l = m

\* The agent starts, and its prompt is admitted, with the account its worker
\* selected: no other routine selects in between.
SelectionKept ==
    \A l \in Launch :
        /\ wpc[l] \in {"submit", "observe"}
        /\ AgentOf(l) # "claude"
        => auth = l

\* An interrupted job is not forgotten: while its receipt is open somebody
\* watches it, or its lock still leads the next launch to the receipt.
StartedJobAccounted ==
    \A l \in Launch :
        turn[l] # "none" /\ ~receipt[fireOf[l]].done =>
            \/ wpc[l] \notin Ended
            \/ lock[Job(l)].by = l /\ lock[Job(l)].named

\* A receipt that reports a harmless end tells the truth: of a Claude or Prime
\* job that ended without a call for attention and is said to have failed
\* before its prompt, or to have overlapped, no agent has begun the prompt.
QuietEndTrue ==
    \A l \in Launch :
        /\ receipt[fireOf[l]].outcome \in {"failed_before_prompt", "overlap", "missed_window"}
        /\ ~receipt[fireOf[l]].attention
        /\ AgentOf(l) # "codex"
        => turn[l] = "none"

\* Jobs do not disturb each other: those of one routine never run together, and
\* those of two never change each other's account between selection and prompt.
NoInterference == NoOverlap /\ SelectionKept

\* What a receipt says of a prompt that an agent has begun is not less than what
\* happened: it stays open in somebody's care, or does not call the end harmless.
JobsAccounted == StartedJobAccounted /\ QuietEndTrue
=============================================================================
