--------------------------- MODULE ClaudeSupervisor ---------------------------
(***************************************************************************)
(* One launch of Claude: AIM, its supervisor and Claude's process          *)
(* (src/targets/claude-runner.js, src/targets/claude-supervisor.js).       *)
(*                                                                         *)
(* AIM never signals Claude itself.  An interactive launch sends requests  *)
(* to pause and resume over the IPC channel and waits 2 s for each         *)
(* acknowledgement; when the lease is lost it sends SIGTERM to the         *)
(* supervisor and SIGKILL 5 s later.  A noninteractive launch signals the  *)
(* whole process group, SIGTERM and after a grace SIGKILL.  The supervisor *)
(* ends Claude on a signal or when the channel closes because AIM is gone: *)
(* it continues a stopped Claude, terminates it, and kills it 4 s later.   *)
(*                                                                         *)
(* Messages and the end of the channel arrive in order; a signal overtakes *)
(* them.  Timers fire at any time after they are set.  Claude may ignore   *)
(* SIGTERM, never SIGKILL.  The helpers are the processes Claude has       *)
(* started; a holding one keeps AIM's output pipe open.                    *)
(***************************************************************************)
EXTENDS Naturals, Sequences

CONSTANT MaxRequests   \* bound on the pause and resume requests of a launch

ASSUME RequestsAssumption == MaxRequests \in Nat

VARIABLES
    mode,         \* "interactive" or "batch" (runClaudeCliNoninteractive)
    aim,          \* AIM's process
    run,          \* AIM's promise: open, waiting for the grace, or closed
    aborted,      \* the launch is to end: lease lost, deadline, overflow
    force,        \* AIM's forcedKillTimer
    paused,       \* the heartbeat has asked to pause Claude, not yet resumed it
    asked,        \* the request AIM waits for, or NoRequest
    requests,     \* requests made
    link,         \* the channel: "open", "cut" by AIM's death, its end "seen"
    mail,         \* requests on their way to the supervisor
    acks,         \* acknowledgements on their way to AIM
    signal,       \* a termination signal is on its way to the supervisor
    sup,          \* the supervisor's process
    childPaused, requested, killTimer,   \* the supervisor's variables
    child,        \* Claude's process
    helper,       \* Claude's helpers
    overtaken     \* AIM's SIGKILL came while the supervisor was about to
                  \* terminate or kill Claude

runner == <<aim, run, aborted, force, paused, asked, requests>>
wires == <<link, mail, acks, signal>>
supervisor == <<sup, childPaused, requested, killTimer>>
processes == <<child, helper, overtaken>>
vars == <<mode, runner, wires, supervisor, processes>>

Actions == {"pause", "resume"}
NoRequest == [id |-> 0, action |-> "pause"]
Request == [id : 1 .. MaxRequests, action : Actions]
Timer == {"unset", "set", "fired"}

Alive == child \in {"running", "stopped"}

TypeOK ==
    /\ mode \in {"interactive", "batch"}
    /\ aim \in {"up", "dead"}
    /\ run \in {"open", "waiting", "closed"}
    /\ aborted \in BOOLEAN /\ paused \in BOOLEAN /\ signal \in BOOLEAN
    /\ force \in Timer /\ killTimer \in Timer
    /\ asked \in Request \cup {NoRequest}
    /\ requests \in 0 .. MaxRequests
    /\ link \in {"open", "cut", "seen"}
    /\ mail \in Seq(Request)
    /\ acks \in Seq([id : 1 .. MaxRequests, action : Actions, ok : BOOLEAN])
    /\ sup \in {"booting", "up", "ending", "gone"}
    /\ childPaused \in BOOLEAN /\ requested \in BOOLEAN
    /\ child \in {"none", "running", "stopped", "gone"}
    /\ helper \in {"none", "quiet", "holding"}
    /\ overtaken \in BOOLEAN

\* AIM has just spawned the supervisor.
Init ==
    /\ mode \in {"interactive", "batch"}
    /\ aim = "up" /\ run = "open" /\ aborted = FALSE /\ force = "unset"
    /\ paused = FALSE /\ asked = NoRequest /\ requests = 0
    /\ link = "open" /\ mail = <<>> /\ acks = <<>> /\ signal = FALSE
    /\ sup = "booting" /\ childPaused = FALSE /\ requested = FALSE
    /\ killTimer = "unset"
    /\ child = "none" /\ helper = "none" /\ overtaken = FALSE
-----------------------------------------------------------------------------
(* AIM. *)

Running == aim = "up" /\ run # "closed"

\* Mutant of Terminate: the forced kill is not armed.
TerminateNoForce ==
    /\ aborted' = TRUE
    /\ UNCHANGED force
    /\ IF aborted THEN UNCHANGED signal ELSE signal' = (sup # "gone")

\* onAbort, terminate: only the first one counts.
Terminate ==
    /\ aborted' = TRUE
    /\ IF aborted
       THEN UNCHANGED <<force, signal>>
       ELSE force' = "set" /\ signal' = (sup # "gone")

\* The heartbeat has lost the lease, a deadline has passed, or the output of
\* a noninteractive launch is too long.
Abort ==
    /\ Running /\ ~aborted
    /\ Terminate
    /\ UNCHANGED <<mode, aim, run, paused, asked, requests, link, mail, acks,
                   supervisor, processes>>

\* sendProcessControl, called by the heartbeat's pause and resume.
Ask(action) ==
    /\ mode = "interactive" /\ Running /\ asked = NoRequest
    /\ requests < MaxRequests
    /\ paused = (action = "resume")
    /\ paused' = TRUE
    /\ requests' = requests + 1
    /\ asked' = [id |-> requests', action |-> action]
    /\ mail' = Append(mail, asked')
    /\ UNCHANGED <<mode, aim, run, aborted, force, link, acks, signal,
                   supervisor, processes>>

\* A request that did not succeed loses the lease.
Settled(ok) ==
    /\ asked' = NoRequest
    /\ IF ok
       THEN /\ paused' = (asked.action = "pause")
            /\ UNCHANGED <<aborted, force, signal>>
       ELSE Terminate /\ UNCHANGED paused

\* An acknowledgement; one of another request is ignored.
Answer ==
    /\ Running /\ acks # <<>>
    /\ acks' = Tail(acks)
    /\ IF /\ asked # NoRequest
          /\ Head(acks).id = asked.id /\ Head(acks).action = asked.action
       THEN Settled(Head(acks).ok)
       ELSE UNCHANGED <<asked, paused, aborted, force, signal>>
    /\ UNCHANGED <<mode, aim, run, requests, link, mail, supervisor,
                   processes>>

\* No acknowledgement within 2 s.
Unanswered ==
    /\ Running /\ asked # NoRequest
    /\ Settled(FALSE)
    /\ UNCHANGED <<mode, aim, run, requests, link, mail, acks, supervisor,
                   processes>>

\* Interactive: 5 s after the SIGTERM the supervisor alone is killed.
KillSupervisor ==
    /\ mode = "interactive" /\ Running /\ force = "set"
    /\ force' = "fired"
    /\ sup' = "gone"
    /\ overtaken' = (overtaken \/ (sup # "gone" /\ Alive
                                   /\ (signal \/ killTimer = "set")))
    /\ UNCHANGED <<mode, aim, run, aborted, paused, asked, requests, wires,
                   childPaused, requested, killTimer, child, helper>>

\* Batch: after the grace the whole group is killed.
KillGroup ==
    /\ mode = "batch" /\ Running /\ force = "set"
    /\ force' = "fired"
    /\ sup' = "gone"
    /\ child' = IF Alive THEN "gone" ELSE child
    /\ helper' = "none"
    /\ run' = IF run = "waiting" THEN "closed" ELSE run
    /\ UNCHANGED <<mode, aim, aborted, paused, asked, requests, wires,
                   childPaused, requested, killTimer, overtaken>>

\* The supervisor's "close" event: its process has ended and, in a batch,
\* nobody holds its output pipes.  A batch that was terminated waits for the
\* grace; a request still open fails.
Close ==
    /\ aim = "up" /\ run = "open" /\ sup = "gone"
    /\ mode = "batch" => ~Alive /\ helper # "holding"
    /\ run' = IF mode = "batch" /\ force = "set" THEN "waiting" ELSE "closed"
    /\ asked' = NoRequest
    /\ aborted' = (aborted \/ asked # NoRequest)
    /\ UNCHANGED <<mode, aim, force, paused, requests, wires, supervisor,
                   processes>>

\* AIM is killed, or its terminal is closed, which hangs up an interactive
\* supervisor too.
Crash ==
    /\ aim = "up"
    /\ aim' = "dead"
    /\ link' = "cut"
    /\ \/ UNCHANGED signal
       \/ mode = "interactive" /\ sup # "gone" /\ signal' = TRUE
    /\ UNCHANGED <<mode, run, aborted, force, paused, asked, requests, mail,
                   acks, supervisor, processes>>
-----------------------------------------------------------------------------
(* The supervisor. *)

\* superviseClaudeProcess: no Claude once the channel is known to be closed,
\* or when it cannot be spawned.
Start ==
    /\ sup = "booting"
    /\ \/ /\ link # "seen"
          /\ sup' = "up" /\ child' = "running"
          /\ helper' \in IF mode = "batch" THEN {"none", "quiet", "holding"}
                                           ELSE {"none"}
       \/ sup' = "ending" /\ UNCHANGED <<child, helper>>
    /\ UNCHANGED <<mode, runner, wires, childPaused, requested, killTimer,
                   overtaken>>

\* The channel ends while the supervisor is loading: nobody listens yet.
MissDisconnect ==
    /\ sup = "booting" /\ link = "cut"
    /\ link' = "seen"
    /\ UNCHANGED <<mode, runner, mail, acks, signal, supervisor, processes>>

\* Mutant of RequestTermination: Claude is not awaited.
LeaveAtOnce ==
    /\ requested' = TRUE /\ childPaused' = FALSE
    /\ child' = IF child = "stopped" THEN "running" ELSE child
    /\ sup' = "gone"
    /\ UNCHANGED killTimer

\* requestTermination: continue a paused Claude, SIGTERM, and a timer.
RequestTermination ==
    /\ requested' = TRUE /\ childPaused' = FALSE
    /\ child' = IF childPaused /\ child = "stopped" THEN "running" ELSE child
    /\ killTimer' = IF killTimer = "unset" THEN "set" ELSE killTimer
    /\ UNCHANGED sup

\* A termination signal: handled, or deadly while no handler is installed.
HandleSignal ==
    /\ signal /\ signal' = FALSE
    /\ IF sup = "up"
       THEN RequestTermination
       ELSE sup' = "gone" /\ UNCHANGED <<child, childPaused, requested, killTimer>>
    /\ UNCHANGED <<mode, runner, link, mail, acks, helper, overtaken>>

\* onDisconnect, after the messages that were sent before.
HandleDisconnect ==
    /\ sup = "up" /\ link = "cut" /\ mail = <<>>
    /\ link' = "seen"
    /\ RequestTermination
    /\ UNCHANGED <<mode, runner, mail, acks, signal, helper, overtaken>>

\* child.kill fails once Claude has exited.
Obeyed(action) ==
    /\ ~requested
    /\ childPaused = (action = "pause") \/ Alive

\* The answer names the request by its requestId and action.
Acknowledge(ok) ==
    acks' = IF aim = "up" THEN Append(acks, [id |-> Head(mail).id,
                                             action |-> Head(mail).action,
                                             ok |-> ok])
                          ELSE acks

\* Mutant of HandleControl: a resume forgets to reset childPaused.
HandleControlNoReset ==
    /\ sup = "up" /\ mail # <<>>
    /\ mail' = Tail(mail)
    /\ LET action == Head(mail).action IN
       /\ IF Obeyed(action)
          THEN /\ childPaused' = (childPaused \/ action = "pause")
               /\ child' = IF ~Alive \/ (childPaused /\ action = "pause") THEN child
                           ELSE IF action = "pause" THEN "stopped" ELSE "running"
          ELSE UNCHANGED <<childPaused, child>>
       /\ Acknowledge(Obeyed(action))
    /\ UNCHANGED <<mode, runner, link, signal, sup, requested, killTimer,
                   helper, overtaken>>

\* onMessage: obey unless Claude is being ended, and acknowledge.
HandleControl ==
    /\ sup = "up" /\ mail # <<>>
    /\ mail' = Tail(mail)
    /\ LET action == Head(mail).action IN
       /\ IF Obeyed(action)
          THEN /\ childPaused' = (action = "pause")
               /\ child' = IF childPaused = childPaused' \/ ~Alive THEN child
                           ELSE IF childPaused' THEN "stopped" ELSE "running"
          ELSE UNCHANGED <<childPaused, child>>
       /\ Acknowledge(Obeyed(action))
    /\ UNCHANGED <<mode, runner, link, signal, sup, requested, killTimer,
                   helper, overtaken>>

\* forcedKillTimer of the supervisor: SIGKILL, also to a stopped Claude.
KillClaude ==
    /\ sup = "up" /\ killTimer = "set"
    /\ killTimer' = "fired"
    /\ child' = IF Alive THEN "gone" ELSE child
    /\ UNCHANGED <<mode, runner, wires, sup, childPaused, requested, helper,
                   overtaken>>

\* onClose: Claude has ended; the listeners are removed.
ClaudeClosed ==
    /\ sup = "up" /\ child = "gone"
    /\ sup' = "ending"
    /\ UNCHANGED <<mode, runner, wires, childPaused, requested, killTimer,
                   processes>>

\* main: disconnect, and end with Claude's signal or status.
SupervisorExits ==
    /\ sup = "ending"
    /\ sup' = "gone"
    /\ UNCHANGED <<mode, runner, wires, childPaused, requested, killTimer,
                   processes>>

\* Claude ends by itself or on a signal it obeys.
ClaudeExits ==
    /\ child = "running"
    /\ child' = "gone"
    /\ UNCHANGED <<mode, runner, wires, supervisor, helper, overtaken>>

\* A helper ends, or lets go of the output.
HelperEnds ==
    /\ helper # "none"
    /\ helper' \in {"none", "quiet"} \ {helper}
    /\ UNCHANGED <<mode, runner, wires, supervisor, child, overtaken>>

Next ==
    \/ Abort \/ (\E action \in Actions : Ask(action)) \/ Answer \/ Unanswered
    \/ KillSupervisor \/ KillGroup \/ Close \/ Crash
    \/ Start \/ MissDisconnect \/ HandleSignal \/ HandleDisconnect
    \/ HandleControl \/ KillClaude \/ ClaudeClosed \/ SupervisorExits
    \/ ClaudeExits \/ HelperEnds

\* The event loops run and timers that are set fire.  Nothing makes Claude or
\* a helper end, the lease get lost, or AIM ask or die.
Fairness ==
    /\ WF_vars(Start) /\ WF_vars(HandleSignal) /\ WF_vars(HandleDisconnect)
    /\ WF_vars(HandleControl) /\ WF_vars(KillClaude) /\ WF_vars(ClaudeClosed)
    /\ WF_vars(SupervisorExits) /\ WF_vars(KillSupervisor)
    /\ WF_vars(KillGroup) /\ WF_vars(Close)

Spec == Init /\ [][Next]_vars /\ Fairness
-----------------------------------------------------------------------------
(* While AIM counts on Claude being paused (its lease is uncertain and the  *)
(* pause was acknowledged), Claude does not run.                            *)
HeldMeansStopped ==
    paused /\ asked = NoRequest /\ ~aborted /\ aim = "up" => child # "running"

(* A Claude that is being ended is not left stopped: it could not save its  *)
(* session, and a late pause request does not stop it again.                *)
EndedNotStopped ==
    requested /\ sup = "up" => child # "stopped"

(* When the supervisor is gone Claude is gone, so a launch that AIM has     *)
(* seen end no longer uses the credential.  The exception is named: AIM's   *)
(* SIGKILL came before the supervisor's own.                                *)
NothingOutlives ==
    sup = "gone" \/ run = "closed" => ~Alive \/ overtaken

(* A noninteractive launch that was terminated leaves no process of its     *)
(* group behind when its result is reported.                                *)
GroupGone ==
    mode = "batch" /\ run = "closed" /\ aborted => ~Alive /\ helper = "none"

(* A lost lease ends the launch: Claude ends although it may ignore SIGTERM *)
(* or be paused, and AIM's promise settles.                                 *)
LostLeaseEnds ==
    aborted ~> aim = "dead" \/ (run = "closed" /\ (~Alive \/ overtaken))

(* Without AIM Claude ends, whenever AIM died: before the spawn, between a  *)
(* pause and its resume, or while Claude was being ended.                   *)
AimGoneEnds ==
    aim = "dead" ~> ~Alive \/ overtaken

(* A launch that has to end ends, and so does one that nobody watches.      *)
LaunchEnds == LostLeaseEnds /\ AimGoneEnds
=============================================================================
