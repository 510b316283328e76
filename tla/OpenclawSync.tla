------------------------------ MODULE OpenclawSync ------------------------------
(***************************************************************************)
(* `aim rebalance openclaw` (src/openclaw/rebalance.js, sync.js, apply.js, *)
(* sessions.js): the agents of OpenClaw are spread over the labels of the  *)
(* Codex pool, and the plan is put into the auth stores, the config and    *)
(* the sessions on disk.  The gateway reads them when it starts, so that   *)
(* the rebalance ends with a restart, if it has changed anything.          *)
(*                                                                         *)
(* Agents and labels are numbers in the order of their names; 0 is none.   *)
(* The labels after those of the pool are of Anthropic.  A model is "codex" *)
(* or "claude" when it is the one that AIM wants, or "other".              *)
(***************************************************************************)
EXTENDS WeightedPlan

CONSTANTS
    NumAgents,     \* the agents that OpenClaw has or had
    NumPool,       \* the labels of the Codex pool
    NumClaude,     \* the labels of Anthropic
    Excluded,      \* the agents that the local state excludes
    Headroom,      \* by label of the pool, its weekly remaining per cent
    Tokens,        \* what an agent may have used in the window
    Assignments,   \* the assignments there may be at the start
    MaxRebalances, \* bound on the rebalances
    MaxUpsets      \* bound on what happens around them

Agent == 1..NumAgents
PoolLabel == 1..NumPool
AgentLabel == 1..(NumPool + NumClaude)
Barred == NumPool + NumClaude + 1     \* an order without any profile

ASSUME OpenclawAssumption ==
    /\ NumAgents \in Nat \ {0} /\ NumPool \in Nat \ {0} /\ NumClaude \in Nat
    /\ Excluded \subseteq Agent /\ Headroom \in [PoolLabel -> 1..100] /\ Tokens \subseteq Nat
    /\ Assignments \subseteq [Agent -> {0} \cup AgentLabel]

VARIABLES
    config,   \* OpenClaw's agents.list: by agent its model, or "gone"
    version,  \* Redis: by label the version of its credential
    spent,    \* the provider: the labels of the pool without headroom
    usage,    \* the sessions stores: by agent its tokens in the window
    assigned, \* the local state file: by agent its label
    main,     \* the main auth store: by label the version of its profile, or 0
    order,    \* by agent its auth store: the profile it is to use, or 0, or Barred
    session,  \* by agent its session: the pinned profile and the model
    running,  \* what the gateway has read of the stores and the config
    job,      \* the rebalance, as NoJob says
    jobs,     \* bound: the rebalances begun
    upsets,   \* bound: what happened around them
    even,     \* history: when the rebalance began, the gateway ran what was on disk
    written,  \* history: the gateway has written a session since the rebalance began
    repeats   \* history: the plans made since their inputs changed, up to 2

openclawHistory == <<even, written, repeats>>
world == <<config, version, spent, usage>>
openclawVars == <<world, assigned, main, order, session, running, job, jobs, upsets,
                  openclawHistory>>

\* A rebalance: its next step, the credentials and the assignments it has loaded,
\* the assignments it has planned, the agents.list and the assignments it syncs, the
\* agents it has to do at this step, what it has changed, and whether all went well.
NoJob == [pc |-> "idle", cred |-> [l \in AgentLabel |-> 0], old |-> [a \in Agent |-> 0],
          next |-> [a \in Agent |-> 0], list |-> [a \in Agent |-> "gone"],
          todo |-> {}, wrote |-> FALSE, ok |-> FALSE]

NoSession == [pin |-> 0, model |-> "none"]
Disk == [main |-> main, order |-> order, config |-> config]

OpenclawInit ==
    /\ config = [a \in Agent |-> "other"]
    /\ version = [l \in AgentLabel |-> 1]
    /\ spent = {}
    /\ usage = [a \in Agent |-> 0]
    /\ assigned \in Assignments
    /\ main = [l \in AgentLabel |-> 1]
    /\ order = [a \in Agent |-> 0]
    /\ session = [a \in Agent |-> NoSession]
    /\ running = Disk
    /\ job = NoJob
    /\ jobs = 0 /\ upsets = 0
    /\ even = TRUE /\ written = FALSE /\ repeats = 0

-----------------------------------------------------------------------------
\* discoverConfiguredOpenclawCodexAgents: the agents that the planner places.
Managed(list) == {a \in Agent \ Excluded : list[a] \notin {"gone", "claude"}}

\* The model of an agent that has a label.
Wanted(l) == IF l \in PoolLabel THEN "codex" ELSE "claude"

\* The assignments that are synced: those of configured agents.
Active == {a \in Agent : job.next[a] # 0 /\ job.list[a] # "gone"}

Least(S) == CHOOSE a \in S : \A b \in S : a <= b

RebalanceBegin ==
    /\ job.pc = "idle" /\ jobs < MaxRebalances
    /\ jobs' = jobs + 1
    /\ job' = [NoJob EXCEPT !.pc = "plan", !.cred = version, !.old = assigned, !.next = assigned]
    /\ even' = (running = Disk)
    /\ written' = FALSE
    /\ UNCHANGED <<world, assigned, main, order, session, running, upsets, repeats>>

\* The assignments of agents that the planner does not place are kept, those of
\* agents that are gone are dropped.
Preserved(old, list) ==
    [a \in Agent |-> IF a \in Managed(list) \/ (a \notin Excluded /\ list[a] = "gone") THEN 0
                     ELSE old[a]]

\* What is planned from the usage probe, the config and the sessions stores.
NextAssignments(old) ==
    LET managed == Managed(config)
        planned == PlanAssignments(PoolLabel \ spent, Headroom, Headroom,
                       DemandWeights([a \in managed |-> usage[a]]), old)
    IN  [a \in Agent |-> IF a \in managed THEN planned[a] ELSE Preserved(old, config)[a]]

\* The plan; without any eligible label the rebalance is blocked.
RebalancePlan ==
    /\ job.pc = "plan"
    /\ job' = IF PoolLabel \subseteq spent THEN [job EXCEPT !.pc = "save"]
              ELSE [job EXCEPT !.pc = "auth", !.next = NextAssignments(job.old)]
    /\ repeats' = IF job'.pc = "save" THEN 0 ELSE IF repeats = 2 THEN 2 ELSE repeats + 1
    /\ UNCHANGED <<world, assigned, main, order, session, running, jobs, upsets, even, written>>

\* syncOpenclawFromState: the config is read again; the main store gets the
\* profiles of the assigned labels and loses all others of these providers.
RebalanceAuth ==
    /\ job.pc = "auth"
    /\ LET used == {job.next[a] : a \in {b \in Agent : config[b] # "gone"}}
           profiles == [l \in AgentLabel |-> IF l \in used THEN job.cred[l] ELSE 0]
           assignees == {a \in Agent : job.next[a] # 0 /\ config[a] # "gone"}
       IN  /\ main' = profiles
           /\ job' = [job EXCEPT !.pc = "stores", !.list = config, !.wrote = (main # profiles),
                  !.todo = {a \in Agent : order[a] # 0} \cup Managed(config) \cup assignees]
    /\ UNCHANGED <<world, assigned, order, session, running, jobs, upsets, openclawHistory>>

\* Mutant of Order: the store of an agent that has no label is left as it is.
OrderOfAssigned(a) == IF a \in Active THEN job.next[a] ELSE order[a]

\* The order an agent's store gets: its label's profile; none at all when the agent is
\* managed and has no label; else the order is removed.
Order(a) == IF a \in Active THEN job.next[a] ELSE IF a \in Managed(job.list) THEN Barred ELSE 0

\* The auth stores of the agents, one after the other.
RebalanceStore ==
    LET a == Least(job.todo) IN
    /\ job.pc = "stores"
    /\ \/ /\ job.todo # {}
          /\ order' = [order EXCEPT ![a] = Order(a)]
          /\ job' = [job EXCEPT !.todo = @ \ {a}, !.wrote = @ \/ order[a] # Order(a)]
       \/ /\ job.todo = {}
          /\ job' = [job EXCEPT !.pc = "models",
                 !.todo = {b \in Active : job.list[b] # Wanted(job.next[b])}]
          /\ UNCHANGED order
    /\ UNCHANGED <<world, assigned, main, session, running, jobs, upsets, openclawHistory>>

\* The agents in the order of a config, which a set operation names by their index.
Listed(list) == {a \in Agent : list[a] # "gone"}
Index(list, a) == Cardinality({b \in Listed(list) : b <= a})

\* `openclaw config set agents.list[i].model`, for each agent whose model is not the
\* wanted one; i is the agent's index in the list that was read.
RebalanceModel ==
    LET a == Least(job.todo) IN
    /\ job.pc = "models"
    /\ \/ /\ job.todo # {}
          /\ \E b \in Listed(config) :
                /\ Index(config, b) = Index(job.list, a)
                /\ config' = [config EXCEPT ![b] = Wanted(job.next[a])]
          /\ job' = [job EXCEPT !.todo = @ \ {a}, !.wrote = TRUE]
       \/ /\ job.todo = {}
          /\ job' = [job EXCEPT !.pc = "scan"]
          /\ UNCHANGED config
    /\ repeats' = IF Managed(config') = Managed(config) THEN repeats ELSE 0
    /\ UNCHANGED <<version, spent, usage, assigned, main, order, session, running, jobs, upsets,
                   even, written>>

\* sessionEntryNeedsModelReset, for what is desired of the agent's sessions: the
\* model and profile of its label, or for a managed agent without one its own model
\* and no profile of these providers.
OffPin(a) == session[a].pin # 0 /\ ~(a \in Active /\ session[a].pin = job.next[a])
Desired(a) == IF a \in Active THEN Wanted(job.next[a]) ELSE job.list[a]
NeedsReset(a) ==
    /\ a \in Active \cup Managed(job.list)
    /\ session[a].model \notin {"none", Desired(a)} \/ OffPin(a)

\* The sessions that are to be reset; without any, the gateway is restarted only if
\* something else has changed.
RebalanceScan ==
    LET changes == {a \in Agent : NeedsReset(a)} IN
    /\ job.pc = "scan"
    /\ job' = IF changes # {} THEN [job EXCEPT !.pc = "reset", !.todo = changes]
              ELSE IF job.wrote THEN [job EXCEPT !.pc = "restart"]
              ELSE [job EXCEPT !.pc = "save", !.ok = TRUE]
    /\ UNCHANGED <<world, assigned, main, order, session, running, jobs, upsets, openclawHistory>>

\* resetSessionEntryToDefaults.
Cleared(a) == [pin |-> IF OffPin(a) THEN 0 ELSE session[a].pin, model |-> "none"]

\* applyOpenclawSessionsDiskResets reads the sessions of the agent again.
RebalanceReset ==
    LET a == Least(job.todo) IN
    /\ job.pc = "reset"
    /\ \/ /\ job.todo # {}
          /\ session' = IF NeedsReset(a) THEN [session EXCEPT ![a] = Cleared(a)] ELSE session
          /\ job' = [job EXCEPT !.todo = @ \ {a}]
       \/ /\ job.todo = {}
          /\ job' = [job EXCEPT !.pc = "restart"]
          /\ UNCHANGED session
    /\ UNCHANGED <<world, assigned, main, order, running, jobs, upsets, openclawHistory>>

RebalanceRestart ==
    /\ job.pc = "restart"
    /\ running' = Disk
    /\ job' = [job EXCEPT !.pc = "save", !.ok = TRUE]
    /\ UNCHANGED <<world, assigned, main, order, session, jobs, upsets, openclawHistory>>

\* A store, the config or the sessions cannot be read or written, or the gateway
\* does not restart: the receipt says blocked, and the plan is recorded.
RebalanceFails ==
    /\ job.pc \notin {"idle", "save"} /\ upsets < MaxUpsets
    /\ upsets' = upsets + 1
    /\ job' = [job EXCEPT !.pc = "save"]
    /\ UNCHANGED <<world, assigned, main, order, session, running, jobs, openclawHistory>>

RebalanceSave ==
    /\ job.pc = "save"
    /\ assigned' = job.next
    /\ job' = NoJob
    /\ UNCHANGED <<world, main, order, session, running, jobs, upsets, openclawHistory>>

\* The process is killed, or agents.list cannot be read for the plan.
RebalanceDies ==
    /\ job.pc # "idle" /\ upsets < MaxUpsets
    /\ upsets' = upsets + 1
    /\ job' = NoJob
    /\ repeats' = 0
    /\ UNCHANGED <<world, assigned, main, order, session, running, jobs, even, written>>

-----------------------------------------------------------------------------
\* The operator edits the config; the pool is used; a credential is maintained.
ConfigChange(a, model) ==
    /\ upsets < MaxUpsets /\ upsets' = upsets + 1
    /\ config[a] # model
    /\ config' = [config EXCEPT ![a] = model]
    /\ even' = FALSE /\ repeats' = 0
    /\ UNCHANGED <<version, spent, usage, assigned, main, order, session, running, job, jobs, written>>

UsageChange(a, n, l) ==
    /\ upsets < MaxUpsets /\ upsets' = upsets + 1
    /\ usage' = [usage EXCEPT ![a] = n]
    /\ spent' = IF l \in spent THEN spent \ {l} ELSE spent \cup {l}
    /\ repeats' = 0
    /\ UNCHANGED <<config, version, assigned, main, order, session, running, job, jobs, even, written>>

Maintained(l) ==
    /\ upsets < MaxUpsets /\ upsets' = upsets + 1
    /\ version' = [version EXCEPT ![l] = @ + 1]
    /\ UNCHANGED <<config, spent, usage, assigned, main, order, session, running, job, jobs,
                   openclawHistory>>

\* The gateway writes a session, with the model it runs and a profile it knows.
GatewaySession(a, pin) ==
    /\ upsets < MaxUpsets /\ upsets' = upsets + 1
    /\ pin # 0 => running.main[pin] # 0
    /\ session' = [session EXCEPT ![a] = [pin |-> pin, model |-> running.config[a]]]
    /\ written' = TRUE
    /\ UNCHANGED <<world, assigned, main, order, running, job, jobs, even, repeats>>

\* OpenClaw restarts its gateway.
GatewayRestart ==
    /\ upsets < MaxUpsets /\ upsets' = upsets + 1
    /\ running # Disk /\ running' = Disk
    /\ UNCHANGED <<world, assigned, main, order, session, job, jobs, openclawHistory>>

OpenclawNext ==
    \/ RebalanceBegin \/ RebalancePlan \/ RebalanceAuth \/ RebalanceStore \/ RebalanceModel
    \/ RebalanceScan \/ RebalanceReset \/ RebalanceRestart \/ RebalanceFails
    \/ RebalanceSave \/ RebalanceDies
    \/ \E a \in Agent, model \in {"gone", "other", "claude"} : ConfigChange(a, model)
    \/ \E a \in Agent, n \in Tokens, l \in PoolLabel : UsageChange(a, n, l)
    \/ \E l \in AgentLabel : Maintained(l)
    \/ \E a \in Agent, pin \in {0} \cup AgentLabel : running.config[a] # "gone" /\ GatewaySession(a, pin)
    \/ GatewayRestart

OpenclawSpec == OpenclawInit /\ [][OpenclawNext]_openclawVars
-----------------------------------------------------------------------------
(* Properties.                                                             *)

EndsWell == job.pc = "save" /\ job.ok /\ job'.pc = "idle"

\* "Do not derive target capacity from current assignments or repeat rebalances will
\* churn": a third plan from the same headroom, demand and agents moves nobody.
RebalanceSettles ==
    [][job.pc = "plan" /\ job'.pc = "auth" /\ repeats = 2 =>
          \A a \in Managed(config) : job'.next[a] = job.old[a]]_openclawVars

\* "Unassigned pool labels must not remain consumable through hidden defaults or
\* stale per-agent stores": when a rebalance ends well, and the gateway ran what was
\* on disk when it began, then the gateway knows the profiles of assigned labels only,
\* every agent has its own label or none, and the model of its label.
OnlyAssignedConsumable ==
    [][EndsWell /\ even =>
          /\ \A l \in AgentLabel : running.main[l] # 0 => \E a \in Active : job.next[a] = l
          /\ \A a \in Agent : running.order[a] \in AgentLabel => a \in Active /\ job.next[a] = running.order[a]
          /\ \A a \in Managed(job.list) \ Active : running.order[a] = Barred
          /\ \A a \in Active : running.config[a] = Wanted(job.next[a])]_openclawVars

\* When a rebalance ends well, no session of an agent that it places is pinned to
\* another account, or has another model, than the agent; unless the gateway has
\* written sessions meanwhile.
SessionsFollow ==
    [][EndsWell /\ ~written =>
          \A a \in Active \cup Managed(job.list) :
             ~OffPin(a) /\ session[a].model \in {"none", Desired(a)}]_openclawVars

\* A rebalance that ends well has reached everything the gateway may consume: the
\* profiles, their order, the models, and the sessions that were under way; and once
\* it is repeated it has nothing left to move.
RebalanceReaches == OnlyAssignedConsumable /\ SessionsFollow /\ RebalanceSettles
=============================================================================
