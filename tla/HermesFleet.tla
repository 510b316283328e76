------------------------------ MODULE HermesFleet ------------------------------
(***************************************************************************)
(* `aim hermes watch` and `aim rebalance hermes` (src/pool/watch.js,       *)
(* hermes-rebalance.js, token-usage.js, src/targets/hermes-auth.js): the   *)
(* homes of Hermes are spread over the labels of the Codex pool.  Which    *)
(* label a home has is what its auth.json says: nothing else records it.   *)
(* A home holds a copy of the label's tokens twice, as the provider's and  *)
(* as the one entry of a credential pool.                                  *)
(*                                                                         *)
(* Homes and labels are numbers in the order of their names; 0 is none.    *)
(* The versions of a label's tokens count up; version 0 are tokens that    *)
(* Hermes itself has got for the account.                                  *)
(***************************************************************************)
EXTENDS WeightedPlan

CONSTANTS
    Watch,         \* the process of `aim hermes watch`
    Fleet,         \* the aim processes, the watch among them
    NumHomes,      \* the homes
    NumFleetLabels, \* the labels of the pool
    Percent,       \* the weekly remaining per cent of a label, by its usage
    HomeTokens,    \* what a home may have used in the window
    MaxFleetJobs,  \* bound on the jobs of a process other than the watch
    MaxFleetEvents \* bound on what happens around them

Home == 1..NumHomes
FleetLabel == 1..NumFleetLabels

\* What a probe of a label may say: enough or little is left, none is left, none is
\* left or the tokens are refused and no number is given, or there is no answer.
Eligible == {"ample", "low"}
Usage == Eligible \cup {"spent", "refused", "silent"}

ASSUME FleetAssumption ==
    /\ Watch \in Fleet /\ NumHomes \in Nat \ {0} /\ NumFleetLabels \in Nat \ {0}
    /\ Percent \in [Eligible -> 1..100] /\ HomeTokens \subseteq Nat
    /\ MaxFleetJobs \in Nat /\ MaxFleetEvents \in Nat

VARIABLES
    home,        \* by home its auth.json
    tokens,      \* Redis: by label the version of its tokens
    stale,       \* by label, the last version that has expired
    left,        \* the provider: by label its usage
    demand,      \* the state.db of the homes: by home its tokens in the window
    fleet,       \* the aim processes, as NoFleetJob says
    fleetJobs,   \* bound: by process its jobs
    fleetEvents, \* bound: what happened around them
    undisturbed  \* history: by process, no other has written a home since it looked

fleetVars == <<home, tokens, stale, left, demand, fleet, fleetJobs, fleetEvents, undisturbed>>

\* An auth.json: whether it can be used, the label and version of the provider's
\* tokens (label 0: of an account that is not in the pool), and whether the one pool
\* entry holds the same tokens.
Auth(l, v, pooled) == [state |-> "ok", label |-> l, version |-> v, pooled |-> pooled]
Unusable == {"missing", "unreadable", "foreign"}

\* A job: its next step, whether it is of the watch, the tokens it has loaded, what
\* the probe said, what homes it is to write with which label, and how it ended.
NoFleetJob == [pc |-> "idle", cred |-> [l \in FleetLabel |-> 0],
               usage |-> [l \in FleetLabel |-> "silent"],
               move |-> [h \in Home |-> 0], sync |-> [h \in Home |-> 0], status |-> "none"]

FleetInit ==
    /\ home \in [Home -> {Auth(0, 0, TRUE), Auth(1, 1, TRUE)}]
    /\ tokens = [l \in FleetLabel |-> 1]
    /\ stale = [l \in FleetLabel |-> 0]
    /\ left = [l \in FleetLabel |-> "ample"]
    /\ demand \in [Home -> HomeTokens]
    /\ fleet = [w \in Fleet |-> NoFleetJob]
    /\ fleetJobs = [w \in Fleet |-> 0]
    /\ fleetEvents = 0
    /\ undisturbed = [w \in Fleet |-> FALSE]

-----------------------------------------------------------------------------
\* readHermesHomeStatus, with the tokens a job has loaded: a home whose tokens are not
\* the label's is still the label's by the account id in them.
NeedsSync(h, cred) ==
    LET a == home[h] IN a.label # 0 /\ (a.version # cred[a.label] \/ ~a.pooled)

Blocked(h) == home[h].state \in Unusable

\* loadRedisRuntime.
FleetBegin(w) ==
    /\ fleet[w].pc = "idle"
    /\ w # Watch => fleetJobs[w] < MaxFleetJobs
    /\ fleetJobs' = [fleetJobs EXCEPT ![w] = IF w = Watch THEN 0 ELSE @ + 1]
    /\ fleet' = [fleet EXCEPT ![w] = [NoFleetJob EXCEPT !.pc = "probe", !.cred = tokens]]
    /\ UNCHANGED <<home, tokens, stale, left, demand, fleetEvents, undisturbed>>

\* The probe uses the tokens that were loaded.
Probed(w, l) == IF fleet[w].cred[l] <= stale[l] THEN "refused" ELSE left[l]

FleetProbe(w) ==
    /\ fleet[w].pc = "probe"
    /\ fleet' = [fleet EXCEPT ![w].pc = "look", ![w].usage = [l \in FleetLabel |-> Probed(w, l)]]
    /\ UNCHANGED <<home, tokens, stale, left, demand, fleetJobs, fleetEvents, undisturbed>>

EligibleLabels(usage) == {l \in FleetLabel : usage[l] \in Eligible}

\* The watch cannot tell whether a home is well served; unless there is a hard
\* failure that it may rotate away from.
UsageUnknown(h, usage) ==
    /\ home[h].label # 0
    /\ \/ usage[home[h].label] = "silent"
       \/ usage[home[h].label] = "refused" /\ EligibleLabels(usage) = {}

\* Mutant of NothingToDo: the eligibility of the labels is not looked at.
OnlyLow(usage, cred) ==
    \A h \in Home : home[h].label # 0 /\ ~NeedsSync(h, cred) /\ usage[home[h].label] # "low"

\* The watch finds every home served by an eligible label with enough left, in sync.
NothingToDo(usage, cred) ==
    \A h \in Home : home[h].label # 0 /\ ~NeedsSync(h, cred) /\ usage[home[h].label] = "ample"

HomePlan(usage) ==
    LET labels == EligibleLabels(usage)
        percent == [l \in labels |-> Percent[usage[l]]]
    IN  PlanAssignments(labels, percent, percent, DemandWeights(demand),
                        [h \in Home |-> home[h].label])

\* The homes that keep their label and get its tokens again.
Resyncs(plan, cred) ==
    [h \in Home |-> IF plan[h] = home[h].label /\ NeedsSync(h, cred) THEN plan[h] ELSE 0]

\* What a look at the homes decides: an early end with a status, or the writes.
Decided(w) ==
    LET usage == fleet[w].usage   cred == fleet[w].cred
        plan == HomePlan(usage)
    IN  IF \/ \E h \in Home : Blocked(h)
           \/ w = Watch /\ \E h \in Home : UsageUnknown(h, usage)
           \/ ~(w = Watch /\ NothingToDo(usage, cred)) /\ EligibleLabels(usage) = {}
        THEN [fleet[w] EXCEPT !.pc = "save", !.status = "blocked"]
        ELSE IF w = Watch /\ NothingToDo(usage, cred)
        THEN [fleet[w] EXCEPT !.pc = "save", !.status = "noop"]
        ELSE [fleet[w] EXCEPT !.pc = "write",
                  !.move = [h \in Home |-> IF plan[h] = home[h].label THEN 0 ELSE plan[h]],
                  !.sync = Resyncs(plan, cred)]

FleetLook(w) ==
    /\ fleet[w].pc = "look"
    /\ fleet' = [fleet EXCEPT ![w] = Decided(w)]
    /\ undisturbed' = [undisturbed EXCEPT ![w] = TRUE]
    /\ UNCHANGED <<home, tokens, stale, left, demand, fleetJobs, fleetEvents>>

\* The homes that are written next: the moves in the order of the homes, then the rest.
ToWrite(w) ==
    LET moves == {h \in Home : fleet[w].move[h] # 0}
        syncs == {h \in Home : fleet[w].sync[h] # 0}
    IN  IF moves # {} THEN moves ELSE syncs

\* writeHermesAuthFromState for one home.  It refuses tokens that have expired and an
\* auth.json that cannot be read; then the job is blocked and the rest is not written.
FleetWrite(w) ==
    LET h == CHOOSE h \in ToWrite(w) : \A i \in ToWrite(w) : h <= i
        l == fleet[w].move[h] + fleet[w].sync[h]
        v == fleet[w].cred[l]
    IN
    /\ fleet[w].pc = "write"
    /\ \/ /\ ToWrite(w) = {}
          /\ fleet' = [fleet EXCEPT ![w].pc = "save", ![w].status = "applied"]
          /\ UNCHANGED <<home, undisturbed>>
       \/ /\ ToWrite(w) # {}
          /\ v <= stale[l] \/ home[h].state = "unreadable"
          /\ fleet' = [fleet EXCEPT ![w].pc = "save", ![w].status = "blocked"]
          /\ UNCHANGED <<home, undisturbed>>
       \/ /\ ToWrite(w) # {}
          /\ v > stale[l] /\ home[h].state # "unreadable"
          /\ home' = [home EXCEPT ![h] = Auth(l, v, TRUE)]
          /\ undisturbed' = [x \in Fleet |-> x = w /\ undisturbed[w]]
          /\ fleet' = [fleet EXCEPT ![w].move[h] = 0, ![w].sync[h] = 0]
    /\ UNCHANGED <<tokens, stale, left, demand, fleetJobs, fleetEvents>>

\* The receipt goes to the local state file; the watch sleeps and begins again.
FleetSave(w) ==
    /\ fleet[w].pc = "save"
    /\ fleet' = [fleet EXCEPT ![w] = NoFleetJob]
    /\ UNCHANGED <<home, tokens, stale, left, demand, fleetJobs, fleetEvents, undisturbed>>

\* A home's state.db cannot be read, or the process is killed.
FleetFails(w) ==
    /\ fleet[w].pc # "idle" /\ fleetEvents < MaxFleetEvents
    /\ fleetEvents' = fleetEvents + 1
    /\ fleet' = [fleet EXCEPT ![w] = NoFleetJob]
    /\ UNCHANGED <<home, tokens, stale, left, demand, fleetJobs, undisturbed>>

-----------------------------------------------------------------------------
FleetEvent == fleetEvents < MaxFleetEvents /\ fleetEvents' = fleetEvents + 1

\* Hermes, or the operator, writes an auth.json: tokens of its own for the account it
\* has, for one that is not in the pool, a second pool entry, or none that can be used.
OtherAuths(a) ==
    {Auth(a.label, 0, TRUE), Auth(0, 0, TRUE), [a EXCEPT !.pooled = FALSE]}
    \cup {[Auth(0, 0, FALSE) EXCEPT !.state = s] : s \in Unusable}

HomeWrites(h, a) ==
    /\ FleetEvent
    /\ home' = [home EXCEPT ![h] = a]
    /\ undisturbed' = [w \in Fleet |-> FALSE]
    /\ UNCHANGED <<tokens, stale, left, demand, fleet, fleetJobs>>

UsageMoves(l, u) ==
    /\ FleetEvent
    /\ left[l] # u
    /\ left' = [left EXCEPT ![l] = u]
    /\ UNCHANGED <<home, tokens, stale, demand, fleet, fleetJobs, undisturbed>>

\* `aim auth maintain` publishes new tokens of a label; the old ones expire.
TokensMaintained(l) ==
    /\ FleetEvent
    /\ tokens' = [tokens EXCEPT ![l] = @ + 1]
    /\ UNCHANGED <<home, stale, left, demand, fleet, fleetJobs, undisturbed>>

TokensExpire(l) ==
    /\ FleetEvent
    /\ stale[l] < tokens[l]
    /\ stale' = [stale EXCEPT ![l] = @ + 1]
    /\ UNCHANGED <<home, tokens, left, demand, fleet, fleetJobs, undisturbed>>

FleetStep(w) == FleetBegin(w) \/ FleetProbe(w) \/ FleetLook(w) \/ FleetWrite(w) \/ FleetSave(w)

FleetNext ==
    \/ \E w \in Fleet : FleetStep(w)
    \/ \E w \in Fleet : FleetFails(w)
    \/ \E h \in Home : \E a \in OtherAuths(home[h]) \ {home[h]} : HomeWrites(h, a)
    \/ \E l \in FleetLabel, u \in Usage : UsageMoves(l, u)
    \/ \E l \in FleetLabel : TokensMaintained(l)
    \/ \E l \in FleetLabel : TokensExpire(l)

\* The watch goes on, and so does a job that has been begun: a step is always enabled,
\* so that weak fairness is to say that no step is the last.
FleetSteps == {"idle", "probe", "look", "write", "save"}
FleetFairness ==
    /\ \A s \in FleetSteps : []<>(fleet[Watch].pc # s)
    /\ \A w \in Fleet, s \in FleetSteps \ {"idle"} : []<>(fleet[w].pc # s)

FleetSpec == FleetInit /\ [][FleetNext]_fleetVars /\ FleetFairness
-----------------------------------------------------------------------------
(* Properties.                                                             *)

\* A home whose auth.json is coherent and holds a label's tokens of a version.
Holds(h, cred, labels) ==
    home[h].state = "ok" /\ home[h].label \in labels /\ home[h].pooled
    /\ home[h].version = cred[home[h].label]

\* A job that ends well, and whose homes no other has written since it looked, leaves
\* every home with the tokens it loaded, of a label that its probe found eligible, in
\* both places of the auth.json.
FleetServed ==
    [][\A w \in Fleet :
          fleet[w].pc = "save" /\ fleet'[w].pc = "idle" /\ undisturbed[w]
             /\ fleet[w].status \in {"noop", "applied"} =>
          \A h \in Home : Holds(h, fleet[w].cred, EligibleLabels(fleet[w].usage))]_fleetVars

\* What the watch cannot mend by itself: no label with headroom, a home without a
\* usable auth.json, or a label of a home that gives no answer.
OutOfReach ==
    \/ \A l \in FleetLabel : left[l] \notin Eligible \/ tokens[l] <= stale[l]
    \/ \E h \in Home : Blocked(h) \/ (home[h].label # 0 /\ left[home[h].label] = "silent")

\* As long as the watch goes on, again and again every home has the current tokens of
\* a label with headroom, or there is something that the watch cannot mend; also after
\* a job with old tokens has written over the homes.
FleetRecovers ==
    []<>(OutOfReach \/ \A h \in Home : Holds(h, tokens, {l \in FleetLabel : left[l] \in Eligible}))

\* The fleet is served by every job that ends well, and again and again whatever the
\* others were disturbed by.
FleetKept == FleetServed /\ FleetRecovers
=============================================================================
