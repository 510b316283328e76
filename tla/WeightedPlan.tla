---------------------------- MODULE WeightedPlan ----------------------------
(***************************************************************************)
(* The planner that spreads subjects (the agents of OpenClaw, the homes of *)
(* Hermes) over the eligible labels of the Codex pool by the weekly        *)
(* remaining headroom of each label (src/pool/weighted-planner.js) and the *)
(* demand ledger it reads (src/pool/demand-ledger.js).                     *)
(*                                                                         *)
(* Labels and subjects are numbers in the order of their names.  Weights   *)
(* are in hundredths, as roundDemandWeight keeps them.  `left` is the      *)
(* weekly and `short` the short-window remaining per cent of a label.      *)
(***************************************************************************)
EXTENDS Naturals, FiniteSets, Folds

\* Math.round of n / d.
Rounded(n, d) == (2 * n + d) \div (2 * d)

\* The sum of the weights of the members of S.
Total(S, weight) ==
    MapThenFoldSet(+, 0, LAMBDA s : weight[s], LAMBDA T : CHOOSE s \in T : TRUE, S)

\* The demand ledger: a subject without tokens in the window weighs as much as the
\* mean of those that have some, and every subject at least one token.
DemandWeights(tokens) ==
    LET seen == {s \in DOMAIN tokens : tokens[s] > 0}
        mean == IF seen = {} THEN 100
                ELSE Rounded(100 * Total(seen, tokens), Cardinality(seen))
    IN  [s \in DOMAIN tokens |->
            IF tokens[s] > 0 THEN 100 * tokens[s] ELSE IF mean < 100 THEN 100 ELSE mean]

\* A candidate for a subject of some weight: a label, its headroom, the demand that
\* would be on it, and what of it is over the label's share of the whole demand,
\* which is by headroom.
Candidate(l, weight, labels, left, demand, placed) ==
    LET on == {s \in DOMAIN placed : placed[s] = l}
        all == Total(labels, left)
        projected == Total(on, demand) + weight
        share == left[l] * Total(DOMAIN demand, demand)
    IN  [label |-> l, left |-> left[l], projected |-> projected, count |-> Cardinality(on),
         overflow |-> IF projected * all > share THEN Rounded(projected * all - share, all) ELSE 0]

\* a is preferred to b: less overflow, then less demand for its headroom, ...
Preferred(a, b, short) ==
    LET ra == a.projected * b.left   rb == b.projected * a.left IN
    \/ a.overflow < b.overflow
    \/ /\ a.overflow = b.overflow
       /\ \/ ra < rb
          \/ /\ ra = rb
             /\ \/ a.left > b.left
                \/ /\ a.left = b.left
                   /\ \/ short[a.label] > short[b.label]
                      \/ /\ short[a.label] = short[b.label]
                         /\ \/ a.count < b.count
                            \/ a.count = b.count /\ a.label <= b.label

\* The hysteresis: the current label is kept when its overflow is at most a quarter
\* of the weight above that of the best, and its ratio of demand to share at most 0.15.
KeepsCurrent(cur, best, weight, labels, left, demand) ==
    /\ 4 * cur.overflow <= 4 * best.overflow + weight
    /\ 20 * cur.projected * Total(labels, left) * best.left
         <= 20 * best.projected * Total(labels, left) * cur.left
            + 3 * cur.left * best.left * Total(DOMAIN demand, demand)

\* The order of planning: the heaviest subject first, of equal ones those that have an
\* eligible label.
Earlier(a, b, labels, demand, current) ==
    \/ demand[a] > demand[b]
    \/ /\ demand[a] = demand[b]
       /\ \/ current[a] \in labels /\ current[b] \notin labels
          \/ (current[a] \in labels) = (current[b] \in labels) /\ a <= b

NextPlanned(S, labels, demand, current) ==
    CHOOSE s \in S : \A t \in S : Earlier(s, t, labels, demand, current)

\* The label of a subject when some subjects have been placed: the current one if it
\* is kept, else the best.
Selection(s, placed, labels, left, short, demand, current) ==
    LET candidates == {Candidate(l, demand[s], labels, left, demand, placed) : l \in labels}
        best == CHOOSE a \in candidates : \A b \in candidates : Preferred(a, b, short)
    IN  IF \E c \in candidates :
             c.label = current[s] /\ KeepsCurrent(c, best, demand[s], labels, left, demand)
        THEN current[s] ELSE best.label

\* planWeightedPoolAssignments, for labels with some headroom: by subject its label.
\* placed[n] are the first n subjects with their labels.
PlanAssignments(labels, left, short, demand, current) ==
    LET place(placed) ==
            LET s == NextPlanned(DOMAIN demand \ DOMAIN placed, labels, demand, current)
            IN  [t \in DOMAIN placed \cup {s} |->
                    IF t = s THEN Selection(s, placed, labels, left, short, demand, current)
                    ELSE placed[t]]
        placed[n \in 0..Cardinality(DOMAIN demand)] ==
            IF n = 0 THEN [t \in {} |-> 0] ELSE place(placed[n - 1])
    IN  placed[Cardinality(DOMAIN demand)]
=============================================================================
